----------------------------- MODULE Dashboard -----------------------------
(***************************************************************************)
(* apps/web/src: one browser tab (App, Login, Dashboard) against a server  *)
(* that keeps one coupon per user and campaign.  Every fetch is taken by   *)
(* the server at some moment and its answer applied at a later one, and    *)
(* answers of different fetches overtake each other.                       *)
(*                                                                         *)
(* A task is one run of refresh() on mount or of onIssue() after a click.  *)
(* It is at "post", "list" or "mine" when that fetch is on its way to the  *)
(* server, at "listed" or "mined" when the answer is on its way back.  The *)
(* answer to a POST is only logged, so it is back as soon as it is given.  *)
(* The token is read from localStorage whenever a fetch is sent, and other *)
(* tabs may have put another one there.                                    *)
(***************************************************************************)
EXTENDS Integers, FiniteSets

CONSTANTS
  Users, Campaigns,
  Nobody,          \* no token, no campaign
  MaxTasks,        \* bound: tasks under way at once
  Polls,           \* bound: polls under way at once
  Contested,       \* bound: the campaigns that other users take coupons of
  MaxChanges,      \* bound: campaigns selling out or getting a slot back
  MaxMishaps       \* bound: fetches that fail, tokens replaced by another tab

ASSUME NobodyAssumption == Nobody \notin Users \cup Campaigns
ASSUME ContestedAssumption == Contested \subseteq Campaigns
ASSUME BoundsAssumption ==
  MaxTasks \in Nat \ {0} /\ {MaxChanges, MaxMishaps} \subseteq Nat

VARIABLES
  accounts,        \* the users that log in or register in this browser
  coupons,         \* the server: the coupons there are, <<user, campaign>>
  left,            \* the server: the campaigns with remaining > 0
  adrift,          \* the coupons asked for by a page that is gone
  token,           \* localStorage: whose token it holds
  session,         \* App: whose token was set when this page was entered
  shown,           \* Dashboard: the campaigns shown with remaining > 0
  mine,            \* Dashboard: coupons
  busyId,          \* Dashboard: busyId
  task, poll,
  changes, switches, failures,
  crossed,         \* history: clicks of two campaigns overlap since one was under way
  behind           \* history: an older list of coupons has replaced a newer one on this
                   \*          page, or a page that is gone got a coupon, and no complete
                   \*          list has been shown since

serverVars == <<accounts, coupons, left, adrift>>
pageVars == <<session, shown, mine, busyId>>
countVars == <<changes, switches, failures>>
historyVars == <<crossed, behind>>
tabVars == <<serverVars, token, pageVars, task, poll, countVars, historyVars>>

NoPoll == [at |-> "idle", got |-> {}]
Idle == [at |-> "idle", camp |-> Nobody, by |-> Nobody, got |-> {}]
Slots == 1 .. MaxTasks
Points == {"idle", "post", "list", "listed", "mine", "mined"}
Underway(s) == task[s].at # "idle"
FirstFree(s) == ~Underway(s) /\ \A x \in Slots : x < s => Underway(x)
Clicked == {s \in Slots : Underway(s) /\ task[s].camp # Nobody}
Owned(u) == {c \in coupons : c[1] = u}

TabInit ==
  /\ accounts \in SUBSET Users
  /\ coupons = {} /\ left \in SUBSET Campaigns /\ adrift = {}
  /\ token = Nobody
  /\ session = Nobody /\ shown = {} /\ mine = {} /\ busyId = Nobody
  /\ task = [s \in Slots |-> Idle]
  /\ poll = [p \in Polls |-> NoPoll]
  /\ changes = 0 /\ switches = 0 /\ failures = 0
  /\ crossed = FALSE /\ behind = FALSE

-----------------------------------------------------------------------------
(* The page.                                                               *)

(* The posts of a page that goes away still reach the server.              *)
Abandon ==
  LET posts == {<<task[s].by, task[s].camp>> : s \in {x \in Slots : task[x].at = "post"}}
  IN  adrift' = adrift \cup {x \in posts : x[1] # Nobody}

(* Mutant of Enter: what is shown is kept when the session changes.        *)
EnterKeepsCoupons(u) ==
  /\ session' = u
  /\ shown' = {} /\ busyId' = Nobody
  /\ poll' = [p \in Polls |-> NoPoll]
  /\ task' = [s \in Slots |->
                IF s = 1 /\ u # Nobody THEN [Idle EXCEPT !.at = "list"] ELSE Idle]
  /\ UNCHANGED mine
  /\ crossed' = FALSE /\ behind' = FALSE

(* A page without a session shows Login, one with a session a Dashboard    *)
(* that has just been mounted: empty, its first refresh() under way.       *)
Enter(u) ==
  /\ session' = u
  /\ shown' = {} /\ mine' = {} /\ busyId' = Nobody
  /\ poll' = [p \in Polls |-> NoPoll]
  /\ task' = [s \in Slots |->
                IF s = 1 /\ u # Nobody THEN [Idle EXCEPT !.at = "list"] ELSE Idle]
  /\ crossed' = FALSE /\ behind' = FALSE

(* login() or register() has answered with a token and not with an error.  *)
Authenticated(u) == u \in accounts

(* Login.onSubmit: setToken, then onAuthed.                                *)
LogIn(u) ==
  /\ Authenticated(u)
  /\ session = Nobody
  /\ token' = u
  /\ Enter(u)
  /\ UNCHANGED <<serverVars, countVars>>

LogOut ==
  /\ session # Nobody
  /\ token' = Nobody
  /\ Abandon
  /\ Enter(Nobody)
  /\ UNCHANGED <<accounts, coupons, left, countVars>>

(* The page is loaded again: App starts from getToken().                   *)
Reload ==
  /\ session # Nobody \/ token # Nobody
  /\ Abandon
  /\ Enter(token)
  /\ UNCHANGED <<accounts, coupons, left, token, countVars>>

(* Another tab logs out or in.                                             *)
OtherTab ==
  /\ switches + failures < MaxMishaps
  /\ switches' = switches + 1
  /\ token' \in (accounts \cup {Nobody}) \ {token}
  /\ UNCHANGED <<serverVars, pageVars, task, poll, changes, failures, historyVars>>

(* Mutant of Click: the button is not disabled while it is busy.           *)
ClickAlways(s, c) ==
  /\ FirstFree(s)
  /\ c \in shown
  /\ busyId' = c
  /\ task' = [task EXCEPT ![s] = [Idle EXCEPT !.at = "post", !.camp = c, !.by = token]]
  /\ crossed' = (crossed \/ \E x \in Clicked : task[x].camp # c)
  /\ UNCHANGED <<serverVars, token, session, shown, mine, poll, countVars, behind>>

(* onIssue(c), from a button that is shown and neither sold out nor busy:  *)
(* setBusyId, then the POST with the token of this moment.                 *)
Click(s, c) ==
  /\ FirstFree(s)
  /\ c \in shown
  /\ busyId # c
  /\ busyId' = c
  /\ task' = [task EXCEPT ![s] = [Idle EXCEPT !.at = "post", !.camp = c, !.by = token]]
  /\ crossed' = (crossed \/ \E x \in Clicked : task[x].camp # c)
  /\ UNCHANGED <<serverVars, token, session, shown, mine, poll, countVars, behind>>

-----------------------------------------------------------------------------
(* The server.                                                             *)

(* The issue route, seen from outside: a coupon of the token's user unless *)
(* there is one, or none is left, or nobody is logged in.                  *)
Issue(u, c) ==
  \/ /\ u # Nobody /\ c \in left
     /\ coupons' = coupons \cup {<<u, c>>}
  \/ UNCHANGED coupons

(* Mutant of TakePost: refresh() is not called after the answer.           *)
TakePostNoRefresh(s) ==
  /\ task[s].at = "post"
  /\ Issue(task[s].by, task[s].camp)
  /\ task' = [task EXCEPT ![s] = Idle]
  /\ busyId' = Nobody
  /\ UNCHANGED <<accounts, left, adrift, token, session, shown, mine, poll, countVars, historyVars>>

(* The POST is carried out and answered; whatever the answer is, refresh() *)
(* begins: listCampaigns.                                                  *)
TakePost(s) ==
  /\ task[s].at = "post"
  /\ Issue(task[s].by, task[s].camp)
  /\ task' = [task EXCEPT ![s].at = "list", ![s].by = Nobody]
  /\ UNCHANGED <<accounts, left, adrift, token, pageVars, poll, countVars, historyVars>>

TakeList(s) ==
  /\ task[s].at = "list"
  /\ task' = [task EXCEPT ![s].at = "listed", ![s].got = left]
  /\ UNCHANGED <<serverVars, token, pageVars, poll, countVars, historyVars>>

(* requireAuth lets a request through that carries a token.                *)
Authorized(s) == task[s].by # Nobody

(* GET /api/coupons/mine: the coupons of the token's user, or a 401 that   *)
(* ends the refresh (FetchFails).                                          *)
TakeMine(s) ==
  /\ task[s].at = "mine"
  /\ Authorized(s)
  /\ task' = [task EXCEPT ![s].at = "mined", ![s].got = Owned(task[s].by)]
  /\ UNCHANGED <<serverVars, token, pageVars, poll, countVars, historyVars>>

(* setInterval: a poll is sent whether or not earlier ones are back.  It   *)
(* carries no token: it is there once the server takes it.                 *)
TakePoll(p) ==
  /\ session # Nobody
  /\ poll[p].at = "idle"
  /\ poll' = [poll EXCEPT ![p] = [at |-> "back", got |-> left]]
  /\ UNCHANGED <<serverVars, token, pageVars, task, countVars, historyVars>>

TakeAdrift ==
  /\ \E x \in adrift : Issue(x[1], x[2]) /\ adrift' = adrift \ {x}
  /\ behind' = (behind \/ coupons' # coupons)
  /\ UNCHANGED <<accounts, left, token, pageVars, task, poll, countVars, crossed>>

(* Other users take what is left, or a slot they took is given back.       *)
Remaining(c) ==
  /\ changes < MaxChanges
  /\ changes' = changes + 1
  /\ left' = IF c \in left THEN left \ {c} ELSE left \cup {c}
  /\ UNCHANGED <<accounts, coupons, adrift, token, pageVars, task, poll, switches, failures, historyVars>>

-----------------------------------------------------------------------------
(* What the page does with the answers.                                    *)

(* setCampaigns, then getMyCoupons with the token of this moment.          *)
Listed(s) ==
  /\ task[s].at = "listed"
  /\ shown' = task[s].got
  /\ task' = [task EXCEPT ![s].at = "mine", ![s].by = token, ![s].got = {}]
  /\ UNCHANGED <<serverVars, token, session, mine, busyId, poll, countVars, historyVars>>

(* The task is over; onIssue clears busyId, whoever has set it since.      *)
Finish(s) ==
  /\ crossed' = (crossed /\ Clicked # {s})
  /\ task' = [task EXCEPT ![s] = Idle]
  /\ busyId' = IF task[s].camp # Nobody THEN Nobody ELSE busyId

(* setCoupons                                                              *)
Mined(s) ==
  /\ task[s].at = "mined"
  /\ mine' = task[s].got
  /\ behind' = \/ \E c \in mine : c[1] = task[s].by /\ c \notin task[s].got
               \/ behind /\ task[s].got # Owned(task[s].by)
  /\ Finish(s)
  /\ UNCHANGED <<serverVars, token, session, shown, poll, countVars>>

(* A fetch fails, or is answered with an error: it is logged.  A failing   *)
(* POST may have been carried out (Issue) before its answer was lost; that *)
(* a GET was is all the same.                                              *)
FetchFails(s) ==
  /\ task[s].at \in {"post", "list", "mine"}
  /\ IF task[s].at = "mine" /\ ~Authorized(s)
     THEN UNCHANGED failures
     ELSE switches + failures < MaxMishaps /\ failures' = failures + 1
  /\ Finish(s)
  /\ IF task[s].at = "post" THEN Issue(task[s].by, task[s].camp) ELSE UNCHANGED coupons
  /\ UNCHANGED <<accounts, left, adrift, token, session, shown, mine, poll, changes, switches, behind>>

(* Mutant of Polled: the list is kept when one is shown already.           *)
PolledOnce(p) ==
  /\ poll[p].at = "back"
  /\ shown' = IF shown = {} THEN poll[p].got ELSE shown
  /\ poll' = [poll EXCEPT ![p] = NoPoll]
  /\ UNCHANGED <<serverVars, token, session, mine, busyId, task, countVars, historyVars>>

Polled(p) ==
  /\ poll[p].at = "back"
  /\ shown' = poll[p].got
  /\ poll' = [poll EXCEPT ![p] = NoPoll]
  /\ UNCHANGED <<serverVars, token, session, mine, busyId, task, countVars, historyVars>>

PollFails(p) ==
  /\ poll[p].at # "idle"
  /\ switches + failures < MaxMishaps
  /\ failures' = failures + 1
  /\ poll' = [poll EXCEPT ![p] = NoPoll]
  /\ UNCHANGED <<serverVars, token, pageVars, task, changes, switches, historyVars>>

-----------------------------------------------------------------------------
ServerStep(s) == TakePost(s) \/ TakeList(s) \/ TakeMine(s)
PageStep(s) == Listed(s) \/ Mined(s)
PollStep(p) == TakePoll(p) \/ Polled(p)

TabNext ==
  \/ \E u \in Users : LogIn(u)
  \/ LogOut
  \/ Reload
  \/ OtherTab
  \/ \E s \in Slots, c \in Campaigns : Click(s, c)
  \/ \E s \in Slots : ServerStep(s) \/ PageStep(s) \/ FetchFails(s)
  \/ \E p \in Polls : PollStep(p) \/ PollFails(p)
  \/ TakeAdrift
  \/ \E c \in Contested : Remaining(c)

TabSpec == TabInit /\ [][TabNext]_tabVars

(* The interval timer goes on as long as the page is there, the server     *)
(* answers polls and the event loop runs their continuations.  Nothing     *)
(* else has to happen.                                                     *)
FairTabSpec == TabSpec /\ \A p \in Polls : WF_tabVars(PollStep(p))

-----------------------------------------------------------------------------
TabTypeOK ==
  /\ accounts \subseteq Users
  /\ coupons \subseteq accounts \X Campaigns
  /\ left \subseteq Campaigns
  /\ adrift \subseteq accounts \X Campaigns
  /\ {token, session} \subseteq accounts \cup {Nobody}
  /\ shown \subseteq Campaigns
  /\ mine \subseteq coupons
  /\ busyId \in Campaigns \cup {Nobody}
  /\ task \in [Slots -> [at : Points, camp : Campaigns \cup {Nobody},
                         by : accounts \cup {Nobody},
                         got : SUBSET (Campaigns \cup coupons)]]
  /\ poll \in [Polls -> [at : {"idle", "back"}, got : SUBSET Campaigns]]
  /\ {changes, switches, failures} \subseteq Nat
  /\ crossed \in BOOLEAN /\ behind \in BOOLEAN

(* What the page shows belongs to one user, whatever other tabs do to the  *)
(* token.  As long as they leave it alone that is the user of the session  *)
(* the page is in, whose token every fetch carries; once they have not,    *)
(* the page shows, and issues to, the user whose token it finds            *)
(* (api.ts:28-31, App.tsx:8-13).                                           *)
TabShowsItsUser ==
  /\ \A c, d \in mine : c[1] = d[1]
  /\ switches = 0 =>
       /\ token = session
       /\ \A c \in mine : c[1] = session
       /\ \A s \in Slots : task[s].at \in {"post", "mine", "mined"} =>
                             task[s].by = session

(* A POST is for a campaign, and what is on its way back is what was asked *)
(* for: campaigns, or coupons of the user whose token was sent.            *)
AnswersFit ==
  \A s \in Slots :
    /\ task[s].at = "post" => task[s].camp # Nobody
    /\ task[s].at = "listed" => task[s].got \subseteq Campaigns
    /\ task[s].at = "mined" => task[s].got \subseteq Owned(task[s].by)

(* A set busy slot belongs to a click under way; while clicks of different *)
(* campaigns have not overlapped there is one click at most, and the slot  *)
(* is set to its campaign.                                                 *)
BusyAgrees ==
  /\ busyId # Nobody => \E s \in Clicked : task[s].camp = busyId
  /\ ~crossed => \A s, x \in Clicked : s = x /\ busyId = task[s].camp

(* The page shows all coupons of its user, or a refresh that will ask for  *)
(* them, or one that has all of them, is on its way.                       *)
RefreshComing ==
  session # Nobody /\ failures = 0 /\ switches = 0 /\ ~behind =>
    \/ mine = Owned(session)
    \/ \E s \in Slots :
         \/ task[s].at \in {"list", "listed", "mine"}
         \/ task[s].at = "mined" /\ task[s].got = Owned(session)

(* The inductive invariant.                                                *)
TabInv == TabTypeOK /\ TabShowsItsUser /\ AnswersFit /\ BusyAgrees /\ RefreshComing

(* The busy slot is never left set with nothing under way, and it keeps a  *)
(* second request from being sent, unless the user clicks on another       *)
(* campaign meanwhile, which the one slot does not tell apart              *)
(* (Dashboard.tsx:36-50, 73).                                              *)
BusyGuards ==
  /\ busyId # Nobody => \E s \in Clicked : task[s].camp = busyId
  /\ ~crossed => Cardinality(Clicked) <= 1

(* When the page has come to rest it shows all coupons of its user, unless *)
(* a fetch failed or another tab interfered.  An older list that came in   *)
(* last, or a coupon that a page that is gone obtained, spoils it only     *)
(* until the next list that is complete has come in                        *)
(* (Dashboard.tsx:21-28, 44).                                              *)
Settled ==
  /\ session # Nobody
  /\ \A s \in Slots : ~Underway(s)
  /\ adrift = {}
  /\ failures = 0 /\ switches = 0 /\ ~behind
  => mine = Owned(session)

(* A campaign that is sold out for good is shown so for good, in whatever  *)
(* order overlapping polls and refreshes come back (Dashboard.tsx:30-34).  *)
SoldOutShown ==
  \A c \in Campaigns : <>[](c \notin left) => <>[](c \notin shown)
=============================================================================
