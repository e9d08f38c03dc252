---------------------------- MODULE Web_proofs ----------------------------
(***************************************************************************)
(* What a user of the web application rests on: the accounts and tokens of *)
(* Auth, and the browser tab of Dashboard.                                 *)
(*                                                                         *)
(* Accounts and tokens, for any number of calls, emails and passwords:     *)
(* what a call has read of an account stays true of it, so a token never   *)
(* says more than the table, and what it says less was read before a       *)
(* promotion.  The tab, for any number of users, campaigns, tasks and      *)
(* polls: it shows its own user's coupons, its busy slot guards, and it    *)
(* settles on the truth.                                                   *)
(***************************************************************************)
EXTENDS Auth, Dashboard, FiniteSetTheorems, TLAPS

(* A row that was read before a promotion belongs to a call on record.     *)
RowsExplained ==
  \A c \in Calls :
    row[c] # NoRow /\ row[c].role # Account(c).role => c \in overtaken

(* What the outcomes say; the unique index makes REGISTERED exclusive.     *)
OutcomesTrue ==
  \A c, d \in Calls :
    /\ pc[c] = "CONFLICT" => Account(c) # NoRow
    /\ pc[c] = "REGISTERED" /\ pc[d] = "REGISTERED"
         /\ call[c].email = call[d].email => c = d

LEMMA InitInv ==
  Init => AuthInv /\ RowsExplained /\ OutcomesTrue /\ OnlyAdminsCreate
BY DEF Init, AuthInv, TypeOK, RowsLast, RowsExplained, OutcomesTrue,
       OnlyAdminsCreate, Labels, Outcomes

LEMMA RowFields ==
  \A x \in Rows : x # NoRow /\ x.password \in Passwords /\ x.role \in Roles
BY NoRowAssumption DEF Rows, Roles

(* The steps that move a call and touch neither accounts nor what is known *)
(* of them.                                                                *)
LEMMA TellSteps ==
  ASSUME TypeOK, NEW c \in Calls,
         \/ Register(c) \/ NestRegister(c) \/ Hashed(c) \/ Login(c)
         \/ NestLogin(c) \/ Unauthenticated(c) \/ NestAskCampaign(c)
         \/ CreateCampaign(c) \/ Fail(c)
  PROVE  \E l \in (Labels \cup Outcomes) \ {"compare", "REGISTERED", "LOGGED_IN",
                                            "CONFLICT", "createCampaign"} :
           /\ Tell(c, l)
           /\ pc[c] \notin {"REGISTERED", "LOGGED_IN"}
           /\ l = "CREATED" => pc[c] = "createCampaign"
BY DEF Register, NestRegister, Hashed, Login, NestLogin, Unauthenticated,
       NestAskCampaign, CreateCampaign, Fail, Arrives, Parsed, Labels, Outcomes

LEMMA NextInv ==
  ASSUME AuthInv, RowsExplained, OutcomesTrue, OnlyAdminsCreate, [Next]_vars
  PROVE  AuthInv' /\ RowsExplained' /\ OutcomesTrue' /\ OnlyAdminsCreate'
<1> USE DEF AuthInv, TypeOK, RowsLast, Account
<1>1. CASE UNCHANGED vars
  BY <1>1 DEF vars, RowsExplained, OutcomesTrue, OnlyAdminsCreate
<1>2. CASE SeedAdmin
  BY <1>2, RowFields, AccountAssumption
  DEF SeedAdmin, RowsExplained, OutcomesTrue, OnlyAdminsCreate, Rows, Roles
<1>3. ASSUME NEW c \in Calls,
             NEW l \in (Labels \cup Outcomes) \ {"compare", "REGISTERED",
                        "LOGGED_IN", "CONFLICT", "createCampaign"},
             Tell(c, l), pc[c] \notin {"REGISTERED", "LOGGED_IN"},
             l = "CREATED" => pc[c] = "createCampaign"
      PROVE  AuthInv' /\ RowsExplained' /\ OutcomesTrue' /\ OnlyAdminsCreate'
  BY <1>3 DEF Tell, Goto, RowsExplained, OutcomesTrue, OnlyAdminsCreate
<1>4. ASSUME NEW c \in Calls, InsertUser(c)
      PROVE  AuthInv' /\ RowsExplained' /\ OutcomesTrue' /\ OnlyAdminsCreate'
  <2> DEFINE new == [password |-> call[c].password, role |-> "USER"]
             e == call[c].email
  <2>0. new \in Rows /\ e \in Emails /\ pc[c] = "insert" /\ claim[c] = "none"
    BY <1>4 DEF InsertUser, Rows, Roles
  <2>1. CASE account[e] # NoRow
    BY <1>4, <2>0, <2>1
    DEF InsertUser, Tell, Goto, RowsExplained, OutcomesTrue, OnlyAdminsCreate,
        Outcomes
  <2>2. CASE account[e] = NoRow
    (* No call has read this row, and none was told anything about it.     *)
    <3>1. \A d \in Calls : call[d].email = e =>
            row[d] = NoRow /\ claim[d] = "none" /\ pc[d] \notin {"REGISTERED", "CONFLICT"}
      BY <2>2 DEF OutcomesTrue
    <3>2. /\ account' = [account EXCEPT ![e] = new]
          /\ UNCHANGED <<call, expired, bearer, overtaken>>
          /\ \/ /\ pc' = [pc EXCEPT ![c] = "REGISTERED"]
                /\ row' = [row EXCEPT ![c] = new]
                /\ claim' = [claim EXCEPT ![c] = "USER"]
             \/ /\ pc' = [pc EXCEPT ![c] = "FAILED"]
                /\ UNCHANGED <<row, claim>>
      BY <1>4, <2>2 DEF InsertUser, Sign, Goto
    <3>3. TypeOK'
      <4> HIDE DEF new, e
      <4>1. account' \in [Emails -> Rows \cup {NoRow}]
        BY <2>0, <3>2
      <4>2. row' \in [Calls -> Rows \cup {NoRow}]
        BY <2>0, <3>2
      <4>3. claim' \in [Calls -> Roles \cup {"none"}]
        BY <3>2 DEF Roles
      <4>4. pc' \in [Calls -> Labels \cup Outcomes]
        BY <3>2 DEF Outcomes
      <4>5. QED  BY <3>2, <4>1, <4>2, <4>3, <4>4
    <3>4. new # NoRow
      BY <2>0, RowFields
    <3>5. RowsLast'
      BY <2>0, <3>1, <3>2, <3>4
    <3>6. RowsExplained'
      BY <2>0, <3>1, <3>2 DEF RowsExplained
    <3>7. OutcomesTrue'
      BY <2>0, <3>1, <3>2, <3>4 DEF OutcomesTrue
    <3>8. OnlyAdminsCreate'
      BY <2>0, <2>2, <3>2 DEF OnlyAdminsCreate
    <3>9. QED  BY <3>3, <3>5, <3>6, <3>7, <3>8
  <2>3. QED  BY <2>1, <2>2
<1>5. ASSUME NEW c \in Calls, Find(c)
      PROVE  AuthInv' /\ RowsExplained' /\ OutcomesTrue' /\ OnlyAdminsCreate'
  BY <1>5, RowFields DEF Find, Goto, RowsExplained, OutcomesTrue, OnlyAdminsCreate, Labels, Outcomes
<1>6. ASSUME NEW c \in Calls, Compare(c)
      PROVE  AuthInv' /\ RowsExplained' /\ OutcomesTrue' /\ OnlyAdminsCreate'
  <2>0. pc[c] = "compare" /\ row[c] # NoRow /\ row[c] \in Rows
    BY <1>6 DEF Compare
  <2>1. CASE row[c].password = call[c].password
    <3>1. /\ pc' = [pc EXCEPT ![c] = "LOGGED_IN"]
          /\ claim' = [claim EXCEPT ![c] = row[c].role]
          /\ row' = row
          /\ UNCHANGED <<call, account, expired, bearer, overtaken>>
      BY <1>6, <2>1 DEF Compare, Sign, Goto
    <3>2. TypeOK'
      BY <2>0, <3>1, RowFields DEF Outcomes
    <3>3. row[c].role \in Roles /\ row[c].role # "none"
      BY <2>0, RowFields DEF Roles
    <3>4. RowsLast'
      BY <2>0, <2>1, <3>1, <3>3
    <3>5. RowsExplained' /\ OutcomesTrue' /\ OnlyAdminsCreate'
      BY <2>0, <3>1 DEF RowsExplained, OutcomesTrue, OnlyAdminsCreate
    <3>6. QED  BY <3>2, <3>4, <3>5
  <2>2. CASE row[c].password # call[c].password
    BY <1>3, <1>6, <2>0, <2>2 DEF Compare, Outcomes
  <2>3. QED  BY <2>1, <2>2
<1>7. ASSUME NEW c \in Calls, AskCampaign(c)
      PROVE  AuthInv' /\ RowsExplained' /\ OutcomesTrue' /\ OnlyAdminsCreate'
  <2>1. PICK t \in Calls, l \in {"createCampaign", "FORBIDDEN", "BAD_REQUEST"} :
          /\ bearer' = [bearer EXCEPT ![c] = t]
          /\ pc' = [pc EXCEPT ![c] = l]
          /\ pc[c] = "start"
          /\ l = "createCampaign" => claim[t] = "ADMIN"
          /\ UNCHANGED <<call, account, row, claim, expired, overtaken>>
    BY <1>7 DEF AskCampaign, Admit, Arrives, Goto
  (* The token was signed from a row that the table still agrees with.     *)
  <2>2. claim[t] = "ADMIN" => Account(t) # NoRow /\ Account(t).role = "ADMIN"
    OBVIOUS
  <2>3. AuthInv' /\ RowsExplained' /\ OutcomesTrue'
    BY <2>1 DEF RowsExplained, OutcomesTrue, Labels, Outcomes
  <2>4. OnlyAdminsCreate'
    BY <2>1, <2>2 DEF OnlyAdminsCreate
  <2>5. QED  BY <2>3, <2>4
<1>8. ASSUME NEW c \in Calls, Expire(c)
      PROVE  AuthInv' /\ RowsExplained' /\ OutcomesTrue' /\ OnlyAdminsCreate'
  BY <1>8 DEF Expire, RowsExplained, OutcomesTrue, OnlyAdminsCreate
<1>9. QED
  BY <1>1, <1>2, <1>3, <1>4, <1>5, <1>6, <1>7, <1>8, TellSteps DEF Next

LEMMA Inductive ==
  Spec => [](AuthInv /\ RowsExplained /\ OutcomesTrue /\ OnlyAdminsCreate)
<1> DEFINE I == AuthInv /\ RowsExplained /\ OutcomesTrue /\ OnlyAdminsCreate
<1>1. Init => I
  BY InitInv
<1>2. I /\ [Next]_vars => I'
  BY NextInv
<1> HIDE DEF I
<1>3. Spec => []I
  BY <1>1, <1>2, PTL DEF Spec
<1>4. QED  BY <1>3 DEF I

(* What a call has read of an account stays true of it: no step deletes an *)
(* account, changes its password or demotes it (seed.ts:44-48,             *)
(* auth.ts:48-63).                                                         *)
THEOREM Invariance == Spec => []AuthInv
<1>1. QED  BY Inductive, PTL

(* An email is registered once, whichever servers race for it, and whoever *)
(* is told so has an account with the password of that call                *)
(* (routes/auth.ts:29-43, auth.controller.ts:38-52).                       *)
THEOREM AnswersAreTrue == Spec => []AnswersTrue
<1>1. AuthInv /\ OutcomesTrue => AnswersTrue
  BY RowFields DEF AuthInv, RowsLast, OutcomesTrue, AnswersTrue
<1>2. QED  BY <1>1, Inductive, PTL

(* Nobody but admins creates campaigns, although only tokens are looked at *)
(* (requireAuth.ts:90, campaigns.ts:48-59).                                *)
THEOREM AdminsOnly == Spec => []OnlyAdminsCreate
<1>1. QED  BY Inductive, PTL

(* A token that says less than the table was signed from a row read before *)
(* the promotion (routes/auth.ts:60-69, requireAuth.ts:43).                *)
THEOREM StaleTokensExplained == Spec => []StaleExplained
<1>1. AuthInv /\ RowsExplained => StaleExplained
  BY DEF AuthInv, RowsLast, RowsExplained, StaleExplained
<1>2. QED  BY <1>1, Inductive, PTL

-----------------------------------------------------------------------------
(* The browser tab, for any number of users, campaigns, tasks and polls,   *)
(* answers overtaking each other in any order.                             *)

LEMMA TabInvInit == TabInit => TabInv
<1> SUFFICES ASSUME TabInit PROVE TabInv
  OBVIOUS
<1> USE DEF TabInit
<1>1. /\ Idle.at = "idle" /\ Idle.camp = Nobody /\ Idle.got = {}
      /\ Idle \in [at : Points, camp : Campaigns \cup {Nobody},
                   by : accounts \cup {Nobody}, got : SUBSET (Campaigns \cup coupons)]
  BY DEF Idle, Points
<1>2. NoPoll \in [at : {"idle", "back"}, got : SUBSET Campaigns]
  BY DEF NoPoll
<1> HIDE DEF Idle, NoPoll
<1>3. TabTypeOK
  <2>1. task \in [Slots -> [at : Points, camp : Campaigns \cup {Nobody},
                           by : accounts \cup {Nobody},
                           got : SUBSET (Campaigns \cup coupons)]]
    BY <1>1
  <2>2. poll \in [Polls -> [at : {"idle", "back"}, got : SUBSET Campaigns]]
    BY <1>2
  <2>3. /\ coupons \subseteq accounts \X Campaigns /\ adrift \subseteq accounts \X Campaigns
        /\ mine \subseteq coupons /\ shown \subseteq Campaigns /\ left \subseteq Campaigns
        /\ accounts \subseteq Users
    OBVIOUS
  <2>4. {changes, switches, failures} \subseteq Nat
    OBVIOUS
  <2>5. crossed \in BOOLEAN /\ behind \in BOOLEAN
    OBVIOUS
  <2> HIDE DEF TabInit
  <2>6. {token, session} \subseteq accounts \cup {Nobody} /\ busyId \in Campaigns \cup {Nobody}
    BY DEF TabInit
  <2>7. QED  BY <2>1, <2>2, <2>3, <2>4, <2>5, <2>6 DEF TabTypeOK
<1>4. TabShowsItsUser /\ AnswersFit /\ BusyAgrees /\ RefreshComing
  BY <1>1 DEF TabShowsItsUser, AnswersFit, BusyAgrees, RefreshComing, Clicked, Underway
<1>5. QED  BY <1>3, <1>4 DEF TabInv

(* A page that has just been entered knows nothing and, if somebody is     *)
(* logged in, has asked for everything.                                    *)
LEMMA EnterKeeps ==
  ASSUME TabInv, NEW u \in accounts \cup {Nobody}, Enter(u), token' = u,
         UNCHANGED <<accounts, coupons, left, countVars>>,
         adrift' \subseteq accounts \X Campaigns
  PROVE  TabInv'
<1> USE DEF TabInv, TabTypeOK, Enter
<1>1. /\ 1 \in Slots
      /\ \A s \in Slots :
           task'[s] = IF s = 1 /\ u # Nobody THEN [Idle EXCEPT !.at = "list"] ELSE Idle
  BY BoundsAssumption DEF Slots
<1>2. \A s \in Slots :
        /\ task'[s].at \in {"idle", "list"} /\ task'[s].camp = Nobody
        /\ task'[s].by = Nobody /\ task'[s].got = {}
  BY <1>1 DEF Idle
<1>3. TabTypeOK'
  <2>1. task' \in [Slots -> [at : Points, camp : Campaigns \cup {Nobody},
                             by : accounts \cup {Nobody},
                             got : SUBSET (Campaigns \cup coupons)]]
    BY <1>1 DEF Idle, Points
  <2>2. poll' \in [Polls -> [at : {"idle", "back"}, got : SUBSET Campaigns]]
    BY DEF NoPoll
  <2>3. QED  BY <2>1, <2>2 DEF countVars
<1>4. TabShowsItsUser' /\ AnswersFit' /\ BusyAgrees'
  BY <1>2 DEF TabShowsItsUser, AnswersFit, BusyAgrees, Clicked
<1>5. RefreshComing'
  BY <1>1 DEF RefreshComing, Idle
<1>6. QED  BY <1>3, <1>4, <1>5

(* The POSTs of a page that goes away ask for coupons that may be made.    *)
LEMMA AbandonFits ==
  ASSUME TabInv, Abandon
  PROVE  adrift' \subseteq accounts \X Campaigns
BY DEF TabInv, TabTypeOK, Abandon, AnswersFit

(* What the server does for a user and a campaign it knows.                *)
LEMMA IssueAdds ==
  ASSUME TabInv, NEW u \in accounts \cup {Nobody}, NEW c \in Campaigns, Issue(u, c)
  PROVE  coupons \subseteq coupons' /\ coupons' \subseteq accounts \X Campaigns
BY DEF TabInv, TabTypeOK, Issue

(* One task moves to another point of its refresh.                         *)
LEMMA TaskFields ==
  ASSUME TabInv, NEW s \in Slots
  PROVE  /\ task[s].at \in Points /\ task[s].camp \in Campaigns \cup {Nobody}
         /\ task[s].by \in accounts \cup {Nobody}
         /\ task[s].got \subseteq Campaigns \cup coupons
BY DEF TabInv, TabTypeOK

(* A task that is over leaves the page as it was; if it was a click, the   *)
(* busy slot is cleared.                                                   *)
LEMMA FinishKeeps ==
  ASSUME TabInv, NEW s \in Slots, task[s].at # "idle", Finish(s),
         UNCHANGED <<accounts, left, token, session, shown, poll>>, adrift' = adrift,
         coupons \subseteq coupons', coupons' \subseteq accounts \X Campaigns,
         mine' \subseteq coupons', {changes', switches', failures'} \subseteq Nat,
         behind' \in BOOLEAN
  PROVE  /\ TabTypeOK' /\ AnswersFit' /\ BusyAgrees'
         /\ task'[s] = Idle /\ \A x \in Slots \ {s} : task'[x] = task[x]
         /\ task'[s].at = "idle"
<1> USE DEF TabInv
<1>1. /\ task'[s] = Idle /\ \A x \in Slots \ {s} : task'[x] = task[x]
      /\ Idle.at = "idle" /\ Idle.camp = Nobody /\ Idle.by = Nobody /\ Idle.got = {}
      /\ Idle \in [at : Points, camp : Campaigns \cup {Nobody},
                   by : accounts \cup {Nobody}, got : SUBSET (Campaigns \cup coupons)]
      /\ task' = [task EXCEPT ![s] = Idle]
      /\ crossed' = (crossed /\ Clicked # {s})
      /\ busyId' = IF task[s].camp # Nobody THEN Nobody ELSE busyId
  BY DEF Finish, TabTypeOK, Idle, Points
<1> HIDE DEF Idle
<1>2. Clicked' = Clicked \ {s}
  BY <1>1 DEF Clicked, Underway
<1>3. TabTypeOK'
  BY <1>1 DEF TabTypeOK
<1>4. AnswersFit'
  BY <1>1 DEF AnswersFit, Owned
<1>5. BusyAgrees'
  <2>1. CASE s \in Clicked
    <3>1. busyId' = Nobody
      BY <1>1, <2>1 DEF Clicked
    <3>2. ~crossed' => Clicked' = {}
      BY <1>1, <1>2, <2>1 DEF BusyAgrees
    <3>3. QED  BY <3>1, <3>2 DEF BusyAgrees
  <2>2. CASE s \notin Clicked
    <3>1. Clicked' = Clicked /\ Clicked # {s}
      BY <1>2, <2>2
    <3>3. \A x \in Clicked : x \in Slots \ {s} /\ task'[x] = task[x]
      BY <1>1, <2>2 DEF Clicked
    <3>4. busyId' = busyId
      BY <1>1, <2>2 DEF Clicked, Underway
    <3>5. QED  BY <1>1, <3>1, <3>3, <3>4 DEF BusyAgrees
  <2>3. QED  BY <2>1, <2>2
<1>6. QED  BY <1>1, <1>3, <1>4, <1>5

(* A task goes on with its refresh: the click it belongs to stays one, and *)
(* a refresh that is coming is still coming.                               *)
LEMMA QuietMove ==
  ASSUME TabInv, NEW s \in Slots, NEW new,
         new \in [at : Points, camp : Campaigns \cup {Nobody},
                 by : accounts \cup {Nobody}, got : SUBSET (Campaigns \cup coupons)],
         task' = [task EXCEPT ![s] = new], task[s].at # "idle",
         new.camp = task[s].camp, new.at \notin {"idle", "post"},
         switches = 0 /\ new.at \in {"mine", "mined"} => new.by = session,
         new.at = "listed" => new.got \subseteq Campaigns,
         new.at = "mined" => new.got = Owned(new.by),
         shown' \subseteq Campaigns,
         UNCHANGED <<serverVars, token, session, mine, busyId, poll, countVars, historyVars>>
  PROVE  TabInv'
<1> USE DEF TabInv
<1>1. task'[s] = new /\ \A x \in Slots \ {s} : task'[x] = task[x]
  BY DEF TabTypeOK
<1>2. Clicked' = Clicked
  BY <1>1 DEF Clicked, Underway
<1>3. TabTypeOK'
  BY DEF TabTypeOK, serverVars, countVars, historyVars
<1>4. TabShowsItsUser' /\ AnswersFit'
  BY <1>1 DEF TabShowsItsUser, AnswersFit, serverVars, countVars, Owned
<1>5. BusyAgrees'
  BY <1>1, <1>2 DEF BusyAgrees, historyVars, Clicked
<1>6. RefreshComing'
  <2>1. CASE new.at = "mined"
    BY <1>1, <2>1 DEF RefreshComing, serverVars, countVars, historyVars, Owned
  <2>2. CASE new.at # "mined"
    BY <1>1, <2>2, new.at \in {"list", "listed", "mine"}
    DEF RefreshComing, Points
  <2>3. QED  BY <2>1, <2>2
<1>7. QED  BY <1>3, <1>4, <1>5, <1>6

LEMMA TabInvNext ==
  ASSUME TabInv, [TabNext]_tabVars
  PROVE  TabInv'
<1> USE DEF TabInv
<1>1. CASE UNCHANGED tabVars
  BY <1>1 DEF tabVars, serverVars, pageVars, countVars, historyVars, TabTypeOK,
     TabShowsItsUser, AnswersFit, BusyAgrees, RefreshComing, Clicked, Underway, Owned
<1>2. ASSUME NEW u \in Users, LogIn(u) PROVE TabInv'
  BY <1>2, EnterKeeps DEF LogIn, Authenticated, serverVars, TabTypeOK
<1>3. CASE LogOut
  BY <1>3, EnterKeeps, AbandonFits DEF LogOut
<1>4. CASE Reload
  BY <1>4, EnterKeeps, AbandonFits DEF Reload, TabTypeOK
<1>5. CASE OtherTab
  <2>1. switches' # 0
    BY <1>5 DEF OtherTab, TabTypeOK
  <2>2. QED
    BY <1>5, <2>1 DEF OtherTab, serverVars, pageVars, historyVars, TabTypeOK,
       TabShowsItsUser, AnswersFit, BusyAgrees, RefreshComing, Clicked, Underway, Owned
<1>6. ASSUME NEW s \in Slots, NEW c \in Campaigns, Click(s, c) PROVE TabInv'
  <2> DEFINE new == [Idle EXCEPT !.at = "post", !.camp = c, !.by = token]
  <2>1. /\ new.at = "post" /\ new.camp = c /\ new.by = token /\ new.got = {}
        /\ new \in [at : Points, camp : Campaigns \cup {Nobody},
                    by : accounts \cup {Nobody}, got : SUBSET (Campaigns \cup coupons)]
        /\ c # Nobody
    BY NobodyAssumption DEF Idle, Points, TabTypeOK
  <2>2. /\ task[s].at = "idle" /\ task' = [task EXCEPT ![s] = new]
        /\ busyId' = c /\ busyId # c
        /\ crossed' = (crossed \/ \E x \in Clicked : task[x].camp # c)
        /\ UNCHANGED <<serverVars, token, session, shown, mine, poll, countVars, behind>>
    BY <1>6 DEF Click, FirstFree, Underway
  <2> HIDE DEF new
  <2>3. task'[s] = new /\ \A x \in Slots \ {s} : task'[x] = task[x]
    BY <2>2 DEF TabTypeOK
  <2>4. Clicked' = Clicked \cup {s} /\ s \notin Clicked
    BY <2>1, <2>2, <2>3 DEF Clicked, Underway
  <2>5. TabTypeOK'
    BY <2>1, <2>2 DEF TabTypeOK, serverVars, countVars
  <2>6. TabShowsItsUser' /\ AnswersFit'
    BY <2>1, <2>2, <2>3 DEF TabShowsItsUser, AnswersFit, serverVars, countVars, Owned
  <2>7. BusyAgrees'
    <3>1. ~crossed' => Clicked = {}
      BY <2>2, TaskFields DEF BusyAgrees
    <3>2. QED  BY <2>1, <2>2, <2>3, <2>4, <3>1 DEF BusyAgrees
  <2>8. RefreshComing'
    BY <2>2, <2>3 DEF RefreshComing, serverVars, countVars, Owned
  <2>9. QED  BY <2>5, <2>6, <2>7, <2>8
<1>7. ASSUME NEW s \in Slots, TakePost(s) PROVE TabInv'
  <2> DEFINE new == [task[s] EXCEPT !.at = "list", !.by = Nobody]
  <2>1. /\ new.at = "list" /\ new.camp = task[s].camp /\ new.by = Nobody
        /\ new.got = task[s].got /\ task[s].at = "post" /\ task[s].camp \in Campaigns
        /\ new \in [at : Points, camp : Campaigns \cup {Nobody},
                    by : accounts \cup {Nobody}, got : SUBSET (Campaigns \cup coupons)]
    BY <1>7 DEF Points, TabTypeOK, TakePost, AnswersFit
  <2>2. /\ task' = [task EXCEPT ![s] = new]
        /\ UNCHANGED <<accounts, left, adrift, token, pageVars, poll, countVars, historyVars>>
    BY <1>7 DEF TakePost, TabTypeOK
  <2>3. coupons \subseteq coupons' /\ coupons' \subseteq accounts \X Campaigns
    BY <1>7, <2>1, TaskFields, IssueAdds DEF TakePost
  <2> HIDE DEF new
  <2>4. task'[s] = new /\ \A x \in Slots \ {s} : task'[x] = task[x]
    BY <2>2 DEF TabTypeOK
  <2>5. Clicked' = Clicked
    BY <2>1, <2>4 DEF Clicked, Underway
  <2>6. TabTypeOK'
    BY <2>1, <2>2, <2>3 DEF TabTypeOK, pageVars, countVars, historyVars
  <2>7. TabShowsItsUser' /\ AnswersFit'
    BY <2>1, <2>2, <2>3, <2>4
    DEF TabShowsItsUser, AnswersFit, pageVars, countVars, historyVars, Owned
  <2>8. BusyAgrees'
    BY <2>1, <2>2, <2>4, <2>5 DEF BusyAgrees, pageVars, historyVars, Clicked
  <2>9. RefreshComing'
    BY <2>1, <2>4 DEF RefreshComing
  <2>10. QED  BY <2>6, <2>7, <2>8, <2>9
<1>8. ASSUME NEW s \in Slots, TakeList(s) PROVE TabInv'
  <2> DEFINE new == [task[s] EXCEPT !.at = "listed", !.got = left]
  <2>1. /\ new.at = "listed" /\ new.camp = task[s].camp /\ new.by = task[s].by
        /\ new.got = left /\ task[s].at = "list"
        /\ new \in [at : Points, camp : Campaigns \cup {Nobody},
                    by : accounts \cup {Nobody}, got : SUBSET (Campaigns \cup coupons)]
    BY <1>8 DEF Points, TabTypeOK, TakeList
  <2>2. /\ task' = [task EXCEPT ![s] = new]
        /\ UNCHANGED <<serverVars, token, pageVars, poll, countVars, historyVars>>
    BY <1>8 DEF TakeList, TabTypeOK
  <2> HIDE DEF new
  <2>3. QED  BY <2>1, <2>2, QuietMove DEF TabTypeOK, pageVars
<1>9. ASSUME NEW s \in Slots, TakeMine(s) PROVE TabInv'
  <2> DEFINE new == [task[s] EXCEPT !.at = "mined", !.got = Owned(task[s].by)]
  <2>1. /\ new.at = "mined" /\ new.camp = task[s].camp /\ new.by = task[s].by
        /\ new.got = Owned(task[s].by) /\ task[s].at = "mine"
        /\ new \in [at : Points, camp : Campaigns \cup {Nobody},
                    by : accounts \cup {Nobody}, got : SUBSET (Campaigns \cup coupons)]
    BY <1>9 DEF Points, TabTypeOK, TakeMine, Owned
  <2>2. /\ task' = [task EXCEPT ![s] = new]
        /\ UNCHANGED <<serverVars, token, pageVars, poll, countVars, historyVars>>
    BY <1>9 DEF TakeMine, TabTypeOK
  <2>3. switches = 0 => new.by = session
    BY <2>1 DEF TabShowsItsUser
  <2> HIDE DEF new
  <2>4. QED  BY <2>1, <2>2, <2>3, QuietMove DEF TabTypeOK, pageVars
<1>10. ASSUME NEW s \in Slots, Listed(s) PROVE TabInv'
  <2> DEFINE new == [task[s] EXCEPT !.at = "mine", !.by = token, !.got = {}]
  <2>1. /\ new.at = "mine" /\ new.camp = task[s].camp /\ new.by = token
        /\ new.got = {} /\ task[s].at = "listed"
        /\ new \in [at : Points, camp : Campaigns \cup {Nobody},
                    by : accounts \cup {Nobody}, got : SUBSET (Campaigns \cup coupons)]
    BY <1>10 DEF Points, TabTypeOK, Listed
  <2>2. /\ task' = [task EXCEPT ![s] = new]
        /\ shown' = task[s].got
        /\ UNCHANGED <<serverVars, token, session, mine, busyId, poll, countVars, historyVars>>
    BY <1>10 DEF Listed, TabTypeOK
  <2>3. switches = 0 => new.by = session
    BY <2>1 DEF TabShowsItsUser
  <2> HIDE DEF new
  <2>4. shown' \subseteq Campaigns
    BY <2>1, <2>2 DEF AnswersFit
  <2>5. QED  BY <2>1, <2>2, <2>3, <2>4, QuietMove DEF pageVars
<1>11. ASSUME NEW s \in Slots, Mined(s) PROVE TabInv'
  <2>1. /\ mine' = task[s].got /\ task[s].at = "mined" /\ Finish(s)
        /\ behind' = (\/ \E c \in mine : c[1] = task[s].by /\ c \notin task[s].got
                      \/ behind /\ task[s].got # Owned(task[s].by))
        /\ UNCHANGED <<serverVars, token, session, shown, poll, countVars>>
    BY <1>11 DEF Mined
  <2>2. task[s].got \subseteq Owned(task[s].by)
    BY <2>1 DEF AnswersFit
  <2>3. mine' \subseteq coupons
    BY <2>1, <2>2 DEF Owned
  <2>4. /\ TabTypeOK' /\ AnswersFit' /\ BusyAgrees'
        /\ task'[s].at = "idle" /\ \A x \in Slots \ {s} : task'[x] = task[x]
    <3>1. UNCHANGED <<accounts, coupons, adrift, left, token, session, shown, poll, countVars>>
      BY <2>1 DEF serverVars
    <3>2. behind' \in BOOLEAN
      BY <2>1
    <3>3. {changes', switches', failures'} \subseteq Nat
      BY <2>1 DEF TabTypeOK, countVars
    <3>4. QED  BY <2>1, <2>3, <3>1, <3>2, <3>3, FinishKeeps DEF TabTypeOK
  <2>5. TabShowsItsUser'
    BY <2>1, <2>2, <2>4 DEF TabShowsItsUser, countVars, Owned
  <2>6. RefreshComing'
    <3> SUFFICES ASSUME session # Nobody, failures = 0, switches = 0, ~behind'
                 PROVE  RefreshComing'
      BY <2>1 DEF RefreshComing, countVars
    <3>1. /\ task[s].by = session /\ \A c \in mine : c \in task[s].got
          /\ ~behind \/ task[s].got = Owned(session)
      BY <2>1 DEF TabShowsItsUser
    <3>2. CASE task[s].got = Owned(session)
      BY <2>1, <3>2 DEF RefreshComing, serverVars, Owned
    <3>3. CASE mine = Owned(session)
      BY <2>1, <2>2, <3>1, <3>3 DEF RefreshComing, serverVars, Owned
    <3>4. ASSUME NEW x \in Slots,
                 \/ task[x].at \in {"list", "listed", "mine"}
                 \/ task[x].at = "mined" /\ task[x].got = Owned(session)
          PROVE  RefreshComing'
      <4>1. CASE x = s
        BY <2>1, <3>2, <3>4, <4>1
      <4>2. CASE x # s
        BY <2>1, <2>4, <3>4, <4>2 DEF RefreshComing, serverVars, Owned
      <4>3. QED  BY <4>1, <4>2
    <3>5. QED  BY <3>1, <3>2, <3>3, <3>4 DEF RefreshComing
  <2>7. QED  BY <2>4, <2>5, <2>6
<1>12. ASSUME NEW s \in Slots, FetchFails(s) PROVE TabInv'
  <2>1. /\ task[s].at \in {"post", "list", "mine"} /\ Finish(s)
        /\ failures' \in {failures, failures + 1}
        /\ failures' = failures => task[s].at = "mine" /\ ~Authorized(s)
        /\ UNCHANGED <<accounts, left, adrift, token, session, shown, mine, poll, changes, switches, behind>>
    BY <1>12 DEF FetchFails, TabTypeOK
  <2>2. coupons \subseteq coupons' /\ coupons' \subseteq accounts \X Campaigns
    <3>1. CASE task[s].at = "post"
      BY <1>12, <3>1, TaskFields, IssueAdds DEF FetchFails, AnswersFit
    <3>2. CASE task[s].at # "post"
      BY <1>12, <3>2 DEF FetchFails, TabTypeOK
    <3>3. QED  BY <3>1, <3>2
  <2>3. /\ TabTypeOK' /\ AnswersFit' /\ BusyAgrees'
        /\ task'[s].at = "idle" /\ \A x \in Slots \ {s} : task'[x] = task[x]
    <3>1. /\ mine' \subseteq coupons' /\ {changes', switches', failures'} \subseteq Nat
          /\ behind' \in BOOLEAN
      BY <2>1, <2>2 DEF TabTypeOK
    <3>2. QED  BY <2>1, <2>2, <3>1, FinishKeeps
  <2>4. TabShowsItsUser'
    BY <2>1, <2>3 DEF TabShowsItsUser
  <2>5. RefreshComing'
    BY <2>1 DEF RefreshComing, TabShowsItsUser, TabTypeOK, Authorized
  <2>6. QED  BY <2>3, <2>4, <2>5
<1>13. ASSUME NEW p \in Polls, PollStep(p) \/ PollFails(p) PROVE TabInv'
  <2>1. /\ poll' \in [Polls -> [at : {"idle", "back"}, got : SUBSET Campaigns]]
        /\ shown' \subseteq Campaigns
        /\ failures' \in Nat /\ (failures' = 0 => failures = 0)
        /\ UNCHANGED <<serverVars, token, session, mine, busyId, task, changes, switches, historyVars>>
    BY <1>13 DEF PollStep, TakePoll, Polled, PollFails, NoPoll, TabTypeOK, pageVars, countVars
  <2>2. QED
    BY <2>1 DEF serverVars, historyVars, TabTypeOK, TabShowsItsUser, AnswersFit, BusyAgrees,
       RefreshComing, Clicked, Underway, Owned
<1>14. CASE TakeAdrift
  <2>1. /\ coupons \subseteq coupons' /\ coupons' \subseteq accounts \X Campaigns
        /\ adrift' \subseteq adrift
        /\ behind' = (behind \/ coupons' # coupons)
        /\ UNCHANGED <<accounts, left, token, pageVars, task, poll, countVars, crossed>>
    <3>1. PICK x \in adrift : Issue(x[1], x[2]) /\ adrift' = adrift \ {x}
      BY <1>14 DEF TakeAdrift
    <3>2. x[1] \in accounts /\ x[2] \in Campaigns
      BY DEF TabTypeOK
    <3>3. QED  BY <1>14, <3>1, <3>2, IssueAdds DEF TakeAdrift
  <2>2. TabTypeOK'
    BY <2>1 DEF TabTypeOK, pageVars, countVars
  <2>3. TabShowsItsUser' /\ AnswersFit' /\ BusyAgrees'
    BY <2>1 DEF TabShowsItsUser, AnswersFit, BusyAgrees, pageVars, countVars, Clicked, Underway, Owned
  <2>4. RefreshComing'
    BY <2>1 DEF RefreshComing, pageVars, countVars, Owned
  <2>5. QED  BY <2>2, <2>3, <2>4
<1>15. ASSUME NEW c \in Contested, Remaining(c) PROVE TabInv'
  <2>1. /\ left' \subseteq Campaigns /\ changes' \in Nat
        /\ UNCHANGED <<accounts, coupons, adrift, token, pageVars, task, poll, switches, failures, historyVars>>
    BY <1>15, ContestedAssumption DEF Remaining, TabTypeOK
  <2>2. QED
    BY <2>1 DEF pageVars, historyVars, TabTypeOK, TabShowsItsUser, AnswersFit, BusyAgrees,
       RefreshComing, Clicked, Underway, Owned
<1>16. QED
  BY <1>1, <1>2, <1>3, <1>4, <1>5, <1>6, <1>7, <1>8, <1>9, <1>10, <1>11, <1>12, <1>13,
     <1>14, <1>15
  DEF TabNext, ServerStep, PageStep

(* In whatever order answers and clicks come, the page shows the coupons   *)
(* of one user, its busy slot belongs to a click, and, as long as no other *)
(* tab changes the token, what it shows is its own user's and what is      *)
(* missing has been asked for (App.tsx:8-13, Dashboard.tsx:21-50).         *)
THEOREM TabInvariance == TabSpec => []TabInv
<1>1. QED  BY TabInvInit, TabInvNext, PTL DEF TabSpec

(* While clicks of different campaigns have not overlapped, a second       *)
(* request is never sent beside one under way (Dashboard.tsx:36-50, 73).   *)
THEOREM BusySlotGuards == TabSpec => []BusyGuards
<1>1. TabInv => BusyGuards
  <2> SUFFICES ASSUME TabInv PROVE BusyGuards
    OBVIOUS
  <2> USE DEF TabInv, BusyAgrees
  <2>1. ASSUME ~crossed PROVE Cardinality(Clicked) <= 1
    <3>1. CASE Clicked = {}
      BY <3>1, FS_EmptySet
    <3>2. CASE Clicked # {}
      <4>1. PICK x : x \in Clicked
        BY <3>2
      <4>2. Clicked = {x}
        BY <2>1, <4>1
      <4>3. QED  BY <4>2, FS_Singleton
    <3>3. QED  BY <3>1, <3>2
  <2>2. QED  BY <2>1 DEF BusyGuards
<1>2. QED  BY <1>1, TabInvariance, PTL

(* A page at rest shows all coupons of its user, unless a fetch failed,    *)
(* another tab has changed the token, or, since the last list that was     *)
(* complete came in, an older list has replaced a newer one or a page that *)
(* is gone has obtained a coupon (Dashboard.tsx:21-28, 44).                *)
THEOREM PageSettles == TabSpec => []Settled
<1>1. TabInv => Settled
  BY DEF TabInv, RefreshComing, Settled, Underway
<1>2. QED  BY <1>1, TabInvariance, PTL
=============================================================================
