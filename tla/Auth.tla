-------------------------------- MODULE Auth --------------------------------
(***************************************************************************)
(* Accounts, tokens and the role a campaign is created with: routes/auth.ts *)
(* and its port auth.controller.ts to the NestJS server, which share the   *)
(* User table and the signing secret; requireAuth and requireAdmin before  *)
(* POST /api/campaigns; the admin account of prisma/seed.ts.               *)
(*                                                                         *)
(* A token carries the role of the row as it was read, and is believed     *)
(* without another look at the table until it expires.  It is named by the *)
(* call that was given it.                                                 *)
(*                                                                         *)
(* Control points of a call: "hash" in bcrypt.hash, "insert" before        *)
(* user.create, "find" before user.findUnique, "compare" in                *)
(* bcrypt.compare, "createCampaign" before campaign.create.                *)
(***************************************************************************)
EXTENDS FiniteSets

CONSTANTS
  Calls,         \* HTTP calls, each made once
  Emails,
  Passwords,
  Short,         \* the passwords credsSchema rejects
  AdminEmail,    \* admin@demo.com
  AdminPassword, \* the one prisma/seed.ts hashes
  NoRow          \* findUnique found nothing

ASSUME AccountAssumption ==
  /\ AdminEmail \in Emails /\ AdminPassword \in Passwords
  /\ Short \subseteq Passwords
ASSUME NoRowAssumption == NoRow \notin [password : Passwords, role : {"USER", "ADMIN"}]

VARIABLES
  call,          \* what each call asks: kind, server, email, password
  account,       \* the User table: the row of each email, or NoRow
  pc,            \* the await each call is at, or its outcome
  row,           \* the User row a call has read or made
  claim,         \* the role in the token each call was given, or "none"
  expired,       \* the calls whose token is more than an hour old
  bearer,        \* whose token a call presents; itself when it presents none
  overtaken      \* history: calls that had the row before it was promoted

vars == <<call, account, pc, row, claim, expired, bearer, overtaken>>

Roles == {"USER", "ADMIN"}
Rows == [password : Passwords, role : Roles]
Kinds == {"register", "login", "create"}
Servers == {"express", "nest"}
Labels == {"start", "hash", "insert", "find", "compare", "createCampaign"}
Outcomes == {"BAD_REQUEST", "REGISTERED", "CONFLICT", "LOGGED_IN", "DENIED",
             "LIMITED", "UNAUTHENTICATED", "FORBIDDEN", "CREATED", "FAILED"}

Init ==
  /\ call \in [Calls -> [kind : Kinds, server : Servers,
                         email : Emails, password : Passwords]]
  /\ account = [e \in Emails |-> NoRow]
  /\ pc = [c \in Calls |-> "start"]
  /\ row = [c \in Calls |-> NoRow]
  /\ claim = [c \in Calls |-> "none"]
  /\ expired = {}
  /\ bearer = [c \in Calls |-> c]
  /\ overtaken = {}

-----------------------------------------------------------------------------
Goto(c, label) == pc' = [pc EXCEPT ![c] = label] /\ UNCHANGED <<call, overtaken>>

(* Mutant of Sign: the role left to its default.                           *)
SignAsUser(c, r, outcome) ==
  /\ Goto(c, outcome)
  /\ row' = [row EXCEPT ![c] = r]
  /\ claim' = [claim EXCEPT ![c] = "USER"]
  /\ UNCHANGED <<expired, bearer>>

(* The call is answered with a token that carries the row's role.          *)
Sign(c, r, outcome) ==
  /\ Goto(c, outcome)
  /\ row' = [row EXCEPT ![c] = r]
  /\ claim' = [claim EXCEPT ![c] = r.role]
  /\ UNCHANGED <<expired, bearer>>

Tell(c, label) ==
  /\ Goto(c, label)
  /\ UNCHANGED <<account, row, claim, expired, bearer>>

(* A call that arrives at a handler of one of the servers.                 *)
Arrives(c, kind, server) ==
  pc[c] = "start" /\ call[c].kind = kind /\ call[c].server = server

(* credsSchema.parse, then the await of next.                              *)
Parsed(c, next) == IF call[c].password \in Short THEN "BAD_REQUEST" ELSE next

Register(c) == Arrives(c, "register", "express") /\ Tell(c, Parsed(c, "hash"))

(* The port does not validate.                                             *)
NestRegister(c) == Arrives(c, "register", "nest") /\ Tell(c, "hash")

Hashed(c) == pc[c] = "hash" /\ Tell(c, "insert")

(* Mutant of InsertUser: the row that is there is overwritten.             *)
UpsertUser(c) ==
  /\ pc[c] = "insert"
  /\ LET new == [password |-> call[c].password, role |-> "USER"]
     IN  /\ account' = [account EXCEPT ![call[c].email] = new]
         /\ Sign(c, new, "REGISTERED")

(* user.create under the unique index on email, the role by default USER;  *)
(* the row may be made and the call fail all the same.                     *)
InsertUser(c) ==
  /\ pc[c] = "insert"
  /\ IF account[call[c].email] # NoRow
     THEN Tell(c, "CONFLICT")
     ELSE LET new == [password |-> call[c].password, role |-> "USER"]
          IN  /\ account' = [account EXCEPT ![call[c].email] = new]
              /\ \/ Sign(c, new, "REGISTERED")
                 \/ Goto(c, "FAILED") /\ UNCHANGED <<row, claim, expired, bearer>>

(* The limiter, for which see RateLimit, then the schema.                  *)
Login(c) ==
  /\ Arrives(c, "login", "express")
  /\ Tell(c, "LIMITED") \/ Tell(c, Parsed(c, "find"))

NestLogin(c) == Arrives(c, "login", "nest") /\ Tell(c, "find")

(* What findUnique returned: nobody, or a row to compare with.             *)
Find(c) ==
  /\ pc[c] = "find"
  /\ Goto(c, IF account[call[c].email] = NoRow THEN "DENIED" ELSE "compare")
  /\ row' = [row EXCEPT ![c] = account[call[c].email]]
  /\ UNCHANGED <<account, claim, expired, bearer>>

(* Mutant of Compare: signed without the comparison.                       *)
CompareNothing(c) ==
  /\ pc[c] = "compare"
  /\ Sign(c, row[c], "LOGGED_IN")
  /\ UNCHANGED account

(* bcrypt.compare with the row read before the await, then the token with  *)
(* the role of that row.                                                   *)
Compare(c) ==
  /\ pc[c] = "compare"
  /\ IF row[c].password = call[c].password
     THEN Sign(c, row[c], "LOGGED_IN") /\ UNCHANGED account
     ELSE Tell(c, "DENIED")

(* Mutant of Admit: requireAuth without requireAdmin.                      *)
AdmitAnyone(c, t) == IF claim[t] = "none" THEN "FORBIDDEN" ELSE "createCampaign"

(* requireAdmin looks at what the token says.                              *)
Admit(c, t) == IF claim[t] = "ADMIN" THEN "createCampaign" ELSE "FORBIDDEN"

(* POST /api/campaigns with the token of some call, with a good body or    *)
(* a bad one; or requireAuth finds no valid token.                         *)
AskCampaign(c) ==
  /\ Arrives(c, "create", "express")
  /\ \E t \in Calls \ expired :
       /\ claim[t] # "none"
       /\ bearer' = [bearer EXCEPT ![c] = t]
       /\ \/ Goto(c, Admit(c, t))
          \/ Admit(c, t) = "createCampaign" /\ Goto(c, "BAD_REQUEST")
  /\ UNCHANGED <<account, row, claim, expired>>

Unauthenticated(c) ==
  Arrives(c, "create", "express") /\ Tell(c, "UNAUTHENTICATED")

(* The port's JwtAuthGuard is a stub that throws whatever the token.       *)
NestAskCampaign(c) ==
  Arrives(c, "create", "nest") /\ Tell(c, "UNAUTHENTICATED")

CreateCampaign(c) == pc[c] = "createCampaign" /\ Tell(c, "CREATED")

(* A call rejects without effect, or its process ends: no answer but 500,  *)
(* or none at all.                                                         *)
Fail(c) == pc[c] \in Labels \ {"start"} /\ Tell(c, "FAILED")

-----------------------------------------------------------------------------
(* Mutant of SeedAdmin: the update branch sets the password as well.       *)
SeedAdminAnew ==
  /\ account' = [account EXCEPT ![AdminEmail] =
                   [password |-> AdminPassword, role |-> "ADMIN"]]
  /\ UNCHANGED <<call, pc, row, claim, expired, bearer, overtaken>>

(* prisma/seed.ts, user.upsert: made with its password, or promoted with   *)
(* the password it has.                                                    *)
SeedAdmin ==
  /\ account' = [account EXCEPT ![AdminEmail] =
       IF @ = NoRow THEN [password |-> AdminPassword, role |-> "ADMIN"]
                    ELSE [@ EXCEPT !.role = "ADMIN"]]
  /\ overtaken' = overtaken \cup
       {c \in Calls : /\ call[c].email = AdminEmail
                      /\ row[c] # NoRow /\ row[c].role = "USER"}
  /\ UNCHANGED <<call, pc, row, claim, expired, bearer>>

(* Mutant of Expire: signed without expiresIn.                             *)
ExpireNever(c) == FALSE /\ UNCHANGED vars

(* An hour has passed since the token was signed.                          *)
Expire(c) ==
  /\ claim[c] # "none"
  /\ c \notin expired
  /\ expired' = expired \cup {c}
  /\ UNCHANGED <<call, account, pc, row, claim, bearer, overtaken>>

Next ==
  \/ SeedAdmin
  \/ \E c \in Calls :
       \/ Register(c) \/ NestRegister(c) \/ Hashed(c) \/ InsertUser(c)
       \/ Login(c) \/ NestLogin(c) \/ Find(c) \/ Compare(c)
       \/ AskCampaign(c) \/ Unauthenticated(c) \/ NestAskCampaign(c)
       \/ CreateCampaign(c)
       \/ Fail(c) \/ Expire(c)

Spec == Init /\ [][Next]_vars

(* Time passes, so a token that was signed expires.                        *)
FairSpec == Spec /\ \A c \in Calls : WF_vars(Expire(c))

-----------------------------------------------------------------------------
TypeOK ==
  /\ call \in [Calls -> [kind : Kinds, server : Servers,
                         email : Emails, password : Passwords]]
  /\ account \in [Emails -> Rows \cup {NoRow}]
  /\ pc \in [Calls -> Labels \cup Outcomes]
  /\ row \in [Calls -> Rows \cup {NoRow}]
  /\ claim \in [Calls -> Roles \cup {"none"}]
  /\ expired \subseteq Calls
  /\ bearer \in [Calls -> Calls]
  /\ overtaken \subseteq Calls

Account(c) == account[call[c].email]

(* What a call has read stays true of the password, and of the role except *)
(* that the account may have been promoted since: no step deletes an       *)
(* account, changes its password or demotes it (seed.ts:44-48,             *)
(* auth.ts:48-63).                                                         *)
RowsLast ==
  \A c \in Calls :
    /\ row[c] # NoRow =>
         /\ Account(c) # NoRow
         /\ row[c].password = Account(c).password
         /\ row[c].role = "ADMIN" => Account(c).role = "ADMIN"
    /\ pc[c] = "compare" => row[c] # NoRow
    /\ claim[c] # "none" => /\ row[c] # NoRow
                            /\ claim[c] = row[c].role
                            /\ call[c].password = row[c].password
    /\ claim[c] # "none" <=> pc[c] \in {"REGISTERED", "LOGGED_IN"}

(* The inductive invariant.                                                *)
AuthInv == TypeOK /\ RowsLast

(* Whichever servers the calls go to: an email is registered once, its     *)
(* account keeps the password of the call that was told so, and 409 is     *)
(* told only when there is an account (routes/auth.ts:29-43,               *)
(* auth.controller.ts:38-52, schema.prisma:23).                            *)
AnswersTrue ==
  \A c, d \in Calls :
    /\ pc[c] = "REGISTERED" =>
         Account(c) # NoRow /\ Account(c).password = call[c].password
    /\ pc[c] = "CONFLICT" => Account(c) # NoRow
    /\ pc[c] = "REGISTERED" /\ pc[d] = "REGISTERED"
         /\ call[c].email = call[d].email => c = d

(* A campaign is created only on behalf of an account that is an admin at  *)
(* that time, although nobody looks at the account: a token may say less   *)
(* than the table, never more (requireAuth.ts:90, campaigns.ts:48-59).     *)
OnlyAdminsCreate ==
  \A c \in Calls :
    pc[c] \in {"createCampaign", "CREATED"} =>
      Account(bearer[c]) # NoRow /\ Account(bearer[c]).role = "ADMIN"

(* A token that says less than the table was signed from a row that was    *)
(* read before the promotion, be it that bcrypt.compare was still under    *)
(* way then: whoever logs in afterwards gets the new role                  *)
(* (routes/auth.ts:60-69, requireAuth.ts:43).                              *)
StaleExplained ==
  \A c \in Calls :
    claim[c] # "none" /\ claim[c] # Account(c).role => c \in overtaken

(* A promotion takes effect for everybody in the end, tokens from before   *)
(* included, because every token expires (auth.ts:38, seed.ts:47).         *)
PromotionTakesEffect ==
  \A e \in Emails :
    account[e] # NoRow /\ account[e].role = "ADMIN" ~>
      [](\A c \in Calls : call[c].email = e /\ claim[c] = "USER" => c \in expired)
=============================================================================
