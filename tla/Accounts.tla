------------------------------ MODULE Accounts ------------------------------
(***************************************************************************)
(* Accounts and sessions: AuthService (register, login, validateUser),     *)
(* UsersService.changeProfile, and the guards in front of every route      *)
(* (JwtStrategy with RolesGuard, TransactionGuard).                        *)
(*                                                                         *)
(* A session is a row of login_history that holds the last token signed    *)
(* for a device.  A token says who the user was when the login read the    *)
(* account; a guard compares that with the account as it is now.  Requests *)
(* are interrupted at every await.                                         *)
(***************************************************************************)
EXTENDS Integers, FiniteSets

CONSTANTS
  Users,      \* accounts that may be registered
  Emails,     \* spellings of e-mail addresses
  Folded,     \* the address a spelling is one of, whatever its case
  Names,      \* usernames (phone numbers are treated alike)
  Devices,    \* values of the header x-device-id
  Sessions,   \* BOUND: rows of login_history
  Requests,   \* HTTP requests in progress at the same time
  NewRoles,   \* roles an administrator gives
  Lifetime,   \* seconds a token is valid (7 days)
  MaxClock,   \* BOUND: seconds that pass
  MaxSigned,  \* BOUND: the last second in which a login signs a token
  MaxChanges  \* BOUND: changes of profiles

Roles == {"ADMIN", "USER", "RESELLER"}

ASSUME AccountsAssumption ==
  /\ DOMAIN Folded = Emails /\ NewRoles \subseteq Roles
  /\ Lifetime \in Nat \ {0}
  /\ {MaxClock, MaxSigned, MaxChanges} \subseteq Nat

VARIABLES
  account,   \* the table users
  session,   \* the table login_history
  request,   \* where each request is, and what it has read
  clock,     \* seconds
  changes,   \* changes of profiles so far
  crossed,   \* history: accounts that may be twins by overlap or by a change
  doubled,   \* history: users two of whose logins from a device overlapped
  latest     \* history: the token of the last login of a user from a device

vars == <<account, session, request, clock, changes, crossed, doubled, latest>>

None == [at |-> "none"]

Account == [at : {"active"}, email : Emails, name : Names, role : Roles,
            banned : BOOLEAN]

\* The payload and the second of signing determine the token.
Token == [user : Users, name : Names, role : Roles, iat : 0..MaxClock]

Session == [at : {"open"}, user : Users, device : Devices, token : Token]

Active == {u \in Users : account[u].at = "active"}
Open == {s \in Sessions : session[s].at = "open"}

(***************************************************************************)
(* The guards in front of the routes, controller by controller.            *)
(* login: "none" no token is looked at; "maybe" TransactionGuard, a caller *)
(* without a token is a guest; "must" JwtAuthGuard.  RolesGuard wants one  *)
(* of roles; behind "none" and "maybe" it is not used, and @Roles alone    *)
(* (transaction/cancel) does nothing.                                      *)
(***************************************************************************)
Public == [login |-> "none", roles |-> Roles]
Optional == [login |-> "maybe", roles |-> Roles]
Member == [login |-> "must", roles |-> {"ADMIN", "USER"}]
AdminOnly == [login |-> "must", roles |-> {"ADMIN"}]

All(routes, guard) == [route \in routes |-> guard]

UsersRoutes ==
  [ping |-> Optional, balanceMutation |-> Member, balance |-> Member,
   depositMethods |-> Member, list |-> AdminOnly, mutations |-> AdminOnly,
   detail |-> Public, changeProfileByAdmin |-> AdminOnly,
   chartTransaction |-> Member, chartBalance |-> Member, info |-> Member,
   changeProfile |-> Member]

\* The guard of the class is Optional; that of a handler comes after it.
TransactionRoutes ==
  [list |-> Member, create |-> Optional, cancel |-> Optional,
   detail |-> Optional, inquiry |-> Optional, inquiryDetail |-> Optional,
   payInquiry |-> Optional, all |-> AdminOnly, detailByAdmin |-> AdminOnly,
   updateStatus |-> AdminOnly]

DepositRoutes ==
  [create |-> Member, history |-> Member, detail |-> Member,
   cancel |-> Member, all |-> AdminOnly, detailByAdmin |-> AdminOnly,
   updateStatus |-> AdminOnly]

UiRoutes ==
  [service |-> Public, services |-> Public, serviceGroups |-> Public,
   paymentMethod |-> Optional, paymentMethodInquiry |-> Optional]

ProductRoutes ==
  All({"list", "create", "update", "delete", "detail"}, AdminOnly)
ProductGroupRoutes ==
  All({"list", "detail", "create", "update", "delete"}, AdminOnly)
PaymentMethodRoutes ==
  All({"list", "detail", "create", "update", "delete"}, AdminOnly)
ServicesRoutes ==
  All({"list", "detail", "create", "update", "delete"}, AdminOnly)
ServiceGroupRoutes == All({"list", "create", "update", "delete"}, AdminOnly)
FilePickerRoutes == All({"list", "upload", "delete"}, AdminOnly)
BannerRoutes ==
  [create |-> AdminOnly, update |-> AdminOnly, delete |-> AdminOnly,
   list |-> Public]

GuardsOf(routes) == {routes[route] : route \in DOMAIN routes}

\* Requests differ, here, in their guard only.
Guards ==
  UNION {GuardsOf(UsersRoutes), GuardsOf(TransactionRoutes),
         GuardsOf(DepositRoutes), GuardsOf(UiRoutes), GuardsOf(ProductRoutes),
         GuardsOf(ProductGroupRoutes), GuardsOf(PaymentMethodRoutes),
         GuardsOf(ServicesRoutes), GuardsOf(ServiceGroupRoutes),
         GuardsOf(FilePickerRoutes), GuardsOf(BannerRoutes)}

-----------------------------------------------------------------------------

\* found: the session login has found for the device, or that there is none.
Request ==
  [at : {"idle"}] \cup
  [at : {"hashing"}, email : Emails, name : Names] \cup
  [at : {"comparing"}, user : Users, by : Users, device : Devices,
   name : Names, role : Roles] \cup
  [at : {"signed"}, device : Devices, token : Token] \cup
  [at : {"updating"}, device : Devices, token : Token, found : Sessions] \cup
  [at : {"opening"}, device : Devices, token : Token] \cup
  [at : {"admitted"}, user : Users, guard : Guards]

Idle == [at |-> "idle"]

Goto(r, state) == request' = [request EXCEPT ![r] = state]

Init ==
  /\ account = [u \in Users |-> None]
  /\ session = [s \in Sessions |-> None]
  /\ request = [r \in Requests |-> Idle]
  /\ clock = 0
  /\ changes = 0
  /\ crossed = {}
  /\ doubled = {}
  /\ latest = [u \in Users |-> [d \in Devices |-> None]]

-----------------------------------------------------------------------------
(* register.                                                               *)

\* Registrations that have checked and not created yet, with such an e-mail.
Registering(email) ==
  {r \in Requests : /\ request[r].at = "hashing"
                    /\ Folded[request[r].email] = Folded[email]}

\* Mutant: the check is as exact as the unique index.
TakenExactly(email, name) ==
  \E u \in Active : account[u].email = email \/ account[u].name = name

\* findFirst: the e-mail without regard to case, the others exactly.
Taken(email, name) ==
  \E u \in Active : \/ Folded[account[u].email] = Folded[email]
                    \/ account[u].name = name

RegisterCheck(r, email, name) ==
  /\ request[r].at = "idle"
  /\ ~Taken(email, name)
  /\ Goto(r, [at |-> "hashing", email |-> email, name |-> name])
  /\ UNCHANGED <<account, session, clock, changes, crossed, doubled, latest>>

\* The unique indexes compare exactly.
Unique(u, email, name) ==
  \A v \in Active \ {u} : account[v].email # email /\ account[v].name # name

RegisterCreate(r, u) ==
  LET email == request[r].email
      name == request[r].name
  IN /\ request[r].at = "hashing"
     /\ account[u].at = "none"
     /\ Unique(u, email, name)
     /\ account' = [account EXCEPT ![u] =
          [at |-> "active", email |-> email, name |-> name,
           role |-> "USER", banned |-> FALSE]]
     /\ crossed' = IF Registering(email) # {r} THEN crossed \cup {Folded[email]}
                   ELSE crossed
     /\ Goto(r, Idle)
     /\ UNCHANGED <<session, clock, changes, doubled, latest>>

\* The unique index refuses, or the insert fails.
RegisterFails(r) ==
  /\ request[r].at = "hashing"
  /\ Goto(r, Idle)
  /\ UNCHANGED <<account, session, clock, changes, crossed, doubled, latest>>

-----------------------------------------------------------------------------
(* login.                                                                  *)

\* findFirst by e-mail, without regard to case: any of the accounts that have
\* it.  by is whose password is sent, always the right one for by.
LoginFind(r, by, u, device) ==
  /\ request[r].at = "idle"
  /\ {by, u} \subseteq Active
  /\ Folded[account[u].email] = Folded[account[by].email]
  /\ Goto(r, [at |-> "comparing", user |-> u, by |-> by, device |-> device,
              name |-> account[u].name, role |-> account[u].role])
  /\ UNCHANGED <<account, session, clock, changes, crossed, doubled, latest>>

\* bcrypt.compare, and the token is signed with what was read.
LoginSign(r) ==
  LET k == request[r]
  IN /\ k.at = "comparing"
     /\ k.user = k.by
     /\ clock <= MaxSigned
     /\ Goto(r, [at |-> "signed", device |-> k.device,
                 token |-> [user |-> k.user, name |-> k.name, role |-> k.role,
                            iat |-> clock]])
     /\ UNCHANGED <<account, session, clock, changes, crossed, doubled, latest>>

\* "Email or Password is wrong".
LoginRefused(r) ==
  /\ request[r].at = "comparing"
  /\ request[r].user # request[r].by
  /\ Goto(r, Idle)
  /\ UNCHANGED <<account, session, clock, changes, crossed, doubled, latest>>

\* Rows for a device of a user.
SessionsOf(user, device) ==
  {s \in Open : session[s].user = user /\ session[s].device = device}

\* Logins of the user from the device that found no row.
Opening(user, device) ==
  {r \in Requests : /\ request[r].at = "opening"
                    /\ request[r].token.user = user
                    /\ request[r].device = device}

\* Mutant: the row is looked up by the token.
LoginSearchToken(r) ==
  LET k == request[r]
      found == {s \in Open : session[s].token = k.token}
  IN /\ k.at = "signed"
     /\ \/ \E s \in found :
             Goto(r, [at |-> "updating", device |-> k.device, token |-> k.token,
                      found |-> s])
        \/ /\ found = {}
           /\ Goto(r, [at |-> "opening", device |-> k.device, token |-> k.token])
     /\ UNCHANGED <<account, session, clock, changes, crossed, doubled, latest>>

\* Mutant: what findFirst returned is used though it may be nothing.
LoginSearchUnchecked(r) ==
  LET k == request[r]
      found == SessionsOf(k.token.user, k.device)
  IN /\ k.at = "signed"
     /\ Goto(r, [at |-> "updating", device |-> k.device, token |-> k.token,
                 found |-> IF found = {} THEN None ELSE CHOOSE s \in found : TRUE])
     /\ UNCHANGED <<account, session, clock, changes, crossed, doubled, latest>>

\* findFirst by device and user.
LoginSearch(r) ==
  LET k == request[r]
      found == SessionsOf(k.token.user, k.device)
  IN /\ k.at = "signed"
     /\ \/ \E s \in found :
             Goto(r, [at |-> "updating", device |-> k.device, token |-> k.token,
                      found |-> s])
        \/ /\ found = {}
           /\ Goto(r, [at |-> "opening", device |-> k.device, token |-> k.token])
     /\ UNCHANGED <<account, session, clock, changes, crossed, doubled, latest>>

\* Mutant: the row that is updated counts as well.
TokenTakenByAny(s, token) == \E o \in Open : session[o].token = token

\* Another row holds the same token: the same user signed it in the same
\* second, and the column is unique.
TokenTaken(s, token) == \E o \in Open \ {s} : session[o].token = token

\* The login that ends last is the one that counts for the device.
Counts(user, device, token) ==
  latest' = [latest EXCEPT ![user][device] = token]

\* Mutant: the update forgets the token.
LoginUpdateKeepsToken(r) ==
  LET k == request[r]
  IN /\ k.at = "updating"
     /\ ~TokenTaken(k.found, k.token)
     /\ Counts(k.token.user, k.device, k.token)
     /\ Goto(r, Idle)
     /\ UNCHANGED <<account, session, clock, changes, crossed, doubled>>

LoginUpdate(r) ==
  LET k == request[r]
  IN /\ k.at = "updating"
     /\ ~TokenTaken(k.found, k.token)
     /\ session' = [session EXCEPT ![k.found].token = k.token]
     /\ Counts(k.token.user, k.device, k.token)
     /\ Goto(r, Idle)
     /\ UNCHANGED <<account, clock, changes, crossed, doubled>>

LoginCreate(r, s) ==
  LET k == request[r]
      user == k.token.user
  IN /\ k.at = "opening"
     /\ session[s].at = "none"
     /\ ~TokenTaken(s, k.token)
     /\ session' = [session EXCEPT ![s] =
          [at |-> "open", user |-> user, device |-> k.device, token |-> k.token]]
     /\ doubled' = IF Opening(user, k.device) # {r} THEN doubled \cup {user}
                   ELSE doubled
     /\ Counts(user, k.device, k.token)
     /\ Goto(r, Idle)
     /\ UNCHANGED <<account, clock, changes, crossed>>

\* The unique index refuses the token: the login ends with an error.
LoginFails(r) ==
  LET k == request[r]
  IN /\ \/ k.at = "updating" /\ TokenTaken(k.found, k.token)
        \/ k.at = "opening" /\ \E o \in Open : session[o].token = k.token
     /\ Goto(r, Idle)
     /\ UNCHANGED <<account, session, clock, changes, crossed, doubled, latest>>

-----------------------------------------------------------------------------
(* Requests with a token.                                                  *)

\* jwt.verify, and the row of the session: both know when it expires.
Unexpired(token) == clock < token.iat + Lifetime

\* validateUser: a row with this token whose user still is what it says.
Valid(token) ==
  /\ Unexpired(token)
  /\ \E s \in Open : session[s].token = token
  /\ account[token.user].name = token.name
  /\ account[token.user].role = token.role

\* The guards one after the other; the account may change before the handler
\* runs, and nothing looks at it again.
Admits(guard, token) ==
  /\ Valid(token)
  /\ ~account[token.user].banned
  /\ guard.login = "must" => account[token.user].role \in guard.roles

\* Whatever token is sent: one that was never signed is refused by jwt.verify,
\* and one that a later login has replaced by validateUser, alike.
Admit(r, guard, token) ==
  /\ request[r].at = "idle"
  /\ guard.login # "none"
  /\ Admits(guard, token)
  /\ Goto(r, [at |-> "admitted", user |-> token.user, guard |-> guard])
  /\ UNCHANGED <<account, session, clock, changes, crossed, doubled, latest>>

\* The handlers are in the other modules; what is left here is that they end.
HandlerEnds(r) ==
  /\ request[r].at = "admitted"
  /\ Goto(r, Idle)
  /\ UNCHANGED <<account, session, clock, changes, crossed, doubled, latest>>

\* changeProfile, by the user or by an administrator: the account is looked
\* up, a password hashed, then the fields sent are written; only the unique
\* indexes look at the new e-mail and name.
ChangeProfile(r, u, new) ==
  /\ request[r].at = "admitted"
  /\ \/ u = request[r].user /\ request[r].guard = Member
        /\ new.role = account[u].role /\ new.banned = account[u].banned
     \/ request[r].guard = AdminOnly
  /\ changes < MaxChanges
  /\ u \in Active
  /\ Unique(u, new.email, new.name)
  /\ account' = [account EXCEPT ![u] = new]
  /\ changes' = changes + 1
  /\ crossed' = IF new.email # account[u].email
                  THEN crossed \cup {Folded[new.email]} ELSE crossed
  /\ Goto(r, Idle)
  /\ UNCHANGED <<session, clock, doubled, latest>>

\* The first administrator has to come from somewhere: written in the database,
\* here before anybody logs in.
Promote(u) ==
  /\ u \in Active
  /\ Open = {}
  /\ \A v \in Active : account[v].role # "ADMIN"
  /\ account' = [account EXCEPT ![u].role = "ADMIN"]
  /\ UNCHANGED <<session, request, clock, changes, crossed, doubled, latest>>

Tick ==
  /\ clock < MaxClock
  /\ clock' = clock + 1
  /\ UNCHANGED <<account, session, request, changes, crossed, doubled, latest>>

-----------------------------------------------------------------------------

\* The values of a profile that a change may write: one field is another one.
Profiles(u) ==
  LET k == account[u]
  IN {[k EXCEPT !.email = e] : e \in Emails} \cup
     {[k EXCEPT !.name = n] : n \in Names} \cup
     {[k EXCEPT !.role = o] : o \in NewRoles} \cup
     {[k EXCEPT !.banned = b] : b \in BOOLEAN}

Registration(r) ==
  \/ \E email \in Emails, name \in Names : RegisterCheck(r, email, name)
  \/ \E u \in Users : RegisterCreate(r, u)
  \/ RegisterFails(r)

Login(r) ==
  \/ \E by, u \in Users, device \in Devices : LoginFind(r, by, u, device)
  \/ LoginSign(r)
  \/ LoginRefused(r)
  \/ LoginSearch(r)
  \/ LoginUpdate(r)
  \/ \E s \in Sessions : LoginCreate(r, s)
  \/ LoginFails(r)

Call(r) ==
  \/ \E guard \in Guards, token \in Token : Admit(r, guard, token)
  \/ \E u \in Active : \E new \in Profiles(u) \ {account[u]} :
       ChangeProfile(r, u, new)
  \/ HandlerEnds(r)

Next ==
  \/ \E r \in Requests : Registration(r) \/ Login(r) \/ Call(r)
  \/ \E u \in Users : Promote(u)
  \/ Tick

Spec == Init /\ [][Next]_vars

-----------------------------------------------------------------------------
(* Properties.                                                             *)

\* Every variable has its type: tables and requests only hold what the code
\* writes (schema.prisma:14-61, auth.service.ts:16-155).
TypeOK ==
  /\ account \in [Users -> Account \cup {None}]
  /\ session \in [Sessions -> Session \cup {None}]
  /\ request \in [Requests -> Request]
  /\ clock \in 0..MaxClock
  /\ changes \in 0..MaxChanges
  /\ crossed \in SUBSET {Folded[e] : e \in Emails}
  /\ doubled \in SUBSET Users
  /\ latest \in [Users -> [Devices -> Token \cup {None}]]

\* Two accounts never differ in the case of their e-mail alone, as register
\* wants it (auth.service.ts:19-38), unless two registrations with it
\* overlapped or a profile was changed to it.
NoCaseTwinsUnlessCrossed ==
  \A u, v \in Active :
    /\ u # v
    /\ Folded[account[u].email] = Folded[account[v].email]
    => Folded[account[u].email] \in crossed

\* A user has one session for a device, the last one, so that a new login ends
\* the one before (auth.service.ts:112-142), unless two logins overlapped.
OneSessionPerDeviceUnlessDoubled ==
  \A s, o \in Open :
    /\ s # o
    /\ session[s].user = session[o].user
    /\ session[s].device = session[o].device
    => session[s].user \in doubled

\* A login with the right password fails only because the same user has signed
\* the same token in the same second, from another device or in a login that
\* overlapped: the unique index of the token never meets anybody else's
\* (auth.service.ts:99-142, schema.prisma:51).
LoginFailsOnlyInTheSameSecond ==
  [][\A r \in Requests : LoginFails(r) =>
       LET k == request[r]
       IN \E o \in Open :
            /\ session[o].user = k.token.user
            /\ session[o].token.iat = k.token.iat
            /\ session[o].device # k.device \/ k.token.user \in doubled]_vars

\* A login ends the one before it from the same device and no other: a token
\* whose account has not changed since is let in exactly as long as it is that
\* of the last login from some device, so that nobody goes on with a session
\* that was replaced, and a login elsewhere puts nobody out
\* (auth.service.ts:112-142, 182-219).  Logins from one device that overlap
\* may leave a session too many.
ALoginEndsTheOneBefore ==
  \A token \in Token :
    LET current == \E d \in Devices : latest[token.user][d] = token
    IN /\ Valid(token) => current \/ token.user \in doubled
       /\ current /\ Unexpired(token)
          /\ account[token.user].name = token.name
          /\ account[token.user].role = token.role => Valid(token)

=============================================================================
