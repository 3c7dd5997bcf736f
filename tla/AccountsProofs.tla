--------------------------- MODULE AccountsProofs ---------------------------
(***************************************************************************)
(* Accounts and sessions, for any number of users, devices and requests.   *)
(*                                                                         *)
(* The invariant Inv says what a request still knows when it goes on after *)
(* an await: nobody has the e-mail it checked, unless that was crossed;    *)
(* the row it found is still there, for its user and device; the row it    *)
(* did not find is still not there, unless its user is in doubled.         *)
(* A row holds the token of the last login from its device, with the same  *)
(* exception, and the token of every last login is in a row.               *)
(***************************************************************************)
EXTENDS Accounts, TLAPS

\* What a registration checked before it hashed the password still holds.
CheckedStillHolds ==
  \A r \in Requests : request[r].at = "hashing" =>
    \/ Folded[request[r].email] \in crossed
    \/ \A v \in Active : Folded[account[v].email] # Folded[request[r].email]

\* The row a login found is there, for its user and its device.
FoundIsTheirs ==
  \A r \in Requests : request[r].at = "updating" =>
    /\ request[r].found \in Open
    /\ session[request[r].found].user = request[r].token.user
    /\ session[request[r].found].device = request[r].device

\* A login that found no row would still find none.
NotFoundIsNotThere ==
  \A r \in Requests : request[r].at = "opening" =>
    \/ request[r].token.user \in doubled
    \/ SessionsOf(request[r].token.user, request[r].device) = {}

\* A session holds a token of its user.
TokensAreTheirs == \A s \in Open : session[s].token.user = session[s].user

\* The row of a device holds the token of the last login from it.
RowsHoldTheLatest ==
  \A s \in Open :
    \/ session[s].user \in doubled
    \/ latest[session[s].user][session[s].device] = session[s].token

\* The token of the last login from a device is in a row for the device.
LatestIsThere ==
  \A u \in Users, d \in Devices :
    latest[u][d] # None =>
      \E s \in Open : /\ session[s].user = u /\ session[s].device = d
                       /\ session[s].token = latest[u][d]

Inv == /\ TypeOK
       /\ CheckedStillHolds /\ NoCaseTwinsUnlessCrossed
       /\ FoundIsTheirs /\ TokensAreTheirs
       /\ NotFoundIsNotThere /\ OneSessionPerDeviceUnlessDoubled
       /\ RowsHoldTheLatest /\ LatestIsThere

-----------------------------------------------------------------------------
(* Types.                                                                  *)

LEMMA InitTypes == Init => TypeOK
  BY AccountsAssumption DEF Init, TypeOK, Request, Idle

\* What a request knows, by how far it is.
LEMMA RequestKnows ==
  ASSUME TypeOK, NEW r \in Requests
  PROVE  /\ request[r].at = "hashing" =>
              request[r].email \in Emails /\ request[r].name \in Names
         /\ request[r].at = "comparing" =>
              /\ request[r].user \in Users /\ request[r].by \in Users
              /\ request[r].device \in Devices
              /\ request[r].name \in Names /\ request[r].role \in Roles
         /\ request[r].at \in {"signed", "updating", "opening"} =>
              request[r].device \in Devices /\ request[r].token \in Token
         /\ request[r].at = "updating" => request[r].found \in Sessions
         /\ request[r].at = "admitted" =>
              request[r].user \in Users /\ request[r].guard \in Guards
<1> request[r] \in Request
  BY DEF TypeOK
<1> QED
  BY DEF Request

\* A request goes on to one of its states.
LEMMA GotoTypes ==
  ASSUME TypeOK, NEW r \in Requests, NEW state \in Request, Goto(r, state)
  PROVE  /\ request' \in [Requests -> Request]
         /\ request'[r] = state
         /\ \A q \in Requests \ {r} : request'[q] = request[q]
  BY DEF TypeOK, Goto

LEMMA IdleIsAState == Idle \in Request
  BY DEF Idle, Request

\* Accounts and sessions that are there are of their types.
LEMMA RowTypes ==
  ASSUME TypeOK
  PROVE  /\ \A u \in Active : account[u] \in Account
         /\ \A s \in Open : session[s] \in Session
  BY DEF TypeOK, Active, Open, None

\* The actions that only move a request on.
MovesOn(r) ==
  \/ \E email \in Emails, name \in Names : RegisterCheck(r, email, name)
  \/ RegisterFails(r)
  \/ \E by, u \in Users, device \in Devices : LoginFind(r, by, u, device)
  \/ LoginSign(r)
  \/ LoginRefused(r)
  \/ LoginSearch(r)
  \/ LoginFails(r)
  \/ \E guard \in Guards, token \in Token : Admit(r, guard, token)
  \/ HandlerEnds(r)

\* Each goes to a state, and changes nothing else.
LEMMA MovesOnTypes ==
  ASSUME TypeOK, NEW r \in Requests, MovesOn(r)
  PROVE  /\ \E state \in Request : Goto(r, state)
         /\ UNCHANGED <<account, session, clock, changes, crossed, doubled, latest>>
<1>1. ASSUME NEW email \in Emails, NEW name \in Names,
             RegisterCheck(r, email, name)
      PROVE  \E state \in Request : Goto(r, state)
  BY <1>1 DEF RegisterCheck, Request
<1>2. ASSUME NEW by \in Users, NEW u \in Users, NEW device \in Devices,
             LoginFind(r, by, u, device)
      PROVE  \E state \in Request : Goto(r, state)
  <2>1. account[u].name \in Names /\ account[u].role \in Roles
    BY <1>2, RowTypes DEF LoginFind, Account
  <2> QED
    BY <1>2, <2>1 DEF LoginFind, Request
<1>3. ASSUME LoginSign(r) PROVE \E state \in Request : Goto(r, state)
  BY <1>3, RequestKnows DEF LoginSign, Request, Token, TypeOK
<1>4. ASSUME LoginSearch(r) PROVE \E state \in Request : Goto(r, state)
  BY <1>4, RequestKnows DEF LoginSearch, Request, SessionsOf, Open
<1>5. ASSUME NEW guard \in Guards, NEW token \in Token, Admit(r, guard, token)
      PROVE  \E state \in Request : Goto(r, state)
  <2>1. token.user \in Users
    BY DEF Token
  <2> QED
    BY <1>5, <2>1 DEF Admit, Request
<1>6. ASSUME \/ RegisterFails(r) \/ LoginRefused(r) \/ LoginFails(r)
             \/ HandlerEnds(r)
      PROVE  \E state \in Request : Goto(r, state)
  BY <1>6, IdleIsAState DEF RegisterFails, LoginRefused, LoginFails, HandlerEnds
<1>7. UNCHANGED <<account, session, clock, changes, crossed, doubled, latest>>
  BY DEF MovesOn, RegisterCheck, RegisterFails, LoginFind, LoginSign,
         LoginRefused, LoginSearch, LoginFails, Admit, HandlerEnds
<1> QED
  BY <1>1, <1>2, <1>3, <1>4, <1>5, <1>6, <1>7 DEF MovesOn

\* The new values of a profile are an account.
LEMMA ProfileTypes ==
  ASSUME TypeOK, NEW u \in Active, NEW new \in Profiles(u)
  PROVE  new \in Account
<1>1. account[u] \in Account
  BY RowTypes
<1> QED
  BY <1>1, AccountsAssumption DEF Profiles, Account

\* The steps of a request, and the others.
LEMMA NextCases ==
  ASSUME Next
  PROVE  \/ \E r \in Requests :
              \/ MovesOn(r)
              \/ \E u \in Users : RegisterCreate(r, u)
              \/ LoginUpdate(r)
              \/ \E s \in Sessions : LoginCreate(r, s)
              \/ \E u \in Active : \E new \in Profiles(u) \ {account[u]} :
                   ChangeProfile(r, u, new)
         \/ \E u \in Users : Promote(u)
         \/ Tick
  BY DEF Next, Registration, Login, Call, MovesOn

\* A login from a device changes what is the last one for that device only.
LEMMA LatestTypes ==
  ASSUME TypeOK, NEW user \in Users, NEW device \in Devices, NEW token \in Token,
         Counts(user, device, token)
  PROVE  /\ latest' \in [Users -> [Devices -> Token \cup {None}]]
         /\ latest'[user][device] = token
         /\ \A u \in Users, d \in Devices :
              u # user \/ d # device => latest'[u][d] = latest[u][d]
<1>1. /\ latest \in [Users -> [Devices -> Token \cup {None}]]
      /\ latest[user] \in [Devices -> Token \cup {None}]
  BY DEF TypeOK
<1>2. latest' = [latest EXCEPT ![user] = [latest[user] EXCEPT ![device] = token]]
  BY DEF Counts
<1>3. [latest[user] EXCEPT ![device] = token] \in [Devices -> Token \cup {None}]
  BY <1>1
<1> QED
  BY <1>1, <1>2, <1>3

\* Nothing happens to a type in a step.
LEMMA StepTypes == TypeOK /\ FoundIsTheirs /\ [Next]_vars => TypeOK'
<1> SUFFICES ASSUME TypeOK, FoundIsTheirs, [Next]_vars PROVE TypeOK'
  OBVIOUS
<1>1. ASSUME NEW r \in Requests, MovesOn(r) PROVE TypeOK'
  BY <1>1, MovesOnTypes, GotoTypes DEF TypeOK
<1>2. ASSUME NEW r \in Requests, NEW u \in Users, RegisterCreate(r, u)
      PROVE  TypeOK'
  <2> DEFINE new == [at |-> "active", email |-> request[r].email,
                     name |-> request[r].name, role |-> "USER",
                     banned |-> FALSE]
  <2>1. new \in Account
    BY <1>2, RequestKnows DEF RegisterCreate, Account, Roles
  <2>2. account' \in [Users -> Account \cup {None}]
    BY <1>2, <2>1 DEF RegisterCreate, TypeOK
  <2>3. crossed' \in SUBSET {Folded[e] : e \in Emails}
    <3>1. Folded[request[r].email] \in {Folded[e] : e \in Emails}
      BY <1>2, RequestKnows DEF RegisterCreate
    <3> QED
      BY <1>2, <3>1 DEF RegisterCreate, TypeOK
  <2>4. request' \in [Requests -> Request]
    BY <1>2, GotoTypes, IdleIsAState DEF RegisterCreate
  <2> QED
    BY <1>2, <2>2, <2>3, <2>4 DEF RegisterCreate, TypeOK
<1>3. ASSUME NEW r \in Requests, LoginUpdate(r) PROVE TypeOK'
  <2> DEFINE s == request[r].found
  <2>1. s \in Open /\ session[s] \in Session /\ request[r].token \in Token
    BY <1>3, RequestKnows, RowTypes DEF LoginUpdate, FoundIsTheirs
  <2>2. [session[s] EXCEPT !.token = request[r].token] \in Session
    BY <2>1 DEF Session
  <2>3. session' \in [Sessions -> Session \cup {None}]
    BY <1>3, <2>1, <2>2 DEF LoginUpdate, TypeOK, Open
  <2>4. request' \in [Requests -> Request]
    BY <1>3, GotoTypes, IdleIsAState DEF LoginUpdate
  <2>5. /\ request[r].token.user \in Users /\ request[r].device \in Devices
        /\ request[r].token \in Token
    BY <1>3, RequestKnows DEF LoginUpdate, Token
  <2>6. latest' \in [Users -> [Devices -> Token \cup {None}]]
    BY <1>3, <2>5, LatestTypes DEF LoginUpdate
  <2> QED
    BY <1>3, <2>3, <2>4, <2>6 DEF LoginUpdate, TypeOK
<1>4. ASSUME NEW r \in Requests, NEW s \in Sessions, LoginCreate(r, s)
      PROVE  TypeOK'
  <2> DEFINE new == [at |-> "open", user |-> request[r].token.user,
                     device |-> request[r].device, token |-> request[r].token]
  <2>1. new \in Session /\ request[r].token.user \in Users
    BY <1>4, RequestKnows DEF LoginCreate, Session, Token
  <2>2. session' \in [Sessions -> Session \cup {None}]
    BY <1>4, <2>1 DEF LoginCreate, TypeOK
  <2>3. doubled' \in SUBSET Users
    BY <1>4, <2>1 DEF LoginCreate, TypeOK
  <2>4. request' \in [Requests -> Request]
    BY <1>4, GotoTypes, IdleIsAState DEF LoginCreate
  <2>5. request[r].device \in Devices /\ request[r].token \in Token
    BY <1>4, RequestKnows DEF LoginCreate
  <2>6. latest' \in [Users -> [Devices -> Token \cup {None}]]
    BY <1>4, <2>1, <2>5, LatestTypes DEF LoginCreate
  <2> QED
    BY <1>4, <2>2, <2>3, <2>4, <2>6 DEF LoginCreate, TypeOK
<1>5. ASSUME NEW r \in Requests, NEW u \in Active,
             NEW new \in Profiles(u) \ {account[u]}, ChangeProfile(r, u, new)
      PROVE  TypeOK'
  <2>1. new \in Account
    BY ProfileTypes
  <2>2. account' \in [Users -> Account \cup {None}]
    BY <1>5, <2>1 DEF ChangeProfile, TypeOK, Active
  <2>3. crossed' \in SUBSET {Folded[e] : e \in Emails}
    BY <1>5, <2>1 DEF ChangeProfile, TypeOK, Account
  <2>4. request' \in [Requests -> Request]
    BY <1>5, GotoTypes, IdleIsAState DEF ChangeProfile
  <2>5. changes' \in 0..MaxChanges
    BY <1>5, AccountsAssumption DEF ChangeProfile, TypeOK
  <2> QED
    BY <1>5, <2>2, <2>3, <2>4, <2>5 DEF ChangeProfile, TypeOK
<1>6. ASSUME NEW u \in Users, Promote(u) PROVE TypeOK'
  <2>1. [account[u] EXCEPT !.role = "ADMIN"] \in Account
    BY <1>6, RowTypes DEF Promote, Account, Roles
  <2>2. account' \in [Users -> Account \cup {None}]
    BY <1>6, <2>1 DEF Promote, TypeOK
  <2> QED
    BY <1>6, <2>2 DEF Promote, TypeOK
<1>7. CASE Tick
  BY <1>7, AccountsAssumption DEF Tick, TypeOK
<1>8. CASE UNCHANGED vars
  BY <1>8 DEF vars, TypeOK
<1> QED
  BY <1>1, <1>2, <1>3, <1>4, <1>5, <1>6, <1>7, <1>8, NextCases

-----------------------------------------------------------------------------
(* E-mails.                                                                *)

\* Changes of the accounts that the e-mails do not see.
LEMMA SameEmails ==
  ASSUME TypeOK, CheckedStillHolds, NoCaseTwinsUnlessCrossed,
         Active' = Active, crossed' = crossed,
         \A u \in Active : account'[u].email = account[u].email
  PROVE  /\ NoCaseTwinsUnlessCrossed'
         /\ \A r \in Requests :
              request'[r] = request[r] /\ request[r].at = "hashing" =>
                \/ Folded[request'[r].email] \in crossed'
                \/ \A v \in Active' :
                     Folded[account'[v].email] # Folded[request'[r].email]
  BY DEF CheckedStillHolds, NoCaseTwinsUnlessCrossed

LEMMA StepEmails ==
  TypeOK /\ CheckedStillHolds /\ NoCaseTwinsUnlessCrossed /\ [Next]_vars
    => CheckedStillHolds' /\ NoCaseTwinsUnlessCrossed'
<1> SUFFICES ASSUME TypeOK, CheckedStillHolds, NoCaseTwinsUnlessCrossed,
                    [Next]_vars
             PROVE  CheckedStillHolds' /\ NoCaseTwinsUnlessCrossed'
  OBVIOUS
<1>1. ASSUME NEW r \in Requests, MovesOn(r)
      PROVE  CheckedStillHolds' /\ NoCaseTwinsUnlessCrossed'
  <2>1. /\ UNCHANGED <<account, crossed>>
        /\ \A q \in Requests \ {r} : request'[q] = request[q]
    BY <1>1, MovesOnTypes, GotoTypes
  <2>2. Active' = Active
    BY <2>1 DEF Active
  <2>3. ASSUME request'[r].at = "hashing"
        PROVE  \E email \in Emails, name \in Names :
                 RegisterCheck(r, email, name) /\ request'[r].email = email
    <3>1. CASE \E email \in Emails, name \in Names : RegisterCheck(r, email, name)
      <4>1. PICK email \in Emails, name \in Names : RegisterCheck(r, email, name)
        BY <3>1
      <4>2. request'[r] = [at |-> "hashing", email |-> email, name |-> name]
        BY <4>1 DEF RegisterCheck, Goto, TypeOK
      <4> QED
        BY <4>1, <4>2
    <3>2. CASE ~ \E email \in Emails, name \in Names :
                   RegisterCheck(r, email, name)
      BY <1>1, <2>3, <3>2 DEF MovesOn, RegisterFails, LoginFind, LoginSign,
         LoginRefused, LoginSearch, LoginFails, Admit, HandlerEnds, Goto,
         TypeOK, Idle
    <3> QED
      BY <3>1, <3>2
  <2>4. request'[r].at = "hashing" =>
          \A v \in Active : Folded[account[v].email] # Folded[request'[r].email]
    BY <2>3 DEF RegisterCheck, Taken
  <2> QED
    BY <2>1, <2>2, <2>4 DEF CheckedStillHolds, NoCaseTwinsUnlessCrossed
<1>2. ASSUME NEW r \in Requests, NEW u \in Users, RegisterCreate(r, u)
      PROVE  CheckedStillHolds' /\ NoCaseTwinsUnlessCrossed'
  <2> DEFINE folded == Folded[request[r].email]
  <2>1. /\ account' = [account EXCEPT ![u] =
             [at |-> "active", email |-> request[r].email,
              name |-> request[r].name, role |-> "USER", banned |-> FALSE]]
        /\ account[u].at = "none" /\ request[r].at = "hashing"
    BY <1>2 DEF RegisterCreate
  <2>2. /\ Active' = Active \cup {u} /\ u \notin Active
        /\ account'[u].email = request[r].email
        /\ \A v \in Active : account'[v] = account[v]
    BY <2>1 DEF Active, TypeOK
  <2>3. /\ request'[r] = Idle
        /\ \A q \in Requests \ {r} : request'[q] = request[q]
    BY <1>2, GotoTypes, IdleIsAState DEF RegisterCreate
  <2>4. crossed \subseteq crossed'
    BY <1>2 DEF RegisterCreate
  <2>5. \/ folded \in crossed'
        \/ /\ \A v \in Active : Folded[account[v].email] # folded
           /\ \A q \in Requests \ {r} : request[q].at = "hashing" =>
                Folded[request[q].email] # folded
    <3>1. CASE Registering(request[r].email) # {r}
      BY <1>2, <3>1 DEF RegisterCreate
    <3>2. CASE Registering(request[r].email) = {r}
      BY <2>1, <2>4, <3>2 DEF Registering, CheckedStillHolds
    <3> QED
      BY <3>1, <3>2
  <2>6. CheckedStillHolds'
    <3> SUFFICES ASSUME NEW q \in Requests, request'[q].at = "hashing",
                        Folded[request'[q].email] \notin crossed',
                        NEW v \in Active'
                 PROVE  Folded[account'[v].email] # Folded[request'[q].email]
      BY DEF CheckedStillHolds
    <3>1. q # r /\ request'[q] = request[q]
      BY <2>3 DEF Idle
    <3>2. CASE v = u
      BY <3>1, <3>2, <2>2, <2>5
    <3>3. CASE v \in Active
      BY <3>1, <3>3, <2>2, <2>4 DEF CheckedStillHolds
    <3> QED
      BY <3>2, <3>3, <2>2
  <2>7. NoCaseTwinsUnlessCrossed'
    BY <2>2, <2>4, <2>5 DEF NoCaseTwinsUnlessCrossed
  <2> QED
    BY <2>6, <2>7
<1>3. ASSUME NEW r \in Requests,
             \/ LoginUpdate(r) \/ \E s \in Sessions : LoginCreate(r, s)
      PROVE  CheckedStillHolds' /\ NoCaseTwinsUnlessCrossed'
  <2>1. UNCHANGED <<account, crossed>> /\ Goto(r, Idle)
    BY <1>3 DEF LoginUpdate, LoginCreate
  <2>2. /\ request'[r] = Idle
        /\ \A q \in Requests \ {r} : request'[q] = request[q]
    BY <2>1, GotoTypes, IdleIsAState
  <2> QED
    BY <2>1, <2>2 DEF CheckedStillHolds, NoCaseTwinsUnlessCrossed, Active, Idle
<1>4. ASSUME NEW r \in Requests, NEW u \in Active,
             NEW new \in Profiles(u) \ {account[u]}, ChangeProfile(r, u, new)
      PROVE  CheckedStillHolds' /\ NoCaseTwinsUnlessCrossed'
  <2>1. new \in Account
    BY ProfileTypes
  <2>2. /\ Active' = Active
        /\ account'[u] = new
        /\ \A v \in Active \ {u} : account'[v] = account[v]
    BY <1>4, <2>1 DEF ChangeProfile, Active, Account, TypeOK
  <2>3. /\ request'[r] = Idle
        /\ \A q \in Requests \ {r} : request'[q] = request[q]
    BY <1>4, GotoTypes, IdleIsAState DEF ChangeProfile
  <2>4. /\ crossed \subseteq crossed'
        /\ new.email = account[u].email \/ Folded[new.email] \in crossed'
    BY <1>4 DEF ChangeProfile
  <2>5. CheckedStillHolds'
    <3> SUFFICES ASSUME NEW q \in Requests, request'[q].at = "hashing",
                        Folded[request'[q].email] \notin crossed',
                        NEW v \in Active'
                 PROVE  Folded[account'[v].email] # Folded[request'[q].email]
      BY DEF CheckedStillHolds
    <3>1. q # r /\ request'[q] = request[q]
      BY <2>3 DEF Idle
    <3>2. Folded[account[v].email] # Folded[request[q].email]
      BY <3>1, <2>2, <2>4 DEF CheckedStillHolds
    <3> QED
      BY <3>1, <3>2, <2>2, <2>4
  <2>6. NoCaseTwinsUnlessCrossed'
    BY <2>2, <2>4 DEF NoCaseTwinsUnlessCrossed
  <2> QED
    BY <2>5, <2>6
<1>5. ASSUME NEW u \in Users, Promote(u)
      PROVE  CheckedStillHolds' /\ NoCaseTwinsUnlessCrossed'
  <2>1. /\ UNCHANGED <<request, crossed>> /\ Active' = Active
        /\ \A v \in Active : account'[v].email = account[v].email
    <3>1. account[u] \in Account
      BY <1>5, RowTypes DEF Promote
    <3> QED
      BY <1>5, <3>1 DEF Promote, Active, TypeOK, Account
  <2> QED
    BY <2>1, SameEmails DEF CheckedStillHolds
<1>6. CASE Tick \/ UNCHANGED vars
  BY <1>6 DEF Tick, vars, CheckedStillHolds, NoCaseTwinsUnlessCrossed, Active
<1> QED
  BY <1>1, <1>2, <1>3, <1>4, <1>5, <1>6, NextCases

-----------------------------------------------------------------------------
(* Sessions.                                                               *)

\* What logins read and write, one step on.
LEMMA StepSessions ==
  ASSUME TypeOK, FoundIsTheirs, TokensAreTheirs, NotFoundIsNotThere,
         OneSessionPerDeviceUnlessDoubled, [Next]_vars
  PROVE  /\ FoundIsTheirs' /\ TokensAreTheirs' /\ NotFoundIsNotThere'
         /\ OneSessionPerDeviceUnlessDoubled'
<1> DEFINE Sound == /\ FoundIsTheirs' /\ TokensAreTheirs' /\ NotFoundIsNotThere'
                    /\ OneSessionPerDeviceUnlessDoubled'
<1>1. ASSUME NEW r \in Requests, MovesOn(r) PROVE Sound
  <2>1. /\ UNCHANGED <<session, doubled>>
        /\ \A q \in Requests \ {r} : request'[q] = request[q]
    BY <1>1, MovesOnTypes, GotoTypes
  <2>2. Open' = Open
    BY <2>1 DEF Open
  <2>3. /\ request'[r].at = "updating" =>
             /\ request'[r].found \in Open
             /\ session[request'[r].found].user = request'[r].token.user
             /\ session[request'[r].found].device = request'[r].device
        /\ request'[r].at = "opening" =>
             SessionsOf(request'[r].token.user, request'[r].device) = {}
    <3>1. CASE LoginSearch(r)
      BY <3>1 DEF LoginSearch, Goto, TypeOK, SessionsOf
    <3>2. CASE ~LoginSearch(r)
      BY <1>1, <3>2 DEF MovesOn, RegisterCheck, RegisterFails, LoginFind,
         LoginSign, LoginRefused, LoginFails, Admit, HandlerEnds, Goto,
         TypeOK, Idle
    <3> QED
      BY <3>1, <3>2
  <2>4. FoundIsTheirs'
    BY <2>1, <2>2, <2>3 DEF FoundIsTheirs
  <2>5. NotFoundIsNotThere'
    BY <2>1, <2>2, <2>3 DEF NotFoundIsNotThere, SessionsOf
  <2> QED
    BY <2>1, <2>2, <2>4, <2>5 DEF TokensAreTheirs, OneSessionPerDeviceUnlessDoubled
<1>2. ASSUME NEW r \in Requests,
             \/ \E u \in Users : RegisterCreate(r, u)
             \/ \E u \in Active : \E new \in Profiles(u) \ {account[u]} :
                  ChangeProfile(r, u, new)
      PROVE  Sound
  <2>1. UNCHANGED <<session, doubled>> /\ Goto(r, Idle)
    BY <1>2 DEF RegisterCreate, ChangeProfile
  <2>2. /\ request'[r] = Idle
        /\ \A q \in Requests \ {r} : request'[q] = request[q]
    BY <2>1, GotoTypes, IdleIsAState
  <2> QED
    BY <2>1, <2>2 DEF FoundIsTheirs, TokensAreTheirs, NotFoundIsNotThere,
       OneSessionPerDeviceUnlessDoubled, SessionsOf, Open, Idle
<1>3. ASSUME NEW r \in Requests, LoginUpdate(r) PROVE Sound
  <2> DEFINE s == request[r].found
  <2>1. /\ s \in Open /\ session[s].user = request[r].token.user
        /\ session[s] \in Session
    BY <1>3, RowTypes DEF LoginUpdate, FoundIsTheirs
  <2>2. session' = [session EXCEPT ![s].token = request[r].token]
    BY <1>3 DEF LoginUpdate
  <2>3. /\ session'[s] = [session[s] EXCEPT !.token = request[r].token]
        /\ \A o \in Sessions \ {s} : session'[o] = session[o]
    BY <2>1, <2>2 DEF TypeOK, Open
  <2>4. /\ session'[s].at = session[s].at
        /\ session'[s].user = session[s].user
        /\ session'[s].device = session[s].device
        /\ session'[s].token = request[r].token
    BY <2>1, <2>3 DEF Session
  <2>5. /\ Open' = Open
        /\ \A o \in Open : /\ session'[o].user = session[o].user
                           /\ session'[o].device = session[o].device
    BY <2>3, <2>4 DEF Open
  <2>6. /\ request'[r] = Idle
        /\ \A q \in Requests \ {r} : request'[q] = request[q]
        /\ doubled' = doubled
    BY <1>3, GotoTypes, IdleIsAState DEF LoginUpdate
  <2>7. FoundIsTheirs'
    BY <2>5, <2>6 DEF FoundIsTheirs, Idle
  <2>8. TokensAreTheirs'
    <3>1. session'[s].token.user = session'[s].user
      BY <2>1, <2>4
    <3>2. ASSUME NEW o \in Open, o # s
          PROVE  session'[o].token.user = session'[o].user
      <4>1. session'[o] = session[o]
        BY <2>3, <3>2 DEF Open
      <4> QED
        BY <4>1 DEF TokensAreTheirs
    <3> QED
      BY <3>1, <3>2, <2>5 DEF TokensAreTheirs
  <2>9. NotFoundIsNotThere'
    BY <2>5, <2>6 DEF NotFoundIsNotThere, SessionsOf, Idle
  <2>10. OneSessionPerDeviceUnlessDoubled'
    BY <2>5, <2>6 DEF OneSessionPerDeviceUnlessDoubled
  <2> QED
    BY <2>7, <2>8, <2>9, <2>10
<1>4. ASSUME NEW r \in Requests, NEW s \in Sessions, LoginCreate(r, s)
      PROVE  Sound
  <2> DEFINE user == request[r].token.user
             device == request[r].device
  <2>1. /\ session[s].at = "none" /\ request[r].at = "opening"
        /\ session' = [session EXCEPT ![s] =
             [at |-> "open", user |-> user, device |-> device,
              token |-> request[r].token]]
    BY <1>4 DEF LoginCreate
  <2>2. /\ session'[s] = [at |-> "open", user |-> user, device |-> device,
                          token |-> request[r].token]
        /\ \A o \in Open : session'[o] = session[o]
        /\ Open' = Open \cup {s} /\ s \notin Open
    BY <2>1 DEF TypeOK, Open
  <2>3. /\ request'[r] = Idle
        /\ \A q \in Requests \ {r} : request'[q] = request[q]
    BY <1>4, GotoTypes, IdleIsAState DEF LoginCreate
  <2>4. doubled \subseteq doubled'
    BY <1>4 DEF LoginCreate
  <2>5. \/ user \in doubled'
        \/ /\ SessionsOf(user, device) = {}
           /\ \A q \in Requests \ {r} : request[q].at = "opening" =>
                request[q].token.user # user \/ request[q].device # device
    <3>1. CASE Opening(user, device) # {r}
      BY <1>4, <3>1 DEF LoginCreate
    <3>2. CASE Opening(user, device) = {r}
      BY <2>1, <2>4, <3>2 DEF Opening, NotFoundIsNotThere
    <3> QED
      BY <3>1, <3>2
  <2>6. FoundIsTheirs'
    BY <2>2, <2>3 DEF FoundIsTheirs, Idle
  <2>7. TokensAreTheirs'
    BY <2>2 DEF TokensAreTheirs
  <2>8. NotFoundIsNotThere'
    <3> SUFFICES ASSUME NEW q \in Requests, request'[q].at = "opening",
                        request'[q].token.user \notin doubled',
                        NEW o \in Open',
                        session'[o].user = request'[q].token.user,
                        session'[o].device = request'[q].device
                 PROVE  FALSE
      BY DEF NotFoundIsNotThere, SessionsOf
    <3>1. q # r /\ request'[q] = request[q]
      BY <2>3 DEF Idle
    <3>2. CASE o = s
      BY <3>1, <3>2, <2>2, <2>5
    <3>3. CASE o \in Open
      BY <3>1, <3>3, <2>2, <2>4 DEF NotFoundIsNotThere, SessionsOf
    <3> QED
      BY <3>2, <3>3, <2>2
  <2>9. OneSessionPerDeviceUnlessDoubled'
    <3> SUFFICES ASSUME NEW o \in Open', NEW p \in Open', o # p,
                        session'[o].user = session'[p].user,
                        session'[o].device = session'[p].device
                 PROVE  session'[o].user \in doubled'
      BY DEF OneSessionPerDeviceUnlessDoubled
    <3>1. CASE o = s \/ p = s
      BY <3>1, <2>2, <2>5 DEF SessionsOf
    <3>2. CASE o \in Open /\ p \in Open
      BY <3>2, <2>2, <2>4 DEF OneSessionPerDeviceUnlessDoubled
    <3> QED
      BY <3>1, <3>2, <2>2
  <2> QED
    BY <2>6, <2>7, <2>8, <2>9
<1>5. ASSUME (\E u \in Users : Promote(u)) \/ Tick \/ UNCHANGED vars
      PROVE  Sound
  <2>1. UNCHANGED <<session, request, doubled>>
    BY <1>5 DEF Promote, Tick, vars
  <2> QED
    BY <2>1 DEF FoundIsTheirs, TokensAreTheirs, NotFoundIsNotThere,
       OneSessionPerDeviceUnlessDoubled, SessionsOf, Open
<1> QED
  BY <1>1, <1>2, <1>3, <1>4, <1>5, NextCases

-----------------------------------------------------------------------------
(* The last login from a device.                                           *)

LatestInv == RowsHoldTheLatest /\ LatestIsThere

\* A row for a device is written by a login from it, and by no other.
LEMMA StepLatest ==
  ASSUME TypeOK, FoundIsTheirs, NotFoundIsNotThere,
         OneSessionPerDeviceUnlessDoubled, LatestInv, [Next]_vars
  PROVE  LatestInv'
<1>1. ASSUME UNCHANGED <<session, doubled, latest>> PROVE LatestInv'
  BY <1>1 DEF LatestInv, RowsHoldTheLatest, LatestIsThere, Open
<1>2. ASSUME NEW r \in Requests, LoginUpdate(r) PROVE LatestInv'
  <2> DEFINE s == request[r].found
             user == request[r].token.user
             device == request[r].device
             token == request[r].token
  <2>1. /\ s \in Open /\ session[s].user = user /\ session[s].device = device
        /\ session[s] \in Session
    BY <1>2, RowTypes DEF LoginUpdate, FoundIsTheirs
  <2>2. user \in Users /\ device \in Devices /\ token \in Token
    BY <1>2, RequestKnows DEF LoginUpdate, Token
  <2>3. session' = [session EXCEPT ![s].token = token]
    BY <1>2 DEF LoginUpdate
  <2>4. session'[s] = [session[s] EXCEPT !.token = token]
    BY <2>1, <2>3 DEF TypeOK, Open
  <2>5. /\ session'[s].at = session[s].at /\ session'[s].user = user
        /\ session'[s].device = device /\ session'[s].token = token
        /\ \A o \in Open \ {s} : session'[o] = session[o]
        /\ Open' = Open
    BY <2>1, <2>3, <2>4 DEF Session, TypeOK, Open
  <2>6. /\ latest'[user][device] = token
        /\ \A u \in Users, d \in Devices :
             u # user \/ d # device => latest'[u][d] = latest[u][d]
    BY <1>2, <2>2, LatestTypes DEF LoginUpdate
  <2>7. doubled' = doubled
    BY <1>2 DEF LoginUpdate
  <2>8. RowsHoldTheLatest'
    <3> SUFFICES ASSUME NEW o \in Open, o # s, session[o].user \notin doubled
                 PROVE  latest'[session[o].user][session[o].device]
                          = session[o].token
      BY <2>5, <2>6, <2>7 DEF RowsHoldTheLatest
    <3>1. session[o].user # user \/ session[o].device # device
      BY <2>1 DEF OneSessionPerDeviceUnlessDoubled
    <3>2. session[o].user \in Users /\ session[o].device \in Devices
      BY RowTypes DEF Session
    <3> QED
      BY <2>6, <3>1, <3>2 DEF LatestInv, RowsHoldTheLatest
  <2>9. LatestIsThere'
    <3> SUFFICES ASSUME NEW u \in Users, NEW d \in Devices, latest'[u][d] # None
                 PROVE  \E o \in Open : /\ session'[o].user = u
                                         /\ session'[o].device = d
                                         /\ session'[o].token = latest'[u][d]
      BY <2>5 DEF LatestIsThere
    <3>1. CASE u = user /\ d = device
      BY <3>1, <2>1, <2>5, <2>6
    <3>2. CASE u # user \/ d # device
      <4>1. PICK o \in Open : /\ session[o].user = u /\ session[o].device = d
                              /\ session[o].token = latest[u][d]
        BY <3>2, <2>6 DEF LatestInv, LatestIsThere
      <4> QED
        BY <3>2, <4>1, <2>1, <2>5, <2>6
    <3> QED
      BY <3>1, <3>2
  <2> QED
    BY <2>8, <2>9 DEF LatestInv
<1>3. ASSUME NEW r \in Requests, NEW s \in Sessions, LoginCreate(r, s)
      PROVE  LatestInv'
  <2> DEFINE user == request[r].token.user
             device == request[r].device
             token == request[r].token
  <2>1. /\ session' = [session EXCEPT ![s] =
             [at |-> "open", user |-> user, device |-> device, token |-> token]]
        /\ session[s].at = "none" /\ doubled \subseteq doubled'
        /\ request[r].at = "opening"
    BY <1>3 DEF LoginCreate
  <2>2. user \in Users /\ device \in Devices /\ token \in Token
    BY <1>3, RequestKnows DEF LoginCreate, Token
  <2>3. /\ session'[s] = [at |-> "open", user |-> user, device |-> device,
                          token |-> token]
        /\ \A o \in Open : session'[o] = session[o]
        /\ Open' = Open \cup {s} /\ s \notin Open
    BY <2>1 DEF TypeOK, Open
  <2>4. /\ latest'[user][device] = token
        /\ \A u \in Users, d \in Devices :
             u # user \/ d # device => latest'[u][d] = latest[u][d]
    BY <1>3, <2>2, LatestTypes DEF LoginCreate
  <2>5. RowsHoldTheLatest'
    <3> SUFFICES ASSUME NEW o \in Open, session[o].user \notin doubled'
                 PROVE  latest'[session[o].user][session[o].device]
                          = session[o].token
      BY <2>3, <2>4 DEF RowsHoldTheLatest
    <3>1. session[o].user # user \/ session[o].device # device
      BY <2>1 DEF NotFoundIsNotThere, SessionsOf
    <3>2. session[o].user \in Users /\ session[o].device \in Devices
      BY RowTypes DEF Session
    <3> QED
      BY <2>1, <2>4, <3>1, <3>2 DEF LatestInv, RowsHoldTheLatest
  <2>6. LatestIsThere'
    <3> SUFFICES ASSUME NEW u \in Users, NEW d \in Devices, latest'[u][d] # None
                 PROVE  \E o \in Open' : /\ session'[o].user = u
                                          /\ session'[o].device = d
                                          /\ session'[o].token = latest'[u][d]
      BY DEF LatestIsThere
    <3>1. CASE u = user /\ d = device
      BY <3>1, <2>3, <2>4
    <3>2. CASE u # user \/ d # device
      BY <3>2, <2>3, <2>4 DEF LatestInv, LatestIsThere
    <3> QED
      BY <3>1, <3>2
  <2> QED
    BY <2>5, <2>6 DEF LatestInv
<1>4. ASSUME NEW r \in Requests,
             \/ MovesOn(r)
             \/ \E u \in Users : RegisterCreate(r, u)
             \/ \E u \in Active : \E new \in Profiles(u) \ {account[u]} :
                  ChangeProfile(r, u, new)
      PROVE  UNCHANGED <<session, doubled, latest>>
  BY <1>4, MovesOnTypes DEF RegisterCreate, ChangeProfile
<1>5. ASSUME (\E u \in Users : Promote(u)) \/ Tick \/ UNCHANGED vars
      PROVE  UNCHANGED <<session, doubled, latest>>
  BY <1>5 DEF Promote, Tick, vars
<1> QED
  BY <1>1, <1>2, <1>3, <1>4, <1>5, NextCases

-----------------------------------------------------------------------------
(* Theorems.                                                               *)

\* The invariant holds from the empty tables on.
LEMMA InvHolds == Spec => []Inv
<1>1. Init => Inv
  <2> SUFFICES ASSUME Init PROVE Inv
    OBVIOUS
  <2>1. /\ Active = {} /\ Open = {}
        /\ \A r \in Requests : request[r].at = "idle"
        /\ \A u \in Users, d \in Devices : latest[u][d] = None
    BY DEF Init, Active, Open, None, Idle
  <2> QED
    BY <2>1, InitTypes DEF Inv, CheckedStillHolds, NoCaseTwinsUnlessCrossed,
       FoundIsTheirs, TokensAreTheirs, NotFoundIsNotThere,
       OneSessionPerDeviceUnlessDoubled, RowsHoldTheLatest, LatestIsThere
<1>2. Inv /\ [Next]_vars => Inv'
  BY StepTypes, StepEmails, StepSessions, StepLatest DEF Inv, LatestInv
<1> QED
  BY <1>1, <1>2, PTL DEF Spec

\* Types (the rows of users and login_history, what requests have read).
THEOREM Accounts_TypeOK == Spec => []TypeOK
  BY InvHolds, PTL DEF Inv

\* Accounts whose e-mail differs in case alone come from overlapping
\* registrations or from a change of profile, never from register by itself
\* (AuthService.register, UsersService.changeProfile).
THEOREM Accounts_NoCaseTwins == Spec => []NoCaseTwinsUnlessCrossed
  BY InvHolds, PTL DEF Inv

\* Two sessions of a user for one device come from overlapping logins only
\* (AuthService.login).
THEOREM Accounts_OneSession == Spec => []OneSessionPerDeviceUnlessDoubled
  BY InvHolds, PTL DEF Inv

\* A login fails only because of a token that the same user has signed in the
\* same second, elsewhere or in an overlapping login (AuthService.login and the
\* unique index of login_history.token).
THEOREM Accounts_LoginFails == Spec => LoginFailsOnlyInTheSameSecond
<1>1. ASSUME Inv, NEW r \in Requests, LoginFails(r)
      PROVE  LET k == request[r]
             IN \E o \in Open :
                  /\ session[o].user = k.token.user
                  /\ session[o].token.iat = k.token.iat
                  /\ session[o].device # k.device \/ k.token.user \in doubled
  <2> DEFINE token == request[r].token
  <2>1. CASE request[r].at = "updating"
    <3>1. PICK o \in Open \ {request[r].found} : session[o].token = token
      BY <1>1, <2>1 DEF LoginFails, TokenTaken
    <3>2. session[o].user = token.user
      BY <1>1, <3>1 DEF Inv, TokensAreTheirs
    <3>3. /\ request[r].found \in Open
          /\ session[request[r].found].user = token.user
          /\ session[request[r].found].device = request[r].device
      BY <1>1, <2>1 DEF Inv, FoundIsTheirs
    <3>4. session[o].device # request[r].device \/ token.user \in doubled
      BY <1>1, <3>1, <3>2, <3>3 DEF Inv, OneSessionPerDeviceUnlessDoubled
    <3> QED
      BY <3>1, <3>2, <3>4
  <2>2. CASE request[r].at = "opening"
    <3>1. PICK o \in Open : session[o].token = token
      BY <1>1, <2>2 DEF LoginFails
    <3>2. session[o].user = token.user
      BY <1>1, <3>1 DEF Inv, TokensAreTheirs
    <3>3. session[o].device # request[r].device \/ token.user \in doubled
      BY <1>1, <2>2, <3>2 DEF Inv, NotFoundIsNotThere, SessionsOf
    <3> QED
      BY <3>1, <3>2, <3>3
  <2> QED
    BY <1>1, <2>1, <2>2 DEF LoginFails
<1>2. Inv => [\A r \in Requests : LoginFails(r) =>
                LET k == request[r]
                IN \E o \in Open :
                     /\ session[o].user = k.token.user
                     /\ session[o].token.iat = k.token.iat
                     /\ session[o].device # k.device
                          \/ k.token.user \in doubled]_vars
  BY <1>1
<1> QED
  BY <1>2, InvHolds, PTL DEF LoginFailsOnlyInTheSameSecond

\* A login ends the one before it from the same device, and no other: with
\* an unchanged account, the tokens that are let in are those of the last
\* logins, unless logins from a device overlapped (AuthService.login and
\* AuthService.validateUser).
THEOREM Accounts_ALoginEndsTheOneBefore == Spec => []ALoginEndsTheOneBefore
<1>1. ASSUME Inv, NEW token \in Token
      PROVE  LET current == \E d \in Devices : latest[token.user][d] = token
             IN /\ Valid(token) => current \/ token.user \in doubled
                /\ current /\ Unexpired(token)
                   /\ account[token.user].name = token.name
                   /\ account[token.user].role = token.role => Valid(token)
  <2> DEFINE current == \E d \in Devices : latest[token.user][d] = token
  <2>1. token.user \in Users /\ token # None
    BY DEF Token, None
  <2>2. ASSUME Valid(token), token.user \notin doubled PROVE current
    <3>1. PICK s \in Open : session[s].token = token
      BY <2>2 DEF Valid
    <3>2. session[s].user = token.user /\ session[s].device \in Devices
      BY <1>1, <3>1, RowTypes DEF Inv, TokensAreTheirs, Session
    <3> QED
      BY <1>1, <2>2, <3>1, <3>2 DEF Inv, RowsHoldTheLatest
  <2>3. ASSUME current PROVE \E s \in Open : session[s].token = token
    BY <1>1, <2>1, <2>3 DEF Inv, LatestIsThere
  <2> QED
    BY <2>2, <2>3 DEF Valid
<1>2. Inv => ALoginEndsTheOneBefore
  BY <1>1 DEF ALoginEndsTheOneBefore
<1> QED
  BY <1>2, InvHolds, PTL

=============================================================================
