----------------------------- MODULE AccountsProofs -----------------------------
(***************************************************************************)
(* Theorems about Accounts, for any requests, names, sessions, limits and  *)
(* times.                                                                  *)
(***************************************************************************)
EXTENDS Accounts, FiniteSetTheorems, TLAPS

\* An account of a request that is about to check a password was there, and was not
\* locked, when the request read it; and it has not taken as long as a lock lasts.
Checking(r) ==
    LET q == request[r]
    IN  /\ q.name \in Name /\ users[q.name] # None
        /\ q.seen \in Account /\ ~Locked(q.seen, q.at)
        /\ q.at <= now /\ now < q.at + LockTime

\* What each request holds at each step.
Holds(r) ==
    /\ pc[r] \in {"bootstrap", "load"} => request[r].name \in Name
    /\ pc[r] = "load" => users[Root] # None
    /\ pc[r] = "verify" => Checking(r)
    /\ pc[r] = "admitted" => /\ request[r].session \in Session
                             /\ sessions[request[r].session] # None
                             /\ request[r].seen \in Account

RequestsHold == \A r \in Request : Holds(r)

\* Sessions are of accounts that there are, and the administrator is the first of them.
SessionsOfUsers ==
    /\ \A s \in Session : sessions[s] # None => users[sessions[s].user] # None
    /\ \A u \in Name : users[u] # None => users[Root] # None

\* Checking needs the account to be there, TypeOK that only the administrator is made
\* without a company, and both that no account is ever removed.
IInv == TypeOK /\ RequestsHold /\ SessionsOfUsers

-----------------------------------------------------------------------------
(* What the operators return *)

\* A new account is one, if its role goes with its company.
LEMMA NewAccountType ==
    ASSUME NEW role \in Role, NEW c \in Company \cup {None}
    PROVE  /\ NewAccount(role, c) \in Account
           /\ NewAccount(role, c).role = role /\ NewAccount(role, c).company = c
  BY AccountsAssumption DEF NewAccount, Account

\* One failure more is an account still, of the same user; a lock it sets is a new one.
LEMMA FailedType ==
    ASSUME NEW seen \in Account, NEW t \in Nat
    PROVE  /\ Failed(seen, t) \in Account
           /\ Failed(seen, t).role = seen.role /\ Failed(seen, t).company = seen.company
           /\ Failed(seen, t).locked \in {seen.locked, t + LockTime}
<1> DEFINE more == [seen EXCEPT !.attempts = @ + 1]
           last == [seen EXCEPT !.attempts = 0, !.locked = t + LockTime]
<1>1. seen.attempts \in 0..(LockAfter - 1) /\ seen.locked \in Nat \cup {None}
  BY DEF Account
<1>2. CASE seen.attempts + 1 >= LockAfter
  <2>1. last \in Account /\ last.role = seen.role /\ last.company = seen.company
        /\ last.locked = t + LockTime
    <3>1. 0 \in 0..(LockAfter - 1) /\ t + LockTime \in Nat
      BY AccountsAssumption
    <3> QED BY <3>1 DEF Account
  <2> QED BY <1>2, <2>1 DEF Failed
<1>3. CASE ~(seen.attempts + 1 >= LockAfter)
  <2>1. more \in Account /\ more.role = seen.role /\ more.company = seen.company
        /\ more.locked = seen.locked
    BY <1>1, <1>3, AccountsAssumption DEF Account
  <2> QED BY <1>3, <2>1 DEF Failed
<1> QED BY <1>2, <1>3

\* What is flushed is an account of the same user, and a column that was not changed
\* keeps what is in the table.
LEMMA FlushedType ==
    ASSUME NEW row \in Account, NEW seen \in Account, NEW new \in Account
    PROVE  /\ Flushed(row, seen, new) \in Account
           /\ Flushed(row, seen, new).role = row.role
           /\ Flushed(row, seen, new).company = row.company
           /\ Flushed(row, seen, new).locked =
                  IF new.locked = seen.locked THEN row.locked ELSE new.locked
  BY DEF Flushed, Account

-----------------------------------------------------------------------------
(* The invariant *)

\* If the request that takes a step holds what it should, all do, as long as accounts
\* and sessions stay and the clock stands still.
LEMMA AllHold ==
    ASSUME IInv, NEW r \in Request, Holds(r)', now' = now,
           users' \in [Name -> Account \cup {None}],
           \A u \in Name : users[u] # None => users'[u] # None,
           \A s \in Session : sessions[s] # None => sessions'[s] # None,
           \A q \in Request \ {r} : pc'[q] = pc[q] /\ request'[q] = request[q]
    PROVE  RequestsHold'
<1> SUFFICES ASSUME NEW q \in Request \ {r} PROVE Holds(q)'
  BY DEF RequestsHold
<1>1. pc'[q] = pc[q] /\ request'[q] = request[q]
  OBVIOUS
<1>2. Root \in Name
  BY AccountsAssumption
<1> QED BY <1>1, <1>2 DEF IInv, RequestsHold, Holds, Checking, Locked

\* At the start nobody has done anything.
LEMMA InitHolds == Init => IInv
<1> SUFFICES ASSUME Init PROVE IInv
  OBVIOUS
<1>1. Quiet \in RequestData
  BY DEF Quiet, RequestData
<1>2. TypeOK
  BY <1>1, AccountsAssumption DEF Init, TypeOK
<1> QED BY <1>2 DEF Init, IInv, RequestsHold, Holds, SessionsOfUsers

\* A request that goes idle holds nothing.
LEMMA AnswerHolds ==
    ASSUME IInv, NEW r \in Request, Answer(r), now' = now,
           users' \in [Name -> Account \cup {None}],
           \A u \in Name : users[u] # None => users'[u] # None,
           \A s \in Session : sessions[s] # None => sessions'[s] # None
    PROVE  /\ RequestsHold'
           /\ pc' \in [Request -> {"idle", "bootstrap", "load", "verify", "admitted"}]
           /\ request' \in [Request -> RequestData]
<1>1. Quiet \in RequestData
  BY DEF Quiet, RequestData
<1>2. \A q \in Request \ {r} : pc'[q] = pc[q] /\ request'[q] = request[q]
  BY DEF Answer, IInv, TypeOK
<1>3. pc'[r] = "idle"
  BY DEF Answer, IInv, TypeOK
<1>4. RequestsHold'
  <2>1. Holds(r)'
    BY <1>3 DEF Holds
  <2> QED BY <1>2, <2>1, AllHold
<1> QED BY <1>1, <1>4 DEF Answer, IInv, TypeOK

\* The administrator is made first.
LEMMA BootstrapHolds ==
    ASSUME IInv, NEW r \in Request, Bootstrap(r)
    PROVE  IInv'
<1> DEFINE root == NewAccount("SYSTEM_ADMIN", None)
<1>1. root \in Account /\ root.role = "SYSTEM_ADMIN" /\ root.company = None /\ Root \in Name
  BY NewAccountType, AccountsAssumption DEF Role
<1> HIDE DEF root
<1>2. users' = IF users[Root] = None THEN [users EXCEPT ![Root] = root] ELSE users
  BY DEF Bootstrap, root
<1>3. /\ users' \in [Name -> Account \cup {None}] /\ users'[Root] # None
      /\ \A u \in Name : users[u] # None => users'[u] # None
      /\ \A u \in Name \ {Root} : users'[u] = users[u]
      /\ users'[Root] = users[Root] \/ users'[Root] = root
  BY <1>1, <1>2, RowsAssumption DEF IInv, TypeOK
<1>4. TypeOK'
  BY <1>1, <1>3 DEF Bootstrap, IInv, TypeOK
<1>5. \A q \in Request \ {r} : pc'[q] = pc[q] /\ request'[q] = request[q]
  BY DEF Bootstrap, IInv, TypeOK
<1>6. pc'[r] = "load" /\ request'[r].name \in Name
  BY DEF Bootstrap, IInv, TypeOK, RequestsHold, Holds
<1>7. RequestsHold'
  <2>1. Holds(r)'
    BY <1>3, <1>6 DEF Holds
  <2> QED BY <1>3, <1>5, <2>1, AllHold DEF Bootstrap
<1>8. SessionsOfUsers'
  BY <1>3 DEF Bootstrap, IInv, SessionsOfUsers, TypeOK, SessionRow
<1> QED BY <1>4, <1>7, <1>8 DEF IInv

\* A login has begun.
LEMMA BeginLoginHolds ==
    ASSUME IInv, NEW r \in Request, BeginLogin(r)
    PROVE  IInv'
<1>1. PICK u \in Name : request' = [request EXCEPT ![r].name = u]
  BY DEF BeginLogin
<1>2. /\ request' \in [Request -> RequestData] /\ request'[r].name = u
      /\ \A q \in Request \ {r} : pc'[q] = pc[q] /\ request'[q] = request[q]
  BY <1>1 DEF BeginLogin, IInv, TypeOK, RequestData
<1>3. pc' \in [Request -> {"bootstrap", "load", "idle", "verify", "admitted"}]
      /\ pc'[r] \in {"bootstrap", "load"} /\ (pc'[r] = "load" => users[Root] # None)
  BY DEF BeginLogin, IInv, TypeOK
<1>4. TypeOK' /\ SessionsOfUsers'
  BY <1>2, <1>3 DEF BeginLogin, IInv, TypeOK, SessionsOfUsers
<1>5. Holds(r)'
  BY <1>2, <1>3 DEF Holds, BeginLogin
<1>6. RequestsHold'
  BY <1>2, <1>5, AllHold DEF BeginLogin, IInv, TypeOK
<1> QED BY <1>4, <1>6 DEF IInv

\* What a login reads is an account that is not locked now.
LEMMA LoadAccountHolds ==
    ASSUME IInv, NEW r \in Request, LoadAccount(r)
    PROVE  IInv'
<1> DEFINE u == request[r].name
           account == users[u]
<1>1. u \in Name /\ account \in Account \cup {None} /\ now \in Nat
  BY AccountsAssumption DEF LoadAccount, IInv, RequestsHold, Holds, TypeOK
<1>2. CASE account = None \/ (account # None /\ Locked(account, now))
  <2>1. Answer(r)
    BY <1>2 DEF LoadAccount
  <2> QED BY <2>1, AnswerHolds DEF LoadAccount, IInv, TypeOK, SessionsOfUsers
<1>3. CASE account # None /\ ~Locked(account, now)
  <2>1. /\ request' = [request EXCEPT ![r].seen = account, ![r].at = now]
        /\ pc' = [pc EXCEPT ![r] = "verify"]
    BY <1>3 DEF LoadAccount
  <2> HIDE DEF account
  <2>2. /\ request' \in [Request -> RequestData] /\ pc'[r] = "verify"
        /\ request'[r].name = u /\ request'[r].seen = account /\ request'[r].at = now
        /\ \A q \in Request \ {r} : pc'[q] = pc[q] /\ request'[q] = request[q]
    BY <1>1, <2>1 DEF IInv, TypeOK, RequestData
  <2>3. TypeOK' /\ SessionsOfUsers'
    BY <2>1, <2>2 DEF LoadAccount, IInv, TypeOK, SessionsOfUsers
  <2>4. Checking(r)'
    BY <1>1, <1>3, <2>2, AccountsAssumption DEF Checking, LoadAccount, Locked, account
  <2>5. Holds(r)'
    BY <2>2, <2>4 DEF Holds
  <2>6. RequestsHold'
    BY <2>2, <2>5, AllHold DEF LoadAccount, IInv, TypeOK
  <2> QED BY <2>3, <2>6 DEF IInv
<1> QED BY <1>2, <1>3

\* What a login that checks a password knows.
LEMMA VerifyKnows ==
    ASSUME IInv, NEW r \in Request, pc[r] = "verify"
    PROVE  /\ request[r].name \in Name /\ users[request[r].name] \in Account
           /\ request[r].seen \in Account /\ request[r].at \in Nat
           /\ now \in Nat /\ now < request[r].at + LockTime
           /\ ~Locked(request[r].seen, request[r].at)
  BY AccountsAssumption DEF IInv, TypeOK, RequestsHold, Holds, Checking, RequestData

\* Writing an account back keeps it an account of the same user.
LEMMA WriteHolds ==
    ASSUME IInv, NEW u \in Name, NEW row \in Account, users[u] \in Account,
           row.role = users[u].role, row.company = users[u].company,
           users' = [users EXCEPT ![u] = row]
    PROVE  /\ users' \in [Name -> Account \cup {None}]
           /\ \A v \in Name : users[v] # None <=> users'[v] # None
           /\ \A v \in Name : users'[v] # None =>
                /\ v = Root <=> users'[v].role = "SYSTEM_ADMIN"
                /\ v = Root <=> users'[v].company = None
<1>1. row # None /\ users[u] # None
  BY RowsAssumption
<1>2. users'[u] = row /\ \A v \in Name \ {u} : users'[v] = users[v]
  BY DEF IInv, TypeOK
<1>3. users' \in [Name -> Account \cup {None}]
  BY DEF IInv, TypeOK
<1> QED BY <1>1, <1>2, <1>3 DEF IInv, TypeOK

\* A failed login.
LEMMA WrongPasswordHolds ==
    ASSUME IInv, NEW r \in Request, WrongPassword(r)
    PROVE  IInv'
<1> DEFINE u == request[r].name
           seen == request[r].seen
           new == Failed(seen, request[r].at)
           row == Flushed(users[u], seen, new)
<1>0. pc[r] = "verify"
  BY DEF WrongPassword
<1>1. u \in Name /\ users[u] \in Account /\ seen \in Account /\ request[r].at \in Nat
  BY <1>0, VerifyKnows
<1>2. new \in Account
  BY <1>1, FailedType
<1>3. row \in Account /\ row.role = users[u].role /\ row.company = users[u].company
  BY <1>1, <1>2, FlushedType
<1>4. /\ users' = [users EXCEPT ![u] = row]
      /\ misses' = [misses EXCEPT ![u] = IF new.locked # seen.locked THEN 0 ELSE @ + 1]
      /\ Answer(r) /\ UNCHANGED <<sessions, now>>
  BY DEF WrongPassword
<1> HIDE DEF row, new
<1>5. /\ users' \in [Name -> Account \cup {None}]
      /\ \A v \in Name : users[v] # None <=> users'[v] # None
      /\ \A v \in Name : users'[v] # None =>
           /\ v = Root <=> users'[v].role = "SYSTEM_ADMIN"
           /\ v = Root <=> users'[v].company = None
  <2> HIDE DEF u
  <2> QED BY <1>1, <1>3, <1>4, WriteHolds
<1>6. misses' \in [Name -> Nat]
  BY <1>1, <1>4 DEF IInv, TypeOK
<1>7. /\ RequestsHold'
      /\ pc' \in [Request -> {"idle", "bootstrap", "load", "verify", "admitted"}]
      /\ request' \in [Request -> RequestData]
  BY <1>4, <1>5, AnswerHolds
<1>8. TypeOK'
  BY <1>4, <1>5, <1>6, <1>7 DEF IInv, TypeOK
<1>9. SessionsOfUsers'
  BY <1>4, <1>5, AccountsAssumption DEF IInv, TypeOK, SessionsOfUsers, SessionRow
<1> QED BY <1>7, <1>8, <1>9 DEF IInv

\* A login.
LEMMA RightPasswordHolds ==
    ASSUME IInv, NEW r \in Request, RightPassword(r)
    PROVE  IInv'
<1> DEFINE u == request[r].name
           seen == request[r].seen
           new == [seen EXCEPT !.attempts = 0, !.locked = None]
           row == Flushed(users[u], seen, new)
           opened == [user |-> u, expires |-> request[r].at + TTL, revoked |-> FALSE]
<1>0. pc[r] = "verify"
  BY DEF RightPassword
<1>1. u \in Name /\ users[u] \in Account /\ seen \in Account /\ request[r].at \in Nat
  BY <1>0, VerifyKnows
<1>2. new \in Account
  <2>1. 0 \in 0..(LockAfter - 1)
    BY AccountsAssumption
  <2> QED BY <1>1, <2>1 DEF Account
<1>3. row \in Account /\ row.role = users[u].role /\ row.company = users[u].company
  BY <1>1, <1>2, FlushedType
<1>4. opened \in SessionRow /\ opened.user = u /\ opened # None
  <2>1. request[r].at + TTL \in Nat
    BY <1>1, AccountsAssumption
  <2>2. opened \in SessionRow /\ opened.user = u
    BY <1>1, <2>1 DEF SessionRow
  <2> QED BY <2>2, RowsAssumption
<1>5. PICK s \in Session : sessions[s] = None /\ sessions' = [sessions EXCEPT ![s] = opened]
  BY DEF RightPassword
<1>6. /\ users' = [users EXCEPT ![u] = row]
      /\ misses' = [misses EXCEPT ![u] = 0]
      /\ Answer(r) /\ UNCHANGED now
  BY DEF RightPassword
<1> HIDE DEF row, new, opened
<1>7. /\ users' \in [Name -> Account \cup {None}]
      /\ \A v \in Name : users[v] # None <=> users'[v] # None
      /\ \A v \in Name : users'[v] # None =>
           /\ v = Root <=> users'[v].role = "SYSTEM_ADMIN"
           /\ v = Root <=> users'[v].company = None
  <2> HIDE DEF u
  <2> QED BY <1>1, <1>3, <1>6, WriteHolds
<1>8. misses' \in [Name -> Nat]
  BY <1>1, <1>6 DEF IInv, TypeOK
<1>9. /\ sessions' \in [Session -> SessionRow \cup {None}] /\ sessions'[s] = opened
      /\ \A t \in Session \ {s} : sessions'[t] = sessions[t]
  BY <1>4, <1>5 DEF IInv, TypeOK
<1>10. \A t \in Session : sessions[t] # None => sessions'[t] # None
  BY <1>4, <1>9
<1>11. /\ RequestsHold'
       /\ pc' \in [Request -> {"idle", "bootstrap", "load", "verify", "admitted"}]
       /\ request' \in [Request -> RequestData]
  BY <1>6, <1>7, <1>10, AnswerHolds
<1>12. TypeOK'
  BY <1>6, <1>7, <1>8, <1>9, <1>11 DEF IInv, TypeOK
<1>13. users[u] # None
  BY <1>1, RowsAssumption
<1>14. SessionsOfUsers'
  <2>1. ASSUME NEW t \in Session, sessions'[t] # None PROVE users'[sessions'[t].user] # None
    <3>1. CASE t = s
      BY <3>1, <1>1, <1>4, <1>7, <1>9, <1>13
    <3>2. CASE t # s
      <4>1. sessions[t] # None /\ sessions'[t] = sessions[t] /\ sessions[t].user \in Name
        BY <2>1, <3>2, <1>9 DEF IInv, TypeOK, SessionRow
      <4> QED BY <4>1, <1>7 DEF IInv, SessionsOfUsers
    <3> QED BY <3>1, <3>2
  <2> QED BY <2>1, <1>7, AccountsAssumption DEF IInv, SessionsOfUsers
<1> QED BY <1>11, <1>12, <1>14 DEF IInv

\* A request is admitted with its session.
LEMMA AdmitHolds ==
    ASSUME IInv, NEW r \in Request, Admit(r)
    PROVE  IInv'
<1>1. PICK s \in Session :
        /\ Valid(s)
        /\ request' = [request EXCEPT ![r].session = s, ![r].seen = users[sessions[s].user]]
  BY DEF Admit
<1>2. sessions[s] # None /\ users[sessions[s].user] \in Account
  BY <1>1 DEF Valid, IInv, TypeOK, SessionsOfUsers, SessionRow
<1>3. /\ request' \in [Request -> RequestData] /\ pc'[r] = "admitted"
      /\ request'[r].session = s /\ request'[r].seen \in Account
      /\ \A q \in Request \ {r} : pc'[q] = pc[q] /\ request'[q] = request[q]
  <2> DEFINE data == [request[r] EXCEPT !.session = s, !.seen = users[sessions[s].user]]
  <2>1. data \in RequestData /\ data.session = s /\ data.seen \in Account
    BY <1>2 DEF IInv, TypeOK, RequestData
  <2>2. request' = [request EXCEPT ![r] = data]
    BY <1>1
  <2> HIDE DEF data
  <2> QED BY <2>1, <2>2 DEF Admit, IInv, TypeOK
<1>4. TypeOK' /\ SessionsOfUsers'
  BY <1>3 DEF Admit, IInv, TypeOK, SessionsOfUsers
<1>5. Holds(r)'
  BY <1>2, <1>3 DEF Holds, Admit
<1>6. RequestsHold'
  BY <1>3, <1>5, AllHold DEF Admit, IInv, TypeOK
<1> QED BY <1>4, <1>6 DEF IInv

\* A session is revoked.
LEMMA LogoutHolds ==
    ASSUME IInv, NEW r \in Request, Logout(r)
    PROVE  IInv'
<1> DEFINE s == request[r].session
           closed == [sessions[s] EXCEPT !.revoked = TRUE]
<1>1. s \in Session /\ sessions[s] \in SessionRow
  BY DEF Logout, IInv, TypeOK, RequestsHold, Holds
<1>2. closed \in SessionRow /\ closed.user = sessions[s].user /\ closed # None
  <2>1. closed \in SessionRow /\ closed.user = sessions[s].user
    BY <1>1 DEF SessionRow
  <2> QED BY <2>1, RowsAssumption
<1>3. sessions' = [sessions EXCEPT ![s] = closed] /\ Answer(r) /\ UNCHANGED <<users, now, misses>>
  BY DEF Logout
<1> HIDE DEF closed, s
<1>4. /\ sessions' \in [Session -> SessionRow \cup {None}] /\ sessions'[s] = closed
      /\ \A t \in Session \ {s} : sessions'[t] = sessions[t]
  BY <1>1, <1>2, <1>3 DEF IInv, TypeOK
<1>5. \A t \in Session : sessions[t] # None => sessions'[t] # None
  BY <1>2, <1>4
<1>6. /\ RequestsHold'
      /\ pc' \in [Request -> {"idle", "bootstrap", "load", "verify", "admitted"}]
      /\ request' \in [Request -> RequestData]
  BY <1>3, <1>5, AnswerHolds DEF IInv, TypeOK
<1>7. TypeOK'
  BY <1>3, <1>4, <1>6 DEF IInv, TypeOK
<1>8. SessionsOfUsers'
  <2>1. sessions[s] # None
    BY <1>1, RowsAssumption
  <2> QED BY <2>1, <1>1, <1>2, <1>3, <1>4 DEF IInv, SessionsOfUsers
<1> QED BY <1>6, <1>7, <1>8 DEF IInv

\* An account is added.
LEMMA CreateUserHolds ==
    ASSUME IInv, NEW r \in Request, CreateUser(r)
    PROVE  IInv'
<1>1. PICK u \in Name, role \in {"ADMIN", "USER"}, c \in Company :
        users[u] = None /\ users' = [users EXCEPT ![u] = NewAccount(role, c)]
  BY DEF CreateUser
<1> DEFINE row == NewAccount(role, c)
<1>2. row \in Account /\ row.role = role /\ row.company = c
  BY NewAccountType DEF Role
<1>3. row # None /\ c # None
  BY <1>2, RowsAssumption, AccountsAssumption
<1>4. users' = [users EXCEPT ![u] = row] /\ Answer(r) /\ UNCHANGED <<sessions, now, misses>>
  BY <1>1 DEF CreateUser
<1> HIDE DEF row
\* The administrator is there, as the request was admitted with a session.
<1>5. users[Root] # None /\ u # Root
  <2>1. request[r].session \in Session /\ sessions[request[r].session] # None
    BY DEF CreateUser, IInv, RequestsHold, Holds
  <2>2. sessions[request[r].session].user \in Name
    BY <2>1 DEF IInv, TypeOK, SessionRow
  <2> QED BY <2>1, <2>2, <1>1 DEF IInv, SessionsOfUsers
<1>6. /\ users' \in [Name -> Account \cup {None}] /\ users'[u] = row
      /\ \A v \in Name \ {u} : users'[v] = users[v]
  BY <1>2, <1>4 DEF IInv, TypeOK
<1>7. \A v \in Name : users[v] # None => users'[v] # None
  BY <1>3, <1>6
<1>8. /\ RequestsHold'
      /\ pc' \in [Request -> {"idle", "bootstrap", "load", "verify", "admitted"}]
      /\ request' \in [Request -> RequestData]
  BY <1>4, <1>6, <1>7, AnswerHolds
<1>9. \A v \in Name : users'[v] # None =>
        /\ v = Root <=> users'[v].role = "SYSTEM_ADMIN"
        /\ v = Root <=> users'[v].company = None
  <2> TAKE v \in Name
  <2>1. CASE v = u
    BY <2>1, <1>2, <1>3, <1>5, <1>6
  <2>2. CASE v # u
    BY <2>2, <1>6 DEF IInv, TypeOK
  <2> QED BY <2>1, <2>2
<1>10. TypeOK'
  BY <1>4, <1>6, <1>8, <1>9 DEF IInv, TypeOK
<1>11. SessionsOfUsers'
  BY <1>4, <1>5, <1>6, <1>7, AccountsAssumption DEF IInv, TypeOK, SessionsOfUsers, SessionRow
<1> QED BY <1>8, <1>10, <1>11 DEF IInv

\* The clock goes on, and no check has lasted as long as a lock.
LEMMA TickHolds ==
    ASSUME IInv, Tick
    PROVE  IInv'
<1>1. now \in 0..MaxNow /\ now' = now + 1 /\ now < MaxNow /\ MaxNow \in Nat
  BY AccountsAssumption DEF Tick, IInv, TypeOK
<1>2. TypeOK' /\ SessionsOfUsers'
  BY <1>1 DEF Tick, IInv, TypeOK, SessionsOfUsers
<1>3. ASSUME NEW r \in Request PROVE Holds(r)'
  <2>1. pc[r] = "verify" => Checking(r)'
    <3> SUFFICES ASSUME pc[r] = "verify" PROVE Checking(r)'
      OBVIOUS
    <3>1. Checking(r) /\ now + 1 < request[r].at + LockTime
      BY DEF Tick, IInv, RequestsHold, Holds
    <3>2. request[r].at \in Nat
      BY DEF IInv, TypeOK, RequestData
    <3> QED BY <1>1, <3>1, <3>2 DEF Tick, Checking, Locked
  <2>2. Holds(r)
    BY DEF IInv, RequestsHold
  <2> QED BY <2>1, <2>2 DEF Tick, Holds
<1> QED BY <1>2, <1>3 DEF IInv, RequestsHold

-----------------------------------------------------------------------------
(* Theorems *)

\* A step of a request keeps the invariant.
LEMMA StepHolds ==
    ASSUME IInv, [Next]_vars
    PROVE  IInv'
<1>1. ASSUME NEW r \in Request, Serve(r) PROVE IInv'
  <2>1. /\ RequestsHold'
        /\ pc' \in [Request -> {"idle", "bootstrap", "load", "verify", "admitted"}]
        /\ request' \in [Request -> RequestData]
    BY <1>1, AnswerHolds DEF Serve, IInv, TypeOK
  <2> QED BY <1>1, <2>1 DEF Serve, IInv, TypeOK, SessionsOfUsers
<1>2. CASE UNCHANGED vars
  BY <1>2 DEF vars, IInv, TypeOK, RequestsHold, Holds, Checking, Locked, SessionsOfUsers
<1> QED
  BY <1>1, <1>2, BeginLoginHolds, BootstrapHolds, LoadAccountHolds, WrongPasswordHolds,
     RightPasswordHolds, AdmitHolds, LogoutHolds, CreateUserHolds, TickHolds DEF Next

\* What requests, accounts and sessions hold, in every reachable state (auth.py).
THEOREM Invariance == Spec => []IInv
<1>1. Init => IInv
  BY InitHolds
<1>2. IInv /\ [Next]_vars => IInv'
  BY StepHolds
<1> QED BY <1>1, <1>2, PTL DEF Spec

\* The variables have their types, the count of failures stays below the limit, and the
\* administrator is the only account without a company (models.py, AppUser).
THEOREM TypeCorrect == Spec => []TypeOK
<1>1. IInv => TypeOK
  BY DEF IInv
<1> QED BY <1>1, Invariance, PTL

\* What a failed login leaves of a lock in force: nothing but a failure that read the
\* account before can be under way, and what it writes is a lock that is in force too.
LEMMA WrongPasswordKeepsLock ==
    ASSUME IInv, NEW r \in Request, WrongPassword(r), NEW v \in Name,
           users[v] # None, Locked(users[v], now)
    PROVE  Locked(users'[v], now)
<1> DEFINE u == request[r].name
           seen == request[r].seen
           new == Failed(seen, request[r].at)
           row == Flushed(users[u], seen, new)
<1>0. pc[r] = "verify"
  BY DEF WrongPassword
<1>1. /\ u \in Name /\ users[u] \in Account /\ seen \in Account /\ request[r].at \in Nat
      /\ now \in Nat /\ now < request[r].at + LockTime
  BY <1>0, VerifyKnows
<1>2. new \in Account /\ new.locked \in {seen.locked, request[r].at + LockTime}
  BY <1>1, FailedType
<1>3. row.locked = IF new.locked = seen.locked THEN users[u].locked ELSE new.locked
  BY <1>1, <1>2, FlushedType
<1>4. users' = [users EXCEPT ![u] = row]
  BY DEF WrongPassword
<1> HIDE DEF row, new
<1>5. CASE v = u
  <2>1. users'[v] = row
    BY <1>1, <1>4, <1>5 DEF IInv, TypeOK
  <2>2. row.locked = users[v].locked \/ row.locked = request[r].at + LockTime
    BY <1>2, <1>3, <1>5
  <2>3. request[r].at + LockTime \in Nat /\ request[r].at + LockTime > now
    BY <1>1, AccountsAssumption
  <2> QED BY <2>1, <2>2, <2>3, AccountsAssumption DEF Locked
<1>6. CASE v # u
  BY <1>1, <1>4, <1>6 DEF IInv, TypeOK
<1> QED BY <1>5, <1>6

\* A lock in force is lifted by the right password or by time, and by nothing else,
\* however logins interleave (login, auth.py:92-119).
THEOREM LocksAreKept == Spec => LockKept
<1>1. ASSUME IInv, Next, NEW v \in Name PROVE KeepsLock(v)
  <2> SUFFICES ASSUME users[v] # None, Locked(users[v], now) PROVE KeepsLock(v)
    BY DEF KeepsLock
  <2>1. ASSUME NEW r \in Request, Bootstrap(r) \/ CreateUser(r) PROVE KeepsLock(v)
    <3>1. CASE Bootstrap(r)
      <4>1. users'[v] = users[v] \/ (v = Root /\ users[Root] = None)
        BY <1>1, <3>1, AccountsAssumption DEF Bootstrap, IInv, TypeOK
      <4> QED BY <3>1, <4>1 DEF Bootstrap, KeepsLock
    <3>2. CASE CreateUser(r)
      <4>1. PICK u \in Name, role \in Role, c \in Company :
              users[u] = None /\ users' = [users EXCEPT ![u] = NewAccount(role, c)]
        BY <3>2 DEF CreateUser, Role
      <4>2. users[v] # None => users'[v] = users[v]
        BY <1>1, <4>1 DEF IInv, TypeOK
      <4> QED BY <3>2, <4>2 DEF CreateUser, KeepsLock
    <3> QED BY <2>1, <3>1, <3>2
  <2>2. ASSUME NEW r \in Request, WrongPassword(r) PROVE KeepsLock(v)
    BY <1>1, <2>2, WrongPasswordKeepsLock DEF KeepsLock
  <2>3. ASSUME NEW r \in Request, RightPassword(r) PROVE KeepsLock(v)
    <3> DEFINE opened == [user |-> request[r].name, expires |-> request[r].at + TTL,
                          revoked |-> FALSE]
    <3>1. PICK s \in Session : sessions[s] = None /\ sessions' = [sessions EXCEPT ![s] = opened]
      BY <2>3 DEF RightPassword
    <3>2. opened \in SessionRow /\ request[r].name \in Name
      <4>1. request[r].at \in Nat /\ request[r].name \in Name
        BY <1>1, <2>3, VerifyKnows DEF RightPassword
      <4>2. request[r].at + TTL \in Nat
        BY <4>1, AccountsAssumption
      <4> QED BY <4>1, <4>2 DEF SessionRow
    <3>3. sessions'[s] = opened /\ opened # None
      BY <1>1, <3>1, <3>2, RowsAssumption DEF IInv, TypeOK
    <3>4. CASE v = request[r].name
      BY <3>1, <3>3, <3>4 DEF KeepsLock
    <3>5. CASE v # request[r].name
      BY <1>1, <2>3, <3>2, <3>5 DEF RightPassword, IInv, TypeOK, KeepsLock
    <3> QED BY <3>4, <3>5
  <2>4. ASSUME NEW r \in Request, BeginLogin(r) \/ LoadAccount(r) \/ Admit(r) \/ Logout(r) \/ Serve(r)
        PROVE  KeepsLock(v)
    BY <2>4 DEF BeginLogin, LoadAccount, Admit, Logout, Serve, KeepsLock
  <2>5. ASSUME Tick PROVE KeepsLock(v)
    BY <1>1, <2>5, AccountsAssumption DEF Tick, IInv, TypeOK, KeepsLock
  <2> QED BY <1>1, <2>1, <2>2, <2>3, <2>4, <2>5 DEF Next
<1>2. IInv /\ [Next]_vars => [\A u \in Name : KeepsLock(u)]_vars
  BY <1>1
<1> QED BY <1>2, Invariance, PTL DEF Spec, LockKept

-----------------------------------------------------------------------------
(* Lockout *)

\* The failures that an account counts.
Count(u) == IF users[u] = None THEN 0 ELSE users[u].attempts

\* What a request has seen of them, or would see if it looked now.
Sees(r, u) ==
    IF pc[r] = "verify" /\ request[r].name = u THEN request[r].seen.attempts ELSE Count(u)

UpTo(u, k) == {r \in Request : Sees(r, u) <= k}
View(u) == [k \in 0..(LockAfter - 2) |-> Cardinality(UpTo(u, k))]

\* The views from which a failure may have led to this one.
Over(h, g) == \E k \in 0..(LockAfter - 2) : h[k] > g[k] /\ \A i \in 0..k : h[i] >= g[i]
Above(g) == {h \in Views : Over(h, g)}

\* Each failure since the count began has left a view behind.
MissesLeft == \A u \in Name : misses[u] <= Cardinality(Above(View(u)))

LockInv == IInv /\ MissesLeft

-----------------------------------------------------------------------------
\* There are finitely many views.
LEMMA ViewsFinite == IsFiniteSet(Views) /\ Cardinality(Views) \in Nat
<1> DEFINE I == 0..(LockAfter - 2)
           C == 0..Cardinality(Request)
<1>0. Cardinality(Request) \in Nat /\ LockAfter - 2 \in Nat
  BY FS_CardinalityType, AccountsAssumption
<1>1. IsFiniteSet(I) /\ IsFiniteSet(C)
  BY <1>0, FS_Interval
<1>2. PICK P : P = I \X C
  OBVIOUS
<1>3. IsFiniteSet(SUBSET P)
  BY <1>1, <1>2, FS_Product, FS_SUBSET
<1> DEFINE f == [g \in Views |-> {p \in P : p[2] = g[p[1]]}]
<1>4. f \in [Views -> SUBSET P]
  OBVIOUS
<1>5. ASSUME NEW g \in Views, NEW h \in Views, f[g] = f[h] PROVE g = h
  <2>1. g \in [I -> C] /\ h \in [I -> C]
    BY DEF Views
  <2>2. ASSUME NEW i \in I PROVE g[i] = h[i]
    <3>1. <<i, g[i]>> \in P
      BY <1>2, <2>1
    <3>2. <<i, g[i]>> \in f[g]
      BY <3>1
    <3>3. <<i, g[i]>> \in f[h]
      BY <1>5, <3>2
    <3> QED BY <3>3
  <2>3. g = [i \in I |-> g[i]] /\ h = [i \in I |-> h[i]]
    BY <2>1
  <2>4. [i \in I |-> g[i]] = [i \in I |-> h[i]]
    BY <2>2
  <2> QED BY <2>3, <2>4
<1>6. f \in Injection(Views, SUBSET P)
  BY <1>4, <1>5 DEF Injection, IsInjective
<1> HIDE DEF f
<1> QED BY <1>3, <1>6, FS_Injection, FS_CardinalityType

\* A view, whatever requests have seen.
LEMMA ViewOfType ==
    ASSUME NEW e \in [Request -> 0..(LockAfter - 1)]
    PROVE  [k \in 0..(LockAfter - 2) |-> Cardinality({r \in Request : e[r] <= k})] \in Views
<1> DEFINE few(k) == {r \in Request : e[r] <= k}
<1>1. ASSUME NEW k \in 0..(LockAfter - 2)
      PROVE  /\ IsFiniteSet(few(k)) /\ Cardinality(few(k)) \in Nat
             /\ Cardinality(few(k)) <= Cardinality(Request)
  <2>1. few(k) \in SUBSET Request
    OBVIOUS
  <2> HIDE DEF few
  <2> QED BY <2>1, FS_Subset, FS_CardinalityType, AccountsAssumption
<1>2. ASSUME NEW i \in 0..(LockAfter - 2), NEW j \in 0..(LockAfter - 2), i <= j
      PROVE  Cardinality(few(i)) <= Cardinality(few(j))
  <2>1. few(i) \subseteq few(j)
    BY <1>2, AccountsAssumption
  <2> HIDE DEF few
  <2> QED BY <1>1, <2>1, FS_Subset
<1> HIDE DEF few
<1>3. \A k \in 0..(LockAfter - 2) : Cardinality(few(k)) \in 0..Cardinality(Request)
  BY <1>1, FS_CardinalityType, AccountsAssumption
<1>4. [k \in 0..(LockAfter - 2) |-> Cardinality(few(k))] \in Views
  BY <1>2, <1>3 DEF Views
<1> QED BY <1>4 DEF few

\* The view of an account, before and after a step.
LEMMA ViewType ==
    ASSUME IInv, IInv', NEW u \in Name
    PROVE  /\ View(u) \in Views /\ View(u)' \in Views
           /\ \A r \in Request : Sees(r, u) \in 0..(LockAfter - 1)
<1>1. Count(u) \in 0..(LockAfter - 1) /\ Count(u)' \in 0..(LockAfter - 1)
  BY AccountsAssumption DEF IInv, TypeOK, Count, Account
<1>2. \A r \in Request : Sees(r, u) \in 0..(LockAfter - 1) /\ Sees(r, u)' \in 0..(LockAfter - 1)
  BY <1>1 DEF IInv, RequestsHold, Holds, Checking, Sees, Account
<1>3. PICK e, f : e = [r \in Request |-> Sees(r, u)] /\ f = [r \in Request |-> Sees(r, u)']
  OBVIOUS
<1>4. e \in [Request -> 0..(LockAfter - 1)] /\ f \in [Request -> 0..(LockAfter - 1)]
  BY <1>2, <1>3
<1>5. \A k : UpTo(u, k) = {r \in Request : e[r] <= k} /\ UpTo(u, k)' = {r \in Request : f[r] <= k}
  BY <1>3 DEF UpTo
<1>6. /\ View(u) = [k \in 0..(LockAfter - 2) |-> Cardinality({r \in Request : e[r] <= k})]
      /\ View(u)' = [k \in 0..(LockAfter - 2) |-> Cardinality({r \in Request : f[r] <= k})]
  BY <1>5 DEF View
<1> QED BY <1>2, <1>4, <1>6, ViewOfType

\* What is over a view is over those below it, and no view is over itself.
LEMMA AboveGrows ==
    ASSUME NEW g \in Views, NEW h \in Views, Over(h, g)
    PROVE  /\ Cardinality(Above(g)) \in Nat /\ Cardinality(Above(h)) \in Nat
           /\ Cardinality(Above(h)) + 1 <= Cardinality(Above(g))
<1>0. LockAfter - 2 \in Nat /\ Cardinality(Request) \in Nat
  BY FS_CardinalityType, AccountsAssumption
<1>1. \A v \in Views : v \in [0..(LockAfter - 2) -> Nat]
  BY <1>0 DEF Views
<1>2. ASSUME NEW v \in Views, Over(v, h) PROVE Over(v, g)
  <2>1. PICK k \in 0..(LockAfter - 2) : h[k] > g[k] /\ \A i \in 0..k : h[i] >= g[i]
    BY DEF Over
  <2>2. PICK m \in 0..(LockAfter - 2) : v[m] > h[m] /\ \A i \in 0..m : v[i] >= h[i]
    BY <1>2 DEF Over
  <2>3. \A i \in 0..(LockAfter - 2) : v[i] \in Nat /\ h[i] \in Nat /\ g[i] \in Nat
    BY <1>1
  <2>4. CASE k <= m
    <3>1. v[k] > g[k] /\ \A i \in 0..k : v[i] >= g[i]
      BY <1>0, <2>1, <2>2, <2>3, <2>4
    <3> QED BY <3>1 DEF Over
  <2>5. CASE m < k
    <3>1. v[m] > g[m] /\ \A i \in 0..m : v[i] >= g[i]
      BY <1>0, <2>1, <2>2, <2>3, <2>5
    <3> QED BY <3>1 DEF Over
  <2> QED BY <2>4, <2>5
<1>3. ~Over(h, h)
  <2>1. \A i \in 0..(LockAfter - 2) : h[i] \in Nat
    BY <1>1
  <2> QED BY <2>1 DEF Over
<1>4. PICK A, B : A = Above(h) /\ B = Above(g)
  OBVIOUS
<1>5. A \subseteq B /\ h \in B /\ h \notin A /\ B \subseteq Views
  BY <1>2, <1>3, <1>4 DEF Above
<1>6. IsFiniteSet(A) /\ IsFiniteSet(B)
  BY <1>5, ViewsFinite, FS_Subset
<1>7. Cardinality(A \cup {h}) = Cardinality(A) + 1 /\ A \cup {h} \subseteq B
  BY <1>5, <1>6, FS_AddElement
<1>8. Cardinality(A \cup {h}) <= Cardinality(B)
  BY <1>6, <1>7, FS_Subset
<1> QED BY <1>4, <1>6, <1>7, <1>8, FS_CardinalityType

\* No more than all views but one are above a view.
LEMMA AboveIsLess ==
    ASSUME NEW g \in Views
    PROVE  Cardinality(Above(g)) \in Nat /\ Cardinality(Above(g)) < Cardinality(Views)
<1>0. LockAfter - 2 \in Nat /\ Cardinality(Request) \in Nat
  BY FS_CardinalityType, AccountsAssumption
<1>1. g \in [0..(LockAfter - 2) -> Nat]
  BY <1>0 DEF Views
<1>2. ~Over(g, g)
  BY <1>1 DEF Over
<1>3. PICK A : A = Above(g)
  OBVIOUS
<1>4. A \subseteq Views \ {g}
  BY <1>2, <1>3 DEF Above
<1>5. IsFiniteSet(Views \ {g}) /\ Cardinality(Views \ {g}) = Cardinality(Views) - 1
  BY ViewsFinite, FS_RemoveElement
<1>6. IsFiniteSet(A) /\ Cardinality(A) <= Cardinality(Views \ {g})
  BY <1>4, <1>5, FS_Subset
<1> QED BY <1>3, <1>5, <1>6, ViewsFinite, FS_CardinalityType

\* A view stays as long as what requests see stays.
LEMMA ViewStays ==
    ASSUME NEW u \in Name, \A r \in Request : Sees(r, u)' = Sees(r, u)
    PROVE  View(u)' = View(u)
<1>1. \A k \in 0..(LockAfter - 2) : UpTo(u, k)' = UpTo(u, k)
  BY DEF UpTo
<1> QED BY <1>1 DEF View

\* A failure that does not lock leaves the view that it was made from above the new one:
\* fewer requests have seen as little of the failures as the one that failed.
LEMMA MissLeavesView ==
    ASSUME IInv, IInv', NEW r \in Request, WrongPassword(r), NEW u \in Name, u = request[r].name,
           request[r].seen.attempts + 1 < LockAfter
    PROVE  Over(View(u), View(u)')
<1> DEFINE s == request[r].seen.attempts
<1>1. /\ pc[r] = "verify" /\ users[u] \in Account /\ request[r].seen \in Account
      /\ s \in 0..(LockAfter - 2) /\ DOMAIN users = Name
      /\ DOMAIN pc = Request /\ DOMAIN request = Request
  <2>1. pc[r] = "verify"
    BY DEF WrongPassword
  <2>2. /\ users[u] \in Account /\ request[r].seen \in Account
        /\ DOMAIN users = Name /\ DOMAIN pc = Request /\ DOMAIN request = Request
    BY <2>1, VerifyKnows DEF IInv, TypeOK
  <2>3. s \in 0..(LockAfter - 2)
    BY <2>2, AccountsAssumption DEF Account
  <2> QED BY <2>1, <2>2, <2>3
<1>2. Count(u)' = s + 1
  <2> DEFINE new == Failed(request[r].seen, request[r].at)
             row == Flushed(users[u], request[r].seen, new)
  <2>1. new = [request[r].seen EXCEPT !.attempts = @ + 1]
    <3>1. ~(s + 1 >= LockAfter)
      BY <1>1, AccountsAssumption
    <3> QED BY <3>1 DEF Failed
  <2>2. new.attempts = s + 1 /\ new.attempts # request[r].seen.attempts
    BY <1>1, <2>1 DEF Account
  <2> HIDE DEF new
  <2>3. row.attempts = s + 1
    BY <1>1, <2>2 DEF Flushed, Account
  <2>4. new \in Account
    BY <1>1, VerifyKnows, FailedType DEF new
  <2>5. row \in Account
    BY <1>1, <2>4, FlushedType
  <2>6. users'[u] = row
    BY <1>1 DEF WrongPassword, new
  <2> HIDE DEF row
  <2>7. users'[u] # None
    BY <2>5, <2>6, RowsAssumption
  <2> QED BY <2>3, <2>6, <2>7 DEF Count
<1>3. pc'[r] = "idle" /\ \A q \in Request \ {r} : pc'[q] = pc[q] /\ request'[q] = request[q]
  BY <1>1 DEF WrongPassword, Answer
<1>4. Sees(r, u) = s /\ Sees(r, u)' = s + 1
  BY <1>1, <1>2, <1>3 DEF Sees
<1>5. \A q \in Request \ {r} : Sees(q, u)' = Sees(q, u) \/ Sees(q, u)' = s + 1
  BY <1>2, <1>3 DEF Sees
<1>6. \A q \in Request : Sees(q, u) \in Nat
  BY ViewType
<1>7. ASSUME NEW k \in 0..s PROVE UpTo(u, k)' \subseteq UpTo(u, k) \ {r}
  BY <1>1, <1>4, <1>5, <1>6, <1>7 DEF UpTo
<1>8. ASSUME NEW k \in 0..s
      PROVE  View(u)'[k] <= View(u)[k] /\ (k = s => View(u)'[k] < View(u)[k])
  <2>1. k \in 0..(LockAfter - 2)
    BY <1>1, <1>8, AccountsAssumption
  <2>2. PICK A, B : A = UpTo(u, k) /\ B = UpTo(u, k)'
    OBVIOUS
  <2>3. View(u)[k] = Cardinality(A) /\ View(u)'[k] = Cardinality(B)
    BY <2>1, <2>2 DEF View
  <2>4. IsFiniteSet(A) /\ B \subseteq A \ {r} /\ (k = s => r \in A)
    <3>1. A \in SUBSET Request
      BY <2>2 DEF UpTo
    <3> QED BY <1>1, <1>4, <1>7, <1>8, <2>2, <3>1, FS_Subset, AccountsAssumption DEF UpTo
  <2>5. /\ IsFiniteSet(A \ {r}) /\ Cardinality(B) <= Cardinality(A \ {r}) /\ IsFiniteSet(B)
        /\ Cardinality(A \ {r}) = IF r \in A THEN Cardinality(A) - 1 ELSE Cardinality(A)
    BY <2>4, FS_RemoveElement, FS_Subset
  <2>6. Cardinality(A) \in Nat /\ Cardinality(B) \in Nat
    BY <2>4, <2>5, FS_CardinalityType
  <2> QED BY <2>3, <2>4, <2>5, <2>6
<1>9. \A k \in 0..s : View(u)[k] \in Nat /\ View(u)'[k] \in Nat
  <2>1. View(u) \in Views /\ View(u)' \in Views
    BY ViewType
  <2>2. Cardinality(Request) \in Nat
    BY FS_CardinalityType, AccountsAssumption
  <2>3. 0..s \subseteq 0..(LockAfter - 2)
    BY <1>1, AccountsAssumption
  <2>4. View(u) \in [0..(LockAfter - 2) -> Nat] /\ View(u)' \in [0..(LockAfter - 2) -> Nat]
    BY <2>1, <2>2 DEF Views
  <2> QED BY <2>3, <2>4
<1> QED BY <1>1, <1>8, <1>9 DEF Over

\* A failure that locks, a login and whatever else: the count of misses starts again, or
\* nothing is seen of it.
LEMMA MissesStay ==
    ASSUME IInv, IInv', NEW u \in Name, misses[u] <= Cardinality(Above(View(u))),
           \/ misses'[u] = 0
           \/ misses'[u] = misses[u] /\ \A r \in Request : Sees(r, u)' = Sees(r, u)
    PROVE  misses'[u] <= Cardinality(Above(View(u)'))
<1>1. CASE misses'[u] = 0
  <2>1. Cardinality(Above(View(u)')) \in Nat
    BY ViewType, AboveIsLess
  <2> QED BY <1>1, <2>1
<1>2. CASE misses'[u] = misses[u] /\ \A r \in Request : Sees(r, u)' = Sees(r, u)
  BY <1>2, ViewStays
<1> QED BY <1>1, <1>2

\* A failed login leaves a view behind, or locks.
LEMMA WrongPasswordCounts ==
    ASSUME LockInv, IInv', NEW r \in Request, WrongPassword(r), NEW u \in Name
    PROVE  misses'[u] <= Cardinality(Above(View(u)'))
<1> DEFINE v == request[r].name
           seen == request[r].seen
           new == Failed(seen, request[r].at)
<1>1. /\ IInv /\ pc[r] = "verify" /\ misses[u] <= Cardinality(Above(View(u))) /\ misses[u] \in Nat
      /\ v \in Name /\ seen \in Account /\ request[r].at \in Nat /\ ~Locked(seen, request[r].at)
  BY VerifyKnows DEF WrongPassword, LockInv, MissesLeft, IInv, TypeOK
<1>2. misses' = [misses EXCEPT ![v] = IF new.locked # seen.locked THEN 0 ELSE @ + 1]
  BY DEF WrongPassword
<1>3. CASE u # v
  <2>1. misses'[u] = misses[u] /\ users'[u] = users[u]
    BY <1>1, <1>2, <1>3 DEF WrongPassword, IInv, TypeOK
  <2>2. \A q \in Request : Sees(q, u)' = Sees(q, u)
    <3>1. /\ pc'[r] = "idle" /\ Count(u)' = Count(u)
          /\ \A q \in Request \ {r} : pc'[q] = pc[q] /\ request'[q] = request[q]
      BY <1>1, <2>1 DEF WrongPassword, Answer, IInv, TypeOK, Count
    <3> QED BY <1>3, <3>1 DEF Sees
  <2> QED BY <1>1, <2>1, <2>2, MissesStay
<1>4. CASE u = v /\ seen.attempts + 1 >= LockAfter
  <2>1. new.locked = request[r].at + LockTime
    <3>1. new = [seen EXCEPT !.attempts = 0, !.locked = request[r].at + LockTime]
      BY <1>4 DEF Failed
    <3> QED BY <1>1, <3>1 DEF Account
  <2>2. request[r].at + LockTime \in Nat /\ request[r].at + LockTime > request[r].at
    BY <1>1, AccountsAssumption
  <2>3. new.locked # seen.locked
    BY <1>1, <2>1, <2>2, AccountsAssumption DEF Locked
  <2>4. misses'[u] = 0
    BY <1>1, <1>2, <1>4, <2>3 DEF IInv, TypeOK
  <2> QED BY <1>1, <2>4, MissesStay
<1>5. CASE u = v /\ ~(seen.attempts + 1 >= LockAfter)
  <2>1. new = [seen EXCEPT !.attempts = @ + 1]
    BY <1>5 DEF Failed
  <2>2. new.locked = seen.locked
    BY <1>1, <2>1 DEF Account
  <2>3. misses'[u] = misses[u] + 1
    BY <1>1, <1>2, <1>5, <2>2 DEF IInv, TypeOK
  <2>4. seen.attempts + 1 < LockAfter
    BY <1>1, <1>5, AccountsAssumption DEF Account
  <2>5. Over(View(u), View(u)')
    BY <1>1, <1>5, <2>4, MissLeavesView
  <2>6. View(u) \in Views /\ View(u)' \in Views
    BY <1>1, ViewType
  <2>7. PICK a, b : a = Cardinality(Above(View(u))) /\ b = Cardinality(Above(View(u)'))
    OBVIOUS
  <2>8. a \in Nat /\ b \in Nat /\ a + 1 <= b
    BY <2>5, <2>6, <2>7, AboveGrows
  <2> QED BY <1>1, <2>3, <2>7, <2>8
<1> QED BY <1>3, <1>4, <1>5

\* Whoever looks again sees the count, and nothing else changes what is seen.
LEMMA OthersCount ==
    ASSUME LockInv, IInv', NEW r \in Request, NEW u \in Name,
           \/ BeginLogin(r) \/ Bootstrap(r) \/ LoadAccount(r) \/ Admit(r)
           \/ Logout(r) \/ CreateUser(r) \/ Serve(r)
    PROVE  misses'[u] <= Cardinality(Above(View(u)'))
<1>1. IInv /\ misses[u] <= Cardinality(Above(View(u)))
  BY DEF LockInv, MissesLeft
<1>2. misses'[u] = misses[u]
  BY DEF BeginLogin, Bootstrap, LoadAccount, Admit, Logout, CreateUser, Serve
<1>3. \A q \in Request \ {r} : pc'[q] = pc[q] /\ request'[q] = request[q]
  BY <1>1 DEF BeginLogin, Bootstrap, LoadAccount, Admit, Logout, CreateUser, Serve, Answer,
     IInv, TypeOK
<1>4. pc[r] # "verify"
  BY DEF BeginLogin, Bootstrap, LoadAccount, Admit, Logout, CreateUser, Serve
<1>5. Count(u)' = Count(u)
  <2>1. CASE Bootstrap(r)
    <3>1. PICK root : root = NewAccount("SYSTEM_ADMIN", None)
      OBVIOUS
    <3>2. users' = IF users[Root] = None THEN [users EXCEPT ![Root] = root] ELSE users
      BY <2>1, <3>1 DEF Bootstrap
    <3>3. root.attempts = 0
      BY <3>1 DEF NewAccount
    <3> QED BY <1>1, <3>2, <3>3 DEF Count, IInv, TypeOK
  <2>2. CASE CreateUser(r)
    <3>1. PICK v \in Name, role \in {"ADMIN", "USER"}, c \in Company :
            users[v] = None /\ users' = [users EXCEPT ![v] = NewAccount(role, c)]
      BY <2>2 DEF CreateUser
    <3>2. NewAccount(role, c).attempts = 0
      BY DEF NewAccount
    <3> QED BY <1>1, <3>1, <3>2 DEF Count, IInv, TypeOK
  <2>3. CASE UNCHANGED users
    BY <2>3 DEF Count
  <2> QED BY <2>1, <2>2, <2>3 DEF BeginLogin, LoadAccount, Admit, Logout, Serve
<1>6. Sees(r, u)' = Count(u)
  <2>1. CASE pc'[r] # "verify"
    BY <1>5, <2>1 DEF Sees
  <2>2. CASE pc'[r] = "verify"
    <3>1. LoadAccount(r) /\ ~Answer(r)
      BY <1>1, <2>2 DEF BeginLogin, Bootstrap, LoadAccount, Admit, Logout, CreateUser, Serve,
         Answer, IInv, TypeOK
    <3>2. PICK a : a = users[request[r].name]
      OBVIOUS
    <3>3. a # None /\ request' = [request EXCEPT ![r].seen = a, ![r].at = now]
      BY <3>1, <3>2 DEF LoadAccount
    <3>4. request'[r].seen = a /\ request'[r].name = request[r].name
      BY <1>1, <3>3 DEF IInv, TypeOK, RequestData
    <3> QED BY <1>5, <3>2, <3>3, <3>4 DEF Sees, Count
  <2> QED BY <2>1, <2>2
<1>7. \A q \in Request : Sees(q, u)' = Sees(q, u)
  BY <1>3, <1>4, <1>5, <1>6 DEF Sees
<1> QED BY <1>1, <1>2, <1>7, MissesStay

\* Every step leaves as many views behind as it counts misses.
LEMMA LockStep == LockInv /\ [Next]_vars => LockInv'
<1> SUFFICES ASSUME LockInv, [Next]_vars PROVE LockInv'
  OBVIOUS
<1>1. IInv /\ IInv'
  BY StepHolds DEF LockInv
<1> SUFFICES ASSUME NEW u \in Name PROVE misses'[u] <= Cardinality(Above(View(u)'))
  BY <1>1 DEF LockInv, MissesLeft, Above
<1>2. misses[u] <= Cardinality(Above(View(u)))
  BY DEF LockInv, MissesLeft
<1>3. ASSUME NEW r \in Request, RightPassword(r)
      PROVE  misses'[u] <= Cardinality(Above(View(u)'))
  <2>1. request[r].name \in Name /\ pc[r] = "verify"
    BY <1>1, <1>3, VerifyKnows DEF RightPassword
  <2>2. CASE u = request[r].name
    <3>1. misses'[u] = 0
      BY <1>1, <1>3, <2>2 DEF RightPassword, IInv, TypeOK
    <3> QED BY <1>1, <1>2, <3>1, MissesStay
  <2>3. CASE u # request[r].name
    <3>1. misses'[u] = misses[u] /\ users'[u] = users[u]
      BY <1>1, <1>3, <2>1, <2>3 DEF RightPassword, IInv, TypeOK
    <3>2. /\ pc'[r] = "idle" /\ Count(u)' = Count(u)
          /\ \A q \in Request \ {r} : pc'[q] = pc[q] /\ request'[q] = request[q]
      BY <1>1, <1>3, <3>1 DEF RightPassword, Answer, IInv, TypeOK, Count
    <3>3. \A q \in Request : Sees(q, u)' = Sees(q, u)
      BY <2>3, <3>2 DEF Sees
    <3> QED BY <1>1, <1>2, <3>1, <3>3, MissesStay
  <2> QED BY <2>2, <2>3
<1>4. CASE Tick \/ UNCHANGED vars
  <2>1. UNCHANGED <<users, pc, request, misses>>
    BY <1>4 DEF Tick, vars
  <2>2. \A q \in Request : Sees(q, u)' = Sees(q, u)
    BY <2>1 DEF Sees, Count
  <2> QED BY <1>1, <1>2, <2>1, <2>2, MissesStay
<1> QED BY <1>1, <1>3, <1>4, WrongPasswordCounts, OthersCount DEF Next

\* Failed logins and the views that they leave behind, in every reachable state.
THEOREM LockInvariance == Spec => []LockInv
<1>1. Init => LockInv
  <2> SUFFICES ASSUME Init PROVE LockInv
    OBVIOUS
  <2>1. IInv
    BY InitHolds
  <2>2. ASSUME NEW u \in Name PROVE misses[u] <= Cardinality(Above(View(u)))
    <3>1. PICK e : e = [r \in Request |-> 0]
      OBVIOUS
    <3>2. e \in [Request -> 0..(LockAfter - 1)] /\ \A r \in Request : Sees(r, u) = e[r]
      BY <3>1, AccountsAssumption DEF Init, Sees, Count
    <3>3. \A k : UpTo(u, k) = {r \in Request : e[r] <= k}
      BY <3>2 DEF UpTo
    <3>4. View(u) \in Views
      BY <3>2, <3>3, ViewOfType DEF View
    <3> QED BY <3>4, AboveIsLess DEF Init
  <2> QED BY <2>1, <2>2 DEF LockInv, MissesLeft
<1> QED BY <1>1, LockStep, PTL DEF Spec

\* However logins interleave, an account is locked before requests have failed as often as
\* there are views that they can have of it (login, auth.py:92-119).
THEOREM LockoutAlwaysComes == Spec => []LockoutComes
<1>1. LockInv => LockoutComes
  <2> SUFFICES ASSUME LockInv, NEW u \in Name PROVE misses[u] < Cardinality(Views)
    BY DEF LockoutComes
  <2>1. misses[u] \in Nat /\ misses[u] <= Cardinality(Above(View(u)))
    BY DEF LockInv, MissesLeft, IInv, TypeOK
  <2>2. View(u) \in Views
    <3>1. Count(u) \in 0..(LockAfter - 1)
      BY AccountsAssumption DEF LockInv, IInv, TypeOK, Count, Account
    <3>2. \A r \in Request : Sees(r, u) \in 0..(LockAfter - 1)
      BY <3>1 DEF LockInv, IInv, RequestsHold, Holds, Checking, Sees, Account
    <3>3. PICK e : e = [r \in Request |-> Sees(r, u)]
      OBVIOUS
    <3>4. e \in [Request -> 0..(LockAfter - 1)]
      BY <3>2, <3>3
    <3>5. \A k : UpTo(u, k) = {r \in Request : e[r] <= k}
      BY <3>3 DEF UpTo
    <3> QED BY <3>4, <3>5, ViewOfType DEF View
  <2> QED BY <2>1, <2>2, ViewsFinite, AboveIsLess
<1> QED BY <1>1, LockInvariance, PTL

=============================================================================
