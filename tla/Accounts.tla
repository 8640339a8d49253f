-------------------------------- MODULE Accounts --------------------------------
(***************************************************************************)
(* Accounts and sessions (auth.py, routers/auth.py).                       *)
(*                                                                         *)
(* A login reads the account, checks the password, which takes long, and   *)
(* writes what it has found out; the row is not locked in between, and the *)
(* ORM writes only the columns that differ from what was read.  Five       *)
(* failures in a row lock an account for a while.  The first login creates *)
(* the administrator, an administrator creates further accounts, and a     *)
(* session is good until it is revoked or expires.                         *)
(*                                                                         *)
(* Whether a password is right is a choice of the environment.             *)
(***************************************************************************)
EXTENDS Integers, FiniteSetsExt

CONSTANTS
    Request,       \* requests in flight
    Name,          \* user names
    Root,          \* auth_bootstrap_admin_username
    Company,
    Session,
    LockAfter,     \* _LOCK_AFTER_FAILURES
    LockTime,      \* _LOCK_MINUTES
    TTL,           \* auth_session_ttl_hours
    MaxNow,        \* bound: the clock
    None

ASSUME AccountsAssumption ==
    /\ Root \in Name /\ IsFiniteSet(Request)
    /\ LockAfter \in Nat \ {0, 1} /\ LockTime \in Nat \ {0}
    /\ TTL \in Nat \ {0} /\ MaxNow \in Nat
    /\ None \notin Nat \cup Name \cup Company \cup Session

VARIABLES
    users,      \* app_users, None where there is no such account
    sessions,   \* auth_sessions, None before they are opened
    pc,         \* how far each request has come
    request,    \* what it was sent and what it has read
    now,
    misses      \* history: failures since the account was last locked or entered

vars == <<users, sessions, pc, request, now, misses>>

Role == {"SYSTEM_ADMIN", "ADMIN", "USER"}
Account == [role : Role, company : Company \cup {None},
            attempts : 0..(LockAfter - 1), locked : Nat \cup {None}]
SessionRow == [user : Name, expires : Nat, revoked : BOOLEAN]

ASSUME RowsAssumption == None \notin Account \cup SessionRow

NewAccount(role, company) ==
    [role |-> role, company |-> company, attempts |-> 0, locked |-> None]

Quiet == [name |-> None, at |-> 0, seen |-> None, session |-> None]

Init ==
    /\ users = [u \in Name |-> None]
    /\ sessions = [s \in Session |-> None]
    /\ pc = [r \in Request |-> "idle"]
    /\ request = [r \in Request |-> Quiet]
    /\ now = 0
    /\ misses = [u \in Name |-> 0]

\* The request is answered.
Answer(r) ==
    /\ pc' = [pc EXCEPT ![r] = "idle"]
    /\ request' = [request EXCEPT ![r] = Quiet]

-----------------------------------------------------------------------------
(* Login *)

\* ensure_bootstrap_admin looks for the administrator first.
BeginLogin(r) ==
    /\ pc[r] = "idle"
    /\ \E u \in Name : request' = [request EXCEPT ![r].name = u]
    /\ pc' = [pc EXCEPT ![r] = IF users[Root] = None THEN "bootstrap" ELSE "load"]
    /\ UNCHANGED <<users, sessions, now, misses>>

\* If another request was quicker the insert is refused, and that is fine.
Bootstrap(r) ==
    /\ pc[r] = "bootstrap"
    /\ users' = IF users[Root] = None
                THEN [users EXCEPT ![Root] = NewAccount("SYSTEM_ADMIN", None)]
                ELSE users
    /\ pc' = [pc EXCEPT ![r] = "load"]
    /\ UNCHANGED <<sessions, request, now, misses>>

Locked(account, t) == account.locked # None /\ account.locked > t

\* Read the account; refuse one that is unknown or locked.
LoadAccount(r) ==
    /\ pc[r] = "load"
    /\ LET account == users[request[r].name]
       IN  IF account = None \/ (account # None /\ Locked(account, now))
           THEN Answer(r)
           ELSE /\ request' = [request EXCEPT ![r].seen = account, ![r].at = now]
                /\ pc' = [pc EXCEPT ![r] = "verify"]
    /\ UNCHANGED <<users, sessions, now, misses>>

\* A slip: the whole row is written.
FlushedWhole(row, seen, new) == new

\* The columns in which new differs from what was read.
Flushed(row, seen, new) ==
    [row EXCEPT !.attempts = IF new.attempts = seen.attempts THEN @ ELSE new.attempts,
                !.locked = IF new.locked = seen.locked THEN @ ELSE new.locked]

\* A slip: the lock is never set.
FailedWithoutLock(seen, t) == [seen EXCEPT !.attempts = (@ + 1) % LockAfter]

\* One failure more; the last one locks and starts again from zero.
Failed(seen, t) ==
    IF seen.attempts + 1 >= LockAfter
    THEN [seen EXCEPT !.attempts = 0, !.locked = t + LockTime]
    ELSE [seen EXCEPT !.attempts = @ + 1]

WrongPassword(r) ==
    /\ pc[r] = "verify"
    /\ LET u == request[r].name
           new == Failed(request[r].seen, request[r].at)
       IN  /\ users' = [users EXCEPT ![u] = Flushed(@, request[r].seen, new)]
           /\ misses' = [misses EXCEPT ![u] =
                  IF new.locked # request[r].seen.locked THEN 0 ELSE @ + 1]
    /\ Answer(r)
    /\ UNCHANGED <<sessions, now>>

RightPassword(r) ==
    /\ pc[r] = "verify"
    /\ LET u == request[r].name
           seen == request[r].seen
       IN  /\ users' = [users EXCEPT ![u] =
                  Flushed(@, seen, [seen EXCEPT !.attempts = 0, !.locked = None])]
           /\ misses' = [misses EXCEPT ![u] = 0]
           /\ \E s \in Session :
                /\ sessions[s] = None
                /\ sessions' = [sessions EXCEPT ![s] =
                       [user |-> u, expires |-> request[r].at + TTL, revoked |-> FALSE]]
    /\ Answer(r)
    /\ UNCHANGED now

-----------------------------------------------------------------------------
(* Sessions *)

\* _load_session: not revoked and not expired.
Valid(s) == sessions[s] # None /\ ~sessions[s].revoked /\ sessions[s].expires > now

\* get_current_session: a request is admitted with a valid session.
Admit(r) ==
    /\ pc[r] = "idle"
    /\ \E s \in Session :
        /\ Valid(s)
        /\ request' = [request EXCEPT ![r].session = s,
                                      ![r].seen = users[sessions[s].user]]
    /\ pc' = [pc EXCEPT ![r] = "admitted"]
    /\ UNCHANGED <<users, sessions, now, misses>>

\* revoke_session: revoked_at was NULL when it was read, so that it is written.
Logout(r) ==
    /\ pc[r] = "admitted"
    /\ sessions' = [sessions EXCEPT ![request[r].session].revoked = TRUE]
    /\ Answer(r)
    /\ UNCHANGED <<users, now, misses>>

\* create_user: who may create whom.  The role is ADMIN or USER (AuthUserCreate).
MayCreate(current, role, company) ==
    \/ current.role = "SYSTEM_ADMIN"
    \/ current.role = "ADMIN" /\ current.company = company /\ role # "ADMIN"

\* A name that is taken is refused by the unique index.
CreateUser(r) ==
    /\ pc[r] = "admitted"
    /\ \E u \in Name, role \in {"ADMIN", "USER"}, c \in Company :
        /\ users[u] = None /\ MayCreate(request[r].seen, role, c)
        /\ users' = [users EXCEPT ![u] = NewAccount(role, c)]
    /\ Answer(r)
    /\ UNCHANGED <<sessions, now, misses>>

\* Reads, and what is refused.
Serve(r) ==
    /\ pc[r] = "admitted"
    /\ Answer(r)
    /\ UNCHANGED <<users, sessions, now, misses>>

\* No request lasts as long as a lock does.
Tick ==
    /\ now < MaxNow
    /\ \A r \in Request : pc[r] = "verify" => now + 1 < request[r].at + LockTime
    /\ now' = now + 1
    /\ UNCHANGED <<users, sessions, pc, request, misses>>

Next ==
    \/ \E r \in Request :
        \/ BeginLogin(r) \/ Bootstrap(r) \/ LoadAccount(r)
        \/ WrongPassword(r) \/ RightPassword(r)
        \/ Admit(r) \/ Logout(r) \/ CreateUser(r) \/ Serve(r)
    \/ Tick

Spec == Init /\ [][Next]_vars

-----------------------------------------------------------------------------
(* Properties *)

RequestData == [name : Name \cup {None}, at : Nat, seen : Account \cup {None},
                session : Session \cup {None}]

\* The kinds of values the variables hold.  The count stays below the limit; the
\* administrator, and nobody else, is SYSTEM_ADMIN and without a company.
TypeOK ==
    /\ users \in [Name -> Account \cup {None}]
    /\ \A u \in Name : users[u] # None =>
        /\ u = Root <=> users[u].role = "SYSTEM_ADMIN"
        /\ u = Root <=> users[u].company = None
    /\ sessions \in [Session -> SessionRow \cup {None}]
    /\ pc \in [Request -> {"idle", "bootstrap", "load", "verify", "admitted"}]
    /\ request \in [Request -> RequestData]
    /\ now \in 0..MaxNow
    /\ misses \in [Name -> Nat]

\* What requests in flight can have seen of the failures of an account: how many of them
\* at most none, at most one, and so on up to two below the limit.
Views ==
    {g \in [0..(LockAfter - 2) -> 0..Cardinality(Request)] :
        \A i, j \in DOMAIN g : i <= j => g[i] <= g[j]}

\* Failures that read the account at the same time may count as one, and a late one may
\* even set the count back, but each of them does so only once: before an account is
\* locked, requests fail fewer times than there are views that they can have of it, with
\* C requests in flight LockAfter + C - 1 over C times (login: failed_login_attempts += 1
\* on a row that is not locked).
LockoutComes == \A u \in Name : misses[u] < Cardinality(Views)

\* What a step leaves of the lock on an account: it is in force still, or the clock has
\* gone on, or the right password has opened a session.
KeepsLock(u) ==
    users[u] # None /\ Locked(users[u], now) =>
        \/ Locked(users'[u], now)
        \/ now' > now
        \/ \E s \in Session : sessions[s] = None /\ sessions'[s] # None
                              /\ sessions'[s].user = u

\* A lock that is in force is lifted by the right password and by nothing else: a
\* failure that had read the account before it was locked leaves the lock alone.
LockKept == [][\A u \in Name : KeepsLock(u)]_vars
===============================================================================
