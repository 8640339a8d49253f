------------------------------ MODULE NoticeSync ------------------------------
(***************************************************************************)
(* Collection of procurement notices from G2B (services/notices.py,        *)
(* services/notice_history_backfill.py, workers/notice_polling.py).        *)
(*                                                                         *)
(* G2B publishes the orders of a notice one after the other.  A sync run   *)
(* is of one of two kinds:                                                 *)
(*                                                                         *)
(*   window   (REGISTERED, CHANGED) saves the items of some pages, each    *)
(*            page in a transaction, each item in a savepoint, and queues  *)
(*            a backfill job for each notice it is the first to store;     *)
(*   lookup   (NOTICE_NUMBER) fetches all orders of one notice, saves them *)
(*            in order, all or none, and renumbers the versions.           *)
(*                                                                         *)
(* Both then fetch the notices to which saved items refer as their         *)
(* predecessors.  The worker runs windows and, for each backfill job, a    *)
(* lookup; API clients run either, at the same time.                       *)
(*                                                                         *)
(* An uncommitted transaction is a draft: the versions of the notices      *)
(* whose rows it has locked or inserted.  Nobody else sees them before the *)
(* commit.  is_current has a partial unique index, checked row by row.     *)
(***************************************************************************)
EXTENDS Integers, FiniteSetsExt

CONSTANTS
    Worker,        \* the polling worker, sole holder of the advisory lock
    Client,        \* API sessions that synchronise
    Notice,
    Previous,      \* befBidBbancNo: the notice that a notice reannounces, or None
    MaxOrder,      \* bound: orders published of each notice
    Row,           \* ranks of the primary keys (UUIDs) among a notice's versions
    PageSize,      \* bound: items of a page
    ClientLookups, \* whether clients ask for single notices too
    Faults,        \* whether items and calls may fail
    MaxCrash,      \* bound: crashes
    None

Order == 1..MaxOrder
Process == {Worker} \cup Client

ASSUME ConstantsAssumption ==
    /\ MaxOrder \in Nat /\ PageSize \in Nat /\ MaxCrash \in Nat
    /\ Row \subseteq Nat /\ Cardinality(Row) >= MaxOrder
    /\ Previous \in [Notice -> Notice \cup {None}]
    /\ ClientLookups \in BOOLEAN /\ Faults \in BOOLEAN
    /\ None \notin Notice \cup {"PENDING", "RUNNING", "FAILED", "COMPLETED"}

VARIABLES
    published,  \* how many orders G2B has published of each notice
    versions,   \* committed bid_notice_versions of each notice, by order
    jobs,       \* status of the notice's history backfill job, or None
    pc,         \* how far the sync run of each process has come
    sync,       \* what that run has fetched and found
    draft,      \* its uncommitted versions of the notices it has locked
    crashes

vars == <<published, versions, jobs, pc, sync, draft, crashes>>

-----------------------------------------------------------------------------
(* Versions of one notice *)

\* new, and old where new has nothing (the provers know nothing of TLC's @@).
Over(new, old) ==
    [x \in DOMAIN new \cup DOMAIN old |-> IF x \in DOMAIN new THEN new[x] ELSE old[x]]

NoVersions == [o \in {} |-> None]
NoDraft == [n \in {} |-> NoVersions]
Stored(n) == DOMAIN versions[n] # {}

\* A slip: the first number is zero.
MaxNumberFromZero(vs) == Cardinality(DOMAIN vs) - 1

MaxNumber(vs) ==
    IF DOMAIN vs = {} THEN 0 ELSE Max({vs[o].number : o \in DOMAIN vs})

\* save_notice_snapshot: an order that is stored already is left alone, another
\* one becomes the current version under the next number.
Saved(vs, o, row) ==
    IF o \in DOMAIN vs
    THEN vs
    ELSE [q \in DOMAIN vs \cup {o} |->
             IF q = o
             THEN [number |-> MaxNumber(vs) + 1, current |-> TRUE, row |-> row]
             ELSE [vs[q] EXCEPT !.current = FALSE]]

FreeRows(vs) == Row \ {vs[o].row : o \in DOMAIN vs}

\* _resequence_notice_versions: numbers follow the orders, the greatest is current.
Resequenced(vs) ==
    [o \in DOMAIN vs |->
        [number  |-> Cardinality({q \in DOMAIN vs : q <= o}),
         current |-> o = Max(DOMAIN vs),
         row     |-> vs[o].row]]

\* The flush updates rows in the order of their primary keys.  If the row that
\* becomes current comes before the one that ceases to be, there are two current
\* rows in between, and the unique index refuses the update.
FlushRefused(vs) ==
    \E o \in DOMAIN vs :
        vs[o].current /\ o # Max(DOMAIN vs) /\ vs[Max(DOMAIN vs)].row < vs[o].row

-----------------------------------------------------------------------------
(* Sync runs *)

Idle == [job |-> FALSE, target |-> None, todo |-> {}, fetched |-> {},
         item |-> {}, found |-> FALSE, created |-> {}, queued |-> {},
         resolved |-> {}, failed |-> FALSE]

Items(n) == {n} \X (1..published[n])
Published == UNION {Items(n) : n \in Notice}

Init ==
    /\ published = [n \in Notice |-> 0]
    /\ versions = [n \in Notice |-> NoVersions]
    /\ jobs = [n \in Notice |-> None]
    /\ pc = [p \in Process |-> "idle"]
    /\ sync = [p \in Process |-> Idle]
    /\ draft = [p \in Process |-> NoDraft]
    /\ crashes = 0

Goto(p, label) == pc' = [pc EXCEPT ![p] = label]

\* Commit: the draft replaces what it has locked; its new jobs are PENDING.
Commit(p) ==
    /\ versions' = [n \in Notice |->
           IF n \in DOMAIN draft[p] THEN Over(draft[p][n], versions[n])
           ELSE versions[n]]
    /\ jobs' = [n \in Notice |->
           IF n \in sync[p].created /\ jobs[n] = None THEN "PENDING" ELSE jobs[n]]
    /\ draft' = [draft EXCEPT ![p] = NoDraft]

Rollback(p) ==
    /\ draft' = [draft EXCEPT ![p] = NoDraft]
    /\ UNCHANGED <<versions, jobs>>

\* The run ends.  The run of a job still has to report.
EndRun(p, failed) ==
    IF sync[p].job
    THEN /\ Goto(p, "report")
         /\ sync' = [sync EXCEPT ![p] =
                [Idle EXCEPT !.job = TRUE, !.target = sync[p].target,
                             !.fetched = sync[p].fetched, !.failed = failed]]
    ELSE /\ Goto(p, "idle")
         /\ sync' = [sync EXCEPT ![p] = Idle]

-----------------------------------------------------------------------------
(* Saving one item, in a savepoint *)

LockedByOther(p, n) == \E q \in Process \ {p} : n \in DOMAIN draft[q]

\* A slip: the notice is read without FOR UPDATE.
TakesUnlocked(p, n) == TRUE

\* SELECT ... FOR UPDATE, and the insert of a row with the same unique number,
\* wait for the transaction that holds the row.
CanTake(p, n) == ~LockedByOther(p, n)

Saving == {"items", "history", "predecessor"}

\* What the transaction sees of a notice.
Seen(p, n) == IF n \in DOMAIN draft[p] THEN draft[p][n] ELSE versions[n]

\* The items of a lookup are saved in order, those of a page as they come.
NextItem(p) ==
    {i \in sync[p].todo :
        pc[p] = "history" => \A j \in sync[p].todo : i[2] <= j[2]}

\* The next item; is its notice there?
LookAtItem(p) ==
    /\ pc[p] \in Saving /\ sync[p].item = {}
    /\ \E i \in NextItem(p) :
        sync' = [sync EXCEPT ![p].item = {i}, ![p].todo = @ \ {i},
                             ![p].found = DOMAIN Seen(p, i[1]) # {}]
    /\ UNCHANGED <<published, versions, jobs, pc, draft, crashes>>

\* A slip: only lookups queue jobs.
QueuesJobsOfLookups(p) == sync[p].target # None

\* Windows queue a job for each notice that they create.
QueuesJobs(p) == sync[p].target = None

\* Another transaction may have inserted the notice since it was looked for; the
\* unique number then refuses a second one.
Refused(p, n) == ~sync[p].found /\ Stored(n)

SaveItem(p) ==
    /\ \E i \in sync[p].item :
        LET n == i[1]  o == i[2]  vs == Seen(p, n)
        IN  /\ CanTake(p, n) /\ ~Refused(p, n)
            /\ \E row \in Row :
                /\ o \in DOMAIN vs \/ row \in FreeRows(vs)
                /\ draft' = [draft EXCEPT ![p] = Over([m \in {n} |-> Saved(vs, o, row)], @)]
            /\ sync' = [sync EXCEPT
                   ![p].item = {},
                   ![p].queued = @ \cup ({Previous[n]} \ {None}),
                   ![p].created = @ \cup
                       (IF ~sync[p].found /\ QueuesJobs(p) THEN {n} ELSE {})]
    /\ UNCHANGED <<published, versions, jobs, pc, crashes>>

\* Transactions that wait for each other's rows: PostgreSQL fails one of them.
WaitsFor(p, q) == \E i \in sync[p].item : p # q /\ i[1] \in DOMAIN draft[q]
Deadlocked(p) ==
    \E D \in SUBSET Process :
        p \in D /\ \A q \in D : \E r \in D : WaitsFor(q, r)

\* Bad data, a database error, a refused insert, the victim of a deadlock: the
\* savepoint is rolled back, and the run goes on with the next item.
ItemFails(p) ==
    /\ \E i \in sync[p].item :
        Faults \/ Deadlocked(p) \/ (CanTake(p, i[1]) /\ Refused(p, i[1]))
    /\ sync' = [sync EXCEPT ![p].item = {}, ![p].failed = TRUE]
    /\ UNCHANGED <<published, versions, jobs, pc, draft, crashes>>

AllSaved(p) == sync[p].todo = {} /\ sync[p].item = {}

-----------------------------------------------------------------------------
(* Windows *)

BeginWindow(p) ==
    /\ pc[p] = "idle"
    /\ Goto(p, "page")
    /\ UNCHANGED <<published, versions, jobs, sync, draft, crashes>>

\* A page holds some of what has been published, in any order.
FetchPage(p) ==
    /\ pc[p] = "page"
    /\ \E S \in SUBSET Published :
        /\ S # {} /\ Cardinality(S) <= PageSize
        /\ sync' = [sync EXCEPT ![p].todo = S]
    /\ Goto(p, "items")
    /\ UNCHANGED <<published, versions, jobs, draft, crashes>>

CommitPage(p) ==
    /\ pc[p] = "items" /\ AllSaved(p)
    /\ Commit(p)
    /\ sync' = [sync EXCEPT ![p].created = {}]
    /\ Goto(p, "page")
    /\ UNCHANGED <<published, crashes>>

\* The last page has been seen, or the page limit reached.
LastPage(p) ==
    /\ pc[p] = "page"
    /\ Goto(p, "chain")
    /\ UNCHANGED <<published, versions, jobs, sync, draft, crashes>>

-----------------------------------------------------------------------------
(* Lookups *)

BeginLookup(p) ==
    /\ ClientLookups
    /\ p \in Client /\ pc[p] = "idle"
    /\ \E n \in Notice : sync' = [sync EXCEPT ![p].target = n]
    /\ Goto(p, "lookup")
    /\ UNCHANGED <<published, versions, jobs, draft, crashes>>

FetchHistory(p) ==
    /\ pc[p] = "lookup"
    /\ LET items == Items(sync[p].target)
       IN  /\ sync' = [sync EXCEPT ![p].todo = items,
                                   ![p].fetched = 1..published[sync[p].target]]
           /\ Goto(p, IF items = {} THEN "chain" ELSE "history")
    /\ UNCHANGED <<published, versions, jobs, draft, crashes>>

\* A slip: items that failed do not matter.
AcceptsAnyHistory(p) == TRUE

AcceptsHistory(p) == ~sync[p].failed

\* All items are saved: renumber and commit.
CommitHistory(p) ==
    /\ pc[p] = "history" /\ AllSaved(p) /\ AcceptsHistory(p)
    /\ LET n == sync[p].target  vs == Seen(p, n)
       IN  /\ ~FlushRefused(vs)
           /\ versions' = [versions EXCEPT ![n] = Resequenced(vs)]
    /\ draft' = [draft EXCEPT ![p] = NoDraft]
    /\ Goto(p, "chain")
    /\ UNCHANGED <<published, jobs, sync, crashes>>

\* An item has failed, or the renumbering is refused: nothing is kept.
RejectHistory(p) ==
    /\ pc[p] = "history" /\ AllSaved(p)
    /\ AcceptsHistory(p) => FlushRefused(Seen(p, sync[p].target))
    /\ Rollback(p)
    /\ EndRun(p, TRUE)
    /\ UNCHANGED <<published, crashes>>

-----------------------------------------------------------------------------
(* Predecessors, and the end of a run *)

Pending(p) == sync[p].queued \ sync[p].resolved

\* A predecessor that is stored already is not fetched.
FetchPrevious(p) ==
    /\ pc[p] = "chain"
    /\ \E m \in Pending(p) :
        IF Stored(m)
        THEN /\ sync' = [sync EXCEPT ![p].resolved = @ \cup {m}]
             /\ UNCHANGED pc
        ELSE /\ sync' = [sync EXCEPT ![p].resolved = @ \cup {m}, ![p].todo = Items(m)]
             /\ Goto(p, "predecessor")
    /\ UNCHANGED <<published, versions, jobs, draft, crashes>>

CommitPrevious(p) ==
    /\ pc[p] = "predecessor" /\ AllSaved(p)
    /\ Commit(p)
    /\ sync' = [sync EXCEPT ![p].created = {}]
    /\ Goto(p, "chain")
    /\ UNCHANGED <<published, crashes>>

\* The run is FAILED if any item was, otherwise COMPLETED.
FinishRun(p) ==
    /\ pc[p] = "chain" /\ Pending(p) = {}
    /\ EndRun(p, sync[p].failed)
    /\ UNCHANGED <<published, versions, jobs, draft, crashes>>

\* A call to G2B fails or an exception leaves the loop: what has not been
\* committed is rolled back and the run is FAILED.
RunFails(p) ==
    /\ Faults
    /\ pc[p] \notin {"idle", "report"}
    /\ Rollback(p)
    /\ EndRun(p, TRUE)
    /\ UNCHANGED <<published, crashes>>

-----------------------------------------------------------------------------
(* Backfill jobs *)

\* A slip: jobs that a dead worker has left RUNNING are not taken up.
DueUnlessRunning(n) == jobs[n] \in {"PENDING", "FAILED"}

\* PENDING and FAILED jobs are due in the end.  The worker runs one job at a time,
\* so a job that it finds RUNNING was left behind and is an hour old in the end.
Due(n) == jobs[n] \in {"PENDING", "FAILED", "RUNNING"}

StartJob(n) ==
    /\ pc[Worker] = "idle" /\ Due(n)
    /\ jobs' = [jobs EXCEPT ![n] = "RUNNING"]
    /\ sync' = [sync EXCEPT ![Worker].job = TRUE, ![Worker].target = n]
    /\ Goto(Worker, "lookup")
    /\ UNCHANGED <<published, versions, draft, crashes>>

\* A slip: the status of the run is not looked at.
ReportedRegardless(failed) == "COMPLETED"

Reported(failed) == IF failed THEN "FAILED" ELSE "COMPLETED"

ReportJob ==
    /\ pc[Worker] = "report"
    /\ jobs' = [jobs EXCEPT ![sync[Worker].target] = Reported(sync[Worker].failed)]
    /\ sync' = [sync EXCEPT ![Worker] = Idle]
    /\ Goto(Worker, "idle")
    /\ UNCHANGED <<published, versions, draft, crashes>>

-----------------------------------------------------------------------------
(* Surroundings *)

Publish(n) ==
    /\ published[n] < MaxOrder
    /\ published' = [published EXCEPT ![n] = @ + 1]
    /\ UNCHANGED <<versions, jobs, pc, sync, draft, crashes>>

\* A process dies at any point and PostgreSQL rolls its transaction back.
Crash(p) ==
    /\ pc[p] # "idle" /\ crashes < MaxCrash
    /\ crashes' = crashes + 1
    /\ Rollback(p)
    /\ sync' = [sync EXCEPT ![p] = Idle]
    /\ Goto(p, "idle")
    /\ UNCHANGED published

-----------------------------------------------------------------------------
(* The steps of a run once it has begun *)
RunStep(p) ==
    \/ FetchPage(p) \/ LastPage(p) \/ CommitPage(p)
    \/ FetchHistory(p) \/ CommitHistory(p) \/ RejectHistory(p)
    \/ LookAtItem(p) \/ SaveItem(p) \/ ItemFails(p)
    \/ FetchPrevious(p) \/ CommitPrevious(p) \/ FinishRun(p) \/ RunFails(p)

Next ==
    \/ \E p \in Process : BeginWindow(p) \/ BeginLookup(p) \/ RunStep(p) \/ Crash(p)
    \/ \E n \in Notice : StartJob(n) \/ Publish(n)
    \/ ReportJob

Spec == Init /\ [][Next]_vars

(***************************************************************************)
(* Fairness.  A run goes on until it ends: calls return or time out.  Its  *)
(* pages are limited.  A row lock that is released again and again is      *)
(* granted in the end, since waiting transactions queue.  The worker comes *)
(* back to every job: a batch is ordered by next_attempt_at.               *)
(***************************************************************************)
FairRun(p) ==
    /\ WF_vars(RunStep(p))
    /\ SF_vars(LastPage(p))
    /\ SF_vars(SaveItem(p) \/ ItemFails(p))

FairSpec ==
    /\ Spec
    /\ \A p \in Process : FairRun(p)
    /\ WF_vars(ReportJob)
    /\ \A n \in Notice : SF_vars(StartJob(n))

-----------------------------------------------------------------------------
(* Properties *)

Version == [number : Nat \ {0}, current : BOOLEAN, row : Row]
Numbered(vs) == DOMAIN vs \subseteq Order /\ vs \in [DOMAIN vs -> Version]

SyncRun ==
    [job : BOOLEAN, target : Notice \cup {None}, todo : SUBSET (Notice \X Order),
     fetched : SUBSET Order, item : SUBSET (Notice \X Order), found : BOOLEAN,
     created : SUBSET Notice, queued : SUBSET Notice, resolved : SUBSET Notice,
     failed : BOOLEAN]
Label == {"idle", "page", "chain", "lookup", "report"} \cup Saving

\* The kinds of values the variables hold; version numbers are positive.
TypeOK ==
    /\ published \in [Notice -> 0..MaxOrder]
    /\ DOMAIN versions = Notice /\ \A n \in Notice : Numbered(versions[n])
    /\ jobs \in [Notice -> {None, "PENDING", "RUNNING", "FAILED", "COMPLETED"}]
    /\ pc \in [Process -> Label]
    /\ sync \in [Process -> SyncRun]
    /\ DOMAIN draft = Process
    /\ \A p \in Process :
        /\ DOMAIN draft[p] \subseteq Notice
        /\ \A n \in DOMAIN draft[p] : Numbered(draft[p][n])
    /\ crashes \in 0..MaxCrash

\* Numbers are consecutive, no two versions share a number or a row, and exactly one
\* is current.
Versioned(vs) ==
    /\ {vs[o].number : o \in DOMAIN vs} = 1..Cardinality(DOMAIN vs)
    /\ \A o, q \in DOMAIN vs : o # q => /\ vs[o].number # vs[q].number
                                       /\ vs[o].row # vs[q].row
    /\ \E o \in DOMAIN vs : \A q \in DOMAIN vs : vs[q].current <=> q = o

\* The versions of a stored notice are numbered from 1 on and exactly one of them is
\* current, whatever runs at the same time and wherever a run stops: the unique
\* indexes of bid_notice_versions have nothing to refuse at a commit.
OneCurrent == \A n \in Notice : Stored(n) => Versioned(versions[n])

Sequenced(vs) ==
    /\ \A o, q \in DOMAIN vs : o < q => vs[o].number < vs[q].number
    /\ \A o \in DOMAIN vs : vs[o].current <=> \A q \in DOMAIN vs : q <= o

\* A lookup stores every order that it has fetched, in order and with the greatest
\* one current, or leaves the versions as they were (run_notice_sync, "one logical
\* unit").
LookupWhole ==
    [][\A p \in Process : pc[p] = "history" /\ pc'[p] # "history" =>
           \/ /\ pc'[p] = "chain"
              /\ sync[p].fetched \subseteq DOMAIN versions'[sync[p].target]
              /\ Sequenced(versions'[sync[p].target])
           \/ UNCHANGED versions]_vars

\* When a job is COMPLETED, every order that its lookup has seen published is
\* stored, although runs of others, failures and restarts came in between.
CompletedJobHasHistory ==
    [][\A n \in Notice : jobs[n] # "COMPLETED" /\ jobs'[n] = "COMPLETED" =>
           /\ sync[Worker].fetched # {}
           /\ sync[Worker].fetched \subseteq DOMAIN versions[n]]_vars

\* A notice that windows have stored has a backfill job, in the same commit: only
\* clients' lookups and the predecessors that lookups fetch go without.
NewNoticesQueued ==
    \A n \in Notice : Stored(n) /\ jobs[n] = None =>
        ClientLookups \/ \E m \in Notice : Previous[m] = n

-----------------------------------------------------------------------------
(* The inductive invariant of the proofs *)

\* A notice is in the draft of the process that holds its row, and of no other.  What
\* is committed is in the draft too.
DraftOK(p) ==
    /\ pc[p] \notin Saving => DOMAIN draft[p] = {}
    /\ \A q \in Process : p # q => DOMAIN draft[p] \cap DOMAIN draft[q] = {}
    /\ \A n \in DOMAIN draft[p] :
        /\ Versioned(draft[p][n])
        /\ DOMAIN versions[n] \subseteq DOMAIN draft[p][n]

\* What a run is for depends on how it began.
RunOK(p) ==
    /\ pc[p] = "idle" => sync[p] = Idle
    /\ pc[p] \in {"lookup", "history", "report"} => sync[p].target # None
    /\ pc[p] \in {"page", "items"} => sync[p].target = None
    /\ pc[p] = "report" => sync[p].job
    /\ sync[p].job => p = Worker /\ sync[p].target # None /\ jobs[sync[p].target] # None
    /\ sync[p].target # None =>
           (sync[p].job \/ ClientLookups) /\ sync[p].created = {}
    /\ pc[p] \notin Saving =>
           sync[p].todo = {} /\ sync[p].item = {} /\ sync[p].created = {}
    /\ \A i, j \in sync[p].item : i = j

\* Only what has been published is fetched and saved.
FetchedOK(p) ==
    /\ \A i \in sync[p].todo \cup sync[p].item : i[2] <= published[i[1]]
    /\ \A n \in DOMAIN draft[p] : \A o \in DOMAIN draft[p][n] : o <= published[n]

\* Each order of a lookup is still to be saved, or in the draft, or else the lookup has
\* failed; once it is over and has not failed, each is stored.
HistoryOK(p) ==
    /\ pc[p] = "history" =>
        /\ sync[p].fetched # {}
        /\ \A i \in sync[p].todo \cup sync[p].item : i[1] = sync[p].target
        /\ DOMAIN draft[p] \subseteq {sync[p].target}
        /\ ~sync[p].failed => \A o \in sync[p].fetched :
               \/ <<sync[p].target, o>> \in sync[p].todo \cup sync[p].item
               \/ /\ sync[p].target \in DOMAIN draft[p]
                  /\ o \in DOMAIN draft[p][sync[p].target]
    /\ pc[p] \in {"chain", "predecessor", "report"} /\ sync[p].target # None
          /\ ~sync[p].failed =>
        /\ sync[p].fetched \subseteq DOMAIN versions[sync[p].target]
        /\ sync[p].job => sync[p].fetched # {}

\* A notice that is being created gets a job, unless a lookup creates it.
CreatedOK(p) ==
    /\ sync[p].created \subseteq DOMAIN draft[p]
    /\ \A m \in sync[p].queued : \E n \in Notice : Previous[n] = m
    /\ pc[p] = "predecessor" =>
        /\ \A i \in sync[p].todo \cup sync[p].item : i[1] \in sync[p].queued
        /\ DOMAIN draft[p] \subseteq sync[p].queued
    /\ sync[p].found => \A i \in sync[p].item : DOMAIN Seen(p, i[1]) # {}
    /\ \A n \in DOMAIN draft[p] :
           Stored(n) \/ n \in sync[p].created \/ sync[p].target # None

ProcessOK(p) == DraftOK(p) /\ RunOK(p) /\ FetchedOK(p) /\ HistoryOK(p) /\ CreatedOK(p)

IndInv ==
    /\ TypeOK
    /\ OneCurrent
    /\ NewNoticesQueued
    /\ \A n \in Notice :
        /\ \A o \in DOMAIN versions[n] : o <= published[n]
        /\ jobs[n] # None => Stored(n)
    /\ \A p \in Process : ProcessOK(p)

-----------------------------------------------------------------------------
(* What is promised to those who use the versions *)

NumbersOf(vs) == [o \in DOMAIN vs |-> vs[o].number]
CurrentOf(vs) == {o \in DOMAIN vs : vs[o].current}

History == INSTANCE NoticeHistory WITH
    numbers <- [n \in Notice |-> NumbersOf(versions[n])],
    current <- [n \in Notice |-> CurrentOf(versions[n])]

\* Versions grow by the numbers that follow or are renumbered as a whole, and the last
\* one is current, whatever runs, fails or dies: commits implement NoticeHistory, on which
\* cases rely.
ImplementsHistory == History!HistorySpec

-----------------------------------------------------------------------------
(* Liveness, and what the documentation says *)

\* A job that is RUNNING does not stay so, also if the worker dies.
JobsSettle ==
    \A n \in Notice : jobs[n] = "RUNNING" ~> jobs[n] \in {"COMPLETED", "FAILED"}

\* "The durable backfill job will retry the whole notice" (services/notices.py:483):
\* if nothing fails at G2B and nothing is left to insert, the retries succeed.
RetriesSucceed ==
    \A n \in Notice :
        jobs[n] = "PENDING" /\ DOMAIN versions[n] = Order ~> jobs[n] = "COMPLETED"

\* "Only the latest order is the current version" (docs, collection): once the
\* history of a notice is complete, its greatest stored order is current.
LatestIsCurrent ==
    \A n \in Notice : jobs[n] = "COMPLETED" => Sequenced(versions[n])

\* "A new notice is found, its full history is queued" (docs, collection).
EveryNoticeQueued ==
    ~ClientLookups => \A n \in Notice : Stored(n) => jobs[n] # None
===============================================================================
