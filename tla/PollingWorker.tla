----------------------------- MODULE PollingWorker -----------------------------
(***************************************************************************)
(* The polling worker (workers/notice_polling.py): when it asks G2B for    *)
(* what, and when it takes up which backfill job.  NoticeSync models what  *)
(* a run does to the versions of a notice; here a run only stores changes. *)
(*                                                                         *)
(*   - a cycle runs under a session advisory lock, so that one worker      *)
(*     polls; the lock goes with the connection of a worker that dies;     *)
(*   - for each business type it asks for the changes of a window, which   *)
(*     starts a little before the end of the last COMPLETED window and     *)
(*     ends when the cycle began;                                          *)
(*   - it then takes a batch of the backfill jobs that are due, and puts   *)
(*     off those that fail for longer and longer.                          *)
(*                                                                         *)
(* G2B stamps a change with a minute and shows it up to Delay minutes      *)
(* later.  Clients may ask for windows of their own (POST /notices/sync).  *)
(***************************************************************************)
EXTENDS Integers, FiniteSetsExt

CONSTANTS
    Worker,       \* worker processes
    Type,         \* business types that are polled
    Job,          \* backfill jobs
    MaxNow,       \* bound: minutes
    MaxChanges,   \* bound: changes that G2B registers
    Delay,        \* minutes until G2B shows a change
    Overlap,      \* notice_poll_overlap_minutes
    Lookback,     \* notice_poll_lookback_minutes
    MaxRecovery,  \* MAX_RECOVERY_WINDOW
    PageSize, MaxPages,
    BatchSize,    \* notice_history_backfill_batch_size
    Retry,        \* notice_history_backfill_retry_minutes
    RetryCap,     \* 96
    Stale,        \* an hour: a RUNNING job this old is taken up again
    MaxApi,       \* bound: windows that clients ask for
    MaxCrash,     \* bound: crashes
    None

ASSUME PollingAssumption ==
    /\ {MaxNow, MaxChanges, Delay, Overlap, Lookback, MaxRecovery} \subseteq Nat
    /\ {MaxApi, MaxCrash} \subseteq Nat
    /\ {PageSize, MaxPages, BatchSize, Retry, RetryCap, Stale} \subseteq Nat \ {0}
    /\ Delay <= Overlap
    /\ IsFiniteSet(Job)
    /\ None \notin Int \cup Worker \cup Type \cup Job

VARIABLES
    now,
    published,   \* changes that G2B has registered: business type and minute
    stored,      \* those that some run has stored
    checkpoint,  \* the greatest window_ended_at of the COMPLETED CHANGED runs of a type
    givenUp,     \* history: changes, registered or to come, that no window will cover
    jobs,        \* notice_history_backfill_jobs, None before a job is queued
    passed,      \* history: batches chosen while a job was due and not among them
    lock,        \* who holds the advisory lock
    pc,          \* where each worker is in its cycle
    work,        \* its cycle, window and batch
    api,         \* windows that clients have asked for
    crashes

polled == <<published, stored, checkpoint, givenUp, api>>
backfill == <<jobs, passed>>
vars == <<now, polled, backfill, lock, pc, work, crashes>>

Time == 0..MaxNow
Change == Type \X Time
Smaller(x, y) == IF x <= y THEN x ELSE y
Larger(x, y) == IF x <= y THEN y ELSE x

NoWork == [cycle |-> 0, todo |-> {}, type |-> None, from |-> 0, joined |-> FALSE,
           pages |-> 0, seen |-> {}, failed |-> FALSE, batch |-> {}, job |-> None]

Init ==
    /\ now = 0
    /\ published = {} /\ stored = {} /\ givenUp = {}
    /\ checkpoint = [b \in Type |-> None]
    /\ jobs = [j \in Job |-> None]
    /\ passed = [j \in Job |-> 0]
    /\ lock = None
    /\ pc = [w \in Worker |-> "asleep"]
    /\ work = [w \in Worker |-> NoWork]
    /\ api = 0 /\ crashes = 0

Goto(w, label) == pc' = [pc EXCEPT ![w] = label]

-----------------------------------------------------------------------------
(* Cycles *)

\* A slip: the worker does not look whether it got the lock.
PollsWithoutLock == TRUE

GetsLock == lock = None

\* pg_try_advisory_lock: a worker that does not get it sleeps on.
StartCycle(w) ==
    /\ pc[w] = "asleep" /\ GetsLock
    /\ lock' = w
    /\ work' = [work EXCEPT ![w] = [NoWork EXCEPT !.cycle = now, !.todo = Type]]
    /\ Goto(w, "poll")
    /\ UNCHANGED <<now, polled, backfill, crashes>>

EndCycle(w) ==
    /\ pc[w] = "batch" /\ work[w].batch = {}
    /\ lock' = None
    /\ work' = [work EXCEPT ![w] = NoWork]
    /\ Goto(w, "asleep")
    /\ UNCHANGED <<now, polled, backfill, crashes>>

-----------------------------------------------------------------------------
(* Windows *)

\* build_changed_notice_request
WindowStart(t, last) ==
    Smaller(t, Larger(t - MaxRecovery,
                      IF last = None THEN t - Lookback ELSE last - Overlap))

\* Whether a window starts where the last one leaves off.
Joins(start, last) == last # None /\ start <= last - Overlap

\* The next business type: read its checkpoint, store a RUNNING run.
BeginPoll(w) ==
    /\ pc[w] = "poll"
    /\ \E b \in work[w].todo :
        LET start == WindowStart(work[w].cycle, checkpoint[b])
        IN  work' = [work EXCEPT ![w] =
                [NoWork EXCEPT !.cycle = work[w].cycle, !.todo = work[w].todo \ {b},
                               !.type = b, !.from = start,
                               !.joined = Joins(start, checkpoint[b])]]
    /\ Goto(w, "window")
    /\ UNCHANGED <<now, polled, backfill, lock, crashes>>

\* What G2B shows of a window.
Shown(b, from, to) == {c \in published : c[1] = b /\ from <= c[2] /\ c[2] <= to}
InWindow(w) == Shown(work[w].type, work[w].from, work[w].cycle)

\* One page of the window, which brings what no page has brought, each item stored in
\* a savepoint of its own; an item may fail.  The loop ends when the pages read hold
\* the total or the limit is reached.
FetchPage(w) ==
    /\ pc[w] = "window"
    /\ LET rest == InWindow(w) \ work[w].seen
       IN  \E S \in SUBSET rest, ok \in BOOLEAN :
            /\ Cardinality(S) = Smaller(PageSize, Cardinality(rest))
            /\ \E T \in (IF ok THEN {S} ELSE (SUBSET S) \ {S}) : stored' = stored \cup T
            /\ work' = [work EXCEPT ![w].pages = @ + 1, ![w].seen = @ \cup S,
                                    ![w].failed = @ \/ ~ok]
    /\ Goto(w, IF \/ (work[w].pages + 1) * PageSize >= Cardinality(InWindow(w))
                  \/ work[w].pages + 1 >= MaxPages
               THEN "fetched" ELSE "window")
    /\ UNCHANGED <<now, published, checkpoint, givenUp, api, backfill, lock, crashes>>

\* A slip: a run with failed items is COMPLETED too.
CompletesRegardless(w) == TRUE

\* "Partial polling runs ... must not advance the next polling checkpoint."
Completes(w) == ~work[w].failed

\* What a COMPLETED run leaves behind for good: what the page limit has cut off, and,
\* if the window does not join the last one, what is older than it.
LeftBehind(w) ==
    {c \in InWindow(w) : c \notin work[w].seen}
        \cup {c \in Change : c[1] = work[w].type /\ c[2] < work[w].from /\ ~work[w].joined}

Advanced(last, to) == IF last = None THEN to ELSE Larger(last, to)

FinishPoll(w) ==
    /\ pc[w] = "fetched"
    /\ IF Completes(w)
       THEN /\ checkpoint' = [checkpoint EXCEPT ![work[w].type] = Advanced(@, work[w].cycle)]
            /\ givenUp' = givenUp \cup LeftBehind(w)
       ELSE UNCHANGED <<checkpoint, givenUp>>
    /\ Goto(w, "poll")
    /\ UNCHANGED <<now, published, stored, api, backfill, lock, work, crashes>>

\* G2B or the database fails: the run is FAILED, and the cycle goes on with the next type.
PollFails(w) ==
    /\ pc[w] \in {"window", "fetched"}
    /\ Goto(w, "poll")
    /\ UNCHANGED <<now, polled, backfill, lock, work, crashes>>

-----------------------------------------------------------------------------
(* Backfill jobs *)

\* enqueue_notice_history_backfill: some run has created the notice.
Enqueue(j) ==
    /\ jobs[j] = None
    /\ jobs' = [jobs EXCEPT ![j] =
           [status |-> "PENDING", attempts |-> 0, next |-> now, started |-> now]]
    /\ UNCHANGED <<now, polled, passed, lock, pc, work, crashes>>

\* Jobs to run at t, among them those that a dead worker left RUNNING an hour ago.
DueJobs(t) ==
    {j \in Job : jobs[j] # None /\
        \/ jobs[j].status \in {"PENDING", "FAILED"} /\ jobs[j].next <= t
        \/ jobs[j].status = "RUNNING" /\ jobs[j].started < t - Stale}

\* A slip: no order is asked for.
AnyBatch(due) == kSubset(Smaller(BatchSize, Cardinality(due)), due)

\* ORDER BY next_attempt_at LIMIT batch size
Batches(due) ==
    {S \in kSubset(Smaller(BatchSize, Cardinality(due)), due) :
        \A j \in S, k \in due \ S : jobs[j].next <= jobs[k].next}

\* All types are polled: choose the batch.
PickBatch(w) ==
    /\ pc[w] = "poll" /\ work[w].todo = {}
    /\ LET due == DueJobs(work[w].cycle)
       IN  \E S \in Batches(due) :
            /\ work' = [work EXCEPT ![w].batch = S]
            /\ passed' = [j \in Job |-> IF j \in S THEN 0
                                        ELSE IF j \in due THEN passed[j] + 1
                                        ELSE passed[j]]
    /\ Goto(w, "batch")
    /\ UNCHANGED <<now, polled, jobs, lock, crashes>>

\* The jobs of a batch run in the order in which they were selected.
StartJob(w) ==
    /\ pc[w] = "batch"
    /\ \E j \in work[w].batch :
        /\ \A k \in work[w].batch : jobs[j].next <= jobs[k].next
        /\ jobs' = [jobs EXCEPT ![j].status = "RUNNING", ![j].attempts = @ + 1,
                                ![j].started = work[w].cycle]
        /\ work' = [work EXCEPT ![w].batch = @ \ {j}, ![w].job = j]
    /\ Goto(w, "job")
    /\ UNCHANGED <<now, polled, passed, lock, crashes>>

Backoff(attempts) == Retry * Smaller(2^Larger(attempts - 1, 0), RetryCap)

EndJob(w) ==
    /\ pc[w] = "job"
    /\ LET j == work[w].job
       IN  \/ jobs' = [jobs EXCEPT ![j].status = "COMPLETED"]
           \/ jobs' = [jobs EXCEPT ![j].status = "FAILED",
                                   ![j].next = work[w].cycle + Backoff(jobs[j].attempts)]
    /\ work' = [work EXCEPT ![w].job = None]
    /\ Goto(w, "batch")
    /\ UNCHANGED <<now, polled, passed, lock, crashes>>

-----------------------------------------------------------------------------
(* Surroundings *)

Tick ==
    /\ now < MaxNow
    /\ now' = now + 1
    /\ UNCHANGED <<polled, backfill, lock, pc, work, crashes>>

\* G2B shows a change, at most Delay minutes after its stamp.
Register ==
    /\ Cardinality(published) < MaxChanges
    /\ \E b \in Type, s \in {t \in Time : now - Delay <= t /\ t <= now} :
        published' = published \cup {<<b, s>>}
    /\ UNCHANGED <<now, stored, checkpoint, givenUp, api, backfill, lock, pc, work, crashes>>

\* What a client's window leaves behind if it moves the checkpoint: what it has not
\* fetched, what lies before it unless it joins the last window, and, if it ends in
\* the future, what is registered from now on until then.
LeftByClient(b, from, to, S) ==
    IF checkpoint[b] # None /\ to <= checkpoint[b]
    THEN {}
    ELSE (Shown(b, from, to) \ S) \cup
         {c \in Change : c[1] = b /\
             \/ c[2] < from /\ ~Joins(from, checkpoint[b])
             \/ now < to /\ now - Delay <= c[2] /\ c[2] <= to}

\* POST /notices/sync with CHANGED: any window, any page limit, COMPLETED.
ClientWindow ==
    /\ api < MaxApi
    /\ api' = api + 1
    /\ \E b \in Type, from \in Time, to \in Time :
        /\ from <= to
        /\ \E S \in SUBSET Shown(b, from, to) :
            /\ stored' = stored \cup S
            /\ checkpoint' = [checkpoint EXCEPT ![b] = Advanced(@, to)]
            /\ givenUp' = givenUp \cup LeftByClient(b, from, to, S)
    /\ UNCHANGED <<now, published, backfill, lock, pc, work, crashes>>

\* A worker dies; PostgreSQL ends its session and with it the advisory lock.
Crash(w) ==
    /\ pc[w] # "asleep" /\ crashes < MaxCrash
    /\ crashes' = crashes + 1
    /\ lock' = None
    /\ work' = [work EXCEPT ![w] = NoWork]
    /\ Goto(w, "asleep")
    /\ UNCHANGED <<now, polled, backfill>>

WorkerStep(w) ==
    \/ BeginPoll(w) \/ FetchPage(w) \/ FinishPoll(w) \/ PollFails(w)
    \/ PickBatch(w) \/ StartJob(w) \/ EndJob(w) \/ EndCycle(w)

Next ==
    \/ \E w \in Worker : StartCycle(w) \/ WorkerStep(w) \/ Crash(w)
    \/ \E j \in Job : Enqueue(j)
    \/ Tick \/ Register \/ ClientWindow

Spec == Init /\ [][Next]_vars

-----------------------------------------------------------------------------
(* Properties *)

JobRow == [status : {"PENDING", "RUNNING", "COMPLETED", "FAILED"}, attempts : Nat,
           next : Int, started : Int]

ASSUME RowsAssumption == None \notin JobRow

Work == [cycle : Time, todo : SUBSET Type, type : Type \cup {None}, from : Int,
         joined : BOOLEAN, pages : Nat, seen : SUBSET Change, failed : BOOLEAN,
         batch : SUBSET Job, job : Job \cup {None}]

\* The kinds of values the variables hold; a window starts before it ends and is no
\* longer than NoticeSyncRequest admits, or building the request would end the cycle.
TypeOK ==
    /\ now \in Time
    /\ published \subseteq Change /\ stored \subseteq published /\ givenUp \subseteq Change
    /\ checkpoint \in [Type -> Time \cup {None}]
    /\ jobs \in [Job -> JobRow \cup {None}]
    /\ passed \in [Job -> Nat]
    /\ lock \in Worker \cup {None}
    /\ pc \in [Worker -> {"asleep", "poll", "window", "fetched", "batch", "job"}]
    /\ work \in [Worker -> Work]
    /\ \A w \in Worker : pc[w] \in {"window", "fetched"} =>
           work[w].from <= work[w].cycle /\ work[w].cycle <= work[w].from + MaxRecovery
    /\ api \in 0..MaxApi /\ crashes \in 0..MaxCrash

\* A change is stored, or the next window will still reach it, or it was given up in one
\* of three ways: a page limit cut it off, a gap was longer than the recovery window (or
\* lies before the first poll), or a client's window moved the checkpoint past it.
\* Failures, crashes, a second worker and late changes lose nothing.
ChangesAccountedFor ==
    \A c \in published \ (stored \cup givenUp) :
        checkpoint[c[1]] = None \/ c[2] >= checkpoint[c[1]] - Overlap

\* While a job runs, it is RUNNING and no other worker runs it, although RUNNING jobs are
\* taken up again when they are old.
JobRunsOnce ==
    \A w \in Worker : pc[w] = "job" =>
        /\ jobs[work[w].job].status = "RUNNING"
        /\ \A v \in Worker \ {w} : pc[v] # "job" \/ work[v].job # work[w].job

\* No job drops out: one that is not COMPLETED is run by a worker, or will be due after
\* the longest backoff at the latest, or a stale hour after it was started.
JobsComeBack ==
    \A j \in Job : jobs[j] # None =>
        \/ jobs[j].status = "COMPLETED"
        \/ \E w \in Worker : pc[w] = "job" /\ work[w].job = j
        \/ \E t \in now..(now + Larger(Retry * RetryCap, Stale + 1)) : j \in DueJobs(t)

\* A job that is due waits at most until each other job has had its turn: failed jobs
\* queue up behind it, and only the death of a worker wastes a batch.
NoJobStarves ==
    JobsComeBack /\ \A j \in Job :
        passed[j] <= (Cardinality(Job) - 1 + BatchSize - 1) \div BatchSize + crashes
===============================================================================
