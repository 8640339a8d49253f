---------------------------- MODULE CollectionProofs ----------------------------
(***************************************************************************)
(* What collection promises, proved for any instance.  PollingWorker, for  *)
(* any workers, business types, jobs, windows, page and batch sizes,       *)
(* delays and crashes: no change is lost unnoticed, no job runs twice, and *)
(* none waits for longer than the others need.                             *)
(* The two commands that gather codes, for any codes, windows and sizes of *)
(* pages and for any number of entries, changes, starts and crashes: a     *)
(* window that CodeStore marks complete is stored whole and the newest     *)
(* change of a code is kept; what CodeMaster's state calls complete is in  *)
(* the file of license codes.                                              *)
(***************************************************************************)
EXTENDS PollingWorker, CodeStore, FiniteSetTheorems, SequenceTheorems, WellFoundedInduction,
        TLAPS

-----------------------------------------------------------------------------
(* PollingWorker *)

\* Only the worker that holds the advisory lock is awake.
OneAwake == \A w \in Worker : pc[w] # "asleep" => lock = w

\* A worker runs jobs that are there; the one it runs is RUNNING.
JobsHeld ==
    \A w \in Worker :
        /\ \A j \in work[w].batch : jobs[j] # None
        /\ pc[w] = "job" => /\ work[w].job \in Job
                            /\ jobs[work[w].job] # None
                            /\ jobs[work[w].job].status = "RUNNING"

\* What a worker knows of the window it fetches.  The checkpoint may have advanced since
\* it was read, never gone back.
WindowsHeld ==
    \A w \in Worker :
        /\ work[w].cycle <= now
        /\ pc[w] \in {"window", "fetched"} =>
            /\ work[w].type \in Type
            /\ ~work[w].failed => work[w].seen \subseteq stored
            /\ work[w].joined => /\ checkpoint[work[w].type] # None
                                 /\ work[w].from <= checkpoint[work[w].type] - Overlap

\* G2B will not show it any more.
TooLate(c) == c \notin published /\ c[2] < now - Delay

\* What the next window of a type will reach.
InReach(c) == checkpoint[c[1]] = None \/ c[2] >= checkpoint[c[1]] - Overlap

\* ChangesAccountedFor also for the changes that are still to be registered: where no
\* window will reach any more, G2B registers nothing that is not given up.
AllReached == \A c \in Change \ (stored \cup givenUp) : InReach(c) \/ TooLate(c)

IInv == TypeOK /\ OneAwake /\ JobsHeld /\ WindowsHeld /\ AllReached

-----------------------------------------------------------------------------
(* What the operators return *)

LEMMA NoWorkType == NoWork \in Work
  BY PollingAssumption DEF NoWork, Work, Time

LEMMA BackoffType == ASSUME NEW a \in Nat PROVE Backoff(a) \in Int
<1>1. Larger(a - 1, 0) \in Nat
  BY DEF Larger
<1>2. 2^Larger(a - 1, 0) \in Int
  BY <1>1
<1> QED BY <1>2, PollingAssumption DEF Backoff, Smaller

\* A window ends with its cycle and is no longer than the recovery window.
LEMMA WindowStartType ==
    ASSUME NEW t \in Time, NEW last \in Time \cup {None}
    PROVE  /\ WindowStart(t, last) \in Int
           /\ WindowStart(t, last) <= t /\ t <= WindowStart(t, last) + MaxRecovery
  BY PollingAssumption DEF WindowStart, Smaller, Larger, Time

LEMMA AdvancedType ==
    ASSUME NEW last \in Time \cup {None}, NEW to \in Time
    PROVE  /\ Advanced(last, to) \in Time
           /\ Advanced(last, to) >= to
           /\ last # None => Advanced(last, to) >= last
           /\ Advanced(last, to) \in {last, to}
  BY PollingAssumption DEF Advanced, Larger, Time

LEMMA BatchesOfDue == ASSUME NEW due, NEW S \in Batches(due) PROVE S \subseteq due
  BY DEF Batches, kSubset

LEMMA PollFacts ==
    ASSUME IInv, NEW w \in Worker
    PROVE  /\ TypeOK /\ work \in [Worker -> Work] /\ work[w] \in Work
           /\ pc \in [Worker -> {"asleep", "poll", "window", "fetched", "batch", "job"}]
           /\ work[w].cycle \in Time /\ work[w].todo \subseteq Type
           /\ work[w].batch \subseteq Job /\ work[w].seen \subseteq Change
           /\ work[w].from \in Int /\ work[w].pages \in Nat
           /\ work[w].joined \in BOOLEAN /\ work[w].failed \in BOOLEAN
  BY DEF IInv, TypeOK, Work

-----------------------------------------------------------------------------
(* Types *)

Label == {"asleep", "poll", "window", "fetched", "batch", "job"}

\* A window is no longer than NoticeSyncRequest admits.
Fits(x) == x.from <= x.cycle /\ x.cycle <= x.from + MaxRecovery

\* A step of one worker, if its work keeps its type.
LEMMA WorkerTypes ==
    ASSUME IInv, NEW w \in Worker, NEW x \in Work, NEW label \in Label,
           work' = [work EXCEPT ![w] = x], pc' = [pc EXCEPT ![w] = label],
           label \in {"window", "fetched"} => Fits(x)
    PROVE  /\ work' \in [Worker -> Work] /\ pc' \in [Worker -> Label]
           /\ \A v \in Worker : pc'[v] \in {"window", "fetched"} => Fits(work'[v])
<1>1. /\ work \in [Worker -> Work] /\ pc \in [Worker -> Label]
      /\ \A v \in Worker : pc[v] \in {"window", "fetched"} => Fits(work[v])
  BY DEF IInv, TypeOK, Label, Fits
<1>2. work' \in [Worker -> Work] /\ pc' \in [Worker -> Label]
  BY <1>1
<1>3. \A v \in Worker : \/ v = w /\ work'[v] = x /\ pc'[v] = label
                        \/ v # w /\ work'[v] = work[v] /\ pc'[v] = pc[v]
  BY <1>1
<1> QED BY <1>1, <1>2, <1>3

\* The rest of TypeOK.
TablesOK ==
    /\ now \in Time
    /\ published \subseteq Change /\ stored \subseteq published /\ givenUp \subseteq Change
    /\ checkpoint \in [Type -> Time \cup {None}]
    /\ jobs \in [Job -> JobRow \cup {None}]
    /\ passed \in [Job -> Nat]
    /\ lock \in Worker \cup {None}
    /\ api \in 0..MaxApi /\ crashes \in 0..MaxCrash

WorkersOK ==
    /\ work \in [Worker -> Work] /\ pc \in [Worker -> Label]
    /\ \A w \in Worker : pc[w] \in {"window", "fetched"} => Fits(work[w])

LEMMA Types ==
    (TypeOK <=> TablesOK /\ WorkersOK) /\ (TypeOK' <=> TablesOK' /\ WorkersOK')
  BY DEF TypeOK, TablesOK, WorkersOK, Label, Fits

LEMMA StartCycleType ==
    ASSUME IInv, NEW w \in Worker, StartCycle(w) PROVE TypeOK'
<1> DEFINE x == [NoWork EXCEPT !.cycle = now, !.todo = Type]
<1>1. x \in Work
  BY NoWorkType DEF IInv, TypeOK, Work
<1> HIDE DEF x
<1>2. WorkersOK'
  <2>1. work' = [work EXCEPT ![w] = x] /\ pc' = [pc EXCEPT ![w] = "poll"]
    BY DEF StartCycle, Goto, x
  <2> QED BY <1>1, <2>1, WorkerTypes DEF WorkersOK, Label
<1>3. TablesOK'
  BY Types DEF IInv, TablesOK, StartCycle, polled, backfill
<1> QED BY <1>2, <1>3, Types

LEMMA EndCycleType ==
    ASSUME IInv, NEW w \in Worker, EndCycle(w) \/ Crash(w) PROVE TypeOK'
<1>1. WorkersOK'
  <2>1. work' = [work EXCEPT ![w] = NoWork] /\ pc' = [pc EXCEPT ![w] = "asleep"]
    BY DEF EndCycle, Crash, Goto
  <2> QED BY <2>1, NoWorkType, WorkerTypes DEF WorkersOK, Label
<1>2. TablesOK'
  <2>1. lock' = None /\ UNCHANGED <<now, published, stored, givenUp, checkpoint, jobs, passed, api>>
    BY DEF EndCycle, Crash, polled, backfill
  <2>2. crashes' \in 0..MaxCrash
    BY PollingAssumption DEF EndCycle, Crash, IInv, TypeOK
  <2> QED BY <2>1, <2>2, Types DEF IInv, TablesOK
<1> QED BY <1>1, <1>2, Types

LEMMA BeginPollType ==
    ASSUME IInv, NEW w \in Worker, BeginPoll(w) PROVE TypeOK'
<1> DEFINE start(b) == WindowStart(work[w].cycle, checkpoint[b])
           x(b) == [NoWork EXCEPT !.cycle = work[w].cycle, !.todo = work[w].todo \ {b},
                                  !.type = b, !.from = start(b),
                                  !.joined = Joins(start(b), checkpoint[b])]
<1>1. PICK b \in work[w].todo : work' = [work EXCEPT ![w] = x(b)]
  BY DEF BeginPoll
<1>2. b \in Type /\ checkpoint[b] \in Time \cup {None}
  BY PollFacts DEF TypeOK
<1>3. /\ start(b) \in Int
      /\ start(b) <= work[w].cycle /\ work[w].cycle <= start(b) + MaxRecovery
  BY <1>2, PollFacts, WindowStartType
<1>4. Joins(start(b), checkpoint[b]) \in BOOLEAN
  BY DEF Joins
<1>5. x(b) \in Work /\ Fits(x(b))
  <2> DEFINE y == x(b)
  <2>1. /\ y.cycle = work[w].cycle /\ y.todo = work[w].todo \ {b} /\ y.type = b
        /\ y.from = start(b) /\ y.joined = Joins(start(b), checkpoint[b])
    BY DEF NoWork
  <2>2. x(b) \in Work
    BY <1>2, <1>3, <1>4, PollFacts, NoWorkType DEF Work
  <2> QED BY <1>3, <2>1, <2>2 DEF Fits
<1> HIDE DEF x
<1>6. WorkersOK'
  BY <1>1, <1>5, WorkerTypes DEF WorkersOK, Label, BeginPoll, Goto
<1>7. TablesOK'
  BY Types DEF IInv, TablesOK, BeginPoll, polled, backfill
<1> QED BY <1>6, <1>7, Types

LEMMA FetchPageType ==
    ASSUME IInv, NEW w \in Worker, FetchPage(w) PROVE TypeOK'
<1> DEFINE rest == InWindow(w) \ work[w].seen
           x(S, ok) == [work[w] EXCEPT !.pages = @ + 1, !.seen = @ \cup S, !.failed = @ \/ ~ok]
<1>1. PICK S \in SUBSET rest, ok \in BOOLEAN :
          /\ \E T \in (IF ok THEN {S} ELSE (SUBSET S) \ {S}) : stored' = stored \cup T
          /\ work' = [work EXCEPT ![w].pages = @ + 1, ![w].seen = @ \cup S,
                                  ![w].failed = @ \/ ~ok]
  BY DEF FetchPage
<1>2. S \subseteq published /\ published \subseteq Change
  BY Types DEF IInv, TablesOK, InWindow, Shown
<1>3. stored' \subseteq published /\ stored' \subseteq Change
  BY <1>1, <1>2, Types DEF IInv, TablesOK
<1>4. work' = [work EXCEPT ![w] = x(S, ok)]
  BY <1>1, PollFacts
<1>5. x(S, ok) \in Work /\ (Fits(work[w]) => Fits(x(S, ok)))
  <2> DEFINE more == work[w].pages + 1
             all == work[w].seen \cup S
             fails == work[w].failed \/ ~ok
  <2>1. more \in Nat /\ all \subseteq Change /\ fails \in BOOLEAN
    BY <1>2, PollFacts
  <2>2. x(S, ok) = [work[w] EXCEPT !.pages = more, !.seen = all, !.failed = fails]
    OBVIOUS
  <2> HIDE DEF more, all, fails, x
  <2> QED BY <2>1, <2>2, PollFacts DEF Work, Fits
<1>6. Fits(work[w])
  BY Types DEF IInv, WorkersOK, FetchPage
<1>7. PICK label \in {"fetched", "window"} : pc' = [pc EXCEPT ![w] = label]
  BY DEF FetchPage, Goto
<1> HIDE DEF x
<1>8. WorkersOK'
  BY <1>4, <1>5, <1>6, <1>7, WorkerTypes DEF WorkersOK, Label
<1>9. TablesOK'
  BY <1>3, Types DEF IInv, TablesOK, FetchPage, backfill
<1> QED BY <1>8, <1>9, Types

LEMMA FinishPollType ==
    ASSUME IInv, NEW w \in Worker, FinishPoll(w) \/ PollFails(w) PROVE TypeOK'
<1>1. UNCHANGED work /\ pc' = [pc EXCEPT ![w] = "poll"]
  BY DEF FinishPoll, PollFails, Goto
<1>2. WorkersOK'
  BY <1>1, Types, PollFacts DEF IInv, WorkersOK, Label
<1>3. /\ checkpoint' \in [Type -> Time \cup {None}] /\ givenUp' \subseteq Change
      /\ UNCHANGED <<now, published, stored, api, jobs, passed, lock, crashes>>
  <2>1. CASE FinishPoll(w)
    <3>1. LeftBehind(w) \subseteq Change
      BY Types DEF IInv, TablesOK, LeftBehind, InWindow, Shown
    <3>2. work[w].type \in Type
      BY <2>1 DEF IInv, WindowsHeld, FinishPoll
    <3>3. Advanced(checkpoint[work[w].type], work[w].cycle) \in Time
      BY <3>2, PollFacts, AdvancedType DEF TypeOK
    <3> QED BY <2>1, <3>1, <3>3, Types DEF IInv, TablesOK, FinishPoll, backfill
  <2>2. CASE PollFails(w)
    BY <2>2, Types DEF IInv, TablesOK, PollFails, polled, backfill
  <2> QED BY <2>1, <2>2
<1>4. TablesOK'
  BY <1>3, Types DEF IInv, TablesOK
<1> QED BY <1>2, <1>4, Types

LEMMA PickBatchType ==
    ASSUME IInv, NEW w \in Worker, PickBatch(w) PROVE TypeOK'
<1> DEFINE due == DueJobs(work[w].cycle)
           x(S) == [work[w] EXCEPT !.batch = S]
<1>1. PICK S \in Batches(due) :
          /\ work' = [work EXCEPT ![w].batch = S]
          /\ passed' = [j \in Job |-> IF j \in S THEN 0
                                      ELSE IF j \in due THEN passed[j] + 1 ELSE passed[j]]
  BY DEF PickBatch
<1>2. S \subseteq Job
  BY BatchesOfDue DEF DueJobs
<1>3. work' = [work EXCEPT ![w] = x(S)]
  BY <1>1, PollFacts
<1>4. x(S) \in Work
  BY <1>2, PollFacts DEF Work
<1> HIDE DEF x
<1>5. WorkersOK'
  BY <1>3, <1>4, WorkerTypes DEF WorkersOK, Label, PickBatch, Goto
<1>6. passed' \in [Job -> Nat]
  BY <1>1, Types DEF IInv, TablesOK
<1>7. TablesOK'
  BY <1>6, Types DEF IInv, TablesOK, PickBatch, polled
<1> QED BY <1>5, <1>7, Types

\* What a job row becomes when it is taken up.
Taken(row, t) == [row EXCEPT !.status = "RUNNING", !.attempts = @ + 1, !.started = t]

LEMMA TakenType ==
    ASSUME NEW row \in JobRow, NEW t \in Int
    PROVE  Taken(row, t) \in JobRow /\ Taken(row, t).status = "RUNNING"
<1> DEFINE more == row.attempts + 1
<1>1. more \in Nat
  BY DEF JobRow
<1>2. Taken(row, t) = [row EXCEPT !.status = "RUNNING", !.attempts = more, !.started = t]
  BY DEF Taken
<1> HIDE DEF more
<1> QED BY <1>1, <1>2 DEF JobRow

\* What starting a job does.
LEMMA StartsJob ==
    ASSUME IInv, NEW w \in Worker, StartJob(w)
    PROVE  \E j \in work[w].batch :
               /\ j \in Job /\ jobs[j] \in JobRow
               /\ jobs' = [jobs EXCEPT ![j] = Taken(jobs[j], work[w].cycle)]
               /\ work' = [work EXCEPT ![w] = [work[w] EXCEPT !.batch = @ \ {j}, !.job = j]]
<1>1. PICK j \in work[w].batch :
          /\ jobs' = [jobs EXCEPT ![j].status = "RUNNING", ![j].attempts = @ + 1,
                                  ![j].started = work[w].cycle]
          /\ work' = [work EXCEPT ![w].batch = @ \ {j}, ![w].job = j]
  BY DEF StartJob
<1>2. j \in Job /\ jobs[j] # None /\ jobs \in [Job -> JobRow \cup {None}]
  BY PollFacts DEF IInv, JobsHeld, TypeOK
<1>3. jobs' = [jobs EXCEPT ![j] = Taken(jobs[j], work[w].cycle)]
  BY <1>1, <1>2 DEF Taken
<1>4. work' = [work EXCEPT ![w] = [work[w] EXCEPT !.batch = @ \ {j}, !.job = j]]
  BY <1>1, PollFacts
<1> QED BY <1>2, <1>3, <1>4

LEMMA StartJobType ==
    ASSUME IInv, NEW w \in Worker, StartJob(w) PROVE TypeOK'
<1> DEFINE x(j) == [work[w] EXCEPT !.batch = @ \ {j}, !.job = j]
<1>1. PICK j \in work[w].batch :
          /\ j \in Job /\ jobs[j] \in JobRow
          /\ jobs' = [jobs EXCEPT ![j] = Taken(jobs[j], work[w].cycle)]
          /\ work' = [work EXCEPT ![w] = x(j)]
  BY StartsJob
<1>2. x(j) \in Work
  BY <1>1, PollFacts DEF Work
<1> HIDE DEF x
<1>3. WorkersOK'
  BY <1>1, <1>2, WorkerTypes DEF WorkersOK, Label, StartJob, Goto
<1>4. work[w].cycle \in Int
  BY PollFacts DEF Time
<1>5. jobs' \in [Job -> JobRow \cup {None}]
  BY <1>1, <1>4, TakenType, Types DEF IInv, TablesOK
<1>6. TablesOK'
  BY <1>5, Types DEF IInv, TablesOK, StartJob, polled
<1> QED BY <1>3, <1>6, Types

\* What a job row becomes when its run is over.
LEMMA EndsJob ==
    ASSUME IInv, NEW w \in Worker, EndJob(w)
    PROVE  /\ \E row \in JobRow : jobs' = [jobs EXCEPT ![work[w].job] = row]
           /\ work' = [work EXCEPT ![w] = [work[w] EXCEPT !.job = None]]
<1> DEFINE j == work[w].job
           later == work[w].cycle + Backoff(jobs[j].attempts)
<1>1. j \in Job /\ jobs[j] \in JobRow
  BY PollFacts DEF IInv, JobsHeld, TypeOK, EndJob
<1>2. later \in Int
  <2>1. jobs[j].attempts \in Nat
    BY <1>1 DEF JobRow
  <2> QED BY <2>1, BackoffType, PollFacts DEF Time
<1>3. \/ jobs' = [jobs EXCEPT ![j].status = "COMPLETED"]
      \/ jobs' = [jobs EXCEPT ![j].status = "FAILED", ![j].next = later]
  BY DEF EndJob
<1> HIDE DEF later
<1>4. /\ [jobs[j] EXCEPT !.status = "COMPLETED"] \in JobRow
      /\ [jobs[j] EXCEPT !.status = "FAILED", !.next = later] \in JobRow
  BY <1>1, <1>2 DEF JobRow
<1>5. DOMAIN jobs = Job
  BY Types DEF IInv, TablesOK
<1>6. \/ jobs' = [jobs EXCEPT ![j] = [jobs[j] EXCEPT !.status = "COMPLETED"]]
      \/ jobs' = [jobs EXCEPT ![j] = [jobs[j] EXCEPT !.status = "FAILED", !.next = later]]
  BY <1>1, <1>3, <1>5
<1>7. work' = [work EXCEPT ![w] = [work[w] EXCEPT !.job = None]]
  BY PollFacts DEF EndJob
<1> QED BY <1>4, <1>6, <1>7

LEMMA EndJobType ==
    ASSUME IInv, NEW w \in Worker, EndJob(w) PROVE TypeOK'
<1> DEFINE x == [work[w] EXCEPT !.job = None]
<1>1. x \in Work /\ work' = [work EXCEPT ![w] = x]
  BY PollFacts, EndsJob DEF Work
<1> HIDE DEF x
<1>2. WorkersOK'
  BY <1>1, WorkerTypes DEF WorkersOK, Label, EndJob, Goto
<1>3. jobs' \in [Job -> JobRow \cup {None}]
  BY EndsJob, Types DEF IInv, TablesOK
<1>4. TablesOK'
  BY <1>3, Types DEF IInv, TablesOK, EndJob, polled
<1> QED BY <1>2, <1>4, Types

LEMMA EnqueueType ==
    ASSUME IInv, NEW j \in Job, Enqueue(j) PROVE TypeOK'
<1>1. [status |-> "PENDING", attempts |-> 0, next |-> now, started |-> now] \in JobRow
  BY Types DEF IInv, TablesOK, JobRow, Time
<1>2. jobs' \in [Job -> JobRow \cup {None}]
  BY <1>1, Types DEF IInv, TablesOK, Enqueue
<1>3. TablesOK'
  BY <1>2, Types DEF IInv, TablesOK, Enqueue, polled
<1>4. WorkersOK'
  BY Types DEF IInv, WorkersOK, Enqueue
<1> QED BY <1>3, <1>4, Types

\* What a client's window stores.
ClientStores(b, from, to, S) ==
    /\ S \subseteq Shown(b, from, to)
    /\ stored' = stored \cup S
    /\ checkpoint' = [checkpoint EXCEPT ![b] = Advanced(@, to)]
    /\ givenUp' = givenUp \cup LeftByClient(b, from, to, S)

LEMMA ClientStoresSome ==
    ASSUME IInv, ClientWindow
    PROVE  \E b \in Type, from \in Time, to \in Time, S \in SUBSET Change :
               ClientStores(b, from, to, S)
<1>1. PICK b \in Type, from \in Time, to \in Time :
          \E S \in SUBSET Shown(b, from, to) :
              /\ stored' = stored \cup S
              /\ checkpoint' = [checkpoint EXCEPT ![b] = Advanced(@, to)]
              /\ givenUp' = givenUp \cup LeftByClient(b, from, to, S)
  BY DEF ClientWindow
<1>2. Shown(b, from, to) \subseteq Change
  BY Types DEF IInv, TablesOK, Shown
<1> QED BY <1>1, <1>2 DEF ClientStores

LEMMA SurroundingsType ==
    ASSUME IInv, Tick \/ Register \/ ClientWindow PROVE TypeOK'
<1>1. UNCHANGED <<pc, work, lock, jobs, passed, crashes>>
  BY DEF Tick, Register, ClientWindow, backfill
<1>2. WorkersOK'
  BY <1>1, Types DEF IInv, WorkersOK
<1>3. TablesOK'
  <2>1. CASE Tick
    BY <1>1, <2>1, Types, PollingAssumption DEF IInv, TablesOK, Tick, polled, Time
  <2>2. CASE Register
    BY <1>1, <2>2, Types DEF IInv, TablesOK, Register, Change
  <2>3. CASE ClientWindow
    <3>1. PICK b \in Type, from \in Time, to \in Time, S \in SUBSET Change :
              ClientStores(b, from, to, S)
      BY <2>3, ClientStoresSome
    <3>2. stored' \subseteq published /\ givenUp' \subseteq Change
      BY <3>1, Types DEF IInv, TablesOK, ClientStores, Shown, LeftByClient
    <3>3. checkpoint' \in [Type -> Time \cup {None}]
      BY <3>1, AdvancedType, Types DEF IInv, TablesOK, ClientStores
    <3>4. api' \in 0..MaxApi
      BY <2>3, Types, PollingAssumption DEF IInv, TablesOK, ClientWindow
    <3> QED BY <1>1, <2>3, <3>2, <3>3, <3>4, Types DEF IInv, TablesOK, ClientWindow
  <2> QED BY <2>1, <2>2, <2>3
<1> QED BY <1>2, <1>3, Types

LEMMA TypeInv == ASSUME IInv, Next PROVE TypeOK'
  BY StartCycleType, EndCycleType, BeginPollType, FetchPageType, FinishPollType, PickBatchType,
     StartJobType, EndJobType, EnqueueType, SurroundingsType DEF Next, WorkerStep

-----------------------------------------------------------------------------
(* The lock and the jobs *)

\* A cycle begins with the free lock; the death of a worker frees only its own.
LEMMA OneAwakeInv == ASSUME IInv, Next PROVE OneAwake'
<1>1. /\ \A w \in Worker : pc[w] # "asleep" => lock = w
      /\ DOMAIN pc = Worker /\ None \notin Worker
  BY PollingAssumption DEF IInv, OneAwake, TypeOK
<1>2. ASSUME NEW w \in Worker, StartCycle(w) PROVE OneAwake'
  BY <1>1, <1>2 DEF StartCycle, GetsLock, Goto, OneAwake
<1>3. ASSUME NEW w \in Worker, EndCycle(w) \/ Crash(w) PROVE OneAwake'
  BY <1>1, <1>3 DEF EndCycle, Crash, Goto, OneAwake
<1>4. ASSUME NEW w \in Worker, pc[w] # "asleep", NEW label, pc' = [pc EXCEPT ![w] = label],
             UNCHANGED lock
      PROVE  OneAwake'
  BY <1>1, <1>4 DEF OneAwake
<1>5. ASSUME NEW w \in Worker, WorkerStep(w) PROVE OneAwake'
  BY <1>3, <1>4, <1>5 DEF WorkerStep, BeginPoll, FetchPage, FinishPoll, PollFails, PickBatch,
     StartJob, EndJob, Goto
<1>6. CASE UNCHANGED <<pc, lock>>
  BY <1>1, <1>6 DEF OneAwake
<1> QED BY <1>2, <1>3, <1>5, <1>6 DEF Next, Enqueue, Tick, Register, ClientWindow

\* What one worker holds of the jobs.
Holds(w) ==
    /\ \A j \in work[w].batch : jobs[j] # None
    /\ pc[w] = "job" => /\ work[w].job \in Job
                        /\ jobs[work[w].job] # None
                        /\ jobs[work[w].job].status = "RUNNING"

LEMMA HoldsAll == JobsHeld <=> \A w \in Worker : Holds(w)
  BY DEF JobsHeld, Holds

\* Nobody else is awake while a worker changes a job.
LEMMA OthersAsleep ==
    ASSUME IInv, NEW w \in Worker, pc[w] # "asleep", NEW v \in Worker \ {w}
    PROVE  pc[v] = "asleep"
  BY DEF IInv, OneAwake

\* Jobs that are there stay, whatever becomes of one of them.
LEMMA JobsStay ==
    ASSUME IInv, NEW j \in Job, NEW row \in JobRow, jobs' = [jobs EXCEPT ![j] = row]
    PROVE  /\ jobs'[j] = row
           /\ \A k \in Job : jobs[k] # None => jobs'[k] # None
           /\ \A k \in Job \ {j} : jobs'[k] = jobs[k]
  BY RowsAssumption, Types DEF IInv, TablesOK

\* What a worker knows of a window that it begins.
LEMMA BeginsPoll ==
    ASSUME IInv, NEW w \in Worker, BeginPoll(w)
    PROVE  /\ \A u \in Worker \ {w} : work'[u] = work[u]
           /\ work'[w].cycle = work[w].cycle /\ work'[w].seen = {} /\ work'[w].batch = {}
           /\ work'[w].type \in Type
           /\ work'[w].from = WindowStart(work[w].cycle, checkpoint[work'[w].type])
           /\ work'[w].joined = Joins(work'[w].from, checkpoint[work'[w].type])
<1> DEFINE start(b) == WindowStart(work[w].cycle, checkpoint[b])
           x(b) == [NoWork EXCEPT !.cycle = work[w].cycle, !.todo = work[w].todo \ {b},
                                  !.type = b, !.from = start(b),
                                  !.joined = Joins(start(b), checkpoint[b])]
<1>1. PICK b \in work[w].todo : work' = [work EXCEPT ![w] = x(b)]
  BY DEF BeginPoll
<1>2. b \in Type /\ DOMAIN work = Worker
  BY PollFacts
<1>3. /\ x(b).cycle = work[w].cycle /\ x(b).seen = {} /\ x(b).batch = {} /\ x(b).type = b
      /\ x(b).from = start(b) /\ x(b).joined = Joins(start(b), checkpoint[b])
  BY DEF NoWork
<1> HIDE DEF x
<1> QED BY <1>1, <1>2, <1>3

\* What it knows after a page of it.
LEMMA FetchesPage ==
    ASSUME IInv, NEW w \in Worker, FetchPage(w)
    PROVE  /\ \A u \in Worker \ {w} : work'[u] = work[u]
           /\ work'[w].cycle = work[w].cycle /\ work'[w].type = work[w].type
           /\ work'[w].from = work[w].from /\ work'[w].joined = work[w].joined
           /\ work'[w].batch = work[w].batch
           /\ stored \subseteq stored'
           /\ ~work'[w].failed => ~work[w].failed /\ work'[w].seen \ work[w].seen \subseteq stored'
<1>1. PICK S \in SUBSET (InWindow(w) \ work[w].seen), ok \in BOOLEAN :
          /\ \E T \in (IF ok THEN {S} ELSE (SUBSET S) \ {S}) : stored' = stored \cup T
          /\ work' = [work EXCEPT ![w].pages = @ + 1, ![w].seen = @ \cup S,
                                  ![w].failed = @ \/ ~ok]
  BY DEF FetchPage
<1> DEFINE fails == work[w].failed \/ ~ok
           all == work[w].seen \cup S
           more == work[w].pages + 1
           x == [work[w] EXCEPT !.pages = more, !.seen = all, !.failed = fails]
<1>2. work' = [work EXCEPT ![w] = x] /\ DOMAIN work = Worker
  BY <1>1, PollFacts
<1>3. fails \in BOOLEAN /\ (~fails => ~work[w].failed /\ ok = TRUE)
  BY <1>1, PollFacts
<1> HIDE DEF fails, more
<1>4. /\ x.cycle = work[w].cycle /\ x.type = work[w].type /\ x.from = work[w].from
      /\ x.joined = work[w].joined /\ x.batch = work[w].batch
      /\ x.failed = fails /\ x.seen = all
  BY PollFacts DEF Work
<1> HIDE DEF x
<1>5. work'[w] = x /\ \A u \in Worker \ {w} : work'[u] = work[u]
  BY <1>2
<1>6. stored \subseteq stored' /\ (ok = TRUE => S \subseteq stored')
  BY <1>1
<1> QED BY <1>3, <1>4, <1>5, <1>6

LEMMA JobsHeldInv == ASSUME IInv, Next PROVE JobsHeld'
<1> SUFFICES ASSUME NEW v \in Worker PROVE Holds(v)'
  BY DEF JobsHeld, Holds
<1>1. Holds(v) /\ work[v].batch \subseteq Job /\ DOMAIN work = Worker /\ DOMAIN pc = Worker
  BY PollFacts DEF IInv, JobsHeld, Holds, TypeOK
<1>2. ASSUME NEW w \in Worker, StartJob(w) PROVE Holds(v)'
  <2>1. PICK j \in work[w].batch :
            /\ j \in Job /\ jobs[j] \in JobRow
            /\ jobs' = [jobs EXCEPT ![j] = Taken(jobs[j], work[w].cycle)]
            /\ work' = [work EXCEPT ![w] = [work[w] EXCEPT !.batch = @ \ {j}, !.job = j]]
    BY <1>2, StartsJob
  <2> DEFINE row == Taken(jobs[j], work[w].cycle)
  <2>2. row \in JobRow /\ row.status = "RUNNING"
    BY <2>1, TakenType, PollFacts DEF Time
  <2> HIDE DEF row
  <2>3. jobs'[j] = row /\ \A k \in Job : jobs[k] # None => jobs'[k] # None
    BY <2>1, <2>2, JobsStay DEF row
  <2>4. CASE v = w
    <3>1. work'[w].batch = work[w].batch \ {j} /\ work'[w].job = j
      BY <1>1, <2>1, PollFacts DEF Work
    <3> QED BY <1>1, <2>1, <2>2, <2>3, <2>4, <3>1, RowsAssumption DEF Holds
  <2>5. CASE v # w
    <3>1. pc[w] # "asleep" /\ pc'[v] = pc[v] /\ work'[v] = work[v]
      BY <1>1, <1>2, <2>1, <2>5 DEF StartJob, Goto
    <3>2. pc'[v] = "asleep"
      BY <2>5, <3>1, OthersAsleep
    <3> QED BY <1>1, <2>3, <3>1, <3>2 DEF Holds
  <2> QED BY <2>4, <2>5
<1>3. ASSUME NEW w \in Worker, EndJob(w) PROVE Holds(v)'
  <2>1. PICK row \in JobRow : jobs' = [jobs EXCEPT ![work[w].job] = row]
    BY <1>3, EndsJob
  <2>2. work[w].job \in Job
    BY <1>3 DEF IInv, JobsHeld, EndJob
  <2>3. \A k \in Job : jobs[k] # None => jobs'[k] # None
    BY <2>1, <2>2, JobsStay
  <2>4. pc'[v] # "job"
    BY <1>1, <1>3, OthersAsleep DEF EndJob, Goto
  <2>5. work'[v].batch = work[v].batch
    BY <1>1, <1>3, EndsJob, PollFacts DEF Work
  <2> QED BY <1>1, <2>3, <2>4, <2>5 DEF Holds
<1>4. ASSUME NEW j \in Job, Enqueue(j) PROVE Holds(v)'
  <2> DEFINE row == [status |-> "PENDING", attempts |-> 0, next |-> now, started |-> now]
  <2>1. row \in JobRow
    BY Types DEF IInv, TablesOK, JobRow, Time
  <2>2. jobs' = [jobs EXCEPT ![j] = row] /\ jobs[j] = None /\ UNCHANGED <<pc, work>>
    BY <1>4 DEF Enqueue
  <2> HIDE DEF row
  <2>3. /\ \A k \in Job : jobs[k] # None => jobs'[k] # None
        /\ \A k \in Job \ {j} : jobs'[k] = jobs[k]
    BY <2>1, <2>2, JobsStay
  <2> QED BY <1>1, <2>2, <2>3 DEF Holds
<1>5. ASSUME NEW w \in Worker, PickBatch(w) PROVE Holds(v)'
  <2>1. PICK S \in Batches(DueJobs(work[w].cycle)) : work' = [work EXCEPT ![w].batch = S]
    BY <1>5 DEF PickBatch
  <2>2. \A j \in S : jobs[j] # None
    BY BatchesOfDue DEF DueJobs
  <2>3. UNCHANGED jobs /\ pc'[w] # "job" /\ \A u \in Worker \ {w} : pc'[u] = pc[u]
    BY <1>1, <1>5 DEF PickBatch, Goto
  <2>4. CASE v = w
    <3>1. work'[w].batch = S
      BY <1>1, <2>1, PollFacts DEF Work
    <3> QED BY <2>2, <2>3, <2>4, <3>1 DEF Holds
  <2>5. CASE v # w
    <3>1. work'[v] = work[v] /\ pc'[v] = pc[v]
      BY <1>1, <2>1, <2>3, <2>5
    <3> QED BY <1>1, <2>3, <3>1 DEF Holds
  <2> QED BY <2>4, <2>5
\* The other steps of a worker end in no job, and leave its batch or have none.
<1>6. ASSUME NEW w \in Worker, NEW label \in {"asleep", "poll", "window", "fetched"},
             UNCHANGED jobs, pc' = [pc EXCEPT ![w] = label],
             \A u \in Worker \ {w} : work'[u] = work[u],
             work'[w].batch \subseteq work[w].batch
      PROVE  Holds(v)'
  <2>1. CASE v = w
    BY <1>1, <1>6, <2>1 DEF Holds
  <2>2. CASE v # w
    <3>1. work'[v] = work[v] /\ pc'[v] = pc[v]
      BY <1>1, <1>6, <2>2
    <3> QED BY <1>1, <1>6, <3>1 DEF Holds
  <2> QED BY <2>1, <2>2
<1>7. ASSUME NEW w \in Worker, StartCycle(w) \/ EndCycle(w) \/ Crash(w) PROVE Holds(v)'
  <2>1. NoWork.batch = {}
    BY DEF NoWork
  <2>2. [NoWork EXCEPT !.cycle = now, !.todo = Type].batch = {}
    BY <2>1 DEF NoWork
  <2>3. /\ work'[w].batch = {} /\ \A u \in Worker \ {w} : work'[u] = work[u]
        /\ UNCHANGED jobs
        /\ \E label \in {"asleep", "poll"} : pc' = [pc EXCEPT ![w] = label]
    BY <1>1, <1>7, <2>1, <2>2 DEF StartCycle, EndCycle, Crash, Goto, backfill
  <2> QED BY <1>6, <2>3
<1>8. ASSUME NEW w \in Worker, BeginPoll(w) \/ FetchPage(w) PROVE Holds(v)'
  <2>1. work'[w].batch \subseteq work[w].batch /\ \A u \in Worker \ {w} : work'[u] = work[u]
    BY <1>8, BeginsPoll, FetchesPage
  <2>2. /\ UNCHANGED jobs
        /\ \E label \in {"window", "fetched"} : pc' = [pc EXCEPT ![w] = label]
    BY <1>8 DEF BeginPoll, FetchPage, Goto, backfill
  <2> QED BY <1>6, <2>1, <2>2
<1>9. ASSUME NEW w \in Worker, FinishPoll(w) \/ PollFails(w) PROVE Holds(v)'
  BY <1>6, <1>9 DEF FinishPoll, PollFails, Goto, backfill
<1>10. CASE Tick \/ Register \/ ClientWindow
  BY <1>1, <1>10 DEF Tick, Register, ClientWindow, backfill, Holds
<1> QED BY <1>2, <1>3, <1>4, <1>5, <1>7, <1>8, <1>9, <1>10 DEF Next, WorkerStep

-----------------------------------------------------------------------------
(* The windows *)

\* What one worker knows of its window.
Knows(w) ==
    /\ work[w].cycle <= now
    /\ pc[w] \in {"window", "fetched"} =>
        /\ work[w].type \in Type
        /\ ~work[w].failed => work[w].seen \subseteq stored
        /\ work[w].joined => /\ checkpoint[work[w].type] # None
                             /\ work[w].from <= checkpoint[work[w].type] - Overlap

\* A step that advances checkpoints, if at all.
Advances ==
    /\ now <= now' /\ stored \subseteq stored'
    /\ \A b \in Type : checkpoint[b] # None =>
           checkpoint'[b] # None /\ checkpoint[b] <= checkpoint'[b]

\* A worker that such a step leaves alone knows what it knew.
LEMMA KnowsStill ==
    ASSUME IInv, TypeOK', Advances, NEW v \in Worker, work'[v] = work[v],
           pc'[v] = pc[v] \/ pc'[v] \notin {"window", "fetched"}
    PROVE  Knows(v)'
<1>1. Knows(v) /\ work[v].cycle \in Int /\ work[v].from \in Int /\ now \in Int /\ now' \in Int
      /\ work[v].joined \in BOOLEAN /\ work[v].failed \in BOOLEAN
  BY PollFacts DEF IInv, WindowsHeld, Knows, TypeOK, Time
<1>2. work'[v].cycle <= now'
  BY <1>1 DEF Knows, Advances
<1>3. ASSUME pc'[v] \in {"window", "fetched"}
      PROVE  /\ work'[v].type \in Type
             /\ ~work'[v].failed => work'[v].seen \subseteq stored'
             /\ work'[v].joined => /\ checkpoint'[work'[v].type] # None
                                   /\ work'[v].from <= checkpoint'[work'[v].type] - Overlap
  <2>1. pc[v] \in {"window", "fetched"} /\ work[v].type \in Type
    BY <1>1, <1>3 DEF Knows
  <2>2. ASSUME work[v].joined
        PROVE  /\ checkpoint'[work[v].type] # None
               /\ work[v].from <= checkpoint'[work[v].type] - Overlap
    <3>1. /\ checkpoint[work[v].type] # None
          /\ work[v].from <= checkpoint[work[v].type] - Overlap
      BY <1>1, <2>1, <2>2 DEF Knows
    <3>2. /\ checkpoint'[work[v].type] # None
          /\ checkpoint[work[v].type] <= checkpoint'[work[v].type]
      BY <2>1, <3>1 DEF Advances
    <3>3. checkpoint[work[v].type] \in Int /\ checkpoint'[work[v].type] \in Int
      BY <2>1, <3>1, <3>2 DEF IInv, TypeOK, Time
    <3> QED BY <1>1, <3>1, <3>2, <3>3, PollingAssumption
  <2> QED BY <1>1, <2>1, <2>2 DEF Knows, Advances
<1> QED BY <1>2, <1>3 DEF Knows

\* Nothing takes a checkpoint back.
LEMMA NextAdvances == ASSUME IInv, Next PROVE Advances
<1>1. now \in Int /\ checkpoint \in [Type -> Time \cup {None}] /\ \A t \in Time : t \in Int
  BY DEF IInv, TypeOK, Time
<1>2. CASE UNCHANGED checkpoint /\ stored \subseteq stored' /\ now' \in {now, now + 1}
  BY <1>1, <1>2 DEF Advances
<1>3. ASSUME NEW w \in Worker, FinishPoll(w) PROVE Advances
  <2>1. work[w].type \in Type /\ work[w].cycle \in Time
    BY <1>3, PollFacts DEF IInv, WindowsHeld, FinishPoll
  <2>2. \/ UNCHANGED checkpoint
        \/ checkpoint' = [checkpoint EXCEPT ![work[w].type] = Advanced(@, work[w].cycle)]
    BY <1>3 DEF FinishPoll
  <2>3. UNCHANGED <<now, stored>>
    BY <1>3 DEF FinishPoll
  <2> QED BY <1>1, <2>1, <2>2, <2>3, AdvancedType, PollingAssumption DEF Advances
<1>4. ASSUME ClientWindow PROVE Advances
  <2>1. PICK b \in Type, from \in Time, to \in Time, S \in SUBSET Change :
            ClientStores(b, from, to, S)
    BY <1>4, ClientStoresSome
  <2>2. UNCHANGED now
    BY <1>4 DEF ClientWindow
  <2> QED BY <1>1, <2>1, <2>2, AdvancedType, PollingAssumption DEF Advances, ClientStores
<1>5. ASSUME NEW w \in Worker, FetchPage(w) PROVE Advances
  BY <1>2, <1>5, FetchesPage DEF FetchPage
<1> QED BY <1>2, <1>3, <1>4, <1>5 DEF Next, WorkerStep, StartCycle, BeginPoll, PollFails,
     PickBatch, StartJob, EndJob, EndCycle, Crash, Enqueue, Tick, Register, polled, backfill

\* A step of one worker leaves the work of the others alone.
LEMMA OneWorker ==
    ASSUME IInv, NEW w \in Worker, StartCycle(w) \/ WorkerStep(w) \/ Crash(w),
           NEW v \in Worker \ {w}
    PROVE  work'[v] = work[v] /\ pc'[v] = pc[v]
<1>1. DOMAIN work = Worker /\ DOMAIN pc = Worker
  BY PollFacts DEF TypeOK
<1>2. CASE BeginPoll(w) \/ FetchPage(w)
  BY <1>1, <1>2, BeginsPoll, FetchesPage DEF BeginPoll, FetchPage, Goto
<1>3. CASE StartJob(w) \/ EndJob(w)
  <2>1. pc'[v] = pc[v]
    BY <1>1, <1>3 DEF StartJob, EndJob, Goto
  <2> QED BY <1>1, <1>3, <2>1, StartsJob, EndsJob
<1>4. CASE StartCycle(w) \/ EndCycle(w) \/ Crash(w) \/ FinishPoll(w) \/ PollFails(w) \/ PickBatch(w)
  BY <1>1, <1>4 DEF StartCycle, EndCycle, Crash, FinishPoll, PollFails, PickBatch, Goto
<1> QED BY <1>2, <1>3, <1>4 DEF WorkerStep

\* A step of a worker leaves it with a cycle that has begun.
LEMMA CycleBegun ==
    ASSUME IInv, NEW w \in Worker, StartCycle(w) \/ WorkerStep(w) \/ Crash(w)
    PROVE  work'[w].cycle <= now
<1>1. work[w].cycle <= now /\ now \in Nat /\ DOMAIN work = Worker
  BY PollFacts DEF IInv, WindowsHeld, TypeOK, Time
<1>2. CASE BeginPoll(w) \/ FetchPage(w)
  BY <1>1, <1>2, BeginsPoll, FetchesPage
<1>3. CASE StartJob(w)
  <2>1. PICK j : work' = [work EXCEPT ![w] = [work[w] EXCEPT !.batch = @ \ {j}, !.job = j]]
    BY <1>3, StartsJob
  <2>2. [work[w] EXCEPT !.batch = @ \ {j}, !.job = j].cycle = work[w].cycle
    BY PollFacts DEF Work
  <2> QED BY <1>1, <2>1, <2>2
<1>4. CASE EndJob(w)
  BY <1>1, <1>4, EndsJob, PollFacts DEF Work
<1>5. CASE StartCycle(w)
  <2>1. [NoWork EXCEPT !.cycle = now, !.todo = Type].cycle = now
    BY DEF NoWork
  <2> QED BY <1>1, <1>5, <2>1 DEF StartCycle
<1>6. CASE EndCycle(w) \/ Crash(w)
  <2>1. NoWork.cycle = 0
    BY DEF NoWork
  <2> QED BY <1>1, <1>6, <2>1 DEF EndCycle, Crash
<1>7. CASE PickBatch(w)
  <2>1. PICK S : work' = [work EXCEPT ![w].batch = S]
    BY <1>7 DEF PickBatch
  <2> QED BY <1>1, <2>1, PollFacts DEF Work
<1>8. CASE FinishPoll(w) \/ PollFails(w)
  BY <1>1, <1>8 DEF FinishPoll, PollFails
<1> QED BY <1>2, <1>3, <1>4, <1>5, <1>6, <1>7, <1>8 DEF WorkerStep

LEMMA WindowsHeldInv == ASSUME IInv, Next PROVE WindowsHeld'
<1> SUFFICES ASSUME NEW v \in Worker PROVE Knows(v)'
  BY DEF WindowsHeld, Knows
<1>1. TypeOK' /\ Advances
  BY TypeInv, NextAdvances
<1>2. CASE UNCHANGED <<work, pc>>
  BY <1>1, <1>2, KnowsStill
<1>3. ASSUME NEW w \in Worker, StartCycle(w) \/ WorkerStep(w) \/ Crash(w), v # w
      PROVE  Knows(v)'
  BY <1>1, <1>3, OneWorker, KnowsStill
<1>4. ASSUME StartCycle(v) \/ WorkerStep(v) \/ Crash(v) PROVE Knows(v)'
  <2>1. work'[v].cycle <= now'
    <3>1. work'[v].cycle \in Int /\ now \in Int /\ now' \in Int /\ now <= now'
      BY <1>1, Types DEF WorkersOK, Work, TypeOK, Time, Advances, IInv
    <3> QED BY <1>4, <3>1, CycleBegun
  <2>2. CASE BeginPoll(v)
    <3> DEFINE b == work'[v].type
               from == work'[v].from
    <3>1. /\ b \in Type /\ work'[v].seen = {}
          /\ from = WindowStart(work[v].cycle, checkpoint[b])
          /\ work'[v].joined = Joins(from, checkpoint[b])
      BY <2>2, BeginsPoll
    <3>2. UNCHANGED checkpoint
      BY <2>2 DEF BeginPoll, polled
    <3> QED BY <2>1, <3>1, <3>2 DEF Knows, Joins
  <2>3. CASE FetchPage(v)
    <3>1. Knows(v) /\ pc[v] = "window" /\ UNCHANGED checkpoint
      BY <2>3 DEF IInv, WindowsHeld, Knows, FetchPage
    <3> QED BY <2>1, <2>3, <3>1, FetchesPage DEF Knows
  <2>4. CASE ~BeginPoll(v) /\ ~FetchPage(v)
    <3>1. pc'[v] \notin {"window", "fetched"}
      BY <1>4, <2>4, PollFacts DEF WorkerStep, StartCycle, Crash, FinishPoll, PollFails, PickBatch,
         StartJob, EndJob, EndCycle, Goto
    <3> QED BY <2>1, <3>1 DEF Knows
  <2> QED BY <2>2, <2>3, <2>4
<1> QED BY <1>2, <1>3, <1>4 DEF Next, Enqueue, Tick, Register, ClientWindow

-----------------------------------------------------------------------------
(* The changes *)

\* A step that keeps checkpoints, registers nothing and forgets nothing.
LEMMA ReachedStill ==
    ASSUME IInv, TypeOK', UNCHANGED <<published, checkpoint>>, now <= now',
           stored \subseteq stored', givenUp \subseteq givenUp'
    PROVE  AllReached'
<1> SUFFICES ASSUME NEW c \in Change \ (stored' \cup givenUp') PROVE InReach(c)' \/ TooLate(c)'
  BY DEF AllReached
<1>1. InReach(c) \/ TooLate(c)
  BY DEF IInv, AllReached
<1>2. now \in Int /\ now' \in Int /\ c[2] \in Int
  BY DEF IInv, TypeOK, Time, Change
<1> QED BY <1>1, <1>2, PollingAssumption DEF InReach, TooLate

\* A COMPLETED window gives up what it leaves behind.
LEMMA FinishReaches ==
    ASSUME IInv, TypeOK', NEW w \in Worker, FinishPoll(w), Completes(w)
    PROVE  AllReached'
<1> DEFINE b == work[w].type
           last == checkpoint[b]
           to == work[w].cycle
<1>1. /\ b \in Type /\ work[w].seen \subseteq stored
      /\ work[w].joined => last # None /\ work[w].from <= last - Overlap
      /\ to <= now /\ to \in Time /\ work[w].from \in Int /\ last \in Time \cup {None}
  BY PollFacts DEF IInv, WindowsHeld, FinishPoll, Completes, TypeOK
<1>2. /\ checkpoint' = [checkpoint EXCEPT ![b] = Advanced(last, to)]
      /\ givenUp' = givenUp \cup LeftBehind(w)
      /\ UNCHANGED <<now, published, stored>>
  BY <1>1 DEF FinishPoll
<1> SUFFICES ASSUME NEW c \in Change \ (stored \cup givenUp')
             PROVE  InReach(c)' \/ TooLate(c)'
  BY <1>2 DEF AllReached
<1>3. InReach(c) \/ TooLate(c)
  BY <1>2 DEF IInv, AllReached
<1>4. now \in Int /\ c[2] \in Int /\ c[1] \in Type /\ DOMAIN checkpoint = Type
  BY DEF IInv, TypeOK, Time, Change
<1>5. TooLate(c) => TooLate(c)'
  BY <1>2 DEF TooLate
<1>6. CASE checkpoint'[c[1]] = checkpoint[c[1]]
  BY <1>3, <1>5, <1>6 DEF InReach
<1>7. CASE c[1] = b /\ Advanced(last, to) = to /\ c[2] < to - Overlap
  <2>1. c[2] < now - Delay
    BY <1>1, <1>4, <1>7, PollingAssumption DEF Time
  <2>2. ASSUME c \in published PROVE FALSE
    <3>1. CASE c[2] >= work[w].from
      <4>1. c \in InWindow(w)
        BY <1>1, <1>4, <1>7, <2>2, <3>1, PollingAssumption DEF InWindow, Shown, Time
      <4> QED BY <1>1, <1>2, <4>1 DEF LeftBehind
    <3>2. CASE c[2] < work[w].from /\ ~work[w].joined
      BY <1>2, <1>7, <3>2 DEF LeftBehind
    <3>3. CASE c[2] < work[w].from /\ work[w].joined
      <4>1. last \in Int /\ c[2] < last - Overlap
        BY <1>1, <1>4, <3>3, PollingAssumption DEF Time
      <4> QED BY <1>1, <1>3, <1>4, <1>7, <2>2, <3>3, <4>1, PollingAssumption DEF InReach, TooLate
    <3> QED BY <1>1, <1>4, <3>1, <3>2, <3>3
  <2> QED BY <1>2, <2>1, <2>2 DEF TooLate
<1>8. CASE c[1] = b /\ Advanced(last, to) = to /\ c[2] >= to - Overlap
  BY <1>1, <1>2, <1>4, <1>8 DEF InReach
<1>9. c[1] # b \/ Advanced(last, to) = last => checkpoint'[c[1]] = checkpoint[c[1]]
  BY <1>1, <1>2, <1>4
<1>10. Advanced(last, to) \in {last, to}
  BY <1>1, AdvancedType
<1>11. to - Overlap \in Int
  BY <1>1, PollingAssumption DEF Time
<1> HIDE DEF b, last, to
<1> QED BY <1>4, <1>6, <1>7, <1>8, <1>9, <1>10, <1>11

\* A client's window gives up what it leaves behind, if it moves the checkpoint.
LEMMA ClientReaches ==
    ASSUME IInv, TypeOK', ClientWindow PROVE AllReached'
<1>1. PICK b \in Type, from \in Time, to \in Time, S \in SUBSET Change :
          ClientStores(b, from, to, S)
  BY ClientStoresSome
<1> DEFINE last == checkpoint[b]
<1>2. last \in Time \cup {None} /\ Advanced(last, to) \in {last, to}
  BY AdvancedType DEF IInv, TypeOK
<1>3. UNCHANGED <<now, published>> /\ S \subseteq Shown(b, from, to)
  BY <1>1 DEF ClientWindow, ClientStores
<1> SUFFICES ASSUME NEW c \in Change \ (stored' \cup givenUp')
             PROVE  InReach(c)' \/ TooLate(c)'
  BY DEF AllReached
<1>4. c \notin stored /\ c \notin S /\ c \notin givenUp /\ c \notin LeftByClient(b, from, to, S)
  BY <1>1 DEF ClientStores
<1>5. InReach(c) \/ TooLate(c)
  BY <1>4 DEF IInv, AllReached
<1>6. now \in Int /\ c[2] \in Int /\ c[1] \in Type /\ from \in Int /\ to \in Int
      /\ DOMAIN checkpoint = Type
  BY DEF IInv, TypeOK, Time, Change
<1>7. TooLate(c) => TooLate(c)'
  BY <1>3 DEF TooLate
<1>8. checkpoint' = [checkpoint EXCEPT ![b] = Advanced(last, to)]
  BY <1>1 DEF ClientStores
<1>9. CASE checkpoint'[c[1]] = checkpoint[c[1]]
  BY <1>5, <1>7, <1>9 DEF InReach
<1>10. CASE c[1] = b /\ Advanced(last, to) # last /\ c[2] < to - Overlap
  <2>1. ~(last # None /\ to <= last)
    BY <1>2, <1>6, <1>10, PollingAssumption DEF Advanced, Larger, Time
  <2>2. /\ ~(c \in Shown(b, from, to) \ S)
        /\ ~(c[2] < from /\ ~Joins(from, last))
        /\ ~(now < to /\ now - Delay <= c[2] /\ c[2] <= to)
    BY <1>4, <1>10, <2>1 DEF LeftByClient
  <2>3. c[2] <= to
    BY <1>6, <1>10, PollingAssumption
  <2>4. c[2] < now - Delay
    BY <1>6, <1>10, <2>2, <2>3, PollingAssumption
  <2>5. ASSUME c \in published PROVE FALSE
    <3>1. CASE from <= c[2]
      BY <1>4, <1>10, <2>2, <2>3, <2>5, <3>1 DEF Shown
    <3>2. CASE c[2] < from
      <4>1. last # None /\ from <= last - Overlap
        BY <2>2, <3>2 DEF Joins
      <4>2. last \in Int
        BY <1>2, <4>1 DEF Time
      <4>3. c[2] < last - Overlap
        BY <1>6, <3>2, <4>1, <4>2, PollingAssumption
      <4> QED BY <1>5, <1>6, <1>10, <2>5, <4>1, <4>2, <4>3, PollingAssumption DEF InReach, TooLate
    <3> QED BY <1>6, <3>1, <3>2
  <2> QED BY <1>3, <2>4, <2>5 DEF TooLate
<1>11. CASE c[1] = b /\ Advanced(last, to) # last /\ c[2] >= to - Overlap
  BY <1>2, <1>6, <1>8, <1>11 DEF InReach
<1>12. c[1] # b \/ Advanced(last, to) = last => checkpoint'[c[1]] = checkpoint[c[1]]
  BY <1>6, <1>8
<1>13. to - Overlap \in Int
  BY <1>6, PollingAssumption
<1> HIDE DEF last
<1> QED BY <1>6, <1>9, <1>10, <1>11, <1>12, <1>13

\* What G2B registers is not too late, so some window will reach it or it is given up.
LEMMA RegisterReaches ==
    ASSUME IInv, TypeOK', Register PROVE AllReached'
<1>1. PICK b \in Type, s \in {t \in Time : now - Delay <= t /\ t <= now} :
          published' = published \cup {<<b, s>>}
  BY DEF Register
<1>2. UNCHANGED <<now, stored, checkpoint, givenUp>>
  BY DEF Register
<1> SUFFICES ASSUME NEW c \in Change \ (stored \cup givenUp)
             PROVE  InReach(c)' \/ TooLate(c)'
  BY <1>2 DEF AllReached
<1>3. InReach(c) \/ TooLate(c)
  BY DEF IInv, AllReached
<1>4. CASE c = <<b, s>>
  <2>1. ~TooLate(c)
    <3>1. c[2] = s /\ now - Delay <= s /\ s \in Int /\ now - Delay \in Int
      BY <1>4, PollingAssumption DEF IInv, TypeOK, Time
    <3> QED BY <3>1 DEF TooLate
  <2> QED BY <1>2, <1>3, <2>1 DEF InReach
<1>5. CASE c # <<b, s>>
  BY <1>1, <1>2, <1>3, <1>5 DEF InReach, TooLate
<1> QED BY <1>4, <1>5

LEMMA AllReachedInv == ASSUME IInv, Next PROVE AllReached'
<1>1. TypeOK' /\ now \in Int
  BY TypeInv DEF IInv, TypeOK, Time
<1>2. CASE /\ UNCHANGED <<published, checkpoint, givenUp>>
           /\ stored \subseteq stored' /\ now' \in {now, now + 1}
  BY <1>1, <1>2, ReachedStill
<1>3. ASSUME NEW w \in Worker, FinishPoll(w) PROVE AllReached'
  <2>1. CASE Completes(w)
    BY <1>1, <1>3, <2>1, FinishReaches
  <2>2. CASE ~Completes(w)
    BY <1>2, <1>3, <2>2 DEF FinishPoll
  <2> QED BY <2>1, <2>2
<1>4. ASSUME NEW w \in Worker, FetchPage(w) PROVE AllReached'
  BY <1>2, <1>4, FetchesPage DEF FetchPage
<1> QED BY <1>1, <1>2, <1>3, <1>4, ClientReaches, RegisterReaches DEF Next, WorkerStep, StartCycle,
     BeginPoll, PollFails, PickBatch, StartJob, EndJob, EndCycle, Crash, Enqueue, Tick,
     polled, backfill

-----------------------------------------------------------------------------
(* Theorems *)

LEMMA InitInv == Init => IInv
<1> SUFFICES ASSUME Init PROVE IInv
  OBVIOUS
<1>1. TypeOK
  <2>1. NoWork \in Work
    BY NoWorkType
  <2> QED BY <2>1, PollingAssumption DEF Init, TypeOK, Time
<1>2. OneAwake /\ AllReached
  BY DEF Init, OneAwake, AllReached, InReach, Change
<1>3. JobsHeld /\ WindowsHeld
  <2>1. NoWork.cycle = 0 /\ NoWork.batch = {}
    BY DEF NoWork
  <2> QED BY <2>1 DEF Init, JobsHeld, WindowsHeld
<1> QED BY <1>1, <1>2, <1>3 DEF IInv

LEMMA NextInv == IInv /\ [Next]_vars => IInv'
<1> SUFFICES ASSUME IInv, [Next]_vars PROVE IInv'
  OBVIOUS
<1>1. CASE Next
  BY <1>1, TypeInv, OneAwakeInv, JobsHeldInv, WindowsHeldInv, AllReachedInv DEF IInv
<1>2. CASE UNCHANGED vars
  <2>1. UNCHANGED <<now, published, stored, checkpoint, givenUp, jobs, passed, lock, pc, work,
                    api, crashes>>
    BY <1>2 DEF vars, polled, backfill
  <2>2. TypeOK' /\ OneAwake' /\ JobsHeld' /\ WindowsHeld'
    BY <2>1 DEF IInv, TypeOK, OneAwake, JobsHeld, WindowsHeld
  <2>3. AllReached'
    BY <2>1 DEF IInv, AllReached, InReach, TooLate
  <2> QED BY <2>2, <2>3 DEF IInv
<1> QED BY <1>1, <1>2

\* The inductive invariant holds in every reachable state.
THEOREM Invariance == Spec => []IInv
  BY InitInv, NextInv, PTL DEF Spec

\* Cycles, windows and jobs always have their types, and no window is longer than a request
\* for one may be.
THEOREM TypeCorrect == Spec => []TypeOK
<1>1. IInv => TypeOK
  BY DEF IInv
<1> QED BY <1>1, Invariance, PTL

\* No change of a notice is lost that G2B shows within the overlap, but to a page limit, to
\* a gap longer than the recovery window, or to a client's window, whatever fails.
THEOREM ChangesAreAccountedFor == Spec => []ChangesAccountedFor
<1>1. IInv => ChangesAccountedFor
  BY DEF IInv, TypeOK, AllReached, InReach, TooLate, ChangesAccountedFor
<1> QED BY <1>1, Invariance, PTL

\* No two workers run one job, and a job that is run is RUNNING.
THEOREM JobsRunOnce == Spec => []JobRunsOnce
<1>1. IInv => JobRunsOnce
  BY DEF IInv, OneAwake, JobsHeld, JobRunsOnce
<1> QED BY <1>1, Invariance, PTL

-----------------------------------------------------------------------------
(* The queue of jobs *)

\* The jobs that a worker has chosen and not finished.
InHand(w) == work[w].batch \cup (IF pc[w] = "job" THEN {work[w].job} ELSE {})

\* The jobs that no batch will prefer to a job any more, unless a worker dies.
Behind(j) ==
    {k \in Job \ {j} :
        \/ jobs[k] # None /\ (jobs[k].status = "COMPLETED" \/ jobs[k].next > jobs[j].next)
        \/ \E w \in Worker : k \in InHand(w)}

\* What a worker has chosen was due in its cycle, and is no more than a batch.
HandsHeld ==
    \A w \in Worker :
        /\ pc[w] \in {"asleep", "poll", "window", "fetched"} => work[w].batch = {}
        /\ InHand(w) \subseteq Job /\ IsFiniteSet(InHand(w))
        /\ Cardinality(InHand(w)) <= BatchSize
        /\ \A j \in InHand(w) : /\ jobs[j] # None
                                /\ jobs[j].next <= work[w].cycle
                                /\ passed[j] = 0

\* Jobs are put off by the longest backoff at most, and run after they were due.
JobsTimed ==
    \A j \in Job : jobs[j] # None =>
        /\ jobs[j].started <= now
        /\ jobs[j].status \in {"PENDING", "FAILED"} => jobs[j].next <= now + Retry * RetryCap
        /\ jobs[j].status = "RUNNING" => jobs[j].next <= jobs[j].started

\* A job that batches have passed over was due, and is due for a worker that is awake.
PassedDue ==
    \A j \in Job : passed[j] > 0 =>
        /\ jobs[j] # None /\ jobs[j].next <= now
        /\ \A w \in Worker : pc[w] # "asleep" => jobs[j].next <= work[w].cycle

\* Each batch that passes a job over puts as many jobs behind it as a batch has, and the
\* death of a worker takes no more than a batch from there.
PassedBehind ==
    \A j \in Job : passed[j] > 0 =>
        BatchSize * passed[j] <= Cardinality(Behind(j)) + BatchSize * crashes

\* The job that a worker runs is not in its batch any more.
NotTwice == \A w \in Worker : pc[w] = "job" => work[w].job \notin work[w].batch

\* What a step keeps of the queue, whatever the step.
Queued == HandsHeld /\ JobsTimed /\ PassedDue /\ PassedBehind

QueueInv == NotTwice /\ Queued

QInv == IInv /\ QueueInv

-----------------------------------------------------------------------------
\* A power of two counts the subsets of a set, of which there is one at least.
LEMMA PowerPositive == ASSUME NEW n \in Nat PROVE 2^n \in Nat /\ 2^n >= 1
<1>1. IsFiniteSet(1..n) /\ Cardinality(1..n) = n
  BY FS_Interval
<1>2. IsFiniteSet(SUBSET (1..n)) /\ Cardinality(SUBSET (1..n)) = 2^n
  BY <1>1, FS_SUBSET
<1>3. PICK S : S = SUBSET (1..n)
  OBVIOUS
<1>4. IsFiniteSet(S) /\ Cardinality(S) = 2^n /\ S # {}
  BY <1>2, <1>3
<1>5. Cardinality(S) \in Nat /\ Cardinality(S) # 0
  BY <1>4, FS_CardinalityType, FS_EmptySet
<1> QED BY <1>4, <1>5

\* A job is put off by a minute at least, and by the longest backoff at most.
LEMMA BackoffBounds ==
    ASSUME NEW a \in Nat
    PROVE  /\ Backoff(a) \in Nat /\ Backoff(a) >= 1 /\ Backoff(a) <= Retry * RetryCap
<1> DEFINE x == Smaller(2^Larger(a - 1, 0), RetryCap)
<1>1. Larger(a - 1, 0) \in Nat
  BY DEF Larger
<1>2. Retry \in Nat /\ Retry >= 1 /\ RetryCap \in Nat /\ RetryCap >= 1
  BY PollingAssumption
<1>3. x \in Nat /\ x >= 1 /\ x <= RetryCap
  BY <1>1, <1>2, PowerPositive DEF Smaller
<1>4. Backoff(a) = Retry * x
  BY DEF Backoff
<1> HIDE DEF x
<1>5. ASSUME NEW r \in Nat, r >= 1, NEW y \in Nat, y >= 1, NEW z \in Nat, y <= z
      PROVE  r * y \in Nat /\ r * y >= 1 /\ r * y <= r * z
  <2>1. r * y \in Nat /\ r * y >= 1
    BY <1>5
  <2>2. PICK e \in Nat : z = y + e
    <3>1. z - y \in Nat /\ z = y + (z - y)
      BY <1>5
    <3> QED BY <3>1
  <2>3. r * z = r * y + r * e /\ r * e \in Nat
    BY <2>2
  <2> QED BY <2>1, <2>3
<1> QED BY <1>2, <1>3, <1>4, <1>5

\* Batches of so many, counted by a set with so many members.
LEMMA Batched ==
    ASSUME NEW b \in Nat, b >= 1, NEW p \in Nat, NEW m \in Nat, NEW c \in Nat,
           b * p <= m + b * c
    PROVE  p <= (m + b - 1) \div b + c
<1>1. PICK d \in Nat : d = (m + b - 1) \div b
  OBVIOUS
<1>2. b * d <= m + b - 1 /\ m + b - 1 < b * (d + 1)
  BY <1>1
<1>3. ASSUME p > d + c PROVE FALSE
  <2>1. b * (d + c + 1) <= b * p
    BY <1>3
  <2>2. b * (d + c + 1) = b * (d + 1) + b * c
    OBVIOUS
  <2> QED BY <1>2, <2>1, <2>2
<1> QED BY <1>1, <1>3

\* Jobs behind a job are other jobs.
LEMMA BehindType ==
    ASSUME NEW j \in Job
    PROVE  /\ IsFiniteSet(Behind(j)) /\ Cardinality(Behind(j)) \in Nat
           /\ Cardinality(Behind(j)) <= Cardinality(Job) - 1
           /\ Cardinality(Job) \in Nat
<1>1. IsFiniteSet(Job \ {j}) /\ Cardinality(Job \ {j}) = Cardinality(Job) - 1
  BY FS_RemoveElement, PollingAssumption
<1>2. Behind(j) \in SUBSET (Job \ {j})
  BY DEF Behind
<1>3. PICK B : B = Behind(j)
  OBVIOUS
<1>4. IsFiniteSet(B) /\ Cardinality(B) <= Cardinality(Job \ {j})
  BY <1>1, <1>2, <1>3, FS_Subset
<1> QED BY <1>1, <1>3, <1>4, FS_CardinalityType, PollingAssumption

\* What was behind a job before and is not now is no more than B.
LEMMA BehindGrows ==
    ASSUME NEW A \in SUBSET Job, NEW B \in SUBSET Job, A \subseteq B
    PROVE  Cardinality(A) \in Nat /\ Cardinality(B) \in Nat /\ Cardinality(A) <= Cardinality(B)
  BY FS_Subset, FS_CardinalityType, PollingAssumption

-----------------------------------------------------------------------------
\* The facts about jobs and hands, with their types.
LEMMA QueueFacts ==
    ASSUME QInv
    PROVE  /\ IInv /\ HandsHeld /\ JobsTimed /\ PassedDue /\ PassedBehind
           /\ now \in Nat /\ crashes \in Nat
           /\ passed \in [Job -> Nat] /\ jobs \in [Job -> JobRow \cup {None}]
           /\ \A j \in Job : jobs[j] # None =>
                  /\ jobs[j] \in JobRow /\ jobs[j].next \in Int /\ jobs[j].started \in Int
                  /\ jobs[j].attempts \in Nat
           /\ \A w \in Worker : work[w].cycle \in Nat /\ work[w].cycle <= now
           /\ BatchSize \in Nat /\ BatchSize >= 1
<1>1. IInv /\ HandsHeld /\ JobsTimed /\ PassedDue /\ PassedBehind
  BY DEF QInv, QueueInv, Queued
<1>2. /\ now \in Nat /\ crashes \in Nat
      /\ passed \in [Job -> Nat] /\ jobs \in [Job -> JobRow \cup {None}]
  BY <1>1, PollingAssumption DEF IInv, TypeOK, Time
<1>3. \A w \in Worker : work[w].cycle \in Nat /\ work[w].cycle <= now
  BY <1>1, PollFacts DEF IInv, WindowsHeld, Time
<1>4. BatchSize \in Nat /\ BatchSize >= 1
  BY PollingAssumption
<1> QED BY <1>1, <1>2, <1>3, <1>4 DEF JobRow

\* Whatever leaves jobs and counts alone, and the hands of all workers: cycles stay or
\* start now.
LEMMA QuietSteps ==
    ASSUME QInv, IInv', UNCHANGED <<jobs, passed, crashes>>, now <= now',
           \A w \in Worker :
               /\ InHand(w)' = InHand(w)
               /\ pc'[w] \in {"asleep", "poll", "window", "fetched"} => work'[w].batch = {}
               /\ InHand(w) # {} => work'[w].cycle = work[w].cycle
               /\ pc'[w] # "asleep" => \/ pc[w] # "asleep" /\ work'[w].cycle = work[w].cycle
                                       \/ work'[w].cycle = now
    PROVE  Queued'
<1>1. now' \in Nat
  BY PollingAssumption DEF IInv, TypeOK, Time
<1>2. HandsHeld'
  <2> SUFFICES ASSUME NEW w \in Worker
               PROVE  /\ pc'[w] \in {"asleep", "poll", "window", "fetched"} => work'[w].batch = {}
                      /\ InHand(w)' \subseteq Job /\ IsFiniteSet(InHand(w)')
                      /\ Cardinality(InHand(w)') <= BatchSize
                      /\ \A j \in InHand(w)' : /\ jobs'[j] # None
                                               /\ jobs'[j].next <= work'[w].cycle
                                               /\ passed'[j] = 0
    BY DEF HandsHeld
  <2>1. InHand(w)' = InHand(w)
    OBVIOUS
  <2>2. /\ InHand(w) \subseteq Job /\ IsFiniteSet(InHand(w))
        /\ Cardinality(InHand(w)) <= BatchSize
        /\ \A j \in InHand(w) : jobs[j] # None /\ jobs[j].next <= work[w].cycle /\ passed[j] = 0
    BY QueueFacts DEF HandsHeld
  <2> QED BY <2>1, <2>2
<1>3. JobsTimed'
  <2>1. Retry * RetryCap \in Nat
    BY PollingAssumption
  <2> QED BY <1>1, <2>1, QueueFacts DEF JobsTimed
<1>4. PassedDue'
  BY <1>1, QueueFacts DEF PassedDue
<1>5. PassedBehind'
  <2>1. \A j \in Job : Behind(j)' = Behind(j)
    BY DEF Behind
  <2> QED BY <2>1, QueueFacts DEF PassedBehind
<1> QED BY <1>2, <1>3, <1>4, <1>5 DEF Queued

\* The steps of a cycle before its batch, and its end.
LEMMA CycleSteps ==
    ASSUME QInv, IInv', NEW w \in Worker,
           StartCycle(w) \/ BeginPoll(w) \/ FetchPage(w) \/ FinishPoll(w) \/ PollFails(w)
               \/ EndCycle(w)
    PROVE  Queued'
<1>1. DOMAIN work = Worker /\ DOMAIN pc = Worker /\ IInv
  BY PollFacts DEF TypeOK, QInv
<1>2. /\ UNCHANGED <<jobs, passed, crashes, now>>
      /\ pc[w] \in {"asleep", "poll", "window", "fetched", "batch"}
      /\ work[w].batch = {}
      /\ pc'[w] \in {"asleep", "poll", "window", "fetched"}
  BY <1>1, QueueFacts DEF StartCycle, BeginPoll, FetchPage, FinishPoll, PollFails, EndCycle,
     Goto, backfill, HandsHeld
<1>3. work'[w].batch = {}
  <2>1. CASE BeginPoll(w) \/ FetchPage(w)
    BY <1>1, <1>2, <2>1, BeginsPoll, FetchesPage
  <2>2. CASE FinishPoll(w) \/ PollFails(w)
    BY <1>2, <2>2 DEF FinishPoll, PollFails
  <2>3. CASE StartCycle(w)
    <3>1. [NoWork EXCEPT !.cycle = now, !.todo = Type].batch = {}
      BY DEF NoWork
    <3> QED BY <1>1, <2>3, <3>1 DEF StartCycle
  <2>4. CASE EndCycle(w)
    <3>1. NoWork.batch = {}
      BY DEF NoWork
    <3> QED BY <1>1, <2>4, <3>1 DEF EndCycle
  <2> QED BY <2>1, <2>2, <2>3, <2>4
<1>4. pc'[w] # "asleep" => \/ pc[w] # "asleep" /\ work'[w].cycle = work[w].cycle
                           \/ work'[w].cycle = now
  <2>1. CASE BeginPoll(w) \/ FetchPage(w)
    BY <1>1, <2>1, BeginsPoll, FetchesPage DEF BeginPoll, FetchPage
  <2>2. CASE FinishPoll(w) \/ PollFails(w)
    BY <2>2 DEF FinishPoll, PollFails
  <2>3. CASE StartCycle(w)
    <3>1. [NoWork EXCEPT !.cycle = now, !.todo = Type].cycle = now
      BY DEF NoWork
    <3> QED BY <1>1, <2>3, <3>1 DEF StartCycle
  <2>4. CASE EndCycle(w)
    BY <1>1, <2>4 DEF EndCycle, Goto
  <2> QED BY <2>1, <2>2, <2>3, <2>4
<1>5. InHand(w) = {} /\ InHand(w)' = {}
  BY <1>2, <1>3 DEF InHand
<1>6. \A v \in Worker \ {w} : work'[v] = work[v] /\ pc'[v] = pc[v]
  BY <1>1, OneWorker DEF WorkerStep
<1>7. \A v \in Worker \ {w} : InHand(v)' = InHand(v)
  BY <1>6 DEF InHand
<1>8. now \in Nat
  BY QueueFacts
<1>9. ASSUME NEW v \in Worker
      PROVE  /\ InHand(v)' = InHand(v)
             /\ pc'[v] \in {"asleep", "poll", "window", "fetched"} => work'[v].batch = {}
             /\ InHand(v) # {} => work'[v].cycle = work[v].cycle
             /\ pc'[v] # "asleep" => \/ pc[v] # "asleep" /\ work'[v].cycle = work[v].cycle
                                     \/ work'[v].cycle = now
  <2>1. CASE v = w
    BY <1>3, <1>4, <1>5, <2>1
  <2>2. CASE v # w
    BY <1>6, <1>7, <2>2, QueueFacts DEF HandsHeld
  <2> QED BY <2>1, <2>2
<1> QED BY <1>2, <1>8, <1>9, QuietSteps

LEMMA OutsideSteps ==
    ASSUME QInv, IInv', Tick \/ Register \/ ClientWindow
    PROVE  Queued'
<1>1. UNCHANGED <<jobs, passed, crashes, work, pc>> /\ now \in Nat /\ now' \in {now, now + 1}
  BY QueueFacts DEF Tick, Register, ClientWindow, backfill
<1>2. \A w \in Worker : InHand(w)' = InHand(w)
  BY <1>1 DEF InHand
<1> QED BY <1>1, <1>2, QuietSteps, QueueFacts DEF HandsHeld

-----------------------------------------------------------------------------
\* A batch is chosen: what is due and not chosen has a whole batch before it.
LEMMA ChosenFirst ==
    ASSUME QInv, NEW w \in Worker, NEW S \in Batches(DueJobs(work[w].cycle))
    PROVE  /\ S \subseteq Job /\ IsFiniteSet(S) /\ Cardinality(S) <= BatchSize
           /\ \A k \in S : /\ jobs[k] # None /\ jobs[k].next <= work[w].cycle
                           /\ jobs[k].status # "COMPLETED"
           /\ \A j \in DueJobs(work[w].cycle) \ S :
                  /\ j \in Job /\ jobs[j] # None /\ jobs[j].next <= work[w].cycle
                  /\ Cardinality(S) = BatchSize
                  /\ \A k \in S : jobs[k].next <= jobs[j].next
<1>1. PICK due : due = DueJobs(work[w].cycle)
  OBVIOUS
<1>2. due \subseteq Job /\ IsFiniteSet(due) /\ Cardinality(due) \in Nat
  <2>1. due \in SUBSET Job
    BY <1>1 DEF DueJobs
  <2> QED BY <2>1, FS_Subset, FS_CardinalityType, PollingAssumption
<1>3. /\ S \in SUBSET due /\ Cardinality(S) = Smaller(BatchSize, Cardinality(due))
      /\ \A j \in S, k \in due \ S : jobs[j].next <= jobs[k].next
  BY <1>1 DEF Batches, kSubset
<1>4. IsFiniteSet(S) /\ Cardinality(S) <= BatchSize
  BY <1>2, <1>3, FS_Subset, PollingAssumption DEF Smaller
<1>5. \A k \in due : /\ jobs[k] # None /\ jobs[k].next <= work[w].cycle
                     /\ jobs[k].status # "COMPLETED"
  <2> SUFFICES ASSUME NEW k \in due
               PROVE  /\ jobs[k] # None /\ jobs[k].next <= work[w].cycle
                      /\ jobs[k].status # "COMPLETED"
    OBVIOUS
  <2>1. k \in Job /\ jobs[k] # None
    BY <1>1 DEF DueJobs
  <2>2. \/ jobs[k].status \in {"PENDING", "FAILED"} /\ jobs[k].next <= work[w].cycle
        \/ jobs[k].status = "RUNNING" /\ jobs[k].started < work[w].cycle - Stale
    BY <1>1 DEF DueJobs
  <2>3. /\ jobs[k].next \in Int /\ jobs[k].started \in Int /\ work[w].cycle \in Int
        /\ Stale \in Nat /\ (jobs[k].status = "RUNNING" => jobs[k].next <= jobs[k].started)
    BY <2>1, QueueFacts, PollingAssumption DEF JobsTimed
  <2> QED BY <2>1, <2>2, <2>3
<1>6. ASSUME NEW j \in due \ S PROVE Cardinality(S) = BatchSize
  <2>1. S # due
    OBVIOUS
  <2>2. Cardinality(S) # Cardinality(due)
    BY <1>2, <1>3, <2>1, FS_Subset
  <2> QED BY <1>3, <2>2 DEF Smaller
<1> QED BY <1>1, <1>2, <1>3, <1>4, <1>5, <1>6

LEMMA PickBatchQueue ==
    ASSUME QInv, IInv', NEW w \in Worker, PickBatch(w)
    PROVE  Queued'
<1>1. PICK due : due = DueJobs(work[w].cycle)
  OBVIOUS
<1>2. PICK S \in Batches(due) :
          /\ work' = [work EXCEPT ![w].batch = S]
          /\ passed' = [j \in Job |-> IF j \in S THEN 0
                                      ELSE IF j \in due THEN passed[j] + 1 ELSE passed[j]]
  BY <1>1 DEF PickBatch
<1>3. /\ S \subseteq Job /\ IsFiniteSet(S) /\ Cardinality(S) <= BatchSize
      /\ \A k \in S : /\ jobs[k] # None /\ jobs[k].next <= work[w].cycle
                      /\ jobs[k].status # "COMPLETED"
      /\ \A j \in due \ S : /\ j \in Job /\ jobs[j] # None /\ jobs[j].next <= work[w].cycle
                            /\ Cardinality(S) = BatchSize
                            /\ \A k \in S : jobs[k].next <= jobs[j].next
  BY <1>1, <1>2, ChosenFirst
<1>4. /\ DOMAIN work = Worker /\ DOMAIN pc = Worker /\ work[w] \in Work /\ IInv
      /\ pc[w] = "poll" /\ pc' = [pc EXCEPT ![w] = "batch"]
      /\ UNCHANGED <<jobs, crashes, now>>
  BY PollFacts DEF TypeOK, QInv, PickBatch, Goto
<1>5. /\ work'[w].batch = S /\ work'[w].cycle = work[w].cycle /\ pc'[w] = "batch"
      /\ \A v \in Worker \ {w} : work'[v] = work[v] /\ pc'[v] = pc[v] /\ pc[v] = "asleep"
  BY <1>2, <1>4, OthersAsleep DEF Work
<1>6. /\ \A v \in Worker : InHand(v) = {}
      /\ InHand(w)' = S /\ \A v \in Worker \ {w} : InHand(v)' = {}
  BY <1>4, <1>5, QueueFacts DEF InHand, HandsHeld
<1>7. \A j \in S : passed'[j] = 0
  BY <1>2, <1>3
<1>8. HandsHeld'
  <2> SUFFICES ASSUME NEW v \in Worker
               PROVE  /\ pc'[v] \in {"asleep", "poll", "window", "fetched"} => work'[v].batch = {}
                      /\ InHand(v)' \subseteq Job /\ IsFiniteSet(InHand(v)')
                      /\ Cardinality(InHand(v)') <= BatchSize
                      /\ \A j \in InHand(v)' : /\ jobs'[j] # None
                                               /\ jobs'[j].next <= work'[v].cycle
                                               /\ passed'[j] = 0
    BY DEF HandsHeld
  <2>1. CASE v = w
    BY <1>3, <1>4, <1>5, <1>6, <1>7, <2>1
  <2>2. CASE v # w
    BY <1>5, <1>6, <2>2, QueueFacts, FS_EmptySet DEF HandsHeld
  <2> QED BY <2>1, <2>2
<1>9. JobsTimed'
  BY <1>4, QueueFacts DEF JobsTimed
<1>a. ASSUME NEW j \in Job, passed'[j] > 0
      PROVE  \/ j \in due \ S /\ passed'[j] = passed[j] + 1
             \/ j \notin due \cup S /\ passed'[j] = passed[j]
  BY <1>2, <1>a
<1>b. PassedDue'
  <2> SUFFICES ASSUME NEW j \in Job, passed'[j] > 0
               PROVE  /\ jobs'[j] # None /\ jobs'[j].next <= now'
                      /\ \A v \in Worker : pc'[v] # "asleep" => jobs'[j].next <= work'[v].cycle
    BY DEF PassedDue
  <2>1. jobs[j] # None /\ jobs[j].next <= work[w].cycle
    <3>1. CASE j \in due \ S
      BY <1>3, <3>1
    <3>2. CASE passed'[j] = passed[j]
      BY <1>4, <3>2, QueueFacts DEF PassedDue
    <3> QED BY <1>a, <3>1, <3>2
  <2>2. jobs[j].next \in Int /\ work[w].cycle \in Int /\ now \in Int /\ work[w].cycle <= now
    BY <2>1, QueueFacts
  <2> QED BY <1>4, <1>5, <2>1, <2>2
<1>c. PassedBehind'
  <2> SUFFICES ASSUME NEW j \in Job, passed'[j] > 0
               PROVE  BatchSize * passed'[j] <= Cardinality(Behind(j)') + BatchSize * crashes'
    BY DEF PassedBehind
  <2>1. PICK A, B : A = Behind(j) /\ B = Behind(j)'
    OBVIOUS
  <2>2. /\ A \in SUBSET Job /\ B \in SUBSET Job /\ IsFiniteSet(A) /\ Cardinality(A) \in Nat
    BY <2>1, BehindType DEF Behind
  <2>3. /\ passed[j] \in Nat /\ crashes \in Nat /\ BatchSize \in Nat /\ crashes' = crashes
        /\ passed[j] > 0 => BatchSize * passed[j] <= Cardinality(A) + BatchSize * crashes
    BY <1>4, <2>1, QueueFacts DEF PassedBehind
  <2>4. BatchSize * passed[j] <= Cardinality(A) + BatchSize * crashes
    <3>1. CASE passed[j] = 0
      BY <2>2, <2>3, <3>1
    <3>2. CASE passed[j] > 0
      BY <2>3, <3>2
    <3> QED BY <2>3, <3>1, <3>2
  <2>5. CASE j \in due \ S /\ passed'[j] = passed[j] + 1
    <3>1. A \cup S \subseteq B
      <4>1. j \notin S
        BY <2>5
      <4>2. A \subseteq B
        BY <1>4, <1>6, <2>1 DEF Behind
      <4>3. S \subseteq B
        BY <1>3, <1>6, <2>1, <4>1 DEF Behind
      <4> QED BY <4>2, <4>3
    <3>2. A \cap S = {}
      <4> SUFFICES ASSUME NEW k \in A, k \in S PROVE FALSE
        OBVIOUS
      <4>1. jobs[k].status = "COMPLETED" \/ jobs[k].next > jobs[j].next
        BY <1>6, <2>1 DEF Behind
      <4>2. jobs[k].status # "COMPLETED" /\ jobs[k].next <= jobs[j].next
        BY <1>3, <2>5
      <4>3. jobs[k].next \in Int /\ jobs[j].next \in Int
        BY <1>3, <2>5, QueueFacts
      <4> QED BY <4>1, <4>2, <4>3
    <3>3. Cardinality(A \cup S) = Cardinality(A) + BatchSize
      <4>1. Cardinality(A \cup S) = Cardinality(A) + Cardinality(S) - Cardinality(A \cap S)
        BY <1>3, <2>2, FS_Union
      <4>2. Cardinality(A \cap S) = 0
        BY <3>2, FS_EmptySet
      <4>3. Cardinality(S) = BatchSize
        BY <1>3, <2>5
      <4> QED BY <2>2, <2>3, <4>1, <4>2, <4>3
    <3>4. Cardinality(A \cup S) <= Cardinality(B) /\ Cardinality(B) \in Nat
      <4>1. PICK C : C = A \cup S
        OBVIOUS
      <4>2. C \in SUBSET Job /\ C \subseteq B
        BY <1>3, <2>2, <3>1, <4>1
      <4> QED BY <2>2, <4>1, <4>2, BehindGrows
    <3>5. BatchSize * (passed[j] + 1) = BatchSize * passed[j] + BatchSize
      BY <2>3
    <3>6. BatchSize * passed[j] \in Nat /\ BatchSize * crashes \in Nat
      BY <2>3
    <3> QED BY <2>1, <2>2, <2>3, <2>4, <2>5, <3>3, <3>4, <3>5, <3>6
  <2>6. CASE passed'[j] = passed[j]
    <3>1. A \subseteq B
      BY <1>4, <1>6, <2>1 DEF Behind
    <3>2. Cardinality(A) <= Cardinality(B) /\ Cardinality(B) \in Nat
      BY <2>2, <3>1, BehindGrows
    <3>3. BatchSize * passed[j] \in Nat /\ BatchSize * crashes \in Nat
      BY <2>3
    <3> QED BY <2>1, <2>2, <2>3, <2>4, <2>6, <3>2, <3>3
  <2> QED BY <1>a, <2>5, <2>6
<1> QED BY <1>8, <1>9, <1>b, <1>c DEF Queued

\* Where nothing comes back from behind a job.
LEMMA BehindStays ==
    ASSUME QInv, UNCHANGED <<passed, crashes>>,
           \A j \in Job : passed[j] > 0 => Behind(j) \subseteq Behind(j)'
    PROVE  PassedBehind'
<1> SUFFICES ASSUME NEW j \in Job, passed'[j] > 0
             PROVE  BatchSize * passed'[j] <= Cardinality(Behind(j)') + BatchSize * crashes'
  BY DEF PassedBehind
<1>1. PICK A, B : A = Behind(j) /\ B = Behind(j)'
  OBVIOUS
<1>2. A \in SUBSET Job /\ B \in SUBSET Job /\ A \subseteq B
  BY <1>1 DEF Behind
<1>3. Cardinality(A) \in Nat /\ Cardinality(B) \in Nat /\ Cardinality(A) <= Cardinality(B)
  BY <1>2, BehindGrows
<1>4. BatchSize * passed[j] <= Cardinality(A) + BatchSize * crashes
  BY <1>1, QueueFacts DEF PassedBehind
<1>5. BatchSize * passed[j] \in Nat /\ BatchSize * crashes \in Nat
  BY QueueFacts
<1> QED BY <1>1, <1>3, <1>4, <1>5

\* A job that is started stays in hand.
LEMMA StartJobQueue ==
    ASSUME QInv, IInv', NEW w \in Worker, StartJob(w)
    PROVE  Queued'
<1>1. PICK i \in work[w].batch :
          /\ i \in Job /\ jobs[i] \in JobRow
          /\ jobs' = [jobs EXCEPT ![i] = Taken(jobs[i], work[w].cycle)]
          /\ work' = [work EXCEPT ![w] = [work[w] EXCEPT !.batch = @ \ {i}, !.job = i]]
  BY StartsJob DEF QInv
<1>2. /\ DOMAIN work = Worker /\ DOMAIN pc = Worker /\ work[w] \in Work /\ IInv
      /\ pc[w] = "batch" /\ pc' = [pc EXCEPT ![w] = "job"]
      /\ UNCHANGED <<passed, crashes, now>>
  BY PollFacts DEF TypeOK, QInv, StartJob, Goto
<1>3. /\ work'[w].batch = work[w].batch \ {i} /\ work'[w].job = i
      /\ work'[w].cycle = work[w].cycle /\ pc'[w] = "job"
      /\ \A v \in Worker \ {w} : work'[v] = work[v] /\ pc'[v] = pc[v]
  BY <1>1, <1>2 DEF Work
<1>4. \A v \in Worker : InHand(v)' = InHand(v)
  BY <1>2, <1>3 DEF InHand
<1>5. PICK row : row = Taken(jobs[i], work[w].cycle)
  OBVIOUS
<1>6. /\ row \in JobRow /\ row.status = "RUNNING" /\ row.next = jobs[i].next
      /\ row.started = work[w].cycle
  <2>1. work[w].cycle \in Int
    BY QueueFacts
  <2> QED BY <1>1, <1>5, <2>1, TakenType DEF Taken, JobRow
<1>7. jobs'[i] = row /\ \A k \in Job \ {i} : jobs'[k] = jobs[k]
  BY <1>1, <1>2, <1>5, <1>6, JobsStay
<1>8. i \in InHand(w) /\ jobs[i] # None /\ row # None
  BY <1>1, <1>6, RowsAssumption DEF InHand
<1>9. \A k \in Job : /\ (jobs'[k] # None) = (jobs[k] # None)
                     /\ jobs[k] # None => jobs'[k].next = jobs[k].next
  BY <1>6, <1>7, <1>8
<1>a. HandsHeld'
  <2> SUFFICES ASSUME NEW v \in Worker
               PROVE  /\ pc'[v] \in {"asleep", "poll", "window", "fetched"} => work'[v].batch = {}
                      /\ InHand(v)' \subseteq Job /\ IsFiniteSet(InHand(v)')
                      /\ Cardinality(InHand(v)') <= BatchSize
                      /\ \A j \in InHand(v)' : /\ jobs'[j] # None
                                               /\ jobs'[j].next <= work'[v].cycle
                                               /\ passed'[j] = 0
    BY DEF HandsHeld
  <2>1. /\ InHand(v) \subseteq Job /\ IsFiniteSet(InHand(v))
        /\ Cardinality(InHand(v)) <= BatchSize
        /\ \A j \in InHand(v) : jobs[j] # None /\ jobs[j].next <= work[v].cycle /\ passed[j] = 0
        /\ pc[v] \in {"asleep", "poll", "window", "fetched"} => work[v].batch = {}
    BY QueueFacts DEF HandsHeld
  <2>2. work'[v].cycle = work[v].cycle
        /\ (pc'[v] \in {"asleep", "poll", "window", "fetched"} => work'[v].batch = {})
    BY <1>3, <2>1
  <2>3. InHand(v)' = InHand(v)
    BY <1>4
  <2> QED BY <1>2, <1>9, <2>1, <2>2, <2>3
<1>b. JobsTimed'
  <2> SUFFICES ASSUME NEW j \in Job, jobs'[j] # None
               PROVE  /\ jobs'[j].started <= now
                      /\ jobs'[j].status \in {"PENDING", "FAILED"} =>
                             jobs'[j].next <= now + Retry * RetryCap
                      /\ jobs'[j].status = "RUNNING" => jobs'[j].next <= jobs'[j].started
    BY <1>2 DEF JobsTimed
  <2>1. CASE j = i
    BY <1>6, <1>7, <1>8, <2>1, QueueFacts DEF HandsHeld
  <2>2. CASE j # i
    BY <1>7, <2>2, QueueFacts DEF JobsTimed
  <2> QED BY <2>1, <2>2
<1>c. PassedDue'
  <2> SUFFICES ASSUME NEW j \in Job, passed[j] > 0
               PROVE  /\ jobs'[j] # None /\ jobs'[j].next <= now
                      /\ \A v \in Worker : pc'[v] # "asleep" => jobs'[j].next <= work'[v].cycle
    BY <1>2 DEF PassedDue
  <2>1. /\ jobs[j] # None /\ jobs[j].next <= now
        /\ \A v \in Worker : pc[v] # "asleep" => jobs[j].next <= work[v].cycle
    BY QueueFacts DEF PassedDue
  <2> QED BY <1>2, <1>3, <1>9, <2>1
<1>d. PassedBehind'
  <2>1. ASSUME NEW j \in Job, passed[j] > 0, NEW k \in Behind(j) PROVE k \in Behind(j)'
    <3>1. jobs[j] # None
      BY <2>1, QueueFacts DEF PassedDue
    <3>2. k \in Job \ {j}
      BY DEF Behind
    <3>3. CASE \E v \in Worker : k \in InHand(v)
      BY <1>4, <3>2, <3>3 DEF Behind
    <3>4. CASE jobs[k] # None /\ jobs[k].next > jobs[j].next
      BY <1>9, <3>1, <3>2, <3>4 DEF Behind
    <3>5. CASE jobs[k] # None /\ jobs[k].status = "COMPLETED"
      <4>1. CASE k = i
        BY <1>4, <1>8, <3>2, <4>1 DEF Behind
      <4>2. CASE k # i
        BY <1>7, <3>2, <3>5, <4>2 DEF Behind
      <4> QED BY <4>1, <4>2
    <3> QED BY <3>3, <3>4, <3>5 DEF Behind
  <2> QED BY <1>2, <2>1, BehindStays
<1> QED BY <1>a, <1>b, <1>c, <1>d DEF Queued

\* A job that has run is over, or comes after all that were due.
LEMMA EndJobQueue ==
    ASSUME QInv, IInv', NEW w \in Worker, EndJob(w)
    PROVE  Queued'
<1>1. PICK i : i = work[w].job
  OBVIOUS
<1>2. /\ DOMAIN work = Worker /\ DOMAIN pc = Worker /\ work[w] \in Work /\ IInv
      /\ pc[w] = "job" /\ pc' = [pc EXCEPT ![w] = "batch"]
      /\ UNCHANGED <<passed, crashes, now>>
  BY PollFacts DEF TypeOK, QInv, EndJob, Goto
<1>3. i \in InHand(w) /\ i \in Job /\ jobs[i] # None /\ passed[i] = 0
  BY <1>1, <1>2, QueueFacts DEF InHand, HandsHeld
<1>4. PICK later : later = work[w].cycle + Backoff(jobs[i].attempts)
  OBVIOUS
<1>5. later \in Int /\ later > work[w].cycle /\ later <= now + Retry * RetryCap
  <2>1. jobs[i].attempts \in Nat /\ work[w].cycle \in Nat /\ work[w].cycle <= now /\ now \in Nat
    BY <1>3, QueueFacts
  <2>2. /\ Backoff(jobs[i].attempts) \in Nat /\ Backoff(jobs[i].attempts) >= 1
        /\ Backoff(jobs[i].attempts) <= Retry * RetryCap
    BY <2>1, BackoffBounds
  <2>3. Retry * RetryCap \in Nat
    BY PollingAssumption
  <2> QED BY <1>4, <2>1, <2>2, <2>3
<1>6. PICK row : /\ jobs' = [jobs EXCEPT ![i] = row]
                 /\ \/ row = [jobs[i] EXCEPT !.status = "COMPLETED"]
                    \/ row = [jobs[i] EXCEPT !.status = "FAILED", !.next = later]
  <2>1. \/ jobs' = [jobs EXCEPT ![i].status = "COMPLETED"]
        \/ jobs' = [jobs EXCEPT ![i].status = "FAILED", ![i].next = later]
    BY <1>1, <1>4 DEF EndJob
  <2>2. DOMAIN jobs = Job
    BY QueueFacts
  <2>3. \/ jobs' = [jobs EXCEPT ![i] = [jobs[i] EXCEPT !.status = "COMPLETED"]]
        \/ jobs' = [jobs EXCEPT ![i] = [jobs[i] EXCEPT !.status = "FAILED", !.next = later]]
    BY <1>3, <2>1, <2>2
  <2> QED BY <2>3
<1>7. /\ row \in JobRow /\ row.started = jobs[i].started
      /\ \/ row.status = "COMPLETED"
         \/ row.status = "FAILED" /\ row.next = later
  <2>1. jobs[i] \in JobRow
    BY <1>3, QueueFacts
  <2> QED BY <1>5, <1>6, <2>1 DEF JobRow
<1>8. jobs'[i] = row /\ row # None /\ \A k \in Job \ {i} : jobs'[k] = jobs[k]
  BY <1>2, <1>3, <1>6, <1>7, JobsStay, RowsAssumption
<1>9. /\ work'[w].batch = work[w].batch /\ work'[w].cycle = work[w].cycle /\ pc'[w] = "batch"
      /\ \A v \in Worker \ {w} : work'[v] = work[v] /\ pc'[v] = pc[v] /\ pc[v] = "asleep"
  BY <1>2, EndsJob, OthersAsleep DEF Work
<1>a. /\ InHand(w)' = work[w].batch /\ InHand(w) = work[w].batch \cup {i}
      /\ \A v \in Worker \ {w} : InHand(v) = {} /\ InHand(v)' = {}
  BY <1>1, <1>2, <1>9, QueueFacts DEF InHand, HandsHeld
<1>b. i \notin work[w].batch
  BY <1>1, <1>2 DEF QInv, QueueInv, NotTwice
<1>c. HandsHeld'
  <2> SUFFICES ASSUME NEW v \in Worker
               PROVE  /\ pc'[v] \in {"asleep", "poll", "window", "fetched"} => work'[v].batch = {}
                      /\ InHand(v)' \subseteq Job /\ IsFiniteSet(InHand(v)')
                      /\ Cardinality(InHand(v)') <= BatchSize
                      /\ \A j \in InHand(v)' : /\ jobs'[j] # None
                                               /\ jobs'[j].next <= work'[v].cycle
                                               /\ passed'[j] = 0
    BY DEF HandsHeld
  <2>1. CASE v = w
    <3>1. PICK A, B : A = InHand(w) /\ B = work[w].batch
      OBVIOUS
    <3>2. /\ A \subseteq Job /\ IsFiniteSet(A) /\ Cardinality(A) <= BatchSize
          /\ \A j \in A : jobs[j] # None /\ jobs[j].next <= work[w].cycle /\ passed[j] = 0
      BY <3>1, QueueFacts DEF HandsHeld
    <3>3. B \in SUBSET A /\ i \notin B
      BY <1>a, <1>b, <3>1
    <3>4. IsFiniteSet(B) /\ Cardinality(B) <= Cardinality(A)
          /\ Cardinality(B) \in Nat /\ Cardinality(A) \in Nat
      BY <3>2, <3>3, FS_Subset, FS_CardinalityType
    <3>5. Cardinality(B) <= BatchSize
      BY <3>2, <3>4, PollingAssumption
    <3>6. \A j \in B : jobs'[j] # None /\ jobs'[j].next <= work'[w].cycle /\ passed'[j] = 0
      BY <1>2, <1>8, <1>9, <3>2, <3>3
    <3> QED BY <1>9, <1>a, <2>1, <3>1, <3>2, <3>3, <3>4, <3>5, <3>6
  <2>2. CASE v # w
    BY <1>9, <1>a, <2>2, QueueFacts, FS_EmptySet DEF HandsHeld
  <2> QED BY <2>1, <2>2
<1>d. JobsTimed'
  <2> SUFFICES ASSUME NEW j \in Job, jobs'[j] # None
               PROVE  /\ jobs'[j].started <= now
                      /\ jobs'[j].status \in {"PENDING", "FAILED"} =>
                             jobs'[j].next <= now + Retry * RetryCap
                      /\ jobs'[j].status = "RUNNING" => jobs'[j].next <= jobs'[j].started
    BY <1>2 DEF JobsTimed
  <2>1. CASE j = i
    BY <1>3, <1>5, <1>7, <1>8, <2>1, QueueFacts DEF JobsTimed
  <2>2. CASE j # i
    BY <1>8, <2>2, QueueFacts DEF JobsTimed
  <2> QED BY <2>1, <2>2
<1>e. ASSUME NEW j \in Job, passed[j] > 0
      PROVE  /\ j # i /\ jobs'[j] = jobs[j] /\ jobs[j] # None /\ jobs[j].next <= now
             /\ \A v \in Worker : pc[v] # "asleep" => jobs[j].next <= work[v].cycle
  <2>1. j # i
    BY <1>3, <1>e
  <2> QED BY <1>8, <1>e, <2>1, QueueFacts DEF PassedDue
<1>f. PassedDue'
  <2> SUFFICES ASSUME NEW j \in Job, passed[j] > 0
               PROVE  /\ jobs'[j] # None /\ jobs'[j].next <= now
                      /\ \A v \in Worker : pc'[v] # "asleep" => jobs'[j].next <= work'[v].cycle
    BY <1>2 DEF PassedDue
  <2>1. \A v \in Worker : pc'[v] # "asleep" => v = w /\ work'[v].cycle = work[v].cycle
    BY <1>9
  <2> QED BY <1>2, <1>e, <2>1
<1>g. PassedBehind'
  <2>1. ASSUME NEW j \in Job, passed[j] > 0, NEW k \in Behind(j) PROVE k \in Behind(j)'
    <3>1. k \in Job \ {j} /\ jobs'[j] = jobs[j] /\ jobs[j] # None
          /\ jobs[j].next <= work[w].cycle
      BY <1>2, <1>e, <2>1 DEF Behind
    <3>2. CASE k = i
      <4>1. jobs[j].next \in Int /\ work[w].cycle \in Int
        BY <3>1, QueueFacts
      <4>2. row.status = "COMPLETED" \/ row.next > jobs[j].next
        BY <1>5, <1>7, <3>1, <4>1
      <4>3. jobs'[k] # None /\ (jobs'[k].status = "COMPLETED" \/ jobs'[k].next > jobs'[j].next)
        BY <1>8, <3>1, <3>2, <4>2
      <4> QED BY <3>1, <4>3 DEF Behind
    <3>3. CASE k # i
      <4>1. jobs'[k] = jobs[k]
        BY <1>8, <3>1, <3>3
      <4>2. \A v \in Worker : k \in InHand(v) => k \in InHand(v)'
        BY <1>a, <3>3
      <4> QED BY <3>1, <4>1, <4>2 DEF Behind
    <3> QED BY <3>2, <3>3
  <2> QED BY <1>2, <2>1, BehindStays
<1> QED BY <1>c, <1>d, <1>f, <1>g DEF Queued

\* A new job is due now.
LEMMA EnqueueQueue ==
    ASSUME QInv, IInv', NEW i \in Job, Enqueue(i)
    PROVE  Queued'
<1>1. PICK row : row = [status |-> "PENDING", attempts |-> 0, next |-> now, started |-> now]
  OBVIOUS
<1>2. /\ jobs[i] = None /\ jobs' = [jobs EXCEPT ![i] = row]
      /\ UNCHANGED <<now, passed, pc, work, crashes>>
  BY <1>1 DEF Enqueue
<1>3. /\ row \in JobRow /\ row.status = "PENDING" /\ row.next = now /\ row.started = now
      /\ now \in Nat
  BY <1>1, QueueFacts DEF JobRow
<1>4. jobs'[i] = row /\ row # None /\ \A k \in Job \ {i} : jobs'[k] = jobs[k]
  BY <1>2, <1>3, JobsStay, RowsAssumption DEF QInv
<1>5. \A v \in Worker : InHand(v)' = InHand(v) /\ i \notin InHand(v)
  BY <1>2, QueueFacts DEF InHand, HandsHeld
<1>6. HandsHeld'
  <2> SUFFICES ASSUME NEW v \in Worker
               PROVE  /\ pc'[v] \in {"asleep", "poll", "window", "fetched"} => work'[v].batch = {}
                      /\ InHand(v)' \subseteq Job /\ IsFiniteSet(InHand(v)')
                      /\ Cardinality(InHand(v)') <= BatchSize
                      /\ \A j \in InHand(v)' : /\ jobs'[j] # None
                                               /\ jobs'[j].next <= work'[v].cycle
                                               /\ passed'[j] = 0
    BY DEF HandsHeld
  <2>1. /\ InHand(v) \subseteq Job /\ IsFiniteSet(InHand(v))
        /\ Cardinality(InHand(v)) <= BatchSize
        /\ \A j \in InHand(v) : jobs[j] # None /\ jobs[j].next <= work[v].cycle /\ passed[j] = 0
        /\ pc[v] \in {"asleep", "poll", "window", "fetched"} => work[v].batch = {}
    BY QueueFacts DEF HandsHeld
  <2>2. InHand(v)' = InHand(v) /\ \A j \in InHand(v) : jobs'[j] = jobs[j]
    BY <1>4, <1>5, <2>1
  <2> QED BY <1>2, <2>1, <2>2
<1>7. JobsTimed'
  <2> SUFFICES ASSUME NEW j \in Job, jobs'[j] # None
               PROVE  /\ jobs'[j].started <= now
                      /\ jobs'[j].status \in {"PENDING", "FAILED"} =>
                             jobs'[j].next <= now + Retry * RetryCap
                      /\ jobs'[j].status = "RUNNING" => jobs'[j].next <= jobs'[j].started
    BY <1>2 DEF JobsTimed
  <2>1. Retry * RetryCap \in Nat
    BY PollingAssumption
  <2>2. CASE j = i
    BY <1>3, <1>4, <2>1, <2>2
  <2>3. CASE j # i
    BY <1>4, <2>3, QueueFacts DEF JobsTimed
  <2> QED BY <2>2, <2>3
<1>8. \A j \in Job : passed[j] > 0 => j # i /\ jobs'[j] = jobs[j] /\ jobs[j] # None
  BY <1>2, <1>4, QueueFacts DEF PassedDue
<1>9. PassedDue'
  BY <1>2, <1>8, QueueFacts DEF PassedDue
<1>a. PassedBehind'
  <2>1. ASSUME NEW j \in Job, passed[j] > 0, NEW k \in Behind(j) PROVE k \in Behind(j)'
    <3>1. k \in Job \ {j} /\ jobs'[j] = jobs[j] /\ (k # i => jobs'[k] = jobs[k])
      BY <1>4, <1>8, <2>1 DEF Behind
    <3>2. k # i
      BY <1>2, <1>5 DEF Behind
    <3> QED BY <1>5, <3>1, <3>2 DEF Behind
  <2> QED BY <1>2, <2>1, BehindStays
<1> QED BY <1>6, <1>7, <1>9, <1>a DEF Queued

\* The death of a worker takes from behind a job no more than a batch.
LEMMA CrashQueue ==
    ASSUME QInv, IInv', NEW w \in Worker, Crash(w)
    PROVE  Queued'
<1>1. /\ DOMAIN work = Worker /\ DOMAIN pc = Worker /\ IInv
      /\ pc[w] # "asleep" /\ pc' = [pc EXCEPT ![w] = "asleep"]
      /\ work' = [work EXCEPT ![w] = NoWork]
      /\ UNCHANGED <<jobs, passed, now>> /\ crashes' = crashes + 1
  BY PollFacts DEF TypeOK, QInv, Crash, Goto, backfill
<1>2. NoWork.batch = {}
  BY DEF NoWork
<1>3. /\ work'[w].batch = {} /\ pc'[w] = "asleep"
      /\ \A v \in Worker \ {w} : work'[v] = work[v] /\ pc'[v] = pc[v] /\ pc[v] = "asleep"
  BY <1>1, <1>2, OthersAsleep
<1>4. \A v \in Worker : InHand(v)' = {} /\ work'[v].batch = {} /\ pc'[v] = "asleep"
  BY <1>3, QueueFacts DEF InHand, HandsHeld
<1>5. HandsHeld'
  <2> SUFFICES ASSUME NEW v \in Worker
               PROVE  /\ pc'[v] \in {"asleep", "poll", "window", "fetched"} => work'[v].batch = {}
                      /\ InHand(v)' \subseteq Job /\ IsFiniteSet(InHand(v)')
                      /\ Cardinality(InHand(v)') <= BatchSize
                      /\ \A j \in InHand(v)' : /\ jobs'[j] # None
                                               /\ jobs'[j].next <= work'[v].cycle
                                               /\ passed'[j] = 0
    BY DEF HandsHeld
  <2> QED BY <1>4, FS_EmptySet, PollingAssumption
<1>6. JobsTimed' /\ PassedDue'
  BY <1>1, <1>4, QueueFacts DEF JobsTimed, PassedDue
<1>7. PassedBehind'
  <2> SUFFICES ASSUME NEW j \in Job, passed[j] > 0
               PROVE  BatchSize * passed[j] <= Cardinality(Behind(j)') + BatchSize * (crashes + 1)
    BY <1>1 DEF PassedBehind
  <2>1. PICK A, B, H : A = Behind(j) /\ B = Behind(j)' /\ H = InHand(w)
    OBVIOUS
  <2>2. /\ A \in SUBSET Job /\ B \in SUBSET Job /\ H \in SUBSET Job /\ IsFiniteSet(H)
        /\ Cardinality(H) <= BatchSize
    BY <2>1, QueueFacts DEF Behind, HandsHeld
  <2>3. A \subseteq B \cup H
    <3>1. \A v \in Worker \ {w} : InHand(v) = {}
      BY <1>3, QueueFacts DEF InHand, HandsHeld
    <3> QED BY <1>1, <2>1, <3>1 DEF Behind
  <2>4. Cardinality(A) <= Cardinality(B) + Cardinality(H)
    <3>1. PICK C : C = B \cup H
      OBVIOUS
    <3>2. C \in SUBSET Job /\ A \subseteq C
      BY <2>2, <2>3, <3>1
    <3>3. Cardinality(A) <= Cardinality(C) /\ Cardinality(C) \in Nat /\ Cardinality(A) \in Nat
      BY <2>2, <3>2, BehindGrows
    <3>4. IsFiniteSet(B)
      BY <2>1, BehindType, <2>2, FS_Subset, PollingAssumption
    <3>5. IsFiniteSet(B \cap H)
      BY <3>4, FS_Intersection
    <3>6. Cardinality(C) = Cardinality(B) + Cardinality(H) - Cardinality(B \cap H)
      BY <2>2, <3>1, <3>4, FS_Union
    <3>7. Cardinality(B) \in Nat /\ Cardinality(H) \in Nat /\ Cardinality(B \cap H) \in Nat
      BY <2>2, <3>4, <3>5, FS_CardinalityType
    <3> QED BY <3>3, <3>6, <3>7
  <2>5. /\ BatchSize * passed[j] <= Cardinality(A) + BatchSize * crashes
        /\ BatchSize * passed[j] \in Nat /\ BatchSize * crashes \in Nat
    BY <2>1, QueueFacts DEF PassedBehind
  <2>6. BatchSize * (crashes + 1) = BatchSize * crashes + BatchSize
    BY QueueFacts
  <2>7. Cardinality(A) \in Nat /\ Cardinality(B) \in Nat /\ Cardinality(H) \in Nat
    BY <2>2, FS_CardinalityType, FS_Subset, PollingAssumption
  <2> QED BY <2>1, <2>2, <2>4, <2>5, <2>6, <2>7, QueueFacts
<1> QED BY <1>5, <1>6, <1>7 DEF Queued

\* A worker runs what it has taken out of its batch.
LEMMA NotTwiceInv == ASSUME QInv, Next PROVE NotTwice'
<1> SUFFICES ASSUME NEW v \in Worker, pc'[v] = "job" PROVE work'[v].job \notin work'[v].batch
  BY DEF NotTwice
<1>1. DOMAIN work = Worker /\ DOMAIN pc = Worker /\ IInv /\ NotTwice
  BY PollFacts DEF TypeOK, QInv, QueueInv
<1>2. CASE work'[v] = work[v] /\ pc'[v] = pc[v]
  BY <1>1, <1>2 DEF NotTwice
<1>3. ASSUME NEW w \in Worker, StartCycle(w) \/ WorkerStep(w) \/ Crash(w), v # w
      PROVE  work'[v] = work[v] /\ pc'[v] = pc[v]
  BY <1>1, <1>3, OneWorker
<1>4. CASE StartJob(v)
  <2>1. PICK j : work' = [work EXCEPT ![v] = [work[v] EXCEPT !.batch = @ \ {j}, !.job = j]]
    BY <1>1, <1>4, StartsJob
  <2>2. work'[v].batch = work[v].batch \ {j} /\ work'[v].job = j
    BY <1>1, <2>1, PollFacts DEF Work
  <2> QED BY <2>2
<1>5. ~(StartCycle(v) \/ BeginPoll(v) \/ FetchPage(v) \/ FinishPoll(v) \/ PollFails(v)
          \/ PickBatch(v) \/ EndJob(v) \/ EndCycle(v) \/ Crash(v))
  BY <1>1 DEF StartCycle, BeginPoll, FetchPage, FinishPoll, PollFails, PickBatch, EndJob,
     EndCycle, Crash, Goto
<1>6. CASE \E j \in Job : Enqueue(j)
  BY <1>2, <1>6 DEF Enqueue
<1>7. CASE Tick \/ Register \/ ClientWindow
  BY <1>2, <1>7 DEF Tick, Register, ClientWindow
<1> QED BY <1>2, <1>3, <1>4, <1>5, <1>6, <1>7 DEF Next, WorkerStep

-----------------------------------------------------------------------------
\* Nothing is chosen and nothing passed over at first.
LEMMA QueueInit == Init => QueueInv
<1> SUFFICES ASSUME Init PROVE QueueInv
  OBVIOUS
<1>1. NoWork.batch = {}
  BY DEF NoWork
<1>2. \A w \in Worker : work[w].batch = {} /\ pc[w] = "asleep"
  BY <1>1 DEF Init
<1>3. \A w \in Worker : InHand(w) = {}
  BY <1>2 DEF InHand
<1>4. HandsHeld
  <2>1. IsFiniteSet({}) /\ Cardinality({}) = 0 /\ 0 <= BatchSize
    BY FS_EmptySet, PollingAssumption
  <2>2. \A w \in Worker : \A j \in InHand(w) : FALSE
    BY <1>3
  <2>3. \A w \in Worker :
            InHand(w) \subseteq Job /\ IsFiniteSet(InHand(w)) /\ Cardinality(InHand(w)) <= BatchSize
    BY <1>3, <2>1
  <2> QED BY <1>2, <2>2, <2>3 DEF HandsHeld
<1>5. NotTwice /\ JobsTimed /\ PassedDue /\ PassedBehind
  BY <1>2 DEF Init, NotTwice, JobsTimed, PassedDue, PassedBehind
<1> QED BY <1>4, <1>5 DEF QueueInv, Queued

\* Every step keeps the order of the queue.
LEMMA QueueNext == QInv /\ [Next]_vars => QInv'
<1> SUFFICES ASSUME QInv, [Next]_vars PROVE QInv'
  OBVIOUS
<1>1. IInv'
  BY NextInv DEF QInv
<1>2. CASE Next
  <2>1. NotTwice'
    BY <1>2, NotTwiceInv
  <2>2. Queued'
    <3>1. ASSUME NEW w \in Worker, StartCycle(w) \/ WorkerStep(w) \/ Crash(w) PROVE Queued'
      BY <1>1, <3>1, CycleSteps, PickBatchQueue, StartJobQueue, EndJobQueue, CrashQueue
         DEF WorkerStep
    <3> QED BY <1>1, <1>2, <3>1, EnqueueQueue, OutsideSteps DEF Next
  <2> QED BY <1>1, <2>1, <2>2 DEF QInv, QueueInv
<1>3. CASE UNCHANGED vars
  <2>1. UNCHANGED <<now, jobs, passed, pc, work, crashes>>
    BY <1>3 DEF vars, polled, backfill
  <2>2. (\A w \in Worker : InHand(w)' = InHand(w)) /\ \A j \in Job : Behind(j)' = Behind(j)
    BY <2>1 DEF InHand, Behind
  <2>3. HandsHeld'
    BY <2>1, <2>2, QueueFacts DEF HandsHeld
  <2>4. NotTwice' /\ JobsTimed' /\ PassedDue'
    BY <2>1 DEF QInv, QueueInv, Queued, NotTwice, JobsTimed, PassedDue
  <2>5. PassedBehind'
    BY <2>1, <2>2, QueueFacts DEF PassedBehind
  <2> QED BY <1>1, <2>3, <2>4, <2>5 DEF QInv, QueueInv, Queued
<1> QED BY <1>2, <1>3

\* Each job that batches have passed over has a batch of jobs behind it for each time, or a
\* worker has died since, and no worker has more than a batch in hand.
THEOREM QueueInvariance == Spec => []QInv
<1>1. Init => QInv
  BY InitInv, QueueInit DEF QInv
<1> QED BY <1>1, QueueNext, PTL DEF Spec

\* A job that is queued comes back.
LEMMA QueuedComesBack == ASSUME QInv PROVE JobsComeBack
<1> SUFFICES ASSUME NEW j \in Job, jobs[j] # None, jobs[j].status # "COMPLETED",
                    ~\E w \in Worker : pc[w] = "job" /\ work[w].job = j
             PROVE  \E t \in now..(now + Larger(Retry * RetryCap, Stale + 1)) : j \in DueJobs(t)
  BY DEF JobsComeBack
<1>1. /\ now \in Nat /\ jobs[j] \in JobRow
      /\ jobs[j].next \in Int /\ jobs[j].started \in Int /\ jobs[j].started <= now
      /\ jobs[j].status \in {"PENDING", "FAILED"} => jobs[j].next <= now + Retry * RetryCap
  BY QueueFacts DEF JobsTimed
<1>2. PICK most \in Nat : most = Larger(Retry * RetryCap, Stale + 1)
  <2>1. Retry * RetryCap \in Nat /\ Stale + 1 \in Nat
    BY PollingAssumption
  <2> QED BY <2>1 DEF Larger
<1>3. Retry * RetryCap \in Nat /\ Stale \in Nat /\ Retry * RetryCap <= most /\ Stale + 1 <= most
  <2>1. Retry * RetryCap \in Nat /\ Stale \in Nat
    BY PollingAssumption
  <2> QED BY <1>2, <2>1 DEF Larger
<1>4. CASE jobs[j].status \in {"PENDING", "FAILED"}
  <2>1. PICK t \in Int : t = Larger(now, jobs[j].next)
    BY <1>1 DEF Larger
  <2>2. t \in now..(now + most) /\ jobs[j].next <= t
    BY <1>1, <1>2, <1>3, <1>4, <2>1 DEF Larger
  <2> QED BY <1>2, <1>4, <2>2 DEF DueJobs
<1>5. CASE jobs[j].status = "RUNNING"
  <2>1. PICK t \in Int : t = now + Stale + 1
    BY <1>1, <1>3
  <2>2. t \in now..(now + most) /\ jobs[j].started < t - Stale
    BY <1>1, <1>2, <1>3, <2>1
  <2> QED BY <1>2, <1>5, <2>2 DEF DueJobs
<1> QED BY <1>1, <1>4, <1>5 DEF JobRow

\* A batch passes a job over no more often than the other jobs and the deaths of workers
\* allow.
LEMMA PassedSeldom ==
    ASSUME QInv, NEW j \in Job
    PROVE  passed[j] <= (Cardinality(Job) - 1 + BatchSize - 1) \div BatchSize + crashes
<1>1. /\ passed[j] \in Nat /\ crashes \in Nat /\ BatchSize \in Nat /\ BatchSize >= 1
      /\ IsFiniteSet(Behind(j)) /\ Cardinality(Behind(j)) \in Nat
      /\ Cardinality(Behind(j)) <= Cardinality(Job) - 1 /\ Cardinality(Job) \in Nat
  BY QueueFacts, BehindType
<1>2. PICK m \in Nat : m = Cardinality(Job) - 1
  BY <1>1
<1>3. BatchSize * passed[j] \in Nat /\ BatchSize * crashes \in Nat
  BY <1>1
<1>4. BatchSize * passed[j] <= m + BatchSize * crashes
  <2>1. CASE passed[j] > 0
    <3>1. BatchSize * passed[j] <= Cardinality(Behind(j)) + BatchSize * crashes
      BY <2>1, QueueFacts DEF PassedBehind
    <3> QED BY <1>1, <1>2, <1>3, <3>1
  <2>2. CASE passed[j] = 0
    BY <1>1, <1>2, <1>3, <2>2
  <2> QED BY <1>1, <2>1, <2>2
<1>5. passed[j] <= (m + BatchSize - 1) \div BatchSize + crashes
  BY <1>1, <1>4, Batched
<1> QED BY <1>2, <1>5

\* Failed jobs queue up behind the others: every job comes back after the longest backoff or
\* a stale hour, and batches pass over one that is due until each of the others has had its
\* turn at most, and once more for each worker that dies.
THEOREM NoJobIsStarved == Spec => []NoJobStarves
<1>1. QInv => NoJobStarves
  BY QueuedComesBack, PassedSeldom DEF NoJobStarves
<1> QED BY <1>1, QueueInvariance, PTL

-----------------------------------------------------------------------------
(* Numbers: pages and the entries on them *)

\* Multiplication by a number keeps the order.
LEMMA Times ==
    ASSUME NEW a \in Int, NEW b \in Int, NEW c \in Nat, a <= b
    PROVE  a * c <= b * c
<1>1. PICK d \in Nat : b = a + d
  <2>1. b - a \in Nat
    OBVIOUS
  <2> QED BY <2>1
<1>2. b * c = a * c + d * c
  BY <1>1
<1>3. d * c \in Nat
  OBVIOUS
<1> QED BY <1>2, <1>3

\* The pages of a total hold it, and all but the last of them are full.
LEMMA PagesHold ==
    ASSUME MasterAssumption, NEW n \in Nat
    PROVE  /\ PagesOf(n) \in Nat
           /\ n <= PagesOf(n) * PageRows
           /\ \A p \in Nat : p <= PagesOf(n) => (p - 1) * PageRows < n
<1> DEFINE q == PagesOf(n)
<1>0. PageRows \in Nat \ {0}
  BY DEF MasterAssumption
<1>1. q \in Nat
  BY <1>0 DEF PagesOf
<1>2. PICK r \in 0..(PageRows - 1) : n + PageRows - 1 = q * PageRows + r
  <2>1. n + PageRows - 1 \in Nat
    BY <1>0
  <2>2. (n + PageRows - 1) % PageRows \in 0..(PageRows - 1)
    BY <1>0, <2>1
  <2> QED BY <1>0, <2>1, <2>2 DEF PagesOf
<1> HIDE DEF q
<1>3. n <= q * PageRows
  <2>1. q * PageRows \in Nat
    BY <1>0, <1>1
  <2> QED BY <1>0, <1>2, <2>1
<1>4. (q - 1) * PageRows < n
  <2>1. (q - 1) * PageRows = q * PageRows - PageRows
    BY <1>0, <1>1
  <2>2. q * PageRows \in Nat
    BY <1>0, <1>1
  <2> QED BY <1>0, <1>2, <2>1, <2>2
<1>5. ASSUME NEW p \in Nat, p <= q PROVE (p - 1) * PageRows < n
  <2>1. (p - 1) * PageRows <= (q - 1) * PageRows
    BY <1>0, <1>1, <1>5, Times
  <2>2. (p - 1) * PageRows \in Int /\ (q - 1) * PageRows \in Int
    BY <1>0, <1>1
  <2> QED BY <1>4, <2>1, <2>2
<1> QED BY <1>1, <1>3, <1>5 DEF q

-----------------------------------------------------------------------------
(* CodeStore: what is invariant *)

\* The first n entries of a window are stored.
StoredUpTo(w, n) ==
    \A k \in DOMAIN catalogue[w] : k <= n => catalogue[w][k].code \in DOMAIN records[w[1]]

\* A checkpoint is about a total that the window has had.  What it says has been read is
\* stored, and while it is incomplete those pages are full, so that nothing is added to them.
CheckpointOK(w) ==
    progress[w] # Null =>
        /\ progress[w].total <= Len(catalogue[w])
        /\ progress[w].pages = PagesOf(progress[w].total)
        /\ 1 <= progress[w].next
        /\ progress[w].complete => StoredUpTo(w, progress[w].total)
        /\ ~progress[w].complete =>
               /\ progress[w].next <= progress[w].pages
               /\ StoredUpTo(w, (progress[w].next - 1) * PageRows)

\* The records of a dataset against all that was stored.
Newest(rows, named, entered) ==
    /\ \A c \in DOMAIN rows :
          [code |-> c, name |-> rows[c].name, changed |-> rows[c].changed] \in entered
    /\ \A item \in entered :
          /\ item.code \in DOMAIN rows
          /\ item.changed <= rows[item.code].changed
          /\ item.name # rows[item.code].name => \E c \in named : c[1] = item.code

\* The entries of a page that are in the transaction.
Entered(j) == {j.items[k] : k \in 1..(j.item - 1)}

\* An open transaction: the entries of one page, the first of which are in its records.
DraftOK(j) ==
    /\ j.page <= j.pages
    /\ j.total <= Len(catalogue[j.window])
    /\ j.mode = "collect" => (j.pages - 1) * PageRows < j.total
    /\ DOMAIN records[j.dataset] \subseteq DOMAIN j.records
    /\ 1 <= j.item /\ j.item <= Len(j.items) + 1
    /\ \A i \in DOMAIN catalogue[j.window] :
          (j.page - 1) * PageRows < i /\ i <= j.page * PageRows /\ i <= j.total =>
              /\ i - (j.page - 1) * PageRows \in DOMAIN j.items
              /\ j.items[i - (j.page - 1) * PageRows].code = catalogue[j.window][i].code
    /\ Newest(j.records, nameConflicts[j.dataset] \cup j.conflicts, seen[j.dataset] \cup Entered(j))

\* A command collects windows that are incomplete; before each page all pages are stored.
JobOK(j) ==
    /\ \A v \in j.windows :
          v[1] = j.dataset /\ (j.mode = "collect" => progress[v] # Null /\ ~progress[v].complete)
    /\ j.pc \in {"page", "store"} =>
          /\ j.window \in Window /\ j.window \notin j.windows /\ j.window[1] = j.dataset
          /\ 1 <= j.page
          /\ j.mode = "plan" => j.pages = 1 /\ j.page = 1
          /\ j.mode = "collect" => (j.pages - 1) * PageRows < Len(catalogue[j.window])
          /\ j.page <= j.pages => StoredUpTo(j.window, (j.page - 1) * PageRows)
    /\ j.pc = "store" => DraftOK(j)

StoreInv ==
    /\ StoreTypeOK
    /\ \A w \in Window : CheckpointOK(w)
    /\ \A d \in Dataset : Newest(records[d], nameConflicts[d], seen[d])
    /\ job # Null => JobOK(job)

\* At the beginning there is nothing.
LEMMA StoreInitHolds ==
    ASSUME MasterAssumption, StoreAssumption, StoreInit
    PROVE  StoreInv
<1>1. NoRows \in Records /\ DOMAIN NoRows = {}
  BY DEF NoRows, Records
<1>2. StoreTypeOK
  BY <1>1 DEF StoreInit, StoreTypeOK, StoreAssumption
<1>3. \A w \in Window : CheckpointOK(w)
  BY DEF StoreInit, CheckpointOK
<1>4. \A d \in Dataset : Newest(records[d], nameConflicts[d], seen[d])
  BY <1>1 DEF StoreInit, Newest
<1> QED BY <1>2, <1>3, <1>4 DEF StoreInv, StoreInit

\* What CodeMaster does touches nothing of this but the file.
LEMMA MasterLeavesStore ==
    ASSUME StoreInv, UNCHANGED storeVars
    PROVE  StoreInv'
<1> USE DEF storeVars
<1>1. StoreTypeOK'
  BY DEF StoreInv, StoreTypeOK
<1>2. \A w \in Window : CheckpointOK(w)'
  BY DEF StoreInv, CheckpointOK, StoredUpTo
<1>3. \A d \in Dataset : Newest(records[d], nameConflicts[d], seen[d])'
  BY DEF StoreInv
<1>4. job' # Null => JobOK(job)'
  <2>1. job' = job
    OBVIOUS
  <2>2. JobOK(job) => JobOK(job)'
    BY DEF JobOK, DraftOK, StoredUpTo
  <2> QED BY <2>1, <2>2 DEF StoreInv
<1> QED BY <1>1, <1>2, <1>3, <1>4 DEF StoreInv

\* Entries that are added or changed in place disturb nothing.
LEMMA CatalogueGrows ==
    ASSUME MasterAssumption, StoreAssumption, StoreInv,
           catalogue' \in [Window -> Seq(Item)], changes' \in 0..MaxAmended,
           \A v \in Window :
               /\ Len(catalogue[v]) <= Len(catalogue'[v])
               /\ \A k \in DOMAIN catalogue[v] : catalogue'[v][k].code = catalogue[v][k].code,
           UNCHANGED <<progress, records, nameConflicts, job, starts, seen>>
    PROVE  StoreInv'
<1>0. PageRows \in Nat \ {0}
  BY DEF MasterAssumption
<1>1. StoreTypeOK' /\ StoreTypeOK
  BY DEF StoreInv, StoreTypeOK
<1>2. ASSUME NEW v \in Window, NEW n \in Int, n <= Len(catalogue[v]), StoredUpTo(v, n)
      PROVE  StoredUpTo(v, n)'
  <2>1. \A k \in DOMAIN catalogue'[v] : k <= n => k \in DOMAIN catalogue[v]
    BY <1>1, <1>2 DEF StoreTypeOK
  <2> QED BY <1>2, <2>1 DEF StoredUpTo
<1>3. ASSUME NEW w \in Window PROVE CheckpointOK(w)'
  <2> SUFFICES ASSUME progress[w] # Null PROVE CheckpointOK(w)'
    BY DEF CheckpointOK
  <2>0. CheckpointOK(w) /\ progress[w] \in Checkpoint /\ catalogue[w] \in Seq(Item) /\ catalogue'[w] \in Seq(Item)
    BY <1>1 DEF StoreInv, StoreTypeOK
  <2>1. progress[w].total \in Nat /\ progress[w].next \in Nat
    BY <2>0 DEF Checkpoint
  <2>2. progress[w].total <= Len(catalogue[w]) /\ progress[w].total <= Len(catalogue'[w])
    BY <2>0, <2>1 DEF CheckpointOK
  <2>3. progress[w].complete => StoredUpTo(w, progress[w].total)'
    BY <1>2, <2>0, <2>1, <2>2 DEF CheckpointOK
  <2>4. ~progress[w].complete => StoredUpTo(w, (progress[w].next - 1) * PageRows)'
    <3>1. ASSUME ~progress[w].complete
          PROVE  StoredUpTo(w, (progress[w].next - 1) * PageRows)'
      <4>1. PICK n \in Int : n = (progress[w].next - 1) * PageRows
        BY <1>0, <2>1
      <4>2. n < progress[w].total
        BY <2>0, <2>1, <3>1, <4>1, PagesHold DEF CheckpointOK
      <4>3. StoredUpTo(w, n)
        BY <2>0, <3>1, <4>1 DEF CheckpointOK
      <4>4. StoredUpTo(w, n)'
        BY <1>2, <2>0, <2>1, <2>2, <4>2, <4>3
      <4> QED BY <4>1, <4>4
    <3> QED BY <3>1
  <2> QED BY <2>0, <2>2, <2>3, <2>4 DEF CheckpointOK
<1>4. ASSUME job # Null PROVE JobOK(job)'
  <2>0. JobOK(job) /\ job \in Command
    BY <1>1, <1>4 DEF StoreInv, StoreTypeOK
  <2>1. job.page \in Nat /\ job.pages \in Nat /\ job.total \in Nat /\ job.mode \in {"plan", "collect"}
    BY <2>0 DEF Command
  <2>2. ASSUME job.pc \in {"page", "store"}
        PROVE  /\ catalogue[job.window] \in Seq(Item) /\ catalogue'[job.window] \in Seq(Item)
               /\ job.mode = "collect" => (job.pages - 1) * PageRows < Len(catalogue'[job.window])
               /\ job.page <= job.pages => StoredUpTo(job.window, (job.page - 1) * PageRows)'
    <3>1. job.window \in Window
      BY <2>0, <2>2 DEF JobOK
    <3>2. catalogue[job.window] \in Seq(Item) /\ catalogue'[job.window] \in Seq(Item)
      BY <1>1, <3>1 DEF StoreTypeOK
    <3>3. PICK m \in Int : m = (job.pages - 1) * PageRows
      BY <1>0, <2>1
    <3>4. PICK n \in Int : n = (job.page - 1) * PageRows
      BY <1>0, <2>1
    <3>5. Len(catalogue[job.window]) <= Len(catalogue'[job.window])
      BY <3>1
    <3>6. job.mode = "collect" => m < Len(catalogue[job.window])
      BY <2>0, <2>2, <3>3 DEF JobOK
    <3>7. job.page <= job.pages => n <= m
      BY <1>0, <2>1, <3>3, <3>4, Times
    <3>8. job.mode = "plan" => n = 0
      BY <1>0, <2>0, <2>2, <3>4 DEF JobOK
    <3>9. job.page <= job.pages => n <= Len(catalogue[job.window])
      BY <2>1, <3>2, <3>6, <3>7, <3>8
    <3>10. job.page <= job.pages => StoredUpTo(job.window, n)
      BY <2>0, <2>2, <3>4 DEF JobOK
    <3>11. job.page <= job.pages => StoredUpTo(job.window, n)'
      BY <1>2, <3>1, <3>9, <3>10
    <3> QED BY <3>2, <3>3, <3>4, <3>5, <3>6, <3>11
  <2>3. ASSUME job.pc = "store" PROVE DraftOK(job)'
    <3>1. DraftOK(job) /\ job.window \in Window
      BY <2>0, <2>3 DEF JobOK
    <3>2. catalogue[job.window] \in Seq(Item) /\ catalogue'[job.window] \in Seq(Item)
      BY <2>2, <2>3
    <3>3. \A i \in DOMAIN catalogue'[job.window] : i <= job.total =>
              i \in DOMAIN catalogue[job.window]
      BY <2>1, <3>1, <3>2 DEF DraftOK
    <3>4. job.total <= Len(catalogue'[job.window])
      BY <2>1, <3>1, <3>2 DEF DraftOK
    <3>5. \A i \in DOMAIN catalogue[job.window] :
              catalogue'[job.window][i].code = catalogue[job.window][i].code
      BY <3>1
    <3>6. Entered(job)' = Entered(job)
      BY DEF Entered
    <3> QED BY <3>1, <3>3, <3>4, <3>5, <3>6 DEF DraftOK
  <2> QED BY <2>0, <2>2, <2>3 DEF JobOK
<1>5. \A d \in Dataset : Newest(records[d], nameConflicts[d], seen[d])'
  BY DEF StoreInv
<1> QED BY <1>1, <1>3, <1>4, <1>5 DEF StoreInv

LEMMA PublishHolds ==
    ASSUME MasterAssumption, StoreAssumption, StoreInv,
           NEW w \in Window, NEW c \in Code, NEW n \in Name, NEW d \in Changed,
           Publish(w, c, n, d)
    PROVE  StoreInv'
<1> DEFINE item == [code |-> c, name |-> n, changed |-> d]
<1>1. item \in Item
  BY DEF Item
<1> HIDE DEF item
<1>2. StoreTypeOK /\ catalogue[w] \in Seq(Item)
  BY DEF StoreInv, StoreTypeOK
<1>3. catalogue' = [catalogue EXCEPT ![w] = Append(catalogue[w], item)]
  BY DEF Publish, item
<1>4. catalogue'[w] = Append(catalogue[w], item) /\ Append(catalogue[w], item) \in Seq(Item)
  BY <1>1, <1>2, <1>3 DEF StoreTypeOK
<1>5. catalogue' \in [Window -> Seq(Item)]
  BY <1>2, <1>3, <1>4 DEF StoreTypeOK
<1>6. ASSUME NEW v \in Window
      PROVE  /\ Len(catalogue[v]) <= Len(catalogue'[v])
             /\ \A k \in DOMAIN catalogue[v] : catalogue'[v][k].code = catalogue[v][k].code
  <2>1. CASE v = w
    BY <1>1, <1>2, <1>4, <2>1
  <2>2. CASE v # w
    <3>1. catalogue'[v] = catalogue[v] /\ catalogue[v] \in Seq(Item)
      BY <1>2, <1>3, <2>2 DEF StoreTypeOK
    <3> QED BY <3>1
  <2> QED BY <2>1, <2>2
<1>7. changes' \in 0..MaxAmended
  BY <1>2 DEF Publish, StoreTypeOK, StoreAssumption
<1> QED BY <1>5, <1>6, <1>7, CatalogueGrows DEF Publish

LEMMA AmendHolds ==
    ASSUME MasterAssumption, StoreAssumption, StoreInv,
           NEW w \in Window, NEW i \in Nat, NEW n \in Name, NEW d \in Changed,
           Amend(w, i, n, d)
    PROVE  StoreInv'
<1>1. StoreTypeOK /\ catalogue[w] \in Seq(Item) /\ i \in DOMAIN catalogue[w]
  BY DEF StoreInv, StoreTypeOK, Amend
<1>2. catalogue[w][i] \in Item
  BY <1>1
<1> DEFINE item == [code |-> catalogue[w][i].code, name |-> n, changed |-> d]
<1>3. item \in Item
  BY <1>2 DEF Item
<1>4. catalogue'[w] = [catalogue[w] EXCEPT ![i] = item]
  <2>1. catalogue'[w] = [catalogue[w] EXCEPT ![i] =
            [[catalogue[w][i] EXCEPT !.name = n] EXCEPT !.changed = d]]
    BY <1>1 DEF Amend, StoreTypeOK
  <2>2. [[catalogue[w][i] EXCEPT !.name = n] EXCEPT !.changed = d] = item
    <3>1. PICK r \in Item : r = catalogue[w][i]
      BY <1>2
    <3>2. PICK q : q = [r EXCEPT !.name = n]
      OBVIOUS
    <3>3. q = [code |-> r.code, name |-> n, changed |-> r.changed]
      BY <3>2 DEF Item
    <3>4. [q EXCEPT !.changed = d] = [code |-> r.code, name |-> n, changed |-> d]
      BY <3>3
    <3> QED BY <3>1, <3>2, <3>4
  <2> QED BY <2>1, <2>2
<1>5. \A v \in Window : v # w => catalogue'[v] = catalogue[v]
  BY <1>1 DEF Amend, StoreTypeOK
<1>6. item.code = catalogue[w][i].code
  OBVIOUS
<1> HIDE DEF item
<1>7. catalogue'[w] \in Seq(Item) /\ Len(catalogue'[w]) = Len(catalogue[w])
  BY <1>1, <1>3, <1>4, ExceptSeq
<1>8. catalogue' \in [Window -> Seq(Item)]
  <2>1. catalogue' = [v \in Window |-> catalogue'[v]]
    BY <1>1 DEF Amend, StoreTypeOK
  <2>2. \A v \in Window : catalogue'[v] \in Seq(Item)
    BY <1>1, <1>5, <1>7 DEF StoreTypeOK
  <2> QED BY <2>1, <2>2
<1>9. ASSUME NEW v \in Window
      PROVE  /\ Len(catalogue[v]) <= Len(catalogue'[v])
             /\ \A k \in DOMAIN catalogue[v] : catalogue'[v][k].code = catalogue[v][k].code
  <2>1. CASE v = w
    BY <1>1, <1>4, <1>6, <1>7, <2>1
  <2>2. CASE v # w
    <3>1. catalogue'[v] = catalogue[v] /\ catalogue[v] \in Seq(Item)
      BY <1>1, <1>5, <2>2 DEF StoreTypeOK
    <3> QED BY <3>1
  <2> QED BY <2>1, <2>2
<1>10. changes' \in 0..MaxAmended
  BY <1>1 DEF Amend, StoreTypeOK, StoreAssumption
<1> QED BY <1>8, <1>9, <1>10, CatalogueGrows DEF Amend

\* A step that changes nothing but the job is judged by the job that it leaves.
LEMMA JobMoves ==
    ASSUME StoreInv, NEW j \in Command \cup {Null}, j # Null => JobOK(j), job' = j,
           starts' \in 0..MaxStarts,
           UNCHANGED <<catalogue, changes, progress, records, nameConflicts, seen>>
    PROVE  StoreInv'
<1>1. StoreTypeOK'
  BY DEF StoreInv, StoreTypeOK
<1>2. \A w \in Window : CheckpointOK(w)'
  BY DEF StoreInv, CheckpointOK, StoredUpTo
<1>3. \A d \in Dataset : Newest(records[d], nameConflicts[d], seen[d])'
  BY DEF StoreInv
<1>4. job' # Null => JobOK(job)'
  <2>1. JobOK(j) => JobOK(j)'
    BY DEF JobOK, DraftOK, StoredUpTo
  <2> QED BY <2>1
<1> QED BY <1>1, <1>2, <1>3, <1>4 DEF StoreInv

LEMMA StartJobHolds ==
    ASSUME StoreAssumption, StoreInv, NEW mode \in {"plan", "collect"}, NEW d \in Dataset, StartCommand(mode, d)
    PROVE  StoreInv'
<1>1. PICK j : /\ j = [mode |-> mode, dataset |-> d, pc |-> "window", windows |-> Pending(mode, d),
                       window |-> Null, page |-> 0, pages |-> 0, total |-> 0, items |-> <<>>,
                       item |-> 1, records |-> NoRows, conflicts |-> {}]
               /\ job' = j
  BY DEF StartCommand
<1>2. j \in Command
  <2>1. NoRows \in Records /\ Pending(mode, d) \in SUBSET Window /\ <<>> \in Seq(Item)
    BY DEF NoRows, Records, Pending
  <2>2. {} \in SUBSET Conflict
    OBVIOUS
  <2> QED BY <1>1, <2>1, <2>2 DEF Command
<1>3. JobOK(j)
  <2>1. \A v \in Pending(mode, d) :
            v[1] = d /\ (mode = "collect" => progress[v] # Null /\ ~progress[v].complete)
    BY DEF Pending
  <2> QED BY <1>1, <2>1 DEF JobOK
<1>4. starts' \in 0..MaxStarts
  BY DEF StartCommand, StoreInv, StoreTypeOK, StoreAssumption
<1> QED BY <1>1, <1>2, <1>3, <1>4, JobMoves DEF StartCommand

LEMMA NextWindowHolds ==
    ASSUME MasterAssumption, StoreAssumption, StoreInv, NextWindow
    PROVE  StoreInv'
<1>0. PageRows \in Nat \ {0}
  BY DEF MasterAssumption
<1>1. StoreTypeOK /\ job \in Command /\ JobOK(job) /\ job # Null /\ job.pc = "window"
  BY DEF StoreInv, StoreTypeOK, NextWindow
<1>2. starts' \in 0..MaxStarts
  BY <1>1 DEF NextWindow, StoreTypeOK
<1>3. ASSUME job.windows = {}, job' = [job EXCEPT !.pc = "export"] PROVE StoreInv'
  <2>1. PICK j : j = [job EXCEPT !.pc = "export"]
    OBVIOUS
  <2>2. j \in Command
    BY <1>1, <2>1 DEF Command
  <2>3. j.pc = "export" /\ j.windows = {}
    BY <1>1, <1>3, <2>1 DEF Command
  <2>4. JobOK(j)
    BY <2>3 DEF JobOK
  <2> QED BY <1>2, <1>3, <2>1, <2>2, <2>4, JobMoves DEF NextWindow
<1>4. ASSUME NEW w \in job.windows,
             job' = CASE job.mode = "collect" ->
                              [job EXCEPT !.pc = "page", !.window = w, !.windows = @ \ {w},
                                          !.page = progress[w].next, !.pages = progress[w].pages]
                         [] job.mode = "plan" /\ progress[w] = Null ->
                              [job EXCEPT !.pc = "page", !.window = w, !.windows = @ \ {w},
                                          !.page = 1, !.pages = 1]
                         [] OTHER -> [job EXCEPT !.windows = @ \ {w}]
      PROVE  StoreInv'
  <2>0. w \in Window /\ job.windows \subseteq Window
    BY <1>1 DEF Command
  <2>a. PICK W : W = job.windows \ {w}
    OBVIOUS
  <2>b. W \subseteq Window /\ w \notin W /\ W \subseteq job.windows
    BY <2>0, <2>a
  <2>1. CASE job.mode = "collect"
    <3>0. CheckpointOK(w) /\ progress[w] \in Checkpoint /\ ~progress[w].complete /\ w[1] = job.dataset
          /\ progress[w] # Null
      BY <1>1, <2>0, <2>1 DEF StoreInv, StoreTypeOK, JobOK
    <3>1. PICK p, q : p = progress[w].next /\ q = progress[w].pages
      OBVIOUS
    <3>2. p \in Nat /\ q \in Nat /\ progress[w].total \in Nat
      BY <3>0, <3>1 DEF Checkpoint
    <3>3. PICK j : j = [job EXCEPT !.pc = "page", !.window = w, !.windows = W, !.page = p, !.pages = q]
      OBVIOUS
    <3>4. job' = j
      BY <1>4, <2>1, <2>a, <3>1, <3>3
    <3>5. j \in Command
      BY <1>1, <2>0, <2>b, <3>2, <3>3 DEF Command
    <3>6. /\ j.pc = "page" /\ j.window = w /\ j.windows = W /\ j.page = p /\ j.pages = q
          /\ j.dataset = job.dataset /\ j.mode = "collect"
      BY <1>1, <2>1, <3>3 DEF Command
    <3>7. 1 <= p /\ StoredUpTo(w, (p - 1) * PageRows) /\ q = PagesOf(progress[w].total)
          /\ progress[w].total <= Len(catalogue[w])
      BY <3>0, <3>1 DEF CheckpointOK
    <3>8. (q - 1) * PageRows < Len(catalogue[w])
      <4>1. (q - 1) * PageRows < progress[w].total
        <5>1. \A t \in Nat : t <= PagesOf(progress[w].total) => (t - 1) * PageRows < progress[w].total
          BY <3>2, PagesHold
        <5>2. q \in Nat /\ q <= PagesOf(progress[w].total)
          BY <3>2, <3>7
        <5> QED BY <5>1, <5>2
      <4>2. catalogue[w] \in Seq(Item) /\ (q - 1) * PageRows \in Int
        BY <1>0, <1>1, <2>0, <3>2 DEF StoreTypeOK
      <4>3. PICK m \in Int : m = (q - 1) * PageRows
        BY <4>2
      <4> QED BY <3>2, <3>7, <4>1, <4>2, <4>3
    <3>9. \A v \in W : v[1] = job.dataset /\ progress[v] # Null /\ ~progress[v].complete
      BY <1>1, <2>1, <2>b DEF JobOK
    <3>10. JobOK(j)
      BY <2>0, <2>b, <3>0, <3>6, <3>7, <3>8, <3>9 DEF JobOK
    <3> QED BY <1>2, <3>4, <3>5, <3>10, JobMoves DEF NextWindow
  <2>2. CASE job.mode = "plan" /\ progress[w] = Null
    <3>3. PICK j : j = [job EXCEPT !.pc = "page", !.window = w, !.windows = W, !.page = 1, !.pages = 1]
      OBVIOUS
    <3>4. job' = j
      BY <1>4, <2>2, <2>a, <3>3
    <3>5. j \in Command
      BY <1>1, <2>0, <2>b, <3>3 DEF Command
    <3>6. /\ j.pc = "page" /\ j.window = w /\ j.windows = W /\ j.page = 1 /\ j.pages = 1
          /\ j.dataset = job.dataset /\ j.mode = "plan"
      BY <1>1, <2>2, <3>3 DEF Command
    <3>7. StoredUpTo(w, (1 - 1) * PageRows)
      <4>1. catalogue[w] \in Seq(Item) /\ (1 - 1) * PageRows = 0
        BY <1>0, <1>1, <2>0 DEF StoreTypeOK
      <4> QED BY <4>1 DEF StoredUpTo
    <3>8. w[1] = job.dataset /\ \A v \in W : v[1] = job.dataset
      BY <1>1, <2>b DEF JobOK
    <3>9. JobOK(j)
      BY <2>0, <2>b, <3>6, <3>7, <3>8 DEF JobOK
    <3> QED BY <1>2, <3>4, <3>5, <3>9, JobMoves DEF NextWindow
  <2>3. CASE job.mode = "plan" /\ progress[w] # Null
    <3>3. PICK j : j = [job EXCEPT !.windows = W]
      OBVIOUS
    <3>4. job' = j
      BY <1>4, <2>3, <2>a, <3>3
    <3>5. j \in Command
      BY <1>1, <2>b, <3>3 DEF Command
    <3>6. j.pc = "window" /\ j.windows = W /\ j.dataset = job.dataset /\ j.mode = "plan"
      BY <1>1, <2>3, <3>3 DEF Command
    <3>7. JobOK(j)
      BY <1>1, <2>b, <3>6 DEF JobOK
    <3> QED BY <1>2, <3>4, <3>5, <3>7, JobMoves DEF NextWindow
  <2> QED BY <1>1, <2>1, <2>2, <2>3 DEF Command
<1> QED BY <1>3, <1>4 DEF NextWindow

LEMMA JobEnds ==
    ASSUME StoreInv, CommandFails \/ Export
    PROVE  StoreInv'
BY JobMoves DEF CommandFails, Export, StoreInv, StoreTypeOK

LEMMA LeaveWindowHolds ==
    ASSUME StoreInv, LeaveWindow
    PROVE  StoreInv'
<1>1. job \in Command /\ JobOK(job) /\ starts \in 0..MaxStarts
  BY DEF StoreInv, StoreTypeOK, LeaveWindow
<1>2. PICK j : j = [job EXCEPT !.pc = "window"]
  OBVIOUS
<1>3. j \in Command
  BY <1>1, <1>2 DEF Command
<1>4. j.pc = "window" /\ j.windows = job.windows /\ j.dataset = job.dataset /\ j.mode = job.mode
  BY <1>1, <1>2 DEF Command
<1>5. JobOK(j)
  BY <1>1, <1>4 DEF JobOK
<1> QED BY <1>1, <1>2, <1>3, <1>5, JobMoves DEF LeaveWindow

LEMMA RequestPageHolds ==
    ASSUME MasterAssumption, StoreAssumption, StoreInv, RequestPage
    PROVE  StoreInv'
<1>0. PageRows \in Nat \ {0}
  BY DEF MasterAssumption
<1>1. /\ StoreTypeOK /\ job \in Command /\ JobOK(job) /\ job # Null /\ job.pc = "page" /\ job.page <= job.pages
      /\ starts' \in 0..MaxStarts
  BY DEF StoreInv, StoreTypeOK, RequestPage
<1>2. PICK w \in Window : w = job.window
  BY <1>1 DEF JobOK
<1>3. PICK s \in Seq(Item) : s = catalogue[w]
  BY <1>1, <1>2 DEF StoreTypeOK
<1>4. job.page \in Nat /\ job.pages \in Nat /\ job.dataset \in Dataset /\ 1 <= job.page
  BY <1>1 DEF Command, JobOK
<1>5. PICK a \in Nat, z \in Nat : a = (job.page - 1) * PageRows /\ z = job.page * PageRows /\ z = a + PageRows
  <2>1. (job.page - 1) * PageRows \in Nat /\ job.page * PageRows \in Nat
    BY <1>0, <1>4
  <2>2. job.page * PageRows = (job.page - 1) * PageRows + PageRows
    BY <1>0, <1>4
  <2> QED BY <2>1, <2>2
<1>6. PICK b \in Nat : b = Earlier(z, Len(s))
  BY <1>3, <1>5 DEF Earlier
<1>7. PICK its : its = SubSeq(s, a + 1, b)
  OBVIOUS
<1>8. its = PageItems(w, job.page)
  BY <1>3, <1>5, <1>6, <1>7 DEF PageItems
<1>9. /\ its \in Seq(Item)
      /\ Len(its) = IF a + 1 <= b THEN b - a ELSE 0
      /\ \A i \in 1..(b - a) : its[i] = s[a + i]
  <2>1. \A i \in (a + 1)..b : s[i] \in Item
    BY <1>3, <1>5, <1>6 DEF Earlier
  <2>2. /\ SubSeq(s, a + 1, b) \in Seq(Item)
        /\ Len(SubSeq(s, a + 1, b)) = IF a + 1 <= b THEN b - (a + 1) + 1 ELSE 0
        /\ \A i \in 1..(b - (a + 1) + 1) : SubSeq(s, a + 1, b)[i] = s[(a + 1) + i - 1]
    <3> HIDE DEF RequestPage
    <3>1. a + 1 \in Int /\ b \in Int
      BY <1>5, <1>6
    <3> QED BY <2>1, <3>1, SubSeqProperties
  <2>3. b - (a + 1) + 1 = b - a
    BY <1>5, <1>6
  <2>4. \A i \in 1..(b - a) : (a + 1) + i - 1 = a + i
    BY <1>5, <1>6
  <2> QED BY <1>7, <2>2, <2>3, <2>4
<1>10. PICK R, n : R = records[job.dataset] /\ n = Len(s)
  OBVIOUS
<1>11. R \in Records /\ n \in Nat
  BY <1>1, <1>3, <1>4, <1>10 DEF StoreTypeOK
<1>12. PICK N : N = {}
  OBVIOUS
<1>13. PICK j : j = [job EXCEPT !.pc = "store", !.total = n, !.items = its, !.item = 1,
                                !.records = R, !.conflicts = N]
  OBVIOUS
<1>14. job' = j
  BY <1>2, <1>3, <1>8, <1>10, <1>12, <1>13 DEF RequestPage
<1>15. N \in SUBSET Conflict
  BY <1>12
<1>16. j \in Command
  BY <1>1, <1>9, <1>11, <1>13, <1>15 DEF Command
<1>17. /\ j.pc = "store" /\ j.total = n /\ j.items = its /\ j.item = 1 /\ j.records = R
       /\ j.conflicts = N /\ j.window = w /\ j.windows = job.windows /\ j.dataset = job.dataset
       /\ j.mode = job.mode /\ j.page = job.page /\ j.pages = job.pages
  BY <1>1, <1>2, <1>13 DEF Command
<1>18. DraftOK(j)
  <2>1. ASSUME NEW i \in DOMAIN catalogue[w], a < i, i <= z, i <= n
        PROVE  i - a \in DOMAIN its /\ its[i - a].code = catalogue[w][i].code
    <3>1. i \in Nat /\ i - a \in Nat /\ i <= b
      BY <1>3, <1>5, <1>6, <1>10, <1>11, <2>1 DEF Earlier
    <3>2. i - a \in 1..(b - a)
      BY <1>5, <1>6, <2>1, <3>1
    <3>3. i - a \in DOMAIN its
      BY <1>5, <1>6, <1>9, <3>2
    <3>4. its[i - a] = s[i]
      <4>1. PICK m \in 1..(b - a) : m = i - a
        BY <3>2
      <4>2. a + m = i
        BY <1>5, <3>1, <4>1
      <4> QED BY <1>9, <4>1, <4>2
    <3> QED BY <1>3, <3>3, <3>4
  <2>2. Entered(j) = {}
    BY <1>17 DEF Entered
  <2>3. Newest(R, nameConflicts[job.dataset] \cup N, seen[job.dataset] \cup Entered(j))
    <3>1. Newest(R, nameConflicts[job.dataset], seen[job.dataset])
      BY <1>4, <1>10 DEF StoreInv
    <3>2. nameConflicts[job.dataset] \cup N = nameConflicts[job.dataset]
      BY <1>12
    <3>3. seen[job.dataset] \cup Entered(j) = seen[job.dataset]
      BY <2>2
    <3> QED BY <3>1, <3>2, <3>3
  <2>4. n <= Len(catalogue[w]) /\ 1 <= Len(its) + 1
    BY <1>3, <1>9, <1>10, <1>11
  <2>5. job.mode = "collect" => (job.pages - 1) * PageRows < n
    BY <1>1, <1>2, <1>3, <1>10 DEF JobOK
  <2> QED BY <1>1, <1>5, <1>10, <1>17, <2>1, <2>3, <2>4, <2>5 DEF DraftOK
<1>19. JobOK(j)
  BY <1>1, <1>2, <1>17, <1>18 DEF JobOK
<1> QED BY <1>1, <1>14, <1>16, <1>19, JobMoves DEF RequestPage

\* The records after one entry.
Replaced(rows, item) ==
    IF item.code \notin DOMAIN rows \/ ShouldReplace(rows[item.code].changed, item.changed)
    THEN Merged(rows, [c \in {item.code} |-> [name |-> item.name, changed |-> item.changed]])
    ELSE rows

\* A change of a name is on record.
Recorded(rows, item, named) ==
    item.code \in DOMAIN rows /\ rows[item.code].name # item.name => \E c \in named : c[1] = item.code

\* One entry more: records that hold the newest of what was stored hold the newest of that
\* and the entry, if it replaces what should be replaced.
LEMMA NewestGrows ==
    ASSUME NEW rows \in Records, NEW named, NEW entered, entered \subseteq Item, NEW item \in Item,
           MaxChanged \in Nat, Newest(rows, named, entered),
           NEW conflict, Recorded(rows, item, conflict)
    PROVE  /\ Replaced(rows, item) \in Records
           /\ DOMAIN Replaced(rows, item) = DOMAIN rows \cup {item.code}
           /\ Newest(Replaced(rows, item), named \cup conflict, entered \cup {item})
<1> DEFINE after == Replaced(rows, item)
<1>0. PICK k \in Code, n \in Name, d \in Changed :
          item = [code |-> k, name |-> n, changed |-> d]
  BY DEF Item
<1>1. item.code = k /\ item.name = n /\ item.changed = d /\ d \in Nat
  BY <1>0 DEF Changed
<1>2. DOMAIN rows \subseteq Code /\ \A c \in DOMAIN rows : rows[c] \in Record
  BY DEF Records
<1>3. \A c \in DOMAIN rows : rows[c].changed \in Nat /\ rows[c].name \in Name
  BY <1>2 DEF Record, Changed
<1>4. \A other \in entered : other.changed \in Nat /\ other.code \in Code
  BY DEF Item, Changed
<1>5. PICK r : r = [name |-> n, changed |-> d]
  OBVIOUS
<1>6. r \in Record /\ r.name = n /\ r.changed = d
  BY <1>5 DEF Record
<1>7. ASSUME k \notin DOMAIN rows \/ ShouldReplace(rows[k].changed, d)
      PROVE  /\ after \in Records
             /\ DOMAIN after = DOMAIN rows \cup {k}
             /\ Newest(after, named \cup conflict, entered \cup {item})
  <2>1. after = [c \in DOMAIN rows \cup {k} |-> IF c \in {k} THEN r ELSE rows[c]]
    BY <1>1, <1>5, <1>7 DEF Merged, Replaced
  <2>2. /\ DOMAIN after = DOMAIN rows \cup {k}
        /\ after[k] = r
        /\ \A c \in DOMAIN rows : c # k => after[c] = rows[c]
    BY <2>1
  <2>3. after \in Records
    <3>1. after \in [DOMAIN rows \cup {k} -> Record]
      BY <1>2, <1>6, <2>1
    <3>2. DOMAIN rows \cup {k} \in SUBSET Code
      BY <1>2
    <3> QED BY <3>1, <3>2 DEF Records
  <2>4. ASSUME NEW c \in DOMAIN after
        PROVE  [code |-> c, name |-> after[c].name, changed |-> after[c].changed] \in entered \cup {item}
    <3>1. CASE c = k
      BY <1>0, <1>6, <2>2, <3>1
    <3>2. CASE c # k
      BY <2>2, <3>2 DEF Newest
    <3> QED BY <3>1, <3>2
  <2>5. k \in DOMAIN rows => rows[k].changed <= d
    BY <1>1, <1>3, <1>7 DEF ShouldReplace
  <2>6. ASSUME NEW other \in entered \cup {item}
        PROVE  /\ other.code \in DOMAIN after
               /\ other.changed <= after[other.code].changed
               /\ other.name # after[other.code].name =>
                      \E c \in named \cup conflict : c[1] = other.code
    <3>1. CASE other = item
      BY <1>1, <1>6, <2>2, <3>1
    <3>2. CASE other \in entered /\ other.code # k
      BY <2>2, <3>2 DEF Newest
    <3>3. CASE other \in entered /\ other.code = k
      <4>1. k \in DOMAIN rows /\ other.changed <= rows[k].changed
            /\ (other.name # rows[k].name => \E c \in named : c[1] = k)
        BY <3>3 DEF Newest
      <4>2. other.changed <= d
        BY <1>1, <1>3, <1>4, <2>5, <3>3, <4>1
      <4>3. other.name # n => \E c \in named \cup conflict : c[1] = k
        BY <1>1, <4>1 DEF Recorded
      <4> QED BY <1>6, <2>2, <3>3, <4>2, <4>3
    <3> QED BY <3>1, <3>2, <3>3
  <2> QED BY <2>2, <2>3, <2>4, <2>6 DEF Newest
<1>8. ASSUME k \in DOMAIN rows, ~ShouldReplace(rows[k].changed, d)
      PROVE  /\ after \in Records
             /\ DOMAIN after = DOMAIN rows \cup {k}
             /\ Newest(after, named \cup conflict, entered \cup {item})
  <2>1. after = rows /\ DOMAIN rows = DOMAIN rows \cup {k}
    BY <1>1, <1>8 DEF Replaced
  <2>2. d <= rows[k].changed
    BY <1>1, <1>3, <1>8 DEF ShouldReplace
  <2>3. n # rows[k].name => \E c \in named \cup conflict : c[1] = k
    BY <1>1, <1>8 DEF Recorded
  <2> QED BY <1>1, <1>8, <2>1, <2>2, <2>3 DEF Newest
<1> QED BY <1>1, <1>7, <1>8

LEMMA StoreItemHolds ==
    ASSUME StoreAssumption, StoreInv, StoreItem
    PROVE  StoreInv'
<1>1. /\ StoreTypeOK /\ job \in Command /\ JobOK(job) /\ job # Null /\ job.pc = "store"
      /\ job.item <= Len(job.items) /\ starts' \in 0..MaxStarts /\ DraftOK(job)
  BY DEF StoreInv, StoreTypeOK, StoreItem, JobOK
<1>2. /\ job.items \in Seq(Item) /\ job.item \in Nat /\ job.records \in Records /\ job.dataset \in Dataset
      /\ job.conflicts \in SUBSET Conflict
  BY <1>1 DEF Command
<1>3. PICK m : m = job.item
  OBVIOUS
<1>4. m \in Nat /\ 1 <= m /\ m <= Len(job.items) /\ m \in DOMAIN job.items
  BY <1>1, <1>2, <1>3 DEF DraftOK
<1>5. PICK item \in Item : item = job.items[m]
  BY <1>2, <1>4
<1>6. PICK rows \in Records : rows = job.records
  BY <1>2
<1>7. PICK C : C = (IF item.code \in DOMAIN rows /\ rows[item.code].name # item.name
                    THEN job.conflicts \cup {<<item.code, rows[item.code].name, item.name>>}
                    ELSE job.conflicts)
  OBVIOUS
<1>8. PICK after : after = Replaced(rows, item)
  OBVIOUS
<1>9. PICK j : j = [job EXCEPT !.item = m + 1, !.records = after, !.conflicts = C]
  OBVIOUS
<1>10. job' = j
  BY <1>3, <1>5, <1>6, <1>7, <1>8, <1>9 DEF StoreItem, Replaced
<1>11. C \in SUBSET Conflict /\ job.conflicts \subseteq C
  <2>1. ASSUME item.code \in DOMAIN rows
        PROVE  <<item.code, rows[item.code].name, item.name>> \in Conflict
    <3>1. item.code \in Code /\ item.name \in Name /\ rows[item.code].name \in Name
      BY <2>1 DEF Item, Records, Record
    <3> QED BY <3>1 DEF Conflict
  <2> QED BY <1>2, <1>7, <2>1
<1>12. Recorded(rows, item, C)
  <2>1. <<item.code, rows[item.code].name, item.name>>[1] = item.code
    OBVIOUS
  <2> QED BY <1>7, <2>1 DEF Recorded
<1>13. PICK named, entered : /\ named = nameConflicts[job.dataset] \cup job.conflicts
                            /\ entered = seen[job.dataset] \cup Entered(job)
  OBVIOUS
<1>14. Newest(rows, named, entered) /\ entered \in SUBSET Item /\ MaxChanged \in Nat
  <2>1. Entered(job) \subseteq Item
    BY <1>2, <1>3, <1>4 DEF Entered
  <2>2. seen[job.dataset] \subseteq Item
    BY <1>1, <1>2 DEF StoreTypeOK
  <2> QED BY <1>1, <1>6, <1>13, <2>1, <2>2 DEF DraftOK, StoreAssumption
<1>15. /\ after \in Records
       /\ DOMAIN after = DOMAIN rows \cup {item.code}
       /\ Newest(after, named \cup C, entered \cup {item})
  <2> HIDE DEF StoreItem
  <2>1. entered \subseteq Item /\ MaxChanged \in Nat /\ Newest(rows, named, entered)
    BY <1>14
  <2>2. /\ Replaced(rows, item) \in Records
        /\ DOMAIN Replaced(rows, item) = DOMAIN rows \cup {item.code}
        /\ Newest(Replaced(rows, item), named \cup C, entered \cup {item})
    BY <1>5, <1>6, <1>12, <2>1, NewestGrows, ZenonT(60)
  <2> QED BY <1>8, <2>2
<1>16. j \in Command
  <2>1. m + 1 \in Nat /\ after \in Records /\ C \in SUBSET Conflict
    BY <1>4, <1>11, <1>15
  <2> QED BY <1>1, <1>9, <2>1 DEF Command
<1>17. /\ j.pc = "store" /\ j.total = job.total /\ j.items = job.items /\ j.item = m + 1
       /\ j.records = after /\ j.conflicts = C /\ j.window = job.window /\ j.windows = job.windows
       /\ j.dataset = job.dataset /\ j.mode = job.mode /\ j.page = job.page /\ j.pages = job.pages
  BY <1>1, <1>9 DEF Command
<1>18. DraftOK(j)
  <2>1. Entered(j) = Entered(job) \cup {item}
    <3>1. 1..((m + 1) - 1) = (1..(m - 1)) \cup {m}
      BY <1>4
    <3> QED BY <1>3, <1>5, <1>17, <3>1 DEF Entered
  <2>2. entered \cup {item} = seen[j.dataset] \cup Entered(j)
    BY <1>13, <1>17, <2>1
  <2>3. named \cup C = nameConflicts[j.dataset] \cup j.conflicts
    BY <1>11, <1>13, <1>17
  <2>4. Newest(j.records, nameConflicts[j.dataset] \cup j.conflicts, seen[j.dataset] \cup Entered(j))
    BY <1>15, <1>17, <2>2, <2>3
  <2>5. DOMAIN records[j.dataset] \subseteq DOMAIN j.records
    BY <1>1, <1>6, <1>15, <1>17 DEF DraftOK
  <2>6. 1 <= j.item /\ j.item <= Len(j.items) + 1
    BY <1>2, <1>4, <1>17
  <2> QED BY <1>1, <1>17, <2>4, <2>5, <2>6 DEF DraftOK
<1>19. JobOK(j)
  BY <1>1, <1>17, <1>18 DEF JobOK
<1> QED BY <1>1, <1>10, <1>16, <1>19, JobMoves DEF StoreItem

\* The commit: what the page held is stored, so the checkpoint may move behind it.
LEMMA StorePageHolds ==
    ASSUME MasterAssumption, StoreAssumption, StoreInv, StorePage
    PROVE  StoreInv'
<1>0. PageRows \in Nat \ {0}
  BY DEF MasterAssumption
<1>1. /\ StoreTypeOK /\ job \in Command /\ JobOK(job) /\ job # Null /\ job.pc = "store"
      /\ job.item > Len(job.items) /\ DraftOK(job)
  BY DEF StoreInv, StoreTypeOK, StorePage, JobOK
<1>2. PICK w \in Window, d \in Dataset : w = job.window /\ d = job.dataset
  BY <1>1 DEF JobOK, Command
<1>3. /\ job.items \in Seq(Item) /\ job.item \in Nat /\ job.records \in Records
      /\ job.conflicts \in SUBSET Conflict /\ job.total \in Nat /\ job.page \in Nat /\ job.pages \in Nat
      /\ job.mode \in {"plan", "collect"} /\ job.windows \subseteq Window
  BY <1>1 DEF Command
<1>4. PICK p \in Nat, t \in Nat, R \in Records : p = job.page /\ t = job.total /\ R = job.records
  BY <1>3
<1>5. w[1] = d /\ 1 <= p /\ p <= job.pages /\ t <= Len(catalogue[w]) /\ DOMAIN records[d] \subseteq DOMAIN R
  BY <1>1, <1>2, <1>4 DEF JobOK, DraftOK
<1>6. catalogue[w] \in Seq(Item)
  BY <1>1 DEF StoreTypeOK
<1>7. PICK a \in Nat, z \in Nat : a = (p - 1) * PageRows /\ z = p * PageRows /\ z = a + PageRows
  <2>1. (p - 1) * PageRows \in Nat /\ p * PageRows \in Nat
    BY <1>0, <1>4, <1>5
  <2>2. p * PageRows = (p - 1) * PageRows + PageRows
    BY <1>0, <1>4
  <2> QED BY <2>1, <2>2
<1>8. PICK NC \in SUBSET Conflict : NC = nameConflicts[d] \cup job.conflicts
  <2>1. nameConflicts[d] \in SUBSET Conflict
    BY <1>1 DEF StoreTypeOK
  <2> QED BY <1>3, <2>1
<1>9. Entered(job) = ToSet(job.items) /\ ToSet(job.items) \subseteq Item
  <2>1. job.item - 1 = Len(job.items)
    BY <1>1, <1>3 DEF DraftOK
  <2> QED BY <1>3, <2>1 DEF Entered, ToSet
<1>10. PICK S \in SUBSET Item : S = seen[d] \cup ToSet(job.items)
  <2>1. seen[d] \in SUBSET Item
    BY <1>1 DEF StoreTypeOK
  <2> QED BY <1>9, <2>1
<1>11. Newest(R, NC, S)
  BY <1>1, <1>2, <1>4, <1>8, <1>9, <1>10 DEF DraftOK
<1>12. PICK cp : cp = [total |-> t, pages |-> PagesOf(t), next |-> p + 1,
                       complete |-> MarksComplete(p + 1, PagesOf(t))]
  OBVIOUS
<1>13. PICK q \in Nat : q = PagesOf(t)
  BY <1>4, PagesHold
<1>a. PICK full \in BOOLEAN : full = MarksComplete(p + 1, q)
  BY DEF MarksComplete
<1>14. /\ cp \in Checkpoint /\ cp.total = t /\ cp.pages = PagesOf(t) /\ cp.next = p + 1
       /\ (cp.complete <=> (q = 0 \/ p + 1 > q))
  <2>1. cp = [total |-> t, pages |-> q, next |-> p + 1, complete |-> full]
    BY <1>12, <1>13, <1>a
  <2>2. p + 1 \in Nat
    BY <1>4
  <2>3. full <=> (q = 0 \/ p + 1 > q)
    BY <1>a DEF MarksComplete
  <2> QED BY <1>4, <1>13, <2>1, <2>2, <2>3 DEF Checkpoint
<1>15. /\ records' = [records EXCEPT ![d] = R]
       /\ nameConflicts' = [nameConflicts EXCEPT ![d] = NC]
       /\ progress' = [progress EXCEPT ![w] = cp]
       /\ seen' = [seen EXCEPT ![d] = S]
       /\ catalogue' = catalogue /\ changes' = changes /\ starts' = starts
  BY <1>2, <1>4, <1>8, <1>10, <1>12 DEF StorePage
<1>16. /\ records' \in [Dataset -> Records] /\ records'[d] = R
       /\ \A e \in Dataset : e # d => records'[e] = records[e]
       /\ \A e \in Dataset : DOMAIN records[e] \subseteq DOMAIN records'[e]
  BY <1>1, <1>2, <1>5, <1>15 DEF StoreTypeOK
<1>17. /\ progress' \in [Window -> Checkpoint \cup {Null}] /\ progress'[w] = cp
       /\ \A v \in Window : v # w => progress'[v] = progress[v]
  BY <1>1, <1>14, <1>15 DEF StoreTypeOK
<1>18. /\ nameConflicts' \in [Dataset -> SUBSET Conflict] /\ nameConflicts'[d] = NC
       /\ seen' \in [Dataset -> SUBSET Item] /\ seen'[d] = S
       /\ \A e \in Dataset : e # d => nameConflicts'[e] = nameConflicts[e] /\ seen'[e] = seen[e]
  BY <1>1, <1>15 DEF StoreTypeOK
<1>19. \A e \in Dataset : Newest(records[e], nameConflicts[e], seen[e])'
  <2>1. ASSUME NEW e \in Dataset PROVE Newest(records'[e], nameConflicts'[e], seen'[e])
    <3>1. CASE e = d
      BY <1>11, <1>16, <1>18, <3>1
    <3>2. CASE e # d
      BY <1>16, <1>18, <3>2 DEF StoreInv
    <3> QED BY <3>1, <3>2
  <2> QED BY <2>1
<1>20. ASSUME NEW v \in Window, NEW n, StoredUpTo(v, n) PROVE StoredUpTo(v, n)'
  <2>1. v[1] \in Dataset
    BY DEF Window
  <2> QED BY <1>15, <1>16, <1>20, <2>1 DEF StoredUpTo
\* Through the page, or to the end of what the service reported.
<1>21. ASSUME NEW n \in Int, n <= z, n <= t PROVE StoredUpTo(w, n)'
  <2>1. StoredUpTo(w, a)
    BY <1>1, <1>2, <1>4, <1>5, <1>7 DEF JobOK
  <2>2. ASSUME NEW k \in DOMAIN catalogue[w], k <= n
        PROVE  catalogue[w][k].code \in DOMAIN R
    <3>0. k \in Nat
      BY <1>6
    <3>1. CASE k <= a
      BY <1>5, <2>1, <3>1 DEF StoredUpTo
    <3>2. CASE a < k
      <4>1. k <= z /\ k <= t
        BY <1>4, <1>7, <1>21, <2>2, <3>0
      <4>2. k - a \in DOMAIN job.items /\ job.items[k - a].code = catalogue[w][k].code
        BY <1>1, <1>2, <1>4, <1>7, <3>2, <4>1 DEF DraftOK
      <4>3. job.items[k - a] \in Entered(job)
        BY <1>9, <4>2 DEF ToSet
      <4>4. job.items[k - a] \in S
        BY <1>9, <1>10, <4>3
      <4> QED BY <1>11, <4>2, <4>4 DEF Newest
    <3> QED BY <1>7, <3>0, <3>1, <3>2
  <2> QED BY <1>5, <1>15, <1>16, <2>2 DEF StoredUpTo
<1>22. ASSUME NEW v \in Window PROVE CheckpointOK(v)'
  <2>1. CASE v # w
    <3>1. progress'[v] = progress[v] /\ catalogue' = catalogue /\ CheckpointOK(v)
      BY <1>15, <1>17, <2>1 DEF StoreInv
    <3> QED BY <1>20, <3>1 DEF CheckpointOK
  <2>2. CASE v = w
    <3>1. ASSUME cp.complete PROVE StoredUpTo(w, t)'
      <4>1. t <= q * PageRows /\ q <= p
        <5>1. t <= PagesOf(t) * PageRows
          BY <1>4, PagesHold
        <5>2. q = 0 \/ p + 1 > q
          BY <1>14, <3>1
        <5> QED BY <1>4, <1>13, <5>1, <5>2
      <4>2. q * PageRows <= p * PageRows
        BY <1>0, <1>4, <1>13, <4>1, Times
      <4>3. q * PageRows \in Nat
        BY <1>0, <1>13
      <4>4. t <= z
        BY <1>4, <1>7, <4>1, <4>2, <4>3
      <4> QED BY <1>4, <1>21, <4>4
    <3>2. ASSUME ~cp.complete PROVE p + 1 <= q /\ StoredUpTo(w, p * PageRows)'
      <4>1. p + 1 <= q
        <5>1. ~(q = 0 \/ p + 1 > q)
          BY <1>14, <3>2
        <5> QED BY <1>4, <1>13, <5>1
      <4>2. ((p + 1) - 1) * PageRows < t
        <5>1. \A k \in Nat : k <= PagesOf(t) => (k - 1) * PageRows < t
          BY <1>4, PagesHold
        <5>2. p + 1 \in Nat
          BY <1>4
        <5> QED BY <1>13, <4>1, <5>1, <5>2
      <4>3. (p + 1) - 1 = p
        BY <1>4
      <4>4. z < t
        BY <1>7, <4>2, <4>3
      <4>5. StoredUpTo(w, z)'
        BY <1>4, <1>7, <1>21, <4>4
      <4> QED BY <1>7, <4>1, <4>5
    <3>3. (p + 1) - 1 = p /\ 1 <= p + 1
      BY <1>4
    <3>4. t <= Len(catalogue'[w])
      BY <1>5, <1>15
    <3> QED BY <1>13, <1>14, <1>17, <2>2, <3>1, <3>2, <3>3, <3>4 DEF CheckpointOK
  <2> QED BY <2>1, <2>2
<1>23. ASSUME NEW v \in job.windows
       PROVE  /\ v[1] = d /\ v # w /\ progress'[v] = progress[v]
              /\ job.mode = "collect" => progress'[v] # Null /\ ~progress'[v].complete
  BY <1>1, <1>2, <1>3, <1>17 DEF JobOK
<1>24. PICK E, B, N : E = <<>> /\ B = NoRows /\ N = {}
  OBVIOUS
<1>25. E \in Seq(Item) /\ B \in Records /\ N \in SUBSET Conflict
  BY <1>24 DEF NoRows, Records
<1>26. job' \in Command /\ JobOK(job)'
  <2>1. CASE job.mode = "plan"
    <3>1. PICK j : j = [job EXCEPT !.pc = "window", !.items = E, !.records = B, !.conflicts = N]
      OBVIOUS
    <3>2. job' = j
      BY <1>24, <2>1, <3>1 DEF StorePage
    <3>3. j \in Command
      BY <1>1, <1>25, <3>1 DEF Command
    <3>4. j.pc = "window" /\ j.windows = job.windows /\ j.dataset = d /\ j.mode = "plan"
      BY <1>1, <1>2, <2>1, <3>1 DEF Command
    <3>5. JobOK(j)'
      BY <1>23, <3>4 DEF JobOK
    <3> QED BY <3>2, <3>3, <3>5
  <2>2. CASE job.mode = "collect"
    <3>1. PICK j : j = [job EXCEPT !.pc = "page", !.page = p + 1, !.items = E, !.records = B, !.conflicts = N]
      OBVIOUS
    <3>2. job' = j
      BY <1>4, <1>24, <2>2, <3>1 DEF StorePage
    <3>3. j \in Command
      <4>1. p + 1 \in Nat
        BY <1>4
      <4> QED BY <1>1, <1>25, <3>1, <4>1 DEF Command
    <3>4. /\ j.pc = "page" /\ j.windows = job.windows /\ j.dataset = d /\ j.mode = "collect"
          /\ j.window = w /\ j.page = p + 1 /\ j.pages = job.pages
      BY <1>1, <1>2, <2>2, <3>1 DEF Command
    <3>5. PICK m \in Int : m = (job.pages - 1) * PageRows
      BY <1>0, <1>3
    <3>6. m < t /\ m < Len(catalogue[w])
      BY <1>1, <1>2, <1>4, <2>2, <3>5 DEF JobOK, DraftOK
    <3>7. ASSUME p + 1 <= job.pages PROVE StoredUpTo(w, p * PageRows)'
      \* All pages but the last were full when the command began, so this one is.
      <4>1. p <= job.pages - 1
        BY <1>3, <1>4, <3>7
      <4>2. p * PageRows <= (job.pages - 1) * PageRows
        <5>1. p \in Int /\ job.pages - 1 \in Int /\ PageRows \in Nat
          BY <1>0, <1>3, <1>4
        <5> QED BY <4>1, <5>1, Times
      <4>3. z <= t
        BY <1>4, <1>7, <3>5, <3>6, <4>2
      <4>4. StoredUpTo(w, z)'
        BY <1>7, <1>21, <4>3
      <4> QED BY <1>7, <4>4
    <3>8. (p + 1) - 1 = p /\ 1 <= p + 1
      BY <1>4
    <3>9. JobOK(j)'
      BY <1>2, <1>5, <1>15, <1>23, <2>2, <3>4, <3>5, <3>6, <3>7, <3>8 DEF JobOK
    <3> QED BY <3>2, <3>3, <3>9
  <2> QED BY <1>3, <2>1, <2>2
<1>27. StoreTypeOK'
  BY <1>1, <1>15, <1>16, <1>17, <1>18, <1>26 DEF StoreTypeOK
<1> QED BY <1>19, <1>22, <1>26, <1>27 DEF StoreInv

\* What the two commands do keeps what is invariant.
LEMMA StoreInvHolds ==
    ASSUME MasterAssumption, StoreAssumption, StoreInv, [CodesNext]_<<masterVars, storeVars>>
    PROVE  StoreInv'
<1>1. CASE MasterNext /\ UNCHANGED storeVars
  BY <1>1, MasterLeavesStore
<1>2. CASE StoreNext
  <2>1. ASSUME NEW i \in 1..MaxAmended PROVE i \in Nat
    BY DEF StoreAssumption
  <2> QED BY <1>2, <2>1, PublishHolds, AmendHolds, StartJobHolds, NextWindowHolds, RequestPageHolds,
          JobEnds, StoreItemHolds, StorePageHolds, LeaveWindowHolds DEF StoreNext, Changed
<1>3. CASE UNCHANGED <<masterVars, storeVars>>
  BY <1>3, MasterLeavesStore
<1> QED BY <1>1, <1>2, <1>3 DEF CodesNext

\* Windows, checkpoints, transactions and what was stored fit together, however often a
\* command is interrupted and whatever the services add and change meanwhile.
THEOREM StoreInvariance ==
    ASSUME MasterAssumption, StoreAssumption
    PROVE  CodesSpec => []StoreInv
<1>1. MasterInit /\ StoreInit => StoreInv
  BY StoreInitHolds
<1>2. StoreInv /\ [CodesNext]_<<masterVars, storeVars>> => StoreInv'
  BY StoreInvHolds
<1> QED BY <1>1, <1>2, PTL DEF CodesSpec

\* A window that is marked complete has been stored up to the number of entries that its
\* last page reported (store_page, collect_dataset).
THEOREM CompleteWindowsAreWhole ==
    ASSUME MasterAssumption, StoreAssumption
    PROVE  CodesSpec => []WholeWhenComplete
<1>1. StoreInv => WholeWhenComplete
  <2> SUFFICES ASSUME StoreInv, NEW w \in Window, progress[w] # Null, progress[w].complete,
                      NEW k \in 1..progress[w].total
               PROVE  catalogue[w][k].code \in DOMAIN records[w[1]]
    BY DEF WholeWhenComplete
  <2>1. CheckpointOK(w) /\ progress[w] \in Checkpoint /\ catalogue[w] \in Seq(Item)
    BY DEF StoreInv, StoreTypeOK
  <2>2. progress[w].total \in Nat /\ progress[w].total <= Len(catalogue[w])
    BY <2>1 DEF Checkpoint, CheckpointOK
  <2> QED BY <2>1, <2>2 DEF CheckpointOK, StoredUpTo
<1> QED BY <1>1, StoreInvariance, PTL

\* The record of a code is the newest that was stored, in whichever order pages were read,
\* and every change of its name is on record (should_replace, store_page).
THEOREM NewestChangesKept ==
    ASSUME MasterAssumption, StoreAssumption
    PROVE  CodesSpec => []NewestChangeKept
<1>1. StoreInv => NewestChangeKept
  <2> SUFFICES ASSUME StoreInv, NEW d \in Dataset, NEW item \in seen[d]
               PROVE  /\ item.code \in DOMAIN records[d]
                      /\ LET record == records[d][item.code]
                         IN  /\ item.changed <= record.changed
                             /\ [code |-> item.code, name |-> record.name, changed |-> record.changed] \in seen[d]
                             /\ item.name # record.name => \E c \in nameConflicts[d] : c[1] = item.code
    BY DEF NewestChangeKept
  <2> QED BY DEF StoreInv, Newest
<1> QED BY <1>1, StoreInvariance, PTL

-----------------------------------------------------------------------------
(* CodeMaster: what is invariant *)

\* An entry whose license code need not be in the file, or is.
Covered(i) == i \in excused \/ listing[i].code \in DOMAIN file["license"].rows

\* Nor has it, while no process has died, an older name than this entry gave it.
Good(i) ==
    \/ i \in excused
    \/ /\ listing[i].code \in DOMAIN file["license"].rows
       /\ deaths = 0 => \E j \in DOMAIN listing :
              /\ i <= j /\ listing[j].licensed /\ listing[j].code = listing[i].code
              /\ listing[j].name = file["license"].rows[listing[i].code]

Licensed(t) == {i \in DOMAIN listing : listing[i].licensed /\ listing[i].at < t}

\* Of a window, the entries before a time that have one of the first n places.
WindowGood(w, t, n) == \A i \in Licensed(t) \cap Contents(w) : Place(w, i) <= n => Good(i)
WindowFits(w, t, n) == \A i \in Contents(w) : listing[i].at < t => i \in excused \/ Place(w, i) <= n

\* The time before which nothing is added to the window of a run: a window that was left in
\* the middle was the last one of its run.
Horizon(r) == IF ~r.resumed /\ r.window.end < r.end THEN r.window.end + 1 ELSE r.window.end

\* Pages that are merged, and how far entries are good.
MergedPages(r) == IF r.pc \in {"industry", "save"} THEN r.page ELSE r.page - 1

Paging == {"page", "license", "industry", "save"}

ListingOK == \A i, j \in DOMAIN listing : i <= j => listing[i].at <= listing[j].at /\ listing[j].at <= clock

FilesOK ==
    /\ deaths = 0 => \A f \in File : file[f].readable
    /\ \A f \in File : file[f].written # Null => file[f].written <= clock

ResumeOK(m) ==
    /\ m.window.start <= m.window.end
    /\ 2 <= m.next /\ 1 <= m.pages
    /\ \A i \in Licensed(m.window.start) : Good(i)
    /\ WindowGood(m.window, m.window.end, (m.next - 1) * PageRows)
    /\ WindowFits(m.window, m.window.end, m.pages * PageRows)

RunOK(r) ==
    /\ r.pc = "window" /\ ~r.first => state.resume = Null
    /\ r.pc = "window" /\ state.resume = Null /\ r.cursor <= r.end => \A i \in Licensed(r.cursor) : Good(i)
    /\ r.pc \in Paging =>
          /\ r.window \in Period /\ 1 <= r.page /\ 1 <= r.pages
          /\ r.window.start <= r.window.end /\ (r.resumed \/ r.window.end <= r.end)
          /\ r.pc # "page" => r.page <= r.pages
          /\ r.page = 1 => state.resume = Null /\ ~r.resumed
          /\ r.page > 1 => state.resume = [window |-> r.window, next |-> r.page, pages |-> r.pages]
          /\ \A i \in Licensed(r.window.start) : Good(i)
          /\ WindowGood(r.window, Horizon(r), MergedPages(r) * PageRows)
          /\ r.page > 1 \/ r.pc # "page" => WindowFits(r.window, Horizon(r), r.pages * PageRows)
    /\ r.pc \in {"license", "industry", "save"} =>
          /\ r.items \subseteq PageOf(r.window, r.page)
          /\ \A i \in PageOf(r.window, r.page) :
                 listing[i].at < Horizon(r) => i \in r.items \cup excused

\* While nothing is merged, what is complete has its latest names.
Quiet == state.resume = Null /\ (run = Null \/ run.pc \in {"window", "page", "license"})

CompletedOK ==
    state.completed # Null =>
        /\ \A i \in Licensed(state.completed) : Covered(i)
        /\ Quiet => \A i \in Licensed(state.completed) : Good(i)

MasterInv ==
    /\ MasterTypeOK
    /\ ListingOK
    /\ FilesOK
    /\ state.resume # Null => ResumeOK(state.resume)
    /\ run # Null => RunOK(run)
    /\ CompletedOK

\* The least and the greatest of a set of entries.
LEMMA GreatestIndex ==
    ASSUME NEW n \in Nat, NEW S \in SUBSET (1..n), S # {}
    PROVE  \E i \in S : \A j \in S : j <= i
<1>1. PICK T : T = {n - i : i \in S}
  OBVIOUS
<1>0. T \subseteq Nat
  <2>1. \A i \in S : n - i \in Nat
    OBVIOUS
  <2> QED BY <1>1, <2>1
<1>2. T # {}
  BY <1>1
<1>3. PICK t \in T : \A u \in T : ~(<<u, t>> \in OpToRel(<, Nat))
  BY <1>0, <1>2, NatLessThanWellFounded, WFMin
<1>4. PICK i \in S : t = n - i
  BY <1>1, <1>3
<1>5. ASSUME NEW j \in S PROVE j <= i
  <2>1. n - j \in T /\ n - j \in Nat /\ t \in Nat
    BY <1>0, <1>1
  <2>2. ~(n - j < t)
    BY <1>3, <2>1 DEF OpToRel
  <2> QED BY <1>4, <2>2
<1> QED BY <1>5

\* Times up to which a command has read or is to read.  They may be still to come.
Reading(t) ==
    \/ state.completed # Null /\ t <= state.completed
    \/ state.resume # Null /\ t <= state.resume.window.end
    \/ run # Null /\ t <= run.end

\* What is added before such a time is excused.
Passed(t) == \A i \in DOMAIN listing' : i \notin DOMAIN listing /\ listing'[i].at < t => i \in excused'

\* Entries are only added, at the end.
Grown ==
    /\ listing' \in Seq(Entry)
    /\ excused \subseteq excused'
    /\ \A i \in DOMAIN listing : i \in DOMAIN listing' /\ listing'[i] = listing[i]
    /\ \A i \in DOMAIN listing' : i \notin DOMAIN listing => \A j \in DOMAIN listing : j < i
    /\ \A t \in Nat : Reading(t) => Passed(t)

\* What is good stays so.
GoodStays == \A i \in DOMAIN listing : Good(i) => Good(i)'

LEMMA EntryTypes ==
    ASSUME MasterAssumption, MasterTypeOK
    PROVE  /\ clock \in Nat /\ DOMAIN listing \subseteq Nat /\ PageRows \in Nat \ {0}
           /\ \A i \in DOMAIN listing : listing[i] \in Entry /\ listing[i].at \in Nat
           /\ Minute \subseteq Nat
<1>1. clock \in Nat /\ PageRows \in Nat \ {0} /\ Minute \subseteq Nat
  BY DEF MasterAssumption, MasterTypeOK, Minute
<1>2. \A i \in DOMAIN listing : listing[i] \in Entry /\ i \in Nat
  BY DEF MasterTypeOK
<1> QED BY <1>1, <1>2 DEF Entry

LEMMA NewEntries ==
    ASSUME MasterAssumption, MasterTypeOK, Grown, NEW i \in DOMAIN listing'
    PROVE  listing'[i] \in Entry /\ listing'[i].at \in Nat /\ i \in Nat
<1>1. listing'[i] \in Entry /\ i \in Nat
  BY DEF Grown
<1>2. listing'[i].at \in Minute
  BY <1>1 DEF Entry
<1> QED BY <1>1, <1>2, EntryTypes

\* Entries keep their places.
LEMMA PlacesStay ==
    ASSUME MasterAssumption, MasterTypeOK, Grown, NEW w, NEW i \in DOMAIN listing
    PROVE  /\ i \in Contents(w)' <=> i \in Contents(w)
           /\ Place(w, i)' = Place(w, i)
<1>1. \A j \in DOMAIN listing : j \in Contents(w)' <=> j \in Contents(w)
  BY DEF Contents, Grown
<1>2. ASSUME NEW j \in DOMAIN listing', j <= i PROVE j \in DOMAIN listing
  <2>1. i \in Nat /\ j \in Nat
    BY EntryTypes DEF Grown
  <2> QED BY <1>2, <2>1 DEF Grown
<1>3. Contents(w)' \subseteq DOMAIN listing' /\ Contents(w) \subseteq DOMAIN listing
  BY DEF Contents
<1>4. {j \in Contents(w)' : j <= i} = {j \in Contents(w) : j <= i}
  BY <1>1, <1>2, <1>3
<1> QED BY <1>1, <1>4 DEF Place

\* What is said of the entries before a time stays true if what is added before it is excused.
LEMMA ClaimsStay ==
    ASSUME MasterAssumption, MasterTypeOK, Grown, GoodStays,
           NEW w, NEW t \in Nat, Passed(t), NEW n
    PROVE  /\ (\A i \in Licensed(t) : Good(i)) => (\A i \in Licensed(t) : Good(i))'
           /\ WindowGood(w, t, n) => WindowGood(w, t, n)'
           /\ WindowFits(w, t, n) => WindowFits(w, t, n)'
<1>1. ASSUME NEW i \in Licensed(t)'
      PROVE  i \in Licensed(t) \/ Good(i)'
  <2>1. CASE i \in DOMAIN listing
    BY <2>1 DEF Licensed, Grown
  <2>2. CASE i \notin DOMAIN listing
    BY <2>2 DEF Licensed, Passed, Good
  <2> QED BY <2>1, <2>2
<1>2. Licensed(t) \subseteq DOMAIN listing
  BY DEF Licensed
<1>3. \A i \in DOMAIN listing :
         /\ i \in Contents(w)' <=> i \in Contents(w)
         /\ Place(w, i)' = Place(w, i)
  BY PlacesStay
<1>4. (\A i \in Licensed(t) : Good(i)) => (\A i \in Licensed(t) : Good(i))'
  BY <1>1, <1>2 DEF GoodStays
<1>5. WindowGood(w, t, n) => WindowGood(w, t, n)'
  BY <1>1, <1>2, <1>3 DEF WindowGood, GoodStays
<1>6. ASSUME WindowFits(w, t, n), NEW i \in Contents(w)', listing'[i].at < t
      PROVE  i \in excused' \/ Place(w, i)' <= n
  <2>1. i \in DOMAIN listing'
    BY DEF Contents
  <2>2. CASE i \in DOMAIN listing
    BY <1>3, <1>6, <2>2 DEF WindowFits, Grown
  <2>3. CASE i \notin DOMAIN listing
    BY <1>6, <2>1, <2>3 DEF Passed
  <2> QED BY <2>2, <2>3
<1>7. WindowFits(w, t, n) => WindowFits(w, t, n)'
  BY <1>6 DEF WindowFits
<1> QED BY <1>4, <1>5, <1>7

\* The entries on a page stay on it, and the others before such a time were on it.
LEMMA PagesStay ==
    ASSUME MasterAssumption, MasterTypeOK, Grown, NEW w, NEW p, NEW t \in Nat, Passed(t)
    PROVE  /\ PageOf(w, p) \subseteq PageOf(w, p)'
           /\ \A i \in PageOf(w, p)' : listing'[i].at < t =>
                  i \in excused' \/ (i \in PageOf(w, p) /\ listing'[i] = listing[i])
<1>1. \A i \in DOMAIN listing :
         /\ i \in Contents(w)' <=> i \in Contents(w)
         /\ Place(w, i)' = Place(w, i)
  BY PlacesStay
<1>2. Contents(w)' \subseteq DOMAIN listing' /\ Contents(w) \subseteq DOMAIN listing
  BY DEF Contents
<1> QED BY <1>1, <1>2 DEF PageOf, Grown, Passed

\* What is added before an earlier time is added before a later one.
LEMMA PassedEarlier ==
    ASSUME MasterAssumption, MasterTypeOK, Grown, NEW s \in Nat, NEW t \in Nat, s <= t, Passed(t)
    PROVE  Passed(s)
<1>1. \A i \in DOMAIN listing' : listing'[i].at \in Nat
  BY NewEntries
<1> QED BY <1>1 DEF Passed

LEMMA ResumeStays ==
    ASSUME MasterAssumption, MasterTypeOK, Grown, GoodStays,
           NEW m \in Resume, m = state.resume, m # Null, ResumeOK(m)
    PROVE  ResumeOK(m)'
<1>1. m.window.start \in Nat /\ m.window.end \in Nat /\ m.window.start <= m.window.end
  BY EntryTypes DEF Resume, Period, ResumeOK
<1>2. Passed(m.window.start) /\ Passed(m.window.end)
  BY <1>1 DEF Grown, Reading
<1>3. (\A i \in Licensed(m.window.start) : Good(i))'
  BY <1>1, <1>2, ClaimsStay DEF ResumeOK
<1>4. WindowGood(m.window, m.window.end, (m.next - 1) * PageRows)'
  BY <1>1, <1>2, ClaimsStay DEF ResumeOK
<1>5. WindowFits(m.window, m.window.end, m.pages * PageRows)'
  BY <1>1, <1>2, ClaimsStay DEF ResumeOK
<1> QED BY <1>1, <1>3, <1>4, <1>5 DEF ResumeOK

LEMMA HorizonType ==
    ASSUME MasterAssumption, MasterTypeOK, NEW r \in Run, r.window \in Period,
           r.window.start <= r.window.end, r.resumed \/ r.window.end <= r.end
    PROVE  /\ r.window.start \in Nat /\ r.window.end \in Nat /\ Horizon(r) \in Nat
           /\ r.window.end <= Horizon(r) /\ r.window.start <= Horizon(r)
           /\ Horizon(r) <= r.end \/ (r.resumed /\ Horizon(r) = r.window.end)
<1>1. r.window.start \in Nat /\ r.window.end \in Nat /\ r.end \in Nat /\ r.resumed \in BOOLEAN
  BY EntryTypes DEF Run, Period
<1> QED BY <1>1 DEF Horizon

LEMMA RunStays ==
    ASSUME MasterAssumption, MasterTypeOK, Grown, GoodStays, state'.resume = state.resume,
           NEW r \in Run, RunOK(r), run # Null, r.end = run.end
    PROVE  RunOK(r)'
<1>1. r.end \in Nat /\ r.cursor \in Nat
  BY EntryTypes DEF Run
<1>2. \A t \in Nat : t <= r.end => Passed(t)
  BY DEF Grown, Reading
<1>3. r.pc = "window" /\ state.resume = Null /\ r.cursor <= r.end =>
          (\A i \in Licensed(r.cursor) : Good(i))'
  BY <1>1, <1>2, ClaimsStay DEF RunOK
<1>4. ASSUME r.pc \in Paging
      PROVE  /\ (\A i \in Licensed(r.window.start) : Good(i))'
             /\ WindowGood(r.window, Horizon(r), MergedPages(r) * PageRows)'
             /\ r.page > 1 \/ r.pc # "page" => WindowFits(r.window, Horizon(r), r.pages * PageRows)'
             /\ r.pc # "page" =>
                    /\ r.items \subseteq PageOf(r.window, r.page)'
                    /\ \A i \in PageOf(r.window, r.page)' :
                           listing'[i].at < Horizon(r) => i \in r.items \cup excused'
  <2>1. r.window \in Period /\ r.window.start <= r.window.end /\ (r.resumed \/ r.window.end <= r.end)
    BY <1>4 DEF RunOK
  <2>2. PICK h \in Nat : h = Horizon(r)
    BY <2>1, HorizonType
  <2>3. PICK w : w = r.window
    OBVIOUS
  <2>4. w.start \in Nat /\ w.start <= h /\ (h <= r.end \/ (r.resumed /\ h = w.end))
    BY <2>1, <2>2, <2>3, HorizonType
  <2>5. Passed(h)
    <3>1. CASE h <= r.end
      BY <1>2, <3>1
    <3>2. CASE r.resumed /\ h = w.end
      <4>1. r.page \in Nat /\ r.page > 1
        BY <1>4, <3>2 DEF RunOK, Run
      <4>2. state.resume = [window |-> w, next |-> r.page, pages |-> r.pages]
        BY <1>4, <2>3, <4>1 DEF RunOK
      <4>3. state.resume # Null /\ state.resume.window = w
        <5>1. r.pages \in Nat /\ w \in Period
          BY <2>1, <2>3 DEF Run
        <5>2. state.resume \in Resume
          BY <4>1, <4>2, <5>1 DEF Resume
        <5> QED BY <4>2, <5>2 DEF MasterAssumption
      <4>4. h <= h
        OBVIOUS
      <4>5. Reading(h)
        BY <3>2, <4>3, <4>4 DEF Reading
      <4> QED BY <4>5 DEF Grown
    <3> QED BY <2>4, <3>1, <3>2
  <2>6. Passed(w.start)
    BY <2>4, <2>5, PassedEarlier
  <2>7. (\A i \in Licensed(w.start) : Good(i))'
    BY <1>4, <2>3, <2>4, <2>6, ClaimsStay DEF RunOK
  <2>8. WindowGood(w, h, MergedPages(r) * PageRows)'
    BY <1>4, <2>2, <2>3, <2>5, ClaimsStay DEF RunOK
  <2>9. r.page > 1 \/ r.pc # "page" => WindowFits(w, h, r.pages * PageRows)'
    BY <1>4, <2>2, <2>3, <2>5, ClaimsStay DEF RunOK
  <2>10. ASSUME r.pc # "page"
         PROVE  /\ r.items \subseteq PageOf(w, r.page)'
                /\ \A i \in PageOf(w, r.page)' : listing'[i].at < h => i \in r.items \cup excused'
    <3>1. /\ r.items \subseteq PageOf(w, r.page)
          /\ \A i \in PageOf(w, r.page) : listing[i].at < h => i \in r.items \cup excused
      BY <1>4, <2>2, <2>3, <2>10 DEF RunOK, Paging
    <3>2. /\ PageOf(w, r.page) \subseteq PageOf(w, r.page)'
          /\ \A i \in PageOf(w, r.page)' : listing'[i].at < h =>
                 i \in excused' \/ (i \in PageOf(w, r.page) /\ listing'[i] = listing[i])
      BY <2>5, PagesStay
    <3>3. excused \subseteq excused'
      BY DEF Grown
    <3> QED BY <3>1, <3>2, <3>3
  <2> QED BY <2>2, <2>3, <2>7, <2>8, <2>9, <2>10
<1>5. Horizon(r)' = Horizon(r) /\ MergedPages(r)' = MergedPages(r)
  BY DEF Horizon, MergedPages
<1> QED BY <1>3, <1>4, <1>5 DEF RunOK, Paging

\* Where the file of license codes is left alone, or what it loses is excused.
LEMMA CoveredStays ==
    ASSUME MasterAssumption, MasterTypeOK, Grown,
           file'["license"] = file["license"], NEW i \in DOMAIN listing, Covered(i)
    PROVE  Covered(i)'
BY DEF Covered, Grown

LEMMA UntouchedIsGood ==
    ASSUME MasterAssumption, MasterTypeOK, Grown,
           file'["license"] = file["license"], deaths' \in Nat, deaths <= deaths'
    PROVE  GoodStays
<1>1. deaths \in Nat /\ (deaths' = 0 => deaths = 0)
  BY DEF MasterAssumption, MasterTypeOK
<1> QED BY <1>1 DEF GoodStays, Good, Grown

LEMMA GoodIsCovered ==
    ASSUME NEW i, Good(i)
    PROVE  Covered(i)
BY DEF Good, Covered

\* After a crash, nothing is said of names.
LEMMA CoveredIsGood ==
    ASSUME NEW i, Covered(i), deaths # 0
    PROVE  Good(i)
BY DEF Good, Covered

\* What the state calls complete, when the state is left alone.
LEMMA CompletedStays ==
    ASSUME MasterAssumption, MasterTypeOK, CompletedOK, Grown,
           state'.completed = state.completed,
           \A i \in DOMAIN listing : Covered(i) => Covered(i)',
           Quiet' => deaths' # 0 \/ (Quiet /\ GoodStays)
    PROVE  CompletedOK'
<1>1. SUFFICES ASSUME state.completed # Null
               PROVE  CompletedOK'
  BY DEF CompletedOK
<1>2. PICK t \in Nat : t = state.completed
  BY <1>1, EntryTypes DEF MasterTypeOK
<1>3. Passed(t)
  BY <1>1, <1>2 DEF Grown, Reading
<1>4. ASSUME NEW i \in Licensed(t)'
      PROVE  i \in excused' \/ i \in Licensed(t)
  <2>1. CASE i \in DOMAIN listing
    BY <2>1 DEF Licensed, Grown
  <2>2. CASE i \notin DOMAIN listing
    BY <1>3, <2>2 DEF Licensed, Passed
  <2> QED BY <2>1, <2>2
<1>5. Licensed(t) \subseteq DOMAIN listing /\ \A i \in Licensed(t) : Covered(i)
  BY <1>1, <1>2 DEF CompletedOK, Licensed
<1>6. \A i \in Licensed(t)' : Covered(i)'
  BY <1>4, <1>5 DEF Covered
<1>7. ASSUME Quiet' PROVE \A i \in Licensed(t)' : Good(i)'
  <2>1. CASE deaths' # 0
    BY <1>6, <2>1 DEF Good, Covered
  <2>2. CASE Quiet /\ GoodStays
    BY <1>1, <1>2, <1>4, <1>5, <2>2 DEF CompletedOK, GoodStays, Good
  <2> QED BY <1>7, <2>1, <2>2
<1> QED BY <1>2, <1>6, <1>7 DEF CompletedOK

-----------------------------------------------------------------------------
(* CodeMaster: the steps *)

LEMMA MasterInitHolds ==
    ASSUME MasterAssumption, MasterInit
    PROVE  MasterInv
<1>1. Missing \in Written /\ Missing.readable = TRUE /\ Missing.written = Null
  <2>1. NoRows \in Rows
    BY DEF NoRows, Rows
  <2> QED BY <2>1 DEF Missing, Written
<1>2. MasterTypeOK
  BY <1>1 DEF MasterInit, MasterTypeOK, MasterAssumption, Minute
<1>3. FilesOK
  BY <1>1 DEF MasterInit, FilesOK
<1> QED BY <1>2, <1>3 DEF MasterInit, MasterInv, ListingOK, CompletedOK

\* A step that leaves the listing and the files alone.
LEMMA MovesHold ==
    ASSUME MasterAssumption, MasterInv,
           UNCHANGED <<clock, listing, file, conflicts, deaths>>,
           usage' \in [day : Nat, used : 0..DailyLimit],
           excused \subseteq excused', excused' \subseteq DOMAIN listing,
           state'.completed \in Minute \cup {Null}, state'.resume \in Resume \cup {Null},
           run' \in Run \cup {Null},
           GoodStays => /\ state'.resume # Null => ResumeOK(state.resume)'
                        /\ run' # Null => RunOK(run)'
                        /\ CompletedOK'
    PROVE  MasterInv'
<1>0. MasterTypeOK /\ ListingOK /\ FilesOK
  BY DEF MasterInv
<1>1. Grown
  BY <1>0 DEF Grown, Passed, MasterTypeOK
<1>2. GoodStays
  <2>1. deaths' \in Nat /\ deaths <= deaths'
    BY <1>0 DEF MasterTypeOK, MasterAssumption
  <2> QED BY <1>0, <1>1, <2>1, UntouchedIsGood
<1>3. MasterTypeOK'
  BY <1>0 DEF MasterTypeOK
<1>4. ListingOK'
  BY <1>0 DEF ListingOK
<1>5. FilesOK'
  BY <1>0 DEF FilesOK
<1>6. /\ state'.resume # Null => ResumeOK(state.resume)'
      /\ run' # Null => RunOK(run)'
      /\ CompletedOK'
  BY <1>2
<1> QED BY <1>3, <1>4, <1>5, <1>6 DEF MasterInv

\* What a step of the run's own finds.
LEMMA Facts ==
    ASSUME MasterAssumption, MasterInv
    PROVE  /\ MasterTypeOK /\ clock \in Nat
           /\ run # Null => run \in Run /\ RunOK(run)
           /\ state.resume # Null => state.resume \in Resume /\ ResumeOK(state.resume)
           /\ usage \in [day : Nat, used : 0..DailyLimit]
           /\ excused \subseteq DOMAIN listing
           /\ listing' = listing /\ excused \subseteq excused' => Grown
           /\ CompletedOK
BY EntryTypes DEF MasterInv, MasterTypeOK, Grown, Passed

\* A step after which the run has ended, or stands where nothing has been merged.
LEMMA CompletedMoves ==
    ASSUME MasterAssumption, MasterInv, GoodStays,
           UNCHANGED <<clock, listing, file, deaths>>, excused \subseteq excused',
           state'.completed = state.completed, Quiet' => Quiet
    PROVE  CompletedOK'
<1>1. MasterTypeOK /\ CompletedOK /\ Grown
  BY Facts
<1>2. \A i \in DOMAIN listing : Covered(i) => Covered(i)'
  BY <1>1, CoveredStays
<1> QED BY <1>1, <1>2, CompletedStays

LEMMA FetchFailsHolds ==
    ASSUME MasterAssumption, MasterInv, FetchFails
    PROVE  MasterInv'
<1>1. /\ MasterTypeOK /\ clock \in Nat /\ run \in Run /\ run.pc = "page" /\ run' = Null
      /\ UNCHANGED <<clock, listing, file, conflicts, state, excused, deaths>>
  BY Facts DEF FetchFails
<1>2. usage' \in [day : Nat, used : 0..DailyLimit]
  <2>1. usage \in [day : Nat, used : 0..DailyLimit] /\ DailyLimit \in Nat /\ DayLength \in Nat \ {0}
    BY <1>1, Facts DEF MasterAssumption
  <2>2. clock \div DayLength \in Nat
    BY <1>1, <2>1
  <2>3. Used \in Nat
    BY <2>1 DEF Used
  <2> QED BY <2>1, <2>2, <2>3 DEF FetchFails
<1>3. ASSUME GoodStays
      PROVE  /\ state'.resume # Null => ResumeOK(state.resume)'
             /\ CompletedOK'
  <2>1. state'.resume # Null => ResumeOK(state.resume)'
    <3>1. state' = state /\ Grown
      BY <1>1, Facts
    <3> QED BY <1>1, <1>3, <3>1, Facts, ResumeStays
  <2>2. Quiet' => Quiet
    BY <1>1 DEF Quiet
  <2> QED BY <1>1, <1>3, <2>1, <2>2, CompletedMoves
<1> QED BY <1>1, <1>2, <1>3, Facts, MovesHold DEF MasterTypeOK

\* While a command is starting or at work on a window, the noted window stays as it is.
LEMMA ResumeKept ==
    ASSUME MasterAssumption, MasterInv, GoodStays, UNCHANGED listing, excused \subseteq excused',
           state'.resume = state.resume, state'.resume # Null
    PROVE  ResumeOK(state.resume)'
<1>1. PICK m : m = state.resume
  OBVIOUS
<1>2. Grown /\ MasterTypeOK /\ m \in Resume /\ ResumeOK(m) /\ m # Null
  BY <1>1, Facts
<1>3. ResumeOK(m)'
  BY <1>1, <1>2, ResumeStays
<1> QED BY <1>1, <1>3

LEMMA ResumeWindowHolds ==
    ASSUME MasterAssumption, MasterInv, ResumeWindow
    PROVE  MasterInv'
<1>1. /\ MasterTypeOK /\ clock \in Nat /\ run \in Run /\ RunOK(run) /\ run.pc = "window"
      /\ state.resume \in Resume /\ ResumeOK(state.resume) /\ state.resume # Null
      /\ UNCHANGED <<clock, listing, file, conflicts, state, usage, excused, deaths>>
  BY Facts DEF ResumeWindow
<1>2. PICK w, p, q : state.resume = [window |-> w, next |-> p, pages |-> q]
                     /\ w \in Period /\ p \in Nat /\ q \in Nat
  BY <1>1 DEF Resume
<1>3. PICK r : r = [run EXCEPT !.pc = "page", !.first = FALSE, !.resumed = TRUE,
                               !.window = w, !.page = p, !.pages = q]
  OBVIOUS
<1>4. run' = r
  BY <1>2, <1>3 DEF ResumeWindow
<1>5. r \in Run
  BY <1>1, <1>2, <1>3 DEF Run
<1>6. r.pc = "page" /\ r.resumed = TRUE /\ r.window = w /\ r.page = p /\ r.pages = q /\ r.end = run.end
  BY <1>1, <1>3 DEF Run
<1>7. w.start <= w.end
  BY <1>1, <1>2, <1>5, <1>6, EntryTypes DEF ResumeOK
<1>8. ASSUME GoodStays PROVE ResumeOK(state.resume)' /\ RunOK(r)' /\ CompletedOK'
  <2>1. ResumeOK(state.resume)'
    BY <1>1, <1>8, ResumeKept
  <2>2. Horizon(r)' = w.end /\ MergedPages(r)' = p - 1
    BY <1>6 DEF Horizon, MergedPages
  <2>3. state'.resume = [window |-> w, next |-> p, pages |-> q]
    BY <1>1, <1>2
  <2>4. RunOK(r)'
    BY <1>1, <1>2, <1>6, <1>7, <2>1, <2>2, <2>3 DEF RunOK, ResumeOK, Paging
  <2>5. Quiet' => Quiet
    BY <1>1 DEF Quiet
  <2> QED BY <1>1, <1>8, <2>1, <2>4, <2>5, CompletedMoves
<1> QED BY <1>1, <1>4, <1>5, <1>8, Facts, MovesHold DEF MasterTypeOK

LEMMA TickHolds ==
    ASSUME MasterAssumption, MasterInv, ClockTicks
    PROVE  MasterInv'
<1>1. /\ MasterTypeOK /\ clock \in Nat /\ clock' = clock + 1 /\ clock' \in Minute /\ clock <= clock'
      /\ UNCHANGED <<listing, file, conflicts, state, usage, run, excused, deaths>>
  <2>1. clock \in 0..MaxClock /\ MaxClock \in Nat
    BY Facts DEF MasterAssumption, MasterTypeOK, Minute
  <2> QED BY <2>1, Facts DEF ClockTicks, Minute
<1>2. Grown
  BY <1>1, Facts
<1>3. GoodStays
  <2>1. deaths' \in Nat /\ deaths <= deaths'
    BY <1>1 DEF MasterTypeOK, MasterAssumption
  <2> QED BY <1>1, <1>2, <2>1, UntouchedIsGood
<1>4. MasterTypeOK'
  BY <1>1 DEF MasterTypeOK
<1>5. ListingOK'
  <2>1. ListingOK
    BY DEF MasterInv
  <2>2. \A j \in DOMAIN listing : listing[j].at \in Nat
    BY <1>1, EntryTypes
  <2> QED BY <1>1, <2>1, <2>2 DEF ListingOK
<1>6. FilesOK'
  <2>1. FilesOK
    BY DEF MasterInv
  <2>2. \A f \in File : file[f].written # Null => file[f].written \in Nat
    BY <1>1, EntryTypes DEF MasterTypeOK, Written
  <2> QED BY <1>1, <2>1, <2>2 DEF FilesOK
<1>8. state'.resume # Null => ResumeOK(state.resume)'
  <2>1. PICK m : m = state.resume
    OBVIOUS
  <2>2. m # Null => m \in Resume /\ ResumeOK(m)
    BY <2>1, Facts
  <2>3. m # Null => ResumeOK(m)'
    BY <1>1, <1>2, <1>3, <2>1, <2>2, ResumeStays
  <2> QED BY <1>1, <2>1, <2>3
<1>9. run' # Null => RunOK(run)'
  <2>1. PICK r : r = run
    OBVIOUS
  <2>2. r # Null => r \in Run /\ RunOK(r)
    BY <2>1, Facts
  <2>3. r # Null => RunOK(r)'
    BY <1>1, <1>2, <1>3, <2>1, <2>2, RunStays
  <2> QED BY <1>1, <2>1, <2>3
<1>10. CompletedOK'
  <2>1. \A i \in DOMAIN listing : Covered(i) => Covered(i)'
    BY <1>1, <1>2, CoveredStays
  <2>2. Quiet' => Quiet
    BY <1>1 DEF Quiet
  <2> QED BY <1>1, <1>2, <1>3, <2>1, <2>2, Facts, CompletedStays
<1> QED BY <1>4, <1>5, <1>6, <1>8, <1>9, <1>10 DEF MasterInv

LEMMA RegisterHolds ==
    ASSUME MasterAssumption, MasterInv, NEW c \in Code, NEW n \in Name, NEW licensed \in BOOLEAN,
           ListEntry(c, n, licensed)
    PROVE  MasterInv'
<1>1. /\ MasterTypeOK /\ clock \in Nat /\ listing \in Seq(Entry)
      /\ UNCHANGED <<clock, file, conflicts, state, usage, run, deaths>>
  BY Facts DEF ListEntry, MasterTypeOK
<1>2. PICK e \in Entry : e = [code |-> c, name |-> n, at |-> clock, licensed |-> licensed]
  BY <1>1 DEF Entry, MasterTypeOK
<1>3. /\ listing' = Append(listing, e) /\ listing' \in Seq(Entry)
      /\ Len(listing') = Len(listing) + 1 /\ listing'[Len(listing) + 1] = e
      /\ \A i \in DOMAIN listing : i \in DOMAIN listing' /\ listing'[i] = listing[i]
  BY <1>1, <1>2 DEF ListEntry
<1>4. e.at = clock
  BY <1>2
<1>5. \A i \in DOMAIN listing' : i \notin DOMAIN listing => i = Len(listing) + 1
  BY <1>1, <1>3
<1>6. Grown
  <2>1. \A j \in DOMAIN listing : j < Len(listing) + 1
    BY <1>1
  <2>2. excused \subseteq excused'
    BY DEF ListEntry
  <2>3. ASSUME NEW t \in Nat, Reading(t), NEW i \in DOMAIN listing', i \notin DOMAIN listing, listing'[i].at < t
        PROVE  i \in excused'
    <3>1. i = Len(listing') /\ clock < t
      BY <1>3, <1>4, <1>5, <2>3
    <3>2. Ahead(clock)
      <4>1. state.completed # Null => state.completed \in Nat
        BY <1>1, EntryTypes DEF MasterTypeOK
      <4>2. state.resume # Null => state.resume.window.end \in Nat
        <5>1. state.resume # Null => state.resume \in Resume
          BY <1>1 DEF MasterTypeOK
        <5> QED BY <1>1, <5>1, EntryTypes DEF Resume, Period
      <4>3. run # Null => run.end \in Nat
        BY <1>1, EntryTypes DEF MasterTypeOK, Run
      <4> QED BY <1>1, <2>3, <3>1, <4>1, <4>2, <4>3 DEF Reading, Ahead
    <3> QED BY <3>1, <3>2 DEF ListEntry
  <2> QED BY <1>3, <1>5, <2>1, <2>2, <2>3 DEF Grown, Passed
<1>7. GoodStays
  <2>1. deaths' \in Nat /\ deaths <= deaths'
    BY <1>1 DEF MasterTypeOK, MasterAssumption
  <2> QED BY <1>1, <1>6, <2>1, UntouchedIsGood
<1>8. MasterTypeOK'
  <2>1. Len(listing') \in DOMAIN listing' /\ DOMAIN listing \subseteq DOMAIN listing'
    BY <1>1, <1>3
  <2>2. excused' \subseteq DOMAIN listing'
    BY <1>1, <2>1 DEF ListEntry, MasterTypeOK
  <2> QED BY <1>1, <1>3, <2>2 DEF MasterTypeOK
<1>9. ListingOK'
  <2>1. ListingOK
    BY DEF MasterInv
  <2>2. ASSUME NEW i \in DOMAIN listing', NEW j \in DOMAIN listing', i <= j
        PROVE  listing'[i].at <= listing'[j].at /\ listing'[j].at <= clock
    <3>1. CASE j \in DOMAIN listing
      <4>1. i \in DOMAIN listing
        BY <1>1, <1>5, <2>2, <3>1
      <4> QED BY <1>3, <2>1, <2>2, <3>1, <4>1 DEF ListingOK
    <3>2. CASE j \notin DOMAIN listing
      <4>1. listing'[j].at = clock
        BY <1>3, <1>4, <1>5, <3>2
      <4>2. CASE i \in DOMAIN listing
        <5>1. i <= i
          BY <1>1
        <5> QED BY <1>1, <1>3, <2>1, <4>1, <4>2, <5>1 DEF ListingOK
      <4>3. CASE i \notin DOMAIN listing
        BY <1>1, <1>3, <1>4, <1>5, <4>1, <4>3
      <4> QED BY <4>2, <4>3
    <3> QED BY <3>1, <3>2
  <2> QED BY <1>1, <2>2 DEF ListingOK
<1>10. FilesOK'
  BY <1>1 DEF MasterInv, FilesOK
<1>11. state'.resume # Null => ResumeOK(state.resume)'
  <2>1. PICK m : m = state.resume
    OBVIOUS
  <2>2. m # Null => m \in Resume /\ ResumeOK(m)
    BY <2>1, Facts
  <2>3. m # Null => ResumeOK(m)'
    BY <1>1, <1>6, <1>7, <2>1, <2>2, ResumeStays
  <2> QED BY <1>1, <2>1, <2>3
<1>12. run' # Null => RunOK(run)'
  <2>1. PICK r : r = run
    OBVIOUS
  <2>2. r # Null => r \in Run /\ RunOK(r)
    BY <2>1, Facts
  <2>3. r # Null => RunOK(r)'
    BY <1>1, <1>6, <1>7, <2>1, <2>2, RunStays
  <2> QED BY <1>1, <2>1, <2>3
<1>13. CompletedOK'
  <2>1. \A i \in DOMAIN listing : Covered(i) => Covered(i)'
    BY <1>1, <1>6, CoveredStays
  <2>2. Quiet' => Quiet
    BY <1>1 DEF Quiet
  <2> QED BY <1>1, <1>6, <1>7, <2>1, <2>2, Facts, CompletedStays
<1> QED BY <1>8, <1>9, <1>10, <1>11, <1>12, <1>13 DEF MasterInv

\* What a run that begins at a time would pass over is excused, or good already.
LEMMA StartsGood ==
    ASSUME MasterAssumption, MasterInv, NEW explicit \in {Null} \cup Minute, NEW end \in Minute,
           Launch(explicit, end),
           state.resume = Null, GoodStays, NEW s \in Nat,
           s = DetermineStart(explicit), s <= end
    PROVE  (\A i \in Licensed(s) : Good(i))'
<1>1. /\ MasterTypeOK /\ clock \in Nat /\ run = Null /\ CompletedOK
      /\ UNCHANGED <<clock, listing, file, conflicts, state, usage, deaths>>
  BY Facts DEF Launch
<1>2. Licensed(s)' = Licensed(s)
  BY <1>1 DEF Licensed
<1>3. SUFFICES ASSUME NEW i \in Licensed(s)
               PROVE  Good(i)'
  BY <1>2
<1>4. i \in DOMAIN listing /\ listing[i].licensed /\ listing[i].at < s
  BY <1>3 DEF Licensed
<1>5. listing[i].at \in Nat /\ Reread \in Nat
  BY <1>1, <1>4, EntryTypes DEF MasterAssumption
<1>6. ASSUME state.completed # Null, listing[i].at < state.completed PROVE Good(i)'
  <2>1. Quiet /\ i \in Licensed(state.completed)
    BY <1>1, <1>4, <1>6 DEF Quiet, Licensed
  <2> QED BY <1>1, <1>4, <1>6, <2>1 DEF CompletedOK, GoodStays
<1>7. ASSUME explicit # Null \/ state.completed = Null PROVE Good(i)'
  <2>1. excused' = excused \cup Skipped(s)
    BY <1>7 DEF Launch
  <2>2. CASE i \in Skipped(s)
    BY <2>1, <2>2 DEF Good
  <2>3. CASE i \notin Skipped(s)
    <3>1. state.completed # Null /\ ~(state.completed - Reread <= listing[i].at)
      BY <1>4, <1>5, <2>3 DEF Skipped
    <3>2. state.completed \in Nat
      BY <1>1, <3>1, EntryTypes DEF MasterTypeOK
    <3> QED BY <1>5, <1>6, <3>1, <3>2
  <2> QED BY <2>2, <2>3
<1>8. ASSUME explicit = Null, state.completed # Null PROVE Good(i)'
  <2>1. state.completed \in Nat
    BY <1>1, <1>8, EntryTypes DEF MasterTypeOK
  <2>2. s = Later(0, state.completed - Reread)
    BY <1>8 DEF DetermineStart
  <2>3. listing[i].at < state.completed
    BY <1>4, <1>5, <2>1, <2>2 DEF Later
  <2> QED BY <1>6, <1>8, <2>3
<1> QED BY <1>7, <1>8

LEMMA StartIsTime ==
    ASSUME MasterAssumption, MasterInv, NEW explicit \in {Null} \cup Minute
    PROVE  DetermineStart(explicit) \in Nat
<1>1. MasterTypeOK /\ clock \in Nat /\ Reread \in Nat
  BY Facts DEF MasterAssumption
<1>2. state.completed # Null => Later(0, state.completed - Reread) \in Nat
  <2>1. state.completed # Null => state.completed \in Nat
    BY <1>1, EntryTypes DEF MasterTypeOK
  <2> QED BY <1>1, <2>1 DEF Later
<1>3. MtimeStart # Null => MtimeStart \in Nat
  <2>1. PICK W : W = {file[f].written : f \in File} \ {Null}
    OBVIOUS
  <2>2. W \subseteq Nat
    BY <1>1, <2>1, EntryTypes DEF MasterTypeOK, Written
  <2>3. ASSUME W # {} PROVE \E t \in W : \A u \in W : u <= t
    <3>1. PICK a, b : a = file["license"].written /\ b = file["industry"].written
      OBVIOUS
    <3>2. W = {a, b} \ {Null}
      BY <2>1, <3>1 DEF File
    <3>3. PICK t \in W : TRUE
      BY <2>3
    <3>4. CASE a \in W /\ b \in W
      <4>1. a \in Nat /\ b \in Nat
        BY <2>2, <3>4
      <4>2. CASE a <= b
        BY <3>2, <3>4, <4>1, <4>2
      <4>3. CASE b <= a
        BY <3>2, <3>4, <4>1, <4>3
      <4> QED BY <4>1, <4>2, <4>3
    <3>5. CASE ~(a \in W /\ b \in W)
      <4>1. \A u \in W : u = t
        BY <3>2, <3>3, <3>5
      <4>2. t <= t
        BY <2>2
      <4> QED BY <3>3, <4>1, <4>2
    <3> QED BY <3>4, <3>5
  <2>4. W # {} => (CHOOSE t \in W : \A u \in W : u <= t) \in W
    BY <2>3
  <2>5. MtimeStart = IF W = {} THEN Null ELSE Later(0, (CHOOSE t \in W : \A u \in W : u <= t) - Reread)
    BY <2>1 DEF MtimeStart
  <2>6. PICK t : t = CHOOSE u \in W : \A v \in W : v <= u
    OBVIOUS
  <2>7. W # {} => t \in Nat
    BY <2>2, <2>4, <2>6
  <2> QED BY <1>1, <2>5, <2>6, <2>7 DEF Later
<1> QED BY <1>1, <1>2, <1>3, EntryTypes DEF DetermineStart

LEMMA LaunchHolds ==
    ASSUME MasterAssumption, MasterInv, NEW explicit \in {Null} \cup Minute, NEW end \in Minute,
           Launch(explicit, end)
    PROVE  MasterInv'
<1>1. /\ MasterTypeOK /\ clock \in Minute /\ run = Null /\ excused \subseteq DOMAIN listing
      /\ UNCHANGED <<clock, listing, file, conflicts, state, usage, deaths>>
  BY Facts DEF Launch, MasterTypeOK
<1>2. PICK s \in Nat : s = DetermineStart(explicit)
  BY StartIsTime
<1>3. PICK r : r = [pc |-> "window", cursor |-> s, end |-> end, first |-> TRUE,
                    window |-> Null, resumed |-> FALSE, page |-> 0, pages |-> 0, items |-> {}]
  OBVIOUS
<1>4. run' = r
  BY <1>2, <1>3 DEF Launch
<1>5. r \in Run
  BY <1>1, <1>3 DEF Run
<1>6. r.pc = "window" /\ r.cursor = s /\ r.end = end /\ r.first = TRUE
  BY <1>3
<1>7. excused \subseteq excused' /\ excused' \subseteq DOMAIN listing
  BY <1>1 DEF Launch, Skipped
<1>8. ASSUME GoodStays
      PROVE  /\ state'.resume # Null => ResumeOK(state.resume)'
             /\ RunOK(r)'
             /\ CompletedOK'
  <2>1. state'.resume # Null => ResumeOK(state.resume)'
    BY <1>1, <1>7, <1>8, ResumeKept
  <2>2. state.resume = Null /\ s <= end => (\A i \in Licensed(s) : Good(i))'
    BY <1>2, <1>8, StartsGood
  <2>5. RunOK(r)'
    BY <1>1, <1>6, <2>2 DEF RunOK, Paging
  <2>6. Quiet' => Quiet
    BY <1>1 DEF Quiet
  <2> QED BY <1>1, <1>7, <1>8, <2>1, <2>5, <2>6, CompletedMoves
<1> QED BY <1>1, <1>4, <1>5, <1>7, <1>8, Facts, MovesHold DEF MasterTypeOK

-----------------------------------------------------------------------------
(* CodeMaster: a window *)

\* What is in a window has one of the places up to the size of the window.
LEMMA PlacesFit ==
    ASSUME MasterAssumption, MasterTypeOK, NEW w
    PROVE  /\ IsFiniteSet(Contents(w)) /\ Cardinality(Contents(w)) \in Nat
           /\ \A i \in Contents(w) :
                 /\ Place(w, i) \in Nat /\ 1 <= Place(w, i)
                 /\ Place(w, i) <= Cardinality(Contents(w))
<1>1. Contents(w) \subseteq 1..Len(listing) /\ Len(listing) \in Nat
  BY DEF Contents, MasterTypeOK
<1>2. IsFiniteSet(Contents(w)) /\ Cardinality(Contents(w)) \in Nat
  <2>1. IsFiniteSet(1..Len(listing))
    BY <1>1, FS_Interval
  <2>2. IsFiniteSet(Contents(w))
    BY <1>1, <2>1, FS_Subset
  <2> QED BY <2>2, FS_CardinalityType
<1>3. ASSUME NEW i \in Contents(w)
      PROVE  /\ Place(w, i) \in Nat /\ 1 <= Place(w, i)
             /\ Place(w, i) <= Cardinality(Contents(w))
  <2>1. PICK S : S = {j \in Contents(w) : j <= i}
    OBVIOUS
  <2>2. S \subseteq Contents(w) /\ i \in S
    BY <1>1, <2>1
  <2>3. IsFiniteSet(S) /\ Cardinality(S) \in Nat /\ Cardinality(S) <= Cardinality(Contents(w))
    BY <1>2, <2>2, FS_Subset, FS_CardinalityType
  <2>4. Cardinality(S) # 0
    BY <2>2, <2>3, FS_EmptySet
  <2> QED BY <2>1, <2>3, <2>4 DEF Place
<1> QED BY <1>2, <1>3

\* The places of earlier entries are not behind those of later ones.
LEMMA PlacesGrow ==
    ASSUME MasterAssumption, MasterTypeOK, NEW w, NEW i \in Contents(w), NEW j \in Contents(w), i <= j
    PROVE  Place(w, i) <= Place(w, j)
<1>1. Contents(w) \subseteq Nat
  BY EntryTypes DEF Contents
<1>2. PICK S, T : S = {k \in Contents(w) : k <= i} /\ T = {k \in Contents(w) : k <= j}
  OBVIOUS
<1>3. S \subseteq T /\ T \subseteq Contents(w)
  BY <1>1, <1>2
<1>4. IsFiniteSet(T)
  BY <1>3, PlacesFit, FS_Subset
<1>5. Cardinality(S) <= Cardinality(T)
  BY <1>3, <1>4, FS_Subset
<1> QED BY <1>2, <1>5 DEF Place

\* The pages of a window hold it.
LEMMA WindowsFit ==
    ASSUME MasterAssumption, MasterTypeOK, NEW w
    PROVE  /\ TotalPages(w) \in Nat /\ 1 <= TotalPages(w)
           /\ \A i \in Contents(w) : Place(w, i) <= TotalPages(w) * PageRows
<1>1. PICK n \in Nat : n = Cardinality(Contents(w))
  BY PlacesFit
<1>2. TotalPages(w) = IF n = 0 THEN 1 ELSE PagesOf(n)
  BY <1>1 DEF TotalPages, PagesOf
<1>3. PICK q \in Nat : q = PagesOf(n) /\ n <= q * PageRows
  BY PagesHold
<1>4. PageRows \in Nat \ {0}
  BY DEF MasterAssumption
<1>5. n # 0 => q # 0
  BY <1>3, <1>4
<1>6. ASSUME NEW i \in Contents(w) PROVE Place(w, i) <= TotalPages(w) * PageRows
  <2>1. Place(w, i) \in Nat /\ 1 <= Place(w, i) /\ Place(w, i) <= n
    BY <1>1, <1>6, PlacesFit
  <2>2. TotalPages(w) = q /\ q * PageRows \in Nat
    BY <1>1, <1>2, <1>3, <1>4, <2>1
  <2> QED BY <1>1, <1>3, <2>1, <2>2
<1> QED BY <1>2, <1>3, <1>5, <1>6

LEMMA TakeWindowHolds ==
    ASSUME MasterAssumption, MasterInv, TakeWindow
    PROVE  MasterInv'
<1>1. /\ MasterTypeOK /\ clock \in Nat /\ run \in Run /\ RunOK(run) /\ run.pc = "window"
      /\ ~(run.first /\ state.resume # Null)
      /\ UNCHANGED <<clock, listing, file, conflicts, state, usage, excused, deaths>>
  BY Facts DEF TakeWindow
<1>2. state.resume = Null
  BY <1>1 DEF RunOK
<1>4. Quiet
  BY <1>1, <1>2 DEF Quiet
<1>5. CASE run.cursor > run.end
  <2>1. run' = Null
    BY <1>5 DEF TakeWindow
  <2>2. GoodStays => CompletedOK'
    BY <1>1, <1>4, CompletedMoves
  <2> QED BY <1>1, <1>2, <2>1, <2>2, Facts, MovesHold DEF MasterTypeOK
<1>6. CASE ~(run.cursor > run.end)
  <2>1. run.cursor \in Nat /\ run.end \in Nat /\ run.end \in Minute /\ run.cursor <= run.end
    BY <1>1, <1>6, EntryTypes DEF Run
  <2>2. PICK e : e = Earlier(run.end, run.cursor + WindowSize - 1)
    OBVIOUS
  <2>3. e \in Nat /\ run.cursor <= e /\ e <= run.end
    BY <2>1, <2>2 DEF Earlier, MasterAssumption
  <2>4. PICK w : w = [start |-> run.cursor, end |-> e]
    OBVIOUS
  <2>5. w \in Period /\ w.start = run.cursor /\ w.end = e
    <3>1. run.end \in 0..MaxClock /\ MaxClock \in Nat
      BY <2>1 DEF Minute, MasterAssumption
    <3>2. run.cursor \in Minute /\ e \in Minute
      BY <2>1, <2>3, <3>1 DEF Minute
    <3> QED BY <2>4, <3>2 DEF Period
  <2>6. PICK r : r = [run EXCEPT !.pc = "page", !.first = FALSE, !.resumed = FALSE,
                                 !.window = w, !.page = 1, !.pages = 1]
    OBVIOUS
  <2>7. run' = r
    BY <1>6, <2>2, <2>4, <2>6 DEF TakeWindow
  <2>8. r \in Run
    BY <1>1, <2>5, <2>6 DEF Run
  <2>9. r.pc = "page" /\ r.resumed = FALSE /\ r.window = w /\ r.page = 1 /\ r.pages = 1 /\ r.end = run.end
    BY <1>1, <2>6 DEF Run
  <2>10. ASSUME GoodStays PROVE RunOK(r)' /\ CompletedOK'
    <3>1. (\A i \in Licensed(w.start) : Good(i))'
      <4>1. Licensed(w.start)' = Licensed(w.start) /\ Licensed(w.start) \subseteq DOMAIN listing
        BY <1>1 DEF Licensed
      <4>2. \A i \in Licensed(w.start) : Good(i)
        BY <1>1, <1>2, <2>1, <2>5 DEF RunOK
      <4> QED BY <2>10, <4>1, <4>2 DEF GoodStays
    <3>2. MergedPages(r)' = 0 /\ 0 * PageRows = 0
      BY <2>9, EntryTypes, <1>1 DEF MergedPages
    <3>3. WindowGood(w, Horizon(r), 0)'
      <4>1. \A i \in Contents(w) : ~(Place(w, i) <= 0)
        BY <1>1, PlacesFit
      <4>2. Contents(w)' = Contents(w) /\ \A i : Place(w, i)' = Place(w, i)
        BY <1>1 DEF Contents, Place
      <4> QED BY <4>1, <4>2 DEF WindowGood
    <3>4. RunOK(r)'
      BY <1>1, <1>2, <2>1, <2>3, <2>5, <2>9, <3>1, <3>2, <3>3 DEF RunOK, Paging
    <3> QED BY <1>1, <1>4, <2>10, <3>4, CompletedMoves
  <2> QED BY <1>1, <1>2, <2>7, <2>8, <2>10, Facts, MovesHold DEF MasterTypeOK
<1> QED BY <1>5, <1>6

LEMMA FetchHolds ==
    ASSUME MasterAssumption, MasterInv, Fetch
    PROVE  MasterInv'
<1>1. /\ MasterTypeOK /\ clock \in Nat /\ run \in Run /\ RunOK(run) /\ run.pc = "page"
      /\ run.page <= run.pages
      /\ UNCHANGED <<clock, listing, file, conflicts, state, excused, deaths>>
  BY Facts DEF Fetch
<1>2. usage' \in [day : Nat, used : 0..DailyLimit]
  <2>1. usage \in [day : Nat, used : 0..DailyLimit] /\ DailyLimit \in Nat /\ DayLength \in Nat \ {0}
    BY <1>1, Facts DEF MasterAssumption
  <2>2. clock \div DayLength \in Nat
    BY <1>1, <2>1
  <2>3. Used \in Nat
    BY <2>1 DEF Used
  <2> QED BY <2>1, <2>2, <2>3 DEF Fetch
<1>3. PICK w, p, q : w = run.window /\ p = run.page
                     /\ q = (IF run.page = 1 THEN TotalPages(run.window) ELSE run.pages)
  OBVIOUS
<1>4. /\ w \in Period /\ p \in Nat /\ 1 <= p /\ run.pages \in Nat
      /\ w.start <= w.end /\ (run.resumed \/ w.end <= run.end)
  BY <1>1, <1>3 DEF RunOK, Run, Paging
<1>5. q \in Nat /\ 1 <= q /\ p <= q
  <2>1. TotalPages(w) \in Nat /\ 1 <= TotalPages(w)
    BY <1>1, WindowsFit
  <2> QED BY <1>1, <1>3, <1>4, <2>1
<1>6. PICK I : I = PageOf(w, p)
  OBVIOUS
<1>7. I \in SUBSET Nat
  <2>1. I \subseteq DOMAIN listing
    BY <1>6 DEF PageOf, Contents
  <2> QED BY <1>1, <2>1, EntryTypes
<1>8. PICK r : r = [run EXCEPT !.pc = "license", !.items = I, !.pages = q]
  OBVIOUS
<1>9. run' = r
  BY <1>3, <1>6, <1>8 DEF Fetch
<1>10. r \in Run
  BY <1>1, <1>5, <1>7, <1>8 DEF Run
<1>11. /\ r.pc = "license" /\ r.resumed = run.resumed /\ r.window = w /\ r.page = p /\ r.pages = q
       /\ r.end = run.end /\ r.items = I
  BY <1>1, <1>3, <1>8 DEF Run
<1>12. ASSUME GoodStays PROVE RunOK(r)'
  <2>1. PICK h : h = Horizon(run) /\ h = Horizon(r)
    BY <1>3, <1>11 DEF Horizon
  <2>2. MergedPages(run) = p - 1 /\ MergedPages(r) = p - 1
    BY <1>1, <1>3, <1>11 DEF MergedPages
  <2>3. \A t : Licensed(t)' = Licensed(t) /\ Licensed(t) \subseteq DOMAIN listing
    BY <1>1 DEF Licensed
  <2>4. Contents(w)' = Contents(w) /\ \A i : Place(w, i)' = Place(w, i)
    BY <1>1 DEF Contents, Place
  <2>5. PageOf(w, p)' = PageOf(w, p)
    BY <2>4 DEF PageOf
  <2>6. (\A i \in Licensed(w.start) : Good(i))'
    <3>1. \A i \in Licensed(w.start) : Good(i)
      BY <1>1, <1>3 DEF RunOK, Paging
    <3> QED BY <1>12, <2>3, <3>1 DEF GoodStays
  <2>7. WindowGood(w, h, (p - 1) * PageRows)'
    <3>1. WindowGood(w, h, (p - 1) * PageRows)
      BY <1>1, <1>3, <2>1, <2>2 DEF RunOK, Paging
    <3> QED BY <1>12, <2>3, <2>4, <3>1 DEF GoodStays, WindowGood
  <2>8. WindowFits(w, h, q * PageRows)'
    <3>1. WindowFits(w, h, q * PageRows)
      <4>1. CASE p = 1
        <5>1. q = TotalPages(w)
          BY <1>3, <4>1
        <5> QED BY <1>1, <5>1, WindowsFit DEF WindowFits
      <4>2. CASE p # 1
        BY <1>1, <1>3, <1>4, <2>1, <4>2 DEF RunOK, Paging
      <4> QED BY <4>1, <4>2
    <3> QED BY <1>1, <2>4, <3>1 DEF WindowFits
  <2>9. /\ p = 1 => state'.resume = Null /\ ~r.resumed
        /\ p > 1 => state'.resume = [window |-> w, next |-> p, pages |-> q]
    BY <1>1, <1>3, <1>4, <1>11 DEF RunOK, Paging
  <2>10. Horizon(r)' = h /\ MergedPages(r)' = p - 1
    BY <2>1, <2>2 DEF Horizon, MergedPages
  <2> QED BY <1>1, <1>4, <1>5, <1>6, <1>11, <2>5, <2>6, <2>7, <2>8, <2>9, <2>10 DEF RunOK, Paging
<1>13. ASSUME GoodStays
       PROVE  (state'.resume # Null => ResumeOK(state.resume)') /\ CompletedOK'
  <2>1. state'.resume # Null => ResumeOK(state.resume)'
    BY <1>1, <1>13, ResumeKept
  <2>2. Quiet' => Quiet
    BY <1>1 DEF Quiet
  <2> QED BY <1>1, <1>13, <2>1, <2>2, CompletedMoves
<1> QED BY <1>1, <1>2, <1>9, <1>10, <1>12, <1>13, Facts, MovesHold DEF MasterTypeOK

\* What holds up to a time holds up to an earlier one.
LEMMA EarlierToo ==
    ASSUME MasterAssumption, MasterTypeOK, NEW w, NEW t \in Nat, NEW h \in Nat, t <= h, NEW n
    PROVE  /\ Licensed(t) \subseteq Licensed(h)
           /\ WindowGood(w, h, n) => WindowGood(w, t, n)
           /\ WindowFits(w, h, n) => WindowFits(w, t, n)
<1>1. \A i \in DOMAIN listing : listing[i].at < t => listing[i].at < h
  BY EntryTypes
<1>2. Licensed(t) \subseteq Licensed(h)
  BY <1>1 DEF Licensed
<1>3. WindowFits(w, h, n) => WindowFits(w, t, n)
  BY <1>1 DEF WindowFits, Contents
<1> QED BY <1>2, <1>3 DEF WindowGood

LEMMA SaveResumeHolds ==
    ASSUME MasterAssumption, MasterInv, SaveResume
    PROVE  MasterInv'
<1>1. /\ MasterTypeOK /\ clock \in Nat /\ run \in Run /\ RunOK(run) /\ run.pc = "save"
      /\ UNCHANGED <<clock, listing, file, conflicts, usage, excused, deaths>>
  BY Facts DEF SaveResume
<1>2. PICK w, p, q : w = run.window /\ p = run.page /\ q = run.pages
  OBVIOUS
<1>3. /\ w \in Period /\ p \in Nat /\ 1 <= p /\ q \in Nat /\ 1 <= q
      /\ w.start <= w.end /\ (run.resumed \/ w.end <= run.end)
  BY <1>1, <1>2 DEF RunOK, Run, Paging
<1>4. PICK m : m = [window |-> w, next |-> p + 1, pages |-> q]
  OBVIOUS
<1>5. m \in Resume /\ m.window = w /\ m.next = p + 1 /\ m.pages = q
  BY <1>3, <1>4 DEF Resume
<1>6. state'.resume = m /\ state'.completed = state.completed /\ m # Null
  <2>1. m # Null
    BY <1>5 DEF MasterAssumption
  <2>2. state' = [state EXCEPT !.resume = m]
    BY <1>2, <1>4 DEF SaveResume
  <2> QED BY <2>1, <2>2
<1>7. PICK r : r = [run EXCEPT !.pc = "page", !.page = p + 1, !.items = {}]
  OBVIOUS
<1>8. run' = r
  BY <1>2, <1>7 DEF SaveResume
<1>9. r \in Run
  <2>1. PICK n \in Nat : n = p + 1
    BY <1>3
  <2>2. PICK none \in SUBSET Nat : none = {}
    OBVIOUS
  <2>3. r = [run EXCEPT !.pc = "page", !.page = n, !.items = none]
    BY <1>7, <2>1, <2>2
  <2> QED BY <1>1, <2>3 DEF Run
<1>10. /\ r.pc = "page" /\ r.resumed = run.resumed /\ r.window = w /\ r.page = p + 1 /\ r.pages = q
       /\ r.end = run.end
  BY <1>1, <1>2, <1>7 DEF Run
<1>11. ASSUME GoodStays PROVE ResumeOK(m)' /\ RunOK(r)' /\ CompletedOK'
  <2>1. PICK h : h = Horizon(run) /\ h = Horizon(r)
    BY <1>2, <1>10 DEF Horizon
  <2>2. MergedPages(run) = p /\ MergedPages(r) = p
    BY <1>1, <1>2, <1>3, <1>10 DEF MergedPages
  <2>3. h \in Nat /\ w.start \in Nat /\ w.end \in Nat /\ w.end <= h
    <3>2. /\ run.window.start \in Nat /\ run.window.end \in Nat /\ Horizon(run) \in Nat
          /\ run.window.end <= Horizon(run)
      BY <1>1, <1>2, <1>3, HorizonType
    <3> QED BY <1>2, <2>1, <3>2
  <2>4. \A t : Licensed(t)' = Licensed(t) /\ Licensed(t) \subseteq DOMAIN listing
    BY <1>1 DEF Licensed
  <2>5. Contents(w)' = Contents(w) /\ \A i : Place(w, i)' = Place(w, i)
    BY <1>1 DEF Contents, Place
  <2>6. (\A i \in Licensed(w.start) : Good(i))'
    <3>1. \A i \in Licensed(w.start) : Good(i)
      BY <1>1, <1>2 DEF RunOK, Paging
    <3> QED BY <1>11, <2>4, <3>1 DEF GoodStays
  <2>7. WindowGood(w, h, p * PageRows) /\ WindowFits(w, h, q * PageRows)
    BY <1>1, <1>2, <2>1, <2>2 DEF RunOK, Paging
  <2>8. WindowGood(w, w.end, p * PageRows) /\ WindowFits(w, w.end, q * PageRows)
    BY <1>1, <2>3, <2>7, EarlierToo
  <2>9. WindowGood(w, h, p * PageRows)' /\ WindowGood(w, w.end, p * PageRows)'
    BY <1>11, <2>4, <2>5, <2>7, <2>8 DEF GoodStays, WindowGood
  <2>10. WindowFits(w, h, q * PageRows)' /\ WindowFits(w, w.end, q * PageRows)'
    BY <1>1, <2>5, <2>7, <2>8 DEF WindowFits
  <2>11. (p + 1) - 1 = p /\ 2 <= p + 1 /\ p + 1 > 1 /\ p + 1 # 1
    BY <1>3
  <2>12. Horizon(r)' = h /\ MergedPages(r)' = p
    BY <2>1, <2>2 DEF Horizon, MergedPages
  <2>13. ResumeOK(m)'
    BY <1>1, <1>3, <1>5, <2>3, <2>6, <2>9, <2>10, <2>11 DEF ResumeOK
  <2>14. RunOK(r)'
    BY <1>1, <1>3, <1>4, <1>6, <1>10, <2>6, <2>9, <2>10, <2>11, <2>12 DEF RunOK, Paging
  <2>15. ~Quiet'
    BY <1>6 DEF Quiet
  <2> QED BY <1>1, <1>6, <1>11, <2>13, <2>14, <2>15, CompletedMoves
<1> QED BY <1>1, <1>5, <1>6, <1>8, <1>9, <1>11, Facts, MovesHold DEF MasterTypeOK

LEMMA CompleteWindowHolds ==
    ASSUME MasterAssumption, MasterInv, CompleteWindow
    PROVE  MasterInv'
<1>1. /\ MasterTypeOK /\ clock \in Nat /\ run \in Run /\ RunOK(run) /\ run.pc = "page"
      /\ run.page > run.pages /\ excused \subseteq DOMAIN listing
      /\ UNCHANGED <<clock, listing, file, conflicts, usage, deaths>>
  BY Facts DEF CompleteWindow
<1>2. PICK w, p, q : w = run.window /\ p = run.page /\ q = run.pages
  OBVIOUS
<1>3. /\ w \in Period /\ p \in Nat /\ q \in Nat /\ 1 <= q /\ q <= p - 1 /\ p > 1
      /\ w.start <= w.end /\ (run.resumed \/ w.end <= run.end)
  BY <1>1, <1>2 DEF RunOK, Run, Paging
<1>4. PICK h \in Nat : h = Horizon(run) /\ w.end <= h
  BY <1>1, <1>2, <1>3, HorizonType
<1>5. w.start \in Nat /\ w.end \in Nat /\ w.end \in Minute /\ run.end \in Nat /\ h <= w.end + 1
      /\ (h = w.end + 1 \/ run.resumed \/ ~(w.end < run.end))
  BY <1>1, <1>2, <1>3, <1>4, EntryTypes DEF Period, Run, Horizon
<1>6. \A i \in Licensed(h) : Good(i)
  <2>1. \A i \in Licensed(w.start) : Good(i)
    BY <1>1, <1>2 DEF RunOK, Paging
  <2>2. WindowGood(w, h, (p - 1) * PageRows) /\ WindowFits(w, h, q * PageRows)
    BY <1>1, <1>2, <1>3, <1>4 DEF RunOK, Paging, MergedPages
  <2>3. q * PageRows <= (p - 1) * PageRows /\ q * PageRows \in Nat /\ (p - 1) * PageRows \in Nat
    BY <1>1, <1>3, EntryTypes, Times
  <2>4. ASSUME NEW i \in Licensed(h) PROVE Good(i)
    <3>1. i \in DOMAIN listing /\ listing[i].licensed /\ listing[i].at \in Nat /\ listing[i].at < h
      BY <1>1, EntryTypes DEF Licensed
    <3>2. CASE listing[i].at < w.start
      BY <2>1, <3>1, <3>2 DEF Licensed
    <3>3. CASE ~(listing[i].at < w.start)
      <4>1. i \in Contents(w)
        BY <1>5, <3>1, <3>3 DEF Contents
      <4>2. (i \in excused \/ Place(w, i) <= q * PageRows) /\ Place(w, i) \in Nat
        BY <1>1, <2>2, <3>1, <4>1, PlacesFit DEF WindowFits
      <4>3. CASE i \in excused
        BY <4>3 DEF Good
      <4>4. CASE i \notin excused
        <5>1. Place(w, i) <= (p - 1) * PageRows
          BY <2>3, <4>2, <4>4
        <5> QED BY <2>2, <2>4, <4>1, <5>1 DEF WindowGood
      <4> QED BY <4>3, <4>4
    <3> QED BY <3>2, <3>3
  <2> QED BY <2>4
<1>7. state'.completed = w.end /\ state'.resume = Null
  BY <1>2 DEF CompleteWindow
<1>8. PICK r : r = [run EXCEPT !.pc = "window", !.cursor = w.end + 1, !.window = Null]
  OBVIOUS
<1>9. run' = r
  BY <1>2, <1>8 DEF CompleteWindow
<1>10. r \in Run
  <2>1. PICK n \in Nat : n = w.end + 1
    BY <1>5
  <2>2. r = [run EXCEPT !.pc = "window", !.cursor = n, !.window = Null]
    BY <1>8, <2>1
  <2> QED BY <1>1, <2>2 DEF Run
<1>11. r.pc = "window" /\ r.cursor = w.end + 1 /\ r.end = run.end
  BY <1>1, <1>8 DEF Run
<1>12. excused \subseteq excused' /\ excused' \subseteq DOMAIN listing
  BY <1>1 DEF CompleteWindow
<1>13. ASSUME GoodStays PROVE RunOK(r)' /\ CompletedOK'
  <2>1. \A t : Licensed(t)' = Licensed(t) /\ Licensed(t) \subseteq DOMAIN listing
    BY <1>1 DEF Licensed
  <2>2. \A i \in Licensed(h) : Good(i)'
    BY <1>6, <1>13, <2>1 DEF GoodStays
  <2>3. \A i \in Licensed(w.end) : Good(i)'
    BY <1>1, <1>4, <1>5, <2>2, EarlierToo
  <2>4. ASSUME w.end + 1 <= run.end, NEW i \in Licensed(w.end + 1) PROVE Good(i)'
    <3>1. CASE h = w.end + 1
      BY <2>2, <2>4, <3>1
    <3>2. CASE run.resumed
      <4>1. i \in DOMAIN listing /\ listing[i].licensed /\ listing[i].at \in Nat /\ listing[i].at < w.end + 1
        BY <1>1, <2>4, EntryTypes DEF Licensed
      <4>2. CASE listing[i].at = w.end
        <5>1. i \in excused'
          BY <1>2, <3>2, <4>1, <4>2 DEF CompleteWindow
        <5> QED BY <5>1 DEF Good
      <4>3. CASE listing[i].at # w.end
        <5>1. listing[i].at < w.end
          BY <1>5, <4>1, <4>3
        <5>2. i \in Licensed(w.end)
          BY <4>1, <5>1 DEF Licensed
        <5> QED BY <2>3, <5>2
      <4> QED BY <4>2, <4>3
    <3> QED BY <1>5, <2>4, <3>1, <3>2
  <2>5. RunOK(r)'
    BY <1>1, <1>3, <1>7, <1>11, <2>1, <2>4 DEF RunOK, Paging
  <2>6. \A i \in Licensed(w.end) : Covered(i)'
    BY <2>3 DEF Good, Covered
  <2>8. CompletedOK'
    BY <1>7, <2>1, <2>3, <2>6 DEF CompletedOK
  <2> QED BY <2>5, <2>8
<1> QED BY <1>1, <1>5, <1>7, <1>9, <1>10, <1>12, <1>13, Facts, MovesHold DEF MasterTypeOK

-----------------------------------------------------------------------------
(* CodeMaster: the files *)

OnPage(f) == {i \in run.items : f = "industry" \/ listing[i].licensed}

\* What a page brings to a file: of each code, the name in its last entry.
LEMMA NewRowsAre ==
    ASSUME MasterAssumption, MasterTypeOK, run.items \subseteq DOMAIN listing, NEW f
    PROVE  /\ NewRows(f) \in Rows
           /\ DOMAIN NewRows(f) = {listing[i].code : i \in OnPage(f)}
           /\ \A i \in OnPage(f) : \E j \in OnPage(f) :
                 /\ i <= j /\ listing[j].code = listing[i].code
                 /\ listing[j].name = NewRows(f)[listing[i].code]
<1>1. PICK mine : mine = OnPage(f)
  OBVIOUS
<1>2. mine \subseteq DOMAIN listing /\ DOMAIN listing = 1..Len(listing) /\ Len(listing) \in Nat
  BY <1>1 DEF OnPage, MasterTypeOK
<1> DEFINE lastOf(c) == CHOOSE i \in mine : listing[i].code = c /\
                            \A j \in mine : listing[j].code = c => j <= i
           K == {listing[i].code : i \in mine}
<1>3. ASSUME NEW c \in K
      PROVE  /\ lastOf(c) \in mine /\ listing[lastOf(c)].code = c
             /\ \A j \in mine : listing[j].code = c => j <= lastOf(c)
  <2>1. PICK S : S = {i \in mine : listing[i].code = c}
    OBVIOUS
  <2>2. S \in SUBSET (1..Len(listing)) /\ S # {}
    BY <1>2, <2>1
  <2>3. \E i \in S : \A j \in S : j <= i
    BY <1>2, <2>2, GreatestIndex
  <2>4. \E i \in mine : listing[i].code = c /\ \A j \in mine : listing[j].code = c => j <= i
    BY <2>1, <2>3
  <2> QED BY <2>4
<1>4. NewRows(f) = [c \in K |-> listing[lastOf(c)].name]
  BY <1>1 DEF NewRows, OnPage
<1> HIDE DEF lastOf
<1>5. K \subseteq Code /\ \A c \in K : listing[lastOf(c)].name \in Name
  <2>1. \A i \in mine : listing[i].code \in Code /\ listing[i].name \in Name
    BY <1>2, EntryTypes DEF Entry
  <2> QED BY <1>3, <2>1
<1>6. NewRows(f) \in [K -> Name]
  BY <1>4, <1>5
<1>7. NewRows(f) \in Rows
  BY <1>5, <1>6 DEF Rows
<1>8. ASSUME NEW i \in mine
      PROVE  \E j \in mine : /\ i <= j /\ listing[j].code = listing[i].code
                            /\ listing[j].name = NewRows(f)[listing[i].code]
  <2>1. listing[i].code \in K
    OBVIOUS
  <2> QED BY <1>3, <1>4, <2>1
<1> QED BY <1>1, <1>4, <1>7, <1>8

LEMMA MergedRows ==
    ASSUME NEW old \in Rows, NEW new \in Rows
    PROVE  /\ Merged(old, new) \in Rows
           /\ DOMAIN Merged(old, new) = DOMAIN old \cup DOMAIN new
           /\ \A c \in DOMAIN new : Merged(old, new)[c] = new[c]
           /\ \A c \in DOMAIN old : c \notin DOMAIN new => Merged(old, new)[c] = old[c]
<1>1. PICK S \in SUBSET Code : old \in [S -> Name]
  BY DEF Rows
<1>2. PICK T \in SUBSET Code : new \in [T -> Name]
  BY DEF Rows
<1>3. Merged(old, new) \in [S \cup T -> Name]
  BY <1>1, <1>2 DEF Merged
<1>4. S \cup T \in SUBSET Code
  OBVIOUS
<1>5. Merged(old, new) \in Rows
  BY <1>3, <1>4 DEF Rows
<1> QED BY <1>1, <1>2, <1>5 DEF Merged

\* What a merge writes is a file, and what a crash leaves of one.
LEMMA FilesAre ==
    ASSUME MasterAssumption, MasterInv, run # Null, NEW f \in File, run.pc = f
    PROVE  /\ run.items \subseteq DOMAIN listing
           /\ Merged(file[f].rows, NewRows(f)) \in Rows
           /\ [rows |-> Merged(file[f].rows, NewRows(f)), readable |-> TRUE, written |-> clock] \in Written
           /\ CutFiles(f) \subseteq Written
           /\ \A left \in CutFiles(f) : left.written = clock
<1>1. MasterTypeOK /\ run \in Run /\ RunOK(run) /\ clock \in Minute
  BY Facts DEF MasterTypeOK
<1>2. run.items \subseteq DOMAIN listing
  BY <1>1 DEF RunOK, File, PageOf, Contents
<1>3. PICK whole : whole = Merged(file[f].rows, NewRows(f))
  OBVIOUS
<1>4. whole \in Rows
  <2>1. file[f].rows \in Rows
    BY <1>1 DEF MasterTypeOK, Written
  <2> QED BY <1>1, <1>2, <1>3, <2>1, NewRowsAre, MergedRows
<1>5. [rows |-> whole, readable |-> TRUE, written |-> clock] \in Written
  BY <1>1, <1>4 DEF Written
<1>6. ASSUME NEW k \in Code PROVE [c \in {c \in DOMAIN whole : c < k} |-> whole[c]] \in Rows
  <2>1. PICK S \in SUBSET Code : whole \in [S -> Name]
    BY <1>4 DEF Rows
  <2>2. PICK T : T = {c \in DOMAIN whole : c < k}
    OBVIOUS
  <2>3. T \in SUBSET Code /\ [c \in T |-> whole[c]] \in [T -> Name]
    BY <2>1, <2>2
  <2> QED BY <2>2, <2>3 DEF Rows
<1>7. NoRows \in Rows
  BY DEF NoRows, Rows
<1>8. ASSUME NEW left \in CutFiles(f) PROVE left \in Written /\ left.written = clock
  <2>1. \/ left = [rows |-> NoRows, readable |-> FALSE, written |-> clock]
        \/ \E k \in Code : left = [rows |-> [c \in {c \in DOMAIN whole : c < k} |-> whole[c]],
                                  readable |-> TRUE, written |-> clock]
    BY <1>3 DEF CutFiles
  <2>2. \E rows \in Rows, b \in BOOLEAN : left = [rows |-> rows, readable |-> b, written |-> clock]
    BY <1>6, <1>7, <2>1
  <2> QED BY <1>1, <2>2 DEF Written
<1> QED BY <1>2, <1>3, <1>4, <1>5, <1>8

\* A step after which the entries are as before.
LEMMA SameEntries ==
    ASSUME MasterInv, MasterTypeOK', FilesOK', UNCHANGED <<clock, listing>>,
           state'.resume # Null => ResumeOK(state.resume)',
           run' # Null => RunOK(run)',
           CompletedOK'
    PROVE  MasterInv'
BY DEF MasterInv, ListingOK

\* A file that cannot be read was cut off by a crash.
LEMMA MergeFails ==
    ASSUME MasterAssumption, MasterInv, NEW f \in File, NEW next, Merge(f, next), ~file[f].readable
    PROVE  MasterInv'
<1>1. /\ MasterTypeOK /\ run' = Null /\ clock \in Nat
      /\ UNCHANGED <<clock, listing, file, conflicts, state, usage, excused, deaths>>
  BY Facts DEF Merge
<1>2. deaths # 0
  BY DEF MasterInv, FilesOK
<1>3. ASSUME GoodStays
      PROVE  (state'.resume # Null => ResumeOK(state.resume)') /\ CompletedOK'
  <2>1. state'.resume # Null => ResumeOK(state.resume)'
    BY <1>1, <1>3, ResumeKept
  <2>2. Grown /\ CompletedOK
    BY <1>1, Facts
  <2>3. \A i \in DOMAIN listing : Covered(i) => Covered(i)'
    BY <1>1, <2>2, CoveredStays
  <2>5. CompletedOK'
    BY <1>1, <1>2, <2>2, <2>3, CompletedStays
  <2> QED BY <2>1, <2>5
<1> QED BY <1>1, <1>3, Facts, MovesHold DEF MasterTypeOK

\* What merging a readable file changes.
LEMMA MergeDoes ==
    ASSUME MasterAssumption, MasterInv, NEW f \in File, NEW next \in {"industry", "save"},
           Merge(f, next), file[f].readable
    PROVE  /\ run \in Run /\ run.pc = f /\ RunOK(run)
           /\ UNCHANGED <<clock, listing, state, usage, excused, deaths>>
           /\ file'[f].rows = Merged(file[f].rows, NewRows(f))
           /\ \A g \in File : g # f => file'[g] = file[g]
           /\ run' = [run EXCEPT !.pc = next] /\ run' \in Run
           /\ MasterTypeOK' /\ FilesOK'
<1>1. /\ MasterTypeOK /\ run \in Run /\ RunOK(run) /\ run # Null /\ run.pc = f /\ clock \in Nat
      /\ UNCHANGED <<clock, listing, state, usage, excused, deaths>>
  BY Facts DEF Merge
<1>2. PICK new \in Written : new = [rows |-> Merged(file[f].rows, NewRows(f)), readable |-> TRUE, written |-> clock]
  BY <1>1, FilesAre
<1>3. new.rows = Merged(file[f].rows, NewRows(f)) /\ new.readable = TRUE /\ new.written = clock
  BY <1>2
<1>4. file \in [File -> Written] /\ file' = [file EXCEPT ![f] = new]
  BY <1>1, <1>2 DEF Merge, MasterTypeOK
<1>5. file' \in [File -> Written] /\ file'[f] = new /\ \A g \in File : g # f => file'[g] = file[g]
  BY <1>4
<1>6. run' = [run EXCEPT !.pc = next]
  BY DEF Merge, Goes
<1>7. run' \in Run
  BY <1>1, <1>6 DEF Run
<1>8. conflicts' \in [File -> SUBSET Code]
  <2>1. Disputed(f) \subseteq Code
    BY DEF Disputed
  <2> QED BY <1>1, <2>1 DEF Merge, MasterTypeOK
<1>9. MasterTypeOK'
  BY <1>1, <1>5, <1>7, <1>8 DEF MasterTypeOK
<1>10. FilesOK'
  <2>1. FilesOK
    BY DEF MasterInv
  <2>2. clock <= clock'
    BY <1>1
  <2> QED BY <1>1, <1>3, <1>5, <2>1, <2>2 DEF FilesOK
<1> QED BY <1>1, <1>3, <1>5, <1>6, <1>7, <1>9, <1>10

\* Merging industry codes does not touch the license codes.
LEMMA MergeIndustryHolds ==
    ASSUME MasterAssumption, MasterInv, Merge("industry", "save")
    PROVE  MasterInv'
<1>1. "industry" \in File /\ "license" \in File
  BY DEF File
<1>2. CASE ~file["industry"].readable
  BY <1>1, <1>2, MergeFails
<1>3. CASE file["industry"].readable
  <2>1. /\ run \in Run /\ run.pc = "industry" /\ RunOK(run)
        /\ UNCHANGED <<clock, listing, state, usage, excused, deaths>>
        /\ file'["license"] = file["license"]
        /\ run' = [run EXCEPT !.pc = "save"] /\ run' \in Run
        /\ MasterTypeOK' /\ FilesOK'
    BY <1>1, <1>3, MergeDoes
  <2>2. Grown /\ MasterTypeOK /\ clock \in Nat /\ CompletedOK
    BY <2>1, Facts
  <2>3. GoodStays
    <3>1. deaths' \in Nat /\ deaths <= deaths'
      BY <2>1, <2>2 DEF MasterTypeOK, MasterAssumption
    <3> QED BY <2>1, <2>2, <3>1, UntouchedIsGood
  <2>5. state'.resume # Null => ResumeOK(state.resume)'
    BY <2>1, <2>3, ResumeKept
  <2>6. PICK r : r = [run EXCEPT !.pc = "save"]
    OBVIOUS
  <2>7. r \in Run
    BY <2>1, <2>6
  <2>8. /\ r.pc = "save" /\ r.resumed = run.resumed /\ r.window = run.window /\ r.page = run.page
        /\ r.pages = run.pages /\ r.end = run.end /\ r.items = run.items
    BY <2>1, <2>6 DEF Run
  <2>9. Horizon(r) = Horizon(run) /\ MergedPages(r) = MergedPages(run)
    BY <2>1, <2>8 DEF Horizon, MergedPages
  <2>10. RunOK(r)
    BY <2>1, <2>8, <2>9 DEF RunOK, Paging
  <2>16. run # Null
    BY <2>1 DEF MasterAssumption
  <2>11. RunOK(r)'
    BY <2>1, <2>2, <2>3, <2>7, <2>8, <2>10, <2>16, RunStays
  <2>12. \A i \in DOMAIN listing : Covered(i) => Covered(i)'
    BY <2>1, <2>2, CoveredStays
  <2>13. run' # Null /\ run'.pc = "save"
    <3>1. run' # Null
      BY <2>1 DEF MasterAssumption
    <3> QED BY <2>1, <2>6, <2>8, <3>1
  <2>14. ~Quiet'
    BY <2>13 DEF Quiet
  <2>15. CompletedOK'
    BY <2>1, <2>2, <2>12, <2>14, CompletedStays
  <2> QED BY <2>1, <2>5, <2>6, <2>11, <2>15, SameEntries
<1> QED BY <1>2, <1>3

\* What a process that dies leaves of the codes is told apart from what it loses.
LEMMA CrashHolds ==
    ASSUME MasterAssumption, MasterInv, CommandDies
    PROVE  MasterInv'
<1>1. /\ MasterTypeOK /\ run \in Run /\ run # Null /\ run' = Null /\ clock \in Nat /\ CompletedOK
      /\ UNCHANGED <<clock, listing, conflicts, state, usage>>
      /\ excused \subseteq DOMAIN listing
  BY Facts DEF CommandDies
<1>3. deaths' \in 0..MaxDeaths /\ deaths' # 0
  <2>1. deaths \in Nat /\ MaxDeaths \in Nat
    BY <1>1 DEF MasterTypeOK, MasterAssumption
  <2> QED BY <2>1 DEF CommandDies
<1>4. /\ file' \in [File -> Written]
      /\ excused \subseteq excused' /\ excused' \subseteq DOMAIN listing
      /\ \A g \in File : file'[g].written # Null => file'[g].written <= clock
      /\ \A i \in DOMAIN listing : Covered(i) => Covered(i)'
  <2>1. file \in [File -> Written] /\ \A g \in File : file[g].written # Null => file[g].written <= clock
    BY <1>1 DEF MasterTypeOK, MasterInv, FilesOK
  <2>2. CASE UNCHANGED <<file, excused>>
    BY <1>1, <2>1, <2>2 DEF Covered
  <2>3. ASSUME NEW f \in File, run.pc = f, NEW left \in CutFiles(f), file' = [file EXCEPT ![f] = left],
               excused' = excused \cup {i \in DOMAIN listing : listing[i].code \notin DOMAIN left.rows}
        PROVE  /\ file' \in [File -> Written]
               /\ excused \subseteq excused' /\ excused' \subseteq DOMAIN listing
               /\ \A g \in File : file'[g].written # Null => file'[g].written <= clock
               /\ \A i \in DOMAIN listing : Covered(i) => Covered(i)'
    <3>1. left \in Written /\ left.written = clock
      BY <1>1, <2>3, FilesAre
    <3>2. file' \in [File -> Written] /\ file'[f] = left /\ \A g \in File : g # f => file'[g] = file[g]
      BY <2>1, <2>3, <3>1
    <3>3. clock <= clock
      BY <1>1
    <3>4. ASSUME NEW i \in DOMAIN listing, Covered(i) PROVE Covered(i)'
      <4>1. "license" \in File
        BY DEF File
      <4>2. CASE f = "license"
        BY <1>1, <2>3, <3>2, <3>4, <4>2 DEF Covered
      <4>3. CASE f # "license"
        BY <1>1, <2>3, <3>2, <3>4, <4>1, <4>3 DEF Covered
      <4> QED BY <4>2, <4>3
    <3> QED BY <1>1, <2>1, <2>3, <3>1, <3>2, <3>3, <3>4
  <2> QED BY <2>2, <2>3 DEF CommandDies
<1>2. Grown
  BY <1>1, <1>4, Facts
<1>5. GoodStays
  <2>1. ASSUME NEW i \in DOMAIN listing, Good(i) PROVE Good(i)'
    <3>1. Covered(i)'
      BY <1>4, <2>1, GoodIsCovered
    <3> QED BY <1>3, <3>1 DEF Good, Covered
  <2> QED BY <2>1 DEF GoodStays
<1>6. MasterTypeOK'
  BY <1>1, <1>3, <1>4 DEF MasterTypeOK
<1>7. FilesOK'
  BY <1>1, <1>3, <1>4 DEF FilesOK
<1>8. state'.resume # Null => ResumeOK(state.resume)'
  BY <1>1, <1>4, <1>5, ResumeKept
<1>10. CompletedOK'
  BY <1>1, <1>2, <1>3, <1>4, CompletedStays
<1> QED BY <1>1, <1>6, <1>7, <1>8, <1>10, SameEntries

\* Where an entry comes before those of the page that is merged, its name is not overwritten
\* by an older one.
LEMMA NamesStay ==
    ASSUME MasterAssumption, MasterInv, UNCHANGED <<listing, excused, deaths>>,
           file["license"].rows \in Rows, run.items \subseteq DOMAIN listing,
           file'["license"].rows = Merged(file["license"].rows, NewRows("license")),
           NEW i \in DOMAIN listing, Good(i),
           \A k \in run.items : i <= k
    PROVE  Good(i)'
<1>1. MasterTypeOK
  BY Facts
<1>2. PICK new \in Rows : new = NewRows("license")
  BY <1>1, NewRowsAre
<1>3. PICK old \in Rows : old = file["license"].rows
  OBVIOUS
<1>4. PICK both : both = Merged(old, new)
  OBVIOUS
<1>5. /\ DOMAIN both = DOMAIN old \cup DOMAIN new
      /\ \A c \in DOMAIN new : both[c] = new[c]
      /\ \A c \in DOMAIN old : c \notin DOMAIN new => both[c] = old[c]
  BY <1>4, MergedRows
<1>6. PICK c : c = listing[i].code
  OBVIOUS
<1>7. CASE i \in excused
  BY <1>7 DEF Good
<1>8. CASE i \notin excused
  <2>1. c \in DOMAIN old
    BY <1>3, <1>6, <1>8 DEF Good
  <2>2. c \in DOMAIN both
    BY <1>5, <2>1
  <2>3. CASE c \notin DOMAIN new
    BY <1>2, <1>3, <1>4, <1>5, <1>6, <1>8, <2>1, <2>2, <2>3 DEF Good
  <2>4. CASE c \in DOMAIN new
    <3>0. DOMAIN new = {listing[k].code : k \in OnPage("license")}
      BY <1>1, <1>2, NewRowsAre
    <3>1. PICK k \in OnPage("license") : listing[k].code = c
      BY <2>4, <3>0
    <3>2. PICK j \in OnPage("license") : listing[j].code = c /\ listing[j].name = new[c]
      BY <1>1, <1>2, <3>1, NewRowsAre
    <3>3. j \in DOMAIN listing /\ i <= j /\ listing[j].licensed
      BY <3>2 DEF OnPage
    <3> QED BY <1>2, <1>3, <1>4, <1>5, <1>6, <2>2, <2>4, <3>2, <3>3 DEF Good
  <2> QED BY <2>3, <2>4
<1> QED BY <1>7, <1>8

\* What is on a page is good when the page is merged.
LEMMA PageIsGood ==
    ASSUME MasterAssumption, MasterInv, UNCHANGED listing,
           file["license"].rows \in Rows, run.items \subseteq DOMAIN listing,
           file'["license"].rows = Merged(file["license"].rows, NewRows("license")),
           NEW i \in run.items, listing[i].licensed
    PROVE  Good(i)'
<1>1. MasterTypeOK
  BY Facts
<1>2. PICK new \in Rows : new = NewRows("license")
  BY <1>1, NewRowsAre
<1>3. PICK old \in Rows : old = file["license"].rows
  OBVIOUS
<1>4. PICK both : both = Merged(old, new)
  OBVIOUS
<1>5. /\ DOMAIN both = DOMAIN old \cup DOMAIN new
      /\ \A c \in DOMAIN new : both[c] = new[c]
  BY <1>4, MergedRows
<1>6. i \in OnPage("license")
  BY DEF OnPage
<1>7. DOMAIN new = {listing[k].code : k \in OnPage("license")}
  BY <1>1, <1>2, NewRowsAre
<1>8. PICK j \in OnPage("license") :
         i <= j /\ listing[j].code = listing[i].code /\ listing[j].name = new[listing[i].code]
  BY <1>1, <1>2, <1>6, NewRowsAre
<1>9. j \in DOMAIN listing /\ listing[j].licensed
  BY <1>8 DEF OnPage
<1>10. listing[i].code \in DOMAIN new
  BY <1>6, <1>7
<1> QED BY <1>2, <1>3, <1>4, <1>5, <1>8, <1>9, <1>10 DEF Good

LEMMA MergeLicenseHolds ==
    ASSUME MasterAssumption, MasterInv, Merge("license", "industry")
    PROVE  MasterInv'
<1>1. "license" \in File
  BY DEF File
<1>2. CASE ~file["license"].readable
  BY <1>1, <1>2, MergeFails
<1>3. CASE file["license"].readable
  <2>1. /\ run \in Run /\ run.pc = "license" /\ RunOK(run)
        /\ UNCHANGED <<clock, listing, state, usage, excused, deaths>>
        /\ file'["license"].rows = Merged(file["license"].rows, NewRows("license"))
        /\ run' = [run EXCEPT !.pc = "industry"] /\ run' \in Run
        /\ MasterTypeOK' /\ FilesOK'
    BY <1>1, <1>3, MergeDoes
  <2>2. Grown /\ MasterTypeOK /\ clock \in Nat /\ CompletedOK /\ run # Null /\ run' # Null
    BY <2>1, Facts DEF MasterAssumption
  <2>3. run.items \subseteq DOMAIN listing /\ file["license"].rows \in Rows
    BY <1>1, <2>1, <2>2, FilesAre DEF MasterTypeOK, Written
  <2>4. PICK w, p, q, I : w = run.window /\ p = run.page /\ q = run.pages /\ I = run.items
    OBVIOUS
  <2>5. /\ w \in Period /\ p \in Nat /\ 1 <= p /\ q \in Nat /\ 1 <= q /\ p <= q
        /\ w.start <= w.end /\ (run.resumed \/ w.end <= run.end)
    BY <2>1, <2>4 DEF RunOK, Run, Paging
  <2>6. PICK h \in Nat : h = Horizon(run) /\ w.end <= h /\ w.start \in Nat /\ w.end \in Nat
    BY <2>1, <2>2, <2>4, <2>5, HorizonType
  <2>7. /\ \A i \in Licensed(w.start) : Good(i)
        /\ WindowGood(w, h, (p - 1) * PageRows) /\ WindowFits(w, h, q * PageRows)
        /\ I \subseteq PageOf(w, p) /\ \A i \in PageOf(w, p) : listing[i].at < h => i \in I \cup excused
    BY <2>1, <2>4, <2>6 DEF RunOK, Paging, MergedPages
  <2>8. ASSUME NEW i \in DOMAIN listing, Good(i), \A k \in I : i <= k PROVE Good(i)'
    BY <2>1, <2>3, <2>4, <2>8, NamesStay
  <2>9. ASSUME NEW i \in Licensed(w.start) PROVE Good(i)'
    <3>1. i \in DOMAIN listing /\ i \in Nat /\ listing[i].at \in Nat /\ listing[i].at < w.start
      BY <2>2, <2>9, EntryTypes DEF Licensed
    <3>2. ASSUME NEW k \in I PROVE i <= k
      <4>1. k \in DOMAIN listing /\ k \in Nat /\ w.start <= listing[k].at /\ listing[k].at \in Nat
        BY <2>2, <2>3, <2>4, <2>7, EntryTypes DEF PageOf, Contents
      <4>2. k <= i => listing[k].at <= listing[i].at
        BY <3>1, <4>1 DEF MasterInv, ListingOK
      <4> QED BY <2>6, <3>1, <4>1, <4>2
    <3> QED BY <2>7, <2>8, <2>9, <3>1, <3>2
  <2>10. ASSUME NEW i \in Licensed(h) \cap Contents(w), Place(w, i) <= (p - 1) * PageRows PROVE Good(i)'
    <3>1. i \in DOMAIN listing /\ i \in Nat /\ i \in Contents(w) /\ Place(w, i) \in Nat
      BY <2>2, <2>10, EntryTypes, PlacesFit DEF Licensed
    <3>2. (p - 1) * PageRows \in Int
      BY <2>2, <2>5, EntryTypes
    <3>3. ASSUME NEW k \in I PROVE i <= k
      <4>1. k \in Contents(w) /\ (p - 1) * PageRows < Place(w, k) /\ Place(w, k) \in Nat
        BY <2>2, <2>7, PlacesFit DEF PageOf
      <4>2. k \in Nat
        BY <2>2, <4>1, EntryTypes DEF Contents
      <4>3. k <= i => Place(w, k) <= Place(w, i)
        BY <2>2, <3>1, <4>1, PlacesGrow
      <4> QED BY <2>10, <3>1, <3>2, <4>1, <4>2, <4>3
    <3>4. Good(i)
      BY <2>7, <2>10 DEF WindowGood
    <3> QED BY <2>8, <3>1, <3>3, <3>4
  <2>11. ASSUME NEW i \in Licensed(h) \cap Contents(w), Place(w, i) <= p * PageRows PROVE Good(i)'
    <3>1. CASE Place(w, i) <= (p - 1) * PageRows
      BY <2>10, <2>11, <3>1
    <3>2. CASE ~(Place(w, i) <= (p - 1) * PageRows)
      <4>1. Place(w, i) \in Nat /\ (p - 1) * PageRows \in Int
        BY <2>2, <2>5, <2>11, EntryTypes, PlacesFit
      <4>2. i \in PageOf(w, p)
        BY <2>11, <3>2, <4>1 DEF PageOf
      <4>3. i \in I \cup excused /\ listing[i].licensed
        BY <2>7, <2>11, <4>2 DEF Licensed
      <4>4. CASE i \in excused
        BY <2>1, <4>4 DEF Good
      <4>5. CASE i \in I
        BY <2>1, <2>3, <2>4, <4>3, <4>5, PageIsGood
      <4> QED BY <4>3, <4>4, <4>5
    <3> QED BY <3>1, <3>2
  <2>12. \A t : Licensed(t)' = Licensed(t) /\ Licensed(t) \subseteq DOMAIN listing
    BY <2>1 DEF Licensed
  <2>13. Contents(w)' = Contents(w) /\ \A i : Place(w, i)' = Place(w, i)
    BY <2>1 DEF Contents, Place
  <2>14. PageOf(w, p)' = PageOf(w, p)
    BY <2>13 DEF PageOf
  <2>15. (\A i \in Licensed(w.start) : Good(i))'
    BY <2>9, <2>12
  <2>16. WindowGood(w, h, p * PageRows)' /\ WindowGood(w, h, (p - 1) * PageRows)'
    BY <2>10, <2>11, <2>12, <2>13 DEF WindowGood
  <2>17. WindowFits(w, h, q * PageRows)'
    BY <2>1, <2>7, <2>13 DEF WindowFits
  <2>18. state'.resume # Null => ResumeOK(state.resume)'
    <3>1. SUFFICES ASSUME state.resume # Null PROVE ResumeOK(state.resume)'
      BY <2>1
    <3>2. PICK m : m = state.resume
      OBVIOUS
    <3>3. ResumeOK(m) /\ p > 1 /\ m = [window |-> w, next |-> p, pages |-> q]
      BY <2>1, <2>4, <2>5, <3>1, <3>2, Facts DEF RunOK, Paging
    <3>4. m.window = w /\ m.next = p /\ m.pages = q
      BY <3>3
    <3>5. WindowGood(w, w.end, (p - 1) * PageRows)'
      <4>1. \A i \in Licensed(w.end) : i \in Licensed(h)
        BY <2>2, <2>6, EarlierToo
      <4> QED BY <2>10, <2>12, <2>13, <4>1 DEF WindowGood
    <3>6. WindowFits(w, w.end, q * PageRows)'
      BY <2>1, <2>13, <3>3, <3>4 DEF ResumeOK, WindowFits
    <3>7. ResumeOK(m)'
      BY <2>1, <2>15, <3>3, <3>4, <3>5, <3>6 DEF ResumeOK
    <3> QED BY <2>1, <3>2, <3>7
  <2>19. PICK r : r = [run EXCEPT !.pc = "industry"]
    OBVIOUS
  <2>20. /\ r.pc = "industry" /\ r.resumed = run.resumed /\ r.window = w /\ r.page = p
         /\ r.pages = q /\ r.end = run.end /\ r.items = I /\ run' = r
    BY <2>1, <2>4, <2>19 DEF Run
  <2>21. Horizon(r)' = h /\ MergedPages(r)' = p
    BY <2>4, <2>6, <2>20 DEF Horizon, MergedPages
  <2>22. /\ p = 1 => state'.resume = Null /\ ~r.resumed
         /\ p > 1 => state'.resume = [window |-> w, next |-> p, pages |-> q]
    BY <2>1, <2>4, <2>20 DEF RunOK, Paging
  <2>23. RunOK(r)'
    BY <2>1, <2>5, <2>7, <2>14, <2>15, <2>16, <2>17, <2>20, <2>21, <2>22 DEF RunOK, Paging
  <2>24. \A i \in DOMAIN listing : Covered(i) => Covered(i)'
    <3>1. PICK new \in Rows : new = NewRows("license")
      BY <2>2, <2>3, NewRowsAre
    <3>2. PICK old \in Rows : old = file["license"].rows
      BY <2>3
    <3>3. DOMAIN old \subseteq DOMAIN Merged(old, new)
      BY MergedRows
    <3>4. file'["license"].rows = Merged(old, new)
      BY <2>1, <3>1, <3>2
    <3> QED BY <2>1, <3>2, <3>3, <3>4 DEF Covered
  <2>25. ~Quiet'
    BY <2>2, <2>20 DEF Quiet
  <2>27. CompletedOK'
    BY <2>1, <2>2, <2>24, <2>25, CompletedStays
  <2> QED BY <2>1, <2>18, <2>20, <2>23, <2>27, SameEntries
<1> QED BY <1>2, <1>3

\* The other command writes the file of industry codes only.
LEMMA OthersHold ==
    ASSUME MasterAssumption, MasterInv,
           UNCHANGED <<clock, listing, conflicts, state, usage, run, excused, deaths>>,
           file' \in [File -> Written], file'["license"] = file["license"],
           file' = file \/ (file'["industry"].readable /\ file'["industry"].written = clock)
    PROVE  MasterInv'
<1>1. MasterTypeOK /\ Grown /\ clock \in Nat /\ CompletedOK
  BY Facts
<1>2. GoodStays
  <2>1. deaths' \in Nat /\ deaths <= deaths'
    BY <1>1 DEF MasterTypeOK, MasterAssumption
  <2> QED BY <1>1, <2>1, UntouchedIsGood
<1>3. MasterTypeOK'
  BY <1>1 DEF MasterTypeOK
<1>4. FilesOK'
  <2>1. FilesOK /\ clock <= clock
    BY <1>1 DEF MasterInv
  <2> QED BY <2>1 DEF FilesOK, File
<1>5. state'.resume # Null => ResumeOK(state.resume)'
  BY <1>2, ResumeKept
<1>6. run' # Null => RunOK(run)'
  <2>1. PICK r : r = run
    OBVIOUS
  <2>2. r # Null => r \in Run /\ RunOK(r)
    BY <2>1, Facts
  <2>4. r # Null => RunOK(r)'
    BY <1>1, <1>2, <2>1, <2>2, RunStays
  <2> QED BY <2>1, <2>4
<1>7. CompletedOK'
  <2>1. Quiet' => Quiet
    BY DEF Quiet
  <2>2. \A i \in DOMAIN listing : Covered(i) => Covered(i)'
    BY <1>1, CoveredStays
  <2> QED BY <1>1, <1>2, <2>1, <2>2, CompletedStays
<1> QED BY <1>3, <1>4, <1>5, <1>6, <1>7, SameEntries

LEMMA ExportHolds ==
    ASSUME MasterAssumption, MasterInv, StoreInv, Export
    PROVE  MasterInv'
<1>1. /\ MasterTypeOK /\ StoreTypeOK /\ clock \in Minute /\ file \in [File -> Written]
      /\ UNCHANGED <<clock, listing, conflicts, state, usage, run, excused, deaths>>
  BY Facts DEF Export, StoreInv, MasterTypeOK
<1>2. CASE job.dataset # "industry"
  BY <1>1, <1>2, OthersHold DEF Export
<1>3. CASE job.dataset = "industry"
  <2>1. records["industry"] \in Records
    BY <1>1, <1>3 DEF Export, StoreTypeOK, Command
  <2>2. PICK S \in SUBSET Code : records["industry"] \in [S -> Record]
    BY <2>1 DEF Records
  <2>3. PICK rows : rows = [c \in DOMAIN records["industry"] |-> records["industry"][c].name]
    OBVIOUS
  <2>4. rows \in [S -> Name]
    BY <2>2, <2>3 DEF Record
  <2>5. rows \in Rows
    BY <2>4 DEF Rows
  <2>6. PICK new \in Written : new = [rows |-> rows, readable |-> TRUE, written |-> clock]
    BY <1>1, <2>5 DEF Written
  <2>7. file' = [file EXCEPT !["industry"] = new]
    BY <1>3, <2>3, <2>6 DEF Export
  <2>8. /\ file' \in [File -> Written] /\ file'["license"] = file["license"]
        /\ file'["industry"].readable /\ file'["industry"].written = clock
    BY <1>1, <2>6, <2>7 DEF File
  <2> QED BY <1>1, <2>8, OthersHold
<1> QED BY <1>2, <1>3

\* No step of either command, of the services or of the clock breaks it.
LEMMA MasterInvHolds ==
    ASSUME MasterAssumption, StoreAssumption, StoreInv, MasterInv, [CodesNext]_<<masterVars, storeVars>>
    PROVE  MasterInv'
<1>1. ASSUME UNCHANGED masterVars PROVE MasterInv'
  <2>1. file \in [File -> Written]
    BY Facts DEF MasterTypeOK
  <2> QED BY <1>1, <2>1, OthersHold DEF masterVars
<1>2. CASE MasterNext
  BY <1>2, TickHolds, RegisterHolds, LaunchHolds, ResumeWindowHolds, TakeWindowHolds, FetchHolds,
     FetchFailsHolds, MergeLicenseHolds, MergeIndustryHolds, SaveResumeHolds, CompleteWindowHolds,
     CrashHolds DEF MasterNext
<1>3. CASE StoreNext
  <2>1. CASE Export
    BY <2>1, ExportHolds
  <2>2. CASE ~Export
    <3>1. UNCHANGED masterVars
      BY <1>3, <2>2 DEF StoreNext, Publish, Amend, StartCommand, NextWindow, RequestPage, CommandFails,
                        StoreItem, StorePage, LeaveWindow
    <3> QED BY <1>1, <3>1
  <2> QED BY <2>1, <2>2
<1>4. CASE UNCHANGED <<masterVars, storeVars>>
  BY <1>1, <1>4
<1> QED BY <1>2, <1>3, <1>4 DEF CodesNext

\* What the files, the state file and a run under way say of the entries fits together,
\* wherever a run starts, fails, is killed or is resumed (collect_one_window, main).
THEOREM MasterInvariance ==
    ASSUME MasterAssumption, StoreAssumption
    PROVE  CodesSpec => []MasterInv
<1>1. MasterInit => MasterInv
  BY MasterInitHolds
<1>2. StoreInv /\ MasterInv /\ [CodesNext]_<<masterVars, storeVars>> => MasterInv'
  BY MasterInvHolds
<1> QED BY <1>1, <1>2, StoreInvariance, PTL DEF CodesSpec

\* The license codes of all that was registered until shortly before the time that the
\* state calls complete are in the file, with their latest names while nothing is under
\* way and no process has died, but for what a run knowingly passed over or a file that
\* was cut off has lost (determine_start, collect_one_window, merge_master).
THEOREM CodesAreAccountedFor ==
    ASSUME MasterAssumption, StoreAssumption
    PROVE  CodesSpec => []CodesAccountedFor
<1>1. MasterInv => CodesAccountedFor
  <2> SUFFICES ASSUME MasterInv, state.completed # Null,
                      NEW i \in DOMAIN listing \ excused,
                      listing[i].licensed, listing[i].at <= state.completed - Reread
               PROVE  /\ listing[i].code \in DOMAIN file["license"].rows
                      /\ run = Null /\ state.resume = Null /\ deaths = 0 =>
                             \E j \in i..Len(listing) :
                                 /\ listing[j].licensed /\ listing[j].code = listing[i].code
                                 /\ listing[j].name = file["license"].rows[listing[i].code]
    BY DEF CodesAccountedFor
  <2>1. MasterTypeOK /\ CompletedOK
    BY Facts
  <2>2. state.completed \in Nat /\ Reread \in Nat \ {0} /\ listing[i].at \in Nat
    BY <2>1, EntryTypes DEF MasterTypeOK, MasterAssumption
  <2>3. i \in Licensed(state.completed)
    BY <2>2 DEF Licensed
  <2>4. listing[i].code \in DOMAIN file["license"].rows
    BY <2>1, <2>3 DEF CompletedOK, Covered
  <2>5. ASSUME run = Null, state.resume = Null, deaths = 0
        PROVE  \E j \in i..Len(listing) :
                   /\ listing[j].licensed /\ listing[j].code = listing[i].code
                   /\ listing[j].name = file["license"].rows[listing[i].code]
    <3>1. Good(i)
      BY <2>1, <2>3, <2>5 DEF CompletedOK, Quiet
    <3>2. PICK j \in DOMAIN listing :
              /\ i <= j /\ listing[j].licensed /\ listing[j].code = listing[i].code
              /\ listing[j].name = file["license"].rows[listing[i].code]
      BY <2>5, <3>1 DEF Good
    <3>3. j \in i..Len(listing)
      BY <2>1, <3>2 DEF MasterTypeOK
    <3> QED BY <3>2, <3>3
  <2> QED BY <2>4, <2>5
<1> QED BY <1>1, MasterInvariance, PTL
===============================================================================
