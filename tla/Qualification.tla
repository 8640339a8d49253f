---------------------------- MODULE Qualification ----------------------------
(***************************************************************************)
(* Qualification analysis, judgment, ask-back and revalidation of BidCheck *)
(* (apps/api/app/qualification).                                           *)
(*                                                                         *)
(* A preflight case holds a company, a current notice version and possibly *)
(* a baseline version.  Requests against it are database transactions:     *)
(*                                                                         *)
(*   analysis      extracts the requirements of a version with a language  *)
(*                 model and stores an analysis run;                       *)
(*   judgment      judges every requirement of one analysis against the    *)
(*                 company profile and stores a judgment run;              *)
(*   answer        resolves one UNKNOWN requirement of the latest run with *)
(*                 what the user answered and stores a run that copies the *)
(*                 other judgments;                                        *)
(*   revalidation  stores a run for the current version that copies the    *)
(*                 judgments of unchanged requirements from the latest     *)
(*                 baseline run and judges the others.                     *)
(*                                                                         *)
(* PostgreSQL runs them READ COMMITTED: each SELECT sees what has been     *)
(* committed before that SELECT, so each is a step of its own.  Answers    *)
(* and revalidations hold the row lock of their case from their first read *)
(* to their commit; analyses and judgments take no lock.                   *)
(*                                                                         *)
(* created_at is now(), the time at which a transaction STARTED.  "Latest" *)
(* orders by it, so it is not the order of the commits.  A transaction     *)
(* stores at most one run, and its start time, a tick of `clock`, serves   *)
(* as the id of that run.                                                  *)
(*                                                                         *)
(* Stored runs are never updated, so a foreign key to an analysis run is   *)
(* modelled by the row itself, and the rows written in the same commit as  *)
(* a run (qualification_answers, qualification_revalidation_runs) by its   *)
(* fields origin, source and key.                                          *)
(***************************************************************************)
EXTENDS Integers, RequirementDiff, OverallStatus

CONSTANTS
    Request,          \* concurrent API requests (database sessions)
    Case, Company, Version,
    CompanyOf,        \* PreflightCase.company_id
    BaselineOf,       \* PreflightCase.baseline_version_id, or None
    CurrentOf,        \* PreflightCase.current_version_id
    Profile,          \* company profile snapshots
    Day,              \* reference dates
    Key,              \* requirement keys
    Clause,           \* what the rules read of a requirement
    Requirement,
    Outcome,          \* results of an extraction: [status, reqs]
    Extraction,       \* those that analyses may still yield
    Analysed,         \* analysis runs older than the case, at most one a version
    Verdict(_, _, _, _),  \* rule version, profile, date, clause -> status
    MaxClock,         \* bound: transactions started
    MaxRule,          \* bound: deployments of new rules
    None

AnalysisStatus == {"SUCCEEDED", "PARTIAL", "FAILED"}
AnalysisRun == [id : Nat, version : Version, status : AnalysisStatus,
                reqs : {e.reqs : e \in Outcome}]

\* Beside the fields that OverallStatus and RequirementDiff read, a requirement
\* has its clause, the source text as written included; whether it is plain, that
\* is, the rules read every text with its payload alike; and whether it may be
\* asked of a user.  The payload holds the text without its spaces and letter
\* case, and some patterns depend on them: those of the clause guard, which reads
\* texts that no extraction has assessed (rules/judgment.py:795), and those of the
\* extensions (ai/extensions.py:74,133).
ASSUME RequirementAssumption ==
    \A r, s \in Requirement :
        /\ r.clause \in Clause
        /\ r.payload = s.payload =>
               /\ r.type = s.type /\ r.ident = s.ident /\ r.plain = s.plain
               /\ r.plain => r.clause = s.clause

ASSUME OutcomeAssumption ==
    /\ Extraction \subseteq Outcome
    /\ \A e \in Outcome :
        /\ e.status \in AnalysisStatus
        /\ DOMAIN e.reqs \subseteq Key
        /\ e.reqs \in [DOMAIN e.reqs -> Requirement]
        /\ e.status = "FAILED" => DOMAIN e.reqs = {}

ASSUME AnalysedAssumption ==
    /\ Analysed \subseteq AnalysisRun
    /\ \A a, b \in Analysed : a.id = 0 /\ (a.version = b.version => a = b)

ASSUME VerdictAssumption ==
    \A v \in 0..MaxRule, p \in Profile, d \in Day, w \in Clause :
        Verdict(v, p, d, w) \in JudgmentStatus

ASSUME CaseAssumption ==
    /\ CompanyOf \in [Case -> Company]
    /\ CurrentOf \in [Case -> Version]
    /\ BaselineOf \in [Case -> Version \cup {None}]

ASSUME BoundAssumption ==
    /\ MaxClock \in Nat /\ MaxRule \in Nat /\ Key \subseteq Nat
    /\ None \notin Request \cup Version

VARIABLES
    clock,      \* start time of the next transaction
    rule,       \* RULE_VERSION of the deployed code
    profile,    \* stored profile of each company
    analyses,   \* committed analysis runs
    runs,       \* committed judgment runs
    lock,       \* the request that holds the row lock of a case, or None
    pc,         \* how far each request has come
    tx          \* what each request was given and has read

vars == <<clock, rule, profile, analyses, runs, lock, pc, tx>>

-----------------------------------------------------------------------------
(* Records *)

\* A judgment of one requirement: status and basis_type.
Basis == {"PROFILE", "USER_ANSWER", "NONE"}
Judgment == [status : JudgmentStatus, basis : Basis]

\* judge_requirement: the rules decide from the profile or leave it open.
JudgeRequirement(v, p, d, clause) ==
    LET status == Verdict(v, p, d, clause)
    IN  [status |-> status,
         basis  |-> IF status = "UNKNOWN" THEN "NONE" ELSE "PROFILE"]

Statuses(judgments) == [k \in DOMAIN judgments |-> judgments[k].status]

Overall(a, judgments) ==
    DeriveOverallStatus(a.reqs, Statuses(judgments), a.status)

Origin == {"judgment", "answer", "revalidation"}

IsRun(r) ==
    /\ r \in [id : Nat, case : Case, version : Version, analysis : AnalysisRun,
              rule : 0..MaxRule, date : Day, profile : Profile,
              judgments : {r.judgments}, overall : {r.overall},
              origin : Origin, source : Nat \cup {None}, key : Key \cup {None}]
    /\ r.judgments \in [DOMAIN r.judgments -> Judgment]
    /\ DOMAIN r.judgments \subseteq Key
    /\ r.overall \in {"eligible", "ineligible", "insufficient_data"}

IdleTx == [id |-> 0, case |-> None, version |-> None, source |-> None,
           analysis |-> None, profile |-> None, date |-> None,
           key |-> None, status |-> None]

Phase == {"idle", "analysing",
          "judging", "profileRead", "judged",
          "answering", "answerLocked", "answerRun", "answerAnalysis", "answerReady",
          "revalidating", "revalLocked", "revalRun", "revalAnalysis", "revalReady"}

\* Phases in which a request holds the lock of its case.
Locked == {"answerLocked", "answerRun", "answerAnalysis", "answerReady",
           "revalLocked", "revalRun", "revalAnalysis", "revalReady"}

-----------------------------------------------------------------------------
(* What a SELECT sees *)

\* The runs of a case for one version, from which the latest is chosen.
Line(c, v) == {r \in runs : r.case = c /\ r.version = v}

\* ORDER BY created_at DESC LIMIT 1.
IsLatest(x, S) == x \in S /\ \A y \in S : y.id <= x.id

AnalysesOf(v) == {a \in analyses : a.version = v}

Init ==
    /\ clock = 1
    /\ rule = 0
    /\ profile \in [Company -> Profile]
    /\ analyses = Analysed
    /\ runs = {}
    /\ lock = [c \in Case |-> None]
    /\ pc = [q \in Request |-> "idle"]
    /\ tx = [q \in Request |-> IdleTx]

-----------------------------------------------------------------------------
(* Starting and ending a transaction *)

Begin(q, phase, fields) ==
    /\ pc[q] = "idle"
    /\ clock < MaxClock
    /\ clock' = clock + 1
    /\ pc' = [pc EXCEPT ![q] = phase]
    /\ tx' = [tx EXCEPT ![q] = [fields EXCEPT !.id = clock]]
    /\ UNCHANGED <<rule, profile, analyses, runs, lock>>

\* The transaction goes on with what it has read.
Continue(q, phase, t) ==
    /\ pc' = [pc EXCEPT ![q] = phase]
    /\ tx' = [tx EXCEPT ![q] = t]
    /\ UNCHANGED <<clock, rule, profile, analyses, runs, lock>>

\* A slip: the session stays open after an error, with its row lock.
UnlockOnlyCommitted(q) ==
    lock' = [c \in Case |-> IF lock[c] = q /\ runs' # runs THEN None ELSE lock[c]]

Unlock(q) == lock' = [c \in Case |-> IF lock[c] = q THEN None ELSE lock[c]]

\* Commit or rollback: the locks are released and the session is returned.
End(q) ==
    /\ pc' = [pc EXCEPT ![q] = "idle"]
    /\ tx' = [tx EXCEPT ![q] = IdleTx]
    /\ UNCHANGED <<clock, rule, profile>>

Rollback(q) == UNCHANGED <<analyses, runs>> /\ End(q) /\ Unlock(q)

\* A check that fails is answered with an error and nothing is stored.
Check(q, ok, phase, t) ==
    \/ ok /\ Continue(q, phase, t)
    \/ ~ok /\ Rollback(q)

StoreRun(q, r) ==
    /\ runs' = runs \cup {r}
    /\ UNCHANGED analyses
    /\ End(q)
    /\ Unlock(q)

-----------------------------------------------------------------------------
(* Analysis: run_qualification_analysis *)

BeginAnalysis(q) ==
    \E v \in Version : Begin(q, "analysing", [IdleTx EXCEPT !.version = v])

\* The model has answered; the run and its requirements are stored at once.
CommitAnalysis(q) ==
    /\ pc[q] = "analysing"
    /\ \E e \in Extraction :
          analyses' = analyses \cup {[id |-> tx[q].id, version |-> tx[q].version,
                                      status |-> e.status, reqs |-> e.reqs]}
    /\ UNCHANGED runs
    /\ End(q)
    /\ Unlock(q)

-----------------------------------------------------------------------------
(* Judgment: run_qualification_judgment, run_targeted_qualification_judgment *)

\* The request may name an analysis run.
BeginJudgment(q) ==
    \E c \in Case, d \in Day, a \in analyses \cup {None} :
        Begin(q, "judging",
              [IdleTx EXCEPT !.case = c, !.date = d, !.analysis = a])

ReadProfile(q) ==
    /\ pc[q] = "judging"
    /\ Continue(q, "profileRead",
                [tx[q] EXCEPT !.profile = profile[CompanyOf[tx[q].case]]])

\* The named analysis, of either version of the case, or the latest one of
\* the current version.
Judgeable(c, named, a) ==
    /\ IF named = None
       THEN IsLatest(a, AnalysesOf(CurrentOf[c]))
       ELSE a = named /\ a.version \in {CurrentOf[c], BaselineOf[c]}
    /\ a.status # "FAILED"

SelectAnalysis(q) ==
    LET t == tx[q]
    IN  /\ pc[q] = "profileRead"
        /\ \/ \E a \in analyses :
                 /\ Judgeable(t.case, t.analysis, a)
                 /\ Continue(q, "judged", [t EXCEPT !.analysis = a])
           \/ /\ ~\E a \in analyses : Judgeable(t.case, t.analysis, a)
              /\ Rollback(q)

JudgeRequirements(a, p, d) ==
    [k \in DOMAIN a.reqs |-> JudgeRequirement(rule, p, d, a.reqs[k].clause)]

CommitJudgment(q) ==
    LET t == tx[q]
        judgments == JudgeRequirements(t.analysis, t.profile, t.date)
    IN  /\ pc[q] = "judged"
        /\ StoreRun(q, [id |-> t.id, case |-> t.case,
                        version |-> t.analysis.version, analysis |-> t.analysis,
                        rule |-> rule, date |-> t.date, profile |-> t.profile,
                        judgments |-> judgments,
                        overall |-> Overall(t.analysis, judgments),
                        origin |-> "judgment", source |-> None, key |-> None])

-----------------------------------------------------------------------------
(* The lock of a case: SELECT ... FOR UPDATE *)

\* A slip: the case is read without FOR UPDATE.
CanLockAnyway(q, c) == pc[q] \in {"answering", "revalidating"}

CanLock(q, c) == lock[c] = None

LockCase(q) ==
    LET c == tx[q].case
    IN  /\ pc[q] \in {"answering", "revalidating"}
        /\ CanLock(q, c)
        /\ lock' = [lock EXCEPT ![c] = q]
        /\ pc' = [pc EXCEPT ![q] = IF pc[q] = "answering" THEN "answerLocked"
                                                          ELSE "revalLocked"]
        /\ UNCHANGED <<clock, rule, profile, analyses, runs, tx>>

-----------------------------------------------------------------------------
(* Ask-back: answer_and_rejudge *)

\* The client names the run whose questions it has shown and answers one.
BeginAnswer(q) ==
    \E c \in Case, s \in runs, k \in Key, answer \in {"SATISFIED", "UNSATISFIED"} :
        Begin(q, "answering", [IdleTx EXCEPT !.case = c, !.source = s,
                                             !.key = k, !.status = answer])

\* A slip: any run of the case will do.
IsRunOfCase(c, s) == s.case = c

IsLatestRun(c, s) == s.case = c /\ IsLatest(s, Line(c, s.version))

AnswerReadsLatestRun(q) ==
    /\ pc[q] = "answerLocked"
    /\ Check(q, IsLatestRun(tx[q].case, tx[q].source), "answerRun", tx[q])

AnswerReadsLatestAnalysis(q) ==
    LET s == tx[q].source
        c == tx[q].case
    IN  /\ pc[q] = "answerRun"
        /\ Check(q, /\ IsLatest(s.analysis, AnalysesOf(s.version))
                    /\ s.rule = rule
                    /\ s.version \in {BaselineOf[c], CurrentOf[c]},
                 "answerAnalysis", tx[q])

\* A slip: the profile is compared with nothing.
AnyProfile(s, p) == p \in Profile

\* The profile must still be the one the source run was judged on.
SameProfile(s, p) == s.profile = p

IsOpen(s, k) ==
    /\ k \in DOMAIN s.judgments
    /\ s.judgments[k].status = "UNKNOWN"
    /\ s.analysis.reqs[k].askable

AnswerReadsProfile(q) ==
    LET t == tx[q]
    IN  /\ pc[q] = "answerAnalysis"
        /\ Check(q, /\ SameProfile(t.source, profile[CompanyOf[t.case]])
                    /\ IsOpen(t.source, t.key),
                 "answerReady", t)

CommitAnswer(q) ==
    LET t == tx[q]
        s == t.source
        judgments == [s.judgments EXCEPT ![t.key] =
                         [status |-> t.status, basis |-> "USER_ANSWER"]]
    IN  /\ pc[q] = "answerReady"
        /\ StoreRun(q, [s EXCEPT !.id = t.id,
                                 !.judgments = judgments,
                                 !.overall = Overall(s.analysis, judgments),
                                 !.origin = "answer",
                                 !.source = s.id,
                                 !.key = t.key])

-----------------------------------------------------------------------------
(* Revalidation: run_qualification_revalidation *)

BeginRevalidation(q) ==
    \E c \in Case, s \in runs, a \in analyses \cup {None} :
        Begin(q, "revalidating",
              [IdleTx EXCEPT !.case = c, !.source = s, !.analysis = a])

RevalReadsLatestRun(q) ==
    LET s == tx[q].source
        c == tx[q].case
    IN  /\ pc[q] = "revalLocked"
        /\ Check(q, /\ s.version = BaselineOf[c]
                    /\ s.rule = rule
                    /\ IsLatestRun(c, s),
                 "revalRun", tx[q])

Comparable(c, named, a) ==
    /\ IF named = None THEN IsLatest(a, AnalysesOf(CurrentOf[c])) ELSE a = named
    /\ a.version = CurrentOf[c]
    /\ a.status # "FAILED"

RevalSelectsAnalysis(q) ==
    LET t == tx[q]
    IN  /\ pc[q] = "revalRun"
        /\ \/ \E a \in analyses :
                 /\ Comparable(t.case, t.analysis, a)
                 /\ Continue(q, "revalAnalysis", [t EXCEPT !.analysis = a])
           \/ /\ ~\E a \in analyses : Comparable(t.case, t.analysis, a)
              /\ Rollback(q)

RevalReadsProfile(q) ==
    LET t == tx[q]
        p == profile[CompanyOf[t.case]]
    IN  /\ pc[q] = "revalAnalysis"
        /\ Check(q, SameProfile(t.source, p), "revalReady", [t EXCEPT !.profile = p])

\* The source's judgments that requirement k of the current analysis takes over.
CarriedFrom(s, a, k) ==
    {b \in UnchangedFrom(s.analysis.reqs, a.reqs, k) : b \in DOMAIN s.judgments}

\* Unchanged requirements keep their judgment; the others are judged again.
Revalidated(s, a, p) ==
    [k \in DOMAIN a.reqs |->
        IF CarriedFrom(s, a, k) # {}
        THEN s.judgments[CHOOSE b \in CarriedFrom(s, a, k) : TRUE]
        ELSE JudgeRequirement(rule, p, s.date, a.reqs[k].clause)]

CommitRevalidation(q) ==
    LET t == tx[q]
        judgments == Revalidated(t.source, t.analysis, t.profile)
    IN  /\ pc[q] = "revalReady"
        /\ StoreRun(q, [id |-> t.id, case |-> t.case,
                        version |-> CurrentOf[t.case], analysis |-> t.analysis,
                        rule |-> t.source.rule, date |-> t.source.date,
                        profile |-> t.profile, judgments |-> judgments,
                        overall |-> Overall(t.analysis, judgments),
                        origin |-> "revalidation", source |-> t.source.id,
                        key |-> None])

-----------------------------------------------------------------------------
(* The surroundings *)

\* A company edits its profile in a transaction of its own.
UpdateProfile(co) ==
    /\ \E p \in Profile \ {profile[co]} : profile' = [profile EXCEPT ![co] = p]
    /\ UNCHANGED <<clock, rule, analyses, runs, lock, pc, tx>>

\* An error, a lost connection or a killed process rolls the transaction back.
Abort(q) == pc[q] # "idle" /\ Rollback(q)

\* New rules are deployed; the requests in flight die with the old process.
Deploy ==
    /\ rule < MaxRule
    /\ rule' = rule + 1
    /\ lock' = [c \in Case |-> None]
    /\ pc' = [q \in Request |-> "idle"]
    /\ tx' = [q \in Request |-> IdleTx]
    /\ UNCHANGED <<clock, profile, analyses, runs>>

-----------------------------------------------------------------------------
Start(q) ==
    BeginAnalysis(q) \/ BeginJudgment(q) \/ BeginAnswer(q) \/ BeginRevalidation(q)

Proceed(q) ==
    \/ CommitAnalysis(q)
    \/ ReadProfile(q) \/ SelectAnalysis(q) \/ CommitJudgment(q)
    \/ AnswerReadsLatestRun(q) \/ AnswerReadsLatestAnalysis(q)
    \/ AnswerReadsProfile(q) \/ CommitAnswer(q)
    \/ RevalReadsLatestRun(q) \/ RevalSelectsAnalysis(q)
    \/ RevalReadsProfile(q) \/ CommitRevalidation(q)

Next ==
    \/ \E q \in Request : Start(q) \/ LockCase(q) \/ Proceed(q) \/ Abort(q)
    \/ \E co \in Company : UpdateProfile(co)
    \/ Deploy

Spec == Init /\ [][Next]_vars

\* A worker thread runs its request to the end, and PostgreSQL queues the
\* requests that wait for a row lock.
Fairness ==
    \A q \in Request : WF_vars(Proceed(q)) /\ SF_vars(LockCase(q))

FairSpec == Spec /\ Fairness

-----------------------------------------------------------------------------
(* Properties *)

Tx == [id : Nat, case : Case \cup {None}, version : Version \cup {None},
       source : runs \cup {None}, analysis : AnalysisRun \cup {None},
       profile : Profile \cup {None}, date : Day \cup {None},
       key : Key \cup {None}, status : {"SATISFIED", "UNSATISFIED", None}]

\* Variables hold what their declarations say.
TypeOK ==
    /\ clock \in Nat \ {0}
    /\ rule \in 0..MaxRule
    /\ profile \in [Company -> Profile]
    /\ analyses \subseteq AnalysisRun
    /\ \A r \in runs : IsRun(r)
    /\ lock \in [Case -> Request \cup {None}]
    /\ pc \in [Request -> Phase]
    /\ tx \in [Request -> Tx]

Answers == {r \in runs : r.origin = "answer"}

\* A judgment that no user answered is what the rules of its run say of its
\* run's profile, day and requirement, even where a revalidation copied it
\* from the baseline instead of judging it: affected-only revalidation agrees
\* with a full one on every plain requirement (revalidation.py:80-120).
Reproducible ==
    \A r \in runs : \A k \in DOMAIN r.judgments :
        r.judgments[k].basis # "USER_ANSWER" /\ r.analysis.reqs[k].plain =>
            r.judgments[k] =
                JudgeRequirement(r.rule, r.profile, r.date, r.analysis.reqs[k].clause)

\* Same input, same output (README.md:365, NFR-2): two runs that judge one
\* requirement by the same rules, profile and day agree, unless a user answered.
SameInputSameJudgment ==
    \A r, s \in runs :
        /\ r.analysis = s.analysis
        /\ r.rule = s.rule /\ r.date = s.date /\ r.profile = s.profile
        => \A k \in DOMAIN r.judgments \cap DOMAIN s.judgments :
              \/ "USER_ANSWER" \in {r.judgments[k].basis, s.judgments[k].basis}
              \/ r.judgments[k] = s.judgments[k]

\* Every judgment that rests on a user's answer, through whatever chain of
\* answers and revalidations, goes back to an answer given in this case for a
\* requirement with the same conditions, under the same rules and the same
\* profile (requirement_diff.py:3-4, revalidation.py:107-119).
AnswerProvenance ==
    \A r \in runs : \A k \in DOMAIN r.judgments :
        r.judgments[k].basis = "USER_ANSWER" =>
            \E a \in Answers :
                /\ a.case = r.case /\ a.rule = r.rule /\ a.profile = r.profile
                /\ a.judgments[a.key] = r.judgments[k]
                /\ a.analysis.reqs[a.key].payload = r.analysis.reqs[k].payload

\* Concurrent tabs cannot overwrite each other's answers (ask_back.py:88): a
\* later answer run still holds every earlier answer, unless a judgment or a
\* revalidation started between the two.
AnswersKept ==
    \A a, r \in Answers :
        \/ r.case # a.case \/ r.version # a.version \/ r.id < a.id
        \/ a.key \in DOMAIN r.judgments /\ r.judgments[a.key] = a.judgments[a.key]
        \/ \E x \in Line(a.case, a.version) :
              x.origin # "answer" /\ a.id < x.id /\ x.id < r.id

\* No two answers build on the same run: the history of answers of a case does
\* not fork (ask_back.py:88-103).
AnswersDoNotFork ==
    \A a, b \in Answers : a.source = b.source => a = b

\* A run judges exactly the requirements of its analysis, also after answers
\* and revalidations; the product reads reject any other run
\* (copilot/product_tools.py:100-102).
JudgedExactly ==
    \A r \in runs : DOMAIN r.judgments = DOMAIN r.analysis.reqs

\* A revalidation that is stored has seen every answer stored before it on the
\* baseline version (revalidation.py:32,82-84 and ask_back.py:89).
RevalidationSeesAnswers ==
    [][\A r \in runs' \ runs : r.origin = "revalidation" =>
          \A a \in Line(r.case, BaselineOf[r.case]) :
             a.origin = "answer" => a.id <= r.source]_vars

\* An answer is stored only on the latest judgment run of its version:
\* otherwise it is refused as STALE_JUDGMENT (ask_back.py:100-103).
AnswerExtendsLatest ==
    [][\A r \in runs' \ runs : r.origin = "answer" =>
          \E s \in runs : s.id = r.source /\ IsLatest(s, Line(r.case, r.version))]_vars

\* Every request ends: nobody waits for the lock of a case for ever.
EveryRequestEnds == \A q \in Request : pc[q] # "idle" ~> pc[q] = "idle"

-----------------------------------------------------------------------------
(* The inductive invariant: TypeOK, the properties above that are state    *)
(* predicates, and what each request knows in each phase.                  *)

Answering == {"answering", "answerLocked", "answerRun", "answerAnalysis", "answerReady"}
Revalidating == {"revalidating", "revalLocked", "revalRun", "revalAnalysis", "revalReady"}

\* What a request was given and has read is there when it is used.
TxFits(phase, t) ==
    LET s == t.source
    IN  /\ phase = "analysing" => t.version \in Version
        /\ phase \in {"judging", "profileRead", "judged"} => t.case \in Case /\ t.date \in Day
        /\ phase \in {"profileRead", "judged", "revalReady"} => t.profile \in Profile
        /\ phase \in {"judged", "revalAnalysis", "revalReady"} => t.analysis \in AnalysisRun
        /\ phase \in Answering \cup Revalidating => t.case \in Case /\ s \in runs
        /\ phase \in Answering =>
               t.key \in Key /\ t.status \in {"SATISFIED", "UNSATISFIED"} /\ s.id < t.id

TxOK == \A q \in Request : TxFits(pc[q], tx[q])

\* Checks that passed hold on: the row a request has read never changes, and
\* new rules end every request.
ChecksHoldFor(phase, t) ==
    LET s == t.source
    IN  /\ phase \in {"answerRun", "answerAnalysis", "answerReady"} => s.case = t.case
        /\ phase = "answerReady" => IsOpen(s, t.key)
        /\ phase \in {"revalRun", "revalAnalysis", "revalReady"} =>
               s.case = t.case /\ s.rule = rule /\ s.version = BaselineOf[t.case]
        /\ phase \in {"revalAnalysis", "revalReady"} =>
               t.analysis.version = CurrentOf[t.case]
        /\ phase = "revalReady" => t.profile = s.profile

ChecksHold == \A q \in Request : ChecksHoldFor(pc[q], tx[q])

\* Start times identify transactions and the runs they store.
IdsUnique ==
    /\ \A r, s \in runs : r.id = s.id => r = s
    /\ \A r \in runs : r.id < clock
    /\ \A q \in Request : pc[q] # "idle" =>
           /\ tx[q].id < clock
           /\ \A r \in runs : r.id # tx[q].id
           /\ \A p \in Request : pc[p] # "idle" /\ tx[p].id = tx[q].id => p = q

\* From its lock to its commit a request is the only one with that lock.
LockHeld == \A q \in Request : pc[q] \in Locked => lock[tx[q].case] = q

\* An answer decides a requirement of an older run of the same case and version.
AnswerDecides ==
    \A a \in Answers :
        /\ a.source \in Nat /\ a.source < a.id
        /\ \E s \in runs : s.id = a.source /\ s.case = a.case /\ s.version = a.version
        /\ a.key \in DOMAIN a.judgments
        /\ a.judgments[a.key].status # "UNKNOWN"
        /\ a.judgments[a.key].basis = "USER_ANSWER"

\* Phases in which a request has seen that its source is the latest run.  No
\* later answer is stored beside it before it commits; judgments may be.
SourceSeen == {"answerRun", "answerAnalysis", "answerReady",
               "revalRun", "revalAnalysis", "revalReady"}

NoLaterAnswer(t) ==
    \A a \in Answers :
        a.case = t.case /\ a.version = t.source.version => a.id <= t.source.id

SourceUnanswered == \A q \in Request : pc[q] \in SourceSeen => NoLaterAnswer(tx[q])

IndInv ==
    /\ TypeOK /\ TxOK /\ ChecksHold
    /\ IdsUnique /\ LockHeld /\ AnswerDecides /\ SourceUnanswered
    /\ Reproducible /\ AnswerProvenance /\ JudgedExactly
    /\ AnswersKept /\ AnswersDoNotFork
=============================================================================
