# BidCheck: a formal model

BidCheck helps a company decide whether it may bid for a public procurement
notice. It collects notices from the procurement API (G2B), extracts the
eligibility requirements of a notice with a language model, judges each
requirement against the company's profile with deterministic rules, asks the
user about what the rules leave open ("ask-back"), revalidates a judgment when
the notice is changed, compares the terms of the contract with the published
conditions, and answers questions in a chat ("copilot") that may propose actions.

This directory holds TLA+ modules that model the program, TLC configurations
that check them on small instances, and proofs that TLAPS checks for every
instance. Paths below are relative to `src/apps/api/app/` unless they start with
`src/`; `web/` is `src/apps/web/`.

1. [The system](#1-the-system)
2. [Modules](#2-modules), and how they correspond to the code
3. [What TLC checks](#3-what-tlc-checks): runs, bounds, fairness
4. [What is proved](#4-what-is-proved), from what and along which argument
5. [Where code and documents disagree](#5-where-code-and-documents-disagree)
6. [What is not modelled](#6-what-is-not-modelled)
7. [Plan](#7-plan)

## 1. The system

| Component | State it keeps | Operations | Hard about it | What makes it correct |
|---|---|---|---|---|
| Analyses (`qualification/analysis.py`) | `qualification_analysis_runs`, requirements, evidence; never updated | run an analysis of a version, list, read | a model call of minutes lies between the start of the transaction and its commit; failed runs are stored too | judgments rest on one analysis that does not change under them |
| Judgments (`qualification/judgment.py`, `judgment_target.py`) | `qualification_judgment_runs`, one judgment per requirement; never updated | judge the current or the baseline version | no lock; reads profile and latest analysis by separate SELECTs; "latest" is by transaction start | each run is complete and reproducible |
| Ask-back (`qualification/ask_back.py`) | `qualification_answers`, and a judgment run per answer | list questions, answer one | two tabs; stale source; profile or rules changed in between | no answer is lost, none overturns a decision |
| Revalidation (`qualification/revalidation.py`, `rules/requirement_diff.py`) | `qualification_revalidation_runs`, and a judgment run each | compare two analyses, copy what is unchanged, judge the rest | requirement keys are positions; answers travel along; concurrent answers | an answer is carried only to the same conditions |
| Rules (`rules/judgment.py`, `clause_safety.py`, `askability.py`, `ai/extensions.py`) | none | judge one requirement, combine statuses, choose questions | three values, missing facts, groups with disagreeing operators | a verdict rests on what is known; what is asked can be compared |
| Extraction (`ai/qualification/`) | rows of an analysis | chunk, ask a model, validate, repair, deduplicate | the model leaves out, cuts and splits clauses | who qualifies by the text is not refused, and the other way round |
| Clause review (`ai/clause_review/`, `services/clause_reviews.py`) | stored reviews | compare sentences with published conditions in two tiers | several rules per sentence, figures told apart by unit | departures are reported, no figure counts twice |
| Profiles (`routers/companies.py`, `qualification/judgment.py`) | companies, staff, performances, certifications, completeness flags | edits | many SELECTs make one snapshot; lists replaced by difference | an accepted edit is what was sent |
| Cases and proposals (`services/preflight_cases.py`) | `preflight_cases`, `proposal_documents`, an object store | create a case, upload a proposal | object stored before its row; concurrent uploads | baseline and current differ; no row without object |
| Notices (`services/notices.py` and its helpers) | notices, versions, documents, relations, collection runs | save a snapshot, synchronise a window or one notice | pages, savepoints, partial failure, revisions out of order | one current version, the last one; a history is all or nothing |
| Worker (`workers/notice_polling.py`) | checkpoint (last completed window), backfill jobs, an advisory lock | poll, run jobs, retry | crash between RUNNING and its result; long jobs; API runs beside it | no window skipped unnoticed; each job completes in the end |
| Codes (`src/scripts/collect_code_master*.py`) | CSV files, a state file, a call counter; an SQLite database | run for a day's calls, resume, export | stops in the middle of a window or of a file | what is called complete is there |
| Copilot (`copilot/`, `web/lib/copilot-*.ts`) | conversations in memory with a revision; a controller in each tab | route and answer a question, propose and confirm an action | a model call between load and commit; expiry; lost responses | no answer is lost, only verified sentences are said, a confirmation acts on what was shown |
| Document index (`document_rag/`, `services/document_extraction.py`) | extraction status, index generations on disk, active pointer, lock file | extract in batches, build, publish, read | crash while building; stale fingerprint; files written in place | readers see a complete index of the current documents |
| Accounts (`auth.py`, `routers/auth.py`) | users, failed attempts, sessions | login, logout, authorise, create | the count of failures is not locked | lock-out after the limit, kept until it ends |

How they interact: the worker and the API write notice versions; an analysis
reads the documents of one version; a case ties a company to a current and
perhaps a baseline version; judgments read the newest analysis of a version and
the profile; answers and revalidations read judgment runs and write further
judgment runs; the Copilot's confirmed actions call the same two functions. All
shared state is in PostgreSQL, at READ COMMITTED: each SELECT sees what is
committed when it starts (`database.py:34-47`; sessions neither autoflush nor
expire on commit). The only row locks of these flows are `SELECT ... FOR UPDATE`
on the case (`ask_back.py:89`, `revalidation.py:32`, and a confirmation of the
Copilot) and on a notice (`services/notices.py:194`). Conversations are in the
memory of one process, index files on its disk, the code master in files.

`PROJECT.json` lists the components with their status, and the hazards with the
line where each bites and the properties that would notice.

## 2. Modules

| Module | Models | Proofs |
|---|---|---|
| `Qualification` | analyses, judgments, answers, revalidations, profile edits, aborts and deployments as transactions on shared tables | `QualificationProofs` |
| `RequirementDiff` | `diff_requirements`: matching by unique identity, then by position; UNCHANGED pairs | used there |
| `OverallStatus` | `derive_overall_status`: groups, operators, three-valued statuses | used there |
| `OverallEligibility` | the result derived again while the user answers | `EligibilityProofs` |
| `JudgmentRules` | `judge_requirement` by type, on facts of a profile that may be missing | `EligibilityProofs` |
| `ClauseSafety`, `Askability` | which clauses are set aside, which open requirements may be asked about | `EligibilityProofs` |
| `RequirementJudgment` | one requirement judged, and perhaps asked about, while a company completes its profile | `EligibilityProofs` |
| `RequirementExtraction` | chunks, the model's answer, slots, alternatives, deduplication, repair from the text | `EligibilityProofs` |
| `NoticeReading` | from the text of a notice to the eligibility of a bidder; what the text asks for, line by line and without chunks | `EligibilityProofs` |
| `ClauseReview` | rules on the terms of a contract, two tiers of comparison, stored reviews | `EligibilityProofs` |
| `NoticeHistory` | abstract: the versions of a notice, as cases rely on them | |
| `NoticeSync` | sync runs of the worker and of clients, versions, backfill jobs; implements `NoticeHistory` | `NoticeSyncProofs` |
| `PreflightCases` | cases and uploads, composed with `NoticeHistory` | `PreflightCasesProofs` |
| `PollingWorker` | cycles, windows, checkpoint, page limit, batches, backoff, with a clock | `CollectionProofs` |
| `CodeMaster`, `CodeStore` | the two commands that gather codes; they share a file | `CollectionProofs` |
| `CompanyProfile` | every edit of a company, statement by statement, and the reads of a judgment between them | `EligibilityProofs` |
| `Accounts` | bootstrap, login, lock, sessions, creation of accounts | `AccountsProofs` |
| `CopilotChat` | conversations: the bounded store, turns, freshness, a tab | `CopilotProofs` |
| `CopilotAnswers` | one turn from within: plan, read, draft, verify, repair, fall back | `CopilotProofs` |
| `CopilotActions` | proposals and confirmations: controller of a tab, product reads, the transaction | `CopilotProofs` |
| `DocumentIndex` | extraction in batches, generations of the index, the index written in place | `DocumentIndexProofs` |
| `MC...` | small instances for TLC. `MCEligibility` puts extraction, rules, groups and clause review behind one next-state relation, `MCCollection` the worker and both commands, `MCCopilotChat` a chat and one turn of it | |

`Qualification` extends `RequirementDiff` and `OverallStatus`, as the functions
of the code call `diff_requirements` and `derive_overall_status`; `JudgmentRules`
extends `ClauseSafety` and `OverallStatus`, `Askability` and
`RequirementExtraction` build on it. `RequirementJudgment` puts `Askability` to work,
`OverallEligibility` `OverallStatus`. `NoticeReading` extends `RequirementJudgment` and
`RequirementExtraction`, so that what is read is judged by the rules and combined by the
groups; `MCEligibility` runs all of them behind one another. `PreflightCases` extends `NoticeHistory`, and `NoticeSync` implements it:
what cases rely on is what collection does.

### `Qualification`

A request is a transaction (`pc`, `tx`). Each SELECT whose result another
transaction can change is an action of its own; rows that never change once
stored (judgment and analysis runs) may be read at any time, so a run refers to
its analysis by value.

| Action | Code |
|---|---|
| `BeginAnalysis`, `CommitAnalysis` | `run_qualification_analysis`: version and documents read, model called, run and requirements stored at once |
| `BeginJudgment`, `ReadProfile`, `SelectAnalysis`, `CommitJudgment` | `run_targeted_qualification_judgment` and `run_qualification_judgment` |
| `BeginAnswer`, `LockCase`, `AnswerReadsLatestRun`, `AnswerReadsLatestAnalysis`, `AnswerReadsProfile`, `CommitAnswer` | `answer_and_rejudge`, lines 89, 100, 101-105, 106-144, 146-236 |
| `BeginRevalidation`, `LockCase`, `RevalReadsLatestRun`, `RevalSelectsAnalysis`, `RevalReadsProfile`, `CommitRevalidation` | `run_qualification_revalidation`, lines 68, 69-84, 86-90, 92-99, 101-145 |
| `UpdateProfile` | `update_profile_completeness` and the company endpoints |
| `Abort` | an exception, a lost connection, a killed process: `get_db` closes the session, PostgreSQL rolls back |
| `Deploy` | a new `RULE_VERSION`; the old process is gone and its transactions with it |

`created_at` is `now()`, which PostgreSQL fixes when a transaction starts
(`judgment_models.py:76-78`). The authorisation query of a router runs on the
same session, so an answer's transaction starts before it waits for the lock.
"Latest" therefore follows start order, not commit order. The model gives each
transaction a tick of `clock` at its start, and that tick is the id of the run
it stores; equal timestamps do not occur.

Abstracted: a rule is `Verdict(rule version, profile, day, clause)`, any function
(`JudgmentRules` has the rules themselves). `clause` is everything a rule reads of
a requirement; `payload` is what the comparison of requirements sees of it. Two
texts that differ in spaces or letter case have the same payload; `plain` says
that the rules read all texts of a payload alike. A profile is one value
(`CompanyProfile` has its parts and their torn reads). Requirement keys are
numbers in the order in which the code sorts them. `requirement_group_key` is not
part of the payload, as in the code. A requirement's own key serving as the group
key of another is not modelled.

### `NoticeSync`

A process, the worker or a client's session, runs at most one `run_notice_sync` at
a time. `pc` is how far it has come, `sync` its local variables, `draft` its open
transaction: for each notice whose row it has locked or inserted, the versions as
the transaction sees them. A commit writes the draft to `versions`, a rollback
drops it. A savepoint is one action, `SaveItem` or `ItemFails`.

| Action | Code |
|---|---|
| `BeginWindow`, `FetchPage`, `CommitPage`, `LastPage` | `run_notice_sync` with inquiry REGISTERED or CHANGED, lines 386-397 and 448-469 |
| `BeginLookup` | `POST /notices/sync` with a notice number |
| `FetchHistory`, `CommitHistory`, `RejectHistory` | NOTICE_NUMBER, lines 448-519; `Resequenced`, `FlushRefused`: `_resequence_notice_versions` |
| `LookAtItem`, `SaveItem`, `ItemFails` | `save_item` and `save_notice_snapshot` |
| `FetchPrevious`, `CommitPrevious` | the chain of predecessors, lines 521-546 |
| `FinishRun`, `RunFails` | lines 587-598 and 599-607 |
| `StartJob`, `ReportJob` | `run_history_backfill_batch` |
| `Publish` | G2B |
| `Crash` | a process dies; PostgreSQL rolls back its transaction |

`LookAtItem` and `SaveItem` are two actions because the code decides whether to
insert the notice before it waits for the other transaction that inserts it.
PostgreSQL's part is modelled as the code relies on it: `FOR UPDATE` and inserts
of an existing unique number wait (`CanTake`), the unique number then refuses a
second insert (`Refused`), one of several transactions that wait in a circle fails
(`Deadlocked`), the partial unique index on the current version is checked at each
row of a flush (`FlushRefused`).

Abstracted: an item is a notice and an order; facts, documents, relations, change
histories and the counters of a run are written in the same savepoints and left
out. A row is the rank of its UUID among those of the notice; SQLAlchemy flushes
updates in that order. A page is any set of published items, and a window any
number of pages. A chain follows at most 25 predecessors in the code, all in the
model. Times are left to `PollingWorker`: here a job is due in the end.

`NoticeHistory` says what remains when runs, processes and rows are forgotten:
versions are numbered 1, 2, ...; the last one is current; numbers are added at
the end (`Grow`) or a notice is renumbered as a whole by its orders (`Renumber`).

### `PollingWorker`

| Action | Code (`workers/notice_polling.py`) |
|---|---|
| `StartCycle`, `EndCycle` | the advisory lock around a cycle |
| `BeginPoll`, `FetchPage`, `FinishPoll`, `PollFails` | a window per business type, from the checkpoint less the overlap, no longer than `MAX_RECOVERY_WINDOW`; the page limit; the run COMPLETED or FAILED |
| `Enqueue`, `PickBatch`, `StartJob`, `EndJob` | `run_history_backfill_batch`: due jobs by `next_attempt_at`, RUNNING for an hour counts as left behind, backoff |
| `ClientWindow` | `POST /notices/sync` with a window; it counts for the checkpoint |
| `Register`, `Tick`, `Crash` | G2B stamps a change and shows it within `Delay`; time; a worker dies and the lock goes with its connection |

### `CodeMaster` and `CodeStore`

`CodeMaster` is `collect_code_master_FIXED.py`: `Launch` (`DetermineStart`, from
the state file, the age of a master file or the beginning; its end is the clock or any
minute given with `--end`), `ResumeWindow` or
`TakeWindow`, `Fetch` (or `FetchFails`, at the daily limit), `Merge` into each of two
CSV files, `SaveResume` after a page, `CompleteWindow`, and `CommandDies`, which may
cut off the file that is being written in place. `CodeStore` is
`collect_code_master.py`: `StartCommand` ("plan" or "collect"), `NextWindow`,
`RequestPage`, `StoreItem` (`ShouldReplace`), `StorePage` (commit of the page with its
checkpoint), `LeaveWindow`, `Export` over the file of industry codes,
`CommandFails`. The services are the environment: `ListEntry`, `Publish`, `Amend`.
One dataset is collected per command; the tables of regions, which are fixed, and
the second dataset of the first command, which runs the same way, are left out.

### `PreflightCases`, `CompanyProfile`, `Accounts`

All three have requests that read rows, decide, and write differences; nothing is
locked in between, and constraints of the database refuse what does not fit.

* `PreflightCases`: `ReadCurrent`, `ReadBaseline`, `InsertCase`; `BeginUpload`,
  `ReadPosition`, `PutObject`, `InsertDocument`; `Fail` at any step; `DeleteCompany`.
  Meanwhile `HistoryNext` of `NoticeHistory` goes on.
* `CompanyProfile`: an action per endpoint and transaction step of
  `routers/companies.py` (`CreateCompany`, `LoadCompany`, `UpdateCompany`,
  `VerifyIndustry`, `DeleteCompany`, `LoadForCreate`, `CreateFact`, `LoadFact`,
  `UpdateFact`, `DeleteFact`, `LoadFlags`, `UpdateFlags`), and a judgment that reads the
  profile part by part (`BeginJudgment`, `ReadPart`, `StoreJudgment`).
* `Accounts`: `BeginLogin`, `Bootstrap` (the first login makes the administrator),
  `LoadAccount`, `WrongPassword`, `RightPassword` (the hash takes long, and the ORM
  writes only columns that differ from what was read: `Flushed`), `Admit` and what
  follows it: `Logout`, `CreateUser`, `Serve`. Whether a password is right is the
  environment's choice.

### Copilot

* `CopilotChat`: a tab asks (`seen`, `conv`, `rev`), a turn loads a copy of its
  conversation, reads parts of the product with a fingerprint each (a read that fails, as
  one of the judgment does that has changed meanwhile, leaves its part out), composes,
  compares the parts again (`AssertFresh`), and commits if nobody has stored the
  conversation since (`Commit`). The store evicts, expires and is lost with its
  process. What the product holds is a fingerprint per part (`basis`).
* `CopilotAnswers`: `PlanTurn` (by the model or `FallbackPlan`), `ReadTask`, `Generate`,
  `Validate`, `Repair`, `Revalidate`, `Finish`. A call of a model may fail, be late or
  return anything. Texts and lengths are abstract: a claim is its id, its draft and
  the facts it names. Every stored fact has a source of its scope, so the
  mechanical errors that a missing one would give do not occur.
* `CopilotActions`: `web/lib/copilot-actions.ts` (`BeginAnswer`, `Propose`, `Confirm`,
  `GiveUp`, `Refresh`, ...), the reads of `product_tools.py` in the order of their
  SELECTs (`FirstRead`, `SecondRead`), and `confirm_action` (`LockCase`, `ReadFresh`,
  `CheckSource`, `Store`). What a run judges is reduced to whether it leaves a
  question open.

### `DocumentIndex`

`SelectBatch`, `CommitBatch`, `BatchFails`: `extract_pending_documents`. Originals are in a
directory or in an object store (`backend`): a file that is gone from the directory is
`FAILED`, an object that is gone ends the batch, of which nothing is kept (`Fetchable`). `BeginBuild`, `MakeLock`,
`InspectFirst`, `WriteFile`, `Publish`, `Release`, `BuildFails`, `CrashBuilder`:
`publish_index` (`readiness.py`); `OperatorRemovesLock`: what an operator does with a lock
that a dead process has left. `TakeSnapshot`, `ReadPointer`, `Inspect`: a turn.
`Ask`, `LoadManifest`, `LoadVectors`, `ReadVersion`, `OpenVectors` ... `WriteManifest`:
the older index (`service.py`, `store.py`), whose files are truncated and then
written in one piece. What a document says is the document itself; a file that is
stored does not change.

### `RequirementJudgment`

`rq` is a requirement, `profile` what `build_company_profile_snapshot` makes of the
rows of a company. One action per way of adding to it: a region set or narrowed to a
part of it, the size, an industry, the staff, a role (a role goes where its name is in
order), a performance, its date instead of its year, a certification, a flag of
completeness. `CompanyProfile` has the requests that do this, and those that take
something back; here a profile only grows, also in an area that is declared complete or
is so by default (`judgment.py:29-36`): no request compares the two. What two extensions ask for is `affiliate` and `grade`: the code
has their rules and does not fill them in yet (`ai/extensions.py:28-33`). An amount is
counted in units, each of which belongs to one performance (`Units`), so that a total
needs no recursion. The size `NONE` is judged like one that is not known.

### Text

`RequirementExtraction` represents a text by lines (document, page, rank of a
heading, printed code, the word "or", provisos), a model's answer by any set of
quotes of it, and slots by what later steps read. A line may print a code behind a label or
a name and the rest of a list behind its label: the repair reads the code
(`CodesIn`), the mapping of slots the list as far as the quote goes (`ListedIn`). Whether it
has a word that documents without a heading are searched for is said apart (`topic`).
`ClauseReview` represents a sentence by the word groups of the lexicon that occur in it
and its figures, of each of which the window around the words of each rule shows all,
nothing or the end; what matches a rule and what excludes another are different groups,
as the expressions are. `JudgmentRules`
represents names by sets of words and leaves out evidence and wording. What a
regular expression finds is an input of the models; what the code concludes from
it is modelled.

`NoticeReading` is where a notice becomes a verdict. `ReadingSpec` starts from any
sequence of lines; the model may answer with any finite set of slots, calls may fail,
`Analyse` makes requirements of what was kept. Beside it stands what the text says to a
reader who knows nothing of chunks: `Headings`, the section behind each (`Conditions`),
its items with the lines that they are wrapped into (`ClauseFrom`), what may be waived
(`WaivedClause`). The two properties compare one with the other. Where the code
relies on how notices are laid out, it is said of the text by name:

| Hypothesis | Says | Without it |
|---|---|---|
| `Plain` | headings and documents begin an item, provisos print no code and alone waive | a clause would begin inside another one |
| `Unshared` | no code stands on two of the lines that the model is shown | the repair takes the second for the first (`code_salvage.py:142-147`) |
| `Announced` | a clause with a code in a document without such a heading has one of the words searched for | its chunk is not selected (`requirement_extraction.py:236-240`) |
| `Uncut` | no section is so long that its heading's chunk is full | the rest of the section is not read (`requirement_extraction.py:231`) |
| `Enclosed`, `Readable` | "or" stands between two codes of its clause, named behind a trade | two clauses quoted together could pass for alternatives |
| `Orderly` | a clause prints a code that is labelled or alone, or alternatives; a waiver is right behind its code | the repair sees a waiver there only (`code_salvage.py:46`) |
| `Faithful` | each quote is a whole clause | alternatives that are cut short become an obligation |

The first four are needed for `EligibleMeetsText` only, which holds of every answer;
`IneligibleMissesText` needs the first and the last two.

## 3. What TLC checks

| Run | Asks | Properties | Bounds |
|---|---|---|---|
| `askback` | do two tabs lose an answer? | `IndInv`, `AnswersKept` | 2 sessions, 2 cases of one version, 4 transactions: analyses that succeed or fail, judgments, answers; two open requirements |
| `revalidation` | is a judgment carried over only where it still holds? | `Reproducible`, `AnswerProvenance`, `RevalidationSeesAnswers`, `EveryRequestEnds` | 2 sessions, baseline and current version, new analyses of both, 2 profiles, 1 reference day, 1 deployment, 3 transactions |
| `concurrent` | what do overlapping runs leave of the versions of a notice? | `IndInv`, `LookupWhole`, `CompletedJobHasHistory`, `ImplementsHistory`, `JobsSettle` | worker and client, 1 notice, 2 orders stored in either order and with any ranks, windows and lookups, failures, 1 crash |
| `predecessors` | does each notice get its backfill job? | `NewNoticesQueued` | worker and client, 2 notices, one the predecessor of the other, 1 order each: both may insert either first; deadlocks, failures, 1 crash |
| `cycles` | is what is called complete really there? | `ChangesAccountedFor`, `JobRunsOnce`, `NoJobStarves`; `CodesAccountedFor`, `WholeWhenComplete`, `NewestChangeKept` | 2 workers, 2 jobs, 3 minutes, 3 changes, 1 client window, 1 crash; 2 codes, 2 names, 2 entries or 3 changes, 2 commands, 1 crash |
| `cases` | are cases and their documents whole? | `BaselineDiffers`, `CasesWhole` | 2 requests, 1 company, 1 case, 3 documents, 2 files, 1 notice of 2 orders |
| `companies` | is an accepted edit what was sent? | `RefusedOnlyByRivals`, `EditsAsSent` | 2 requests, 1 company, one of each kind of fact, 2 dates on both sides of a year |
| `accounts` | do concurrent logins defeat the lock? | `LockoutComes`, `LockKept` | 2 requests, the administrator and a user, 3 failures lock for 2 ticks, 1 session |
| `chat` | are answers lost, mixed, or said unverified? | `AnswersNotLost`, `OneInstant`, `OnlyVerifiedIsSaid` | 2 turns, 1 document, room for 1 conversation of 2 messages, 3 questions; 1 turn of 4 tasks, drafts and repairs of two claims |
| `actions` | does the user decide on what was shown? | `ShownAndStored`, `RefusedIsNotStored` | 1 tab, 2 confirmations at a time, 1 judgment, 2 transactions beside the first runs, 2 analyses, 1 reload |
| `index` | do readers see a whole and current index? | `OneBuilder`, `IndexWhole`, `ReadyIsCurrent`, `EveryDocumentIsRead` | 2 documents, 2 builders, 1 turn, 2 requests on the older index, 2 generations, 1 crash |
| `answers` | does the verdict follow from the text? | `DecidedByWhatIsKnown`, `AskedIsComparable`, `EligibleMeetsText`, `IneligibleMissesText`, `FactsOverturnNothing`, `DeparturesReported` | 62 texts of up to three clauses of eleven kinds, with lists behind a label and lines without a word that is searched for, four of them with a document before that has no heading; chunks of 3 lines, 1 retry; each rule with profiles that grow up to 2 performances, 2 roles, 2 certifications, dates in years of two days; 3 requirements in 1 group and none; reviews of two chunks |

### Why the bounds are enough

* `Qualification`: bounds are `MaxClock` (transactions that start, plus one) and
  `MaxRule` (deployments). A lost answer or a fork needs a judgment and two
  answers; an overlooked answer needs a judgment, an answer and a revalidation; a
  carried answer that has changed its meaning needs the same three. All fit. The
  requirements of `MCQualification` give a revalidation one clause that moved to
  another position, one whose number changed, and pairs that match by position
  only.
* `NoticeSync`: `MaxOrder`, `PageSize`, `MaxCrash`. Two orders show every change of
  the current version; two processes and two notices give every refused insert and
  the shortest deadlock. One crash reaches every point at which a run may stop, and
  what follows it.
* `cycles`: windows overlap, are cut by the page limit and leave a gap longer than
  the recovery window within three minutes; jobs come back after a failure and a
  crash. Windows and jobs of the worker share the lock, the time of the cycle and
  the fate of the worker only, so `OneConcern` keeps to behaviours that have changes
  to collect or jobs to run. A behaviour belongs to one of the three collectors
  (`part`), which share nothing but a file; names are only compared with each other,
  so `TwoNames` fixes which entry has which. The theorems assume neither: there the
  two commands interleave on one file, and names are any.
* `companies`: `OneConcern` of `CompanyProfile` lets the two requests meet on the
  same part of the profile; parts are separate tables. The theorems cover all mixes.
* `index`: `OneIndexAtATime` explores builds and the index written in place one after
  the other, which share a directory and no file; the theorems cover both together. An object store with all of
  its objects does what a directory does (`StoresDiffer`).
* `chat`: a room of one conversation makes every new one an eviction, and a time to
  live of 0 makes every tick an expiry; two turns overlap on one copy or two.
* `accounts`: three failures and two requests let both read the same count.
* `answers`: a clause can be first, last or in between; a group has members that
  agree and members that do not. Two performances are what it takes to add up, to
  be in doubt about adding up, and for one of them to have an open date; two roles are
  what it takes for a role to be mistaken. `ToldApart` leaves out of a profile what
  the rule at hand does not read, and gives refs in turn; the theorem does neither. All texts are `Plain` and
  `Enclosed` and, but for three with an item that prints no code, `Orderly`; some print a code twice, have a section that is cut off or a code that no word
  announces, and of these `EligibleMeetsText` says nothing. Facts are added to areas that are
  declared complete and to others; regions are narrowed, written out and match by a part of
  their name. The theorems have texts, chunks and answers of any
  length.

Requests, turns, workers, files and the like are symmetric; symmetry is not used
where liveness is checked. Deadlock is checked except where the bounds stop the
model or nothing more need happen.

Each property fails when the definition named in `PROJECT.json` is replaced by
its slip, an operator just before it in the module that contains one plausible
mistake: a dropped `FOR UPDATE`, a comparison with any run instead of the latest,
a profile that is not compared, requirements matched by position alone, an error
path that keeps its lock, a run that starts behind the checkpoint, a window marked
complete one page early, a response that did not come taken for a refusal.

### Fairness

`Qualification`: `WF` of a request's next step: a worker thread runs its request to
the end, and every database call and model call returns or times out with an error
(`Abort`). `SF` of taking the lock: PostgreSQL queues waiting transactions, so a
lock that is released again and again is granted in the end. Nothing is assumed
of clients, profile edits or deployments.

`NoticeSync`: `WF` of the next step of a run, since calls to G2B and to the
database return or time out; `SF` of `LastPage`, since a run reads at most
`max_pages` pages; `SF` of saving an item, since waiting transactions queue for a
row; `SF` of `StartJob` for each notice, since a batch takes due jobs in the order
of `next_attempt_at` and the worker comes back to it after each polling cycle.
Nothing forces G2B to publish or a client to synchronise.

`DocumentIndex`: `SF` of `SelectBatch`: the operator runs the extraction again and again.
`WF` of `EndBatch`: a batch that was taken is stored or fails. `SF` of `CommitWaiting`: a
batch that could be stored is not refused by database or store for ever. Nothing is
assumed of an object that is gone; a batch that holds one can only fail. Builds, turns and
crashes are free to happen or not.

The other specifications state safety only.

## 4. What is proved

Each theorem holds for any values of the constants, bounds included, that meet the
named assumption of the module. In each proof module the invariant is a
conjunction of named parts, there is one lemma per action (or per kind of step),
and a last lemma collects them: `Init => IInv`, `IInv /\ [Next]_vars => IInv'`,
`IInv => Property`.

| Module | Theorems (property) |
|---|---|
| `QualificationProofs` | `Invariance` (`IndInv`), `TypeCorrect`, `JudgmentsReproducible` (`Reproducible`), `AnswersHaveProvenance` (`AnswerProvenance`), `NoAnswerLost` (`AnswersKept`), `NoFork`, `RunsComplete`, `RevalidationsSeeAnswers` (`RevalidationSeesAnswers`) |
| `NoticeSyncProofs` | `Invariance` (`IndInv`), `TypeCorrect`, `OneCurrentVersion`, `NewNoticesAreQueued` (`NewNoticesQueued`), `LookupIsWhole` (`LookupWhole`), `CompletedJobs` (`CompletedJobHasHistory`), `HistoryIsImplemented` (`ImplementsHistory`) |
| `PreflightCasesProofs` | `Invariance`, `BaselineAlwaysDiffers` (`BaselineDiffers`), `CasesAreWhole` (`CasesWhole`) |
| `CollectionProofs` | `Invariance`, `TypeCorrect`, `ChangesAreAccountedFor` (`ChangesAccountedFor`), `JobsRunOnce` (`JobRunsOnce`), `QueueInvariance`, `NoJobIsStarved` (`NoJobStarves`), `StoreInvariance`, `CompleteWindowsAreWhole` (`WholeWhenComplete`), `NewestChangesKept` (`NewestChangeKept`), `MasterInvariance`, `CodesAreAccountedFor` (`CodesAccountedFor`) |
| `EligibilityProofs` | `Invariance`, `TypeCorrect`, `RefusalsHaveRivals` (`RefusedOnlyByRivals`), `EditsDoAsSent` (`EditsAsSent`), `AskedIsAlwaysComparable` (`AskedIsComparable`), `FactsNeverOverturn` (`FactsOverturnNothing`), `AlwaysDecidedByWhatIsKnown` (`DecidedByWhatIsKnown`), `DeparturesAreReported` (`DeparturesReported`), `NoCodeIsPassedOver` (`EligibleMeetsText`), `NoBidderIsExcluded` (`IneligibleMissesText`) |
| `AccountsProofs` | `Invariance`, `TypeCorrect`, `LocksAreKept` (`LockKept`), `LockInvariance`, `LockoutAlwaysComes` (`LockoutComes`) |
| `CopilotProofs` | `ChatInvariance`, `ChatTypeCorrect`, `AnswersKept` (`AnswersNotLost`), `AnswersAreOfOneInstant` (`OneInstant`), `AnswersInvariance`, `OnlyVerifiedSaid` (`OnlyVerifiedIsSaid`), `ActionsInvariance`, `ActionsTypeCorrect`, `DecidedAsShown` (`ShownAndStored`), `RefusalsAreFinal` (`RefusedIsNotStored`) |
| `DocumentIndexProofs` | `Invariance`, `OneBuilderWrites` (`OneBuilder`), `ReadyIsAlwaysCurrent` (`ReadyIsCurrent`), `IndexIsWhole` (`IndexWhole`) |

### `QualificationProofs`

Assumes what `Qualification` assumes of its constants. `RequirementAssumption` says
what a payload determines (`requirement_diff.py:22-44`), `OutcomeAssumption` and
`AnalysedAssumption` what an analysis stores, `VerdictAssumption` that a rule yields a
status.

None of the properties is inductive: that two answers never share a source depends
on what an answer in progress has seen. `IndInv` adds

* `IdsUnique`: start times identify runs and transactions;
* `LockHeld`: from its lock to its commit a request is the only holder;
* `TxOK`, `ChecksHold`: what a request has read and checked still holds, since
  rows do not change and a deployment ends every request;
* `AnswerDecides`: an answer decides a requirement of an older run of its line;
* `SourceUnanswered`: once a request with the lock has seen that its source is the
  latest run, no later answer appears on that line before it commits. Only
  answers and revalidations hold the lock, so only judgments can come between;
  this is the precise extent of the protection the lock gives.

`Reproducible` and `AnswerProvenance` use `RevalidatedOrigin`: a copied judgment
comes from a requirement with an equal payload, of a run with the same rules, day
and profile. Most actions do one of four things with a transaction: begin it
(`BeginInv`), go on with it (`ContinueInv`), roll it back (`RollbackInv`), or store a
run and end it (`StoreRunInv`); the lemmas on actions say which and why.

### `NoticeSyncProofs`

Assumes `ConstantsAssumption`. The argument has two layers. Of the versions of one
notice: `SavedVersioned` and `ResequencedVersioned` say that saving an order and
renumbering keep them numbered 1, 2, ... with one current; the latter rests on
`Ranks`, the places of a finite set of numbers. Of processes: `IndInv` says of each
one (`ProcessOK`) that

* its draft is well versioned, holds what is committed, and shares no notice with
  another draft (`DraftOK`): this is what `FOR UPDATE` buys, and why a commit can
  replace the versions;
* each order of a lookup is still to be saved or is in the draft, unless an item
  has failed; after the commit each is stored and stays so (`HistoryOK`);
* a notice in the draft is stored, or is getting its job, or the run is a lookup
  (`CreatedOK`), and jobs are of stored notices;
* nothing is saved that was not published (`FetchedOK`), and what a run is for
  follows from how it began (`RunOK`).

`Bystander` and `Frame` say once that a step of one process leaves `ProcessOK` of
the others intact, because it takes only free rows and commits only its own.

`HistoryIsImplemented` is the refinement, step by step. `HistoryInv` adds that the
last version of a draft is its current one and that a draft continues what is
committed, unless its run is a lookup that is about to renumber (`Continues`). A
commit of a page or a chain is `Grow` of `NoticeHistory` (`CommitGrows`), the commit of
a lookup is `Renumber` (`CommitRenumbers`), and everything else leaves the committed
versions alone (`NothingCommitted`).

### `PreflightCasesProofs`

`CreationOK`: a version that a request has read is a version still, since
`NoticeHistory` never takes one away, and the baseline read is not the current one.
`UploadOK`: the position that was read was the next one then; the case may have more
documents by now, never fewer, so the unique index refuses it or it still is the
next. `DocumentsApart`: no two requests insert the same document. Positions have no
gaps because a set of documents with places 0..n-1 gains place n (`NextIsCount`,
`DocumentInserted`).

### `CollectionProofs`

Of the polling worker: `OneAwake`: only the holder of the advisory lock is awake. `WindowsHeld`: what a
worker fetches starts where the checkpoint was, which may have advanced since, never
gone back. `AllReached` extends `ChangesAccountedFor` to changes that are still to be
registered: where no window will reach any more, G2B registers nothing that is not
given up (`Delay <= Overlap` is what makes this inductive).

Of its jobs, `QueueInv` on top of that. A job that batches have passed over is due for
every worker that is awake (`PassedDue`), so a batch that passes it over once more holds
jobs that were due before it. These are then *behind* it (`Behind`): completed, put off
to a later minute than the job's, or in the hands of the worker. `PassedBehind`: each
batch that has passed a job over has put `BatchSize` jobs behind it, and a worker that
dies brings back what it had in hand, a batch at most. Behind a job are other jobs
only, whence the bound of `NoJobStarves`. That a job that fails goes behind one that is
due needs a backoff of one minute at least: `2^n >= 1`, which the provers learn from
counting subsets (`PowerPositive`). `JobsTimed` bounds how far a job is put off.
`Job` is assumed to be finite, as the table is.

Of the code commands, about `CodesSpec`: both commands interleaved on one file of industry codes, under
`MasterAssumption` and `StoreAssumption`, which `MCCollection` has TLC evaluate.

* `StoreInv`: a checkpoint that says complete is about pages that are stored up to
  the total of the last one (`CheckpointOK`); the record of a code is the newest
  change stored, and changes of names are on record (`Newest`); an open transaction
  holds the records to be, and the rows before its place are in them (`JobOK`).
* `MasterInv`: entries come in the order of time and none is in the future
  (`ListingOK`); a file is unreadable only after a crash (`FilesOK`); the window that
  the state notes has its pages before the noted one merged (`ResumeOK`), and so has
  the window of the run (`RunOK`); what lies before `completed` is in the file or is
  excused (`CompletedOK`). What is registered in a minute that an end in the future has
  put behind the command (`Ahead`) is excused when it comes; an entry that is not excused
  was there before its minute counted as read. An entry's place in a window never changes, because new
  ones come at the end (`PlacesStay`), so pages that were read stay what they were
  even while the window grows. The minutes that are read again (`Reread`, at least
  one) are what makes it safe to go on from `completed`.

### `EligibilityProofs`

Of `CompanyProfile`: `RequestsHold`: whatever a request has read and was sent fits the tables it is about,
even if its rows have changed or gone since. `FlagsStay`: a record of flags that was
read is there as long as its company, since nothing but the deletion of the company
removes it and ids are not used again; without it an UPDATE of the record could make
something out of nothing. Then a refusal is looked at action by action: what the
routers validate implies the CHECKs (`InOrderIsChecked`), and a flush over the row
that was read makes what is wanted (`FlushedDates`), so an untouched request passes.
`RowsAssumption`: the marks for "no row" are no rows.

Of `RequirementJudgment`, about `RuleSpec`: a requirement of any type, names, numbers and
periods stays what it is, and nothing at all is assumed of the profile or of how it
changes, so `AskedIsAlwaysComparable` covers more than the profiles that
`MCEligibility` grows. What `Askable` admits has an operator and a value of the kind
that its rule compares (`AskableCompares`); each rule then ends in a verdict that
decides or waits for facts (`Comparable`), one case per rule (`RulesCompare`). The amount
of performances whose addition the notice leaves open is excepted by name
(`Disputable`).

Also of `RequirementJudgment`, about `CompletionSpec`: a requirement whose value is of
the kind that its rule compares (`ValueFits`) and a profile of any facts
(`ProfileSnapshot`) that gains facts in any order, also against its flags.
`FactsNeverOverturn` rests on two relations between profiles. `Grows(p, q)`: `q` knows what
`p` knows and has what `p` has; every step makes the profile grow (`StepGrows`).
`Completes(p, q)`: moreover, `q` has the same where `p` is complete, which is what a step
does that contradicts no flag (`StepCompletes`). Each rule has a lemma (`RegionStands` to
`ExperienceFieldStands`) that its decision stands in every profile that completes
this one, which is the half about negative verdicts. A positive one does not rest on the
flags: it is the verdict on the same facts with no area complete, and every profile that
grows from that one completes it. What the rules need differs:

* a region is narrowed to one that was merged into it, which is not merged again
  (`ProfileAssumption`). Names that match by a part of them although their keys differ
  (`LooseRegion`), and names that are written out (`Reworded`), are exceptions by name: the
  key of a longer name need not be in the table of mergers;
* a role that comes before the one that was compared may match too: this is the
  exception `RivalRoles`, of two roles that match and are not the same;
* a date lies within its year, so a performance that was inside the period stays
  inside, and one that is ambiguous is decided (`DateFitsYear`); the candidates thus
  map into the candidates of the later profile (`CandidatesStay`, `CandidatesGrow`),
  and by their refs injectively;
* so their number, total and greatest amount grow (`MoreCounts`, `MoreAtMost`,
  `GreatestAmount`), and what is at least so much stays so (`GrowthCompares`). A notice
  that asks for at most so much is beyond `AsksForMore`: there, more can be too much;
* what is held against a company has an area that is complete and no ambiguous date, so
  that only a fact of such an area can overturn it (`Contradicts`).

Of `OverallEligibility`, about `GroupSpec`, for any set of keys in their order
(`KeyAssumption`) and any groups: a group that agrees on its operator has a verdict
that depends on its members' judgments alone (`VerdictOfGroup`), and the result is a
matter of the verdicts (`ResultByVerdicts`). That a result which holds for all outcomes
of the open requirements is found by combining three values rests on two of these
outcomes: all bad and all good (`Extremes`). If the company is not ineligible, the good
one is met; if it is not eligible, the bad one is missed.

Of `ClauseReview`, about `ReviewSpec`: any text and index of the types that `ReviewInit`
names, which include those of `MCEligibility` (`TermsTyped`, evaluated by TLC).
`ReviewInv`: nothing changes what is reviewed, and the findings are those of the rules
and the shapes. For `DeparturesReported`, a chunk that departs is judged so, since the greatest figure
exceeds what one of them exceeds (`DepartureIsJudged`); the gravest verdict stands for
the rule (`GravestStands`), and the second tier is not asked. That there is a greatest
figure and a most similar chunk comes from `Least`: a finite set has a least member in
any strict order, the one with the fewest members under it. Of the shapes, `PatternsKept`
shows that keeping the first of those that overlap is well defined.
`NilAssumption`: the mark for "nothing" is no number, no unit and no finding.

Of `NoticeReading`, about `ReadingSpec`: any lines, documents that follow one another, any
finite set of slots as an answer. `ReadInv`: what is kept of an answer was quoted from a
chunk that was shown and names what is printed there (`Quotable`), and an analysis is what
`AnalysisResult` makes of it. Nothing that is read depends on anything but the text and
the answer (`SameReading`). `ReadingAssumption`: the mark for what is absent is no reason to
set a clause aside, and no slot is the key of "no group". The argument has three parts.

* *From chunks to text.* Where a chunk begins is a set of lines, and what lies between
  two of its members is found by `LeastNumber` and `GreatestNumber` rather than by
  induction (`Successors`, `ChunksBegin`, `ChunkOrder`). A chunk begins with an item, and none
  begins within a clause (`ItemsBegin`, `ClauseInChunk`). All of `Conditions` is shown
  (`ConditionsSelected`), and what is shown and prints something stands in a
  clause (`TargetSaid`, `InClause`).
  What a chunk takes for a clause is one of the text (`ClauseOfChunk`, `ClauseOfText`).
* *No code is passed over.* A code of a clause is reached by a requirement or repaired
  from its line (`PassedOver`, `SalvagedReads`), and neither the folding of duplicates nor
  that of alternatives loses it (`AnalysisAtoms`, `BecomesRequirement`). A bidder is
  eligible only if each obligation holds, and one of each alternatives (`EligibleHolds`).
  A quote of several lines is where it could go wrong: `AlternativesOfOneClause` says
  that what is read as alternatives lies within one clause, because its "or" does
  (`Enclosed`). `ClauseIsMet` concludes.
* *No bidder is excluded.* A bidder is ineligible only by an obligation that fails, or
  by alternatives of which all fail (`IneligibleFailsGroup`). Whichever it is came from a
  quote or from the repair of a line (`Origin`), hence from one whole clause
  (`SlotReads`, `SalvagedWhole`), and asks for no more than the clause does
  (`RequirementIsFair`, `AlternativeStays`). A clause that may be waived is set aside when
  the line behind it is seen (`WaivedIsGuarded`), and what is set aside is judged by
  people, not held against the bidder (`NotHeldAgainst`).

### `AccountsProofs`

`Checking`: an account whose password is being checked was there and unlocked when
it was read, and the check has not taken as long as a lock lasts. Then a failure
that is written late cannot lift a lock: the ORM flushes only the columns that it
changed (`FlushedType`), and a lock that it sets ends later than one in force.

`LockoutComes` bounds the misses since an account was last locked or entered. The
count of failures alone does not grow with each of them: a request that read an old
count writes it back increased by one, and so may lower it. What does change is the
*view* of the account: for each number below the limit, how many requests have seen a
count of at most that many, or would see one now. A miss that does not lock makes the
view smaller in lexicographic order (`Over`, `MissLeavesView`); every other step leaves
it as it is, or starts the misses again (`OthersCount`, `MissesStay`). So the
misses so far are at most the views above the present one (`MissesLeft`). Of these there
are `Cardinality(Views)`, the number of ways to spread the requests over the counts,
and `MCAccounts` has TLC count them. The set of requests is assumed to be finite, as
the server's threads are.

### `CopilotProofs`

`CopilotChat`: a stored conversation is what has been said in it (`IsWhole`); a copy
that nobody has answered since it was loaded is whole (`WholeUnlessOvertaken`), so a
commit under an unchanged revision is right. For one instant: a part that changed
before the instant has changed for good, since fingerprints are not given out twice
(`BasisIssued`, `Issued`), so a part that still compares equal had not changed
(`Compared`).

`CopilotAnswers`: drafts become claims that are unverified (`Unverified`); a claim that
counts as supported was verified in its wording (`SupportedWasVerified`); the
judgment that an answer is complete is about just the claims that are supported
(`JudgedAsItIs`); repairs have ids of their own among those that failed.

`CopilotActions`: an id is a start time and belongs to one run or transaction
(`IdsApart`), so what a tab was told is refused cannot be stored by anyone else
(`PanelOK`). Decisions are made under the lock of the case only; therefore what its
holder has read covers every decision until it commits (`WriteOK`). For a
revalidation that is so from its first read on; an answer compares with the latest
run of the latest analysis first, and only `CheckSource` sees to the runs of others.

### `DocumentIndexProofs`

A generation that bears its stamp is whole (`StampedWhole`), because a builder
stamps its own generation last, and nobody else writes there (`BuilderOK`,
`OneBuilder`). The index written in place is protected by nothing but its contents:
what files and requests hold were sets of extracted documents at some time, and such
sets form a chain (`Chained`), since extraction only adds. Of two sets in a chain
those of equal size are equal, so the comparison of sizes in the code is enough.

### Only model-checked

* Liveness (`EveryRequestEnds`, `JobsSettle`, `EveryDocumentIsRead`): fairness is beyond
  the prover.
  There is no other property that a run checks and no theorem states.

## 5. Where code and documents disagree

Properties that a document, a comment or a message states and that the code does
not meet. They are defined in their modules, each beside the property that does
hold, and TLC found each of them violated when it was checked; the runs of section 3
do not check them.

| Property | What happens | What says otherwise |
|---|---|---|
| `AnswerExtendsLatest` (`Qualification`) | A judgment takes no lock on the case, so it may commit between an answer's check and its commit (`judgment.py:180`). The answer is stored beside it, and whichever transaction started first is shadowed. `AnswersKept`, which is proved, is what remains. | `ask_back.py:103`: "STALE_JUDGMENT"; `src/docs/07-트러블슈팅.md:329`: "stale source면 fail-closed" |
| `SameInputSameJudgment` (`Qualification`) | The comparison of requirements removes spaces and letter case (`requirement_diff.py:22-44`); the clause guard for texts that no extraction has assessed and the patterns of `ai/extensions.py` depend on them. "A 또는 B" and "A또는 B" count as unchanged, and a revalidation copies a judgment that a full one contradicts. `Reproducible`, which is proved, shows that this is the only way. | `src/README.md:365`: "같은 입력 → 같은 출력" |
| `RetriesSucceed` (`NoticeSync`) | A flush updates rows by primary key, a random UUID, under a unique index that allows one current row (`services/notices.py:375`). If both orders are stored, the lesser one is current and the key of the greater one sorts first, every retry of the job is refused. | `services/notices.py:483`: "The durable backfill job will retry the whole notice." |
| `LatestIsCurrent` (`NoticeSync`) | A window makes current whatever order is new to it (`services/notices.py:256`). The job corrects that once; what comes later is not corrected. | `src/docs/데이터-수집-전처리.md:75`: "최신 차수만 current version" |
| `EveryNoticeQueued` (`NoticeSync`) | Predecessors that a lookup fetches get no job (`services/notices.py:436`). `NewNoticesQueued`, which is proved, shows that these and clients' lookups are the only exceptions. | `src/docs/데이터-수집-전처리.md:71-72`: "신규 공고 발견 → 공고번호 기준 전체 이력 Backfill Queue 등록" |
| `SnapshotExisted` (`CompanyProfile`) | A judgment reads facts and completeness flags by separate SELECTs (`judgment_target.py:69`); an edit between them gives a snapshot that never existed. | the snapshot is stored as what the judgment rests on |
| `AlwaysInAnIndustry` (`CompanyProfile`) | An edit may leave a company without industry codes. | `schemas.py:179`: "industry_codes must contain at least one code" |
| `BaselineEarlier` (`PreflightCases`) | A later renumbering may turn baseline and current version around (`services/preflight_cases.py:89` compares numbers when the case is created). | the check at that line |
| `CanAskAgain` (`CopilotChat`) | An answer that the tab no longer waits for is stored all the same; the tab's revision is stale and its next question is refused. | |
| `RetryHelps` (`CopilotActions`) | When another judgment has become the latest while the response was lost, no refresh succeeds, and the controller stays locked (`web/lib/copilot-actions.ts:146-151`). | |
| `FutureIsNotComplete` (`CodeMaster`) | `--end` is not compared with the clock (`collect_code_master_FIXED.py:1194-1203`, `:1264`). An end in the future becomes `completed_until` (`:1074-1076`), the next run starts there, and what is registered until then is never read; `CodesAccountedFor` excuses just that. | the description of `--start` at `collect_code_master_FIXED.py:1190`: without it the collection goes on from the state |
| `ConflictsPreserved` (`CodeMaster`) | The next merge removes the file of conflicts that the last one wrote. | the comment at `collect_code_master_FIXED.py:521-567` |
| `LostObjectsBlockNobody` (`DocumentIndex`) | Extraction takes the oldest documents first and asks the object store outside any `try` (`document_extraction.py:417`, `:450`). One object that is gone fails the batch, nothing of it is kept, and the same documents are taken again: those behind them are never read. `EveryDocumentIsRead` holds for a directory and for a store that has every original. | the directory's branch marks such a document FAILED and goes on (`document_extraction.py:433-436`) |
| `NoFactOverturns` (`RequirementJudgment`) | Industries count as complete unless the company says otherwise (`judgment.py:32`), and a request that adds one does not ask (`companies.py:310-319`): the requirement that was not met is met afterwards. `FactsOverturnNothing` allows just that. | the flag means that the list is all there is (`judgment.py:488`) |
| `RegionsStay` (`RequirementJudgment`) | Two regions match if one name contains the other (`judgment.py:373`), whatever the table of mergers says, and a longer name is not found in that table (`:379`). A region that is narrowed or written out may lose what it met. | `judgment.py:318-324`: comparing parts of names does not know which region belongs to which |
| `EligibleMeetsLists` (`NoticeReading`) | The text is searched for the code behind its label only (`code_salvage.py:33`); a quote that ends inside a list reads as one code (`legacy_slots.py:21`). A bidder that lacks the others is eligible. | `code_salvage.py:133`: covered is what became a requirement, not what the model quoted |
| `EligibleMeetsUnannounced` (`NoticeReading`) | In a document without a heading on qualifications, a chunk with none of the known words is not selected, so neither the model nor the repair sees the code in it (`requirement_extraction.py:236-240`). | the same |
| `FigureCountsOnce` (`ClauseReview`) | Not all words that match a rule exclude the others (`standard_diff.py:134-139`, `:197-201`): in a sentence on twelve months of free upkeep and a payment, the twelve months count for the warranty and for the payment. | `standard_diff.py:126-127`: "stops a figure being attributed to the wrong rule" |
| `NothingSetAside` (`ClauseReview`) | Candidates below the similarity threshold are dropped, count as inspected, and are never shown to the second tier. | `standard_diff.py:466`: the similarity is "an optimisation, never a gate" |

Noticed while translating, without a property of their own:

* Copilot answers: of two claims with one id the second gets the verdict of the
  first (`answer_validation.py:125-158`); a claim that names a fact that was not read
  ends the turn in an error (`orchestration.py:266`); guided answers trust the
  verifier's COMPLETE even where claims were dropped.
* Extraction: a section whose heading chunk is long is cut off
  (`requirement_extraction.py:231`); a code printed in an earlier clause hides a later
  one from the repair (`code_salvage.py:142-147`); a waiver is seen directly behind
  the line of its code only, and a page number "- 4 -" counts as a continuation
  (`code_salvage.py:46`); clauses set aside as too complex leave the analysis SUCCEEDED.
* Code master: `to_csv` is not atomic, and a file cut off by a crash stops every later
  command (`collect_code_master_FIXED.py:586`), although the comment at lines 919-924
  says that a forced end can be resumed; a crash between the first merge and the
  first saved state makes the age of the file stand for a checkpoint.
* Clause review: 5 % exactly counts as a cap and as a rate; a table of contents that
  names the clause first makes its anchor fail; a review stored without a version
  is never compared with one.
* Notices: the relation to a predecessor stays unresolved if two concurrent runs
  each miss the row that the other has not committed (`services/notices.py:121-175`).

## 6. What is not modelled

* Whole components: matching of notices, which is read-only.
* Notices: facts, relations, change histories, counters of a run. They are written
  in the savepoint of their version.
* Documents: parsing of HWP, PDF and DOCX, keys and uploads of S3, ranking of passages.
* Extraction: slots that are mapped one to one (regions, sizes, staff, performances),
  the fields of the notice API, evidence locators, snapping of quotes.
* Clause review: cutting the published conditions into clauses, the drift warning,
  endpoints that only read.
* Copilot: wording of prompts and facts, targets of follow-up questions, older
  intents, the guided catalogue. What a language model says is any member of a set
  that the validation of the code then meets.
* Scripts for evaluation and demonstration data, except the two that write documents
  and the index. Pages of the web client other than the Copilot panel: the requests
  they send are inputs of the models.
* Equal start times of two transactions; the model orders them.

## 7. Plan

The modules of section 2 were written in the order of the table, each with its run,
then its proofs. Every safety property that a run checks is proved. What could follow:

1. `EligibleMeetsText` for texts that print a code twice: the repair looks for a code
   anywhere in front of it, so this needs a hypothesis on which of the two the model
   has quoted, or a change of `code_salvage.py:142-147`.
2. Liveness (`EveryRequestEnds`, `JobsSettle`, `EveryDocumentIsRead`) stays with TLC.
