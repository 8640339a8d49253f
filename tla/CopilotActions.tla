----------------------------- MODULE CopilotActions -----------------------------
(***************************************************************************)
(* Actions of the copilot, from the question a user is shown to the run    *)
(* that is stored: the controller of a browser tab                         *)
(* (web/lib/copilot-actions.ts), the product reads                         *)
(* (copilot/product_tools.py, copilot/actions.py) and the confirmation     *)
(* (copilot/actions.py confirm_action), which hands over to the services   *)
(* of module Qualification.                                                *)
(*                                                                         *)
(* One preflight case with a baseline and a current version.  A proposal   *)
(* carries the provenance of what the user was shown; a confirmation takes *)
(* the lock of the case, reads the provenance again and acts only if it is *)
(* the same.  Judgments take no lock.  As in module Qualification, a run's *)
(* id is the time at which its transaction started, which orders "latest", *)
(* and log holds the runs in the order of their commits.                   *)
(*                                                                         *)
(* What a run judges is reduced to whether it leaves a question open.      *)
(***************************************************************************)
EXTENDS Integers, SequencesExt, FiniteSetsExt

CONSTANTS
    Tab, Writer,      \* browser tabs; transactions of confirmations
    Judge,            \* transactions of judgments, asked for anywhere
    MaxClock,         \* bound: transactions
    MaxAnalysis,      \* bound: analyses of a version
    MaxReload,        \* bound: reloads of a page
    Absent

Version == {"baseline", "current"}

ASSUME ActionAssumption ==
    /\ MaxClock \in Nat /\ MaxAnalysis \in Nat /\ MaxReload \in Nat
    /\ Absent \notin Tab \cup Writer \cup Nat

VARIABLES
    clock,     \* start time of the next transaction
    analysis,  \* the latest analysis of each version
    log,       \* the judgment runs, as committed
    lock,      \* the confirmation that holds the row of the case, or Absent
    write,     \* confirmations under way
    judging,   \* judgments under way
    panel,     \* the controller of each tab
    offered,   \* the last proposal made in the chat
    reloads

actionVars == <<clock, analysis, log, lock, write, judging, panel, offered, reloads>>

-----------------------------------------------------------------------------
Runs == ToSet(log)
Ids(S) == {r.id : r \in S}
LatestId(S) == IF S = {} THEN 0 ELSE Max(Ids(S))
Line(v) == {r \in Runs : r.version = v}
RunOf(id) == CHOOSE r \in Runs : r.id = id

\* Analyses and runs of the two versions; 0 for those a kind does not name.
Provenance == [kind : {"answer", "revalidate"}, ba : Nat, br : Nat, ca : Nat, cr : Nat]
Nothing(kind) == [kind |-> kind, ba |-> 0, br |-> 0, ca |-> 0, cr |-> 0]

Stage == {"IDLE", "DRAFT", "PROPOSAL_READY", "CONFIRMING", "REFRESHING", "COMPLETED",
          "STALE", "FAILED", "OUTCOME_UNKNOWN", "DONE_REFRESH_FAILED"}

\* read is the request under way: its purpose, how far the server has come and
\* what it has read.
Reading == [to : {"draft", "propose", "refresh"}, pc : {"first", "second", "read", "error"},
            p : Provenance]

Initial == [stage |-> "IDLE", external |-> FALSE, draft |-> Absent, proposal |-> Absent,
            confirm |-> 0, result |-> 0, shown |-> 0, read |-> Absent]

IdleWrite == [pc |-> "idle", id |-> 0, p |-> Absent, fresh |-> Absent, outcome |-> Absent]
IdleJudging == [pc |-> "idle", id |-> 0, version |-> Absent, analysis |-> 0]

FirstRun(v, n) == [id |-> n, version |-> v, analysis |-> 1, open |-> TRUE,
                   origin |-> "judgment", source |-> 0, shown |-> Nothing("answer")]

ActionsInit ==
    /\ clock = 3
    /\ analysis = [v \in Version |-> 1]
    /\ log = <<FirstRun("baseline", 1), FirstRun("current", 2)>>
    /\ lock = Absent
    /\ write = [w \in Writer |-> IdleWrite]
    /\ judging = [j \in Judge |-> IdleJudging]
    /\ panel = [t \in Tab |-> Initial]
    /\ offered = Absent
    /\ reloads = 0

SetTab(t, r) == panel' = [panel EXCEPT ![t] = r]
SetWrite(w, r) == write' = [write EXCEPT ![w] = r]
World == <<clock, analysis, log, lock, judging, offered, reloads>>

-----------------------------------------------------------------------------
(* Product reads: _load_context and get_changed_notice, two SELECTs each *)

\* For an answer the latest analysis is read first, for a revalidation the runs.
FirstRead(p) ==
    IF p.kind = "answer" THEN [p EXCEPT !.ca = analysis["current"]]
    ELSE [p EXCEPT !.br = LatestId(Line("baseline")), !.cr = LatestId(Line("current"))]

\* Then the runs of that analysis, or the analyses of both versions.
SecondRead(p) ==
    IF p.kind = "answer"
    THEN [p EXCEPT !.cr = LatestId({r \in Line("current") : r.analysis = p.ca})]
    ELSE [p EXCEPT !.ba = analysis["baseline"], !.ca = analysis["current"]]

\* STALE_JUDGMENT, BASELINE_JUDGMENT_REQUIRED and STALE_ACTION_CONTEXT otherwise.
Usable(p) ==
    IF p.kind = "answer" THEN p.cr # 0
    ELSE p.br # 0 /\ RunOf(p.br).analysis = p.ba

\* The question that the tab asks about is one the run leaves open.
Askable(p) == p.kind = "answer" => RunOf(p.cr).open

-----------------------------------------------------------------------------
(* The controller: reads *)

\* isLocked.
IsLocked(r) ==
    \/ r.read # Absent \/ r.external
    \/ r.stage \in {"CONFIRMING", "REFRESHING", "OUTCOME_UNKNOWN", "DONE_REFRESH_FAILED"}

ReadFor(to, kind) == [to |-> to, pc |-> "first", p |-> Nothing(kind)]

BeginAnswer(t) ==
    /\ ~IsLocked(panel[t])
    /\ SetTab(t, [Initial EXCEPT !.read = ReadFor("draft", "answer")])
    /\ UNCHANGED <<World, write>>

\* edit: the proposal made from the draft is withdrawn.
Edit(t) ==
    /\ panel[t].draft # Absent /\ ~IsLocked(panel[t]) /\ panel[t].proposal # Absent
    /\ SetTab(t, [panel[t] EXCEPT !.proposal = Absent, !.stage = "DRAFT"])
    /\ UNCHANGED <<World, write>>

Cancel(t) ==
    /\ ~IsLocked(panel[t]) /\ panel[t] # Initial
    /\ SetTab(t, Initial)
    /\ UNCHANGED <<World, write>>

\* The chat proposes an action on what it has read (module CopilotChat).
Offer ==
    \E kind \in {"answer", "revalidate"} :
        LET p == SecondRead(FirstRead(Nothing(kind)))
        IN  /\ Usable(p) /\ Askable(p)
            /\ offered # p /\ offered' = p
            /\ UNCHANGED <<clock, analysis, log, lock, write, judging, panel, reloads>>

Adopt(t) ==
    /\ ~IsLocked(panel[t]) /\ offered # Absent
    /\ SetTab(t, [Initial EXCEPT !.stage = "PROPOSAL_READY", !.proposal = offered])
    /\ UNCHANGED <<World, write>>

Propose(t, kind) ==
    /\ ~IsLocked(panel[t])
    /\ kind = "answer" => panel[t].draft # Absent
    /\ SetTab(t, [panel[t] EXCEPT !.read = ReadFor("propose", kind), !.proposal = Absent,
                                  !.confirm = 0, !.result = 0, !.shown = 0])
    /\ UNCHANGED <<World, write>>

Refresh(t) ==
    /\ panel[t].stage \in {"REFRESHING", "DONE_REFRESH_FAILED", "OUTCOME_UNKNOWN"}
    /\ panel[t].read = Absent
    /\ SetTab(t, [panel[t] EXCEPT !.read = ReadFor("refresh", "answer"),
                        !.stage = IF @ = "OUTCOME_UNKNOWN" THEN @ ELSE "REFRESHING"])
    /\ UNCHANGED <<World, write>>

ServeRead(t) ==
    LET q == panel[t].read
        second == SecondRead(q.p)
    IN  /\ q # Absent
        /\ \/ /\ q.pc = "first"
              /\ SetTab(t, [panel[t] EXCEPT !.read.pc = "second", !.read.p = FirstRead(q.p)])
           \/ /\ q.pc = "second"
              /\ SetTab(t, [panel[t] EXCEPT !.read.p = second,
                    !.read.pc = IF Usable(second) THEN "read" ELSE "error"])
        /\ UNCHANGED <<World, write>>

\* The draft keeps the receipt of the read that showed its question.
Drafted(r) ==
    IF r.read.pc = "read" /\ Askable(r.read.p)
    THEN [r EXCEPT !.stage = "DRAFT", !.draft = r.read.p]
    ELSE [r EXCEPT !.stage = "FAILED"]

\* A proposal for a draft is made on the receipt that the tab sends along.
SameReceipt(r) == r.read.p.kind = "answer" => r.draft = r.read.p

Proposed(r) ==
    IF r.read.pc # "read" \/ ~Askable(r.read.p) THEN [r EXCEPT !.stage = "FAILED"]
    ELSE IF ~SameReceipt(r) THEN [r EXCEPT !.stage = "STALE"]
    ELSE [r EXCEPT !.stage = "PROPOSAL_READY", !.proposal = r.read.p,
                   !.draft = IF r.read.p.kind = "answer" THEN @ ELSE Absent]

RefreshedResult(r) == r.read.pc = "read" /\ r.read.p.cr = r.result

Refreshed(r) ==
    IF r.stage = "OUTCOME_UNKNOWN" THEN r
    ELSE IF RefreshedResult(r) THEN [r EXCEPT !.stage = "COMPLETED", !.shown = r.read.p.cr]
    ELSE [r EXCEPT !.stage = "DONE_REFRESH_FAILED"]

\* The answer of the server arrives; a lost one counts as an error.
ReceiveRead(t) ==
    LET lost == [panel[t] EXCEPT !.read.pc = "error"]
    IN  /\ panel[t].read # Absent
        /\ \E r \in {lost} \cup (IF panel[t].read.pc = "read" THEN {panel[t]} ELSE {}) :
              SetTab(t, [(CASE r.read.to = "draft" -> Drafted(r)
                            [] r.read.to = "propose" -> Proposed(r)
                            [] r.read.to = "refresh" -> Refreshed(r))
                         EXCEPT !.read = Absent])
        /\ UNCHANGED <<World, write>>

-----------------------------------------------------------------------------
(* The controller: confirmation *)

Confirm(t, w) ==
    /\ panel[t].stage = "PROPOSAL_READY" /\ panel[t].proposal # Absent /\ ~IsLocked(panel[t])
    /\ write[w].pc = "idle" /\ clock < MaxClock
    /\ clock' = clock + 1
    /\ SetTab(t, [panel[t] EXCEPT !.stage = "CONFIRMING", !.confirm = clock])
    /\ SetWrite(w, [IdleWrite EXCEPT !.pc = "waiting", !.id = clock, !.p = panel[t].proposal])
    /\ UNCHANGED <<analysis, log, lock, judging, offered, reloads>>

\* A slip: whatever is not an answer is taken for a refusal.
UnansweredAsFailure == "FAILED"

Unanswered == "OUTCOME_UNKNOWN"

\* The response arrives, if the tab still waits for it.
ReceiveWrite(w) ==
    LET r == write[w]
    IN  /\ r.pc = "done"
        /\ SetWrite(w, IdleWrite)
        /\ \/ \E t \in Tab :
                 /\ panel[t].confirm = r.id /\ panel[t].stage = "CONFIRMING"
                 /\ SetTab(t, IF r.outcome = "saved"
                              THEN [panel[t] EXCEPT !.stage = "REFRESHING", !.result = r.id,
                                                    !.proposal = Absent]
                              ELSE [panel[t] EXCEPT !.stage = r.outcome, !.proposal = Absent])
           \/ /\ ~\E t \in Tab : panel[t].confirm = r.id /\ panel[t].stage = "CONFIRMING"
              /\ UNCHANGED panel
        /\ UNCHANGED World

\* Half a minute has passed, the connection has failed or the server has
\* answered with an error of its own.
GiveUp(t) ==
    /\ panel[t].stage = "CONFIRMING"
    /\ SetTab(t, [panel[t] EXCEPT !.stage = Unanswered, !.proposal = Absent])
    /\ UNCHANGED <<World, write>>

\* The page is loaded again; the server does not notice.
Reload(t) ==
    /\ reloads < MaxReload /\ panel[t] # Initial
    /\ reloads' = reloads + 1
    /\ SetTab(t, Initial)
    /\ UNCHANGED <<clock, analysis, log, lock, write, judging, offered>>

-----------------------------------------------------------------------------
(* confirm_action *)

LockFree == lock = Absent

LockCase(w) ==
    /\ write[w].pc = "waiting" /\ LockFree
    /\ lock' = w
    /\ SetWrite(w, [write[w] EXCEPT !.pc = "locked", !.fresh = Nothing(write[w].p.kind)])
    /\ UNCHANGED <<clock, analysis, log, judging, panel, offered, reloads>>

Unlock(w) == lock' = IF lock = w THEN Absent ELSE lock

\* Commit or rollback.
Done(w, outcome) ==
    /\ SetWrite(w, [IdleWrite EXCEPT !.pc = "done", !.id = write[w].id, !.outcome = outcome])
    /\ Unlock(w)
    /\ UNCHANGED <<clock, analysis, judging, panel, offered, reloads>>

\* A slip: for a revalidation the current judgment is not compared.
SameBaseline(expected, fresh) ==
    IF expected.kind = "answer" THEN expected = fresh
    ELSE [expected EXCEPT !.cr = 0] = [fresh EXCEPT !.cr = 0]

SameContext(expected, fresh) == expected = fresh

ReadFresh(w) ==
    LET r == write[w]
    IN  \/ /\ r.pc = "locked"
           /\ SetWrite(w, [r EXCEPT !.pc = "reading", !.fresh = FirstRead(@)])
           /\ UNCHANGED <<World, panel>>
        \/ /\ r.pc = "reading"
           /\ LET fresh == SecondRead(r.fresh)
              IN  \/ /\ Usable(fresh) /\ SameContext(r.p, fresh) /\ Askable(fresh)
                     /\ SetWrite(w, [r EXCEPT !.pc = "fresh"])
                     /\ UNCHANGED <<World, panel>>
                  \/ /\ ~(Usable(fresh) /\ SameContext(r.p, fresh) /\ Askable(fresh))
                     /\ Done(w, "STALE") /\ UNCHANGED log

\* answer_and_rejudge and run_qualification_revalidation look again whether the
\* source is the latest run of its version, then at the analysis.
Source(p) == IF p.kind = "answer" THEN p.cr ELSE p.br

CheckSource(w) ==
    LET r == write[w]
        s == RunOf(Source(r.p))
    IN  /\ r.pc \in {"fresh", "source"}
        /\ LET ok == IF r.pc = "fresh" THEN LatestId(Line(s.version)) = s.id
                     ELSE r.p.kind = "answer" => s.analysis = analysis["current"]
           IN  \/ /\ ok
                  /\ SetWrite(w, [r EXCEPT !.pc = IF @ = "fresh" THEN "source" ELSE "ready"])
                  /\ UNCHANGED <<World, panel>>
               \/ ~ok /\ Done(w, "STALE") /\ UNCHANGED log

Store(w) ==
    LET p == write[w].p
    IN  /\ write[w].pc = "ready"
        /\ \E open \in IF p.kind = "answer" THEN {FALSE} ELSE BOOLEAN :
              log' = Append(log, [id |-> write[w].id, version |-> "current",
                                  analysis |-> p.ca, open |-> open, origin |-> p.kind,
                                  source |-> Source(p), shown |-> p])
        /\ Done(w, "saved")

\* Any other error: it rolls back, and the response says so or is no answer.
Abort(w) ==
    /\ write[w].pc \notin {"idle", "done"}
    /\ Done(w, "FAILED")
    /\ UNCHANGED log

-----------------------------------------------------------------------------
(* Others: analyses, and judgments of either version *)

NewAnalysis(v) ==
    /\ analysis[v] < MaxAnalysis
    /\ analysis' = [analysis EXCEPT ![v] = @ + 1]
    /\ UNCHANGED <<clock, log, lock, write, judging, panel, offered, reloads>>

BeginJudgment(j, v) ==
    /\ judging[j].pc = "idle" /\ clock < MaxClock
    /\ clock' = clock + 1
    /\ judging' = [judging EXCEPT ![j] = [pc |-> "judging", id |-> clock, version |-> v,
                                          analysis |-> analysis[v]]]
    /\ UNCHANGED <<analysis, log, lock, write, panel, offered, reloads>>

CommitJudgment(j) ==
    LET r == judging[j]
    IN  /\ r.pc = "judging"
        /\ log' = Append(log, [FirstRun(r.version, r.id) EXCEPT !.analysis = r.analysis])
        /\ judging' = [judging EXCEPT ![j] = IdleJudging]
        /\ UNCHANGED <<clock, analysis, lock, write, panel, offered, reloads>>

\* acquireReview and releaseReview: the tab runs a whole review, that is, an
\* analysis and a judgment, and shares the lock of the controller.
AcquireReview(t) ==
    /\ ~IsLocked(panel[t])
    /\ SetTab(t, [Initial EXCEPT !.external = TRUE])
    /\ UNCHANGED <<World, write>>

ReleaseReview(t) ==
    /\ panel[t].external
    /\ SetTab(t, [panel[t] EXCEPT !.external = FALSE])
    /\ UNCHANGED <<World, write>>

WriteStep(w) == LockCase(w) \/ ReadFresh(w) \/ CheckSource(w) \/ Store(w)

ActionsNext ==
    \/ \E t \in Tab :
          \/ BeginAnswer(t) \/ Edit(t) \/ Cancel(t) \/ Adopt(t)
          \/ Propose(t, "answer") \/ Propose(t, "revalidate") \/ Refresh(t)
          \/ ServeRead(t) \/ ReceiveRead(t)
          \/ \E w \in Writer : Confirm(t, w)
          \/ GiveUp(t) \/ Reload(t) \/ AcquireReview(t) \/ ReleaseReview(t)
    \/ \E w \in Writer : WriteStep(w) \/ ReceiveWrite(w) \/ Abort(w)
    \/ \E v \in Version : NewAnalysis(v) \/ \E j \in Judge : BeginJudgment(j, v)
    \/ \E j \in Judge : CommitJudgment(j)
    \/ Offer

ActionsSpec == ActionsInit /\ [][ActionsNext]_actionVars

-----------------------------------------------------------------------------
(* Properties *)

RunRecord == [id : Nat, version : Version, analysis : Nat, open : BOOLEAN,
              origin : {"judgment", "answer", "revalidate"}, source : Nat, shown : Provenance]

MaybeProvenance == Provenance \cup {Absent}

Holding == {"locked", "reading", "fresh", "source", "ready"}

WriteRecord == [pc : {"idle", "waiting", "done"} \cup Holding, id : Nat,
                p : MaybeProvenance, fresh : MaybeProvenance,
                outcome : {"saved", "STALE", "FAILED", Absent}]

JudgingRecord == [pc : {"idle", "judging"}, id : Nat, version : Version \cup {Absent},
                  analysis : Nat]

PanelRecord == [stage : Stage, external : BOOLEAN, draft : MaybeProvenance,
                proposal : MaybeProvenance, confirm : Nat, result : Nat, shown : Nat,
                read : Reading \cup {Absent}]

ActionsTypeOK ==
    /\ clock \in Nat \ {0}
    /\ analysis \in [Version -> Nat]
    /\ log \in Seq(RunRecord)
    /\ lock \in Writer \cup {Absent}
    /\ write \in [Writer -> WriteRecord]
    /\ judging \in [Judge -> JudgingRecord]
    /\ panel \in [Tab -> PanelRecord]
    /\ offered \in MaybeProvenance

Decisions == {i \in DOMAIN log : log[i].origin # "judgment"}

\* Whoever confirmed a decision had been shown every decision stored before it for
\* the current version: no answer or revalidation is passed over by a user who had
\* not seen it, whether it came from another tab, from before a reload or from a
\* confirmation whose outcome was unknown.
DecidedOnWhatWasShown ==
    \A i, j \in Decisions : i < j => log[i].id <= log[j].shown.cr

\* A confirmed answer rests on the run whose question the user answered, of the
\* analysis that was the latest when it was shown.
AnswersTheQuestionShown ==
    /\ \A i \in Decisions : log[i].origin = "answer" =>
          \E s \in Runs : s.id = log[i].source /\ s.open /\ s.analysis = log[i].analysis
    /\ \A t \in Tab : panel[t].draft # Absent /\ panel[t].proposal # Absent =>
          panel[t].proposal = panel[t].draft

\* "Only explicit client/stale rejections establish that this attempt did not
\* save" (copilot-actions.ts:126): what the tab reports as refused is not stored,
\* now or later.
RefusedIsNotStored ==
    \A t \in Tab : panel[t].stage \in {"STALE", "FAILED"} /\ panel[t].confirm # 0 =>
        /\ panel[t].confirm \notin Ids(Runs)
        /\ \A w \in Writer : write[w].id # panel[t].confirm

\* What is shown as the outcome of a confirmation is the run it has stored.
CompletedIsShown ==
    \A t \in Tab : panel[t].stage = "COMPLETED" /\ panel[t].result # 0 =>
        /\ panel[t].shown = panel[t].confirm
        /\ \E r \in Runs : r.id = panel[t].confirm /\ r.origin # "judgment"

\* What is on the screen, what was decided upon it and what is stored belong together.
ShownAndStored == DecidedOnWhatWasShown /\ AnswersTheQuestionShown /\ CompletedIsShown

\* After a confirmation that was stored, the tab can read its result.  VIOLATED: when
\* a judgment has become the latest run meanwhile, no retry ever succeeds, and the
\* controller stays locked (copilot-actions.ts:146-151).
RetryHelps ==
    \A t \in Tab : panel[t].stage = "DONE_REFRESH_FAILED" =>
        LatestId({r \in Line("current") : r.analysis = analysis["current"]}) = panel[t].result
=============================================================================
