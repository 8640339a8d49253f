---------------------------- MODULE CopilotAnswers ----------------------------
(***************************************************************************)
(* What the copilot says (copilot/orchestration.py, answer_validation.py,  *)
(* model_gateway.py).                                                      *)
(*                                                                         *)
(* A turn plans which parts of the product it reads, and reads them; a     *)
(* language model drafts claims that name the facts they rest on, another  *)
(* call verifies them, and claims that fail are repaired and verified once *)
(* more.  Claims that were verified are said; if they are not the whole    *)
(* answer, a few facts are shown as they are.                              *)
(*                                                                         *)
(* The models are not known: a call may fail, return what it likes, and    *)
(* take so long that nothing else can be asked.  A claim is a record of    *)
(* its id, of the draft that worded it and of the facts it names.  The     *)
(* product stores every fact with a source of its scope that is not empty, *)
(* so that a claim fails mechanically if it names no fact, or one that was *)
(* not read.                                                               *)
(***************************************************************************)
EXTENDS Naturals, FiniteSets

CONSTANTS
    Task,          \* what can be read
    FactsOf,       \* task -> the facts that it finds
    Exact,         \* the facts that may be shown as they are: short, of the product
    Id,            \* ids of claims
    Drafts,        \* what the model may draft: sequences of [id, facts]
    Repairs        \* ... and answer when it repairs

ASSUME AnswersAssumption ==
    /\ "propose" \in Task /\ "document" \in Task /\ DOMAIN FactsOf = Task
    /\ \A draft \in Drafts \cup Repairs :
           DOMAIN draft \subseteq Nat /\ \A i \in DOMAIN draft : draft[i].id \in Id

VARIABLES
    stage,     \* the call that comes next, or "said"
    guided,    \* a question of the catalogue, with criteria of its own
    time,      \* 2: eight seconds or more are left; 1: less; 0: less than one
    plan,      \* tasks that are still to be read
    whole,     \* all was planned by the model and found, without limitations
    bundle,    \* facts that have been read
    claims,    \* of the draft, each with what has been found out of it
    coverage,  \* the last judgment on whether the answer is complete
    repaired,  \* what the model answers when it repairs
    published,      \* the claims of the envelope
    shown,     \* facts shown as they are
    passed,    \* task_status is PASS
    verified   \* history: the claims that the verifier has supported

answerVars == <<stage, guided, time, plan, whole, bundle, claims, coverage, repaired, published,
                shown, passed, verified>>

Unknown == [status |-> "UNKNOWN", about |-> {}]

Waiting == claims = <<>> /\ coverage = Unknown /\ repaired = <<>> /\ published = {} /\ shown = {}
           /\ passed = FALSE /\ verified = {}

AnswersInit ==
    /\ stage = "plan" /\ guided \in BOOLEAN /\ time = 2
    /\ plan = {} /\ whole = TRUE /\ bundle = {} /\ Waiting

\* Nothing is asked, where this component is composed with others.
Silent ==
    /\ stage = "silent" /\ guided = FALSE /\ time = 0
    /\ plan = {} /\ whole = FALSE /\ bundle = {} /\ Waiting

-----------------------------------------------------------------------------
(* model_gateway.py *)

\* A call takes its time.  It may fail whatever happens: for its size, or being refused.
TimePasses == time' \in 0..time

\* ModelGateway.call: nothing is asked when less than a second is left, and an answer that
\* comes too late is thrown away.  There are as many calls as there are stages.
Succeeds == time > 0

-----------------------------------------------------------------------------
(* orchestration.py: the plan, and what is read *)

\* fallback_plan: the tasks that words of the question stand for, or the documents.
FallbackPlan(words) == IF words = {} THEN {"document"} ELSE words

\* Reading alone cannot become a proposal because the model takes it for one.
Permitted(tasks, words) ==
    IF "propose" \in FallbackPlan(words) THEN tasks ELSE tasks \ {"propose"}

\* plan_turn: a question of the catalogue, and words that ask for an action, need no model.
Planned(tasks, byModel) == plan' = tasks /\ whole' = byModel

PlanTurn ==
    /\ stage = "plan" /\ stage' = "read" /\ TimePasses
    /\ \E words \in SUBSET Task :
         \/ /\ guided \/ "propose" \in words
            /\ \E task \in Task \ {"propose"} :
                 Planned(IF guided THEN {task} ELSE {task, "propose"}, TRUE)
         \/ /\ ~guided
            /\ \/ /\ Succeeds
                  /\ \E tasks \in (SUBSET Task) \ {{}} :
                       IF Permitted(tasks, words) = {} THEN Planned(FallbackPlan(words), FALSE)
                       ELSE Planned(Permitted(tasks, words), TRUE)
               \/ Planned(FallbackPlan(words), FALSE)
    /\ UNCHANGED <<guided, bundle, claims, coverage, repaired, published, shown, passed, verified>>

\* The loop over the tasks: what was found of one counts, or nothing of it.  It ends when
\* there is no time left.  A proposal is always a limitation of an answer.
ReadTask ==
    /\ stage = "read" /\ plan # {} /\ TimePasses
    /\ \E task \in plan :
         \/ /\ plan' = plan \ {task} /\ bundle' = bundle \cup FactsOf[task]
            /\ \E limited \in BOOLEAN :
                 whole' = (whole /\ (guided \/ ~limited) /\ task # "propose")
         \/ plan' = plan \ {task} /\ whole' = FALSE /\ UNCHANGED bundle
         \/ time = 0 /\ plan' = {} /\ whole' = FALSE /\ UNCHANGED bundle
    /\ UNCHANGED <<stage, guided, claims, coverage, repaired, published, shown, passed, verified>>

-----------------------------------------------------------------------------
(* answer_validation.py *)

\* mechanical
Refers(claim) == claim.facts # {} /\ claim.facts \subseteq bundle

\* The facts and the wording that a verdict is about.
Content(claim) == [id |-> claim.id, facts |-> claim.facts, by |-> claim.by]

\* The claims of a draft, by whom they were worded.  One that names an id for the second
\* time is not sent to be verified.
Fresh(draft, i) == \A j \in DOMAIN draft : j < i => draft[j].id # draft[i].id

Candidates(draft, by) ==
    [i \in DOMAIN draft |->
        [id |-> draft[i].id, facts |-> draft[i].facts, by |-> by,
         validation |-> IF Fresh(draft, i) /\ Refers(draft[i]) THEN "UNCHECKED"
                        ELSE "INSUFFICIENT"]]

Pending(candidates) ==
    {Content(candidates[i]) : i \in {i \in DOMAIN candidates : candidates[i].validation = "UNCHECKED"}}

\* A slip: verdicts are taken as far as they go.
AnySet(verdicts, pending) == TRUE

\* The verdicts are of the claims that were sent, all of them.
WholeSet(verdicts, pending) == DOMAIN verdicts = {c.id : c \in pending}

\* A verdict counts for its id.
Apply(verdicts, candidates) ==
    [i \in DOMAIN candidates |->
        IF candidates[i].id \in DOMAIN verdicts
        THEN [candidates[i] EXCEPT !.validation = verdicts[candidates[i].id]]
        ELSE candidates[i]]

Answers(verdicts) == {<<id, verdicts[id]>> : id \in DOMAIN verdicts}

Verdicts == UNION {[ids -> {"SUPPORTED", "CONTRADICTED"}] : ids \in SUBSET Id}

Supported(list) == {i \in DOMAIN list : list[i].validation = "SUPPORTED"}

FailedIds(list) == {list[i].id : i \in DOMAIN list \ Supported(list)}

\* The draft is asked for.  Without one there is nothing to verify.
Generate ==
    /\ stage = "read" /\ plan = {} /\ TimePasses
    /\ \/ stage' = "finish" /\ UNCHANGED claims
       \/ /\ Succeeds
          /\ \E draft \in Drafts : claims' = Candidates(draft, "draft")
          /\ stage' = "validate"
    /\ UNCHANGED <<guided, plan, whole, bundle, coverage, repaired, published, shown, passed, verified>>

\* verify: what comes out of a list of candidates, beside claims supported before.  If the
\* call fails, or is not needed, nothing is found out.
Outcomes(list, siblings) ==
    {[list |-> list, coverage |-> coverage, supported |-> {}]} \cup
    {[list |-> Apply(verdicts, list),
      coverage |-> [status |-> status, about |-> Pending(list) \cup siblings],
      supported |-> {c \in Pending(list) : <<c.id, "SUPPORTED">> \in Answers(verdicts)}] :
        verdicts \in {v \in Verdicts : Succeeds /\ Pending(list) # {} /\ WholeSet(v, Pending(list))},
        status \in {"COMPLETE", "PARTIAL"}}

Knows(outcome) ==
    coverage' = outcome.coverage /\ verified' = verified \cup outcome.supported

Validate ==
    /\ stage = "validate" /\ stage' = "repair" /\ TimePasses
    /\ \E outcome \in Outcomes(claims, {}) : claims' = outcome.list /\ Knows(outcome)
    /\ UNCHANGED <<guided, plan, whole, bundle, repaired, published, shown, passed>>

Complete == coverage.status = "COMPLETE"

\* An answer to a question of the catalogue can do without the claims that failed.
NeedsRepair ==
    /\ FailedIds(claims) # {} /\ ~(guided /\ Complete)
    /\ time = 2

\* Of what the model words anew, the first claim of each id that had failed is taken.
FirstOfEach(draft) ==
    [i \in {i \in DOMAIN draft : Fresh(draft, i) /\ draft[i].id \in FailedIds(claims)} |-> draft[i]]

Repair ==
    /\ stage = "repair" /\ TimePasses
    /\ \/ stage' = "finish" /\ UNCHANGED repaired
       \/ /\ NeedsRepair
          /\ \E draft \in Repairs :
               /\ DOMAIN FirstOfEach(draft) # {}
               /\ repaired' = Candidates(FirstOfEach(draft), "repair")
          /\ stage' = "revalidate"
    /\ UNCHANGED <<guided, plan, whole, bundle, claims, coverage, published, shown, passed, verified>>

SupportedContents(list) == {Content(list[i]) : i \in Supported(list)}

\* A claim that has failed gives way to one of its id that is supported.
Replaced(fixed) ==
    [i \in DOMAIN claims |->
        LET better == {j \in Supported(fixed) : fixed[j].id = claims[i].id}
        IN  IF claims[i].id \in FailedIds(claims) /\ better # {}
            THEN fixed[CHOOSE j \in better : TRUE] ELSE claims[i]]

Revalidate ==
    /\ stage = "revalidate" /\ stage' = "finish" /\ TimePasses
    /\ \E outcome \in Outcomes(repaired, SupportedContents(claims)) :
         claims' = Replaced(outcome.list) /\ Knows(outcome)
    /\ UNCHANGED <<guided, plan, whole, bundle, repaired, published, shown, passed>>

\* What is not the whole answer: claims are missing, or the verifier has found it so.  For
\* three questions of the catalogue the server may find the text complete itself.
Partial(structural) ==
    \/ Supported(claims) = {} \/ ~(Complete \/ (guided /\ structural))
    \/ ~guided /\ Supported(claims) # DOMAIN claims

\* _safe_exact_fallback: up to four facts of the product that no claim has named; which ones
\* depends on the words of the question and on lengths.
SafeExact(cited) ==
    {facts \in SUBSET ((bundle \cap Exact) \ cited) : Cardinality(facts) <= 4}

\* The end of compose, and of coordinate.
Finish ==
    LET cited == UNION {c.facts : c \in SupportedContents(claims)}
    IN  /\ stage = "finish" /\ stage' = "said"
        /\ published' = SupportedContents(claims)
        /\ \E structural \in BOOLEAN :
             /\ shown' \in IF Partial(structural) /\ ~guided THEN SafeExact(cited) ELSE {{}}
             /\ passed' = (~Partial(structural) /\ whole /\ (guided \/ bundle \subseteq cited))
        /\ UNCHANGED <<guided, time, plan, whole, bundle, claims, coverage, repaired, verified>>

AnswersNext ==
    \/ PlanTurn \/ ReadTask \/ Generate \/ Validate \/ Repair \/ Revalidate \/ Finish

AnswersSpec == AnswersInit /\ [][AnswersNext]_answerVars

-----------------------------------------------------------------------------
(* Properties *)

\* No draft names an id twice.  The code marks the second claim as a duplicate, but the
\* verdict on the first one then counts for it.
Distinct == \A i, j \in DOMAIN claims : claims[i].id = claims[j].id => i = j

\* "Validate every generated factual sentence" (answer_validation.py:1): whatever the models
\* answer, and however often they fail or are late, a sentence that is said has been found
\* supported in just this wording and by facts that were read.  An answer to a free question
\* that counts as passed was found complete as it is said, and leaves out no fact.
OnlyVerifiedIsSaid ==
    stage = "said" /\ Distinct =>
        /\ \A c \in published : c \in verified /\ c.facts # {} /\ c.facts \subseteq bundle
        /\ passed /\ ~guided =>
               /\ coverage.about = published /\ coverage.status = "COMPLETE"
               /\ bundle \subseteq UNION {c.facts : c \in published}
===============================================================================
