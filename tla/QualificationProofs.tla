------------------------- MODULE QualificationProofs -------------------------
(***************************************************************************)
(* Proofs about Qualification for any number of requests, cases, companies *)
(* and versions, and any rules.                                            *)
(*                                                                         *)
(* Most actions do one of four things with a transaction: begin it, go on  *)
(* with it, roll it back, or store a run and end it.  One lemma for each   *)
(* shows what it preserves; the theorems that follow say of each action    *)
(* which of the four it does and why it meets that lemma's conditions.     *)
(***************************************************************************)
EXTENDS Qualification, TLAPS

-----------------------------------------------------------------------------
(* What the operators return *)

\* The requirements of an analysis run have keys and are requirements.
LEMMA AnalysisReqs ==
    ASSUME NEW a \in AnalysisRun
    PROVE  /\ DOMAIN a.reqs \subseteq Key
           /\ \A k \in DOMAIN a.reqs : a.reqs[k] \in Requirement
<1>1. PICK e \in Outcome : a.reqs = e.reqs
  BY DEF AnalysisRun
<1>2. e.reqs \in [DOMAIN e.reqs -> Requirement] /\ DOMAIN e.reqs \subseteq Key
  BY OutcomeAssumption
<1> QED
  BY <1>1, <1>2

\* The rules give a judgment that rests on no user's answer.
LEMMA JudgeRequirementType ==
    ASSUME NEW v \in 0..MaxRule, NEW p \in Profile, NEW d \in Day, NEW w \in Clause
    PROVE  /\ JudgeRequirement(v, p, d, w) \in Judgment
           /\ JudgeRequirement(v, p, d, w).basis # "USER_ANSWER"
<1>1. Verdict(v, p, d, w) \in JudgmentStatus
  BY VerdictAssumption
<1> QED
  BY <1>1 DEF JudgeRequirement, Judgment, Basis

\* There are three overall results.
LEMMA OverallType ==
    ASSUME NEW a, NEW judgments
    PROVE  Overall(a, judgments) \in {"eligible", "ineligible", "insufficient_data"}
  BY DEF Overall, DeriveOverallStatus

\* A judgment run judges the requirements of its analysis by the rules.
LEMMA JudgeRequirementsType ==
    ASSUME NEW a \in AnalysisRun, NEW p \in Profile, NEW d \in Day, rule \in 0..MaxRule
    PROVE  /\ JudgeRequirements(a, p, d) \in [DOMAIN a.reqs -> Judgment]
           /\ DOMAIN a.reqs \subseteq Key
           /\ \A k \in DOMAIN a.reqs : JudgeRequirements(a, p, d)[k].basis # "USER_ANSWER"
<1>1. \A k \in DOMAIN a.reqs : a.reqs[k].clause \in Clause
  BY AnalysisReqs, RequirementAssumption
<1>2. \A k \in DOMAIN a.reqs :
          /\ JudgeRequirement(rule, p, d, a.reqs[k].clause) \in Judgment
          /\ JudgeRequirement(rule, p, d, a.reqs[k].clause).basis # "USER_ANSWER"
  BY <1>1, JudgeRequirementType
<1> QED
  BY <1>2, AnalysisReqs DEF JudgeRequirements

\* A revalidation judges exactly the requirements of its analysis, each either
\* by the rules or as its source judged a requirement with the same payload.
LEMMA RevalidatedOrigin ==
    ASSUME NEW a \in AnalysisRun, NEW p \in Profile, rule \in 0..MaxRule,
           NEW s, s.date \in Day, s.judgments \in [DOMAIN s.judgments -> Judgment]
    PROVE  /\ Revalidated(s, a, p) \in [DOMAIN a.reqs -> Judgment]
           /\ \A k \in DOMAIN a.reqs :
                 \/ Revalidated(s, a, p)[k] =
                       JudgeRequirement(rule, p, s.date, a.reqs[k].clause)
                 \/ \E b \in DOMAIN s.judgments :
                       /\ b \in DOMAIN s.analysis.reqs
                       /\ s.analysis.reqs[b].payload = a.reqs[k].payload
                       /\ Revalidated(s, a, p)[k] = s.judgments[b]
<1> DEFINE R(k) == IF CarriedFrom(s, a, k) # {}
                   THEN s.judgments[CHOOSE b \in CarriedFrom(s, a, k) : TRUE]
                   ELSE JudgeRequirement(rule, p, s.date, a.reqs[k].clause)
<1>1. ASSUME NEW k \in DOMAIN a.reqs
      PROVE  /\ R(k) \in Judgment
             /\ \/ R(k) = JudgeRequirement(rule, p, s.date, a.reqs[k].clause)
                \/ \E b \in DOMAIN s.judgments :
                      /\ b \in DOMAIN s.analysis.reqs
                      /\ s.analysis.reqs[b].payload = a.reqs[k].payload
                      /\ R(k) = s.judgments[b]
  <2>1. CASE CarriedFrom(s, a, k) # {}
    <3> DEFINE b == CHOOSE b \in CarriedFrom(s, a, k) : TRUE
    <3>1. b \in CarriedFrom(s, a, k)
      BY <2>1
    <3>2. /\ b \in DOMAIN s.judgments
          /\ b \in DOMAIN s.analysis.reqs
          /\ s.analysis.reqs[b].payload = a.reqs[k].payload
      BY <3>1 DEF CarriedFrom, UnchangedFrom, UnchangedPairs
    <3>3. R(k) = s.judgments[b]
      BY <2>1
    <3> HIDE DEF b, R
    <3> QED
      BY <3>2, <3>3
  <2>2. CASE CarriedFrom(s, a, k) = {}
    <3>1. a.reqs[k].clause \in Clause
      BY AnalysisReqs, RequirementAssumption
    <3>2. JudgeRequirement(rule, p, s.date, a.reqs[k].clause) \in Judgment
      BY <3>1, JudgeRequirementType
    <3> QED
      BY <2>2, <3>2
  <2> QED
    BY <2>1, <2>2
<1>2. Revalidated(s, a, p) = [k \in DOMAIN a.reqs |-> R(k)]
  BY DEF Revalidated
<1> HIDE DEF R
<1> QED
  BY <1>1, <1>2

-----------------------------------------------------------------------------
(* What each kind of step preserves *)

\* What IndInv says of the stored runs.
RunsInv ==
    /\ \A r \in runs : IsRun(r) /\ r.id < clock
    /\ \A r, s \in runs : r.id = s.id => r = s
    /\ AnswerDecides
    /\ Reproducible /\ AnswerProvenance /\ JudgedExactly
    /\ AnswersKept /\ AnswersDoNotFork

\* What it says of request q.
RequestInv(q) ==
    /\ TxFits(pc[q], tx[q])
    /\ ChecksHoldFor(pc[q], tx[q])
    /\ pc[q] # "idle" =>
          /\ tx[q].id < clock
          /\ \A r \in runs : r.id # tx[q].id
          /\ \A p \in Request : pc[p] # "idle" /\ tx[p].id = tx[q].id => p = q
    /\ pc[q] \in Locked => lock[tx[q].case] = q
    /\ pc[q] \in SourceSeen => NoLaterAnswer(tx[q])

RequestsInv == \A q \in Request : RequestInv(q)

\* IndInv, divided into what it says of the variables, the runs and the requests.
LEMMA IndInvParts == IndInv <=> TypeOK /\ RunsInv /\ RequestsInv
  BY DEF IndInv, TypeOK, RunsInv, RequestInv, RequestsInv, TxOK, ChecksHold, IdsUnique,
         LockHeld, SourceUnanswered

\* What it says of stored runs depends on nothing else but the clock.
LEMMA RunsInvKept ==
    ASSUME RunsInv, UNCHANGED runs, clock \in Nat, clock' \in Nat, clock <= clock'
    PROVE  RunsInv'
<1>1. \A r \in runs' : IsRun(r)' /\ r.id < clock'
  BY DEF RunsInv, IsRun
<1> QED
  BY <1>1
  DEF RunsInv, AnswerDecides, Reproducible, AnswerProvenance, JudgedExactly,
      AnswersKept, AnswersDoNotFork, Answers, Line

\* A request that does not move keeps what it knows while runs are only added,
\* the lock of its case is left to it and the rules stay the same, unless one of
\* the new runs has its id or is an answer in its line.
LEMMA OthersKept ==
    ASSUME NEW q \in Request, RequestInv(q),
           pc'[q] = pc[q], tx'[q] = tx[q], rule' = rule,
           clock' \in Nat, clock \in Nat, tx[q].id \in Nat, clock <= clock',
           runs \subseteq runs',
           pc[q] \in Locked => lock'[tx[q].case] = q,
           \A p \in Request : pc'[p] # "idle" /\ p # q /\ pc[q] # "idle" =>
                                  tx'[p].id # tx[q].id,
           \A r \in runs' \ runs :
               /\ pc[q] # "idle" => r.id # tx[q].id
               /\ r.origin = "answer" /\ pc[q] \in Locked => r.case # tx[q].case
    PROVE  RequestInv(q)'
<1>1. TxFits(pc[q], tx[q])' /\ ChecksHoldFor(pc[q], tx[q])'
  BY DEF RequestInv, TxFits, ChecksHoldFor
<1>2. ASSUME pc[q] \in SourceSeen
      PROVE  NoLaterAnswer(tx[q])'
  BY <1>2 DEF RequestInv, NoLaterAnswer, Answers, Locked, SourceSeen
<1> QED
  BY <1>1, <1>2 DEF RequestInv

\* Starting a transaction preserves the invariant.
LEMMA BeginInv ==
    ASSUME IndInv, NEW q \in Request, NEW phase, NEW t,
           phase \in {"analysing", "judging", "answering", "revalidating"},
           Begin(q, phase, t),
           [t EXCEPT !.id = clock] \in Tx,
           TxFits(phase, [t EXCEPT !.id = clock])
    PROVE  IndInv'
<1> DEFINE n == [t EXCEPT !.id = clock]
<1>0. TypeOK /\ RunsInv /\ RequestsInv
  BY IndInvParts
<1>1. /\ clock' = clock + 1 /\ clock \in Nat /\ clock' \in Nat
      /\ pc[q] = "idle"
      /\ rule' = rule /\ runs' = runs /\ lock' = lock
  BY <1>0 DEF Begin, TypeOK
<1>2. /\ pc'[q] = phase /\ tx'[q] = n /\ n.id = clock
      /\ \A p \in Request : p # q => pc'[p] = pc[p] /\ tx'[p] = tx[p]
  BY <1>0 DEF Begin, TypeOK, Tx
<1>3. TypeOK'
  BY <1>0, <1>2 DEF Begin, TypeOK, Phase, Tx
<1>4. RunsInv'
  BY <1>0, <1>1, RunsInvKept
<1>5. ASSUME NEW p \in Request PROVE RequestInv(p)'
  <2>1. CASE p = q
    <3>1. \A r \in runs : r.id < clock /\ r.id \in Nat
      BY <1>0 DEF RunsInv, IsRun
    <3>2. \A o \in Request : pc[o] # "idle" => tx[o].id < clock /\ tx[o].id \in Nat
      BY <1>0 DEF RequestsInv, RequestInv, TypeOK, Tx
    <3>3. TxFits(pc[q], tx[q])'
      BY <1>1, <1>2 DEF TxFits
    <3>4. ChecksHoldFor(pc[q], tx[q])'
      BY <1>2 DEF ChecksHoldFor
    <3> QED
      BY <2>1, <1>1, <1>2, <3>1, <3>2, <3>3, <3>4 DEF RequestInv, Locked, SourceSeen
  <2>2. CASE p # q
    <3>1. tx[p].id \in Nat /\ RequestInv(p)
      BY <1>0 DEF TypeOK, Tx, RequestsInv
    <3>2. pc[p] # "idle" => tx[p].id < clock
      BY <3>1 DEF RequestInv
    <3>3. ASSUME NEW o \in Request, pc'[o] # "idle", o # p, pc[p] # "idle"
          PROVE  tx'[o].id # tx[p].id
      <4>1. CASE o = q
        BY <4>1, <3>3, <1>1, <1>2, <3>1, <3>2
      <4>2. CASE o # q
        BY <4>2, <3>3, <1>2, <3>1 DEF RequestInv
      <4> QED
        BY <4>1, <4>2
    <3>4. pc[p] \in Locked => lock'[tx[p].case] = p
      BY <1>1, <3>1 DEF RequestInv
    <3> QED
      BY <2>2, <1>1, <1>2, <3>1, <3>3, <3>4, OthersKept
  <2> QED
    BY <2>1, <2>2
<1>6. RequestsInv'
  BY <1>5 DEF RequestsInv
<1> QED
  BY <1>3, <1>4, <1>6, IndInvParts, PTL

\* Going on with a transaction preserves the invariant, if what it has read is
\* what the next phase relies on.
LEMMA ContinueInv ==
    ASSUME IndInv, NEW q \in Request, NEW phase \in Phase \ {"idle"}, NEW t \in Tx,
           pc[q] # "idle",
           Continue(q, phase, t),
           t.id = tx[q].id, t.case = tx[q].case,
           TxFits(phase, t), ChecksHoldFor(phase, t),
           phase \in Locked => pc[q] \in Locked,
           phase \in SourceSeen => NoLaterAnswer(t)
    PROVE  IndInv'
<1>0. TypeOK /\ RunsInv /\ RequestsInv
  BY IndInvParts
<1>1. clock' = clock /\ clock \in Nat /\ rule' = rule /\ runs' = runs /\ lock' = lock
  BY <1>0 DEF Continue, TypeOK
<1>2. /\ pc'[q] = phase /\ tx'[q] = t
      /\ \A p \in Request : p # q => pc'[p] = pc[p] /\ tx'[p] = tx[p]
  BY <1>0 DEF Continue, TypeOK
<1>3. TypeOK'
  BY <1>0 DEF Continue, TypeOK, Tx
<1>4. RunsInv'
  BY <1>0, <1>1, RunsInvKept
<1>5. \A p \in Request : pc[p] # "idle" <=> pc'[p] # "idle"
  BY <1>2
<1>6. \A p \in Request : tx'[p].id = tx[p].id
  BY <1>2
<1>7. ASSUME NEW p \in Request PROVE RequestInv(p)'
  <2>1. CASE p = q
    <3>1. RequestInv(q)
      BY <1>0 DEF RequestsInv
    <3>2. TxFits(pc[q], tx[q])'
      BY <1>1, <1>2 DEF TxFits
    <3>3. ChecksHoldFor(pc[q], tx[q])'
      BY <1>1, <1>2 DEF ChecksHoldFor
    <3>4. /\ tx'[q].id < clock'
          /\ \A r \in runs' : r.id # tx'[q].id
          /\ \A o \in Request : pc'[o] # "idle" /\ tx'[o].id = tx'[q].id => o = q
      BY <3>1, <1>1, <1>5, <1>6 DEF RequestInv
    <3>5. pc'[q] \in Locked => lock'[tx'[q].case] = q
      BY <3>1, <1>1, <1>2 DEF RequestInv
    <3>6. pc'[q] \in SourceSeen => NoLaterAnswer(tx[q])'
      BY <1>1, <1>2 DEF NoLaterAnswer, Answers
    <3> QED
      BY <2>1, <3>2, <3>3, <3>4, <3>5, <3>6 DEF RequestInv
  <2>2. CASE p # q
    <3>1. tx[p].id \in Nat /\ RequestInv(p)
      BY <1>0 DEF TypeOK, Tx, RequestsInv
    <3>2. ASSUME NEW o \in Request, pc'[o] # "idle", o # p, pc[p] # "idle"
          PROVE  tx'[o].id # tx[p].id
      BY <3>2, <1>5, <1>6, <3>1 DEF RequestInv
    <3>3. pc[p] \in Locked => lock'[tx[p].case] = p
      BY <1>1, <3>1 DEF RequestInv
    <3> QED
      BY <2>2, <1>1, <1>2, <3>1, <3>2, <3>3, OthersKept
  <2> QED
    BY <2>1, <2>2
<1>8. RequestsInv'
  BY <1>7 DEF RequestsInv
<1> QED
  BY <1>3, <1>4, <1>8, IndInvParts, PTL

\* The end of a transaction leaves every request what it knows, if the run it
\* stores has its id and, when it is an answer, is in the case it has locked.
LEMMA EndKeepsRequests ==
    ASSUME IndInv, NEW q \in Request, pc[q] # "idle", End(q), Unlock(q),
           runs \subseteq runs',
           \A r \in runs' \ runs :
               /\ r.id = tx[q].id
               /\ r.origin = "answer" => pc[q] \in Locked /\ r.case = tx[q].case
    PROVE  /\ RequestsInv'
           /\ lock' \in [Case -> Request \cup {None}]
           /\ pc' \in [Request -> Phase]
           /\ tx' \in [Request -> Tx']
           /\ UNCHANGED <<clock, rule, profile>>
<1>0. TypeOK /\ RunsInv /\ RequestsInv
  BY IndInvParts
<1>1. clock' = clock /\ clock \in Nat /\ rule' = rule /\ profile' = profile
  BY <1>0 DEF End, TypeOK
<1>2. /\ pc'[q] = "idle" /\ tx'[q] = IdleTx
      /\ \A p \in Request : p # q => pc'[p] = pc[p] /\ tx'[p] = tx[p]
  BY <1>0 DEF End, TypeOK
<1>3. lock' \in [Case -> Request \cup {None}] /\ pc' \in [Request -> Phase]
  BY <1>0 DEF End, Unlock, TypeOK, Phase
<1>4. tx' \in [Request -> Tx']
  <2>1. IdleTx \in Tx'
    BY DEF IdleTx, Tx
  <2>2. \A p \in Request : tx[p] \in Tx'
    BY <1>0 DEF TypeOK, Tx
  <2>3. tx \in [Request -> Tx']
    BY <2>2, <1>0 DEF TypeOK
  <2> HIDE DEF Tx
  <2> QED
    BY <2>1, <2>3 DEF End
<1>5. ASSUME NEW p \in Request PROVE RequestInv(p)'
  <2>1. CASE p = q
    BY <2>1, <1>2 DEF RequestInv, TxFits, ChecksHoldFor, Answering, Revalidating, Locked, SourceSeen
  <2>2. CASE p # q
    <3>1. tx[p].id \in Nat /\ RequestInv(p) /\ RequestInv(q)
      BY <1>0 DEF TypeOK, Tx, RequestsInv
    <3>2. ASSUME NEW o \in Request, pc'[o] # "idle", o # p, pc[p] # "idle"
          PROVE  tx'[o].id # tx[p].id
      BY <3>2, <1>2, <3>1 DEF RequestInv
    <3>3. ASSUME pc[p] \in Locked PROVE lock[tx[p].case] = p /\ lock'[tx[p].case] = p
      <4>1. lock[tx[p].case] = p
        BY <3>1, <3>3 DEF RequestInv
      <4>2. tx[p].case \in Case
        BY <3>1, <3>3 DEF RequestInv, TxFits, Locked, SourceSeen, Answering, Revalidating
      <4> QED
        BY <2>2, <4>1, <4>2 DEF Unlock
    <3>4. ASSUME NEW r \in runs' \ runs
          PROVE  /\ pc[p] # "idle" => r.id # tx[p].id
                 /\ r.origin = "answer" /\ pc[p] \in Locked => r.case # tx[p].case
      <4>1. pc[p] # "idle" => r.id # tx[p].id
        BY <2>2, <3>1, <3>4 DEF RequestInv
      <4>2. ASSUME r.origin = "answer", pc[p] \in Locked, r.case = tx[p].case
            PROVE  FALSE
        <5>1. lock[tx[q].case] = q
          BY <4>2, <3>1, <3>4 DEF RequestInv
        <5> QED
          BY <5>1, <3>3, <4>2, <2>2, <3>4
      <4> QED
        BY <4>1, <4>2
    <3> QED
      BY <2>2, <1>1, <1>2, <3>1, <3>2, <3>3, <3>4, OthersKept
  <2> QED
    BY <2>1, <2>2
<1>6. RequestsInv'
  BY <1>5 DEF RequestsInv
<1> QED
  BY <1>1, <1>3, <1>4, <1>6

\* An error rolls back and preserves the invariant.
LEMMA RollbackInv ==
    ASSUME IndInv, NEW q \in Request, pc[q] # "idle", Rollback(q)
    PROVE  IndInv'
<1>0. TypeOK /\ RunsInv /\ RequestsInv
  BY IndInvParts
<1>1. runs' = runs /\ analyses' = analyses /\ End(q) /\ Unlock(q)
  BY DEF Rollback
<1>2. /\ RequestsInv' /\ UNCHANGED <<clock, rule, profile>>
      /\ lock' \in [Case -> Request \cup {None}]
      /\ pc' \in [Request -> Phase] /\ tx' \in [Request -> Tx']
  BY <1>1, EndKeepsRequests
<1>3. TypeOK'
  BY <1>0, <1>1, <1>2 DEF TypeOK, IsRun
<1>4. RunsInv'
  BY <1>0, <1>1, <1>2, RunsInvKept DEF TypeOK
<1> QED
  BY <1>2, <1>3, <1>4, IndInvParts, PTL

\* What a user's answer in a new run must satisfy.
AnswerFits(r) ==
    /\ r.source \in Nat /\ r.source < r.id
    /\ \E s \in runs : s.id = r.source /\ s.case = r.case /\ s.version = r.version
    /\ r.key \in DOMAIN r.judgments
    /\ r.judgments[r.key].status # "UNKNOWN"
    /\ r.judgments[r.key].basis = "USER_ANSWER"
    /\ \A a \in Answers : a.source # r.source
    /\ \A a \in Answers : a.case = r.case /\ a.version = r.version =>
          /\ a.id < r.id
          /\ \/ a.key \in DOMAIN r.judgments /\ r.judgments[a.key] = a.judgments[a.key]
             \/ \E x \in Line(a.case, a.version) :
                   x.origin # "answer" /\ a.id < x.id /\ x.id < r.id

\* Where the judgments of a new run come from.
JudgmentsFit(r) ==
    /\ DOMAIN r.judgments = DOMAIN r.analysis.reqs
    /\ \A k \in DOMAIN r.judgments :
          \/ /\ r.judgments[k].basis # "USER_ANSWER"
             /\ r.analysis.reqs[k].plain => r.judgments[k] =
                   JudgeRequirement(r.rule, r.profile, r.date, r.analysis.reqs[k].clause)
          \/ r.origin = "answer" /\ k = r.key
          \/ \E a \in Answers :
                /\ a.case = r.case /\ a.rule = r.rule /\ a.profile = r.profile
                /\ a.judgments[a.key] = r.judgments[k]
                /\ r.judgments[k].basis = "USER_ANSWER"
                /\ a.analysis.reqs[a.key].payload = r.analysis.reqs[k].payload

\* Storing a run whose judgments fit preserves the invariant.
LEMMA StoreRunInv ==
    ASSUME IndInv, NEW q \in Request, NEW r, pc[q] # "idle", StoreRun(q, r),
           IsRun(r), r.id = tx[q].id,
           JudgmentsFit(r),
           r.origin = "answer" =>
               AnswerFits(r) /\ pc[q] \in Locked /\ r.case = tx[q].case
    PROVE  IndInv'
<1>0. TypeOK /\ RunsInv /\ RequestsInv
  BY IndInvParts
<1>1. runs' = runs \cup {r} /\ analyses' = analyses /\ End(q) /\ Unlock(q)
  BY DEF StoreRun
<1>2. /\ RequestsInv' /\ UNCHANGED <<clock, rule, profile>>
      /\ lock' \in [Case -> Request \cup {None}]
      /\ pc' \in [Request -> Phase] /\ tx' \in [Request -> Tx']
  BY <1>1, EndKeepsRequests
<1>3. TypeOK'
  BY <1>0, <1>1, <1>2 DEF TypeOK, IsRun
<1>4. \A x \in runs : IsRun(x) /\ x.id < clock /\ x.id # r.id /\ x.id \in Nat
  BY <1>0 DEF RunsInv, RequestsInv, RequestInv, IsRun
<1>5. r.id < clock /\ r.id \in Nat
  BY <1>0 DEF RequestsInv, RequestInv, IsRun
<1>6. \A x \in runs' : IsRun(x)' /\ x.id < clock'
  BY <1>1, <1>2, <1>4, <1>5 DEF IsRun
<1>7. \A x, y \in runs' : x.id = y.id => x = y
  BY <1>0, <1>1, <1>4 DEF RunsInv
<1>8. AnswerDecides'
  <2>1. \A a \in Answers' : a \in Answers \/ (a = r /\ r.origin = "answer")
    BY <1>1 DEF Answers
  <2>2. \A a \in Answers : a \in runs
    BY DEF Answers
  <2> QED
    BY <2>1, <2>2, <1>0, <1>1 DEF RunsInv, AnswerDecides, AnswerFits
<1>9. Reproducible'
  <2>1. ASSUME NEW k \in DOMAIN r.judgments, r.judgments[k].basis # "USER_ANSWER",
               r.analysis.reqs[k].plain
        PROVE  r.judgments[k] =
                 JudgeRequirement(r.rule, r.profile, r.date, r.analysis.reqs[k].clause)
    BY <2>1 DEF JudgmentsFit, AnswerFits
  <2> QED
    BY <2>1, <1>0, <1>1 DEF RunsInv, Reproducible
<1>10. AnswerProvenance'
  <2> DEFINE From(x, k, a) ==
               /\ a.case = x.case /\ a.rule = x.rule /\ a.profile = x.profile
               /\ a.judgments[a.key] = x.judgments[k]
               /\ a.analysis.reqs[a.key].payload = x.analysis.reqs[k].payload
  <2>1. Answers \subseteq Answers'
    BY <1>1 DEF Answers
  <2>2. ASSUME NEW k \in DOMAIN r.judgments, r.judgments[k].basis = "USER_ANSWER"
        PROVE  \E a \in Answers' : From(r, k, a)
    <3>1. CASE r.origin = "answer" /\ k = r.key
      BY <3>1, <1>1 DEF Answers
    <3>2. CASE \E a \in Answers : From(r, k, a)
      BY <3>2, <2>1
    <3> QED
      BY <3>1, <3>2, <2>2 DEF JudgmentsFit
  <2>3. ASSUME NEW x \in runs, NEW k \in DOMAIN x.judgments,
               x.judgments[k].basis = "USER_ANSWER"
        PROVE  \E a \in Answers' : From(x, k, a)
    BY <2>1, <2>3, <1>0 DEF RunsInv, AnswerProvenance
  <2> QED
    BY <2>2, <2>3, <1>1 DEF AnswerProvenance
<1>11. JudgedExactly'
  BY <1>0, <1>1 DEF RunsInv, JudgedExactly, JudgmentsFit
<1>12. AnswersKept'
  <2> DEFINE Kept(a, x) ==
               \/ a.key \in DOMAIN x.judgments /\ x.judgments[a.key] = a.judgments[a.key]
               \/ \E y \in Line(a.case, a.version) :
                     y.origin # "answer" /\ a.id < y.id /\ y.id < x.id
  <2> SUFFICES ASSUME NEW a \in Answers', NEW x \in Answers',
                      x.case = a.case, x.version = a.version, ~(x.id < a.id)
               PROVE  Kept(a, x)'
    BY DEF AnswersKept
  <2>1. Line(a.case, a.version) \subseteq Line(a.case, a.version)'
    BY <1>1 DEF Line
  <2>2. ASSUME Kept(a, x) PROVE Kept(a, x)'
    BY <2>1, <2>2
  <2>3. CASE a \in runs /\ x \in runs
    <3>1. Kept(a, x)
      BY <2>3, <1>0 DEF RunsInv, AnswersKept, Answers
    <3> QED
      BY <2>2, <3>1
  <2>4. CASE a \in runs /\ x = r
    BY <2>2, <2>4 DEF AnswerFits, Answers
  <2>5. CASE a = r /\ x \in runs
    <3>1. x \in Answers /\ r.origin = "answer"
      BY <2>5 DEF Answers
    <3>2. x.id < r.id
      BY <2>5, <3>1 DEF AnswerFits
    <3> QED
      BY <2>5, <3>2
  <2>6. CASE a = r /\ x = r
    BY <2>6 DEF AnswerFits, Answers
  <2> QED
    BY <2>3, <2>4, <2>5, <2>6, <1>1 DEF Answers
<1>13. AnswersDoNotFork'
  BY <1>0, <1>1 DEF RunsInv, AnswersDoNotFork, AnswerFits, Answers
<1>14. RunsInv'
  BY <1>6, <1>7, <1>8, <1>9, <1>10, <1>11, <1>12, <1>13 DEF RunsInv
<1> QED
  BY <1>2, <1>3, <1>14, IndInvParts, PTL

-----------------------------------------------------------------------------
(* The actions *)

\* Initially nothing is stored and nobody has begun.
LEMMA InitInv == Init => IndInv
<1> SUFFICES ASSUME Init PROVE IndInv
  OBVIOUS
<1>1. TypeOK
  <2>1. IdleTx \in Tx
    BY DEF IdleTx, Tx
  <2> HIDE DEF Tx
  <2> QED
    BY <2>1, AnalysedAssumption, BoundAssumption DEF Init, TypeOK, Phase
<1>2. RunsInv
  BY DEF Init, RunsInv, AnswerDecides, Reproducible, AnswerProvenance, JudgedExactly,
         AnswersKept, AnswersDoNotFork, Answers
<1>3. RequestsInv
  BY DEF Init, RequestsInv, RequestInv, TxFits, ChecksHoldFor, Answering, Revalidating,
         Locked, SourceSeen
<1> QED
  BY <1>1, <1>2, <1>3, IndInvParts

\* A request that begins knows what the client sent with it.
LEMMA StartInv ==
    ASSUME IndInv, NEW q \in Request, Start(q)
    PROVE  IndInv'
<1>0. TypeOK /\ RunsInv
  BY IndInvParts
<1>1. clock \in Nat
  BY <1>0 DEF TypeOK
<1>2. CASE BeginAnalysis(q)
  <2>1. PICK v \in Version : Begin(q, "analysing", [IdleTx EXCEPT !.version = v])
    BY <1>2 DEF BeginAnalysis
  <2> DEFINE t == [IdleTx EXCEPT !.version = v]
  <2>2. [t EXCEPT !.id = clock] \in Tx /\ TxFits("analysing", [t EXCEPT !.id = clock])
    BY <1>1 DEF IdleTx, Tx, TxFits, Answering, Revalidating
  <2>9. Begin(q, "analysing", t)
    BY <2>1
  <2> HIDE DEF t
  <2> QED
    BY <2>9, <2>2, BeginInv
<1>3. CASE BeginJudgment(q)
  <2>1. PICK c \in Case, d \in Day, a \in analyses \cup {None} :
            Begin(q, "judging", [IdleTx EXCEPT !.case = c, !.date = d, !.analysis = a])
    BY <1>3 DEF BeginJudgment
  <2> DEFINE t == [IdleTx EXCEPT !.case = c, !.date = d, !.analysis = a]
  <2>2. a \in AnalysisRun \cup {None}
    BY <1>0 DEF TypeOK
  <2>3. [t EXCEPT !.id = clock] \in Tx /\ TxFits("judging", [t EXCEPT !.id = clock])
    BY <1>1, <2>2 DEF IdleTx, Tx, TxFits, Answering, Revalidating
  <2>9. Begin(q, "judging", t)
    BY <2>1
  <2> HIDE DEF t
  <2> QED
    BY <2>9, <2>3, BeginInv
<1>4. CASE BeginAnswer(q)
  <2>1. PICK c \in Case, s \in runs, k \in Key, answer \in {"SATISFIED", "UNSATISFIED"} :
            Begin(q, "answering", [IdleTx EXCEPT !.case = c, !.source = s,
                                                 !.key = k, !.status = answer])
    BY <1>4 DEF BeginAnswer
  <2> DEFINE t == [IdleTx EXCEPT !.case = c, !.source = s, !.key = k, !.status = answer]
  <2>2. [t EXCEPT !.id = clock] \in Tx
    BY <1>1 DEF IdleTx, Tx
  <2>3. s.id < clock
    BY <1>0 DEF RunsInv
  <2>4. TxFits("answering", [t EXCEPT !.id = clock])
    BY <2>3 DEF IdleTx, TxFits, Answering, Revalidating
  <2>9. Begin(q, "answering", t)
    BY <2>1
  <2> HIDE DEF t
  <2> QED
    BY <2>9, <2>2, <2>4, BeginInv
<1>5. CASE BeginRevalidation(q)
  <2>1. PICK c \in Case, s \in runs, a \in analyses \cup {None} :
            Begin(q, "revalidating",
                  [IdleTx EXCEPT !.case = c, !.source = s, !.analysis = a])
    BY <1>5 DEF BeginRevalidation
  <2> DEFINE t == [IdleTx EXCEPT !.case = c, !.source = s, !.analysis = a]
  <2>2. a \in AnalysisRun \cup {None}
    BY <1>0 DEF TypeOK
  <2>3. [t EXCEPT !.id = clock] \in Tx /\ TxFits("revalidating", [t EXCEPT !.id = clock])
    BY <1>1, <2>2 DEF IdleTx, Tx, TxFits, Answering
  <2>9. Begin(q, "revalidating", t)
    BY <2>1
  <2> HIDE DEF t
  <2> QED
    BY <2>9, <2>3, BeginInv
<1> QED
  BY <1>2, <1>3, <1>4, <1>5 DEF Start

\* The request that gets the lock is the only one that holds it.
LEMMA LockCaseInv ==
    ASSUME IndInv, NEW q \in Request, LockCase(q)
    PROVE  IndInv'
<1>0. TypeOK /\ RunsInv /\ RequestsInv
  BY IndInvParts
<1> DEFINE c == tx[q].case
<1>1. /\ clock' = clock /\ clock \in Nat /\ rule' = rule /\ runs' = runs /\ tx' = tx
      /\ profile' = profile /\ analyses' = analyses
  BY <1>0 DEF LockCase, TypeOK
<1>2. pc[q] \in {"answering", "revalidating"} /\ RequestInv(q)
  BY <1>0 DEF LockCase, RequestsInv
<1>3. c \in Case
  BY <1>2 DEF RequestInv, TxFits, Answering, Revalidating
<1>4. /\ lock[c] = None /\ lock'[c] = q
      /\ \A d \in Case : d # c => lock'[d] = lock[d]
      /\ lock' \in [Case -> Request \cup {None}]
  BY <1>0, <1>3 DEF LockCase, CanLock, TypeOK
<1>5. /\ pc' \in [Request -> Phase]
      /\ \A p \in Request : p # q => pc'[p] = pc[p]
      /\ pc'[q] = IF pc[q] = "answering" THEN "answerLocked" ELSE "revalLocked"
  BY <1>0 DEF LockCase, TypeOK, Phase
<1>6. TypeOK'
  BY <1>0, <1>1, <1>4, <1>5 DEF TypeOK, IsRun, Tx
<1>7. RunsInv'
  BY <1>0, <1>1, RunsInvKept
<1>8. \A p \in Request : pc[p] # "idle" <=> pc'[p] # "idle"
  BY <1>2, <1>5
<1>9. ASSUME NEW p \in Request PROVE RequestInv(p)'
  <2>1. CASE p = q
    <3>1. TxFits(pc[q], tx[q])'
      BY <1>1, <1>2, <1>5 DEF RequestInv, TxFits, Answering, Revalidating
    <3>2. ChecksHoldFor(pc[q], tx[q])'
      BY <1>2, <1>5 DEF ChecksHoldFor
    <3>3. /\ tx'[q].id < clock'
          /\ \A r \in runs' : r.id # tx'[q].id
          /\ \A o \in Request : pc'[o] # "idle" /\ tx'[o].id = tx'[q].id => o = q
      BY <1>1, <1>2, <1>8 DEF RequestInv
    <3>4. pc'[q] \notin SourceSeen
      BY <1>5 DEF SourceSeen
    <3>5. lock'[tx'[q].case] = q
      BY <1>1, <1>4
    <3> QED
      BY <2>1, <3>1, <3>2, <3>3, <3>4, <3>5 DEF RequestInv
  <2>2. CASE p # q
    <3>1. tx[p].id \in Nat /\ RequestInv(p)
      BY <1>0 DEF TypeOK, Tx, RequestsInv
    <3>2. ASSUME NEW o \in Request, pc'[o] # "idle", o # p, pc[p] # "idle"
          PROVE  tx'[o].id # tx[p].id
      BY <3>2, <1>1, <1>8, <3>1 DEF RequestInv
    <3>3. ASSUME pc[p] \in Locked PROVE lock'[tx[p].case] = p
      <4>1. lock[tx[p].case] = p /\ tx[p].case \in Case
        BY <3>1, <3>3 DEF RequestInv, TxFits, Locked, SourceSeen, Answering, Revalidating
      <4>2. p # None
        BY BoundAssumption
      <4> QED
        BY <4>1, <4>2, <1>4
    <3> QED
      BY <2>2, <1>1, <1>5, <3>1, <3>2, <3>3, OthersKept
  <2> QED
    BY <2>1, <2>2
<1>10. RequestsInv'
  BY <1>9 DEF RequestsInv
<1> QED
  BY <1>6, <1>7, <1>10, IndInvParts, PTL

\* A check passed or answered with an error.
LEMMA CheckInv ==
    ASSUME IndInv, NEW q \in Request, NEW phase \in Phase \ {"idle"}, NEW t \in Tx, NEW ok,
           pc[q] # "idle",
           Check(q, ok, phase, t),
           ok => /\ t.id = tx[q].id /\ t.case = tx[q].case
                 /\ TxFits(phase, t) /\ ChecksHoldFor(phase, t)
                 /\ phase \in Locked => pc[q] \in Locked
                 /\ phase \in SourceSeen =>
                        NoLaterAnswer(t)
    PROVE  IndInv'
<1>1. CASE ok /\ Continue(q, phase, t)
  BY <1>1, ContinueInv
<1>2. CASE Rollback(q)
  BY <1>2, RollbackInv
<1> QED
  BY <1>1, <1>2 DEF Check

\* An analysis stores its run among the analyses.
LEMMA CommitAnalysisInv ==
    ASSUME IndInv, NEW q \in Request, CommitAnalysis(q)
    PROVE  IndInv'
<1>0. TypeOK /\ RunsInv /\ RequestsInv
  BY IndInvParts
<1>1. runs' = runs /\ End(q) /\ Unlock(q) /\ pc[q] = "analysing"
  BY DEF CommitAnalysis
<1>2. /\ RequestsInv' /\ UNCHANGED <<clock, rule, profile>>
      /\ lock' \in [Case -> Request \cup {None}]
      /\ pc' \in [Request -> Phase] /\ tx' \in [Request -> Tx']
  BY <1>1, EndKeepsRequests
<1>3. tx[q].id \in Nat /\ tx[q].version \in Version
  BY <1>0, <1>1 DEF TypeOK, Tx, RequestsInv, RequestInv, TxFits
<1>4. analyses' \subseteq AnalysisRun
  <2>1. PICK e \in Extraction :
           analyses' = analyses \cup {[id |-> tx[q].id, version |-> tx[q].version,
                                       status |-> e.status, reqs |-> e.reqs]}
    BY DEF CommitAnalysis
  <2>2. e \in Outcome /\ e.status \in AnalysisStatus
    BY OutcomeAssumption
  <2>3. [id |-> tx[q].id, version |-> tx[q].version,
         status |-> e.status, reqs |-> e.reqs] \in AnalysisRun
    BY <1>3, <2>2 DEF AnalysisRun
  <2> QED
    BY <1>0, <2>1, <2>3 DEF TypeOK
<1>5. TypeOK'
  BY <1>0, <1>1, <1>2, <1>4 DEF TypeOK, IsRun
<1>6. RunsInv'
  BY <1>0, <1>1, <1>2, RunsInvKept DEF TypeOK
<1> QED
  BY <1>2, <1>5, <1>6, IndInvParts, PTL

\* The steps of a judgment.
LEMMA JudgmentInv ==
    ASSUME IndInv, NEW q \in Request,
           ReadProfile(q) \/ SelectAnalysis(q) \/ CommitJudgment(q)
    PROVE  IndInv'
<1>0. TypeOK /\ RunsInv /\ RequestsInv
  BY IndInvParts
<1>1. RequestInv(q) /\ tx[q] \in Tx /\ rule \in 0..MaxRule
  BY <1>0 DEF RequestsInv, TypeOK
<1>2. CASE ReadProfile(q)
  <2> DEFINE t == [tx[q] EXCEPT !.profile = profile[CompanyOf[tx[q].case]]]
  <2>1. /\ pc[q] = "judging" /\ Continue(q, "profileRead", t)
        /\ tx[q].case \in Case /\ tx[q].date \in Day
    BY <1>1, <1>2 DEF ReadProfile, RequestInv, TxFits
  <2>2. profile[CompanyOf[tx[q].case]] \in Profile
    BY <2>1, <1>0, CaseAssumption DEF TypeOK
  <2>3. t \in Tx /\ t.id = tx[q].id /\ t.case = tx[q].case
    BY <1>1, <2>2 DEF Tx
  <2>4. TxFits("profileRead", t) /\ ChecksHoldFor("profileRead", t)
    BY <1>1, <2>1, <2>2 DEF Tx, TxFits, ChecksHoldFor, Answering, Revalidating
  <2>5. "profileRead" \in Phase \ {"idle"} /\ "profileRead" \notin Locked \cup SourceSeen
    BY DEF Phase, Locked, SourceSeen
  <2> HIDE DEF t
  <2> QED
    BY <2>1, <2>3, <2>4, <2>5, ContinueInv
<1>3. CASE SelectAnalysis(q)
  <2>1. CASE Rollback(q)
    BY <2>1, <1>3, RollbackInv DEF SelectAnalysis
  <2>2. CASE ~Rollback(q)
    <3>1. PICK a \in analyses : Continue(q, "judged", [tx[q] EXCEPT !.analysis = a])
      BY <2>2, <1>3 DEF SelectAnalysis
    <3> DEFINE t == [tx[q] EXCEPT !.analysis = a]
    <3>2. a \in AnalysisRun /\ pc[q] = "profileRead"
      BY <1>0, <1>3 DEF TypeOK, SelectAnalysis
    <3>3. t \in Tx /\ t.id = tx[q].id /\ t.case = tx[q].case
      BY <1>1, <3>2 DEF Tx
    <3>4. TxFits("judged", t) /\ ChecksHoldFor("judged", t)
      BY <1>1, <3>2 DEF Tx, RequestInv, TxFits, ChecksHoldFor, Answering, Revalidating
    <3>5. "judged" \in Phase \ {"idle"} /\ "judged" \notin Locked \cup SourceSeen
      BY DEF Phase, Locked, SourceSeen
    <3>6. Continue(q, "judged", t)
      BY <3>1
    <3> HIDE DEF t
    <3> QED
      BY <3>2, <3>3, <3>4, <3>5, <3>6, ContinueInv
  <2> QED
    BY <2>1, <2>2
<1>4. CASE CommitJudgment(q)
  <2> DEFINE t == tx[q]
             J == JudgeRequirements(t.analysis, t.profile, t.date)
             r == [id |-> t.id, case |-> t.case,
                   version |-> t.analysis.version, analysis |-> t.analysis,
                   rule |-> rule, date |-> t.date, profile |-> t.profile,
                   judgments |-> J, overall |-> Overall(t.analysis, J),
                   origin |-> "judgment", source |-> None, key |-> None]
  <2>1. pc[q] = "judged" /\ StoreRun(q, r)
    BY <1>4 DEF CommitJudgment
  <2>2. /\ t.id \in Nat /\ t.case \in Case /\ t.date \in Day /\ t.profile \in Profile
        /\ t.analysis \in AnalysisRun /\ t.analysis.version \in Version
    BY <1>1, <2>1 DEF RequestInv, TxFits, Tx, AnalysisRun
  <2>3. /\ J \in [DOMAIN t.analysis.reqs -> Judgment] /\ DOMAIN t.analysis.reqs \subseteq Key
        /\ \A k \in DOMAIN t.analysis.reqs : J[k].basis # "USER_ANSWER"
    BY <1>1, <2>2, JudgeRequirementsType
  <2>4. \A k \in DOMAIN t.analysis.reqs :
           J[k] = JudgeRequirement(rule, t.profile, t.date, t.analysis.reqs[k].clause)
    BY DEF JudgeRequirements
  <2>5. Overall(t.analysis, J) \in {"eligible", "ineligible", "insufficient_data"}
    BY OverallType
  <2> HIDE DEF J
  <2>6. IsRun(r)
    BY <1>1, <2>2, <2>3, <2>5 DEF IsRun, Origin
  <2>7. JudgmentsFit(r)
    BY <2>3, <2>4 DEF JudgmentsFit
  <2>8. r.id = tx[q].id /\ r.origin # "answer"
    OBVIOUS
  <2> HIDE DEF r
  <2> QED
    BY <2>1, <2>6, <2>7, <2>8, StoreRunInv
<1> QED
  BY <1>2, <1>3, <1>4

\* What an answer run takes over from its source, and what it adds, fits.
LEMMA AnswerRunFits ==
    ASSUME TypeOK, RunsInv, NEW q \in Request, RequestInv(q), pc[q] = "answerReady",
           NEW J, NEW r,
           J = [tx[q].source.judgments EXCEPT ![tx[q].key] =
                   [status |-> tx[q].status, basis |-> "USER_ANSWER"]],
           r = [tx[q].source EXCEPT !.id = tx[q].id, !.judgments = J,
                                    !.overall = Overall(tx[q].source.analysis, J),
                                    !.origin = "answer",
                                    !.source = tx[q].source.id, !.key = tx[q].key]
    PROVE  IsRun(r) /\ JudgmentsFit(r) /\ AnswerFits(r)
<1> DEFINE t == tx[q]
           s == tx[q].source
           k == tx[q].key
<1>1. /\ s \in runs /\ IsRun(s) /\ s.case = t.case /\ IsOpen(s, k) /\ s.id < t.id
      /\ k \in Key /\ t.status \in {"SATISFIED", "UNSATISFIED"} /\ t.id \in Nat
      /\ s.id \in Nat
  BY DEF RequestInv, TxFits, ChecksHoldFor, Answering, TypeOK, Tx, RunsInv, IsRun
<1>2. /\ k \in DOMAIN s.judgments /\ s.judgments[k].status = "UNKNOWN"
      /\ s.judgments \in [DOMAIN s.judgments -> Judgment] /\ DOMAIN s.judgments \subseteq Key
      /\ DOMAIN s.judgments = DOMAIN s.analysis.reqs
  BY <1>1 DEF IsOpen, IsRun, RunsInv, JudgedExactly
<1>3. /\ DOMAIN J = DOMAIN s.judgments
      /\ J[k] = [status |-> t.status, basis |-> "USER_ANSWER"]
      /\ \A j \in DOMAIN J : j # k => J[j] = s.judgments[j]
      /\ J \in [DOMAIN J -> Judgment]
  <2>1. [status |-> t.status, basis |-> "USER_ANSWER"] \in Judgment
    BY <1>1 DEF Judgment, JudgmentStatus, Basis
  <2> QED
    BY <1>2, <2>1
<1>4. Overall(s.analysis, J) \in {"eligible", "ineligible", "insufficient_data"}
  BY OverallType
<1>5. /\ r.id = t.id /\ r.case = s.case /\ r.version = s.version /\ r.analysis = s.analysis
      /\ r.rule = s.rule /\ r.date = s.date /\ r.profile = s.profile /\ r.judgments = J
      /\ r.overall = Overall(s.analysis, J) /\ r.origin = "answer" /\ r.source = s.id
      /\ r.key = k
  BY <1>1 DEF IsRun
<1>6. IsRun(r)
  BY <1>1, <1>2, <1>3, <1>4 DEF IsRun, Origin
<1>7. JudgmentsFit(r)
  <2>1. ASSUME NEW j \in DOMAIN r.judgments, j # k
        PROVE  \/ /\ r.judgments[j].basis # "USER_ANSWER"
                  /\ r.analysis.reqs[j].plain => r.judgments[j] =
                       JudgeRequirement(r.rule, r.profile, r.date, r.analysis.reqs[j].clause)
               \/ \E a \in Answers :
                    /\ a.case = r.case /\ a.rule = r.rule /\ a.profile = r.profile
                    /\ a.judgments[a.key] = r.judgments[j]
                    /\ r.judgments[j].basis = "USER_ANSWER"
                    /\ a.analysis.reqs[a.key].payload = r.analysis.reqs[j].payload
    <3>1. r.judgments[j] = s.judgments[j] /\ j \in DOMAIN s.judgments
      BY <2>1, <1>3, <1>5
    <3>2. CASE s.judgments[j].basis # "USER_ANSWER"
      <4>1. s.analysis.reqs[j].plain => s.judgments[j] =
               JudgeRequirement(s.rule, s.profile, s.date, s.analysis.reqs[j].clause)
        BY <3>1, <3>2, <1>1 DEF RunsInv, Reproducible
      <4> QED
        BY <4>1, <3>1, <3>2, <1>5
    <3>3. CASE s.judgments[j].basis = "USER_ANSWER"
      <4>1. PICK a \in Answers :
               /\ a.case = s.case /\ a.rule = s.rule /\ a.profile = s.profile
               /\ a.judgments[a.key] = s.judgments[j]
               /\ a.analysis.reqs[a.key].payload = s.analysis.reqs[j].payload
        BY <3>1, <3>3, <1>1 DEF RunsInv, AnswerProvenance
      <4>2. /\ a.case = r.case /\ a.rule = r.rule /\ a.profile = r.profile
            /\ a.judgments[a.key] = r.judgments[j]
        BY <4>1, <3>1, <1>5
      <4>3. /\ r.judgments[j].basis = "USER_ANSWER"
            /\ a.analysis.reqs[a.key].payload = r.analysis.reqs[j].payload
        BY <4>1, <3>1, <3>3, <1>5
      <4> QED
        BY <4>2, <4>3
    <3> QED
      BY <3>2, <3>3
  <2>2. DOMAIN r.judgments = DOMAIN r.analysis.reqs
    BY <1>2, <1>3, <1>5
  <2> QED
    BY <2>1, <2>2, <1>5 DEF JudgmentsFit
<1>8. AnswerFits(r)
  <2>1. ASSUME NEW a \in Answers PROVE a.source # r.source
    <3>1. /\ a.source < a.id /\ a.id \in Nat
          /\ \E x \in runs : x.id = a.source /\ x.case = a.case /\ x.version = a.version
      BY DEF RunsInv, AnswerDecides, IsRun, Answers
    <3>2. ASSUME a.source = s.id PROVE FALSE
      <4>1. a.case = t.case /\ a.version = s.version
        BY <3>1, <3>2, <1>1 DEF RunsInv
      <4>2. a.id <= s.id
        BY <4>1 DEF RequestInv, NoLaterAnswer, SourceSeen
      <4> QED
        BY <4>2, <3>1, <3>2, <1>1
    <3> QED
      BY <3>2, <1>5
  <2>2. ASSUME NEW a \in Answers, a.case = r.case, a.version = r.version
        PROVE  /\ a.id < r.id
               /\ \/ a.key \in DOMAIN r.judgments /\ r.judgments[a.key] = a.judgments[a.key]
                  \/ \E x \in Line(a.case, a.version) :
                        x.origin # "answer" /\ a.id < x.id /\ x.id < r.id
    <3>1. a.id <= s.id /\ a.id \in Nat /\ a \in runs
      BY <2>2, <1>1, <1>5 DEF RequestInv, SourceSeen, NoLaterAnswer, RunsInv, IsRun, Answers
    <3>2. a.id < r.id
      BY <3>1, <1>1, <1>5
    <3>3. a.key \in DOMAIN a.judgments /\ a.judgments[a.key].status # "UNKNOWN"
      BY DEF RunsInv, AnswerDecides
    <3>4. ASSUME a.key \in DOMAIN s.judgments, s.judgments[a.key] = a.judgments[a.key]
          PROVE  a.key \in DOMAIN r.judgments /\ r.judgments[a.key] = a.judgments[a.key]
      <4>1. a.key # k
        BY <3>3, <3>4, <1>2
      <4> QED
        BY <3>4, <4>1, <1>3, <1>5
    <3>5. CASE s.origin # "answer"
      <4>1. a # s
        BY <3>5 DEF Answers
      <4>2. a.id < s.id
        BY <3>1, <4>1, <1>1 DEF RunsInv
      <4>3. s \in Line(a.case, a.version)
        BY <2>2, <1>1, <1>5 DEF Line
      <4> QED
        BY <3>2, <3>5, <4>2, <4>3, <1>1, <1>5
    <3>6. CASE s.origin = "answer"
      <4>1. s \in Answers /\ s.case = a.case /\ s.version = a.version /\ ~(s.id < a.id)
        BY <3>6, <3>1, <2>2, <1>1, <1>5 DEF Answers
      <4>2. \/ a.key \in DOMAIN s.judgments /\ s.judgments[a.key] = a.judgments[a.key]
            \/ \E x \in Line(a.case, a.version) :
                  x.origin # "answer" /\ a.id < x.id /\ x.id < s.id
        BY <4>1 DEF RunsInv, AnswersKept
      <4>3. ASSUME NEW x \in Line(a.case, a.version),
                   x.origin # "answer", a.id < x.id, x.id < s.id
            PROVE  x.id < r.id
        BY <4>3, <1>1, <1>5 DEF Line, RunsInv, IsRun
      <4> QED
        BY <3>2, <3>4, <4>2, <4>3
    <3> QED
      BY <3>5, <3>6
  <2>3. /\ r.source \in Nat /\ r.source < r.id
        /\ \E x \in runs : x.id = r.source /\ x.case = r.case /\ x.version = r.version
    BY <1>1, <1>5
  <2>4. r.key \in DOMAIN r.judgments /\ r.judgments[r.key] = J[k]
    BY <1>2, <1>3, <1>5
  <2>5. J[k].status # "UNKNOWN" /\ J[k].basis = "USER_ANSWER"
    BY <1>1, <1>3
  <2> QED
    BY <2>1, <2>2, <2>3, <2>4, <2>5 DEF AnswerFits
<1> QED
  BY <1>6, <1>7, <1>8

\* The steps of an answer after its lock.
LEMMA AnswerInv ==
    ASSUME IndInv, NEW q \in Request,
           \/ AnswerReadsLatestRun(q) \/ AnswerReadsLatestAnalysis(q)
           \/ AnswerReadsProfile(q) \/ CommitAnswer(q)
    PROVE  IndInv'
<1>0. TypeOK /\ RunsInv /\ RequestsInv
  BY IndInvParts
<1>1. RequestInv(q) /\ tx[q] \in Tx
  BY <1>0 DEF RequestsInv, TypeOK
<1> DEFINE t == tx[q]
           s == tx[q].source
<1>2. CASE AnswerReadsLatestRun(q)
  <2>1. pc[q] = "answerLocked" /\ Check(q, IsLatestRun(t.case, s), "answerRun", t)
    BY <1>2 DEF AnswerReadsLatestRun
  <2>2. ASSUME IsLatestRun(t.case, s)
        PROVE  /\ TxFits("answerRun", t) /\ ChecksHoldFor("answerRun", t)
               /\ NoLaterAnswer(t)
    <3>1. s.case = t.case /\ \A r \in Line(t.case, s.version) : r.id <= s.id
      BY <2>2 DEF IsLatestRun, IsLatest
    <3>2. NoLaterAnswer(t)
      BY <3>1 DEF NoLaterAnswer, Answers, Line
    <3> QED
      BY <3>1, <3>2, <2>1, <1>1
      DEF RequestInv, TxFits, ChecksHoldFor, Answering, Revalidating
  <2>3. "answerRun" \in Phase \ {"idle"} /\ "answerLocked" \in Locked
    BY DEF Phase, Locked
  <2> HIDE DEF t, s
  <2>4. t \in Tx /\ t.id = tx[q].id /\ t.case = tx[q].case
    BY <1>1 DEF t
  <2> QED
    BY <2>1, <2>2, <2>3, <2>4, CheckInv
<1>3. CASE AnswerReadsLatestAnalysis(q)
  <2> DEFINE ok == /\ IsLatest(s.analysis, AnalysesOf(s.version))
                   /\ s.rule = rule
                   /\ s.version \in {BaselineOf[t.case], CurrentOf[t.case]}
  <2>1. pc[q] = "answerRun" /\ Check(q, ok, "answerAnalysis", t)
    BY <1>3 DEF AnswerReadsLatestAnalysis
  <2>2. TxFits("answerAnalysis", t) /\ ChecksHoldFor("answerAnalysis", t) /\ NoLaterAnswer(t)
    BY <2>1, <1>1 DEF RequestInv, TxFits, ChecksHoldFor, Answering, Revalidating, SourceSeen
  <2>3. "answerAnalysis" \in Phase \ {"idle"} /\ "answerRun" \in Locked
    BY DEF Phase, Locked
  <2> HIDE DEF ok, t, s
  <2>4. t \in Tx /\ t.id = tx[q].id /\ t.case = tx[q].case
    BY <1>1 DEF t
  <2> QED
    BY <2>1, <2>2, <2>3, <2>4, CheckInv
<1>4. CASE AnswerReadsProfile(q)
  <2> DEFINE ok == SameProfile(s, profile[CompanyOf[t.case]]) /\ IsOpen(s, t.key)
  <2>1. pc[q] = "answerAnalysis" /\ Check(q, ok, "answerReady", t)
    BY <1>4 DEF AnswerReadsProfile
  <2>2. ASSUME ok
        PROVE  TxFits("answerReady", t) /\ ChecksHoldFor("answerReady", t) /\ NoLaterAnswer(t)
    BY <2>1, <2>2, <1>1
    DEF RequestInv, TxFits, ChecksHoldFor, Answering, Revalidating, SourceSeen
  <2>3. "answerReady" \in Phase \ {"idle"} /\ "answerAnalysis" \in Locked
    BY DEF Phase, Locked
  <2> HIDE DEF ok, t, s
  <2>4. t \in Tx /\ t.id = tx[q].id /\ t.case = tx[q].case
    BY <1>1 DEF t
  <2> QED
    BY <2>1, <2>2, <2>3, <2>4, CheckInv
<1>5. CASE CommitAnswer(q)
  <2> DEFINE J == [s.judgments EXCEPT ![t.key] =
                     [status |-> t.status, basis |-> "USER_ANSWER"]]
             r == [s EXCEPT !.id = t.id, !.judgments = J,
                            !.overall = Overall(s.analysis, J),
                            !.origin = "answer", !.source = s.id, !.key = t.key]
  <2>1. pc[q] = "answerReady" /\ StoreRun(q, r)
    BY <1>5 DEF CommitAnswer
  <2>2. IsRun(r) /\ JudgmentsFit(r) /\ AnswerFits(r)
    BY <1>0, <1>1, <2>1, AnswerRunFits
  <2>3. IsRun(s) /\ s.case = t.case
    BY <2>1, <1>0, <1>1 DEF RequestInv, TxFits, ChecksHoldFor, Answering, RunsInv
  <2>4. r.id = tx[q].id /\ r.case = tx[q].case
    BY <2>3 DEF IsRun
  <2>5. pc[q] \in Locked
    BY <2>1 DEF Locked, SourceSeen
  <2> HIDE DEF r
  <2> QED
    BY <2>1, <2>2, <2>4, <2>5, StoreRunInv
<1> QED
  BY <1>2, <1>3, <1>4, <1>5

\* What a revalidation run takes over from its source, and judges, fits.
LEMMA RevalidationRunFits ==
    ASSUME TypeOK, RunsInv, NEW q \in Request, RequestInv(q), pc[q] = "revalReady",
           NEW J, NEW r,
           J = Revalidated(tx[q].source, tx[q].analysis, tx[q].profile),
           r = [id |-> tx[q].id, case |-> tx[q].case,
                version |-> CurrentOf[tx[q].case], analysis |-> tx[q].analysis,
                rule |-> tx[q].source.rule, date |-> tx[q].source.date,
                profile |-> tx[q].profile, judgments |-> J,
                overall |-> Overall(tx[q].analysis, J),
                origin |-> "revalidation", source |-> tx[q].source.id, key |-> None]
    PROVE  IsRun(r) /\ JudgmentsFit(r)
<1> DEFINE t == tx[q]
           s == tx[q].source
           a == tx[q].analysis
<1>1. /\ s \in runs /\ IsRun(s) /\ s.case = t.case /\ s.rule = rule /\ t.profile = s.profile
      /\ t.case \in Case /\ t.id \in Nat /\ a \in AnalysisRun
      /\ t.profile \in Profile /\ s.date \in Day /\ rule \in 0..MaxRule
      /\ s.judgments \in [DOMAIN s.judgments -> Judgment] /\ s.id \in Nat
  BY DEF RequestInv, TxFits, ChecksHoldFor, Revalidating, TypeOK, Tx, RunsInv, IsRun
<1>2. CurrentOf[t.case] \in Version
  BY <1>1, CaseAssumption
<1>3. /\ J \in [DOMAIN a.reqs -> Judgment]
      /\ \A k \in DOMAIN a.reqs :
           \/ J[k] = JudgeRequirement(rule, t.profile, s.date, a.reqs[k].clause)
           \/ \E b \in DOMAIN s.judgments :
                 /\ b \in DOMAIN s.analysis.reqs
                 /\ s.analysis.reqs[b].payload = a.reqs[k].payload
                 /\ J[k] = s.judgments[b]
  <2>1. J = Revalidated(s, a, t.profile)
    OBVIOUS
  <2> HIDE DEF t, s, a
  <2> QED
    BY <2>1, <1>1, RevalidatedOrigin
<1>4. Overall(a, J) \in {"eligible", "ineligible", "insufficient_data"}
  BY OverallType
<1>5. DOMAIN a.reqs \subseteq Key /\ \A k \in DOMAIN a.reqs : a.reqs[k].clause \in Clause
  BY <1>1, AnalysisReqs, RequirementAssumption
<1>6. /\ r.case = t.case /\ r.analysis = a /\ r.rule = rule /\ r.date = s.date
      /\ r.profile = s.profile /\ r.judgments = J /\ r.origin = "revalidation"
  BY <1>1
<1>7. IsRun(r)
  BY <1>1, <1>2, <1>3, <1>4, <1>5 DEF IsRun, Origin
<1>8. ASSUME NEW k \in DOMAIN a.reqs
      PROVE  \/ /\ J[k].basis # "USER_ANSWER"
                /\ a.reqs[k].plain =>
                      J[k] = JudgeRequirement(rule, s.profile, s.date, a.reqs[k].clause)
             \/ \E x \in Answers :
                  /\ x.case = t.case /\ x.rule = rule /\ x.profile = s.profile
                  /\ x.judgments[x.key] = J[k]
                  /\ J[k].basis = "USER_ANSWER"
                  /\ x.analysis.reqs[x.key].payload = a.reqs[k].payload
  <2>1. CASE J[k] = JudgeRequirement(rule, t.profile, s.date, a.reqs[k].clause)
    BY <2>1, <1>1, <1>5, JudgeRequirementType
  <2>2. CASE \E b \in DOMAIN s.judgments :
               /\ b \in DOMAIN s.analysis.reqs
               /\ s.analysis.reqs[b].payload = a.reqs[k].payload
               /\ J[k] = s.judgments[b]
    <3>1. PICK b \in DOMAIN s.judgments :
               /\ s.analysis.reqs[b].payload = a.reqs[k].payload
               /\ J[k] = s.judgments[b]
      BY <2>2
    <3>2. CASE J[k].basis # "USER_ANSWER"
      <4>1. a.reqs[k] \in Requirement /\ s.analysis.reqs[b] \in Requirement
        BY <1>1, <2>2, <3>1, AnalysisReqs DEF IsRun, RunsInv, JudgedExactly
      <4>2. a.reqs[k].plain =>
               s.analysis.reqs[b].plain /\ s.analysis.reqs[b].clause = a.reqs[k].clause
        BY <3>1, <4>1, RequirementAssumption
      <4>3. s.analysis.reqs[b].plain => s.judgments[b] =
               JudgeRequirement(s.rule, s.profile, s.date, s.analysis.reqs[b].clause)
        BY <3>1, <3>2, <1>1 DEF RunsInv, Reproducible
      <4> QED
        BY <3>1, <3>2, <4>2, <4>3, <1>1
    <3>3. CASE J[k].basis = "USER_ANSWER"
      <4>1. s.judgments[b].basis = "USER_ANSWER"
        BY <3>1, <3>3
      <4>2. PICK x \in Answers :
               /\ x.case = s.case /\ x.rule = s.rule /\ x.profile = s.profile
               /\ x.judgments[x.key] = s.judgments[b]
               /\ x.analysis.reqs[x.key].payload = s.analysis.reqs[b].payload
        BY <4>1, <3>1, <1>1 DEF RunsInv, AnswerProvenance
      <4> QED
        BY <4>2, <3>1, <3>3, <1>1
    <3> QED
      BY <3>2, <3>3
  <2> QED
    BY <2>1, <2>2, <1>3
<1>9. JudgmentsFit(r)
  <2>1. DOMAIN r.judgments = DOMAIN r.analysis.reqs
    BY <1>3, <1>6
  <2> HIDE DEF t, s, a
  <2>2. ASSUME NEW k \in DOMAIN r.judgments
        PROVE  \/ /\ r.judgments[k].basis # "USER_ANSWER"
                  /\ r.analysis.reqs[k].plain => r.judgments[k] =
                       JudgeRequirement(r.rule, r.profile, r.date, r.analysis.reqs[k].clause)
               \/ \E x \in Answers :
                    /\ x.case = r.case /\ x.rule = r.rule /\ x.profile = r.profile
                    /\ x.judgments[x.key] = r.judgments[k]
                    /\ r.judgments[k].basis = "USER_ANSWER"
                    /\ x.analysis.reqs[x.key].payload = r.analysis.reqs[k].payload
    <3>1. k \in DOMAIN a.reqs /\ r.judgments[k] = J[k] /\ r.analysis.reqs[k] = a.reqs[k]
      BY <2>1, <1>6
    <3>2. JudgeRequirement(r.rule, r.profile, r.date, r.analysis.reqs[k].clause) =
          JudgeRequirement(rule, s.profile, s.date, a.reqs[k].clause)
      BY <3>1, <1>6
    <3>3. CASE J[k].basis # "USER_ANSWER"
      <4>1. a.reqs[k].plain =>
               J[k] = JudgeRequirement(rule, s.profile, s.date, a.reqs[k].clause)
        BY <3>1, <3>3, <1>8
      <4> QED
        BY <4>1, <3>1, <3>2, <3>3
    <3>4. CASE J[k].basis = "USER_ANSWER"
      <4>1. PICK x \in Answers :
               /\ x.case = t.case /\ x.rule = rule /\ x.profile = s.profile
               /\ x.judgments[x.key] = J[k]
               /\ x.analysis.reqs[x.key].payload = a.reqs[k].payload
        BY <3>1, <3>4, <1>8
      <4>2. x.case = r.case /\ x.rule = r.rule /\ x.profile = r.profile
        BY <4>1, <1>6
      <4> QED
        BY <4>1, <4>2, <3>1, <3>4
    <3> QED
      BY <3>3, <3>4
  <2> QED
    BY <2>1, <2>2 DEF JudgmentsFit
<1> QED
  BY <1>7, <1>9

\* The steps of a revalidation after its lock.
LEMMA RevalidationInv ==
    ASSUME IndInv, NEW q \in Request,
           \/ RevalReadsLatestRun(q) \/ RevalSelectsAnalysis(q)
           \/ RevalReadsProfile(q) \/ CommitRevalidation(q)
    PROVE  IndInv'
<1>0. TypeOK /\ RunsInv /\ RequestsInv
  BY IndInvParts
<1>1. RequestInv(q) /\ tx[q] \in Tx
  BY <1>0 DEF RequestsInv, TypeOK
<1>2. CASE RevalReadsLatestRun(q)
  <2> DEFINE t == tx[q]
             s == tx[q].source
             ok == s.version = BaselineOf[t.case] /\ s.rule = rule /\ IsLatestRun(t.case, s)
  <2>1. pc[q] = "revalLocked" /\ Check(q, ok, "revalRun", t)
    BY <1>2 DEF RevalReadsLatestRun
  <2>2. ASSUME ok
        PROVE  TxFits("revalRun", t) /\ ChecksHoldFor("revalRun", t) /\ NoLaterAnswer(t)
    <3>1. s.case = t.case /\ \A r \in Line(t.case, s.version) : r.id <= s.id
      BY <2>2 DEF IsLatestRun, IsLatest
    <3>2. NoLaterAnswer(t)
      BY <3>1 DEF NoLaterAnswer, Answers, Line
    <3> QED
      BY <3>1, <3>2, <2>1, <2>2, <1>1
      DEF RequestInv, TxFits, ChecksHoldFor, Answering, Revalidating
  <2>3. "revalRun" \in Phase \ {"idle"} /\ "revalLocked" \in Locked
    BY DEF Phase, Locked
  <2> HIDE DEF ok, t, s
  <2>4. t \in Tx /\ t.id = tx[q].id /\ t.case = tx[q].case
    BY <1>1 DEF t
  <2> QED
    BY <2>1, <2>2, <2>3, <2>4, CheckInv
<1>3. CASE RevalSelectsAnalysis(q)
  <2>1. CASE Rollback(q)
    BY <2>1, <1>3, RollbackInv DEF RevalSelectsAnalysis
  <2>2. CASE ~Rollback(q)
    <3>1. PICK a \in analyses : /\ Comparable(tx[q].case, tx[q].analysis, a)
                                /\ Continue(q, "revalAnalysis", [tx[q] EXCEPT !.analysis = a])
      BY <2>2, <1>3 DEF RevalSelectsAnalysis
    <3> DEFINE t == [tx[q] EXCEPT !.analysis = a]
    <3>2. a \in AnalysisRun /\ pc[q] = "revalRun" /\ a.version = CurrentOf[tx[q].case]
      BY <1>0, <1>3, <3>1 DEF TypeOK, RevalSelectsAnalysis, Comparable
    <3>3. t \in Tx /\ t.id = tx[q].id /\ t.case = tx[q].case
      BY <1>1, <3>2 DEF Tx
    <3>4. TxFits("revalAnalysis", t) /\ ChecksHoldFor("revalAnalysis", t)
      BY <1>1, <3>2 DEF Tx, RequestInv, TxFits, ChecksHoldFor, Answering, Revalidating
    <3>7. NoLaterAnswer(t)
      BY <1>1, <3>2 DEF Tx, RequestInv, NoLaterAnswer, SourceSeen
    <3>5. "revalAnalysis" \in Phase \ {"idle"} /\ "revalRun" \in Locked
      BY DEF Phase, Locked
    <3>6. Continue(q, "revalAnalysis", t)
      BY <3>1
    <3> HIDE DEF t
    <3> QED
      BY <3>2, <3>3, <3>4, <3>5, <3>6, <3>7, ContinueInv
  <2> QED
    BY <2>1, <2>2
<1>4. CASE RevalReadsProfile(q)
  <2> DEFINE p == profile[CompanyOf[tx[q].case]]
             t == [tx[q] EXCEPT !.profile = p]
             ok == SameProfile(tx[q].source, p)
  <2>1. pc[q] = "revalAnalysis" /\ Check(q, ok, "revalReady", t)
    BY <1>4 DEF RevalReadsProfile
  <2>2. tx[q].case \in Case
    BY <2>1, <1>1 DEF RequestInv, TxFits, Revalidating
  <2>3. p \in Profile
    BY <2>2, <1>0, CaseAssumption DEF TypeOK
  <2>4. t \in Tx /\ t.id = tx[q].id /\ t.case = tx[q].case
    BY <1>1, <2>3 DEF Tx
  <2>5. ASSUME ok PROVE TxFits("revalReady", t) /\ ChecksHoldFor("revalReady", t)
    BY <2>1, <2>3, <2>5, <1>1
    DEF Tx, RequestInv, TxFits, ChecksHoldFor, Answering, Revalidating, SameProfile
  <2>7. NoLaterAnswer(t)
    BY <2>1, <1>1 DEF Tx, RequestInv, NoLaterAnswer, SourceSeen
  <2>6. "revalReady" \in Phase \ {"idle"} /\ "revalAnalysis" \in Locked
    BY DEF Phase, Locked
  <2> HIDE DEF ok, t
  <2> QED
    BY <2>1, <2>4, <2>5, <2>6, <2>7, CheckInv
<1>5. CASE CommitRevalidation(q)
  <2> DEFINE J == Revalidated(tx[q].source, tx[q].analysis, tx[q].profile)
             r == [id |-> tx[q].id, case |-> tx[q].case,
                   version |-> CurrentOf[tx[q].case], analysis |-> tx[q].analysis,
                   rule |-> tx[q].source.rule, date |-> tx[q].source.date,
                   profile |-> tx[q].profile, judgments |-> J,
                   overall |-> Overall(tx[q].analysis, J),
                   origin |-> "revalidation", source |-> tx[q].source.id, key |-> None]
  <2>1. pc[q] = "revalReady" /\ StoreRun(q, r)
    BY <1>5 DEF CommitRevalidation
  <2> HIDE DEF J
  <2>2. IsRun(r) /\ JudgmentsFit(r)
    BY <1>0, <1>1, <2>1, RevalidationRunFits DEF J
  <2>3. r.id = tx[q].id /\ r.origin # "answer"
    OBVIOUS
  <2> HIDE DEF r
  <2> QED
    BY <2>1, <2>2, <2>3, StoreRunInv
<1> QED
  BY <1>2, <1>3, <1>4, <1>5

\* Profile edits and deployments.
LEMMA SurroundingsInv ==
    ASSUME IndInv, (\E co \in Company : UpdateProfile(co)) \/ Deploy \/ UNCHANGED vars
    PROVE  IndInv'
<1>0. TypeOK /\ RunsInv /\ RequestsInv
  BY IndInvParts
<1>1. clock' = clock /\ runs' = runs /\ clock \in Nat
  BY <1>0 DEF UpdateProfile, Deploy, vars, TypeOK
<1>2. RunsInv'
  BY <1>0, <1>1, RunsInvKept
<1>3. CASE (\E co \in Company : UpdateProfile(co)) \/ UNCHANGED vars
  <2>1. UNCHANGED <<clock, rule, analyses, runs, lock, pc, tx>>
    BY <1>3 DEF UpdateProfile, vars
  <2>2. profile' \in [Company -> Profile]
    BY <1>0, <1>3 DEF UpdateProfile, vars, TypeOK
  <2>3. TypeOK'
    BY <1>0, <2>1, <2>2 DEF TypeOK, IsRun, Tx
  <2>4. RequestsInv'
    BY <1>0, <2>1
    DEF RequestsInv, RequestInv, TxFits, ChecksHoldFor, NoLaterAnswer, Answers
  <2> QED
    BY <1>2, <2>3, <2>4, IndInvParts, PTL
<1>4. CASE Deploy
  <2>1. /\ rule' \in 0..MaxRule /\ profile' = profile /\ analyses' = analyses
        /\ lock' = [c \in Case |-> None]
        /\ pc' = [q \in Request |-> "idle"] /\ tx' = [q \in Request |-> IdleTx]
    BY <1>0, <1>4, BoundAssumption DEF Deploy, TypeOK
  <2>2. IdleTx \in Tx'
    BY DEF IdleTx, Tx
  <2>3. TypeOK'
    <3> HIDE DEF Tx
    <3> QED
      BY <1>0, <1>1, <2>1, <2>2 DEF TypeOK, IsRun, Phase
  <2>4. RequestsInv'
    BY <2>1 DEF RequestsInv, RequestInv, TxFits, ChecksHoldFor, Answering, Revalidating,
                Locked, SourceSeen
  <2> QED
    BY <1>2, <2>3, <2>4, IndInvParts, PTL
<1> QED
  BY <1>3, <1>4

\* Every step preserves the invariant.
LEMMA NextInv == IndInv /\ [Next]_vars => IndInv'
<1> SUFFICES ASSUME IndInv, [Next]_vars PROVE IndInv'
  OBVIOUS
<1>1. ASSUME NEW q \in Request, Start(q) PROVE IndInv'
  BY <1>1, StartInv
<1>2. ASSUME NEW q \in Request, LockCase(q) PROVE IndInv'
  BY <1>2, LockCaseInv
<1>3. ASSUME NEW q \in Request, Proceed(q) PROVE IndInv'
  <2>1. CASE CommitAnalysis(q)
    BY <2>1, CommitAnalysisInv
  <2>2. CASE ReadProfile(q) \/ SelectAnalysis(q) \/ CommitJudgment(q)
    BY <2>2, JudgmentInv
  <2>3. CASE \/ AnswerReadsLatestRun(q) \/ AnswerReadsLatestAnalysis(q)
             \/ AnswerReadsProfile(q) \/ CommitAnswer(q)
    BY <2>3, AnswerInv
  <2>4. CASE \/ RevalReadsLatestRun(q) \/ RevalSelectsAnalysis(q)
             \/ RevalReadsProfile(q) \/ CommitRevalidation(q)
    BY <2>4, RevalidationInv
  <2> QED
    BY <1>3, <2>1, <2>2, <2>3, <2>4 DEF Proceed
<1>4. ASSUME NEW q \in Request, Abort(q) PROVE IndInv'
  BY <1>4, RollbackInv DEF Abort
<1>5. CASE (\E co \in Company : UpdateProfile(co)) \/ Deploy \/ UNCHANGED vars
  BY <1>5, SurroundingsInv
<1> QED
  BY <1>1, <1>2, <1>3, <1>4, <1>5 DEF Next

-----------------------------------------------------------------------------
(* The theorems *)

\* The inductive invariant holds in every reachable state, for any number of
\* requests, cases, companies and versions and whatever the rules decide.
THEOREM Invariance == Spec => []IndInv
  BY InitInv, NextInv, PTL DEF Spec

\* Type correctness: stored runs, locks and what requests have read are always
\* what the schema and the code declare.
THEOREM TypeCorrect == Spec => []TypeOK
<1>1. IndInv => TypeOK
  BY DEF IndInv
<1> QED
  BY <1>1, Invariance, PTL

\* A judgment no user answered can be computed again from what its run records,
\* also after any chain of answers and affected-only revalidations.
THEOREM JudgmentsReproducible == Spec => []Reproducible
<1>1. IndInv => Reproducible
  BY DEF IndInv
<1> QED
  BY <1>1, Invariance, PTL

\* Every judgment that rests on an answer goes back to an answer given in the
\* same case, for the same conditions, under the same rules and profile.
THEOREM AnswersHaveProvenance == Spec => []AnswerProvenance
<1>1. IndInv => AnswerProvenance
  BY DEF IndInv
<1> QED
  BY <1>1, Invariance, PTL

\* Concurrent answers lose nothing: a later answer run holds the earlier answers
\* unless a judgment or revalidation started in between.
THEOREM NoAnswerLost == Spec => []AnswersKept
<1>1. IndInv => AnswersKept
  BY DEF IndInv
<1> QED
  BY <1>1, Invariance, PTL

\* Two answers never extend the same run.
THEOREM NoFork == Spec => []AnswersDoNotFork
<1>1. IndInv => AnswersDoNotFork
  BY DEF IndInv
<1> QED
  BY <1>1, Invariance, PTL

\* Every stored run judges exactly the requirements of its analysis.
THEOREM RunsComplete == Spec => []JudgedExactly
<1>1. IndInv => JudgedExactly
  BY DEF IndInv
<1> QED
  BY <1>1, Invariance, PTL

\* A revalidation is stored only if it has seen every answer stored before it on
\* the baseline version of its case.
THEOREM RevalidationsSeeAnswers == Spec => RevalidationSeesAnswers
<1> DEFINE Sees(r) ==
             \A a \in Line(r.case, BaselineOf[r.case]) :
                a.origin = "answer" => a.id <= r.source
<1>1. ASSUME IndInv, [Next]_vars, NEW r \in runs' \ runs, r.origin = "revalidation"
      PROVE  Sees(r)
  <2>0. TypeOK /\ RunsInv /\ RequestsInv
    BY <1>1, IndInvParts
  <2>1. PICK q \in Request :
          CommitJudgment(q) \/ CommitAnswer(q) \/ CommitRevalidation(q)
    <3>1. runs' # runs
      BY <1>1
    <3>2. PICK q \in Request : Start(q) \/ LockCase(q) \/ Proceed(q) \/ Abort(q)
      BY <1>1, <3>1 DEF Next, UpdateProfile, Deploy, vars
    <3>3. ~Start(q)
      BY <3>1 DEF Start, BeginAnalysis, BeginJudgment, BeginAnswer, BeginRevalidation, Begin
    <3>4. ~LockCase(q) /\ ~Abort(q) /\ ~CommitAnalysis(q)
      BY <3>1 DEF LockCase, Abort, Rollback, CommitAnalysis
    <3>5. ~ReadProfile(q) /\ ~SelectAnalysis(q)
      BY <3>1 DEF ReadProfile, SelectAnalysis, Continue, Rollback
    <3>6. /\ ~AnswerReadsLatestRun(q) /\ ~AnswerReadsLatestAnalysis(q)
          /\ ~AnswerReadsProfile(q)
      BY <3>1 DEF AnswerReadsLatestRun, AnswerReadsLatestAnalysis, AnswerReadsProfile,
                  Check, Continue, Rollback
    <3>7. /\ ~RevalReadsLatestRun(q) /\ ~RevalSelectsAnalysis(q) /\ ~RevalReadsProfile(q)
      BY <3>1 DEF RevalReadsLatestRun, RevalSelectsAnalysis, RevalReadsProfile,
                  Check, Continue, Rollback
    <3> QED
      BY <3>2, <3>3, <3>4, <3>5, <3>6, <3>7 DEF Proceed
  <2>2. RequestInv(q)
    BY <2>0 DEF RequestsInv
  <2>3. ~CommitJudgment(q)
    BY <1>1 DEF CommitJudgment, StoreRun
  <2>4. ~CommitAnswer(q)
    <3> SUFFICES ASSUME CommitAnswer(q) PROVE FALSE
      OBVIOUS
    <3>1. IsRun(tx[q].source)
      BY <2>0, <2>2 DEF CommitAnswer, RequestInv, TxFits, Answering, RunsInv
    <3> QED
      BY <1>1, <3>1 DEF CommitAnswer, StoreRun, IsRun
  <2>5. /\ pc[q] = "revalReady" /\ r.case = tx[q].case
        /\ r.source = tx[q].source.id
    BY <1>1, <2>1, <2>3, <2>4 DEF CommitRevalidation, StoreRun
  <2> QED
    BY <2>2, <2>5
    DEF RequestInv, ChecksHoldFor, NoLaterAnswer, SourceSeen, Answers, Line
<1>2. IndInv /\ [Next]_vars =>
        [\A r \in runs' \ runs : r.origin = "revalidation" => Sees(r)]_vars
  BY <1>1
<1> QED
  BY <1>2, Invariance, PTL DEF Spec, RevalidationSeesAnswers
=============================================================================
