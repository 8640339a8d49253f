------------------------------ MODULE ClauseReview ------------------------------
(***************************************************************************)
(* The review of the terms of a contract (ai/clause_review): which rules   *)
(* speak about a sentence, what the published conditions state for this    *)
(* kind of contract, how figures and wordings are compared, when a model   *)
(* is asked to quote what the patterns have not found, and which shapes of *)
(* a sentence leave the scope of work open.  A client stores the findings  *)
(* with a version of the notice (services/clause_reviews.py).              *)
(*                                                                         *)
(* A sentence is the set of the words that occur in it, by their groups,   *)
(* and the figures in it.  What of a figure lies in the window around the  *)
(* words of a rule is what the rule reads: all of it, nothing, or some of  *)
(* its digits.                                                             *)
(***************************************************************************)
EXTENDS Integers, Sequences, FiniteSets, SequencesExt

CONSTANTS
    MinScore,        \* SIMILARITY_THRESHOLD of either tier
    TopK,            \* chunks that the model is shown
    Version,         \* versions of notices
    Nil

VARIABLES
    notice,          \* business type, hits of its words for a kind of contract
    chunks,          \* its text
    clauses,         \* the index of the published conditions
    similarity,      \* "embedding", "ngram", or "fails"
    findings,        \* what the review has found, Nil before
    reviews          \* contract_clause_review_runs

termVars == <<notice, chunks, clauses, similarity, findings, reviews>>

-----------------------------------------------------------------------------
(* The text of a notice, and the published conditions *)

\* Spans of a chunk on which a shape of open scope is found.
Span == Nat \X Nat
Forms == <<"residual", "authority", "ancillary", "enumeration", "deferral">>

Unit == {"MONTH", "PERCENT"}
QuoteRow ==
    [occurs : BOOLEAN, unit : Unit, value : Int \cup {Nil},
     owner : {"authority", "both", "unclear"}]

-----------------------------------------------------------------------------
(* The rules, and what they are compared with *)

Sentence(match, exclude) == [match |-> match, exclude |-> exclude]

\* One of the sets of words has to occur, in reach of one another, and none of the others.
\* Words are grouped by the lists that have them: what excludes is not all that matches.
\*    defect, fault     a defect, by its usual names and by the others
\*    free, repair      free of charge; repair, cover or liability behind one of these three
\*    bond, guarantee   the money kept for it, and the promise
\*    price, fee        what is paid for the work, by the usual names and by the others
\*    penalty, late     damages for delay, likewise
\*    pay, term         paying, claiming, settling, and the period behind it
SpeaksOf == [
    warranty_period |->
        Sentence({{w, "repair"} : w \in {"defect", "fault", "free"}}, {"bond", "guarantee"}),
    warranty_bond_rate |->
        Sentence({{w, b} : w \in {"defect", "fault"}, b \in {"bond", "guarantee"}}, {}),
    ip_ownership |-> Sentence({{"right"}}, {}),
    penalty_cap |-> Sentence({{"penalty"}, {"late"}}, {}),
    penalty_rate |-> Sentence({{"penalty"}, {"late"}}, {}),
    inspection_period |->
        Sentence({{"inspection"}}, {"defect", "free", "cover", "upkeep", "price"}),
    termination_threshold |-> Sentence({{"termination", "decrease"}}, {}),
    payment_period |->
        Sentence({{"price", "pay"}, {"fee", "pay"}, {"pay", "term"}},
                 {"penalty", "defect", "start", "due", "bond"}),
    liability_scope |-> Sentence({{"damage", "bear"}}, {"penalty", "insurance"})]

Rule == DOMAIN SpeaksOf

FigureRow == [unit : Unit, figure : Int, read : [Rule -> Int \cup {Nil}]]
SentenceRow == [words : SUBSET STRING, figures : Seq(FigureRow)]
ChunkRow ==
    [sentences : Seq(SentenceRow), score : Int, quote : QuoteRow \cup {Nil},
     shapes : [ToSet(Forms) -> Span \cup {Nil}], register : BOOLEAN, aboutWork : BOOLEAN]

TextRule == {"ip_ownership", "liability_scope"}
MonthRule == {"warranty_period", "inspection_period", "payment_period"}
UnitOf(r) == IF r \in TextRule THEN Nil ELSE IF r \in MonthRule THEN "MONTH" ELSE "PERCENT"

\* The cap of a penalty and its daily rate stand in one sentence, and are told apart by size.
Split == 5
HasSizeOf(r, value) ==
    CASE r = "penalty_cap" -> value >= Split
      [] r = "penalty_rate" -> value <= Split
      [] OTHER -> TRUE

StandardWording == [ip_ownership |-> "joint", liability_scope |-> "carve_out"]
DepartingWording == [ip_ownership |-> "sole", liability_scope |-> "no_fault"]

SentenceApplies(r, s) ==
    /\ \E words \in SpeaksOf[r].match : words \subseteq s.words
    /\ SpeaksOf[r].exclude \cap s.words = {}

\* A clause as the index has it: reading it succeeds or says why not.
ClauseRow ==
    [rule : TextRule, scope : STRING, status : {"ok"}, value : {Nil}]
    \cup [rule : Rule \ TextRule, scope : STRING, status : {"ok"}, value : Nat]
    \cup [rule : Rule, scope : STRING, status : {"anchor_failed", "normalize_failed"}, value : {Nil}]

\* The kinds of contract for which a clause is published.
Variants == [
    warranty_period |-> {"SOFTWARE"},
    warranty_bond_rate |-> {"SOFTWARE"},
    ip_ownership |-> {"SOFTWARE", "COMMON", "GOODS"},
    penalty_cap |-> {"COMMON", "CONSTRUCTION", "GOODS"},
    penalty_rate |-> {"COMMON", "CONSTRUCTION", "GOODS"},
    inspection_period |-> {"COMMON", "CONSTRUCTION", "GOODS"},
    termination_threshold |-> {"COMMON", "CONSTRUCTION"},
    payment_period |-> {"COMMON", "CONSTRUCTION", "GOODS"},
    liability_scope |-> {"COMMON", "CONSTRUCTION"}]

\* Chapters inherit the common one, other conditions nothing.
SelectVariant(r, scope) ==
    IF scope \in Variants[r] THEN scope
    ELSE IF scope \in {"SOFTWARE", "CM"} /\ "COMMON" \in Variants[r] THEN "COMMON"
    ELSE Nil

MinHits == 3
ScopeForNotice ==
    CASE notice.business \in {"GOODS", "CONSTRUCTION"} -> notice.business
      [] notice.business \notin {"GOODS", "CONSTRUCTION"} /\ notice.cm >= MinHits -> "CM"
      [] notice.business \notin {"GOODS", "CONSTRUCTION"} /\ notice.cm < MinHits
         /\ notice.software >= MinHits -> "SOFTWARE"
      [] OTHER -> "COMMON"

\* The first clause of that number counts.  Reading it gives a figure, none where a wording
\* is all there is to find, or fails ("anchor_failed", "normalize_failed").
ResolveStandard(r) ==
    LET scope == SelectVariant(r, ScopeForNotice)
        found == {i \in DOMAIN clauses : clauses[i].rule = r /\ clauses[i].scope = scope}
        first == clauses[CHOOSE i \in found : \A j \in found : i <= j]
    IN  IF scope = Nil THEN [status |-> "out_of_scope", value |-> Nil]
        ELSE IF found = {} THEN [status |-> "clause_missing", value |-> Nil]
        ELSE [status |-> first.status, value |-> first.value]

-----------------------------------------------------------------------------
(* One rule and one chunk *)

Relevant(r, c) == {s \in ToSet(c.sentences) : SentenceApplies(r, s)}
Unread == -1    \* a figure that cannot be made a number

\* What of the figures lies near the words of the rule, in its unit and of its size.
FiguresOf(r, c) == UNION {ToSet(s.figures) : s \in Relevant(r, c)}
ValuesFor(r, c) ==
    {f.read[r] : f \in {f \in FiguresOf(r, c) :
        /\ f.read[r] # Nil /\ f.unit = UnitOf(r)
        /\ f.read[r] = Unread \/ HasSizeOf(r, f.read[r])}}

AgainstStandard(value, standard) == IF value > standard THEN "NEEDS_REVIEW" ELSE "COMPLIANT"

JudgeNumeric(r, standard, c) ==
    LET values == ValuesFor(r, c)
    IN  IF values \subseteq {Unread} THEN "UNDETERMINED"
        ELSE AgainstStandard(CHOOSE v \in values : \A w \in values : w <= v, standard)

\* The standard wording counts wherever it stands in the chunk; a sentence that has it
\* does not depart.
JudgeText(r, c) ==
    IF \E s \in Relevant(r, c) : DepartingWording[r] \in s.words /\ StandardWording[r] \notin s.words
    THEN "NEEDS_REVIEW"
    ELSE IF \E s \in ToSet(c.sentences) : StandardWording[r] \in s.words THEN "COMPLIANT"
    ELSE "UNDETERMINED"

JudgeChunk(r, standard, c) ==
    IF r \in TextRule THEN JudgeText(r, c) ELSE JudgeNumeric(r, standard, c)

-----------------------------------------------------------------------------
(* All chunks of a notice *)

CandidateChunks(r) == {i \in DOMAIN chunks : Relevant(r, chunks[i]) # {}}

\* The order of a stable sort by similarity.
Score(i) == IF similarity = "fails" THEN 0 ELSE chunks[i].score
Before(i, j) == Score(i) > Score(j) \/ (Score(i) = Score(j) /\ i < j)
First(is) == CHOOSE i \in is : \A j \in is \ {i} : Before(i, j)
MostSimilar(is, n) == {i \in is : Cardinality({j \in is : Before(j, i)}) < n}

\* Chunks that are unlike the clause are set aside, unless all are.
MostRelevant(is) ==
    LET alike == {i \in is : chunks[i].score >= MinScore}
    IN  IF similarity = "fails" \/ Cardinality(is) <= 1 THEN is
        ELSE IF alike # {} THEN alike ELSE {First(is)}

FindingRow ==
    [rule : Rule, verdict : {"NEEDS_REVIEW", "COMPLIANT", "UNDETERMINED"}, chunk : Nat,
     via : {"REGEX", "EMBEDDING_LLM"}]

\* Nil is no number, no unit, and no finding.
ASSUME NilAssumption == Nil \notin Int \cup Unit \cup FindingRow

Finding(r, verdict, chunk, via) == [rule |-> r, verdict |-> verdict, chunk |-> chunk, via |-> via]

\* A slip: the mildest verdict stands for the rule.
MildestFirst(verdict) == CASE verdict = "NEEDS_REVIEW" -> 2 [] verdict = "COMPLIANT" -> 1
                           [] OTHER -> 3

VerdictPriority(verdict) == CASE verdict = "NEEDS_REVIEW" -> 1 [] verdict = "COMPLIANT" -> 2
                              [] OTHER -> 3

Gravest(judged) ==
    {f \in judged : \A g \in judged :
        VerdictPriority(f.verdict) <= VerdictPriority(g.verdict)}

\* Of the gravest findings, the one on the most similar chunk.
Foremost(judged) ==
    CHOOSE f \in Gravest(judged) : f.chunk = First({g.chunk : g \in Gravest(judged)})

FirstTier(r, standard) ==
    LET judged == {Finding(r, JudgeChunk(r, standard, chunks[i]), i, "REGEX") :
                        i \in MostRelevant(CandidateChunks(r))}
    IN  IF judged = {} THEN Nil ELSE Foremost(judged)

\* What a quote of the model comes to.  It must occur in the chunk, and only the lower
\* bound of the size of a figure is looked at.
Evidence(r, standard, c) ==
    LET q == c.quote
    IN  IF q = Nil THEN Nil
        ELSE IF ~q.occurs THEN Nil
        ELSE IF r \in TextRule
             THEN CASE q.owner = "authority" -> "NEEDS_REVIEW"
                    [] q.owner = "both" -> "COMPLIANT"
                    [] OTHER -> Nil
        ELSE IF q.value = Nil \/ q.unit # UnitOf(r) THEN Nil
        ELSE IF r = "penalty_cap" /\ q.value < Split THEN Nil
        ELSE AgainstStandard(q.value, standard)

\* The chunks that no pattern has pointed at, the most similar ones.
EmbeddingFallback(r, standard) ==
    LET pool == {i \in DOMAIN chunks \ CandidateChunks(r) : chunks[i].sentences # <<>>}
        shown == {i \in MostSimilar(pool, TopK) : similarity = "ngram" \/ chunks[i].score >= MinScore}
        telling == {i \in shown : Evidence(r, standard, chunks[i]) # Nil}
    IN  IF similarity = "fails" \/ telling = {} THEN Nil
        ELSE Finding(r, Evidence(r, standard, chunks[First(telling)]), First(telling), "EMBEDDING_LLM")

ReviewRule(r) ==
    LET standard == ResolveStandard(r)
        best == FirstTier(r, standard.value)
        other == EmbeddingFallback(r, standard.value)
    IN  CASE standard.status = "out_of_scope" -> Nil
          [] standard.status \notin {"out_of_scope", "ok"} ->
                Finding(r, "UNDETERMINED", Nil, "STANDARD_UNRESOLVED")
          [] OTHER -> IF (best = Nil \/ best.verdict = "UNDETERMINED") /\ other # Nil
                      THEN other ELSE best

-----------------------------------------------------------------------------
(* Shapes of a sentence that leave the scope of work open *)

GuardedForms == {"ancillary", "enumeration", "deferral"}

Overlap(a, b) == ~(a[2] <= b[1] \/ a[1] >= b[2])

Fires(c, form) ==
    c.shapes[form] # Nil /\ ~c.register /\ (form \in GuardedForms => c.aboutWork)

\* Two shapes on one span are one problem: the first one counts.
KeepsFirst(c, kept, n) ==
    Forms[n] \in kept <=>
        /\ Fires(c, Forms[n])
        /\ \A m \in 1..(n - 1) :
              Forms[m] \in kept => ~Overlap(c.shapes[Forms[n]], c.shapes[Forms[m]])

DetectPatterns(c) ==
    CHOOSE kept \in SUBSET ToSet(Forms) : \A n \in DOMAIN Forms : KeepsFirst(c, kept, n)

-----------------------------------------------------------------------------
(* Reviews and what is stored of them *)

ReviewInit ==
    /\ notice \in [business : STRING, cm : Nat, software : Nat]
    /\ chunks \in Seq(ChunkRow) /\ clauses \in Seq(ClauseRow)
    /\ similarity \in {"embedding", "ngram", "fails"}
    /\ findings = Nil /\ reviews = {}

ReviewClauses ==
    /\ findings = Nil
    /\ findings' = ({ReviewRule(r) : r \in Rule} \ {Nil}) \cup
                   UNION {{Finding("open_ended_scope", "NEEDS_REVIEW", i, form) :
                               form \in DetectPatterns(chunks[i])} : i \in DOMAIN chunks}
    /\ UNCHANGED <<notice, chunks, clauses, similarity, reviews>>

CategoryOf(r) ==
    CASE r \in {"warranty_period", "warranty_bond_rate"} -> "WARRANTY_PERIOD"
      [] OTHER -> r

SameSource(f, g) == f = g \/ (f.chunk # Nil /\ f.chunk = g.chunk)

OverlappingCategories(f, all) == {CategoryOf(g.rule) : g \in {g \in all : SameSource(f, g)}}

\* finding_to_payload
Record(f) == [finding |-> f, categories |-> OverlappingCategories(f, findings)]

\* create_contract_clause_review: findings that name a version must name the one they are
\* stored with.  Bound: one review is stored.
Store(version, named) ==
    /\ findings # Nil /\ reviews = {}
    /\ findings # {} => named \in {Nil, version}
    /\ reviews' = {[version |-> version, findings |-> {Record(f) : f \in findings}]}
    /\ UNCHANGED <<notice, chunks, clauses, similarity, findings>>

ReviewNext ==
    \/ ReviewClauses
    \/ \E version \in Version, named \in Version \cup {Nil} : Store(version, named)

ReviewSpec == ReviewInit /\ [][ReviewNext]_termVars

-----------------------------------------------------------------------------
(* Properties *)

\* A chunk says more than the published conditions allow.
Departs(r, standard, c) ==
    \E s \in ToSet(c.sentences) :
        /\ SentenceApplies(r, s)
        /\ IF r \in TextRule
           THEN DepartingWording[r] \in s.words /\ StandardWording[r] \notin s.words
           ELSE \E f \in ToSet(s.figures) :
                   /\ f.unit = UnitOf(r) /\ f.read[r] = f.figure
                   /\ HasSizeOf(r, f.figure) /\ f.figure > standard

\* Every departure from the published conditions that a pattern points at, in a chunk that
\* is like the clause, is reported for review, whatever else the notice says and whatever
\* other sentences comply; and of overlapping shapes of open scope one is reported
\* (detect_standard_diff, detect_patterns).
DeparturesReported ==
    findings # Nil =>
        /\ \A r \in Rule :
              ResolveStandard(r).status = "ok" =>
                  \A i \in MostRelevant(CandidateChunks(r)) :
                      Departs(r, ResolveStandard(r).value, chunks[i]) =>
                          \E f \in findings : f.rule = r /\ f.verdict = "NEEDS_REVIEW"
        /\ \A i \in DOMAIN chunks : \A form \in DOMAIN chunks[i].shapes :
              Fires(chunks[i], form) =>
                  \E f \in findings :
                      /\ f.rule = "open_ended_scope" /\ f.chunk = i
                      /\ f.via = form \/ Overlap(chunks[i].shapes[f.via], chunks[i].shapes[form])

\* What a comment says of sentence_exclude, that it "stops a figure being attributed to the
\* wrong rule": a term in one sentence counts for the warranty, the inspection or the payment
\* only.  VIOLATED: not all words that match exclude.  Twelve months of free upkeep and a
\* payment in one sentence are twelve months for the payment.
FigureCountsOnce ==
    findings # Nil =>
        \A c \in ToSet(chunks) : \A s \in ToSet(c.sentences) : \A f \in ToSet(s.figures) :
            Cardinality({r \in MonthRule : SentenceApplies(r, s) /\ f.unit = UnitOf(r)
                                              /\ f.read[r] \notin {Nil, Unread}}) <= 1

\* What a comment says of the similarity ("an optimisation, never a gate"): a rule complies
\* only if nothing that a pattern points at departs.  VIOLATED: a chunk that is less like
\* the clause is set aside, and as one that has been inspected it is not shown to the model.
NothingSetAside ==
    findings # Nil =>
        \A f \in findings : f.verdict = "COMPLIANT" /\ f.via = "REGEX" =>
            \A c \in ToSet(chunks) : ~Departs(f.rule, ResolveStandard(f.rule).value, c)
===============================================================================
