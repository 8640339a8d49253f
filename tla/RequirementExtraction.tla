------------------------- MODULE RequirementExtraction -------------------------
(***************************************************************************)
(* The requirements that are read from the documents of a notice           *)
(* (ai/qualification: chunking, requirement_extraction, legacy_slots,      *)
(* deduplicate, code_salvage, analysis_pipeline, analysis_result).         *)
(*                                                                         *)
(* A text is a sequence of lines, and a line a record with                 *)
(*    doc       its document                                               *)
(*    page      it is the first line of a block of that document           *)
(*    rank      how deep the heading is that it is, or None (_label_rank)  *)
(*    anchor    the heading names the qualifications to bid                *)
(*    mark      "item", "note" (a proviso behind a clause), "wrap" (the    *)
(*              line before goes on) or "number" (of a page)               *)
(*    topic     it has one of the words that a requirement may be known by *)
(*    code      the industry code printed in it behind a label or a name   *)
(*              of its own, or None                                        *)
(*    more      the codes that go on a list behind a label                 *)
(*    or        it ends in the word "or"                                   *)
(*    waives    it says that the clause before may be dispensed with       *)
(*    registers it speaks of a registration, a report or a licence         *)
(*    name      the name of a registration or a certificate, or None       *)
(* The model that is asked is not known: it quotes what it likes.  A quote *)
(* is a range of lines, or is invented.  Characters, amounts of money and  *)
(* the evidence beside a requirement are left out.                         *)
(***************************************************************************)
EXTENDS JudgmentRules, OverallStatus, FiniteSetsExt

CONSTANTS
    Labelled,        \* the codes that are printed behind the words "industry code"
    TradeName,       \* names of trades, or of the act of registering one
    Procedure,       \* names of registrations with the procurement system
    MaxChunk,        \* lines of a chunk after which it is full
    MaxBody,         \* lines that the model gets to see
    MaxRetry         \* how often it is asked again

ASSUME ExtractionAssumption ==
    /\ {MaxChunk, MaxBody} \subseteq Nat \ {0} /\ MaxRetry \in Nat
    /\ None \notin Labelled

VARIABLES
    text,
    attempt,         \* how often the model has been asked
    rejected,        \* last_rejected is not empty
    extraction,      \* the result of extract_legacy_slots, or None
    analysis         \* RequirementAnalysisResult, or None

extractionVars == <<text, attempt, rejected, extraction, analysis>>

-----------------------------------------------------------------------------
(* chunking.py: a chunk begins with a heading, or where one before is full *)

NewDocument(i) == i = 1 \/ text[i].doc # text[i - 1].doc

\* The first line of the chunk that line i belongs to.
ChunkStart ==
    LET Start[i \in DOMAIN text] ==
            IF \/ NewDocument(i)
               \/ text[i].rank # None
               \/ text[i].page /\ i - Start[i - 1] >= MaxChunk
            THEN i ELSE Start[i - 1]
    IN  Start

Chunks == {ChunkStart[i] : i \in DOMAIN text}

Lines(chunk) == {i \in DOMAIN text : ChunkStart[i] = chunk}

\* The label of a chunk without a heading is the last one, without its brackets.
BareRank(rank) ==
    CASE rank \in {0, 10, 20} -> rank [] rank = 30 -> 10 [] rank = 40 -> 20 [] OTHER -> None

LabelRank(chunk) ==
    LET before == {i \in 1..chunk : text[i].doc = text[chunk].doc /\ text[i].rank # None}
    IN  IF text[chunk].rank # None THEN text[chunk].rank
        ELSE IF before = {} THEN None ELSE BareRank(text[Max(before)].rank)

-----------------------------------------------------------------------------
(* requirement_extraction.py: what the model is shown, and what is kept of *)
(* its answer                                                              *)

Anchors == {c \in Chunks : LabelRank(c) # None /\ text[c].anchor}

\* A section ends with a heading of the same rank or above.
EndsSection(anchor, chunk) ==
    LabelRank(chunk) # None /\ LabelRank(chunk) <= LabelRank(anchor)

SectionOf(anchor) ==
    {c \in Chunks :
        /\ c >= anchor /\ text[c].doc = text[anchor].doc
        /\ \A d \in Chunks : anchor < d /\ d <= c => ~EndsSection(anchor, d)}

\* Documents without such a heading are searched for words; those of a heading are among
\* them only if no document has one.
SelectChunks ==
    LET anchored == {text[a].doc : a \in Anchors}
        mentions(c) == \E i \in Lines(c) : text[i].topic \/ (Anchors = {} /\ text[i].anchor)
        found == (UNION {SectionOf(a) : a \in Anchors}) \cup
                 {c \in Chunks : text[c].doc \notin anchored /\ mentions(c)}
    IN  IF found = {} THEN Chunks ELSE found

Target == UNION {Lines(c) : c \in SelectChunks}

\* _squash: blanks, marks of decoration and the numbers of pages do not count when texts
\* are compared.
Squash(lines) == {i \in lines : text[i].mark # "number"}

\* _find_source_chunk: the words of the quote follow one another in the chunk.
StandsIn(quote, chunk) ==
    LET source == Squash(Lines(chunk))
    IN  \E first, last \in source : Squash(quote) = {i \in source : first <= i /\ i <= last}

\* snap_to_source_span: a detail is cut out of the lines that print it.
Printed(detail, lines) == \E i \in Squash(lines) : text[i].name = detail

\* A quote stands in one chunk; a detail may stand anywhere in the target.
ValidSlot(slot) ==
    /\ \E c \in SelectChunks : StandsIn(slot.quote, c)
    /\ slot.name = None \/ Printed(slot.name, Target)

\* join_wrapped_lines: what is kept of a quote.
Joined(slot) == [slot EXCEPT !.quote = Squash(slot.quote)]

\* build_extraction_body cuts off what is too long.
Overflows == Cardinality(Target) > MaxBody

Extracted(status, slots) == [status |-> status, slots |-> slots]

\* structured_extract raises.
CallFails ==
    /\ extraction = None
    /\ extraction' = Extracted("failed", {})
    /\ UNCHANGED <<text, attempt, rejected, analysis>>

\* An answer of which nothing can be kept is asked for again; if there is nothing in the
\* next one, what had been rejected is still reported.
ModelAnswers(answer) ==
    LET accepted == {Joined(s) : s \in {s \in answer : ValidSlot(s)}}
        fails == \E s \in answer : ~ValidSlot(s)
        partial == fails \/ (answer = {} /\ rejected) \/ Overflows
    IN  /\ extraction = None
        /\ rejected' = (rejected \/ fails)
        /\ IF accepted # {} \/ answer = {}
           THEN /\ extraction' = Extracted(IF partial THEN "partial" ELSE "ok", accepted)
                /\ UNCHANGED attempt
           ELSE IF attempt = MaxRetry
           THEN /\ extraction' = Extracted("failed", {})
                /\ UNCHANGED attempt
           ELSE attempt' = attempt + 1 /\ UNCHANGED extraction
        /\ UNCHANGED <<text, analysis>>

-----------------------------------------------------------------------------
(* legacy_slots.py: from a slot to requirements                            *)

CodesIn(quote) == {text[i].code : i \in quote} \ {None}

\* A code behind the name of a trade.
NamedAt(i) == text[i].code \notin Labelled \cup {None}
NamedIn(quote) == CodesIn(quote) \ Labelled

\* What goes on a list, on one line or over several, is read with its label.
Headed(i, quote) ==
    \E h \in quote :
        /\ h <= i /\ text[h].code \in Labelled
        /\ \A j \in quote : h < j /\ j <= i => text[j].code = None /\ text[j].more # {}
ListedIn(quote) == UNION {text[i].more : i \in {i \in quote : Headed(i, quote)}}

\* Every code that stands in these lines, read or not.
PrintedCodes(lines) == CodesIn(lines) \cup UNION {text[i].more : i \in lines}

NamesIn(quote) == {text[i].name : i \in quote} \ {None}
SaysOr(quote) == {i \in quote : text[i].or}
Waives(quote) == \E i \in quote : text[i].waives

ClauseIn(quote) ==
    [codes |-> CodesIn(quote), procedural |-> NamesIn(quote) \cap Procedure # {},
     marks |-> IF SaysOr(quote) # {} \/ Waives(quote)
               THEN {[reason |-> "ALTERNATIVE_OR_EXCEPTION_RULE", place |-> "text"]} ELSE {}]

\* The name of a registration is looked at beside the quote.
GuardReads(slot) ==
    [ClauseIn(slot.quote) EXCEPT
        !.procedural = (NamesIn(slot.quote) \cup {slot.name}) \cap Procedure # {}]

\* The parts of a quote between its "or"s; the last one is empty if it ends in one.
Parts(quote) ==
    LET before(i) == Cardinality({j \in SaysOr(quote) : j < i})
    IN  {{i \in quote : before(i) = n} : n \in 0..Cardinality(SaysOr(quote))}

\* industry_code_alternation: there is one trade with its code to a part, and nothing else
\* to hold; labels are not looked for.
Alternates(quote) ==
    /\ SaysOr(quote) # {} /\ ~Waives(quote) /\ NamesIn(quote) \subseteq TradeName
    /\ \A part \in Parts(quote) : Cardinality({i \in part : NamedAt(i)}) = 1
    /\ Cardinality(NamedIn(quote)) = Cardinality(Parts(quote))

\* The codes that may stand for an industry: those behind labels, or else a single named one.
LabelledIn(quote) == (CodesIn(quote) \cap Labelled) \cup ListedIn(quote)
SlotCodes(quote) ==
    IF LabelledIn(quote) # {} THEN LabelledIn(quote)
    ELSE IF Cardinality(NamedIn(quote)) = 1 THEN NamedIn(quote) ELSE {}

Atom(type, value, slot, any) ==
    [type |-> type, operator |-> "MATCH", value |-> value, period |-> None, extension |-> None,
     scope |-> [issuer |-> {}, kind |-> slot.type], group |-> slot, quote |-> slot.quote,
     composite |-> AssessClause(ClauseIn(slot.quote), IF any THEN "ANY_OF" ELSE "ALL_OF",
                                FALSE).complexity = "composite",
     assessed |-> TRUE, exception |-> FALSE, clause |-> ClauseIn(slot.quote),
     anyOf |-> any, mandatory |-> TRUE]

Industry(value, slot) == {Atom("INDUSTRY", value, slot, FALSE)}

\* adapt_legacy_slot for the slots that are about codes and names.  Of several codes of a
\* certificate the first one of a set is taken.
AdaptSlot(slot) ==
    LET codes == SlotCodes(slot.quote)
        code == CHOOSE c \in codes : TRUE
        unsafe == UnsafeClauseReason(GuardReads(slot)) # None
        registers == \E i \in slot.quote : text[i].registers
        named == slot.name # None
        asIndustry == codes # {} /\ (slot.type = "registration" \/ slot.name \in TradeName)
    IN  CASE Alternates(slot.quote) -> {Atom("INDUSTRY", c, slot, TRUE) : c \in NamedIn(slot.quote)}
          [] unsafe /\ ~Alternates(slot.quote) -> {}
          [] OTHER ->
              CASE slot.type \in {"industry", "registration"} /\ Cardinality(codes) > 1 -> {}
                [] slot.type = "industry" /\ Cardinality(codes) = 1 -> Industry(code, slot)
                [] slot.type = "industry" /\ codes = {} ->
                      IF named THEN Industry(slot.name, slot) ELSE {}
                [] slot.type = "other" ->
                      IF Cardinality(LabelledIn(slot.quote)) = 1 /\ registers
                      THEN Industry(code, slot) ELSE {}
                [] OTHER ->
                      IF asIndustry THEN Industry(code, slot)
                      ELSE IF named THEN {Atom("REGISTRATION_CERTIFICATION", {slot.name}, slot, FALSE)}
                      ELSE {}

\* What cannot be reduced, and what is of no type, is noted as a fact of the notice; what
\* ought to have been a requirement is a warning.
Warns(slot) ==
    /\ AdaptSlot(slot) = {} /\ slot.type # "other"
    /\ UnsafeClauseReason(GuardReads(slot)) = None

-----------------------------------------------------------------------------
(* deduplicate.py *)

Identity(r) == <<r.type, r.value>>

\* A slip: alternatives are compared one by one.
DistinctAtoms(reqs) ==
    {r \in reqs : r = CHOOSE q \in reqs : Identity(q) = Identity(r)}

\* One of those that say the same is kept.  Alternatives stay together.
Distinct(reqs) ==
    LET single == {r \in reqs : ~r.anyOf}
    IN  (reqs \ single) \cup
        {r \in single : r = CHOOSE q \in single : Identity(q) = Identity(r)}

\* The name of a trade is folded into the code that the same clause prints.
FoldsInto(r, keeper) ==
    LET contained == r.quote \subseteq keeper.quote \/ keeper.quote \subseteq r.quote
        sameChunk == ChunkStart[Min(r.quote)] = ChunkStart[Min(keeper.quote)]
        name == IF r.type = "INDUSTRY" THEN r.value ELSE CHOOSE n \in r.value : TRUE
    IN  /\ keeper.type = "INDUSTRY" /\ keeper.value \in PrintedCodes(DOMAIN text)
        /\ r.type \in {"INDUSTRY", "REGISTRATION_CERTIFICATION"} /\ name \in TradeName
        /\ contained \/ sameChunk
        /\ contained => name \in NamesIn(r.quote \cup keeper.quote)

Deduplicated(reqs) ==
    {r \in Distinct(reqs) : ~\E keeper \in Distinct(reqs) : FoldsInto(r, keeper)}

Canonical(slots) == Deduplicated(UNION {AdaptSlot(s) : s \in slots})
-----------------------------------------------------------------------------
(* code_salvage.py: what the text itself says of codes                     *)

\* _CONTINUATION_RE takes the number of a page for a proviso, too.
Continues(i) == text[i].mark \in {"note", "number"}

\* The lines of a chunk without its provisos, unless one prints a code.
KeptLines(chunk) == {i \in Lines(chunk) : Continues(i) => text[i].code # None}

\* A clause is an item and the lines that it is wrapped into.
ClausesOf(chunk) ==
    LET starts == {i \in KeptLines(chunk) : text[i].mark = "item" \/ i = Min(KeptLines(chunk))}
    IN  {{i \in KeptLines(chunk) : i >= s /\ ~\E t \in starts : s < t /\ t <= i} : s \in starts}

Clauses == UNION {ClausesOf(c) : c \in SelectChunks}

\* A slip: what the model has quoted counts, whether or not it became a requirement.
QuotedCodes(slots, reqs) == UNION {CodesIn(s.quote) : s \in slots}

\* The codes that have become requirements.
Reached(slots, reqs) == {r.value : r \in {r \in reqs : r.type = "INDUSTRY"}}

\* A clause is salvaged for the codes that neither a requirement nor a clause before has.
Salvaged(covered) ==
    {[type |-> "industry", name |-> None, quote |-> c] :
        c \in {c \in Clauses :
                  CodesIn(c) \ (covered \cup CodesIn({i \in Target : i < Min(c)})) # {}}}

\* The lines of the proviso that begins at line i.
Proviso(i, chunk) ==
    {j \in Lines(chunk) : j >= i /\ \A k \in (i + 1)..j : text[k].mark = "wrap"}

\* exception_guarded_codes: the line right behind the code begins a proviso that waives it.
GuardedCodes ==
    {text[i].code :
        i \in {i \in Target :
                  /\ ~Continues(i) /\ i + 1 \in Lines(ChunkStart[i]) /\ Continues(i + 1)
                  /\ Waives(Proviso(i + 1, ChunkStart[i]))}} \ {None}

Guard(r) ==
    IF r.type = "INDUSTRY" /\ r.value \in GuardedCodes
    THEN [r EXCEPT !.composite = TRUE, !.exception = TRUE] ELSE r

-----------------------------------------------------------------------------
(* analysis_pipeline.py, analysis_result.py                                *)

\* There is evidence for every slot, also for one without a requirement.
AnalysisStatus(slots, salvaged) ==
    IF extraction.status # "ok" THEN IF slots \cup salvaged = {} THEN "FAILED" ELSE "PARTIAL"
    ELSE IF \E s \in slots \cup salvaged : Warns(s) THEN "PARTIAL" ELSE "SUCCEEDED"

\* analyze_qualification_documents behind the extraction, also if that has failed.
AnalysisResult ==
    LET slots == extraction.slots
        reqs == Canonical(slots)
        salvaged == Salvaged(Reached(slots, reqs))
    IN  [status |-> AnalysisStatus(slots, salvaged),
         requirements |-> {Guard(r) : r \in reqs \cup Canonical(salvaged)}]

Analyse ==
    /\ extraction # None /\ analysis = None
    /\ analysis' = AnalysisResult
    /\ UNCHANGED <<text, attempt, rejected, extraction>>
===============================================================================
