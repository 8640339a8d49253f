------------------------------- MODULE NoticeReading -------------------------------
(***************************************************************************)
(* From the text of a notice to the eligibility of a company: the model    *)
(* reads the text, answers are checked and completed, and every company    *)
(* is judged.                                                              *)
(***************************************************************************)
EXTENDS RequirementJudgment, RequirementExtraction

LineRow ==
    [doc : Nat, page : BOOLEAN, rank : Nat \cup {None}, anchor : BOOLEAN, topic : BOOLEAN,
     mark : {"item", "note", "wrap", "number"}, code : STRING \cup {None},
     more : {codes \in SUBSET STRING : IsFiniteSet(codes)}, or : BOOLEAN, waives : BOOLEAN,
     registers : BOOLEAN, name : STRING \cup {None}]

\* What the model may answer with.
SlotRow ==
    [type : {"industry", "registration", "certification", "other"},
     name : STRING \cup {None}, quote : SUBSET Nat]

\* What is absent is no reason, and a slot is a key of its own.
ASSUME ReadingAssumption == None \notin ToSet(ComplexPatterns) /\ NoGroup \notin SlotRow

\* Documents follow one another.  Of a text without a line the model is not asked.
ReadingInit ==
    /\ text \in Seq(LineRow) \ {<<>>}
    /\ \A i, j \in DOMAIN text : i <= j => text[i].doc <= text[j].doc
    /\ attempt = 0 /\ rejected = FALSE /\ extraction = None /\ analysis = None

ReadingNext ==
    \/ CallFails
    \/ \E answer \in SUBSET SlotRow : IsFiniteSet(answer) /\ ModelAnswers(answer)
    \/ Analyse

ReadingSpec == ReadingInit /\ [][ReadingNext]_extractionVars

-----------------------------------------------------------------------------
(* What the text says, line by line and without chunks *)

Headings == {h \in DOMAIN text : text[h].rank # None /\ text[h].anchor}

\* The lines behind a heading up to one of its rank.
SectionFrom(h) ==
    {i \in DOMAIN text :
        /\ i > h
        /\ \A j \in (h + 1)..i :
              ~NewDocument(j) /\ (text[j].rank # None => text[j].rank > text[h].rank)}

\* Where it is said who may bid: behind such a heading, or anywhere in a document that
\* has none.
Conditions ==
    (UNION {SectionFrom(h) : h \in Headings})
    \cup {i \in DOMAIN text : \A h \in Headings : text[h].doc # text[i].doc}

\* A clause is an item and what it is wrapped into, without page numbers and provisos.
ClauseStarts == {i \in Conditions : text[i].mark = "item"}
ClauseFrom(i) ==
    {j \in i..Len(text) :
        /\ text[j].mark \in {"item", "wrap"}
        /\ \A k \in (i + 1)..j : text[k].mark # "item"}

\* Headings and documents begin a line, and provisos print no code and are all that waives.
Plain ==
    \A i \in DOMAIN text :
        /\ text[i].anchor => text[i].rank # None
        /\ NewDocument(i) \/ text[i].rank # None => text[i].mark = "item"
        /\ Continues(i) => text[i].code = None
        /\ text[i].waives => text[i].mark = "note"
        /\ text[i].code \notin TradeName

\* Where two lines that the model is shown print one code, either may be passed over.
Unshared ==
    \A i, j \in Target : i # j /\ text[i].code # None => text[i].code # text[j].code

\* A clause with a code in a document without such a heading has a word that the document
\* is searched for; the label of a code is one.
Announced ==
    \A i \in ClauseStarts :
        CodesIn(ClauseFrom(i)) # {} /\ (\A h \in Headings : text[h].doc # text[i].doc)
            => \E j \in ClauseFrom(i) : text[j].topic

\* No chunk was full before the next heading.  A section whose heading fills a chunk of its
\* own is cut off behind it.
Uncut == \A c \in Chunks : NewDocument(c) \/ text[c].rank # None

\* An "or" that the model is shown stands between two named codes of its clause, so that
\* nothing else can be quoted as alternatives.
Enclosed ==
    \A o \in Target : text[o].or =>
        \E i \in DOMAIN text :
            /\ text[i].mark = "item" /\ o \in ClauseFrom(i)
            /\ \E p, q \in ClauseFrom(i) :
                  p <= o /\ o < q /\ NamedAt(p) /\ NamedAt(q)

\* An "or" of the clause is one between its codes, and they are all printed in one way.
Readable(i) ==
    /\ SaysOr(ClauseFrom(i)) # {} => Alternates(ClauseFrom(i))
    /\ CodesIn(ClauseFrom(i)) \cap Labelled \in {{}, CodesIn(ClauseFrom(i))}

\* The codes of a clause, apart from those that go on a list.
HoldsCodes(bidder, i) ==
    IF SaysOr(ClauseFrom(i)) # {} THEN CodesIn(ClauseFrom(i)) \cap bidder # {}
    ELSE CodesIn(ClauseFrom(i)) \subseteq bidder

\* A bidder is the set of the codes and the certificates that it holds.
Bidder == SUBSET (PrintedCodes(Conditions) \cup (NamesIn(Conditions) \ TradeName))

ProfileOf(bidder) ==
    [industries |-> bidder,
     certifications |-> {[names |-> {{n}}, issuer |-> {}, issued |-> None, expires |-> None] :
                            n \in bidder},
     complete |-> [a \in Area |-> TRUE]]

Eligibility(bidder) ==
    LET rs == SetToSeq(analysis.requirements)
    IN  DeriveOverallStatus(rs, [i \in DOMAIN rs |-> Judge(rs[i], ProfileOf(bidder), Day).status],
                            analysis.status)

Analysed == analysis # None /\ analysis.status # "FAILED"

\* Whatever the model answers, leaves out or takes for something else: no bidder is
\* eligible that lacks a code of a clause, may it be waived or not (code_salvage.py:12-22).
\* Of a list that is the code behind its label: the text is searched for no other.
EligibleMeetsText ==
    Analysed /\ Plain /\ Unshared /\ Announced /\ Uncut /\ Enclosed =>
        LET starts == {i \in ClauseStarts : Readable(i)}
        IN  \A b \in Bidder :
               (\E i \in starts : ~HoldsCodes(b, i)) => Eligibility(b) # "eligible"

HoldsLists(bidder, i) ==
    SaysOr(ClauseFrom(i)) = {} => ListedIn(ClauseFrom(i)) \subseteq bidder

\* Refuted: nor one that lacks a code of a list.  A quote that ends inside of the list reads
\* as its first code, and then nothing is missing (code_salvage.py:33).
EligibleMeetsLists ==
    Analysed /\ Plain /\ Unshared /\ Announced /\ Uncut /\ Enclosed =>
        LET starts == {i \in ClauseStarts : Readable(i)}
        IN  \A b \in Bidder :
               (\E i \in starts : ~HoldsLists(b, i)) => Eligibility(b) # "eligible"

\* Refuted: nor one that lacks a code where no word announces it.  That chunk is not
\* selected, and what is not selected is not searched (requirement_extraction.py:236-240).
EligibleMeetsUnannounced ==
    Analysed /\ Plain /\ Unshared /\ Uncut /\ Enclosed =>
        LET starts == {i \in ClauseStarts : Readable(i)}
        IN  \A b \in Bidder :
               (\E i \in starts : ~HoldsCodes(b, i)) => Eligibility(b) # "eligible"

\* The line behind the clause begins a proviso that waives it.
WaivedClause(i) ==
    LET next == Max(ClauseFrom(i)) + 1 IN next \in Conditions /\ text[next].waives

\* Pages begin with an item, and provisos name nothing; a heading prints nothing but itself.
\* A clause prints a code that is labelled or alone, or alternatives in one way, and what
\* waives it stands right behind its code, which heads no list.
Orderly ==
    /\ \A i \in DOMAIN text :
          /\ text[i].page => text[i].mark = "item"
          /\ Continues(i) => text[i].name = None
    /\ \A h \in Headings : CodesIn(ClauseFrom(h)) \cup NamesIn(ClauseFrom(h)) = {}
    /\ \A i \in ClauseStarts :
          LET clause == ClauseFrom(i)
          IN  /\ IF SaysOr(clause) = {} THEN SlotCodes(clause) # {}
                 ELSE CodesIn(clause) \cap Labelled \in {{}, CodesIn(clause)}
              /\ WaivedClause(i) =>
                    /\ NamesIn(clause) = {} /\ ListedIn(clause) = {} /\ text[Max(clause)].code # None
                    /\ SaysOr(clause) = {} => CodesIn(clause) = CodesIn({Max(clause)})

\* The model quotes whole clauses.
Faithful == \A s \in extraction.slots : \E i \in ClauseStarts : s.quote = ClauseFrom(i)

HoldsNames(bidder, i) == NamesIn(ClauseFrom(i)) \ TradeName \subseteq bidder

\* As long as the model quotes whole clauses, whatever else it leaves out, repeats or takes
\* for something else: no bidder is ineligible that has what every clause asks for, and
\* none because of a clause that may be waived (deduplicate.py:18-20).
IneligibleMissesText ==
    Analysed /\ Plain /\ Orderly /\ Faithful =>
        LET starts == {i \in ClauseStarts : ~WaivedClause(i)}
        IN  \A b \in Bidder :
               (\A i \in starts : HoldsCodes(b, i) /\ HoldsLists(b, i) /\ HoldsNames(b, i)) =>
                   Eligibility(b) # "ineligible"
===============================================================================
