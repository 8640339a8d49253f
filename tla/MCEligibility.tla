----------------------------- MODULE MCEligibility -----------------------------
(***************************************************************************)
(* From the text of a notice to the eligibility of a company, in parts:    *)
(*   "text"    documents are read, and every company is judged             *)
(*   "rule"    one requirement is judged while a company completes its     *)
(*             profile                                                     *)
(*   "groups"  DeriveOverallStatus over every small set of requirements,   *)
(*             while the user answers one open requirement after the other *)
(*             (ask_back.py:200-215 derives the result again each time)    *)
(*   "terms"   the terms of the contract are reviewed, and the review is   *)
(*             stored                                                      *)
(***************************************************************************)
EXTENDS NoticeReading, OverallEligibility, ClauseReview

VARIABLE part

vars == <<part, ruleVars, groupVars, extractionVars, termVars>>

NoRule == rq = None /\ profile = None
NoGroups == reqs = <<>> /\ status = <<>> /\ analysisStatus = None
NoText ==
    /\ text = None /\ attempt = None /\ rejected = None
    /\ extraction = None /\ analysis = None
NoTerms ==
    /\ notice = Nil /\ chunks = <<>> /\ clauses = <<>> /\ similarity = Nil
    /\ findings = Nil /\ reviews = {}

-----------------------------------------------------------------------------
(* One requirement *)

ParentOf == [r \in {{"old"}, {"older"}} |-> {"merged"}]
Adornments == {"former", "area"}
RegionNames == {{"merged"}, {"old"}, {"former", "old"}, {"old", "north"}, {"older"}, {"elsewhere"}}
NumberWords == {"9001"}

NoClause == [codes |-> {}, procedural |-> FALSE, marks |-> {}, holding |-> TRUE]
Negated == [NoClause EXCEPT !.marks = {[reason |-> "NEGATED_RULE", place |-> "text"]}]
Citing == [NoClause EXCEPT !.marks = {[reason |-> "LEGAL_PROCEDURAL_RULE", place |-> "citation"]}]

Requirement(type, operators, values, scopes, periods, extensions) ==
    [type : {type}, operator : operators, value : values, scope : scopes, period : periods,
     extension : extensions, composite : {FALSE}, assessed : {TRUE}, exception : {FALSE},
     clause : {NoClause}, anyOf : {FALSE}]

NoScope == {<<>>}
Scope(a) == [aggregation : a, field : {{}, {"f"}}, client : {{}, {"public"}}]
Between == [aggregation : {"SUM"}, field : {{}}, client : {{}}, minOperator : {">=", "about"},
            min : {None, 2}, maxOperator : {"<="}, max : {None, 3}]

Requirements ==
    Requirement("REGION", {"MATCH", "=", ">=", None},
                {{"merged"}, {"old"}, {"old", "area"}, {"merged", "south"}, {}, None}, NoScope, {None},
                {None, "conglomerate_affiliate"})
    \cup Requirement("COMPANY_SIZE", {"MATCH"}, {{"small"}, {"large"}, {"not", "MICRO"}},
                     [excludes : BOOLEAN, affiliates : BOOLEAN], {None}, {None})
    \cup Requirement("INDUSTRY", {"MATCH"}, {1}, NoScope, {None}, {None})
    \cup Requirement("STAFF", {">=", ">", "=", "RANGE"}, {1, 2}, [role : {{}, {"pm"}}], {None},
                     {None, "sw_engineer_grade"})
    \cup Requirement("STAFF", {"MATCH"}, {{"pm"}}, [role : {{"pm"}}], {None}, {None})
    \cup Requirement("PERFORMANCE_AMOUNT", {">="}, {3},
                     Scope({"SUM", "UNSPECIFIED"}), {None, 3}, {None})
    \cup Requirement("PERFORMANCE_AMOUNT", {"RANGE"}, {3}, Between, {None}, {None})
    \cup Requirement("PERFORMANCE_COUNT", {">="}, {1, 2}, Scope({"UNSPECIFIED"}), {None, 3}, {None})
    \cup Requirement("EXPERIENCE_FIELD", {"MATCH"}, {{"f"}}, Scope({"UNSPECIFIED"}), {None, 3}, {None})
    \cup Requirement("REGISTRATION_CERTIFICATION", {"MATCH"}, {{"iso", "9001"}},
                     [issuer : {{}, {"body"}}, kind : {"CERTIFICATION", None}], {None}, {None})

\* What guards a requirement is the same for every type.
Guards(r) ==
    {r} \cup
    IF r.type # "INDUSTRY" THEN {}
    ELSE {[r EXCEPT !.composite = TRUE], [r EXCEPT !.composite = TRUE, !.exception = TRUE],
          [r EXCEPT !.assessed = FALSE, !.clause = Negated],
          [r EXCEPT !.assessed = FALSE, !.clause = Citing], [r EXCEPT !.anyOf = TRUE]}

AreasOf(type) ==
    CASE type = "REGION" -> {"region"}
      [] type = "COMPANY_SIZE" -> {"size"}
      [] type = "INDUSTRY" -> {"industries"}
      [] type = "STAFF" -> {"total", "roles"}
      [] type = "REGISTRATION_CERTIFICATION" -> {"certifications"}
      [] OTHER -> {"performances"}

\* The other parts of the profile do not matter, and are known.
Blank(type) ==
    [region |-> IF type = "REGION" THEN None ELSE {"elsewhere"},
     size |-> IF type = "COMPANY_SIZE" THEN None ELSE "SMALL",
     affiliate |-> IF type \in {"REGION", "COMPANY_SIZE"} THEN None ELSE FALSE,
     grade |-> IF type = "STAFF" THEN None ELSE 0,
     staff |-> IF type = "STAFF" THEN None ELSE [total |-> 0, roles |-> <<>>],
     industries |-> {}, performances |-> {}, certifications |-> {},
     complete |-> [a \in Area |-> a \notin AreasOf(type)]]

RuleInit ==
    /\ part = "rule" /\ NoGroups /\ NoText /\ NoTerms
    /\ \E r \in Requirements : rq \in Guards(r) /\ profile = Blank(r.type)

\* Facts of the areas that a requirement looks at, and performances that it can tell
\* apart; their refs are given out in turn.
Works ==
    [names : {{{"f"}}, {{"g"}}}, client : {{"someone"}}, institution : BOOLEAN, amount : {1, 2}]
Certificates ==
    [names : {{{"iso", "9001"}}, {{"iso", "iec", "9001"}}, {{"iso"}}, {{"ks", "9001"}}},
     issued : {None, 4, 6}, expires : {None, 4, 6}, issuer : {{}, {"body"}}]
Roles == {{"pm"}, {"dev"}}

ToldApart ==
    /\ profile.size \in {None, "MICRO", "SMALL", "MEDIUM", "LARGE"}
    /\ profile.staff = None \/ Len(profile.staff.roles) <= 2
    /\ rq.type = "STAFF" => IF rq.extension = None THEN profile.grade = None ELSE profile.staff = None
    /\ "industries" \notin AreasOf(rq.type) => profile.industries = {}
    /\ "roles" \notin AreasOf(rq.type) => profile.staff.roles = <<>>
    /\ "performances" \notin AreasOf(rq.type) => profile.performances = {}
    /\ "certifications" \notin AreasOf(rq.type) => profile.certifications = {}
    /\ \A x \in profile.performances :
          /\ x.ref <= Cardinality(profile.performances)
          /\ rq.type # "PERFORMANCE_AMOUNT" => x.amount = 1
          /\ rq.scope.field = {} /\ rq.type # "EXPERIENCE_FIELD" => x.names = {{"f"}}
          /\ rq.scope.client = {} => ~x.institution
    /\ Cardinality(profile.certifications) <= 2
    /\ \A c \in profile.certifications : rq.scope.issuer = {} => c.issuer = {}

-----------------------------------------------------------------------------
(* Texts *)

Line == [doc |-> 1, page |-> FALSE, rank |-> None, anchor |-> FALSE, mark |-> "item",
         topic |-> TRUE, code |-> None, more |-> {}, or |-> FALSE, waives |-> FALSE,
         registers |-> TRUE, name |-> None]
Item(c) == [Line EXCEPT !.code = c]
Wrap(c) == [Line EXCEPT !.mark = "wrap", !.code = c]
Or(line) == [line EXCEPT !.or = TRUE]
Named(line, n) == [line EXCEPT !.name = n]
Waiver == [Line EXCEPT !.mark = "note", !.waives = TRUE]
Number == [Line EXCEPT !.mark = "number"]
Listing(line, codes) == [line EXCEPT !.more = codes]
Silent(line) == [line EXCEPT !.topic = FALSE, !.registers = FALSE]
Heading(rank) == [Line EXCEPT !.rank = rank]
Qualifications(rank) == [Heading(rank) EXCEPT !.anchor = TRUE]

\* A clause of a single code, of alternatives, of a code that may be dispensed with, of a
\* trade and its code, of a certificate, of two codes, of alternatives on two pages.
Clause ==
    <<<<Item("1257")>>, <<Or(Item("1257")), Wrap("6770")>>, <<Item("1227"), Waiver>>,
      <<Named(Item(None), "trade"), Wrap("1450")>>, <<Named(Item("1450"), "iso")>>,
      <<Item("1450"), Wrap("1468")>>, <<Or(Item("1257")), Number, Wrap("1227")>>>>

Sub(clause) == <<[clause[1] EXCEPT !.rank = 20]>> \o Tail(clause)

\* A chunk can be full where a page begins only behind a clause of several lines.
NewPage(clause) == <<[clause[1] EXCEPT !.page = TRUE]>> \o Tail(clause)

Body ==
    UNION {{Clause[i] \o Clause[j], Clause[i] \o Sub(Clause[j])}
           \cup (IF Len(Clause[i]) > 1 THEN {Clause[i] \o NewPage(Clause[j])} ELSE {}) :
               <<i, j>> \in {p \in (1..7) \X (1..7) : p[1] < p[2]}}

\* Where it is said who may bid, and what comes behind; or another document first, in which
\* no heading says so.
Second(lines) == [i \in DOMAIN lines |-> [lines[i] EXCEPT !.doc = 2]]
Texts ==
    {<<Qualifications(10)>> \o b \o <<Heading(10), Item("9901")>> : b \in Body}
    \cup {b \o Second(<<Qualifications(10)>> \o Clause[5]) :
             b \in {Clause[2], Clause[3], <<Silent(Item("1227")), Wrap(None)>>, <<Silent(Item("1227"))>>}}
    \cup {<<Qualifications(10)>> \o b \o <<Named(Item(None), "system")>> :
             b \in {<<Listing(Item("1450"), {"1468"})>>, <<Silent(Item("1450"))>>,
                    <<Item("1450"), Listing(Wrap(None), {"1468"})>>}}

\* What is read here is what ReadingInit admits.
ASSUME TextsTyped == Texts \subseteq Seq(LineRow)

TextInit ==
    /\ part = "text" /\ NoRule /\ NoGroups /\ NoTerms
    /\ text \in Texts
    /\ attempt = 0 /\ rejected = FALSE /\ extraction = None /\ analysis = None

\* The model quotes a line or two, of one chunk or of two, or something invented.
Quotes ==
    {{i} : i \in Conditions} \cup {{i, i + 1} : i \in Conditions \ {Max(Conditions)}}
    \cup {{i - 1, i, i + 1} : i \in {i \in Conditions : text[i].mark = "number"}}
Slot(types, names, quotes) == [type : types, name : names, quote : quotes]

Slots ==
    Slot({"industry", "certification", "other"}, {None}, Quotes)
    \cup Slot({"certification"}, NamesIn(Conditions), Quotes)
    \cup Slot({"industry"}, NamesIn(Conditions), {q \in Quotes : CodesIn(q) = {}})
    \cup Slot({"other"}, {None}, {{}})

Read ==
    \/ CallFails
    \/ /\ extraction = None
       /\ \E answer \in {{}} \cup {{s, q} : s \in Slots, q \in Slots} : ModelAnswers(answer)
    \/ Analyse

-----------------------------------------------------------------------------
(* Terms of the contract.  The sentences of one notice are about one       *)
(* subject, and combine its words with those of rules beside it.           *)

Figure(unit, f) == [unit |-> unit, figure |-> f[1], read |-> [r \in Rule |-> f[2]]]
Says(words, unit, figures) ==
    {[words |-> words, figures |-> <<Figure(unit, f)>>] : f \in figures}

\* Two months are above the standard; of twelve months, "2" may be all that is near enough.
Months == {<<1, 1>>, <<2, 2>>, <<12, 1>>, <<2, Nil>>, <<-1, -1>>}
Percents == {<<1, 1>>, <<4, 4>>, <<5, 5>>, <<30, 30>>, <<50, 50>>}
Words(words) == {[words |-> words, figures |-> <<>>]}

\* Two terms in one sentence, the second out of reach of the words for an inspection.
Both(words, f, g) ==
    {[words |-> words,
      figures |-> <<Figure("MONTH", f),
                    [Figure("MONTH", g) EXCEPT !.read["inspection_period"] = Nil]>>]}

Subjects ==
    {Says({"defect", "repair"}, "MONTH", Months)
       \cup Says({"fault", "repair", "inspection"}, "MONTH", {<<2, 2>>})
       \cup Says({"free", "repair", "price", "pay"}, "MONTH", {<<2, 2>>})
       \cup Says({"defect", "repair", "bond"}, "PERCENT", {<<1, 1>>, <<4, 4>>}),
     Says({"inspection"}, "MONTH", Months)
       \cup Says({"inspection", "price", "pay"}, "MONTH", {<<2, 2>>})
       \cup Says({"pay", "term", "start"}, "MONTH", {<<2, 2>>})
       \cup Both({"inspection", "fee", "pay"}, <<1, 1>>, <<2, 2>>),
     Says({"penalty"}, "PERCENT", Percents)
       \cup Says({"late", "price", "pay"}, "MONTH", {<<2, 2>>}),
     Says({"termination", "decrease"}, "PERCENT", {<<30, 30>>, <<50, 50>>})
       \cup Says({"termination"}, "PERCENT", {<<50, 50>>}) \cup Words({"termination", "decrease"}),
     Words({"right"}) \cup Words({"right", "sole"}) \cup Words({"right", "sole", "joint"})
       \cup Words({"damage", "bear", "no_fault"}) \cup Words({"carve_out"})
       \cup Words({"damage", "bear", "insurance", "no_fault"})}

\* The figures of the conditions, or what keeps them from being read.
StandardOf(r) == CASE r = "penalty_cap" -> 30 [] r = "termination_threshold" -> 40
                   [] r \in TextRule -> Nil [] OTHER -> 1
ClauseAs(r, s) == [rule |-> r, scope |-> s, status |-> "ok", value |-> StandardOf(r)]
Listed(set) == FoldSet(LAMBDA c, list : Append(list, c), <<>>, set)
PublishedClauses ==
    LET whole == {ClauseAs(r, s) : r \in Rule, s \in {"COMMON", "SOFTWARE", "GOODS"}}
        part1 == {c \in whole : c.scope # "SOFTWARE"}
    IN  {Listed(whole), Listed(part1),
         Listed({[c EXCEPT !.status = "anchor_failed", !.value = Nil] : c \in part1}) \o Listed(whole)}

Kinds == [business : {"SERVICE", "GOODS", "CONSTRUCTION"}, cm : {0}, software : {0, 3}]
         \cup [business : {"SERVICE"}, cm : {3}, software : {3}]

Closed == [f \in ToSet(Forms) |-> Nil]
Shapes == {Closed, [Closed EXCEPT !["residual"] = <<1, 4>>, !["authority"] = <<3, 6>>,
                                  !["deferral"] = <<5, 8>>]}
Quotable == {Nil} \cup [occurs : BOOLEAN, unit : {"PERCENT"}, value : {30}, owner : {"authority", "both"}]
            \cup [occurs : {TRUE}, unit : {"MONTH"}, value : {Nil, 2}, owner : {"unclear"}]

TextOf(sentences, score, quote, shapes, register) ==
    [sentences |-> sentences, score |-> score, quote |-> quote, shapes |-> shapes,
     register |-> register, aboutWork |-> ~register]

\* A sentence in which no pattern finds anything.
Elsewhere == <<[words |-> {}, figures |-> <<>>]>>
Software == [business |-> "SERVICE", cm |-> 0, software |-> 3]
Whole == CHOOSE cs \in PublishedClauses : Len(cs) = 27

\* One thing is varied at a time, beside the sentences.
TermInit ==
    /\ part = "terms" /\ NoRule /\ NoText /\ NoGroups
    /\ findings = Nil /\ reviews = {}
    /\ \E focus \in {"sentences", "conditions", "quotes", "shapes"}, subject \in Subjects :
         /\ notice \in IF focus = "conditions" THEN Kinds ELSE {Software}
         /\ clauses \in IF focus = "conditions" THEN PublishedClauses ELSE {Whole}
         /\ similarity \in IF focus = "conditions" THEN {"embedding"} ELSE {"embedding", "ngram", "fails"}
         /\ \E s, t, u \in subject,
               scores \in IF focus = "conditions" THEN {<<1, 1>>} ELSE {<<1, 1>>, <<1, 0>>, <<0, 0>>},
               q \in IF focus = "quotes" THEN Quotable ELSE {Nil},
               shapes \in IF focus = "shapes" THEN Shapes ELSE {Closed}, register \in BOOLEAN :
             /\ focus # "sentences" => s = t
             /\ focus # "shapes" => ~register
             /\ focus \in {"conditions", "shapes"} => t = u
             /\ chunks = <<TextOf(<<s, t>>, scores[1], Nil, shapes, register),
                           TextOf(IF focus = "quotes" /\ t = u THEN Elsewhere ELSE <<u>>,
                                  scores[2], q, Closed, FALSE)>>

\* What is reviewed here is what ReviewInit admits.
ASSUME TermsTyped ==
    /\ Kinds \subseteq [business : STRING, cm : Nat, software : Nat]
    /\ PublishedClauses \subseteq Seq(ClauseRow)
    /\ Quotable \subseteq QuoteRow \cup {Nil} /\ Shapes \subseteq [ToSet(Forms) -> Span \cup {Nil}]
    /\ (UNION Subjects) \cup ToSet(Elsewhere) \subseteq SentenceRow

-----------------------------------------------------------------------------
GroupsInit == part = "groups" /\ NoRule /\ NoText /\ NoTerms /\ GroupInit

Init == RuleInit \/ TextInit \/ GroupsInit \/ TermInit

Next ==
    /\ UNCHANGED part
    /\ \/ /\ part = "rule" /\ CompleteProfile /\ ToldApart'
          /\ UNCHANGED <<groupVars, extractionVars, termVars>>
       \/ part = "text" /\ Read /\ UNCHANGED <<ruleVars, groupVars, termVars>>
       \/ part = "groups" /\ GroupNext /\ UNCHANGED <<ruleVars, extractionVars, termVars>>
       \/ part = "terms" /\ ReviewNext /\ UNCHANGED <<ruleVars, groupVars, extractionVars>>

Spec == Init /\ [][Next]_vars

===============================================================================
