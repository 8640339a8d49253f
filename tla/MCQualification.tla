--------------------------- MODULE MCQualification ---------------------------
(***************************************************************************)
(* Small instances of Qualification.  Two companies' worth of profile, two *)
(* versions of one notice, and requirements chosen so that a revalidation  *)
(* meets each kind of change:                                              *)
(*    amount5 -> amount10   the same clause with another number, MODIFIED  *)
(*    licence               the same clause at another position, UNCHANGED *)
(***************************************************************************)
EXTENDS Qualification, TLC

Plain(ident, type, payload, askable) ==
    [ident |-> ident, type |-> type, payload |-> payload, askable |-> askable,
     clause |-> payload, plain |-> TRUE,
     mandatory |-> TRUE, group |-> NoGroup, anyOf |-> FALSE]

Amount5  == Plain("amount", "PERFORMANCE_AMOUNT", "amount5", TRUE)
Amount10 == Plain("amount", "PERFORMANCE_AMOUNT", "amount10", TRUE)
Licence  == Plain("licence", "REGISTRATION_CERTIFICATION", "licence", TRUE)

\* "A or B" in a row stored before extraction assessed its clauses, with and
\* without the space that the pattern for alternatives needs (clause_safety.py:43).
Either(clause, askable) ==
    [Plain("either", "REGISTRATION_CERTIFICATION", "either", askable)
        EXCEPT !.clause = clause, !.plain = FALSE]

Spaced == Either("spaced", FALSE)
Joined == Either("joined", TRUE)

MCClause == {"amount5", "amount10", "licence", "spaced", "joined"}
MCRequirement == {Amount5, Amount10, Licence, Spaced, Joined}

Succeeded(reqs) == [status |-> "SUCCEEDED", reqs |-> reqs]
Failed == [status |-> "FAILED", reqs |-> <<>>]

First   == Succeeded(<<Amount5, Licence>>)
Changed == Succeeded(<<Licence, Amount10>>)
OldFirst   == Succeeded(<<Spaced>>)
OldChanged == Succeeded(<<Joined>>)
MCOutcome == {First, Changed, OldFirst, OldChanged, Failed}

Stored(v, e) == [id |-> 0, version |-> v, status |-> e.status, reqs |-> e.reqs]

\* The fuller profile answers the amount clauses; the licence is never known.
\* The second rule version reads amount10 in another way, and on the second
\* day the references are too old for it.
MCVerdict(v, p, d, clause) ==
    IF p = "sparse" \/ clause \in {"licence", "spaced"} THEN "UNKNOWN"
    ELSE IF clause = "amount10" /\ v = 0 /\ d = 1 THEN "SATISFIED"
    ELSE IF clause \in {"amount5", "joined"} THEN "SATISFIED" ELSE "UNSATISFIED"
-----------------------------------------------------------------------------
(* One case for a notice with a single version *)
OneCompanyOf   == [c \in Case |-> CHOOSE co \in Company : TRUE]
OneCurrentOf   == [c \in Case |-> "v1"]
OneBaselineOf  == [c \in Case |-> None]
OneAnalysed    == {Stored("v1", First)}
OneFailing     == {First, Failed}

(* A changed notice: v1 was reviewed, v2 is current *)
TwoCurrentOf   == [c \in Case |-> "v2"]
TwoBaselineOf  == [c \in Case |-> "v1"]
TwoAnalysed    == {Stored("v1", First), Stored("v2", Changed)}
ChangedExtraction == {Changed}

Symmetry == Permutations(Request)
=============================================================================
