--------------------------- MODULE OverallStatus ---------------------------
(***************************************************************************)
(* How the statuses of single requirements combine into the eligibility    *)
(* of a company for a notice                                               *)
(* (apps/api/app/qualification/rules/judgment.py, derive_overall_status).  *)
(*                                                                         *)
(* The requirements of one analysis are a function from requirement keys   *)
(* to records with at least the fields                                     *)
(*    mandatory   requirement_role = "mandatory"                           *)
(*    group       requirement_group_key, or NoGroup                        *)
(*    anyOf       group_operator = "ANY_OF"; no operator means ALL_OF      *)
(* Keys are numbers in the order in which the code sorts the requirements. *)
(***************************************************************************)
EXTENDS Integers

CONSTANT NoGroup

JudgmentStatus == {"SATISFIED", "UNSATISFIED", "UNKNOWN"}

Mandatory(reqs) == {k \in DOMAIN reqs : reqs[k].mandatory}

\* The requirements judged together with k. One without a group key is a
\* group of its own.
GroupOf(reqs, k) ==
    {j \in Mandatory(reqs) :
        j = k \/ (reqs[j].group # NoGroup /\ reqs[j].group = reqs[k].group)}

\* The first requirement of a group, whose operator the group takes.
Lead(G) == CHOOSE k \in G : \A j \in G : k <= j

\* A requirement without a judgment is UNKNOWN.
StatusOf(status, k) == IF k \in DOMAIN status THEN status[k] ELSE "UNKNOWN"

\* A group whose members disagree on the operator counts one more UNKNOWN.
GroupStatuses(reqs, status, G) ==
    {StatusOf(status, j) : j \in G} \cup
    {"UNKNOWN" : j \in {i \in G : reqs[i].anyOf # reqs[Lead(G)].anyOf}}

\* A slip: what is open counts as if it had gone wrong, or right.
PrevailsAtOnce(statuses, strong, weak) ==
    IF strong \in statuses THEN strong ELSE weak

\* `strong` decides as soon as it occurs, UNKNOWN if it may still occur.
Prevails(statuses, strong, weak) ==
    IF strong \in statuses THEN strong
    ELSE IF "UNKNOWN" \in statuses THEN "UNKNOWN" ELSE weak

GroupVerdict(reqs, status, G) ==
    LET statuses == GroupStatuses(reqs, status, G)
    IN  IF reqs[Lead(G)].anyOf
        THEN Prevails(statuses, "SATISFIED", "UNSATISFIED")
        ELSE Prevails(statuses, "UNSATISFIED", "SATISFIED")

GroupVerdicts(reqs, status) ==
    {GroupVerdict(reqs, status, GroupOf(reqs, k)) : k \in Mandatory(reqs)}

DeriveOverallStatus(reqs, status, analysisStatus) ==
    LET verdicts == GroupVerdicts(reqs, status)
    IN  IF "UNSATISFIED" \in verdicts THEN "ineligible"
        ELSE IF \/ "UNKNOWN" \in verdicts
                \/ verdicts = {}
                \/ analysisStatus # "SUCCEEDED"
             THEN "insufficient_data"
             ELSE "eligible"
=============================================================================
