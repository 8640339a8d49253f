--------------------------- MODULE OverallEligibility ---------------------------
(***************************************************************************)
(* DeriveOverallStatus at work: the requirements of an analysis are judged *)
(* one by one, and the user answers one open requirement after the other;  *)
(* the result is derived again each time (qualification/ask_back.py).      *)
(***************************************************************************)
EXTENDS OverallStatus

CONSTANTS Key, Group

ASSUME KeyAssumption == Key \subseteq Nat

VARIABLES
    reqs,            \* the requirements of the analysis
    status,          \* their judgments
    analysisStatus

groupVars == <<reqs, status, analysisStatus>>

RequirementRow == [mandatory : BOOLEAN, group : Group \cup {NoGroup}, anyOf : BOOLEAN]

GroupInit ==
    /\ reqs \in [Key -> RequirementRow]
    /\ status \in [Key -> JudgmentStatus]
    /\ analysisStatus \in {"SUCCEEDED", "PARTIAL"}

Resolve(k) ==
    /\ status[k] = "UNKNOWN"
    /\ \E answer \in {"SATISFIED", "UNSATISFIED"} :
          status' = [status EXCEPT ![k] = answer]
    /\ UNCHANGED <<reqs, analysisStatus>>

GroupNext == \E k \in Key : Resolve(k)

GroupSpec == GroupInit /\ [][GroupNext]_groupVars

-----------------------------------------------------------------------------
(* A definition that does not combine three-valued statuses: what would    *)
(* come out if every open requirement were known.                          *)

Completions ==
    {s \in [DOMAIN status -> {"SATISFIED", "UNSATISFIED"}] :
        \A k \in DOMAIN status : status[k] # "UNKNOWN" => s[k] = status[k]}

\* The members of a group name one operator.
Agreed(k) == \A j \in GroupOf(reqs, k) : reqs[j].anyOf = reqs[k].anyOf

Met(s) ==
    \A k \in Mandatory(reqs) :
        IF reqs[k].anyOf THEN \E j \in GroupOf(reqs, k) : s[j] = "SATISFIED"
                         ELSE s[k] = "SATISFIED"

Result == DeriveOverallStatus(reqs, status, analysisStatus)

\* The company is eligible exactly if it meets the mandatory requirements
\* however the open ones turn out, and ineligible exactly if it misses them
\* however they turn out; nothing is decided from an incomplete analysis except
\* that a company is ineligible (judgment.py:863-903).
DecidedByWhatIsKnown ==
    (\A k \in Mandatory(reqs) : Agreed(k)) =>
        /\ Result = "eligible" <=>
              /\ Mandatory(reqs) # {} /\ analysisStatus = "SUCCEEDED"
              /\ \A s \in Completions : Met(s)
        /\ Result = "ineligible" <=> \A s \in Completions : ~Met(s)
===============================================================================
