------------------------------ MODULE Askability ------------------------------
(***************************************************************************)
(* Which open requirements the user may be asked about                     *)
(* (qualification/rules/askability.py): those that one short fact settles. *)
(* Not asking is the safe side.                                            *)
(***************************************************************************)
EXTENDS JudgmentRules

Numeric(rq) == rq.type \in {"STAFF", "PERFORMANCE_COUNT", "PERFORMANCE_AMOUNT"}

\* A role is asked for by its name, not by a number.
RoleMatch(rq) == rq.type = "STAFF" /\ rq.operator = "MATCH" /\ rq.scope.role = rq.value

\* A slip: whatever can be compared somewhere.
AnyOperator(rq) == {">=", ">", "<=", "<", "=", "MATCH"}

AllowedOperators(rq) ==
    IF Numeric(rq) /\ ~RoleMatch(rq) THEN {">=", ">", "<=", "<", "="} ELSE {"MATCH", "="}

\* REGISTRATION_CERTIFICATION: the kind is known, and the clause speaks of holding it.
SimpleRegistration(rq) ==
    rq.type = "REGISTRATION_CERTIFICATION" => rq.scope.kind # None /\ rq.clause.holding

Askable(rq) ==
    /\ ~rq.composite
    /\ ~rq.assessed => UnsafeClauseReason(rq.clause) = None
    /\ ~rq.anyOf
    /\ rq.operator # "RANGE"
    /\ rq.value # None
    /\ rq.operator \in AllowedOperators(rq)
    /\ Numeric(rq) /\ ~RoleMatch(rq) => rq.value \in Nat
    /\ SimpleRegistration(rq)
===============================================================================
