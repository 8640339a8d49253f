-------------------------- MODULE RequirementDiff --------------------------
(***************************************************************************)
(* The comparison of the requirements of two analyses                      *)
(* (apps/api/app/qualification/rules/requirement_diff.py).                 *)
(*                                                                         *)
(* The requirements of an analysis are a function from requirement keys to *)
(* records with at least the fields                                        *)
(*    ident    semantic_identity: type, stable scope and the skeleton of   *)
(*             the clause with its numbers and units taken out             *)
(*    type     the requirement type                                        *)
(*    payload  decision_payload: every field a rule reads                  *)
(* Keys are positions in extraction order, so the same key may name        *)
(* different clauses on the two sides.                                     *)
(***************************************************************************)

\* k is the only requirement with its identity on its side.
Sole(reqs, k) ==
    \A j \in DOMAIN reqs : reqs[j].ident = reqs[k].ident => j = k

\* Pairs <<baseline key, current key>> matched by a unique semantic identity.
SemanticPairs(base, cur) ==
    {p \in (DOMAIN base) \X (DOMAIN cur) :
        /\ base[p[1]].ident = cur[p[2]].ident
        /\ Sole(base, p[1])
        /\ Sole(cur, p[2])}

\* What is left is matched by position, if the types agree.
PositionalPairs(base, cur) ==
    {p \in (DOMAIN base) \X (DOMAIN cur) :
        /\ p[1] = p[2]
        /\ base[p[1]].type = cur[p[2]].type
        /\ \A s \in SemanticPairs(base, cur) : s[1] # p[1] /\ s[2] # p[2]}

MatchedPairs(base, cur) ==
    SemanticPairs(base, cur) \cup PositionalPairs(base, cur)

\* A slip: matched by position and type, the conditions themselves unread.
UnchangedByPosition(base, cur) ==
    {p \in MatchedPairs(base, cur) : base[p[1]].type = cur[p[2]].type}

\* The pairs reported UNCHANGED; the other matched pairs are MODIFIED.
UnchangedPairs(base, cur) ==
    {p \in MatchedPairs(base, cur) : base[p[1]].payload = cur[p[2]].payload}

\* The baseline keys whose judgment the current key k may take over.
UnchangedFrom(base, cur, k) ==
    {b \in DOMAIN base : <<b, k>> \in UnchangedPairs(base, cur)}
=============================================================================
