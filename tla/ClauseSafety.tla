----------------------------- MODULE ClauseSafety -----------------------------
(***************************************************************************)
(* Which clauses of a notice may be reduced to a single requirement        *)
(* (qualification/rules/clause_safety.py).                                 *)
(*                                                                         *)
(* A clause is a record with                                               *)
(*    codes        the industry codes printed in it                        *)
(*    procedural   it says that bidders register with the procurement      *)
(*                 system, which is a procedure and no qualification       *)
(*    marks        what a pattern finds in it: pairs of a reason and of    *)
(*                 the place where the words stand                         *)
(* The text itself, and the regular expressions, are left out.             *)
(***************************************************************************)
EXTENDS Naturals, Sequences, FiniteSets

CONSTANT None

\* The reasons in the order in which the patterns are tried.
ComplexPatterns ==
    <<"UNRESOLVED_TABLE_REFERENCE", "COMPOSITE_PARTY_RULE", "REPRESENTATIVE_CONFLICT_RULE",
      "ALTERNATIVE_OR_EXCEPTION_RULE", "LEGAL_PROCEDURAL_RULE", "NEGATED_RULE",
      "POST_AWARD_OR_RESTRICTION_RULE">>

\* A cited statute, an article number, and the parenthesis that says from which paper
\* an address is read, are decoration.  Other quotes and parentheses are not.
Decorations == {"citation", "article", "address evidence"}

StripDecorations(clause) == {m \in clause.marks : m.place \notin Decorations}

Found(clause) == {m.reason : m \in StripDecorations(clause)}

\* A code is a closed identifier: with one, procedural words are of no account.
Counts(clause, reason) ==
    reason \in Found(clause) /\ ~(reason = "LEGAL_PROCEDURAL_RULE" /\ clause.codes # {})

\* The procurement system is looked for before anything is stripped.
UnsafeClauseReason(clause) ==
    LET hits == {i \in DOMAIN ComplexPatterns : Counts(clause, ComplexPatterns[i])}
    IN  IF clause.codes = {} /\ clause.procedural THEN "LEGAL_PROCEDURAL_RULE"
        ELSE IF hits = {} THEN None
        ELSE ComplexPatterns[CHOOSE i \in hits : \A j \in hits : i <= j]

Assessment(verdict, reason, complexity) ==
    [verdict |-> verdict, reason |-> reason, complexity |-> complexity]

\* An "or" that has become a group of alternatives is dealt with.
AssessClause(clause, operator, exceptionUnresolved) ==
    LET reason == UnsafeClauseReason(clause)
        settled == reason = "ALTERNATIVE_OR_EXCEPTION_RULE" /\ operator = "ANY_OF"
    IN  CASE exceptionUnresolved -> Assessment("ABSTAIN", "EXCEPTION_UNRESOLVED", "composite")
          [] ~exceptionUnresolved /\ (reason = None \/ settled)
               -> Assessment("KEEP", None, "simple")
          [] ~exceptionUnresolved /\ reason = "LEGAL_PROCEDURAL_RULE"
               -> Assessment("PROCEDURAL", reason, "simple")
          [] OTHER -> Assessment("ABSTAIN", reason, "composite")
===============================================================================
