------------------------------- MODULE MCAccounts -------------------------------
(* Small instances of Accounts. *)
EXTENDS Accounts, Combinatorics, TLC

Symmetric == Permutations(Request) \cup Permutations(Session)

\* Views are multisets of what each request has seen.
ASSUME ViewsCounted ==
    Cardinality(Views) = choose(LockAfter + Cardinality(Request) - 1, Cardinality(Request))
===============================================================================
