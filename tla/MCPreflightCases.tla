---------------------------- MODULE MCPreflightCases ----------------------------
(* Small instances of PreflightCases. *)
EXTENDS PreflightCases, TLC

Symmetric == Permutations(Request) \cup Permutations(Document) \cup Permutations(File)
===============================================================================
