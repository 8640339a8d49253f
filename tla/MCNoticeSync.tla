----------------------------- MODULE MCNoticeSync -----------------------------
(* Small instances of NoticeSync. *)
EXTENDS NoticeSync, TLC

CONSTANTS n1, n2, c1

\* n2 is a reannouncement of n1.
Reannounced == n1 :> None @@ n2 :> n1

Unrelated == [n \in Notice |-> None]
===============================================================================
