----------------------------- MODULE NoticeHistory -----------------------------
(***************************************************************************)
(* What the collection of notices promises to those who use the versions   *)
(* of a notice: cases, analyses, judgments (services/notices.py).          *)
(*                                                                         *)
(* The versions of a notice are numbered 1, 2, ... and the last one is the *)
(* current one.  They are never lost.  New ones get the numbers that       *)
(* follow, in the order in which they are found, until a synchronisation   *)
(* of the whole notice renumbers all of them by their orders.  NoticeSync  *)
(* implements this specification.                                          *)
(***************************************************************************)
EXTENDS Integers, FiniteSets

CONSTANTS
    Notice,
    MaxOrder   \* bound: orders of a notice

VARIABLES
    numbers,   \* the number of each version of a notice, by order
    current    \* the versions that are marked as current

history == <<numbers, current>>

Orders == 1..MaxOrder

\* S is numbered consecutively from 1 on.
Numberings(S) ==
    {f \in [S -> 1..Cardinality(S)] : \A o, q \in S : f[o] = f[q] => o = q}
Histories == UNION {Numberings(S) : S \in SUBSET Orders}

Extends(new, old) ==
    /\ DOMAIN old \subseteq DOMAIN new
    /\ \A o \in DOMAIN old : new[o] = old[o]

LastOf(f) == {o \in DOMAIN f : f[o] = Cardinality(DOMAIN f)}

HistoryInit ==
    /\ numbers = [n \in Notice |-> [o \in {} |-> 0]]
    /\ current = [n \in Notice |-> {}]

\* Versions get the numbers that follow; the last one becomes current.
Grow ==
    /\ numbers' \in [Notice -> Histories]
    /\ \A n \in Notice : Extends(numbers'[n], numbers[n])
    /\ current' = [n \in Notice |-> LastOf(numbers'[n])]

\* The orders that are known by now are put in order.
InOrder(S) == [o \in S |-> Cardinality({q \in S : q <= o})]

Renumber(n) ==
    /\ \E S \in SUBSET Orders :
        /\ DOMAIN numbers[n] \subseteq S
        /\ numbers' = [numbers EXCEPT ![n] = InOrder(S)]
    /\ current' = [current EXCEPT ![n] = LastOf(numbers'[n])]

HistoryNext == Grow \/ \E n \in Notice : Renumber(n)

HistorySpec == HistoryInit /\ [][HistoryNext]_history
===============================================================================
