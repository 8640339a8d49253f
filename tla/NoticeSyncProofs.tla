--------------------------- MODULE NoticeSyncProofs ---------------------------
(***************************************************************************)
(* Theorems about NoticeSync, for any processes, notices, orders, pages,   *)
(* failures and crashes.                                                   *)
(***************************************************************************)
EXTENDS NoticeSync, FiniteSetTheorems, TLAPS

-----------------------------------------------------------------------------
(* Versions of one notice *)

LEMMA MaxInterval ==
    ASSUME NEW k \in Nat \ {0}
    PROVE  Max(1..k) = k
  BY DEF Max

LEMMA OrdersFinite ==
    ASSUME NEW S \in SUBSET Order
    PROVE  IsFiniteSet(S) /\ Cardinality(S) \in Nat
<1>1. IsFiniteSet(Order)
  BY FS_Interval, ConstantsAssumption DEF Order
<1>2. IsFiniteSet(S)
  BY <1>1, FS_Subset
<1> QED BY <1>2, FS_CardinalityType

\* How many orders of a set are not greater than one of them: its place among them.
RankIn(S, o) == Cardinality({q \in S : q <= o})

\* The places of the orders of a set are 1, 2, ... in their order.
LEMMA Ranks ==
    ASSUME NEW S \in SUBSET Order
    PROVE  /\ \A o \in S : RankIn(S, o) \in 1..Cardinality(S)
           /\ \A o, q \in S : o < q => RankIn(S, o) < RankIn(S, q)
           /\ \A o, q \in S : o # q => RankIn(S, o) # RankIn(S, q)
           /\ {RankIn(S, o) : o \in S} = 1..Cardinality(S)
<1> DEFINE k == Cardinality(S)
           upto(o) == {q \in S : q <= o}
<1>1. IsFiniteSet(S) /\ k \in Nat
  BY OrdersFinite
<1>2. \A o \in S : o \in Nat
  BY ConstantsAssumption DEF Order
<1>3. ASSUME NEW o \in S
      PROVE  IsFiniteSet(upto(o)) /\ RankIn(S, o) \in 1..k
  <2>1. upto(o) \in SUBSET S /\ o \in upto(o)
    BY <1>2
  <2>2. IsFiniteSet(upto(o)) /\ Cardinality(upto(o)) <= k
    BY <2>1, <1>1, FS_Subset
  <2>3. Cardinality(upto(o)) \in Nat /\ Cardinality(upto(o)) # 0
    BY <2>1, <2>2, FS_CardinalityType, FS_EmptySet
  <2> QED BY <2>2, <2>3, <1>1 DEF RankIn
<1>4. \A o \in S : RankIn(S, o) \in Int
  <2> SUFFICES ASSUME NEW o \in S PROVE RankIn(S, o) \in Int
    OBVIOUS
  <2>1. RankIn(S, o) \in 1..k
    BY <1>3
  <2> HIDE DEF k
  <2> QED BY <2>1, <1>1
<1>5. ASSUME NEW o \in S, NEW q \in S, o < q
      PROVE  RankIn(S, o) < RankIn(S, q)
  <2>1. upto(o) \in SUBSET upto(q) /\ q \in upto(q) /\ q \notin upto(o)
    BY <1>2, <1>5
  <2>2. upto(o) # upto(q)
    BY <2>1
  <2>3. /\ Cardinality(upto(o)) <= Cardinality(upto(q))
        /\ Cardinality(upto(o)) # Cardinality(upto(q))
    BY <2>1, <2>2, <1>3, FS_Subset
  <2>4. RankIn(S, o) \in Int /\ RankIn(S, q) \in Int
    BY <1>4
  <2>5. RankIn(S, o) <= RankIn(S, q) /\ RankIn(S, o) # RankIn(S, q)
    BY <2>3 DEF RankIn
  <2> QED BY <2>4, <2>5
<1>6. \A o, q \in S : o # q => RankIn(S, o) # RankIn(S, q)
  <2> SUFFICES ASSUME NEW o \in S, NEW q \in S, o # q
               PROVE  RankIn(S, o) # RankIn(S, q)
    OBVIOUS
  <2>1. o < q \/ q < o
    BY <1>2
  <2>2. RankIn(S, o) \in Int /\ RankIn(S, q) \in Int
    BY <1>4
  <2>3. CASE o < q
    <3>1. RankIn(S, o) < RankIn(S, q)
      BY <2>3, <1>5
    <3> QED BY <3>1, <2>2
  <2>4. CASE q < o
    <3>1. RankIn(S, q) < RankIn(S, o)
      BY <2>4, <1>5
    <3> QED BY <3>1, <2>2
  <2> QED BY <2>1, <2>3, <2>4
<1>7. {RankIn(S, o) : o \in S} = 1..k
  <2> DEFINE rank == [o \in S |-> RankIn(S, o)]
  <2>1. rank \in [S -> 1..k]
    BY <1>3
  <2>2. rank \in Injection(S, 1..k)
    BY <2>1, <1>6 DEF Injection, IsInjective
  <2>3. IsFiniteSet(1..k) /\ Cardinality(1..k) = k
    BY <1>1, FS_Interval
  <2>4. rank \in Surjection(S, 1..k)
    BY <2>2, <2>3, FS_Injection
  <2> QED BY <2>1, <2>4 DEF Surjection
<1> QED BY <1>3, <1>5, <1>6, <1>7

\* A nonempty set of orders has a greatest one: the one in the last place.
LEMMA MaxOrders ==
    ASSUME NEW S \in SUBSET Order, S # {}
    PROVE  Max(S) \in S /\ \A o \in S : o <= Max(S)
<1>1. IsFiniteSet(S) /\ Cardinality(S) \in Nat
  BY OrdersFinite
<1>2. Cardinality(S) \in 1..Cardinality(S)
  BY <1>1, FS_EmptySet
<1>3. PICK m \in S : RankIn(S, m) = Cardinality(S)
  BY <1>2, Ranks
<1>4. {q \in S : q <= m} = S
  BY <1>1, <1>3, FS_Subset DEF RankIn
<1>5. \A o \in S : o <= m
  BY <1>4
<1> QED BY <1>5 DEF Max

\* Saving an order keeps a notice well versioned, or makes it so.
LEMMA SavedVersioned ==
    ASSUME NEW vs, Numbered(vs), DOMAIN vs = {} \/ Versioned(vs),
           NEW o \in Order, NEW row \in Row, o \in DOMAIN vs \/ row \in FreeRows(vs)
    PROVE  /\ DOMAIN Saved(vs, o, row) = DOMAIN vs \cup {o}
           /\ Numbered(Saved(vs, o, row))
           /\ Versioned(Saved(vs, o, row))
<1>1. CASE o \in DOMAIN vs
  BY <1>1 DEF Saved
<1>2. CASE o \notin DOMAIN vs
  <2> DEFINE k == Cardinality(DOMAIN vs)
             new == Saved(vs, o, row)
  <2>1. DOMAIN vs \in SUBSET Order
    BY DEF Numbered
  <2>2. IsFiniteSet(DOMAIN vs) /\ k \in Nat
    BY <2>1, OrdersFinite
  <2>3. {vs[q].number : q \in DOMAIN vs} = 1..k
    <3>1. CASE DOMAIN vs = {}
      <4>1. k = 0
        BY <3>1, FS_EmptySet
      <4> HIDE DEF k
      <4> QED BY <3>1, <4>1
    <3>2. CASE Versioned(vs)
      BY <3>2 DEF Versioned
    <3> QED BY <3>1, <3>2
  <2>4. MaxNumber(vs) = k
    <3>1. CASE DOMAIN vs = {}
      BY <3>1, FS_EmptySet DEF MaxNumber
    <3>2. CASE DOMAIN vs # {}
      <4>1. k \in Nat \ {0}
        BY <3>2, <2>2, FS_EmptySet
      <4> QED BY <4>1, <3>2, <2>3, MaxInterval DEF MaxNumber
    <3> QED BY <3>1, <3>2
  <2>5. DOMAIN new = DOMAIN vs \cup {o}
    BY <1>2 DEF Saved
  <2>6. Cardinality(DOMAIN new) = k + 1
    BY <2>5, <2>2, <1>2, FS_AddElement
  <2>7. /\ new[o] = [number |-> k + 1, current |-> TRUE, row |-> row]
        /\ \A q \in DOMAIN vs : new[q] = [vs[q] EXCEPT !.current = FALSE]
    BY <1>2, <2>4 DEF Saved
  <2>8. \A q \in DOMAIN vs : vs[q] \in Version
    BY DEF Numbered
  <2>9. \A q \in DOMAIN vs : vs[q].number \in 1..k
    BY <2>3
  <2> HIDE DEF k, new
  <2>10. \A q \in DOMAIN vs : /\ new[q].number = vs[q].number
                              /\ new[q].current = FALSE
                              /\ new[q].row = vs[q].row
                              /\ new[q] \in Version
    BY <2>7, <2>8 DEF Version
  <2>11. new[o].number = k + 1 /\ new[o].current = TRUE /\ new[o].row = row
    BY <2>7
  <2>12. Numbered(new)
    <3>1. new[o] \in Version
      BY <2>7, <2>2 DEF Version
    <3>2. new = [q \in DOMAIN new |-> new[q]]
      BY <1>2 DEF Saved, new
    <3> QED BY <3>1, <3>2, <2>10, <2>5, <2>1 DEF Numbered
  <2>13. {new[q].number : q \in DOMAIN new} = 1..(k + 1)
    <3>1. 1..(k + 1) = 1..k \cup {k + 1}
      BY <2>2
    <3> QED BY <3>1, <2>5, <2>10, <2>11, <2>3
  <2>14. \A q \in DOMAIN vs : vs[q].row # row
    BY <1>2 DEF FreeRows
  <2>15. \A q, r \in DOMAIN vs : q # r =>
             vs[q].number # vs[r].number /\ vs[q].row # vs[r].row
    BY DEF Versioned
  <2>16. \A q, r \in DOMAIN new : q # r =>
             new[q].number # new[r].number /\ new[q].row # new[r].row
    BY <2>5, <2>9, <2>10, <2>11, <2>14, <2>15, <2>2
  <2>17. \A q \in DOMAIN new : new[q].current <=> q = o
    BY <2>5, <2>10, <2>11, <1>2
  <2>18. Versioned(new)
    BY <2>5, <2>6, <2>13, <2>16, <2>17 DEF Versioned
  <2> QED BY <2>5, <2>12, <2>18 DEF new
<1> QED BY <1>1, <1>2

\* Renumbering gives consecutive numbers in the order of the orders, and the greatest
\* order is current.
LEMMA ResequencedVersioned ==
    ASSUME NEW vs, Numbered(vs), Versioned(vs)
    PROVE  /\ DOMAIN Resequenced(vs) = DOMAIN vs
           /\ Numbered(Resequenced(vs))
           /\ Versioned(Resequenced(vs))
           /\ Sequenced(Resequenced(vs))
<1> DEFINE D == DOMAIN vs
           k == Cardinality(D)
           new == Resequenced(vs)
<1>1. D \in SUBSET Order /\ D # {}
  BY DEF Numbered, Versioned
<1>2. IsFiniteSet(D) /\ k \in Nat
  BY <1>1, OrdersFinite
<1>3. \A o \in D : RankIn(D, o) \in 1..k
  BY <1>1, Ranks
<1>4. \A o, q \in D : o < q => RankIn(D, o) < RankIn(D, q)
  BY <1>1, Ranks
<1>5. \A o, q \in D : o # q => RankIn(D, o) # RankIn(D, q)
  BY <1>1, Ranks
<1>6. {RankIn(D, o) : o \in D} = 1..k
  BY <1>1, Ranks
<1>7. Max(D) \in D /\ \A o \in D : o <= Max(D)
  BY <1>1, MaxOrders
<1>8. /\ new = [o \in D |-> new[o]]
      /\ \A o \in D : new[o] = [number |-> RankIn(D, o), current |-> o = Max(D), row |-> vs[o].row]
  BY DEF Resequenced, RankIn
<1>9. \A o \in D : vs[o].row \in Row
  BY DEF Numbered, Version
<1> HIDE DEF new, k
<1>10. \A o \in D : /\ new[o].number = RankIn(D, o) /\ new[o].row = vs[o].row
                    /\ new[o].current = (o = Max(D))
                    /\ new[o] \in Version
  <2> SUFFICES ASSUME NEW o \in D
               PROVE /\ new[o].number = RankIn(D, o) /\ new[o].row = vs[o].row
                     /\ new[o].current = (o = Max(D))
                     /\ new[o] \in Version
    OBVIOUS
  <2>1. RankIn(D, o) \in Nat \ {0}
    BY <1>3, <1>2
  <2>2. new[o] = [number |-> RankIn(D, o), current |-> o = Max(D), row |-> vs[o].row]
    BY <1>8
  <2>3. (o = Max(D)) \in BOOLEAN /\ vs[o].row \in Row
    BY <1>9
  <2> HIDE DEF D
  <2> QED BY <2>1, <2>2, <2>3 DEF Version
<1>11. DOMAIN new = D
  BY <1>8
<1>12. Numbered(new)
  BY <1>1, <1>8, <1>10, <1>11 DEF Numbered
<1>13. \A o, q \in D : o # q => vs[o].row # vs[q].row
  BY DEF Versioned
<1>14. Versioned(new)
  <2>1. {new[o].number : o \in D} = 1..k
    BY <1>6, <1>10
  <2>2. \A q \in D : new[q].current <=> q = Max(D)
    BY <1>10
  <2> QED BY <2>1, <2>2, <1>5, <1>7, <1>10, <1>11, <1>13 DEF Versioned, k
<1>15. Sequenced(new)
  <2>1. \A o \in D : o = Max(D) <=> \A q \in D : q <= o
    BY <1>7, <1>1, ConstantsAssumption DEF Order
  <2>2. \A o, q \in D : o < q => new[o].number < new[q].number
    BY <1>4, <1>10
  <2>3. \A o \in D : new[o].current <=> \A q \in D : q <= o
    BY <2>1, <1>10
  <2> QED BY <2>2, <2>3, <1>11 DEF Sequenced
<1> QED BY <1>11, <1>12, <1>14, <1>15 DEF new

-----------------------------------------------------------------------------
(* What a step of one process leaves intact *)

OthersUnchanged(p) ==
    \A q \in Process \ {p} :
        pc'[q] = pc[q] /\ sync'[q] = sync[q] /\ draft'[q] = draft[q]

\* Stored versions, published orders and jobs never go away.
Grows ==
    \A n \in Notice : /\ DOMAIN versions[n] \subseteq DOMAIN versions'[n]
                      /\ published[n] <= published'[n]
                      /\ jobs[n] # None => jobs'[n] # None

\* A step that leaves a process alone, and the versions of which it holds the rows, and
\* takes none of these rows, does not touch what the invariant says of the process.
LEMMA Bystander ==
    ASSUME IndInv, TypeOK', Grows, NEW q \in Process,
           pc'[q] = pc[q] /\ sync'[q] = sync[q] /\ draft'[q] = draft[q],
           \A n \in DOMAIN draft[q] : versions'[n] = versions[n],
           \A r \in Process : q # r => DOMAIN draft'[q] \cap DOMAIN draft'[r] = {}
    PROVE  ProcessOK(q)'
<1>1. ProcessOK(q) /\ TypeOK
  BY DEF IndInv
<1>3. DOMAIN draft[q] \subseteq Notice
  BY <1>1 DEF TypeOK
<1>5. DraftOK(q)'
  BY <1>1 DEF ProcessOK, DraftOK
<1>6. RunOK(q)'
  <2>1. sync[q].target # None => sync[q].target \in Notice
    BY <1>1 DEF TypeOK, SyncRun
  <2> QED BY <2>1, <1>1 DEF ProcessOK, RunOK, Grows
<1>7. FetchedOK(q)'
  <2>1. \A n \in Notice : published[n] \in Int /\ published'[n] \in Int
                        /\ published[n] <= published'[n]
    BY <1>1 DEF TypeOK, Grows
  <2>2. \A i \in sync[q].todo \cup sync[q].item : i[1] \in Notice /\ i[2] \in Int
    BY <1>1, ConstantsAssumption DEF TypeOK, SyncRun, Order
  <2>3. \A n \in DOMAIN draft[q] : \A o \in DOMAIN draft[q][n] : o \in Int
    BY <1>1, ConstantsAssumption DEF TypeOK, Numbered, Order
  <2>4. \A i \in sync[q].todo \cup sync[q].item : i[2] <= published'[i[1]]
    BY <2>1, <2>2, <1>1 DEF ProcessOK, FetchedOK
  <2>5. \A n \in DOMAIN draft[q] : \A o \in DOMAIN draft[q][n] : o <= published'[n]
    BY <2>1, <2>3, <1>3, <1>1 DEF ProcessOK, FetchedOK
  <2> QED BY <2>4, <2>5 DEF FetchedOK
<1>8. HistoryOK(q)'
  <2>1. sync[q].target # None =>
            DOMAIN versions[sync[q].target] \subseteq DOMAIN versions'[sync[q].target]
    BY <1>1 DEF TypeOK, SyncRun, Grows
  <2> QED BY <2>1, <1>1 DEF ProcessOK, HistoryOK
<1>9. CreatedOK(q)'
  <2>1. \A n \in Notice : Stored(n) => DOMAIN versions'[n] # {}
    BY DEF Stored, Grows
  <2>2. \A i \in sync[q].item : i[1] \in Notice
    BY <1>1 DEF TypeOK, SyncRun
  <2> QED BY <2>1, <2>2, <1>1, <1>3 DEF ProcessOK, CreatedOK, Seen, Stored
<1> QED BY <1>5, <1>6, <1>7, <1>8, <1>9 DEF ProcessOK

\* A process that takes only free rows, and commits only rows that it holds, does not
\* touch what the invariant says of the others.
LEMMA Frame ==
    ASSUME IndInv, TypeOK', Grows, NEW p \in Process, OthersUnchanged(p),
           \A n \in Notice \ DOMAIN draft[p] : versions'[n] = versions[n],
           \A n \in DOMAIN draft'[p] \ DOMAIN draft[p] : ~LockedByOther(p, n)
    PROVE  \A q \in Process \ {p} : ProcessOK(q)'
<1> SUFFICES ASSUME NEW q \in Process \ {p} PROVE ProcessOK(q)'
  OBVIOUS
<1>1. ProcessOK(q) /\ TypeOK
  BY DEF IndInv
<1>2. pc'[q] = pc[q] /\ sync'[q] = sync[q] /\ draft'[q] = draft[q]
  BY DEF OthersUnchanged
<1>3. DOMAIN draft[q] \subseteq Notice
  BY <1>1 DEF TypeOK
<1>4. DOMAIN draft[q] \cap DOMAIN draft[p] = {}
  BY <1>1 DEF ProcessOK, DraftOK
<1>5. \A n \in DOMAIN draft[q] : versions'[n] = versions[n]
  BY <1>3, <1>4
<1>6. \A r \in Process : q # r => DOMAIN draft'[q] \cap DOMAIN draft'[r] = {}
  <2> SUFFICES ASSUME NEW r \in Process, q # r
               PROVE  DOMAIN draft'[q] \cap DOMAIN draft'[r] = {}
    OBVIOUS
  <2>1. CASE r = p
    BY <2>1, <1>2, <1>4 DEF LockedByOther
  <2>2. CASE r # p
    BY <2>2, <1>1, <1>2 DEF OthersUnchanged, ProcessOK, DraftOK
  <2> QED BY <2>1, <2>2
<1> QED BY <1>2, <1>5, <1>6, Bystander

\* A step that leaves the database as it is, and takes only free rows.
LEMMA Uncommitted ==
    ASSUME IndInv, TypeOK', NEW p \in Process, OthersUnchanged(p),
           UNCHANGED <<published, versions, jobs>>,
           \A n \in DOMAIN draft'[p] \ DOMAIN draft[p] : ~LockedByOther(p, n),
           ProcessOK(p)'
    PROVE  IndInv'
<1>1. Grows
  BY DEF IndInv, TypeOK, Grows
<1>2. \A q \in Process \ {p} : ProcessOK(q)'
  BY <1>1, Frame
<1>3. OneCurrent' /\ NewNoticesQueued'
  BY DEF IndInv, OneCurrent, NewNoticesQueued, Stored
<1>4. \A n \in Notice : /\ \A o \in DOMAIN versions'[n] : o <= published'[n]
                        /\ jobs'[n] # None => Stored(n)'
  BY DEF IndInv, Stored
<1> QED BY <1>2, <1>3, <1>4 DEF IndInv

\* A step that changes no more than how far one run has come.
LEMMA LocalStep ==
    ASSUME IndInv, NEW p \in Process,
           UNCHANGED <<published, versions, jobs, draft, crashes>>,
           pc' \in [Process -> Label], sync' \in [Process -> SyncRun],
           OthersUnchanged(p), ProcessOK(p)'
    PROVE  IndInv'
<1>1. TypeOK'
  BY DEF IndInv, TypeOK
<1> QED BY <1>1, Uncommitted

\* The run of a process ends, or goes on to its report.
LEMMA RunEnds ==
    ASSUME IndInv, NEW p \in Process, NEW f \in BOOLEAN, EndRun(p, f)
    PROVE  /\ pc' \in [Process -> Label]
           /\ sync' \in [Process -> SyncRun]
           /\ \A q \in Process \ {p} : pc'[q] = pc[q] /\ sync'[q] = sync[q]
           /\ \/ /\ sync[p].job /\ pc'[p] = "report"
                 /\ sync'[p] = [Idle EXCEPT !.job = TRUE, !.target = sync[p].target,
                                            !.fetched = sync[p].fetched, !.failed = f]
              \/ ~sync[p].job /\ pc'[p] = "idle" /\ sync'[p] = Idle
<1>1. Idle \in SyncRun
  BY DEF Idle, SyncRun
<1>2. /\ pc \in [Process -> Label] /\ sync \in [Process -> SyncRun]
      /\ sync[p].target \in Notice \cup {None} /\ sync[p].fetched \in SUBSET Order
  BY DEF IndInv, TypeOK, SyncRun
<1>3. CASE sync[p].job
  <2>1. [Idle EXCEPT !.job = TRUE, !.target = sync[p].target,
                     !.fetched = sync[p].fetched, !.failed = f] \in SyncRun
    BY <1>2 DEF Idle, SyncRun
  <2> QED BY <2>1, <1>2, <1>3 DEF EndRun, Goto, Label
<1>4. CASE ~sync[p].job
  BY <1>1, <1>2, <1>4 DEF EndRun, Goto, Label
<1> QED BY <1>3, <1>4

-----------------------------------------------------------------------------
(* Steps of a run that change neither its draft nor the database *)

\* What the invariant says of one process, to be cited at each step.
LEMMA Facts ==
    ASSUME IndInv, NEW p \in Process
    PROVE  /\ TypeOK /\ ProcessOK(p)
           /\ pc \in [Process -> Label] /\ sync \in [Process -> SyncRun]
           /\ sync[p] \in SyncRun
  BY DEF IndInv, TypeOK

LEMMA BeginWindowInv ==
    ASSUME IndInv, NEW p \in Process, BeginWindow(p)
    PROVE  IndInv'
<1>1. pc' \in [Process -> Label] /\ pc'[p] = "page" /\ OthersUnchanged(p)
  BY Facts DEF BeginWindow, Goto, OthersUnchanged, Label
<1>2. sync' = sync /\ sync[p] = Idle /\ DOMAIN draft'[p] = {}
  BY Facts DEF BeginWindow, ProcessOK, RunOK, DraftOK, Saving
<1>3. ProcessOK(p)'
  BY <1>1, <1>2, Facts
     DEF BeginWindow, ProcessOK, DraftOK, RunOK, FetchedOK, HistoryOK, CreatedOK, Idle, Saving
<1> QED BY <1>1, <1>2, <1>3, Facts, LocalStep DEF BeginWindow

LEMMA BeginLookupInv ==
    ASSUME IndInv, NEW p \in Process, BeginLookup(p)
    PROVE  IndInv'
<1>1. PICK n \in Notice : sync' = [sync EXCEPT ![p].target = n]
  BY DEF BeginLookup
<1>2. pc' \in [Process -> Label] /\ pc'[p] = "lookup"
  BY Facts DEF BeginLookup, Goto, Label
<1>3. sync[p] = Idle /\ DOMAIN draft'[p] = {} /\ n # None
  BY Facts, ConstantsAssumption DEF BeginLookup, ProcessOK, RunOK, DraftOK, Saving
<1>4. sync'[p] = [Idle EXCEPT !.target = n]
  BY <1>1, <1>3, Facts
<1>5. sync' \in [Process -> SyncRun] /\ OthersUnchanged(p)
  BY <1>1, <1>2, Facts DEF BeginLookup, Goto, OthersUnchanged, SyncRun
<1>6. ProcessOK(p)'
  BY <1>2, <1>3, <1>4, Facts
     DEF BeginLookup, ProcessOK, DraftOK, RunOK, FetchedOK, HistoryOK, CreatedOK, Idle, Saving
<1> QED BY <1>2, <1>5, <1>6, LocalStep DEF BeginLookup

LEMMA FetchPageInv ==
    ASSUME IndInv, NEW p \in Process, FetchPage(p)
    PROVE  IndInv'
<1>1. PICK S \in SUBSET Published : sync' = [sync EXCEPT ![p].todo = S]
  BY DEF FetchPage
<1>2. \A i \in S : i \in Notice \X Order /\ i[2] <= published[i[1]]
  BY Facts, ConstantsAssumption DEF Published, Items, TypeOK, Order
<1>3. pc' \in [Process -> Label] /\ pc'[p] = "items"
  BY Facts DEF FetchPage, Goto, Label, Saving
<1>4. sync'[p] = [sync[p] EXCEPT !.todo = S]
  BY <1>1, Facts
<1>5. sync' \in [Process -> SyncRun] /\ OthersUnchanged(p)
  BY <1>1, <1>2, <1>3, Facts DEF FetchPage, Goto, OthersUnchanged, SyncRun
<1>6. sync[p].item = {} /\ sync[p].created = {} /\ sync[p].target = None
      /\ DOMAIN draft[p] = {}
  BY Facts DEF FetchPage, ProcessOK, RunOK, DraftOK, Saving
<1>7. ProcessOK(p)'
  BY <1>2, <1>3, <1>4, <1>6, Facts
     DEF FetchPage, ProcessOK, DraftOK, RunOK, FetchedOK, HistoryOK, CreatedOK, Saving, SyncRun
<1> QED BY <1>3, <1>5, <1>7, LocalStep DEF FetchPage

LEMMA LastPageInv ==
    ASSUME IndInv, NEW p \in Process, LastPage(p)
    PROVE  IndInv'
<1>1. pc' \in [Process -> Label] /\ pc'[p] = "chain" /\ OthersUnchanged(p)
  BY Facts DEF LastPage, Goto, OthersUnchanged, Label
<1>2. sync' = sync /\ sync[p].target = None /\ DOMAIN draft'[p] = {}
  BY Facts DEF LastPage, ProcessOK, RunOK, DraftOK, Saving
<1>3. ProcessOK(p)'
  BY <1>1, <1>2, Facts
     DEF LastPage, ProcessOK, DraftOK, RunOK, FetchedOK, HistoryOK, CreatedOK, Saving, Seen, Stored
<1> QED BY <1>1, <1>2, <1>3, Facts, LocalStep DEF LastPage

LEMMA FetchHistoryInv ==
    ASSUME IndInv, NEW p \in Process, FetchHistory(p)
    PROVE  IndInv'
<1> DEFINE n == sync[p].target
           S == Items(n)
<1>1. n \in Notice /\ DOMAIN draft[p] = {} /\ sync[p].item = {} /\ sync[p].created = {}
  BY Facts DEF FetchHistory, ProcessOK, RunOK, DraftOK, SyncRun, Saving
<1>2. published[n] \in Nat /\ 1..published[n] \subseteq Order
  BY <1>1, Facts, ConstantsAssumption DEF TypeOK, Order
<1>3. /\ \A i \in S : i \in Notice \X Order /\ i[1] = n /\ i[2] <= published[n]
      /\ \A o \in 1..published[n] : <<n, o>> \in S
  BY <1>1, <1>2 DEF Items
<1>4. sync' = [sync EXCEPT ![p].todo = S, ![p].fetched = 1..published[n]]
  BY DEF FetchHistory
<1>5. sync'[p] = [sync[p] EXCEPT !.todo = S, !.fetched = 1..published[n]]
  BY <1>4, Facts
<1>6. pc' \in [Process -> Label] /\ pc'[p] = IF S = {} THEN "chain" ELSE "history"
  BY Facts DEF FetchHistory, Goto, Label, Saving
<1>7. sync' \in [Process -> SyncRun] /\ OthersUnchanged(p)
  <2>1. S \in SUBSET (Notice \X Order) /\ 1..published[n] \in SUBSET Order
    BY <1>2, <1>3
  <2>2. \A q \in Process \ {p} : pc'[q] = pc[q] /\ sync'[q] = sync[q] /\ draft'[q] = draft[q]
    BY <1>4, Facts DEF FetchHistory, Goto
  <2> DEFINE T == 1..published[n]
  <2>3. sync'[p] = [sync[p] EXCEPT !.todo = S, !.fetched = T]
    BY <1>5
  <2>4. S \in SUBSET (Notice \X Order) /\ T \in SUBSET Order
    BY <2>1
  <2>5. DOMAIN sync' = Process /\ sync' = [q \in Process |-> sync'[q]]
    BY <1>4, Facts
  <2> HIDE DEF n, S, T
  <2>6. sync'[p] \in SyncRun
    BY <2>3, <2>4, Facts DEF SyncRun
  <2>7. \A q \in Process : sync'[q] \in SyncRun
    BY <2>2, <2>6, Facts
  <2>8. sync' \in [Process -> SyncRun]
    BY <2>5, <2>7
  <2> QED BY <2>2, <2>8 DEF OthersUnchanged
\* A job's notice is stored, so some order of it has been published.
<1>8. sync[p].job => 1 <= published[n]
  <2> SUFFICES ASSUME sync[p].job PROVE 1 <= published[n]
    OBVIOUS
  <2>1. DOMAIN versions[n] # {}
    BY <1>1, Facts DEF IndInv, ProcessOK, RunOK, Stored
  <2>2. PICK o \in DOMAIN versions[n] : o \in Order /\ o <= published[n]
    BY <2>1, <1>1, Facts DEF IndInv, TypeOK, Numbered
  <2> QED BY <2>2, <1>2, ConstantsAssumption DEF Order
<1>9. S = {} <=> 1..published[n] = {}
  <2>1. S # {} => 1..published[n] # {}
    <3> SUFFICES ASSUME NEW i \in S PROVE 1..published[n] # {}
      OBVIOUS
    <3>1. i[2] \in 1..published[n]
      BY DEF Items
    <3> QED BY <3>1
  <2> QED BY <2>1, <1>3
<1> HIDE DEF S
<1>14. /\ sync'[p].todo = S /\ sync'[p].fetched = 1..published[n]
       /\ sync'[p].item = {} /\ sync'[p].created = {} /\ sync'[p].target = n
       /\ sync'[p].job = sync[p].job /\ sync'[p].failed = sync[p].failed
       /\ sync'[p].queued = sync[p].queued
  BY <1>1, <1>5, Facts DEF SyncRun
<1>15. pc[p] = "lookup" /\ UNCHANGED <<published, versions, jobs, draft>>
  BY DEF FetchHistory
<1>10. DraftOK(p)'
  BY <1>1, <1>6, <1>15, Facts DEF ProcessOK, DraftOK, Saving
<1>16. FetchedOK(p)'
  BY <1>1, <1>3, <1>14, <1>15, Facts DEF ProcessOK, FetchedOK
<1>17. CreatedOK(p)'
  BY <1>1, <1>6, <1>14, <1>15, Facts DEF ProcessOK, CreatedOK
<1>11. RunOK(p)'
  BY <1>1, <1>6, <1>14, <1>15, Facts DEF ProcessOK, RunOK, Saving
<1>12. HistoryOK(p)'
  <2>1. CASE S = {}
    <3>1. sync'[p].fetched = {} /\ ~sync'[p].job
      BY <2>1, <1>2, <1>8, <1>9, <1>14
    <3> QED BY <3>1, <2>1, <1>6 DEF HistoryOK
  <2>2. CASE S # {}
    BY <2>2, <1>1, <1>3, <1>6, <1>9, <1>14, <1>15 DEF HistoryOK
  <2> QED BY <2>1, <2>2
<1>13. ProcessOK(p)'
  BY <1>10, <1>11, <1>12, <1>16, <1>17 DEF ProcessOK
<1> QED BY <1>6, <1>7, <1>13, LocalStep DEF FetchHistory

LEMMA LookAtItemInv ==
    ASSUME IndInv, NEW p \in Process, LookAtItem(p)
    PROVE  IndInv'
<1>1. PICK i \in sync[p].todo :
          sync' = [sync EXCEPT ![p].item = {i}, ![p].todo = @ \ {i},
                               ![p].found = DOMAIN Seen(p, i[1]) # {}]
  BY DEF LookAtItem, NextItem
<1>2. sync'[p] = [sync[p] EXCEPT !.item = {i}, !.todo = @ \ {i},
                                 !.found = DOMAIN Seen(p, i[1]) # {}]
  BY <1>1, Facts
<1>3. /\ sync'[p].item = {i} /\ sync'[p].todo = sync[p].todo \ {i}
      /\ sync'[p].found = (DOMAIN Seen(p, i[1]) # {})
      /\ sync'[p].job = sync[p].job /\ sync'[p].target = sync[p].target
      /\ sync'[p].fetched = sync[p].fetched /\ sync'[p].created = sync[p].created
      /\ sync'[p].queued = sync[p].queued /\ sync'[p].failed = sync[p].failed
  BY <1>2, Facts DEF SyncRun
<1>4. sync[p].item = {} /\ pc[p] \in Saving /\ pc' = pc
      /\ UNCHANGED <<published, versions, jobs, draft, crashes>>
  BY DEF LookAtItem
<1>5. sync' \in [Process -> SyncRun] /\ OthersUnchanged(p)
  BY <1>1, <1>4, Facts DEF OthersUnchanged, SyncRun
<1>6. sync'[p].todo \cup sync'[p].item = sync[p].todo \cup sync[p].item
  BY <1>3, <1>4
<1>7. DraftOK(p)' /\ RunOK(p)' /\ FetchedOK(p)'
  BY <1>3, <1>4, <1>6, Facts DEF ProcessOK, DraftOK, RunOK, FetchedOK, Saving
<1>8. HistoryOK(p)'
  BY <1>3, <1>4, <1>6, Facts DEF ProcessOK, HistoryOK
<1>9. CreatedOK(p)'
  <2>1. Seen(p, i[1])' = Seen(p, i[1])
    BY <1>4 DEF Seen
  <2>2. sync'[p].found => \A j \in sync'[p].item : DOMAIN Seen(p, j[1])' # {}
    BY <2>1, <1>3
  <2>3. /\ sync[p].created \subseteq DOMAIN draft[p]
        /\ \A m \in sync[p].queued : \E n \in Notice : Previous[n] = m
        /\ pc[p] = "predecessor" =>
            /\ \A j \in sync[p].todo \cup sync[p].item : j[1] \in sync[p].queued
            /\ DOMAIN draft[p] \subseteq sync[p].queued
        /\ \A n \in DOMAIN draft[p] :
               DOMAIN versions[n] # {} \/ n \in sync[p].created \/ sync[p].target # None
    BY Facts DEF ProcessOK, CreatedOK, Stored
  <2> QED BY <2>2, <2>3, <1>3, <1>4, <1>6 DEF CreatedOK, Stored
<1>10. ProcessOK(p)'
  BY <1>7, <1>8, <1>9 DEF ProcessOK
<1> QED BY <1>4, <1>5, <1>10, Facts, LocalStep

LEMMA ItemFailsInv ==
    ASSUME IndInv, NEW p \in Process, ItemFails(p)
    PROVE  IndInv'
<1>1. sync' = [sync EXCEPT ![p].item = {}, ![p].failed = TRUE]
  BY DEF ItemFails
<1>2. /\ sync'[p].item = {} /\ sync'[p].todo = sync[p].todo /\ sync'[p].failed
      /\ sync'[p].job = sync[p].job /\ sync'[p].target = sync[p].target
      /\ sync'[p].fetched = sync[p].fetched /\ sync'[p].created = sync[p].created
      /\ sync'[p].queued = sync[p].queued
  BY <1>1, Facts DEF SyncRun
<1>3. pc[p] \in Saving /\ pc' = pc /\ UNCHANGED <<published, versions, jobs, draft, crashes>>
  <2>1. sync[p].item # {}
    BY DEF ItemFails
  <2> QED BY <2>1, Facts DEF ItemFails, ProcessOK, RunOK
<1>4. sync' \in [Process -> SyncRun] /\ OthersUnchanged(p)
  <2>1. [sync[p] EXCEPT !.item = {}, !.failed = TRUE] \in SyncRun
    BY Facts DEF SyncRun
  <2>2. sync' = [sync EXCEPT ![p] = [sync[p] EXCEPT !.item = {}, !.failed = TRUE]]
    BY <1>1, Facts
  <2> QED BY <2>1, <2>2, <1>3, Facts DEF OthersUnchanged
<1>5. DraftOK(p)' /\ RunOK(p)' /\ FetchedOK(p)' /\ HistoryOK(p)' /\ CreatedOK(p)'
  BY <1>2, <1>3, Facts
     DEF ProcessOK, DraftOK, RunOK, FetchedOK, HistoryOK, CreatedOK, Saving, Seen, Stored
<1> QED BY <1>3, <1>4, <1>5, Facts, LocalStep DEF ProcessOK

LEMMA FetchPreviousInv ==
    ASSUME IndInv, NEW p \in Process, FetchPrevious(p)
    PROVE  IndInv'
<1>1. PICK m \in Pending(p) :
          \/ /\ sync' = [sync EXCEPT ![p].resolved = @ \cup {m}]
             /\ UNCHANGED pc
          \/ /\ sync' = [sync EXCEPT ![p].resolved = @ \cup {m}, ![p].todo = Items(m)]
             /\ Goto(p, "predecessor")
  BY DEF FetchPrevious
<1>2. m \in sync[p].queued /\ m \in Notice
  BY Facts DEF Pending, SyncRun
<1>3. pc[p] = "chain" /\ UNCHANGED <<published, versions, jobs, draft, crashes>>
      /\ sync[p].todo = {} /\ sync[p].item = {} /\ sync[p].created = {} /\ DOMAIN draft[p] = {}
  BY Facts DEF FetchPrevious, ProcessOK, RunOK, DraftOK, Saving
<1>4. \A i \in Items(m) : i \in Notice \X Order /\ i[1] = m /\ i[2] <= published[m]
  BY <1>2, Facts, ConstantsAssumption DEF Items, TypeOK, Order
<1>5. /\ sync'[p].item = {} /\ sync'[p].failed = sync[p].failed
      /\ sync'[p].job = sync[p].job /\ sync'[p].target = sync[p].target
      /\ sync'[p].fetched = sync[p].fetched /\ sync'[p].created = {}
      /\ sync'[p].queued = sync[p].queued
      /\ \/ sync'[p].todo = {} /\ pc'[p] = "chain"
         \/ sync'[p].todo = Items(m) /\ pc'[p] = "predecessor"
  BY <1>1, <1>3, Facts DEF SyncRun, Goto
<1>6. pc' \in [Process -> Label] /\ sync' \in [Process -> SyncRun] /\ OthersUnchanged(p)
  <2>1. Items(m) \in SUBSET (Notice \X Order)
    BY <1>4
  <2>2. "predecessor" \in Label
    BY DEF Label, Saving
  <2>3. pc' \in [Process -> Label] /\ \A q \in Process \ {p} : pc'[q] = pc[q]
    BY <2>2, <1>1, Facts DEF Goto
  <2> DEFINE resolved == sync[p].resolved \cup {m}
             S == Items(m)
             r1 == [sync[p] EXCEPT !.resolved = resolved]
             r2 == [sync[p] EXCEPT !.resolved = resolved, !.todo = S]
  <2>4. sync' = [sync EXCEPT ![p] = r1] \/ sync' = [sync EXCEPT ![p] = r2]
    BY <1>1, Facts
  <2>5. resolved \in SUBSET Notice /\ S \in SUBSET (Notice \X Order)
    BY <2>1, <1>2, Facts DEF SyncRun
  <2> HIDE DEF resolved, S
  <2>6. r1 \in SyncRun /\ r2 \in SyncRun
    BY <2>5, Facts DEF SyncRun
  <2> HIDE DEF r1, r2
  <2>7. sync' \in [Process -> SyncRun] /\ \A q \in Process \ {p} : sync'[q] = sync[q]
    BY <2>4, <2>6, Facts
  <2> QED BY <2>3, <2>7, <1>3 DEF OthersUnchanged
<1>7. DraftOK(p)' /\ RunOK(p)' /\ HistoryOK(p)'
  BY <1>3, <1>5, Facts DEF ProcessOK, DraftOK, RunOK, HistoryOK, Saving
<1>8. FetchedOK(p)' /\ CreatedOK(p)'
  BY <1>2, <1>3, <1>4, <1>5, Facts DEF ProcessOK, FetchedOK, CreatedOK
<1> QED BY <1>3, <1>6, <1>7, <1>8, LocalStep DEF ProcessOK

-----------------------------------------------------------------------------
(* The end of a run, and what is rolled back *)

\* A run that ends leaves no draft; what it reports as its history is stored.
LEMMA RunDone ==
    ASSUME IndInv, NEW p \in Process, NEW f \in BOOLEAN, EndRun(p, f),
           UNCHANGED <<published, versions, jobs, crashes>>,
           DOMAIN draft' = Process, DOMAIN draft'[p] = {},
           \A q \in Process \ {p} : draft'[q] = draft[q],
           f = TRUE \/ (pc[p] = "chain" /\ f = sync[p].failed)
    PROVE  IndInv'
<1>1. /\ pc' \in [Process -> Label] /\ sync' \in [Process -> SyncRun]
      /\ OthersUnchanged(p)
      /\ \/ /\ sync[p].job /\ pc'[p] = "report"
            /\ sync'[p] = [Idle EXCEPT !.job = TRUE, !.target = sync[p].target,
                                       !.fetched = sync[p].fetched, !.failed = f]
         \/ ~sync[p].job /\ pc'[p] = "idle" /\ sync'[p] = Idle
  BY RunEnds DEF OthersUnchanged
<1>2. TypeOK'
  <2>1. \A q \in Process :
            /\ DOMAIN draft'[q] \subseteq Notice
            /\ \A n \in DOMAIN draft'[q] : Numbered(draft'[q][n])
    BY Facts DEF TypeOK
  <2> QED BY <2>1, <1>1, Facts DEF TypeOK
<1>6. /\ Idle.todo = {} /\ Idle.item = {} /\ Idle.created = {} /\ Idle.queued = {}
      /\ ~Idle.found
  BY DEF Idle
<1> DEFINE n == sync[p].target
           g == sync[p].fetched
           r == sync'[p]
<1>12. sync[p].job =>
           /\ r.job /\ r.target = n /\ r.fetched = g /\ r.failed = f
           /\ r.todo = {} /\ r.item = {} /\ r.created = {} /\ r.queued = {} /\ ~r.found
  <2> SUFFICES ASSUME sync[p].job
               PROVE  /\ r.job /\ r.target = n /\ r.fetched = g /\ r.failed = f
                      /\ r.todo = {} /\ r.item = {} /\ r.created = {} /\ r.queued = {}
                      /\ ~r.found
    OBVIOUS
  <2>1. r = [Idle EXCEPT !.job = TRUE, !.target = n, !.fetched = g, !.failed = f]
    BY <1>1
  <2> HIDE DEF n, g, r
  <2>2. r = [job |-> TRUE, target |-> n, todo |-> {}, fetched |-> g, item |-> {},
             found |-> FALSE, created |-> {}, queued |-> {}, resolved |-> {}, failed |-> f]
    BY ONLY <2>1 DEF Idle
  <2>3. r.target = n /\ r.fetched = g /\ r.failed = f
    BY ONLY <2>2
  <2>4. r.todo = {} /\ r.item = {} /\ r.created = {} /\ r.queued = {}
    BY ONLY <2>2
  <2>5. r.job = TRUE /\ r.found = FALSE
    BY ONLY <2>2
  <2> QED BY <2>3, <2>4, <2>5
<1>7. /\ sync'[p].todo = {} /\ sync'[p].item = {} /\ sync'[p].created = {}
      /\ sync'[p].queued = {} /\ ~sync'[p].found
  BY <1>1, <1>6, <1>12
<1>8. /\ pc'[p] \in {"idle", "report"}
      /\ pc'[p] = "idle" => sync'[p] = Idle
      /\ pc'[p] = "report" =>
          /\ sync[p].job /\ sync'[p].job /\ sync'[p].target = sync[p].target
          /\ sync'[p].fetched = sync[p].fetched /\ sync'[p].failed = f
  BY <1>1, <1>12
<1>9. ~Idle.job /\ Idle.target = None /\ pc'[p] \notin Saving
  BY <1>8 DEF Idle, Saving
<1>10. DraftOK(p)'
  BY <1>1 DEF DraftOK, OthersUnchanged
<1>3. FetchedOK(p)' /\ CreatedOK(p)'
  BY <1>1, <1>7, <1>8 DEF FetchedOK, CreatedOK
<1>4. RunOK(p)'
  <2>1. sync[p].job => p = Worker /\ sync[p].target # None /\ jobs[sync[p].target] # None
    BY Facts DEF ProcessOK, RunOK
  <2> QED BY <2>1, <1>7, <1>8, <1>9 DEF RunOK
<1>5. HistoryOK(p)'
  <2>1. CASE pc'[p] = "idle"
    BY <2>1 DEF HistoryOK
  <2>2. CASE pc'[p] = "report" /\ f = TRUE
    BY <2>2, <1>8 DEF HistoryOK
  <2>3. CASE pc'[p] = "report" /\ pc[p] = "chain" /\ f = sync[p].failed
    BY <2>3, <1>8, Facts DEF ProcessOK, HistoryOK
  <2> QED BY <2>1, <2>2, <2>3, <1>8
<1>11. ProcessOK(p)'
  BY <1>3, <1>4, <1>5, <1>10 DEF ProcessOK
<1> QED BY <1>1, <1>2, <1>11, Uncommitted

LEMMA FinishRunInv ==
    ASSUME IndInv, NEW p \in Process, FinishRun(p)
    PROVE  IndInv'
<1>1. DOMAIN draft' = Process /\ DOMAIN draft'[p] = {}
  BY Facts DEF FinishRun, TypeOK, ProcessOK, DraftOK, Saving
<1>2. sync[p].failed \in BOOLEAN
  BY Facts DEF SyncRun
<1> QED BY <1>1, <1>2, RunDone DEF FinishRun

\* What a rollback leaves.
LEMMA RolledBack ==
    ASSUME IndInv, NEW p \in Process, Rollback(p)
    PROVE  /\ DOMAIN draft' = Process /\ DOMAIN draft'[p] = {}
           /\ \A q \in Process \ {p} : draft'[q] = draft[q]
           /\ UNCHANGED <<versions, jobs>>
  BY Facts DEF Rollback, TypeOK, NoDraft

LEMMA RejectHistoryInv ==
    ASSUME IndInv, NEW p \in Process, RejectHistory(p)
    PROVE  IndInv'
  BY RolledBack, RunDone DEF RejectHistory

LEMMA RunFailsInv ==
    ASSUME IndInv, NEW p \in Process, RunFails(p)
    PROVE  IndInv'
  BY RolledBack, RunDone DEF RunFails

LEMMA CrashInv ==
    ASSUME IndInv, NEW p \in Process, Crash(p)
    PROVE  IndInv'
<1>1. /\ DOMAIN draft' = Process /\ DOMAIN draft'[p] = {}
      /\ \A q \in Process \ {p} : draft'[q] = draft[q]
      /\ UNCHANGED <<published, versions, jobs>>
  BY RolledBack DEF Crash
<1>2. pc'[p] = "idle" /\ sync'[p] = Idle /\ OthersUnchanged(p)
  BY <1>1, Facts DEF Crash, Goto, OthersUnchanged
<1>3. TypeOK'
  <2>1. \A q \in Process :
            /\ DOMAIN draft'[q] \subseteq Notice
            /\ \A n \in DOMAIN draft'[q] : Numbered(draft'[q][n])
    BY <1>1, Facts DEF TypeOK
  <2>2. pc' \in [Process -> Label]
    BY Facts DEF Crash, Goto, Label
  <2>3. sync' \in [Process -> SyncRun]
    <3>1. Idle \in SyncRun
      BY DEF Idle, SyncRun
    <3> QED BY <3>1, Facts DEF Crash
  <2>4. crashes' \in 0..MaxCrash
    BY Facts, ConstantsAssumption DEF Crash, TypeOK
  <2> QED BY <2>1, <2>2, <2>3, <2>4, <1>1, Facts DEF TypeOK
<1>4. ProcessOK(p)'
  BY <1>1, <1>2 DEF ProcessOK, DraftOK, RunOK, FetchedOK, HistoryOK, CreatedOK, Idle, Saving
<1> QED BY <1>1, <1>2, <1>3, <1>4, Uncommitted

-----------------------------------------------------------------------------
(* Saving an item *)

LEMMA SaveItemInv ==
    ASSUME IndInv, NEW p \in Process, SaveItem(p)
    PROVE  IndInv'
<1>1. PICK i \in sync[p].item, row \in Row :
          /\ CanTake(p, i[1]) /\ ~Refused(p, i[1])
          /\ i[2] \in DOMAIN Seen(p, i[1]) \/ row \in FreeRows(Seen(p, i[1]))
          /\ draft' = [draft EXCEPT ![p] =
                 Over([m \in {i[1]} |-> Saved(Seen(p, i[1]), i[2], row)], @)]
          /\ sync' = [sync EXCEPT
                 ![p].item = {},
                 ![p].queued = @ \cup ({Previous[i[1]]} \ {None}),
                 ![p].created = @ \cup
                     (IF ~sync[p].found /\ QueuesJobs(p) THEN {i[1]} ELSE {})]
  BY DEF SaveItem
<1> DEFINE n == i[1]
           o == i[2]
           vs == Seen(p, n)
           new == Saved(vs, o, row)
           prev == {Previous[n]} \ {None}
           cr == IF ~sync[p].found /\ QueuesJobs(p) THEN {n} ELSE {}
<1>2. /\ n \in Notice /\ o \in Order /\ o <= published[n] /\ sync[p].item = {i}
      /\ pc[p] \in Saving
  <2>1. n \in Notice /\ o \in Order
    BY Facts DEF SyncRun
  <2>2. o <= published[n]
    BY Facts DEF ProcessOK, FetchedOK
  <2>3. \A j \in sync[p].item : i = j
    BY Facts DEF ProcessOK, RunOK
  <2>4. pc[p] \in Saving
    BY Facts DEF ProcessOK, RunOK
  <2> QED BY <2>1, <2>2, <2>3, <2>4
<1>3. UNCHANGED <<published, versions, jobs, pc, crashes>>
  BY DEF SaveItem
<1>4. /\ Numbered(vs) /\ (DOMAIN vs = {} \/ Versioned(vs))
      /\ DOMAIN versions[n] \subseteq DOMAIN vs
      /\ \A q \in DOMAIN vs : q <= published[n]
  <2>1. CASE n \in DOMAIN draft[p]
    BY <2>1, <1>2, Facts DEF Seen, TypeOK, ProcessOK, DraftOK, FetchedOK
  <2>2. CASE n \notin DOMAIN draft[p]
    BY <2>2, <1>2, Facts DEF Seen, TypeOK, IndInv, OneCurrent, Stored
  <2> QED BY <2>1, <2>2
<1>5. DOMAIN new = DOMAIN vs \cup {o} /\ Numbered(new) /\ Versioned(new)
  BY <1>1, <1>2, <1>4, SavedVersioned
<1>6. /\ DOMAIN draft' = Process
      /\ draft'[p] = Over([m \in {n} |-> new], draft[p])
      /\ \A q \in Process \ {p} : draft'[q] = draft[q]
  BY <1>1, Facts DEF TypeOK
<1>7. ~LockedByOther(p, n) /\ ~(~sync[p].found /\ Stored(n))
  BY <1>1 DEF CanTake, Refused
<1>8. prev \subseteq Notice /\ \A m \in prev : \E l \in Notice : Previous[l] = m
  BY <1>2, ConstantsAssumption
<1>9. cr \subseteq {n} /\ (sync[p].target # None => cr = {})
      /\ (sync[p].target = None /\ ~sync[p].found => cr = {n})
  BY DEF QueuesJobs
<1>10. sync' = [sync EXCEPT ![p].item = {}, ![p].queued = @ \cup prev,
                            ![p].created = @ \cup cr]
  BY <1>1
<1> HIDE DEF n, o, vs, new, prev, cr
<1>11. /\ DOMAIN draft'[p] = DOMAIN draft[p] \cup {n}
       /\ draft'[p][n] = new
       /\ \A m \in DOMAIN draft[p] \ {n} : draft'[p][m] = draft[p][m]
  BY <1>6 DEF Over
<1>12. sync'[p] = [sync[p] EXCEPT !.item = {}, !.queued = @ \cup prev, !.created = @ \cup cr]
       /\ \A q \in Process \ {p} : sync'[q] = sync[q]
  BY <1>10, Facts
<1>13. sync'[p] \in SyncRun
  <2>1. cr \subseteq Notice
    BY <1>2, <1>9
  <2>2. sync[p].queued \cup prev \in SUBSET Notice /\ sync[p].created \cup cr \in SUBSET Notice
    BY <2>1, <1>8, Facts DEF SyncRun
  <2> QED BY <2>2, <1>12, Facts DEF SyncRun
<1>14. /\ sync'[p].item = {} /\ sync'[p].todo = sync[p].todo
       /\ sync'[p].created = sync[p].created \cup cr
       /\ sync'[p].queued = sync[p].queued \cup prev
       /\ sync'[p].job = sync[p].job /\ sync'[p].target = sync[p].target
       /\ sync'[p].fetched = sync[p].fetched /\ sync'[p].failed = sync[p].failed
  BY <1>12, Facts DEF SyncRun
<1>15. OthersUnchanged(p)
  BY <1>3, <1>6, <1>12 DEF OthersUnchanged
<1>16. TypeOK'
  <2>1. \A q \in Process :
            /\ DOMAIN draft'[q] \subseteq Notice
            /\ \A m \in DOMAIN draft'[q] : Numbered(draft'[q][m])
    <3>1. /\ DOMAIN draft'[p] \subseteq Notice
          /\ \A m \in DOMAIN draft'[p] : Numbered(draft'[p][m])
      BY <1>2, <1>5, <1>11, Facts DEF TypeOK
    <3> QED BY <3>1, <1>6, Facts DEF TypeOK
  <2>2. sync' \in [Process -> SyncRun]
    <3>1. sync' = [q \in Process |-> sync'[q]]
      BY <1>10, Facts
    <3>2. \A q \in Process : sync'[q] \in SyncRun
      BY <1>12, <1>13, Facts
    <3> QED BY <3>1, <3>2
  <2> QED BY <2>1, <2>2, <1>3, <1>6, Facts DEF TypeOK
<1>17. DraftOK(p)'
  <2>1. \A q \in Process : p # q => DOMAIN draft'[p] \cap DOMAIN draft'[q] = {}
    BY <1>6, <1>7, <1>11, Facts DEF ProcessOK, DraftOK, LockedByOther
  <2>2. \A m \in DOMAIN draft'[p] :
            Versioned(draft'[p][m]) /\ DOMAIN versions[m] \subseteq DOMAIN draft'[p][m]
    BY <1>4, <1>5, <1>11, Facts DEF ProcessOK, DraftOK
  <2> QED BY <2>1, <2>2, <1>2, <1>3 DEF DraftOK
<1>18. RunOK(p)'
  <2>1. pc[p] \notin {"idle", "report"}
    BY <1>2 DEF Saving
  <2> QED BY <2>1, <1>2, <1>3, <1>9, <1>14, Facts DEF ProcessOK, RunOK
<1>19. FetchedOK(p)'
  <2>1. \A m \in DOMAIN draft'[p] : \A q \in DOMAIN draft'[p][m] : q <= published[m]
    BY <1>2, <1>4, <1>5, <1>11, Facts DEF ProcessOK, FetchedOK
  <2> QED BY <2>1, <1>3, <1>14, Facts DEF ProcessOK, FetchedOK
<1>20. HistoryOK(p)'
  <2> DEFINE t == sync[p].target
  <2>1. pc[p] \notin {"chain", "report"}
    BY <1>2 DEF Saving
  <2>2. CASE pc[p] = "history"
    <3>1. /\ sync[p].fetched # {}
          /\ \A j \in sync[p].todo \cup sync[p].item : j[1] = t
          /\ DOMAIN draft[p] \subseteq {t}
      BY <2>2, Facts DEF ProcessOK, HistoryOK
    <3>2. n = t
      BY <3>1 DEF n
    <3>3. ASSUME ~sync[p].failed, NEW q \in sync[p].fetched
          PROVE  \/ <<t, q>> \in sync[p].todo
                 \/ t \in DOMAIN draft'[p] /\ q \in DOMAIN draft'[p][t]
      <4>1. \/ <<t, q>> \in sync[p].todo \cup sync[p].item
            \/ t \in DOMAIN draft[p] /\ q \in DOMAIN draft[p][t]
        BY <2>2, <3>3, Facts DEF ProcessOK, HistoryOK
      <4>2. CASE <<t, q>> \in sync[p].todo
        BY <4>2
      <4>3. CASE <<t, q>> = i
        <5>1. o = q
          BY <4>3 DEF o
        <5> QED BY <5>1, <3>2, <1>5, <1>11
      <4>4. CASE t \in DOMAIN draft[p] /\ q \in DOMAIN draft[p][t]
        <5>1. vs = draft[p][t]
          BY <4>4, <3>2 DEF vs, Seen
        <5> QED BY <5>1, <4>4, <3>2, <1>5, <1>11
      <4> QED BY <4>1, <4>2, <4>3, <4>4, <1>2
    <3> QED BY <2>2, <3>1, <3>2, <3>3, <1>3, <1>11, <1>14 DEF HistoryOK
  <2>3. CASE pc[p] # "history"
    BY <2>1, <2>3, <1>3, <1>14, Facts DEF ProcessOK, HistoryOK
  <2> QED BY <2>2, <2>3
<1>21. CreatedOK(p)'
  <2>1. pc[p] = "predecessor" => n \in sync[p].queued /\ DOMAIN draft[p] \subseteq sync[p].queued
    BY Facts DEF ProcessOK, CreatedOK, n
  <2>2. pc[p] = "predecessor" => \A j \in sync[p].todo : j[1] \in sync[p].queued
    BY Facts DEF ProcessOK, CreatedOK
  <2>3. /\ sync[p].created \subseteq DOMAIN draft[p]
        /\ \A m \in sync[p].queued : \E l \in Notice : Previous[l] = m
        /\ \A m \in DOMAIN draft[p] :
               Stored(m) \/ m \in sync[p].created \/ sync[p].target # None
    BY Facts DEF ProcessOK, CreatedOK
  <2>4. n \in DOMAIN draft[p] \/ Stored(n) \/ n \in cr \/ sync[p].target # None
    <3>1. sync[p].found => DOMAIN Seen(p, n) # {}
      BY Facts DEF ProcessOK, CreatedOK, n
    <3> QED BY <3>1, <1>7, <1>9 DEF Seen, Stored
  <2>5. \A m \in DOMAIN draft'[p] :
            Stored(m) \/ m \in sync'[p].created \/ sync[p].target # None
    BY <2>3, <2>4, <1>11, <1>14
  <2>6. \A m \in Notice : Stored(m)' = Stored(m)
    BY <1>3 DEF Stored
  <2>7. DOMAIN draft'[p] \subseteq Notice
    BY <1>16 DEF TypeOK
  <2>8. \A m \in DOMAIN draft'[p] :
            Stored(m)' \/ m \in sync'[p].created \/ sync'[p].target # None
    BY <2>5, <2>6, <2>7, <1>14
  <2>9. sync'[p].created \subseteq DOMAIN draft'[p]
    BY <2>3, <1>9, <1>11, <1>14
  <2>10. \A m \in sync'[p].queued : \E l \in Notice : Previous[l] = m
    BY <2>3, <1>8, <1>14
  <2> QED BY <2>1, <2>2, <2>8, <2>9, <2>10, <1>3, <1>11, <1>14 DEF CreatedOK
<1>22. ProcessOK(p)'
  BY <1>17, <1>18, <1>19, <1>20, <1>21 DEF ProcessOK
<1> QED BY <1>3, <1>7, <1>11, <1>15, <1>16, <1>22, Uncommitted

-----------------------------------------------------------------------------
(* Commits *)

\* The commit of a page, or of a predecessor, keeps the database consistent.
LEMMA CommitInv ==
    ASSUME IndInv, NEW p \in Process, NEW label \in Label \ Saving,
           pc[p] \in {"items", "predecessor"}, AllSaved(p), Commit(p),
           sync' = [sync EXCEPT ![p].created = {}], Goto(p, label),
           UNCHANGED <<published, crashes>>,
           label = IF pc[p] = "items" THEN "page" ELSE "chain"
    PROVE  IndInv'
<1>1. \A n \in DOMAIN draft[p] :
          /\ n \in Notice /\ Numbered(draft[p][n]) /\ Versioned(draft[p][n])
          /\ DOMAIN versions[n] \subseteq DOMAIN draft[p][n]
          /\ \A o \in DOMAIN draft[p][n] : o <= published[n]
  BY Facts DEF TypeOK, ProcessOK, DraftOK, FetchedOK
<1>2. /\ DOMAIN versions' = Notice
      /\ \A n \in DOMAIN draft[p] : versions'[n] = draft[p][n]
      /\ \A n \in Notice \ DOMAIN draft[p] : versions'[n] = versions[n]
  <2>1. ASSUME NEW n \in DOMAIN draft[p]
        PROVE  versions'[n] = draft[p][n]
    <3>1. versions'[n] = Over(draft[p][n], versions[n])
      BY <1>1 DEF Commit
    <3>2. DOMAIN draft[p][n] \cup DOMAIN versions[n] = DOMAIN draft[p][n]
      BY <1>1
    <3>3. Over(draft[p][n], versions[n]) = [x \in DOMAIN draft[p][n] |-> draft[p][n][x]]
      BY <3>2 DEF Over
    <3>4. draft[p][n] = [x \in DOMAIN draft[p][n] |-> draft[p][n][x]]
      BY <1>1 DEF Numbered
    <3> QED BY <3>1, <3>3, <3>4
  <2> QED BY <2>1 DEF Commit
<1>3. /\ DOMAIN draft' = Process /\ DOMAIN draft'[p] = {}
      /\ \A q \in Process \ {p} : draft'[q] = draft[q]
  BY Facts DEF Commit, TypeOK, NoDraft
<1>4. sync'[p] = [sync[p] EXCEPT !.created = {}]
      /\ \A q \in Process \ {p} : sync'[q] = sync[q]
  BY Facts
<1>5. sync'[p] \in SyncRun
  BY <1>4, Facts DEF SyncRun
<1>6. /\ sync'[p].created = {}
      /\ sync'[p].item = {} /\ sync'[p].todo = {}
      /\ sync'[p].queued = sync[p].queued
      /\ sync'[p].job = sync[p].job /\ sync'[p].target = sync[p].target
      /\ sync'[p].fetched = sync[p].fetched /\ sync'[p].failed = sync[p].failed
  BY <1>4, Facts DEF SyncRun, AllSaved
<1>7. pc' \in [Process -> Label] /\ pc'[p] = label /\ OthersUnchanged(p)
  BY <1>3, <1>4, Facts DEF Goto, OthersUnchanged
<1>8. /\ jobs' \in [Notice -> {None, "PENDING", "RUNNING", "FAILED", "COMPLETED"}]
      /\ \A n \in Notice : jobs[n] # None => jobs'[n] = jobs[n]
      /\ \A n \in Notice \ sync[p].created : jobs'[n] = jobs[n]
      /\ \A n \in sync[p].created : jobs'[n] # None
  <2>1. jobs \in [Notice -> {None, "PENDING", "RUNNING", "FAILED", "COMPLETED"}]
        /\ sync[p].created \subseteq Notice
    BY Facts DEF TypeOK, SyncRun
  <2>2. jobs' = [n \in Notice |->
           IF n \in sync[p].created /\ jobs[n] = None THEN "PENDING" ELSE jobs[n]]
    BY DEF Commit
  <2> QED BY <2>1, <2>2, ConstantsAssumption
<1>9. TypeOK'
  <2>1. \A n \in Notice : Numbered(versions'[n])
    BY <1>1, <1>2, Facts DEF TypeOK
  <2>2. \A q \in Process :
            /\ DOMAIN draft'[q] \subseteq Notice
            /\ \A n \in DOMAIN draft'[q] : Numbered(draft'[q][n])
    BY <1>3, Facts DEF TypeOK
  <2>3. sync' \in [Process -> SyncRun]
    <3>1. sync' = [q \in Process |-> sync'[q]]
      BY Facts
    <3>2. \A q \in Process : sync'[q] \in SyncRun
      BY <1>4, <1>5, Facts
    <3> QED BY <3>1, <3>2
  <2> QED BY <2>1, <2>2, <2>3, <1>2, <1>3, <1>7, <1>8, Facts DEF TypeOK
<1>10. Grows
  <2>1. \A n \in Notice : DOMAIN versions[n] \subseteq DOMAIN versions'[n]
    BY <1>1, <1>2
  <2>2. \A n \in Notice : published[n] <= published'[n]
    BY Facts DEF TypeOK
  <2> QED BY <2>1, <2>2, <1>8 DEF Grows
<1>11. \A q \in Process \ {p} : ProcessOK(q)'
  BY <1>2, <1>3, <1>7, <1>9, <1>10, Frame
<1>12. OneCurrent'
  <2> SUFFICES ASSUME NEW n \in Notice, DOMAIN versions'[n] # {}
               PROVE  Versioned(versions'[n])
    BY DEF OneCurrent, Stored
  <2>1. CASE n \in DOMAIN draft[p]
    BY <2>1, <1>1, <1>2
  <2>2. CASE n \notin DOMAIN draft[p]
    BY <2>2, <1>2 DEF IndInv, OneCurrent, Stored
  <2> QED BY <2>1, <2>2
<1>13. NewNoticesQueued'
  <2> SUFFICES ASSUME NEW n \in Notice, DOMAIN versions'[n] # {}, jobs'[n] = None
               PROVE  ClientLookups \/ \E m \in Notice : Previous[m] = n
    BY DEF NewNoticesQueued, Stored
  <2>1. jobs[n] = None /\ n \notin sync[p].created
    BY <1>8
  <2>2. CASE Stored(n)
    BY <2>1, <2>2 DEF IndInv, NewNoticesQueued
  <2>3. CASE ~Stored(n)
    <3>1. n \in DOMAIN draft[p]
      BY <2>3, <1>2 DEF Stored
    <3>2. sync[p].target # None
      BY <3>1, <2>1, <2>3, Facts DEF ProcessOK, CreatedOK
    <3>3. pc[p] = "predecessor"
      BY <3>2, Facts DEF ProcessOK, RunOK
    <3>4. n \in sync[p].queued
      BY <3>1, <3>3, Facts DEF ProcessOK, CreatedOK
    <3> QED BY <3>4, Facts DEF ProcessOK, CreatedOK
  <2> QED BY <2>2, <2>3
<1>14. \A n \in Notice : /\ \A o \in DOMAIN versions'[n] : o <= published'[n]
                         /\ jobs'[n] # None => Stored(n)'
  <2> SUFFICES ASSUME NEW n \in Notice
               PROVE  /\ \A o \in DOMAIN versions'[n] : o <= published'[n]
                      /\ jobs'[n] # None => DOMAIN versions'[n] # {}
    BY DEF Stored
  <2>1. CASE n \in DOMAIN draft[p]
    BY <2>1, <1>1, <1>2 DEF Versioned
  <2>2. CASE n \notin DOMAIN draft[p]
    <3>1. n \notin sync[p].created
      BY <2>2, Facts DEF ProcessOK, CreatedOK
    <3> QED BY <2>2, <3>1, <1>2, <1>8 DEF IndInv, Stored
  <2> QED BY <2>1, <2>2
<1>15. ProcessOK(p)'
  <2>1. DraftOK(p)'
    BY <1>3, <1>7 DEF DraftOK
  <2>2. FetchedOK(p)'
    BY <1>3, <1>6 DEF FetchedOK
  <2>3. RunOK(p)'
    <3>1. pc'[p] \in {"page", "chain"} /\ (pc'[p] = "page" => pc[p] = "items")
      BY <1>7
    <3> QED BY <3>1, <1>6, <1>8, Facts DEF ProcessOK, RunOK, SyncRun
  <2>4. HistoryOK(p)'
    <3>1. CASE pc[p] = "items"
      BY <3>1, <1>7 DEF HistoryOK
    <3>2. CASE pc[p] = "predecessor"
      <4>1. sync[p].target # None =>
                DOMAIN versions[sync[p].target] \subseteq DOMAIN versions'[sync[p].target]
        BY <1>10, Facts DEF SyncRun, Grows
      <4> QED BY <3>2, <4>1, <1>6, <1>7, Facts DEF ProcessOK, HistoryOK
    <3> QED BY <3>1, <3>2
  <2>5. CreatedOK(p)'
    <3>1. pc'[p] # "predecessor"
      BY <1>7
    <3> QED BY <3>1, <1>3, <1>6, Facts DEF ProcessOK, CreatedOK
  <2> QED BY <2>1, <2>2, <2>3, <2>4, <2>5 DEF ProcessOK
<1> QED BY <1>9, <1>11, <1>12, <1>13, <1>14, <1>15 DEF IndInv

LEMMA CommitPageInv ==
    ASSUME IndInv, NEW p \in Process, CommitPage(p)
    PROVE  IndInv'
<1>1. "page" \in Label \ Saving
  BY DEF Label, Saving
<1> QED BY <1>1, CommitInv DEF CommitPage

LEMMA CommitPreviousInv ==
    ASSUME IndInv, NEW p \in Process, CommitPrevious(p)
    PROVE  IndInv'
<1>1. "chain" \in Label \ Saving
  BY DEF Label, Saving
<1> QED BY <1>1, CommitInv DEF CommitPrevious

\* What a lookup commits: the draft of its notice, renumbered, with every order that
\* it has fetched.
LEMMA Resequences ==
    ASSUME IndInv, NEW p \in Process, CommitHistory(p)
    PROVE  LET n == sync[p].target
               vs == draft[p][n]
           IN  /\ n \in Notice /\ n \in DOMAIN draft[p] /\ DOMAIN draft[p] = {n}
               /\ sync[p].fetched \subseteq DOMAIN vs /\ sync[p].fetched # {}
               /\ versions' = [versions EXCEPT ![n] = Resequenced(vs)]
               /\ DOMAIN Resequenced(vs) = DOMAIN vs /\ Numbered(Resequenced(vs))
               /\ Versioned(Resequenced(vs)) /\ Sequenced(Resequenced(vs))
<1> DEFINE n == sync[p].target
           vs == draft[p][n]
<1>1. pc[p] = "history" /\ sync[p].todo = {} /\ sync[p].item = {} /\ ~sync[p].failed
  BY DEF CommitHistory, AllSaved, AcceptsHistory
<1>2. n \in Notice
  BY <1>1, Facts DEF ProcessOK, RunOK, SyncRun
<1>3. /\ sync[p].fetched # {} /\ DOMAIN draft[p] \subseteq {n}
      /\ \A o \in sync[p].fetched : n \in DOMAIN draft[p] /\ o \in DOMAIN vs
  BY <1>1, Facts DEF ProcessOK, HistoryOK
<1>4. n \in DOMAIN draft[p] /\ sync[p].fetched \subseteq DOMAIN vs
  BY <1>3
<1>5. Numbered(vs) /\ Versioned(vs)
  BY <1>4, Facts DEF TypeOK, ProcessOK, DraftOK
<1>6. versions' = [versions EXCEPT ![n] = Resequenced(vs)]
  BY <1>4 DEF CommitHistory, Seen
<1>7. /\ DOMAIN Resequenced(vs) = DOMAIN vs /\ Numbered(Resequenced(vs))
      /\ Versioned(Resequenced(vs)) /\ Sequenced(Resequenced(vs))
  BY <1>5, ResequencedVersioned
<1> QED BY <1>2, <1>3, <1>4, <1>6, <1>7

LEMMA CommitHistoryInv ==
    ASSUME IndInv, NEW p \in Process, CommitHistory(p)
    PROVE  IndInv'
<1> DEFINE n == sync[p].target
           vs == draft[p][n]
           new == Resequenced(vs)
<1>1. /\ n \in Notice /\ n \in DOMAIN draft[p] /\ DOMAIN draft[p] = {n}
      /\ sync[p].fetched \subseteq DOMAIN vs /\ sync[p].fetched # {}
      /\ versions' = [versions EXCEPT ![n] = new]
      /\ DOMAIN new = DOMAIN vs /\ Numbered(new) /\ Versioned(new)
  BY Resequences
<1>2. /\ DOMAIN versions[n] \subseteq DOMAIN vs
      /\ \A o \in DOMAIN vs : o <= published[n]
  BY <1>1, Facts DEF ProcessOK, DraftOK, FetchedOK
<1>3. /\ pc[p] = "history" /\ sync[p].todo = {} /\ sync[p].item = {}
      /\ UNCHANGED <<published, jobs, sync, crashes>>
  BY DEF CommitHistory, AllSaved
<1>4. /\ DOMAIN draft' = Process /\ DOMAIN draft'[p] = {}
      /\ \A q \in Process \ {p} : draft'[q] = draft[q]
  BY Facts DEF CommitHistory, TypeOK, NoDraft
<1>5. pc' \in [Process -> Label] /\ pc'[p] = "chain" /\ OthersUnchanged(p)
  BY <1>3, <1>4, Facts DEF CommitHistory, Goto, OthersUnchanged, Label
<1> HIDE DEF new
<1>6. /\ DOMAIN versions' = Notice /\ versions'[n] = new
      /\ \A m \in Notice \ {n} : versions'[m] = versions[m]
  BY <1>1, Facts DEF TypeOK
<1>7. TypeOK'
  <2>1. \A m \in Notice : Numbered(versions'[m])
    BY <1>1, <1>6, Facts DEF TypeOK
  <2>2. \A q \in Process :
            /\ DOMAIN draft'[q] \subseteq Notice
            /\ \A m \in DOMAIN draft'[q] : Numbered(draft'[q][m])
    BY <1>4, Facts DEF TypeOK
  <2> QED BY <2>1, <2>2, <1>3, <1>4, <1>5, <1>6, Facts DEF TypeOK
<1>8. \A m \in Notice : DOMAIN versions[m] \subseteq DOMAIN versions'[m]
  BY <1>1, <1>2, <1>6
<1>9. Grows
  BY <1>3, <1>8, Facts DEF TypeOK, Grows
<1>10. \A q \in Process \ {p} : ProcessOK(q)'
  BY <1>1, <1>4, <1>5, <1>6, <1>7, <1>9, Frame
<1>11. OneCurrent'
  BY <1>1, <1>6 DEF IndInv, OneCurrent, Stored
<1>12. NewNoticesQueued'
  <2> SUFFICES ASSUME NEW m \in Notice, DOMAIN versions'[m] # {}, jobs[m] = None
               PROVE  ClientLookups \/ \E l \in Notice : Previous[l] = m
    BY <1>3 DEF NewNoticesQueued, Stored
  <2>1. CASE m = n
    BY <2>1, <1>1, ConstantsAssumption, Facts DEF ProcessOK, RunOK
  <2>2. CASE m # n
    BY <2>2, <1>6 DEF IndInv, NewNoticesQueued, Stored
  <2> QED BY <2>1, <2>2
<1>13. \A m \in Notice : /\ \A o \in DOMAIN versions'[m] : o <= published'[m]
                         /\ jobs'[m] # None => Stored(m)'
  BY <1>1, <1>2, <1>3, <1>6 DEF IndInv, Stored
<1>14. ProcessOK(p)'
  <2>1. DraftOK(p)' /\ FetchedOK(p)'
    BY <1>3, <1>4 DEF DraftOK, FetchedOK
  <2>2. RunOK(p)'
    BY <1>1, <1>3, <1>5, ConstantsAssumption, Facts DEF ProcessOK, RunOK
  <2>3. HistoryOK(p)'
    BY <1>1, <1>3, <1>5, <1>6 DEF HistoryOK
  <2>4. CreatedOK(p)'
    <3>1. sync[p].created = {}
      BY <1>1, ConstantsAssumption, Facts DEF ProcessOK, RunOK
    <3> QED BY <3>1, <1>3, <1>4, <1>5, Facts DEF ProcessOK, CreatedOK
  <2> QED BY <2>1, <2>2, <2>3, <2>4 DEF ProcessOK
<1> QED BY <1>7, <1>10, <1>11, <1>12, <1>13, <1>14 DEF IndInv

-----------------------------------------------------------------------------
(* Backfill jobs, and G2B *)

LEMMA StartJobInv ==
    ASSUME IndInv, NEW n \in Notice, StartJob(n)
    PROVE  IndInv'
<1>1. Worker \in Process /\ sync[Worker] = Idle /\ DOMAIN draft[Worker] = {}
  <2>1. Worker \in Process
    BY DEF Process
  <2> QED BY <2>1, Facts DEF StartJob, ProcessOK, RunOK, DraftOK, Saving
<1>2. jobs[n] # None /\ n # None
  BY ConstantsAssumption DEF StartJob, Due
<1>3. UNCHANGED <<published, versions, draft, crashes>>
  BY DEF StartJob
<1>4. /\ jobs' \in [Notice -> {None, "PENDING", "RUNNING", "FAILED", "COMPLETED"}]
      /\ \A m \in Notice : jobs[m] # None <=> jobs'[m] # None
  <2>1. jobs \in [Notice -> {None, "PENDING", "RUNNING", "FAILED", "COMPLETED"}]
    BY DEF IndInv, TypeOK
  <2> QED BY <2>1, <1>2, ConstantsAssumption DEF StartJob
<1>5. sync' = [sync EXCEPT ![Worker] = [Idle EXCEPT !.job = TRUE, !.target = n]]
  BY <1>1, Facts DEF StartJob
<1>6. sync' \in [Process -> SyncRun] /\ \A q \in Process \ {Worker} : sync'[q] = sync[q]
  <2>1. [Idle EXCEPT !.job = TRUE, !.target = n] \in SyncRun
    BY DEF Idle, SyncRun
  <2> QED BY <2>1, <1>1, <1>5, Facts
<1>7. /\ sync'[Worker].job = TRUE /\ sync'[Worker].target = n
      /\ sync'[Worker].todo = {} /\ sync'[Worker].item = {}
      /\ sync'[Worker].created = {} /\ sync'[Worker].queued = {}
      /\ sync'[Worker].found = FALSE
  <2> DEFINE r == sync'[Worker]
  <2>1. r = [Idle EXCEPT !.job = TRUE, !.target = n]
    BY <1>1, <1>5, Facts
  <2> HIDE DEF r
  <2>2. r = [job |-> TRUE, target |-> n, todo |-> {}, fetched |-> {}, item |-> {},
             found |-> FALSE, created |-> {}, queued |-> {}, resolved |-> {}, failed |-> FALSE]
    BY ONLY <2>1 DEF Idle
  <2>3. r.job = TRUE /\ r.target = n /\ r.found = FALSE
    BY ONLY <2>2
  <2>4. r.todo = {} /\ r.item = {} /\ r.created = {} /\ r.queued = {}
    BY ONLY <2>2
  <2> QED BY <2>3, <2>4 DEF r
<1>8. pc' \in [Process -> Label] /\ pc'[Worker] = "lookup" /\ OthersUnchanged(Worker)
  BY <1>1, <1>3, <1>6, Facts DEF StartJob, Goto, OthersUnchanged, Label
<1>9. TypeOK'
  BY <1>1, <1>3, <1>4, <1>6, <1>8, Facts DEF TypeOK
<1>10. Grows
  BY <1>1, <1>3, <1>4, Facts DEF Grows, TypeOK
<1>11. \A q \in Process \ {Worker} : ProcessOK(q)'
  BY <1>1, <1>3, <1>8, <1>9, <1>10, Frame
<1>12. ProcessOK(Worker)'
  <2>1. DraftOK(Worker)' /\ FetchedOK(Worker)' /\ CreatedOK(Worker)'
    BY <1>1, <1>3, <1>7, <1>8 DEF DraftOK, FetchedOK, CreatedOK
  <2>2. RunOK(Worker)'
    BY <1>2, <1>4, <1>7, <1>8 DEF RunOK
  <2>3. HistoryOK(Worker)'
    BY <1>8 DEF HistoryOK
  <2> QED BY <2>1, <2>2, <2>3 DEF ProcessOK
<1>13. OneCurrent' /\ NewNoticesQueued'
  BY <1>3, <1>4 DEF IndInv, OneCurrent, NewNoticesQueued, Stored
<1>14. \A m \in Notice : /\ \A o \in DOMAIN versions'[m] : o <= published'[m]
                         /\ jobs'[m] # None => Stored(m)'
  BY <1>3, <1>4 DEF IndInv, Stored
<1> QED BY <1>9, <1>11, <1>12, <1>13, <1>14 DEF IndInv

LEMMA ReportJobInv ==
    ASSUME IndInv, ReportJob
    PROVE  IndInv'
<1> DEFINE n == sync[Worker].target
<1>1. Worker \in Process /\ n \in Notice /\ jobs[n] # None /\ DOMAIN draft[Worker] = {}
  <2>1. Worker \in Process
    BY DEF Process
  <2> QED BY <2>1, Facts DEF ReportJob, ProcessOK, RunOK, DraftOK, SyncRun, Saving
<1>2. UNCHANGED <<published, versions, draft, crashes>>
  BY DEF ReportJob
<1>3. /\ jobs' \in [Notice -> {None, "PENDING", "RUNNING", "FAILED", "COMPLETED"}]
      /\ \A m \in Notice : jobs[m] # None <=> jobs'[m] # None
  <2>1. jobs \in [Notice -> {None, "PENDING", "RUNNING", "FAILED", "COMPLETED"}]
    BY DEF IndInv, TypeOK
  <2>2. Reported(sync[Worker].failed) \in {"FAILED", "COMPLETED"}
    BY DEF Reported
  <2> QED BY <2>1, <2>2, <1>1, ConstantsAssumption DEF ReportJob
<1>4. /\ sync' \in [Process -> SyncRun] /\ sync'[Worker] = Idle
      /\ \A q \in Process \ {Worker} : sync'[q] = sync[q]
  <2>1. Idle \in SyncRun
    BY DEF Idle, SyncRun
  <2> QED BY <2>1, <1>1, Facts DEF ReportJob
<1>5. pc' \in [Process -> Label] /\ pc'[Worker] = "idle" /\ OthersUnchanged(Worker)
  BY <1>1, <1>2, <1>4, Facts DEF ReportJob, Goto, OthersUnchanged, Label
<1>6. TypeOK'
  BY <1>1, <1>2, <1>3, <1>4, <1>5, Facts DEF TypeOK
<1>7. Grows
  BY <1>1, <1>2, <1>3, Facts DEF Grows, TypeOK
<1>8. \A q \in Process \ {Worker} : ProcessOK(q)'
  BY <1>1, <1>2, <1>5, <1>6, <1>7, Frame
<1>9. ProcessOK(Worker)'
  BY <1>1, <1>2, <1>4, <1>5
     DEF ProcessOK, DraftOK, RunOK, FetchedOK, HistoryOK, CreatedOK, Idle, Saving
<1>10. OneCurrent' /\ NewNoticesQueued'
  BY <1>2, <1>3 DEF IndInv, OneCurrent, NewNoticesQueued, Stored
<1>11. \A m \in Notice : /\ \A o \in DOMAIN versions'[m] : o <= published'[m]
                         /\ jobs'[m] # None => Stored(m)'
  BY <1>2, <1>3 DEF IndInv, Stored
<1> QED BY <1>6, <1>8, <1>9, <1>10, <1>11 DEF IndInv

LEMMA PublishInv ==
    ASSUME IndInv, NEW n \in Notice, Publish(n)
    PROVE  IndInv'
<1>1. UNCHANGED <<versions, jobs, pc, sync, draft, crashes>>
  BY DEF Publish
<1>2. /\ published' \in [Notice -> 0..MaxOrder]
      /\ \A m \in Notice : published[m] <= published'[m]
  BY ConstantsAssumption DEF Publish, IndInv, TypeOK
<1>3. TypeOK'
  BY <1>1, <1>2 DEF IndInv, TypeOK
<1>4. Grows
  BY <1>1, <1>2 DEF Grows
<1>5. \A q \in Process : ProcessOK(q)'
  <2> SUFFICES ASSUME NEW q \in Process PROVE ProcessOK(q)'
    OBVIOUS
  <2>1. \A r \in Process : q # r => DOMAIN draft'[q] \cap DOMAIN draft'[r] = {}
    BY <1>1, Facts DEF ProcessOK, DraftOK
  <2> QED BY <2>1, <1>1, <1>3, <1>4, Bystander
<1>6. OneCurrent' /\ NewNoticesQueued'
  BY <1>1 DEF IndInv, OneCurrent, NewNoticesQueued, Stored
<1>7. \A m \in Notice : /\ \A o \in DOMAIN versions'[m] : o <= published'[m]
                        /\ jobs'[m] # None => Stored(m)'
  <2>1. \A m \in Notice : \A o \in DOMAIN versions[m] :
            o \in Int /\ published[m] \in Int /\ published'[m] \in Int /\ o <= published[m]
    BY <1>2, ConstantsAssumption DEF IndInv, TypeOK, Numbered, Order
  <2>2. \A m \in Notice : \A o \in DOMAIN versions[m] : o <= published'[m]
    BY <2>1, <1>2
  <2> QED BY <2>2, <1>1 DEF IndInv, Stored
<1> QED BY <1>3, <1>5, <1>6, <1>7 DEF IndInv

-----------------------------------------------------------------------------
(* The invariant *)

LEMMA InitInv == Init => IndInv
<1> SUFFICES ASSUME Init PROVE IndInv
  OBVIOUS
<1>1. \A n \in Notice : DOMAIN versions[n] = {} /\ Numbered(versions[n]) /\ ~Stored(n)
  BY DEF Init, NoVersions, Stored, Numbered
<1>2. \A p \in Process : /\ DOMAIN draft[p] = {} /\ pc[p] = "idle" /\ sync[p] = Idle
  BY DEF Init, NoDraft
<1>3. TypeOK
  <2>1. Idle \in SyncRun
    BY DEF Idle, SyncRun
  <2> QED BY <2>1, <1>1, <1>2, ConstantsAssumption DEF Init, TypeOK, Label
<1>4. \A p \in Process : ProcessOK(p)
  <2> SUFFICES ASSUME NEW p \in Process PROVE ProcessOK(p)
    OBVIOUS
  <2>1. DraftOK(p)
    BY <1>2 DEF DraftOK
  <2>2. RunOK(p)
    <3>1. Idle.todo = {} /\ Idle.item = {} /\ Idle.created = {} /\ Idle.target = None
      BY DEF Idle
    <3>2. Idle.job = FALSE
      BY DEF Idle
    <3> QED BY <3>1, <3>2, <1>2 DEF RunOK
  <2>3. FetchedOK(p) /\ CreatedOK(p)
    BY <1>2 DEF FetchedOK, CreatedOK, Idle
  <2>4. HistoryOK(p)
    BY <1>2 DEF HistoryOK
  <2> QED BY <2>1, <2>2, <2>3, <2>4 DEF ProcessOK
<1>5. OneCurrent /\ NewNoticesQueued
  BY <1>1 DEF OneCurrent, NewNoticesQueued
<1> QED BY <1>1, <1>3, <1>4, <1>5 DEF IndInv, Init

LEMMA NextInv == IndInv /\ [Next]_vars => IndInv'
<1> SUFFICES ASSUME IndInv, [Next]_vars PROVE IndInv'
  OBVIOUS
<1>1. CASE UNCHANGED vars
  BY <1>1 DEF vars, IndInv, TypeOK, OneCurrent, NewNoticesQueued, Stored, ProcessOK, DraftOK,
     RunOK, FetchedOK, HistoryOK, CreatedOK, Seen
<1>2. ASSUME NEW p \in Process, RunStep(p) PROVE IndInv'
  BY <1>2, FetchPageInv, LastPageInv, CommitPageInv, FetchHistoryInv, CommitHistoryInv,
     RejectHistoryInv, LookAtItemInv, SaveItemInv, ItemFailsInv, FetchPreviousInv,
     CommitPreviousInv, FinishRunInv, RunFailsInv DEF RunStep
<1>3. ASSUME NEW p \in Process, BeginWindow(p) \/ BeginLookup(p) \/ Crash(p) PROVE IndInv'
  BY <1>3, BeginWindowInv, BeginLookupInv, CrashInv
<1>4. ASSUME NEW n \in Notice, StartJob(n) \/ Publish(n) PROVE IndInv'
  BY <1>4, StartJobInv, PublishInv
<1>5. CASE ReportJob
  BY <1>5, ReportJobInv
<1> QED BY <1>1, <1>2, <1>3, <1>4, <1>5 DEF Next

\* The inductive invariant holds in every reachable state.
THEOREM Invariance == Spec => []IndInv
  BY InitInv, NextInv, PTL DEF Spec

\* Drafts, runs, versions and jobs always have their types; version numbers are positive.
THEOREM TypeCorrect == Spec => []TypeOK
<1>1. IndInv => TypeOK
  BY DEF IndInv
<1> QED BY <1>1, Invariance, PTL

\* The versions of every stored notice are numbered 1, 2, ... and exactly one is current,
\* with any number of clients, failures and crashes.
THEOREM OneCurrentVersion == Spec => []OneCurrent
<1>1. IndInv => OneCurrent
  BY DEF IndInv
<1> QED BY <1>1, Invariance, PTL

\* Without lookups of clients, only the predecessors of other notices are stored
\* without a backfill job.
THEOREM NewNoticesAreQueued == Spec => []NewNoticesQueued
<1>1. IndInv => NewNoticesQueued
  BY DEF IndInv
<1> QED BY <1>1, Invariance, PTL

-----------------------------------------------------------------------------
(* Lookups and jobs *)

\* A lookup stores all that it has fetched, renumbered, or changes no version.
THEOREM LookupIsWhole == Spec => LookupWhole
<1> DEFINE Whole ==
        \A p \in Process : pc[p] = "history" /\ pc'[p] # "history" =>
           \/ /\ pc'[p] = "chain"
              /\ sync[p].fetched \subseteq DOMAIN versions'[sync[p].target]
              /\ Sequenced(versions'[sync[p].target])
           \/ UNCHANGED versions
<1>1. IndInv /\ [Next]_vars => [Whole]_vars
  <2> SUFFICES ASSUME IndInv, Next, NEW p \in Process, pc[p] = "history", pc'[p] # "history",
                      ~UNCHANGED versions
               PROVE  /\ pc'[p] = "chain"
                      /\ sync[p].fetched \subseteq DOMAIN versions'[sync[p].target]
                      /\ Sequenced(versions'[sync[p].target])
    OBVIOUS
  <2>1. PICK q \in Process : CommitPage(q) \/ CommitPrevious(q) \/ CommitHistory(q)
    BY DEF Next, RunStep, BeginWindow, BeginLookup, FetchPage, LastPage, FetchHistory,
       RejectHistory, LookAtItem, SaveItem, ItemFails, FetchPrevious, FinishRun, RunFails,
       Crash, StartJob, ReportJob, Publish, Rollback
  <2>2. q = p /\ CommitHistory(p)
    BY <2>1, Facts DEF CommitPage, CommitPrevious, CommitHistory, Goto
  <2>3. pc'[p] = "chain"
    BY <2>2, Facts DEF CommitHistory, Goto
  <2>4. /\ sync[p].target \in Notice
        /\ versions' = [versions EXCEPT ![sync[p].target] =
               Resequenced(draft[p][sync[p].target])]
        /\ sync[p].fetched \subseteq DOMAIN Resequenced(draft[p][sync[p].target])
        /\ Sequenced(Resequenced(draft[p][sync[p].target]))
    BY <2>2, Resequences
  <2>5. DOMAIN versions = Notice
    BY DEF IndInv, TypeOK
  <2> QED BY <2>3, <2>4, <2>5
<1> QED BY <1>1, Invariance, PTL DEF Spec, LookupWhole

\* A job becomes COMPLETED only with all that its lookup has fetched stored.
THEOREM CompletedJobs == Spec => CompletedJobHasHistory
<1> DEFINE Complete ==
        \A n \in Notice : jobs[n] # "COMPLETED" /\ jobs'[n] = "COMPLETED" =>
           /\ sync[Worker].fetched # {}
           /\ sync[Worker].fetched \subseteq DOMAIN versions[n]
<1>1. IndInv /\ [Next]_vars => [Complete]_vars
  <2> SUFFICES ASSUME IndInv, Next, NEW n \in Notice,
                      jobs[n] # "COMPLETED", jobs'[n] = "COMPLETED"
               PROVE  /\ sync[Worker].fetched # {}
                      /\ sync[Worker].fetched \subseteq DOMAIN versions[n]
    OBVIOUS
  <2>1. jobs \in [Notice -> {None, "PENDING", "RUNNING", "FAILED", "COMPLETED"}]
    BY DEF IndInv, TypeOK
  <2>2. jobs' # jobs
    OBVIOUS
  <2>3. ASSUME NEW q \in Process, Commit(q) PROVE FALSE
    BY <2>3 DEF Commit
  <2>4. ASSUME NEW m \in Notice, StartJob(m) PROVE FALSE
    BY <2>1, <2>4 DEF StartJob
  <2>5. ReportJob
    BY <2>2, <2>3, <2>4
       DEF Next, RunStep, BeginWindow, BeginLookup, FetchPage, LastPage, FetchHistory,
       CommitHistory, CommitPage, CommitPrevious, RejectHistory, LookAtItem, SaveItem,
       ItemFails, FetchPrevious, FinishRun, RunFails, Crash, Publish, Rollback
  <2>6. n = sync[Worker].target /\ ~sync[Worker].failed
    BY <2>1, <2>5 DEF ReportJob, Reported
  <2>7. Worker \in Process
    BY DEF Process
  <2>8. pc[Worker] = "report" /\ sync[Worker].job /\ n # None
    BY <2>5, <2>6, <2>7, Facts DEF ReportJob, ProcessOK, RunOK
  <2> QED BY <2>6, <2>7, <2>8, Facts DEF ProcessOK, HistoryOK
<1> QED BY <1>1, Invariance, PTL DEF Spec, CompletedJobHasHistory

-----------------------------------------------------------------------------
(* NoticeSync implements NoticeHistory: the invariant that this needs *)

\* The current version is the one with the last number.
LastIsCurrent(vs) ==
    \A o \in DOMAIN vs : vs[o].current <=> vs[o].number = Cardinality(DOMAIN vs)

\* Versions keep their numbers.
Continues(new, old) ==
    \A o \in DOMAIN old : o \in DOMAIN new /\ new[o].number = old[o].number

\* So it is in the database; and a draft continues what is in the database.  Nobody else
\* can commit versions of its notices, as their rows are locked.
HistoryInv ==
    /\ \A n \in Notice : LastIsCurrent(versions[n])
    /\ \A p \in Process : \A n \in DOMAIN draft[p] :
           LastIsCurrent(draft[p][n]) /\ Continues(draft[p][n], versions[n])

-----------------------------------------------------------------------------
(* The refinement: versions of one notice *)

\* Both modules mean the same by the size of a set.
LEMMA SameCardinality == ASSUME NEW S PROVE History!Cardinality(S) = Cardinality(S)
  BY DEF Cardinality, History!Cardinality

\* The greatest number is the count of the versions.
LEMMA MaxNumberIsCount ==
    ASSUME NEW vs, Numbered(vs), DOMAIN vs = {} \/ Versioned(vs)
    PROVE  MaxNumber(vs) = Cardinality(DOMAIN vs)
<1> DEFINE k == Cardinality(DOMAIN vs)
<1>1. CASE DOMAIN vs = {}
  BY <1>1, FS_EmptySet DEF MaxNumber
<1>2. CASE DOMAIN vs # {}
  <2>1. DOMAIN vs \in SUBSET Order
    BY DEF Numbered
  <2>2. k \in Nat \ {0}
    BY <1>2, <2>1, OrdersFinite, FS_EmptySet
  <2>3. {vs[o].number : o \in DOMAIN vs} = 1..k
    BY <1>2 DEF Versioned
  <2> QED BY <1>2, <2>2, <2>3, MaxInterval DEF MaxNumber
<1> QED BY <1>1, <1>2

\* A version that is added gets the last number and is current; the others keep theirs.
LEMMA SavedContinues ==
    ASSUME NEW vs, Numbered(vs), DOMAIN vs = {} \/ Versioned(vs), LastIsCurrent(vs),
           NEW o \in Order, NEW row \in Row, o \in DOMAIN vs \/ row \in FreeRows(vs)
    PROVE  LastIsCurrent(Saved(vs, o, row)) /\ Continues(Saved(vs, o, row), vs)
<1>1. CASE o \in DOMAIN vs
  BY <1>1 DEF Saved, Continues
<1>2. CASE o \notin DOMAIN vs
  <2> DEFINE k == Cardinality(DOMAIN vs)
             new == Saved(vs, o, row)
  <2>1. DOMAIN vs \in SUBSET Order /\ \A q \in DOMAIN vs : vs[q] \in Version
    BY DEF Numbered
  <2>2. IsFiniteSet(DOMAIN vs) /\ k \in Nat
    BY <2>1, OrdersFinite
  <2>3. MaxNumber(vs) = k
    BY MaxNumberIsCount
  <2>4. DOMAIN new = DOMAIN vs \cup {o}
    BY <1>2 DEF Saved
  <2>5. Cardinality(DOMAIN new) = k + 1
    BY <2>4, <2>2, <1>2, FS_AddElement
  <2>6. /\ new[o] = [number |-> k + 1, current |-> TRUE, row |-> row]
        /\ \A q \in DOMAIN vs : new[q] = [vs[q] EXCEPT !.current = FALSE]
    BY <1>2, <2>3 DEF Saved
  <2>7. \A q \in DOMAIN vs : vs[q].number \in 1..k
    BY DEF Versioned
  <2> HIDE DEF k, new
  <2>8. \A q \in DOMAIN vs : new[q].number = vs[q].number /\ new[q].current = FALSE
    BY <2>1, <2>6 DEF Version
  <2>9. new[o].number = k + 1 /\ new[o].current = TRUE
    BY <2>6
  <2>10. LastIsCurrent(new)
    BY <2>2, <2>4, <2>5, <2>7, <2>8, <2>9 DEF LastIsCurrent
  <2>11. Continues(new, vs)
    BY <2>4, <2>8 DEF Continues
  <2> QED BY <2>10, <2>11 DEF new
<1> QED BY <1>1, <1>2

\* Renumbering makes the order with the last number current, and numbers each order by its
\* place.
LEMMA ResequencedLast ==
    ASSUME NEW vs, Numbered(vs), Versioned(vs)
    PROVE  /\ LastIsCurrent(Resequenced(vs))
           /\ NumbersOf(Resequenced(vs)) = History!InOrder(DOMAIN vs)
<1> DEFINE D == DOMAIN vs
           new == Resequenced(vs)
<1>1. D \in SUBSET Order /\ D # {} /\ \A o \in D : o \in Nat
  BY ConstantsAssumption DEF Numbered, Versioned, Order
<1>2. IsFiniteSet(D) /\ Cardinality(D) \in Nat
  BY <1>1, OrdersFinite
<1>3. Max(D) \in D /\ \A o \in D : o <= Max(D)
  BY <1>1, MaxOrders
<1>4. \A o \in D : RankIn(D, o) \in 1..Cardinality(D)
  BY <1>1, Ranks
<1>5. \A o, q \in D : o < q => RankIn(D, o) < RankIn(D, q)
  BY <1>1, Ranks
<1>6. DOMAIN new = D
      /\ \A o \in D : new[o].number = RankIn(D, o) /\ new[o].current = (o = Max(D))
  BY DEF Resequenced, RankIn
\* The greatest order has the last place: another one has a lower place than it.
<1>7. RankIn(D, Max(D)) = Cardinality(D)
  <2>1. {q \in D : q <= Max(D)} = D
    BY <1>3
  <2> QED BY <2>1 DEF RankIn
<1>8. \A o \in D : RankIn(D, o) = Cardinality(D) => o = Max(D)
  <2> SUFFICES ASSUME NEW o \in D, o # Max(D) PROVE RankIn(D, o) # Cardinality(D)
    OBVIOUS
  <2>1. o < Max(D)
    BY <1>1, <1>3
  <2>2. RankIn(D, o) < Cardinality(D)
    BY <1>3, <1>5, <1>7, <2>1
  <2> QED BY <2>2, <1>2
<1>9. NumbersOf(new) = [o \in D |-> RankIn(D, o)]
  BY <1>6 DEF NumbersOf
<1>10. LastIsCurrent(new)
  BY <1>6, <1>7, <1>8 DEF LastIsCurrent
<1>11. History!InOrder(D) = [o \in D |-> RankIn(D, o)]
  BY SameCardinality DEF RankIn, History!InOrder
<1> QED BY <1>9, <1>10, <1>11

\* What is in the database is a history of NoticeHistory.
LEMMA HistoryOfVersions ==
    ASSUME NEW vs, Numbered(vs), DOMAIN vs = {} \/ Versioned(vs), LastIsCurrent(vs)
    PROVE  /\ NumbersOf(vs) \in History!Histories
           /\ CurrentOf(vs) = History!LastOf(NumbersOf(vs))
<1> DEFINE D == DOMAIN vs
           f == NumbersOf(vs)
<1>1. D \in SUBSET History!Orders
  BY DEF Numbered, Order, History!Orders
<1>2. DOMAIN f = D /\ \A o \in D : f[o] = vs[o].number
  BY DEF NumbersOf
<1>3. \A o \in D : f[o] \in 1..Cardinality(D)
  BY <1>2 DEF Versioned
<1>4. \A o, q \in D : f[o] = f[q] => o = q
  BY <1>2 DEF Versioned
<1>5. f \in History!Numberings(D)
  <2>1. f = [o \in D |-> f[o]]
    BY DEF NumbersOf
  <2> QED BY <1>3, <1>4, <2>1, SameCardinality DEF History!Numberings
<1>6. CurrentOf(vs) = History!LastOf(f)
  BY <1>2, SameCardinality DEF CurrentOf, LastIsCurrent, History!LastOf
<1> QED BY <1>1, <1>5, <1>6 DEF History!Histories

-----------------------------------------------------------------------------
(* The steps *)

\* A step that commits nothing, and after which a process has the drafts it had or none.
LEMMA NothingCommitted ==
    ASSUME HistoryInv, UNCHANGED versions, DOMAIN draft' = Process,
           \A p \in Process : draft'[p] = draft[p] \/ DOMAIN draft'[p] = {}
    PROVE  HistoryInv'
  BY DEF HistoryInv

\* An item is added to a draft.
LEMMA SaveItemContinues ==
    ASSUME IndInv, HistoryInv, NEW p \in Process, SaveItem(p)
    PROVE  HistoryInv'
<1>1. PICK i \in sync[p].item, row \in Row :
          /\ i[2] \in DOMAIN Seen(p, i[1]) \/ row \in FreeRows(Seen(p, i[1]))
          /\ draft' = [draft EXCEPT ![p] =
                 Over([m \in {i[1]} |-> Saved(Seen(p, i[1]), i[2], row)], @)]
  BY DEF SaveItem
<1> DEFINE n == i[1]
           o == i[2]
           vs == Seen(p, n)
           new == Saved(vs, o, row)
<1>2. n \in Notice /\ o \in Order
  BY Facts DEF SyncRun
<1>3. Numbered(vs) /\ (DOMAIN vs = {} \/ Versioned(vs)) /\ LastIsCurrent(vs)
      /\ Continues(vs, versions[n])
  <2>1. CASE n \in DOMAIN draft[p]
    BY <2>1, Facts DEF Seen, TypeOK, ProcessOK, DraftOK, HistoryInv
  <2>2. CASE n \notin DOMAIN draft[p]
    BY <2>2, <1>2 DEF Seen, IndInv, TypeOK, OneCurrent, Stored, HistoryInv, Continues
  <2> QED BY <2>1, <2>2
<1>4. LastIsCurrent(new) /\ Continues(new, vs)
  BY <1>1, <1>2, <1>3, SavedContinues
<1>5. Continues(new, versions[n])
  BY <1>3, <1>4 DEF Continues
<1> HIDE DEF new
<1>6. /\ draft'[p] = Over([m \in {n} |-> new], draft[p])
      /\ \A q \in Process \ {p} : draft'[q] = draft[q]
  BY <1>1, Facts DEF TypeOK, new
<1>7. /\ DOMAIN draft'[p] = DOMAIN draft[p] \cup {n} /\ draft'[p][n] = new
      /\ \A m \in DOMAIN draft[p] \ {n} : draft'[p][m] = draft[p][m]
  BY <1>6 DEF Over
<1>8. UNCHANGED versions
  BY DEF SaveItem
<1> HIDE DEF n
<1>9. ASSUME NEW q \in Process, NEW m \in DOMAIN draft'[q]
      PROVE  LastIsCurrent(draft'[q][m]) /\ Continues(draft'[q][m], versions[m])
  <2>1. CASE q = p /\ m = n
    BY <2>1, <1>4, <1>5, <1>7
  <2>2. CASE q = p /\ m # n
    BY <2>2, <1>7, <1>9 DEF HistoryInv
  <2>3. CASE q # p
    BY <2>3, <1>6, <1>9 DEF HistoryInv
  <2> QED BY <2>1, <2>2, <2>3
<1> QED BY <1>8, <1>9 DEF HistoryInv

\* What a commit of drafts does to the versions.
LEMMA CommitWrites ==
    ASSUME IndInv, NEW p \in Process, Commit(p)
    PROVE  /\ DOMAIN versions' = Notice
           /\ \A n \in DOMAIN draft[p] : n \in Notice /\ versions'[n] = draft[p][n]
           /\ \A n \in Notice \ DOMAIN draft[p] : versions'[n] = versions[n]
           /\ DOMAIN draft' = Process /\ DOMAIN draft'[p] = {}
           /\ \A q \in Process \ {p} : draft'[q] = draft[q]
<1>1. \A n \in DOMAIN draft[p] :
          /\ n \in Notice /\ Numbered(draft[p][n])
          /\ DOMAIN versions[n] \subseteq DOMAIN draft[p][n]
  BY Facts DEF TypeOK, ProcessOK, DraftOK
<1>2. ASSUME NEW n \in DOMAIN draft[p]
      PROVE  versions'[n] = draft[p][n]
  <2>1. versions'[n] = Over(draft[p][n], versions[n])
    BY <1>1 DEF Commit
  <2>2. DOMAIN draft[p][n] \cup DOMAIN versions[n] = DOMAIN draft[p][n]
    BY <1>1
  <2>3. Over(draft[p][n], versions[n]) = [x \in DOMAIN draft[p][n] |-> draft[p][n][x]]
    BY <2>2 DEF Over
  <2>4. draft[p][n] = [x \in DOMAIN draft[p][n] |-> draft[p][n][x]]
    BY <1>1 DEF Numbered
  <2> QED BY <2>1, <2>3, <2>4
<1>3. /\ DOMAIN draft' = Process /\ DOMAIN draft'[p] = {}
      /\ \A q \in Process \ {p} : draft'[q] = draft[q]
  BY Facts DEF Commit, TypeOK, NoDraft
<1>4. DOMAIN versions' = Notice
      /\ \A n \in Notice \ DOMAIN draft[p] : versions'[n] = versions[n]
  BY DEF Commit
<1> QED BY <1>1, <1>2, <1>3, <1>4

\* A commit of versions of which a process holds the rows leaves the drafts of others,
\* and what they continue, alone.
LEMMA CommitKeeps ==
    ASSUME IndInv, HistoryInv, NEW p \in Process,
           \A n \in Notice : LastIsCurrent(versions'[n]),
           \A n \in Notice \ DOMAIN draft[p] : versions'[n] = versions[n],
           DOMAIN draft'[p] = {}, \A q \in Process \ {p} : draft'[q] = draft[q]
    PROVE  HistoryInv'
<1>1. ASSUME NEW q \in Process, NEW n \in DOMAIN draft'[q]
      PROVE  LastIsCurrent(draft'[q][n]) /\ Continues(draft'[q][n], versions'[n])
  <2>1. q # p /\ draft'[q] = draft[q] /\ n \in Notice
    BY <1>1, Facts DEF TypeOK
  <2>2. n \notin DOMAIN draft[p]
    BY <1>1, <2>1, Facts DEF ProcessOK, DraftOK
  <2> QED BY <1>1, <2>1, <2>2 DEF HistoryInv
<1> QED BY <1>1 DEF HistoryInv

\* A commit of a page or of predecessors is a step Grow.
LEMMA CommitGrows ==
    ASSUME IndInv, HistoryInv, IndInv', NEW p \in Process, Commit(p)
    PROVE  HistoryInv' /\ History!Grow
<1>1. /\ DOMAIN versions' = Notice
      /\ \A n \in DOMAIN draft[p] : n \in Notice /\ versions'[n] = draft[p][n]
      /\ \A n \in Notice \ DOMAIN draft[p] : versions'[n] = versions[n]
      /\ DOMAIN draft' = Process /\ DOMAIN draft'[p] = {}
      /\ \A q \in Process \ {p} : draft'[q] = draft[q]
  BY CommitWrites
<1>2. ASSUME NEW n \in Notice
      PROVE  LastIsCurrent(versions'[n]) /\ Continues(versions'[n], versions[n])
  <2>1. CASE n \in DOMAIN draft[p]
    BY <2>1, <1>1 DEF HistoryInv
  <2>2. CASE n \notin DOMAIN draft[p]
    BY <2>2, <1>1 DEF HistoryInv, Continues
  <2> QED BY <2>1, <2>2
<1>3. HistoryInv'
  BY <1>1, <1>2, CommitKeeps
<1>4. ASSUME NEW n \in Notice
      PROVE  /\ NumbersOf(versions'[n]) \in History!Histories
             /\ CurrentOf(versions'[n]) = History!LastOf(NumbersOf(versions'[n]))
  <2>1. Numbered(versions'[n]) /\ (DOMAIN versions'[n] = {} \/ Versioned(versions'[n]))
    BY DEF IndInv, TypeOK, OneCurrent, Stored
  <2> QED BY <1>2, <2>1, HistoryOfVersions
<1>5. ASSUME NEW n \in Notice
      PROVE  History!Extends(NumbersOf(versions'[n]), NumbersOf(versions[n]))
  BY <1>2 DEF Continues, NumbersOf, History!Extends
<1>6. History!Grow
  BY <1>4, <1>5 DEF History!Grow
<1> QED BY <1>3, <1>6

\* A function that differs from another one at one argument.
LEMMA ChangedAtOne ==
    ASSUME NEW S, NEW f, NEW g, NEW x \in S, NEW v,
           f = [m \in S |-> f[m]], g = [m \in S |-> g[m]],
           g[x] = v, \A m \in S \ {x} : g[m] = f[m]
    PROVE  g = [f EXCEPT ![x] = v]
OBVIOUS

\* The commit of a lookup is a step Renumber.
LEMMA CommitRenumbers ==
    ASSUME IndInv, HistoryInv, NEW p \in Process, CommitHistory(p)
    PROVE  HistoryInv' /\ \E n \in Notice : History!Renumber(n)
<1> DEFINE n == sync[p].target
           vs == draft[p][n]
           new == Resequenced(vs)
<1>1. /\ n \in Notice /\ n \in DOMAIN draft[p]
      /\ versions' = [versions EXCEPT ![n] = new]
  BY Resequences
<1>2. /\ Numbered(vs) /\ Versioned(vs)
      /\ DOMAIN versions[n] \subseteq DOMAIN vs /\ DOMAIN versions = Notice
  BY <1>1, Facts DEF TypeOK, ProcessOK, DraftOK
<1>3. /\ LastIsCurrent(new) /\ NumbersOf(new) = History!InOrder(DOMAIN vs)
      /\ Numbered(new) /\ Versioned(new)
  BY <1>2, ResequencedLast, ResequencedVersioned
<1>4. CurrentOf(new) = History!LastOf(NumbersOf(new))
  BY <1>3, HistoryOfVersions
<1>5. DOMAIN vs \in SUBSET History!Orders
  BY <1>2 DEF Numbered, Order, History!Orders
<1> HIDE DEF new, vs, n
<1>6. versions'[n] = new /\ \A m \in Notice \ {n} : versions'[m] = versions[m]
  BY <1>1, <1>2
<1>7. DOMAIN draft' = Process /\ DOMAIN draft'[p] = {}
      /\ \A q \in Process \ {p} : draft'[q] = draft[q]
  BY Facts DEF CommitHistory, TypeOK, NoDraft
<1>8. \A m \in Notice : LastIsCurrent(versions'[m])
  BY <1>3, <1>6 DEF HistoryInv
<1>9. HistoryInv'
  BY <1>1, <1>6, <1>7, <1>8, CommitKeeps
<1> DEFINE oldNumbers == [m \in Notice |-> NumbersOf(versions[m])]
           newNumbers == [m \in Notice |-> NumbersOf(versions'[m])]
           oldCurrent == [m \in Notice |-> CurrentOf(versions[m])]
           newCurrent == [m \in Notice |-> CurrentOf(versions'[m])]
<1>10. newNumbers = [oldNumbers EXCEPT ![n] = History!InOrder(DOMAIN vs)]
  <2>1. /\ newNumbers[n] = History!InOrder(DOMAIN vs)
        /\ \A m \in Notice \ {n} : newNumbers[m] = oldNumbers[m]
    BY <1>1, <1>3, <1>6
  <2>2. /\ oldNumbers = [m \in Notice |-> oldNumbers[m]]
        /\ newNumbers = [m \in Notice |-> newNumbers[m]]
    OBVIOUS
  <2> HIDE DEF oldNumbers, newNumbers
  <2> QED BY <1>1, <2>1, <2>2, ChangedAtOne
<1>11. newCurrent = [oldCurrent EXCEPT ![n] = History!LastOf(newNumbers[n])]
  <2>1. /\ newCurrent[n] = History!LastOf(newNumbers[n])
        /\ \A m \in Notice \ {n} : newCurrent[m] = oldCurrent[m]
    BY <1>1, <1>4, <1>6
  <2>2. /\ oldCurrent = [m \in Notice |-> oldCurrent[m]]
        /\ newCurrent = [m \in Notice |-> newCurrent[m]]
    OBVIOUS
  <2> HIDE DEF oldNumbers, newNumbers, oldCurrent, newCurrent
  <2> QED BY <1>1, <2>1, <2>2, ChangedAtOne
<1>12. DOMAIN NumbersOf(versions[n]) \subseteq DOMAIN vs
  BY <1>2 DEF NumbersOf
<1>13. History!Renumber(n)
  BY <1>1, <1>5, <1>6, <1>10, <1>11, <1>12 DEF History!Renumber
<1> QED BY <1>1, <1>9, <1>13

\* In the beginning there are no versions.
LEMMA InitHistory == Init => HistoryInv /\ History!HistoryInit
<1> SUFFICES ASSUME Init PROVE HistoryInv /\ History!HistoryInit
  OBVIOUS
<1>1. \A n \in Notice : versions[n] = NoVersions /\ DOMAIN versions[n] = {}
  BY DEF Init, NoVersions
<1>2. \A p \in Process : DOMAIN draft[p] = {}
  BY DEF Init, NoDraft
<1>3. HistoryInv
  BY <1>1, <1>2 DEF HistoryInv, LastIsCurrent
<1>4. \A n \in Notice : NumbersOf(versions[n]) = [o \in {} |-> 0] /\ CurrentOf(versions[n]) = {}
  BY <1>1 DEF NumbersOf, CurrentOf
<1> QED BY <1>3, <1>4 DEF History!HistoryInit

\* Every other step leaves the versions, and with them the history, alone.
LEMMA NothingElse ==
    ASSUME IndInv, HistoryInv, UNCHANGED versions, DOMAIN draft' = Process,
           \A p \in Process : draft'[p] = draft[p] \/ DOMAIN draft'[p] = {}
    PROVE  HistoryInv' /\ UNCHANGED History!history
  BY NothingCommitted DEF History!history

\* A step of a run commits a page, predecessors or a lookup, or nothing.
LEMMA RunStepHistory ==
    ASSUME IndInv, HistoryInv, IndInv', NEW p \in Process, RunStep(p)
    PROVE  HistoryInv' /\ [History!HistoryNext]_(History!history)
<1>1. DOMAIN draft = Process
  BY DEF IndInv, TypeOK
<1>2. CASE CommitPage(p) \/ CommitPrevious(p)
  BY <1>2, CommitGrows DEF CommitPage, CommitPrevious, History!HistoryNext
<1>3. CASE CommitHistory(p)
  BY <1>3, CommitRenumbers DEF History!HistoryNext
<1>4. CASE SaveItem(p)
  <2>1. UNCHANGED History!history
    BY <1>4 DEF SaveItem, History!history
  <2> QED BY <2>1, <1>4, SaveItemContinues
<1>5. CASE RejectHistory(p) \/ RunFails(p)
  <2>1. Rollback(p)
    BY <1>5 DEF RejectHistory, RunFails
  <2> QED BY <2>1, RolledBack, NothingElse
<1>6. CASE UNCHANGED <<versions, draft>>
  BY <1>1, <1>6, NothingElse
<1>7. \/ CommitPage(p) \/ CommitPrevious(p) \/ CommitHistory(p) \/ SaveItem(p)
      \/ RejectHistory(p) \/ RunFails(p) \/ UNCHANGED <<versions, draft>>
  BY DEF RunStep, FetchPage, LastPage, FetchHistory, LookAtItem, ItemFails, FetchPrevious,
     FinishRun
<1> QED BY <1>2, <1>3, <1>4, <1>5, <1>6, <1>7

\* So does every step.
LEMMA NextHistory ==
    IndInv /\ HistoryInv /\ [Next]_vars => HistoryInv' /\ [History!HistoryNext]_(History!history)
<1> SUFFICES ASSUME IndInv, HistoryInv, [Next]_vars
             PROVE  HistoryInv' /\ [History!HistoryNext]_(History!history)
  OBVIOUS
<1>1. IndInv'
  BY NextInv
<1>2. DOMAIN draft = Process
  BY DEF IndInv, TypeOK
<1>3. ASSUME NEW p \in Process, RunStep(p)
      PROVE  HistoryInv' /\ [History!HistoryNext]_(History!history)
  BY <1>1, <1>3, RunStepHistory
<1>4. ASSUME NEW p \in Process, Crash(p)
      PROVE  HistoryInv' /\ UNCHANGED History!history
  BY <1>4, RolledBack, NothingElse DEF Crash
<1>5. CASE UNCHANGED <<versions, draft>>
  BY <1>2, <1>5, NothingElse
<1>6. \/ \E p \in Process : RunStep(p) \/ Crash(p)
      \/ UNCHANGED <<versions, draft>>
  BY DEF Next, vars, BeginWindow, BeginLookup, StartJob, Publish, ReportJob
<1> QED BY <1>3, <1>4, <1>5, <1>6

\* What windows, lookups and backfill jobs of any number of sessions commit, with any
\* failures and crashes, is a history as NoticeHistory promises it.
THEOREM HistoryIsImplemented == Spec => ImplementsHistory
<1> DEFINE Inv == IndInv /\ HistoryInv
<1>1. Init => Inv /\ History!HistoryInit
  BY InitInv, InitHistory
<1>2. Inv /\ [Next]_vars => Inv' /\ [History!HistoryNext]_(History!history)
  BY NextInv, NextHistory
<1> QED BY <1>1, <1>2, PTL DEF Spec, ImplementsHistory, History!HistorySpec
===============================================================================
