------------------------------ MODULE CopilotProofs ------------------------------
(***************************************************************************)
(* Theorems about the copilot, for any tasks, facts, conversations, turns  *)
(* and bounds.  First CopilotChat: no answer is lost from a conversation,  *)
(* and an answer rests on evidence of one instant.  Then CopilotAnswers:   *)
(* what is said was verified, whatever the models draft, judge and repair. *)
(* Last CopilotActions: a decision is made on what its user had been       *)
(* shown, and what is reported as refused is never stored.                 *)
(***************************************************************************)
EXTENDS CopilotChat, CopilotAnswers, CopilotActions, SequenceTheorems, FiniteSetTheorems,
        WellFoundedInduction, TLAPS

-----------------------------------------------------------------------------
(* CopilotChat: the invariant *)

Loaded(r) == r.pc \in {"reading", "composed", "checking"}

\* What a stored conversation is, against what has been said in it.
IsWhole(c) ==
    /\ c.id <= created
    /\ c.revision = Len(said[c.id]) /\ c.messages = Trimmed(said[c.id])

\* A copy that nobody has answered since it was loaded is whole.
WholeUnlessOvertaken(copy) ==
    /\ copy \in Conversation /\ copy.id <= created
    /\ copy.revision <= Len(said[copy.id])
    /\ copy.revision = Len(said[copy.id]) => copy.messages = Trimmed(said[copy.id])

\* Fingerprints are given out before they are read.
Issued(r) == \A p \in Part : r.prints[p] <= issued

\* A turn has the item that was selected, as the part was read.
HasTheItem(r) ==
    r.item # None =>
        /\ r.item = r.target /\ r.item \in Targets
        /\ r.pc # "reading" => r.prints[r.item.part] = r.item.print

\* If what is proposed is not of the judgment that was read, the judgment has changed.
ProposalBy(r, prints) ==
    r.proposal # 0 /\ r.prints["product"] # 0 /\ r.proposal # r.prints["product"] =>
        prints["product"] # r.prints["product"]

\* A part that changed before the instant is changed for good; one that has been compared
\* had not changed at the instant.
Compared(r) ==
    \A p \in Part : r.prints[p] # 0 =>
        /\ p \notin r.plan => r.prints[p] = r.at[p]
        /\ r.prints[p] # r.at[p] => r.prints[p] # basis[p]

TurnOK(r) ==
    /\ Issued(r)
    /\ r.pc \in {"sent", "started"} \/ Loaded(r) => r.q # 0
    /\ Loaded(r) => WholeUnlessOvertaken(r.copy) /\ HasTheItem(r)
    /\ r.pc = "composed" => ProposalBy(r, basis)
    /\ r.pc = "checking" => r.at \in Basis /\ ProposalBy(r, r.at) /\ Compared(r)

StoreOK(s) ==
    /\ s \in Seq(Conversation) /\ Len(s) <= Capacity
    /\ \A i, j \in DOMAIN s : s[i].id = s[j].id => i = j
    /\ \A i \in DOMAIN s : Len(s[i].messages) <= Window

AllWhole(s) == \A i \in DOMAIN s : IsWhole(s[i])

BasisIssued == \A p \in Part : basis[p] # None => basis[p] <= issued

NothingSaidBefore == \A id \in 1..MaxConversation : id > created => said[id] = <<>>

ChatInv ==
    /\ TypeOK /\ StoreOK(store) /\ AllWhole(store) /\ BasisIssued /\ NothingSaidBefore
    /\ \A t \in Turn : TurnOK(turn[t])

-----------------------------------------------------------------------------
(* Sequences *)

RankIn(K, k) == Cardinality({j \in K : j <= k})

\* The places kept are the first, the second, ... of those that are kept.
LEMMA Ranks ==
    ASSUME NEW n \in Nat, NEW K \in SUBSET (1..n)
    PROVE  /\ IsFiniteSet(K) /\ Cardinality(K) \in 0..n
           /\ K # 1..n => Cardinality(K) < n
           /\ \A k \in K : RankIn(K, k) \in 1..Cardinality(K)
           /\ \A j, k \in K : RankIn(K, j) = RankIn(K, k) => j = k
           /\ \A i \in 1..Cardinality(K) : \E k \in K : RankIn(K, k) = i
<1> DEFINE size == Cardinality(K)
           upto(k) == {j \in K : j <= k}
<1>1. IsFiniteSet(K) /\ size \in Nat /\ size <= n /\ (K # 1..n => size # n)
  <2>1. IsFiniteSet(1..n) /\ Cardinality(1..n) = n
    BY FS_Interval
  <2> QED BY <2>1, FS_Subset, FS_CardinalityType
<1>2. ASSUME NEW k \in K
      PROVE  IsFiniteSet(upto(k)) /\ RankIn(K, k) \in 1..size
  <2>1. upto(k) \in SUBSET K /\ k \in upto(k)
    OBVIOUS
  <2>2. IsFiniteSet(upto(k)) /\ Cardinality(upto(k)) <= size
    BY <2>1, <1>1, FS_Subset
  <2>3. Cardinality(upto(k)) \in Nat /\ Cardinality(upto(k)) # 0
    BY <2>1, <2>2, FS_CardinalityType, FS_EmptySet
  <2> QED BY <2>2, <2>3, <1>1 DEF RankIn
<1>3. \A j, k \in K : j < k => RankIn(K, j) # RankIn(K, k)
  <2> SUFFICES ASSUME NEW j \in K, NEW k \in K, j < k
               PROVE  Cardinality(upto(j)) # Cardinality(upto(k))
    BY DEF RankIn
  <2>0. (\A i \in K : i <= j => i <= k) /\ k <= k /\ ~(k <= j)
    OBVIOUS
  <2>1. upto(j) \in SUBSET upto(k) /\ k \in upto(k) /\ k \notin upto(j)
    BY <2>0
  <2>2. upto(j) # upto(k)
    BY <2>1
  <2> QED BY <2>1, <2>2, <1>2, FS_Subset
<1>4. \A j, k \in K : RankIn(K, j) = RankIn(K, k) => j = k
  <2> SUFFICES ASSUME NEW j \in K, NEW k \in K, j # k
               PROVE  RankIn(K, j) # RankIn(K, k)
    OBVIOUS
  <2>1. j < k \/ k < j
    OBVIOUS
  <2> QED BY <2>1, <1>3
<1>5. \A i \in 1..size : \E k \in K : RankIn(K, k) = i
  <2> DEFINE rank == [k \in K |-> RankIn(K, k)]
  <2>1. rank \in Injection(K, 1..size)
    BY <1>2, <1>4 DEF Injection, IsInjective
  <2>2. IsFiniteSet(1..size) /\ Cardinality(1..size) = size
    BY <1>1, FS_Interval
  <2>3. rank \in Surjection(K, 1..size)
    BY <2>1, <2>2, FS_Injection
  <2> QED BY <2>3 DEF Surjection
<1>6. \A k \in K : RankIn(K, k) \in 1..size
  BY <1>2
<1> HIDE DEF upto
<1> QED BY <1>1, <1>4, <1>5, <1>6

\* Keeping some places of a sequence keeps just the elements there, each at one place.
LEMMA KeptElements ==
    ASSUME NEW S, NEW s \in Seq(S), NEW K \in SUBSET DOMAIN s
    PROVE  /\ Kept(s, K) \in Seq(S) /\ Len(Kept(s, K)) <= Len(s)
           /\ K # DOMAIN s => Len(Kept(s, K)) < Len(s)
           /\ \A i \in DOMAIN Kept(s, K) : \E k \in K : Kept(s, K)[i] = s[k]
           /\ \A i, j \in DOMAIN Kept(s, K) : i # j =>
                 \E k, l \in K : k # l /\ Kept(s, K)[i] = s[k] /\ Kept(s, K)[j] = s[l]
<1> DEFINE size == Cardinality(K)
           place(i) == CHOOSE k \in K : RankIn(K, k) = i
<1>1. Len(s) \in Nat /\ DOMAIN s = 1..Len(s) /\ \A k \in K : s[k] \in S
  BY LenProperties
<1>2. /\ size \in Nat /\ size <= Len(s) /\ (K # DOMAIN s => size < Len(s))
      /\ \A i \in 1..size : \E k \in K : RankIn(K, k) = i
  BY <1>1, Ranks
<1>3. \A i \in 1..size : place(i) \in K /\ RankIn(K, place(i)) = i
  BY <1>2
<1>4. Kept(s, K) = [i \in 1..size |-> s[place(i)]]
  BY DEF Kept, RankIn
<1> HIDE DEF place, size
<1>5. Kept(s, K) \in [1..size -> S]
  BY <1>1, <1>3, <1>4
<1>6. Kept(s, K) \in Seq(S) /\ Len(Kept(s, K)) = size
  BY <1>2, <1>5
<1>7. \A i, j \in 1..size : i # j => place(i) # place(j)
  BY <1>3
<1>8. DOMAIN Kept(s, K) = 1..size
  BY <1>4
<1>9. \A i \in 1..size : Kept(s, K)[i] = s[place(i)]
  BY <1>4
<1>10. \A i, j \in DOMAIN Kept(s, K) : i # j =>
          \E k, l \in K : k # l /\ Kept(s, K)[i] = s[k] /\ Kept(s, K)[j] = s[l]
  BY <1>3, <1>7, <1>8, <1>9
<1> QED BY <1>2, <1>3, <1>6, <1>8, <1>9, <1>10

\* The last messages of a conversation are enough to know the last ones of its next.
LEMMA TrimmedAppend ==
    ASSUME NEW S, NEW s \in Seq(S), NEW e \in S
    PROVE  /\ Trimmed(s) \in Seq(S) /\ Len(Trimmed(s)) <= Window
           /\ Trimmed(Append(Trimmed(s), e)) = Trimmed(Append(s, e))
<1> DEFINE L == Len(s)
           low(n) == IF n > Window THEN n - Window + 1 ELSE 1
           a == Append(s, e)
           b == Append(Trimmed(s), e)
<1>1. Window \in Nat \ {0}
  BY ChatAssumption
<1>2. ASSUME NEW m \in Seq(S)
      PROVE  /\ Trimmed(m) \in Seq(S)
             /\ Len(Trimmed(m)) = IF Len(m) > Window THEN Window ELSE Len(m)
             /\ \A i \in 1..Len(Trimmed(m)) : Trimmed(m)[i] = m[low(Len(m)) + i - 1]
  <2>1. Len(m) \in Nat /\ \A i \in 1..Len(m) : m[i] \in S
    BY LenProperties
  <2>2. low(Len(m)) \in Int /\ \A i \in low(Len(m))..Len(m) : m[i] \in S
    BY <1>1, <2>1
  <2>3. /\ SubSeq(m, low(Len(m)), Len(m)) \in Seq(S)
        /\ Len(SubSeq(m, low(Len(m)), Len(m))) =
             IF low(Len(m)) <= Len(m) THEN Len(m) - low(Len(m)) + 1 ELSE 0
        /\ \A i \in 1..(Len(m) - low(Len(m)) + 1) :
             SubSeq(m, low(Len(m)), Len(m))[i] = m[low(Len(m)) + i - 1]
    BY <2>1, <2>2, SubSeqProperties
  <2>4. Trimmed(m) = SubSeq(m, low(Len(m)), Len(m))
    BY DEF Trimmed
  <2> HIDE DEF low
  <2>5. CASE Len(m) > Window
    <3>1. low(Len(m)) = Len(m) - Window + 1
      BY <2>5 DEF low
    <3>2. low(Len(m)) <= Len(m) /\ Len(m) - low(Len(m)) + 1 = Window
      BY <1>1, <2>1, <2>5, <3>1
    <3> QED BY <2>3, <2>4, <2>5, <3>2
  <2>6. CASE ~(Len(m) > Window)
    <3>1. low(Len(m)) = 1
      BY <2>6 DEF low
    <3>2. Len(m) - low(Len(m)) + 1 = Len(m) /\ (1 > Len(m) => Len(m) = 0)
      BY <2>1, <3>1
    <3> QED BY <2>1, <2>3, <2>4, <2>6, <3>1, <3>2
  <2> QED BY <2>5, <2>6
<1>3. L \in Nat /\ Trimmed(s) \in Seq(S)
      /\ Len(Trimmed(s)) = (IF L > Window THEN Window ELSE L)
      /\ \A i \in 1..Len(Trimmed(s)) : Trimmed(s)[i] = s[low(L) + i - 1]
  BY <1>2, LenProperties
<1>4. /\ a \in Seq(S) /\ Len(a) = L + 1 /\ a[L + 1] = e /\ \A i \in 1..L : a[i] = s[i]
  BY AppendProperties
<1>5. /\ b \in Seq(S) /\ Len(b) = Len(Trimmed(s)) + 1 /\ b[Len(Trimmed(s)) + 1] = e
      /\ \A i \in 1..Len(Trimmed(s)) : b[i] = Trimmed(s)[i]
  BY <1>3, AppendProperties
<1> HIDE DEF a, b
<1>6. /\ Trimmed(a) \in Seq(S) /\ Trimmed(b) \in Seq(S)
      /\ Len(Trimmed(a)) = (IF L + 1 > Window THEN Window ELSE L + 1)
      /\ Len(Trimmed(b)) = (IF Len(b) > Window THEN Window ELSE Len(b))
      /\ \A i \in 1..Len(Trimmed(a)) : Trimmed(a)[i] = a[low(L + 1) + i - 1]
      /\ \A i \in 1..Len(Trimmed(b)) : Trimmed(b)[i] = b[low(Len(b)) + i - 1]
  <2>1. /\ Trimmed(a) \in Seq(S)
        /\ Len(Trimmed(a)) = (IF Len(a) > Window THEN Window ELSE Len(a))
        /\ \A i \in 1..Len(Trimmed(a)) : Trimmed(a)[i] = a[low(Len(a)) + i - 1]
    BY <1>2, <1>4
  <2>2. /\ Trimmed(b) \in Seq(S)
        /\ Len(Trimmed(b)) = (IF Len(b) > Window THEN Window ELSE Len(b))
        /\ \A i \in 1..Len(Trimmed(b)) : Trimmed(b)[i] = b[low(Len(b)) + i - 1]
    BY <1>2, <1>5
  <2> HIDE DEF low
  <2> QED BY <1>4, <2>1, <2>2
<1>7. Len(Trimmed(a)) = Len(Trimmed(b)) /\ Len(Trimmed(a)) \in Nat
  BY <1>1, <1>3, <1>5, <1>6
<1>8. ASSUME NEW i \in 1..Len(Trimmed(a)) PROVE Trimmed(a)[i] = Trimmed(b)[i]
  <2>1. CASE L > Window
    <3>1. /\ i \in 1..Window /\ Len(b) = Window + 1 /\ low(Len(b)) = 2
          /\ low(L + 1) = L + 1 - Window + 1 /\ low(L) = L - Window + 1
      BY <1>1, <1>3, <1>5, <1>6, <2>1
    <3>2. Trimmed(a)[i] = a[L + 1 - Window + i] /\ Trimmed(b)[i] = b[i + 1]
      BY <1>1, <1>3, <1>6, <1>7, <3>1
    <3>3. CASE i = Window
      <4>1. L + 1 - Window + i = L + 1 /\ Len(Trimmed(s)) = Window
        BY <1>1, <1>3, <2>1, <3>3
      <4> QED BY <1>4, <1>5, <3>2, <3>3, <4>1
    <3>4. CASE i < Window
      <4>1. b[i + 1] = Trimmed(s)[i + 1] /\ Trimmed(s)[i + 1] = s[L - Window + 1 + i]
        BY <1>1, <1>3, <1>5, <2>1, <3>1, <3>4
      <4>2. L + 1 - Window + i = L - Window + 1 + i /\ L - Window + 1 + i \in 1..L
        BY <1>1, <1>3, <2>1, <3>1, <3>4
      <4> QED BY <1>4, <3>2, <4>1, <4>2
    <3> QED BY <1>1, <3>1, <3>3, <3>4
  <2>2. CASE ~(L > Window)
    <3>1. Len(b) = L + 1 /\ low(L) = 1
      BY <1>1, <1>3, <1>5, <2>2
    <3>2. \A j \in 1..(L + 1) : a[j] = b[j]
      BY <1>3, <1>4, <1>5, <2>2, <3>1
    <3>3. low(L + 1) + i - 1 \in 1..(L + 1)
      BY <1>1, <1>3, <1>6, <2>2
    <3> QED BY <1>6, <1>7, <3>1, <3>2, <3>3
  <2> QED BY <2>1, <2>2
<1>9. Trimmed(a) = Trimmed(b)
  BY <1>6, <1>7, <1>8, SeqEqual
<1> QED BY <1>1, <1>3, <1>9 DEF a, b

-----------------------------------------------------------------------------
(* Turns that read *)

LEMMA TurnKept ==
    ASSUME NEW r \in TurnState, TurnOK(r), created \in Nat, created' \in Nat, created <= created',
           UNCHANGED <<basis, issued, said>>
    PROVE  TurnOK(r)'
<1>1. WholeUnlessOvertaken(r.copy) => WholeUnlessOvertaken(r.copy)'
  BY DEF WholeUnlessOvertaken, Conversation
<1>2. /\ Issued(r) => Issued(r)' /\ Loaded(r)' = Loaded(r) /\ HasTheItem(r)' = HasTheItem(r)
      /\ Compared(r) => Compared(r)'
      /\ ProposalBy(r, basis) => ProposalBy(r, basis)'
      /\ ProposalBy(r, r.at) => ProposalBy(r, r.at)'
  BY DEF Issued, Loaded, HasTheItem, Compared, ProposalBy
<1> QED BY <1>1, <1>2 DEF TurnOK

\* A step of one turn that leaves the evidence and what was said alone.
LEMMA TurnsKept ==
    ASSUME ChatInv, NEW t \in Turn, NEW r \in TurnState, Step(t, r), TurnOK(r)',
           created' \in Nat, created <= created', UNCHANGED <<basis, issued, said>>
    PROVE  turn' \in [Turn -> TurnState] /\ (\A u \in Turn : TurnOK(turn[u]))'
<1>1. turn \in [Turn -> TurnState] /\ created \in Nat
  BY ChatAssumption DEF ChatInv, TypeOK
<1>2. turn' = [turn EXCEPT ![t] = r]
  BY DEF Step
<1>3. ASSUME NEW u \in Turn PROVE TurnOK(turn[u])'
  <2>1. CASE u = t
    <3>1. turn'[u] = r
      BY <1>1, <1>2, <2>1
    <3> QED BY <3>1
  <2>2. CASE u # t
    <3>1. turn'[u] = turn[u] /\ turn[u] \in TurnState /\ TurnOK(turn[u])
      BY <1>1, <1>2, <2>2 DEF ChatInv
    <3>2. \A q \in TurnState : TurnOK(q) => TurnOK(q)'
      BY <1>1, TurnKept
    <3> QED BY <3>1, <3>2
  <2> QED BY <2>1, <2>2
<1> QED BY <1>1, <1>2, <1>3

LEMMA WholeKept ==
    ASSUME NEW c \in Conversation, IsWhole(c), created \in Nat, created' \in Nat,
           created <= created', UNCHANGED said
    PROVE  IsWhole(c)'
  BY DEF IsWhole, Conversation

\* A step of one turn that leaves the store alone as well.
LEMMA StepHolds ==
    ASSUME ChatInv, NEW t \in Turn, NEW r \in TurnState, Step(t, r), TurnOK(r)',
           UNCHANGED <<now, basis, issued, store, created, said>>,
           asked' \in 0..MaxAsked, tab' \in TabState
    PROVE  ChatInv'
<1>1. created \in Nat
  BY ChatAssumption DEF ChatInv, TypeOK
<1>2. turn' \in [Turn -> TurnState] /\ (\A u \in Turn : TurnOK(turn[u]))'
  BY <1>1, TurnsKept
<1>3. TypeOK'
  BY <1>2 DEF ChatInv, TypeOK
<1>4. StoreOK(store)' /\ AllWhole(store)'
  BY DEF ChatInv, StoreOK, AllWhole, IsWhole
<1>5. BasisIssued' /\ NothingSaidBefore'
  BY DEF ChatInv, BasisIssued, NothingSaidBefore
<1> QED BY <1>2, <1>3, <1>4, <1>5 DEF ChatInv

LEMMA TurnTyped ==
    ASSUME ChatInv, NEW t \in Turn
    PROVE  turn[t] \in TurnState /\ TurnOK(turn[t])
  BY DEF ChatInv, TypeOK

LEMMA Typed ==
    ASSUME ChatInv
    PROVE  /\ tab \in TabState /\ asked \in 0..MaxAsked /\ basis \in Basis /\ issued \in 1..MaxIssued
           /\ created \in 0..MaxConversation /\ now \in 0..MaxNow
           /\ MaxAsked \in Nat /\ MaxIssued \in Nat /\ MaxConversation \in Nat /\ MaxNow \in Nat
           /\ "product" \in Part /\ None \notin Nat
  BY ChatAssumption DEF ChatInv, TypeOK, Part

LEMMA UnreadTyped == Unread \in Prints /\ \A p \in Part : Unread[p] = 0
  BY ChatAssumption DEF Unread, Prints

LEMMA IdleTyped ==
    IdleTurn \in TurnState /\ IdleTurn.pc = "idle" /\ IdleTurn.prints = Unread
  BY UnreadTyped, ChatAssumption DEF IdleTurn, TurnState, ConversationOrNone

LEMMA EndedTyped ==
    ASSUME NEW r \in TurnState, NEW reply \in {None} \cup Reply
    PROVE  /\ Ended(r, reply) \in TurnState /\ Ended(r, reply).pc = "ended"
           /\ Ended(r, reply).prints = Unread
<1>1. /\ r.seen \in Nat /\ r.conv \in ConversationOrNone /\ r.rev \in Nat
      /\ r.target \in {None} \cup Targets
  BY DEF TurnState
<1>2. Ended(r, reply) = [IdleTurn EXCEPT !.pc = "ended", !.seen = r.seen, !.conv = r.conv,
                            !.rev = r.rev, !.target = r.target, !.reply = reply]
  BY DEF Ended
<1> QED BY <1>1, <1>2, IdleTyped DEF TurnState

LEMMA SendHolds ==
    ASSUME ChatInv, NEW t \in Turn, NEW conv \in ConversationOrNone, NEW rev \in Nat,
           NEW target \in {None} \cup Targets, Send(t, conv, rev, target)
    PROVE  ChatInv'
<1>1. /\ asked < MaxAsked /\ asked' = asked + 1
      /\ tab' = [tab EXCEPT !.busy = TRUE, !.seen = @ + 1]
      /\ UNCHANGED <<now, basis, issued, store, created, said>>
  BY DEF Send
<1>2. tab' \in TabState /\ asked' \in 0..MaxAsked /\ asked' # 0
  <2>1. tab.seen + 1 \in Nat /\ asked \in 0..MaxAsked /\ MaxAsked \in Nat
    BY Typed DEF TabState
  <2>2. tab' \in TabState
    BY <1>1, <2>1, Typed DEF TabState
  <2> QED BY <1>1, <2>1, <2>2
<1>3. PICK r : /\ r = [IdleTurn EXCEPT !.pc = "sent", !.q = asked + 1, !.seen = tab.seen + 1,
                                       !.conv = conv, !.rev = rev, !.target = target]
               /\ Step(t, r)
  BY DEF Send
<1>4. /\ tab.seen + 1 \in Nat /\ asked + 1 \in 0..MaxAsked /\ asked + 1 # 0
      /\ None \in ConversationOrNone
  BY Typed, <1>1 DEF TabState, ConversationOrNone
<1>5. r \in TurnState /\ r.pc = "sent" /\ r.prints = Unread /\ r.q # 0
  BY IdleTyped, <1>3, <1>4 DEF TurnState
<1>6. TurnOK(r)'
  BY <1>1, <1>5, Typed, UnreadTyped DEF TurnOK, Issued, Loaded
<1> QED BY <1>1, <1>2, <1>3, <1>5, <1>6, StepHolds

LEMMA ReceiveHolds ==
    ASSUME ChatInv, NEW t \in Turn, Receive(t)
    PROVE  ChatInv'
<1>1. /\ Step(t, IdleTurn) /\ UNCHANGED <<now, basis, issued, store, created, asked, said>>
  BY DEF Receive
<1>2. tab' \in TabState
  <2>1. turn[t] \in TurnState /\ tab \in TabState
    BY Typed, TurnTyped
  <2>2. ASSUME turn[t].reply # None,
               tab' = [tab EXCEPT !.busy = FALSE, !.conv = turn[t].reply.conv,
                                  !.rev = turn[t].reply.rev, !.failed = None,
                                  !.targets = @ \cup turn[t].reply.targets]
        PROVE  tab' \in TabState
    <3>1. turn[t].reply \in Reply
      BY <2>1, <2>2 DEF TurnState
    <3> QED BY <2>1, <2>2, <3>1 DEF TabState, Reply, ConversationOrNone
  <2>3. ASSUME tab' = [tab EXCEPT !.busy = FALSE,
                               !.failed = [conv |-> turn[t].conv, rev |-> turn[t].rev,
                                           target |-> turn[t].target]]
        PROVE  tab' \in TabState
    <3>1. [conv |-> turn[t].conv, rev |-> turn[t].rev, target |-> turn[t].target] \in Request
      BY <2>1 DEF TurnState, Request
    <3> QED BY <2>1, <2>3, <3>1 DEF TabState
  <2> QED BY <2>1, <2>2, <2>3 DEF Receive
<1>3. IdleTurn \in TurnState /\ TurnOK(IdleTurn)'
  BY <1>1, IdleTyped, UnreadTyped, Typed DEF TurnOK, Issued, Loaded
<1> QED BY <1>1, <1>2, <1>3, StepHolds, Typed

LEMMA FailHolds ==
    ASSUME ChatInv, NEW t \in Turn, Fail(t),
           UNCHANGED <<now, basis, issued, store, created, asked, tab, said>>
    PROVE  ChatInv'
<1>1. PICK r : r = Ended(turn[t], None) /\ Step(t, r)
  BY DEF Fail
<1>2. r \in TurnState /\ r.pc = "ended" /\ r.prints = Unread
  BY <1>1, TurnTyped, EndedTyped
<1>3. TurnOK(r)'
  BY <1>2, UnreadTyped, Typed DEF TurnOK, Issued, Loaded
<1> QED BY <1>1, <1>2, <1>3, StepHolds, Typed

LEMMA StartHolds ==
    ASSUME ChatInv, NEW t \in Turn, Start(t)
    PROVE  ChatInv'
<1> DEFINE print == IF basis["product"] = None THEN 0 ELSE basis["product"]
<1>1. PICK r : r = [turn[t] EXCEPT !.pc = "started", !.prints["product"] = print] /\ Step(t, r)
  BY DEF Start
<1>2. turn[t] \in TurnState /\ TurnOK(turn[t]) /\ turn[t].pc = "sent"
  BY TurnTyped DEF Start
<1>3. print \in 0..MaxIssued /\ print <= issued /\ issued \in Nat
  <2>1. basis["product"] \in {None} \cup 1..MaxIssued /\ MaxIssued \in Nat /\ issued \in Nat
    BY Typed DEF Basis
  <2>2. basis["product"] # None => basis["product"] <= issued
    BY Typed DEF ChatInv, BasisIssued
  <2> QED BY <2>1, <2>2
<1> HIDE DEF print
<1>4. /\ turn[t].prints \in Prints /\ turn[t].q # 0
      /\ \A p \in Part : turn[t].prints[p] <= issued
  BY <1>2 DEF TurnState, TurnOK, Issued
<1>5. /\ r.pc = "started" /\ r.q # 0 /\ r.prints = [turn[t].prints EXCEPT !["product"] = print]
      /\ r \in TurnState
  <2>1. [turn[t].prints EXCEPT !["product"] = print] \in Prints
    BY <1>3, <1>4 DEF Prints
  <2>2. /\ r.prints = [turn[t].prints EXCEPT !["product"] = print] /\ r.q = turn[t].q
        /\ r = [turn[t] EXCEPT !.pc = "started", !.prints = r.prints]
    BY <1>1, <1>2 DEF TurnState
  <2> QED BY <1>2, <1>4, <2>1, <2>2 DEF TurnState
<1>6. UNCHANGED <<now, basis, issued, store, created, asked, tab, said>>
  BY DEF Start
<1>7. TurnOK(r)'
  <2>1. \A p \in Part : r.prints[p] <= issued
    BY <1>3, <1>4, <1>5 DEF Prints
  <2> QED BY <1>5, <1>6, <2>1 DEF TurnOK, Issued, Loaded
<1> QED BY <1>1, <1>5, <1>6, <1>7, StepHolds, Typed

LEMMA ReadHolds ==
    ASSUME ChatInv, NEW t \in Turn, Read(t)
    PROVE  ChatInv'
<1>0. PICK p \in turn[t].plan : \E print \in MayFind(turn[t], p) :
        Step(t, [turn[t] EXCEPT !.plan = @ \ {p}, !.prints[p] = print])
  BY DEF Read
<1>1. PICK print \in {0, turn[t].prints[p]} \cup ({basis[p]} \ {None}) :
        Step(t, [turn[t] EXCEPT !.plan = @ \ {p}, !.prints[p] = print])
  BY <1>0 DEF MayFind
<1>2. PICK r : r = [turn[t] EXCEPT !.plan = @ \ {p}, !.prints[p] = print] /\ Step(t, r)
  BY <1>1
<1>3. turn[t] \in TurnState /\ TurnOK(turn[t]) /\ turn[t].pc = "reading"
  BY TurnTyped DEF Read
<1>4. /\ turn[t].prints \in Prints /\ turn[t].q # 0 /\ turn[t].plan \subseteq Part
      /\ \A o \in Part : turn[t].prints[o] <= issued
      /\ WholeUnlessOvertaken(turn[t].copy) /\ HasTheItem(turn[t])
  BY <1>3 DEF TurnState, TurnOK, Issued, Loaded
<1>5. print \in 0..MaxIssued /\ print <= issued /\ p \in Part
  <2>1. p \in Part /\ basis[p] \in {None} \cup 1..MaxIssued /\ MaxIssued \in Nat /\ issued \in Nat
    BY Typed, <1>4 DEF Basis
  <2>2. basis[p] # None => basis[p] <= issued
    BY <2>1 DEF ChatInv, BasisIssued
  <2>3. turn[t].prints[p] \in 0..MaxIssued /\ turn[t].prints[p] <= issued
    BY <1>4, <2>1 DEF Prints
  <2> QED BY <2>1, <2>2, <2>3
<1>6. /\ r.pc = "reading" /\ r.q = turn[t].q /\ r.prints = [turn[t].prints EXCEPT ![p] = print]
      /\ r.item = turn[t].item /\ r.target = turn[t].target /\ r.copy = turn[t].copy
      /\ r \in TurnState
  <2>1. [turn[t].prints EXCEPT ![p] = print] \in Prints /\ turn[t].plan \ {p} \in SUBSET Part
    BY <1>4, <1>5 DEF Prints
  <2>2. /\ r.prints = [turn[t].prints EXCEPT ![p] = print] /\ r.plan = turn[t].plan \ {p}
        /\ r = [turn[t] EXCEPT !.plan = r.plan, !.prints = r.prints]
    BY <1>2, <1>3 DEF TurnState
  <2> QED BY <1>3, <2>1, <2>2 DEF TurnState
<1>7. UNCHANGED <<now, basis, issued, store, created, asked, tab, said>>
  BY DEF Read
<1>8. TurnOK(r)'
  <2>1. \A o \in Part : r.prints[o] <= issued
    BY <1>4, <1>5, <1>6 DEF Prints
  <2>2. HasTheItem(r)
    BY <1>4, <1>6 DEF HasTheItem
  <2>3. TurnOK(r)
    BY <1>4, <1>6, <2>1, <2>2 DEF TurnOK, Issued, Loaded
  <2> QED BY <1>6, <1>7, <2>3, TurnKept, Typed
<1> QED BY <1>2, <1>6, <1>7, <1>8, StepHolds, Typed

\* What is proposed is the judgment as it is now.
LEMMA ComposeHolds ==
    ASSUME ChatInv, NEW t \in Turn, Compose(t)
    PROVE  ChatInv'
<1> DEFINE proposals == {0} \cup (IF turn[t].target = None \/ Selected(turn[t])
                                 THEN {basis["product"]} \ {None} ELSE {})
           item == IF Selected(turn[t]) THEN turn[t].item ELSE None
           targets == IF Moved(turn[t]) THEN {} ELSE turn[t].copy.targets
<1>1. PICK proposal \in proposals :
        Step(t, [turn[t] EXCEPT !.pc = "composed", !.proposal = proposal, !.item = item,
                                !.copy.targets = targets])
  BY DEF Compose
<1>2. PICK r : /\ r = [turn[t] EXCEPT !.pc = "composed", !.proposal = proposal, !.item = item,
                                     !.copy.targets = targets]
               /\ Step(t, r)
  BY <1>1
<1>3. turn[t] \in TurnState /\ TurnOK(turn[t]) /\ turn[t].pc = "reading"
  BY TurnTyped DEF Compose
<1>4. /\ turn[t].prints \in Prints /\ turn[t].q # 0 /\ Issued(turn[t])
      /\ WholeUnlessOvertaken(turn[t].copy) /\ HasTheItem(turn[t])
  BY <1>3 DEF TurnState, TurnOK, Loaded
<1>5. proposal \in 0..MaxIssued /\ (proposal # 0 => proposal = basis["product"])
  <2>1. basis["product"] \in {None} \cup 1..MaxIssued /\ MaxIssued \in Nat
    BY Typed DEF Basis
  <2> QED BY <2>1
<1>6. item \in {None} \cup Targets
  BY <1>3 DEF TurnState
<1>7. targets \subseteq turn[t].copy.targets
  OBVIOUS
<1>8. item # None => Selected(turn[t]) /\ item = turn[t].item
  OBVIOUS
<1> HIDE DEF item, targets, proposals
<1>9. [turn[t].copy EXCEPT !.targets = targets] \in Conversation
  BY <1>4, <1>7 DEF WholeUnlessOvertaken, Conversation
<1>10. /\ r.pc = "composed" /\ r.q = turn[t].q /\ r.prints = turn[t].prints /\ r.item = item
       /\ r.target = turn[t].target /\ r.copy = [turn[t].copy EXCEPT !.targets = targets]
       /\ r.proposal = proposal
       /\ r = [turn[t] EXCEPT !.pc = "composed", !.proposal = proposal, !.item = item,
                              !.copy = r.copy]
  BY <1>2, <1>3 DEF TurnState
<1>11. r \in TurnState
  <2>1. r.copy \in Conversation
    BY <1>9, <1>10
  <2> QED BY <1>3, <1>5, <1>6, <1>10, <2>1 DEF TurnState
<1>12. UNCHANGED <<now, basis, issued, store, created, asked, tab, said>>
  BY DEF Compose
<1>13. WholeUnlessOvertaken(r.copy)
  <2>1. turn[t].copy \in Conversation
    BY <1>4 DEF WholeUnlessOvertaken
  <2>2. /\ r.copy.id = turn[t].copy.id /\ r.copy.revision = turn[t].copy.revision
        /\ r.copy.messages = turn[t].copy.messages
    BY <1>10, <2>1 DEF Conversation
  <2> QED BY <1>4, <1>9, <1>10, <2>2 DEF WholeUnlessOvertaken
<1>14. HasTheItem(r)
  BY <1>4, <1>8, <1>10 DEF HasTheItem, Selected
<1>15. ProposalBy(r, basis)
  BY <1>5, <1>10 DEF ProposalBy
<1>16. TurnOK(r)
  BY <1>4, <1>10, <1>13, <1>14, <1>15 DEF TurnOK, Issued, Loaded
<1> QED BY <1>2, <1>11, <1>12, <1>16, TurnKept, StepHolds, Typed

\* The instant of an answer: the comparison begins.
LEMMA RefreshCaseHolds ==
    ASSUME ChatInv, NEW t \in Turn, RefreshCase(t)
    PROVE  ChatInv'
<1>1. PICK r : /\ r = [turn[t] EXCEPT !.pc = "checking", !.at = basis,
                                      !.plan = {p \in Part : turn[t].prints[p] # 0}]
               /\ Step(t, r)
  BY DEF RefreshCase
<1>2. turn[t] \in TurnState /\ TurnOK(turn[t]) /\ turn[t].pc = "composed" /\ basis \in Basis
  BY TurnTyped, Typed DEF RefreshCase
<1>3. /\ turn[t].q # 0 /\ Issued(turn[t]) /\ ProposalBy(turn[t], basis)
      /\ WholeUnlessOvertaken(turn[t].copy) /\ HasTheItem(turn[t])
  BY <1>2 DEF TurnOK, Loaded
<1>4. {p \in Part : turn[t].prints[p] # 0} \in SUBSET Part
  OBVIOUS
<1>5. /\ r \in TurnState /\ r.pc = "checking" /\ r.q = turn[t].q /\ r.prints = turn[t].prints
      /\ r.item = turn[t].item /\ r.target = turn[t].target /\ r.copy = turn[t].copy
      /\ r.proposal = turn[t].proposal /\ r.at = basis
      /\ r.plan = {p \in Part : turn[t].prints[p] # 0}
  BY <1>1, <1>2, <1>4 DEF TurnState
<1>6. UNCHANGED <<now, basis, issued, store, created, asked, tab, said>>
  BY DEF RefreshCase
<1>7. HasTheItem(r) /\ ProposalBy(r, r.at) /\ Compared(r) /\ Issued(r)
  BY <1>2, <1>3, <1>5 DEF HasTheItem, ProposalBy, Compared, Issued
<1>8. TurnOK(r)
  BY <1>2, <1>3, <1>5, <1>7 DEF TurnOK, Loaded
<1> QED BY <1>1, <1>5, <1>6, <1>8, TurnKept, StepHolds, Typed

\* A part that is still as it was read had not changed at the instant.
LEMMA AssertFreshHolds ==
    ASSUME ChatInv, NEW t \in Turn, AssertFresh(t)
    PROVE  ChatInv'
<1>1. UNCHANGED <<now, basis, issued, store, created, asked, tab, said>>
  BY DEF AssertFresh
<1>2. CASE Fail(t)
  BY <1>1, <1>2, FailHolds
<1>3. ASSUME NEW p \in turn[t].plan, Same(turn[t], p),
             Step(t, [turn[t] EXCEPT !.plan = @ \ {p}])
      PROVE  ChatInv'
  <2>1. PICK r : r = [turn[t] EXCEPT !.plan = @ \ {p}] /\ Step(t, r)
    BY <1>3
  <2>2. turn[t] \in TurnState /\ TurnOK(turn[t]) /\ turn[t].pc = "checking"
    BY TurnTyped DEF AssertFresh
  <2>3. /\ turn[t].q # 0 /\ Issued(turn[t]) /\ ProposalBy(turn[t], turn[t].at)
        /\ turn[t].at \in Basis /\ Compared(turn[t])
        /\ WholeUnlessOvertaken(turn[t].copy) /\ HasTheItem(turn[t])
    BY <2>2 DEF TurnOK, Loaded
  <2>4. /\ r \in TurnState /\ r.pc = "checking" /\ r.q = turn[t].q /\ r.prints = turn[t].prints
        /\ r.item = turn[t].item /\ r.target = turn[t].target /\ r.copy = turn[t].copy
        /\ r.proposal = turn[t].proposal /\ r.at = turn[t].at /\ r.plan = turn[t].plan \ {p}
    BY <2>1, <2>2 DEF TurnState
  <2>5. Compared(r)
    BY <1>3, <2>3, <2>4 DEF Compared, Same
  <2>6. HasTheItem(r) /\ ProposalBy(r, r.at) /\ Issued(r)
    BY <2>2, <2>3, <2>4 DEF HasTheItem, ProposalBy, Issued
  <2>7. TurnOK(r)
    BY <2>3, <2>4, <2>5, <2>6 DEF TurnOK, Loaded
  <2> QED BY <1>1, <2>1, <2>4, <2>7, TurnKept, StepHolds, Typed
<1> QED BY <1>2, <1>3 DEF AssertFresh

-----------------------------------------------------------------------------
(* The store *)

\* What is left of a store when some conversations go.
LEMMA KeptOK ==
    ASSUME NEW s, StoreOK(s), NEW K \in SUBSET DOMAIN s
    PROVE  /\ StoreOK(Kept(s, K))
           /\ \A i \in DOMAIN Kept(s, K) : \E k \in K : Kept(s, K)[i] = s[k]
           /\ K # DOMAIN s => Len(Kept(s, K)) < Capacity
<1>1. s \in Seq(Conversation) /\ Len(s) \in Nat /\ Len(s) <= Capacity /\ Capacity \in Nat
  BY LenProperties, ChatAssumption DEF StoreOK
<1>2. /\ Kept(s, K) \in Seq(Conversation) /\ Len(Kept(s, K)) <= Len(s)
      /\ K # DOMAIN s => Len(Kept(s, K)) < Len(s)
      /\ \A i \in DOMAIN Kept(s, K) : \E k \in K : Kept(s, K)[i] = s[k]
      /\ \A i, j \in DOMAIN Kept(s, K) : i # j =>
            \E k, l \in K : k # l /\ Kept(s, K)[i] = s[k] /\ Kept(s, K)[j] = s[l]
  BY <1>1, KeptElements
<1>3. Len(Kept(s, K)) <= Capacity /\ (K # DOMAIN s => Len(Kept(s, K)) < Capacity)
  BY <1>1, <1>2, LenProperties
<1> QED BY <1>2, <1>3 DEF StoreOK

LEMMA AliveOK ==
    ASSUME StoreOK(store)
    PROVE  /\ StoreOK(Alive(store))
           /\ \A i \in DOMAIN Alive(store) : \E k \in DOMAIN store : Alive(store)[i] = store[k]
<1>1. PICK K \in SUBSET DOMAIN store : K = {k \in DOMAIN store : now - store[k].touched <= TTL}
  OBVIOUS
<1>2. Alive(store) = Kept(store, K)
  BY <1>1 DEF Alive
<1> QED BY <1>2, KeptOK

LEMMA OthersOK ==
    ASSUME NEW s, StoreOK(s), NEW i \in DOMAIN s
    PROVE  /\ StoreOK(Others(s, s[i].id)) /\ Len(Others(s, s[i].id)) < Capacity
           /\ \A j \in DOMAIN Others(s, s[i].id) :
                 \E k \in DOMAIN s : Others(s, s[i].id)[j] = s[k] /\ s[k].id # s[i].id
<1>1. PICK K \in SUBSET DOMAIN s : K = {k \in DOMAIN s : s[k].id # s[i].id}
  OBVIOUS
<1>2. Others(s, s[i].id) = Kept(s, K) /\ K # DOMAIN s
  BY <1>1 DEF Others
<1>3. /\ StoreOK(Kept(s, K))
      /\ \A j \in DOMAIN Kept(s, K) : \E k \in K : Kept(s, K)[j] = s[k]
      /\ K # DOMAIN s => Len(Kept(s, K)) < Capacity
  BY KeptOK
<1> QED BY <1>1, <1>2, <1>3

\* A conversation that is not in the store is added at its end.
LEMMA AppendOK ==
    ASSUME NEW s, StoreOK(s), NEW c \in Conversation, Len(c.messages) <= Window,
           \A i \in DOMAIN s : s[i].id # c.id
    PROVE  /\ StoreOK(Evicted(Append(s, c)))
           /\ Len(s) < Capacity => StoreOK(Append(s, c))
           /\ \A a \in {Append(s, c), Evicted(Append(s, c))} : \A i \in DOMAIN a :
                 a[i] = c \/ \E k \in DOMAIN s : a[i] = s[k]
<1> DEFINE a == Append(s, c)
<1>1. s \in Seq(Conversation) /\ Len(s) \in Nat /\ Len(s) <= Capacity /\ Capacity \in Nat \ {0}
      /\ DOMAIN s = 1..Len(s)
  BY LenProperties, ChatAssumption DEF StoreOK
<1>2. /\ a \in Seq(Conversation) /\ a # <<>> /\ Len(a) = Len(s) + 1 /\ DOMAIN a = 1..(Len(s) + 1)
      /\ \A i \in 1..Len(s) : a[i] = s[i]
      /\ a[Len(s) + 1] = c
  <2>1. /\ a \in Seq(Conversation) /\ a # <<>> /\ Len(a) = Len(s) + 1
        /\ \A i \in 1..Len(s) : a[i] = s[i]
        /\ a[Len(s) + 1] = c
    BY <1>1, AppendProperties
  <2> QED BY <2>1, LenProperties
<1> HIDE DEF a
<1>3. /\ \A i, j \in DOMAIN a : a[i].id = a[j].id => i = j
      /\ \A i \in DOMAIN a : Len(a[i].messages) <= Window
      /\ \A i \in DOMAIN a : a[i] = c \/ \E k \in DOMAIN s : a[i] = s[k]
  <2>1. \A i \in DOMAIN a : i \in DOMAIN s \/ i = Len(s) + 1
    BY <1>1, <1>2
  <2>2. \A i \in DOMAIN a : Len(a[i].messages) <= Window
    BY <1>1, <1>2, <2>1 DEF StoreOK
  <2>3. \A i, j \in DOMAIN a : a[i].id = a[j].id => i = j
    BY <1>1, <1>2, <2>1 DEF StoreOK
  <2> QED BY <1>1, <1>2, <2>1, <2>2, <2>3
<1>4. Len(s) < Capacity => StoreOK(a)
  BY <1>1, <1>2, <1>3 DEF StoreOK
<1>5. CASE Len(a) > Capacity
  <2>1. Tail(a) \in Seq(Conversation) /\ Len(Tail(a)) = Len(a) - 1
        /\ \A i \in 1..Len(Tail(a)) : Tail(a)[i] = a[i + 1]
    BY <1>2, HeadTailProperties
  <2>2. DOMAIN Tail(a) = 1..Len(s) /\ Len(Tail(a)) <= Capacity
    BY <1>1, <1>2, <2>1, LenProperties
  <2>3. \A i \in DOMAIN Tail(a) : i + 1 \in DOMAIN a /\ Tail(a)[i] = a[i + 1]
    BY <1>1, <1>2, <2>1, <2>2
  <2>4. \A i \in DOMAIN Tail(a) :
           /\ Len(Tail(a)[i].messages) <= Window
           /\ Tail(a)[i] = c \/ \E k \in DOMAIN s : Tail(a)[i] = s[k]
    BY <1>3, <2>3
  <2>5. ASSUME NEW i \in DOMAIN Tail(a), NEW j \in DOMAIN Tail(a), Tail(a)[i].id = Tail(a)[j].id
        PROVE  i = j
    <3>1. i + 1 = j + 1
      BY <1>3, <2>3, <2>5
    <3> QED BY <1>1, <2>2, <3>1
  <2>6. StoreOK(Tail(a))
    BY <2>1, <2>2, <2>4, <2>5 DEF StoreOK
  <2> QED BY <1>3, <1>4, <1>5, <2>4, <2>6 DEF Evicted, a
<1>6. CASE ~(Len(a) > Capacity)
  <2>1. StoreOK(a)
    BY <1>1, <1>2, <1>3, <1>6 DEF StoreOK
  <2> QED BY <1>3, <1>4, <1>6, <2>1 DEF Evicted, a
<1> QED BY <1>5, <1>6

LEMMA BlankWhole ==
    ASSUME ChatInv, created < MaxConversation
    PROVE  /\ Blank \in Conversation /\ Len(Blank.messages) <= Window /\ Blank.id = created + 1
           /\ Blank.revision = 0 /\ Blank.messages = <<>>
           /\ said[created + 1] = <<>> /\ Trimmed(<<>>) = <<>>
<1>1. created \in Nat /\ created + 1 \in 1..MaxConversation /\ now \in 0..MaxNow /\ Window \in Nat
  BY Typed, ChatAssumption
<1>2. said[created + 1] = <<>>
  BY <1>1 DEF ChatInv, NothingSaidBefore
<1>3. /\ Blank \in Conversation /\ Blank.messages = <<>> /\ Blank.id = created + 1
      /\ Blank.revision = 0
  BY <1>1, UnreadTyped DEF Blank, Conversation
<1>4. Len(<<>>) = 0
  OBVIOUS
<1>5. Trimmed(<<>>) = <<>>
  BY <1>1, <1>4, SubSeqEmpty DEF Trimmed
<1> QED BY <1>1, <1>2, <1>3, <1>4, <1>5

\* What a store keeps, and what is whole, is whole in it.
LEMMA WholeStore ==
    ASSUME ChatInv, created' \in Nat, created <= created', UNCHANGED said,
           NEW s, NEW W, \A c \in W : IsWhole(c)',
           \A i \in DOMAIN s : s[i] \in W \/ \E k \in DOMAIN store : s[i] = store[k]
    PROVE  AllWhole(s)'
<1>1. \A k \in DOMAIN store : store[k] \in Conversation /\ IsWhole(store[k])
  BY LenProperties DEF ChatInv, StoreOK, AllWhole
<1>2. \A k \in DOMAIN store : IsWhole(store[k]) => \A c \in Conversation : c = store[k] => IsWhole(c)'
  BY WholeKept, Typed
<1> QED BY <1>1, <1>2 DEF AllWhole

\* A new conversation enters the store, and another may have to leave it.
LEMMA CreateOK ==
    ASSUME ChatInv, Create, UNCHANGED <<now, said>>
    PROVE  /\ StoreOK(store)' /\ AllWhole(store)' /\ NothingSaidBefore'
           /\ created \in Nat /\ created' = created + 1 /\ created' \in 0..MaxConversation
<1>1. /\ created < MaxConversation /\ created' = created + 1
      /\ store' = Evicted(Append(Alive(store), Blank))
  BY DEF Create
<1>2. created \in Nat /\ created' \in Nat /\ created' \in 0..MaxConversation /\ created <= created'
  BY <1>1, Typed
<1>3. NothingSaidBefore'
  BY <1>1, <1>2 DEF ChatInv, NothingSaidBefore
<1>4. PICK s : s = Alive(store)
  OBVIOUS
<1>5. PICK c : c = Blank
  OBVIOUS
<1>6. StoreOK(s) /\ \A i \in DOMAIN s : \E k \in DOMAIN store : s[i] = store[k]
  BY <1>4, AliveOK DEF ChatInv
<1>7. /\ c \in Conversation /\ Len(c.messages) <= Window /\ c.id = created'
      /\ c.revision = 0 /\ c.messages = <<>>
      /\ said'[created'] = <<>> /\ Trimmed(<<>>) = <<>>
  BY <1>1, <1>5, BlankWhole
<1>8. IsWhole(c)'
  <2>1. Len(<<>>) = 0
    OBVIOUS
  <2> QED BY <1>2, <1>7, <2>1 DEF IsWhole
<1>9. \A i \in DOMAIN s : s[i].id # c.id
  <2>1. \A k \in DOMAIN store : store[k].id \in Nat /\ store[k].id <= created
    <3>1. \A k \in DOMAIN store : store[k] \in Conversation /\ IsWhole(store[k])
      BY LenProperties DEF ChatInv, StoreOK, AllWhole
    <3> QED BY <3>1 DEF IsWhole, Conversation
  <2> QED BY <1>1, <1>2, <1>6, <1>7, <2>1
<1>10. PICK n : n = Evicted(Append(s, c))
  OBVIOUS
<1>11. StoreOK(n) /\ \A i \in DOMAIN n : n[i] \in {c} \/ \E k \in DOMAIN s : n[i] = s[k]
  BY <1>6, <1>7, <1>9, <1>10, AppendOK
<1>12. AllWhole(n)'
  <2>1. PICK W : W = {c}
    OBVIOUS
  <2>2. \A i \in DOMAIN n : n[i] \in W \/ \E k \in DOMAIN store : n[i] = store[k]
    BY <1>6, <1>11, <2>1
  <2>3. \A d \in W : IsWhole(d)'
    BY <1>8, <2>1
  <2> QED BY <1>2, <2>2, <2>3, WholeStore
<1>13. store' = n
  BY <1>1, <1>4, <1>5, <1>10
<1> QED BY <1>1, <1>2, <1>3, <1>11, <1>12, <1>13 DEF StoreOK

\* The copy of a turn that has loaded a whole conversation.
LEMMA LoadsOK ==
    ASSUME ChatInv, NEW t \in Turn, turn[t].pc = "started", NEW c \in Conversation, Loads(t, c),
           created' \in Nat, created <= created', UNCHANGED <<basis, issued, said>>, IsWhole(c)'
    PROVE  turn' \in [Turn -> TurnState] /\ (\A u \in Turn : TurnOK(turn[u]))'
<1> DEFINE scope == ScopeOf(turn[t])
           copied == InScope(c, scope)
           item == IF turn[t].target \in copied.targets THEN turn[t].target ELSE None
           plans == IF item # None THEN {{item.part}}
                    ELSE IF turn[t].target # None THEN {{}} ELSE (SUBSET Part) \ {{}}
<1>1. PICK parts \in plans :
        Step(t, [turn[t] EXCEPT !.pc = "reading", !.copy = copied, !.item = item, !.plan = parts])
  BY DEF Loads
<1>2. turn[t] \in TurnState /\ TurnOK(turn[t]) /\ issued \in Nat /\ MaxIssued \in Nat /\ "product" \in Part
  BY TurnTyped, Typed
<1>3. turn[t].q # 0 /\ Issued(turn[t]) /\ turn[t].prints \in Prints
  BY <1>2 DEF TurnOK, TurnState
<1>4. scope \in {None} \cup 1..MaxIssued
  BY <1>2, <1>3 DEF ScopeOf, Prints
<1> HIDE DEF scope
<1>5. /\ copied \in Conversation /\ copied.id = c.id /\ copied.revision = c.revision
      /\ copied.messages = c.messages
  <2>1. CASE c.scope = scope
    BY <2>1 DEF InScope
  <2>2. CASE c.scope # scope
    <3>1. copied = [c EXCEPT !.targets = {}, !.prints = Unread, !.scope = scope]
      BY <2>2 DEF InScope
    <3> QED BY <1>4, <3>1, UnreadTyped DEF Conversation
  <2> QED BY <2>1, <2>2
<1> HIDE DEF copied
<1>6. /\ item \in {None} \cup Targets
      /\ item # None => item = turn[t].target /\ item \in Targets /\ item.part \in Part
  BY <1>5 DEF Conversation, Targets
<1> HIDE DEF item
<1>7. parts \in SUBSET Part
  BY <1>6
<1> HIDE DEF plans
<1>8. PICK r : /\ r = [turn[t] EXCEPT !.pc = "reading", !.copy = copied, !.item = item, !.plan = parts]
               /\ Step(t, r)
  BY <1>1
<1>9. /\ r \in TurnState /\ r.pc = "reading" /\ r.q = turn[t].q /\ r.prints = turn[t].prints
      /\ r.item = item /\ r.target = turn[t].target /\ r.copy = copied
  BY <1>2, <1>5, <1>6, <1>7, <1>8 DEF TurnState
<1>10. Issued(r)' /\ HasTheItem(r)'
  BY <1>3, <1>6, <1>9 DEF Issued, HasTheItem
<1>11. WholeUnlessOvertaken(r.copy)'
  <2>1. PICK d : d = r.copy
    OBVIOUS
  <2>2. /\ d \in Conversation /\ d.id = c.id /\ d.revision = c.revision
        /\ d.messages = c.messages
    BY <1>5, <1>9, <2>1
  <2>3. WholeUnlessOvertaken(d)'
    BY <2>2 DEF WholeUnlessOvertaken, IsWhole, Conversation
  <2> QED BY <2>1, <2>3
<1>12. TurnOK(r)'
  BY <1>3, <1>9, <1>10, <1>11 DEF TurnOK, Loaded
<1> QED BY <1>8, <1>9, <1>12, TurnsKept

LEMMA LoadHolds ==
    ASSUME ChatInv, NEW t \in Turn, Load(t)
    PROVE  ChatInv'
<1>1. UNCHANGED <<now, basis, issued, asked, tab, said>> /\ turn[t].pc = "started"
  BY DEF Load
<1>2. created \in Nat /\ created \in 0..MaxConversation /\ turn \in [Turn -> TurnState]
  BY Typed DEF ChatInv, TypeOK
<1>3. ASSUME /\ turn' \in [Turn -> TurnState] /\ (\A u \in Turn : TurnOK(turn[u]))'
             /\ StoreOK(store)' /\ AllWhole(store)' /\ NothingSaidBefore'
             /\ created' \in 0..MaxConversation
      PROVE  ChatInv'
  <2>1. TypeOK'
    <3>1. \A i \in DOMAIN store' : store'[i] \in Conversation
      BY <1>3, LenProperties DEF StoreOK
    <3> QED BY <1>1, <1>3, <3>1 DEF ChatInv, TypeOK, StoreOK, ToSet
  <2>2. BasisIssued'
    BY <1>1 DEF ChatInv, BasisIssued
  <2> QED BY <1>3, <2>1, <2>2 DEF ChatInv
<1>4. PICK s : s = Alive(store)
  OBVIOUS
<1>5. /\ StoreOK(s) /\ \A i \in DOMAIN s : \E k \in DOMAIN store : s[i] = store[k]
      /\ \A i \in DOMAIN s : s[i] \in Conversation
  BY <1>4, AliveOK, LenProperties DEF ChatInv, StoreOK
<1>6. CASE Create /\ Loads(t, Blank)
  <2>1. /\ StoreOK(store)' /\ AllWhole(store)' /\ NothingSaidBefore'
        /\ created' = created + 1 /\ created' \in 0..MaxConversation
    BY <1>1, <1>6, CreateOK
  <2>2. PICK c : c = Blank
    OBVIOUS
  <2>3. /\ c \in Conversation /\ c.id = created' /\ c.revision = 0 /\ c.messages = <<>>
        /\ said'[created'] = <<>> /\ Trimmed(<<>>) = <<>>
    BY <1>1, <1>6, <2>1, <2>2, BlankWhole DEF Create
  <2>4. Len(<<>>) = 0
    OBVIOUS
  <2>5. IsWhole(c)'
    BY <1>2, <2>1, <2>3, <2>4 DEF IsWhole
  <2>6. turn' \in [Turn -> TurnState] /\ (\A u \in Turn : TurnOK(turn[u]))'
    BY <1>1, <1>2, <1>6, <2>1, <2>2, <2>3, <2>5, LoadsOK
  <2> QED BY <1>3, <2>1, <2>6
<1>7. ASSUME NEW c \in Stored(s, turn[t].conv),
             store' = Append(Others(s, turn[t].conv), c), Loads(t, c), UNCHANGED created
      PROVE  ChatInv'
  <2>1. PICK i \in DOMAIN s : s[i] = c /\ c.id = turn[t].conv
    BY <1>7 DEF Stored, ToSet
  <2>2. c \in Conversation /\ Len(c.messages) <= Window
    BY <1>5, <2>1 DEF StoreOK
  <2>3. PICK k \in DOMAIN store : c = store[k]
    BY <1>5, <2>1
  <2>4. IsWhole(c)'
    BY <1>1, <1>2, <1>7, <2>2, <2>3, WholeKept DEF ChatInv, AllWhole
  <2>5. PICK o : o = Others(s, s[i].id)
    OBVIOUS
  <2>6. /\ StoreOK(o) /\ Len(o) < Capacity
        /\ \A j \in DOMAIN o : o[j].id # c.id
        /\ \A j \in DOMAIN o : \E l \in DOMAIN s : o[j] = s[l]
    <3>1. /\ StoreOK(Others(s, s[i].id)) /\ Len(Others(s, s[i].id)) < Capacity
          /\ \A j \in DOMAIN Others(s, s[i].id) :
                \E l \in DOMAIN s : Others(s, s[i].id)[j] = s[l] /\ s[l].id # s[i].id
      BY <1>5, OthersOK
    <3> QED BY <2>1, <2>5, <3>1
  <2>7. PICK n : n = Append(o, c)
    OBVIOUS
  <2>8. StoreOK(n) /\ \A j \in DOMAIN n : n[j] = c \/ \E l \in DOMAIN o : n[j] = o[l]
    BY <2>2, <2>6, <2>7, AppendOK
  <2>9. AllWhole(n)'
    <3>1. PICK W : W = {c}
      OBVIOUS
    <3>2. \A j \in DOMAIN n : n[j] \in W \/ \E l \in DOMAIN store : n[j] = store[l]
      BY <1>5, <2>6, <2>8, <3>1
    <3>3. \A d \in W : IsWhole(d)'
      BY <2>4, <3>1
    <3>4. created' \in Nat /\ created <= created' /\ UNCHANGED said
      BY <1>1, <1>2, <1>7
    <3> QED BY <3>2, <3>3, <3>4, WholeStore
  <2>10. store' = n
    BY <1>7, <2>1, <2>5, <2>7
  <2>11. StoreOK(store)' /\ AllWhole(store)' /\ NothingSaidBefore'
    BY <1>1, <1>7, <2>8, <2>9, <2>10 DEF StoreOK, ChatInv, NothingSaidBefore
  <2>12. turn' \in [Turn -> TurnState] /\ (\A u \in Turn : TurnOK(turn[u]))'
    BY <1>1, <1>2, <1>7, <2>2, <2>4, LoadsOK
  <2> QED BY <1>2, <1>3, <1>7, <2>11, <2>12
<1>8. CASE store' = s /\ Fail(t) /\ UNCHANGED created
  <2>1. PICK r : r = Ended(turn[t], None) /\ Step(t, r)
    BY <1>8 DEF Fail
  <2>2. r \in TurnState /\ r.pc = "ended" /\ r.prints = Unread
    BY <2>1, TurnTyped, EndedTyped
  <2>3. TurnOK(r)'
    BY <1>1, <2>2, UnreadTyped, Typed DEF TurnOK, Issued, Loaded
  <2>4. turn' \in [Turn -> TurnState] /\ (\A u \in Turn : TurnOK(turn[u]))'
    BY <1>1, <1>2, <1>8, <2>1, <2>2, <2>3, TurnsKept
  <2>5. AllWhole(s)'
    <3>1. PICK W : W = {}
      OBVIOUS
    <3>2. \A j \in DOMAIN s : s[j] \in W \/ \E l \in DOMAIN store : s[j] = store[l]
      BY <1>5
    <3>3. \A d \in W : IsWhole(d)'
      BY <3>1
    <3> QED BY <1>1, <1>2, <1>8, <3>2, <3>3, WholeStore
  <2>6. StoreOK(store)' /\ AllWhole(store)' /\ NothingSaidBefore'
    BY <1>1, <1>5, <1>8, <2>5 DEF StoreOK, ChatInv, NothingSaidBefore
  <2> QED BY <1>2, <1>3, <1>8, <2>4, <2>6
<1> QED BY <1>4, <1>6, <1>7, <1>8 DEF Load

\* Turns go on while a conversation is created for somebody else.
LEMMA LoadElsewhereHolds ==
    ASSUME ChatInv, LoadElsewhere
    PROVE  ChatInv'
<1>1. Create /\ UNCHANGED <<now, basis, issued, asked, tab, turn, said>>
  BY DEF LoadElsewhere
<1>2. /\ StoreOK(store)' /\ AllWhole(store)' /\ NothingSaidBefore'
      /\ created \in Nat /\ created' = created + 1 /\ created' \in 0..MaxConversation
  BY <1>1, CreateOK
<1>3. \A i \in DOMAIN store' : store'[i] \in Conversation
  BY <1>2, LenProperties DEF StoreOK
<1>4. TypeOK'
  BY <1>1, <1>2, <1>3 DEF ChatInv, TypeOK, StoreOK, ToSet
<1>5. (\A u \in Turn : TurnOK(turn[u]))'
  <2>1. \A q \in TurnState : TurnOK(q) => TurnOK(q)'
    BY <1>1, <1>2, TurnKept
  <2>2. \A u \in Turn : turn[u] \in TurnState /\ TurnOK(turn[u]) /\ turn'[u] = turn[u]
    BY <1>1, TurnTyped
  <2> QED BY <2>1, <2>2
<1>6. BasisIssued'
  BY <1>1 DEF ChatInv, BasisIssued
<1> QED BY <1>2, <1>4, <1>5, <1>6 DEF ChatInv

\* What a turn stores is the copy it has loaded and one answer more, while nobody else has
\* answered; the copies of all others are overtaken.
LEMMA CommitHolds ==
    ASSUME ChatInv, NEW t \in Turn, Commit(t)
    PROVE  ChatInv'
<1>1. /\ UNCHANGED <<now, basis, issued, created, asked, tab>>
      /\ turn[t].pc = "checking"
  BY DEF Commit
<1>2. CASE Fail(t) /\ UNCHANGED <<store, said>>
  BY <1>1, <1>2, FailHolds
<1>3. PICK next : next = [turn[t].copy EXCEPT !.revision = @ + 1,
                              !.messages = Trimmed(Append(@, turn[t].q)),
                              !.targets = @ \cup Shown(turn[t]), !.prints = turn[t].prints,
                              !.scope = ScopeOf(turn[t]), !.touched = now]
  OBVIOUS
<1>4. ASSUME Commits(t),
             store' = [i \in DOMAIN store |-> IF store[i].id = next.id THEN next ELSE store[i]],
             said' = [said EXCEPT ![next.id] = Append(@, turn[t].q)],
             Step(t, Ended(turn[t], [conv |-> next.id, rev |-> next.revision,
                                     targets |-> Shown(turn[t])]))
      PROVE  ChatInv'
  <2>1. /\ turn[t] \in TurnState /\ TurnOK(turn[t]) /\ created \in Nat /\ MaxIssued \in Nat
        /\ issued \in Nat /\ "product" \in Part /\ now \in 0..MaxNow
    BY TurnTyped, Typed
  <2>2. /\ turn[t].q \in 1..MaxAsked /\ turn[t].prints \in Prints
        /\ WholeUnlessOvertaken(turn[t].copy)
    BY <1>1, <2>1, Typed DEF TurnOK, Loaded, TurnState
  <2>3. PICK copy, q : copy = turn[t].copy /\ q = turn[t].q
    OBVIOUS
  <2>4. /\ copy \in Conversation /\ copy.id <= created /\ copy.id \in 1..MaxConversation
        /\ copy.revision \in Nat
        /\ copy.revision = Len(said[copy.id]) => copy.messages = Trimmed(said[copy.id])
    BY <2>2, <2>3 DEF WholeUnlessOvertaken, Conversation
  <2>5. /\ store \in Seq(Conversation) /\ DOMAIN store = 1..Len(store) /\ Len(store) \in Nat
        /\ \A i \in DOMAIN store : store[i] \in Conversation /\ IsWhole(store[i])
        /\ said \in [1..MaxConversation -> Seq(1..MaxAsked)]
    BY LenProperties DEF ChatInv, StoreOK, AllWhole, TypeOK
  <2>6. copy.revision = Len(said[copy.id])
    <3>1. PICK i \in DOMAIN store : store[i].id = copy.id /\ store[i].revision = copy.revision
      BY <1>4, <2>3 DEF Commits, Stored, ToSet
    <3> QED BY <2>5, <3>1 DEF IsWhole
  <2>7. PICK s : s = said[copy.id]
    OBVIOUS
  <2>8. s \in Seq(1..MaxAsked) /\ q \in 1..MaxAsked /\ copy.messages = Trimmed(s)
        /\ copy.revision = Len(s)
    BY <2>2, <2>3, <2>4, <2>5, <2>6, <2>7
  <2>9. /\ Append(s, q) \in Seq(1..MaxAsked) /\ Len(Append(s, q)) = Len(s) + 1
        /\ Trimmed(Append(copy.messages, q)) = Trimmed(Append(s, q))
        /\ Trimmed(Append(s, q)) \in Seq(1..MaxAsked) /\ Len(Trimmed(Append(s, q))) <= Window
    <3>1. Append(s, q) \in Seq(1..MaxAsked) /\ Len(Append(s, q)) = Len(s) + 1
      BY <2>8, AppendProperties
    <3> QED BY <2>8, <3>1, TrimmedAppend
  <2>10. Shown(turn[t]) \in SUBSET Targets /\ ScopeOf(turn[t]) \in {None} \cup 1..MaxIssued
    BY <2>1, <2>2 DEF Shown, ScopeOf, Prints
  <2>11. /\ next \in Conversation /\ next.id = copy.id /\ next.revision = Len(s) + 1
         /\ next.messages = Trimmed(Append(s, q))
    <3>1. next = [copy EXCEPT !.revision = copy.revision + 1, !.messages = Trimmed(Append(s, q)),
                              !.targets = copy.targets \cup Shown(turn[t]), !.prints = turn[t].prints,
                              !.scope = ScopeOf(turn[t]), !.touched = now]
      BY <1>3, <2>3, <2>4, <2>9 DEF Conversation
    <3>2. copy.targets \cup Shown(turn[t]) \in SUBSET Targets
      BY <2>4, <2>10 DEF Conversation
    <3>3. copy.revision + 1 = Len(s) + 1 /\ Len(s) + 1 \in Nat
      BY <2>8, LenProperties
    <3>4. next \in Conversation
      BY <2>1, <2>2, <2>4, <2>9, <2>10, <3>1, <3>2, <3>3 DEF Conversation
    <3> QED BY <2>4, <3>1, <3>3, <3>4 DEF Conversation
  <2>12. /\ said' \in [1..MaxConversation -> Seq(1..MaxAsked)] /\ said'[next.id] = Append(s, q)
         /\ \A id \in 1..MaxConversation : id # next.id => said'[id] = said[id]
    BY <1>4, <2>3, <2>4, <2>5, <2>7, <2>9, <2>11
  <2>13. NothingSaidBefore'
    BY <1>1, <2>1, <2>4, <2>11, <2>12 DEF ChatInv, NothingSaidBefore
  <2>14. PICK n : n = [i \in 1..Len(store) |-> IF store[i].id = next.id THEN next ELSE store[i]]
    OBVIOUS
  <2>15. store' = n /\ n \in Seq(Conversation) /\ Len(n) = Len(store) /\ DOMAIN n = DOMAIN store
    BY <1>4, <2>5, <2>11, <2>14
  <2>16. \A i \in DOMAIN n : n[i] = (IF store[i].id = next.id THEN next ELSE store[i])
                             /\ n[i].id = store[i].id
    BY <2>5, <2>14, <2>15
  <2>17. StoreOK(n)
    BY <2>9, <2>11, <2>15, <2>16 DEF StoreOK, ChatInv
  <2>18. AllWhole(n)'
    <3> SUFFICES ASSUME NEW i \in DOMAIN n PROVE IsWhole(n[i])'
      BY DEF AllWhole
    <3>1. CASE store[i].id = next.id
      BY <1>1, <2>4, <2>9, <2>11, <2>12, <2>16, <3>1 DEF IsWhole
    <3>2. CASE store[i].id # next.id
      <4>1. n[i] = store[i] /\ store[i] \in Conversation /\ IsWhole(store[i])
        BY <2>5, <2>15, <2>16, <3>2
      <4> QED BY <1>1, <2>12, <3>2, <4>1 DEF IsWhole, Conversation
    <3> QED BY <3>1, <3>2
  <2>19. PICK r : /\ r = Ended(turn[t], [conv |-> next.id, rev |-> next.revision,
                                         targets |-> Shown(turn[t])])
                  /\ Step(t, r)
    BY <1>4
  <2>20. r \in TurnState /\ r.pc = "ended" /\ r.prints = Unread
    <3>1. [conv |-> next.id, rev |-> next.revision, targets |-> Shown(turn[t])] \in Reply
      BY <2>10, <2>11 DEF Reply, Conversation
    <3> QED BY <2>1, <2>19, <3>1, EndedTyped
  <2>21. ASSUME NEW u \in TurnState, TurnOK(u) PROVE TurnOK(u)'
    <3>1. WholeUnlessOvertaken(u.copy) => WholeUnlessOvertaken(u.copy)'
      <4> SUFFICES ASSUME NEW c, WholeUnlessOvertaken(c) PROVE WholeUnlessOvertaken(c)'
        OBVIOUS
      <4>1. c \in Conversation /\ c.id \in 1..MaxConversation /\ c.revision \in Nat
        BY DEF WholeUnlessOvertaken, Conversation
      <4>2. CASE c.id = next.id
        <5>1. c.revision <= Len(s) /\ Len(s) \in Nat
          BY <2>7, <2>8, <2>11, <4>2, LenProperties DEF WholeUnlessOvertaken
        <5> QED BY <1>1, <2>9, <2>12, <4>1, <4>2, <5>1 DEF WholeUnlessOvertaken
      <4>3. CASE c.id # next.id
        BY <1>1, <2>12, <4>1, <4>3 DEF WholeUnlessOvertaken
      <4> QED BY <4>2, <4>3
    <3>2. /\ Issued(u)' = Issued(u) /\ Loaded(u)' = Loaded(u) /\ HasTheItem(u)' = HasTheItem(u)
          /\ Compared(u)' = Compared(u) /\ ProposalBy(u, basis)' = ProposalBy(u, basis)
          /\ ProposalBy(u, u.at)' = ProposalBy(u, u.at)
      BY <1>1 DEF Issued, Loaded, HasTheItem, Compared, ProposalBy
    <3> QED BY <2>21, <3>1, <3>2 DEF TurnOK
  <2>22. turn' \in [Turn -> TurnState] /\ (\A u \in Turn : TurnOK(turn[u]))'
    <3>1. turn \in [Turn -> TurnState] /\ turn' = [turn EXCEPT ![t] = r]
      BY <2>19 DEF ChatInv, TypeOK, Step
    <3>2. TurnOK(r)'
      BY <1>1, <2>1, <2>20, UnreadTyped DEF TurnOK, Issued, Loaded
    <3>3. ASSUME NEW u \in Turn PROVE TurnOK(turn[u])'
      <4>1. CASE u = t
        <5>1. turn'[u] = r
          BY <3>1, <4>1
        <5> QED BY <3>2, <5>1
      <4>2. CASE u # t
        <5>1. turn'[u] = turn[u] /\ turn[u] \in TurnState /\ TurnOK(turn[u])
          BY <3>1, <4>2, TurnTyped
        <5> QED BY <2>21, <5>1
      <4> QED BY <4>1, <4>2
    <3> QED BY <2>20, <3>1, <3>3
  <2>23. BasisIssued'
    BY <1>1 DEF ChatInv, BasisIssued
  <2>24. TypeOK'
    <3>1. \A i \in DOMAIN n : n[i] \in Conversation
      BY <2>15, LenProperties
    <3> QED BY <1>1, <2>12, <2>15, <2>17, <2>22, <3>1 DEF ChatInv, TypeOK, StoreOK, ToSet
  <2> QED BY <2>13, <2>15, <2>17, <2>18, <2>22, <2>23, <2>24 DEF ChatInv, StoreOK
<1> QED BY <1>2, <1>3, <1>4 DEF Commit

-----------------------------------------------------------------------------
(* The surroundings *)

\* A fingerprint that is given out anew is one that nobody has read.
LEMMA ChangeHolds ==
    ASSUME ChatInv, Change
    PROVE  ChatInv'
<1>1. PICK p \in Part, print \in {issued + 1, None} : basis' = [basis EXCEPT ![p] = print]
  BY DEF Change
<1>2. /\ issued < MaxIssued /\ issued' = issued + 1
      /\ UNCHANGED <<now, store, created, asked, tab, turn, said>>
  BY DEF Change
<1>3. /\ basis \in Basis /\ issued \in 1..MaxIssued /\ MaxIssued \in Nat /\ None \notin Nat
      /\ \A o \in Part : basis[o] # None => basis[o] <= issued
  BY Typed DEF ChatInv, BasisIssued
<1>4. /\ basis' \in Basis
      /\ \A o \in Part : basis'[o] = basis[o] \/ basis'[o] = issued + 1 \/ basis'[o] = None
  BY <1>1, <1>2, <1>3 DEF Basis
<1>5. BasisIssued'
  BY <1>2, <1>3, <1>4 DEF BasisIssued, Basis
<1>6. ASSUME NEW u \in TurnState, TurnOK(u) PROVE TurnOK(u)'
  <2>1. u.prints \in Prints /\ \A o \in Part : u.prints[o] \in Nat /\ u.prints[o] <= issued
    BY <1>3, <1>6 DEF TurnState, Prints, TurnOK, Issued
  <2>2. Issued(u)'
    BY <1>2, <1>3, <2>1 DEF Issued
  <2>3. \A o \in Part : basis'[o] = u.prints[o] => basis[o] = u.prints[o]
    BY <1>3, <1>4, <2>1
  <2>4. /\ WholeUnlessOvertaken(u.copy)' = WholeUnlessOvertaken(u.copy) /\ Loaded(u)' = Loaded(u)
        /\ HasTheItem(u)' = HasTheItem(u) /\ ProposalBy(u, u.at)' = ProposalBy(u, u.at)
    BY <1>2 DEF WholeUnlessOvertaken, Loaded, HasTheItem, ProposalBy
  <2>5. ProposalBy(u, basis) => ProposalBy(u, basis)'
    BY <2>3, Typed DEF ProposalBy
  <2>6. Compared(u) => Compared(u)'
    BY <2>3 DEF Compared
  <2> QED BY <1>6, <2>2, <2>4, <2>5, <2>6 DEF TurnOK
<1>7. (\A t \in Turn : TurnOK(turn[t]))'
  BY <1>2, <1>6, TurnTyped
<1>8. StoreOK(store)' /\ AllWhole(store)' /\ NothingSaidBefore'
  BY <1>2 DEF ChatInv, StoreOK, AllWhole, IsWhole, NothingSaidBefore
<1>9. TypeOK'
  BY <1>2, <1>3, <1>4 DEF ChatInv, TypeOK
<1> QED BY <1>5, <1>7, <1>8, <1>9 DEF ChatInv

\* Turns under way fail with the store that is lost.
LEMMA RestartHolds ==
    ASSUME ChatInv, Restart
    PROVE  ChatInv'
<1>1. /\ store' = <<>> /\ UNCHANGED <<now, basis, issued, created, asked, tab, said>>
      /\ turn' = [t \in Turn |-> IF turn[t].pc \in {"idle", "ended"} THEN turn[t]
                                ELSE Ended(turn[t], None)]
  BY DEF Restart
<1>2. ASSUME NEW t \in Turn PROVE turn'[t] \in TurnState /\ TurnOK(turn[t])'
  <2>1. CASE turn[t].pc \in {"idle", "ended"}
    <3>1. turn'[t] = turn[t] /\ turn[t] \in TurnState /\ TurnOK(turn[t])
      BY <1>1, <2>1, TurnTyped
    <3>2. \A q \in TurnState : TurnOK(q) => TurnOK(q)'
      BY <1>1, TurnKept, Typed
    <3> QED BY <3>1, <3>2
  <2>2. CASE turn[t].pc \notin {"idle", "ended"}
    <3>1. PICK r : r = Ended(turn[t], None) /\ turn'[t] = r
      BY <1>1, <2>2
    <3>2. r \in TurnState /\ r.pc = "ended" /\ r.prints = Unread
      BY <3>1, TurnTyped, EndedTyped
    <3>3. TurnOK(r)'
      BY <1>1, <3>2, UnreadTyped, Typed DEF TurnOK, Issued, Loaded
    <3> QED BY <3>1, <3>2, <3>3
  <2> QED BY <2>1, <2>2
<1>3. turn' \in [Turn -> TurnState]
  BY <1>1, <1>2
<1>4. PICK s : s = <<>>
  OBVIOUS
<1>5. s \in Seq(Conversation) /\ DOMAIN s = {} /\ Len(s) = 0
  BY <1>4
<1>6. StoreOK(s) /\ AllWhole(s)'
  BY <1>5, ChatAssumption DEF StoreOK, AllWhole
<1>7. TypeOK'
  BY <1>1, <1>3, <1>4, <1>5, <1>6 DEF ChatInv, TypeOK, StoreOK, ToSet
<1>8. StoreOK(store)' /\ AllWhole(store)' /\ BasisIssued' /\ NothingSaidBefore'
  BY <1>1, <1>4, <1>6 DEF ChatInv, StoreOK, BasisIssued, NothingSaidBefore
<1> QED BY <1>2, <1>7, <1>8 DEF ChatInv

\* Nothing but the tab, or the time, has changed.
LEMMA SurroundingsHold ==
    ASSUME ChatInv, UNCHANGED <<basis, issued, store, created, asked, turn, said>>,
           tab' \in TabState, now' \in 0..MaxNow
    PROVE  ChatInv'
<1>1. TypeOK' /\ BasisIssued' /\ NothingSaidBefore'
  BY DEF ChatInv, TypeOK, BasisIssued, NothingSaidBefore
<1>2. StoreOK(store)' /\ AllWhole(store)'
  BY DEF ChatInv, StoreOK, AllWhole, IsWhole
<1>3. \A q \in TurnState : TurnOK(q) => TurnOK(q)'
  BY TurnKept, Typed
<1>4. \A t \in Turn : TurnOK(turn[t])'
  BY <1>3, TurnTyped
<1> QED BY <1>1, <1>2, <1>4 DEF ChatInv

LEMMA NewTabTyped == NewTab \in TabState
  BY DEF NewTab, TabState, ConversationOrNone

LEMMA TabHolds ==
    ASSUME ChatInv, Turnaway \/ NewConversation \/ Tick
    PROVE  ChatInv'
<1>1. now \in 0..MaxNow /\ MaxNow \in Nat /\ tab \in TabState
  BY Typed
<1>2. CASE Turnaway
  <2>1. tab' = [tab EXCEPT !.busy = FALSE, !.seen = @ + 1]
        /\ UNCHANGED <<now, basis, issued, store, created, asked, turn, said>>
    BY <1>2 DEF Turnaway
  <2>2. tab' \in TabState
    <3>1. tab.seen + 1 \in Nat
      BY <1>1 DEF TabState
    <3> QED BY <1>1, <2>1, <3>1 DEF TabState
  <2> QED BY <1>1, <2>1, <2>2, SurroundingsHold
<1>3. CASE NewConversation
  <2>1. tab' = [NewTab EXCEPT !.seen = tab.seen + 1]
        /\ UNCHANGED <<now, basis, issued, store, created, asked, turn, said>>
    BY <1>3 DEF NewConversation
  <2>2. tab' \in TabState
    <3>1. tab.seen + 1 \in Nat
      BY <1>1 DEF TabState
    <3> QED BY <2>1, <3>1, NewTabTyped DEF TabState
  <2> QED BY <1>1, <2>1, <2>2, SurroundingsHold
<1>4. CASE Tick
  <2>1. now' \in 0..MaxNow /\ UNCHANGED <<basis, issued, store, created, asked, tab, turn, said>>
    BY <1>1, <1>4 DEF Tick
  <2> QED BY <1>1, <2>1, SurroundingsHold
<1> QED BY <1>2, <1>3, <1>4

LEMMA AskHolds ==
    ASSUME ChatInv, NEW t \in Turn, Ask(t) \/ Retry(t)
    PROVE  ChatInv'
<1>1. tab \in TabState
  BY Typed
<1>2. CASE Ask(t)
  <2>1. PICK target \in tab.targets \cup {None} : Send(t, tab.conv, tab.rev, target)
    BY <1>2 DEF Ask
  <2>2. /\ tab.conv \in ConversationOrNone /\ tab.rev \in Nat
        /\ target \in {None} \cup Targets
    BY <1>1, <2>1 DEF TabState
  <2> QED BY <2>1, <2>2, SendHolds
<1>3. CASE Retry(t)
  <2>1. tab.failed # None /\ Send(t, tab.failed.conv, tab.failed.rev, tab.failed.target)
    BY <1>3 DEF Retry
  <2>2. /\ tab.failed.conv \in ConversationOrNone /\ tab.failed.rev \in Nat
        /\ tab.failed.target \in {None} \cup Targets
    BY <1>1, <2>1 DEF TabState, Request
  <2> QED BY <2>1, <2>2, SendHolds
<1> QED BY <1>2, <1>3

LEMMA ChatInitHolds == Init => ChatInv
<1> SUFFICES ASSUME Init PROVE ChatInv
  OBVIOUS
<1>1. /\ now = 0 /\ issued = 1 /\ created = 0 /\ asked = 0 /\ tab = NewTab
      /\ basis = [p \in Part |-> IF p = "product" THEN None ELSE 1]
      /\ turn = [t \in Turn |-> IdleTurn] /\ said = [id \in 1..MaxConversation |-> <<>>]
  BY DEF Init
<1>2. PICK s : s = <<>> /\ store = s
  BY DEF Init
<1>3. s \in Seq(Conversation) /\ DOMAIN s = {} /\ Len(s) = 0
  BY <1>2
<1>4. StoreOK(store) /\ AllWhole(store)
  BY <1>2, <1>3, ChatAssumption DEF StoreOK, AllWhole
<1>5. BasisIssued /\ NothingSaidBefore
  BY <1>1 DEF BasisIssued, NothingSaidBefore
<1>6. TypeOK
  <2>1. basis \in Basis /\ tab \in TabState /\ turn \in [Turn -> TurnState]
    BY <1>1, IdleTyped, NewTabTyped, ChatAssumption DEF Basis
  <2> QED BY <1>1, <1>2, <1>3, <1>4, <2>1, ChatAssumption DEF TypeOK, StoreOK, ToSet
<1>7. \A t \in Turn : TurnOK(turn[t])
  <2>1. TurnOK(IdleTurn)
    BY <1>1, IdleTyped, UnreadTyped DEF TurnOK, Issued, Loaded
  <2> QED BY <1>1, <2>1
<1> QED BY <1>4, <1>5, <1>6, <1>7 DEF ChatInv

-----------------------------------------------------------------------------
(* Theorems about CopilotChat *)

\* Conversations, the copies that turns hold of them and the evidence they have read fit
\* together, whatever turns overlap, whatever is evicted, expires, changes or is lost.
THEOREM ChatInvariance == Spec => []ChatInv
<1>1. ASSUME ChatInv, [Next]_vars PROVE ChatInv'
  <2>1. CASE UNCHANGED vars
    <3>1. tab' \in TabState /\ now' \in 0..MaxNow
      BY <1>1, <2>1, Typed DEF vars
    <3> QED BY <1>1, <2>1, <3>1, SurroundingsHold DEF vars
  <2>2. ASSUME NEW t \in Turn, TurnStep(t) PROVE ChatInv'
    BY <1>1, <2>2, StartHolds, LoadHolds, ReadHolds, ComposeHolds, RefreshCaseHolds,
       AssertFreshHolds, CommitHolds, ReceiveHolds DEF TurnStep
  <2> QED BY <1>1, <2>1, <2>2, AskHolds, TabHolds, LoadElsewhereHolds, ChangeHolds, RestartHolds DEF Next
<1> QED BY <1>1, ChatInitHolds, PTL DEF Spec

\* What the variables of the conversations and turns hold.
THEOREM ChatTypeCorrect == Spec => []TypeOK
<1>1. ChatInv => TypeOK
  BY DEF ChatInv
<1> QED BY <1>1, ChatInvariance, PTL

\* No answer overwrites another: a stored conversation holds the last answers given in it,
\* all of them counted (ConversationRepository.commit).
THEOREM AnswersKept == Spec => []AnswersNotLost
<1>1. ChatInv => AnswersNotLost
  BY DEF ChatInv, AllWhole, IsWhole, AnswersNotLost, ToSet
<1> QED BY <1>1, ChatInvariance, PTL

\* All that an answer rests on was so when the comparison of assert_fresh began, although
\* every part was read at a time of its own (coordinate, assert_fresh).
THEOREM AnswersAreOfOneInstant == Spec => []OneInstant
<1>1. ASSUME ChatInv, NEW t \in Turn, turn[t].pc = "checking", turn[t].plan = {}
      PROVE  /\ \A p \in Part : turn[t].prints[p] # 0 => turn[t].prints[p] = turn[t].at[p]
             /\ turn[t].item # None =>
                    /\ turn[t].item = turn[t].target
                    /\ turn[t].at[turn[t].item.part] = turn[t].item.print
             /\ turn[t].proposal # 0 /\ turn[t].prints["product"] # 0 =>
                    turn[t].proposal = turn[t].prints["product"]
  <2>1. /\ HasTheItem(turn[t]) /\ ProposalBy(turn[t], turn[t].at) /\ Compared(turn[t])
        /\ "product" \in Part
    BY <1>1, TurnTyped, Typed DEF TurnOK, Loaded
  <2>2. \A p \in Part : turn[t].prints[p] # 0 => turn[t].prints[p] = turn[t].at[p]
    BY <1>1, <2>1 DEF Compared
  <2>3. turn[t].item # None =>
          /\ turn[t].item = turn[t].target
          /\ turn[t].at[turn[t].item.part] = turn[t].item.print
    BY <1>1, <2>1, <2>2 DEF HasTheItem, Targets
  <2>4. turn[t].proposal # 0 /\ turn[t].prints["product"] # 0 =>
           turn[t].proposal = turn[t].prints["product"]
    BY <2>1, <2>2 DEF ProposalBy
  <2> QED BY <2>2, <2>3, <2>4
<1>2. ChatInv => OneInstant
  BY <1>1 DEF OneInstant
<1> QED BY <1>2, ChatInvariance, PTL


-----------------------------------------------------------------------------
(* CopilotAnswers: the invariant *)

\* A claim is a record of four fields.
IsClaim(c) == c = [id |-> c.id, facts |-> c.facts, by |-> c.by, validation |-> c.validation]

AreClaims(list) ==
    list = [i \in DOMAIN list |-> list[i]] /\ \A i \in DOMAIN list : IsClaim(list[i])

\* Claims that are still to be verified: none is supported yet, and one that waits for
\* its verdict rests on facts that were read.
Unverified(list) ==
    \A i \in DOMAIN list :
        /\ list[i].validation # "SUPPORTED"
        /\ list[i].validation = "UNCHECKED" => Refers(list[i])

\* Claims of ids of their own.
OwnIds(list) == \A i, j \in DOMAIN list : list[i].id = list[j].id => i = j

\* A claim that counts as supported was found so as it is.
SupportedWasVerified(list) ==
    \A i \in Supported(list) : Content(list[i]) \in verified /\ Refers(list[i])

\* The judgment that an answer is complete is about the claims that are supported, if all are.
JudgedAsItIs ==
    Complete /\ Supported(claims) = DOMAIN claims => coverage.about = SupportedContents(claims)

\* What is known of the claims at each stage.  Repairs have ids of their own among those
\* that failed: a verdict on one of them cannot count for another.
AnswersInv ==
    /\ AreClaims(claims) /\ AreClaims(repaired)
    /\ stage \in {"plan", "read"} => claims = <<>> /\ coverage = Unknown
    /\ stage = "validate" => Unverified(claims) /\ coverage = Unknown
    /\ stage \in {"repair", "revalidate", "finish"} /\ Distinct =>
           SupportedWasVerified(claims) /\ JudgedAsItIs
    /\ stage = "revalidate" =>
           /\ FailedIds(claims) # {}
           /\ Unverified(repaired) /\ OwnIds(repaired)
           /\ \A j \in DOMAIN repaired : repaired[j].id \in FailedIds(claims)
    /\ OnlyVerifiedIsSaid

-----------------------------------------------------------------------------
(* What the operators return *)

\* A draft becomes claims that are still to be verified, one for each place.
LEMMA CandidatesUnverified ==
    ASSUME NEW draft, NEW by
    PROVE  /\ AreClaims(Candidates(draft, by)) /\ Unverified(Candidates(draft, by))
           /\ DOMAIN Candidates(draft, by) = DOMAIN draft
           /\ \A i \in DOMAIN draft : Candidates(draft, by)[i].id = draft[i].id
<1> DEFINE list == Candidates(draft, by)
<1>1. ASSUME NEW i \in DOMAIN draft
      PROVE  /\ list[i] = [id |-> draft[i].id, facts |-> draft[i].facts, by |-> by,
                           validation |-> IF Fresh(draft, i) /\ Refers(draft[i])
                                          THEN "UNCHECKED" ELSE "INSUFFICIENT"]
             /\ IsClaim(list[i]) /\ list[i].id = draft[i].id
             /\ list[i].validation # "SUPPORTED"
             /\ list[i].validation = "UNCHECKED" => Refers(list[i])
  BY DEF Candidates, IsClaim, Refers
<1>2. DOMAIN list = DOMAIN draft /\ list = [i \in DOMAIN list |-> list[i]]
  BY DEF Candidates
<1> QED BY <1>1, <1>2 DEF AreClaims, Unverified

\* Verdicts change nothing about a claim but what is known of it.
LEMMA ApplyKeeps ==
    ASSUME NEW list, AreClaims(list), NEW verdicts
    PROVE  /\ AreClaims(Apply(verdicts, list)) /\ DOMAIN Apply(verdicts, list) = DOMAIN list
           /\ \A i \in DOMAIN list :
                /\ Content(Apply(verdicts, list)[i]) = Content(list[i])
                /\ Apply(verdicts, list)[i].validation =
                       IF list[i].id \in DOMAIN verdicts THEN verdicts[list[i].id]
                       ELSE list[i].validation
<1> DEFINE new == Apply(verdicts, list)
<1>1. ASSUME NEW i \in DOMAIN list
      PROVE  /\ IsClaim(new[i]) /\ Content(new[i]) = Content(list[i])
             /\ new[i].validation = IF list[i].id \in DOMAIN verdicts
                                    THEN verdicts[list[i].id] ELSE list[i].validation
  <2>1. IsClaim(list[i])
    BY DEF AreClaims
  <2>2. new[i] = IF list[i].id \in DOMAIN verdicts
                 THEN [list[i] EXCEPT !.validation = verdicts[list[i].id]] ELSE list[i]
    BY DEF Apply
  <2>3. CASE list[i].id \in DOMAIN verdicts
    <3>1. new[i] = [id |-> list[i].id, facts |-> list[i].facts, by |-> list[i].by,
                    validation |-> verdicts[list[i].id]]
      BY <2>1, <2>2, <2>3 DEF IsClaim
    <3> QED BY <2>3, <3>1 DEF IsClaim, Content
  <2>4. CASE list[i].id \notin DOMAIN verdicts
    BY <2>1, <2>2, <2>4
  <2> QED BY <2>3, <2>4
<1>2. DOMAIN new = DOMAIN list /\ new = [i \in DOMAIN new |-> new[i]]
  BY DEF Apply
<1> QED BY <1>1, <1>2 DEF AreClaims

\* What comes out of verifying claims of ids of their own: those that are supported are
\* known to be so from now on, and the others are as they were or worse.
LEMMA OutcomesVerified ==
    ASSUME NEW list, AreClaims(list), Unverified(list), NEW siblings,
           NEW outcome \in Outcomes(list, siblings)
    PROVE  /\ AreClaims(outcome.list) /\ DOMAIN outcome.list = DOMAIN list
           /\ \A i \in DOMAIN list : Content(outcome.list[i]) = Content(list[i])
           /\ OwnIds(list) => \A i \in Supported(outcome.list) :
                /\ Content(outcome.list[i]) \in outcome.supported
                /\ Refers(outcome.list[i]) /\ list[i].validation = "UNCHECKED"
           /\ \/ Supported(outcome.list) = {} /\ outcome.coverage = coverage
              \/ outcome.coverage.about = Pending(list) \cup siblings
<1>1. CASE outcome = [list |-> list, coverage |-> coverage, supported |-> {}]
  BY <1>1 DEF Unverified, Supported
<1>2. ASSUME NEW verdicts \in {v \in Verdicts : Succeeds /\ Pending(list) # {} /\ WholeSet(v, Pending(list))},
             NEW status \in {"COMPLETE", "PARTIAL"},
             outcome = [list |-> Apply(verdicts, list),
                        coverage |-> [status |-> status, about |-> Pending(list) \cup siblings],
                        supported |-> {c \in Pending(list) : <<c.id, "SUPPORTED">> \in Answers(verdicts)}]
      PROVE  /\ AreClaims(outcome.list) /\ DOMAIN outcome.list = DOMAIN list
             /\ \A i \in DOMAIN list : Content(outcome.list[i]) = Content(list[i])
             /\ OwnIds(list) => \A i \in Supported(outcome.list) :
                  /\ Content(outcome.list[i]) \in outcome.supported
                  /\ Refers(outcome.list[i]) /\ list[i].validation = "UNCHECKED"
             /\ outcome.coverage.about = Pending(list) \cup siblings
  <2>1. outcome.list = Apply(verdicts, list)
        /\ outcome.coverage.about = Pending(list) \cup siblings
        /\ outcome.supported = {c \in Pending(list) : <<c.id, "SUPPORTED">> \in Answers(verdicts)}
    BY <1>2
  <2>2. ASSUME OwnIds(list), NEW i \in Supported(outcome.list)
        PROVE  /\ Content(outcome.list[i]) \in outcome.supported
               /\ Refers(outcome.list[i]) /\ list[i].validation = "UNCHECKED"
    <3>1. i \in DOMAIN list /\ outcome.list[i].validation = "SUPPORTED"
      BY <2>1, <2>2, ApplyKeeps DEF Supported
    <3>2. list[i].id \in DOMAIN verdicts /\ verdicts[list[i].id] = "SUPPORTED"
      BY <2>1, <3>1, ApplyKeeps DEF Unverified
    <3>3. PICK j \in DOMAIN list : list[j].validation = "UNCHECKED" /\ Content(list[j]).id = list[i].id
      BY <3>2 DEF WholeSet, Pending
    <3>4. j = i
      BY <2>2, <3>1, <3>3 DEF OwnIds, Content
    <3>5. Content(list[i]) \in Pending(list) /\ Refers(list[i])
      BY <3>1, <3>3, <3>4 DEF Pending, Unverified
    <3>6. <<list[i].id, "SUPPORTED">> \in Answers(verdicts) /\ Content(list[i]).id = list[i].id
      BY <3>2 DEF Answers, Content
    <3>7. Content(outcome.list[i]) = Content(list[i])
      BY <2>1, <3>1, ApplyKeeps
    <3>8. outcome.list[i].facts = list[i].facts
      BY <3>7 DEF Content
    <3> QED BY <2>1, <3>3, <3>4, <3>5, <3>6, <3>7, <3>8 DEF Refers
  <2> QED BY <2>1, <2>2, ApplyKeeps
<1> QED BY <1>1, <1>2 DEF Outcomes

-----------------------------------------------------------------------------
(* The steps *)

\* Before there is a draft there are no claims.
LEMMA NoClaims == AreClaims(<<>>) /\ Supported(<<>>) = {} /\ ~(Unknown.status = "COMPLETE")
  BY DEF AreClaims, Supported, Unknown

LEMMA InitHolds == AnswersInit => AnswersInv
  BY NoClaims DEF AnswersInit, Waiting, AnswersInv, OnlyVerifiedIsSaid

\* Planning and reading.
LEMMA ReadingHolds ==
    ASSUME AnswersInv, PlanTurn \/ ReadTask
    PROVE  AnswersInv'
<1>1. /\ stage' = "read" /\ stage \in {"plan", "read"}
      /\ UNCHANGED <<claims, coverage, repaired, published, shown, passed, verified>>
  BY DEF PlanTurn, ReadTask
<1> QED BY <1>1 DEF AnswersInv, AreClaims, OnlyVerifiedIsSaid

\* A draft is there, or fails.
LEMMA GenerateHolds ==
    ASSUME AnswersInv, Generate
    PROVE  AnswersInv'
<1>1. claims = <<>> /\ coverage = Unknown /\ UNCHANGED <<coverage, repaired, bundle, verified>>
  BY DEF Generate, AnswersInv
<1>2. CASE stage' = "finish" /\ UNCHANGED claims
  <2>1. SupportedWasVerified(claims)' /\ JudgedAsItIs'
    BY <1>1, <1>2, NoClaims DEF SupportedWasVerified, JudgedAsItIs, Complete, Supported
  <2> QED BY <1>1, <1>2, <2>1 DEF AnswersInv, AreClaims, OnlyVerifiedIsSaid
<1>3. ASSUME NEW draft \in Drafts, claims' = Candidates(draft, "draft"), stage' = "validate"
      PROVE  AnswersInv'
  <2>1. AreClaims(claims') /\ Unverified(claims')
    BY <1>3, CandidatesUnverified
  <2>2. Unverified(claims)'
    BY <1>1, <2>1 DEF Unverified, Refers
  <2> QED BY <1>1, <1>3, <2>1, <2>2 DEF AnswersInv, AreClaims, OnlyVerifiedIsSaid
<1> QED BY <1>2, <1>3 DEF Generate

\* The first verification.
LEMMA ValidateHolds ==
    ASSUME AnswersInv, Validate
    PROVE  AnswersInv'
<1> DEFINE none == {}
<1>1. PICK outcome \in Outcomes(claims, none) : claims' = outcome.list /\ Knows(outcome)
  BY DEF Validate
<1>2. AreClaims(claims) /\ Unverified(claims) /\ coverage = Unknown
      /\ stage' = "repair" /\ UNCHANGED <<bundle, repaired>>
  BY DEF Validate, AnswersInv
<1>3. /\ AreClaims(claims') /\ DOMAIN claims' = DOMAIN claims
      /\ \A i \in DOMAIN claims : Content(claims'[i]) = Content(claims[i])
      /\ OwnIds(claims) => \A i \in Supported(claims') :
           /\ Content(claims'[i]) \in outcome.supported /\ Refers(claims'[i])
           /\ claims[i].validation = "UNCHECKED"
      /\ \/ Supported(claims') = {} /\ coverage' = coverage
         \/ coverage'.about = Pending(claims)
  <2>1. /\ AreClaims(outcome.list) /\ DOMAIN outcome.list = DOMAIN claims
        /\ \A i \in DOMAIN claims : Content(outcome.list[i]) = Content(claims[i])
        /\ OwnIds(claims) => \A i \in Supported(outcome.list) :
             /\ Content(outcome.list[i]) \in outcome.supported /\ Refers(outcome.list[i])
             /\ claims[i].validation = "UNCHECKED"
        /\ \/ Supported(outcome.list) = {} /\ outcome.coverage = coverage
           \/ outcome.coverage.about = Pending(claims) \cup none
    <3> HIDE DEF none
    <3> QED BY <1>1, <1>2, OutcomesVerified
  <2>2. Pending(claims) \cup none = Pending(claims)
    OBVIOUS
  <2> QED BY <1>1, <2>1, <2>2 DEF Knows
<1>4. Distinct' => OwnIds(claims)
  BY <1>3 DEF Distinct, OwnIds, Content
<1>5. Distinct' => SupportedWasVerified(claims)'
  BY <1>1, <1>2, <1>3, <1>4 DEF SupportedWasVerified, Knows, Refers, Supported
\* If all are supported, all had been waiting for their verdict.
<1>6. ASSUME Distinct', Complete', Supported(claims)' = DOMAIN claims'
      PROVE  coverage'.about = SupportedContents(claims)'
  <2>1. coverage'.about = Pending(claims)
    BY <1>2, <1>3, <1>6 DEF Complete, Unknown
  <2>2. ASSUME NEW i \in DOMAIN claims PROVE claims[i].validation = "UNCHECKED"
    BY <1>3, <1>4, <1>6
  <2>3. Pending(claims) = {Content(claims[i]) : i \in DOMAIN claims}
    BY <2>2 DEF Pending
  <2>4. SupportedContents(claims)' = {Content(claims'[i]) : i \in DOMAIN claims}
    BY <1>3, <1>6 DEF SupportedContents, Supported, Content
  <2> QED BY <1>3, <2>1, <2>3, <2>4
<1>7. Distinct' => JudgedAsItIs'
  BY <1>6 DEF JudgedAsItIs
<1> QED BY <1>2, <1>3, <1>5, <1>7 DEF AnswersInv, AreClaims, OnlyVerifiedIsSaid

\* Repairs are drafted, for ids that failed, once for each of them.
LEMMA RepairHolds ==
    ASSUME AnswersInv, Repair
    PROVE  AnswersInv'
<1>1. stage = "repair" /\ UNCHANGED <<claims, coverage, bundle, verified>>
  BY DEF Repair
<1>2. (Distinct => SupportedWasVerified(claims) /\ JudgedAsItIs)'
  BY <1>1 DEF AnswersInv, Distinct, SupportedWasVerified, JudgedAsItIs, Supported, SupportedContents,
              Content, Refers, Complete
<1>3. CASE stage' = "finish" /\ UNCHANGED repaired
  BY <1>1, <1>2, <1>3 DEF AnswersInv, AreClaims, OnlyVerifiedIsSaid
<1>4. ASSUME NEW draft \in Repairs, NeedsRepair, stage' = "revalidate",
             repaired' = Candidates(FirstOfEach(draft), "repair")
      PROVE  AnswersInv'
  <2> DEFINE first == FirstOfEach(draft)
  <2>1. /\ AreClaims(repaired') /\ Unverified(repaired') /\ DOMAIN repaired' = DOMAIN first
        /\ \A j \in DOMAIN first : repaired'[j].id = first[j].id
    BY <1>4, CandidatesUnverified
  <2>2. Unverified(repaired)'
    BY <1>1, <2>1 DEF Unverified, Refers
  <2>3. ASSUME NEW j \in DOMAIN first
        PROVE  j \in DOMAIN draft /\ first[j] = draft[j] /\ Fresh(draft, j)
               /\ draft[j].id \in FailedIds(claims)
    BY DEF FirstOfEach
  <2>4. first = FirstOfEach(draft) /\ DOMAIN first \subseteq Nat
    BY AnswersAssumption, <2>3
  <2>5. OwnIds(repaired)'
    <3> SUFFICES ASSUME NEW i \in DOMAIN first, NEW j \in DOMAIN first, first[i].id = first[j].id
                 PROVE  i = j
      BY <2>1 DEF OwnIds
    <3>1. ~(i < j) /\ ~(j < i)
      BY <2>3 DEF Fresh
    <3> QED BY <2>4, <3>1
  <2>6. \A j \in DOMAIN repaired' : repaired'[j].id \in FailedIds(claims)
    BY <2>1, <2>3
  <2>7. FailedIds(claims) # {} /\ FailedIds(claims)' = FailedIds(claims)
    BY <1>1, <1>4 DEF NeedsRepair, FailedIds, Supported
  <2> QED BY <1>1, <1>2, <1>4, <2>1, <2>2, <2>5, <2>6, <2>7 DEF AnswersInv, AreClaims, OnlyVerifiedIsSaid
<1> QED BY <1>1, <1>3, <1>4 DEF Repair

\* A claim is as it was, or has given way to a repair of its id that is supported.
LEMMA ReplacedBy ==
    ASSUME AreClaims(claims), NEW fixed, AreClaims(fixed), NEW i \in DOMAIN claims
    PROVE  /\ DOMAIN Replaced(fixed) = DOMAIN claims
           /\ Replaced(fixed)[i].id = claims[i].id
           /\ \/ Replaced(fixed)[i] = claims[i]
              \/ \E j \in Supported(fixed) : /\ Replaced(fixed)[i] = fixed[j]
                                             /\ fixed[j].id = claims[i].id
           /\ i \in Supported(claims) /\ claims[i].id \notin FailedIds(claims) =>
                  Replaced(fixed)[i] = claims[i]
<1> DEFINE better == {j \in Supported(fixed) : fixed[j].id = claims[i].id}
<1>1. DOMAIN Replaced(fixed) = DOMAIN claims
  BY DEF Replaced
<1>2. Replaced(fixed)[i] = IF claims[i].id \in FailedIds(claims) /\ better # {}
                           THEN fixed[CHOOSE j \in better : TRUE] ELSE claims[i]
  BY DEF Replaced
<1>3. CASE claims[i].id \in FailedIds(claims) /\ better # {}
  <2>1. PICK j \in better : Replaced(fixed)[i] = fixed[j]
    BY <1>2, <1>3
  <2> QED BY <1>1, <1>3, <2>1
<1>4. CASE ~(claims[i].id \in FailedIds(claims) /\ better # {})
  <2>1. Replaced(fixed)[i] = claims[i]
    BY <1>2, <1>4
  <2> QED BY <1>1, <2>1
<1> QED BY <1>3, <1>4

\* What has been repaired is a list of claims.
LEMMA ReplacedClaims ==
    ASSUME AreClaims(claims), NEW fixed, AreClaims(fixed)
    PROVE  AreClaims(Replaced(fixed))
<1>1. DOMAIN Replaced(fixed) = DOMAIN claims
      /\ Replaced(fixed) = [i \in DOMAIN Replaced(fixed) |-> Replaced(fixed)[i]]
  BY DEF Replaced
<1>2. ASSUME NEW i \in DOMAIN claims PROVE IsClaim(Replaced(fixed)[i])
  <2>1. \/ Replaced(fixed)[i] = claims[i]
        \/ \E j \in Supported(fixed) : Replaced(fixed)[i] = fixed[j]
    BY ReplacedBy
  <2> QED BY <2>1 DEF AreClaims, Supported
<1> QED BY <1>1, <1>2 DEF AreClaims

\* The second verification.
LEMMA RevalidateHolds ==
    ASSUME AnswersInv, Revalidate
    PROVE  AnswersInv'
<1> DEFINE siblings == SupportedContents(claims)
<1>1. PICK outcome \in Outcomes(repaired, siblings) :
        claims' = Replaced(outcome.list) /\ Knows(outcome)
  BY DEF Revalidate
<1> DEFINE fixed == outcome.list
<1>2. /\ AreClaims(claims) /\ AreClaims(repaired) /\ FailedIds(claims) # {}
      /\ Unverified(repaired) /\ OwnIds(repaired)
      /\ \A j \in DOMAIN repaired : repaired[j].id \in FailedIds(claims)
      /\ Distinct => SupportedWasVerified(claims) /\ JudgedAsItIs
      /\ stage' = "finish" /\ UNCHANGED <<bundle, repaired>>
  BY DEF Revalidate, AnswersInv
<1> HIDE DEF siblings
<1>3. /\ AreClaims(fixed) /\ DOMAIN fixed = DOMAIN repaired
      /\ \A j \in DOMAIN repaired : Content(fixed[j]) = Content(repaired[j])
      /\ \A j \in Supported(fixed) :
           /\ Content(fixed[j]) \in outcome.supported /\ Refers(fixed[j])
           /\ repaired[j].validation = "UNCHECKED"
      /\ \/ Supported(fixed) = {} /\ outcome.coverage = coverage
         \/ outcome.coverage.about = Pending(repaired) \cup siblings
  BY <1>1, <1>2, OutcomesVerified
<1>4. coverage' = outcome.coverage /\ verified' = verified \cup outcome.supported
  BY <1>1 DEF Knows
<1> HIDE DEF fixed
<1>5. claims' = Replaced(fixed)
  BY <1>1 DEF fixed
<1>6. ASSUME NEW i \in DOMAIN claims
      PROVE  /\ DOMAIN claims' = DOMAIN claims /\ claims'[i].id = claims[i].id
             /\ \/ claims'[i] = claims[i]
                \/ \E j \in Supported(fixed) : claims'[i] = fixed[j] /\ fixed[j].id = claims[i].id
             /\ i \in Supported(claims) /\ claims[i].id \notin FailedIds(claims) =>
                    claims'[i] = claims[i]
  BY <1>2, <1>3, <1>5, ReplacedBy
<1>7. AreClaims(claims')
  BY <1>2, <1>3, <1>5, ReplacedClaims
<1>8. DOMAIN claims' = DOMAIN claims
  BY <1>5 DEF Replaced
<1>9. Distinct' => Distinct
  BY <1>6, <1>8 DEF Distinct
<1>10. ASSUME Distinct' PROVE SupportedWasVerified(claims)'
  <2>1. ASSUME NEW i \in Supported(claims')
        PROVE  Content(claims'[i]) \in verified' /\ Refers(claims'[i])
    <3>1. i \in DOMAIN claims /\ claims'[i].validation = "SUPPORTED"
      BY <1>8, <2>1 DEF Supported
    <3>2. CASE claims'[i] = claims[i]
      BY <1>2, <1>4, <1>9, <1>10, <3>1, <3>2 DEF SupportedWasVerified, Supported
    <3>3. CASE \E j \in Supported(fixed) : claims'[i] = fixed[j]
      BY <1>3, <1>4, <3>3
    <3> QED BY <1>6, <3>1, <3>2, <3>3
  <2> QED BY <1>2, <2>1 DEF SupportedWasVerified, Refers, Supported
\* If all are supported, every repair that was verified has been taken.
<1>11. ASSUME Distinct', Complete', Supported(claims)' = DOMAIN claims'
       PROVE  coverage'.about = SupportedContents(claims)'
  <2>0. \A i \in DOMAIN claims : claims'[i].validation = "SUPPORTED"
    BY <1>8, <1>11 DEF Supported
  <2>1. Distinct
    BY <1>9, <1>11
  <2>2. PICK k \in DOMAIN claims : claims[k].validation # "SUPPORTED"
    BY <1>2 DEF FailedIds, Supported
  <2>3. Supported(fixed) # {}
    BY <1>6, <2>0, <2>2
  <2>4. coverage'.about = Pending(repaired) \cup siblings
    BY <1>3, <1>4, <2>3
  <2>5. ASSUME NEW j \in DOMAIN repaired, repaired[j].validation = "UNCHECKED"
        PROVE  \E i \in DOMAIN claims : Content(claims'[i]) = Content(repaired[j])
    <3>1. PICK i \in DOMAIN claims \ Supported(claims) : claims[i].id = repaired[j].id
      BY <1>2 DEF FailedIds
    <3>2. PICK l \in Supported(fixed) : claims'[i] = fixed[l] /\ fixed[l].id = claims[i].id
      BY <1>6, <2>0, <3>1 DEF Supported
    <3>3. l \in DOMAIN repaired /\ repaired[l].id = repaired[j].id
      BY <1>3, <3>1, <3>2 DEF Supported, Content
    <3>4. l = j
      BY <1>2, <3>3 DEF OwnIds
    <3> QED BY <1>3, <3>2, <3>3, <3>4
  <2>6. ASSUME NEW i \in DOMAIN claims
        PROVE  Content(claims'[i]) \in Pending(repaired) \cup siblings
    <3>1. CASE claims'[i] = claims[i]
      BY <2>0, <3>1 DEF siblings, SupportedContents, Supported
    <3>2. ASSUME NEW j \in Supported(fixed), claims'[i] = fixed[j]
          PROVE  Content(claims'[i]) \in Pending(repaired) \cup siblings
      BY <1>3, <3>2 DEF Pending, Supported
    <3> QED BY <1>6, <3>1, <3>2
  <2>7. ASSUME NEW i \in Supported(claims)
        PROVE  claims'[i] = claims[i]
    <3>1. claims[i].id \notin FailedIds(claims)
      BY <2>1 DEF FailedIds, Supported, Distinct
    <3> QED BY <1>6, <3>1 DEF Supported
  <2>8. SupportedContents(claims)' = {Content(claims'[i]) : i \in DOMAIN claims}
    BY <1>8, <1>11 DEF SupportedContents, Supported, Content
  <2>9. siblings \subseteq SupportedContents(claims)'
    BY <2>7, <2>8 DEF siblings, SupportedContents, Supported
  <2>10. Pending(repaired) \subseteq SupportedContents(claims)'
    BY <2>5, <2>8 DEF Pending
  <2>11. SupportedContents(claims)' \subseteq Pending(repaired) \cup siblings
    BY <2>6, <2>8
  <2> QED BY <2>4, <2>9, <2>10, <2>11
<1>12. Distinct' => JudgedAsItIs'
  BY <1>11 DEF JudgedAsItIs
<1>13. AreClaims(claims)' /\ AreClaims(repaired)'
  BY <1>2, <1>7 DEF AreClaims
<1> QED BY <1>2, <1>10, <1>12, <1>13 DEF AnswersInv, OnlyVerifiedIsSaid

\* What is said.
LEMMA FinishHolds ==
    ASSUME AnswersInv, Finish
    PROVE  AnswersInv'
<1>1. /\ stage = "finish" /\ stage' = "said" /\ UNCHANGED <<claims, repaired, guided, bundle, coverage, verified>>
      /\ published' = SupportedContents(claims)
  BY DEF Finish
<1>2. ASSUME Distinct', NEW c \in published'
      PROVE  c \in verified' /\ c.facts # {} /\ c.facts \subseteq bundle'
  <2>1. PICK i \in Supported(claims) : c = Content(claims[i])
    BY <1>1, <1>2 DEF SupportedContents
  <2>2. Content(claims[i]) \in verified /\ Refers(claims[i])
    BY <1>1, <1>2, <2>1 DEF AnswersInv, SupportedWasVerified, Distinct
  <2> QED BY <1>1, <2>1, <2>2 DEF Content, Refers
<1>3. ASSUME Distinct', passed', ~guided'
      PROVE  /\ coverage'.about = published' /\ coverage'.status = "COMPLETE"
             /\ bundle' \subseteq UNION {c.facts : c \in published'}
  <2>1. PICK structural \in BOOLEAN :
          passed' = (~Partial(structural) /\ whole
                     /\ (guided \/ bundle \subseteq UNION {c.facts : c \in SupportedContents(claims)}))
    BY DEF Finish
  <2>2. Complete /\ Supported(claims) = DOMAIN claims
    BY <1>1, <1>3, <2>1 DEF Partial
  <2>3. JudgedAsItIs
    BY <1>1, <1>3 DEF AnswersInv, Distinct
  <2> QED BY <1>1, <1>3, <2>1, <2>2, <2>3 DEF JudgedAsItIs, Complete
<1>4. OnlyVerifiedIsSaid'
  BY <1>2, <1>3 DEF OnlyVerifiedIsSaid
<1> QED BY <1>1, <1>4 DEF AnswersInv, AreClaims

-----------------------------------------------------------------------------
(* Theorems about CopilotAnswers *)

\* Claims, repairs and the judgment on them belong together at every stage of a turn.
THEOREM AnswersInvariance == AnswersSpec => []AnswersInv
<1>1. AnswersInit => AnswersInv
  BY InitHolds
<1>2. ASSUME AnswersInv, [AnswersNext]_answerVars PROVE AnswersInv'
  <2>1. CASE UNCHANGED answerVars
    <3>1. /\ UNCHANGED <<stage, guided, bundle, claims, coverage, repaired, published, passed, verified>>
      BY <2>1 DEF answerVars
    <3>2. Supported(claims)' = Supported(claims) /\ FailedIds(claims)' = FailedIds(claims)
          /\ SupportedContents(claims)' = SupportedContents(claims)
      BY <3>1 DEF Supported, FailedIds, SupportedContents, Content
    <3>3. /\ AreClaims(claims)' = AreClaims(claims) /\ AreClaims(repaired)' = AreClaims(repaired)
          /\ OwnIds(repaired)' = OwnIds(repaired) /\ Distinct' = Distinct
          /\ OnlyVerifiedIsSaid' = OnlyVerifiedIsSaid
      BY <3>1 DEF AreClaims, OwnIds, Distinct, OnlyVerifiedIsSaid
    <3>4. /\ Unverified(claims) => Unverified(claims)'
          /\ Unverified(repaired) => Unverified(repaired)'
      BY <3>1 DEF Unverified, Refers
    <3>5. SupportedWasVerified(claims) => SupportedWasVerified(claims)'
      BY <3>1, <3>2 DEF SupportedWasVerified, Content, Refers
    <3>6. JudgedAsItIs => JudgedAsItIs'
      BY <3>1, <3>2 DEF JudgedAsItIs, Complete
    <3> QED BY <1>2, <3>1, <3>2, <3>3, <3>4, <3>5, <3>6 DEF AnswersInv
  <2> QED BY <1>2, <2>1, ReadingHolds, GenerateHolds, ValidateHolds, RepairHolds,
             RevalidateHolds, FinishHolds DEF AnswersNext
<1> QED BY <1>1, <1>2, PTL DEF AnswersSpec

\* Whatever the models answer, what is said was verified in just this wording, and what
\* counts as a whole answer was judged as it is said (answer_validation.py, compose).
THEOREM OnlyVerifiedSaid == AnswersSpec => []OnlyVerifiedIsSaid
<1>1. AnswersInv => OnlyVerifiedIsSaid
  BY DEF AnswersInv
<1> QED BY <1>1, AnswersInvariance, PTL

-----------------------------------------------------------------------------
(* CopilotActions: the invariant *)

\* Ids are start times that have passed, and each belongs to one run or transaction.
IdsApart ==
    /\ \A i \in DOMAIN log : log[i].id \in 1..(clock - 1)
    /\ \A i, k \in DOMAIN log : log[i].id = log[k].id => i = k
    /\ \A w \in Writer : write[w].id < clock
    /\ \A w, x \in Writer : write[w].id = write[x].id /\ write[w].id # 0 => w = x
    /\ \A w \in Writer, j \in Judge : write[w].id = judging[j].id => write[w].id = 0
    /\ \A j \in Judge : judging[j].id < clock
    /\ \A j, k \in Judge : judging[j].id = judging[k].id /\ judging[j].id # 0 => j = k

IsStored(id) == \E i \in DOMAIN log : log[i].id = id
IsDecision(id) == \E i \in DOMAIN log : log[i].id = id /\ log[i].origin # "judgment"

\* A run that has left open the question of provenance p.
Grounds(p) ==
    \E i \in DOMAIN log : log[i].id = p.cr /\ log[i].open /\ log[i].analysis = p.ca
                          /\ log[i].version = "current"

\* No decision is newer than a run.
DecidedUpTo(cr) == \A i \in DOMAIN log : log[i].origin # "judgment" => log[i].id <= cr

\* A confirmation that has not ended is not stored.  What it has read under the lock
\* covers every decision, as decisions are made under the lock only.
WriteOK(r) ==
    /\ r.pc = "idle" => r.id = 0
    /\ r.pc # "idle" => r.id # 0
    /\ r.pc \in Holding \cup {"waiting"} => r.p \in Provenance /\ ~IsStored(r.id)
    /\ r.pc = "done" => IF r.outcome = "saved" THEN IsDecision(r.id)
                        ELSE r.outcome \in {"STALE", "FAILED"} /\ ~IsStored(r.id)
    /\ r.pc \in {"locked", "reading"} => r.fresh \in Provenance /\ r.fresh.kind = r.p.kind
    /\ r.pc = "reading" /\ r.p.kind = "revalidate" => DecidedUpTo(r.fresh.cr)
    /\ r.pc \in {"fresh", "source", "ready"} =>
           IF r.p.kind = "answer" THEN Grounds(r.p) ELSE DecidedUpTo(r.p.cr)
    /\ r.pc \in {"source", "ready"} => DecidedUpTo(r.p.cr)

JudgingOK(r) ==
    IF r.pc = "idle" THEN r.id = 0
    ELSE r.id # 0 /\ ~IsStored(r.id) /\ r.version \in Version

\* What a tab takes for refused is neither stored nor under way.  While it reads for
\* a draft or a proposal it shows nothing of an earlier confirmation.
PanelOK(r) ==
    /\ r.confirm < clock
    /\ r.stage \in {"STALE", "FAILED"} /\ r.confirm # 0 =>
           /\ ~IsStored(r.confirm)
           /\ \A w \in Writer : write[w].id # r.confirm
           /\ \A j \in Judge : judging[j].id # r.confirm
    /\ r.read # Absent => r.stage # "CONFIRMING"
    /\ r.read # Absent /\ r.read.to \in {"draft", "propose"} =>
           r.confirm = 0 /\ r.result = 0 /\ r.proposal = Absent
    /\ r.stage = "PROPOSAL_READY" => r.result = 0
    /\ r.result # 0 => r.result = r.confirm /\ IsDecision(r.confirm)
    /\ r.stage = "COMPLETED" /\ r.result # 0 => r.shown = r.result
    /\ r.draft # Absent /\ r.proposal # Absent => r.proposal = r.draft

\* Decisions are of the current version; each was made by someone who had been shown
\* those before it, and an answer is to a question that a run had left open.
DecisionsOK ==
    /\ \A i \in DOMAIN log : log[i].origin # "judgment" => log[i].version = "current"
    /\ \A i, k \in DOMAIN log :
          log[i].origin # "judgment" /\ log[k].origin # "judgment" /\ i < k =>
              log[i].id <= log[k].shown.cr
    /\ \A i \in DOMAIN log : log[i].origin = "answer" =>
          \E k \in DOMAIN log : log[k].id = log[i].source /\ log[k].open
                                /\ log[k].analysis = log[i].analysis

ActionsInv ==
    /\ ActionsTypeOK
    /\ IdsApart
    /\ \A w \in Writer : WriteOK(write[w]) /\ (lock = w <=> write[w].pc \in Holding)
    /\ \A j \in Judge : JudgingOK(judging[j])
    /\ \A t \in Tab : PanelOK(panel[t])
    /\ DecisionsOK

-----------------------------------------------------------------------------
(* What is read *)

LEMMA GreatestNumber ==
    ASSUME NEW n \in Nat, NEW S \in SUBSET (1..n), S # {}
    PROVE  \E i \in S : \A j \in S : j <= i
<1>1. PICK T : T = {n - i : i \in S}
  OBVIOUS
<1>2. \A i \in S : i \in Nat /\ n - i \in Nat
  OBVIOUS
<1>3. T \subseteq Nat /\ T # {}
  BY <1>1, <1>2
<1>4. PICK t \in T : \A u \in T : ~(<<u, t>> \in OpToRel(<, Nat))
  BY <1>3, NatLessThanWellFounded, WFMin
<1>5. PICK i \in S : t = n - i
  BY <1>1, <1>4
<1>6. ASSUME NEW j \in S PROVE j <= i
  <2>1. n - j \in T /\ n - j \in Nat /\ t \in Nat
    BY <1>1, <1>2, <1>3, <1>4
  <2>2. ~(n - j < t)
    BY <1>4, <2>1 DEF OpToRel
  <2> QED BY <1>2, <1>5, <2>2
<1> QED BY <1>6

\* The latest of a set of runs is one of them, and none is later.
LEMMA LatestOf ==
    ASSUME NEW S, clock \in Nat \ {0}, \A r \in S : r.id \in 1..(clock - 1)
    PROVE  /\ LatestId(S) \in Nat
           /\ LatestId(S) # 0 => \E r \in S : r.id = LatestId(S)
           /\ \A r \in S : r.id <= LatestId(S)
<1>1. CASE S = {}
  BY <1>1 DEF LatestId
<1>2. CASE S # {}
  <2>1. PICK I : I = Ids(S)
    OBVIOUS
  <2>2. I # {} /\ I \in SUBSET (1..(clock - 1)) /\ clock - 1 \in Nat
    BY <1>2, <2>1 DEF Ids
  <2>3. PICK m \in I : \A k \in I : k <= m
    BY <2>2, GreatestNumber
  <2>4. \A k \in I : k \in Nat
    BY <2>2
  <2>5. Max(I) \in I /\ \A k \in I : Max(I) >= k
    BY <2>3, <2>4 DEF Max
  <2>6. LatestId(S) = Max(I)
    BY <1>2, <2>1 DEF LatestId
  <2>7. \A r \in S : r.id \in I
    BY <2>1 DEF Ids
  <2>8. \E r \in S : r.id = Max(I)
    BY <2>1, <2>5 DEF Ids
  <2> QED BY <2>4, <2>5, <2>6, <2>7, <2>8
<1> QED BY <1>1, <1>2

LEMMA LatestOfLine ==
    ASSUME ActionsTypeOK, IdsApart, NEW v, NEW S, S \subseteq Line(v)
    PROVE  /\ LatestId(S) \in Nat
           /\ LatestId(S) # 0 => \E i \in DOMAIN log : log[i] \in S /\ log[i].id = LatestId(S)
           /\ \A i \in DOMAIN log : log[i] \in S => log[i].id <= LatestId(S)
<1>1. \A r \in S : \E i \in DOMAIN log : r = log[i]
  BY DEF Line, Runs, ToSet
<1>2. \A r \in S : r.id \in 1..(clock - 1)
  BY <1>1 DEF IdsApart
<1>3. clock \in Nat \ {0}
  BY DEF ActionsTypeOK
<1> QED BY <1>1, <1>2, <1>3, LatestOf

LEMMA RunOfId ==
    ASSUME IdsApart, NEW i \in DOMAIN log
    PROVE  RunOf(log[i].id) = log[i]
<1>1. log[i] \in Runs
  BY DEF Runs, ToSet
<1>2. \A r \in Runs : r.id = log[i].id => r = log[i]
  BY DEF Runs, ToSet, IdsApart
<1> QED BY <1>1, <1>2 DEF RunOf

LEMMA NothingTyped ==
    ASSUME NEW kind \in {"answer", "revalidate"}
    PROVE  Nothing(kind) \in Provenance /\ Nothing(kind).kind = kind
BY DEF Nothing, Provenance

LEMMA FirstReads ==
    ASSUME ActionsTypeOK, IdsApart, NEW p \in Provenance
    PROVE  /\ FirstRead(p) \in Provenance /\ FirstRead(p).kind = p.kind
           /\ p.kind = "revalidate" =>
                  \A i \in DOMAIN log : log[i].version = "current" => log[i].id <= FirstRead(p).cr
<1>1. analysis["current"] \in Nat
  BY DEF ActionsTypeOK, Version
<1>2. LatestId(Line("baseline")) \in Nat /\ LatestId(Line("current")) \in Nat
  BY LatestOfLine
<1>3. \A i \in DOMAIN log : log[i].version = "current" => log[i].id <= LatestId(Line("current"))
  <2>1. \A i \in DOMAIN log : log[i].version = "current" => log[i] \in Line("current")
    BY DEF Line, Runs, ToSet
  <2> QED BY <2>1, LatestOfLine
<1>4. CASE p.kind = "answer"
  BY <1>1, <1>4 DEF FirstRead, Provenance
<1>5. CASE p.kind # "answer"
  BY <1>2, <1>3, <1>5 DEF FirstRead, Provenance
<1> QED BY <1>4, <1>5

LEMMA SecondReads ==
    ASSUME ActionsTypeOK, IdsApart, NEW p \in Provenance
    PROVE  /\ SecondRead(p) \in Provenance /\ SecondRead(p).kind = p.kind
           /\ p.kind = "revalidate" => SecondRead(p).cr = p.cr
           /\ p.kind = "answer" /\ Usable(SecondRead(p)) /\ Askable(SecondRead(p)) =>
                  Grounds(SecondRead(p))
<1>1. analysis["current"] \in Nat /\ analysis["baseline"] \in Nat
  BY DEF ActionsTypeOK, Version
<1>2. PICK S : S = {r \in Line("current") : r.analysis = p.ca}
  OBVIOUS
<1>3. /\ LatestId(S) \in Nat
      /\ LatestId(S) # 0 => \E i \in DOMAIN log : log[i] \in S /\ log[i].id = LatestId(S)
  BY <1>2, LatestOfLine
<1>4. CASE p.kind = "answer"
  <2>1. PICK q : q = SecondRead(p)
    OBVIOUS
  <2>2. q = [p EXCEPT !.cr = LatestId(S)]
    BY <1>2, <1>4, <2>1 DEF SecondRead
  <2>3. q \in Provenance /\ q.kind = "answer" /\ q.cr = LatestId(S) /\ q.ca = p.ca
    BY <1>3, <1>4, <2>2 DEF Provenance
  <2>4. ASSUME Usable(q), Askable(q) PROVE Grounds(q)
    <3>1. q.cr # 0 /\ RunOf(q.cr).open
      BY <2>3, <2>4 DEF Usable, Askable
    <3>2. PICK i \in DOMAIN log : log[i] \in S /\ log[i].id = q.cr
      BY <1>3, <2>3, <3>1
    <3>3. log[i].analysis = q.ca /\ log[i].version = "current"
      BY <1>2, <2>3, <3>2 DEF Line
    <3>4. log[i].open
      BY <3>1, <3>2, RunOfId
    <3> QED BY <3>2, <3>3, <3>4 DEF Grounds
  <2> QED BY <1>4, <2>1, <2>3, <2>4
<1>5. CASE p.kind # "answer"
  BY <1>1, <1>5 DEF SecondRead, Provenance
<1> QED BY <1>4, <1>5

-----------------------------------------------------------------------------
(* Steps of the tabs *)

\* Nothing but tabs, analyses and the offer changes.
LEMMA TabsHold ==
    ASSUME ActionsInv, analysis' \in [Version -> Nat], offered' \in MaybeProvenance,
           panel' \in [Tab -> PanelRecord],
           \A t \in Tab : panel'[t] = panel[t] \/ \E r \in PanelRecord : PanelOK(r) /\ panel'[t] = r,
           UNCHANGED <<clock, log, lock, write, judging>>
    PROVE  ActionsInv'
<1>1. ActionsTypeOK'
  BY DEF ActionsInv, ActionsTypeOK
<1>2. IdsApart' /\ DecisionsOK'
  BY DEF ActionsInv, IdsApart, DecisionsOK
<1>3. \A w \in Writer : WriteOK(write[w])' /\ (lock' = w <=> write'[w].pc \in Holding)
  BY DEF ActionsInv, WriteOK, IsStored, IsDecision, Grounds, DecidedUpTo
<1>4. \A j \in Judge : JudgingOK(judging[j])'
  BY DEF ActionsInv, JudgingOK, IsStored
<1>5. ASSUME NEW t \in Tab PROVE PanelOK(panel[t])'
  <2>1. PICK r : r = panel'[t] /\ PanelOK(r)
    BY <1>5 DEF ActionsInv
  <2>2. PanelOK(r)'
    BY <2>1 DEF PanelOK, IsStored, IsDecision
  <2> QED BY <2>1, <2>2 DEF PanelOK
<1> QED BY <1>1, <1>2, <1>3, <1>4, <1>5 DEF ActionsInv

LEMMA TabHoldsAs ==
    ASSUME ActionsInv, NEW t \in Tab, NEW r \in PanelRecord, PanelOK(r), SetTab(t, r),
           UNCHANGED <<clock, analysis, log, lock, judging, offered, write>>
    PROVE  ActionsInv'
<1>1. ActionsTypeOK
  BY DEF ActionsInv
<1>2. panel' \in [Tab -> PanelRecord] /\ panel'[t] = r
  BY <1>1 DEF ActionsTypeOK, SetTab
<1>3. \A u \in Tab : u # t => panel'[u] = panel[u]
  BY <1>1 DEF ActionsTypeOK, SetTab
<1>4. analysis' \in [Version -> Nat] /\ offered' \in MaybeProvenance
  BY <1>1 DEF ActionsTypeOK
<1> QED BY <1>2, <1>3, <1>4, TabsHold

LEMMA InitialOK ==
    ASSUME ActionsInv, NEW r \in PanelRecord, r.confirm = 0, r.result = 0,
           r.read # Absent => r.stage # "CONFIRMING" /\ r.proposal = Absent,
           r.draft = Absent \/ r.proposal = Absent \/ r.proposal = r.draft
    PROVE  PanelOK(r)
<1>1. 0 < clock
  BY DEF ActionsInv, ActionsTypeOK
<1> QED BY <1>1 DEF PanelOK

LEMMA InitialTyped ==
    /\ Initial \in PanelRecord
    /\ Initial.stage = "IDLE" /\ Initial.confirm = 0 /\ Initial.result = 0
    /\ Initial.draft = Absent /\ Initial.proposal = Absent /\ Initial.read = Absent
BY DEF Initial, PanelRecord, Stage, MaybeProvenance

LEMMA ReadForTyped ==
    ASSUME NEW to \in {"draft", "propose", "refresh"}, NEW kind \in {"answer", "revalidate"}
    PROVE  ReadFor(to, kind) \in Reading /\ ReadFor(to, kind).to = to
BY NothingTyped DEF ReadFor, Reading

LEMMA PanelTyped ==
    ASSUME ActionsInv, NEW t \in Tab
    PROVE  panel[t] \in PanelRecord /\ PanelOK(panel[t])
BY DEF ActionsInv, ActionsTypeOK

LEMMA BeginAnswerHolds ==
    ASSUME ActionsInv, NEW t \in Tab, BeginAnswer(t)
    PROVE  ActionsInv'
<1>1. PICK r : r = [Initial EXCEPT !.read = ReadFor("draft", "answer")]
  OBVIOUS
<1>2. /\ r \in PanelRecord
      /\ r.stage = "IDLE" /\ r.confirm = 0 /\ r.result = 0 /\ r.draft = Absent
      /\ r.proposal = Absent
  BY <1>1, InitialTyped, ReadForTyped DEF PanelRecord
<1>3. PanelOK(r)
  BY <1>2, InitialOK
<1> QED BY <1>1, <1>2, <1>3, TabHoldsAs DEF BeginAnswer, World

LEMMA EditHolds ==
    ASSUME ActionsInv, NEW t \in Tab, Edit(t)
    PROVE  ActionsInv'
<1>1. PICK r : r = [panel[t] EXCEPT !.proposal = Absent, !.stage = "DRAFT"]
  OBVIOUS
<1>2. PICK s : s = panel[t]
  OBVIOUS
<1>3. s \in PanelRecord /\ PanelOK(s)
  BY <1>2, PanelTyped
<1>4. /\ r \in PanelRecord
      /\ r.stage = "DRAFT" /\ r.confirm = s.confirm /\ r.result = s.result
      /\ r.proposal = Absent /\ r.read = s.read /\ r.shown = s.shown
  BY <1>1, <1>2, <1>3 DEF PanelRecord, Stage, MaybeProvenance
<1>5. PanelOK(r)
  BY <1>3, <1>4 DEF PanelOK
<1> QED BY <1>1, <1>4, <1>5, TabHoldsAs DEF Edit, World

LEMMA LeaveHolds ==
    ASSUME ActionsInv, NEW t \in Tab,
           Cancel(t) \/ (SetTab(t, Initial)
                         /\ UNCHANGED <<clock, analysis, log, lock, write, judging, offered>>)
    PROVE  ActionsInv'
<1>1. PanelOK(Initial)
  BY InitialTyped, InitialOK
<1> QED BY <1>1, InitialTyped, TabHoldsAs DEF Cancel, World

LEMMA AdoptHolds ==
    ASSUME ActionsInv, NEW t \in Tab, Adopt(t)
    PROVE  ActionsInv'
<1>1. PICK r : r = [Initial EXCEPT !.stage = "PROPOSAL_READY", !.proposal = offered]
  OBVIOUS
<1>2. offered \in MaybeProvenance
  BY DEF ActionsInv, ActionsTypeOK
<1>3. /\ r \in PanelRecord
      /\ r.confirm = 0 /\ r.result = 0 /\ r.draft = Absent /\ r.read = Absent
  BY <1>1, <1>2, InitialTyped DEF PanelRecord, Stage
<1>4. PanelOK(r)
  BY <1>3, InitialOK
<1> QED BY <1>1, <1>3, <1>4, TabHoldsAs DEF Adopt, World

LEMMA ProposeHolds ==
    ASSUME ActionsInv, NEW t \in Tab, NEW kind \in {"answer", "revalidate"}, Propose(t, kind)
    PROVE  ActionsInv'
<1>1. PICK r : r = [panel[t] EXCEPT !.read = ReadFor("propose", kind), !.proposal = Absent,
                                    !.confirm = 0, !.result = 0, !.shown = 0]
  OBVIOUS
<1>2. panel[t].stage # "CONFIRMING"
  BY DEF Propose, IsLocked
<1>3. /\ r \in PanelRecord
      /\ r.confirm = 0 /\ r.result = 0 /\ r.proposal = Absent /\ r.stage # "CONFIRMING"
  BY <1>1, <1>2, PanelTyped, ReadForTyped DEF PanelRecord, MaybeProvenance
<1>4. PanelOK(r)
  BY <1>3, InitialOK
<1> QED BY <1>1, <1>3, <1>4, TabHoldsAs DEF Propose, World

LEMMA RefreshHolds ==
    ASSUME ActionsInv, NEW t \in Tab, Refresh(t)
    PROVE  ActionsInv'
<1>1. PICK r : r = [panel[t] EXCEPT !.read = ReadFor("refresh", "answer"),
                        !.stage = IF @ = "OUTCOME_UNKNOWN" THEN @ ELSE "REFRESHING"]
  OBVIOUS
<1>2. PICK s : s = panel[t]
  OBVIOUS
<1>3. s \in PanelRecord /\ PanelOK(s)
  BY <1>2, PanelTyped
<1>4. /\ r \in PanelRecord
      /\ r.stage \in {"OUTCOME_UNKNOWN", "REFRESHING"} /\ r.confirm = s.confirm
      /\ r.result = s.result /\ r.proposal = s.proposal /\ r.draft = s.draft
      /\ r.read.to = "refresh"
  BY <1>1, <1>2, <1>3, ReadForTyped DEF PanelRecord, Stage
<1>5. PanelOK(r)
  BY <1>3, <1>4 DEF PanelOK
<1> QED BY <1>1, <1>4, <1>5, TabHoldsAs DEF Refresh, World

LEMMA ServeReadHolds ==
    ASSUME ActionsInv, NEW t \in Tab, ServeRead(t)
    PROVE  ActionsInv'
<1>1. PICK s : s = panel[t]
  OBVIOUS
<1>2. s \in PanelRecord /\ PanelOK(s) /\ s.read # Absent /\ s.read \in Reading
  BY <1>1, PanelTyped DEF ServeRead, PanelRecord
<1>3. s.read.p \in Provenance /\ ActionsTypeOK /\ IdsApart
  BY <1>2 DEF Reading, ActionsInv
<1>4. FirstRead(s.read.p) \in Provenance /\ SecondRead(s.read.p) \in Provenance
  BY <1>3, FirstReads, SecondReads
<1>5. ASSUME NEW q \in Reading, q.to = s.read.to, SetTab(t, [s EXCEPT !.read = q])
      PROVE  ActionsInv'
  <2>1. PICK r : r = [s EXCEPT !.read = q]
    OBVIOUS
  <2>2. /\ r \in PanelRecord
        /\ r.stage = s.stage /\ r.confirm = s.confirm /\ r.result = s.result
        /\ r.proposal = s.proposal /\ r.draft = s.draft /\ r.shown = s.shown
        /\ r.read.to = s.read.to
    BY <1>2, <1>5, <2>1 DEF PanelRecord
  <2>3. PanelOK(r)
    BY <1>2, <2>2 DEF PanelOK
  <2> QED BY <1>5, <2>1, <2>2, <2>3, TabHoldsAs DEF ServeRead, World
<1>6. CASE SetTab(t, [panel[t] EXCEPT !.read.pc = "second", !.read.p = FirstRead(s.read.p)])
  <2>1. PICK q : q = [s.read EXCEPT !.pc = "second", !.p = FirstRead(s.read.p)]
    OBVIOUS
  <2>2. q \in Reading /\ q.to = s.read.to
    BY <1>2, <1>4, <2>1 DEF Reading
  <2>3. [s EXCEPT !.read.pc = "second", !.read.p = FirstRead(s.read.p)] = [s EXCEPT !.read = q]
    BY <1>2, <2>1 DEF PanelRecord, Reading
  <2> QED BY <1>1, <1>5, <1>6, <2>2, <2>3
<1>7. ASSUME NEW pc \in {"read", "error"},
             SetTab(t, [panel[t] EXCEPT !.read.p = SecondRead(s.read.p), !.read.pc = pc])
      PROVE  ActionsInv'
  <2>1. PICK q : q = [s.read EXCEPT !.p = SecondRead(s.read.p), !.pc = pc]
    OBVIOUS
  <2>2. q \in Reading /\ q.to = s.read.to
    BY <1>2, <1>4, <2>1 DEF Reading
  <2>3. [s EXCEPT !.read.p = SecondRead(s.read.p), !.read.pc = pc] = [s EXCEPT !.read = q]
    BY <1>2, <2>1 DEF PanelRecord, Reading
  <2> QED BY <1>1, <1>5, <1>7, <2>2, <2>3
<1> QED BY <1>1, <1>6, <1>7 DEF ServeRead

\* The answer of a read that has come, or one that was lost.
LEMMA ReceivedHolds ==
    ASSUME ActionsInv, NEW t \in Tab, NEW s \in PanelRecord, PanelOK(s),
           s.read \in Reading, s.stage # "CONFIRMING",
           s.read.to \in {"draft", "propose"} =>
               s.confirm = 0 /\ s.result = 0 /\ s.proposal = Absent,
           NEW q \in PanelRecord,
           q \in {Drafted(s), Proposed(s), Refreshed(s)},
           s.read.to = "draft" => q = Drafted(s),
           s.read.to = "propose" => q = Proposed(s),
           s.read.to = "refresh" => q = Refreshed(s),
           SetTab(t, [q EXCEPT !.read = Absent]),
           UNCHANGED <<World, write>>
    PROVE  ActionsInv'
<1>1. PICK r : r = [q EXCEPT !.read = Absent]
  OBVIOUS
<1>2. /\ r \in PanelRecord
      /\ r.stage = q.stage /\ r.draft = q.draft /\ r.proposal = q.proposal
      /\ r.confirm = q.confirm /\ r.result = q.result /\ r.shown = q.shown /\ r.read = Absent
  BY <1>1 DEF PanelRecord
<1>3. s.read.p \in Provenance /\ s.read.to \in {"draft", "propose", "refresh"}
  BY DEF Reading
<1>4. CASE s.read.to \in {"draft", "propose"}
  <2>1. s.confirm = 0 /\ s.result = 0 /\ s.proposal = Absent
    BY <1>4
  <2>2. /\ q.confirm = 0 /\ q.result = 0
        /\ q.draft = Absent \/ q.proposal = Absent \/ q.proposal = q.draft
    <3>1. CASE s.read.to = "draft"
      BY <2>1, <3>1 DEF Drafted, PanelRecord
    <3>2. CASE s.read.to = "propose"
      <4>1. CASE q = [s EXCEPT !.stage = "FAILED"] \/ q = [s EXCEPT !.stage = "STALE"]
        BY <2>1, <4>1 DEF PanelRecord
      <4>2. CASE SameReceipt(s)
                 /\ q = [s EXCEPT !.stage = "PROPOSAL_READY", !.proposal = s.read.p,
                                  !.draft = IF s.read.p.kind = "answer" THEN @ ELSE Absent]
        BY <2>1, <4>2 DEF PanelRecord, SameReceipt
      <4> QED BY <3>2, <4>1, <4>2 DEF Proposed
    <3> QED BY <1>4, <3>1, <3>2
  <2>3. PanelOK(r)
    BY <1>2, <2>2, InitialOK
  <2> QED BY <1>1, <1>2, <2>3, TabHoldsAs DEF World
<1>5. CASE s.read.to = "refresh"
  <2>2. /\ q.draft = s.draft /\ q.proposal = s.proposal
        /\ q.confirm = s.confirm /\ q.result = s.result
        /\ \/ q.stage = "OUTCOME_UNKNOWN"
           \/ q.stage = "COMPLETED" /\ q.shown = q.result
           \/ q.stage = "DONE_REFRESH_FAILED"
    <3>1. CASE q = s /\ s.stage = "OUTCOME_UNKNOWN"
      BY <3>1
    <3>2. CASE RefreshedResult(s) /\ q = [s EXCEPT !.stage = "COMPLETED", !.shown = s.read.p.cr]
      BY <3>2 DEF PanelRecord, RefreshedResult
    <3>3. CASE q = [s EXCEPT !.stage = "DONE_REFRESH_FAILED"]
      BY <3>3 DEF PanelRecord
    <3> QED BY <1>5, <3>1, <3>2, <3>3 DEF Refreshed
  <2>3. PanelOK(r)
    BY <1>2, <2>2 DEF PanelOK
  <2> QED BY <1>1, <1>2, <2>3, TabHoldsAs DEF World
<1> QED BY <1>3, <1>4, <1>5

LEMMA ReceivedTyped ==
    ASSUME NEW s \in PanelRecord, s.read \in Reading
    PROVE  /\ Drafted(s) \in PanelRecord /\ Refreshed(s) \in PanelRecord
           /\ Proposed(s) \in PanelRecord
<1>1. s.read.p \in Provenance /\ s.read.p \in MaybeProvenance /\ s.read.p.cr \in Nat
  BY DEF Reading, Provenance, MaybeProvenance
<1>2. Drafted(s) \in PanelRecord
  BY <1>1 DEF Drafted, PanelRecord, Stage
<1>3. Refreshed(s) \in PanelRecord
  BY <1>1 DEF Refreshed, PanelRecord, Stage
<1>4. Proposed(s) \in PanelRecord
  <2>1. PICK d : d = IF s.read.p.kind = "answer" THEN s.draft ELSE Absent
    OBVIOUS
  <2>2. d \in MaybeProvenance
    BY <2>1 DEF PanelRecord, MaybeProvenance
  <2>3. [s EXCEPT !.stage = "PROPOSAL_READY", !.proposal = s.read.p, !.draft = d] \in PanelRecord
    BY <1>1, <2>2 DEF PanelRecord, Stage
  <2>4. /\ [s EXCEPT !.stage = "FAILED"] \in PanelRecord
        /\ [s EXCEPT !.stage = "STALE"] \in PanelRecord
    BY DEF PanelRecord, Stage
  <2> QED BY <2>1, <2>3, <2>4 DEF Proposed
<1> QED BY <1>2, <1>3, <1>4

LEMMA ReceiveReadHolds ==
    ASSUME ActionsInv, NEW t \in Tab, ReceiveRead(t)
    PROVE  ActionsInv'
<1>1. PICK b : b = panel[t]
  OBVIOUS
<1>2. b \in PanelRecord /\ PanelOK(b) /\ b.read # Absent /\ b.read \in Reading
  BY <1>1, PanelTyped DEF ReceiveRead, PanelRecord
<1>3. PICK lost : lost = [b EXCEPT !.read.pc = "error"]
  OBVIOUS
<1>4. PICK f : f = [b.read EXCEPT !.pc = "error"]
  OBVIOUS
<1>5. f \in Reading /\ f.to = b.read.to
  BY <1>2, <1>4 DEF Reading
<1>6. lost = [b EXCEPT !.read = f]
  BY <1>2, <1>3, <1>4 DEF PanelRecord, Reading
<1>7. /\ lost \in PanelRecord
      /\ lost.stage = b.stage /\ lost.confirm = b.confirm /\ lost.result = b.result
      /\ lost.proposal = b.proposal /\ lost.draft = b.draft /\ lost.shown = b.shown
      /\ lost.read = f
  BY <1>2, <1>5, <1>6 DEF PanelRecord
<1>8. /\ b.stage # "CONFIRMING"
      /\ b.read.to \in {"draft", "propose"} =>
             b.confirm = 0 /\ b.result = 0 /\ b.proposal = Absent
  BY <1>2 DEF PanelOK
<1>9. PanelOK(lost)
  BY <1>2, <1>5, <1>7, <1>8 DEF PanelOK
<1>10. ASSUME NEW s \in {lost, b},
              SetTab(t, [(CASE s.read.to = "draft" -> Drafted(s)
                            [] s.read.to = "propose" -> Proposed(s)
                            [] s.read.to = "refresh" -> Refreshed(s))
                         EXCEPT !.read = Absent])
       PROVE  ActionsInv'
  <2>1. /\ s \in PanelRecord /\ PanelOK(s) /\ s.read \in Reading /\ s.stage # "CONFIRMING"
        /\ s.read.to \in {"draft", "propose"} =>
               s.confirm = 0 /\ s.result = 0 /\ s.proposal = Absent
    BY <1>2, <1>5, <1>7, <1>8, <1>9, <1>10
  <2>2. s.read.to \in {"draft", "propose", "refresh"}
    BY <2>1 DEF Reading
  <2>3. PICK q : q = CASE s.read.to = "draft" -> Drafted(s)
                       [] s.read.to = "propose" -> Proposed(s)
                       [] s.read.to = "refresh" -> Refreshed(s)
    OBVIOUS
  <2>4. /\ s.read.to = "draft" => q = Drafted(s)
        /\ s.read.to = "propose" => q = Proposed(s)
        /\ s.read.to = "refresh" => q = Refreshed(s)
    BY <2>3
  <2>5. q \in PanelRecord /\ q \in {Drafted(s), Proposed(s), Refreshed(s)}
    BY <2>1, <2>2, <2>4, ReceivedTyped
  <2>6. SetTab(t, [q EXCEPT !.read = Absent])
    BY <1>10, <2>3
  <2>7. UNCHANGED <<World, write>>
    BY DEF ReceiveRead
  <2> QED BY <2>1, <2>4, <2>5, <2>6, <2>7, ReceivedHolds
<1> QED BY <1>1, <1>3, <1>10 DEF ReceiveRead

LEMMA GiveUpHolds ==
    ASSUME ActionsInv, NEW t \in Tab, GiveUp(t)
    PROVE  ActionsInv'
<1>1. PICK r : r = [panel[t] EXCEPT !.stage = Unanswered, !.proposal = Absent]
  OBVIOUS
<1>2. PICK s : s = panel[t]
  OBVIOUS
<1>3. s \in PanelRecord /\ PanelOK(s)
  BY <1>2, PanelTyped
<1>4. /\ r \in PanelRecord
      /\ r.stage = "OUTCOME_UNKNOWN" /\ r.confirm = s.confirm /\ r.result = s.result
      /\ r.proposal = Absent /\ r.read = s.read
  BY <1>1, <1>2, <1>3 DEF PanelRecord, Stage, MaybeProvenance, Unanswered
<1>5. PanelOK(r)
  BY <1>3, <1>4 DEF PanelOK
<1> QED BY <1>1, <1>4, <1>5, TabHoldsAs DEF GiveUp, World

LEMMA ReviewHolds ==
    ASSUME ActionsInv, NEW t \in Tab, AcquireReview(t) \/ ReleaseReview(t)
    PROVE  ActionsInv'
<1>1. CASE AcquireReview(t)
  <2>1. PICK r : r = [Initial EXCEPT !.external = TRUE]
    OBVIOUS
  <2>2. /\ r \in PanelRecord
        /\ r.confirm = 0 /\ r.result = 0 /\ r.draft = Absent /\ r.read = Absent
    BY <2>1, InitialTyped DEF PanelRecord
  <2>3. PanelOK(r)
    BY <2>2, InitialOK
  <2> QED BY <1>1, <2>1, <2>2, <2>3, TabHoldsAs DEF AcquireReview, World
<1>2. CASE ReleaseReview(t)
  <2>1. PICK r : r = [panel[t] EXCEPT !.external = FALSE]
    OBVIOUS
  <2>2. PICK s : s = panel[t]
    OBVIOUS
  <2>3. s \in PanelRecord /\ PanelOK(s)
    BY <2>2, PanelTyped
  <2>4. /\ r \in PanelRecord
        /\ r.stage = s.stage /\ r.confirm = s.confirm /\ r.result = s.result
        /\ r.proposal = s.proposal /\ r.draft = s.draft /\ r.shown = s.shown /\ r.read = s.read
    BY <2>1, <2>2, <2>3 DEF PanelRecord
  <2>5. PanelOK(r)
    BY <2>3, <2>4 DEF PanelOK
  <2> QED BY <1>2, <2>1, <2>4, <2>5, TabHoldsAs DEF ReleaseReview, World
<1> QED BY <1>1, <1>2

-----------------------------------------------------------------------------
(* Steps of confirmations *)

LEMMA WriteTyped ==
    ASSUME ActionsInv, NEW w \in Writer
    PROVE  /\ write[w] \in WriteRecord /\ WriteOK(write[w])
           /\ lock = w <=> write[w].pc \in Holding
BY DEF ActionsInv, ActionsTypeOK

LEMMA IdleWriteOK ==
    /\ IdleWrite \in WriteRecord
    /\ IdleWrite.pc = "idle" /\ IdleWrite.id = 0 /\ IdleWrite.pc \notin Holding
    /\ WriteOK(IdleWrite)
BY DEF IdleWrite, WriteRecord, WriteOK, MaybeProvenance, Holding

\* One confirmation goes on, and takes, keeps or leaves the lock.
LEMMA WriteHolds ==
    ASSUME ActionsInv, NEW w \in Writer, NEW r \in WriteRecord, WriteOK(r),
           r.id = write[w].id, SetWrite(w, r), lock' \in Writer \cup {Absent},
           \A x \in Writer : lock' = x <=> (IF x = w THEN r.pc ELSE write[x].pc) \in Holding,
           UNCHANGED <<clock, analysis, log, judging, panel, offered>>
    PROVE  ActionsInv'
<1>1. /\ write' \in [Writer -> WriteRecord] /\ write'[w] = r
      /\ \A x \in Writer : x # w => write'[x] = write[x]
      /\ \A x \in Writer : write'[x].id = write[x].id
  BY DEF ActionsInv, ActionsTypeOK, SetWrite
<1>2. ActionsTypeOK'
  BY <1>1 DEF ActionsInv, ActionsTypeOK
<1>3. IdsApart' /\ DecisionsOK'
  BY <1>1 DEF ActionsInv, IdsApart, DecisionsOK
<1>4. ASSUME NEW x \in Writer PROVE WriteOK(write[x])' /\ (lock' = x <=> write'[x].pc \in Holding)
  <2>1. PICK s : s = write'[x] /\ WriteOK(s)
    BY <1>1 DEF ActionsInv
  <2>2. WriteOK(s)'
    BY <2>1 DEF WriteOK, IsStored, IsDecision, Grounds, DecidedUpTo
  <2> QED BY <1>1, <2>1, <2>2 DEF WriteOK
<1>5. \A j \in Judge : JudgingOK(judging[j])'
  BY DEF ActionsInv, JudgingOK, IsStored
<1>6. \A t \in Tab : PanelOK(panel[t])'
  BY <1>1 DEF ActionsInv, PanelOK, IsStored, IsDecision
<1> QED BY <1>2, <1>3, <1>4, <1>5, <1>6 DEF ActionsInv

\* A confirmation that has the lock goes on with it.
LEMMA HolderHolds ==
    ASSUME ActionsInv, NEW w \in Writer, NEW r \in WriteRecord, WriteOK(r),
           r.id = write[w].id, SetWrite(w, r), write[w].pc \in Holding, r.pc \in Holding,
           UNCHANGED <<clock, analysis, log, lock, judging, panel, offered>>
    PROVE  ActionsInv'
<1>1. \A x \in Writer : lock' = x <=> (IF x = w THEN r.pc ELSE write[x].pc) \in Holding
  BY DEF ActionsInv
<1>2. lock' \in Writer \cup {Absent}
  BY DEF ActionsInv, ActionsTypeOK
<1> QED BY <1>1, <1>2, WriteHolds

LEMMA LockCaseHolds ==
    ASSUME ActionAssumption, ActionsInv, NEW w \in Writer, LockCase(w)
    PROVE  ActionsInv'
<1>1. PICK s : s = write[w]
  OBVIOUS
<1>2. s \in WriteRecord /\ WriteOK(s) /\ s.pc = "waiting" /\ s.p \in Provenance
  BY <1>1, WriteTyped DEF LockCase, WriteOK
<1>3. PICK f : f = Nothing(s.p.kind)
  OBVIOUS
<1>4. f \in Provenance /\ f.kind = s.p.kind /\ f \in MaybeProvenance
  BY <1>2, <1>3, NothingTyped DEF Provenance, MaybeProvenance
<1>5. PICK r : r = [s EXCEPT !.pc = "locked", !.fresh = f]
  OBVIOUS
<1>6. /\ r \in WriteRecord
      /\ r.pc = "locked" /\ r.fresh = f /\ r.id = s.id /\ r.p = s.p
  BY <1>2, <1>4, <1>5 DEF WriteRecord, Holding
<1>7. WriteOK(r)
  BY <1>2, <1>4, <1>6 DEF WriteOK, Holding
<1>8. \A x \in Writer : x # w => write[x].pc \notin Holding
  BY DEF LockCase, LockFree, ActionAssumption, ActionsInv
<1>9. \A x \in Writer : lock' = x <=> (IF x = w THEN r.pc ELSE write[x].pc) \in Holding
  BY <1>6, <1>8 DEF LockCase, Holding
<1>10. lock' \in Writer \cup {Absent} /\ SetWrite(w, r)
  BY <1>1, <1>3, <1>5 DEF LockCase
<1>11. UNCHANGED <<clock, analysis, log, judging, panel, offered>>
  BY DEF LockCase
<1> QED BY <1>1, <1>6, <1>7, <1>9, <1>10, <1>11, WriteHolds

LEMMA Unlocked ==
    ASSUME ActionAssumption, ActionsInv, NEW w \in Writer, Unlock(w)
    PROVE  /\ lock' \in Writer \cup {Absent}
           /\ \A x \in Writer : lock' = x <=> x # w /\ write[x].pc \in Holding
<1>1. /\ lock \in Writer \cup {Absent} /\ Absent \notin Writer
      /\ \A x \in Writer : lock = x <=> write[x].pc \in Holding
  BY DEF ActionsInv, ActionsTypeOK, ActionAssumption
<1>2. CASE lock = w
  BY <1>1, <1>2 DEF Unlock
<1>3. CASE lock # w
  BY <1>1, <1>3 DEF Unlock
<1> QED BY <1>2, <1>3

\* Rolled back.
LEMMA RolledBackHolds ==
    ASSUME ActionAssumption, ActionsInv, NEW w \in Writer, NEW outcome \in {"STALE", "FAILED"},
           write[w].pc \in Holding \cup {"waiting"}, Done(w, outcome), UNCHANGED log
    PROVE  ActionsInv'
<1>1. PICK s : s = write[w]
  OBVIOUS
<1>2. s \in WriteRecord /\ WriteOK(s) /\ ~IsStored(s.id) /\ s.id # 0
  BY <1>1, WriteTyped DEF WriteOK, Holding
<1>3. PICK r : r = [IdleWrite EXCEPT !.pc = "done", !.id = s.id, !.outcome = outcome]
  OBVIOUS
<1>4. r \in WriteRecord /\ r.pc = "done" /\ r.id = s.id /\ r.outcome = outcome
  BY <1>2, <1>3, IdleWriteOK DEF WriteRecord
<1>5. WriteOK(r)
  BY <1>2, <1>4 DEF WriteOK, Holding
<1>6. Unlock(w) /\ SetWrite(w, r)
  BY <1>1, <1>3 DEF Done
<1>7. /\ lock' \in Writer \cup {Absent}
      /\ \A x \in Writer : lock' = x <=> x # w /\ write[x].pc \in Holding
  BY <1>6, Unlocked
<1>8. \A x \in Writer : lock' = x <=> (IF x = w THEN r.pc ELSE write[x].pc) \in Holding
  BY <1>4, <1>7 DEF Holding
<1>9. UNCHANGED <<clock, analysis, log, judging, panel, offered>>
  BY DEF Done
<1> QED BY <1>1, <1>4, <1>5, <1>6, <1>7, <1>8, <1>9, WriteHolds

LEMMA AbortHolds ==
    ASSUME ActionAssumption, ActionsInv, NEW w \in Writer, Abort(w)
    PROVE  ActionsInv'
<1>1. write[w].pc \in Holding \cup {"waiting"}
  BY WriteTyped DEF Abort, WriteRecord
<1> QED BY <1>1, RolledBackHolds DEF Abort

LEMMA ReadFreshHolds ==
    ASSUME ActionAssumption, ActionsInv, NEW w \in Writer, ReadFresh(w)
    PROVE  ActionsInv'
<1>1. PICK s : s = write[w]
  OBVIOUS
<1>2. /\ s \in WriteRecord /\ WriteOK(s) /\ s.pc \in {"locked", "reading"}
      /\ ActionsTypeOK /\ IdsApart /\ DecisionsOK
  BY <1>1, WriteTyped DEF ReadFresh, ActionsInv
<1>3. /\ s.p \in Provenance /\ s.fresh \in Provenance /\ s.fresh.kind = s.p.kind
      /\ s.pc \in Holding /\ s.p.kind \in {"answer", "revalidate"}
  BY <1>2 DEF WriteOK, Holding, Provenance
<1>4. CASE s.pc = "locked" /\ SetWrite(w, [s EXCEPT !.pc = "reading", !.fresh = FirstRead(@)])
           /\ UNCHANGED <<World, panel>>
  <2>1. PICK f : f = FirstRead(s.fresh)
    OBVIOUS
  <2>2. /\ f \in Provenance /\ f.kind = s.p.kind /\ f \in MaybeProvenance
        /\ s.p.kind = "revalidate" =>
               \A i \in DOMAIN log : log[i].version = "current" => log[i].id <= f.cr
    BY <1>2, <1>3, <2>1, FirstReads DEF MaybeProvenance
  <2>3. PICK r : r = [s EXCEPT !.pc = "reading", !.fresh = f]
    OBVIOUS
  <2>4. r \in WriteRecord /\ r.pc = "reading" /\ r.fresh = f /\ r.id = s.id /\ r.p = s.p
    BY <1>2, <2>2, <2>3 DEF WriteRecord, Holding
  <2>5. r.p.kind = "revalidate" => DecidedUpTo(f.cr)
    BY <1>2, <2>2, <2>4 DEF DecidedUpTo, DecisionsOK
  <2>6. WriteOK(r)
    BY <1>2, <1>3, <2>2, <2>4, <2>5 DEF WriteOK, Holding
  <2>7. SetWrite(w, r) /\ r.pc \in Holding
    BY <1>4, <2>1, <2>3, <2>4 DEF Holding
  <2> QED BY <1>1, <1>3, <1>4, <2>4, <2>6, <2>7, HolderHolds DEF World
<1>5. CASE s.pc = "reading" /\ Usable(SecondRead(s.fresh)) /\ SameContext(s.p, SecondRead(s.fresh))
           /\ Askable(SecondRead(s.fresh))
           /\ SetWrite(w, [s EXCEPT !.pc = "fresh"]) /\ UNCHANGED <<World, panel>>
  <2>1. PICK r : r = [s EXCEPT !.pc = "fresh"]
    OBVIOUS
  <2>2. r \in WriteRecord /\ r.pc = "fresh" /\ r.id = s.id /\ r.p = s.p
    BY <1>2, <2>1 DEF WriteRecord, Holding
  <2>3. s.p = SecondRead(s.fresh)
    BY <1>5 DEF SameContext
  <2>4. CASE s.p.kind = "answer"
    <3>1. Grounds(s.p)
      BY <1>2, <1>3, <1>5, <2>3, <2>4, SecondReads
    <3>2. WriteOK(r)
      BY <1>2, <1>3, <2>2, <2>4, <3>1 DEF WriteOK, Holding
    <3> QED BY <1>1, <1>3, <1>5, <2>1, <2>2, <3>2, HolderHolds DEF World, Holding
  <2>5. CASE s.p.kind = "revalidate"
    <3>1. s.p.cr = s.fresh.cr
      BY <1>2, <1>3, <2>3, <2>5, SecondReads
    <3>2. DecidedUpTo(s.p.cr)
      BY <1>2, <1>5, <2>5, <3>1 DEF WriteOK
    <3>3. WriteOK(r)
      BY <1>2, <1>3, <2>2, <2>5, <3>2 DEF WriteOK, Holding
    <3> QED BY <1>1, <1>3, <1>5, <2>1, <2>2, <3>3, HolderHolds DEF World, Holding
  <2> QED BY <1>3, <2>4, <2>5
<1>6. CASE Done(w, "STALE") /\ UNCHANGED log
  BY <1>1, <1>3, <1>6, RolledBackHolds
<1> QED BY <1>1, <1>4, <1>5, <1>6 DEF ReadFresh

LEMMA CheckSourceHolds ==
    ASSUME ActionAssumption, ActionsInv, NEW w \in Writer, CheckSource(w)
    PROVE  ActionsInv'
<1>1. PICK s : s = write[w]
  OBVIOUS
<1>2. /\ s \in WriteRecord /\ WriteOK(s) /\ s.pc \in {"fresh", "source"}
      /\ ActionsTypeOK /\ IdsApart /\ DecisionsOK
  BY <1>1, WriteTyped DEF CheckSource, ActionsInv
<1>3. s.p \in Provenance /\ s.pc \in Holding
  BY <1>2 DEF WriteOK, Holding
<1>4. ASSUME NEW pc \in {"source", "ready"}, DecidedUpTo(s.p.cr),
             SetWrite(w, [s EXCEPT !.pc = pc]), UNCHANGED <<World, panel>>
      PROVE  ActionsInv'
  <2>1. PICK r : r = [s EXCEPT !.pc = pc]
    OBVIOUS
  <2>2. r \in WriteRecord /\ r.pc = pc /\ r.id = s.id /\ r.p = s.p
    BY <1>2, <2>1 DEF WriteRecord, Holding
  <2>3. WriteOK(r)
    BY <1>2, <1>3, <1>4, <2>2 DEF WriteOK, Holding
  <2> QED BY <1>1, <1>3, <1>4, <2>1, <2>2, <2>3, HolderHolds DEF World, Holding
<1>5. CASE s.pc = "fresh" /\ LatestId(Line(RunOf(Source(s.p)).version)) = RunOf(Source(s.p)).id
           /\ SetWrite(w, [s EXCEPT !.pc = "source"]) /\ UNCHANGED <<World, panel>>
  <2>1. CASE s.p.kind = "answer"
    <3>1. PICK i \in DOMAIN log : log[i].id = s.p.cr /\ log[i].version = "current"
      BY <1>2, <1>5, <2>1 DEF WriteOK, Grounds
    <3>2. RunOf(Source(s.p)) = log[i]
      BY <1>2, <2>1, <3>1, RunOfId DEF Source
    <3>3. LatestId(Line("current")) = s.p.cr
      BY <1>5, <3>1, <3>2
    <3>4. \A k \in DOMAIN log : log[k] \in Line("current") => log[k].id <= s.p.cr
      BY <1>2, <3>3, LatestOfLine
    <3>5. \A k \in DOMAIN log : log[k].version = "current" => log[k] \in Line("current")
      BY DEF Line, Runs, ToSet
    <3>6. DecidedUpTo(s.p.cr)
      BY <1>2, <3>4, <3>5 DEF DecidedUpTo, DecisionsOK
    <3> QED BY <1>4, <1>5, <3>6
  <2>2. CASE s.p.kind # "answer"
    BY <1>2, <1>4, <1>5, <2>2 DEF WriteOK
  <2> QED BY <2>1, <2>2
<1>6. CASE s.pc = "source" /\ SetWrite(w, [s EXCEPT !.pc = "ready"]) /\ UNCHANGED <<World, panel>>
  BY <1>2, <1>4, <1>6 DEF WriteOK
<1>7. CASE Done(w, "STALE") /\ UNCHANGED log
  BY <1>1, <1>3, <1>7, RolledBackHolds
<1> QED
  <2>1. CASE s.pc = "fresh"
    BY <1>1, <1>5, <1>7, <2>1 DEF CheckSource
  <2>2. CASE s.pc = "source"
    BY <1>1, <1>6, <1>7, <2>2 DEF CheckSource
  <2> QED BY <1>2, <2>1, <2>2

-----------------------------------------------------------------------------
(* Runs are stored *)

LEMMA Appended ==
    ASSUME ActionsTypeOK, NEW e \in RunRecord, log' = Append(log, e)
    PROVE  /\ log' \in Seq(RunRecord)
           /\ DOMAIN log' = DOMAIN log \cup {Len(log) + 1} /\ DOMAIN log \subseteq 1..Len(log)
           /\ Len(log) \in Nat
           /\ \A i \in DOMAIN log : log'[i] = log[i]
           /\ log'[Len(log) + 1] = e
           /\ \A id : IsStored(id)' <=> IsStored(id) \/ id = e.id
           /\ \A id : IsDecision(id) => IsDecision(id)'
           /\ \A p : Grounds(p) => Grounds(p)'
           /\ \A cr : DecidedUpTo(cr) /\ (e.origin # "judgment" => e.id <= cr) => DecidedUpTo(cr)'
<1>1. log \in Seq(RunRecord)
  BY DEF ActionsTypeOK
<1>2. /\ log' \in Seq(RunRecord) /\ Len(log) \in Nat
      /\ DOMAIN log' = DOMAIN log \cup {Len(log) + 1} /\ DOMAIN log \subseteq 1..Len(log)
      /\ \A i \in DOMAIN log : log'[i] = log[i]
      /\ log'[Len(log) + 1] = e
  BY <1>1
<1>3. \A id : IsStored(id)' <=> IsStored(id) \/ id = e.id
  BY <1>2 DEF IsStored
<1>4. \A id : IsDecision(id) => IsDecision(id)'
  BY <1>2 DEF IsDecision
<1>5. \A p : Grounds(p) => Grounds(p)'
  BY <1>2 DEF Grounds
<1>6. \A cr : DecidedUpTo(cr) /\ (e.origin # "judgment" => e.id <= cr) => DecidedUpTo(cr)'
  BY <1>2 DEF DecidedUpTo
<1> QED BY <1>2, <1>3, <1>4, <1>5, <1>6

\* The id of the stored run belonged to a transaction that ends with it.
LEMMA IdsStayApart ==
    ASSUME ActionsTypeOK, IdsApart, NEW e \in RunRecord, log' = Append(log, e),
           e.id \in 1..(clock - 1), ~IsStored(e.id), clock' = clock,
           \A w \in Writer : write'[w].id = write[w].id,
           \A j \in Judge : judging'[j].id \in {0, judging[j].id}
    PROVE  IdsApart'
<1>1. /\ DOMAIN log' = DOMAIN log \cup {Len(log) + 1}
      /\ \A i \in DOMAIN log : log'[i] = log[i]
      /\ log'[Len(log) + 1] = e
  BY Appended
<1>2. \A i \in DOMAIN log : log[i].id # e.id
  BY DEF IsStored
<1>3. \A i \in DOMAIN log' : log'[i].id \in 1..(clock' - 1)
  BY <1>1 DEF IdsApart
<1>4. \A i, k \in DOMAIN log' : log'[i].id = log'[k].id => i = k
  BY <1>1, <1>2 DEF IdsApart
<1>5. ASSUME NEW j \in Judge PROVE judging'[j].id < clock'
  <2>1. judging[j].id < clock /\ 0 < clock
    BY DEF IdsApart, ActionsTypeOK
  <2>2. judging'[j].id = 0 \/ judging'[j].id = judging[j].id
    OBVIOUS
  <2> QED BY <2>1, <2>2
<1> QED BY <1>3, <1>4, <1>5 DEF IdsApart

LEMMA StoreHolds ==
    ASSUME ActionAssumption, ActionsInv, NEW w \in Writer, Store(w)
    PROVE  ActionsInv'
<1>1. PICK s : s = write[w]
  OBVIOUS
<1>2. /\ s \in WriteRecord /\ WriteOK(s) /\ s.pc = "ready" /\ lock = w
      /\ ActionsTypeOK /\ IdsApart /\ DecisionsOK
  BY <1>1, WriteTyped DEF Store, ActionsInv, Holding
<1>3. /\ s.p \in Provenance /\ s.id # 0 /\ ~IsStored(s.id) /\ DecidedUpTo(s.p.cr)
      /\ s.p.kind = "answer" => Grounds(s.p)
  BY <1>2 DEF WriteOK, Holding
<1>4. PICK open \in BOOLEAN :
         log' = Append(log, [id |-> s.id, version |-> "current", analysis |-> s.p.ca,
                             open |-> open, origin |-> s.p.kind, source |-> Source(s.p),
                             shown |-> s.p])
  BY <1>1 DEF Store
<1>5. PICK e : e = [id |-> s.id, version |-> "current", analysis |-> s.p.ca, open |-> open,
                    origin |-> s.p.kind, source |-> Source(s.p), shown |-> s.p]
  OBVIOUS
<1>6. /\ e \in RunRecord /\ e.id = s.id /\ e.version = "current" /\ e.analysis = s.p.ca
      /\ e.origin = s.p.kind /\ e.source = Source(s.p) /\ e.shown = s.p
      /\ e.origin \in {"answer", "revalidate"}
  BY <1>2, <1>3, <1>5 DEF RunRecord, WriteRecord, Version, Provenance, Source
<1>7. /\ log' \in Seq(RunRecord) /\ Len(log) \in Nat
      /\ DOMAIN log' = DOMAIN log \cup {Len(log) + 1} /\ DOMAIN log \subseteq 1..Len(log)
      /\ \A i \in DOMAIN log : log'[i] = log[i]
      /\ log'[Len(log) + 1] = e
      /\ \A id : IsStored(id)' <=> IsStored(id) \/ id = e.id
      /\ \A id : IsDecision(id) => IsDecision(id)'
      /\ \A p : Grounds(p) => Grounds(p)'
  BY <1>2, <1>4, <1>5, <1>6, Appended
<1>8. PICK r : r = [IdleWrite EXCEPT !.pc = "done", !.id = s.id, !.outcome = "saved"]
  OBVIOUS
<1>9. r \in WriteRecord /\ r.pc = "done" /\ r.id = s.id /\ r.outcome = "saved"
  BY <1>2, <1>8, IdleWriteOK DEF WriteRecord
<1>10. /\ Unlock(w) /\ SetWrite(w, r)
       /\ UNCHANGED <<clock, analysis, judging, panel, offered>>
  BY <1>1, <1>8 DEF Store, Done
<1>11. /\ lock' \in Writer \cup {Absent}
       /\ \A x \in Writer : lock' = x <=> x # w /\ write[x].pc \in Holding
  BY <1>10, Unlocked
<1>12. \A x \in Writer : x # w => write[x].pc \notin Holding
  BY <1>2 DEF ActionsInv
<1>13. /\ write' \in [Writer -> WriteRecord] /\ write'[w] = r
       /\ \A x \in Writer : x # w => write'[x] = write[x]
       /\ \A x \in Writer : write'[x].id = write[x].id
  BY <1>1, <1>2, <1>9, <1>10 DEF ActionsTypeOK, SetWrite
<1>14. ActionsTypeOK'
  BY <1>2, <1>7, <1>10, <1>11, <1>13 DEF ActionsTypeOK
<1>15. s.id \in 1..(clock - 1)
  BY <1>1, <1>2, <1>3 DEF IdsApart, WriteRecord, ActionsTypeOK
<1>16. IdsApart'
  BY <1>2, <1>3, <1>4, <1>5, <1>6, <1>10, <1>13, <1>15, IdsStayApart
<1>17. IsDecision(s.id)'
  BY <1>6, <1>7 DEF IsDecision
<1>18. ASSUME NEW x \in Writer PROVE WriteOK(write[x])' /\ (lock' = x <=> write'[x].pc \in Holding)
  <2>1. CASE x = w
    <3>1. WriteOK(r)'
      BY <1>3, <1>9, <1>17 DEF WriteOK, Holding
    <3> QED BY <1>9, <1>11, <1>13, <2>1, <3>1 DEF WriteOK, Holding
  <2>2. CASE x # w
    <3>1. PICK v : v = write[x]
      OBVIOUS
    <3>2. WriteOK(v) /\ v.pc \notin Holding /\ v.id # s.id
      <4>1. v.id # s.id
        BY <1>1, <1>2, <1>3, <2>2, <3>1 DEF IdsApart
      <4> QED BY <1>12, <2>2, <3>1, <4>1 DEF ActionsInv
    <3>3. WriteOK(v)'
      BY <1>3, <1>6, <1>7, <3>2 DEF WriteOK, Holding
    <3> QED BY <1>11, <1>13, <2>2, <3>1, <3>2, <3>3 DEF WriteOK
  <2> QED BY <2>1, <2>2
<1>19. ASSUME NEW j \in Judge PROVE JudgingOK(judging[j])'
  <2>1. judging[j].id # s.id
    BY <1>1, <1>2, <1>3 DEF IdsApart
  <2> QED BY <1>6, <1>7, <1>10, <2>1 DEF ActionsInv, JudgingOK
<1>20. ASSUME NEW t \in Tab PROVE PanelOK(panel[t])'
  <2>1. PICK b : b = panel[t] /\ PanelOK(b)
    BY DEF ActionsInv
  <2>2. b.stage \in {"STALE", "FAILED"} /\ b.confirm # 0 => b.confirm # s.id
    BY <1>1, <2>1 DEF PanelOK
  <2>3. PanelOK(b)'
    BY <1>6, <1>7, <1>10, <1>13, <2>1, <2>2 DEF PanelOK
  <2> QED BY <1>10, <2>1, <2>3 DEF PanelOK
<1>21. DecisionsOK'
  <2>1. \A i \in DOMAIN log' : log'[i].origin # "judgment" => log'[i].version = "current"
    BY <1>2, <1>6, <1>7 DEF DecisionsOK
  <2>2. \A i \in DOMAIN log : log[i].origin # "judgment" => log[i].id <= e.shown.cr
    BY <1>3, <1>6 DEF DecidedUpTo
  <2>3. \A i, k \in DOMAIN log' :
          log'[i].origin # "judgment" /\ log'[k].origin # "judgment" /\ i < k =>
              log'[i].id <= log'[k].shown.cr
    BY <1>2, <1>7, <2>2 DEF DecisionsOK
  <2>4. \A i \in DOMAIN log : log[i].origin = "answer" =>
          \E k \in DOMAIN log' : log'[k].id = log'[i].source /\ log'[k].open
                                 /\ log'[k].analysis = log'[i].analysis
    BY <1>2, <1>7 DEF DecisionsOK
  <2>5. e.origin = "answer" =>
          \E k \in DOMAIN log' : log'[k].id = e.source /\ log'[k].open
                                 /\ log'[k].analysis = e.analysis
    BY <1>3, <1>6, <1>7 DEF Grounds, Source
  <2> QED BY <1>7, <2>1, <2>3, <2>4, <2>5 DEF DecisionsOK
<1> QED BY <1>14, <1>16, <1>18, <1>19, <1>20, <1>21 DEF ActionsInv

LEMMA CommitJudgmentHolds ==
    ASSUME ActionAssumption, ActionsInv, NEW j \in Judge, CommitJudgment(j)
    PROVE  ActionsInv'
<1>1. PICK s : s = judging[j]
  OBVIOUS
<1>2. /\ s \in JudgingRecord /\ s.id # 0 /\ ~IsStored(s.id) /\ s.version \in Version
      /\ ActionsTypeOK /\ IdsApart /\ DecisionsOK
  BY <1>1 DEF CommitJudgment, ActionsInv, ActionsTypeOK, JudgingOK
<1>3. PICK e : e = [FirstRun(s.version, s.id) EXCEPT !.analysis = s.analysis]
  OBVIOUS
<1>4. /\ e \in RunRecord /\ e.id = s.id /\ e.origin = "judgment"
  BY <1>2, <1>3, NothingTyped DEF FirstRun, RunRecord, JudgingRecord
<1>5. /\ log' = Append(log, e) /\ judging' = [judging EXCEPT ![j] = IdleJudging]
      /\ UNCHANGED <<clock, analysis, lock, write, panel, offered>>
  BY <1>1, <1>3 DEF CommitJudgment
<1>6. /\ log' \in Seq(RunRecord) /\ Len(log) \in Nat
      /\ DOMAIN log' = DOMAIN log \cup {Len(log) + 1} /\ DOMAIN log \subseteq 1..Len(log)
      /\ \A i \in DOMAIN log : log'[i] = log[i]
      /\ log'[Len(log) + 1] = e
      /\ \A id : IsStored(id)' <=> IsStored(id) \/ id = e.id
      /\ \A id : IsDecision(id) => IsDecision(id)'
      /\ \A p : Grounds(p) => Grounds(p)'
      /\ \A cr : DecidedUpTo(cr) => DecidedUpTo(cr)'
  BY <1>2, <1>4, <1>5, Appended
<1>7. IdleJudging \in JudgingRecord /\ IdleJudging.pc = "idle" /\ IdleJudging.id = 0
  BY DEF IdleJudging, JudgingRecord
<1>8. /\ judging' \in [Judge -> JudgingRecord] /\ judging'[j] = IdleJudging
      /\ \A k \in Judge : k # j => judging'[k] = judging[k]
  BY <1>2, <1>5, <1>7 DEF ActionsTypeOK
<1>9. \A k \in Judge : judging'[k].id \in {0, judging[k].id}
  BY <1>7, <1>8
<1>10. s.id \in 1..(clock - 1)
  BY <1>1, <1>2 DEF IdsApart, JudgingRecord, ActionsTypeOK
<1>11. ActionsTypeOK'
  BY <1>2, <1>5, <1>6, <1>8 DEF ActionsTypeOK
<1>12. IdsApart'
  BY <1>2, <1>4, <1>5, <1>9, <1>10, IdsStayApart
<1>13. ASSUME NEW x \in Writer PROVE WriteOK(write[x])' /\ (lock' = x <=> write'[x].pc \in Holding)
  <2>1. PICK v : v = write[x]
    OBVIOUS
  <2>2. WriteOK(v) /\ v.id # s.id /\ (lock = x <=> v.pc \in Holding)
    BY <1>1, <1>2, <2>1 DEF ActionsInv, IdsApart
  <2>3. WriteOK(v)'
    BY <1>4, <1>6, <2>2 DEF WriteOK
  <2> QED BY <1>5, <2>1, <2>2, <2>3 DEF WriteOK
<1>14. ASSUME NEW k \in Judge PROVE JudgingOK(judging[k])'
  <2>1. CASE k = j
    BY <1>7, <1>8, <2>1 DEF JudgingOK
  <2>2. CASE k # j
    <3>1. judging[k].id = 0 \/ judging[k].id # s.id
      BY <1>1, <1>2, <2>2 DEF IdsApart
    <3> QED BY <1>2, <1>4, <1>6, <1>8, <2>2, <3>1 DEF ActionsInv, JudgingOK
  <2> QED BY <2>1, <2>2
<1>15. ASSUME NEW t \in Tab PROVE PanelOK(panel[t])'
  <2>1. PICK b : b = panel[t] /\ PanelOK(b)
    BY DEF ActionsInv
  <2>2. b.stage \in {"STALE", "FAILED"} /\ b.confirm # 0 =>
            b.confirm # s.id /\ \A k \in Judge : judging'[k].id # b.confirm
    BY <1>1, <1>9, <2>1 DEF PanelOK
  <2>3. PanelOK(b)'
    BY <1>4, <1>5, <1>6, <2>1, <2>2 DEF PanelOK
  <2> QED BY <1>5, <2>1, <2>3 DEF PanelOK
<1>16. DecisionsOK'
  <2>1. \A i \in DOMAIN log' : log'[i].origin # "judgment" => i \in DOMAIN log
    BY <1>4, <1>6
  <2>2. \A i \in DOMAIN log : log[i].origin = "answer" =>
          \E k \in DOMAIN log' : log'[k].id = log'[i].source /\ log'[k].open
                                 /\ log'[k].analysis = log'[i].analysis
    BY <1>2, <1>6 DEF DecisionsOK
  <2> QED BY <1>2, <1>6, <2>1, <2>2 DEF DecisionsOK
<1> QED BY <1>11, <1>12, <1>13, <1>14, <1>15, <1>16 DEF ActionsInv

LEMMA BeginJudgmentHolds ==
    ASSUME ActionsInv, NEW j \in Judge, NEW v \in Version, BeginJudgment(j, v)
    PROVE  ActionsInv'
<1>1. ActionsTypeOK /\ IdsApart /\ DecisionsOK
  BY DEF ActionsInv
<1>2. PICK r : r = [pc |-> "judging", id |-> clock, version |-> v, analysis |-> analysis[v]]
  OBVIOUS
<1>3. r \in JudgingRecord /\ r.pc = "judging" /\ r.id = clock /\ r.version = v
  BY <1>1, <1>2 DEF JudgingRecord, ActionsTypeOK
<1>4. /\ clock \in Nat \ {0} /\ clock' = clock + 1 /\ clock' \in Nat \ {0}
      /\ judging' = [judging EXCEPT ![j] = r]
      /\ UNCHANGED <<analysis, log, lock, write, panel, offered>>
  BY <1>1, <1>2 DEF BeginJudgment, ActionsTypeOK
<1>5. /\ judging' \in [Judge -> JudgingRecord] /\ judging'[j] = r
      /\ \A k \in Judge : k # j => judging'[k] = judging[k]
  BY <1>1, <1>3, <1>4 DEF ActionsTypeOK
<1>6. /\ \A i \in DOMAIN log : log[i].id \in Nat
      /\ \A w \in Writer : write[w].id \in Nat
      /\ \A k \in Judge : judging[k].id \in Nat
      /\ \A t \in Tab : panel[t].confirm \in Nat
  <2>1. \A i \in DOMAIN log : log[i] \in RunRecord
    BY <1>1 DEF ActionsTypeOK
  <2> QED BY <1>1, <2>1 DEF ActionsTypeOK, RunRecord, WriteRecord, JudgingRecord, PanelRecord
<1>7. ActionsTypeOK'
  BY <1>1, <1>4, <1>5 DEF ActionsTypeOK
<1>8. IdsApart'
  <2>1. \A i \in DOMAIN log' : log'[i].id \in 1..(clock' - 1)
    BY <1>1, <1>4 DEF IdsApart
  <2>2. \A w \in Writer : write'[w].id < clock' /\ write[w].id # clock
    BY <1>1, <1>4, <1>6 DEF IdsApart
  <2>3. \A k \in Judge : judging'[k].id < clock' /\ judging[k].id # clock
    BY <1>1, <1>3, <1>4, <1>5, <1>6 DEF IdsApart
  <2>4. \A k, l \in Judge : judging'[k].id = judging'[l].id /\ judging'[k].id # 0 => k = l
    BY <1>1, <1>3, <1>5, <2>3 DEF IdsApart
  <2>5. \A w \in Writer, k \in Judge : write'[w].id = judging'[k].id => write'[w].id = 0
    BY <1>1, <1>3, <1>4, <1>5, <2>2 DEF IdsApart
  <2> QED BY <1>1, <1>4, <2>1, <2>2, <2>3, <2>4, <2>5 DEF IdsApart
<1>9. \A w \in Writer : WriteOK(write[w])' /\ (lock' = w <=> write'[w].pc \in Holding)
  BY <1>4 DEF ActionsInv, WriteOK, IsStored, IsDecision, Grounds, DecidedUpTo
<1>10. ~IsStored(clock)
  BY <1>1, <1>4 DEF IsStored, IdsApart
<1>11. \A k \in Judge : JudgingOK(judging[k])'
  <2>1. \A k \in Judge : k # j => JudgingOK(judging[k])'
    BY <1>4, <1>5 DEF ActionsInv, JudgingOK, IsStored
  <2>2. JudgingOK(judging[j])'
    BY <1>3, <1>4, <1>5, <1>10 DEF JudgingOK, IsStored
  <2> QED BY <2>1, <2>2
<1>12. ASSUME NEW t \in Tab PROVE PanelOK(panel[t])'
  <2>1. PICK b : b = panel[t] /\ PanelOK(b) /\ b.confirm \in Nat
    BY <1>6 DEF ActionsInv
  <2>2. b.confirm < clock' /\ b.confirm # clock
    BY <1>4, <2>1 DEF PanelOK
  <2>3. PanelOK(b)'
    BY <1>3, <1>4, <1>5, <2>1, <2>2 DEF PanelOK, IsStored, IsDecision
  <2> QED BY <1>4, <2>1, <2>3 DEF PanelOK
<1>13. DecisionsOK'
  BY <1>1, <1>4 DEF DecisionsOK
<1> QED BY <1>7, <1>8, <1>9, <1>11, <1>12, <1>13 DEF ActionsInv

\* The user confirms: a transaction starts, on the provenance of the proposal.
LEMMA ConfirmHolds ==
    ASSUME ActionsInv, NEW t \in Tab, NEW w \in Writer, Confirm(t, w)
    PROVE  ActionsInv'
<1>1. ActionsTypeOK /\ IdsApart /\ DecisionsOK
  BY DEF ActionsInv
<1>2. PICK b : b = panel[t]
  OBVIOUS
<1>3. /\ b \in PanelRecord /\ PanelOK(b) /\ b.stage = "PROPOSAL_READY" /\ b.proposal # Absent
      /\ b.read = Absent /\ b.proposal \in Provenance /\ b.result = 0
  BY <1>2, PanelTyped DEF Confirm, IsLocked, PanelRecord, MaybeProvenance, PanelOK
<1>4. PICK r : r = [IdleWrite EXCEPT !.pc = "waiting", !.id = clock, !.p = b.proposal]
  OBVIOUS
<1>5. /\ clock \in Nat \ {0} /\ clock' = clock + 1 /\ clock' \in Nat \ {0}
      /\ SetWrite(w, r) /\ write[w].pc = "idle"
      /\ UNCHANGED <<analysis, log, lock, judging, offered>>
  BY <1>1, <1>2, <1>4 DEF Confirm, ActionsTypeOK
<1>6. /\ r \in WriteRecord /\ r.pc = "waiting" /\ r.id = clock /\ r.p = b.proposal
  BY <1>3, <1>4, <1>5, IdleWriteOK DEF WriteRecord, PanelRecord
<1>7. PICK c : c = [b EXCEPT !.stage = "CONFIRMING", !.confirm = clock]
  OBVIOUS
<1>8. /\ c \in PanelRecord /\ c.stage = "CONFIRMING" /\ c.confirm = clock /\ c.read = Absent
      /\ c.result = 0 /\ c.draft = b.draft /\ c.proposal = b.proposal
  BY <1>3, <1>5, <1>7 DEF PanelRecord, Stage
<1>9. SetTab(t, c)
  BY <1>2, <1>7 DEF Confirm
<1>10. /\ panel' \in [Tab -> PanelRecord] /\ panel'[t] = c
       /\ \A u \in Tab : u # t => panel'[u] = panel[u]
  BY <1>1, <1>8, <1>9 DEF ActionsTypeOK, SetTab
<1>11. /\ write' \in [Writer -> WriteRecord] /\ write'[w] = r
       /\ \A x \in Writer : x # w => write'[x] = write[x]
  BY <1>1, <1>5, <1>6 DEF ActionsTypeOK, SetWrite
<1>12. /\ \A x \in Writer : write[x].id \in Nat
       /\ \A k \in Judge : judging[k].id \in Nat
       /\ \A u \in Tab : panel[u].confirm \in Nat
  BY <1>1 DEF ActionsTypeOK, WriteRecord, JudgingRecord, PanelRecord
<1>13. ActionsTypeOK'
  BY <1>1, <1>5, <1>10, <1>11 DEF ActionsTypeOK
<1>14. IdsApart'
  <2>1. \A i \in DOMAIN log' : log'[i].id \in 1..(clock' - 1)
    BY <1>1, <1>5 DEF IdsApart
  <2>2. \A x \in Writer : write'[x].id < clock' /\ write[x].id # clock
    BY <1>1, <1>5, <1>6, <1>11, <1>12 DEF IdsApart
  <2>3. \A k \in Judge : judging'[k].id < clock' /\ judging[k].id # clock
    BY <1>1, <1>5, <1>12 DEF IdsApart
  <2>4. \A x, y \in Writer : write'[x].id = write'[y].id /\ write'[x].id # 0 => x = y
    BY <1>1, <1>6, <1>11, <2>2 DEF IdsApart
  <2>5. \A x \in Writer, k \in Judge : write'[x].id = judging'[k].id => write'[x].id = 0
    BY <1>1, <1>5, <1>6, <1>11, <2>3 DEF IdsApart
  <2> QED BY <1>1, <1>5, <2>1, <2>2, <2>3, <2>4, <2>5 DEF IdsApart
<1>15. ~IsStored(clock)
  BY <1>1, <1>5 DEF IsStored, IdsApart
<1>16. ASSUME NEW x \in Writer PROVE WriteOK(write[x])' /\ (lock' = x <=> write'[x].pc \in Holding)
  <2>1. CASE x = w
    <3>1. WriteOK(r)
      BY <1>3, <1>5, <1>6, <1>15 DEF WriteOK, Holding
    <3>2. WriteOK(r)'
      BY <1>5, <3>1 DEF WriteOK, IsStored, IsDecision, Grounds, DecidedUpTo
    <3>3. lock # w
      BY <1>5 DEF ActionsInv, Holding
    <3> QED BY <1>5, <1>6, <1>11, <2>1, <3>2, <3>3 DEF WriteOK, Holding
  <2>2. CASE x # w
    BY <1>5, <1>11, <2>2 DEF ActionsInv, WriteOK, IsStored, IsDecision, Grounds, DecidedUpTo
  <2> QED BY <2>1, <2>2
<1>17. \A k \in Judge : JudgingOK(judging[k])'
  BY <1>5 DEF ActionsInv, JudgingOK, IsStored
<1>18. ASSUME NEW u \in Tab PROVE PanelOK(panel[u])'
  <2>1. CASE u = t
    <3>1. PanelOK(c)'
      BY <1>3, <1>5, <1>8 DEF PanelOK
    <3> QED BY <1>10, <2>1, <3>1 DEF PanelOK
  <2>2. CASE u # t
    <3>1. PICK d : d = panel[u] /\ PanelOK(d) /\ d.confirm \in Nat
      BY <1>12 DEF ActionsInv
    <3>2. d.confirm < clock' /\ d.confirm # clock
      BY <1>5, <3>1 DEF PanelOK
    <3>3. \A x \in Writer : write'[x].id = write[x].id \/ write'[x].id = clock
      BY <1>6, <1>11
    <3>4. PanelOK(d)'
      BY <1>5, <3>1, <3>2, <3>3 DEF PanelOK, IsStored, IsDecision
    <3> QED BY <1>10, <2>2, <3>1, <3>4 DEF PanelOK
  <2> QED BY <2>1, <2>2
<1>19. DecisionsOK'
  BY <1>1, <1>5 DEF DecisionsOK
<1> QED BY <1>13, <1>14, <1>16, <1>17, <1>18, <1>19 DEF ActionsInv

\* The response comes, to a tab that waits for it or to none.
LEMMA ReceiveWriteHolds ==
    ASSUME ActionsInv, NEW w \in Writer, ReceiveWrite(w)
    PROVE  ActionsInv'
<1>1. ActionsTypeOK /\ IdsApart /\ DecisionsOK
  BY DEF ActionsInv
<1>2. PICK s : s = write[w]
  OBVIOUS
<1>3. /\ s \in WriteRecord /\ WriteOK(s) /\ s.pc = "done" /\ s.id # 0
      /\ SetWrite(w, IdleWrite) /\ UNCHANGED <<clock, analysis, log, lock, judging, offered>>
  BY <1>2, WriteTyped DEF ReceiveWrite, WriteOK, World
<1>4. /\ write' \in [Writer -> WriteRecord] /\ write'[w] = IdleWrite
      /\ \A x \in Writer : x # w => write'[x] = write[x]
  BY <1>1, <1>3, IdleWriteOK DEF ActionsTypeOK, SetWrite
<1>5. \A x \in Writer : write'[x].id = 0 \/ (x # w /\ write'[x].id = write[x].id)
  BY <1>4, IdleWriteOK
<1>6. IdsApart'
  <2>1. \A x \in Writer : write'[x].id < clock'
    BY <1>1, <1>3, <1>5 DEF IdsApart, ActionsTypeOK
  <2> QED BY <1>1, <1>3, <1>5, <2>1 DEF IdsApart
<1>7. ASSUME NEW x \in Writer PROVE WriteOK(write[x])' /\ (lock' = x <=> write'[x].pc \in Holding)
  <2>1. CASE x = w
    <3>1. WriteOK(IdleWrite)'
      BY IdleWriteOK DEF WriteOK, Holding
    <3>2. lock # w
      BY <1>2, <1>3 DEF ActionsInv, Holding
    <3> QED BY <1>3, <1>4, <2>1, <3>1, <3>2, IdleWriteOK DEF WriteOK
  <2>2. CASE x # w
    BY <1>3, <1>4, <2>2 DEF ActionsInv, WriteOK, IsStored, IsDecision, Grounds, DecidedUpTo
  <2> QED BY <2>1, <2>2
<1>8. \A k \in Judge : JudgingOK(judging[k])'
  BY <1>3 DEF ActionsInv, JudgingOK, IsStored
<1>9. DecisionsOK'
  BY <1>1, <1>3 DEF DecisionsOK
<1>10. ASSUME NEW u \in Tab, panel'[u] = panel[u] PROVE PanelOK(panel[u])'
  <2>1. PICK b : b = panel[u] /\ PanelOK(b)
    BY DEF ActionsInv
  <2>2. PanelOK(b)'
    BY <1>3, <1>5, <2>1 DEF PanelOK, IsStored, IsDecision
  <2> QED BY <1>10, <2>1, <2>2 DEF PanelOK
<1>11. ASSUME NEW t \in Tab, panel[t].confirm = s.id, panel[t].stage = "CONFIRMING",
              SetTab(t, IF s.outcome = "saved"
                        THEN [panel[t] EXCEPT !.stage = "REFRESHING", !.result = s.id,
                                              !.proposal = Absent]
                        ELSE [panel[t] EXCEPT !.stage = s.outcome, !.proposal = Absent])
       PROVE  panel' \in [Tab -> PanelRecord] /\ \A u \in Tab : PanelOK(panel[u])'
  <2>1. PICK b : b = panel[t]
    OBVIOUS
  <2>2. b \in PanelRecord /\ PanelOK(b) /\ b.confirm = s.id /\ b.stage = "CONFIRMING" /\ s.id \in Nat
    BY <1>3, <1>11, <2>1, PanelTyped DEF WriteRecord
  <2>3. /\ b.read = Absent /\ b.confirm < clock
        /\ b.result # 0 => b.result = b.confirm /\ IsDecision(b.confirm)
    BY <2>2 DEF PanelOK
  <2>4. PICK r : r = IF s.outcome = "saved"
                     THEN [b EXCEPT !.stage = "REFRESHING", !.result = s.id, !.proposal = Absent]
                     ELSE [b EXCEPT !.stage = s.outcome, !.proposal = Absent]
    OBVIOUS
  <2>5. ASSUME s.outcome = "saved" PROVE r \in PanelRecord /\ PanelOK(r)'
    <3>1. /\ r \in PanelRecord /\ r.stage = "REFRESHING" /\ r.confirm = s.id /\ r.result = s.id
          /\ r.proposal = Absent /\ r.read = Absent
      BY <2>2, <2>4, <2>5, <2>3 DEF PanelRecord, Stage, MaybeProvenance
    <3>2. r.confirm < clock'
      BY <1>3, <2>2, <2>3, <3>1
    <3>3. IsDecision(s.id)
      BY <1>3, <2>5 DEF WriteOK
    <3>4. PanelOK(r)'
      BY <1>3, <3>1, <3>2, <3>3 DEF PanelOK, IsDecision
    <3> QED BY <3>1, <3>4
  <2>6. ASSUME s.outcome # "saved" PROVE r \in PanelRecord /\ PanelOK(r)'
    <3>1. s.outcome \in {"STALE", "FAILED"} /\ ~IsStored(s.id)
      BY <1>3, <2>6 DEF WriteOK
    <3>2. /\ r \in PanelRecord /\ r.stage = s.outcome /\ r.confirm = s.id /\ r.result = b.result
          /\ r.proposal = Absent /\ r.read = Absent
      BY <2>2, <2>4, <2>6, <2>3, <3>1 DEF PanelRecord, Stage, MaybeProvenance
    <3>3. \A x \in Writer : write'[x].id # s.id
      BY <1>1, <1>2, <1>3, <1>5 DEF IdsApart
    <3>4. \A k \in Judge : judging[k].id # s.id
      BY <1>1, <1>2, <1>3 DEF IdsApart
    <3>5. r.result = 0 /\ r.confirm < clock' /\ ~IsStored(s.id)'
      BY <1>3, <2>2, <2>3, <3>1, <3>2 DEF IsStored, IsDecision
    <3>6. PanelOK(r)'
      BY <1>3, <3>1, <3>2, <3>3, <3>4, <3>5 DEF PanelOK
    <3> QED BY <3>2, <3>6
  <2>7. r \in PanelRecord /\ PanelOK(r)'
    BY <2>5, <2>6
  <2>8. SetTab(t, r)
    BY <1>11, <2>1, <2>4
  <2>9. /\ panel' \in [Tab -> PanelRecord] /\ panel'[t] = r
        /\ \A u \in Tab : u # t => panel'[u] = panel[u]
    BY <1>1, <2>7, <2>8 DEF ActionsTypeOK, SetTab
  <2>10. PanelOK(panel[t])'
    BY <2>7, <2>9 DEF PanelOK
  <2> QED BY <1>10, <2>9, <2>10
<1>12. panel' \in [Tab -> PanelRecord] /\ \A u \in Tab : PanelOK(panel[u])'
  <2>1. CASE UNCHANGED panel
    BY <1>1, <1>10, <2>1 DEF ActionsTypeOK
  <2> QED BY <1>2, <1>11, <2>1 DEF ReceiveWrite
<1>13. ActionsTypeOK'
  BY <1>1, <1>3, <1>4, <1>12 DEF ActionsTypeOK
<1> QED BY <1>6, <1>7, <1>8, <1>9, <1>12, <1>13 DEF ActionsInv

-----------------------------------------------------------------------------
(* The theorems *)

LEMMA OthersHold ==
    ASSUME ActionsInv, Offer \/ \E v \in Version : NewAnalysis(v)
    PROVE  ActionsInv'
<1>1. ActionsTypeOK /\ IdsApart
  BY DEF ActionsInv
<1>2. CASE Offer
  <2>1. PICK kind \in {"answer", "revalidate"} : offered' = SecondRead(FirstRead(Nothing(kind)))
    BY <1>2 DEF Offer
  <2>2. Nothing(kind) \in Provenance
    BY NothingTyped
  <2>3. FirstRead(Nothing(kind)) \in Provenance
    BY <1>1, <2>2, FirstReads
  <2>4. offered' \in MaybeProvenance
    BY <1>1, <2>1, <2>3, SecondReads DEF MaybeProvenance
  <2>5. UNCHANGED <<clock, analysis, log, lock, write, judging, panel>>
    BY <1>2 DEF Offer
  <2> QED BY <1>1, <2>4, <2>5, TabsHold DEF ActionsTypeOK
<1>3. CASE \E v \in Version : NewAnalysis(v)
  <2>1. PICK v \in Version : NewAnalysis(v)
    BY <1>3
  <2>2. analysis' \in [Version -> Nat]
    BY <1>1, <2>1 DEF NewAnalysis, ActionsTypeOK
  <2>3. UNCHANGED <<clock, log, lock, write, judging, panel, offered>>
    BY <2>1 DEF NewAnalysis
  <2> QED BY <1>1, <2>2, <2>3, TabsHold DEF ActionsTypeOK
<1> QED BY <1>2, <1>3

LEMMA ActionsInitHolds ==
    ASSUME ActionAssumption, ActionsInit
    PROVE  ActionsInv
<1>1. PICK a, b : a = FirstRun("baseline", 1) /\ b = FirstRun("current", 2)
  OBVIOUS
<1>2. /\ a \in RunRecord /\ a.id = 1 /\ a.origin = "judgment"
      /\ b \in RunRecord /\ b.id = 2 /\ b.origin = "judgment"
  BY <1>1, NothingTyped DEF FirstRun, RunRecord, Version
<1>3. log = <<a, b>>
  BY <1>1 DEF ActionsInit
<1>4. log \in Seq(RunRecord) /\ DOMAIN log = {1, 2} /\ log[1] = a /\ log[2] = b
  BY <1>2, <1>3
<1>5. IdleJudging \in JudgingRecord /\ IdleJudging.pc = "idle" /\ IdleJudging.id = 0
  BY DEF IdleJudging, JudgingRecord
<1>6. ActionsTypeOK
  BY <1>4, <1>5, IdleWriteOK, InitialTyped DEF ActionsInit, ActionsTypeOK, MaybeProvenance, Version
<1>7. IdsApart
  BY <1>2, <1>4, <1>5, IdleWriteOK DEF ActionsInit, IdsApart
<1>8. \A w \in Writer : WriteOK(write[w]) /\ (lock = w <=> write[w].pc \in Holding)
  BY IdleWriteOK DEF ActionsInit, ActionAssumption
<1>9. \A j \in Judge : JudgingOK(judging[j])
  BY <1>5 DEF ActionsInit, JudgingOK
<1>10. \A t \in Tab : PanelOK(panel[t])
  BY InitialTyped DEF ActionsInit, PanelOK
<1>11. DecisionsOK
  BY <1>2, <1>4 DEF DecisionsOK
<1> QED BY <1>6, <1>7, <1>8, <1>9, <1>10, <1>11 DEF ActionsInv

LEMMA ActionsNextHolds ==
    ASSUME ActionAssumption, ActionsInv, [ActionsNext]_actionVars
    PROVE  ActionsInv'
<1>1. ASSUME NEW t \in Tab,
             \/ BeginAnswer(t) \/ Edit(t) \/ Cancel(t) \/ Adopt(t)
             \/ Propose(t, "answer") \/ Propose(t, "revalidate") \/ Refresh(t)
             \/ ServeRead(t) \/ ReceiveRead(t) \/ \E w \in Writer : Confirm(t, w)
             \/ GiveUp(t) \/ Reload(t) \/ AcquireReview(t) \/ ReleaseReview(t)
      PROVE  ActionsInv'
  <2>1. CASE BeginAnswer(t) \/ Edit(t) \/ Cancel(t) \/ Adopt(t)
    BY <2>1, BeginAnswerHolds, EditHolds, LeaveHolds, AdoptHolds
  <2>2. CASE Propose(t, "answer") \/ Propose(t, "revalidate") \/ Refresh(t)
    BY <2>2, ProposeHolds, RefreshHolds
  <2>3. CASE ServeRead(t) \/ ReceiveRead(t)
    BY <2>3, ServeReadHolds, ReceiveReadHolds
  <2>4. CASE \E w \in Writer : Confirm(t, w)
    BY <2>4, ConfirmHolds
  <2>5. CASE GiveUp(t) \/ AcquireReview(t) \/ ReleaseReview(t)
    BY <2>5, GiveUpHolds, ReviewHolds
  <2>6. CASE Reload(t)
    BY <2>6, LeaveHolds DEF Reload
  <2> QED BY <1>1, <2>1, <2>2, <2>3, <2>4, <2>5, <2>6
<1>2. ASSUME NEW w \in Writer, WriteStep(w) \/ ReceiveWrite(w) \/ Abort(w)
      PROVE  ActionsInv'
  BY <1>2, LockCaseHolds, ReadFreshHolds, CheckSourceHolds, StoreHolds, ReceiveWriteHolds,
     AbortHolds DEF WriteStep
<1>3. ASSUME NEW v \in Version, NewAnalysis(v) \/ \E j \in Judge : BeginJudgment(j, v)
      PROVE  ActionsInv'
  BY <1>3, OthersHold, BeginJudgmentHolds
<1>4. ASSUME NEW j \in Judge, CommitJudgment(j) PROVE ActionsInv'
  BY <1>4, CommitJudgmentHolds
<1>5. CASE UNCHANGED actionVars
  <2>1. /\ UNCHANGED <<clock, analysis, log, lock, write, judging, panel, offered>>
        /\ ActionsTypeOK
    BY <1>5 DEF actionVars, ActionsInv
  <2> QED BY <2>1, TabsHold DEF ActionsTypeOK
<1>6. CASE Offer
  BY <1>6, OthersHold
<1> QED BY <1>1, <1>2, <1>3, <1>4, <1>5, <1>6 DEF ActionsNext

\* The invariant holds throughout, whatever tabs, confirmations and judgments do.
THEOREM ActionsInvariance == ActionsSpec => []ActionsInv
<1>1. ActionsInit => ActionsInv
  BY ActionAssumption, ActionsInitHolds
<1>2. ActionsInv /\ [ActionsNext]_actionVars => ActionsInv'
  BY ActionAssumption, ActionsNextHolds
<1> QED BY <1>1, <1>2, PTL DEF ActionsSpec

\* Types of CopilotActions.
THEOREM ActionsTypeCorrect == ActionsSpec => []ActionsTypeOK
<1>1. ActionsInv => ActionsTypeOK
  BY DEF ActionsInv
<1> QED BY <1>1, ActionsInvariance, PTL

\* What a tab reports as refused (copilot-actions.ts:126) is not stored and will not be.
THEOREM RefusalsAreFinal == ActionsSpec => []RefusedIsNotStored
<1>1. ASSUME ActionsInv PROVE RefusedIsNotStored
  <2>1. \A id : id \in Ids(Runs) => IsStored(id)
    BY DEF Ids, Runs, ToSet, IsStored
  <2> QED BY <1>1, <2>1 DEF ActionsInv, PanelOK, RefusedIsNotStored
<1> QED BY <1>1, ActionsInvariance, PTL

\* A decision is stored only by someone who had been shown every decision before it,
\* on the question that was shown, and a tab shows what it has confirmed
\* (copilot/actions.py confirm_action, copilot-actions.ts).
THEOREM DecidedAsShown == ActionsSpec => []ShownAndStored
<1>1. ASSUME ActionsInv PROVE ShownAndStored
  <2>1. ActionsTypeOK /\ DecisionsOK /\ \A t \in Tab : PanelOK(panel[t])
    BY <1>1 DEF ActionsInv
  <2>2. \A i \in DOMAIN log : log[i] \in Runs
    BY DEF Runs, ToSet
  <2>3. DecidedOnWhatWasShown
    BY <2>1 DEF DecisionsOK, DecidedOnWhatWasShown, Decisions
  <2>4. ASSUME NEW i \in Decisions, log[i].origin = "answer"
        PROVE  \E s \in Runs : s.id = log[i].source /\ s.open /\ s.analysis = log[i].analysis
    <3>1. i \in DOMAIN log
      BY DEF Decisions
    <3>2. PICK k \in DOMAIN log : log[k].id = log[i].source /\ log[k].open
                                  /\ log[k].analysis = log[i].analysis
      BY <2>1, <2>4, <3>1 DEF DecisionsOK
    <3> QED BY <2>2, <3>2
  <2>5. AnswersTheQuestionShown
    BY <2>1, <2>4 DEF PanelOK, AnswersTheQuestionShown
  <2>6. ASSUME NEW t \in Tab, panel[t].stage = "COMPLETED", panel[t].result # 0
        PROVE  /\ panel[t].shown = panel[t].confirm
               /\ \E r \in Runs : r.id = panel[t].confirm /\ r.origin # "judgment"
    <3>1. panel[t].shown = panel[t].confirm /\ IsDecision(panel[t].confirm)
      BY <2>1, <2>6 DEF PanelOK
    <3> QED BY <2>2, <3>1 DEF IsDecision
  <2>7. CompletedIsShown
    BY <2>6 DEF CompletedIsShown
  <2> QED BY <2>3, <2>5, <2>7 DEF ShownAndStored
<1> QED BY <1>1, ActionsInvariance, PTL
=============================================================================
