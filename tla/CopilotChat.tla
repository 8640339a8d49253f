------------------------------ MODULE CopilotChat ------------------------------
(***************************************************************************)
(* Conversations of the copilot: the bounded store of the server           *)
(* (copilot/conversation_state.py), the turns that answer a question       *)
(* (copilot/orchestration.py, tool_adapters.py) and the conversation that  *)
(* a browser tab keeps (web/lib/copilot-conversation.ts).                  *)
(*                                                                         *)
(* A turn loads a copy of its conversation, reads evidence and calls the   *)
(* language model for up to a minute, checks that what it has read is      *)
(* still so, and stores the conversation if nobody has stored it since.    *)
(* The store is one process's memory: a load and a commit are each atomic  *)
(* (they hold the RLock), the rest of a turn is not.                       *)
(*                                                                         *)
(* What a turn reads is divided into parts, each with a fingerprint: the   *)
(* saved judgment ("product"), the public documents and so on.  The        *)
(* fingerprint of a part changes when what it stands for does, and no      *)
(* content ever returns to an earlier one; the judgment may also be        *)
(* missing (a new analysis has not been judged yet).                       *)
(***************************************************************************)
EXTENDS Integers, FiniteSets, SequencesExt

CONSTANTS
    Turn,             \* requests being served at the same time
    Document,         \* the parts beside the judgment
    Capacity, TTL,    \* ConversationRepository(capacity, ttl)
    Window,           \* messages kept in a conversation, 12 in the code
    MaxAsked,         \* bound: questions asked, retries included
    MaxConversation,  \* bound: conversations created
    MaxIssued,        \* bound: changes of the evidence
    MaxNow,           \* bound: time
    None

Part == {"product"} \cup Document

ASSUME ChatAssumption ==
    /\ Capacity \in Nat \ {0} /\ TTL \in Nat /\ Window \in Nat \ {0}
    /\ MaxAsked \in Nat /\ MaxConversation \in Nat /\ MaxIssued \in Nat \ {0} /\ MaxNow \in Nat
    /\ "product" \notin Document
    /\ None \notin Nat \cup Part

VARIABLES
    now,     \* monotonic()
    basis,   \* fingerprint of each part, None for a judgment that is missing
    issued,  \* fingerprints given out
    store,   \* the OrderedDict of conversations, the next to be evicted first
    created, \* conversations created; serves as the id of the next
    asked,   \* questions asked; serves as the number of the next
    tab,     \* the conversation of the browser tab
    turn,    \* the requests being served
    said     \* history: the questions answered in each conversation

vars == <<now, basis, issued, store, created, asked, tab, turn, said>>

-----------------------------------------------------------------------------
(* Records *)

\* An item a later question may refer to: a fact of a part as it was shown.
Targets == [part : Part, print : 1..MaxIssued]
Prints == [Part -> 0..MaxIssued]       \* 0 where the part has not been read
Unread == [p \in Part |-> 0]

Conversation == [id : 1..MaxConversation, revision : Nat,
                 messages : Seq(1..MaxAsked), targets : SUBSET Targets, prints : Prints,
                 scope : {None} \cup 1..MaxIssued, touched : 0..MaxNow]

IdleTurn == [pc |-> "idle", q |-> 0, seen |-> 0, conv |-> None, rev |-> 0,
             target |-> None, item |-> None, copy |-> None, plan |-> {}, prints |-> Unread,
             proposal |-> 0, at |-> None, reply |-> None]

NewTab == [seen |-> 0, busy |-> FALSE, conv |-> None, rev |-> 0,
           targets |-> {}, failed |-> None]

Init ==
    /\ now = 0
    /\ basis = [p \in Part |-> IF p = "product" THEN None ELSE 1]
    /\ issued = 1
    /\ store = <<>> /\ created = 0 /\ asked = 0
    /\ tab = NewTab
    /\ turn = [t \in Turn |-> IdleTurn]
    /\ said = [id \in 1..MaxConversation |-> <<>>]

Step(t, r) == turn' = [turn EXCEPT ![t] = r]
Idle(t) == turn[t].pc = "idle"

-----------------------------------------------------------------------------
(* The tab: ConversationStore *)

\* ask: one question at a time, as far as the tab knows.
Send(t, conv, rev, target) ==
    /\ Idle(t) /\ ~tab.busy /\ asked < MaxAsked
    /\ asked' = asked + 1
    /\ tab' = [tab EXCEPT !.busy = TRUE, !.seen = @ + 1]
    /\ Step(t, [IdleTurn EXCEPT !.pc = "sent", !.q = asked + 1, !.seen = tab.seen + 1,
                                !.conv = conv, !.rev = rev, !.target = target])
    /\ UNCHANGED <<now, basis, issued, store, created, said>>

Ask(t) == \E target \in tab.targets \cup {None} : Send(t, tab.conv, tab.rev, target)

\* retry: the request that failed is sent again as it was.
Retry(t) ==
    /\ tab.failed # None
    /\ Send(t, tab.failed.conv, tab.failed.rev, tab.failed.target)

\* focus and publish: the user selects a requirement, or a confirmed action has
\* been applied.  The tab stops waiting for the answer under way.
Turnaway ==
    /\ tab.seen < MaxAsked + 1
    /\ tab' = [tab EXCEPT !.busy = FALSE, !.seen = @ + 1]
    /\ UNCHANGED <<now, basis, issued, store, created, asked, turn, said>>

NewConversation ==
    /\ tab.conv # None \/ tab.busy
    /\ tab' = [NewTab EXCEPT !.seen = tab.seen + 1]
    /\ tab.seen < MaxAsked + 1
    /\ UNCHANGED <<now, basis, issued, store, created, asked, turn, said>>

\* The tab still waits for this answer.
Awaited(t) == turn[t].seen = tab.seen

\* perform: the answer or an error arrives, or the connection has failed.
Receive(t) ==
    LET r == turn[t]
        answered == /\ r.reply # None
                    /\ tab' = [tab EXCEPT !.busy = FALSE, !.conv = r.reply.conv,
                                          !.rev = r.reply.rev, !.failed = None,
                                          !.targets = @ \cup r.reply.targets]
        refused == tab' = [tab EXCEPT !.busy = FALSE,
                               !.failed = [conv |-> r.conv, rev |-> r.rev,
                                           target |-> r.target]]
    IN  /\ r.pc = "ended"
        /\ \/ Awaited(t) /\ (answered \/ refused)
           \/ ~Awaited(t) /\ UNCHANGED tab
        /\ Step(t, IdleTurn)
        /\ UNCHANGED <<now, basis, issued, store, created, asked, said>>

-----------------------------------------------------------------------------
(* ConversationRepository *)

\* What remains of a sequence when only some places are kept.
Kept(s, places) ==
    [n \in 1..Cardinality(places) |->
        s[CHOOSE k \in places : Cardinality({j \in places : j <= k}) = n]]

Alive(s) == Kept(s, {k \in DOMAIN s : now - s[k].touched <= TTL})
Others(s, id) == Kept(s, {k \in DOMAIN s : s[k].id # id})

Evicted(s) == IF Len(s) > Capacity THEN Tail(s) ELSE s
Stored(s, id) == {c \in ToSet(s) : c.id = id}

Blank == [id |-> created + 1, revision |-> 0, messages |-> <<>>,
          targets |-> {}, prints |-> Unread, scope |-> None, touched |-> now]

\* Without an id a conversation is created and the oldest one evicted.
Create ==
    /\ created < MaxConversation
    /\ created' = created + 1
    /\ store' = Evicted(Append(Alive(store), Blank))

\* The judgment the turn has read, or None.
ScopeOf(r) == IF r.prints["product"] = 0 THEN None ELSE r.prints["product"]

\* With another scope, the items shown before are forgotten.
InScope(c, scope) ==
    IF c.scope = scope THEN c
    ELSE [c EXCEPT !.targets = {}, !.prints = Unread, !.scope = scope]

\* resolve_target: a selected item must be among those of the conversation.
\* The plan is then its part alone; otherwise the model chooses the parts.
Loads(t, c) ==
    LET r == turn[t]
        copy == InScope(c, ScopeOf(r))
        item == IF r.target \in copy.targets THEN r.target ELSE None
    IN  \E plan \in IF item # None THEN {{item.part}}
                    ELSE IF r.target # None THEN {{}} ELSE (SUBSET Part) \ {{}} :
            Step(t, [r EXCEPT !.pc = "reading", !.copy = copy, !.item = item,
                              !.plan = plan])

\* The request is answered; without a reply it was refused or has failed.
Ended(r, reply) == [IdleTurn EXCEPT !.pc = "ended", !.seen = r.seen, !.conv = r.conv,
                        !.rev = r.rev, !.target = r.target, !.reply = reply]

Fail(t) == Step(t, Ended(turn[t], None))

\* load: what has expired is deleted whoever asks; a wrong revision is refused.
Load(t) ==
    LET r == turn[t]
        alive == Alive(store)
    IN  /\ r.pc = "started"
        /\ \/ r.conv = None /\ Create /\ Loads(t, Blank)
           \/ \E c \in Stored(alive, r.conv) :
                 /\ c.revision = r.rev
                 /\ store' = Append(Others(alive, r.conv), c)
                 /\ Loads(t, c)
                 /\ UNCHANGED created
           \/ /\ r.conv # None
              /\ ~\E c \in Stored(alive, r.conv) : c.revision = r.rev
              /\ store' = alive
              /\ Fail(t)
              /\ UNCHANGED created
        /\ UNCHANGED <<now, basis, issued, asked, tab, said>>

\* A question of somebody else's first turn.
LoadElsewhere ==
    /\ Create
    /\ UNCHANGED <<now, basis, issued, asked, tab, turn, said>>

\* A slip: the conversation is stored whatever has been stored meanwhile.
CommitsRegardless(t) == Stored(store, turn[t].copy.id) # {}

\* commit: the conversation is still there at the revision that was loaded.
Commits(t) == \E c \in Stored(store, turn[t].copy.id) : c.revision = turn[t].copy.revision

-----------------------------------------------------------------------------
(* A turn: coordinate *)

\* The judgment is read first; a missing one does not stop the turn.
Start(t) ==
    /\ turn[t].pc = "sent"
    /\ Step(t, [turn[t] EXCEPT !.pc = "started",
                    !.prints["product"] = IF basis["product"] = None THEN 0 ELSE basis["product"]])
    /\ UNCHANGED <<now, basis, issued, store, created, asked, tab, said>>

\* What one task of the plan may find.  The judgment is read once and kept: what belongs to
\* it is compared with it, and that read fails if it is no longer the judgment.  A read that
\* fails leaves the part out of the answer.
MayFind(r, p) ==
    IF p = "product" /\ r.prints[p] # 0 THEN {r.prints[p]} ELSE {0} \cup ({basis[p]} \ {None})

Read(t) ==
    LET r == turn[t]
    IN  /\ r.pc = "reading"
        /\ \E p \in r.plan : \E print \in MayFind(r, p) :
              Step(t, [r EXCEPT !.plan = @ \ {p}, !.prints[p] = print])
        /\ UNCHANGED <<now, basis, issued, store, created, asked, tab, said>>

\* A part has changed since the last answer: the items shown are forgotten.
Moved(r) ==
    \E p \in Part : 0 \notin {r.prints[p], r.copy.prints[p]} /\ r.prints[p] # r.copy.prints[p]

\* A fact's id is a digest of its content: the selected item must be among the
\* facts just read.
Selected(r) == r.item # None /\ ~Moved(r) /\ r.prints[r.item.part] = r.item.print

\* The model writes the answer; an action may be proposed, which reads the
\* judgment afresh.  If the item is not found, the answer asks which was meant.
Compose(t) ==
    LET r == turn[t]
        found == Selected(r)
        proposals == IF r.target = None \/ found THEN {basis["product"]} \ {None} ELSE {}
    IN  /\ r.pc = "reading" /\ r.plan = {}
        /\ \E proposal \in {0} \cup proposals :
              Step(t, [r EXCEPT !.pc = "composed", !.proposal = proposal,
                                !.item = IF found THEN @ ELSE None,
                                !.copy.targets = IF Moved(r) THEN {} ELSE @])
        /\ UNCHANGED <<now, basis, issued, store, created, asked, tab, said>>

\* assert_fresh, one SELECT after another: the case, then each part that was read.
RefreshCase(t) ==
    /\ turn[t].pc = "composed"
    /\ Step(t, [turn[t] EXCEPT !.pc = "checking", !.at = basis,
                               !.plan = {p \in Part : turn[t].prints[p] # 0}])
    /\ UNCHANGED <<now, basis, issued, store, created, asked, tab, said>>

\* A slip: only the judgment is compared.
SameJudgment(r, p) == p = "product" => r.prints[p] = basis[p]

Same(r, p) == r.prints[p] = basis[p]

AssertFresh(t) ==
    LET r == turn[t]
    IN  /\ r.pc = "checking"
        /\ \E p \in r.plan :
              /\ "product" \in r.plan => p = "product"
              /\ \/ Same(r, p) /\ Step(t, [r EXCEPT !.plan = @ \ {p}])
                 \/ ~Same(r, p) /\ Fail(t)
        /\ UNCHANGED <<now, basis, issued, store, created, asked, tab, said>>

\* A turn without claims, which only asks back, shows no items.
Shown(r) == IF r.target # None /\ r.item = None THEN {}
            ELSE {x \in Targets : r.prints[x.part] = x.print}

Trimmed(messages) ==
    SubSeq(messages, IF Len(messages) > Window THEN Len(messages) - Window + 1 ELSE 1,
           Len(messages))

\* An assignment to a key of an OrderedDict leaves its place.
Commit(t) ==
    LET r == turn[t]
        next == [r.copy EXCEPT !.revision = @ + 1, !.messages = Trimmed(Append(@, r.q)),
                               !.targets = @ \cup Shown(r), !.prints = r.prints,
                               !.scope = ScopeOf(r), !.touched = now]
    IN  /\ r.pc = "checking" /\ r.plan = {}
        /\ \/ /\ Commits(t)
              /\ store' = [i \in DOMAIN store |->
                              IF store[i].id = next.id THEN next ELSE store[i]]
              /\ said' = [said EXCEPT ![next.id] = Append(@, r.q)]
              /\ Step(t, Ended(r, [conv |-> next.id, rev |-> next.revision,
                                   targets |-> Shown(r)]))
           \/ ~Commits(t) /\ Fail(t) /\ UNCHANGED <<store, said>>
        /\ UNCHANGED <<now, basis, issued, created, asked, tab>>

-----------------------------------------------------------------------------
(* The surroundings *)

\* A judgment, a new analysis, a document extracted again.
Change ==
    /\ issued < MaxIssued
    /\ issued' = issued + 1
    /\ \E p \in Part, print \in {issued + 1, None} :
          /\ print = None => p = "product"
          /\ basis' = [basis EXCEPT ![p] = print]
    /\ UNCHANGED <<now, store, created, asked, tab, turn, said>>

Tick ==
    /\ now < MaxNow
    /\ now' = now + 1
    /\ UNCHANGED <<basis, issued, store, created, asked, tab, turn, said>>

\* The process restarts: its memory is lost, the turns under way fail.
Restart ==
    /\ store # <<>>
    /\ store' = <<>>
    /\ turn' = [t \in Turn |-> IF turn[t].pc \in {"idle", "ended"} THEN turn[t]
                               ELSE Ended(turn[t], None)]
    /\ UNCHANGED <<now, basis, issued, created, asked, tab, said>>

TurnStep(t) ==
    \/ Start(t) \/ Load(t) \/ Read(t) \/ Compose(t)
    \/ RefreshCase(t) \/ AssertFresh(t) \/ Commit(t) \/ Receive(t)

Next ==
    \/ \E t \in Turn : Ask(t) \/ Retry(t) \/ TurnStep(t)
    \/ Turnaway \/ NewConversation \/ LoadElsewhere \/ Change \/ Tick \/ Restart

Spec == Init /\ [][Next]_vars

-----------------------------------------------------------------------------
(* Properties *)

Basis == [Part -> {None} \cup 1..MaxIssued]
ConversationOrNone == {None} \cup 1..MaxConversation

Request == [conv : ConversationOrNone, rev : Nat, target : {None} \cup Targets]
Reply == [conv : 1..MaxConversation, rev : Nat, targets : SUBSET Targets]

TurnState ==
    [pc : {"idle", "sent", "started", "reading", "composed", "checking", "ended"},
     q : 0..MaxAsked, seen : Nat, conv : ConversationOrNone, rev : Nat,
     target : {None} \cup Targets, item : {None} \cup Targets,
     copy : {None} \cup Conversation, plan : SUBSET Part, prints : Prints,
     proposal : 0..MaxIssued, at : {None} \cup Basis, reply : {None} \cup Reply]

TabState == [seen : Nat, busy : BOOLEAN, conv : ConversationOrNone, rev : Nat,
             targets : SUBSET Targets, failed : {None} \cup Request]

TypeOK ==
    /\ now \in 0..MaxNow /\ issued \in 1..MaxIssued
    /\ created \in 0..MaxConversation /\ asked \in 0..MaxAsked
    /\ basis \in Basis /\ tab \in TabState /\ turn \in [Turn -> TurnState]
    /\ said \in [1..MaxConversation -> Seq(1..MaxAsked)]
    /\ Len(store) <= Capacity /\ ToSet(store) \subseteq Conversation
    /\ \A i, j \in DOMAIN store : store[i].id = store[j].id => i = j
    /\ \A i \in DOMAIN store : Len(store[i].messages) <= Window

\* No answer overwrites another: a stored conversation holds the last answers
\* given in it, all of them counted, although turns on the same copy overlap,
\* conversations are evicted, expire and are lost in a restart.
AnswersNotLost ==
    \A c \in ToSet(store) :
        /\ c.revision = Len(said[c.id])
        /\ c.messages = Trimmed(said[c.id])

\* All that an answer rests on was so at one instant, although every part was read at a
\* time of its own and the judgments and documents change meanwhile; a selected item is
\* shown as it was selected, and what is proposed is of the judgment on the status card.
OneInstant ==
    \A t \in Turn :
        turn[t].pc = "checking" /\ turn[t].plan = {} =>
            /\ \A p \in Part : turn[t].prints[p] # 0 => turn[t].prints[p] = turn[t].at[p]
            /\ turn[t].item # None =>
                   /\ turn[t].item = turn[t].target
                   /\ turn[t].at[turn[t].item.part] = turn[t].item.print
            /\ turn[t].proposal # 0 /\ turn[t].prints["product"] # 0 =>
                   turn[t].proposal = turn[t].prints["product"]

\* Asking again is possible once nothing is under way: the tab knows the last
\* answer of its conversation.  VIOLATED: an answer that the tab no longer waits
\* for, or that is lost on its way, has been stored all the same.
CanAskAgain ==
    \A c \in ToSet(store) :
        c.id = tab.conv /\ ~tab.busy /\ (\A t \in Turn : Idle(t)) => tab.rev = c.revision
=============================================================================
