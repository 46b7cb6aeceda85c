------------------------------- MODULE Follow -------------------------------
(***************************************************************************)
(* The follow protocol, shared/follow: how nodes connect to one another,   *)
(* pass instructions on, and burst their whole state to a node that is too *)
(* far behind; with the parts of shared/store that this drives (Degrade,   *)
(* Burst, EndBurst, tryApply, the discard of old slots).                   *)
(*                                                                         *)
(* Consensus is reduced to its outcome: Agreed[s] is the request chosen in *)
(* slot s, and the nodes in Learners come to know it without being told.   *)
(* Leader and FirstUnapplied messages are in Consensus.                    *)
(*                                                                         *)
(* One action is one transaction.  A connection delivers in order; what is *)
(* under way when it is cut may be lost.  The writer of a connection that  *)
(* its own node has closed is taken to stop at once.                       *)
(***************************************************************************)
EXTENDS Changes, FiniteSets

CONSTANTS
    Node,           \* node IDs; those up to 0x2000 are core nodes
    Conn,           \* bound: the connections that exist at one time
    NoConn,
    LastSlot,       \* bound: the highest slot used
    Agreed,         \* Agreed[s]: the changes chosen in slot s
    Learners,       \* the nodes that learn from consensus what is chosen
    Pasts,          \* how many slots each node may have discarded, and how
                    \* many instructions it may have applied, before
    MaxAhead,       \* bound: how far past the first unapplied slot one learns
    MaxFaults       \* bound: broken connections and overlapping dials

IsCore(n) == n <= 8192
CoreNodes == {n \in Node : IsCore(n)}

ASSUME FollowAssumption ==
    /\ Node \subseteq Nat \ {0}
    /\ NoConn \notin Conn
    /\ LastSlot \in Nat /\ MaxAhead \in Nat /\ MaxFaults \in Nat
    /\ DOMAIN Agreed = 0 .. LastSlot
    /\ Learners \subseteq CoreNodes
    /\ Pasts \subseteq [Node -> {past \in (0 .. LastSlot + 1) \X (0 .. LastSlot + 1) :
                                   past[1] = 0 \/ past[1] < past[2]}]

VARIABLES
    store,          \* store[n]: what shared/store keeps
    connections,    \* connections[n][m]: the connection n uses with m
    conn,           \* conn[c][n]: the followConn of n for connection c
    queue,          \* queue[c][n]: messages under way to n
    cut,            \* the connections that no longer carry messages
    crashed,        \* the nodes whose process has panicked
    faults,         \* faults so far
    tainted         \* history: nodes whose last burst was mixed with
                    \* requests that it should not have been; all of them,
                    \* once a core node has lost its state

netVars == <<connections, conn, queue, cut>>
vars == <<store, netVars, crashed, faults, tainted>>

Unchosen == LastSlot + 1

-----------------------------------------------------------------------------
(* The store of a node: slots[i] is the slot start + i - 1, and holds the  *)
(* slot whose agreed request was put there, or Unchosen.                   *)
InitialStore ==
    [degraded |-> FALSE, start |-> 0, firstUnapplied |-> 0, slots |-> <<>>,
     state |-> EmptyState]

At(st, s) ==
    LET i == s - st.start + 1
    IN  IF i \in DOMAIN st.slots THEN st.slots[i] ELSE Unchosen

IsChosen(st, s) == At(st, s) # Unchosen

ChosenFrom(st, s) == {t \in s .. LastSlot : IsChosen(st, t)}

(* AddInstructionValue of the request agreed for slot t, which is then     *)
(* chosen in slot s.  Bound: fewer slots than its cap of 2^16.             *)
WithChosen(st, s, t) ==
    LET size == IF IsChosen(st, s) \/ s - st.start < Len(st.slots)
                THEN Len(st.slots) ELSE s - st.start + 1
    IN  [st EXCEPT !.slots = [i \in 1 .. size |->
            IF i = s - st.start + 1 THEN t
            ELSE IF i \in DOMAIN st.slots THEN st.slots[i] ELSE Unchosen]]

(* Instruction Data for slot s, of the request agreed for slot t.          *)
Data(s, t, changes, idempotent) ==
    [type |-> "Data", slot |-> s, request |-> t, changes |-> changes,
     idempotent |-> idempotent]

(* tryApply: the store after it, and the instructions it applied, as they  *)
(* are sent to those in a burst.                                           *)
tryApply(st) ==
    LET Apply(r) ==
            LET s == r.store.firstUnapplied
                t == At(r.store, s)
                done == applyChanges(r.store.state, Agreed[t], FALSE)
            IN  IF r.store.degraded \/ ~IsChosen(r.store, s) THEN r
                ELSE [store |-> [r.store EXCEPT !.state = done.state,
                                                !.firstUnapplied = s + 1],
                      applied |-> Append(r.applied,
                                         Data(s, t, done.changes, TRUE))]
    IN  Iterated(Apply, [store |-> st, applied |-> <<>>], LastSlot + 1)

(* The slots that the discard at the end of Choose may stop at: it goes    *)
(* over slots chosen long enough ago, which slot s was not.                *)
DiscardPoints(st, s) ==
    {p \in st.start .. st.firstUnapplied :
        \A t \in st.start .. p - 1 : IsChosen(st, t) /\ t # s}

(* At a slot that is not chosen it would panic.                            *)
DiscardPanics(st, p) == p < st.firstUnapplied /\ ~IsChosen(st, p)

Discard(st, p) ==
    [st EXCEPT !.start = p,
               !.slots = SubSeq(@, p - st.start + 1, Len(@))]

Degrade(st) ==
    [st EXCEPT !.degraded = TRUE, !.state = EmptyState,
               !.slots = [i \in DOMAIN @ |-> Unchosen]]

(* setInstructionStart leaves the slots where they are if the shift is     *)
(* longer than they are.                                                   *)
setInstructionStart(st, s) ==
    LET offset == s - st.start
    IN  [st EXCEPT !.start = s,
            !.slots = IF offset < Len(@)
                      THEN [i \in DOMAIN @ |->
                               IF i + offset <= Len(@) THEN @[i + offset]
                                                       ELSE Unchosen]
                      ELSE @]

(* What EndBurst makes of the store before it tries to apply.              *)
WithWaiting(state, waiting) ==
    LET after[k \in 0 .. Len(waiting)] ==
            IF k = 0 THEN state
            ELSE applyChanges(after[k - 1], waiting[k].changes, TRUE).state
    IN  after[Len(waiting)]

EndBurst(st, s, waiting) ==
    [setInstructionStart(st, s) EXCEPT
        !.firstUnapplied = s, !.degraded = FALSE,
        !.state = WithWaiting(@, waiting)]

-----------------------------------------------------------------------------
(* A followConn.  In phase "received" it is waiting on receivedConnCh, in  *)
(* phase "handled" handleConn runs.  A burst over it is not being sent     *)
(* ("no"), about to start ("start"), or visiting the entities: of the      *)
(* store ("live"), or of the map that the store had before the node became *)
(* degraded ("frozen").                                                    *)
NoFollowConn ==
    [phase |-> "none", node |-> 0, outgoing |-> FALSE, closed |-> FALSE,
     sending |-> "no", first |-> {}, sent |-> {}, frozen |-> EmptyState,
     receiving |-> FALSE, waiting |-> <<>>, offers |-> {}]

NewFollowConn(m, outgoing) ==
    [NoFollowConn EXCEPT !.phase = "received", !.node = m,
                         !.outgoing = outgoing]

Position(n) == [type |-> "Position", degraded |-> store[n].degraded,
                firstUnapplied |-> store[n].firstUnapplied]
Bursting == [type |-> "Bursting"]
Global(v) == [type |-> "Global", next |-> v]
Entity(e, v) == [type |-> "Entity", entity |-> e, values |-> v]
BurstDone(s) == [type |-> "BurstDone", firstUnapplied |-> s]
Chosen(s) == [type |-> "Chosen", slot |-> s]
Request(s) == [type |-> "Request", slot |-> s]

(* Messages for the slots of a set, in order.                              *)
InOrder(slots, Message(_)) ==
    LET Nth(i) == CHOOSE s \in slots : Cardinality({t \in slots : t <= s}) = i
    IN  [i \in 1 .. Cardinality(slots) |-> Message(Nth(i))]

Used(n) == {connections[n][m] : m \in Node} \ {NoConn}

Free(c) == \A n \in Node : conn[c][n].phase = "none"

Handled(c, n) == n \notin crashed /\ conn[c][n].phase = "handled"

(* The next message that n handles on c.                                   *)
Received(c, n, type) ==
    /\ Handled(c, n)
    /\ queue[c][n] # <<>>
    /\ Head(queue[c][n]).type = type

Sent(q, c, n, msgs) ==
    IF c \in cut THEN q
    ELSE [q EXCEPT ![c][conn[c][n].node] = @ \o msgs]

Taken(c, n) == [queue EXCEPT ![c][n] = Tail(@)]

(* followConn.Close, on each of some connections of n.                     *)
CloseAll(C, n, cs) ==
    /\ conn' = [c \in Conn |->
                   IF c \in C THEN [cs[c] EXCEPT ![n].closed = TRUE]
                              ELSE cs[c]]
    /\ cut' = cut \cup C

Emptied(q, C, n) ==
    [c \in Conn |-> IF c \in C THEN [q[c] EXCEPT ![n] = <<>>] ELSE q[c]]

Close(c, n) ==
    /\ CloseAll({c}, n, conn)
    /\ queue' = Emptied(queue, {c}, n)
    /\ UNCHANGED <<store, connections, crashed, faults, tainted>>

(* The end of connection c at n goes.                                      *)
Gone(c, n, q) ==
    LET last == \A m \in Node \ {n} : conn[c][m].phase = "none"
    IN  /\ conn' = [conn EXCEPT ![c][n] = NoFollowConn]
        /\ cut' = IF last THEN cut \ {c} ELSE cut \cup {c}
        /\ queue' = [q EXCEPT ![c] =
                        IF last THEN [m \in Node |-> <<>>]
                                ELSE [@ EXCEPT ![n] = <<>>]]

-----------------------------------------------------------------------------
(* Choosing an instruction, with the callbacks handleChosen and            *)
(* handleApplied: n's other nodes are told, those in a burst are sent what *)
(* was applied.  q is the queue without the message handled.               *)
\* Mutant of Announced: without handleApplied.
AnnouncedChosen(q, n, s, applied) ==
    [c \in Conn |->
        IF c \in Used(n) THEN Sent(q, c, n, <<Chosen(s)>>)[c] ELSE q[c]]

\* Mutant of Announced: everyone is sent what was applied.
AnnouncedApplied(q, n, s, applied) ==
    [c \in Conn |->
        IF c \in Used(n) THEN Sent(q, c, n, applied \o <<Chosen(s)>>)[c]
                         ELSE q[c]]

Announced(q, n, s, applied) ==
    [c \in Conn |->
        IF c \in Used(n)
        THEN Sent(q, c, n, IF conn[c][n].sending # "no" THEN applied
                                                        ELSE <<Chosen(s)>>)[c]
        ELSE q[c]]

Choose(n, s, t, q) ==
    LET r == tryApply(WithChosen(store[n], s, t))
    IN  /\ \E p \in DiscardPoints(r.store, s) :
              /\ store' = [store EXCEPT ![n] = Discard(r.store, p)]
              /\ crashed' = IF DiscardPanics(r.store, p)
                            THEN crashed \cup {n} ELSE crashed
        /\ queue' = Announced(q, n, s, r.applied)
        /\ conn' = [c \in Conn |->
                       IF c \in Used(n)
                       THEN [conn[c] EXCEPT ![n].offers = @ \ {s}]
                       ELSE conn[c]]
        /\ UNCHANGED <<connections, cut, faults, tainted>>

(* Consensus chooses what is agreed for slot s at node n.                  *)
Learn(n, s) ==
    /\ n \in Learners \ crashed
    /\ s \in store[n].start .. store[n].firstUnapplied + MaxAhead
    /\ ~IsChosen(store[n], s)
    /\ Choose(n, s, s, queue)

-----------------------------------------------------------------------------
(* Making and losing connections: process and tryOutgoing.                 *)

\* Mutant of Wanted: a client is content with a connection too few.
WantedLess(n) ==
    LET unconnected == {m \in CoreNodes \ {n} : connections[n][m] = NoConn}
        target == IF Cardinality(CoreNodes) < 2 THEN Cardinality(CoreNodes)
                                                ELSE 2
    IN  IF store[n].degraded
        THEN IF Used(n) = {} THEN CoreNodes \ {n} ELSE {}
        ELSE IF IsCore(n) THEN unconnected
        ELSE IF Cardinality(Used(n)) + 1 < target THEN unconnected ELSE {}

(* The nodes that tryOutgoingCh may have n dial.                           *)
Wanted(n) ==
    LET unconnected == {m \in CoreNodes \ {n} : connections[n][m] = NoConn}
        target == IF Cardinality(CoreNodes) < 2 THEN Cardinality(CoreNodes)
                                                ELSE 2
    IN  IF store[n].degraded
        THEN IF Used(n) = {} THEN CoreNodes \ {n} ELSE {}
        ELSE IF IsCore(n) THEN unconnected
        ELSE IF Cardinality(Used(n)) < target THEN unconnected ELSE {}

(* The connections between n and m that are not in use at n yet.           *)
Pending(n, m) == {c \in Conn \ Used(n) : conn[c][n].node = m}

(* A dial while an earlier one is under way counts as a fault.             *)
Dial(n, m, c) ==
    /\ n \notin crashed /\ m \in Wanted(n) \ crashed
    /\ Free(c)
    /\ faults' = IF Pending(n, m) = {} THEN faults ELSE faults + 1
    /\ faults' <= MaxFaults
    /\ conn' = [conn EXCEPT ![c][n] = NewFollowConn(m, TRUE),
                            ![c][m] = NewFollowConn(n, FALSE)]
    /\ UNCHANGED <<store, connections, queue, cut, crashed, tainted>>

(* A degraded node has no use for a connection, but for one that it made   *)
(* itself when it had no other.                                            *)
Unwelcome(c, n) ==
    store[n].degraded /\ ~(Used(n) = {} /\ conn[c][n].outgoing)

ReceivedConn(c, n) == n \notin crashed /\ conn[c][n].phase = "received"

RejectConn(c, n) ==
    /\ ReceivedConn(c, n) /\ Unwelcome(c, n)
    /\ Gone(c, n, queue)
    /\ UNCHANGED <<store, connections, crashed, faults, tainted>>

(* Any connection with the same node is closed.                            *)
AddConn(c, n) ==
    LET m == conn[c][n].node
        others == {connections[n][m]} \ {NoConn}
    IN  /\ ReceivedConn(c, n) /\ ~Unwelcome(c, n)
        /\ CloseAll(others, n, [conn EXCEPT ![c][n].phase = "handled"])
        /\ queue' = Sent(Emptied(queue, others, n), c, n, <<Position(n)>>)
        /\ connections' = [connections EXCEPT ![n][m] = c]
        /\ UNCHANGED <<store, crashed, faults, tainted>>

(* handleConn ends: the connection was closed, or cut by the other node.   *)
Terminate(c, n) ==
    LET m == conn[c][n].node
    IN  /\ Handled(c, n) /\ c \in cut
        /\ connections' = [connections EXCEPT ![n][m] =
                               IF @ = c THEN NoConn ELSE @]
        /\ Gone(c, n, queue)
        /\ UNCHANGED <<store, crashed, faults, tainted>>

Break(c) ==
    /\ ~Free(c) /\ c \notin cut
    /\ faults < MaxFaults
    /\ faults' = faults + 1
    /\ cut' = cut \cup {c}
    /\ UNCHANGED <<store, connections, conn, queue, crashed, tainted>>

-----------------------------------------------------------------------------
(* Handling messages.                                                      *)

(* handlePosition.  What a node needs that is at the position of msg.      *)
MustBurst(st, msg) ==
    \/ msg.firstUnapplied < st.start /\ ~(st.degraded /\ msg.degraded)
    \/ /\ msg.degraded /\ ~st.degraded
       /\ msg.firstUnapplied <= st.firstUnapplied

(* The instructions that it sends to a node whose position is s.            *)
DataFrom(st, s) ==
    LET DataOf(t) == Data(t, At(st, t), Agreed[At(st, t)], FALSE)
    IN  InOrder(ChosenFrom(st, s), DataOf)

HandlePosition(c, n) ==
    LET msg == Head(queue[c][n])
        st == store[n]
    IN  /\ Received(c, n, "Position")
        /\ IF MustBurst(st, msg)
           THEN /\ conn' = [conn EXCEPT ![c][n].sending = "start"]
                /\ queue' = Sent(Taken(c, n), c, n, <<Bursting>>)
                /\ UNCHANGED <<store, connections, cut, crashed, faults,
                               tainted>>
           ELSE IF msg.degraded THEN Close(c, n)
           ELSE /\ queue' = Sent(Taken(c, n), c, n,
                                DataFrom(st, msg.firstUnapplied))
                /\ UNCHANGED <<store, connections, conn, cut, crashed,
                               faults, tainted>>

(* A burst that n is sending goes on over the map of entities it began     *)
(* with, when Degrade gives the store a new one.                           *)
Frozen(f, st) ==
    IF f.sending = "live"
    THEN [f EXCEPT !.sending = "frozen", !.frozen = st.state] ELSE f

(* A connection of a node that is told of a burst, here or on another.     *)
OnBursting(f, st, here) == [Frozen(f, st) EXCEPT !.receiving = @ \/ here]

(* handleBursting, with handleDegraded: all other connections are closed.  *)
HandleBursting(c, n) ==
    LET others == {d \in Used(n) \ {c} : ~conn[d][n].receiving}
    IN  /\ Received(c, n, "Bursting")
        /\ store' = [store EXCEPT ![n] = Degrade(@)]
        /\ CloseAll(others, n,
               [d \in Conn |->
                   [conn[d] EXCEPT ![n] = OnBursting(@, store[n], d = c)]])
        /\ queue' = Emptied(Taken(c, n), others, n)
        /\ tainted' = IF n \in CoreNodes \/ tainted \cap CoreNodes # {}
                      THEN Node ELSE tainted \ {n}
        /\ UNCHANGED <<connections, crashed, faults>>

(* handleGlobalProperty and handleEntityProperty; an Entity message stands *)
(* for those of all its keys.                                              *)
BurstProperty(c, n, state) ==
    IF conn[c][n].receiving
    THEN /\ store' = [store EXCEPT ![n].state = state]
         /\ queue' = Taken(c, n)
         /\ UNCHANGED <<connections, conn, cut, crashed, faults, tainted>>
    ELSE Close(c, n)

HandleGlobalProperty(c, n) ==
    /\ Received(c, n, "Global")
    /\ BurstProperty(c, n,
           [store[n].state EXCEPT !.next = Head(queue[c][n]).next])

HandleEntityProperty(c, n) ==
    LET msg == Head(queue[c][n])
    IN  /\ Received(c, n, "Entity")
        /\ BurstProperty(c, n,
               [store[n].state EXCEPT
                   !.entities = Put(@, {msg.entity}, msg.values)])

(* Mutant of HandleBurstDone: the connection stays in its burst.           *)
HandleBurstDoneStill(c, n) ==
    LET r == tryApply(EndBurst(store[n], Head(queue[c][n]).firstUnapplied,
                               conn[c][n].waiting))
    IN  /\ Received(c, n, "BurstDone") /\ conn[c][n].receiving
        /\ store' = [store EXCEPT ![n] = r.store]
        /\ queue' = Taken(c, n)
        /\ UNCHANGED <<connections, conn, cut, crashed, faults, tainted>>

HandleBurstDone(c, n) ==
    LET f == conn[c][n]
        s == Head(queue[c][n]).firstUnapplied
        r == tryApply(EndBurst(store[n], s, f.waiting))
        \* Nodes that n bursts to, which are sent what n applies.
        Told(q) == [d \in Conn |->
                       IF d \in Used(n) /\ conn[d][n].sending # "no"
                       THEN Sent(q, d, n, r.applied)[d] ELSE q[d]]
    IN  /\ Received(c, n, "BurstDone")
        /\ IF ~f.receiving THEN Close(c, n)
           ELSE IF s < store[n].start
           THEN /\ crashed' = crashed \cup {n}
                /\ UNCHANGED <<store, netVars, faults, tainted>>
           ELSE /\ store' = [store EXCEPT ![n] = r.store]
                /\ conn' = [conn EXCEPT ![c][n].receiving = FALSE,
                                        ![c][n].waiting = <<>>]
                /\ queue' = Told(Taken(c, n))
                /\ tainted' = IF \A m \in ToSet(f.waiting) : m.idempotent
                              THEN tainted ELSE tainted \cup {n}
                /\ UNCHANGED <<connections, cut, crashed, faults>>

(* A client node asks for the instruction at once, a core node when the    *)
(* timer fires.                                                            *)
HandleInstructionChosen(c, n) ==
    LET s == Head(queue[c][n]).slot
    IN  /\ Received(c, n, "Chosen")
        /\ IF s < store[n].start \/ IsChosen(store[n], s)
           THEN queue' = Taken(c, n) /\ UNCHANGED conn
           ELSE /\ conn' = [conn EXCEPT ![c][n].offers = @ \cup {s}]
                /\ queue' = Sent(Taken(c, n), c, n,
                                 IF IsCore(n) THEN <<>> ELSE <<Request(s)>>)
        /\ UNCHANGED <<store, connections, cut, crashed, faults, tainted>>

(* Bound: the timer fires once; the code starts it again, for twice the    *)
(* time.                                                                   *)
OfferTimeout(c, n, s) ==
    /\ Handled(c, n) /\ ~conn[c][n].closed
    /\ s \in conn[c][n].offers
    /\ conn' = [conn EXCEPT ![c][n].offers = @ \ {s}]
    /\ queue' = Sent(queue, c, n, <<Request(s)>>)
    /\ UNCHANGED <<store, connections, cut, crashed, faults, tainted>>

HandleInstructionRequest(c, n) ==
    LET s == Head(queue[c][n]).slot
        st == store[n]
    IN  /\ Received(c, n, "Request")
        /\ IF s < st.start \/ ~IsChosen(st, s) THEN Close(c, n)
           ELSE /\ queue' = Sent(Taken(c, n), c, n,
                                 <<Data(s, At(st, s), Agreed[At(st, s)], FALSE)>>)
                /\ UNCHANGED <<store, connections, conn, cut, crashed,
                               faults, tainted>>

(* During a burst instructions wait for its end.                           *)
HandleInstructionData(c, n) ==
    LET msg == Head(queue[c][n])
    IN  /\ Received(c, n, "Data")
        /\ IF conn[c][n].receiving
           THEN /\ conn' = [conn EXCEPT ![c][n].waiting = Append(@, msg)]
                /\ queue' = Taken(c, n)
                /\ UNCHANGED <<store, connections, cut, crashed, faults,
                               tainted>>
           ELSE IF msg.slot < store[n].start \/ IsChosen(store[n], msg.slot)
           THEN /\ queue' = Taken(c, n)
                /\ UNCHANGED <<store, connections, conn, cut, crashed,
                               faults, tainted>>
           ELSE Choose(n, msg.slot, msg.request, Taken(c, n))

-----------------------------------------------------------------------------
(* sendBurst.  Each entity is sent in a transaction of its own, the first  *)
(* in that of the Global store.  Entities created meanwhile may be visited *)
(* or not.                                                                 *)
Visiting(c, n) ==
    IF conn[c][n].sending = "frozen" THEN conn[c][n].frozen
                                     ELSE store[n].state

Sending(c, n) ==
    n \notin crashed /\ c \notin cut /\ conn[c][n].sending # "no"

BurstStart(c, n) ==
    LET entities == store[n].state.entities
        global == Global(store[n].state.next)
        Begin(visited) ==
            conn' = [conn EXCEPT ![c][n].sending = "live",
                                 ![c][n].first = DOMAIN entities,
                                 ![c][n].sent = visited]
    IN  /\ Sending(c, n) /\ conn[c][n].sending = "start"
        /\ IF entities = <<>>
           THEN Begin({}) /\ queue' = Sent(queue, c, n, <<global>>)
           ELSE \E e \in DOMAIN entities :
                   /\ Begin({e})
                   /\ queue' = Sent(queue, c, n,
                                    <<global, Entity(e, entities[e])>>)
        /\ UNCHANGED <<store, connections, cut, crashed, faults, tainted>>

BurstEntity(c, n) ==
    LET entities == Visiting(c, n).entities
    IN  /\ Sending(c, n) /\ conn[c][n].sending # "start"
        /\ \E e \in DOMAIN entities \ conn[c][n].sent :
              /\ conn' = [conn EXCEPT ![c][n].sent = @ \cup {e}]
              /\ queue' = Sent(queue, c, n, <<Entity(e, entities[e])>>)
        /\ UNCHANGED <<store, connections, cut, crashed, faults, tainted>>

BurstEnd(c, n) ==
    LET f == conn[c][n]
        s == store[n].firstUnapplied
    IN  /\ Sending(c, n) /\ f.sending # "start"
        /\ f.first \cap DOMAIN Visiting(c, n).entities \subseteq f.sent
        /\ conn' = [conn EXCEPT
                        ![c][n] = [@ EXCEPT !.sending = "no", !.first = {},
                                            !.sent = {},
                                            !.frozen = EmptyState]]
        /\ queue' = Sent(queue, c, n,
                         <<BurstDone(s)>> \o
                             InOrder(ChosenFrom(store[n], s), Chosen))
        /\ UNCHANGED <<store, connections, cut, crashed, faults, tainted>>

-----------------------------------------------------------------------------
Receive(c, n) ==
    \/ HandlePosition(c, n)
    \/ HandleBursting(c, n)
    \/ HandleGlobalProperty(c, n)
    \/ HandleEntityProperty(c, n)
    \/ HandleBurstDone(c, n)
    \/ HandleInstructionChosen(c, n)
    \/ HandleInstructionRequest(c, n)
    \/ HandleInstructionData(c, n)

(* After[k] is the state after the first k instructions.                   *)
After[k \in 0 .. LastSlot + 1] ==
    IF k = 0 THEN EmptyState
    ELSE applyChanges(After[k - 1], Agreed[k - 1], FALSE).state

(* The idempotent form of the request in slot s.                           *)
Idempotent(s) == applyChanges(After[s], Agreed[s], FALSE).changes

(* The idempotent form of a request does what the request did.             *)
Replayable ==
    \A s \in 0 .. LastSlot :
        applyChanges(After[s], Idempotent(s), TRUE).state = After[s + 1]

(* The store of a node that applied the first k instructions, and has      *)
(* discarded the first p.                                                  *)
PastStore(p, k) ==
    [InitialStore EXCEPT
        !.start = p, !.firstUnapplied = k, !.state = After[k],
        !.slots = [i \in 1 .. k - p |-> p + i - 1]]

Init ==
    /\ \E past \in Pasts :
          store = [n \in Node |-> PastStore(past[n][1], past[n][2])]
    /\ connections = [n \in Node |-> [m \in Node |-> NoConn]]
    /\ conn = [c \in Conn |-> [n \in Node |-> NoFollowConn]]
    /\ queue = [c \in Conn |-> [n \in Node |-> <<>>]]
    /\ cut = {} /\ crashed = {} /\ faults = 0 /\ tainted = {}

Next ==
    \/ \E n \in Node, s \in 0 .. LastSlot : Learn(n, s)
    \/ \E n, m \in Node, c \in Conn : Dial(n, m, c)
    \/ \E c \in Conn : Break(c)
    \/ \E c \in Conn, n \in Node :
          \/ RejectConn(c, n) \/ AddConn(c, n) \/ Terminate(c, n)
          \/ Receive(c, n)
          \/ \E s \in 0 .. LastSlot : OfferTimeout(c, n, s)
          \/ BurstStart(c, n) \/ BurstEntity(c, n) \/ BurstEnd(c, n)

(* Goroutines and connections that have something to do get to do it, and  *)
(* process comes to dial again after some seconds.                         *)
Progress ==
    \/ \E n, m \in Node, c \in Conn : Dial(n, m, c)
    \/ \E c \in Conn, n \in Node :
          \/ RejectConn(c, n) \/ AddConn(c, n) \/ Terminate(c, n)
          \/ Receive(c, n)
          \/ BurstStart(c, n) \/ BurstEntity(c, n) \/ BurstEnd(c, n)

Fairness == WF_vars(Progress)

Spec == Init /\ [][Next]_vars /\ Fairness

-----------------------------------------------------------------------------
(* Whether a node that was in a burst, or not, is in one when it has       *)
(* handled the first i messages of q.                                      *)
InBurst(before, q, i) ==
    \/ before /\ \A k \in 1 .. i : q[k].type # "BurstDone"
    \/ \E j \in 1 .. i :
          /\ q[j].type = "Bursting"
          /\ \A k \in j + 1 .. i : q[k].type # "BurstDone"

OfBurst(m) ==
    \/ m.type \in {"Global", "Entity", "BurstDone"}
    \/ m.type = "Data" /\ m.idempotent

(* Everything that belongs to a burst is between its Bursting and its      *)
(* BurstDone, and the two ends of a connection agree on whether one is     *)
(* going on: else the receiver would close the connection, or put an       *)
(* instruction's idempotent form in a slot (handle.go:169, 193, 218, 344). *)
BurstFramed ==
    \A c \in Conn, n \in Node :
        LET f == conn[c][n]
            q == queue[c][n]
        IN  f.phase # "none" =>
            /\ \A i \in 1 .. Len(q) :
                  OfBurst(q[i]) => InBurst(f.receiving, q, i - 1)
            /\ c \notin cut =>
                  (InBurst(f.receiving, q, Len(q))
                      <=> conn[c][f.node].sending # "no")

(* A node is degraded as long as it is in a burst, or EndBurst,            *)
(* BurstGlobal or BurstEntity would panic (instructions.go:276,            *)
(* store.go:135, 145), and nothing but being degraded makes the discard of *)
(* old slots, or the end of a burst, panic (instructions.go:140, 305).     *)
BurstOnlyDegraded ==
    \A n \in Node :
        /\ \A c \in Conn :
              conn[c][n].receiving /\ ~conn[c][n].closed => store[n].degraded
        /\ n \in crashed => store[n].degraded

(* No node panics, a degraded one neither: a chosen instruction is applied *)
(* "once all previous instruction slots have a chosen value"               *)
(* (instructions.go:100), and nothing is discarded before it is applied.   *)
NoPanic == crashed = {}

(* Every slot holds the request that is agreed for it: the end of a burst  *)
(* moves the slots that remain to where they belong (instructions.go:301). *)
SlotsRight ==
    \A n \in Node, s \in 0 .. LastSlot : At(store[n], s) \in {s, Unchosen}

(* What waits for the end of a burst is idempotent, as the comment on      *)
(* EndBurst assumes (instructions.go:272).                                 *)
WaitingIdempotent ==
    \A c \in Conn, n \in Node :
        \A m \in ToSet(conn[c][n].waiting) : m.idempotent

(* The replicas: what the nodes promise of their state, unless they mixed  *)
(* a burst with requests, which WaitingIdempotent is about, or a core node *)
(* has been degraded, which NoPanic and SlotsRight are about.              *)
NoContent == [next |-> 0, entities |-> <<>>]
Ready(n) == ~store[n].degraded /\ n \notin tainted

Replicas == INSTANCE ReplicatedState WITH
    position <- [n \in Node |-> IF Ready(n) THEN store[n].firstUnapplied
                                            ELSE 0],
    ready <- [n \in Node |-> Ready(n)],
    content <- [n \in Node |-> IF Ready(n) THEN store[n].state
                                           ELSE NoContent]

(* A node that is not degraded holds exactly the state after the           *)
(* instructions below its first unapplied slot, whether it applied them    *)
(* one by one or was sent that state while its sender went on applying,    *)
(* and that slot goes back only in a burst.                                *)
ImplementsReplicatedState == Replicas!Spec

(* Whatever a learner applied, every other node comes to apply, over       *)
(* broken connections, crossing dials and bursts.                          *)
CaughtUp ==
    \A n \in Learners, m \in Node \ Learners, s \in 0 .. LastSlot :
        store[n].firstUnapplied > s ~> store[m].firstUnapplied > s
=============================================================================
