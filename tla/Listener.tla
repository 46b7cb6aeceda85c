------------------------------ MODULE Listener ------------------------------
(***************************************************************************)
(* A client node's listener, client/listener: user connections, the        *)
(* sessions they authenticate to, the users they follow, messages between  *)
(* sessions, and the timers that clean up after lost sessions and users.   *)
(*                                                                         *)
(* The rest of the network is its outcome: agreed is the state after all   *)
(* instructions chosen, and a node that is not degraded is taken to apply  *)
(* an instruction as it is chosen.  What other client nodes request is     *)
(* limited to what their listeners would.                                  *)
(*                                                                         *)
(* One action is one transaction, or one stretch under the locks where     *)
(* there is none.  Answers that only tell the user of a failure, and       *)
(* notices to followers, change nothing and are left out; passwords are    *)
(* right, for wrong ones end in such an answer.                            *)
(***************************************************************************)
EXTENDS Changes, FiniteSets

CONSTANTS
    Me, Others,     \* this node's ID, and those of other client nodes
    Conn,           \* bound: the user connections that exist at one time
    Guests,         \* usernames that begin with "Guest-"
    MaxRequests,    \* bound: the requests of all nodes
    MaxElsewhere,   \* bound: those of other nodes
    MaxDegrades,    \* bound: how often the node becomes degraded
    DeliverCap      \* the size of a connection's deliver channel

(* Node IDs have 16 bits, and those up to 0x2000 are for core nodes: none   *)
(* is the ID of an entity, nor the ID of one within a request.             *)
ClientIDs == {n \in Nat : 8192 < n /\ n < 65536}

ASSUME ListenerAssumption ==
    /\ Me \in ClientIDs /\ Others \subseteq ClientIDs \ {Me}
    /\ Guests \subseteq Names
    /\ {MaxRequests, MaxElsewhere, MaxDegrades, DeliverCap}
           \subseteq Nat

VARIABLES
    agreed,         \* the state that all instructions so far make
    degraded,
    requested,      \* this node's requests that are not chosen yet
    connections,    \* the set of user connections
    userConn,       \* userConn[c]: connection c
    sessions,       \* from session IDs to connections
    waiting,        \* from request IDs to connections
    orphanAttachTimeouts, namelessRemoveTimeouts,
                    \* from entity IDs to "running" or "fired"
    blocked,        \* whether a goroutine waits for its own lock
    made, elsewhere, degrades       \* what the bounds count

listenerVars == <<connections, userConn, sessions, waiting>>
timerVars == <<orphanAttachTimeouts, namelessRemoveTimeouts>>
vars == <<agreed, degraded, requested, listenerVars, timerVars, blocked,
          made, elsewhere, degrades>>

State == IF degraded THEN EmptyState ELSE agreed

(* A connection: its handler is running ("open"), running although the     *)
(* connection was closed, with messages left to handle ("closed"), or      *)
(* between the two halves of its cleanup ("cleaning").                     *)
NoUserConn ==
    [status |-> "none", session |-> 0, waitingAuth |-> 0, following |-> {},
     deliver |-> <<>>]

Handling(c) == ~blocked /\ userConn[c].status \in {"open", "closed"}

Live(c) == userConn[c].status = "open"

(* connectionsLock is held between the halves of a cleanup.                *)
ConnectionsLocked == \E c \in Conn : userConn[c].status = "cleaning"

Closed(conns, C) ==
    [c \in Conn |-> IF c \in C /\ conns[c].status = "open"
                    THEN [conns[c] EXCEPT !.status = "closed"] ELSE conns[c]]

SessionConns(S) == {sessions[s] : s \in DOMAIN sessions \cap S}

Without(f, S) == [x \in DOMAIN f \ S |-> f[x]]

(* startOrphanTimeout and startNamelessTimeout.                            *)
Started(timeouts, S) == Put(timeouts, S \ DOMAIN timeouts, "running")

(* makeRequest and chrequest.Request.                                      *)
MakeRequest(changes) ==
    /\ made + elsewhere < MaxRequests
    /\ made' = made + 1
    /\ requested' = requested \cup {[id |-> made + 1, changes |-> changes]}

NoRequest == UNCHANGED <<requested, made>>

-----------------------------------------------------------------------------
(* incomingConn, of a node that is not degraded.                           *)
IncomingConn(c) ==
    /\ ~blocked /\ ~degraded /\ ~ConnectionsLocked
    /\ userConn[c].status = "none"
    /\ connections' = connections \cup {c}
    /\ userConn' = [userConn EXCEPT ![c].status = "open"]
    /\ UNCHANGED <<agreed, degraded, sessions, waiting, timerVars, blocked,
                   elsewhere, degrades>>
    /\ NoRequest

(* The user closes the connection.                                         *)
Disconnect(c) ==
    /\ ~blocked /\ Live(c)
    /\ userConn' = Closed(userConn, {c})
    /\ UNCHANGED <<agreed, degraded, connections, sessions, waiting,
                   timerVars, blocked, elsewhere, degrades>>
    /\ NoRequest

-----------------------------------------------------------------------------
(* handleAuth, after the passwords are hashed: its four ways to succeed,   *)
(* and the connection closed if it has authenticated or is about to.       *)
Unauthenticated(c) ==
    userConn[c].session = 0 /\ userConn[c].waitingAuth = 0

Wait(c, changes) ==
    /\ MakeRequest(changes)
    /\ userConn' = [userConn EXCEPT ![c].waitingAuth = made + 1]
    /\ waiting' = Put(waiting, {made + 1}, c)
    /\ UNCHANGED <<sessions, blocked>>

AttachSession(c, user, session) ==
    /\ userConn' = [Closed(userConn, SessionConns({session})) EXCEPT
                        ![c].session = session]
    /\ IF session \in DOMAIN sessions THEN NoRequest
       ELSE MakeRequest(AttachRequest(Me, session))
    /\ sessions' = Put(sessions, {session}, c)
    /\ UNCHANGED <<waiting, blocked>>

NewSession(c, user) == Wait(c, makeNewSessionRequest(Me, user))

NewUser(c, name) == name \notin Guests /\ Wait(c, makeNewUserRequest(Me, name))

(* The lock of the waiting map is taken again by the goroutine that has    *)
(* it, in a transaction and with the lock of the sessions map.             *)
NewGuest(c, name) ==
    /\ name \in Guests
    /\ blocked' = TRUE
    /\ UNCHANGED <<userConn, sessions, waiting>>
    /\ NoRequest

HandleAuth(c) ==
    /\ Handling(c)
    /\ IF Unauthenticated(c)
       THEN \E name \in Names :
              LET owners == Named(State, "user", name)
              IN  \/ \E user \in owners :
                        \/ \E s \in AllAttached(State, user) :
                              AttachSession(c, user, s)
                        \/ NewSession(c, user)
                  \/ owners = {} /\ (NewUser(c, name) \/ NewGuest(c, name))
       ELSE /\ userConn' = Closed(userConn, {c})
            /\ UNCHANGED <<sessions, waiting, blocked>>
            /\ NoRequest
    /\ UNCHANGED <<agreed, degraded, connections, timerVars, elsewhere,
                   degrades>>

-----------------------------------------------------------------------------
(* handleFollowUsername and handleFollowUser find a user in different      *)
(* ways and go on alike; handleStopFollowingUser.                          *)
HandleFollow(c, user, follows) ==
    /\ Handling(c)
    /\ user \in OfKind(State, "user") \/ ~follows
    /\ userConn' =
          IF userConn[c].session = 0 THEN Closed(userConn, {c})
          ELSE [userConn EXCEPT ![c].following =
                   IF follows THEN @ \cup {user} ELSE @ \ {user}]
    /\ UNCHANGED <<agreed, degraded, connections, sessions, waiting,
                   timerVars, blocked, elsewhere, degrades>>
    /\ NoRequest

-----------------------------------------------------------------------------
(* Messages between sessions.                                              *)

(* deliver, for a session that is connected here: dropped if the channel   *)
(* is full.  For any other session the message is lost or passed to        *)
(* another node, by relay.Forward, which changes nothing here.             *)
Deliver(recipient) ==
    IF recipient \in DOMAIN sessions
    THEN [userConn EXCEPT ![sessions[recipient]].deliver =
             IF Len(@) < DeliverCap THEN Append(@, recipient) ELSE @]
    ELSE userConn

HandleSend(c, recipient) ==
    /\ Handling(c)
    /\ userConn' =
          IF userConn[c].session = 0 THEN Closed(userConn, {c})
          ELSE Deliver(recipient)
    /\ UNCHANGED <<agreed, degraded, connections, sessions, waiting,
                   timerVars, blocked, elsewhere, degrades>>
    /\ NoRequest

(* The relay receives a message from another node.                         *)
HandleForward(recipient) ==
    /\ ~blocked
    /\ userConn' = Deliver(recipient)
    /\ UNCHANGED <<agreed, degraded, connections, sessions, waiting,
                   timerVars, blocked, elsewhere, degrades>>
    /\ NoRequest

(* The handler passes a message on to the user, if the sender is known.    *)
Received(c) ==
    /\ Handling(c) /\ userConn[c].deliver # <<>>
    /\ userConn' = [userConn EXCEPT ![c].deliver = Tail(@)]
    /\ UNCHANGED <<agreed, degraded, connections, sessions, waiting,
                   timerVars, blocked, elsewhere, degrades>>
    /\ NoRequest

-----------------------------------------------------------------------------
(* The handler's deferred cleanup, in two halves; a connection that the    *)
(* node has dropped or replaced is no longer in the maps.                  *)

\* Mutant of CleanupWaiting: the connection stays in the waiting map.
CleanupWaitingKept(c) ==
    /\ ~blocked /\ ~ConnectionsLocked
    /\ userConn[c].status = "closed"
    /\ connections' = connections \ {c}
    /\ userConn' = [userConn EXCEPT ![c].status = "cleaning"]
    /\ UNCHANGED <<agreed, degraded, sessions, waiting, timerVars, blocked,
                   elsewhere, degrades>>
    /\ NoRequest

CleanupWaiting(c) ==
    /\ ~blocked /\ ~ConnectionsLocked
    /\ userConn[c].status = "closed"
    /\ connections' = connections \ {c}
    /\ waiting' = Without(waiting, {r \in DOMAIN waiting : waiting[r] = c})
    /\ userConn' = [userConn EXCEPT ![c].status = "cleaning"]
    /\ UNCHANGED <<agreed, degraded, sessions, timerVars, blocked,
                   elsewhere, degrades>>
    /\ NoRequest

(* The request is made in no transaction, unlike all others.               *)
CleanupSession(c) ==
    LET own == {s \in DOMAIN sessions : sessions[s] = c}
    IN  /\ ~blocked
        /\ userConn[c].status = "cleaning"
        /\ sessions' = Without(sessions, own)
        /\ IF own = {} THEN NoRequest
           ELSE MakeRequest(DetachRequest(Me, userConn[c].session))
        /\ userConn' = [userConn EXCEPT ![c] = NoUserConn]
        /\ UNCHANGED <<agreed, degraded, connections, waiting, timerVars,
                       blocked, elsewhere, degrades>>

-----------------------------------------------------------------------------
(* An instruction is applied: what the callbacks handleDeleting, for each  *)
(* entity that goes, and then handleApplied do.                            *)

(* The session that a connection in wait gets from its request: none, if   *)
(* the user is gone or another has the name.                               *)
SessionMade(st, changes) ==
    {s \in {c.target : c \in {c \in changes :
                c.op = "set" /\ c.key = Kind /\ c.value = "session"}} :
        /\ s \in OfKind(st, "session")
        /\ \E u \in AllAttachedTo(st, s) : u \notin Nameless(st)}

(* Sessions that changes attach this node to, or with NoValue, detach.     *)
OurAttaches(changes, value) ==
    {c.target : c \in {c \in changes :
        c.op = "set" /\ c.key = Attach(Me) /\ c.value = value}}

UsersMade(changes) ==
    {c.target : c \in {c \in changes :
        c.op = "set" /\ c.key = Kind /\ c.value = "user"}}

\* Mutant of AfterDeleting: follows of the user go on.
AfterDeletingFollowed(users, deleted) ==
    Closed(userConn,
           SessionConns(deleted \cup UNION {AllAttached(agreed, u) : u \in users}))

(* handleDeleting: a deleted session's connection, and those of a deleted  *)
(* user's sessions, are closed, and nobody follows the user any longer.    *)
AfterDeleting(users, deleted) ==
    LET attached == UNION {AllAttached(agreed, u) : u \in users}
        closed == Closed(userConn, SessionConns(deleted \cup attached))
    IN  [c \in Conn |->
            IF c \in connections
            THEN [closed[c] EXCEPT !.following = @ \ users] ELSE closed[c]]

(* handleAuthComplete, of those that wait for a request.                   *)
Authenticated(conns, waiters, new) ==
    [c \in Conn |->
        IF c \in waiters
        THEN [conns[c] EXCEPT !.waitingAuth = 0,
                 !.session = IF new = {} THEN @
                             ELSE CHOOSE s \in new : TRUE]
        ELSE conns[c]]

Apply(result, ids) ==
    LET after == result.state
        done == ToSet(result.changes)
        gone == DOMAIN agreed.entities \ DOMAIN after.entities
        goneUsers == gone \cap OfKind(agreed, "user")
        waiters == {waiting[r] : r \in DOMAIN waiting \cap ids}
        new == IF waiters = {} THEN {} ELSE SessionMade(after, done)
        nowSessions == Put(Without(sessions, gone), new,
                           CHOOSE c \in waiters : TRUE)
        detached == OurAttaches(done, NoValue)
    IN  /\ goneUsers # {} => ~ConnectionsLocked
        /\ userConn' = Closed(
               Authenticated(AfterDeleting(goneUsers, gone), waiters, new),
               {nowSessions[s] : s \in DOMAIN nowSessions \cap detached})
        /\ sessions' = nowSessions
        /\ waiting' = Without(waiting, ids)
        /\ orphanAttachTimeouts' =
               Started(Without(orphanAttachTimeouts, gone \cup detached),
                       OurAttaches(done, True) \ DOMAIN nowSessions)
        /\ namelessRemoveTimeouts' =
               Started(Without(namelessRemoveTimeouts, gone),
                       UsersMade(done) \cap Nameless(after))

(* A request is chosen; a degraded node gets to know with its next burst.  *)
Choose(changes, ids) ==
    /\ ~blocked
    /\ \E result \in {applyChanges(agreed, changes, FALSE)} :
          /\ result.complete              \* bound: MaxChanges
          /\ agreed' = result.state
          /\ IF degraded
             THEN UNCHANGED <<userConn, sessions, waiting, timerVars>>
             ELSE Apply(result, ids)
    /\ UNCHANGED <<degraded, connections, blocked, made, degrades>>

ChooseOurs(r) ==
    /\ r \in requested
    /\ requested' = requested \ {r}
    /\ Choose(r.changes, {r.id})
    /\ UNCHANGED elsewhere

(* What the listener of another node requests: to register a user, to make *)
(* a session, attach to it or detach from it, to remove a nameless user.   *)
ElsewhereRequests(n) ==
    LET inSessions == OfKind(agreed, "session")
    IN  {makeNewUserRequest(n, name) : name \in Names \ Guests}
        \cup {makeNewSessionRequest(n, u) :
                 u \in {u \in OfKind(agreed, "user") : Value(agreed, u, Name) \in Names}}
        \cup {AttachRequest(n, s) : s \in inSessions}
        \cup {DetachRequest(n, s) : s \in inSessions \cap AllAttachedTo(agreed, n)}
        \cup {DeleteRequest(u) : u \in Nameless(agreed)}

ChooseElsewhere ==
    /\ elsewhere < MaxElsewhere /\ made + elsewhere < MaxRequests
    /\ elsewhere' = elsewhere + 1
    /\ \E n \in Others : \E changes \in ElsewhereRequests(n) : Choose(changes, {})
    /\ UNCHANGED requested

-----------------------------------------------------------------------------
\* Mutant of Degrade: those who wait to be authenticated are not dropped.
DegradeSessions ==
    /\ ~blocked /\ ~degraded /\ ~ConnectionsLocked
    /\ degrades < MaxDegrades
    /\ degrades' = degrades + 1
    /\ degraded' = TRUE
    /\ userConn' = Closed(userConn, SessionConns(DOMAIN sessions))
    /\ connections' = connections \ SessionConns(DOMAIN sessions)
    /\ sessions' = <<>> /\ waiting' = <<>>
    /\ UNCHANGED <<agreed, timerVars, blocked, elsewhere>>
    /\ NoRequest

(* handleDegraded.  The node loses its state and drops everybody; when it  *)
(* has it again, it looks for sessions and users that nobody minds.        *)
Degrade ==
    /\ ~blocked /\ ~degraded /\ ~ConnectionsLocked
    /\ degrades < MaxDegrades
    /\ degrades' = degrades + 1
    /\ degraded' = TRUE
    /\ userConn' = Closed(userConn, connections)
    /\ connections' = {} /\ sessions' = <<>> /\ waiting' = <<>>
    /\ UNCHANGED <<agreed, timerVars, blocked, elsewhere>>
    /\ NoRequest

Orphans(st) == AllAttachedTo(st, Me) \ DOMAIN sessions

Undegrade ==
    /\ ~blocked /\ degraded
    /\ degraded' = FALSE
    /\ orphanAttachTimeouts' = Started(orphanAttachTimeouts, Orphans(agreed))
    /\ namelessRemoveTimeouts' =
           Started(namelessRemoveTimeouts, Nameless(agreed))
    /\ UNCHANGED <<agreed, listenerVars, blocked, elsewhere, degrades>>
    /\ NoRequest

(* orphanTimeout looks in the map of nameless users whether it was removed.*)
OrphanTimeout(s) ==
    /\ ~blocked
    /\ s \in DOMAIN orphanAttachTimeouts
    /\ orphanAttachTimeouts[s] = "running"
    /\ orphanAttachTimeouts' = [orphanAttachTimeouts EXCEPT ![s] = "fired"]
    /\ IF s \in DOMAIN namelessRemoveTimeouts /\ Exists(State, s)
       THEN MakeRequest(DetachRequest(Me, s)) ELSE NoRequest
    /\ UNCHANGED <<agreed, degraded, listenerVars, namelessRemoveTimeouts,
                   blocked, elsewhere, degrades>>

NamelessTimeout(u) ==
    /\ ~blocked
    /\ u \in DOMAIN namelessRemoveTimeouts
    /\ namelessRemoveTimeouts[u] = "running"
    /\ namelessRemoveTimeouts' =
           [namelessRemoveTimeouts EXCEPT ![u] = "fired"]
    /\ IF Exists(State, u) THEN MakeRequest(DeleteRequest(u)) ELSE NoRequest
    /\ UNCHANGED <<agreed, degraded, listenerVars, orphanAttachTimeouts,
                   blocked, elsewhere, degrades>>

-----------------------------------------------------------------------------
Init ==
    /\ agreed = EmptyState /\ degraded = FALSE /\ requested = {}
    /\ connections = {} /\ userConn = [c \in Conn |-> NoUserConn]
    /\ sessions = <<>> /\ waiting = <<>>
    /\ orphanAttachTimeouts = <<>> /\ namelessRemoveTimeouts = <<>>
    /\ blocked = FALSE
    /\ made = 0 /\ elsewhere = 0 /\ degrades = 0

Entities == FirstEntity .. agreed.next - 1

Next ==
    \/ \E c \in Conn :
          \/ IncomingConn(c) \/ Disconnect(c) \/ HandleAuth(c) \/ Received(c)
          \/ CleanupWaiting(c) \/ CleanupSession(c)
          \/ \E u \in Entities, follows \in BOOLEAN :
                HandleFollow(c, u, follows)
          \/ \E s \in Entities : HandleSend(c, s)
    \/ \E s \in Entities : HandleForward(s)
    \/ \E r \in requested : ChooseOurs(r)
    \/ ChooseElsewhere
    \/ Degrade \/ Undegrade
    \/ \E e \in Entities : OrphanTimeout(e) \/ NamelessTimeout(e)

(* Requests are chosen in the end.                                         *)
Spec == Init /\ [][Next]_vars /\ WF_vars(\E r \in requested : ChooseOurs(r))

-----------------------------------------------------------------------------
(* The sessions map and the connections agree whatever the order in which  *)
(* users come back, instructions are applied and connections cleaned up: a *)
(* session is its connection's own, a live connection with a session has   *)
(* not been displaced from the map, and messages wait only at the session  *)
(* that they are for (handle.go:253-274, events.go:276-285, deliver.go:25).*)
SessionOwned ==
    /\ \A s \in DOMAIN sessions :
          /\ userConn[sessions[s]].status # "none"
          /\ userConn[sessions[s]].session = s
    /\ \A c \in Conn :
          /\ Live(c) /\ userConn[c].session # 0 =>
                /\ userConn[c].session \in DOMAIN sessions
                /\ sessions[userConn[c].session] = c
          /\ ToSet(userConn[c].deliver) \subseteq {userConn[c].session}

(* What a live connection relies on is there: its session and the users it *)
(* follows exist, although any node may delete them or the node lose and   *)
(* regain all its state (events.go:161-231).                               *)
ConnectedToExisting ==
    \A c \in Conn :
        Live(c) =>
            /\ userConn[c].session \in {0} \cup OfKind(State, "session")
            /\ userConn[c].following \subseteq OfKind(State, "user")

(* Whoever waits for a request to complete their authentication will be    *)
(* answered: the request is still to be chosen, and its ID leads to them,  *)
(* although connections are dropped and cleaned up, and the node may get   *)
(* to know of chosen requests by a burst (handle.go:284-287, events.go:26).*)
WaitersAnswered ==
    \A c \in Conn :
        Live(c) /\ userConn[c].waitingAuth # 0 =>
            \E r \in requested :
                /\ r.id = userConn[c].waitingAuth
                /\ r.id \in DOMAIN waiting /\ waiting[r.id] = c

(* Names of users stay unique although registrations race: every node      *)
(* looks for the name before it makes its request, but the request is      *)
(* applied later (instructions.go:551-601).                                *)
NamesUnique ==
    \A name \in Names \ {NoValue} :
        Cardinality(Named(agreed, "user", name)) <= 1

(* What is sent to a node in a burst does there what the request did here: *)
(* applied as idempotent to the same state, it gives the same state, with  *)
(* new IDs, deletions and dropped names settled (instructions.go:358-360). *)
IdempotentForm ==
    \A r \in requested :
        LET result == applyChanges(agreed, r.changes, FALSE)
        IN  applyChanges(agreed, result.changes, TRUE).state = result.state

(* A connection in the map shows that this node is attached to its session*)
(* (handle.go:255-256), or will be by a request on its way: a detach that  *)
(* was requested for an earlier connection must not come in between.       *)
ConnectedIsAttached ==
    \A c \in Conn :
        Live(c) /\ userConn[c].session # 0 =>
            \/ userConn[c].session \in AllAttachedTo(State, Me)
            \/ \E r \in requested :
                  r.changes = AttachRequest(Me, userConn[c].session)

(* A goroutine does not wait for a lock that it holds, as the order that   *)
(* main.go:43-46 imposes on the locks is to avoid.                         *)
NeverBlocked == ~blocked

(* A session attached to this node without a connection has a timer that   *)
(* still runs, or its detach is requested, which is what the timer is for  *)
(* (checks.go:24-25, 82).                                                  *)
OrphansWatched ==
    ~degraded =>
        \A s \in Orphans(agreed) :
            \/ s \in DOMAIN orphanAttachTimeouts /\ orphanAttachTimeouts[s] = "running"
            \/ \E r \in requested : r.changes = DetachRequest(Me, s)

(* A user without a name has a timer that still runs, or its removal is    *)
(* requested, although the node may have lost its state when a timer fired *)
(* (checks.go:37-38, 106).                                                 *)
NamelessWatched ==
    ~degraded =>
        \A u \in Nameless(agreed) :
            \/ u \in DOMAIN namelessRemoveTimeouts /\ namelessRemoveTimeouts[u] = "running"
            \/ \E r \in requested : r.changes = DeleteRequest(u)
=============================================================================
