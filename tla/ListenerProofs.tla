---------------------------- MODULE ListenerProofs ----------------------------
(***************************************************************************)
(* The invariants of a client node's listener, for any number of other     *)
(* nodes, connections, names and requests.  The steps of its connections   *)
(* and timers come first, then what the callbacks of an applied            *)
(* instruction do, which rests on what ChangesProofs says of applyChanges. *)
(***************************************************************************)
EXTENDS Listener, ChangesProofs

(* The types: what requests make of the state is consistent, and requests  *)
(* still to be chosen are such as can be made in it.                       *)
ConnStates ==
    [status : {"none", "open", "closed", "cleaning"}, session : Nat,
     waitingAuth : Nat, following : SUBSET Nat, deliver : Seq(Nat)]

TypeOK ==
    /\ Consistent(agreed)
    /\ made \in Nat
    /\ requested \subseteq [id : 1 .. made, changes : Requests(agreed)]
    /\ connections \subseteq Conn
    /\ userConn \in [Conn -> ConnStates]
    /\ DOMAIN sessions \subseteq Ids(agreed)
    /\ sessions \in [DOMAIN sessions -> Conn]
    /\ DOMAIN waiting \subseteq 1 .. made
    /\ waiting \in [DOMAIN waiting -> Conn]

(* What the maps and the connections have to do with each other besides:   *)
(* a connection waits for a request before it has a session, never both,   *)
(* a degraded node has no session and no live connection, and who is in    *)
(* the waiting map is not cleaned up yet.                                  *)
Linked ==
    /\ \A c \in Conn :
          /\ userConn[c].status = "none" => userConn[c] = NoUserConn
          /\ Live(c) => c \in connections
          /\ userConn[c].waitingAuth # 0 => userConn[c].session = 0
          /\ userConn[c].session = 0 => userConn[c].deliver = <<>>
    /\ degraded => (\A c \in Conn : ~Live(c)) /\ DOMAIN sessions = {}
    /\ \A r \in DOMAIN waiting :
          /\ userConn[waiting[r]].status \in {"open", "closed"}
          /\ userConn[waiting[r]].waitingAuth = r

(* The invariants do not hold by themselves after each step: that a new    *)
(* session or a session attached to is not another connection's already    *)
(* takes TypeOK, and that only one connection changes takes Linked.        *)
IInv ==
    /\ TypeOK /\ Linked /\ SessionOwned /\ ConnectedToExisting
    /\ WaitersAnswered

-----------------------------------------------------------------------------
LEMMA OurNodes == Me \in NodeIDs /\ Others \subseteq NodeIDs
<1>1. Me \in ClientIDs /\ Others \subseteq ClientIDs
  BY ListenerAssumption
<1>2. ClientIDs \subseteq NodeIDs
  BY DEF ClientIDs, NodeIDs, Temp, FirstEntity
<1> QED
  BY <1>1, <1>2

LEMMA IdsFacts ==
    ASSUME NEW st, Consistent(st)
    PROVE  /\ Ids(st) \subseteq Nat \ {0}
           /\ \A e : Exists(st, e) => e \in Ids(st)
           /\ \A e, k : Value(st, e, k) # NoValue => e \in Ids(st)
<1>1. st.next \in Nat
  BY StateFacts DEF Consistent
<1> QED
  BY <1>1 DEF Consistent, Ids, Exists, Value, FirstEntity

(* What State is when the node is degraded.                                *)
LEMMA EmptyFacts ==
    /\ \A e : ~Exists(EmptyState, e)
    /\ \A kind : OfKind(EmptyState, kind) = {}
<1>1. DOMAIN EmptyState.entities = {}
  BY DEF EmptyState
<1> QED
  BY <1>1 DEF Exists, OfKind

LEMMA KindsExist ==
    ASSUME NEW st, Consistent(st)
    PROVE  \A kind \in {"user", "session"} : \A e :
              e \in OfKind(st, kind) <=> Value(st, e, Kind) = kind
BY OfKindValue, Strings

LEMMA ClosedFacts ==
    ASSUME NEW conns \in [Conn -> ConnStates], NEW C
    PROVE  /\ Closed(conns, C) \in [Conn -> ConnStates]
           /\ \A c \in Conn :
                 /\ Closed(conns, C)[c].status =
                       IF c \in C /\ conns[c].status = "open" THEN "closed"
                       ELSE conns[c].status
                 /\ Closed(conns, C)[c].session = conns[c].session
                 /\ Closed(conns, C)[c].waitingAuth = conns[c].waitingAuth
                 /\ Closed(conns, C)[c].following = conns[c].following
                 /\ Closed(conns, C)[c].deliver = conns[c].deliver
                 /\ conns[c].status # "open" => Closed(conns, C)[c] = conns[c]
BY DEF Closed, ConnStates

(* What a step leaves alone.                                               *)
LEMMA WaitersKept ==
    ASSUME WaitersAnswered, requested \subseteq requested',
           \A c \in Conn : Live(c)' /\ userConn'[c].waitingAuth # 0 =>
              /\ Live(c) /\ userConn[c].waitingAuth = userConn'[c].waitingAuth
              /\ \A r \in DOMAIN waiting : waiting[r] = c =>
                    r \in DOMAIN waiting' /\ waiting'[r] = c
    PROVE  WaitersAnswered'
BY DEF WaitersAnswered

LEMMA ExistingKept ==
    ASSUME ConnectedToExisting, agreed' = agreed, degraded' = degraded,
           \A c \in Conn : Live(c)' =>
              /\ Live(c)
              /\ userConn'[c].session = userConn[c].session
              /\ userConn'[c].following \subseteq userConn[c].following
    PROVE  ConnectedToExisting'
BY DEF ConnectedToExisting, State

(* Connections are closed, and nothing else happens.                       *)
LEMMA Closing ==
    ASSUME IInv, NEW C, userConn' = Closed(userConn, C),
           UNCHANGED <<agreed, degraded, requested, connections, sessions,
                       waiting, timerVars, made>>
    PROVE  IInv'
<1>1. TypeOK'
  BY ClosedFacts DEF IInv, TypeOK
<1>2. /\ userConn \in [Conn -> ConnStates]
      /\ \A c \in Conn :
           /\ userConn'[c].status =
                 IF c \in C /\ userConn[c].status = "open" THEN "closed"
                 ELSE userConn[c].status
           /\ userConn'[c].session = userConn[c].session
           /\ userConn'[c].waitingAuth = userConn[c].waitingAuth
           /\ userConn'[c].following = userConn[c].following
           /\ userConn'[c].deliver = userConn[c].deliver
           /\ userConn[c].status # "open" => userConn'[c] = userConn[c]
  BY ClosedFacts DEF IInv, TypeOK
<1>3. \A c \in Conn : Live(c)' => Live(c)
  BY <1>2 DEF Live
<1>4. Linked'
  <2>1. \A r \in DOMAIN waiting : waiting[r] \in Conn
    BY DEF IInv, TypeOK
  <2> QED
    BY <1>2, <1>3, <2>1 DEF IInv, Linked
<1>5. SessionOwned'
  <2>1. \A s \in DOMAIN sessions : sessions[s] \in Conn
    BY DEF IInv, TypeOK
  <2>2. SessionOwned
    BY DEF IInv
  <2>3. \A s \in DOMAIN sessions :
           /\ userConn'[sessions[s]].status # "none"
           /\ userConn'[sessions[s]].session = s
    BY <1>2, <2>1, <2>2 DEF SessionOwned
  <2>4. \A c \in Conn : ToSet(userConn'[c].deliver) \subseteq {userConn'[c].session}
    BY <1>2, <2>2 DEF SessionOwned
  <2>5. ASSUME NEW c \in Conn, Live(c)', userConn'[c].session # 0
        PROVE  /\ userConn'[c].session \in DOMAIN sessions
               /\ sessions[userConn'[c].session] = c
    BY <1>2, <1>3, <2>2, <2>5 DEF SessionOwned
  <2> QED
    BY <2>3, <2>4, <2>5 DEF SessionOwned
<1>6. ConnectedToExisting'
  BY <1>2, <1>3, ExistingKept DEF IInv
<1>8. WaitersAnswered'
  BY <1>2, <1>3, WaitersKept DEF IInv
<1> QED
  BY <1>1, <1>4, <1>5, <1>6, <1>8 DEF IInv

(* What a request adds.                                                    *)
LEMMA Requesting ==
    ASSUME TypeOK, agreed' = agreed, NEW ch \in Requests(agreed),
           MakeRequest(ch)
    PROVE  /\ made' \in Nat /\ made' = made + 1
           /\ requested \subseteq requested'
           /\ requested' \subseteq [id : 1 .. made', changes : Requests(agreed')]
           /\ [id |-> made + 1, changes |-> ch] \in requested'
           /\ 1 .. made \subseteq 1 .. made'
<1>1. made' = made + 1 /\ made \in Nat
  BY DEF MakeRequest, TypeOK
<1>2. requested' = requested \cup {[id |-> made + 1, changes |-> ch]}
  BY DEF MakeRequest
<1>3. 1 .. made \subseteq 1 .. made' /\ made + 1 \in 1 .. made'
  BY <1>1
<1>4. requested \subseteq [id : 1 .. made', changes : Requests(agreed')]
  BY <1>3 DEF TypeOK
<1> QED
  BY <1>1, <1>2, <1>3, <1>4

LEMMA OwnedKept ==
    ASSUME SessionOwned, sessions' = sessions,
           \A s \in DOMAIN sessions : sessions[s] \in Conn,
           \A d \in Conn :
              /\ userConn'[d].status = userConn[d].status
              /\ userConn'[d].session = userConn[d].session
              /\ \/ userConn'[d].deliver = userConn[d].deliver
                 \/ ToSet(userConn'[d].deliver) \subseteq {userConn[d].session}
    PROVE  SessionOwned'
<1>1. \A s \in DOMAIN sessions' :
          /\ userConn'[sessions'[s]].status # "none"
          /\ userConn'[sessions'[s]].session = s
  BY DEF SessionOwned
<1>2. ASSUME NEW d \in Conn
      PROVE  ToSet(userConn'[d].deliver) \subseteq {userConn'[d].session}
  BY DEF SessionOwned
<1>3. ASSUME NEW d \in Conn, userConn'[d].status = "open", userConn'[d].session # 0
      PROVE  /\ userConn'[d].session \in DOMAIN sessions'
             /\ sessions'[userConn'[d].session] = d
  BY <1>3 DEF SessionOwned, Live
<1> QED
  BY <1>1, <1>2, <1>3 DEF SessionOwned, Live

LEMMA IncomingConnStep ==
    ASSUME IInv, NEW c \in Conn, IncomingConn(c)
    PROVE  IInv'
<1>1. /\ userConn \in [Conn -> ConnStates] /\ userConn[c] = NoUserConn
      /\ userConn' = [userConn EXCEPT ![c].status = "open"]
      /\ connections' = connections \cup {c} /\ degraded = FALSE
      /\ UNCHANGED <<agreed, degraded, requested, sessions, waiting, timerVars, made>>
  BY DEF IInv, TypeOK, Linked, IncomingConn, NoRequest
<1>2. /\ userConn' \in [Conn -> ConnStates]
      /\ userConn'[c] = [NoUserConn EXCEPT !.status = "open"]
      /\ \A d \in Conn \ {c} : userConn'[d] = userConn[d]
  BY <1>1 DEF ConnStates
<1>3. /\ userConn'[c].status = "open" /\ userConn'[c].session = 0
      /\ userConn'[c].waitingAuth = 0 /\ userConn'[c].following = {}
      /\ userConn'[c].deliver = <<>>
  BY <1>2 DEF NoUserConn
<1>4. TypeOK'
  BY <1>1, <1>2 DEF IInv, TypeOK
<1>5. (\A s \in DOMAIN sessions : sessions[s] \in Conn \ {c})
      /\ (\A r \in DOMAIN waiting : waiting[r] \in Conn \ {c})
  <2>1. userConn[c].status = "none"
    BY <1>1 DEF NoUserConn
  <2> QED
    BY <2>1 DEF IInv, TypeOK, Linked, SessionOwned
<1>6. Linked'
  BY <1>1, <1>2, <1>3, <1>5 DEF IInv, Linked, Live
<1>7. SessionOwned'
  <2>1. ToSet(<<>>) = {}
    BY DEF ToSet
  <2>2. \A s \in DOMAIN sessions' : /\ userConn'[sessions'[s]].status # "none"
                                    /\ userConn'[sessions'[s]].session = s
    BY <1>1, <1>2, <1>5 DEF IInv, SessionOwned
  <2>3. \A d \in Conn \ {c} :
           /\ Live(d)' /\ userConn'[d].session # 0 =>
                 /\ userConn'[d].session \in DOMAIN sessions'
                 /\ sessions'[userConn'[d].session] = d
           /\ ToSet(userConn'[d].deliver) \subseteq {userConn'[d].session}
    BY <1>1, <1>2 DEF IInv, SessionOwned, Live
  <2> QED
    BY <1>3, <2>1, <2>2, <2>3 DEF SessionOwned
<1>8. ConnectedToExisting'
  BY <1>1, <1>2, <1>3 DEF IInv, ConnectedToExisting, Live, State
<1>10. WaitersAnswered'
  BY <1>1, <1>2, <1>3 DEF IInv, WaitersAnswered, Live
<1> QED
  BY <1>4, <1>6, <1>7, <1>8, <1>10 DEF IInv

LEMMA DisconnectStep ==
    ASSUME IInv, NEW c \in Conn, Disconnect(c)
    PROVE  IInv'
BY Closing DEF Disconnect, NoRequest

(* Only the users that a connection follows change.                        *)
LEMMA HandleFollowStep ==
    ASSUME IInv, NEW c \in Conn, NEW user \in Entities, NEW follows \in BOOLEAN,
           HandleFollow(c, user, follows)
    PROVE  IInv'
<1>1. CASE userConn[c].session = 0
  BY <1>1, Closing DEF HandleFollow, NoRequest
<1>2. CASE userConn[c].session # 0
  <2> DEFINE f == IF follows THEN userConn[c].following \cup {user}
                  ELSE userConn[c].following \ {user}
  <2>1. /\ userConn \in [Conn -> ConnStates]
        /\ userConn' = [userConn EXCEPT ![c].following = f]
        /\ user \in OfKind(State, "user") \/ ~follows
        /\ UNCHANGED <<agreed, degraded, requested, connections, sessions,
                       waiting, timerVars, made>>
        /\ userConn[c].status \in {"open", "closed"}
    BY <1>2 DEF HandleFollow, IInv, TypeOK, NoRequest, Handling
  <2>2. user \in Nat /\ f \in SUBSET Nat
    <3>1. agreed.next \in Nat
      BY StateFacts DEF IInv, TypeOK, Consistent
    <3>2. user \in Nat
      BY <3>1 DEF Entities, FirstEntity
    <3> QED
      BY <2>1, <3>2 DEF ConnStates
  <2>3. f \subseteq userConn[c].following \cup OfKind(State, "user")
    BY <2>1
  <2> HIDE DEF f
  <2>4. /\ userConn' \in [Conn -> ConnStates]
        /\ \A d \in Conn \ {c} : userConn'[d] = userConn[d]
        /\ userConn'[c].status = userConn[c].status
        /\ userConn'[c].session = userConn[c].session
        /\ userConn'[c].waitingAuth = userConn[c].waitingAuth
        /\ userConn'[c].deliver = userConn[c].deliver
        /\ userConn'[c].following = f
    BY <2>1, <2>2 DEF ConnStates
  <2>5. TypeOK'
    BY <2>1, <2>4 DEF IInv, TypeOK
  <2>6. /\ \A s \in DOMAIN sessions : sessions[s] \in Conn
        /\ \A r \in DOMAIN waiting : waiting[r] \in Conn
    BY DEF IInv, TypeOK
  <2>7. Linked'
    <3>1. userConn'[c].status # "none"
      BY <2>1, <2>4
    <3>2. \A d \in Conn : Live(d)' <=> Live(d)
      BY <2>4 DEF Live
    <3> QED
      BY <2>1, <2>4, <2>6, <3>1, <3>2 DEF IInv, Linked
  <2>8. SessionOwned'
    <3>1. ASSUME NEW d \in Conn
          PROVE  /\ userConn'[d].status = userConn[d].status
                 /\ userConn'[d].session = userConn[d].session
                 /\ userConn'[d].deliver = userConn[d].deliver
      BY <2>4
    <3> QED
      BY <2>1, <2>6, <3>1, OwnedKept DEF IInv
  <2>9. ConnectedToExisting'
    BY <2>1, <2>3, <2>4 DEF IInv, ConnectedToExisting, Live, State
  <2>11. WaitersAnswered'
    BY <2>1, <2>4 DEF IInv, WaitersAnswered, Live
  <2> QED
    BY <2>5, <2>7, <2>8, <2>9, <2>11 DEF IInv
<1> QED
  BY <1>1, <1>2

(* Only what waits to be delivered to a connection changes, and none but   *)
(* what is for its session is added.                                       *)
LEMMA Delivering ==
    ASSUME IInv, NEW c \in Conn, NEW messages \in Seq(Nat),
           userConn' = [userConn EXCEPT ![c].deliver = messages],
           ToSet(messages) \subseteq {userConn[c].session},
           userConn[c].session = 0 => messages = <<>>,
           userConn[c].status # "none",
           UNCHANGED <<agreed, degraded, requested, connections, sessions,
                       waiting, timerVars, made>>
    PROVE  IInv'
<1>1. userConn \in [Conn -> ConnStates]
  BY DEF IInv, TypeOK
<1>2. /\ userConn' \in [Conn -> ConnStates]
      /\ \A d \in Conn \ {c} : userConn'[d] = userConn[d]
      /\ userConn'[c].status = userConn[c].status
      /\ userConn'[c].session = userConn[c].session
      /\ userConn'[c].waitingAuth = userConn[c].waitingAuth
      /\ userConn'[c].deliver = messages
      /\ userConn'[c].following = userConn[c].following
  BY <1>1 DEF ConnStates
<1>3. TypeOK'
  BY <1>2 DEF IInv, TypeOK
<1>4. /\ \A s \in DOMAIN sessions : sessions[s] \in Conn
      /\ \A r \in DOMAIN waiting : waiting[r] \in Conn
      /\ \A d \in Conn : Live(d)' <=> Live(d)
  BY <1>2 DEF IInv, TypeOK, Live
<1>5. Linked'
  BY <1>2, <1>4 DEF IInv, Linked
<1>6. SessionOwned'
  <2>1. ASSUME NEW d \in Conn
        PROVE  /\ userConn'[d].status = userConn[d].status
               /\ userConn'[d].session = userConn[d].session
               /\ ToSet(userConn'[d].deliver) \subseteq {userConn[d].session}
    BY <1>2 DEF IInv, SessionOwned
  <2> QED
    BY <1>4, <2>1, OwnedKept DEF IInv
<1>7. ConnectedToExisting'
  BY <1>2, <1>4 DEF IInv, ConnectedToExisting, State
<1>9. WaitersAnswered'
  BY <1>2, <1>4 DEF IInv, WaitersAnswered
<1> QED
  BY <1>3, <1>5, <1>6, <1>7, <1>9 DEF IInv

LEMMA DeliverStep ==
    ASSUME IInv, NEW s \in Entities, userConn' = Deliver(s),
           UNCHANGED <<agreed, degraded, requested, connections, sessions,
                       waiting, timerVars, made>>
    PROVE  IInv'
<1>1. s \in Nat /\ s # 0
  <2>1. agreed.next \in Nat
    BY StateFacts DEF IInv, TypeOK, Consistent
  <2> QED
    BY <2>1 DEF Entities, FirstEntity
<1>2. CASE s \notin DOMAIN sessions
  <2>1. userConn' = userConn
    BY <1>2 DEF Deliver
  <2>2. Closed(userConn, {}) = userConn
    BY DEF Closed, IInv, TypeOK
  <2> QED
    BY <2>1, <2>2, Closing
<1>3. CASE s \in DOMAIN sessions
  <2>1. PICK c \in Conn : c = sessions[s]
    BY <1>3 DEF IInv, TypeOK
  <2>2. userConn[c].session = s /\ userConn[c].status # "none"
    BY <1>3, <2>1 DEF IInv, SessionOwned
  <2>3. PICK old \in Seq(Nat) : old = userConn[c].deliver
    BY DEF IInv, TypeOK, ConnStates
  <2> DEFINE new == IF Len(old) < DeliverCap THEN Append(old, s) ELSE old
  <2>4. userConn' = [userConn EXCEPT ![c].deliver = new]
    BY <1>3, <2>1, <2>3 DEF Deliver
  <2>5. ToSet(old) \subseteq {s}
    BY <2>2, <2>3 DEF IInv, SessionOwned
  <2>6. new \in Seq(Nat) /\ ToSet(new) \subseteq {s}
    <3>1. PICK a : a = Append(old, s)
      OBVIOUS
    <3>2. /\ a \in Seq(Nat) /\ Len(a) = Len(old) + 1 /\ Len(old) \in Nat
          /\ a[Len(old) + 1] = s
          /\ \A i \in 1 .. Len(old) : a[i] = old[i]
      BY <1>1, <3>1, AppendProperties, LenProperties
    <3>3. DOMAIN a = 1 .. Len(old) + 1 /\ DOMAIN old = 1 .. Len(old)
      BY <3>2, LenProperties
    <3>4. ASSUME NEW i \in DOMAIN a PROVE a[i] = s
      <4>1. CASE i = Len(old) + 1
        BY <3>2, <4>1
      <4>2. CASE i # Len(old) + 1
        <5>1. i \in DOMAIN old /\ a[i] = old[i]
          BY <3>2, <3>3, <4>2
        <5> QED
          BY <2>5, <5>1 DEF ToSet
      <4> QED
        BY <4>1, <4>2
    <3>5. ToSet(a) \subseteq {s}
      BY <3>4 DEF ToSet
    <3> QED
      BY <2>3, <2>5, <3>1, <3>2, <3>5
  <2> HIDE DEF new
  <2> QED
    BY <1>1, <2>2, <2>4, <2>6, Delivering
<1> QED
  BY <1>2, <1>3

LEMMA HandleSendStep ==
    ASSUME IInv, NEW c \in Conn, NEW s \in Entities, HandleSend(c, s)
    PROVE  IInv'
<1>1. CASE userConn[c].session = 0
  BY <1>1, Closing DEF HandleSend, NoRequest
<1>2. CASE userConn[c].session # 0
  BY <1>2, DeliverStep DEF HandleSend, NoRequest
<1> QED
  BY <1>1, <1>2

LEMMA HandleForwardStep ==
    ASSUME IInv, NEW s \in Entities, HandleForward(s)
    PROVE  IInv'
BY DeliverStep DEF HandleForward, NoRequest

LEMMA ReceivedStep ==
    ASSUME IInv, NEW c \in Conn, Received(c)
    PROVE  IInv'
<1>1. PICK old \in Seq(Nat) : old = userConn[c].deliver
  BY DEF IInv, TypeOK, ConnStates
<1>2. /\ old # <<>> /\ userConn' = [userConn EXCEPT ![c].deliver = Tail(old)]
      /\ userConn[c].status \in {"open", "closed"}
      /\ UNCHANGED <<agreed, degraded, requested, connections, sessions,
                     waiting, timerVars, made>>
  BY <1>1 DEF Received, NoRequest, Handling
<1>3. PICK t \in Seq(Nat) : t = Tail(old)
  BY <1>2, HeadTailProperties
<1>4. ToSet(t) \subseteq ToSet(old)
  <2>1. /\ Len(t) = Len(old) - 1 /\ Len(old) \in Nat
        /\ \A i \in 1 .. Len(t) : t[i] = old[i + 1]
        /\ DOMAIN t = 1 .. Len(t) /\ DOMAIN old = 1 .. Len(old)
    BY <1>2, <1>3, HeadTailProperties, LenProperties
  <2>2. \A i \in DOMAIN t : i + 1 \in DOMAIN old /\ t[i] = old[i + 1]
    BY <2>1
  <2> QED
    BY <2>2 DEF ToSet
<1>5. ToSet(old) \subseteq {userConn[c].session}
  BY <1>1 DEF IInv, SessionOwned
<1>6. userConn[c].session # 0
  BY <1>1, <1>2 DEF IInv, Linked
<1> QED
  BY <1>2, <1>3, <1>4, <1>5, <1>6, Delivering

LEMMA CleanupWaitingStep ==
    ASSUME IInv, NEW c \in Conn, CleanupWaiting(c)
    PROVE  IInv'
<1>1. /\ userConn \in [Conn -> ConnStates] /\ userConn[c].status = "closed"
      /\ userConn' = [userConn EXCEPT ![c].status = "cleaning"]
      /\ connections' = connections \ {c}
      /\ waiting' = Without(waiting, {r \in DOMAIN waiting : waiting[r] = c})
      /\ UNCHANGED <<agreed, degraded, requested, sessions, timerVars, made>>
  BY DEF IInv, TypeOK, CleanupWaiting, NoRequest
<1>2. /\ userConn' \in [Conn -> ConnStates]
      /\ \A d \in Conn \ {c} : userConn'[d] = userConn[d]
      /\ userConn'[c].status = "cleaning"
      /\ userConn'[c].session = userConn[c].session
      /\ userConn'[c].waitingAuth = userConn[c].waitingAuth
      /\ userConn'[c].deliver = userConn[c].deliver
      /\ userConn'[c].following = userConn[c].following
  BY <1>1 DEF ConnStates
<1>3. /\ DOMAIN waiting' = {r \in DOMAIN waiting : waiting[r] # c}
      /\ \A r \in DOMAIN waiting' : waiting'[r] = waiting[r]
      /\ waiting' \in [DOMAIN waiting' -> Conn]
  BY <1>1 DEF Without, IInv, TypeOK
<1>4. TypeOK'
  BY <1>1, <1>2, <1>3 DEF IInv, TypeOK
<1>5. /\ \A d \in Conn : Live(d)' <=> Live(d)
      /\ \A d \in Conn : Live(d) => d # c
  BY <1>1, <1>2 DEF Live
<1>6. Linked'
  <2>1. ASSUME NEW d \in Conn
        PROVE  /\ userConn'[d].status = "none" => userConn'[d] = NoUserConn
               /\ Live(d)' => d \in connections'
               /\ userConn'[d].waitingAuth # 0 => userConn'[d].session = 0
               /\ userConn'[d].session = 0 => userConn'[d].deliver = <<>>
    <3>1. CASE d = c
      BY <1>2, <1>5, <3>1 DEF IInv, Linked
    <3>2. CASE d # c
      BY <1>1, <1>2, <1>5, <3>2 DEF IInv, Linked
    <3> QED
      BY <3>1, <3>2
  <2>2. degraded' => (\A d \in Conn : ~Live(d)') /\ DOMAIN sessions' = {}
    BY <1>1, <1>5 DEF IInv, Linked
  <2>3. ASSUME NEW r \in DOMAIN waiting'
        PROVE  /\ userConn'[waiting'[r]].status \in {"open", "closed"}
               /\ userConn'[waiting'[r]].waitingAuth = r
    <3>1. /\ r \in DOMAIN waiting /\ waiting'[r] = waiting[r]
          /\ waiting[r] \in Conn \ {c}
      BY <1>3, <2>3 DEF IInv, TypeOK
    <3>2. userConn'[waiting'[r]] = userConn[waiting[r]]
      BY <1>2, <3>1
    <3> QED
      BY <3>1, <3>2 DEF IInv, Linked
  <2> QED
    BY <2>1, <2>2, <2>3 DEF Linked
<1>7. SessionOwned'
  <2>1. \A s \in DOMAIN sessions' :
            /\ userConn'[sessions'[s]].status # "none"
            /\ userConn'[sessions'[s]].session = s
    BY <1>1, <1>2 DEF IInv, TypeOK, SessionOwned
  <2>2. ASSUME NEW d \in Conn
        PROVE  ToSet(userConn'[d].deliver) \subseteq {userConn'[d].session}
    BY <1>2 DEF IInv, SessionOwned
  <2>3. ASSUME NEW d \in Conn, Live(d)', userConn'[d].session # 0
        PROVE  /\ userConn'[d].session \in DOMAIN sessions'
               /\ sessions'[userConn'[d].session] = d
    BY <1>1, <1>2, <1>5, <2>3 DEF IInv, SessionOwned
  <2> QED
    BY <2>1, <2>2, <2>3 DEF SessionOwned
<1>8. ConnectedToExisting'
  BY <1>1, <1>2, <1>5 DEF IInv, ConnectedToExisting, State
<1>10. WaitersAnswered'
  BY <1>1, <1>2, <1>3, <1>5, WaitersKept DEF IInv
<1> QED
  BY <1>4, <1>6, <1>7, <1>8, <1>10 DEF IInv

(* A session that loses its connection here is detached by request.        *)
LEMMA CleanupSessionStep ==
    ASSUME IInv, NEW c \in Conn, CleanupSession(c)
    PROVE  IInv'
<1> DEFINE own == {s \in DOMAIN sessions : sessions[s] = c}
<1>1. /\ userConn \in [Conn -> ConnStates] /\ userConn[c].status = "cleaning"
      /\ userConn' = [userConn EXCEPT ![c] = NoUserConn]
      /\ sessions' = Without(sessions, own)
      /\ IF own = {} THEN NoRequest
           ELSE MakeRequest(DetachRequest(Me, userConn[c].session))
      /\ UNCHANGED <<agreed, degraded, connections, waiting, timerVars>>
  BY DEF IInv, TypeOK, CleanupSession
<1>2. own \subseteq {userConn[c].session}
  BY DEF IInv, SessionOwned
<1>3. /\ made' \in Nat /\ 1 .. made \subseteq 1 .. made'
      /\ requested \subseteq requested'
      /\ requested' \subseteq [id : 1 .. made', changes : Requests(agreed')]
      /\ \A s \in own : \E r \in requested' : r.changes = DetachRequest(Me, s)
  <2>1. CASE own = {}
    BY <1>1, <2>1 DEF NoRequest, IInv, TypeOK
  <2>2. CASE own # {}
    <3>1. userConn[c].session \in Ids(agreed)
      BY <1>2, <2>2 DEF IInv, TypeOK
    <3>2. PICK ch \in Requests(agreed) : ch = DetachRequest(Me, userConn[c].session)
      BY <3>1, OurNodes DEF Requests
    <3>3. /\ made' \in Nat /\ 1 .. made \subseteq 1 .. made'
          /\ requested \subseteq requested'
          /\ requested' \subseteq [id : 1 .. made', changes : Requests(agreed')]
          /\ [id |-> made + 1, changes |-> ch] \in requested'
      BY <1>1, <2>2, <3>2, Requesting DEF IInv
    <3> QED
      BY <1>2, <3>2, <3>3
  <2> QED
    BY <2>1, <2>2
<1>4. /\ DOMAIN sessions' = DOMAIN sessions \ own
      /\ \A s \in DOMAIN sessions' : sessions'[s] = sessions[s] /\ sessions[s] # c
      /\ sessions' \in [DOMAIN sessions' -> Conn]
  BY <1>1 DEF Without, IInv, TypeOK
<1>5. /\ userConn' \in [Conn -> ConnStates] /\ userConn'[c] = NoUserConn
      /\ \A d \in Conn \ {c} : userConn'[d] = userConn[d]
  <2>1. NoUserConn \in ConnStates
    <3>1. <<>> \in Seq(Nat)
      OBVIOUS
    <3> QED
      BY <3>1 DEF NoUserConn, ConnStates
  <2> QED
    BY <1>1, <2>1
<1>6. /\ NoUserConn.status = "none" /\ NoUserConn.session = 0
      /\ NoUserConn.waitingAuth = 0 /\ NoUserConn.deliver = <<>>
  BY DEF NoUserConn
<1> HIDE DEF own
<1>7. TypeOK'
  BY <1>1, <1>3, <1>4, <1>5 DEF IInv, TypeOK
<1>8. /\ \A d \in Conn : Live(d)' => Live(d) /\ d # c
      /\ \A r \in DOMAIN waiting : waiting[r] \in Conn \ {c}
  BY <1>1, <1>5, <1>6 DEF Live, IInv, TypeOK, Linked
<1>9. Linked'
  BY <1>1, <1>4, <1>5, <1>6, <1>8 DEF IInv, Linked
<1>10. SessionOwned'
  <2>1. \A s \in DOMAIN sessions' :
            /\ userConn'[sessions'[s]].status # "none"
            /\ userConn'[sessions'[s]].session = s
    BY <1>4, <1>5 DEF IInv, TypeOK, SessionOwned
  <2>2. ASSUME NEW d \in Conn
        PROVE  ToSet(userConn'[d].deliver) \subseteq {userConn'[d].session}
    <3>1. ToSet(<<>>) = {}
      BY DEF ToSet
    <3> QED
      BY <1>5, <1>6, <3>1 DEF IInv, SessionOwned
  <2>3. ASSUME NEW d \in Conn, Live(d)', userConn'[d].session # 0
        PROVE  /\ userConn'[d].session \in DOMAIN sessions'
               /\ sessions'[userConn'[d].session] = d
    <3>1. /\ userConn[d].session \in DOMAIN sessions
          /\ sessions[userConn[d].session] = d /\ d # c
          /\ userConn'[d] = userConn[d]
      BY <1>5, <1>8, <2>3 DEF IInv, SessionOwned
    <3> QED
      BY <1>4, <3>1 DEF own
  <2> QED
    BY <2>1, <2>2, <2>3 DEF SessionOwned
<1>11. ConnectedToExisting'
  BY <1>1, <1>5, <1>8 DEF IInv, ConnectedToExisting, State
<1>13. WaitersAnswered'
  BY <1>1, <1>3, <1>5, <1>8, WaitersKept DEF IInv
<1> QED
  BY <1>7, <1>9, <1>10, <1>11, <1>13 DEF IInv

LEMMA DegradeStep ==
    ASSUME IInv, Degrade
    PROVE  IInv'
<1>1. /\ userConn \in [Conn -> ConnStates]
      /\ userConn' = Closed(userConn, connections) /\ degraded' = TRUE
      /\ connections' = {} /\ sessions' = <<>> /\ waiting' = <<>>
      /\ UNCHANGED <<agreed, requested, timerVars, made>>
  BY DEF IInv, TypeOK, Degrade, NoRequest
<1>2. DOMAIN sessions' = {} /\ DOMAIN waiting' = {}
      /\ sessions' \in [{} -> Conn] /\ waiting' \in [{} -> Conn]
  BY <1>1
<1>3. TypeOK'
  BY <1>1, <1>2, ClosedFacts DEF IInv, TypeOK
<1>4. \A c \in Conn :
         /\ ~Live(c)'
         /\ userConn'[c].session = userConn[c].session
         /\ userConn'[c].waitingAuth = userConn[c].waitingAuth
         /\ userConn'[c].deliver = userConn[c].deliver
         /\ userConn'[c].status = "none" => userConn'[c] = userConn[c]
  BY <1>1, ClosedFacts DEF IInv, Linked, Live
<1>5. Linked'
  BY <1>1, <1>2, <1>4 DEF IInv, Linked
<1>6. SessionOwned'
  BY <1>2, <1>4 DEF IInv, SessionOwned
<1>7. ConnectedToExisting' /\ WaitersAnswered'
  BY <1>1, <1>4 DEF ConnectedToExisting, WaitersAnswered
<1> QED
  BY <1>3, <1>5, <1>6, <1>7 DEF IInv

LEMMA PutFacts ==
    ASSUME NEW f, NEW K, NEW value
    PROVE  /\ DOMAIN Put(f, K, value) = DOMAIN f \cup K
           /\ \A x \in K : Put(f, K, value)[x] = value
           /\ \A x \in DOMAIN f \ K : Put(f, K, value)[x] = f[x]
           /\ Put(f, K, value) = [x \in DOMAIN f \cup K |-> Put(f, K, value)[x]]
BY DEF Put

LEMMA UndegradeStep ==
    ASSUME IInv, Undegrade
    PROVE  IInv'
<1>1. /\ degraded /\ degraded' = FALSE
      /\ UNCHANGED <<agreed, requested, connections, userConn, sessions, waiting, made>>
  BY DEF Undegrade, listenerVars, NoRequest
<1>2. TypeOK'
  BY <1>1 DEF IInv, TypeOK
<1>3. \A c \in Conn : ~Live(c) /\ ~Live(c)'
  BY <1>1 DEF IInv, Linked, Live
<1>4. Linked'
  BY <1>1, <1>3 DEF IInv, Linked
<1>5. SessionOwned'
  BY <1>1, <1>3 DEF IInv, SessionOwned
<1>6. ConnectedToExisting' /\ WaitersAnswered'
  BY <1>3 DEF ConnectedToExisting, WaitersAnswered
<1> QED
  BY <1>2, <1>4, <1>5, <1>6 DEF IInv

(* A request is made, or not, and a timer runs out, or not.                *)
LEMMA Expiring ==
    ASSUME IInv, NEW ch \in Requests(agreed), MakeRequest(ch) \/ NoRequest,
           UNCHANGED <<agreed, degraded, connections, userConn, sessions, waiting>>
    PROVE  IInv'
<1>1. /\ made' \in Nat /\ 1 .. made \subseteq 1 .. made'
      /\ requested \subseteq requested'
      /\ requested' \subseteq [id : 1 .. made', changes : Requests(agreed')]
  <2>1. CASE NoRequest
    BY <2>1 DEF NoRequest, IInv, TypeOK
  <2>2. CASE MakeRequest(ch)
    BY <2>2, Requesting DEF IInv
  <2> QED
    BY <2>1, <2>2
<1>2. TypeOK'
  BY <1>1 DEF IInv, TypeOK
<1>3. \A c \in Conn : Live(c)' <=> Live(c)
  BY DEF Live
<1>4. Linked' /\ SessionOwned' /\ ConnectedToExisting'
  BY <1>3 DEF IInv, Linked, SessionOwned, ConnectedToExisting, State
<1>6. WaitersAnswered'
  BY <1>1, <1>3, WaitersKept DEF IInv
<1> QED
  BY <1>2, <1>4, <1>6 DEF IInv

LEMMA EntitiesIds == Entities = Ids(agreed)
BY DEF Entities, Ids

LEMMA OrphanTimeoutStep ==
    ASSUME IInv, NEW e \in Entities, OrphanTimeout(e)
    PROVE  IInv'
<1>1. PICK ch \in Requests(agreed) : ch = DetachRequest(Me, e)
  BY EntitiesIds, OurNodes DEF Requests
<1>2. /\ MakeRequest(ch) \/ NoRequest
      /\ orphanAttachTimeouts' = [orphanAttachTimeouts EXCEPT ![e] = "fired"]
      /\ UNCHANGED <<agreed, degraded, connections, userConn, sessions, waiting,
                     namelessRemoveTimeouts>>
  BY <1>1 DEF OrphanTimeout, listenerVars
<1> QED
  BY <1>2, Expiring

LEMMA NamelessTimeoutStep ==
    ASSUME IInv, NEW e \in Entities, NamelessTimeout(e)
    PROVE  IInv'
<1>1. PICK ch \in Requests(agreed) : ch = DeleteRequest(e)
  BY EntitiesIds DEF Requests
<1>2. /\ MakeRequest(ch) \/ NoRequest
      /\ namelessRemoveTimeouts' = [namelessRemoveTimeouts EXCEPT ![e] = "fired"]
      /\ UNCHANGED <<agreed, degraded, connections, userConn, sessions, waiting,
                     orphanAttachTimeouts>>
  BY <1>1 DEF NamelessTimeout, listenerVars
<1> QED
  BY <1>2, Expiring

(* A session that a user may attach to exists, and the node has its state. *)
LEMMA Attachable ==
    ASSUME IInv, NEW name, NEW user \in Named(State, "user", name),
           NEW s \in AllAttached(State, user)
    PROVE  /\ ~degraded /\ State = agreed /\ s # 0 /\ s \in Nat
           /\ s \in OfKind(agreed, "session") /\ s \in Sessions(agreed)
           /\ s \in Ids(agreed)
<1>1. user \in OfKind(State, "user")
  BY DEF Named
<1>2. ~degraded /\ State = agreed
  BY <1>1, EmptyFacts DEF State
<1>3. Consistent(agreed) /\ agreed \in States
  BY DEF IInv, TypeOK, Consistent
<1>4. Value(agreed, user, Kind) = "user"
  BY <1>1, <1>2, <1>3, KindsExist
<1>5. Exists(agreed, user)
  BY <1>4, Strings DEF Value
<1>6. Value(agreed, user, Attach(s)) # NoValue
  BY <1>2, <1>3, <1>5, AttachedValue
<1>7. Value(agreed, s, Kind) = "session"
  BY <1>3, <1>4, <1>6 DEF Consistent, SessionsAttached
<1>8. s \in OfKind(agreed, "session")
  BY <1>3, <1>7, KindsExist
<1>9. s \in Ids(agreed) /\ s \in Nat /\ s # 0
  BY <1>3, <1>7, IdsFacts, Strings
<1> QED
  BY <1>2, <1>7, <1>8, <1>9 DEF Sessions

LEMMA AttachSessionStep ==
    ASSUME IInv, NEW c \in Conn, Handling(c), Unauthenticated(c), NEW name,
           NEW user \in Named(State, "user", name),
           NEW s \in AllAttached(State, user), AttachSession(c, user, s),
           UNCHANGED <<agreed, degraded, connections, timerVars>>
    PROVE  IInv'
<1>1. /\ ~degraded /\ State = agreed /\ s # 0 /\ s \in Nat
      /\ s \in OfKind(agreed, "session") /\ s \in Sessions(agreed)
      /\ s \in Ids(agreed)
  BY Attachable
<1>2. /\ made' \in Nat /\ 1 .. made \subseteq 1 .. made'
      /\ requested \subseteq requested'
      /\ requested' \subseteq [id : 1 .. made', changes : Requests(agreed')]
  <2>1. CASE NoRequest
    BY <2>1 DEF NoRequest, IInv, TypeOK
  <2>2. CASE MakeRequest(AttachRequest(Me, s))
    <3>1. PICK ch \in Requests(agreed) : ch = AttachRequest(Me, s)
      BY <1>1, OurNodes DEF Requests
    <3> QED
      BY <2>2, <3>1, Requesting DEF IInv
  <2> QED
    BY <2>1, <2>2 DEF AttachSession
<1>3. /\ userConn \in [Conn -> ConnStates]
      /\ userConn[c].session = 0 /\ userConn[c].waitingAuth = 0
      /\ userConn[c].status \in {"open", "closed"}
      /\ userConn[c].deliver = <<>>
  BY DEF IInv, TypeOK, Linked, Handling, Unauthenticated
<1>4. /\ \A t \in DOMAIN sessions : sessions[t] \in Conn \ {c} /\ t # 0
      /\ \A r \in DOMAIN waiting : waiting[r] \in Conn \ {c}
  <2>1. \A t \in DOMAIN sessions : sessions[t] \in Conn /\ t # 0
    BY IdsFacts DEF IInv, TypeOK
  <2>2. \A r \in DOMAIN waiting : waiting[r] \in Conn /\ r # 0
    BY DEF IInv, TypeOK
  <2> QED
    BY <1>3, <2>1, <2>2 DEF IInv, SessionOwned, Linked
<1> DEFINE old == SessionConns({s})
<1>5. /\ c \notin old
      /\ \A d \in old : s \in DOMAIN sessions /\ d = sessions[s]
      /\ s \in DOMAIN sessions => sessions[s] \in old
  BY <1>4 DEF SessionConns
<1> HIDE DEF old
<1>6. PICK closed \in [Conn -> ConnStates] : closed = Closed(userConn, old)
  BY <1>3, ClosedFacts
<1>7. \A d \in Conn :
         /\ closed[d].status =
               IF d \in old /\ userConn[d].status = "open" THEN "closed"
               ELSE userConn[d].status
         /\ closed[d].session = userConn[d].session
         /\ closed[d].waitingAuth = userConn[d].waitingAuth
         /\ closed[d].following = userConn[d].following
         /\ closed[d].deliver = userConn[d].deliver
         /\ userConn[d].status # "open" => closed[d] = userConn[d]
  BY <1>3, <1>6, ClosedFacts
<1>8. userConn' = [closed EXCEPT ![c].session = s]
  BY <1>6 DEF AttachSession, old
<1>9. /\ userConn' \in [Conn -> ConnStates]
      /\ \A d \in Conn \ {c} : userConn'[d] = closed[d]
      /\ userConn'[c].session = s /\ userConn'[c].waitingAuth = 0
      /\ userConn'[c].status = userConn[c].status
      /\ userConn'[c].following = userConn[c].following
      /\ userConn'[c].deliver = <<>>
  <2>1. closed[c] \in ConnStates /\ closed[c].deliver = <<>>
        /\ closed[c].status = userConn[c].status /\ closed[c].waitingAuth = 0
        /\ closed[c].following = userConn[c].following
    BY <1>3, <1>5, <1>6, <1>7
  <2>2. PICK k : k = [closed[c] EXCEPT !.session = s]
    OBVIOUS
  <2>3. /\ k \in ConnStates /\ k.session = s /\ k.waitingAuth = 0
        /\ k.status = userConn[c].status /\ k.deliver = <<>>
        /\ k.following = userConn[c].following
    BY <1>1, <2>1, <2>2 DEF ConnStates
  <2>4. userConn' = [closed EXCEPT ![c] = k]
    BY <1>8, <2>2
  <2>5. userConn'[c] = k /\ \A d \in Conn \ {c} : userConn'[d] = closed[d]
    BY <1>6, <2>4
  <2>6. userConn' \in [Conn -> ConnStates]
    BY <1>6, <2>3, <2>4
  <2> QED
    BY <2>3, <2>5, <2>6
<1>10. sessions' = Put(sessions, {s}, c) /\ waiting' = waiting
  BY DEF AttachSession
<1>11. /\ DOMAIN sessions' = DOMAIN sessions \cup {s}
       /\ sessions'[s] = c
       /\ \A t \in DOMAIN sessions \ {s} : sessions'[t] = sessions[t]
       /\ sessions' = [t \in DOMAIN sessions' |-> sessions'[t]]
  BY <1>10 DEF Put
<1>12. sessions' \in [DOMAIN sessions' -> Conn]
  BY <1>4, <1>11
<1>13. TypeOK'
  <2>1. DOMAIN sessions' \subseteq Ids(agreed')
    BY <1>1, <1>11 DEF IInv, TypeOK
  <2>2. DOMAIN waiting' \subseteq 1 .. made' /\ waiting' \in [DOMAIN waiting' -> Conn]
    BY <1>2, <1>10 DEF IInv, TypeOK
  <2> QED
    BY <1>2, <1>9, <1>12, <2>1, <2>2 DEF IInv, TypeOK
<1>14. \A d \in Conn : Live(d)' <=> Live(d) /\ d \notin old
  BY <1>5, <1>7, <1>9 DEF Live
<1>15. Linked'
  <2>1. ASSUME NEW d \in Conn
        PROVE  /\ userConn'[d].status = "none" => userConn'[d] = NoUserConn
               /\ Live(d)' => d \in connections'
               /\ userConn'[d].waitingAuth # 0 => userConn'[d].session = 0
               /\ userConn'[d].session = 0 => userConn'[d].deliver = <<>>
    <3>1. CASE d = c
      BY <1>1, <1>3, <1>9, <1>14, <3>1 DEF IInv, Linked
    <3>2. CASE d # c
      <4>1. userConn'[d] = closed[d]
        BY <1>9, <3>2
      <4> QED
        BY <1>7, <1>14, <4>1 DEF IInv, Linked
    <3> QED
      BY <3>1, <3>2
  <2>2. ASSUME NEW r \in DOMAIN waiting'
        PROVE  /\ userConn'[waiting'[r]].status \in {"open", "closed"}
               /\ userConn'[waiting'[r]].waitingAuth = r
    <3>1. r \in DOMAIN waiting /\ waiting'[r] = waiting[r] /\ waiting[r] \in Conn \ {c}
      BY <1>4, <1>10
    <3> QED
      BY <1>7, <1>9, <3>1 DEF IInv, Linked
  <2> QED
    BY <1>1, <2>1, <2>2 DEF Linked
<1>16. SessionOwned'
  <2>1. ASSUME NEW t \in DOMAIN sessions'
        PROVE  /\ userConn'[sessions'[t]].status # "none"
               /\ userConn'[sessions'[t]].session = t
    <3>1. CASE t = s
      BY <1>3, <1>9, <1>11, <3>1
    <3>2. CASE t # s
      BY <1>4, <1>7, <1>9, <1>11, <3>2 DEF IInv, SessionOwned
    <3> QED
      BY <3>1, <3>2
  <2>2. ASSUME NEW d \in Conn
        PROVE  ToSet(userConn'[d].deliver) \subseteq {userConn'[d].session}
    <3>1. ToSet(<<>>) = {}
      BY DEF ToSet
    <3>2. CASE d = c
      BY <1>9, <3>1, <3>2
    <3>3. CASE d # c
      <4>1. /\ userConn'[d].deliver = userConn[d].deliver
            /\ userConn'[d].session = userConn[d].session
        BY <1>7, <1>9, <3>3
      <4> QED
        BY <4>1 DEF IInv, SessionOwned
    <3> QED
      BY <3>2, <3>3
  <2>3. ASSUME NEW d \in Conn, Live(d)', userConn'[d].session # 0
        PROVE  /\ userConn'[d].session \in DOMAIN sessions'
               /\ sessions'[userConn'[d].session] = d
    <3>1. CASE d = c
      BY <1>9, <1>11, <3>1
    <3>2. CASE d # c
      <4>1. PICK t : t = userConn[d].session
        OBVIOUS
      <4>2. userConn'[d].session = t
        BY <1>7, <1>9, <3>2, <4>1
      <4>3. Live(d) /\ d \notin old
        BY <1>14, <2>3
      <4>4. t \in DOMAIN sessions /\ sessions[t] = d
        BY <2>3, <4>1, <4>2, <4>3 DEF IInv, SessionOwned
      <4>5. t # s
        BY <1>5, <4>3, <4>4
      <4> QED
        BY <1>11, <4>2, <4>4, <4>5
    <3> QED
      BY <3>1, <3>2
  <2> QED
    BY <2>1, <2>2, <2>3 DEF SessionOwned
<1>17. ConnectedToExisting'
  <2>1. ASSUME NEW d \in Conn, Live(d)'
        PROVE  /\ userConn'[d].session \in {0} \cup OfKind(agreed, "session")
               /\ userConn'[d].following \subseteq OfKind(agreed, "user")
    <3>1. /\ userConn[d].session \in {0} \cup OfKind(agreed, "session")
          /\ userConn[d].following \subseteq OfKind(agreed, "user")
      BY <1>1, <1>14, <2>1 DEF IInv, ConnectedToExisting
    <3> QED
      BY <1>1, <1>7, <1>9, <3>1
  <2> QED
    BY <1>1, <2>1 DEF ConnectedToExisting, State
<1>19. WaitersAnswered'
  <2>1. ASSUME NEW d \in Conn, Live(d)', userConn'[d].waitingAuth # 0
        PROVE  Live(d) /\ userConn[d].waitingAuth = userConn'[d].waitingAuth
    BY <1>7, <1>9, <1>14, <2>1
  <2> QED
    BY <1>2, <1>10, <2>1, WaitersKept DEF IInv
<1> QED
  BY <1>13, <1>15, <1>16, <1>17, <1>19 DEF IInv

(* A connection that waits for a new session or a new user.                *)
LEMMA WaitStep ==
    ASSUME IInv, NEW c \in Conn, Handling(c), Unauthenticated(c),
           NEW ch \in Requests(agreed), Wait(c, ch),
           UNCHANGED <<agreed, degraded, connections, timerVars>>,
           degraded => ~Live(c)
    PROVE  IInv'
<1>1. /\ made' \in Nat /\ made' = made + 1 /\ made \in Nat
      /\ 1 .. made \subseteq 1 .. made'
      /\ requested \subseteq requested'
      /\ requested' \subseteq [id : 1 .. made', changes : Requests(agreed')]
      /\ [id |-> made + 1, changes |-> ch] \in requested'
  BY Requesting DEF IInv, Wait, TypeOK
<1>2. /\ userConn \in [Conn -> ConnStates]
      /\ userConn[c].session = 0 /\ userConn[c].waitingAuth = 0
      /\ userConn[c].status \in {"open", "closed"}
      /\ userConn[c].deliver = <<>>
      /\ userConn' = [userConn EXCEPT ![c].waitingAuth = made + 1]
      /\ waiting' = Put(waiting, {made + 1}, c) /\ sessions' = sessions
  BY DEF IInv, TypeOK, Linked, Handling, Unauthenticated, Wait
<1>3. /\ userConn' \in [Conn -> ConnStates]
      /\ \A d \in Conn \ {c} : userConn'[d] = userConn[d]
      /\ userConn'[c].session = 0 /\ userConn'[c].waitingAuth = made + 1
      /\ userConn'[c].status = userConn[c].status
      /\ userConn'[c].following = userConn[c].following
      /\ userConn'[c].deliver = <<>>
  BY <1>1, <1>2 DEF ConnStates
<1>4. /\ \A t \in DOMAIN sessions : sessions[t] \in Conn
      /\ \A r \in DOMAIN waiting : waiting[r] \in Conn \ {c} /\ r \in 1 .. made
  <2>1. /\ \A t \in DOMAIN sessions : sessions[t] \in Conn
        /\ \A r \in DOMAIN waiting : waiting[r] \in Conn /\ r \in 1 .. made
    BY DEF IInv, TypeOK
  <2>2. \A r \in DOMAIN waiting : r # 0
    BY <1>1, <2>1
  <2> QED
    BY <1>2, <2>1, <2>2 DEF IInv, Linked
<1>5. /\ DOMAIN waiting' = DOMAIN waiting \cup {made + 1}
      /\ waiting'[made + 1] = c
      /\ waiting' = [r \in DOMAIN waiting' |-> waiting'[r]]
  BY <1>2 DEF Put
<1>6. \A r \in DOMAIN waiting : waiting'[r] = waiting[r] /\ r # made + 1
  <2>1. \A r \in DOMAIN waiting : r # made + 1
    BY <1>1, <1>4
  <2> QED
    BY <1>2, <2>1 DEF Put
<1>7. TypeOK'
  <2>1. waiting' \in [DOMAIN waiting' -> Conn]
    BY <1>4, <1>5, <1>6
  <2>2. made + 1 \in 1 .. made'
    BY <1>1
  <2>3. DOMAIN waiting' \subseteq 1 .. made'
    BY <1>1, <1>4, <1>5, <2>2
  <2> QED
    BY <1>1, <1>2, <1>3, <2>1, <2>3 DEF IInv, TypeOK
<1>8. \A d \in Conn : Live(d)' <=> Live(d)
  BY <1>3 DEF Live
<1>9. Linked'
  <2>1. ASSUME NEW d \in Conn
        PROVE  /\ userConn'[d].status = "none" => userConn'[d] = NoUserConn
               /\ Live(d)' => d \in connections'
               /\ userConn'[d].waitingAuth # 0 => userConn'[d].session = 0
               /\ userConn'[d].session = 0 => userConn'[d].deliver = <<>>
    <3>1. CASE d = c
      BY <1>2, <1>3, <1>8, <3>1 DEF IInv, Linked
    <3>2. CASE d # c
      BY <1>3, <1>8, <3>2 DEF IInv, Linked
    <3> QED
      BY <3>1, <3>2
  <2>2. ASSUME NEW r \in DOMAIN waiting'
        PROVE  /\ userConn'[waiting'[r]].status \in {"open", "closed"}
               /\ userConn'[waiting'[r]].waitingAuth = r
    <3>1. CASE r = made + 1
      BY <1>2, <1>3, <1>5, <3>1
    <3>2. CASE r # made + 1
      <4>1. r \in DOMAIN waiting /\ waiting'[r] = waiting[r] /\ waiting[r] \in Conn \ {c}
        BY <1>4, <1>5, <1>6, <3>2
      <4> QED
        BY <1>3, <4>1 DEF IInv, Linked
    <3> QED
      BY <3>1, <3>2
  <2>3. degraded' => (\A d \in Conn : ~Live(d)') /\ DOMAIN sessions' = {}
    BY <1>2, <1>8 DEF IInv, Linked
  <2> QED
    BY <2>1, <2>2, <2>3 DEF Linked
<1>10. SessionOwned'
  <2>1. ASSUME NEW d \in Conn
        PROVE  /\ userConn'[d].status = userConn[d].status
               /\ userConn'[d].session = userConn[d].session
               /\ userConn'[d].deliver = userConn[d].deliver
    BY <1>2, <1>3
  <2> QED
    BY <1>2, <1>4, <2>1, OwnedKept DEF IInv
<1>11. ConnectedToExisting'
  <2>1. ASSUME NEW d \in Conn
        PROVE  /\ userConn'[d].session = userConn[d].session
               /\ userConn'[d].following = userConn[d].following
    BY <1>2, <1>3
  <2> QED
    BY <1>8, <2>1, ExistingKept DEF IInv
<1>13. WaitersAnswered'
  <2>1. ASSUME NEW d \in Conn, Live(d)', userConn'[d].waitingAuth # 0
        PROVE  \E r \in requested' :
                  /\ r.id = userConn'[d].waitingAuth
                  /\ r.id \in DOMAIN waiting' /\ waiting'[r.id] = d
    <3>1. CASE d = c
      BY <1>1, <1>3, <1>5, <3>1
    <3>2. CASE d # c
      <4>1. userConn'[d] = userConn[d] /\ Live(d)
        BY <1>3, <1>8, <2>1, <3>2
      <4>2. PICK r \in requested : /\ r.id = userConn[d].waitingAuth
                                   /\ r.id \in DOMAIN waiting /\ waiting[r.id] = d
        BY <2>1, <4>1 DEF IInv, WaitersAnswered
      <4> QED
        BY <1>1, <1>5, <1>6, <4>1, <4>2
    <3> QED
      BY <3>1, <3>2
  <2> QED
    BY <2>1 DEF WaitersAnswered
<1> QED
  BY <1>7, <1>9, <1>10, <1>11, <1>13 DEF IInv

LEMMA HandleAuthStep ==
    ASSUME IInv, NEW c \in Conn, HandleAuth(c)
    PROVE  IInv'
<1>1. /\ Handling(c) /\ UNCHANGED <<agreed, degraded, connections, timerVars>>
      /\ degraded => ~Live(c)
  BY DEF HandleAuth, IInv, Linked
<1>2. CASE ~Unauthenticated(c)
  <2>1. /\ userConn' = Closed(userConn, {c})
        /\ UNCHANGED <<requested, sessions, waiting, made>>
    BY <1>2 DEF HandleAuth, NoRequest
  <2> QED
    BY <1>1, <2>1, Closing
<1>3. CASE Unauthenticated(c)
  <2>1. PICK name \in Names :
           \/ \E user \in Named(State, "user", name) :
                 \/ \E s \in AllAttached(State, user) : AttachSession(c, user, s)
                 \/ NewSession(c, user)
           \/ NewUser(c, name) \/ NewGuest(c, name)
    BY <1>3 DEF HandleAuth
  <2>2. ASSUME NEW user \in Named(State, "user", name),
               NEW s \in AllAttached(State, user), AttachSession(c, user, s)
        PROVE  IInv'
    BY <1>1, <1>3, <2>2, AttachSessionStep
  <2>3. ASSUME NEW user \in Named(State, "user", name), NewSession(c, user)
        PROVE  IInv'
    <3>1. user \in Ids(agreed)
      <4>1. user \in OfKind(State, "user")
        BY DEF Named
      <4>2. State = agreed
        BY <4>1, EmptyFacts DEF State
      <4>3. Consistent(agreed)
        BY DEF IInv, TypeOK
      <4>4. Value(agreed, user, Kind) # NoValue
        BY <4>1, <4>2, <4>3, KindsExist, Strings
      <4> QED
        BY <4>3, <4>4, IdsFacts
    <3>2. PICK ch \in Requests(agreed) : ch = makeNewSessionRequest(Me, user)
      BY <3>1, OurNodes DEF Requests
    <3> QED
      BY <1>1, <1>3, <2>3, <3>2, WaitStep DEF NewSession
  <2>4. ASSUME NewUser(c, name)
        PROVE  IInv'
    <3>1. PICK ch \in Requests(agreed) : ch = makeNewUserRequest(Me, name)
      BY OurNodes DEF Requests
    <3> QED
      BY <1>1, <1>3, <2>4, <3>1, WaitStep DEF NewUser
  <2>5. ASSUME NewGuest(c, name)
        PROVE  IInv'
    <3>1. Closed(userConn, {}) = userConn
      BY DEF Closed, IInv, TypeOK
    <3>2. UNCHANGED <<userConn, requested, sessions, waiting, made>>
      BY <2>5 DEF NewGuest, NoRequest
    <3> QED
      BY <1>1, <3>1, <3>2, Closing
  <2> QED
    BY <2>1, <2>2, <2>3, <2>4, <2>5
<1> QED
  BY <1>2, <1>3

(* What the callbacks of an applied instruction do to each connection.     *)
Deletes(conns, users, deleted, C) ==
    /\ conns \in [Conn -> ConnStates]
    /\ \A s \in DOMAIN sessions : s \in deleted => sessions[s] \in C
    /\ \A d \in Conn :
          /\ conns[d].status =
                IF d \in C /\ userConn[d].status = "open" THEN "closed"
                ELSE userConn[d].status
          /\ conns[d].session = userConn[d].session
          /\ conns[d].waitingAuth = userConn[d].waitingAuth
          /\ conns[d].deliver = userConn[d].deliver
          /\ conns[d].following =
                IF d \in connections THEN userConn[d].following \ users
                ELSE userConn[d].following
          /\ userConn[d] = NoUserConn => conns[d] = NoUserConn

LEMMA AfterDeletingFacts ==
    ASSUME userConn \in [Conn -> ConnStates], NEW users, NEW deleted
    PROVE  \E C : Deletes(AfterDeleting(users, deleted), users, deleted, C)
<1>1. PICK C : C = SessionConns(deleted \cup UNION {AllAttached(agreed, u) : u \in users})
  OBVIOUS
<1>2. PICK closed \in [Conn -> ConnStates] : closed = Closed(userConn, C)
  BY ClosedFacts
<1>3. \A d \in Conn :
         /\ closed[d].status =
               IF d \in C /\ userConn[d].status = "open" THEN "closed"
               ELSE userConn[d].status
         /\ closed[d].session = userConn[d].session
         /\ closed[d].waitingAuth = userConn[d].waitingAuth
         /\ closed[d].following = userConn[d].following
         /\ closed[d].deliver = userConn[d].deliver
         /\ userConn[d].status # "open" => closed[d] = userConn[d]
  BY <1>2, ClosedFacts
<1>4. PICK after : after = AfterDeleting(users, deleted)
  OBVIOUS
<1>5. after = [d \in Conn |-> IF d \in connections
                              THEN [closed[d] EXCEPT !.following = @ \ users]
                              ELSE closed[d]]
  BY <1>1, <1>2, <1>4 DEF AfterDeleting
<1>6. ASSUME NEW d \in Conn
      PROVE  /\ after[d] \in ConnStates
             /\ after[d].status = closed[d].status
             /\ after[d].session = closed[d].session
             /\ after[d].waitingAuth = closed[d].waitingAuth
             /\ after[d].deliver = closed[d].deliver
             /\ after[d].following = IF d \in connections THEN closed[d].following \ users
                                     ELSE closed[d].following
  <2>1. PICK x \in ConnStates : x = closed[d]
    BY <1>2
  <2>2. CASE d \in connections
    <3>1. PICK f \in SUBSET Nat : f = x.following \ users
      BY DEF ConnStates
    <3>2. after[d] = [x EXCEPT !.following = f]
      BY <1>5, <2>1, <2>2, <3>1
    <3> QED
      BY <2>1, <2>2, <3>1, <3>2 DEF ConnStates
  <2>3. CASE d \notin connections
    BY <1>5, <2>1, <2>3
  <2> QED
    BY <2>2, <2>3
<1>7. ASSUME NEW d \in Conn, userConn[d] = NoUserConn
      PROVE  after[d] = NoUserConn
  <2>1. closed[d] = NoUserConn
    <3>1. NoUserConn.status # "open"
      BY DEF NoUserConn
    <3> QED
      BY <1>3, <1>7, <3>1
  <2>2. [NoUserConn EXCEPT !.following = @ \ users] = NoUserConn
    <3>1. NoUserConn.following \ users = NoUserConn.following
      BY DEF NoUserConn
    <3>2. [NoUserConn EXCEPT !.following = NoUserConn.following] = NoUserConn
      BY DEF NoUserConn
    <3> QED
      BY <3>1, <3>2
  <2> QED
    BY <1>5, <2>1, <2>2
<1>8. after \in [Conn -> ConnStates]
  BY <1>5, <1>6
<1>9. ASSUME NEW d \in Conn
      PROVE  /\ after[d].status =
                   IF d \in C /\ userConn[d].status = "open" THEN "closed"
                   ELSE userConn[d].status
             /\ after[d].session = userConn[d].session
             /\ after[d].waitingAuth = userConn[d].waitingAuth
             /\ after[d].deliver = userConn[d].deliver
             /\ after[d].following =
                   IF d \in connections THEN userConn[d].following \ users
                   ELSE userConn[d].following
             /\ userConn[d] = NoUserConn => after[d] = NoUserConn
  BY <1>3, <1>6, <1>7
<1>10. \A s \in DOMAIN sessions : s \in deleted => sessions[s] \in C
  BY <1>1 DEF SessionConns
<1>11. Deletes(after, users, deleted, C)
  BY <1>8, <1>9, <1>10 DEF Deletes
<1> QED
  BY <1>4, <1>11

LEMMA AuthenticatedFacts ==
    ASSUME NEW conns \in [Conn -> ConnStates], NEW waiters, NEW new,
           NEW n \in Nat, new # {} => n = CHOOSE s \in new : TRUE
    PROVE  /\ Authenticated(conns, waiters, new) \in [Conn -> ConnStates]
           /\ \A d \in Conn :
                 /\ Authenticated(conns, waiters, new)[d].status = conns[d].status
                 /\ Authenticated(conns, waiters, new)[d].session =
                       IF d \in waiters /\ new # {} THEN n ELSE conns[d].session
                 /\ Authenticated(conns, waiters, new)[d].waitingAuth =
                       IF d \in waiters THEN 0 ELSE conns[d].waitingAuth
                 /\ Authenticated(conns, waiters, new)[d].deliver = conns[d].deliver
                 /\ Authenticated(conns, waiters, new)[d].following = conns[d].following
                 /\ d \notin waiters => Authenticated(conns, waiters, new)[d] = conns[d]
<1>1. PICK a : a = Authenticated(conns, waiters, new)
  OBVIOUS
<1>2. a = [c \in Conn |->
              IF c \in waiters
              THEN [conns[c] EXCEPT !.waitingAuth = 0,
                      !.session = IF new = {} THEN @ ELSE n]
              ELSE conns[c]]
  BY <1>1 DEF Authenticated
<1>3. ASSUME NEW d \in Conn
      PROVE  /\ a[d] \in ConnStates
             /\ a[d].status = conns[d].status
             /\ a[d].session = IF d \in waiters /\ new # {} THEN n ELSE conns[d].session
             /\ a[d].waitingAuth = IF d \in waiters THEN 0 ELSE conns[d].waitingAuth
             /\ a[d].deliver = conns[d].deliver
             /\ a[d].following = conns[d].following
             /\ d \notin waiters => a[d] = conns[d]
  <2>1. conns[d] \in ConnStates
    OBVIOUS
  <2>2. CASE d \in waiters
    <3>1. PICK x \in ConnStates : x = conns[d]
      BY <2>1
    <3>2. PICK m \in Nat : m = IF new = {} THEN x.session ELSE n
      BY DEF ConnStates
    <3>3. a[d] = [x EXCEPT !.waitingAuth = 0, !.session = m]
      BY <1>2, <2>2, <3>1, <3>2
    <3>4. /\ a[d] \in ConnStates
          /\ a[d].status = x.status /\ a[d].session = m /\ a[d].waitingAuth = 0
          /\ a[d].deliver = x.deliver /\ a[d].following = x.following
      <4>1. PICK y : y = [x EXCEPT !.waitingAuth = 0]
        OBVIOUS
      <4>2. /\ y \in ConnStates
            /\ y.status = x.status /\ y.waitingAuth = 0
            /\ y.deliver = x.deliver /\ y.following = x.following
        BY <4>1 DEF ConnStates
      <4>3. a[d] = [y EXCEPT !.session = m]
        BY <3>3, <4>1
      <4>4. PICK z : z = [y EXCEPT !.session = m]
        OBVIOUS
      <4>5. /\ z \in ConnStates
            /\ z.status = y.status /\ z.waitingAuth = y.waitingAuth /\ z.session = m
            /\ z.deliver = y.deliver /\ z.following = y.following
        BY <4>2, <4>4 DEF ConnStates
      <4> QED
        BY <4>2, <4>3, <4>4, <4>5
    <3> QED
      BY <2>2, <3>1, <3>2, <3>4
  <2>3. CASE d \notin waiters
    BY <1>2, <2>1, <2>3
  <2> QED
    BY <2>2, <2>3
<1> QED
  BY <1>1, <1>2, <1>3

(* Which request is chosen, and which remain to be.                        *)
Chosen(ch, ids) ==
    \/ ids = {} /\ requested' = requested
    \/ \E r \in requested : /\ ids = {r.id} /\ ch = r.changes
                            /\ requested' = requested \ {r}

LEMMA ChosenFacts ==
    ASSUME TypeOK, NEW ch \in Requests(agreed), NEW ids, Chosen(ch, ids),
           NEW res, res = applyChanges(agreed, ch, FALSE), res.complete,
           agreed' = res.state, made' = made
    PROVE  /\ Consistent(agreed')
           /\ Ids(agreed) \subseteq Ids(agreed')
           /\ requested' \subseteq [id : 1 .. made', changes : Requests(agreed')]
           /\ requested' \subseteq requested
<1>1. Consistent(agreed)
  BY DEF TypeOK
<1>2. /\ Consistent(agreed') /\ agreed.next <= agreed'.next
      /\ \A e \in Ids(agreed) : Exists(agreed', e) =>
            Exists(agreed, e) /\ Value(agreed', e, Kind) = Value(agreed, e, Kind)
  <2>1. Consistent(res.state) /\ agreed.next <= res.state.next
    BY <1>1, RequestApplied
  <2>2. \A e \in Ids(agreed) : Exists(res.state, e) =>
           Exists(agreed, e) /\ Value(res.state, e, Kind) = Value(agreed, e, Kind)
    BY <1>1, RequestApplied
  <2> QED
    BY <2>1, <2>2
<1>3. Requests(agreed) \subseteq Requests(agreed') /\ Ids(agreed) \subseteq Ids(agreed')
  BY <1>1, <1>2, RequestsKept
<1>4. requested' \subseteq requested
  BY DEF Chosen
<1> QED
  BY <1>2, <1>3, <1>4 DEF TypeOK

(* A degraded node does not get to know of it.                             *)
LEMMA ChoosingDegraded ==
    ASSUME IInv, NEW ch \in Requests(agreed), NEW ids, Chosen(ch, ids),
           NEW res, res = applyChanges(agreed, ch, FALSE), res.complete,
           agreed' = res.state, degraded,
           UNCHANGED <<degraded, connections, userConn, sessions, waiting,
                       timerVars, made>>
    PROVE  IInv'
<1>1. /\ Consistent(agreed') /\ Ids(agreed) \subseteq Ids(agreed')
      /\ requested' \subseteq [id : 1 .. made', changes : Requests(agreed')]
  BY ChosenFacts DEF IInv
<1>2. TypeOK'
  BY <1>1 DEF IInv, TypeOK
<1>3. \A c \in Conn : ~Live(c) /\ ~Live(c)'
  BY DEF IInv, Linked, Live
<1>4. Linked' /\ SessionOwned'
  BY <1>3 DEF IInv, Linked, SessionOwned
<1>5. ConnectedToExisting' /\ WaitersAnswered'
  BY <1>3 DEF ConnectedToExisting, WaitersAnswered
<1> QED
  BY <1>2, <1>4, <1>5 DEF IInv

(* The names of what Apply computes.                                       *)
Applies(ch, ids, done, gone, goneUsers, waiters, new, n, detached, C) ==
    /\ gone = DOMAIN agreed.entities \ DOMAIN agreed'.entities
    /\ goneUsers = gone \cap OfKind(agreed, "user")
    /\ done = ToSet(applyChanges(agreed, ch, FALSE).changes)
    /\ \A s \in new : /\ s \in OfKind(agreed', "session")
                      /\ \E c \in done : MakesSession(c) /\ c.target = s
    /\ n \in Nat /\ (new # {} => n \in new /\ waiters # {})
    /\ waiters = {waiting[r] : r \in DOMAIN waiting \cap ids}
    /\ waiting' = Without(waiting, ids)
    /\ \A s : s \in detached <=>
          \E c \in done : Detaches(c, Me) /\ c.target = s
    /\ \A s \in DOMAIN sessions : s \in gone => sessions[s] \in C
    /\ DOMAIN sessions' = (DOMAIN sessions \ gone) \cup new
    /\ \A s \in new : sessions'[s] \in waiters
    /\ \A s \in DOMAIN sessions \ (gone \cup new) : sessions'[s] = sessions[s]
    /\ sessions' = [s \in DOMAIN sessions' |-> sessions'[s]]
    /\ userConn' \in [Conn -> ConnStates]
    /\ \A d \in Conn :
          /\ userConn'[d].status =
                IF d \in C /\ userConn[d].status = "open" THEN "closed"
                ELSE userConn[d].status
          /\ userConn'[d].session =
                IF d \in waiters /\ new # {} THEN n ELSE userConn[d].session
          /\ userConn'[d].waitingAuth =
                IF d \in waiters THEN 0 ELSE userConn[d].waitingAuth
          /\ userConn'[d].deliver = userConn[d].deliver
          /\ userConn'[d].following =
                IF d \in connections THEN userConn[d].following \ goneUsers
                ELSE userConn[d].following
          /\ userConn[d] = NoUserConn /\ d \notin waiters => userConn'[d] = NoUserConn

LEMMA ApplyFacts ==
    ASSUME IInv, NEW ch \in Requests(agreed), NEW ids,
           NEW res, res = applyChanges(agreed, ch, FALSE), res.complete,
           agreed' = res.state, Apply(res, ids), connections' = connections
    PROVE  \E done, gone, goneUsers, waiters, new, n, detached, C :
              Applies(ch, ids, done, gone, goneUsers, waiters, new, n, detached, C)
<1>1. PICK gone : gone = DOMAIN agreed.entities \ DOMAIN agreed'.entities
  OBVIOUS
<1>2. PICK done : done = ToSet(res.changes)
  OBVIOUS
<1>3. PICK waiters : waiters = {waiting[r] : r \in DOMAIN waiting \cap ids}
  OBVIOUS
<1>4. PICK detached : detached = OurAttaches(done, NoValue)
  OBVIOUS
<1>5. PICK goneUsers : goneUsers = gone \cap OfKind(agreed, "user")
  OBVIOUS
<1>6. PICK new : new = IF waiters = {} THEN {} ELSE SessionMade(agreed', done)
  OBVIOUS
<1>7. PICK w : w = CHOOSE c \in waiters : TRUE
  OBVIOUS
<1>8. PICK n : n = IF new = {} THEN 0 ELSE CHOOSE s \in new : TRUE
  OBVIOUS
<1>9. userConn \in [Conn -> ConnStates]
  BY DEF IInv, TypeOK
<1>10. PICK U1 : U1 = AfterDeleting(goneUsers, gone)
  OBVIOUS
<1>11. PICK C1 : Deletes(U1, goneUsers, gone, C1)
  BY <1>9, <1>10, AfterDeletingFacts
<1>12. PICK U2 : U2 = Authenticated(U1, waiters, new)
  OBVIOUS
<1>13. PICK C2 : C2 = {sessions'[s] : s \in DOMAIN sessions' \cap detached}
  OBVIOUS
<1>14. /\ sessions' = Put(Without(sessions, gone), new, w)
      /\ userConn' = Closed(U2, C2)
      /\ waiting' = Without(waiting, ids)
      /\ orphanAttachTimeouts' =
            Started(Without(orphanAttachTimeouts, gone \cup detached),
                    OurAttaches(done, True) \ DOMAIN sessions')
      /\ namelessRemoveTimeouts' =
            Started(Without(namelessRemoveTimeouts, gone),
                    UsersMade(done) \cap Nameless(agreed'))
  BY <1>1, <1>2, <1>3, <1>4, <1>5, <1>6, <1>7, <1>10, <1>12, <1>13 DEF Apply
<1>15. \A s \in new : /\ s \in OfKind(agreed', "session")
                      /\ \E c \in done : MakesSession(c) /\ c.target = s
  BY <1>6 DEF SessionMade, MakesSession, Sets
<1>16. n \in Nat /\ (new # {} => n \in new /\ waiters # {} /\ n = CHOOSE s \in new : TRUE)
  <2>1. new \subseteq Nat
    <3>1. Consistent(agreed')
      BY RequestApplied DEF IInv, TypeOK
    <3>2. \A s \in new : Value(agreed', s, Kind) # NoValue
      BY <1>15, <3>1, KindsExist, Strings
    <3> QED
      BY <3>1, <3>2, IdsFacts
  <2> QED
    BY <1>6, <1>8, <2>1
<1>17. \A s : s \in detached <=> \E c \in done : Detaches(c, Me) /\ c.target = s
  BY <1>4 DEF OurAttaches, Detaches
<1>18. \A s \in DOMAIN sessions : s \in gone => sessions[s] \in C1
  BY <1>11 DEF Deletes
<1>19. /\ DOMAIN sessions' = (DOMAIN sessions \ gone) \cup new
       /\ \A s \in new : sessions'[s] \in waiters
       /\ \A s \in DOMAIN sessions \ (gone \cup new) : sessions'[s] = sessions[s]
       /\ sessions' = [s \in DOMAIN sessions' |-> sessions'[s]]
  <2>1. PICK f : f = Without(sessions, gone)
    OBVIOUS
  <2>2. DOMAIN f = DOMAIN sessions \ gone /\ \A s \in DOMAIN f : f[s] = sessions[s]
    BY <2>1 DEF Without
  <2>3. sessions' = [x \in DOMAIN f \cup new |-> IF x \in new THEN w ELSE f[x]]
    BY <1>14, <2>1 DEF Put
  <2>4. new # {} => w \in waiters
    BY <1>7, <1>16
  <2>5. DOMAIN sessions' = (DOMAIN sessions \ gone) \cup new
    BY <2>2, <2>3
  <2> QED
    BY <2>2, <2>3, <2>4, <2>5
<1>20. /\ U1 \in [Conn -> ConnStates]
       /\ \A d \in Conn :
             /\ U1[d].status = IF d \in C1 /\ userConn[d].status = "open" THEN "closed"
                               ELSE userConn[d].status
             /\ U1[d].session = userConn[d].session
             /\ U1[d].waitingAuth = userConn[d].waitingAuth
             /\ U1[d].deliver = userConn[d].deliver
             /\ U1[d].following =
                  IF d \in connections THEN userConn[d].following \ goneUsers
                                  ELSE userConn[d].following
             /\ userConn[d] = NoUserConn => U1[d] = NoUserConn
  BY <1>11 DEF Deletes
<1>21. /\ U2 \in [Conn -> ConnStates]
       /\ \A d \in Conn :
             /\ U2[d].status = U1[d].status
             /\ U2[d].session = IF d \in waiters /\ new # {} THEN n ELSE U1[d].session
             /\ U2[d].waitingAuth = IF d \in waiters THEN 0 ELSE U1[d].waitingAuth
             /\ U2[d].deliver = U1[d].deliver
             /\ U2[d].following = U1[d].following
             /\ d \notin waiters => U2[d] = U1[d]
  BY <1>12, <1>16, <1>20, AuthenticatedFacts
<1>22. /\ userConn' \in [Conn -> ConnStates]
       /\ \A d \in Conn :
             /\ userConn'[d].status = IF d \in C2 /\ U2[d].status = "open" THEN "closed"
                                      ELSE U2[d].status
             /\ userConn'[d].session = U2[d].session
             /\ userConn'[d].waitingAuth = U2[d].waitingAuth
             /\ userConn'[d].following = U2[d].following
             /\ userConn'[d].deliver = U2[d].deliver
             /\ U2[d].status # "open" => userConn'[d] = U2[d]
  BY <1>14, <1>21, ClosedFacts
<1>23. ASSUME NEW d \in Conn
       PROVE  /\ userConn'[d].status =
                    IF d \in C1 \cup C2 /\ userConn[d].status = "open" THEN "closed"
                    ELSE userConn[d].status
              /\ userConn'[d].session =
                    IF d \in waiters /\ new # {} THEN n ELSE userConn[d].session
              /\ userConn'[d].waitingAuth =
                    IF d \in waiters THEN 0 ELSE userConn[d].waitingAuth
              /\ userConn'[d].deliver = userConn[d].deliver
              /\ userConn'[d].following =
                    IF d \in connections THEN userConn[d].following \ goneUsers
                    ELSE userConn[d].following
  <2>1. userConn'[d].status =
           IF d \in C1 \cup C2 /\ userConn[d].status = "open" THEN "closed"
           ELSE userConn[d].status
    <3>1. /\ U1[d].status = IF d \in C1 /\ userConn[d].status = "open" THEN "closed"
                            ELSE userConn[d].status
          /\ U2[d].status = U1[d].status
          /\ userConn'[d].status = IF d \in C2 /\ U2[d].status = "open" THEN "closed"
                                   ELSE U2[d].status
      BY <1>20, <1>21, <1>22
    <3> QED
      BY <3>1
  <2>2. /\ U2[d].session = IF d \in waiters /\ new # {} THEN n ELSE U1[d].session
        /\ U2[d].waitingAuth = IF d \in waiters THEN 0 ELSE U1[d].waitingAuth
        /\ U1[d].session = userConn[d].session
        /\ U1[d].waitingAuth = userConn[d].waitingAuth
        /\ userConn'[d].session = U2[d].session
        /\ userConn'[d].waitingAuth = U2[d].waitingAuth
    <3>1. /\ U2[d].session = IF d \in waiters /\ new # {} THEN n ELSE U1[d].session
          /\ U2[d].waitingAuth = IF d \in waiters THEN 0 ELSE U1[d].waitingAuth
      BY <1>21
    <3>2. U1[d].session = userConn[d].session /\ U1[d].waitingAuth = userConn[d].waitingAuth
      BY <1>20
    <3>3. /\ userConn'[d].session = U2[d].session
          /\ userConn'[d].waitingAuth = U2[d].waitingAuth
      BY <1>22
    <3> QED
      BY <3>1, <3>2, <3>3
  <2>3. /\ userConn'[d].deliver = userConn[d].deliver
        /\ userConn'[d].following = U1[d].following
        /\ U1[d].following =
                  IF d \in connections THEN userConn[d].following \ goneUsers
                             ELSE userConn[d].following
    <3>1. /\ U1[d].deliver = userConn[d].deliver
          /\ U1[d].following =
                  IF d \in connections THEN userConn[d].following \ goneUsers
                             ELSE userConn[d].following
      BY <1>20
    <3>2. U2[d].deliver = U1[d].deliver /\ U2[d].following = U1[d].following
      BY <1>21
    <3>3. userConn'[d].deliver = U2[d].deliver /\ userConn'[d].following = U2[d].following
      BY <1>22
    <3> QED
      BY <3>1, <3>2, <3>3
  <2> QED
    BY <2>1, <2>2, <2>3
<1>24. ASSUME NEW d \in Conn, userConn[d] = NoUserConn, d \notin waiters
       PROVE  userConn'[d] = NoUserConn
  <2>1. U2[d] = NoUserConn /\ NoUserConn.status # "open"
    BY <1>20, <1>21, <1>24 DEF NoUserConn
  <2> QED
    BY <1>22, <2>1
<1>25. PICK C : C = C1 \cup C2
  OBVIOUS
<1>26. \A s \in DOMAIN sessions : s \in gone => sessions[s] \in C
  BY <1>18, <1>25
<1>27. \A d \in Conn :
          /\ userConn'[d].status =
                IF d \in C /\ userConn[d].status = "open" THEN "closed"
                ELSE userConn[d].status
          /\ userConn'[d].session =
                IF d \in waiters /\ new # {} THEN n ELSE userConn[d].session
          /\ userConn'[d].waitingAuth =
                IF d \in waiters THEN 0 ELSE userConn[d].waitingAuth
          /\ userConn'[d].deliver = userConn[d].deliver
          /\ userConn'[d].following =
                IF d \in connections THEN userConn[d].following \ goneUsers
                ELSE userConn[d].following
          /\ userConn[d] = NoUserConn /\ d \notin waiters => userConn'[d] = NoUserConn
  BY <1>23, <1>24, <1>25
<1>28. done = ToSet(applyChanges(agreed, ch, FALSE).changes)
  BY <1>2
<1>29. userConn' \in [Conn -> ConnStates]
  BY <1>22
<1>30. Applies(ch, ids, done, gone, goneUsers, waiters, new, n, detached, C)
  BY <1>1, <1>3, <1>5, <1>14, <1>15, <1>16, <1>17, <1>19, <1>26, <1>27, <1>28,
     <1>29 DEF Applies
<1> QED
  BY <1>30

LEMMA EntityKept ==
    ASSUME NEW st, Consistent(st), NEW ch \in Requests(st),
           NEW r, r = applyChanges(st, ch, FALSE), r.complete,
           NEW e \in Ids(st), Exists(r.state, e)
    PROVE  /\ Exists(st, e)
           /\ Value(r.state, e, Kind) = Value(st, e, Kind)
           /\ Value(r.state, e, Name) = Value(st, e, Name)
BY RequestApplied

LEMMA ApplyingStep ==
    ASSUME IInv, NEW ch \in Requests(agreed), NEW ids, Chosen(ch, ids),
           NEW res, res = applyChanges(agreed, ch, FALSE), res.complete,
           agreed' = res.state, ~degraded, Apply(res, ids),
           UNCHANGED <<degraded, connections, made>>
    PROVE  IInv'
<1>1. connections' = connections
  OBVIOUS
<1>2. PICK done, gone, goneUsers, waiters, new, n, detached, C :
         Applies(ch, ids, done, gone, goneUsers, waiters, new, n, detached, C)
  BY <1>1, ApplyFacts
<1>3. gone = DOMAIN agreed.entities \ DOMAIN agreed'.entities
  BY <1>2 DEF Applies
<1>4. done = ToSet(res.changes)
  BY <1>2 DEF Applies
<1>5. waiters = {waiting[r] : r \in DOMAIN waiting \cap ids}
  BY <1>2 DEF Applies
<1>6. /\ Consistent(agreed) /\ Consistent(agreed')
      /\ Ids(agreed) \subseteq Ids(agreed')
      /\ requested' \subseteq [id : 1 .. made', changes : Requests(agreed')]
      /\ requested' \subseteq requested
  BY ChosenFacts DEF IInv, TypeOK
<1>7. /\ \A e \in Ids(agreed) : Exists(agreed', e) =>
            /\ Exists(agreed, e)
            /\ Value(agreed', e, Kind) = Value(agreed, e, Kind)
            /\ Value(agreed', e, Name) = Value(agreed, e, Name)
      /\ \A c \in done : Sets(c, Kind) => c.target >= agreed.next
      /\ \A c, d \in done : MakesSession(c) /\ MakesSession(d) => c.target = d.target
      /\ \A u : Value(agreed', u, Kind) = "user" =>
            Value(agreed, u, Kind) = "user" \/ Set(u, Kind, "user") \in done
      /\ \A s : Value(agreed', s, Attach(Me)) # NoValue =>
            \/ Value(agreed, s, Attach(Me)) # NoValue
            \/ Set(s, Attach(Me), True) \in done
      /\ \A c \in done : Detaches(c, Me) =>
            Value(agreed', c.target, Attach(Me)) = NoValue
  <2>1. Me \in NodeIDs
    BY OurNodes
  <2>2. ASSUME NEW e \in Ids(agreed), Exists(res.state, e)
        PROVE  /\ Exists(agreed, e)
               /\ Value(res.state, e, Kind) = Value(agreed, e, Kind)
               /\ Value(res.state, e, Name) = Value(agreed, e, Name)
    BY <1>6, <2>2, EntityKept
  <2>3. ASSUME NEW c \in ToSet(res.changes), Sets(c, Kind)
        PROVE  c.target >= agreed.next
    BY <1>6, <2>3, RequestApplied
  <2>4. ASSUME NEW c \in ToSet(res.changes), NEW d \in ToSet(res.changes),
               MakesSession(c), MakesSession(d)
        PROVE  c.target = d.target
    BY <1>6, <2>4, RequestApplied
  <2>5. \A u : Value(res.state, u, Kind) = "user" =>
            Value(agreed, u, Kind) = "user" \/ Set(u, Kind, "user") \in ToSet(res.changes)
    BY <1>6, RequestApplied
  <2>6. \A m \in NodeIDs :
           /\ \A s : Value(res.state, s, Attach(m)) # NoValue =>
                 \/ Value(agreed, s, Attach(m)) # NoValue
                 \/ Set(s, Attach(m), True) \in ToSet(res.changes)
           /\ \A c \in ToSet(res.changes) : Detaches(c, m) =>
                 Value(res.state, c.target, Attach(m)) = NoValue
    BY <1>6, RequestApplied
  <2> QED
    BY <1>4, <2>1, <2>2, <2>3, <2>5, <2>6, <2>4
<1>8. \A e \in gone : ~Exists(agreed', e)
  BY <1>3 DEF Exists
<1>9. \A e : Exists(agreed, e) /\ e \notin gone => Exists(agreed', e)
  BY <1>3 DEF Exists
(* A new session is one that no connection has yet.                        *)
<1>10. /\ \A s \in new : s \in Ids(agreed') /\ s \notin Ids(agreed)
                         /\ s \in OfKind(agreed', "session")
       /\ \A s, t \in new : s = t
  <2>1. \A s \in new : /\ s \in OfKind(agreed', "session")
                       /\ \E c \in done : MakesSession(c) /\ c.target = s
    BY <1>2 DEF Applies
  <2>2. ASSUME NEW s \in new
        PROVE  s \in Ids(agreed')
    <3>1. Value(agreed', s, Kind) # NoValue
      BY <1>6, <2>1, KindsExist, Strings
    <3> QED
      BY <1>6, <3>1, IdsFacts
  <2>3. ASSUME NEW s \in new
        PROVE  s \notin Ids(agreed)
    <3>1. s >= agreed.next
      BY <1>7, <2>1 DEF MakesSession
    <3>2. agreed.next \in Nat /\ agreed'.next \in Nat
      BY <1>6, StateFacts DEF Consistent
    <3>3. s \in Nat
      BY <1>6, <2>2, IdsFacts
    <3> QED
      BY <3>1, <3>2, <3>3 DEF Ids, FirstEntity
  <2> QED
    BY <1>7, <2>1, <2>2, <2>3
<1>11. DOMAIN sessions \subseteq Ids(agreed) /\ Ids(agreed) \subseteq Nat \ {0}
  BY <1>6, IdsFacts DEF IInv, TypeOK
<1>12. /\ n \in Nat /\ (new # {} => n \in new /\ waiters # {} /\ n # 0)
       /\ DOMAIN sessions' = (DOMAIN sessions \ gone) \cup new
       /\ \A s \in new : sessions'[s] \in waiters
       /\ \A s \in DOMAIN sessions \ gone : sessions'[s] = sessions[s]
       /\ sessions' = [s \in DOMAIN sessions' |-> sessions'[s]]
  <2>1. /\ n \in Nat /\ (new # {} => n \in new /\ waiters # {})
        /\ DOMAIN sessions' = (DOMAIN sessions \ gone) \cup new
        /\ \A s \in new : sessions'[s] \in waiters
        /\ \A s \in DOMAIN sessions \ (gone \cup new) : sessions'[s] = sessions[s]
        /\ sessions' = [s \in DOMAIN sessions' |-> sessions'[s]]
    BY <1>2 DEF Applies
  <2>2. \A s \in new : s \notin DOMAIN sessions
    BY <1>10, <1>11
  <2>3. n \in new => n # 0
    BY <1>6, <1>10, IdsFacts
  <2> QED
    BY <2>1, <2>2, <2>3
<1>13. userConn' \in [Conn -> ConnStates]
  BY <1>2 DEF Applies
<1>14. \A d \in Conn :
          /\ userConn'[d].status =
                IF d \in C /\ userConn[d].status = "open" THEN "closed"
                ELSE userConn[d].status
          /\ userConn'[d].session =
                IF d \in waiters /\ new # {} THEN n ELSE userConn[d].session
          /\ userConn'[d].waitingAuth =
                IF d \in waiters THEN 0 ELSE userConn[d].waitingAuth
          /\ userConn'[d].deliver = userConn[d].deliver
          /\ userConn'[d].following =
                IF d \in connections THEN userConn[d].following \ goneUsers
                ELSE userConn[d].following
          /\ userConn[d] = NoUserConn /\ d \notin waiters => userConn'[d] = NoUserConn
  BY <1>2 DEF Applies
<1>15. \A d \in Conn : Live(d)' => Live(d) /\ d \notin C
  BY <1>14 DEF Live
(* Whoever waits for the request has no session, and is one connection.    *)
<1>16. /\ \A d \in waiters : /\ d \in Conn /\ userConn[d].session = 0
                             /\ userConn[d].waitingAuth \in ids
                             /\ userConn[d].deliver = <<>>
                             /\ userConn[d].status \in {"open", "closed"}
       /\ \A d, e \in waiters : d = e
  <2>1. \A d \in waiters : \E r \in DOMAIN waiting : r \in ids /\ d = waiting[r]
    BY <1>5
  <2>2. \A r \in DOMAIN waiting : /\ waiting[r] \in Conn
                                  /\ userConn[waiting[r]].status \in {"open", "closed"}
                                  /\ userConn[waiting[r]].waitingAuth = r
                                  /\ r # 0
    BY DEF IInv, TypeOK, Linked
  <2>3. \A i, j \in ids : i = j
    BY DEF Chosen
  <2>4. \A d, e \in waiters : d = e
    BY <2>1, <2>3
  <2>5. ASSUME NEW d \in waiters
        PROVE  /\ d \in Conn /\ userConn[d].session = 0
               /\ userConn[d].waitingAuth \in ids
               /\ userConn[d].deliver = <<>>
               /\ userConn[d].status \in {"open", "closed"}
    <3>1. PICK r \in DOMAIN waiting : r \in ids /\ d = waiting[r]
      BY <2>1
    <3>2. /\ d \in Conn /\ userConn[d].waitingAuth = r /\ r # 0
          /\ userConn[d].status \in {"open", "closed"}
      BY <2>2, <3>1
    <3>3. userConn[d].session = 0
      BY <3>2 DEF IInv, Linked
    <3>4. userConn[d].deliver = <<>>
      BY <3>2, <3>3 DEF IInv, Linked
    <3> QED
      BY <3>1, <3>2, <3>3, <3>4
  <2> QED
    BY <2>4, <2>5
<1>17. /\ \A s \in DOMAIN sessions : /\ sessions[s] \in Conn
                                     /\ userConn[sessions[s]].session = s
                                     /\ userConn[sessions[s]].status # "none"
                                     /\ sessions[s] \notin waiters
                                     /\ s \in gone => sessions[s] \in C
  <2>1. \A s \in DOMAIN sessions : /\ sessions[s] \in Conn
                                   /\ userConn[sessions[s]].session = s
                                   /\ userConn[sessions[s]].status # "none"
                                   /\ s # 0
    BY <1>11 DEF IInv, TypeOK, SessionOwned
  <2>2. \A s \in DOMAIN sessions : s \in gone => sessions[s] \in C
    BY <1>2 DEF Applies
  <2> QED
    BY <1>16, <2>1, <2>2
<1>18. /\ DOMAIN waiting' = DOMAIN waiting \ ids
       /\ \A r \in DOMAIN waiting' : waiting'[r] = waiting[r]
       /\ waiting' = [r \in DOMAIN waiting' |-> waiting'[r]]
  BY <1>2 DEF Applies, Without
<1>19. TypeOK'
  <2>1. DOMAIN sessions' \subseteq Ids(agreed')
    BY <1>6, <1>10, <1>11, <1>12
  <2>2. sessions' \in [DOMAIN sessions' -> Conn]
    BY <1>12, <1>16, <1>17
  <2>3. DOMAIN waiting' \subseteq 1 .. made' /\ waiting' \in [DOMAIN waiting' -> Conn]
    BY <1>18 DEF IInv, TypeOK
  <2> QED
    BY <1>6, <1>13, <2>1, <2>2, <2>3 DEF IInv, TypeOK
<1>20. Linked'
  <2>1. ASSUME NEW d \in Conn
        PROVE  /\ userConn'[d].status = "none" => userConn'[d] = NoUserConn
               /\ Live(d)' => d \in connections'
               /\ userConn'[d].waitingAuth # 0 => userConn'[d].session = 0
               /\ userConn'[d].session = 0 => userConn'[d].deliver = <<>>
    <3>1. userConn'[d].status = "none" => userConn'[d] = NoUserConn
      <4>1. userConn'[d].status = "none" => userConn[d].status = "none"
        BY <1>14
      <4>2. userConn[d].status = "none" => userConn[d] = NoUserConn /\ d \notin waiters
        BY <1>16 DEF IInv, Linked
      <4> QED
        BY <1>14, <4>1, <4>2
    <3>2. Live(d)' => d \in connections'
      BY <1>1, <1>15 DEF IInv, Linked
    <3>3. /\ userConn[d].waitingAuth # 0 => userConn[d].session = 0
          /\ userConn[d].session = 0 => userConn[d].deliver = <<>>
      BY DEF IInv, Linked
    <3>4. CASE d \in waiters
      <4>1. userConn'[d].waitingAuth = 0 /\ userConn'[d].deliver = <<>>
        BY <1>14, <1>16, <3>4
      <4> QED
        BY <3>1, <3>2, <4>1
    <3>5. CASE d \notin waiters
      <4>1. /\ userConn'[d].waitingAuth = userConn[d].waitingAuth
            /\ userConn'[d].session = userConn[d].session
            /\ userConn'[d].deliver = userConn[d].deliver
        BY <1>14, <3>5
      <4> QED
        BY <3>1, <3>2, <3>3, <4>1
    <3> QED
      BY <3>4, <3>5
  <2>2. ASSUME NEW r \in DOMAIN waiting'
        PROVE  /\ userConn'[waiting'[r]].status \in {"open", "closed"}
               /\ userConn'[waiting'[r]].waitingAuth = r
    <3>1. PICK d : d = waiting[r]
      OBVIOUS
    <3>2. r \in DOMAIN waiting /\ r \notin ids /\ waiting'[r] = d
      BY <1>18, <3>1
    <3>3. /\ d \in Conn /\ userConn[d].waitingAuth = r
          /\ userConn[d].status \in {"open", "closed"}
      BY <3>1, <3>2 DEF IInv, TypeOK, Linked
    <3>4. d \notin waiters
      BY <1>16, <3>2, <3>3
    <3>5. /\ userConn'[d].status \in {userConn[d].status, "closed"}
          /\ userConn'[d].waitingAuth = userConn[d].waitingAuth
      BY <1>14, <3>3, <3>4
    <3> QED
      BY <3>2, <3>3, <3>5
  <2> QED
    BY <2>1, <2>2 DEF Linked
<1>21. SessionOwned'
  <2>1. ASSUME NEW s \in DOMAIN sessions'
        PROVE  /\ userConn'[sessions'[s]].status # "none"
               /\ userConn'[sessions'[s]].session = s
    <3>1. CASE s \in new
      <4>1. PICK d \in waiters : sessions'[s] = d
        BY <1>12, <3>1
      <4>2. n = s
        BY <1>10, <1>12, <3>1
      <4> QED
        BY <1>14, <1>16, <3>1, <4>1, <4>2
    <3>2. CASE s \notin new
      <4>1. PICK d \in Conn : d = sessions[s]
        BY <1>12, <1>17, <3>2
      <4>2. sessions'[s] = d /\ d \notin waiters /\ userConn[d].session = s
            /\ userConn[d].status # "none"
        BY <1>12, <1>17, <3>2, <4>1
      <4> QED
        BY <1>14, <4>2
    <3> QED
      BY <3>1, <3>2
  <2>2. ASSUME NEW d \in Conn
        PROVE  ToSet(userConn'[d].deliver) \subseteq {userConn'[d].session}
    <3>1. CASE d \in waiters
      <4>1. ToSet(<<>>) = {}
        BY DEF ToSet
      <4>2. userConn'[d].deliver = userConn[d].deliver
        BY <1>14
      <4>3. userConn[d].deliver = <<>>
        BY <1>16, <3>1
      <4> QED
        BY <4>1, <4>2, <4>3
    <3>2. CASE d \notin waiters
      <4>1. /\ userConn'[d].deliver = userConn[d].deliver
            /\ userConn'[d].session = userConn[d].session
        BY <1>14, <3>2
      <4> QED
        BY <4>1 DEF IInv, SessionOwned
    <3> QED
      BY <3>1, <3>2
  <2>3. ASSUME NEW d \in Conn, Live(d)', userConn'[d].session # 0
        PROVE  /\ userConn'[d].session \in DOMAIN sessions'
               /\ sessions'[userConn'[d].session] = d
    <3>1. CASE d \in waiters /\ new # {}
      BY <1>12, <1>14, <1>16, <3>1
    <3>2. CASE ~(d \in waiters /\ new # {})
      <4>1. PICK s : s = userConn[d].session
        OBVIOUS
      <4>2. userConn'[d].session = s
        BY <1>14, <3>2, <4>1
      <4>3. Live(d) /\ d \notin C
        BY <1>15, <2>3
      <4>4. s \in DOMAIN sessions /\ sessions[s] = d
        BY <2>3, <4>1, <4>2, <4>3 DEF IInv, SessionOwned
      <4>5. s \notin gone
        BY <1>17, <4>3, <4>4
      <4> QED
        BY <1>12, <4>2, <4>4, <4>5
    <3> QED
      BY <3>1, <3>2
  <2> QED
    BY <2>1, <2>2, <2>3 DEF SessionOwned
<1>22. ASSUME NEW e, NEW kind \in {"user", "session"}, e \in OfKind(agreed, kind),
              e \notin gone
       PROVE  e \in OfKind(agreed', kind)
  <2>1. Value(agreed, e, Kind) = kind /\ kind # NoValue
    BY <1>6, <1>22, KindsExist, Strings
  <2>2. e \in Ids(agreed) /\ Exists(agreed, e)
    BY <1>6, <2>1, IdsFacts DEF Value
  <2>3. Exists(agreed', e)
    BY <1>9, <1>22, <2>2
  <2>4. Value(agreed', e, Kind) = kind
    BY <1>7, <2>1, <2>2, <2>3
  <2> QED
    BY <1>6, <2>4, KindsExist
<1>23. ConnectedToExisting'
  <2>1. ASSUME NEW d \in Conn, Live(d)'
        PROVE  userConn'[d].session \in {0} \cup OfKind(agreed', "session")
    <3>1. CASE d \in waiters /\ new # {}
      <4>1. userConn'[d].session = n /\ n \in new
        BY <1>10, <1>12, <1>14, <3>1
      <4> QED
        BY <1>10, <4>1
    <3>2. CASE ~(d \in waiters /\ new # {})
      <4>1. PICK s : s = userConn[d].session
        OBVIOUS
      <4>2. userConn'[d].session = s
        BY <1>14, <3>2, <4>1
      <4>3. Live(d) /\ d \notin C
        BY <1>15, <2>1
      <4>4. s # 0 => s \in DOMAIN sessions /\ sessions[s] = d
        BY <4>1, <4>3 DEF IInv, SessionOwned
      <4>5. s # 0 => s \in OfKind(agreed, "session") /\ s \notin gone
        BY <1>17, <4>1, <4>3, <4>4 DEF IInv, ConnectedToExisting, State
      <4> QED
        BY <1>22, <4>2, <4>5
    <3> QED
      BY <3>1, <3>2
  <2>2. ASSUME NEW d \in Conn, Live(d)'
        PROVE  userConn'[d].following \subseteq OfKind(agreed', "user")
    <3>1. Live(d) /\ d \in connections
      BY <1>15, <2>2 DEF IInv, Linked
    <3>2. userConn'[d].following = userConn[d].following \ goneUsers
      BY <1>14, <3>1
    <3>3. userConn[d].following \subseteq OfKind(agreed, "user")
      BY <3>1 DEF IInv, ConnectedToExisting, State
    <3>4. goneUsers = gone \cap OfKind(agreed, "user")
      BY <1>2 DEF Applies
    <3>5. ASSUME NEW u \in userConn'[d].following
          PROVE  u \in OfKind(agreed', "user")
      <4>1. u \in OfKind(agreed, "user") /\ u \notin gone
        BY <3>2, <3>3, <3>4
      <4> QED
        BY <1>22, <4>1
    <3> QED
      BY <3>5
  <2> QED
    BY <2>1, <2>2 DEF ConnectedToExisting, State
<1>25. WaitersAnswered'
  <2>1. ASSUME NEW d \in Conn, Live(d)', userConn'[d].waitingAuth # 0
        PROVE  \E r \in requested' :
                  /\ r.id = userConn'[d].waitingAuth
                  /\ r.id \in DOMAIN waiting' /\ waiting'[r.id] = d
    <3>1. /\ Live(d) /\ d \notin waiters
          /\ userConn'[d].waitingAuth = userConn[d].waitingAuth
      BY <1>14, <1>15, <2>1
    <3>2. PICK r \in requested : /\ r.id = userConn[d].waitingAuth
                                 /\ r.id \in DOMAIN waiting /\ waiting[r.id] = d
      BY <2>1, <3>1 DEF IInv, WaitersAnswered
    <3>3. r.id \notin ids
      BY <1>5, <3>1, <3>2
    <3>4. r \in requested'
      BY <3>2, <3>3 DEF Chosen
    <3> QED
      BY <1>18, <3>1, <3>2, <3>3, <3>4
  <2> QED
    BY <2>1 DEF WaitersAnswered
<1> QED
  BY <1>19, <1>20, <1>21, <1>23, <1>25 DEF IInv

LEMMA ChooseStep ==
    ASSUME IInv, NEW ch \in Requests(agreed), NEW ids, Chosen(ch, ids), Choose(ch, ids)
    PROVE  IInv'
<1>1. PICK res : res = applyChanges(agreed, ch, FALSE)
  OBVIOUS
<1>2. /\ res.complete /\ agreed' = res.state
      /\ IF degraded THEN UNCHANGED <<userConn, sessions, waiting, timerVars>>
         ELSE Apply(res, ids)
      /\ UNCHANGED <<degraded, connections, made>>
  BY <1>1 DEF Choose
<1>3. CASE degraded
  BY <1>1, <1>2, <1>3, ChoosingDegraded
<1>4. CASE ~degraded
  BY <1>1, <1>2, <1>4, ApplyingStep
<1> QED
  BY <1>3, <1>4

LEMMA ChooseOursStep ==
    ASSUME IInv, NEW r \in requested, ChooseOurs(r)
    PROVE  IInv'
<1>1. PICK ch \in Requests(agreed) : ch = r.changes
  BY DEF IInv, TypeOK
<1>2. PICK ids : ids = {r.id}
  OBVIOUS
<1>3. Chosen(ch, ids) /\ Choose(ch, ids)
  BY <1>1, <1>2 DEF ChooseOurs, Chosen
<1> QED
  BY <1>3, ChooseStep

LEMMA ElsewhereFacts ==
    ASSUME TypeOK, NEW node \in Others
    PROVE  ElsewhereRequests(node) \subseteq Requests(agreed)
<1>1. Consistent(agreed)
  BY DEF TypeOK
<1>2. \A s \in OfKind(agreed, "session") : s \in Sessions(agreed)
  <2>1. \A s \in OfKind(agreed, "session") : Value(agreed, s, Kind) = "session"
    BY <1>1, KindsExist
  <2>2. \A s \in OfKind(agreed, "session") : s \in Ids(agreed)
    BY <1>1, <2>1, IdsFacts, Strings
  <2> QED
    BY <2>1, <2>2 DEF Sessions
<1>3. Sessions(agreed) \subseteq Ids(agreed)
  BY DEF Sessions
<1>4. \A u \in OfKind(agreed, "user") : u \in Ids(agreed)
  <2>1. \A u \in OfKind(agreed, "user") : Value(agreed, u, Kind) = "user"
    BY <1>1, KindsExist
  <2> QED
    BY <1>1, <2>1, IdsFacts, Strings
<1>5. Nameless(agreed) \subseteq OfKind(agreed, "user")
  BY DEF Nameless, Named
<1> SUFFICES ASSUME NEW ch \in ElsewhereRequests(node) PROVE ch \in Requests(agreed)
  OBVIOUS
<1>6. \/ \E name \in Names : ch = makeNewUserRequest(node, name)
      \/ \E u \in OfKind(agreed, "user") : ch = makeNewSessionRequest(node, u)
      \/ \E s \in OfKind(agreed, "session") : ch = AttachRequest(node, s)
      \/ \E s \in OfKind(agreed, "session") : ch = DetachRequest(node, s)
      \/ \E u \in Nameless(agreed) : ch = DeleteRequest(u)
  BY DEF ElsewhereRequests
<1>7. Others \subseteq NodeIDs
  BY OurNodes
<1> QED
  BY <1>2, <1>3, <1>4, <1>5, <1>6, <1>7 DEF Requests

LEMMA ChooseElsewhereStep ==
    ASSUME IInv, ChooseElsewhere
    PROVE  IInv'
<1>1. PICK node \in Others : \E ch \in ElsewhereRequests(node) : Choose(ch, {})
  BY DEF ChooseElsewhere
<1>2. PICK ch \in ElsewhereRequests(node) : Choose(ch, {})
  BY <1>1
<1>3. ch \in Requests(agreed)
  BY <1>2, ElsewhereFacts DEF IInv
<1>4. Chosen(ch, {})
  BY DEF ChooseElsewhere, Chosen
<1> QED
  BY <1>2, <1>3, <1>4, ChooseStep

LEMMA InitStep == Init => IInv
<1> SUFFICES ASSUME Init PROVE IInv
  OBVIOUS
<1>1. /\ agreed = EmptyState /\ degraded = FALSE /\ requested = {}
      /\ connections = {} /\ userConn = [c \in Conn |-> NoUserConn]
      /\ sessions = <<>> /\ waiting = <<>> /\ made = 0
  BY DEF Init
<1>2. NoUserConn \in ConnStates
  <2>1. <<>> \in Seq(Nat)
    OBVIOUS
  <2> QED
    BY <2>1 DEF NoUserConn, ConnStates
<1>3. /\ DOMAIN sessions = {} /\ DOMAIN waiting = {}
      /\ sessions \in [{} -> Conn] /\ waiting \in [{} -> Conn]
  BY <1>1
<1>4. TypeOK
  BY <1>1, <1>2, <1>3, EmptyConsistent DEF TypeOK
<1>5. \A c \in Conn : /\ ~Live(c) /\ userConn[c] = NoUserConn
                      /\ userConn[c].session = 0 /\ userConn[c].waitingAuth = 0
                      /\ userConn[c].deliver = <<>>
  BY <1>1 DEF Live, NoUserConn
<1>6. Linked
  BY <1>1, <1>3, <1>5 DEF Linked
<1>7. SessionOwned
  <2>1. ToSet(<<>>) = {}
    BY DEF ToSet
  <2> QED
    BY <1>3, <1>5, <2>1 DEF SessionOwned
<1>8. ConnectedToExisting /\ WaitersAnswered
  BY <1>5 DEF ConnectedToExisting, WaitersAnswered
<1> QED
  BY <1>4, <1>6, <1>7, <1>8 DEF IInv

LEMMA NextStep == IInv /\ [Next]_vars => IInv'
<1> SUFFICES ASSUME IInv, [Next]_vars PROVE IInv'
  OBVIOUS
<1>1. CASE UNCHANGED vars
  <2>1. UNCHANGED <<agreed, degraded, requested, connections, userConn,
                    sessions, waiting, timerVars, made>>
    BY <1>1 DEF vars, listenerVars
  <2>2. Closed(userConn, {}) = userConn
    BY DEF Closed, IInv, TypeOK
  <2> QED
    BY <2>1, <2>2, Closing
<1>2. ASSUME NEW c \in Conn, IncomingConn(c) PROVE IInv'
  BY <1>2, IncomingConnStep
<1>3. ASSUME NEW c \in Conn, Disconnect(c) PROVE IInv'
  BY <1>3, DisconnectStep
<1>4. ASSUME NEW c \in Conn, HandleAuth(c) PROVE IInv'
  BY <1>4, HandleAuthStep
<1>5. ASSUME NEW c \in Conn, Received(c) PROVE IInv'
  BY <1>5, ReceivedStep
<1>6. ASSUME NEW c \in Conn, CleanupWaiting(c) PROVE IInv'
  BY <1>6, CleanupWaitingStep
<1>7. ASSUME NEW c \in Conn, CleanupSession(c) PROVE IInv'
  BY <1>7, CleanupSessionStep
<1>8. ASSUME NEW c \in Conn, NEW u \in Entities, NEW follows \in BOOLEAN,
             HandleFollow(c, u, follows)
      PROVE  IInv'
  BY <1>8, HandleFollowStep
<1>9. ASSUME NEW c \in Conn, NEW s \in Entities, HandleSend(c, s) PROVE IInv'
  BY <1>9, HandleSendStep
<1>10. ASSUME NEW s \in Entities, HandleForward(s) PROVE IInv'
  BY <1>10, HandleForwardStep
<1>11. ASSUME NEW r \in requested, ChooseOurs(r) PROVE IInv'
  BY <1>11, ChooseOursStep
<1>12. CASE ChooseElsewhere
  BY <1>12, ChooseElsewhereStep
<1>13. CASE Degrade
  BY <1>13, DegradeStep
<1>14. CASE Undegrade
  BY <1>14, UndegradeStep
<1>15. ASSUME NEW e \in Entities, OrphanTimeout(e) PROVE IInv'
  BY <1>15, OrphanTimeoutStep
<1>16. ASSUME NEW e \in Entities, NamelessTimeout(e) PROVE IInv'
  BY <1>16, NamelessTimeoutStep
<1> QED
  BY <1>1, <1>2, <1>3, <1>4, <1>5, <1>6, <1>7, <1>8, <1>9, <1>10, <1>11, <1>12,
     <1>13, <1>14, <1>15, <1>16 DEF Next

LEMMA Inductive == Spec => []IInv
BY InitStep, NextStep, PTL DEF Spec

(* The variables have their types: the state that instructions make stays  *)
(* consistent, whatever is requested by whom and applied late, and the     *)
(* maps of sessions and of those who wait lead to connections              *)
(* (main.go:22-52).                                                        *)
THEOREM Types == Spec => []TypeOK
<1>1. IInv => TypeOK
  BY DEF IInv
<1> QED
  BY <1>1, Inductive, PTL

(* The sessions map and the connections agree whatever the order in which  *)
(* users come back, instructions are applied and connections cleaned up    *)
(* (handle.go:253-274, events.go:276-285, deliver.go:25).                  *)
THEOREM SessionsOwned == Spec => []SessionOwned
<1>1. IInv => SessionOwned
  BY DEF IInv
<1> QED
  BY <1>1, Inductive, PTL

(* The session of a live connection exists, and so do the users that it    *)
(* follows, although other nodes delete them and the node may lose its     *)
(* state (events.go:161-231).                                              *)
THEOREM LiveConnections == Spec => []ConnectedToExisting
<1>1. IInv => ConnectedToExisting
  BY DEF IInv
<1> QED
  BY <1>1, Inductive, PTL

(* Whoever waits for a request is found by its ID when it is chosen, and   *)
(* it is still to be chosen (handle.go:284-287, events.go:26).             *)
THEOREM AnswersComing == Spec => []WaitersAnswered
<1>1. IInv => WaitersAnswered
  BY DEF IInv
<1> QED
  BY <1>1, Inductive, PTL

(* No two users have the same name, although nodes request users of that   *)
(* name at the same time (instructions.go:551-601).                        *)
THEOREM UniqueUsernames == Spec => []NamesUnique
<1>1. TypeOK => NamesUnique
  <2> SUFFICES ASSUME TypeOK, NEW name \in Names \ {NoValue}
               PROVE  Cardinality(Named(agreed, "user", name)) <= 1
    BY DEF NamesUnique
  <2>1. Consistent(agreed) /\ name # NoValue
    BY DEF TypeOK
  <2>2. \A u, v \in Named(agreed, "user", name) : u = v
    <3>1. \A u \in Named(agreed, "user", name) :
             Value(agreed, u, Kind) = "user" /\ Value(agreed, u, Name) = name
      BY <2>1, KindsExist DEF Named
    <3> QED
      BY <2>1, <3>1 DEF Consistent, UniqueNames
  <2>3. CASE Named(agreed, "user", name) = {}
    BY <2>3, FS_EmptySet
  <2>4. CASE Named(agreed, "user", name) # {}
    <3>1. PICK u : Named(agreed, "user", name) = {u}
      BY <2>2, <2>4
    <3>2. Cardinality({u}) = 1
      BY FS_Singleton
    <3> QED
      BY <3>1, <3>2
  <2> QED
    BY <2>3, <2>4
<1> QED
  BY <1>1, Types, PTL

(* What a request changes, sent in a burst, changes the same there, in     *)
(* each state of the system and for each request that is to be chosen      *)
(* (instructions.go:358-360).                                              *)
THEOREM BurstsReplay == Spec => []IdempotentForm
<1>1. TypeOK => IdempotentForm
  <2> SUFFICES ASSUME TypeOK, NEW r \in requested
               PROVE  applyChanges(agreed,
                          applyChanges(agreed, r.changes, FALSE).changes, TRUE).state
                      = applyChanges(agreed, r.changes, FALSE).state
    BY DEF IdempotentForm
  <2>1. Consistent(agreed) /\ r.changes \in Requests(agreed)
    BY DEF TypeOK
  <2> QED
    BY <2>1, IdempotentApplied
<1> QED
  BY <1>1, Types, PTL
==============================================================================
