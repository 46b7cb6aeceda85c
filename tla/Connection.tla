------------------------------ MODULE Connection ------------------------------
(***************************************************************************)
(* A BaseConn at each end of a network connection, shared/connect: the     *)
(* goroutine that reads, the one that negotiates and writes, the channels  *)
(* between them and the node, and how the connection ends.                 *)
(*                                                                         *)
(* Messages are numbered in the order in which Send takes them; framing    *)
(* and decoding, whose errors end a connection, are left out: both ends    *)
(* speak the protocol.  Each end has one goroutine that sends and one that *)
(* handles what comes out.  At a node both need the transaction, so that a *)
(* connection between two nodes has two Transactional ends; a user's end,  *)
(* which is not in this repository, has no transactions.                   *)
(***************************************************************************)
EXTENDS Sequences, Integers

CONSTANTS
    End,            \* the two ends
    SendCap,        \* the sizes of the channels send and received
    ReceivedCap,
    WireCap,        \* bound: messages under way before a Write blocks
    Transactional,  \* the ends that handle no message while they send one
    MaxSends,       \* bound: MaxSends[e] messages are sent from e
    StaysUp         \* bound: whether nothing ends the connection

ASSUME ConnectionAssumption ==
    /\ \E e, f \in End : e # f /\ End = {e, f}
    /\ Transactional \subseteq End
    /\ {SendCap, ReceivedCap, WireCap} \subseteq Nat \ {0}
    /\ MaxSends \in [End -> Nat]
    /\ StaysUp \in BOOLEAN

VARIABLES
    calling,        \* the ends where a Send has not returned
    send, received, \* the channels of each end
    receivedCapabilities,   \* the ends whose channel of that name is full
    stop,           \* the ends where Close was called
    writer,         \* "negotiating", "open", or "done": writeLoop ended
    writing,        \* what writeLoop is about to write
    waitingMsgs,    \* what it keeps until negotiation is done
    reading,        \* the message that readLoop has read but not passed on
    readers,        \* the ends where readLoop runs
    wire,           \* wire[e]: messages under way to e
    broken,         \* whether the network lost the connection
    sent, got, ended    \* what the users of the two ends saw; see Link

vars == <<calling, send, received, receivedCapabilities, stop, writer,
          writing, waitingMsgs, reading, readers, wire, broken, sent, got,
          ended>>

Peer(e) == CHOOSE f \in End : f # e

Capabilities == 0

(* close(disconnected) is the last that writeLoop does.                    *)
Disconnected(e) == writer[e] = "done"

(* The network connection of e is dead, but for what e itself closed.      *)
Dead(e) == broken \/ Disconnected(Peer(e))

-----------------------------------------------------------------------------
(* The node at e: Send, Close, and the handler of Received.                *)

(* A goroutine of e calls Send.                                            *)
Call(e) ==
    /\ e \notin calling /\ Len(sent[e]) < MaxSends[e]
    /\ calling' = calling \cup {e}
    /\ UNCHANGED <<send, received, receivedCapabilities, stop, writer,
                   writing, waitingMsgs, reading, readers, wire, broken,
                   sent, got, ended>>

(* Send returns: false, or true although the connection may be dead.       *)
Send(e) ==
    LET m == Len(sent[e]) + 1
    IN  /\ e \in calling
        /\ calling' = calling \ {e}
        /\ \/ /\ Disconnected(e)
              /\ UNCHANGED <<send, sent>>
           \/ /\ Len(send[e]) < SendCap
              /\ send' = [send EXCEPT ![e] = Append(@, m)]
              /\ sent' = [sent EXCEPT ![e] = Append(@, m)]
        /\ UNCHANGED <<received, receivedCapabilities, stop, writer, writing,
                       waitingMsgs, reading, readers, wire, broken, got,
                       ended>>

Close(e) ==
    /\ ~StaysUp
    /\ e \notin stop /\ ~broken
    /\ stop' = stop \cup {e}
    /\ UNCHANGED <<calling, send, received, receivedCapabilities, writer,
                   writing, waitingMsgs, reading, readers, wire, broken,
                   sent, got, ended>>

(* A handler in need of the transaction that a sender is in waits for it.  *)
Receive(e) ==
    /\ e \notin ended
    /\ e \in Transactional => e \notin calling
    /\ IF received[e] # <<>>
       THEN /\ got' = [got EXCEPT ![e] = Append(@, Head(received[e]))]
            /\ received' = [received EXCEPT ![e] = Tail(@)]
            /\ UNCHANGED ended
       ELSE /\ e \notin readers
            /\ ended' = ended \cup {e}
            /\ UNCHANGED <<got, received>>
    /\ UNCHANGED <<calling, send, receivedCapabilities, stop, writer, writing,
                   waitingMsgs, reading, readers, wire, broken, sent>>

-----------------------------------------------------------------------------
(* readLoop.                                                               *)

ReadMsg(e) ==
    /\ e \in readers /\ reading[e] = <<>>
    /\ wire[e] # <<>>
    /\ reading' = [reading EXCEPT ![e] = <<Head(wire[e])>>]
    /\ wire' = [wire EXCEPT ![e] = Tail(@)]
    /\ UNCHANGED <<calling, send, received, receivedCapabilities, stop,
                   writer, writing, waitingMsgs, readers, broken, sent, got,
                   ended>>

\* Mutant of PassOn: capabilities are not told apart.
PassOnAll(e) ==
    /\ reading[e] # <<>>
    /\ reading' = [reading EXCEPT ![e] = <<>>]
    /\ Len(received[e]) < ReceivedCap
    /\ received' = [received EXCEPT ![e] = @ \o reading[e]]
    /\ UNCHANGED <<calling, send, receivedCapabilities, stop, writer, writing,
                   waitingMsgs, readers, wire, broken, sent, got, ended>>

(* It waits while the channel is full, even after the connection died.     *)
PassOn(e) ==
    /\ reading[e] # <<>>
    /\ reading' = [reading EXCEPT ![e] = <<>>]
    /\ IF Head(reading[e]) = Capabilities
       THEN /\ e \notin receivedCapabilities
            /\ receivedCapabilities' = receivedCapabilities \cup {e}
            /\ UNCHANGED received
       ELSE /\ Len(received[e]) < ReceivedCap
            /\ received' = [received EXCEPT ![e] = @ \o reading[e]]
            /\ UNCHANGED receivedCapabilities
    /\ UNCHANGED <<calling, send, stop, writer, writing, waitingMsgs, readers,
                   wire, broken, sent, got, ended>>

\* Mutant of ReadError: without the call of Close.
ReadErrorIgnored(e) ==
    /\ e \in readers /\ reading[e] = <<>>
    /\ Disconnected(e) \/ Dead(e)
    /\ readers' = readers \ {e}
    /\ UNCHANGED <<calling, send, received, receivedCapabilities, stop,
                   writer, writing, waitingMsgs, reading, wire, broken, sent,
                   got, ended>>

(* Read fails, perhaps with messages lost: Received and stop are closed.   *)
ReadError(e) ==
    /\ e \in readers /\ reading[e] = <<>>
    /\ Disconnected(e) \/ Dead(e)
    /\ readers' = readers \ {e}
    /\ stop' = stop \cup {e}
    /\ UNCHANGED <<calling, send, received, receivedCapabilities, writer,
                   writing, waitingMsgs, reading, wire, broken, sent, got,
                   ended>>

-----------------------------------------------------------------------------
(* writeLoop.                                                              *)
Selecting(e) == ~Disconnected(e) /\ writing[e] = <<>>

WriteMsg(e) ==
    /\ writing[e] # <<>>
    /\ Dead(e) \/ Len(wire[Peer(e)]) < WireCap
    /\ writing' = [writing EXCEPT ![e] = Tail(@)]
    /\ wire' = IF Dead(e) THEN wire
               ELSE [wire EXCEPT ![Peer(e)] = Append(@, Head(writing[e]))]
    /\ UNCHANGED <<calling, send, received, receivedCapabilities, stop,
                   writer, waitingMsgs, reading, readers, broken, sent, got,
                   ended>>

Disconnect(e) ==
    /\ writer' = [writer EXCEPT ![e] = "done"]
    /\ writing' = [writing EXCEPT ![e] = <<>>]
    /\ waitingMsgs' = [waitingMsgs EXCEPT ![e] = <<>>]
    /\ wire' = [wire EXCEPT ![e] = <<>>]
    /\ UNCHANGED <<calling, send, received, receivedCapabilities, stop,
                   reading, readers, broken, sent, got, ended>>

(* Nobody looks at the error of writeCapabilities, which is as if it had   *)
(* been written in vain.                                                   *)
WriteError(e) ==
    /\ writing[e] # <<>> /\ Head(writing[e]) # Capabilities
    /\ Dead(e)
    /\ Disconnect(e)

StopWriting(e) == Selecting(e) /\ e \in stop /\ Disconnect(e)

TakeMsg(e) ==
    /\ Selecting(e) /\ send[e] # <<>>
    /\ send' = [send EXCEPT ![e] = Tail(@)]
    /\ IF writer[e] = "negotiating"
       THEN /\ waitingMsgs' = [waitingMsgs EXCEPT ![e] =
                                   Append(@, Head(send[e]))]
            /\ UNCHANGED writing
       ELSE /\ writing' = [writing EXCEPT ![e] = <<Head(send[e])>>]
            /\ UNCHANGED waitingMsgs
    /\ UNCHANGED <<calling, received, receivedCapabilities, stop, writer,
                   reading, readers, wire, broken, sent, got, ended>>

\* Mutant of TakeCapabilities: messages that wait are not sent.
TakeCapabilitiesOnly(e) ==
    /\ Selecting(e) /\ writer[e] = "negotiating"
    /\ e \in receivedCapabilities
    /\ receivedCapabilities' = receivedCapabilities \ {e}
    /\ writer' = [writer EXCEPT ![e] = "open"]
    /\ waitingMsgs' = [waitingMsgs EXCEPT ![e] = <<>>]
    /\ UNCHANGED <<calling, send, received, stop, writing, reading, readers,
                   wire, broken, sent, got, ended>>

TakeCapabilities(e) ==
    /\ Selecting(e) /\ writer[e] = "negotiating"
    /\ e \in receivedCapabilities
    /\ receivedCapabilities' = receivedCapabilities \ {e}
    /\ writer' = [writer EXCEPT ![e] = "open"]
    /\ writing' = [writing EXCEPT ![e] = waitingMsgs[e]]
    /\ waitingMsgs' = [waitingMsgs EXCEPT ![e] = <<>>]
    /\ UNCHANGED <<calling, send, received, stop, reading, readers, wire,
                   broken, sent, got, ended>>

-----------------------------------------------------------------------------
(* Bound: the network fails only a connection that nobody has closed, and  *)
(* nobody closes one that has failed; readLoop does so soon.               *)
Break ==
    /\ ~StaysUp
    /\ ~broken /\ stop = {}
    /\ broken' = TRUE
    /\ UNCHANGED <<calling, send, received, receivedCapabilities, stop,
                   writer, writing, waitingMsgs, reading, readers, wire, sent,
                   got, ended>>

readLoop(e) == ReadMsg(e) \/ PassOn(e) \/ ReadError(e)

writeLoop(e) ==
    \/ WriteMsg(e) \/ WriteError(e)
    \/ StopWriting(e) \/ TakeMsg(e) \/ TakeCapabilities(e)

Init ==
    /\ calling = {} /\ receivedCapabilities = {} /\ stop = {}
    /\ send = [e \in End |-> <<>>] /\ received = [e \in End |-> <<>>]
    /\ writer = [e \in End |-> "negotiating"]
    /\ writing = [e \in End |-> <<Capabilities>>]
    /\ waitingMsgs = [e \in End |-> <<>>]
    /\ reading = [e \in End |-> <<>>] /\ readers = End
    /\ wire = [e \in End |-> <<>>] /\ broken = FALSE
    /\ sent = [e \in End |-> <<>>] /\ got = [e \in End |-> <<>>]
    /\ ended = {}

Next ==
    \/ \E e \in End :
          \/ Call(e) \/ Send(e) \/ Close(e) \/ Receive(e)
          \/ readLoop(e) \/ writeLoop(e)
    \/ Break

(* Goroutines that can go on do so.  When a select has several cases ready *)
(* any one is taken, and messages to take run out.  Goroutines that wait   *)
(* for a transaction get it in turn.                                       *)
Fairness ==
    \A e \in End :
        /\ WF_vars(Send(e))
        /\ IF e \in Transactional THEN SF_vars(Receive(e))
                                  ELSE WF_vars(Receive(e))
        /\ WF_vars(readLoop(e)) /\ WF_vars(writeLoop(e))

Spec == Init /\ [][Next]_vars /\ Fairness

-----------------------------------------------------------------------------
Links == INSTANCE Link WITH Message <- UNION {1 .. MaxSends[e] : e \in End}

(* What comes out at one end is a prefix of what Send took at the other,   *)
(* through negotiation, full channels and the end of the connection; what  *)
(* follow and consensus assume of the order of their messages.             *)
ImplementsLink == Links!Spec

(* A connection closed at either end, or lost, comes to its end at both:   *)
(* their handlers find Received closed, all others Disconnected, and a Send*)
(* that is blocked by full channels is canceled, as long as the handlers   *)
(* read on (baseconn.go:45-52, 189, 255-257).                              *)
CloseEnds ==
    /\ stop # {} \/ broken ~>
           \A e \in End : Disconnected(e) /\ e \in ended
    /\ \A e \in End :
           e \in calling /\ (stop # {} \/ broken) ~> e \notin calling

(* Nothing that was taken is held up for ever, by negotiation or by full   *)
(* channels, on a connection that is not closed: whenever the senders      *)
(* pause, all of it comes to be handled at the other end.                  *)
Delivered ==
    \A e \in End :
        []<>(got[Peer(e)] = sent[e] \/ stop # {} \/ broken)

(* No Send blocks for ever, although channels and network fill up, so that *)
(* the transaction in which a node sends ends, and whoever waits for one   *)
(* continues (store/main.go:46-47, baseconn.go:302-313).                   *)
SendReturns == \A e \in End : e \in calling ~> e \notin calling
=============================================================================
