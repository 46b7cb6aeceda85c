--------------------------- MODULE ConnectionProofs ---------------------------
(***************************************************************************)
(* Proofs about Connection: a connection implements Link.                  *)
(***************************************************************************)
EXTENDS Connection, SequenceTheorems, TLAPS

TypeInvariant ==
    /\ calling \subseteq End /\ receivedCapabilities \subseteq End
    /\ stop \subseteq End /\ readers \subseteq End /\ ended \subseteq End
    /\ broken \in BOOLEAN
    /\ writer \in [End -> {"negotiating", "open", "done"}]
    /\ send \in [End -> Seq(Nat)] /\ received \in [End -> Seq(Nat)]
    /\ writing \in [End -> Seq(Nat)] /\ waitingMsgs \in [End -> Seq(Nat)]
    /\ reading \in [End -> Seq(Nat)] /\ wire \in [End -> Seq(Nat)]
    /\ sent \in [End -> Seq(Nat)] /\ got \in [End -> Seq(Nat)]

(* s holds the messages that follow number from, in order and without a    *)
(* gap.                                                                    *)
Counts(s, from) == \A i \in 1 .. Len(s) : s[i] = from + i

Capable(s) == IF s # <<>> /\ Head(s) = Capabilities THEN 1 ELSE 0
Messages(s) == Len(s) - Capable(s)

(* How many messages from e have left send, and how many writeLoop.        *)
Taken(e) == Len(sent[e]) - Len(send[e])
Passed(e) == Taken(e) - Len(waitingMsgs[e]) - Messages(writing[e])

(* The last message to e that has come as far as Received, as readLoop, or *)
(* as the network.                                                         *)
Arrived(e) == Len(got[e]) + Len(received[e])
Read(e) == Arrived(e) + Messages(reading[e])
Written(e) == Read(e) + Messages(wire[e])

Lossless(e) == ~Dead(e) /\ ~Disconnected(e)

SentInOrder(e) ==
    /\ Counts(sent[e], 0)
    /\ Len(sent[e]) <= MaxSends[e]
    /\ e \in calling => Len(sent[e]) < MaxSends[e]
    /\ Counts(send[e], Taken(e))

WriterInOrder(e) ==
    /\ Counts(waitingMsgs[e], Taken(e) - Len(waitingMsgs[e]))
    /\ Counts(writing[e], Passed(e) - Capable(writing[e]))
    /\ writer[e] = "negotiating" => writing[e] \in {<<>>, <<Capabilities>>}
    /\ writer[e] # "negotiating" =>
            waitingMsgs[e] = <<>> /\ Capable(writing[e]) = 0
    /\ Disconnected(e) => writing[e] = <<>>
    /\ Capable(writing[e]) = 1 => wire[Peer(e)] = <<>>

ReaderInOrder(e) ==
    /\ Counts(got[e], 0)
    /\ Counts(received[e], Len(got[e]))
    /\ Len(reading[e]) <= 1
    /\ Counts(reading[e], Arrived(e) - Capable(reading[e]))
    /\ Counts(wire[e], Read(e) - Capable(wire[e]))
    /\ Written(e) <= Passed(Peer(e))
    /\ Lossless(Peer(e)) => Written(e) = Passed(Peer(e))

InOrder == \A e \in End : SentInOrder(e) /\ WriterInOrder(e) /\ ReaderInOrder(e)

IInv == TypeInvariant /\ InOrder

-----------------------------------------------------------------------------
LEMMA TwoEnds ==
    ASSUME NEW e \in End
    PROVE  /\ Peer(e) \in End /\ Peer(e) # e
           /\ Peer(Peer(e)) = e
           /\ End = {e, Peer(e)}
  <1>1. PICK a \in End, b \in End : a # b /\ End = {a, b}
    BY ConnectionAssumption DEF ConnectionAssumption
  <1>2. \E f \in End : f # e
    BY <1>1
  <1>3. Peer(e) \in End /\ Peer(e) # e
    BY <1>2 DEF Peer
  <1>4. \E f \in End : f # Peer(e)
    BY <1>1
  <1>5. Peer(Peer(e)) \in End /\ Peer(Peer(e)) # Peer(e)
    BY <1>4 DEF Peer
  <1>6. QED
    BY <1>1, <1>3, <1>5

LEMMA CountsEmpty ==
    ASSUME NEW k \in Int
    PROVE  Counts(<<>>, k)
  BY DEF Counts

LEMMA CountsSingle ==
    ASSUME NEW k \in Int, NEW m \in Nat, m = k + 1
    PROVE  Counts(<<m>>, k)
  BY DEF Counts

LEMMA CountsAppend ==
    ASSUME NEW s \in Seq(Nat), NEW k \in Int, Counts(s, k),
           NEW m \in Nat, m = k + Len(s) + 1
    PROVE  Counts(Append(s, m), k)
  <1>1. /\ Len(Append(s, m)) = Len(s) + 1 /\ Len(s) \in Nat
        /\ \A i \in 1 .. Len(s) : Append(s, m)[i] = s[i]
        /\ Append(s, m)[Len(s) + 1] = m
    BY AppendProperties, LenProperties
  <1>2. QED
    BY <1>1 DEF Counts

LEMMA CountsTail ==
    ASSUME NEW s \in Seq(Nat), NEW k \in Int, Counts(s, k), s # <<>>
    PROVE  /\ Head(s) = k + 1
           /\ Counts(Tail(s), k + 1)
  <1>1. /\ Len(Tail(s)) = Len(s) - 1 /\ Len(s) \in Nat \ {0}
        /\ \A i \in 1 .. Len(Tail(s)) : Tail(s)[i] = s[i + 1]
    BY HeadTailProperties, EmptySeq
  <1>2. Head(s) = s[1]
    OBVIOUS
  <1>3. QED
    BY <1>1, <1>2 DEF Counts

-----------------------------------------------------------------------------
LEMMA TypeInit == Init => TypeInvariant
  <1>1. <<>> \in Seq(Nat) /\ <<Capabilities>> \in Seq(Nat)
    BY DEF Capabilities
  <1>2. QED
    BY <1>1 DEF Init, TypeInvariant

LEMMA TypeStep == TypeInvariant /\ [Next]_vars => TypeInvariant'
  <1> SUFFICES ASSUME TypeInvariant, [Next]_vars
               PROVE  TypeInvariant'
    OBVIOUS
  <1> USE DEF TypeInvariant
  <1>1. CASE UNCHANGED vars
    BY <1>1 DEF vars
  <1>2. CASE Break
    BY <1>2 DEF Break
  <1>3. ASSUME NEW e \in End,
               \/ Call(e) \/ Send(e) \/ Close(e) \/ Receive(e)
               \/ readLoop(e) \/ writeLoop(e)
        PROVE  TypeInvariant'
    <2>1. CASE Call(e)
      BY <2>1 DEF Call
    <2>2. CASE Send(e)
      <3>1. Len(sent[e]) + 1 \in Nat
        BY LenProperties
      <3>2. /\ Append(send[e], Len(sent[e]) + 1) \in Seq(Nat)
            /\ Append(sent[e], Len(sent[e]) + 1) \in Seq(Nat)
        BY <3>1, AppendProperties
      <3>3. send' \in [End -> Seq(Nat)] /\ sent' \in [End -> Seq(Nat)]
        <4>1. CASE UNCHANGED <<send, sent>>
          BY <4>1
        <4>2. CASE /\ send' = [send EXCEPT ![e] = Append(@, Len(sent[e]) + 1)]
                   /\ sent' = [sent EXCEPT ![e] = Append(@, Len(sent[e]) + 1)]
          BY <3>2, <4>2
        <4>3. QED
          BY <2>2, <4>1, <4>2 DEF Send
      <3>4. /\ calling' \subseteq End
            /\ UNCHANGED <<received, receivedCapabilities, stop, writer,
                           writing, waitingMsgs, reading, readers, wire,
                           broken, got, ended>>
        BY <2>2 DEF Send
      <3>5. QED
        BY <3>3, <3>4
    <2>3. CASE Close(e)
      BY <2>3 DEF Close
    <2>4. CASE Receive(e)
      <3>1. CASE received[e] # <<>>
        <4>1. Head(received[e]) \in Nat /\ Tail(received[e]) \in Seq(Nat)
          BY <3>1, HeadTailProperties
        <4>2. Append(got[e], Head(received[e])) \in Seq(Nat)
          BY <4>1, AppendProperties
        <4>3. QED
          BY <2>4, <3>1, <4>1, <4>2 DEF Receive
      <3>2. CASE received[e] = <<>>
        BY <2>4, <3>2 DEF Receive
      <3>3. QED
        BY <3>1, <3>2
    <2>5. CASE ReadMsg(e)
      <3>1. Head(wire[e]) \in Nat /\ Tail(wire[e]) \in Seq(Nat)
        BY <2>5, HeadTailProperties DEF ReadMsg
      <3>2. <<Head(wire[e])>> \in Seq(Nat)
        BY <3>1
      <3>3. QED
        BY <2>5, <3>1, <3>2 DEF ReadMsg
    <2>6. CASE PassOn(e)
      <3>1. received[e] \o reading[e] \in Seq(Nat)
        BY ConcatProperties
      <3>2. <<>> \in Seq(Nat)
        OBVIOUS
      <3>3. QED
        BY <2>6, <3>1, <3>2 DEF PassOn
    <2>7. CASE ReadError(e)
      BY <2>7 DEF ReadError
    <2>8. CASE WriteMsg(e)
      <3>1. Head(writing[e]) \in Nat /\ Tail(writing[e]) \in Seq(Nat)
        BY <2>8, HeadTailProperties DEF WriteMsg
      <3>2. Peer(e) \in End /\ Append(wire[Peer(e)], Head(writing[e])) \in Seq(Nat)
        BY <3>1, TwoEnds, AppendProperties
      <3>3. QED
        BY <2>8, <3>1, <3>2 DEF WriteMsg
    <2>9. CASE WriteError(e) \/ StopWriting(e)
      <3>1. <<>> \in Seq(Nat)
        OBVIOUS
      <3>2. Disconnect(e)
        BY <2>9 DEF WriteError, StopWriting
      <3>3. QED
        BY <3>1, <3>2 DEF Disconnect
    <2>10. CASE TakeMsg(e)
      <3>1. Head(send[e]) \in Nat /\ Tail(send[e]) \in Seq(Nat)
        BY <2>10, HeadTailProperties DEF TakeMsg
      <3>2. /\ Append(waitingMsgs[e], Head(send[e])) \in Seq(Nat)
            /\ <<Head(send[e])>> \in Seq(Nat)
        BY <3>1, AppendProperties
      <3>3. QED
        BY <2>10, <3>1, <3>2 DEF TakeMsg
    <2>11. CASE TakeCapabilities(e)
      BY <2>11 DEF TakeCapabilities
    <2>12. QED
      BY <1>3, <2>1, <2>2, <2>3, <2>4, <2>5, <2>6, <2>7, <2>8, <2>9, <2>10,
         <2>11 DEF readLoop, writeLoop
  <1>4. QED
    BY <1>1, <1>2, <1>3 DEF Next

-----------------------------------------------------------------------------
LEMMA OrderInit == Init => InOrder
  <1> SUFFICES ASSUME Init, NEW e \in End
               PROVE  SentInOrder(e) /\ WriterInOrder(e) /\ ReaderInOrder(e)
    BY DEF InOrder
  <1>1. Peer(e) \in End
    BY TwoEnds
  <1> USE <1>1 DEF Init
  <1>2. MaxSends[e] \in Nat
    BY ConnectionAssumption DEF ConnectionAssumption
  <1>3. SentInOrder(e)
    BY <1>2, CountsEmpty DEF SentInOrder, Taken
  <1>4. /\ Capable(<<>>) = 0 /\ Messages(<<>>) = 0
        /\ Capable(<<Capabilities>>) = 1 /\ Messages(<<Capabilities>>) = 0
    BY DEF Capable, Messages, Capabilities
  <1>5. \A f \in End : Passed(f) = 0
    BY <1>4 DEF Passed, Taken
  <1>6. WriterInOrder(e)
    <2>1. Counts(<<Capabilities>>, -1)
      BY DEF Counts, Capabilities
    <2>2. QED
      BY <1>4, <1>5, <2>1, CountsEmpty
         DEF WriterInOrder, Taken, Disconnected
  <1>7. ReaderInOrder(e)
    <2>1. Arrived(e) = 0 /\ Read(e) = 0 /\ Written(e) = 0
      BY <1>4 DEF Arrived, Read, Written
    <2>2. QED
      BY <1>4, <1>5, <2>1, CountsEmpty DEF ReaderInOrder
  <1>8. QED
    BY <1>3, <1>6, <1>7

-----------------------------------------------------------------------------
(* Lengths and counts are numbers.                                         *)
LEMMA Numbers ==
    ASSUME TypeInvariant, NEW e \in End
    PROVE  /\ Len(send[e]) \in Nat /\ Len(received[e]) \in Nat
           /\ Len(writing[e]) \in Nat /\ Len(waitingMsgs[e]) \in Nat
           /\ Len(reading[e]) \in Nat /\ Len(wire[e]) \in Nat
           /\ Len(sent[e]) \in Nat /\ Len(got[e]) \in Nat
           /\ MaxSends[e] \in Nat
  BY LenProperties, ConnectionAssumption DEF TypeInvariant, ConnectionAssumption

LEMMA MessagesBound ==
    ASSUME NEW s \in Seq(Nat)
    PROVE  /\ Len(s) \in Nat /\ Capable(s) \in {0, 1}
           /\ Messages(s) \in 0 .. Len(s)
           /\ Capable(s) + Messages(s) = Len(s)
  <1>1. Len(s) \in Nat /\ (s # <<>> => Len(s) > 0)
    BY LenProperties, EmptySeq
  <1>2. QED
    BY <1>1 DEF Capable, Messages

LEMMA MessagesFacts ==
    /\ Capable(<<>>) = 0 /\ Messages(<<>>) = 0
    /\ Capable(<<Capabilities>>) = 1 /\ Messages(<<Capabilities>>) = 0
    /\ \A m \in Nat \ {0} : Capable(<<m>>) = 0 /\ Messages(<<m>>) = 1
  BY DEF Capable, Messages, Capabilities

(* Only a sequence that starts from nothing can start with capabilities.   *)
LEMMA CountsCapable ==
    ASSUME NEW s \in Seq(Nat), NEW k \in Nat, Counts(s, k)
    PROVE  Capable(s) = 0 /\ Messages(s) = Len(s)
  <1>1. CASE s = <<>>
    BY <1>1 DEF Capable, Messages
  <1>2. CASE s # <<>>
    <2>1. Head(s) = k + 1
      BY <1>2, CountsTail
    <2>2. Len(s) \in Nat
      BY LenProperties
    <2>3. QED
      BY <2>1, <2>2 DEF Capable, Messages, Capabilities
  <1>3. QED
    BY <1>1, <1>2

LEMMA CountNumbers ==
    ASSUME TypeInvariant, NEW e \in End
    PROVE  /\ Taken(e) \in Int /\ Passed(e) \in Int
           /\ Arrived(e) \in Nat /\ Read(e) \in Nat /\ Written(e) \in Nat
  <1>1. /\ Messages(writing[e]) \in Nat /\ Messages(reading[e]) \in Nat
        /\ Messages(wire[e]) \in Nat
    BY MessagesBound DEF TypeInvariant
  <1>2. /\ Len(send[e]) \in Nat /\ Len(received[e]) \in Nat
        /\ Len(waitingMsgs[e]) \in Nat
        /\ Len(sent[e]) \in Nat /\ Len(got[e]) \in Nat
    BY Numbers
  <1>3. Taken(e) \in Int /\ Arrived(e) \in Nat
    BY <1>2 DEF Taken, Arrived, TypeInvariant
  <1>4. Passed(e) \in Int /\ Read(e) \in Nat
    BY <1>1, <1>2, <1>3 DEF Passed, Read
  <1>5. QED
    BY <1>1, <1>3, <1>4 DEF Written

-----------------------------------------------------------------------------
(* What the parts of the invariant depend on.                              *)
LEMMA SentFrame ==
    ASSUME NEW e \in End, SentInOrder(e),
           sent'[e] = sent[e], send'[e] = send[e],
           e \in calling' => e \in calling
    PROVE  SentInOrder(e)'
  BY DEF SentInOrder, Taken

LEMMA WriterFrame ==
    ASSUME NEW e \in End, WriterInOrder(e),
           Taken(e)' = Taken(e), waitingMsgs'[e] = waitingMsgs[e],
           writing'[e] = writing[e], writer'[e] = writer[e],
           wire[Peer(e)] = <<>> => wire'[Peer(e)] = <<>>
    PROVE  WriterInOrder(e)'
  BY DEF WriterInOrder, Passed, Disconnected

LEMMA ReaderFrame ==
    ASSUME NEW e \in End, ReaderInOrder(e),
           got'[e] = got[e], received'[e] = received[e],
           reading'[e] = reading[e], wire'[e] = wire[e],
           Passed(Peer(e))' = Passed(Peer(e)),
           Lossless(Peer(e))' => Lossless(Peer(e))
    PROVE  ReaderInOrder(e)'
  BY DEF ReaderInOrder, Written, Read, Arrived

(* A step that changes nothing that is on its way from an end.             *)
SameSender(e) ==
    /\ sent'[e] = sent[e] /\ send'[e] = send[e]
    /\ waitingMsgs'[e] = waitingMsgs[e] /\ writing'[e] = writing[e]
    /\ writer'[e] = writer[e]

SameReader(e) ==
    /\ got'[e] = got[e] /\ received'[e] = received[e]
    /\ reading'[e] = reading[e] /\ wire'[e] = wire[e]

LEMMA SameCounts ==
    ASSUME NEW e \in End, SameSender(e)
    PROVE  Taken(e)' = Taken(e) /\ Passed(e)' = Passed(e)
  BY DEF SameSender, Taken, Passed

LEMMA SameStep ==
    ASSUME InOrder, calling' \subseteq calling,
           \A e \in End : SameSender(e) /\ SameReader(e),
           broken' = broken \/ broken' = TRUE
    PROVE  InOrder'
  <1> SUFFICES ASSUME NEW e \in End
               PROVE  (SentInOrder(e) /\ WriterInOrder(e) /\ ReaderInOrder(e))'
    BY DEF InOrder
  <1>1. Peer(e) \in End /\ Peer(Peer(e)) = e
    BY TwoEnds
  <1>2. SentInOrder(e) /\ WriterInOrder(e) /\ ReaderInOrder(e)
    BY DEF InOrder
  <1>3. SentInOrder(e)'
    BY <1>2, SentFrame DEF SameSender
  <1>4. WriterInOrder(e)'
    BY <1>1, <1>2, WriterFrame, SameCounts DEF SameSender, SameReader
  <1>5. Lossless(Peer(e))' => Lossless(Peer(e))
    BY <1>1 DEF SameSender, Lossless, Dead, Disconnected
  <1>6. ReaderInOrder(e)'
    BY <1>1, <1>2, <1>5, ReaderFrame, SameCounts DEF SameReader
  <1>7. QED
    BY <1>3, <1>4, <1>6

LEMMA BothEnds ==
    ASSUME NEW e \in End,
           SentInOrder(e)', WriterInOrder(e)', ReaderInOrder(e)',
           SentInOrder(Peer(e))', WriterInOrder(Peer(e))',
           ReaderInOrder(Peer(e))'
    PROVE  InOrder'
  <1>1. End = {e, Peer(e)}
    BY TwoEnds
  <1>2. QED
    BY <1>1 DEF InOrder

-----------------------------------------------------------------------------
(* One lemma for each kind of step.                                        *)
LEMMA CallOrder ==
    ASSUME TypeInvariant, TypeInvariant', InOrder, NEW e \in End, Call(e)
    PROVE  InOrder'
  <1> DEFINE p == Peer(e)
  <1>1. p \in End /\ p # e /\ Peer(p) = e
    BY TwoEnds
  <1>2. /\ SentInOrder(e) /\ WriterInOrder(e) /\ ReaderInOrder(e)
        /\ SentInOrder(p) /\ WriterInOrder(p) /\ ReaderInOrder(p)
    BY <1>1 DEF InOrder
  <1>3. \A f \in End : SameSender(f) /\ SameReader(f)
    BY DEF Call, SameSender, SameReader
  <1>4. SentInOrder(e)'
    BY <1>2 DEF Call, SentInOrder, Taken
  <1>5. SentInOrder(p)'
    BY <1>1, <1>2, SentFrame DEF Call
  <1>6. WriterInOrder(e)' /\ WriterInOrder(p)'
    BY <1>1, <1>2, <1>3, WriterFrame, SameCounts DEF SameSender, SameReader
  <1>7. \A f \in End : Lossless(f)' => Lossless(f)
    BY DEF Call, Lossless, Dead, Disconnected
  <1>8. ReaderInOrder(e)' /\ ReaderInOrder(p)'
    BY <1>1, <1>2, <1>3, <1>7, ReaderFrame, SameCounts DEF SameReader
  <1>9. QED
    BY <1>4, <1>5, <1>6, <1>8, BothEnds

LEMMA SendOrder ==
    ASSUME TypeInvariant, TypeInvariant', InOrder, NEW e \in End, Send(e)
    PROVE  InOrder'
  <1> DEFINE p == Peer(e)
             m == Len(sent[e]) + 1
  <1>1. p \in End /\ p # e /\ Peer(p) = e
    BY TwoEnds
  <1>2. /\ SentInOrder(e) /\ WriterInOrder(e) /\ ReaderInOrder(e)
        /\ SentInOrder(p) /\ WriterInOrder(p) /\ ReaderInOrder(p)
    BY <1>1 DEF InOrder
  <1>3. CASE UNCHANGED <<send, sent>>
    BY <1>3, SameStep DEF Send, SameSender, SameReader
  <1>4. CASE /\ send' = [send EXCEPT ![e] = Append(@, m)]
             /\ sent' = [sent EXCEPT ![e] = Append(@, m)]
    <2>1. /\ sent[e] \in Seq(Nat) /\ send[e] \in Seq(Nat)
          /\ Len(sent[e]) \in Nat /\ Len(send[e]) \in Nat
          /\ m \in Nat /\ MaxSends[e] \in Nat
      BY Numbers DEF TypeInvariant
    <2>2. /\ send'[e] = Append(send[e], m) /\ sent'[e] = Append(sent[e], m)
          /\ Len(send'[e]) = Len(send[e]) + 1
          /\ Len(sent'[e]) = Len(sent[e]) + 1
      BY <1>4, <2>1, AppendProperties DEF TypeInvariant
    <2>3. Taken(e)' = Taken(e) /\ Taken(e) \in Int
      BY <2>1, <2>2 DEF Taken, TypeInvariant
    <2>4. SentInOrder(e)'
      <3>1. Counts(sent'[e], 0)
        BY <1>2, <2>1, <2>2, CountsAppend DEF SentInOrder
      <3>2. Counts(send'[e], Taken(e))
        <4>1. m = Taken(e) + Len(send[e]) + 1
          BY <2>1 DEF Taken
        <4>2. QED
          BY <1>2, <2>1, <2>2, <2>3, <4>1, CountsAppend DEF SentInOrder
      <3>3. Len(sent'[e]) <= MaxSends[e] /\ e \notin calling'
        BY <1>2, <2>1, <2>2 DEF SentInOrder, Send
      <3>4. QED
        BY <2>3, <3>1, <3>2, <3>3 DEF SentInOrder
    <2>5. Passed(e)' = Passed(e)
      BY <2>3 DEF Passed, Send
    <2>6. SameSender(p) /\ SameReader(p) /\ SameReader(e)
      BY <1>1, <1>4 DEF SameSender, SameReader, Send, TypeInvariant
    <2>7. SentInOrder(p)'
      BY <1>1, <1>2, <2>6, SentFrame DEF Send, SameSender
    <2>8. WriterInOrder(e)'
      BY <1>2, <2>3, WriterFrame DEF Send
    <2>9. WriterInOrder(p)'
      BY <1>1, <1>2, <2>6, WriterFrame, SameCounts DEF SameSender, SameReader
    <2>10. \A f \in End : Lossless(f)' => Lossless(f)
      BY DEF Send, Lossless, Dead, Disconnected
    <2>11. ReaderInOrder(e)'
      BY <1>1, <1>2, <2>6, <2>10, ReaderFrame, SameCounts DEF SameReader
    <2>12. ReaderInOrder(p)'
      BY <1>1, <1>2, <2>5, <2>6, <2>10, ReaderFrame DEF SameReader
    <2>13. QED
      BY <2>4, <2>7, <2>8, <2>9, <2>11, <2>12, BothEnds
  <1>5. QED
    BY <1>3, <1>4 DEF Send

LEMMA ReceiveOrder ==
    ASSUME TypeInvariant, TypeInvariant', InOrder, NEW e \in End, Receive(e)
    PROVE  InOrder'
  <1> DEFINE p == Peer(e)
  <1>1. p \in End /\ p # e /\ Peer(p) = e
    BY TwoEnds
  <1>2. /\ SentInOrder(e) /\ WriterInOrder(e) /\ ReaderInOrder(e)
        /\ SentInOrder(p) /\ WriterInOrder(p) /\ ReaderInOrder(p)
    BY <1>1 DEF InOrder
  <1>3. CASE received[e] = <<>>
    BY <1>3, SameStep DEF Receive, SameSender, SameReader
  <1>4. CASE received[e] # <<>>
    <2>1. /\ got[e] \in Seq(Nat) /\ received[e] \in Seq(Nat)
          /\ Len(got[e]) \in Nat /\ Len(received[e]) \in Nat
      BY Numbers DEF TypeInvariant
    <2>2. /\ got'[e] = Append(got[e], Head(received[e]))
          /\ received'[e] = Tail(received[e])
      BY <1>4 DEF Receive, TypeInvariant
    <2>3. /\ Head(received[e]) = Len(got[e]) + 1
          /\ Counts(received'[e], Len(got[e]) + 1)
      BY <1>2, <1>4, <2>1, <2>2, CountsTail DEF ReaderInOrder
    <2>4. Counts(got'[e], 0)
      BY <1>2, <2>1, <2>2, <2>3, CountsAppend DEF ReaderInOrder
    <2>5. /\ Len(got'[e]) = Len(got[e]) + 1
          /\ Len(received'[e]) = Len(received[e]) - 1
      BY <1>4, <2>1, <2>2, <2>3, AppendProperties, HeadTailProperties
    <2>6. Arrived(e)' = Arrived(e)
      BY <2>1, <2>5 DEF Arrived, TypeInvariant
    <2>7. Read(e)' = Read(e) /\ Written(e)' = Written(e)
      BY <2>6 DEF Read, Written, Receive
    <2>8. SameSender(e) /\ SameSender(p) /\ SameReader(p)
      BY <1>1, <1>4 DEF SameSender, SameReader, Receive, TypeInvariant
    <2>9. \A f \in End : Lossless(f)' => Lossless(f)
      BY DEF Receive, Lossless, Dead, Disconnected
    <2>10. ReaderInOrder(e)'
      <3>1. Passed(p)' = Passed(p)
        BY <1>1, <2>8, SameCounts
      <3>2. UNCHANGED <<reading, wire>>
        BY DEF Receive
      <3>3. QED
        BY <1>1, <1>2, <2>3, <2>4, <2>5, <2>6, <2>7, <2>9, <3>1, <3>2
           DEF ReaderInOrder
    <2>11. ReaderInOrder(p)'
      BY <1>1, <1>2, <2>8, <2>9, ReaderFrame, SameCounts DEF SameReader
    <2>12. SentInOrder(e)' /\ SentInOrder(p)'
      BY <1>1, <1>2, <2>8, SentFrame DEF Receive, SameSender
    <2>13. WriterInOrder(e)' /\ WriterInOrder(p)'
      BY <1>1, <1>2, <2>8, WriterFrame, SameCounts DEF SameSender, Receive
    <2>14. QED
      BY <2>10, <2>11, <2>12, <2>13, BothEnds
  <1>5. QED
    BY <1>3, <1>4

LEMMA ReadOrder ==
    ASSUME TypeInvariant, TypeInvariant', InOrder, NEW e \in End, ReadMsg(e)
    PROVE  InOrder'
  <1> DEFINE p == Peer(e)
             w == wire[e]
             c == Capable(w)
             k == Arrived(e)
  <1>1. p \in End /\ p # e /\ Peer(p) = e
    BY TwoEnds
  <1>2. /\ SentInOrder(e) /\ WriterInOrder(e) /\ ReaderInOrder(e)
        /\ SentInOrder(p) /\ WriterInOrder(p) /\ ReaderInOrder(p)
    BY <1>1 DEF InOrder
  <1>3. /\ w \in Seq(Nat) /\ w # <<>> /\ k \in Nat /\ c \in {0, 1}
        /\ Messages(w) = Len(w) - c /\ Len(w) \in Nat
        /\ Head(w) \in Nat /\ Tail(w) \in Seq(Nat)
        /\ Len(Tail(w)) = Len(w) - 1
    BY CountNumbers, MessagesBound, HeadTailProperties
       DEF ReadMsg, TypeInvariant, Messages
  <1>4. Read(e) = k
    BY <1>3, MessagesFacts DEF Read, ReadMsg
  <1>5. Head(w) = k - c + 1 /\ Counts(Tail(w), k - c + 1)
    <2>1. Counts(w, k - c) /\ k - c \in Int
      BY <1>2, <1>3, <1>4 DEF ReaderInOrder
    <2>2. QED
      BY <1>3, <2>1, CountsTail
  <1>6. reading'[e] = <<Head(w)>> /\ wire'[e] = Tail(w)
    BY DEF ReadMsg, TypeInvariant
  <1>7. Capable(reading'[e]) = c /\ Messages(reading'[e]) = 1 - c
    BY <1>3, <1>6 DEF Capable, Messages
  <1>8. Arrived(e)' = k
    BY DEF ReadMsg, Arrived
  <1>9. Read(e)' = k + 1 - c
    BY <1>3, <1>7, <1>8 DEF Read
  <1>10. Capable(wire'[e]) = 0 /\ Messages(wire'[e]) = Len(w) - 1
    <2>1. k - c + 1 \in Nat
      BY <1>3
    <2>2. QED
      BY <1>3, <1>5, <1>6, <2>1, CountsCapable
  <1>11. Written(e)' = Written(e)
    <2>1. Written(e) = k + (Len(w) - c)
      BY <1>3, <1>4 DEF Written
    <2>2. Written(e)' = (k + 1 - c) + (Len(w) - 1)
      BY <1>9, <1>10 DEF Written
    <2>3. k + (Len(w) - c) = (k + 1 - c) + (Len(w) - 1)
      BY <1>3
    <2>4. QED
      BY <2>1, <2>2, <2>3
  <1>12. SameSender(e) /\ SameSender(p) /\ SameReader(p)
    BY <1>1 DEF SameSender, SameReader, ReadMsg, TypeInvariant
  <1>13. \A f \in End : Lossless(f)' => Lossless(f)
    BY DEF ReadMsg, Lossless, Dead, Disconnected
  <1>14. ReaderInOrder(e)'
    <2>1. Passed(p)' = Passed(p)
      BY <1>1, <1>12, SameCounts
    <2>2. UNCHANGED <<got, received>>
      BY DEF ReadMsg
    <2>3. Len(reading'[e]) <= 1
      BY <1>6
    <2>4. Counts(reading'[e], k - c)
      <3>1. k - c \in Int /\ Head(w) = (k - c) + 1
        BY <1>3, <1>5
      <3>2. QED
        BY <1>3, <1>6, <3>1, CountsSingle
    <2>5. Counts(wire'[e], Read(e)' - Capable(wire'[e]))
      <3>1. Read(e)' - Capable(wire'[e]) = k - c + 1
        BY <1>3, <1>9, <1>10
      <3>2. QED
        BY <1>5, <1>6, <3>1
    <2>6. QED
      BY <1>1, <1>2, <1>7, <1>8, <1>11, <1>13, <2>1, <2>2, <2>3, <2>4, <2>5
         DEF ReaderInOrder
  <1>15. ReaderInOrder(p)'
    BY <1>1, <1>2, <1>12, <1>13, ReaderFrame, SameCounts DEF SameReader
  <1>16. SentInOrder(e)' /\ SentInOrder(p)'
    BY <1>1, <1>2, <1>12, SentFrame DEF ReadMsg, SameSender
  <1>17. WriterInOrder(e)'
    BY <1>1, <1>2, <1>12, WriterFrame, SameCounts DEF SameSender, SameReader
  <1>18. WriterInOrder(p)'
    BY <1>1, <1>2, <1>3, <1>12, WriterFrame, SameCounts DEF SameSender
  <1>19. QED
    BY <1>14, <1>15, <1>16, <1>17, <1>18, BothEnds

LEMMA PassOrder ==
    ASSUME TypeInvariant, TypeInvariant', InOrder, NEW e \in End, PassOn(e)
    PROVE  InOrder'
  <1> DEFINE p == Peer(e)
             h == Head(reading[e])
             k == Arrived(e)
  <1>1. p \in End /\ p # e /\ Peer(p) = e
    BY TwoEnds
  <1>2. /\ SentInOrder(e) /\ WriterInOrder(e) /\ ReaderInOrder(e)
        /\ SentInOrder(p) /\ WriterInOrder(p) /\ ReaderInOrder(p)
    BY <1>1 DEF InOrder
  <1>3. /\ k \in Nat /\ Len(got[e]) \in Nat /\ received[e] \in Seq(Nat)
        /\ Len(received[e]) \in Nat /\ h \in Nat
    BY CountNumbers, Numbers, HeadTailProperties DEF PassOn, TypeInvariant
  <1>4. reading[e] = <<h>>
    <2>1. reading[e] \in Seq(Nat) /\ reading[e] # <<>> /\ Len(reading[e]) = 1
      <3>1. reading[e] \in Seq(Nat) /\ reading[e] # <<>>
        BY DEF PassOn, TypeInvariant
      <3>2. Len(reading[e]) \in Nat \ {0}
        BY <3>1, EmptySeq
      <3>3. Len(reading[e]) <= 1
        BY <1>2 DEF ReaderInOrder
      <3>4. \A n \in Nat \ {0} : n <= 1 => n = 1
        OBVIOUS
      <3>5. QED
        BY <3>1, <3>2, <3>3, <3>4
    <2>2. /\ <<h>> \in Seq(Nat) /\ Len(<<h>>) = 1
          /\ reading[e][1] = <<h>>[1]
      BY <1>3, <2>1
    <2>3. QED
      BY <2>1, <2>2, SeqEqual
  <1>5. reading'[e] = <<>> /\ UNCHANGED <<got, wire>>
    BY DEF PassOn, TypeInvariant
  <1>6. /\ Counts(received'[e], Len(got[e])) /\ Read(e)' = Read(e)
    <2>1. CASE h = Capabilities
      <3>1. received' = received /\ Messages(reading[e]) = 0
        BY <1>4, <2>1, MessagesFacts DEF PassOn
      <3>2. QED
        BY <1>2, <1>5, <3>1, MessagesFacts DEF ReaderInOrder, Read, Arrived
    <2>2. CASE h # Capabilities
      <3>1. Capable(reading[e]) = 0 /\ Messages(reading[e]) = 1
        BY <1>3, <1>4, <2>2, MessagesFacts DEF Capabilities
      <3>2. h = k + 1
        BY <1>2, <1>3, <1>4, <3>1 DEF ReaderInOrder, Counts
      <3>3. received'[e] = Append(received[e], h)
        <4>1. received'[e] = received[e] \o <<h>>
          BY <1>4, <2>2 DEF PassOn, TypeInvariant
        <4>2. QED
          BY <1>3, <4>1, AppendIsConcat
      <3>4. Counts(received'[e], Len(got[e]))
        <4>1. h = Len(got[e]) + Len(received[e]) + 1
          BY <3>2 DEF Arrived
        <4>2. Counts(received[e], Len(got[e])) /\ Len(got[e]) \in Int
          BY <1>2, <1>3 DEF ReaderInOrder
        <4>3. Counts(Append(received[e], h), Len(got[e]))
          BY <1>3, <4>1, <4>2, CountsAppend
        <4>4. QED
          BY <3>3, <4>3
      <3>5. Len(received'[e]) = Len(received[e]) + 1
        BY <1>3, <3>3, AppendProperties
      <3>6. Arrived(e)' = k + 1
        BY <1>3, <1>5, <3>5 DEF Arrived, TypeInvariant
      <3>7. QED
        BY <1>3, <1>5, <3>1, <3>4, <3>6, MessagesFacts DEF Read
    <2>3. QED
      BY <2>1, <2>2
  <1>7. Written(e)' = Written(e)
    BY <1>5, <1>6 DEF Written
  <1>8. SameSender(e) /\ SameSender(p) /\ SameReader(p)
    BY <1>1 DEF SameSender, SameReader, PassOn, TypeInvariant
  <1>9. \A f \in End : Lossless(f)' => Lossless(f)
    BY DEF PassOn, Lossless, Dead, Disconnected
  <1>10. ReaderInOrder(e)'
    <2>1. Passed(p)' = Passed(p)
      BY <1>1, <1>8, SameCounts
    <2>2. Len(reading'[e]) <= 1
      BY <1>5
    <2>3. Counts(reading'[e], (Arrived(e) - Capable(reading[e]))')
      BY <1>5 DEF Counts
    <2>4. QED
      BY <1>1, <1>2, <1>5, <1>6, <1>7, <1>9, <2>1, <2>2, <2>3
         DEF ReaderInOrder
  <1>11. ReaderInOrder(p)'
    BY <1>1, <1>2, <1>8, <1>9, ReaderFrame, SameCounts DEF SameReader
  <1>12. SentInOrder(e)' /\ SentInOrder(p)'
    BY <1>1, <1>2, <1>8, SentFrame DEF PassOn, SameSender
  <1>13. WriterInOrder(e)' /\ WriterInOrder(p)'
    BY <1>1, <1>2, <1>5, <1>8, WriterFrame, SameCounts DEF SameSender
  <1>14. QED
    BY <1>10, <1>11, <1>12, <1>13, BothEnds

LEMMA CapableAppend ==
    ASSUME NEW s \in Seq(Nat), NEW m \in Nat \ {0}
    PROVE  /\ Capable(Append(s, m)) = Capable(s)
           /\ Messages(Append(s, m)) = Messages(s) + 1
  <1>1. /\ Len(Append(s, m)) = Len(s) + 1 /\ Len(s) \in Nat
        /\ Append(s, m) # <<>>
    BY AppendProperties, LenProperties
  <1>2. Head(Append(s, m)) = IF s = <<>> THEN m ELSE Head(s)
    BY HeadTailAppend
  <1>3. Capable(Append(s, m)) = Capable(s)
    BY <1>1, <1>2 DEF Capable, Capabilities
  <1>4. Capable(s) \in {0, 1}
    BY MessagesBound
  <1>5. QED
    BY <1>1, <1>3, <1>4 DEF Messages

(* What writeLoop has left to write follows on what it has written.        *)
LEMMA PassedBound ==
    ASSUME TypeInvariant, InOrder, NEW e \in End
    PROVE  Passed(e) \in Nat
  <1>1. Peer(e) \in End /\ Peer(Peer(e)) = e
    BY TwoEnds
  <1>2. Written(Peer(e)) <= Passed(e)
    BY <1>1 DEF InOrder, ReaderInOrder
  <1>3. Written(Peer(e)) \in Nat /\ Passed(e) \in Int
    BY <1>1, CountNumbers
  <1>4. QED
    BY <1>2, <1>3

LEMMA WriteOrder ==
    ASSUME TypeInvariant, TypeInvariant', InOrder, NEW e \in End, WriteMsg(e)
    PROVE  InOrder'
  <1> DEFINE p == Peer(e)
             w == writing[e]
             c == Capable(w)
             k == Passed(e)
             h == Head(w)
  <1>1. p \in End /\ p # e /\ Peer(p) = e
    BY TwoEnds
  <1>2. /\ SentInOrder(e) /\ WriterInOrder(e) /\ ReaderInOrder(e)
        /\ SentInOrder(p) /\ WriterInOrder(p) /\ ReaderInOrder(p)
    BY <1>1 DEF InOrder
  <1>3. /\ w \in Seq(Nat) /\ w # <<>> /\ k \in Nat /\ c \in {0, 1}
        /\ Messages(w) = Len(w) - c /\ Len(w) \in Nat
        /\ h \in Nat /\ Tail(w) \in Seq(Nat)
        /\ Len(Tail(w)) = Len(w) - 1
    BY PassedBound, MessagesBound, HeadTailProperties
       DEF WriteMsg, TypeInvariant, Messages
  <1>4. h = k - c + 1 /\ Counts(Tail(w), k - c + 1)
    <2>1. Counts(w, k - c) /\ k - c \in Int
      BY <1>2, <1>3 DEF WriterInOrder
    <2>2. QED
      BY <1>3, <2>1, CountsTail
  <1>5. /\ writing'[e] = Tail(w)
        /\ UNCHANGED <<sent, send, waitingMsgs, writer, got, received, reading>>
    BY DEF WriteMsg, TypeInvariant
  <1>6. Capable(writing'[e]) = 0 /\ Messages(writing'[e]) = Len(w) - 1
    <2>1. k - c + 1 \in Nat
      BY <1>3
    <2>2. QED
      BY <1>3, <1>4, <1>5, <2>1, CountsCapable
  <1>7. Taken(e)' = Taken(e) /\ Taken(e) \in Int
    BY <1>5, CountNumbers DEF Taken
  <1>8. Passed(e)' = k + 1 - c
    <2>1. Len(waitingMsgs[e]) \in Nat
      BY Numbers
    <2> DEFINE t == Taken(e) - Len(waitingMsgs[e])
    <2>2. k = t - (Len(w) - c) /\ t \in Int
      BY <1>3, <1>7, <2>1 DEF Passed
    <2>3. Passed(e)' = t - (Len(w) - 1)
      BY <1>5, <1>6, <1>7 DEF Passed
    <2>4. t - (Len(w) - 1) = t - (Len(w) - c) + 1 - c
      BY <1>3, <2>2
    <2>5. QED
      BY <2>2, <2>3, <2>4
  <1>9. /\ wire'[e] = wire[e]
        /\ wire'[p] = IF Dead(e) THEN wire[p] ELSE Append(wire[p], h)
    BY <1>1 DEF WriteMsg, TypeInvariant
  <1>10. \A f \in End : Lossless(f)' <=> Lossless(f)
    BY DEF WriteMsg, Lossless, Dead, Disconnected
  <1>11. WriterInOrder(e)'
    <2>1. Counts(writing'[e], Passed(e)' - Capable(writing'[e]))
      <3>1. Passed(e)' - Capable(writing'[e]) = k - c + 1
        BY <1>3, <1>6, <1>8
      <3>2. QED
        BY <1>4, <1>5, <3>1
    <2>2. writer[e] = "negotiating" => writing'[e] = <<>>
      <3>1. writer[e] = "negotiating" => w = <<Capabilities>>
        BY <1>2, <1>3 DEF WriterInOrder
      <3>2. Tail(<<Capabilities>>) = <<>>
        OBVIOUS
      <3>3. QED
        BY <1>5, <3>1, <3>2
    <2>3. ~Disconnected(e)
      BY <1>2, <1>3 DEF WriterInOrder
    <2>4. QED
      BY <1>2, <1>5, <1>6, <1>7, <2>1, <2>2, <2>3
         DEF WriterInOrder, Disconnected
  <1>12. ReaderInOrder(p)'
    <2>1. /\ Arrived(p)' = Arrived(p) /\ Read(p)' = Read(p)
          /\ wire[p] \in Seq(Nat) /\ Read(p) \in Nat /\ Written(p) \in Nat
      BY <1>1, <1>5, CountNumbers DEF Arrived, Read, TypeInvariant
    <2>2. /\ Counts(wire'[p], Read(p) - Capable(wire'[p]))
          /\ Written(p)' <= Passed(e)'
          /\ Lossless(e) => Written(p)' = Passed(e)'
      <3>1. CASE Dead(e)
        <4>1. Written(p)' = Written(p) /\ wire'[p] = wire[p] /\ ~Lossless(e)
          BY <1>9, <2>1, <3>1 DEF Written, Lossless
        <4>2. Written(p) <= k
          BY <1>1, <1>2 DEF ReaderInOrder
        <4>3. Written(p) <= k + 1 - c
          BY <1>3, <2>1, <4>2
        <4>4. Counts(wire[p], Read(p) - Capable(wire[p]))
          BY <1>2 DEF ReaderInOrder
        <4>5. QED
          BY <1>8, <4>1, <4>3, <4>4
      <3>2. CASE ~Dead(e) /\ c = 1
        <4>1. h = 0 /\ k = 0
          BY <1>3, <1>4, <3>2 DEF Capable, Capabilities
        <4>2. wire[p] = <<>> /\ wire'[p] = <<Capabilities>>
          <5>1. wire[p] = <<>>
            BY <1>2, <3>2 DEF WriterInOrder
          <5>2. wire'[p] = Append(<<>>, 0)
            BY <1>9, <3>2, <4>1, <5>1
          <5>3. QED
            BY <5>1, <5>2 DEF Capabilities
        <4>3. Written(p) = Read(p)
          BY <2>1, <4>2, MessagesFacts DEF Written
        <4>4. Written(p) <= k
          BY <1>1, <1>2 DEF ReaderInOrder
        <4>5. Read(p) = 0
          BY <2>1, <4>1, <4>3, <4>4
        <4>6. Written(p)' = 0
          BY <2>1, <4>2, <4>5, MessagesFacts DEF Written
        <4>7. Counts(wire'[p], Read(p) - Capable(wire'[p]))
          BY <4>2, <4>5, MessagesFacts DEF Counts, Capabilities
        <4>8. QED
          BY <1>8, <3>2, <4>1, <4>6, <4>7
      <3>3. CASE ~Dead(e) /\ c = 0
        <4>1. Written(p) = k
          BY <1>1, <1>2, <1>3, <3>3 DEF ReaderInOrder, WriterInOrder, Lossless
        <4>2. h = k + 1 /\ wire'[p] = Append(wire[p], h)
          BY <1>3, <1>4, <1>9, <3>3
        <4>3. /\ Capable(wire'[p]) = Capable(wire[p])
              /\ Messages(wire'[p]) = Messages(wire[p]) + 1
          BY <1>3, <2>1, <4>2, CapableAppend
        <4>4. /\ Messages(wire[p]) = Len(wire[p]) - Capable(wire[p])
              /\ Len(wire[p]) \in Nat /\ Capable(wire[p]) \in {0, 1}
          BY <2>1, MessagesBound DEF Messages
        <4>5. Written(p)' = k + 1
          BY <2>1, <4>1, <4>3, <4>4 DEF Written
        <4>6. h = (Read(p) - Capable(wire[p])) + Len(wire[p]) + 1
          BY <2>1, <4>1, <4>2, <4>4 DEF Written
        <4>7. /\ Counts(wire[p], Read(p) - Capable(wire[p]))
              /\ Read(p) - Capable(wire[p]) \in Int
          BY <1>2, <2>1, <4>4 DEF ReaderInOrder
        <4>8. Counts(wire'[p], Read(p) - Capable(wire[p]))
          BY <1>3, <2>1, <4>2, <4>6, <4>7, CountsAppend
        <4>9. k + 1 - c = k + 1 /\ k + 1 <= k + 1
          BY <1>3, <3>3
        <4>10. QED
          BY <1>8, <4>3, <4>5, <4>8, <4>9
      <3>4. QED
        BY <1>3, <3>1, <3>2, <3>3
    <2>3. QED
      BY <1>1, <1>2, <1>5, <1>10, <2>1, <2>2 DEF ReaderInOrder
  <1>13. SameSender(p) /\ SameReader(e)
    BY <1>1, <1>5, <1>9 DEF SameSender, SameReader, WriteMsg, TypeInvariant
  <1>14. ReaderInOrder(e)'
    BY <1>1, <1>2, <1>10, <1>13, ReaderFrame, SameCounts DEF SameReader
  <1>15. SentInOrder(e)' /\ SentInOrder(p)'
    BY <1>1, <1>2, SentFrame DEF WriteMsg
  <1>16. WriterInOrder(p)'
    BY <1>1, <1>2, <1>9, <1>13, WriterFrame, SameCounts DEF SameSender
  <1>17. QED
    BY <1>11, <1>12, <1>14, <1>15, <1>16, BothEnds

LEMMA DisconnectOrder ==
    ASSUME TypeInvariant, TypeInvariant', InOrder, NEW e \in End, Disconnect(e)
    PROVE  InOrder'
  <1> DEFINE p == Peer(e)
  <1>1. p \in End /\ p # e /\ Peer(p) = e
    BY TwoEnds
  <1>2. /\ SentInOrder(e) /\ WriterInOrder(e) /\ ReaderInOrder(e)
        /\ SentInOrder(p) /\ WriterInOrder(p) /\ ReaderInOrder(p)
    BY <1>1 DEF InOrder
  <1>3. /\ writer'[e] = "done" /\ writing'[e] = <<>> /\ waitingMsgs'[e] = <<>>
        /\ wire'[e] = <<>>
        /\ UNCHANGED <<calling, send, sent, got, received, reading, broken>>
    BY DEF Disconnect, TypeInvariant
  <1>4. SameSender(p) /\ SameReader(p)
    BY <1>1 DEF SameSender, SameReader, Disconnect, TypeInvariant
  <1>5. SentInOrder(e)' /\ SentInOrder(p)'
    BY <1>1, <1>2, <1>3, SentFrame
  <1>6. Taken(e)' = Taken(e) /\ Taken(e) \in Int
    BY <1>3, CountNumbers DEF Taken
  <1>7. Disconnected(e)' /\ ~Lossless(e)' /\ ~Lossless(p)'
    BY <1>1, <1>3 DEF Lossless, Dead, Disconnected
  <1>8. Passed(e)' = Taken(e)
    BY <1>3, <1>6, MessagesFacts DEF Passed
  <1>9. Passed(e) <= Passed(e)'
    <2>1. Len(waitingMsgs[e]) \in Nat /\ Messages(writing[e]) \in Nat
      BY Numbers, MessagesBound DEF TypeInvariant
    <2>2. Passed(e) = Taken(e) - Len(waitingMsgs[e]) - Messages(writing[e])
      BY DEF Passed
    <2>3. QED
      BY <1>6, <1>8, <2>1, <2>2
  <1>10. WriterInOrder(e)'
    BY <1>3, <1>6, <1>8, MessagesFacts, CountsEmpty DEF WriterInOrder
  <1>11. WriterInOrder(p)'
    BY <1>1, <1>2, <1>3, <1>4, WriterFrame, SameCounts DEF SameSender
  <1>12. ReaderInOrder(p)'
    <2>1. /\ Written(p)' = Written(p) /\ Read(p)' = Read(p)
          /\ Arrived(p)' = Arrived(p)
      BY <1>4 DEF SameReader, Written, Read, Arrived
    <2>2. Written(p) <= Passed(e)'
      <3>1. Written(p) <= Passed(e)
        BY <1>1, <1>2 DEF ReaderInOrder
      <3>2. Written(p) \in Nat /\ Passed(e) \in Int /\ Passed(e)' \in Int
        BY <1>1, <1>6, <1>8, CountNumbers
      <3>3. QED
        BY <1>9, <3>1, <3>2
    <2>3. QED
      BY <1>1, <1>2, <1>4, <1>7, <2>1, <2>2 DEF ReaderInOrder, SameReader
  <1>13. ReaderInOrder(e)'
    <2>1. Arrived(e)' = Arrived(e) /\ Read(e)' = Read(e)
      BY <1>3 DEF Arrived, Read
    <2>2. Read(e) \in Nat /\ Written(e) \in Nat /\ Passed(p) \in Int
      BY <1>1, CountNumbers
    <2>3. Written(e)' = Read(e)
      BY <1>3, <2>1, <2>2, MessagesFacts DEF Written
    <2>4. Read(e) <= Written(e)
      <3>1. Messages(wire[e]) \in Nat
        BY MessagesBound DEF TypeInvariant
      <3>2. QED
        BY <2>2, <3>1 DEF Written
    <2>5. Written(e) <= Passed(p) /\ Passed(p)' = Passed(p)
      BY <1>1, <1>2, <1>4, SameCounts DEF ReaderInOrder
    <2>6. Written(e)' <= Passed(p)'
      BY <2>2, <2>3, <2>4, <2>5
    <2>7. Counts(wire'[e], (Read(e) - Capable(wire[e]))')
      BY <1>3 DEF Counts
    <2>8. QED
      BY <1>2, <1>3, <1>7, <2>1, <2>6, <2>7 DEF ReaderInOrder
  <1>14. QED
    BY <1>5, <1>10, <1>11, <1>12, <1>13, BothEnds

LEMMA TakeOrder ==
    ASSUME TypeInvariant, TypeInvariant', InOrder, NEW e \in End, TakeMsg(e)
    PROVE  InOrder'
  <1> DEFINE p == Peer(e)
             h == Head(send[e])
             k == Taken(e)
             l == Len(waitingMsgs[e])
  <1>1. p \in End /\ p # e /\ Peer(p) = e
    BY TwoEnds
  <1>2. /\ SentInOrder(e) /\ WriterInOrder(e) /\ ReaderInOrder(e)
        /\ SentInOrder(p) /\ WriterInOrder(p) /\ ReaderInOrder(p)
    BY <1>1 DEF InOrder
  <1>3. /\ send[e] \in Seq(Nat) /\ send[e] # <<>> /\ h \in Nat
        /\ Len(Tail(send[e])) = Len(send[e]) - 1
        /\ Len(send[e]) \in Nat /\ Len(sent[e]) \in Nat /\ l \in Nat
        /\ k \in Int /\ waitingMsgs[e] \in Seq(Nat)
    BY Numbers, CountNumbers, HeadTailProperties DEF TakeMsg, TypeInvariant
  <1>4. /\ writing[e] = <<>> /\ ~Disconnected(e)
        /\ UNCHANGED <<calling, sent, writer, got, received, reading, wire, broken>>
    BY DEF TakeMsg, Selecting
  <1>5. send'[e] = Tail(send[e])
    BY DEF TakeMsg, TypeInvariant
  <1>6. h = k + 1 /\ Counts(send'[e], k + 1)
    BY <1>2, <1>3, <1>5, CountsTail DEF SentInOrder
  <1>7. Taken(e)' = k + 1
    <2>1. Taken(e)' = Len(sent[e]) - (Len(send[e]) - 1)
      BY <1>3, <1>4, <1>5 DEF Taken
    <2>2. k = Len(sent[e]) - Len(send[e])
      BY DEF Taken
    <2>3. QED
      BY <1>3, <2>1, <2>2
  <1>8. SentInOrder(e)'
    BY <1>2, <1>4, <1>6, <1>7 DEF SentInOrder
  <1>9. SameSender(p) /\ SameReader(p) /\ SameReader(e)
    BY <1>1 DEF SameSender, SameReader, TakeMsg, TypeInvariant
  <1>10. Passed(e) = k - l
    BY <1>3, <1>4, MessagesFacts DEF Passed
  <1>11. WriterInOrder(e)' /\ Passed(e)' = Passed(e)
    <2>1. CASE writer[e] = "negotiating"
      <3>1. waitingMsgs'[e] = Append(waitingMsgs[e], h) /\ writing'[e] = <<>>
        BY <1>4, <2>1 DEF TakeMsg, TypeInvariant
      <3>2. Len(waitingMsgs'[e]) = l + 1
        BY <1>3, <3>1, AppendProperties
      <3>3. Counts(waitingMsgs'[e], k - l)
        <4>1. h = (k - l) + l + 1 /\ k - l \in Int
          BY <1>3, <1>6
        <4>2. Counts(waitingMsgs[e], k - l)
          BY <1>2 DEF WriterInOrder
        <4>3. QED
          BY <1>3, <3>1, <4>1, <4>2, CountsAppend
      <3>4. k - l = (k + 1) - (l + 1) /\ (k + 1) - (l + 1) - 0 = k - l
        BY <1>3
      <3>5. Passed(e)' = Passed(e)
        BY <1>7, <1>10, <3>1, <3>2, <3>4, MessagesFacts DEF Passed
      <3>6. Counts(waitingMsgs'[e], (Taken(e) - Len(waitingMsgs[e]))')
        BY <1>7, <3>2, <3>3, <3>4
      <3>7. Counts(writing'[e], (Passed(e) - Capable(writing[e]))')
        BY <3>1 DEF Counts
      <3>8. QED
        BY <1>4, <2>1, <3>1, <3>5, <3>6, <3>7, MessagesFacts
           DEF WriterInOrder, Disconnected
    <2>2. CASE writer[e] # "negotiating"
      <3>1. waitingMsgs[e] = <<>> /\ l = 0 /\ Passed(e) = k
        BY <1>2, <1>3, <1>10, <2>2 DEF WriterInOrder
      <3>2. writing'[e] = <<h>> /\ waitingMsgs'[e] = <<>>
        BY <2>2, <3>1 DEF TakeMsg, TypeInvariant
      <3>3. h \in Nat \ {0} /\ k \in Nat
        BY <1>6, <3>1, PassedBound
      <3>4. Capable(writing'[e]) = 0 /\ Messages(writing'[e]) = 1
        BY <3>2, <3>3, MessagesFacts
      <3>5. Passed(e)' = k
        BY <1>3, <1>7, <3>2, <3>4 DEF Passed
      <3>6. Counts(writing'[e], k)
        BY <1>3, <1>6, <3>2, CountsSingle
      <3>7. Counts(writing'[e], (Passed(e) - Capable(writing[e]))')
        BY <1>3, <3>4, <3>5, <3>6
      <3>8. Counts(waitingMsgs'[e], (Taken(e) - Len(waitingMsgs[e]))')
        BY <3>2 DEF Counts
      <3>9. QED
        BY <1>4, <2>2, <3>1, <3>2, <3>4, <3>5, <3>7, <3>8
           DEF WriterInOrder, Disconnected
    <2>3. QED
      BY <2>1, <2>2
  <1>12. \A f \in End : Lossless(f)' => Lossless(f)
    BY <1>4 DEF Lossless, Dead, Disconnected
  <1>13. ReaderInOrder(e)'
    BY <1>1, <1>2, <1>9, <1>12, ReaderFrame, SameCounts DEF SameReader
  <1>14. ReaderInOrder(p)'
    BY <1>1, <1>2, <1>9, <1>11, <1>12, ReaderFrame DEF SameReader
  <1>15. SentInOrder(p)'
    BY <1>1, <1>2, <1>4, <1>9, SentFrame DEF SameSender
  <1>16. WriterInOrder(p)'
    BY <1>1, <1>2, <1>4, <1>9, WriterFrame, SameCounts DEF SameSender
  <1>17. QED
    BY <1>8, <1>11, <1>13, <1>14, <1>15, <1>16, BothEnds

LEMMA OpenOrder ==
    ASSUME TypeInvariant, TypeInvariant', InOrder, NEW e \in End,
           TakeCapabilities(e)
    PROVE  InOrder'
  <1> DEFINE p == Peer(e)
             w == waitingMsgs[e]
             k == Passed(e)
  <1>1. p \in End /\ p # e /\ Peer(p) = e
    BY TwoEnds
  <1>2. /\ SentInOrder(e) /\ WriterInOrder(e) /\ ReaderInOrder(e)
        /\ SentInOrder(p) /\ WriterInOrder(p) /\ ReaderInOrder(p)
    BY <1>1 DEF InOrder
  <1>3. /\ w \in Seq(Nat) /\ Len(w) \in Nat /\ k \in Nat /\ Taken(e) \in Int
    BY Numbers, CountNumbers, PassedBound DEF TypeInvariant
  <1>4. /\ writing[e] = <<>> /\ writer[e] = "negotiating"
        /\ UNCHANGED <<calling, sent, send, got, received, reading, wire, broken>>
        /\ writing'[e] = w /\ waitingMsgs'[e] = <<>> /\ writer'[e] = "open"
    BY DEF TakeCapabilities, Selecting, TypeInvariant
  <1>5. k = Taken(e) - Len(w)
    BY <1>3, <1>4, MessagesFacts DEF Passed
  <1>6. Counts(w, k)
    BY <1>2, <1>5 DEF WriterInOrder
  <1>7. Capable(w) = 0 /\ Messages(w) = Len(w)
    BY <1>3, <1>6, CountsCapable
  <1>8. Taken(e)' = Taken(e)
    BY <1>4 DEF Taken
  <1>9. Passed(e)' = k
    <2>1. Passed(e)' = Taken(e) - 0 - Len(w)
      BY <1>4, <1>7, <1>8 DEF Passed
    <2>2. QED
      BY <1>3, <1>5, <2>1
  <1>10. WriterInOrder(e)'
    <2>1. Counts(writing'[e], (Passed(e) - Capable(writing[e]))')
      BY <1>3, <1>4, <1>6, <1>7, <1>9
    <2>2. Counts(waitingMsgs'[e], (Taken(e) - Len(waitingMsgs[e]))')
      BY <1>4 DEF Counts
    <2>3. QED
      BY <1>4, <1>7, <2>1, <2>2 DEF WriterInOrder, Disconnected
  <1>11. SameSender(p) /\ SameReader(p) /\ SameReader(e)
    BY <1>1 DEF SameSender, SameReader, TakeCapabilities, TypeInvariant
  <1>12. \A f \in End : Lossless(f)' => Lossless(f)
    BY <1>1, <1>4, <1>11, TwoEnds DEF Lossless, Dead, Disconnected, SameSender
  <1>13. ReaderInOrder(e)'
    BY <1>1, <1>2, <1>11, <1>12, ReaderFrame, SameCounts DEF SameReader
  <1>14. ReaderInOrder(p)'
    BY <1>1, <1>2, <1>9, <1>11, <1>12, ReaderFrame DEF SameReader
  <1>15. SentInOrder(e)' /\ SentInOrder(p)'
    BY <1>1, <1>2, <1>4, SentFrame
  <1>16. WriterInOrder(p)'
    BY <1>1, <1>2, <1>4, <1>11, WriterFrame, SameCounts DEF SameSender
  <1>17. QED
    BY <1>10, <1>13, <1>14, <1>15, <1>16, BothEnds

-----------------------------------------------------------------------------
LEMMA OrderStep ==
    ASSUME IInv, [Next]_vars
    PROVE  IInv'
  <1>1. TypeInvariant /\ InOrder
    BY DEF IInv
  <1>2. TypeInvariant'
    BY <1>1, TypeStep
  <1>3. InOrder'
    <2>1. CASE UNCHANGED vars
      BY <1>1, <2>1, SameStep DEF vars, SameSender, SameReader
    <2>2. CASE Break
      BY <1>1, <2>2, SameStep DEF Break, SameSender, SameReader
    <2>3. ASSUME NEW e \in End,
                 \/ Call(e) \/ Send(e) \/ Close(e) \/ Receive(e)
                 \/ readLoop(e) \/ writeLoop(e)
          PROVE  InOrder'
      <3>1. CASE Call(e)
        BY <1>1, <1>2, <3>1, CallOrder
      <3>2. CASE Send(e)
        BY <1>1, <1>2, <3>2, SendOrder
      <3>3. CASE Close(e)
        BY <1>1, <3>3, SameStep DEF Close, SameSender, SameReader
      <3>4. CASE Receive(e)
        BY <1>1, <1>2, <3>4, ReceiveOrder
      <3>5. CASE ReadMsg(e)
        BY <1>1, <1>2, <3>5, ReadOrder
      <3>6. CASE PassOn(e)
        BY <1>1, <1>2, <3>6, PassOrder
      <3>7. CASE ReadError(e)
        BY <1>1, <3>7, SameStep DEF ReadError, SameSender, SameReader
      <3>8. CASE WriteMsg(e)
        BY <1>1, <1>2, <3>8, WriteOrder
      <3>9. CASE WriteError(e) \/ StopWriting(e)
        BY <1>1, <1>2, <3>9, DisconnectOrder DEF WriteError, StopWriting
      <3>10. CASE TakeMsg(e)
        BY <1>1, <1>2, <3>10, TakeOrder
      <3>11. CASE TakeCapabilities(e)
        BY <1>1, <1>2, <3>11, OpenOrder
      <3>12. QED
        BY <2>3, <3>1, <3>2, <3>3, <3>4, <3>5, <3>6, <3>7, <3>8, <3>9, <3>10,
           <3>11 DEF readLoop, writeLoop
    <2>4. QED
      BY <2>1, <2>2, <2>3 DEF Next
  <1>4. QED
    BY <1>2, <1>3 DEF IInv

(* The messages of each end are somewhere on their way, in the order in    *)
(* which Send took them and without a gap, up to where the end of the      *)
(* connection cut them off (baseconn.go:215-350).                          *)
THEOREM MessagesInOrder == Spec => []IInv
  <1>1. Init => IInv
    BY TypeInit, OrderInit DEF IInv
  <1>2. IInv /\ [Next]_vars => IInv'
    BY OrderStep
  <1>3. QED
    BY <1>1, <1>2, PTL DEF Spec

-----------------------------------------------------------------------------
LEMMA LinkInit == Init => Links!Init
  BY DEF Init, Links!Init

LEMMA LinkSend ==
    ASSUME IInv, NEW e \in End, Send(e)
    PROVE  Links!Send(e) \/ UNCHANGED <<sent, got, ended>>
  <1>1. CASE UNCHANGED sent
    BY <1>1 DEF Send
  <1>2. CASE sent' = [sent EXCEPT ![e] = Append(@, Len(sent[e]) + 1)]
    <2>1. /\ Len(sent[e]) < MaxSends[e]
          /\ Len(sent[e]) \in Nat /\ MaxSends[e] \in Nat
      BY Numbers DEF Send, IInv, InOrder, SentInOrder
    <2>2. Len(sent[e]) + 1 \in 1 .. MaxSends[e]
      BY <2>1
    <2>3. Len(sent[e]) + 1 \in UNION {1 .. MaxSends[f] : f \in End}
      BY <2>2
    <2>4. QED
      BY <1>2, <2>3 DEF Send, Links!Send
  <1>3. QED
    BY <1>1, <1>2 DEF Send

LEMMA LinkReceive ==
    ASSUME IInv, NEW e \in End, Receive(e)
    PROVE  Links!Receive(e) \/ Links!Finish(e)
  <1> DEFINE p == Peer(e)
             m == Head(received[e])
  <1>1. p \in End
    BY TwoEnds
  <1>2. CASE received[e] = <<>>
    BY <1>2 DEF Receive, Links!Finish
  <1>3. CASE received[e] # <<>>
    <2>1. /\ received[e] \in Seq(Nat) /\ Counts(received[e], Len(got[e]))
          /\ Written(e) <= Passed(p) /\ Counts(sent[p], 0)
      BY <1>1 DEF IInv, TypeInvariant, InOrder, ReaderInOrder, SentInOrder
    <2>2. Len(got[e]) \in Nat /\ Len(sent[p]) \in Nat
      BY <1>1, Numbers DEF IInv
    <2>3. m = Len(got[e]) + 1
      BY <1>3, <2>1, <2>2, CountsTail
    <2>4. Len(got[e]) + 1 <= Written(e)
      <3>1. Len(received[e]) \in Nat \ {0}
        BY <1>3, <2>1, EmptySeq
      <3>2. Messages(reading[e]) \in Nat /\ Messages(wire[e]) \in Nat
        BY MessagesBound DEF IInv, TypeInvariant
      <3>3. Written(e) = Len(got[e]) + Len(received[e]) + Messages(reading[e])
                            + Messages(wire[e])
        BY DEF Written, Read, Arrived
      <3>4. \A i, k, l \in Nat, j \in Nat \ {0} : i + 1 <= i + j + k + l
        OBVIOUS
      <3>5. QED
        BY <2>2, <3>1, <3>2, <3>3, <3>4
    <2>5. Passed(p) <= Len(sent[p])
      <3>1. /\ Len(send[p]) \in Nat /\ Len(waitingMsgs[p]) \in Nat
            /\ Messages(writing[p]) \in Nat
        BY <1>1, Numbers, MessagesBound DEF IInv, TypeInvariant
      <3>2. Passed(p) = Len(sent[p]) - Len(send[p]) - Len(waitingMsgs[p])
                            - Messages(writing[p])
        BY DEF Passed, Taken
      <3>3. \A i, j, k, l \in Nat : i - j - k - l <= i
        OBVIOUS
      <3>4. QED
        BY <2>2, <3>1, <3>2, <3>3
    <2>6. Written(e) \in Nat /\ Passed(p) \in Int
      BY <1>1, CountNumbers DEF IInv
    <2>7. Len(got[e]) + 1 <= Len(sent[p]) /\ Len(got[e]) + 1 \in 1 .. Len(sent[p])
      BY <2>1, <2>2, <2>4, <2>5, <2>6
    <2>8. sent[p][Len(got[e]) + 1] = m
      BY <2>1, <2>2, <2>3, <2>7 DEF Counts
    <2>9. QED
      BY <1>3, <2>7, <2>8 DEF Receive, Links!Receive
  <1>4. QED
    BY <1>2, <1>3

LEMMA LinkStep ==
    ASSUME IInv, [Next]_vars
    PROVE  [Links!Next]_Links!vars
  <1>1. CASE UNCHANGED <<sent, got, ended>>
    BY <1>1 DEF Links!vars
  <1>2. ASSUME NEW e \in End, Send(e)
        PROVE  [Links!Next]_Links!vars
    BY <1>2, LinkSend DEF Links!Next, Links!vars
  <1>3. ASSUME NEW e \in End, Receive(e)
        PROVE  [Links!Next]_Links!vars
    BY <1>3, LinkReceive DEF Links!Next
  <1>4. UNCHANGED vars \/ Break => UNCHANGED <<sent, got, ended>>
    BY DEF vars, Break
  <1>5. ASSUME NEW e \in End,
               Call(e) \/ Close(e) \/ readLoop(e) \/ writeLoop(e)
        PROVE  UNCHANGED <<sent, got, ended>>
    BY <1>5 DEF Call, Close, readLoop, ReadMsg, PassOn, ReadError, writeLoop,
                WriteMsg, WriteError, StopWriting, TakeMsg, TakeCapabilities,
                Disconnect
  <1>6. QED
    BY <1>1, <1>2, <1>3, <1>4, <1>5 DEF Next

(* A connection implements Link: whatever the sizes of its channels and    *)
(* however it ends, each node gets a prefix of what the other sent, in     *)
(* order and once (baseconn.go:252, 302-350).                              *)
THEOREM ConnectionImplementsLink == Spec => ImplementsLink
  <1>1. Init => Links!Init
    BY LinkInit
  <1>2. IInv /\ [Next]_vars => [Links!Next]_Links!vars
    BY LinkStep
  <1>3. QED
    BY <1>1, <1>2, MessagesInOrder, PTL DEF Spec, ImplementsLink, Links!Spec
=============================================================================
