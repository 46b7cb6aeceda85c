---------------------------- MODULE FollowProofs ----------------------------
(***************************************************************************)
(* How bursts are framed, and that only a degraded node is burst to or     *)
(* panics, for any number of nodes, connections, slots and faults, and     *)
(* whatever was agreed.                                                    *)
(*                                                                         *)
(* A burst is marked in three places: at its sender, in the messages under *)
(* way and at its receiver.  HandleStep says what all steps of one node    *)
(* have in common that these depend on: what it sends fits the mark at its *)
(* end, and it takes the message that its mark then follows.  Such a step  *)
(* keeps the connections framed, whichever it is; what is left for each    *)
(* action is that it is such a step, and what it does to its store.        *)
(***************************************************************************)
EXTENDS Follow, SequenceTheorems, FiniteSetTheorems, WellFoundedInduction, TLAPS

-----------------------------------------------------------------------------
(* Sequences of anything.                                                  *)
IsSequence(q) == Len(q) \in Nat /\ q = [i \in 1 .. Len(q) |-> q[i]]

Elements(q) == {q[i] : i \in 1 .. Len(q)}

LEMMA IsSequenceOf ==
    ASSUME NEW q, IsSequence(q), NEW S, Elements(q) \subseteq S
    PROVE  q \in Seq(S)
<1>1. q \in [1 .. Len(q) -> S]
  BY DEF IsSequence, Elements
<1> QED
  BY <1>1, SeqDef DEF IsSequence

LEMMA SequenceIs ==
    ASSUME NEW S, NEW q \in Seq(S)
    PROVE  IsSequence(q) /\ Elements(q) \subseteq S
<1>1. Len(q) \in Nat /\ q \in [1 .. Len(q) -> S]
  BY LenProperties
<1> QED
  BY <1>1 DEF IsSequence, Elements

LEMMA EmptyIs == IsSequence(<<>>) /\ Len(<<>>) = 0
  BY EmptySeq, SequenceIs

LEMMA OneIs ==
    ASSUME NEW m
    PROVE  IsSequence(<<m>>) /\ Len(<<m>>) = 1 /\ <<m>>[1] = m
<1>1. <<m>> \in Seq({m}) /\ Len(<<m>>) = 1 /\ <<m>>[1] = m
  OBVIOUS
<1> QED
  BY <1>1, SequenceIs

LEMMA ConcatIs ==
    ASSUME NEW q, IsSequence(q), NEW r, IsSequence(r)
    PROVE  /\ IsSequence(q \o r) /\ Len(q \o r) = Len(q) + Len(r)
           /\ \A i \in 1 .. Len(q) : (q \o r)[i] = q[i]
           /\ \A i \in Len(q) + 1 .. Len(q) + Len(r) : (q \o r)[i] = r[i - Len(q)]
<1> DEFINE S == Elements(q) \cup Elements(r)
<1>1. q \in Seq(S) /\ r \in Seq(S)
  BY IsSequenceOf
<1> HIDE DEF S
<1>2. q \o r \in Seq(S) /\ Len(q \o r) = Len(q) + Len(r)
  BY <1>1, ConcatProperties
<1>3. \A i \in 1 .. Len(q) + Len(r) :
         (q \o r)[i] = IF i <= Len(q) THEN q[i] ELSE r[i - Len(q)]
  BY <1>1, ConcatProperties
<1>4. Len(q) \in Nat /\ Len(r) \in Nat
  BY DEF IsSequence
<1>5. \A i \in 1 .. Len(q) : (q \o r)[i] = q[i]
  BY <1>3, <1>4
<1>6. \A i \in Len(q) + 1 .. Len(q) + Len(r) : (q \o r)[i] = r[i - Len(q)]
  BY <1>3, <1>4
<1>7. IsSequence(q \o r)
  BY <1>2, SequenceIs
<1> QED
  BY <1>2, <1>5, <1>6, <1>7

LEMMA ConcatAssociates ==
    ASSUME NEW q, IsSequence(q), NEW r, IsSequence(r), NEW t, IsSequence(t)
    PROVE  q \o (r \o t) = (q \o r) \o t
<1> DEFINE S == Elements(q) \cup Elements(r) \cup Elements(t)
<1>1. q \in Seq(S) /\ r \in Seq(S) /\ t \in Seq(S)
  BY IsSequenceOf
<1> HIDE DEF S
<1> QED
  BY <1>1, ConcatAssociative

LEMMA ConcatNothing ==
    ASSUME NEW q, IsSequence(q)
    PROVE  q \o <<>> = q
<1>1. q \in Seq(Elements(q))
  BY IsSequenceOf
<1> QED
  BY <1>1, ConcatEmptySeq

LEMMA TailIs ==
    ASSUME NEW q, IsSequence(q), q # <<>>
    PROVE  /\ IsSequence(Tail(q)) /\ Len(q) \in Nat \ {0}
           /\ Len(Tail(q)) = Len(q) - 1 /\ Head(q) = q[1]
           /\ \A i \in 1 .. Len(Tail(q)) : Tail(q)[i] = q[i + 1]
<1>1. q \in Seq(Elements(q))
  BY IsSequenceOf
<1>2. PICK S : q \in Seq(S)
  BY <1>1
<1>3. /\ Tail(q) \in Seq(S) /\ Len(Tail(q)) = Len(q) - 1
      /\ \A i \in 1 .. Len(Tail(q)) : Tail(q)[i] = q[i + 1]
  BY <1>2, HeadTailProperties
<1>4. Len(q) \in Nat \ {0}
  BY <1>2, EmptySeq
<1>5. Head(q) = q[1]
  BY <1>2
<1> QED
  BY <1>3, <1>4, <1>5, SequenceIs

-----------------------------------------------------------------------------
(* Bursts in a queue.                                                      *)

(* q is what a node has to handle that is in a burst, or not, before it,   *)
(* and is in one, or not, after it.                                        *)
Placed(before, q) ==
    \A i \in 1 .. Len(q) : OfBurst(q[i]) => InBurst(before, q, i - 1)

Marks(m) == m.type \in {"Bursting", "BurstDone"}

AfterMessage(before, m) ==
    IF m.type = "Bursting" THEN TRUE
    ELSE IF m.type = "BurstDone" THEN FALSE ELSE before

LEMMA InBurstFirst ==
    ASSUME NEW before \in BOOLEAN, NEW q
    PROVE  InBurst(before, q, 0) <=> before
<1>1. 1 .. 0 = {}
  OBVIOUS
<1> QED
  BY <1>1 DEF InBurst

LEMMA InBurstNext ==
    ASSUME NEW before \in BOOLEAN, NEW q, NEW i \in Nat
    PROVE  /\ q[i + 1].type = "Bursting" => InBurst(before, q, i + 1)
           /\ q[i + 1].type = "BurstDone" => ~InBurst(before, q, i + 1)
           /\ ~Marks(q[i + 1])
                 => (InBurst(before, q, i + 1) <=> InBurst(before, q, i))
<1>1. 1 .. i + 1 = (1 .. i) \cup {i + 1}
  OBVIOUS
<1>2. \A j \in 1 .. i : j + 1 .. i + 1 = (j + 1 .. i) \cup {i + 1}
  OBVIOUS
<1>3. i + 1 + 1 .. i + 1 = {} /\ i + 1 \in 1 .. i + 1
  OBVIOUS
<1>4. q[i + 1].type = "Bursting" => InBurst(before, q, i + 1)
  BY <1>3 DEF InBurst
<1>5. ASSUME q[i + 1].type = "BurstDone" PROVE ~InBurst(before, q, i + 1)
  <2>1. \A j \in 1 .. i : i + 1 \in j + 1 .. i + 1
    OBVIOUS
  <2>2. \A j \in 1 .. i + 1 : j \in 1 .. i \/ j = i + 1
    OBVIOUS
  <2>3. q[i + 1].type # "Bursting"
    BY <1>5
  <2> QED
    BY <1>3, <1>5, <2>1, <2>2, <2>3 DEF InBurst
<1>6. ASSUME ~Marks(q[i + 1])
      PROVE  InBurst(before, q, i + 1) <=> InBurst(before, q, i)
  <2>1. q[i + 1].type # "Bursting" /\ q[i + 1].type # "BurstDone"
    BY <1>6 DEF Marks
  <2>2. (\A k \in 1 .. i + 1 : q[k].type # "BurstDone")
           <=> \A k \in 1 .. i : q[k].type # "BurstDone"
    BY <1>1, <2>1
  <2>3. \A j \in 1 .. i : (\A k \in j + 1 .. i + 1 : q[k].type # "BurstDone")
                             <=> \A k \in j + 1 .. i : q[k].type # "BurstDone"
    BY <1>2, <2>1
  <2>4. \A j \in 1 .. i + 1 : q[j].type = "Bursting" => j \in 1 .. i
    BY <2>1
  <2>5. \A j \in 1 .. i : j \in 1 .. i + 1
    OBVIOUS
  <2> QED
    BY <2>2, <2>3, <2>4, <2>5 DEF InBurst
<1> QED
  BY <1>4, <1>5, <1>6

LEMMA InBurstSame ==
    ASSUME NEW before \in BOOLEAN, NEW q, NEW r, NEW i \in Nat,
           \A k \in 1 .. i : q[k] = r[k]
    PROVE  InBurst(before, q, i) <=> InBurst(before, r, i)
<1>1. \A j \in 1 .. i : \A k \in j + 1 .. i : k \in 1 .. i
  OBVIOUS
<1> QED
  BY <1>1 DEF InBurst

LEMMA InBurstPlain ==
    ASSUME NEW before \in BOOLEAN, NEW q, NEW i \in Nat, NEW j \in Nat, i <= j,
           \A k \in i + 1 .. j : ~Marks(q[k])
    PROVE  InBurst(before, q, j) <=> InBurst(before, q, i)
<1>1. \A k \in i + 1 .. j : q[k].type # "Bursting" /\ q[k].type # "BurstDone"
  BY DEF Marks
<1>2. (\A k \in 1 .. j : q[k].type # "BurstDone")
         <=> \A k \in 1 .. i : q[k].type # "BurstDone"
  <2>1. \A k \in 1 .. j : k \in 1 .. i \/ k \in i + 1 .. j
    OBVIOUS
  <2>2. \A k \in 1 .. i : k \in 1 .. j
    OBVIOUS
  <2> QED
    BY <1>1, <2>1, <2>2
<1>3. \A h \in 1 .. i : (\A k \in h + 1 .. j : q[k].type # "BurstDone")
                           <=> \A k \in h + 1 .. i : q[k].type # "BurstDone"
  <2> SUFFICES ASSUME NEW h \in 1 .. i
               PROVE  (\A k \in h + 1 .. j : q[k].type # "BurstDone")
                         <=> \A k \in h + 1 .. i : q[k].type # "BurstDone"
    OBVIOUS
  <2>1. \A k \in h + 1 .. j : k \in h + 1 .. i \/ k \in i + 1 .. j
    OBVIOUS
  <2>2. \A k \in h + 1 .. i : k \in h + 1 .. j
    OBVIOUS
  <2> QED
    BY <1>1, <2>1, <2>2
<1>4. \A h \in 1 .. j : q[h].type = "Bursting" => h \in 1 .. i
  <2>1. \A h \in 1 .. j : h \in 1 .. i \/ h \in i + 1 .. j
    OBVIOUS
  <2> QED
    BY <1>1, <2>1
<1>5. \A h \in 1 .. i : h \in 1 .. j
  OBVIOUS
<1> QED
  BY <1>2, <1>3, <1>4, <1>5 DEF InBurst

LEMMA InBurstTail ==
    ASSUME NEW before \in BOOLEAN, NEW q, NEW t, NEW i \in Nat,
           \A k \in 1 .. i : t[k] = q[k + 1]
    PROVE  InBurst(AfterMessage(before, q[1]), t, i)
              <=> InBurst(before, q, i + 1)
<1> DEFINE Clear(j) == \A k \in j .. i + 1 : q[k].type # "BurstDone"
<1>1. \A j \in 1 .. i + 1 : (\A k \in j .. i : t[k].type # "BurstDone") <=> Clear(j + 1)
  <2> SUFFICES ASSUME NEW j \in 1 .. i + 1
               PROVE  (\A k \in j .. i : t[k].type # "BurstDone") <=> Clear(j + 1)
    OBVIOUS
  <2>1. \A k \in j .. i : k + 1 \in j + 1 .. i + 1 /\ t[k] = q[k + 1]
    OBVIOUS
  <2>2. \A k \in j + 1 .. i + 1 : k - 1 \in j .. i /\ q[k] = t[k - 1]
    OBVIOUS
  <2> QED
    BY <2>1, <2>2
<1>2. (\E j \in 1 .. i : t[j].type = "Bursting" /\ \A k \in j + 1 .. i : t[k].type # "BurstDone")
         <=> \E j \in 2 .. i + 1 : q[j].type = "Bursting" /\ Clear(j + 1)
  <2> HIDE DEF Clear
  <2>1. ASSUME NEW j \in 1 .. i PROVE
           /\ j + 1 \in 2 .. i + 1 /\ t[j] = q[j + 1]
           /\ (\A k \in j + 1 .. i : t[k].type # "BurstDone") <=> Clear(j + 1 + 1)
    <3>1. j + 1 \in 1 .. i + 1
      OBVIOUS
    <3> QED
      BY <1>1, <3>1
  <2>2. ASSUME NEW j \in 2 .. i + 1 PROVE
           /\ j - 1 \in 1 .. i /\ q[j] = t[j - 1]
           /\ (\A k \in (j - 1) + 1 .. i : t[k].type # "BurstDone") <=> Clear(j + 1)
    <3>1. j \in 1 .. i + 1 /\ (j - 1) + 1 = j /\ j - 1 \in 1 .. i
      OBVIOUS
    <3>2. (j - 1) + 1 .. i = j .. i
      BY <3>1
    <3>3. q[j] = t[j - 1]
      BY <3>1
    <3> QED
      BY <1>1, <3>1, <3>2, <3>3
  <2> QED
    BY <2>1, <2>2
<1>3. (\A k \in 1 .. i : t[k].type # "BurstDone") <=> Clear(2)
  BY <1>1
<1>4. InBurst(before, q, i + 1)
         <=> \/ before /\ Clear(1)
             \/ q[1].type = "Bursting" /\ Clear(2)
             \/ \E j \in 2 .. i + 1 : q[j].type = "Bursting" /\ Clear(j + 1)
  <2>1. 1 .. i + 1 = {1} \cup (2 .. i + 1)
    OBVIOUS
  <2>2. \A j : (\A k \in j + 1 .. i + 1 : q[k].type # "BurstDone") <=> Clear(j + 1)
    OBVIOUS
  <2>3. (\A k \in 1 .. i + 1 : q[k].type # "BurstDone") <=> Clear(1)
    OBVIOUS
  <2>4. Clear(1 + 1) <=> Clear(2)
    OBVIOUS
  <2> HIDE DEF Clear
  <2> QED
    BY <2>1, <2>2, <2>3, <2>4 DEF InBurst
<1>5. Clear(1) <=> q[1].type # "BurstDone" /\ Clear(2)
  <2>1. 1 .. i + 1 = {1} \cup (2 .. i + 1)
    OBVIOUS
  <2> QED
    BY <2>1
<1> HIDE DEF Clear
<1>6. InBurst(AfterMessage(before, q[1]), t, i)
         <=> \/ AfterMessage(before, q[1]) /\ Clear(2)
             \/ \E j \in 2 .. i + 1 : q[j].type = "Bursting" /\ Clear(j + 1)
  BY <1>2, <1>3 DEF InBurst
<1>7. AfterMessage(before, q[1]) /\ Clear(2)
         <=> \/ before /\ Clear(1)
             \/ q[1].type = "Bursting" /\ Clear(2)
  BY <1>5 DEF AfterMessage
<1> QED
  BY <1>4, <1>6, <1>7

-----------------------------------------------------------------------------
(* What is sent while the sender is in a burst, or not, before it, and is  *)
(* in one, or not, after it.                                               *)
Plain(ms, sending) ==
    \A i \in 1 .. Len(ms) : ~Marks(ms[i]) /\ (OfBurst(ms[i]) => sending)

Sends(sending, ms, sending2) ==
    \/ sending2 = sending /\ Plain(ms, sending)
    \/ sending2 /\ ms = <<Bursting>>
    \/ sending /\ ~sending2
       /\ \E s, rest : /\ ms = <<BurstDone(s)>> \o rest
                       /\ IsSequence(rest) /\ Plain(rest, FALSE)

Framed(before, q, after) ==
    Placed(before, q) /\ (InBurst(before, q, Len(q)) <=> after)

LEMMA FramedPlain ==
    ASSUME NEW b \in BOOLEAN, NEW a \in BOOLEAN, NEW q, IsSequence(q),
           NEW r, IsSequence(r), Framed(b, q, a), Plain(r, a)
    PROVE  Framed(b, q \o r, a)
<1>1. Len(q) \in Nat /\ Len(r) \in Nat
  BY DEF IsSequence
<1>2. PICK u : u = q \o r
  OBVIOUS
<1>3. /\ IsSequence(u) /\ Len(u) = Len(q) + Len(r)
      /\ \A i \in 1 .. Len(q) : u[i] = q[i]
      /\ \A i \in Len(q) + 1 .. Len(q) + Len(r) : u[i] = r[i - Len(q)]
  BY <1>2, ConcatIs
<1>4. ASSUME NEW i \in Len(q) + 1 .. Len(u)
      PROVE  ~Marks(u[i]) /\ (OfBurst(u[i]) => a)
  <2>1. i - Len(q) \in 1 .. Len(r) /\ u[i] = r[i - Len(q)]
    BY <1>1, <1>3
  <2> QED
    BY <2>1 DEF Plain
<1>5. ASSUME NEW i \in Nat, i <= Len(q)
      PROVE  InBurst(b, u, i) <=> InBurst(b, q, i)
  <2>1. \A k \in 1 .. i : u[k] = q[k]
    BY <1>1, <1>3, <1>5
  <2> QED
    BY <2>1, InBurstSame
<1>6. ASSUME NEW i \in Nat, Len(q) <= i, i <= Len(u)
      PROVE  InBurst(b, u, i) <=> a
  <2>1. \A k \in Len(q) + 1 .. i : ~Marks(u[k])
    BY <1>1, <1>3, <1>4, <1>6
  <2>2. InBurst(b, u, i) <=> InBurst(b, u, Len(q))
    BY <1>1, <1>6, <2>1, InBurstPlain
  <2> QED
    BY <1>1, <1>5, <2>2 DEF Framed
<1>7. Placed(b, u)
  <2> SUFFICES ASSUME NEW i \in 1 .. Len(u), OfBurst(u[i])
               PROVE  InBurst(b, u, i - 1)
    BY DEF Placed
  <2>1. CASE i <= Len(q)
    <3>1. i \in 1 .. Len(q) /\ u[i] = q[i] /\ i - 1 \in Nat /\ i - 1 <= Len(q)
      BY <1>1, <1>3, <2>1
    <3> QED
      BY <1>5, <3>1 DEF Framed, Placed
  <2>2. CASE ~(i <= Len(q))
    <3>1. i \in Len(q) + 1 .. Len(u) /\ i - 1 \in Nat /\ Len(q) <= i - 1 /\ i - 1 <= Len(u)
      BY <1>1, <1>3, <2>2
    <3> QED
      BY <1>4, <1>6, <3>1
  <2> QED
    BY <2>1, <2>2
<1>8. InBurst(b, u, Len(u)) <=> a
  BY <1>1, <1>3, <1>6
<1> QED
  BY <1>2, <1>7, <1>8 DEF Framed

LEMMA FramedMark ==
    ASSUME NEW b \in BOOLEAN, NEW a \in BOOLEAN, NEW q, IsSequence(q),
           Framed(b, q, a), NEW m, Marks(m), OfBurst(m) => a
    PROVE  Framed(b, q \o <<m>>, m.type = "Bursting")
<1>1. Len(q) \in Nat
  BY DEF IsSequence
<1>2. PICK u : u = q \o <<m>>
  OBVIOUS
<1>3. /\ IsSequence(<<m>>) /\ Len(<<m>>) = 1 /\ <<m>>[1] = m
  BY OneIs
<1>4. /\ Len(u) = Len(q) + 1 /\ \A i \in 1 .. Len(q) : u[i] = q[i]
      /\ u[Len(q) + 1] = m
  <2>1. /\ Len(u) = Len(q) + 1 /\ \A i \in 1 .. Len(q) : u[i] = q[i]
        /\ \A i \in Len(q) + 1 .. Len(q) + 1 : u[i] = <<m>>[i - Len(q)]
    BY <1>2, <1>3, ConcatIs
  <2>2. Len(q) + 1 \in Len(q) + 1 .. Len(q) + 1 /\ (Len(q) + 1) - Len(q) = 1
    BY <1>1
  <2> QED
    BY <1>3, <2>1, <2>2
<1>5. ASSUME NEW i \in Nat, i <= Len(q)
      PROVE  InBurst(b, u, i) <=> InBurst(b, q, i)
  <2>1. \A k \in 1 .. i : u[k] = q[k]
    BY <1>1, <1>4, <1>5
  <2> QED
    BY <2>1, InBurstSame
<1>6. Placed(b, u)
  <2> SUFFICES ASSUME NEW i \in 1 .. Len(u), OfBurst(u[i])
               PROVE  InBurst(b, u, i - 1)
    BY DEF Placed
  <2>1. CASE i <= Len(q)
    <3>1. i \in 1 .. Len(q) /\ u[i] = q[i] /\ i - 1 \in Nat /\ i - 1 <= Len(q)
      BY <1>1, <1>4, <2>1
    <3> QED
      BY <1>5, <3>1 DEF Framed, Placed
  <2>2. CASE ~(i <= Len(q))
    <3>1. i = Len(q) + 1 /\ i - 1 = Len(q)
      BY <1>1, <1>4, <2>2
    <3>2. u[i] = m
      BY <1>4, <3>1
    <3>3. InBurst(b, u, Len(q))
      BY <1>1, <1>5, <3>2 DEF Framed
    <3> QED
      BY <3>1, <3>3
  <2> QED
    BY <2>1, <2>2
<1>7. InBurst(b, u, Len(u)) <=> m.type = "Bursting"
  BY <1>1, <1>4, InBurstNext DEF Marks
<1> QED
  BY <1>2, <1>6, <1>7 DEF Framed

LEMMA FramedSends ==
    ASSUME NEW b \in BOOLEAN, NEW a \in BOOLEAN, NEW a2 \in BOOLEAN,
           NEW q, IsSequence(q), NEW ms, IsSequence(ms), Framed(b, q, a), Sends(a, ms, a2)
    PROVE  Framed(b, q \o ms, a2)
<1>1. CASE a2 = a /\ Plain(ms, a)
  BY <1>1, FramedPlain
<1>2. CASE a2 /\ ms = <<Bursting>>
  <2>1. Marks(Bursting) /\ ~OfBurst(Bursting) /\ Bursting.type = "Bursting"
    BY DEF Marks, OfBurst, Bursting
  <2>2. Framed(b, q \o <<Bursting>>, TRUE)
    BY <2>1, FramedMark
  <2> QED
    BY <1>2, <2>2
<1>3. CASE a /\ ~a2 /\ \E s, rest : /\ ms = <<BurstDone(s)>> \o rest
                                    /\ IsSequence(rest) /\ Plain(rest, FALSE)
  <2>1. PICK s, rest : /\ ms = <<BurstDone(s)>> \o rest
                       /\ IsSequence(rest) /\ Plain(rest, FALSE)
    BY <1>3
  <2>2. PICK m : m = BurstDone(s)
    OBVIOUS
  <2>3. Marks(m) /\ m.type = "BurstDone"
    BY <2>2 DEF Marks, BurstDone
  <2>4. Framed(b, q \o <<m>>, FALSE)
    BY <1>3, <2>3, FramedMark
  <2>5. IsSequence(q \o <<m>>) /\ IsSequence(<<m>>)
    BY OneIs, ConcatIs
  <2>6. Framed(b, (q \o <<m>>) \o rest, FALSE)
    BY <2>1, <2>4, <2>5, FramedPlain
  <2>7. q \o ms = (q \o <<m>>) \o rest
    BY <2>1, <2>2, <2>5, ConcatAssociates
  <2> QED
    BY <1>3, <2>6, <2>7
<1> QED
  BY <1>1, <1>2, <1>3 DEF Sends

LEMMA FramedTail ==
    ASSUME NEW b \in BOOLEAN, NEW q, IsSequence(q), q # <<>>, Placed(b, q)
    PROVE  /\ OfBurst(Head(q)) => b
           /\ Placed(AfterMessage(b, Head(q)), Tail(q))
           /\ InBurst(AfterMessage(b, Head(q)), Tail(q), Len(Tail(q)))
                 <=> InBurst(b, q, Len(q))
<1>1. PICK t : t = Tail(q)
  OBVIOUS
<1>2. /\ IsSequence(t) /\ Len(q) \in Nat \ {0}
      /\ Len(t) = Len(q) - 1 /\ Head(q) = q[1]
      /\ \A i \in 1 .. Len(t) : t[i] = q[i + 1]
  BY <1>1, TailIs
<1>3. ASSUME NEW i \in Nat, i <= Len(t)
      PROVE  InBurst(AfterMessage(b, q[1]), t, i) <=> InBurst(b, q, i + 1)
  <2>1. \A k \in 1 .. i : t[k] = q[k + 1]
    BY <1>2, <1>3
  <2> QED
    BY <2>1, InBurstTail
<1>4. OfBurst(q[1]) => b
  <2>1. 1 \in 1 .. Len(q) /\ 1 - 1 = 0
    BY <1>2
  <2>2. OfBurst(q[1]) => InBurst(b, q, 0)
    BY <2>1 DEF Placed
  <2> QED
    BY <2>2, InBurstFirst
<1>5. Placed(AfterMessage(b, q[1]), t)
  <2> SUFFICES ASSUME NEW i \in 1 .. Len(t), OfBurst(t[i])
               PROVE  InBurst(AfterMessage(b, q[1]), t, i - 1)
    BY DEF Placed
  <2>1. i + 1 \in 1 .. Len(q) /\ (i + 1) - 1 = i /\ i - 1 \in Nat
        /\ i - 1 <= Len(t) /\ (i - 1) + 1 = i
    BY <1>2
  <2>2. InBurst(b, q, (i + 1) - 1)
    BY <1>2, <2>1 DEF Placed
  <2> QED
    BY <1>3, <2>1, <2>2
<1>6. InBurst(AfterMessage(b, q[1]), t, Len(t)) <=> InBurst(b, q, Len(q))
  <2>1. Len(t) \in Nat /\ Len(t) + 1 = Len(q)
    BY <1>2
  <2> QED
    BY <1>3, <2>1
<1> QED
  BY <1>1, <1>2, <1>4, <1>5, <1>6

LEMMA FramedEmpty ==
    ASSUME NEW b \in BOOLEAN
    PROVE  Framed(b, <<>>, b)
<1>1. Len(<<>>) = 0 /\ 1 .. 0 = {}
  BY EmptyIs
<1> QED
  BY <1>1, InBurstFirst DEF Framed, Placed

-----------------------------------------------------------------------------
(* Induction over the natural numbers.                                     *)
LEMMA Induction ==
    ASSUME NEW S \in SUBSET Nat, 0 \in S, \A n \in S : n + 1 \in S
    PROVE  S = Nat
<1> SUFFICES ASSUME S # Nat PROVE FALSE
  OBVIOUS
<1>1. PICK x \in Nat \ S : \A y \in Nat \ S : <<y, x>> \notin OpToRel(<, Nat)
  BY WFMin, NatLessThanWellFounded, Zenon
<1>2. \A y \in Nat \ S : y < x => <<y, x>> \in OpToRel(<, Nat)
  BY Zenon DEF OpToRel
<1>3. x # 0 /\ x \in Nat
  BY <1>1
<1>4. x - 1 \in Nat /\ x - 1 < x /\ (x - 1) + 1 = x
  BY <1>3
<1>5. x - 1 \in S
  BY <1>1, <1>2, <1>4
<1> QED
  BY <1>1, <1>4, <1>5

-----------------------------------------------------------------------------
(* Slots in order.                                                         *)
Nth(slots, i) == CHOOSE s \in slots : Cardinality({t \in slots : t <= s}) = i

LEMMA NthIn ==
    ASSUME NEW slots \in SUBSET Nat, IsFiniteSet(slots), NEW i \in 1 .. Cardinality(slots)
    PROVE  Nth(slots, i) \in slots
<1> DEFINE upTo(s) == {t \in slots : t <= s}
           f == [s \in slots |-> Cardinality(upTo(s))]
           n == Cardinality(slots)
<1>1. n \in Nat /\ IsFiniteSet(1 .. n) /\ Cardinality(1 .. n) = n
  BY FS_CardinalityType, FS_Interval
<1>2. ASSUME NEW s \in slots PROVE f[s] \in 1 .. n /\ IsFiniteSet(upTo(s))
  <2>1. IsFiniteSet(upTo(s)) /\ Cardinality(upTo(s)) <= n
    <3>1. upTo(s) \in SUBSET slots
      OBVIOUS
    <3> QED
      BY <3>1, FS_Subset
  <2>2. Cardinality(upTo(s)) \in Nat
    BY <2>1, FS_CardinalityType
  <2>3. upTo(s) # {}
    OBVIOUS
  <2>4. Cardinality(upTo(s)) # 0
    BY <2>1, <2>3, FS_EmptySet
  <2> QED
    BY <1>1, <2>1, <2>2, <2>4
<1>3. ASSUME NEW s \in slots, NEW u \in slots, s < u PROVE f[s] # f[u]
  <2>1. upTo(s) \in SUBSET upTo(u) /\ u \in upTo(u) /\ u \notin upTo(s)
    <3>1. s \in Nat /\ u \in Nat /\ s <= u /\ ~(u <= s) /\ u <= u
      BY <1>3
    <3>2. \A t \in slots : t <= s => t <= u
      BY <3>1
    <3> QED
      BY <3>1, <3>2
  <2>2. IsFiniteSet(upTo(u))
    BY <1>2
  <2> HIDE DEF upTo
  <2>3. Cardinality(upTo(u)) = Cardinality(upTo(s)) => upTo(u) = upTo(s)
    BY <2>1, <2>2, FS_Subset
  <2> QED
    BY <2>1, <2>3
<1>4. f \in Injection(slots, 1 .. n)
  <2>1. f \in [slots -> 1 .. n]
    BY <1>2
  <2>2. \A s, u \in slots : f[s] = f[u] => s = u
    <3> SUFFICES ASSUME NEW s \in slots, NEW u \in slots, s # u PROVE f[s] # f[u]
      OBVIOUS
    <3>1. s < u \/ u < s
      OBVIOUS
    <3> HIDE DEF f
    <3> QED
      BY <1>3, <3>1
  <2> HIDE DEF f
  <2> QED
    BY <2>1, <2>2 DEF Injection, IsInjective
<1>5. f \in Surjection(slots, 1 .. n)
  <2> HIDE DEF f
  <2> QED
    BY <1>1, <1>4, FS_Injection
<1>6. \E s \in slots : f[s] = i
  <2> HIDE DEF f
  <2> QED
    BY <1>5 DEF Surjection
<1>7. \E s \in slots : Cardinality({t \in slots : t <= s}) = i
  BY <1>6
<1> QED
  BY <1>7 DEF Nth

LEMMA SlotsFinite ==
    ASSUME NEW st, NEW s \in Nat
    PROVE  ChosenFrom(st, s) \in SUBSET Nat /\ IsFiniteSet(ChosenFrom(st, s))
<1>1. LastSlot \in Nat
  BY FollowAssumption
<1>2. IsFiniteSet(s .. LastSlot) /\ ChosenFrom(st, s) \in SUBSET (s .. LastSlot)
  BY <1>1, FS_Interval DEF ChosenFrom
<1>3. s .. LastSlot \subseteq Nat
  BY <1>1
<1> QED
  BY <1>2, <1>3, FS_Subset

-----------------------------------------------------------------------------
(* What a node sends, and what it keeps.                                   *)
Sendings == {"no", "start", "live", "frozen"}

IsMessage(m) ==
    /\ m.type = "Data" => m.slot \in Nat /\ m.idempotent \in BOOLEAN
    /\ m.type \in {"Chosen", "Request"} => m.slot \in Nat
    /\ m.type \in {"Position", "BurstDone"} => m.firstUnapplied \in Nat

IsQueue(q) == IsSequence(q) /\ \A i \in 1 .. Len(q) : IsMessage(q[i])

IsStore(st) ==
    /\ st = [degraded |-> st.degraded, start |-> st.start,
             firstUnapplied |-> st.firstUnapplied, slots |-> st.slots,
             state |-> st.state]
    /\ st.degraded \in BOOLEAN
    /\ st.start \in Nat /\ st.firstUnapplied \in Nat
    /\ st.start <= st.firstUnapplied
    /\ IsSequence(st.slots)

IsEnd(f) ==
    /\ f = [phase |-> f.phase, node |-> f.node, outgoing |-> f.outgoing,
            closed |-> f.closed, sending |-> f.sending, first |-> f.first,
            sent |-> f.sent, frozen |-> f.frozen, receiving |-> f.receiving,
            waiting |-> f.waiting, offers |-> f.offers]
    /\ f.phase \in {"none", "received", "handled"} /\ f.sending \in Sendings
    /\ f.outgoing \in BOOLEAN /\ f.closed \in BOOLEAN /\ f.receiving \in BOOLEAN
    /\ f.offers \subseteq Nat

LEMMA QueueConcat ==
    ASSUME NEW q, IsQueue(q), NEW r, IsQueue(r)
    PROVE  IsQueue(q \o r)
<1>1. Len(q) \in Nat /\ Len(r) \in Nat
  BY DEF IsQueue, IsSequence
<1>2. PICK u : u = q \o r
  OBVIOUS
<1>3. /\ IsSequence(u) /\ Len(u) = Len(q) + Len(r)
      /\ \A i \in 1 .. Len(q) : u[i] = q[i]
      /\ \A i \in Len(q) + 1 .. Len(q) + Len(r) : u[i] = r[i - Len(q)]
  BY <1>2, ConcatIs DEF IsQueue
<1>4. ASSUME NEW i \in 1 .. Len(u) PROVE IsMessage(u[i])
  <2>1. CASE i \in 1 .. Len(q)
    BY <1>3, <2>1 DEF IsQueue
  <2>2. CASE i \notin 1 .. Len(q)
    <3>1. i \in Len(q) + 1 .. Len(q) + Len(r) /\ i - Len(q) \in 1 .. Len(r)
      BY <1>1, <1>3, <2>2
    <3> QED
      BY <1>3, <3>1 DEF IsQueue
  <2> QED
    BY <2>1, <2>2
<1> QED
  BY <1>2, <1>3, <1>4 DEF IsQueue

LEMMA QueueTail ==
    ASSUME NEW q, IsQueue(q), q # <<>>
    PROVE  IsQueue(Tail(q)) /\ IsMessage(Head(q))
<1>1. PICK t : t = Tail(q)
  OBVIOUS
<1>2. /\ IsSequence(t) /\ Len(q) \in Nat \ {0}
      /\ Len(t) = Len(q) - 1 /\ Head(q) = q[1]
      /\ \A i \in 1 .. Len(t) : t[i] = q[i + 1]
  BY <1>1, TailIs DEF IsQueue
<1>3. \A i \in 1 .. Len(t) : i + 1 \in 1 .. Len(q)
  BY <1>2
<1>4. 1 \in 1 .. Len(q)
  BY <1>2
<1> QED
  BY <1>1, <1>2, <1>3, <1>4 DEF IsQueue

LEMMA QueueOne ==
    ASSUME NEW m, IsMessage(m)
    PROVE  IsQueue(<<m>>)
<1>1. PICK q : q = <<m>>
  OBVIOUS
<1>2. IsSequence(q) /\ Len(q) = 1 /\ q[1] = m
  BY <1>1, OneIs
<1>3. \A i \in 1 .. 1 : i = 1
  OBVIOUS
<1> QED
  BY <1>1, <1>2, <1>3 DEF IsQueue

LEMMA QueueEmpty == IsQueue(<<>>)
<1>1. 1 .. 0 = {}
  OBVIOUS
<1> QED
  BY <1>1, EmptyIs DEF IsQueue

(* Messages that are no part of a burst.                                   *)
IsPlain(m) == IsMessage(m) /\ ~Marks(m) /\ ~OfBurst(m)

LEMMA PlainKinds ==
    ASSUME NEW s \in Nat
    PROVE  /\ IsPlain(Chosen(s)) /\ IsPlain(Request(s))
           /\ \A t, changes : IsPlain(Data(s, t, changes, FALSE))
  BY DEF IsPlain, IsMessage, Marks, OfBurst, Chosen, Request, Data

LEMMA PlainOne ==
    ASSUME NEW m, IsPlain(m), NEW a \in BOOLEAN
    PROVE  IsQueue(<<m>>) /\ Plain(<<m>>, a)
<1>1. PICK q : q = <<m>>
  OBVIOUS
<1>2. IsSequence(q) /\ Len(q) = 1 /\ q[1] = m
  BY <1>1, OneIs
<1>3. \A i \in 1 .. 1 : i = 1
  OBVIOUS
<1>4. Plain(q, a)
  BY <1>2, <1>3 DEF Plain, IsPlain
<1> QED
  BY <1>1, <1>4, QueueOne DEF IsPlain

LEMMA PlainEmpty ==
    ASSUME NEW a \in BOOLEAN
    PROVE  IsQueue(<<>>) /\ Plain(<<>>, a)
<1>1. 1 .. 0 = {}
  OBVIOUS
<1> QED
  BY <1>1, EmptyIs, QueueEmpty DEF Plain

LEMMA ListPlain ==
    ASSUME NEW n \in Nat, NEW q, q = [i \in 1 .. n |-> q[i]],
           \A i \in 1 .. n : IsPlain(q[i]), NEW a \in BOOLEAN
    PROVE  IsQueue(q) /\ Plain(q, a)
<1>1. q \in [1 .. n -> {q[i] : i \in 1 .. n}]
  OBVIOUS
<1>2. PICK S : q \in [1 .. n -> S]
  BY <1>1
<1>3. q \in Seq(S) /\ Len(q) = n
  BY <1>2
<1>4. IsSequence(q)
  BY <1>3, SequenceIs
<1> QED
  BY <1>3, <1>4 DEF IsQueue, Plain, IsPlain

LEMMA ChosenInOrder ==
    ASSUME NEW st, NEW s \in Nat, NEW a \in BOOLEAN
    PROVE  /\ IsQueue(InOrder(ChosenFrom(st, s), Chosen))
           /\ Plain(InOrder(ChosenFrom(st, s), Chosen), a)
<1>1. PICK slots : slots = ChosenFrom(st, s)
  OBVIOUS
<1>2. slots \in SUBSET Nat /\ IsFiniteSet(slots)
  BY <1>1, SlotsFinite
<1>3. PICK n \in Nat : n = Cardinality(slots)
  BY <1>2, FS_CardinalityType
<1>4. PICK q : q = [i \in 1 .. n |-> Chosen(Nth(slots, i))]
  OBVIOUS
<1>5. \A i \in 1 .. n : IsPlain(q[i])
  BY <1>2, <1>3, <1>4, NthIn, PlainKinds
<1>6. q = [i \in 1 .. n |-> q[i]]
  BY <1>4
<1>7. InOrder(slots, Chosen) = q
  BY <1>3, <1>4 DEF InOrder, Nth
<1> QED
  BY <1>1, <1>5, <1>6, <1>7, ListPlain

LEMMA DataInOrder ==
    ASSUME NEW st, NEW s \in Nat, NEW a \in BOOLEAN
    PROVE  IsQueue(DataFrom(st, s)) /\ Plain(DataFrom(st, s), a)
<1>1. PICK slots : slots = ChosenFrom(st, s)
  OBVIOUS
<1>2. slots \in SUBSET Nat /\ IsFiniteSet(slots)
  BY <1>1, SlotsFinite
<1>3. PICK n \in Nat : n = Cardinality(slots)
  BY <1>2, FS_CardinalityType
<1>4. PICK q : q = DataFrom(st, s)
  OBVIOUS
<1>5. q = [i \in 1 .. n |-> Data(Nth(slots, i), At(st, Nth(slots, i)),
                                Agreed[At(st, Nth(slots, i))], FALSE)]
  BY <1>1, <1>3, <1>4 DEF DataFrom, InOrder, Nth
<1>6. \A i \in 1 .. n : IsPlain(q[i])
  BY <1>2, <1>3, <1>5, NthIn, PlainKinds
<1>7. q = [i \in 1 .. n |-> q[i]]
  BY <1>5
<1> QED
  BY <1>4, <1>6, <1>7, ListPlain

-----------------------------------------------------------------------------
(* tryApply.                                                               *)
ApplyNext(r) ==
    LET s == r.store.firstUnapplied
        t == At(r.store, s)
        done == applyChanges(r.store.state, Agreed[t], FALSE)
    IN  IF r.store.degraded \/ ~IsChosen(r.store, s) THEN r
        ELSE [store |-> [r.store EXCEPT !.state = done.state,
                                        !.firstUnapplied = s + 1],
              applied |-> Append(r.applied, Data(s, t, done.changes, TRUE))]

(* What tryApply makes of st, after any number of instructions.            *)
Applies(st, r) ==
    /\ IsStore(r.store)
    /\ r.store.degraded = st.degraded
    /\ r.store.start = st.start /\ r.store.slots = st.slots
    /\ st.firstUnapplied <= r.store.firstUnapplied
    /\ \A t \in st.firstUnapplied .. r.store.firstUnapplied - 1 : IsChosen(st, t)
    /\ IsQueue(r.applied) /\ Plain(r.applied, TRUE)
    /\ \A i \in 1 .. Len(r.applied) :
          r.applied[i].type = "Data" /\ r.applied[i].slot < r.store.firstUnapplied

LEMMA ChosenAlike ==
    ASSUME NEW st, NEW st2, st2.start = st.start, st2.slots = st.slots, NEW t
    PROVE  IsChosen(st2, t) <=> IsChosen(st, t)
  BY DEF IsChosen, At

LEMMA PlainAppend ==
    ASSUME NEW q, IsQueue(q), Plain(q, TRUE), NEW m, IsMessage(m), ~Marks(m)
    PROVE  \E u : /\ u = Append(q, m) /\ IsQueue(u) /\ Plain(u, TRUE)
                  /\ \A i \in 1 .. Len(u) :
                        u[i] = m \/ \E j \in 1 .. Len(q) : u[i] = q[j]
<1> DEFINE S == Elements(q) \cup {m}
<1>1. q \in Seq(S) /\ m \in S
  BY IsSequenceOf DEF IsQueue
<1> HIDE DEF S
<1>2. PICK u : u = Append(q, m)
  OBVIOUS
<1>3. /\ u \in Seq(S) /\ Len(u) = Len(q) + 1 /\ u[Len(q) + 1] = m
      /\ \A i \in 1 .. Len(q) : u[i] = q[i]
  BY <1>1, <1>2, AppendProperties
<1>4. IsSequence(u) /\ Len(q) \in Nat
  BY <1>3, SequenceIs DEF IsQueue, IsSequence
<1>5. ASSUME NEW i \in 1 .. Len(u)
      PROVE  /\ IsMessage(u[i]) /\ ~Marks(u[i])
             /\ u[i] = m \/ \E j \in 1 .. Len(q) : u[i] = q[j]
  <2>1. CASE i \in 1 .. Len(q)
    BY <1>3, <2>1 DEF IsQueue, Plain
  <2>2. CASE i \notin 1 .. Len(q)
    <3>1. i = Len(q) + 1
      BY <1>3, <1>4, <2>2
    <3> QED
      BY <1>3, <3>1
  <2> QED
    BY <2>1, <2>2
<1> QED
  BY <1>2, <1>4, <1>5 DEF IsQueue, Plain

LEMMA ApplyNextApplies ==
    ASSUME NEW st, IsStore(st), NEW r, Applies(st, r)
    PROVE  Applies(st, ApplyNext(r))
<1>1. CASE r.store.degraded \/ ~IsChosen(r.store, r.store.firstUnapplied)
  BY <1>1 DEF ApplyNext
<1>2. CASE ~(r.store.degraded \/ ~IsChosen(r.store, r.store.firstUnapplied))
  <2>1. PICK s : s = r.store.firstUnapplied
    OBVIOUS
  <2>2. PICK done : done = applyChanges(r.store.state, Agreed[At(r.store, s)], FALSE)
    OBVIOUS
  <2>3. PICK st2 : st2 = [r.store EXCEPT !.state = done.state, !.firstUnapplied = s + 1]
    OBVIOUS
  <2>4. PICK m : m = Data(s, At(r.store, s), done.changes, TRUE)
    OBVIOUS
  <2>5. PICK a : a = Append(r.applied, m)
    OBVIOUS
  <2>6. ApplyNext(r) = [store |-> st2, applied |-> a]
    BY <1>2, <2>1, <2>2, <2>3, <2>4, <2>5 DEF ApplyNext
  <2>7. s \in Nat /\ st.firstUnapplied \in Nat /\ st.firstUnapplied <= s
        /\ IsStore(r.store)
    BY <2>1 DEF Applies, IsStore
  <2>8. /\ st2 = [degraded |-> r.store.degraded, start |-> r.store.start,
                  firstUnapplied |-> s + 1, slots |-> r.store.slots,
                  state |-> done.state]
    <3>1. r.store = [degraded |-> r.store.degraded, start |-> r.store.start,
             firstUnapplied |-> r.store.firstUnapplied, slots |-> r.store.slots,
             state |-> r.store.state]
      BY <2>7 DEF IsStore
    <3> QED
      BY <2>3, <3>1
  <2>9. IsStore(st2)
    BY <2>1, <2>7, <2>8 DEF IsStore
  <2>10. IsMessage(m) /\ ~Marks(m)
    BY <2>4, <2>7 DEF IsMessage, Marks, Data
  <2>11. /\ IsQueue(a) /\ Plain(a, TRUE)
         /\ \A i \in 1 .. Len(a) :
               a[i] = m \/ \E j \in 1 .. Len(r.applied) : a[i] = r.applied[j]
    <3>1. PICK b : b = r.applied
      OBVIOUS
    <3>2. IsQueue(b) /\ Plain(b, TRUE)
      BY <3>1 DEF Applies
    <3>3. PICK u : /\ u = Append(b, m) /\ IsQueue(u) /\ Plain(u, TRUE)
                   /\ \A i \in 1 .. Len(u) :
                         u[i] = m \/ \E j \in 1 .. Len(b) : u[i] = b[j]
      BY <2>10, <3>2, PlainAppend
    <3>4. a = u
      BY <2>5, <3>1, <3>3
    <3> QED
      BY <3>1, <3>3, <3>4
  <2>16. ASSUME NEW i \in 1 .. Len(a)
         PROVE  a[i].type = "Data" /\ a[i].slot < st2.firstUnapplied
    <3>1. m.type = "Data" /\ m.slot = s
      BY <2>4 DEF Data
    <3>2. CASE a[i] = m
      BY <2>7, <2>8, <3>1, <3>2
    <3>3. ASSUME NEW j \in 1 .. Len(r.applied), a[i] = r.applied[j]
          PROVE  a[i].type = "Data" /\ a[i].slot < st2.firstUnapplied
      <4>1. a[i].type = "Data" /\ a[i].slot < s
        BY <2>1, <3>3 DEF Applies
      <4>2. a[i].slot \in Nat
        BY <2>11, <4>1 DEF IsQueue, IsMessage
      <4> QED
        BY <2>7, <2>8, <4>1, <4>2
    <3> QED
      BY <2>11, <3>2, <3>3
  <2>12. IsChosen(st, s)
    BY <1>2, <2>1, ChosenAlike DEF Applies
  <2>13. ASSUME NEW t \in st.firstUnapplied .. st2.firstUnapplied - 1
         PROVE  IsChosen(st, t)
    <3>1. t \in st.firstUnapplied .. s - 1 \/ t = s
      BY <2>7, <2>8
    <3> QED
      BY <2>1, <2>12, <3>1 DEF Applies
  <2>14. /\ st2.degraded = st.degraded /\ st2.start = st.start
         /\ st2.slots = st.slots /\ st.firstUnapplied <= st2.firstUnapplied
    BY <2>7, <2>8 DEF Applies
  <2>15. ApplyNext(r).store = st2 /\ ApplyNext(r).applied = a
    BY <2>6
  <2> QED
    BY <2>9, <2>11, <2>13, <2>14, <2>15, <2>16 DEF Applies
<1> QED
  BY <1>1, <1>2

IsHistory(f, r, n) ==
    f = [k \in 0 .. n |-> IF k = 0 THEN r ELSE ApplyNext(f[k - 1])]

LEMMA HistoryExists ==
    ASSUME NEW r, NEW n \in Nat
    PROVE  \E f : IsHistory(f, r, n)
<1> DEFINE S == {m \in Nat : \E f : IsHistory(f, r, m)}
<1>1. 0 \in S
  <2>1. [k \in 0 .. 0 |-> r] = [k \in 0 .. 0 |-> IF k = 0 THEN r
                                  ELSE ApplyNext([j \in 0 .. 0 |-> r][k - 1])]
    OBVIOUS
  <2> QED
    BY <2>1 DEF IsHistory
<1>2. ASSUME NEW m \in S PROVE m + 1 \in S
  <2>1. PICK f : IsHistory(f, r, m)
    OBVIOUS
  <2> DEFINE g == [k \in 0 .. m + 1 |-> IF k <= m THEN f[k] ELSE ApplyNext(f[m])]
  <2>2. ASSUME NEW k \in 0 .. m + 1
        PROVE  g[k] = IF k = 0 THEN r ELSE ApplyNext(g[k - 1])
    <3>1. CASE k = 0
      BY <2>1, <3>1 DEF IsHistory
    <3>2. CASE k # 0 /\ k <= m
      <4>1. k - 1 \in 0 .. m + 1 /\ k - 1 <= m /\ k \in 0 .. m
        BY <3>2
      <4> QED
        BY <2>1, <3>2, <4>1 DEF IsHistory
    <3>3. CASE k = m + 1
      <4>1. k - 1 = m /\ ~(k <= m) /\ m \in 0 .. m + 1
        BY <3>3
      <4>2. g[k - 1] = f[m] /\ k # 0
        BY <3>3, <4>1
      <4>3. g[k] = ApplyNext(f[m])
        BY <4>1
      <4> QED
        BY <4>2, <4>3
    <3> QED
      BY <3>1, <3>2, <3>3
  <2>3. g = [k \in 0 .. m + 1 |-> IF k = 0 THEN r ELSE ApplyNext(g[k - 1])]
    <3> HIDE DEF g
    <3>1. g = [k \in 0 .. m + 1 |-> g[k]]
      BY DEF g
    <3> QED
      BY <2>2, <3>1
  <2>4. IsHistory(g, r, m + 1)
    BY <2>3 DEF IsHistory
  <2> HIDE DEF g
  <2> QED
    BY <2>4
<1>3. S = Nat
  <2> HIDE DEF S
  <2> QED
    BY <1>1, <1>2, Induction DEF S
<1> QED
  BY <1>3

LEMMA tryApplyHistory ==
    ASSUME NEW st
    PROVE  \E history : /\ IsHistory(history, [store |-> st, applied |-> <<>>], LastSlot + 1)
                        /\ tryApply(st) = history[LastSlot + 1]
<1>1. PICK n \in Nat : n = LastSlot + 1
  BY FollowAssumption
<1>2. PICK r : r = [store |-> st, applied |-> <<>>]
  OBVIOUS
<1> DEFINE IsF(f) == f = [k \in 0 .. n |-> IF k = 0 THEN r
                ELSE CHOOSE y \in {ApplyNext(x) : x \in {f[k - 1]}} : TRUE]
           history == CHOOSE f : IsF(f)
<1>3. ASSUME NEW f PROVE IsF(f) <=> IsHistory(f, r, n)
  <2>1. \A k \in 0 .. n :
         (CHOOSE y \in {ApplyNext(x) : x \in {f[k - 1]}} : TRUE) = ApplyNext(f[k - 1])
    OBVIOUS
  <2> QED
    BY <2>1 DEF IsHistory
<1>4. IsHistory(history, r, n)
  <2>1. \E f : IsF(f)
    BY <1>3, HistoryExists
  <2>2. IsF(history)
    BY <2>1
  <2> HIDE DEF IsF
  <2> QED
    BY <2>2, <1>3
<1>5. tryApply(st) = history[n]
  BY <1>1, <1>2 DEF Iterated, tryApply, ApplyNext
<1> HIDE DEF history
<1> QED
  BY <1>1, <1>2, <1>4, <1>5

LEMMA tryApplyApplies ==
    ASSUME NEW st, IsStore(st)
    PROVE  Applies(st, tryApply(st))
<1>1. PICK n \in Nat : n = LastSlot + 1
  BY FollowAssumption
<1>2. PICK r : r = [store |-> st, applied |-> <<>>]
  OBVIOUS
<1>3. PICK history : /\ IsHistory(history, [store |-> st, applied |-> <<>>], LastSlot + 1)
                     /\ tryApply(st) = history[LastSlot + 1]
  BY tryApplyHistory
<1>4. IsHistory(history, r, n)
  BY <1>1, <1>2, <1>3
<1>5. tryApply(st) = history[n]
  BY <1>1, <1>3
<1>6. {m \in Nat : m <= n => Applies(st, history[m])} = Nat
  <2> DEFINE S == {m \in Nat : m <= n => Applies(st, history[m])}
  <2>1. 0 \in S
    <3>1. history[0] = r
      BY <1>4 DEF IsHistory
    <3>2. st.firstUnapplied .. st.firstUnapplied - 1 = {}
      BY DEF IsStore
    <3>3. r.store = st /\ r.applied = <<>>
      BY <1>2
    <3>4. st.firstUnapplied <= st.firstUnapplied
      BY DEF IsStore
    <3>5. PICK a : a = r.applied /\ Len(a) = 0
      BY <3>3, EmptyIs
    <3>6. IsQueue(a) /\ Plain(a, TRUE)
      BY <3>3, <3>5, PlainEmpty
    <3>7. \A i \in 1 .. Len(a) : FALSE
      BY <3>5
    <3>8. Applies(st, r)
      BY <3>2, <3>3, <3>4, <3>5, <3>6, <3>7 DEF Applies
    <3> QED
      BY <3>1, <3>8
  <2>2. ASSUME NEW m \in S PROVE m + 1 \in S
    <3>1. CASE m + 1 <= n
      <4>1. m + 1 \in 0 .. n /\ m + 1 # 0 /\ (m + 1) - 1 = m /\ m <= n
        BY <3>1
      <4>2. history[m + 1] = ApplyNext(history[m])
        BY <1>4, <4>1 DEF IsHistory
      <4> QED
        BY <4>1, <4>2, ApplyNextApplies
    <3>2. CASE ~(m + 1 <= n)
      BY <3>2
    <3> QED
      BY <3>1, <3>2
  <2> HIDE DEF S
  <2>3. S = Nat
    BY <2>1, <2>2, Induction DEF S
  <2> QED
    BY <2>3 DEF S
<1> QED
  <2>1. n \in {m \in Nat : m <= n => Applies(st, history[m])}
    BY <1>6
  <2> QED
    BY <1>5, <2>1

-----------------------------------------------------------------------------
(* The store of a node.  Unless it is degraded, it has all slots between   *)
(* the start and what it has not applied.                                  *)
HasApplied(st) ==
    ~st.degraded =>
        \A t \in st.start .. st.firstUnapplied - 1 : IsChosen(st, t)

LEMMA FunctionIs ==
    ASSUME NEW n \in Nat, NEW q, q = [i \in 1 .. n |-> q[i]]
    PROVE  IsSequence(q) /\ Len(q) = n
<1>1. q \in [1 .. n -> {q[i] : i \in 1 .. n}]
  OBVIOUS
<1>2. PICK S : q \in [1 .. n -> S]
  BY <1>1
<1>3. q \in Seq(S) /\ Len(q) = n
  BY <1>2
<1> QED
  BY <1>3, SequenceIs

LEMMA SlotAt ==
    ASSUME NEW st, IsStore(st), NEW t \in Nat
    PROVE  /\ DOMAIN st.slots = 1 .. Len(st.slots)
           /\ IsChosen(st, t) <=> /\ t - st.start + 1 \in 1 .. Len(st.slots)
                                  /\ st.slots[t - st.start + 1] # Unchosen
<1>1. DOMAIN st.slots = 1 .. Len(st.slots)
  BY DEF IsStore, IsSequence
<1> QED
  BY <1>1 DEF IsChosen, At

LEMMA WithChosenKeeps ==
    ASSUME NEW st, IsStore(st), NEW s \in Nat, st.start <= s, ~IsChosen(st, s),
           NEW req, NEW st2, st2 = WithChosen(st, s, req)
    PROVE  /\ IsStore(st2) /\ st2.degraded = st.degraded
           /\ st2.start = st.start /\ st2.firstUnapplied = st.firstUnapplied
           /\ \A t \in Nat : IsChosen(st, t) => IsChosen(st2, t)
           /\ \A t \in Nat : IsChosen(st2, t) => IsChosen(st, t) \/ t = s
           /\ req # Unchosen => IsChosen(st2, s)
<1>1. /\ st.start \in Nat /\ Len(st.slots) \in Nat /\ IsSequence(st.slots)
      /\ DOMAIN st.slots = 1 .. Len(st.slots)
  BY SlotAt DEF IsStore, IsSequence
<1>2. PICK size : size = IF s - st.start < Len(st.slots)
                         THEN Len(st.slots) ELSE s - st.start + 1
  OBVIOUS
<1>3. size \in Nat /\ Len(st.slots) <= size
  BY <1>1, <1>2
<1>4. PICK slots : slots = [i \in 1 .. size |->
            IF i = s - st.start + 1 THEN req
            ELSE IF i \in DOMAIN st.slots THEN st.slots[i] ELSE Unchosen]
  OBVIOUS
<1>5. IsSequence(slots) /\ Len(slots) = size
  <2>1. slots = [i \in 1 .. size |-> slots[i]]
    BY <1>4
  <2> QED
    BY <1>3, <2>1, FunctionIs
<1>6. st2 = [st EXCEPT !.slots = slots]
  BY <1>2, <1>4 DEF WithChosen
<1>7. st2 = [degraded |-> st.degraded, start |-> st.start,
             firstUnapplied |-> st.firstUnapplied, slots |-> slots, state |-> st.state]
  <2>1. st = [degraded |-> st.degraded, start |-> st.start,
             firstUnapplied |-> st.firstUnapplied, slots |-> st.slots, state |-> st.state]
    BY DEF IsStore
  <2> QED
    BY <1>6, <2>1
<1>8. IsStore(st2)
  BY <1>5, <1>7 DEF IsStore
<1>9. ASSUME NEW t \in Nat, IsChosen(st, t) PROVE IsChosen(st2, t)
  <2>1. PICK i : i = t - st.start + 1
    OBVIOUS
  <2>2. i \in 1 .. Len(st.slots) /\ st.slots[i] # Unchosen
    BY <1>9, <2>1, SlotAt
  <2>3. i # s - st.start + 1
    <3>1. t # s
      BY <1>9
    <3> QED
      BY <1>1, <2>1, <3>1
  <2>4. i \in 1 .. size /\ slots[i] = st.slots[i]
    BY <1>1, <1>3, <1>4, <2>2, <2>3
  <2>5. st2.start = st.start /\ st2.slots = slots
    BY <1>7
  <2> QED
    BY <1>5, <1>8, <2>1, <2>2, <2>4, <2>5, SlotAt
<1>10. ASSUME NEW t \in Nat, IsChosen(st2, t), t # s PROVE IsChosen(st, t)
  <2>1. PICK i : i = t - st.start + 1
    OBVIOUS
  <2>2. st2.start = st.start /\ st2.slots = slots
    BY <1>7
  <2>3. i \in 1 .. size /\ slots[i] # Unchosen
    BY <1>5, <1>8, <1>10, <2>1, <2>2, SlotAt
  <2>4. i # s - st.start + 1
    BY <1>1, <1>10, <2>1
  <2>5. i \in 1 .. Len(st.slots) /\ st.slots[i] # Unchosen
    BY <1>1, <1>4, <2>3, <2>4
  <2> QED
    BY <2>1, <2>5, SlotAt
<1>11. ASSUME req # Unchosen PROVE IsChosen(st2, s)
  <2>1. PICK i : i = s - st.start + 1
    OBVIOUS
  <2>2. i \in 1 .. size
    BY <1>1, <1>2, <2>1
  <2>3. slots[i] = req /\ req # Unchosen
    BY <1>4, <1>11, <2>1, <2>2
  <2>4. st2.start = st.start /\ st2.slots = slots
    BY <1>7
  <2> QED
    BY <1>5, <1>8, <2>1, <2>2, <2>3, <2>4, SlotAt
<1> QED
  BY <1>7, <1>8, <1>9, <1>10, <1>11

LEMMA DiscardKeeps ==
    ASSUME NEW st, IsStore(st), HasApplied(st), NEW s, NEW p \in DiscardPoints(st, s),
           NEW st2, st2 = Discard(st, p)
    PROVE  /\ IsStore(st2) /\ HasApplied(st2) /\ st2.degraded = st.degraded
           /\ DiscardPanics(st, p) => st.degraded
           /\ st2.firstUnapplied = st.firstUnapplied
           /\ \A t \in Nat : IsChosen(st2, t) => IsChosen(st, t)
           /\ \A t \in Nat : st.firstUnapplied <= t /\ IsChosen(st, t) => IsChosen(st2, t)
<1>1. /\ st.start \in Nat /\ st.firstUnapplied \in Nat /\ Len(st.slots) \in Nat
      /\ IsSequence(st.slots) /\ DOMAIN st.slots = 1 .. Len(st.slots)
  BY SlotAt DEF IsStore, IsSequence
<1>2. /\ p \in Nat /\ st.start <= p /\ p <= st.firstUnapplied
      /\ \A t \in st.start .. p - 1 : IsChosen(st, t)
  BY <1>1 DEF DiscardPoints
<1>3. p - st.start <= Len(st.slots)
  <2>1. CASE p = st.start
    BY <1>1, <2>1
  <2>2. CASE p # st.start
    <3>1. p - 1 \in st.start .. p - 1 /\ p - 1 \in Nat
      BY <1>1, <1>2, <2>2
    <3>2. (p - 1) - st.start + 1 \in 1 .. Len(st.slots)
      BY <1>2, <3>1, SlotAt
    <3> QED
      BY <1>1, <1>2, <3>2
  <2> QED
    BY <2>1, <2>2
<1>4. PICK d \in Nat : d = p - st.start /\ d <= Len(st.slots)
  BY <1>1, <1>2, <1>3
<1>5. PICK slots : slots = SubSeq(st.slots, d + 1, Len(st.slots))
  OBVIOUS
<1>6. /\ IsSequence(slots) /\ Len(slots) = Len(st.slots) - d
      /\ \A i \in 1 .. Len(st.slots) - d : slots[i] = st.slots[i + d]
  <2>1. PICK S : S = Elements(st.slots)
    OBVIOUS
  <2>2. \A i \in d + 1 .. Len(st.slots) : st.slots[i] \in S
    BY <1>1, <1>4, <2>1 DEF Elements
  <2>3. d + 1 \in Int /\ Len(st.slots) \in Int
    BY <1>1, <1>4
  <2>4. /\ slots \in Seq(S)
        /\ Len(slots) = IF d + 1 <= Len(st.slots) THEN Len(st.slots) - (d + 1) + 1 ELSE 0
        /\ \A i \in 1 .. Len(st.slots) - (d + 1) + 1 : slots[i] = st.slots[(d + 1) + i - 1]
    BY <1>5, <2>2, <2>3, SubSeqProperties
  <2>5. IsSequence(slots)
    BY <2>4, SequenceIs
  <2>6. Len(slots) = Len(st.slots) - d
    BY <1>1, <1>4, <2>4
  <2>7. ASSUME NEW i \in 1 .. Len(st.slots) - d PROVE slots[i] = st.slots[i + d]
    <3>1. i \in 1 .. Len(st.slots) - (d + 1) + 1 /\ (d + 1) + i - 1 = i + d
      BY <1>1, <1>4
    <3> QED
      BY <2>4, <3>1
  <2> QED
    BY <2>5, <2>6, <2>7
<1>7. st2 = [st EXCEPT !.start = p, !.slots = slots]
  <2>1. p - st.start + 1 = d + 1
    BY <1>4
  <2> QED
    BY <1>5, <2>1 DEF Discard
<1>8. st2 = [degraded |-> st.degraded, start |-> p,
             firstUnapplied |-> st.firstUnapplied, slots |-> slots, state |-> st.state]
  <2>1. st = [degraded |-> st.degraded, start |-> st.start,
             firstUnapplied |-> st.firstUnapplied, slots |-> st.slots, state |-> st.state]
    BY DEF IsStore
  <2> QED
    BY <1>7, <2>1
<1>9. IsStore(st2)
  BY <1>2, <1>6, <1>8 DEF IsStore
<1>10. ASSUME NEW t \in Nat, p <= t, IsChosen(st, t) PROVE IsChosen(st2, t)
  <2>1. PICK i : i = t - p + 1
    OBVIOUS
  <2>2. t - st.start + 1 \in 1 .. Len(st.slots) /\ st.slots[t - st.start + 1] # Unchosen
    BY <1>10, SlotAt
  <2>3. i \in 1 .. Len(st.slots) - d /\ t - st.start + 1 = i + d
    <3>1. t - st.start + 1 = i + d
      BY <1>1, <1>2, <1>4, <2>1
    <3>2. i + d \in 1 .. Len(st.slots)
      BY <2>2, <3>1
    <3>3. i \in Int /\ 1 <= i
      BY <1>2, <1>10, <2>1
    <3>4. i + d <= Len(st.slots)
      BY <1>1, <1>4, <3>2, <3>3
    <3> QED
      BY <1>1, <1>4, <3>1, <3>3, <3>4
  <2>4. slots[i] # Unchosen
    BY <1>6, <2>2, <2>3
  <2>5. st2.start = p /\ st2.slots = slots
    BY <1>8
  <2> QED
    BY <1>6, <1>9, <2>1, <2>3, <2>4, <2>5, SlotAt
<1>11. HasApplied(st2)
  <2> SUFFICES ASSUME ~st2.degraded, NEW t \in st2.start .. st2.firstUnapplied - 1
               PROVE  IsChosen(st2, t)
    BY DEF HasApplied
  <2>1. /\ ~st.degraded /\ t \in Nat /\ p <= t
        /\ t \in st.start .. st.firstUnapplied - 1
    BY <1>1, <1>2, <1>8
  <2>2. IsChosen(st, t)
    BY <2>1 DEF HasApplied
  <2> QED
    BY <1>10, <2>1, <2>2
<1>12. DiscardPanics(st, p) => st.degraded
  <2> SUFFICES ASSUME p < st.firstUnapplied, ~st.degraded PROVE IsChosen(st, p)
    BY DEF DiscardPanics
  <2>1. p \in st.start .. st.firstUnapplied - 1
    BY <1>1, <1>2
  <2> QED
    BY <2>1 DEF HasApplied
<1>13. ASSUME NEW t \in Nat, IsChosen(st2, t) PROVE IsChosen(st, t)
  <2>1. PICK i : i = t - p + 1
    OBVIOUS
  <2>2. st2.start = p /\ st2.slots = slots
    BY <1>8
  <2>3. i \in 1 .. Len(st.slots) - d /\ slots[i] # Unchosen
    BY <1>6, <1>9, <1>13, <2>1, <2>2, SlotAt
  <2>4. t - st.start + 1 = i + d /\ i + d \in 1 .. Len(st.slots)
    <3>1. i \in Int /\ 1 <= i /\ i <= Len(st.slots) - d
      BY <1>1, <1>4, <2>3
    <3>2. t - st.start + 1 = i + d
      BY <1>1, <1>2, <1>4, <1>13, <2>1
    <3> QED
      BY <1>1, <1>4, <3>1, <3>2
  <2>5. st.slots[i + d] # Unchosen
    BY <1>6, <2>3
  <2> QED
    BY <2>4, <2>5, SlotAt
<1>14. ASSUME NEW t \in Nat, st.firstUnapplied <= t, IsChosen(st, t) PROVE IsChosen(st2, t)
  BY <1>1, <1>2, <1>10, <1>14
<1> QED
  BY <1>8, <1>9, <1>11, <1>12, <1>13, <1>14

LEMMA tryApplyKeeps ==
    ASSUME NEW st, IsStore(st), HasApplied(st), NEW r, Applies(st, r)
    PROVE  HasApplied(r.store)
<1> SUFFICES ASSUME ~r.store.degraded,
                    NEW t \in r.store.start .. r.store.firstUnapplied - 1
             PROVE  IsChosen(r.store, t)
  BY DEF HasApplied
<1>1. /\ st.start \in Nat /\ st.firstUnapplied \in Nat
      /\ r.store.firstUnapplied \in Nat /\ r.store.start = st.start
      /\ r.store.slots = st.slots /\ ~st.degraded
  BY DEF IsStore, Applies
<1>2. \/ t \in st.start .. st.firstUnapplied - 1
      \/ t \in st.firstUnapplied .. r.store.firstUnapplied - 1
  BY <1>1
<1>3. IsChosen(st, t)
  BY <1>1, <1>2 DEF HasApplied, Applies
<1> QED
  BY <1>1, <1>3, ChosenAlike

AsDegraded(st, st2) == st2.degraded = st.degraded

LEMMA ChooseStore ==
    ASSUME NEW st, IsStore(st), HasApplied(st), NEW s \in Nat, st.start <= s,
           ~IsChosen(st, s), NEW req, NEW r, r = tryApply(WithChosen(st, s, req)),
           NEW p \in DiscardPoints(r.store, s), NEW st2, st2 = Discard(r.store, p)
    PROVE  /\ IsStore(st2) /\ HasApplied(st2) /\ AsDegraded(st, st2)
           /\ DiscardPanics(r.store, p) => st.degraded
           /\ IsQueue(r.applied) /\ Plain(r.applied, TRUE)
<1>1. PICK st1 : st1 = WithChosen(st, s, req)
  OBVIOUS
<1>2. /\ IsStore(st1) /\ st1.degraded = st.degraded
      /\ st1.start = st.start /\ st1.firstUnapplied = st.firstUnapplied
      /\ \A t \in Nat : IsChosen(st, t) => IsChosen(st1, t)
  BY <1>1, WithChosenKeeps
<1>3. HasApplied(st1)
  <2>1. st.start \in Nat /\ st.firstUnapplied \in Nat
    BY DEF IsStore
  <2>2. \A t \in st.start .. st.firstUnapplied - 1 : t \in Nat
    BY <2>1
  <2> QED
    BY <1>2, <2>2 DEF HasApplied
<1>4. Applies(st1, r)
  BY <1>1, <1>2, tryApplyApplies
<1>5. HasApplied(r.store) /\ IsStore(r.store) /\ r.store.degraded = st.degraded
  BY <1>2, <1>3, <1>4, tryApplyKeeps DEF Applies
<1>6. /\ IsStore(st2) /\ HasApplied(st2) /\ st2.degraded = r.store.degraded
      /\ DiscardPanics(r.store, p) => r.store.degraded
  BY <1>5, DiscardKeeps
<1> QED
  BY <1>4, <1>5, <1>6 DEF Applies, AsDegraded

LEMMA DegradeStore ==
    ASSUME NEW st, IsStore(st)
    PROVE  /\ IsStore(Degrade(st)) /\ Degrade(st).degraded /\ HasApplied(Degrade(st))
           /\ Degrade(st).firstUnapplied = st.firstUnapplied
           /\ \A t \in Nat : ~IsChosen(Degrade(st), t)
<1>1. IsSequence(st.slots) /\ Len(st.slots) \in Nat /\ DOMAIN st.slots = 1 .. Len(st.slots)
  BY DEF IsStore, IsSequence
<1>2. PICK slots : slots = [i \in DOMAIN st.slots |-> Unchosen]
  OBVIOUS
<1>3. IsSequence(slots)
  <2>1. slots = [i \in 1 .. Len(st.slots) |-> slots[i]]
    BY <1>1, <1>2
  <2> QED
    BY <1>1, <2>1, FunctionIs
<1>4. Degrade(st) = [degraded |-> TRUE, start |-> st.start,
             firstUnapplied |-> st.firstUnapplied, slots |-> slots, state |-> EmptyState]
  <2>1. st = [degraded |-> st.degraded, start |-> st.start,
             firstUnapplied |-> st.firstUnapplied, slots |-> st.slots, state |-> st.state]
    BY DEF IsStore
  <2>2. Degrade(st) = [st EXCEPT !.degraded = TRUE, !.state = EmptyState, !.slots = slots]
    BY <1>2 DEF Degrade
  <2> QED
    BY <2>1, <2>2
<1>5. IsStore(Degrade(st))
  BY <1>3, <1>4 DEF IsStore
<1>6. ASSUME NEW t \in Nat PROVE ~IsChosen(Degrade(st), t)
  <2>1. PICK u : u = Degrade(st)
    OBVIOUS
  <2>2. u.slots = slots /\ DOMAIN slots = DOMAIN st.slots
    BY <1>2, <1>4, <2>1
  <2>3. \A i \in DOMAIN u.slots : u.slots[i] = Unchosen
    BY <1>2, <2>2
  <2>4. ~IsChosen(u, t)
    BY <2>3 DEF IsChosen, At
  <2> QED
    BY <2>1, <2>4
<1>7. PICK u : u = Degrade(st)
  OBVIOUS
<1>8. u.degraded /\ u.firstUnapplied = st.firstUnapplied
  BY <1>4, <1>7
<1>9. HasApplied(u) /\ IsStore(u) /\ \A t \in Nat : ~IsChosen(u, t)
  BY <1>5, <1>6, <1>7, <1>8 DEF HasApplied
<1> QED
  BY <1>7, <1>8, <1>9

LEMMA EndBurstIs ==
    ASSUME NEW st, IsStore(st), NEW s \in Nat, NEW waiting,
           NEW st2, st2 = EndBurst(st, s, waiting)
    PROVE  /\ IsStore(st2) /\ ~st2.degraded /\ HasApplied(st2)
           /\ st2.firstUnapplied = s
           /\ st.start <= s /\ (\A t \in Nat : ~IsChosen(st, t)) =>
                 \A t \in Nat : ~IsChosen(st2, t)
<1>1. IsSequence(st.slots) /\ Len(st.slots) \in Nat /\ DOMAIN st.slots = 1 .. Len(st.slots)
  BY DEF IsStore, IsSequence
<1>2. PICK slots : slots =
            IF s - st.start < Len(st.slots)
            THEN [i \in DOMAIN st.slots |->
                     IF i + (s - st.start) <= Len(st.slots)
                     THEN st.slots[i + (s - st.start)] ELSE Unchosen]
            ELSE st.slots
  OBVIOUS
<1>3. IsSequence(slots)
  <2>1. slots = [i \in 1 .. Len(st.slots) |-> slots[i]]
    BY <1>1, <1>2 DEF IsSequence
  <2> QED
    BY <1>1, <2>1, FunctionIs
<1>4. setInstructionStart(st, s) = [st EXCEPT !.start = s, !.slots = slots]
  BY <1>2 DEF setInstructionStart
<1>5. PICK state : state = WithWaiting(setInstructionStart(st, s).state, waiting)
  OBVIOUS
<1>7. st2 = [degraded |-> FALSE, start |-> s, firstUnapplied |-> s,
             slots |-> slots, state |-> state]
  <2>1. st = [degraded |-> st.degraded, start |-> st.start,
             firstUnapplied |-> st.firstUnapplied, slots |-> st.slots, state |-> st.state]
    BY DEF IsStore
  <2>2. PICK u : u = setInstructionStart(st, s)
    OBVIOUS
  <2>3. u = [degraded |-> st.degraded, start |-> s,
             firstUnapplied |-> st.firstUnapplied, slots |-> slots, state |-> st.state]
    BY <1>4, <2>1, <2>2
  <2>4. st2 = [u EXCEPT !.firstUnapplied = s, !.degraded = FALSE, !.state = state]
    BY <1>5, <2>2 DEF EndBurst
  <2> QED
    BY <2>3, <2>4
<1>8. IsStore(st2)
  BY <1>3, <1>7 DEF IsStore
<1>9. HasApplied(st2)
  <2>1. s .. s - 1 = {}
    OBVIOUS
  <2> QED
    BY <1>7, <2>1 DEF HasApplied
<1>10. ASSUME st.start <= s, \A t \in Nat : ~IsChosen(st, t)
       PROVE  \A t \in Nat : ~IsChosen(st2, t)
  <2>1. st.start \in Nat
    BY DEF IsStore
  <2>2. ASSUME NEW i \in 1 .. Len(st.slots) PROVE st.slots[i] = Unchosen
    <3>1. PICK u \in Nat : u = st.start + i - 1
      BY <2>1
    <3>2. u - st.start + 1 = i /\ ~IsChosen(st, u)
      BY <1>10, <2>1, <3>1
    <3> QED
      BY <3>2, SlotAt
  <2>3. DOMAIN slots = 1 .. Len(st.slots)
    BY <1>1, <1>2
  <2>4. ASSUME NEW i \in DOMAIN slots PROVE slots[i] = Unchosen
    <3>1. PICK k : k = i + (s - st.start)
      OBVIOUS
    <3>2. CASE s - st.start < Len(st.slots) /\ k <= Len(st.slots)
      <4>1. slots[i] = st.slots[k]
        BY <1>1, <1>2, <2>3, <3>1, <3>2
      <4>2. CASE k \in 1 .. Len(st.slots)
        BY <2>2, <4>1, <4>2
      <4>3. CASE k \notin 1 .. Len(st.slots)
        <5>1. i \in Int /\ 1 <= i
          BY <1>1, <2>3
        <5>2. k \in Int /\ 1 <= k
          BY <1>10, <2>1, <3>1, <5>1
        <5> QED
          BY <1>1, <3>2, <4>3, <5>2
      <4> QED
        BY <4>2, <4>3
    <3>3. CASE s - st.start < Len(st.slots) /\ ~(k <= Len(st.slots))
      BY <1>1, <1>2, <2>3, <3>1, <3>3
    <3>4. CASE ~(s - st.start < Len(st.slots))
      BY <1>2, <2>2, <2>3, <3>4
    <3> QED
      BY <3>2, <3>3, <3>4
  <2>5. st2.slots = slots
    BY <1>7
  <2> QED
    BY <2>4, <2>5 DEF IsChosen, At
<1>11. ~st2.degraded /\ st2.firstUnapplied = s
  BY <1>7
<1> QED
  BY <1>8, <1>9, <1>10, <1>11

LEMMA EndBurstStore ==
    ASSUME NEW st, IsStore(st), NEW s \in Nat, NEW waiting,
           NEW r, r = tryApply(EndBurst(st, s, waiting))
    PROVE  /\ IsStore(r.store) /\ ~r.store.degraded /\ HasApplied(r.store)
           /\ IsQueue(r.applied) /\ Plain(r.applied, TRUE)
<1>1. PICK st2 : st2 = EndBurst(st, s, waiting)
  OBVIOUS
<1>2. IsStore(st2) /\ ~st2.degraded /\ HasApplied(st2)
  BY <1>1, EndBurstIs
<1>3. Applies(st2, r)
  BY <1>1, <1>2, tryApplyApplies
<1>4. HasApplied(r.store)
  BY <1>2, <1>3, tryApplyKeeps
<1> QED
  BY <1>2, <1>3, <1>4 DEF Applies

-----------------------------------------------------------------------------
(* The inductive invariant.                                                *)
IsTable(t) == t = [c \in Conn |-> [n \in Node |-> t[c][n]]]

TypeOK ==
    /\ store = [n \in Node |-> store[n]] /\ \A n \in Node : IsStore(store[n])
    /\ connections \in [Node -> [Node -> Conn \cup {NoConn}]]
    /\ IsTable(conn) /\ \A c \in Conn, n \in Node : IsEnd(conn[c][n])
    /\ IsTable(queue) /\ \A c \in Conn, n \in Node : IsQueue(queue[c][n])
    /\ cut \subseteq Conn /\ crashed \subseteq Node

(* The two ends of a connection that is not cut know each other, a closed  *)
(* end gets nothing any more, and bursts come over handled connections.    *)
EndOK(c, n) ==
    LET f == conn[c][n]
    IN  /\ f.phase = "none" => f = NoFollowConn /\ queue[c][n] = <<>>
        /\ f.phase # "none" => f.node \in Node \ {n}
        /\ f.phase # "none" /\ c \notin cut =>
              conn[c][f.node].phase # "none" /\ conn[c][f.node].node = n
        /\ f.closed => c \in cut /\ queue[c][n] = <<>>
        /\ f.receiving => f.phase = "handled"

EndsOK == \A c \in Conn, n \in Node : EndOK(c, n)

(* The connections in use are those that are handled and not closed.       *)
InUse ==
    /\ \A n, m \in Node : connections[n][m] # NoConn =>
          /\ conn[connections[n][m]][n].phase = "handled"
          /\ conn[connections[n][m]][n].node = m
    /\ \A c \in Conn, n \in Node :
          conn[c][n].phase = "handled" /\ ~conn[c][n].closed
             => connections[n][conn[c][n].node] = c

(* Whoever is burst to has no other connection.                            *)
Alone(n) ==
    \A c \in Conn :
        conn[c][n].receiving /\ ~conn[c][n].closed =>
            /\ store[n].degraded
            /\ \A d \in Conn \ {c} :
                  conn[d][n].phase = "handled" => conn[d][n].closed

StoresOK ==
    \A n \in Node :
        HasApplied(store[n]) /\ (n \in crashed => store[n].degraded)

FramedAt(c, n) ==
    LET f == conn[c][n]
        q == queue[c][n]
    IN  f.phase # "none" =>
            /\ Placed(f.receiving, q)
            /\ c \notin cut =>
                  (InBurst(f.receiving, q, Len(q))
                      <=> conn[c][f.node].sending # "no")

IInv ==
    /\ TypeOK /\ EndsOK /\ InUse /\ StoresOK
    /\ \A n \in Node : Alone(n)
    /\ \A c \in Conn, n \in Node : FramedAt(c, n)

-----------------------------------------------------------------------------
(* A step of node n as others see it, which closes the connections C: what *)
(* it sends on each of the others, and that it takes a message or none.    *)
Transmission(c, n) ==
    LET f == conn[c][n]
        g == conn'[c][n]
        q == queue[c][n]
    IN  /\ \E ms : /\ IsQueue(ms)
                   /\ Sends(f.sending # "no", ms, g.sending # "no")
                   /\ \A x \in Node \ {n} : queue'[c][x] =
                         IF c \notin cut /\ f.phase # "none" /\ x = f.node
                         THEN queue[c][x] \o ms ELSE queue[c][x]
        /\ \/ queue'[c][n] = q /\ g.receiving = f.receiving
           \/ /\ q # <<>> /\ queue'[c][n] = Tail(q)
              /\ g.receiving = AfterMessage(f.receiving, Head(q))

EndStep(c, n, C) ==
    LET f == conn[c][n]
        g == conn'[c][n]
    IN  /\ IsEnd(g) /\ g.node = f.node
        /\ f.phase = "none" => g = f /\ c \notin C
        /\ g.phase = f.phase \/ (f.phase = "received" /\ g.phase = "handled")
        /\ g.closed <=> f.closed \/ c \in C
        /\ g.receiving => g.phase = "handled"

HandleStep(n, C) ==
    /\ C \subseteq Conn /\ cut' = cut \cup C
    /\ IsTable(conn') /\ IsTable(queue')
    /\ \A c \in Conn, x \in Node \ {n} : conn'[c][x] = conn[c][x]
    /\ \A c \in Conn : EndStep(c, n, C)
    /\ \A c \in C : /\ queue'[c][n] = <<>>
                    /\ \A x \in Node \ {n} : queue'[c][x] = queue[c][x]
    /\ \A c \in Conn \ C : Transmission(c, n)

LEMMA HandleEnds ==
    ASSUME TypeOK, EndsOK, NEW n \in Node, NEW C, HandleStep(n, C),
           NEW c \in Conn, NEW x \in Node
    PROVE  EndOK(c, x)' /\ IsEnd(conn'[c][x])
<1>1. EndOK(c, n) /\ EndOK(c, x) /\ IsEnd(conn[c][n]) /\ IsEnd(conn[c][x])
  BY DEF EndsOK, TypeOK
<1>2. /\ \A y \in Node \ {n} : conn'[c][y] = conn[c][y]
      /\ EndStep(c, n, C) /\ cut' = cut \cup C
  BY DEF HandleStep
<1>3. CASE x = n
  <2>1. CASE c \in C
    <3>1. queue'[c][n] = <<>> /\ c \in cut' /\ conn[c][n].phase # "none"
      BY <1>2, <2>1 DEF HandleStep, EndStep
    <3> QED
      BY <1>1, <1>2, <1>3, <2>1, <3>1 DEF EndOK, EndStep
  <2>2. CASE c \notin C
    <3>1. \/ queue'[c][n] = queue[c][n]
          \/ queue[c][n] # <<>>
      BY <2>2 DEF HandleStep, Transmission
    <3>2. CASE conn[c][n].phase = "none"
      <4>1. conn'[c][n] = conn[c][n] /\ conn[c][n] = NoFollowConn
            /\ queue[c][n] = <<>> /\ queue'[c][n] = <<>>
        BY <1>1, <1>2, <3>1, <3>2 DEF EndOK, EndStep
      <4>2. ~NoFollowConn.closed /\ ~NoFollowConn.receiving /\ NoFollowConn.phase = "none"
        BY DEF NoFollowConn
      <4> QED
        BY <1>1, <1>3, <4>1, <4>2 DEF EndOK
    <3>3. CASE conn[c][n].phase # "none"
      <4>1. PICK m \in Node \ {n} : m = conn[c][n].node
        BY <1>1, <3>3 DEF EndOK
      <4>2. conn'[c][m] = conn[c][m] /\ conn'[c][n].node = m
        BY <1>2, <4>1 DEF EndStep
      <4>3. conn'[c][n].phase # "none"
        BY <1>2, <3>3 DEF EndStep
      <4>4. c \notin cut' => conn'[c][m].phase # "none" /\ conn'[c][m].node = n
        BY <1>1, <1>2, <3>3, <4>1, <4>2 DEF EndOK
      <4>5. conn'[c][n].closed => c \in cut' /\ queue'[c][n] = <<>>
        BY <1>1, <1>2, <2>2, <3>1 DEF EndOK, EndStep
      <4>6. IsEnd(conn'[c][n]) /\ (conn'[c][n].receiving => conn'[c][n].phase = "handled")
        BY <1>2 DEF EndStep
      <4> QED
        BY <1>3, <4>1, <4>2, <4>3, <4>4, <4>5, <4>6 DEF EndOK
    <3> QED
      BY <3>2, <3>3
  <2> QED
    BY <2>1, <2>2
<1>4. CASE x # n
  <2>1. conn'[c][x] = conn[c][x]
    BY <1>2, <1>4
  <2>2. \/ queue'[c][x] = queue[c][x]
        \/ /\ c \notin cut /\ conn[c][n].phase # "none" /\ x = conn[c][n].node
    <3>1. CASE c \in C
      BY <1>4, <3>1 DEF HandleStep
    <3>2. CASE c \notin C
      BY <1>4, <3>2 DEF HandleStep, Transmission
    <3> QED
      BY <3>1, <3>2
  <2>3. conn[c][x].phase = "none" \/ conn[c][x].closed => queue'[c][x] = queue[c][x]
    BY <1>1, <2>2 DEF EndOK
  <2>4. ASSUME conn[c][x].phase # "none", c \notin cut'
        PROVE  conn'[c][conn[c][x].node].phase # "none"
               /\ conn'[c][conn[c][x].node].node = x
    <3>1. PICK m \in Node \ {x} : m = conn[c][x].node
      BY <1>1, <2>4 DEF EndOK
    <3>2. conn[c][m].phase # "none" /\ conn[c][m].node = x
      BY <1>1, <1>2, <2>4, <3>1 DEF EndOK
    <3>3. conn'[c][m].phase # "none" /\ conn'[c][m].node = x
      <4>1. CASE m = n
        BY <1>2, <3>2, <4>1 DEF EndStep
      <4>2. CASE m # n
        BY <1>2, <3>2, <4>2
      <4> QED
        BY <4>1, <4>2
    <3> QED
      BY <3>1, <3>3
  <2> QED
    BY <1>1, <1>2, <2>1, <2>3, <2>4 DEF EndOK
<1> QED
  BY <1>3, <1>4

LEMMA HandleQueues ==
    ASSUME TypeOK, NEW n \in Node, NEW C, HandleStep(n, C),
           NEW c \in Conn, NEW x \in Node
    PROVE  IsQueue(queue'[c][x])
<1>1. IsQueue(queue[c][x])
  BY DEF TypeOK
<1>2. CASE c \in C
  <2>1. queue'[c][x] = <<>> \/ queue'[c][x] = queue[c][x]
    BY <1>2 DEF HandleStep
  <2> QED
    BY <1>1, <2>1, QueueEmpty
<1>3. CASE c \notin C
  <2>1. Transmission(c, n)
    BY <1>3 DEF HandleStep
  <2>2. CASE x = n
    <3>1. \/ queue'[c][x] = queue[c][x]
          \/ queue[c][x] # <<>> /\ queue'[c][x] = Tail(queue[c][x])
      BY <2>1, <2>2 DEF Transmission
    <3> QED
      BY <1>1, <3>1, QueueTail
  <2>3. CASE x # n
    <3>1. PICK ms : /\ IsQueue(ms)
                    /\ queue'[c][x] = queue[c][x] \o ms \/ queue'[c][x] = queue[c][x]
      BY <2>1, <2>3 DEF Transmission
    <3> QED
      BY <1>1, <3>1, QueueConcat
  <2> QED
    BY <2>2, <2>3
<1> QED
  BY <1>2, <1>3

LEMMA HandleFramed ==
    ASSUME TypeOK, EndsOK, \A c \in Conn, n \in Node : FramedAt(c, n),
           NEW n \in Node, NEW C, HandleStep(n, C), NEW c \in Conn, NEW x \in Node
    PROVE  FramedAt(c, x)'
<1>1. /\ EndOK(c, n) /\ EndOK(c, x) /\ FramedAt(c, x)
      /\ IsEnd(conn[c][x]) /\ IsEnd(conn[c][n]) /\ IsQueue(queue[c][x])
  BY DEF EndsOK, TypeOK
<1>2. /\ \A y \in Node \ {n} : conn'[c][y] = conn[c][y]
      /\ EndStep(c, n, C) /\ cut' = cut \cup C
  BY DEF HandleStep
<1>3. IsSequence(queue[c][x]) /\ conn[c][x].receiving \in BOOLEAN
  BY <1>1 DEF IsQueue, IsEnd
<1>4. CASE x = n /\ c \in C
  <2>1. queue'[c][n] = <<>> /\ c \in cut' /\ conn'[c][n].receiving \in BOOLEAN
    BY <1>2, <1>4 DEF HandleStep, EndStep, IsEnd
  <2> QED
    BY <1>4, <2>1, FramedEmpty DEF FramedAt, Framed
<1>5. CASE x = n /\ c \notin C /\ conn'[c][n].phase # "none"
  <2>1. Transmission(c, n) /\ (c \in cut' <=> c \in cut)
    BY <1>2, <1>5 DEF HandleStep
  <2>2. conn[c][n].phase # "none" /\ conn'[c][n].node = conn[c][n].node
    BY <1>2, <1>5 DEF EndStep
  <2>3. PICK m \in Node \ {n} : m = conn[c][n].node
    BY <1>1, <2>2 DEF EndOK
  <2>4. conn'[c][m] = conn[c][m]
    BY <1>2
  <2>5. /\ Placed(conn[c][n].receiving, queue[c][n])
        /\ c \notin cut => (InBurst(conn[c][n].receiving, queue[c][n], Len(queue[c][n]))
                               <=> conn[c][m].sending # "no")
    BY <1>1, <1>5, <2>2, <2>3 DEF FramedAt
  <2>6. /\ Placed(conn'[c][n].receiving, queue'[c][n])
        /\ InBurst(conn'[c][n].receiving, queue'[c][n], Len(queue'[c][n]))
              <=> InBurst(conn[c][n].receiving, queue[c][n], Len(queue[c][n]))
    <3>1. CASE queue'[c][n] = queue[c][n] /\ conn'[c][n].receiving = conn[c][n].receiving
      BY <2>5, <3>1
    <3>2. CASE /\ queue[c][n] # <<>> /\ queue'[c][n] = Tail(queue[c][n])
               /\ conn'[c][n].receiving
                     = AfterMessage(conn[c][n].receiving, Head(queue[c][n]))
      BY <1>3, <1>5, <2>5, <3>2, FramedTail
    <3> QED
      BY <2>1, <3>1, <3>2 DEF Transmission
  <2> QED
    BY <1>5, <2>1, <2>2, <2>3, <2>4, <2>5, <2>6 DEF FramedAt
<1>6. CASE x # n /\ conn[c][x].phase # "none"
  <2>1. conn'[c][x] = conn[c][x]
    BY <1>2, <1>6
  <2>2. PICK m \in Node \ {x} : m = conn[c][x].node
    BY <1>1, <1>6 DEF EndOK
  <2>3. /\ Placed(conn[c][x].receiving, queue[c][x])
        /\ c \notin cut => (InBurst(conn[c][x].receiving, queue[c][x], Len(queue[c][x]))
                               <=> conn[c][m].sending # "no")
    BY <1>1, <1>6, <2>2 DEF FramedAt
  <2>4. CASE c \in cut'
    <3>1. queue'[c][x] = queue[c][x]
      <4>1. CASE c \in C
        BY <1>6, <4>1 DEF HandleStep
      <4>2. CASE c \notin C
        BY <1>2, <1>6, <2>4, <4>2 DEF HandleStep, Transmission
      <4> QED
        BY <4>1, <4>2
    <3> QED
      BY <1>6, <2>1, <2>3, <2>4, <3>1 DEF FramedAt
  <2>5. CASE c \notin cut'
    <3>1. c \notin cut /\ c \notin C
      BY <1>2, <2>5
    <3>2. PICK ms : /\ IsQueue(ms)
                    /\ Sends(conn[c][n].sending # "no", ms, conn'[c][n].sending # "no")
                    /\ \A y \in Node \ {n} : queue'[c][y] =
                         IF c \notin cut /\ conn[c][n].phase # "none" /\ y = conn[c][n].node
                         THEN queue[c][y] \o ms ELSE queue[c][y]
      BY <3>1 DEF HandleStep, Transmission
    <3>3. CASE conn[c][n].phase # "none" /\ x = conn[c][n].node
      <4>1. m = n
        BY <1>1, <2>2, <3>1, <3>3 DEF EndOK
      <4>2. queue'[c][x] = queue[c][x] \o ms
        BY <1>6, <3>1, <3>2, <3>3
      <4>3. Framed(conn[c][x].receiving, queue[c][x], conn[c][n].sending # "no")
        BY <2>3, <3>1, <4>1 DEF Framed
      <4>4. Framed(conn[c][x].receiving, queue'[c][x], conn'[c][n].sending # "no")
        <5>1. PICK a \in BOOLEAN : a <=> conn[c][n].sending # "no"
          OBVIOUS
        <5>2. PICK a2 \in BOOLEAN : a2 <=> conn'[c][n].sending # "no"
          OBVIOUS
        <5>3. IsSequence(ms)
          BY <3>2 DEF IsQueue
        <5>4. Sends(a, ms, a2)
          BY <3>2, <5>1, <5>2 DEF Sends, Plain
        <5>5. Framed(conn[c][x].receiving, queue[c][x], a)
          BY <4>3, <5>1 DEF Framed
        <5>6. Framed(conn[c][x].receiving, queue[c][x] \o ms, a2)
          BY <1>3, <5>3, <5>4, <5>5, FramedSends
        <5> QED
          BY <4>2, <5>2, <5>6 DEF Framed
      <4> QED
        BY <2>1, <2>2, <4>1, <4>4 DEF FramedAt, Framed
    <3>4. CASE ~(conn[c][n].phase # "none" /\ x = conn[c][n].node)
      <4>1. queue'[c][x] = queue[c][x]
        BY <1>6, <3>2, <3>4
      <4>2. m # n
        BY <1>1, <1>6, <2>2, <3>1, <3>4 DEF EndOK
      <4>3. conn'[c][m] = conn[c][m]
        BY <1>2, <4>2
      <4> QED
        BY <2>1, <2>2, <2>3, <3>1, <4>1, <4>3 DEF FramedAt
    <3> QED
      BY <3>3, <3>4
  <2> QED
    BY <2>4, <2>5
<1>7. CASE x # n /\ conn[c][x].phase = "none"
  <2>1. conn'[c][x] = conn[c][x]
    BY <1>2, <1>7
  <2> QED
    BY <1>7, <2>1 DEF FramedAt
<1>8. CASE x = n /\ conn'[c][n].phase = "none"
  BY <1>8 DEF FramedAt
<1> QED
  BY <1>4, <1>5, <1>6, <1>7, <1>8

-----------------------------------------------------------------------------
(* Tables.                                                                 *)
LEMMA TableIs ==
    ASSUME NEW t, NEW Val(_, _), t = [c \in Conn |-> [n \in Node |-> Val(c, n)]]
    PROVE  IsTable(t) /\ \A c \in Conn, n \in Node : t[c][n] = Val(c, n)
  BY DEF IsTable

WithEntry(t, c, n, v) == [t EXCEPT ![c][n] = v]

LEMMA TableExcept ==
    ASSUME NEW t, IsTable(t), NEW c \in Conn, NEW n \in Node, NEW v,
           NEW u, u = WithEntry(t, c, n, v)
    PROVE  /\ IsTable(u) /\ u[c][n] = v
           /\ \A d \in Conn, x \in Node : d # c \/ x # n => u[d][x] = t[d][x]
<1>1. PICK row : row = [x \in Node |-> IF x = n THEN v ELSE t[c][x]]
  OBVIOUS
<1>2. /\ DOMAIN t = Conn /\ t = [d \in Conn |-> t[d]]
      /\ \A d \in Conn : t[d] = [x \in Node |-> t[d][x]]
  BY DEF IsTable
<1> USE DEF WithEntry
<1>3. [t[c] EXCEPT ![n] = v] = row
  BY <1>1, <1>2
<1>4. u = [t EXCEPT ![c] = row]
  BY <1>3
<1>5. u = [d \in Conn |-> IF d = c THEN row ELSE t[d]]
  BY <1>2, <1>4
<1>6. /\ u[c] = row /\ u = [d \in Conn |-> u[d]]
      /\ \A d \in Conn : d # c => u[d] = t[d]
  BY <1>5
<1>7. \A d \in Conn : u[d] = [x \in Node |-> u[d][x]]
  BY <1>1, <1>2, <1>6
<1>8. IsTable(u)
  BY <1>6, <1>7 DEF IsTable
<1> QED
  BY <1>1, <1>6, <1>8

LEMMA SentIs ==
    ASSUME NEW q, IsTable(q), NEW c \in Conn, NEW n \in Node,
           conn[c][n].node \in Node, NEW ms, NEW u, u = Sent(q, c, n, ms)
    PROVE  /\ IsTable(u)
           /\ \A d \in Conn, x \in Node :
                 u[d][x] = IF d = c /\ x = conn[c][n].node /\ c \notin cut
                           THEN q[d][x] \o ms ELSE q[d][x]
<1>1. CASE c \in cut
  BY <1>1 DEF Sent
<1>2. CASE c \notin cut
  <2>1. PICK m \in Node : m = conn[c][n].node
    OBVIOUS
  <2>2. PICK v : v = q[c][m] \o ms
    OBVIOUS
  <2>3. u = WithEntry(q, c, m, v)
    BY <1>2, <2>1, <2>2 DEF Sent, WithEntry
  <2>4. /\ IsTable(u) /\ u[c][m] = v
        /\ \A d \in Conn, x \in Node : d # c \/ x # m => u[d][x] = q[d][x]
    BY <2>3, TableExcept
  <2> QED
    BY <1>2, <2>1, <2>4, <2>2
<1> QED
  BY <1>1, <1>2

LEMMA TakenIs ==
    ASSUME IsTable(queue), NEW c \in Conn, NEW n \in Node, NEW u, u = Taken(c, n)
    PROVE  /\ IsTable(u) /\ u[c][n] = Tail(queue[c][n])
           /\ \A d \in Conn, x \in Node : d # c \/ x # n => u[d][x] = queue[d][x]
<1>1. PICK q, v : q = queue /\ v = Tail(queue[c][n])
  OBVIOUS
<1>2. u = WithEntry(q, c, n, v) /\ IsTable(q)
  BY <1>1 DEF Taken, WithEntry
<1>3. /\ IsTable(u) /\ u[c][n] = v
      /\ \A d \in Conn, x \in Node : d # c \/ x # n => u[d][x] = q[d][x]
  BY <1>2, TableExcept
<1> QED
  BY <1>1, <1>3

LEMMA EmptiedIs ==
    ASSUME NEW q, IsTable(q), NEW C, NEW n \in Node, NEW u, u = Emptied(q, C, n)
    PROVE  /\ IsTable(u)
           /\ \A d \in Conn, x \in Node :
                 u[d][x] = IF d \in C /\ x = n THEN <<>> ELSE q[d][x]
<1>1. /\ u = [c \in Conn |-> u[c]]
      /\ \A c \in Conn : u[c] = IF c \in C THEN [q[c] EXCEPT ![n] = <<>>] ELSE q[c]
  BY DEF Emptied
<1>2. \A c \in Conn : q[c] = [x \in Node |-> q[c][x]]
  BY DEF IsTable
<1>3. ASSUME NEW c \in Conn
      PROVE  u[c] = [x \in Node |-> IF c \in C /\ x = n THEN <<>> ELSE q[c][x]]
  <2>1. PICK row : row = q[c] /\ row = [x \in Node |-> row[x]]
    BY <1>2
  <2>2. [row EXCEPT ![n] = <<>>] = [x \in Node |-> IF x = n THEN <<>> ELSE row[x]]
    BY <2>1
  <2>3. CASE c \in C
    BY <1>1, <2>1, <2>2, <2>3
  <2>4. CASE c \notin C
    BY <1>1, <2>1, <2>4
  <2> QED
    BY <2>3, <2>4
<1>4. \A c \in Conn : u[c] = [x \in Node |-> u[c][x]]
  BY <1>3
<1>5. IsTable(u)
  BY <1>1, <1>4 DEF IsTable
<1>6. ASSUME NEW d \in Conn, NEW x \in Node
      PROVE  u[d][x] = IF d \in C /\ x = n THEN <<>> ELSE q[d][x]
  <2>1. u[d] = [y \in Node |-> IF d \in C /\ y = n THEN <<>> ELSE q[d][y]]
    BY <1>3
  <2> QED
    BY <2>1
<1> QED
  BY <1>5, <1>6

-----------------------------------------------------------------------------
(* What a step of n does to its store, and to what only n's ends are about.*)
StoreStep(n) ==
    /\ store' = [y \in Node |-> store'[y]]
    /\ \A y \in Node \ {n} : store'[y] = store[y]
    /\ IsStore(store'[n]) /\ HasApplied(store'[n])
    /\ crashed' \subseteq crashed \cup {n}
    /\ n \in crashed' => store'[n].degraded

(* A step that uses the same connections as before, handled or not.        *)
SameUse(n) ==
    /\ connections' = connections
    /\ \A c \in Conn : conn'[c][n].phase = conn[c][n].phase

LEMMA SameStore ==
    ASSUME IInv, NEW n \in Node, store' = store, crashed' = crashed
    PROVE  StoreStep(n)
  BY DEF IInv, TypeOK, StoresOK, StoreStep

LEMMA StepStores ==
    ASSUME IInv, NEW n \in Node, StoreStep(n)
    PROVE  StoresOK' /\ crashed' \subseteq Node /\ \A y \in Node : IsStore(store'[y])
<1>1. \A y \in Node \ {n} : y \in crashed' => y \in crashed
  BY DEF StoreStep
<1> QED
  BY <1>1 DEF StoreStep, IInv, TypeOK, StoresOK

LEMMA StepKeeps ==
    ASSUME IInv, NEW n \in Node, NEW C, HandleStep(n, C), StoreStep(n),
           connections' \in [Node -> [Node -> Conn \cup {NoConn}]],
           InUse', Alone(n)'
    PROVE  IInv'
<1> USE DEF IInv
<1>1. EndsOK' /\ \A c \in Conn, x \in Node : IsEnd(conn'[c][x])
  BY HandleEnds DEF EndsOK
<1>2. \A c \in Conn, x \in Node : IsQueue(queue'[c][x])
  BY HandleQueues
<1>3. \A c \in Conn, x \in Node : FramedAt(c, x)'
  BY HandleFramed
<1>4. StoresOK' /\ crashed' \subseteq Node /\ \A y \in Node : IsStore(store'[y])
  BY StepStores
<1>5. ASSUME NEW y \in Node \ {n} PROVE Alone(y)'
  <2>1. \A c \in Conn : conn'[c][y] = conn[c][y]
    BY DEF HandleStep
  <2>2. store'[y] = store[y] /\ Alone(y)
    BY DEF StoreStep
  <2> QED
    BY <2>1, <2>2 DEF Alone
<1>6. TypeOK'
  <2>1. cut' \subseteq Conn
    BY DEF TypeOK, HandleStep
  <2>2. IsTable(conn') /\ IsTable(queue') /\ store' = [y \in Node |-> store'[y]]
    BY DEF HandleStep, StoreStep
  <2>3. IsTable(conn)' /\ IsTable(queue)'
    BY <2>2 DEF IsTable
  <2> QED
    BY <1>1, <1>2, <1>4, <2>1, <2>2, <2>3 DEF TypeOK
<1>7. \A y \in Node : Alone(y)'
  BY <1>5
<1> QED
  BY <1>1, <1>3, <1>4, <1>6, <1>7

LEMMA SameInUse ==
    ASSUME IInv, NEW n \in Node, NEW C, HandleStep(n, C), SameUse(n)
    PROVE  InUse' /\ connections' \in [Node -> [Node -> Conn \cup {NoConn}]]
<1>1. connections' = connections /\ connections \in [Node -> [Node -> Conn \cup {NoConn}]]
  BY DEF SameUse, IInv, TypeOK
<1>2. ASSUME NEW c \in Conn, NEW x \in Node
      PROVE  /\ conn'[c][x].phase = conn[c][x].phase
             /\ conn'[c][x].node = conn[c][x].node
             /\ conn[c][x].closed => conn'[c][x].closed
  <2>1. CASE x = n
    BY <2>1 DEF HandleStep, EndStep, SameUse
  <2>2. CASE x # n
    <3>1. conn'[c][x] = conn[c][x]
      BY <2>2 DEF HandleStep
    <3> QED
      BY <3>1
  <2> QED
    BY <2>1, <2>2
<1>3. \A x, m \in Node : connections[x][m] # NoConn =>
          /\ conn'[connections[x][m]][x].phase = "handled"
          /\ conn'[connections[x][m]][x].node = m
  BY <1>1, <1>2 DEF IInv, InUse
<1>4. \A c \in Conn, x \in Node :
          conn'[c][x].phase = "handled" /\ ~conn'[c][x].closed
             => connections[x][conn'[c][x].node] = c
  BY <1>2 DEF IInv, InUse
<1> QED
  BY <1>1, <1>3, <1>4 DEF InUse

(* No new burst is received, and the node is degraded as before.           *)
LEMMA SameAlone ==
    ASSUME IInv, NEW n \in Node, NEW C, HandleStep(n, C), SameUse(n),
           store'[n].degraded = store[n].degraded,
           \A c \in Conn : conn'[c][n].receiving => conn[c][n].receiving
    PROVE  Alone(n)'
<1>1. \A c \in Conn : conn[c][n].closed => conn'[c][n].closed
  BY DEF HandleStep, EndStep
<1>2. Alone(n)
  BY DEF IInv
<1> QED
  BY <1>1, <1>2 DEF Alone, SameUse

LEMMA PlainStep ==
    ASSUME IInv, NEW n \in Node, NEW C, HandleStep(n, C), SameUse(n), StoreStep(n),
           store'[n].degraded = store[n].degraded,
           \A c \in Conn : conn'[c][n].receiving => conn[c][n].receiving
    PROVE  IInv'
<1>1. InUse' /\ connections' \in [Node -> [Node -> Conn \cup {NoConn}]]
  BY SameInUse
<1>2. Alone(n)'
  BY SameAlone
<1> QED
  BY <1>1, <1>2, StepKeeps

-----------------------------------------------------------------------------
(* Steps that change one end, some of n's ends, or that close one.         *)
LEMMA SendsNothing ==
    ASSUME NEW n \in Node, NEW c \in Conn, IsQueue(<<>>),
           Sends(conn[c][n].sending # "no", <<>>, conn'[c][n].sending # "no"),
           \A x \in Node \ {n} : queue'[c][x] = queue[c][x],
           \A x \in Node : queue[c][x] \o <<>> = queue[c][x],
           queue'[c][n] = queue[c][n], conn'[c][n].receiving = conn[c][n].receiving
    PROVE  Transmission(c, n)
<1>1. PICK ms : ms = <<>>
  OBVIOUS
<1>2. IsQueue(ms) /\ Sends(conn[c][n].sending # "no", ms, conn'[c][n].sending # "no")
  BY <1>1
<1>3. ASSUME NEW x \in Node \ {n}
      PROVE  queue'[c][x] = IF c \notin cut /\ conn[c][n].phase # "none" /\ x = conn[c][n].node
                            THEN queue[c][x] \o ms ELSE queue[c][x]
  <2>1. queue'[c][x] = queue[c][x] /\ queue[c][x] \o ms = queue[c][x]
    BY <1>1
  <2> QED
    BY <2>1
<1> QED
  BY <1>2, <1>3 DEF Transmission

LEMMA Quiet ==
    ASSUME IInv, NEW n \in Node, NEW C, NEW c \in Conn \ C,
           conn'[c][n] = conn[c][n], \A x \in Node : queue'[c][x] = queue[c][x]
    PROVE  Transmission(c, n) /\ EndStep(c, n, C)
<1>1. IsEnd(conn[c][n]) /\ EndOK(c, n) /\ \A x \in Node : IsQueue(queue[c][x])
  BY DEF IInv, TypeOK, EndsOK
<1>2. \A x \in Node : queue[c][x] \o <<>> = queue[c][x]
  BY <1>1, ConcatNothing DEF IsQueue
<1>3. PICK a \in BOOLEAN : a <=> conn[c][n].sending # "no"
  OBVIOUS
<1>4. IsQueue(<<>>) /\ Plain(<<>>, a)
  BY PlainEmpty
<1>5. Sends(conn[c][n].sending # "no", <<>>, conn'[c][n].sending # "no")
  BY <1>3, <1>4 DEF Sends, Plain
<1>6. Transmission(c, n)
  BY <1>2, <1>4, <1>5, SendsNothing
<1>7. conn[c][n].closed \in BOOLEAN
  BY <1>1 DEF IsEnd
<1>8. EndStep(c, n, C)
  BY <1>1, <1>7 DEF EndStep, EndOK
<1> QED
  BY <1>6, <1>8

(* What is left of the messages when n has taken one from c, or none.      *)
Leaves(c, n, q) ==
    \/ q = queue /\ \A d \in Conn : conn'[d][n].receiving = conn[d][n].receiving
    \/ /\ c \in Conn /\ queue[c][n] # <<>> /\ q = Taken(c, n)
       /\ conn'[c][n].receiving
             = AfterMessage(conn[c][n].receiving, Head(queue[c][n]))
       /\ \A d \in Conn \ {c} : conn'[d][n].receiving = conn[d][n].receiving

LEMMA LeavesIs ==
    ASSUME IInv, NEW n \in Node, NEW c, NEW q, Leaves(c, n, q)
    PROVE  /\ IsTable(q)
           /\ \A d \in Conn, x \in Node \ {n} : q[d][x] = queue[d][x]
           /\ \A d \in Conn :
                 \/ /\ q[d][n] = queue[d][n]
                    /\ conn'[d][n].receiving = conn[d][n].receiving
                 \/ /\ queue[d][n] # <<>> /\ q[d][n] = Tail(queue[d][n])
                    /\ conn'[d][n].receiving
                          = AfterMessage(conn[d][n].receiving, Head(queue[d][n]))
<1>1. IsTable(queue)
  BY DEF IInv, TypeOK
<1>2. CASE /\ q = queue
           /\ \A d \in Conn : conn'[d][n].receiving = conn[d][n].receiving
  BY <1>1, <1>2
<1>3. CASE /\ c \in Conn /\ queue[c][n] # <<>> /\ q = Taken(c, n)
           /\ conn'[c][n].receiving
                 = AfterMessage(conn[c][n].receiving, Head(queue[c][n]))
           /\ \A d \in Conn \ {c} : conn'[d][n].receiving = conn[d][n].receiving
  <2>1. /\ IsTable(q) /\ q[c][n] = Tail(queue[c][n])
        /\ \A d \in Conn, x \in Node : d # c \/ x # n => q[d][x] = queue[d][x]
    BY <1>1, <1>3, TakenIs
  <2> QED
    BY <1>3, <2>1
<1> QED
  BY <1>2, <1>3 DEF Leaves

(* n sends ms[d] to d, for each d of D.                                    *)
SendStep(c, n, q, D, ms) ==
    /\ Leaves(c, n, q) /\ IsTable(conn') /\ cut' = cut
    /\ \A d \in Conn, x \in Node \ {n} : conn'[d][x] = conn[d][x]
    /\ \A d \in Conn : EndStep(d, n, {})
    /\ \A d \in D : /\ conn[d][n].phase # "none" /\ IsQueue(ms[d])
                    /\ Sends(conn[d][n].sending # "no", ms[d],
                             conn'[d][n].sending # "no")
    /\ \A d \in Conn \ D : conn'[d][n].sending = conn[d][n].sending
    /\ queue' = [d \in Conn |-> queue'[d]]
    /\ \A d \in Conn :
          queue'[d] = IF d \in D THEN Sent(q, d, n, ms[d])[d] ELSE q[d]

LEMMA ManyStep ==
    ASSUME IInv, NEW n \in Node, NEW c, NEW q, NEW D \in SUBSET Conn,
           NEW ms, SendStep(c, n, q, D, ms)
    PROVE  HandleStep(n, {})
<1> USE DEF SendStep
<1>1. /\ IsTable(q)
      /\ \A d \in Conn, x \in Node \ {n} : q[d][x] = queue[d][x]
      /\ \A d \in Conn :
            \/ /\ q[d][n] = queue[d][n]
               /\ conn'[d][n].receiving = conn[d][n].receiving
            \/ /\ queue[d][n] # <<>> /\ q[d][n] = Tail(queue[d][n])
               /\ conn'[d][n].receiving
                     = AfterMessage(conn[d][n].receiving, Head(queue[d][n]))
  BY LeavesIs
<1>2. ASSUME NEW d \in Conn
      PROVE  queue'[d] = [x \in Node |-> queue'[d][x]] /\ Transmission(d, n)
  <2>1. \A x \in Node : IsQueue(queue[d][x])
    BY DEF IInv, TypeOK
  <2>2. CASE d \in D
    <3>1. conn[d][n].node \in Node \ {n}
      BY <2>2 DEF IInv, EndsOK, EndOK
    <3>2. PICK u : u = Sent(q, d, n, ms[d])
      OBVIOUS
    <3>3. /\ IsTable(u)
          /\ \A x \in Node :
                u[d][x] = IF x = conn[d][n].node /\ d \notin cut
                          THEN q[d][x] \o ms[d] ELSE q[d][x]
      <4>1. /\ IsTable(u)
            /\ \A e \in Conn, x \in Node :
                  u[e][x] = IF e = d /\ x = conn[d][n].node /\ d \notin cut
                            THEN q[e][x] \o ms[d] ELSE q[e][x]
        BY <1>1, <3>1, <3>2, SentIs
      <4> QED
        BY <4>1
    <3>4. queue'[d] = u[d]
      BY <2>2, <3>2
    <3>5. queue'[d] = [x \in Node |-> queue'[d][x]]
      BY <3>3, <3>4 DEF IsTable
    <3>6. \A x \in Node \ {n} : queue'[d][x] =
              IF d \notin cut /\ conn[d][n].phase # "none" /\ x = conn[d][n].node
              THEN queue[d][x] \o ms[d] ELSE queue[d][x]
      BY <1>1, <2>2, <3>3, <3>4
    <3>7. queue'[d][n] = q[d][n]
      BY <3>1, <3>3, <3>4
    <3>8. /\ IsQueue(ms[d])
          /\ Sends(conn[d][n].sending # "no", ms[d], conn'[d][n].sending # "no")
      BY <2>2
    <3> QED
      BY <1>1, <3>5, <3>6, <3>7, <3>8 DEF Transmission
  <2>3. CASE d \notin D
    <3>1. queue'[d] = q[d]
      BY <2>3
    <3>2. \A x \in Node : queue[d][x] \o <<>> = queue[d][x]
      BY <2>1, ConcatNothing DEF IsQueue
    <3>3. PICK a \in BOOLEAN : a <=> conn[d][n].sending # "no"
      OBVIOUS
    <3>4. IsQueue(<<>>) /\ Plain(<<>>, a)
      BY PlainEmpty
    <3>5. Sends(conn[d][n].sending # "no", <<>>, conn'[d][n].sending # "no")
      BY <2>3, <3>3, <3>4 DEF Sends, Plain
    <3>6. queue'[d] = [x \in Node |-> queue'[d][x]]
      BY <1>1, <3>1 DEF IsTable
    <3>7. \A x \in Node : queue'[d][x] = q[d][x]
      BY <3>1
    <3>8. \A x \in Node \ {n} : queue'[d][x] =
              IF d \notin cut /\ conn[d][n].phase # "none" /\ x = conn[d][n].node
              THEN queue[d][x] \o <<>> ELSE queue[d][x]
      BY <1>1, <3>2, <3>7
    <3>9. \/ /\ queue'[d][n] = queue[d][n]
             /\ conn'[d][n].receiving = conn[d][n].receiving
          \/ /\ queue[d][n] # <<>> /\ queue'[d][n] = Tail(queue[d][n])
             /\ conn'[d][n].receiving
                   = AfterMessage(conn[d][n].receiving, Head(queue[d][n]))
      BY <1>1, <3>7
    <3>10. Transmission(d, n)
      BY <3>4, <3>5, <3>8, <3>9 DEF Transmission
    <3> QED
      BY <3>6, <3>10
  <2> QED
    BY <2>2, <2>3
<1>3. IsTable(queue')
  BY <1>2 DEF IsTable
<1> QED
  BY <1>2, <1>3 DEF HandleStep

LEMMA OneStep ==
    ASSUME IInv, NEW n \in Node, NEW c \in Conn, conn[c][n].phase # "none",
           NEW q, Leaves(c, n, q), IsTable(conn'), cut' = cut,
           \A d \in Conn, x \in Node : d # c \/ x # n => conn'[d][x] = conn[d][x],
           EndStep(c, n, {}), NEW ms, IsQueue(ms),
           Sends(conn[c][n].sending # "no", ms, conn'[c][n].sending # "no"),
           queue' = Sent(q, c, n, ms)
    PROVE  HandleStep(n, {})
<1>1. PICK f : f = [d \in {c} |-> ms]
  OBVIOUS
<1>2. PICK D \in SUBSET Conn : D = {c}
  OBVIOUS
<1>3. conn[c][n].node \in Node
  BY DEF IInv, EndsOK, EndOK
<1>4. IsTable(q)
  BY LeavesIs
<1>5. /\ IsTable(queue')
      /\ \A d \in Conn, x \in Node :
            queue'[d][x] = IF d = c /\ x = conn[c][n].node /\ c \notin cut
                           THEN q[d][x] \o ms ELSE q[d][x]
  BY <1>3, <1>4, SentIs
<1>6. queue' = [d \in Conn |-> queue'[d]]
  BY <1>5 DEF IsTable
<1>7. \A d \in Conn : queue'[d] = IF d \in D THEN Sent(q, d, n, f[d])[d] ELSE q[d]
  <2> SUFFICES ASSUME NEW d \in Conn
               PROVE  queue'[d] = IF d \in D THEN Sent(q, d, n, f[d])[d] ELSE q[d]
    OBVIOUS
  <2>1. CASE d = c
    BY <1>1, <1>2, <2>1
  <2>2. CASE d # c
    <3>1. \A x \in Node : queue'[d][x] = q[d][x]
      BY <1>5, <2>2
    <3>2. /\ queue'[d] = [x \in Node |-> queue'[d][x]]
          /\ q[d] = [x \in Node |-> q[d][x]]
      BY <1>4, <1>5 DEF IsTable
    <3>3. [x \in Node |-> queue'[d][x]] = [x \in Node |-> q[d][x]]
      BY <3>1
    <3>4. queue'[d] = q[d]
      BY <3>2, <3>3
    <3> QED
      BY <1>2, <2>2, <3>4
  <2> QED
    BY <2>1, <2>2
<1>8. \A d \in Conn : EndStep(d, n, {})
  <2> SUFFICES ASSUME NEW d \in Conn PROVE EndStep(d, n, {})
    OBVIOUS
  <2>1. CASE d # c
    <3>1. conn'[d][n] = conn[d][n]
      BY <2>1
    <3>2. IsEnd(conn[d][n]) /\ EndOK(d, n)
      BY DEF IInv, TypeOK, EndsOK
    <3>3. conn[d][n].closed \in BOOLEAN
      BY <3>2 DEF IsEnd
    <3> QED
      BY <3>1, <3>2, <3>3 DEF EndStep, EndOK
  <2> QED
    BY <2>1
<1>9. \A d \in D : /\ IsQueue(f[d]) /\ conn[d][n].phase # "none"
                   /\ Sends(conn[d][n].sending # "no", f[d], conn'[d][n].sending # "no")
  BY <1>1, <1>2
<1>10. /\ \A d \in Conn, x \in Node \ {n} : conn'[d][x] = conn[d][x]
       /\ \A d \in Conn \ D : conn'[d][n].sending = conn[d][n].sending
  BY <1>2
<1>11. SendStep(c, n, q, D, f)
  BY <1>6, <1>7, <1>8, <1>9, <1>10 DEF SendStep
<1> QED
  BY ONLY <1>11, ManyStep, IInv, n \in Node, c \in Conn, D \in SUBSET Conn

Closed(f) == [f EXCEPT !.closed = TRUE]

LEMMA CloseAllIs ==
    ASSUME NEW C \in SUBSET Conn, NEW n \in Node, NEW cs, IsTable(cs), CloseAll(C, n, cs)
    PROVE  /\ IsTable(conn') /\ cut' = cut \cup C
           /\ \A d \in Conn, x \in Node :
                 conn'[d][x] = IF d \in C /\ x = n
                               THEN Closed(cs[d][n]) ELSE cs[d][x]
<1>1. /\ conn' = [d \in Conn |-> conn'[d]]
      /\ \A d \in Conn : conn'[d] = IF d \in C THEN [cs[d] EXCEPT ![n].closed = TRUE]
                                               ELSE cs[d]
      /\ cut' = cut \cup C
  BY DEF CloseAll
<1>2. \A d \in Conn : cs[d] = [x \in Node |-> cs[d][x]]
  BY DEF IsTable
<1>3. ASSUME NEW d \in Conn
      PROVE  conn'[d] = [x \in Node |-> IF d \in C /\ x = n
                            THEN [cs[d][n] EXCEPT !.closed = TRUE] ELSE cs[d][x]]
  <2>1. PICK row : row = cs[d] /\ row = [x \in Node |-> row[x]]
    BY <1>2
  <2>2. [row EXCEPT ![n].closed = TRUE]
           = [x \in Node |-> IF x = n THEN [row[n] EXCEPT !.closed = TRUE] ELSE row[x]]
    BY <2>1
  <2>3. CASE d \in C
    BY <1>1, <2>1, <2>2, <2>3
  <2>4. CASE d \notin C
    BY <1>1, <2>1, <2>4
  <2> QED
    BY <2>3, <2>4
<1>4. \A d \in Conn : conn'[d] = [x \in Node |-> conn'[d][x]]
  BY <1>3
<1>5. IsTable(conn')
  BY <1>1, <1>4 DEF IsTable
<1>6. ASSUME NEW d \in Conn, NEW x \in Node
      PROVE  conn'[d][x] = IF d \in C /\ x = n THEN Closed(cs[d][n]) ELSE cs[d][x]
  <2>1. conn'[d] = [y \in Node |-> IF d \in C /\ y = n
                       THEN [cs[d][n] EXCEPT !.closed = TRUE] ELSE cs[d][y]]
    BY <1>3
  <2> QED
    BY <2>1 DEF Closed
<1> QED
  BY <1>1, <1>5, <1>6

LEMMA ClosedEnd ==
    ASSUME NEW f, IsEnd(f), NEW g, g = Closed(f)
    PROVE  /\ IsEnd(g) /\ g.closed /\ g.phase = f.phase /\ g.node = f.node
           /\ g.receiving = f.receiving /\ g.sending = f.sending
<1>1. f = [phase |-> f.phase, node |-> f.node, outgoing |-> f.outgoing,
            closed |-> f.closed, sending |-> f.sending, first |-> f.first,
            sent |-> f.sent, frozen |-> f.frozen, receiving |-> f.receiving,
            waiting |-> f.waiting, offers |-> f.offers]
  BY DEF IsEnd
<1>2. g = [phase |-> f.phase, node |-> f.node, outgoing |-> f.outgoing,
            closed |-> TRUE, sending |-> f.sending, first |-> f.first,
            sent |-> f.sent, frozen |-> f.frozen, receiving |-> f.receiving,
            waiting |-> f.waiting, offers |-> f.offers]
  BY <1>1 DEF Closed
<1> QED
  BY <1>2 DEF IsEnd

LEMMA ClosingStep ==
    ASSUME IInv, NEW n \in Node, NEW c \in Conn, conn[c][n].phase # "none", Close(c, n)
    PROVE  IInv'
<1>1. IsTable(conn) /\ IsTable(queue)
  BY DEF IInv, TypeOK
<1>2. /\ CloseAll({c}, n, conn) /\ queue' = Emptied(queue, {c}, n)
      /\ store' = store /\ connections' = connections /\ crashed' = crashed
  BY DEF Close
<1>3. PICK C \in SUBSET Conn : C = {c}
  OBVIOUS
<1>4. /\ IsTable(conn') /\ cut' = cut \cup C
      /\ \A d \in Conn, x \in Node :
            conn'[d][x] = IF d \in C /\ x = n
                          THEN Closed(conn[d][n]) ELSE conn[d][x]
  <2>1. PICK cs : cs = conn
    OBVIOUS
  <2>2. CloseAll(C, n, cs) /\ IsTable(cs)
    BY <1>1, <1>2, <1>3, <2>1
  <2>3. CloseAll(C, n, cs)
    BY <2>2
  <2>4. IsTable(cs)
    BY <2>2
  <2>5. IsTable(conn')
    BY <2>3, <2>4, CloseAllIs
  <2>6. cut' = cut \cup C
    BY <2>3, <2>4, CloseAllIs
  <2>7. \A d \in Conn, x \in Node :
           conn'[d][x] = IF d \in C /\ x = n THEN Closed(cs[d][n]) ELSE cs[d][x]
    BY <2>3, <2>4, CloseAllIs
  <2> QED
    BY <2>1, <2>5, <2>6, <2>7
<1>5. /\ IsTable(queue')
      /\ \A d \in Conn, x \in Node :
            queue'[d][x] = IF d \in C /\ x = n THEN <<>> ELSE queue[d][x]
  BY <1>1, <1>2, <1>3, EmptiedIs
<1>6. IsEnd(conn[c][n]) /\ EndOK(c, n)
  BY DEF IInv, TypeOK, EndsOK
<1>7. conn'[c][n] = Closed(conn[c][n])
  BY <1>3, <1>4
<1>8. /\ IsEnd(conn'[c][n]) /\ conn'[c][n].closed
      /\ conn'[c][n].phase = conn[c][n].phase /\ conn'[c][n].node = conn[c][n].node
      /\ conn'[c][n].receiving = conn[c][n].receiving
      /\ conn'[c][n].sending = conn[c][n].sending
  BY <1>6, <1>7, ClosedEnd
<1>9. EndStep(c, n, C)
  <2>1. conn[c][n].closed \in BOOLEAN /\ c \in C
    BY <1>3, <1>6 DEF IsEnd
  <2> QED
    BY <1>6, <1>8, <2>1 DEF EndStep, EndOK
<1>10. \A d \in Conn \ C : Transmission(d, n) /\ EndStep(d, n, C)
  BY <1>4, <1>5, Quiet
<1>11. HandleStep(n, C)
  BY <1>3, <1>4, <1>5, <1>9, <1>10 DEF HandleStep
<1>12. StoreStep(n)
  BY <1>2, SameStore
<1>13. SameUse(n) /\ \A d \in Conn : conn'[d][n].receiving => conn[d][n].receiving
  BY <1>2, <1>3, <1>4, <1>8 DEF SameUse
<1>14. store'[n].degraded = store[n].degraded
  BY <1>2
<1> QED
  BY <1>11, <1>12, <1>13, <1>14, PlainStep

-----------------------------------------------------------------------------
(* Choosing.                                                               *)
LEMMA UsedIs ==
    ASSUME IInv, NEW n \in Node, NEW c \in Used(n)
    PROVE  /\ c \in Conn /\ conn[c][n].phase = "handled"
           /\ connections[n][conn[c][n].node] = c
<1>1. PICK m \in Node : c = connections[n][m] /\ c # NoConn
  BY DEF Used
<1>2. connections[n][m] \in Conn \cup {NoConn}
  BY DEF IInv, TypeOK
<1> QED
  BY <1>1, <1>2 DEF IInv, InUse

LEMMA StoreIs ==
    ASSUME IInv, NEW n \in Node, NEW st, IsStore(st), HasApplied(st),
           store' = [store EXCEPT ![n] = st], crashed' \subseteq crashed \cup {n},
           n \in crashed' => st.degraded
    PROVE  StoreStep(n) /\ store'[n] = st
<1>1. store = [x \in Node |-> store[x]]
  BY DEF IInv, TypeOK
<1>2. store' = [x \in Node |-> IF x = n THEN st ELSE store[x]]
  BY <1>1
<1>3. store' = [x \in Node |-> store'[x]]
  BY <1>2
<1> QED
  BY <1>2, <1>3 DEF StoreStep

WithOffers(f, offers) == [f EXCEPT !.offers = offers]

LEMMA OffersEnd ==
    ASSUME NEW f, IsEnd(f), NEW offers \in SUBSET Nat, NEW g, g = WithOffers(f, offers)
    PROVE  /\ IsEnd(g) /\ g.closed = f.closed /\ g.phase = f.phase /\ g.node = f.node
           /\ g.receiving = f.receiving /\ g.sending = f.sending
<1>1. f = [phase |-> f.phase, node |-> f.node, outgoing |-> f.outgoing,
            closed |-> f.closed, sending |-> f.sending, first |-> f.first,
            sent |-> f.sent, frozen |-> f.frozen, receiving |-> f.receiving,
            waiting |-> f.waiting, offers |-> f.offers]
  BY DEF IsEnd
<1>2. g = [phase |-> f.phase, node |-> f.node, outgoing |-> f.outgoing,
            closed |-> f.closed, sending |-> f.sending, first |-> f.first,
            sent |-> f.sent, frozen |-> f.frozen, receiving |-> f.receiving,
            waiting |-> f.waiting, offers |-> offers]
  BY <1>1 DEF WithOffers
<1> QED
  BY <1>2 DEF IsEnd

(* An end whose part in bursts, and of the table, stays as it is.          *)
Alike(f, g) ==
    /\ IsEnd(g) /\ g.closed = f.closed /\ g.phase = f.phase /\ g.node = f.node
    /\ g.receiving = f.receiving /\ g.sending = f.sending

LEMMA AlikeStep ==
    ASSUME IInv, NEW n \in Node, NEW c \in Conn,
           conn'[c][n] = conn[c][n]
              \/ (conn[c][n].phase # "none" /\ Alike(conn[c][n], conn'[c][n]))
    PROVE  /\ EndStep(c, n, {}) /\ conn'[c][n].receiving = conn[c][n].receiving
           /\ conn'[c][n].sending = conn[c][n].sending
           /\ conn'[c][n].phase = conn[c][n].phase
<1>1. IsEnd(conn[c][n]) /\ EndOK(c, n)
  BY DEF IInv, TypeOK, EndsOK
<1>2. conn[c][n].closed \in BOOLEAN
  BY <1>1 DEF IsEnd
<1>3. EndStep(c, n, {})
  BY <1>1, <1>2 DEF EndStep, EndOK, Alike
<1> QED
  BY <1>3 DEF Alike

(* What n chooses may have come in a message, which belongs to no burst.   *)
Took(c, n, q) ==
    \/ q = queue
    \/ c \in Conn /\ queue[c][n] # <<>> /\ q = Taken(c, n) /\ ~Marks(Head(queue[c][n]))

LEMMA TookLeaves ==
    ASSUME NEW n \in Node, NEW c, NEW q, Took(c, n, q),
           \A d \in Conn : conn'[d][n].receiving = conn[d][n].receiving
    PROVE  Leaves(c, n, q)
<1>1. ~Marks(Head(queue[c][n]))
         => AfterMessage(conn[c][n].receiving, Head(queue[c][n])) = conn[c][n].receiving
  BY DEF Marks, AfterMessage
<1> QED
  BY <1>1 DEF Took, Leaves

LEMMA Chooses ==
    ASSUME IInv, NEW n \in Node, NEW c, NEW s \in Nat, store[n].start <= s,
           ~IsChosen(store[n], s), NEW req, NEW q, Took(c, n, q), Choose(n, s, req, q)
    PROVE  IInv'
<1>1. PICK D \in SUBSET Conn : D = Used(n)
  BY UsedIs
<1>2. \A d \in D : conn[d][n].phase = "handled"
  BY <1>1, UsedIs
<1>3. PICK st : st = store[n]
  OBVIOUS
<1>4. PICK r : r = tryApply(WithChosen(st, s, req))
  OBVIOUS
<1>5. PICK p \in DiscardPoints(r.store, s) :
         /\ store' = [store EXCEPT ![n] = Discard(r.store, p)]
         /\ crashed' = IF DiscardPanics(r.store, p) THEN crashed \cup {n} ELSE crashed
  BY <1>3, <1>4 DEF Choose
<1>6. PICK st2 : st2 = Discard(r.store, p)
  OBVIOUS
<1>7. IsStore(st) /\ HasApplied(st) /\ (n \in crashed => st.degraded)
  BY <1>3 DEF IInv, TypeOK, StoresOK
<1>8. /\ IsStore(st2) /\ HasApplied(st2) /\ st2.degraded = st.degraded
      /\ DiscardPanics(r.store, p) => st.degraded
      /\ IsQueue(r.applied) /\ Plain(r.applied, TRUE)
  <2>1. IsStore(st) /\ HasApplied(st) /\ st.start <= s /\ ~IsChosen(st, s)
    BY <1>3, <1>7
  <2>2. IsStore(st2) /\ HasApplied(st2)
    BY <1>4, <1>6, <2>1, ChooseStore
  <2>3. st2.degraded = st.degraded
    <3>1. AsDegraded(st, st2)
      BY <1>4, <1>6, <2>1, ChooseStore
    <3> QED
      BY <3>1 DEF AsDegraded
  <2>4. DiscardPanics(r.store, p) => st.degraded
    BY <1>4, <1>6, <2>1, ChooseStore
  <2>5. IsQueue(r.applied) /\ Plain(r.applied, TRUE)
    BY <1>4, <1>6, <2>1, ChooseStore
  <2> QED
    BY <2>2, <2>3, <2>4, <2>5
<1>9. StoreStep(n) /\ store'[n] = st2
  BY <1>5, <1>6, <1>7, <1>8, StoreIs
<1>10. /\ conn' = [d \in Conn |-> conn'[d]]
       /\ \A d \in Conn : conn'[d] = IF d \in D
                                     THEN [conn[d] EXCEPT ![n].offers = @ \ {s}] ELSE conn[d]
       /\ connections' = connections /\ cut' = cut
  BY <1>1 DEF Choose
<1>11. \A d \in Conn : IsTable(conn) /\ conn[d] = [x \in Node |-> conn[d][x]]
  BY DEF IInv, TypeOK, IsTable
<1>12. ASSUME NEW d \in Conn
       PROVE  /\ conn'[d] = [x \in Node |-> conn'[d][x]]
              /\ \A x \in Node \ {n} : conn'[d][x] = conn[d][x]
              /\ conn'[d][n] = IF d \in D
                               THEN WithOffers(conn[d][n], conn[d][n].offers \ {s})
                               ELSE conn[d][n]
  <2>1. PICK row : row = conn[d] /\ row = [x \in Node |-> row[x]]
    BY <1>11
  <2>2. CASE d \in D
    <3>1. conn'[d] = [x \in Node |-> IF x = n
                                     THEN WithOffers(row[n], row[n].offers \ {s}) ELSE row[x]]
      BY <1>10, <2>1, <2>2 DEF WithOffers
    <3> QED
      BY <2>1, <2>2, <3>1
  <2>3. CASE d \notin D
    BY <1>10, <2>1, <2>3
  <2> QED
    BY <2>2, <2>3
<1>13. IsTable(conn')
  BY <1>10, <1>12 DEF IsTable
<1>14. ASSUME NEW d \in Conn
       PROVE  conn'[d][n] = conn[d][n]
                 \/ (conn[d][n].phase # "none" /\ Alike(conn[d][n], conn'[d][n]))
  <2>1. IsEnd(conn[d][n])
    BY DEF IInv, TypeOK
  <2>2. conn[d][n].offers \ {s} \in SUBSET Nat
    BY <2>1 DEF IsEnd
  <2>3. CASE d \in D
    <3>1. conn'[d][n] = WithOffers(conn[d][n], conn[d][n].offers \ {s})
      BY <1>12, <2>3
    <3>2. Alike(conn[d][n], conn'[d][n])
      BY <2>1, <2>2, <3>1, OffersEnd DEF Alike
    <3> QED
      BY <1>2, <2>3, <3>2
  <2>4. CASE d \notin D
    <3>1. conn'[d][n] = conn[d][n]
      BY <1>12, <2>4
    <3> QED
      BY <3>1
  <2> QED
    BY <2>3, <2>4
<1>15. \A d \in Conn : /\ EndStep(d, n, {})
                       /\ conn'[d][n].receiving = conn[d][n].receiving
                       /\ conn'[d][n].sending = conn[d][n].sending
                       /\ conn'[d][n].phase = conn[d][n].phase
  BY <1>14, AlikeStep
<1>16. PICK ms : ms = [d \in Conn |-> IF conn[d][n].sending # "no" THEN r.applied
                                                                   ELSE <<Chosen(s)>>]
  OBVIOUS
<1>17. ASSUME NEW d \in D
       PROVE  /\ conn[d][n].phase # "none" /\ IsQueue(ms[d])
              /\ Sends(conn[d][n].sending # "no", ms[d], conn'[d][n].sending # "no")
  <2>1. CASE conn[d][n].sending # "no"
    BY <1>2, <1>8, <1>15, <1>16, <2>1 DEF Sends, Plain
  <2>2. CASE conn[d][n].sending = "no"
    <3>1. IsQueue(<<Chosen(s)>>) /\ Plain(<<Chosen(s)>>, FALSE)
      BY PlainKinds, PlainOne
    <3>2. ms[d] = <<Chosen(s)>>
      BY <1>16, <2>2
    <3> QED
      BY <1>2, <1>15, <2>2, <3>1, <3>2 DEF Sends, Plain
  <2> QED
    BY <2>1, <2>2
<1>18. /\ queue' = [d \in Conn |-> queue'[d]]
       /\ \A d \in Conn : queue'[d] = IF d \in D THEN Sent(q, d, n, ms[d])[d] ELSE q[d]
  BY <1>1, <1>3, <1>4, <1>16 DEF Choose, Announced
<1>19. Leaves(c, n, q)
  BY <1>15, TookLeaves
<1>20. SendStep(c, n, q, D, ms)
  BY <1>10, <1>12, <1>13, <1>15, <1>17, <1>18, <1>19 DEF SendStep
<1>21. HandleStep(n, {})
  BY <1>20, ManyStep
<1>22. SameUse(n) /\ \A d \in Conn : conn'[d][n].receiving => conn[d][n].receiving
  BY <1>10, <1>15 DEF SameUse
<1> QED
  BY <1>3, <1>8, <1>9, <1>21, <1>22, PlainStep

LEMMA Learns ==
    ASSUME IInv, NEW n \in Node, NEW s \in 0 .. LastSlot, Learn(n, s)
    PROVE  IInv'
<1>1. IsStore(store[n]) /\ s \in Nat
  BY FollowAssumption DEF IInv, TypeOK
<1>2. store[n].start <= s
  BY <1>1 DEF Learn, IsStore
<1>3. PICK q : q = queue
  OBVIOUS
<1>4. Took(NoConn, n, q) /\ ~IsChosen(store[n], s) /\ Choose(n, s, s, q)
  BY <1>3 DEF Learn, Took
<1> QED
  BY <1>1, <1>2, <1>4, Chooses

-----------------------------------------------------------------------------
(* Steps of one end of a connection.                                       *)
Similar(f, g) ==
    /\ IsEnd(g) /\ g.closed = f.closed /\ g.phase = f.phase /\ g.node = f.node
    /\ g.receiving = f.receiving

ConnStep(c, n) ==
    /\ IsTable(conn')
    /\ \A d \in Conn, x \in Node : d # c \/ x # n => conn'[d][x] = conn[d][x]
    /\ Similar(conn[c][n], conn'[c][n])

LEMMA ConnSame ==
    ASSUME IInv, NEW n \in Node, NEW c \in Conn, conn' = conn
    PROVE  ConnStep(c, n)
<1>1. IsTable(conn) /\ IsEnd(conn[c][n])
  BY DEF IInv, TypeOK
<1> QED
  BY <1>1 DEF ConnStep, Similar

LEMMA ConnWith ==
    ASSUME IInv, NEW n \in Node, NEW c \in Conn, NEW g, Similar(conn[c][n], g),
           conn' = WithEntry(conn, c, n, g)
    PROVE  ConnStep(c, n) /\ conn'[c][n] = g
<1>1. PICK t : t = conn
  OBVIOUS
<1>2. IsTable(t)
  BY <1>1 DEF IInv, TypeOK
<1>3. PICK u : u = WithEntry(t, c, n, g)
  OBVIOUS
<1>4. /\ IsTable(u) /\ u[c][n] = g
      /\ \A d \in Conn, x \in Node : d # c \/ x # n => u[d][x] = t[d][x]
  BY <1>2, <1>3, TableExcept
<1>5. conn' = u
  BY <1>1, <1>3
<1> QED
  BY <1>1, <1>4, <1>5 DEF ConnStep

LEMMA ConnStepIs ==
    ASSUME IInv, NEW n \in Node, NEW c \in Conn, conn[c][n].phase # "none",
           ConnStep(c, n), connections' = connections, NEW q, Took(c, n, q)
    PROVE  /\ SameUse(n) /\ Leaves(c, n, q)
           /\ \A d \in Conn : conn'[d][n].receiving => conn[d][n].receiving
           /\ \A d \in Conn : EndStep(d, n, {})
<1>1. ASSUME NEW d \in Conn
      PROVE  /\ conn'[d][n].phase = conn[d][n].phase
             /\ conn'[d][n].receiving = conn[d][n].receiving
             /\ EndStep(d, n, {})
  <2>1. IsEnd(conn[d][n]) /\ EndOK(d, n)
    BY DEF IInv, TypeOK, EndsOK
  <2>2. conn[d][n].closed \in BOOLEAN
    BY <2>1 DEF IsEnd
  <2>3. CASE d = c
    <3>1. Similar(conn[d][n], conn'[d][n])
      BY <2>3 DEF ConnStep
    <3>2. EndStep(d, n, {})
      BY <2>1, <2>2, <2>3, <3>1 DEF EndStep, EndOK, Similar
    <3> QED
      BY <3>1, <3>2 DEF Similar
  <2>4. CASE d # c
    <3>1. conn'[d][n] = conn[d][n]
      BY <2>4 DEF ConnStep
    <3> QED
      BY <2>1, <2>2, <3>1 DEF EndStep, EndOK
  <2> QED
    BY <2>3, <2>4
<1>2. Leaves(c, n, q)
  BY <1>1, TookLeaves
<1> QED
  BY <1>1, <1>2 DEF SameUse

LEMMA EndSends ==
    ASSUME IInv, NEW n \in Node, NEW c \in Conn, conn[c][n].phase # "none",
           ConnStep(c, n), NEW q, Took(c, n, q), NEW ms, IsQueue(ms),
           Sends(conn[c][n].sending # "no", ms, conn'[c][n].sending # "no"),
           queue' = Sent(q, c, n, ms), connections' = connections, cut' = cut,
           StoreStep(n), AsDegraded(store[n], store'[n])
    PROVE  IInv'
<1>1. /\ SameUse(n) /\ Leaves(c, n, q)
      /\ \A d \in Conn : conn'[d][n].receiving => conn[d][n].receiving
      /\ \A d \in Conn : EndStep(d, n, {})
  BY ConnStepIs
<1>2. /\ IsTable(conn')
      /\ \A d \in Conn, x \in Node : d # c \/ x # n => conn'[d][x] = conn[d][x]
  BY DEF ConnStep
<1>3. HandleStep(n, {})
  BY <1>1, <1>2, OneStep
<1>4. store'[n].degraded = store[n].degraded
  BY DEF AsDegraded
<1> QED
  BY <1>1, <1>3, <1>4, PlainStep

LEMMA EndTakes ==
    ASSUME IInv, NEW n \in Node, NEW c \in Conn, conn[c][n].phase # "none",
           ConnStep(c, n), NEW q, Took(c, n, q),
           conn'[c][n].sending = conn[c][n].sending,
           queue' = q, connections' = connections, cut' = cut,
           StoreStep(n), AsDegraded(store[n], store'[n])
    PROVE  IInv'
<1>1. /\ SameUse(n) /\ Leaves(c, n, q)
      /\ \A d \in Conn : conn'[d][n].receiving => conn[d][n].receiving
      /\ \A d \in Conn : EndStep(d, n, {})
  BY ConnStepIs
<1>2. /\ IsTable(conn')
      /\ \A d \in Conn, x \in Node : d # c \/ x # n => conn'[d][x] = conn[d][x]
  BY DEF ConnStep
<1>3. IsTable(q)
  BY <1>1, LeavesIs
<1>4. queue' = [d \in Conn |-> queue'[d]]
  BY <1>3 DEF IsTable
<1>5. \A d \in Conn : conn'[d][n].sending = conn[d][n].sending
  BY <1>2
<1>6. PICK D \in SUBSET Conn : D = {}
  OBVIOUS
<1>7. PICK ms : ms = <<>>
  OBVIOUS
<1>8. SendStep(c, n, q, D, ms)
  BY <1>1, <1>2, <1>4, <1>5, <1>6 DEF SendStep
<1>9. HandleStep(n, {})
  BY <1>8, ManyStep
<1>10. store'[n].degraded = store[n].degraded
  BY DEF AsDegraded
<1> QED
  BY <1>1, <1>9, <1>10, PlainStep

(* A message that n gets.                                                  *)
LEMMA Receives ==
    ASSUME IInv, NEW n \in Node, NEW c \in Conn, NEW type, Received(c, n, type)
    PROVE  /\ conn[c][n].phase = "handled" /\ n \notin crashed
           /\ queue[c][n] # <<>> /\ IsMessage(Head(queue[c][n]))
           /\ Head(queue[c][n]).type = type
           /\ type \notin {"Bursting", "BurstDone"} => Took(c, n, Taken(c, n))
<1>1. IsQueue(queue[c][n])
  BY DEF IInv, TypeOK
<1> QED
  BY <1>1, QueueTail DEF Received, Handled, Took, Marks

LEMMA SendsPlain ==
    ASSUME NEW f, NEW g, g.sending = f.sending, NEW ms, Plain(ms, FALSE)
    PROVE  Sends(f.sending # "no", ms, g.sending # "no")
  BY DEF Sends, Plain

LEMMA SameStoreStep ==
    ASSUME IInv, NEW n \in Node, store' = store, crashed' = crashed
    PROVE  StoreStep(n) /\ AsDegraded(store[n], store'[n])
  BY SameStore DEF AsDegraded

-----------------------------------------------------------------------------
(* Handlers that change no more than their end, or a store's state.        *)
Changed(f, sending, first, sent, frozen, waiting, offers) ==
    [phase |-> f.phase, node |-> f.node, outgoing |-> f.outgoing,
     closed |-> f.closed, sending |-> sending, first |-> first,
     sent |-> sent, frozen |-> frozen, receiving |-> f.receiving,
     waiting |-> waiting, offers |-> offers]

LEMMA ChangedSimilar ==
    ASSUME NEW f, IsEnd(f), NEW sending \in Sendings, NEW first, NEW sent, NEW frozen,
           NEW waiting, NEW offers \in SUBSET Nat,
           NEW g, g = Changed(f, sending, first, sent, frozen, waiting, offers)
    PROVE  Similar(f, g) /\ g.sending = sending
<1>1. IsEnd(g)
  BY DEF IsEnd, Changed
<1> QED
  BY <1>1 DEF Similar, Changed

LEMMA EndIs ==
    ASSUME IInv, NEW n \in Node, NEW c \in Conn, NEW f, f = conn[c][n]
    PROVE  /\ IsEnd(f) /\ f.sending \in Sendings /\ f.offers \in SUBSET Nat
           /\ f.sending # "no" => f.phase # "none"
           /\ f = Changed(f, f.sending, f.first, f.sent, f.frozen, f.waiting, f.offers)
<1>1. IsEnd(f) /\ EndOK(c, n)
  BY DEF IInv, TypeOK, EndsOK
<1>2. NoFollowConn.sending = "no"
  BY DEF NoFollowConn
<1> QED
  BY <1>1, <1>2 DEF IsEnd, Changed, EndOK

LEMMA OffersAre ==
    ASSUME IInv, NEW n \in Node, NEW c \in Conn, NEW offers \in SUBSET Nat,
           conn' = [conn EXCEPT ![c][n].offers = offers]
    PROVE  ConnStep(c, n) /\ conn'[c][n].sending = conn[c][n].sending
<1>1. PICK f : f = conn[c][n]
  OBVIOUS
<1>2. /\ IsEnd(f) /\ f.sending \in Sendings
      /\ f = Changed(f, f.sending, f.first, f.sent, f.frozen, f.waiting, f.offers)
  BY <1>1, EndIs
<1>3. PICK g : g = Changed(f, f.sending, f.first, f.sent, f.frozen, f.waiting, offers)
  OBVIOUS
<1>4. g = [f EXCEPT !.offers = offers]
  BY <1>2, <1>3 DEF Changed
<1>5. Similar(f, g) /\ g.sending = f.sending
  BY <1>2, <1>3, ChangedSimilar
<1>6. conn' = WithEntry(conn, c, n, g)
  BY <1>1, <1>4 DEF WithEntry
<1>7. ConnStep(c, n) /\ conn'[c][n] = g
  BY <1>1, <1>5, <1>6, ConnWith
<1> QED
  BY <1>1, <1>5, <1>7

LEMMA RequestsOffered ==
    ASSUME IInv, NEW n \in Node, NEW c \in Conn, NEW s \in 0 .. LastSlot,
           OfferTimeout(c, n, s)
    PROVE  IInv'
<1>1. s \in Nat
  BY FollowAssumption
<1>2. /\ conn[c][n].phase = "handled" /\ queue' = Sent(queue, c, n, <<Request(s)>>)
      /\ store' = store /\ crashed' = crashed /\ connections' = connections /\ cut' = cut
  BY DEF OfferTimeout, Handled
<1>3. PICK offers : offers = conn[c][n].offers \ {s}
  OBVIOUS
<1>4. conn' = [conn EXCEPT ![c][n].offers = offers]
  BY <1>3 DEF OfferTimeout
<1>5. offers \in SUBSET Nat
  BY <1>3, EndIs
<1>6. ConnStep(c, n) /\ conn'[c][n].sending = conn[c][n].sending
  BY <1>4, <1>5, OffersAre
<1>7. IsQueue(<<Request(s)>>) /\ Plain(<<Request(s)>>, FALSE)
  BY <1>1, PlainKinds, PlainOne
<1>8. Sends(conn[c][n].sending # "no", <<Request(s)>>, conn'[c][n].sending # "no")
  BY <1>6, <1>7, SendsPlain
<1>9. PICK q, ms : q = queue /\ ms = <<Request(s)>>
  OBVIOUS
<1>10. Took(c, n, q) /\ queue' = Sent(q, c, n, ms)
  BY <1>2, <1>9 DEF Took
<1> QED
  BY <1>2, <1>6, <1>7, <1>8, <1>9, <1>10, SameStoreStep, EndSends

LEMMA ChosenHandled ==
    ASSUME IInv, NEW n \in Node, NEW c \in Conn, HandleInstructionChosen(c, n)
    PROVE  IInv'
<1>1. PICK s : s = Head(queue[c][n]).slot
  OBVIOUS
<1>2. Received(c, n, "Chosen")
  BY DEF HandleInstructionChosen
<1>3. /\ conn[c][n].phase = "handled" /\ IsMessage(Head(queue[c][n]))
      /\ Head(queue[c][n]).type = "Chosen" /\ Took(c, n, Taken(c, n))
  BY <1>2, Receives
<1>4. s \in Nat
  BY <1>1, <1>3 DEF IsMessage
<1>5. /\ store' = store /\ crashed' = crashed /\ connections' = connections /\ cut' = cut
  BY DEF HandleInstructionChosen
<1>6. PICK q : q = Taken(c, n)
  OBVIOUS
<1>7. Took(c, n, q)
  BY <1>3, <1>6
<1>8. CASE s < store[n].start \/ IsChosen(store[n], s)
  <2>1. queue' = q /\ conn' = conn
    BY <1>1, <1>6, <1>8 DEF HandleInstructionChosen
  <2>2. ConnStep(c, n) /\ conn'[c][n].sending = conn[c][n].sending
    BY <2>1, ConnSame
  <2> QED
    BY <1>3, <1>5, <1>7, <2>1, <2>2, SameStoreStep, EndTakes
<1>9. CASE ~(s < store[n].start \/ IsChosen(store[n], s))
  <2>1. PICK offers : offers = conn[c][n].offers \cup {s}
    OBVIOUS
  <2>2. PICK ms : ms = IF IsCore(n) THEN <<>> ELSE <<Request(s)>>
    OBVIOUS
  <2>3. conn' = [conn EXCEPT ![c][n].offers = offers] /\ queue' = Sent(q, c, n, ms)
    BY <1>1, <1>6, <1>9, <2>1, <2>2 DEF HandleInstructionChosen
  <2>4. offers \in SUBSET Nat
    BY <1>4, <2>1, EndIs
  <2>5. ConnStep(c, n) /\ conn'[c][n].sending = conn[c][n].sending
    BY <2>3, <2>4, OffersAre
  <2>6. IsQueue(ms) /\ Plain(ms, FALSE)
    BY <1>4, <2>2, PlainKinds, PlainOne, PlainEmpty
  <2>7. Sends(conn[c][n].sending # "no", ms, conn'[c][n].sending # "no")
    BY <2>5, <2>6, SendsPlain
  <2> QED
    BY <1>3, <1>5, <1>7, <2>3, <2>5, <2>6, <2>7, SameStoreStep, EndSends
<1> QED
  BY <1>8, <1>9

LEMMA RequestHandled ==
    ASSUME IInv, NEW n \in Node, NEW c \in Conn, HandleInstructionRequest(c, n)
    PROVE  IInv'
<1>1. PICK s, st : s = Head(queue[c][n]).slot /\ st = store[n]
  OBVIOUS
<1>2. Received(c, n, "Request")
  BY DEF HandleInstructionRequest
<1>3. /\ conn[c][n].phase = "handled" /\ IsMessage(Head(queue[c][n]))
      /\ Head(queue[c][n]).type = "Request" /\ Took(c, n, Taken(c, n))
  BY <1>2, Receives
<1>4. s \in Nat
  BY <1>1, <1>3 DEF IsMessage
<1>5. CASE s < st.start \/ ~IsChosen(st, s)
  <2>1. Close(c, n)
    BY <1>1, <1>5 DEF HandleInstructionRequest
  <2> QED
    BY <1>3, <2>1, ClosingStep
<1>6. CASE ~(s < st.start \/ ~IsChosen(st, s))
  <2>1. PICK q : q = Taken(c, n)
    OBVIOUS
  <2>2. PICK ms : ms = <<Data(s, At(st, s), Agreed[At(st, s)], FALSE)>>
    OBVIOUS
  <2>3. /\ queue' = Sent(q, c, n, ms) /\ conn' = conn
        /\ store' = store /\ crashed' = crashed /\ connections' = connections /\ cut' = cut
    BY <1>1, <1>6, <2>1, <2>2 DEF HandleInstructionRequest
  <2>4. ConnStep(c, n) /\ conn'[c][n].sending = conn[c][n].sending
    BY <2>3, ConnSame
  <2>5. IsQueue(ms) /\ Plain(ms, FALSE)
    <3>1. IsPlain(Data(s, At(st, s), Agreed[At(st, s)], FALSE))
      BY <1>4, PlainKinds
    <3> QED
      BY <2>2, <3>1, PlainOne
  <2>6. Sends(conn[c][n].sending # "no", ms, conn'[c][n].sending # "no")
    BY <2>4, <2>5, SendsPlain
  <2>7. Took(c, n, q)
    BY <1>3, <2>1
  <2> QED
    BY <1>3, <2>3, <2>4, <2>5, <2>6, <2>7, SameStoreStep, EndSends
<1> QED
  BY <1>5, <1>6

LEMMA DataHandled ==
    ASSUME IInv, NEW n \in Node, NEW c \in Conn, HandleInstructionData(c, n)
    PROVE  IInv'
<1>1. PICK msg : msg = Head(queue[c][n])
  OBVIOUS
<1>2. Received(c, n, "Data")
  BY DEF HandleInstructionData
<1>3. /\ conn[c][n].phase = "handled" /\ IsMessage(msg)
      /\ msg.type = "Data" /\ Took(c, n, Taken(c, n))
  BY <1>1, <1>2, Receives
<1>4. msg.slot \in Nat
  BY <1>3 DEF IsMessage
<1>5. PICK q : q = Taken(c, n)
  OBVIOUS
<1>6. Took(c, n, q)
  BY <1>3, <1>5
<1>7. CASE conn[c][n].receiving
  <2>1. PICK f : f = conn[c][n]
    OBVIOUS
  <2>2. PICK waiting : waiting = Append(f.waiting, msg)
    OBVIOUS
  <2>3. /\ conn' = [conn EXCEPT ![c][n].waiting = waiting] /\ queue' = q
        /\ store' = store /\ crashed' = crashed /\ connections' = connections /\ cut' = cut
    BY <1>1, <1>5, <1>7, <2>1, <2>2 DEF HandleInstructionData
  <2>4. /\ IsEnd(f) /\ f.sending \in Sendings /\ f.offers \in SUBSET Nat
        /\ f = Changed(f, f.sending, f.first, f.sent, f.frozen, f.waiting, f.offers)
    BY <2>1, EndIs
  <2>5. PICK g : g = Changed(f, f.sending, f.first, f.sent, f.frozen, waiting, f.offers)
    OBVIOUS
  <2>6. g = [f EXCEPT !.waiting = waiting]
    BY <2>4, <2>5 DEF Changed
  <2>7. Similar(f, g) /\ g.sending = f.sending
    BY <2>4, <2>5, ChangedSimilar
  <2>8. conn' = WithEntry(conn, c, n, g)
    BY <2>1, <2>3, <2>6 DEF WithEntry
  <2>9. ConnStep(c, n) /\ conn'[c][n] = g
    BY <2>1, <2>7, <2>8, ConnWith
  <2>10. conn'[c][n].sending = conn[c][n].sending
    BY <2>1, <2>7, <2>9
  <2> QED
    BY <1>3, <1>6, <2>3, <2>9, <2>10, SameStoreStep, EndTakes
<1>8. CASE /\ ~conn[c][n].receiving
           /\ msg.slot < store[n].start \/ IsChosen(store[n], msg.slot)
  <2>1. /\ queue' = q /\ conn' = conn
        /\ store' = store /\ crashed' = crashed /\ connections' = connections /\ cut' = cut
    BY <1>1, <1>5, <1>8 DEF HandleInstructionData
  <2>2. ConnStep(c, n) /\ conn'[c][n].sending = conn[c][n].sending
    BY <2>1, ConnSame
  <2> QED
    BY <1>3, <1>6, <2>1, <2>2, SameStoreStep, EndTakes
<1>9. CASE /\ ~conn[c][n].receiving
           /\ ~(msg.slot < store[n].start \/ IsChosen(store[n], msg.slot))
  <2>1. Choose(n, msg.slot, msg.request, q)
    BY <1>1, <1>5, <1>9 DEF HandleInstructionData
  <2>2. store[n].start <= msg.slot
    <3>1. store[n].start \in Nat
      BY DEF IInv, TypeOK, IsStore
    <3> QED
      BY <1>4, <1>9, <3>1
  <2>3. PICK s \in Nat : s = msg.slot
    BY <1>4
  <2>4. /\ Choose(n, s, msg.request, q) /\ store[n].start <= s
        /\ ~IsChosen(store[n], s)
    BY <1>9, <2>1, <2>2, <2>3
  <2> QED
    BY <1>6, <2>4, Chooses
<1> QED
  BY <1>7, <1>8, <1>9

-----------------------------------------------------------------------------
(* Bursts that are sent, and what is handled of one.                       *)
LEMMA PositionHandled ==
    ASSUME IInv, NEW n \in Node, NEW c \in Conn, HandlePosition(c, n)
    PROVE  IInv'
<1>1. PICK msg, st : msg = Head(queue[c][n]) /\ st = store[n]
  OBVIOUS
<1>2. Received(c, n, "Position")
  BY DEF HandlePosition
<1>3. /\ conn[c][n].phase = "handled" /\ IsMessage(msg)
      /\ msg.type = "Position" /\ Took(c, n, Taken(c, n))
  BY <1>1, <1>2, Receives
<1>4. msg.firstUnapplied \in Nat
  BY <1>3 DEF IsMessage
<1>5. PICK q : q = Taken(c, n)
  OBVIOUS
<1>6. Took(c, n, q)
  BY <1>3, <1>5
<1>7. CASE MustBurst(st, msg)
  <2>1. PICK f : f = conn[c][n]
    OBVIOUS
  <2>2. PICK ms : ms = <<Bursting>>
    OBVIOUS
  <2>3. /\ conn' = [conn EXCEPT ![c][n].sending = "start"] /\ queue' = Sent(q, c, n, ms)
        /\ store' = store /\ crashed' = crashed /\ connections' = connections /\ cut' = cut
    BY <1>1, <1>5, <1>7, <2>1, <2>2 DEF HandlePosition
  <2>4. /\ IsEnd(f) /\ f.sending \in Sendings /\ f.offers \in SUBSET Nat
        /\ f = Changed(f, f.sending, f.first, f.sent, f.frozen, f.waiting, f.offers)
    BY <2>1, EndIs
  <2>5. PICK g : g = Changed(f, "start", f.first, f.sent, f.frozen, f.waiting, f.offers)
    OBVIOUS
  <2>6. g = [f EXCEPT !.sending = "start"]
    BY <2>4, <2>5 DEF Changed
  <2>7. Similar(f, g) /\ g.sending = "start"
    BY <2>4, <2>5, ChangedSimilar DEF Sendings
  <2>8. conn' = WithEntry(conn, c, n, g)
    BY <2>1, <2>3, <2>6 DEF WithEntry
  <2>9. ConnStep(c, n) /\ conn'[c][n] = g
    BY <2>1, <2>7, <2>8, ConnWith
  <2>10. IsQueue(ms)
    <3>1. IsMessage(Bursting)
      BY DEF IsMessage, Bursting
    <3> QED
      BY <2>2, <3>1, QueueOne
  <2>11. Sends(conn[c][n].sending # "no", ms, conn'[c][n].sending # "no")
    BY <2>2, <2>7, <2>9 DEF Sends
  <2> QED
    BY <1>3, <1>6, <2>3, <2>9, <2>10, <2>11, SameStoreStep, EndSends
<1>8. CASE ~MustBurst(st, msg) /\ msg.degraded
  <2>1. Close(c, n)
    BY <1>1, <1>8 DEF HandlePosition
  <2> QED
    BY <1>3, <2>1, ClosingStep
<1>9. CASE ~MustBurst(st, msg) /\ ~msg.degraded
  <2>1. PICK ms : ms = DataFrom(st, msg.firstUnapplied)
    OBVIOUS
  <2>2. /\ queue' = Sent(q, c, n, ms) /\ conn' = conn
        /\ store' = store /\ crashed' = crashed /\ connections' = connections /\ cut' = cut
    <3>1. HandlePosition(c, n) /\ ~MustBurst(store[n], Head(queue[c][n]))
          /\ ~Head(queue[c][n]).degraded
      BY <1>1, <1>9
    <3>2. /\ conn' = conn /\ store' = store /\ crashed' = crashed
          /\ connections' = connections /\ cut' = cut
      BY <3>1 DEF HandlePosition
    <3>3. queue' = Sent(q, c, n, ms)
      BY <1>1, <1>5, <2>1, <3>1 DEF HandlePosition
    <3> QED
      BY <3>2, <3>3
  <2>3. ConnStep(c, n) /\ conn'[c][n].sending = conn[c][n].sending
    BY <2>2, ConnSame
  <2>4. IsQueue(ms) /\ Plain(ms, FALSE)
    BY <1>4, <2>1, DataInOrder
  <2>5. Sends(conn[c][n].sending # "no", ms, conn'[c][n].sending # "no")
    BY <2>3, <2>4, SendsPlain
  <2> QED
    BY <1>3, <1>6, <2>2, <2>3, <2>4, <2>5, SameStoreStep, EndSends
<1> QED
  BY <1>7, <1>8, <1>9

LEMMA StateIs ==
    ASSUME IInv, NEW n \in Node, NEW state,
           store' = [store EXCEPT ![n].state = state], crashed' = crashed
    PROVE  StoreStep(n) /\ AsDegraded(store[n], store'[n])
<1>1. PICK st : st = store[n]
  OBVIOUS
<1>2. IsStore(st) /\ HasApplied(st) /\ (n \in crashed => st.degraded)
  BY <1>1 DEF IInv, TypeOK, StoresOK
<1>3. PICK st2 : st2 = [st EXCEPT !.state = state]
  OBVIOUS
<1>4. st2 = [degraded |-> st.degraded, start |-> st.start,
             firstUnapplied |-> st.firstUnapplied, slots |-> st.slots, state |-> state]
  <2>1. st = [degraded |-> st.degraded, start |-> st.start,
             firstUnapplied |-> st.firstUnapplied, slots |-> st.slots, state |-> st.state]
    BY <1>2 DEF IsStore
  <2> QED
    BY <1>3, <2>1
<1>5. IsStore(st2)
  BY <1>2, <1>4 DEF IsStore
<1>6. HasApplied(st2)
  <2>1. st2.start = st.start /\ st2.slots = st.slots
    BY <1>4
  <2>2. \A t : IsChosen(st2, t) <=> IsChosen(st, t)
    BY <2>1, ChosenAlike
  <2> QED
    BY <1>2, <1>4, <2>2 DEF HasApplied
<1>7. store' = [store EXCEPT ![n] = st2]
  BY <1>1, <1>3
<1>8. n \in crashed' => st2.degraded
  BY <1>2, <1>4
<1>9. StoreStep(n) /\ store'[n] = st2
  BY <1>5, <1>6, <1>7, <1>8, StoreIs
<1> QED
  BY <1>1, <1>4, <1>9 DEF AsDegraded

LEMMA PropertyHandled ==
    ASSUME IInv, NEW n \in Node, NEW c \in Conn, NEW type \in {"Global", "Entity"},
           Received(c, n, type), NEW state, BurstProperty(c, n, state)
    PROVE  IInv'
<1>1. conn[c][n].phase = "handled" /\ Took(c, n, Taken(c, n))
  BY Receives
<1>2. PICK q : q = Taken(c, n)
  OBVIOUS
<1>3. Took(c, n, q)
  BY <1>1, <1>2
<1>4. CASE conn[c][n].receiving
  <2>1. /\ queue' = q /\ conn' = conn /\ store' = [store EXCEPT ![n].state = state]
        /\ crashed' = crashed /\ connections' = connections /\ cut' = cut
    BY <1>2, <1>4 DEF BurstProperty
  <2>2. ConnStep(c, n) /\ conn'[c][n].sending = conn[c][n].sending
    BY <2>1, ConnSame
  <2>3. StoreStep(n) /\ AsDegraded(store[n], store'[n])
    BY <2>1, StateIs
  <2> QED
    BY <1>1, <1>3, <2>1, <2>2, <2>3, EndTakes
<1>5. CASE ~conn[c][n].receiving
  <2>1. Close(c, n)
    BY <1>5 DEF BurstProperty
  <2> QED
    BY <1>1, <2>1, ClosingStep
<1> QED
  BY <1>4, <1>5

LEMMA PropertiesHandled ==
    ASSUME IInv, NEW n \in Node, NEW c \in Conn,
           HandleGlobalProperty(c, n) \/ HandleEntityProperty(c, n)
    PROVE  IInv'
<1>1. CASE HandleGlobalProperty(c, n)
  <2>1. PICK state : state = [store[n].state EXCEPT !.next = Head(queue[c][n]).next]
    OBVIOUS
  <2>2. Received(c, n, "Global") /\ BurstProperty(c, n, state)
    BY <1>1, <2>1 DEF HandleGlobalProperty
  <2> QED
    BY <2>2, PropertyHandled
<1>2. CASE HandleEntityProperty(c, n)
  <2>1. PICK msg : msg = Head(queue[c][n])
    OBVIOUS
  <2>2. PICK state : state = [store[n].state EXCEPT
                                 !.entities = Put(@, {msg.entity}, msg.values)]
    OBVIOUS
  <2>3. Received(c, n, "Entity") /\ BurstProperty(c, n, state)
    BY <1>2, <2>1, <2>2 DEF HandleEntityProperty
  <2> QED
    BY <2>3, PropertyHandled
<1> QED
  BY <1>1, <1>2

LEMMA OnePlain ==
    ASSUME NEW m, IsMessage(m), ~Marks(m)
    PROVE  IsQueue(<<m>>) /\ Plain(<<m>>, TRUE)
<1>1. PICK q : q = <<m>>
  OBVIOUS
<1>2. IsSequence(q) /\ Len(q) = 1 /\ q[1] = m
  BY <1>1, OneIs
<1>3. \A i \in 1 .. 1 : i = 1
  OBVIOUS
<1> QED
  BY <1>1, <1>2, <1>3 DEF IsQueue, Plain

LEMMA TwoPlain ==
    ASSUME NEW m1, NEW m2, IsMessage(m1), IsMessage(m2), ~Marks(m1), ~Marks(m2)
    PROVE  IsQueue(<<m1, m2>>) /\ Plain(<<m1, m2>>, TRUE)
<1>1. PICK q : q = <<m1, m2>>
  OBVIOUS
<1>2. q \in Seq({m1, m2}) /\ Len(q) = 2 /\ q[1] = m1 /\ q[2] = m2
  BY <1>1
<1>3. IsSequence(q)
  BY <1>2, SequenceIs
<1>4. \A i \in 1 .. 2 : i = 1 \/ i = 2
  OBVIOUS
<1> QED
  BY <1>1, <1>2, <1>3, <1>4 DEF IsQueue, Plain

(* A step of the goroutine that sends a burst, before its last.            *)
LEMMA BurstSends ==
    ASSUME IInv, NEW n \in Node, NEW c \in Conn, conn[c][n].sending # "no",
           NEW g, Similar(conn[c][n], g), g.sending # "no",
           conn' = WithEntry(conn, c, n, g), NEW ms, IsQueue(ms), Plain(ms, TRUE),
           queue' = Sent(queue, c, n, ms), store' = store, crashed' = crashed,
           connections' = connections, cut' = cut
    PROVE  IInv'
<1>1. conn[c][n].phase # "none"
  BY EndIs
<1>2. ConnStep(c, n) /\ conn'[c][n] = g
  BY ConnWith
<1>3. Sends(conn[c][n].sending # "no", ms, conn'[c][n].sending # "no")
  BY <1>2 DEF Sends, Plain
<1>4. PICK q : q = queue
  OBVIOUS
<1>5. Took(c, n, q) /\ queue' = Sent(q, c, n, ms)
  BY <1>4 DEF Took
<1> QED
  BY <1>1, <1>2, <1>3, <1>5, SameStoreStep, EndSends

LEMMA BurstStarts ==
    ASSUME IInv, NEW n \in Node, NEW c \in Conn, BurstStart(c, n)
    PROVE  IInv'
<1>1. PICK f : f = conn[c][n]
  OBVIOUS
<1>2. /\ IsEnd(f) /\ f.sending \in Sendings /\ f.offers \in SUBSET Nat
      /\ f = Changed(f, f.sending, f.first, f.sent, f.frozen, f.waiting, f.offers)
  BY <1>1, EndIs
<1>3. PICK entities, global : /\ entities = store[n].state.entities
                              /\ global = Global(store[n].state.next)
  OBVIOUS
<1>4. PICK first : first = DOMAIN entities
  OBVIOUS
<1>5. IsMessage(global) /\ ~Marks(global)
  BY <1>3 DEF IsMessage, Marks, Global
<1>6. PICK visited, ms :
         /\ conn' = [conn EXCEPT ![c][n].sending = "live", ![c][n].first = first,
                                 ![c][n].sent = visited]
         /\ queue' = Sent(queue, c, n, ms)
         /\ IsQueue(ms) /\ Plain(ms, TRUE)
  <2>1. CASE entities = <<>>
    <3>1. /\ conn' = [conn EXCEPT ![c][n].sending = "live", ![c][n].first = first,
                                  ![c][n].sent = {}]
          /\ queue' = Sent(queue, c, n, <<global>>)
      BY <1>3, <1>4, <2>1 DEF BurstStart
    <3> QED
      BY <1>5, <3>1, OnePlain
  <2>2. CASE entities # <<>>
    <3>1. PICK e \in DOMAIN entities :
             /\ conn' = [conn EXCEPT ![c][n].sending = "live", ![c][n].first = first,
                                     ![c][n].sent = {e}]
             /\ queue' = Sent(queue, c, n, <<global, Entity(e, entities[e])>>)
      BY <1>3, <1>4, <2>2 DEF BurstStart
    <3>2. PICK m : m = Entity(e, entities[e])
      OBVIOUS
    <3>3. IsMessage(m) /\ ~Marks(m)
      BY <3>2 DEF IsMessage, Marks, Entity
    <3>4. PICK ms : ms = <<global, m>>
      OBVIOUS
    <3>5. IsQueue(ms) /\ Plain(ms, TRUE)
      BY <1>5, <3>3, <3>4, TwoPlain
    <3>6. queue' = Sent(queue, c, n, ms)
      BY <3>1, <3>2, <3>4
    <3> QED
      BY <3>1, <3>5, <3>6
  <2> QED
    BY <2>1, <2>2
<1>7. PICK g : g = Changed(f, "live", first, visited, f.frozen, f.waiting, f.offers)
  OBVIOUS
<1>8. g = [f EXCEPT !.sending = "live", !.first = first, !.sent = visited]
  <2>1. PICK f1 : f1 = [f EXCEPT !.sending = "live"]
    OBVIOUS
  <2>2. f1 = Changed(f, "live", f.first, f.sent, f.frozen, f.waiting, f.offers)
    BY <1>2, <2>1 DEF Changed
  <2>3. PICK f2 : f2 = [f1 EXCEPT !.first = first]
    OBVIOUS
  <2>4. f2 = Changed(f, "live", first, f.sent, f.frozen, f.waiting, f.offers)
    BY <2>2, <2>3 DEF Changed
  <2>5. g = [f2 EXCEPT !.sent = visited]
    BY <1>7, <2>4 DEF Changed
  <2> QED
    BY <2>1, <2>3, <2>5
<1>9. Similar(f, g) /\ g.sending # "no"
  BY <1>2, <1>7, ChangedSimilar DEF Sendings
<1>10. conn' = WithEntry(conn, c, n, g)
  BY <1>1, <1>6, <1>8 DEF WithEntry
<1>11. f.sending # "no"
  BY <1>1 DEF BurstStart, Sending
<1>12. /\ store' = store /\ crashed' = crashed /\ connections' = connections /\ cut' = cut
  BY DEF BurstStart
<1> QED
  BY <1>1, <1>6, <1>9, <1>10, <1>11, <1>12, BurstSends

LEMMA BurstsEntity ==
    ASSUME IInv, NEW n \in Node, NEW c \in Conn, BurstEntity(c, n)
    PROVE  IInv'
<1>1. PICK f : f = conn[c][n]
  OBVIOUS
<1>2. /\ IsEnd(f) /\ f.sending \in Sendings /\ f.offers \in SUBSET Nat
      /\ f = Changed(f, f.sending, f.first, f.sent, f.frozen, f.waiting, f.offers)
  BY <1>1, EndIs
<1>3. PICK entities : entities = Visiting(c, n).entities
  OBVIOUS
<1>4. PICK e \in DOMAIN entities \ conn[c][n].sent :
         /\ conn' = [conn EXCEPT ![c][n].sent = @ \cup {e}]
         /\ queue' = Sent(queue, c, n, <<Entity(e, entities[e])>>)
  BY <1>3 DEF BurstEntity
<1>5. PICK sent : sent = f.sent \cup {e}
  OBVIOUS
<1>6. PICK m : m = Entity(e, entities[e])
  OBVIOUS
<1>7. PICK ms : ms = <<m>>
  OBVIOUS
<1>8. IsQueue(ms) /\ Plain(ms, TRUE)
  <2>1. IsMessage(m) /\ ~Marks(m)
    BY <1>6 DEF IsMessage, Marks, Entity
  <2> QED
    BY <1>7, <2>1, OnePlain
<1>9. PICK g : g = Changed(f, f.sending, f.first, sent, f.frozen, f.waiting, f.offers)
  OBVIOUS
<1>10. g = [f EXCEPT !.sent = sent]
  BY <1>2, <1>9 DEF Changed
<1>11. Similar(f, g) /\ g.sending = f.sending
  BY <1>2, <1>9, ChangedSimilar
<1>12. conn' = WithEntry(conn, c, n, g)
  BY <1>1, <1>4, <1>5, <1>10 DEF WithEntry
<1>13. f.sending # "no"
  BY <1>1 DEF BurstEntity, Sending
<1>14. /\ store' = store /\ crashed' = crashed /\ connections' = connections /\ cut' = cut
  BY DEF BurstEntity
<1>15. queue' = Sent(queue, c, n, ms)
  BY <1>4, <1>6, <1>7
<1> QED
  BY <1>1, <1>8, <1>11, <1>12, <1>13, <1>14, <1>15, BurstSends

LEMMA BurstEnds ==
    ASSUME IInv, NEW n \in Node, NEW c \in Conn, BurstEnd(c, n)
    PROVE  IInv'
<1>1. PICK f : f = conn[c][n]
  OBVIOUS
<1>2. /\ IsEnd(f) /\ f.sending \in Sendings /\ f.offers \in SUBSET Nat
      /\ f = Changed(f, f.sending, f.first, f.sent, f.frozen, f.waiting, f.offers)
  BY <1>1, EndIs
<1>3. f.sending # "no" /\ f.phase # "none"
  BY <1>1, EndIs DEF BurstEnd, Sending
<1>4. PICK s : s = store[n].firstUnapplied
  OBVIOUS
<1>5. s \in Nat
  BY <1>4 DEF IInv, TypeOK, IsStore
<1>6. PICK rest : rest = InOrder(ChosenFrom(store[n], s), Chosen)
  OBVIOUS
<1>7. IsQueue(rest) /\ Plain(rest, FALSE)
  <2>1. PICK st : st = store[n]
    OBVIOUS
  <2>2. rest = InOrder(ChosenFrom(st, s), Chosen)
    BY <1>6, <2>1
  <2>3. IsQueue(InOrder(ChosenFrom(st, s), Chosen))
    BY <1>5, ChosenInOrder
  <2>4. Plain(InOrder(ChosenFrom(st, s), Chosen), FALSE)
    BY <1>5, ChosenInOrder
  <2> QED
    BY <2>2, <2>3, <2>4
<1>8. PICK ms : ms = <<BurstDone(s)>> \o rest
  OBVIOUS
<1>9. IsQueue(ms)
  <2>1. PICK m : m = BurstDone(s)
    OBVIOUS
  <2>2. IsMessage(m)
    BY <1>5, <2>1 DEF IsMessage, BurstDone
  <2>3. IsQueue(<<m>>)
    BY <2>2, QueueOne
  <2>4. IsQueue(<<m>> \o rest)
    BY <1>7, <2>3, QueueConcat
  <2> QED
    BY <1>8, <2>1, <2>4
<1>10. PICK g : g = Changed(f, "no", {}, {}, EmptyState, f.waiting, f.offers)
  OBVIOUS
<1>11. g = [f EXCEPT !.sending = "no", !.first = {}, !.sent = {}, !.frozen = EmptyState]
  <2>1. PICK f1 : f1 = [f EXCEPT !.sending = "no"]
    OBVIOUS
  <2>2. f1 = Changed(f, "no", f.first, f.sent, f.frozen, f.waiting, f.offers)
    BY <1>2, <2>1 DEF Changed
  <2>3. PICK f2 : f2 = [f1 EXCEPT !.first = {}]
    OBVIOUS
  <2>4. f2 = Changed(f, "no", {}, f.sent, f.frozen, f.waiting, f.offers)
    BY <2>2, <2>3 DEF Changed
  <2>5. PICK f3 : f3 = [f2 EXCEPT !.sent = {}]
    OBVIOUS
  <2>6. f3 = Changed(f, "no", {}, {}, f.frozen, f.waiting, f.offers)
    BY <2>4, <2>5 DEF Changed
  <2>7. g = [f3 EXCEPT !.frozen = EmptyState]
    BY <1>10, <2>6 DEF Changed
  <2> QED
    BY <2>1, <2>3, <2>5, <2>7
<1>12. Similar(f, g) /\ g.sending = "no"
  BY <1>2, <1>10, ChangedSimilar DEF Sendings
<1>13. conn' = WithEntry(conn, c, n, g)
  BY <1>1, <1>11 DEF BurstEnd, WithEntry
<1>14. ConnStep(c, n) /\ conn'[c][n] = g
  BY <1>1, <1>12, <1>13, ConnWith
<1>15. Sends(conn[c][n].sending # "no", ms, conn'[c][n].sending # "no")
  <2>1. IsSequence(rest)
    BY <1>7 DEF IsQueue
  <2> QED
    BY <1>1, <1>3, <1>7, <1>8, <1>12, <1>14, <2>1 DEF Sends
<1>16. PICK q : q = queue
  OBVIOUS
<1>17. Took(c, n, q) /\ queue' = Sent(q, c, n, ms)
  BY <1>4, <1>6, <1>8, <1>16 DEF BurstEnd, Took
<1>18. /\ store' = store /\ crashed' = crashed /\ connections' = connections /\ cut' = cut
  BY DEF BurstEnd
<1> QED
  BY <1>1, <1>3, <1>9, <1>14, <1>15, <1>17, <1>18, SameStoreStep, EndSends

-----------------------------------------------------------------------------
(* The end of a burst at its receiver.                                     *)
LEMMA ReceivingAlone ==
    ASSUME IInv, NEW n \in Node, NEW c \in Conn, conn[c][n].receiving, queue[c][n] # <<>>
    PROVE  /\ ~conn[c][n].closed /\ store[n].degraded
           /\ \A d \in Conn : conn[d][n].receiving /\ ~conn[d][n].closed => d = c
<1>1. /\ EndOK(c, n) /\ Alone(n)
  BY DEF IInv, EndsOK
<1>2. ~conn[c][n].closed /\ conn[c][n].phase = "handled"
  BY <1>1 DEF EndOK
<1> QED
  BY <1>1, <1>2 DEF Alone

EndedBurst(f) ==
    [phase |-> f.phase, node |-> f.node, outgoing |-> f.outgoing,
     closed |-> f.closed, sending |-> f.sending, first |-> f.first,
     sent |-> f.sent, frozen |-> f.frozen, receiving |-> FALSE,
     waiting |-> <<>>, offers |-> f.offers]

LEMMA EndedBurstIs ==
    ASSUME NEW f, IsEnd(f), NEW g, g = EndedBurst(f)
    PROVE  /\ IsEnd(g) /\ g.closed = f.closed /\ g.phase = f.phase /\ g.node = f.node
           /\ ~g.receiving /\ g.sending = f.sending
           /\ g = [f EXCEPT !.receiving = FALSE, !.waiting = <<>>]
<1>1. IsEnd(g)
  BY DEF IsEnd, EndedBurst
<1>2. g.closed = f.closed /\ g.phase = f.phase /\ g.node = f.node
      /\ ~g.receiving /\ g.sending = f.sending
  BY DEF EndedBurst
<1>3. g = [f EXCEPT !.receiving = FALSE, !.waiting = <<>>]
  <2>1. PICK no, nothing : no = FALSE /\ nothing = <<>>
    OBVIOUS
  <2>2. f = [phase |-> f.phase, node |-> f.node, outgoing |-> f.outgoing,
            closed |-> f.closed, sending |-> f.sending, first |-> f.first,
            sent |-> f.sent, frozen |-> f.frozen, receiving |-> f.receiving,
            waiting |-> f.waiting, offers |-> f.offers]
    BY DEF IsEnd
  <2>3. PICK h : h = [f EXCEPT !.receiving = no]
    OBVIOUS
  <2>4. h = [phase |-> f.phase, node |-> f.node, outgoing |-> f.outgoing,
            closed |-> f.closed, sending |-> f.sending, first |-> f.first,
            sent |-> f.sent, frozen |-> f.frozen, receiving |-> no,
            waiting |-> f.waiting, offers |-> f.offers]
    BY <2>2, <2>3
  <2>5. g = [phase |-> f.phase, node |-> f.node, outgoing |-> f.outgoing,
            closed |-> f.closed, sending |-> f.sending, first |-> f.first,
            sent |-> f.sent, frozen |-> f.frozen, receiving |-> no,
            waiting |-> nothing, offers |-> f.offers]
    BY <2>1 DEF EndedBurst
  <2>6. g = [h EXCEPT !.waiting = nothing]
    BY <2>4, <2>5
  <2> QED
    BY <2>1, <2>3, <2>6
<1> QED
  BY <1>1, <1>2, <1>3

LEMMA BurstDoneHandled ==
    ASSUME IInv, NEW n \in Node, NEW c \in Conn, HandleBurstDone(c, n)
    PROVE  IInv'
<1>1. PICK f, msg : f = conn[c][n] /\ msg = Head(queue[c][n])
  OBVIOUS
<1>2. Received(c, n, "BurstDone")
  BY DEF HandleBurstDone
<1>3. /\ f.phase = "handled" /\ IsMessage(msg) /\ queue[c][n] # <<>>
      /\ msg.type = "BurstDone" /\ n \notin crashed
  BY <1>1, <1>2, Receives
<1>4. PICK s \in Nat : s = msg.firstUnapplied
  BY <1>3 DEF IsMessage
<1>5. PICK st : st = store[n]
  OBVIOUS
<1>6. PICK r : r = tryApply(EndBurst(st, s, f.waiting))
  OBVIOUS
<1>7. CASE ~f.receiving
  <2>1. Close(c, n)
    BY <1>1, <1>7 DEF HandleBurstDone
  <2> QED
    BY <1>1, <1>3, <2>1, ClosingStep
<1>8. CASE f.receiving /\ s < st.start
  <2>1. /\ crashed' = crashed \cup {n} /\ store' = store /\ conn' = conn
        /\ queue' = queue /\ connections' = connections /\ cut' = cut
    BY <1>1, <1>4, <1>5, <1>8 DEF HandleBurstDone, netVars
  <2>2. store[n].degraded
    BY <1>1, <1>3, <1>8, ReceivingAlone
  <2>3. StoreStep(n) /\ AsDegraded(store[n], store'[n])
    BY <2>1, <2>2 DEF StoreStep, AsDegraded, IInv, TypeOK, StoresOK
  <2>4. ConnStep(c, n) /\ conn'[c][n].sending = conn[c][n].sending
    BY <2>1, ConnSame
  <2>5. PICK q : q = queue
    OBVIOUS
  <2>6. Took(c, n, q) /\ queue' = q
    BY <2>1, <2>5 DEF Took
  <2> QED
    BY <1>1, <1>3, <2>1, <2>3, <2>4, <2>6, EndTakes
<1>9. CASE f.receiving /\ ~(s < st.start)
  <2>1. PICK q : q = Taken(c, n)
    OBVIOUS
  <2>2. PICK D \in SUBSET Conn : D = {d \in Used(n) : conn[d][n].sending # "no"}
    <3>1. Used(n) \subseteq Conn
      BY UsedIs
    <3> QED
      BY <3>1
  <2>3. /\ store' = [store EXCEPT ![n] = r.store]
        /\ conn' = [conn EXCEPT ![c][n].receiving = FALSE, ![c][n].waiting = <<>>]
        /\ connections' = connections /\ cut' = cut /\ crashed' = crashed
    BY <1>1, <1>4, <1>5, <1>6, <1>9 DEF HandleBurstDone
  <2>4. queue' = [d \in Conn |-> IF d \in Used(n) /\ conn[d][n].sending # "no"
                                 THEN Sent(q, d, n, r.applied)[d] ELSE q[d]]
    BY <1>1, <1>4, <1>5, <1>6, <1>9, <2>1 DEF HandleBurstDone
  <2>5. /\ IsStore(st) /\ IsEnd(f) /\ EndOK(c, n) /\ IsTable(conn)
    BY <1>1, <1>5 DEF IInv, TypeOK, EndsOK
  <2>6. /\ IsStore(r.store) /\ ~r.store.degraded /\ HasApplied(r.store)
        /\ IsQueue(r.applied) /\ Plain(r.applied, TRUE)
    BY <1>6, <2>5, EndBurstStore
  <2>7. StoreStep(n) /\ store'[n] = r.store
    <3>1. PICK st2 : st2 = r.store
      OBVIOUS
    <3>2. /\ IsStore(st2) /\ HasApplied(st2) /\ store' = [store EXCEPT ![n] = st2]
          /\ crashed' \subseteq crashed \cup {n} /\ (n \in crashed' => st2.degraded)
      BY <1>3, <2>3, <2>6, <3>1
    <3> QED
      BY <3>1, <3>2, StoreIs
  <2>8. PICK g : g = EndedBurst(f)
    OBVIOUS
  <2>9. /\ IsEnd(g) /\ g.closed = f.closed /\ g.phase = f.phase /\ g.node = f.node
        /\ ~g.receiving /\ g.sending = f.sending
        /\ g = [f EXCEPT !.receiving = FALSE, !.waiting = <<>>]
    BY <2>5, <2>8, EndedBurstIs
  <2>10. conn' = WithEntry(conn, c, n, g)
    BY <1>1, <2>3, <2>9 DEF WithEntry
  <2>11. /\ IsTable(conn') /\ conn'[c][n] = g
         /\ \A d \in Conn, x \in Node : d # c \/ x # n => conn'[d][x] = conn[d][x]
    <3>1. PICK t, u : t = conn /\ u = WithEntry(t, c, n, g)
      OBVIOUS
    <3>2. IsTable(t)
      BY <2>5, <3>1
    <3>3. /\ IsTable(u) /\ u[c][n] = g
          /\ \A d \in Conn, x \in Node : d # c \/ x # n => u[d][x] = t[d][x]
      BY <3>1, <3>2, TableExcept
    <3>4. conn' = u
      BY <2>10, <3>1
    <3> QED
      BY <3>1, <3>3, <3>4
  <2>12. ASSUME NEW d \in Conn
         PROVE  /\ EndStep(d, n, {}) /\ conn'[d][n].phase = conn[d][n].phase
                /\ conn'[d][n].sending = conn[d][n].sending
                /\ conn'[d][n].closed = conn[d][n].closed
    <3>1. IsEnd(conn[d][n]) /\ EndOK(d, n)
      BY DEF IInv, TypeOK, EndsOK
    <3>2. conn[d][n].closed \in BOOLEAN
      BY <3>1 DEF IsEnd
    <3>3. CASE d = c
      BY <1>1, <1>3, <2>9, <2>11, <3>1, <3>2, <3>3 DEF EndStep, EndOK
    <3>4. CASE d # c
      <4>1. conn'[d][n] = conn[d][n]
        BY <2>11, <3>4
      <4> QED
        BY <3>1, <3>2, <4>1 DEF EndStep, EndOK
    <3> QED
      BY <3>3, <3>4
  <2>13. Leaves(c, n, q)
    <3>1. AfterMessage(conn[c][n].receiving, Head(queue[c][n])) = FALSE
      BY <1>1, <1>3 DEF AfterMessage
    <3>2. conn'[c][n].receiving = FALSE
      BY <2>9, <2>11 DEF IsEnd
    <3>3. \A d \in Conn \ {c} : conn'[d][n].receiving = conn[d][n].receiving
      BY <2>11
    <3> QED
      BY <1>3, <2>1, <3>1, <3>2, <3>3 DEF Leaves
  <2>14. PICK ms : ms = [d \in Conn |-> r.applied]
    OBVIOUS
  <2>15. ASSUME NEW d \in D
         PROVE  /\ conn[d][n].phase # "none" /\ IsQueue(ms[d])
                /\ Sends(conn[d][n].sending # "no", ms[d], conn'[d][n].sending # "no")
    <3>1. conn[d][n].phase = "handled" /\ conn[d][n].sending # "no"
      BY <2>2, UsedIs
    <3>2. ms[d] = r.applied
      BY <2>14
    <3> QED
      BY <2>6, <2>12, <3>1, <3>2 DEF Sends, Plain
  <2>16. /\ queue' = [d \in Conn |-> queue'[d]]
         /\ \A d \in Conn : queue'[d] = IF d \in D THEN Sent(q, d, n, ms[d])[d] ELSE q[d]
    BY <2>2, <2>4, <2>14
  <2>17. SendStep(c, n, q, D, ms)
    BY <2>3, <2>11, <2>12, <2>13, <2>15, <2>16 DEF SendStep
  <2>18. HandleStep(n, {})
    BY <2>17, ManyStep
  <2>19. SameUse(n)
    BY <2>3, <2>12 DEF SameUse
  <2>20. InUse' /\ connections' \in [Node -> [Node -> Conn \cup {NoConn}]]
    BY <2>18, <2>19, SameInUse
  <2>21. Alone(n)'
    <3>1. \A d \in Conn : conn[d][n].receiving /\ ~conn[d][n].closed => d = c
      BY <1>1, <1>3, <1>9, ReceivingAlone
    <3>2. ASSUME NEW d \in Conn PROVE ~(conn'[d][n].receiving /\ ~conn'[d][n].closed)
      <4>1. CASE d = c
        BY <2>9, <2>11, <4>1
      <4>2. CASE d # c
        <5>1. conn'[d][n] = conn[d][n]
          BY <2>11, <4>2
        <5> QED
          BY <3>1, <4>2, <5>1
      <4> QED
        BY <4>1, <4>2
    <3> QED
      BY <3>2 DEF Alone
  <2> QED
    BY <2>7, <2>18, <2>20, <2>21, StepKeeps
<1> QED
  BY <1>7, <1>8, <1>9

-----------------------------------------------------------------------------
(* The start of a burst at its receiver.                                   *)
LEMMA FrozenIs ==
    ASSUME NEW f, IsEnd(f), NEW st, NEW h, h = Frozen(f, st)
    PROVE  /\ Similar(f, h) /\ (h.sending # "no" <=> f.sending # "no")
           /\ f.sending = "no" => h = f
<1>1. CASE f.sending = "live"
  <2>1. PICK frozen : frozen = st.state
    OBVIOUS
  <2>2. f = [phase |-> f.phase, node |-> f.node, outgoing |-> f.outgoing,
            closed |-> f.closed, sending |-> f.sending, first |-> f.first,
            sent |-> f.sent, frozen |-> f.frozen, receiving |-> f.receiving,
            waiting |-> f.waiting, offers |-> f.offers]
    BY DEF IsEnd
  <2>3. PICK k : k = [f EXCEPT !.sending = "frozen"]
    OBVIOUS
  <2>4. k = [phase |-> f.phase, node |-> f.node, outgoing |-> f.outgoing,
            closed |-> f.closed, sending |-> "frozen", first |-> f.first,
            sent |-> f.sent, frozen |-> f.frozen, receiving |-> f.receiving,
            waiting |-> f.waiting, offers |-> f.offers]
    BY <2>2, <2>3
  <2>5. h = [k EXCEPT !.frozen = frozen]
    BY <1>1, <2>1, <2>3 DEF Frozen
  <2>6. h = [phase |-> f.phase, node |-> f.node, outgoing |-> f.outgoing,
            closed |-> f.closed, sending |-> "frozen", first |-> f.first,
            sent |-> f.sent, frozen |-> frozen, receiving |-> f.receiving,
            waiting |-> f.waiting, offers |-> f.offers]
    BY <2>4, <2>5
  <2>7. IsEnd(h)
    BY <2>6 DEF IsEnd, Sendings
  <2> QED
    BY <1>1, <2>6, <2>7 DEF Similar
<1>2. CASE f.sending # "live"
  BY <1>2 DEF Frozen, Similar
<1> QED
  BY <1>1, <1>2

WithReceiving(f, b) == [f EXCEPT !.receiving = b]

LEMMA WithReceivingIs ==
    ASSUME NEW f, IsEnd(f), NEW b \in BOOLEAN, NEW k, k = WithReceiving(f, b)
    PROVE  /\ IsEnd(k) /\ k.closed = f.closed /\ k.phase = f.phase /\ k.node = f.node
           /\ k.receiving = b /\ k.sending = f.sending
           /\ b = f.receiving => k = f
<1>1. f = [phase |-> f.phase, node |-> f.node, outgoing |-> f.outgoing,
            closed |-> f.closed, sending |-> f.sending, first |-> f.first,
            sent |-> f.sent, frozen |-> f.frozen, receiving |-> f.receiving,
            waiting |-> f.waiting, offers |-> f.offers]
  BY DEF IsEnd
<1>2. k = [phase |-> f.phase, node |-> f.node, outgoing |-> f.outgoing,
            closed |-> f.closed, sending |-> f.sending, first |-> f.first,
            sent |-> f.sent, frozen |-> f.frozen, receiving |-> b,
            waiting |-> f.waiting, offers |-> f.offers]
  BY <1>1 DEF WithReceiving
<1>3. IsEnd(k)
  BY <1>2 DEF IsEnd
<1>4. k.closed = f.closed /\ k.phase = f.phase /\ k.node = f.node
      /\ k.receiving = b /\ k.sending = f.sending
  BY <1>2
<1>5. b = f.receiving => k = f
  BY <1>1, <1>2
<1> QED
  BY <1>3, <1>4, <1>5

(* An end of n when it handles a Bursting, that came over this end or not. *)
LEMMA BurstEndIs ==
    ASSUME NEW f, IsEnd(f), NEW st, NEW here \in BOOLEAN,
           NEW g, g = OnBursting(f, st, here)
    PROVE  /\ IsEnd(g) /\ g.closed = f.closed /\ g.phase = f.phase /\ g.node = f.node
           /\ (g.sending # "no" <=> f.sending # "no")
           /\ g.receiving \in BOOLEAN /\ (g.receiving <=> f.receiving \/ here)
           /\ f.sending = "no" /\ ~here => g = f
<1>1. PICK h : h = Frozen(f, st)
  OBVIOUS
<1>2. /\ Similar(f, h) /\ (h.sending # "no" <=> f.sending # "no")
      /\ f.sending = "no" => h = f
  BY <1>1, FrozenIs
<1>3. h.receiving \in BOOLEAN /\ f.receiving \in BOOLEAN
  BY <1>2 DEF Similar, IsEnd
<1>4. PICK b \in BOOLEAN : b = (h.receiving \/ here)
  BY <1>3
<1>5. g = WithReceiving(h, b)
  BY <1>1, <1>4 DEF WithReceiving, OnBursting
<1>6. IsEnd(h)
  BY <1>2 DEF Similar
<1>7. /\ IsEnd(g) /\ g.closed = h.closed /\ g.phase = h.phase /\ g.node = h.node
      /\ g.receiving = b /\ g.sending = h.sending
      /\ b = h.receiving => g = h
  BY <1>5, <1>6, WithReceivingIs
<1>8. ~here => b = h.receiving
  BY <1>3, <1>4
<1>9. h.receiving = f.receiving
  BY <1>2 DEF Similar
<1>10. g.receiving \in BOOLEAN /\ (g.receiving <=> f.receiving \/ here)
  BY <1>3, <1>4, <1>7, <1>9
<1>11. f.sending = "no" /\ ~here => g = f
  BY <1>2, <1>7, <1>8
<1>12. g.sending # "no" <=> f.sending # "no"
  BY <1>2, <1>7
<1> QED
  BY <1>2, <1>7, <1>10, <1>11, <1>12 DEF Similar

(* What a burst over c makes of the ends of n: it closes C.                *)
Bursts(c, n, C) ==
    /\ IsTable(conn') /\ cut' = cut \cup C
    /\ \A d \in Conn, x \in Node \ {n} : conn'[d][x] = conn[d][x]
    /\ \A d \in Conn :
          /\ EndStep(d, n, C) /\ conn'[d][n].phase = conn[d][n].phase
          /\ conn'[d][n].sending # "no" <=> conn[d][n].sending # "no"
          /\ d # c => conn'[d][n].receiving = conn[d][n].receiving
    /\ conn'[c][n].receiving = TRUE

LEMMA BurstingConns ==
    ASSUME IInv, NEW n \in Node, NEW c \in Conn, NEW C \in SUBSET Conn,
           CloseAll(C, n, [d \in Conn |->
               [conn[d] EXCEPT ![n] = OnBursting(@, store[n], d = c)]]),
           \A d \in C : conn[d][n].phase = "handled",
           conn[c][n].phase = "handled"
    PROVE  Bursts(c, n, C)
<1>1. PICK st : st = store[n]
  OBVIOUS
<1>2. PICK cs : cs = [d \in Conn |->
                         [conn[d] EXCEPT ![n] = OnBursting(conn[d][n], st, d = c)]]
  OBVIOUS
<1>3. CloseAll(C, n, cs)
  BY <1>1, <1>2
<1>4. ASSUME NEW d \in Conn
      PROVE  /\ cs[d] = [x \in Node |-> cs[d][x]]
             /\ \A x \in Node \ {n} : cs[d][x] = conn[d][x]
             /\ cs[d][n] = OnBursting(conn[d][n], st, d = c)
  <2>1. conn[d] = [x \in Node |-> conn[d][x]]
    BY DEF IInv, TypeOK, IsTable
  <2>2. PICK row : row = conn[d] /\ row = [x \in Node |-> row[x]]
    BY <2>1
  <2>3. PICK g : g = OnBursting(row[n], st, d = c)
    OBVIOUS
  <2>4. cs[d] = [conn[d] EXCEPT ![n] = OnBursting(conn[d][n], st, d = c)]
    BY <1>2
  <2>5. cs[d] = [row EXCEPT ![n] = g]
    BY <2>2, <2>3, <2>4
  <2>6. cs[d] = [x \in Node |-> IF x = n THEN g ELSE row[x]]
    BY <2>2, <2>5
  <2> QED
    BY <2>2, <2>3, <2>6
<1>5. IsTable(cs)
  <2>1. cs = [d \in Conn |-> cs[d]]
    BY <1>2
  <2> QED
    BY <1>4, <2>1 DEF IsTable
<1>6. IsTable(conn')
  BY <1>3, <1>5, CloseAllIs
<1>7. cut' = cut \cup C
  BY <1>3, <1>5, CloseAllIs
<1>8. \A d \in Conn, x \in Node :
         conn'[d][x] = IF d \in C /\ x = n THEN Closed(cs[d][n]) ELSE cs[d][x]
  BY <1>3, <1>5, CloseAllIs
<1>9. \A d \in Conn, x \in Node \ {n} : conn'[d][x] = conn[d][x]
  <2> SUFFICES ASSUME NEW d \in Conn, NEW x \in Node \ {n}
               PROVE  conn'[d][x] = conn[d][x]
    OBVIOUS
  <2>1. conn'[d][x] = cs[d][x]
    BY <1>8
  <2>2. cs[d][x] = conn[d][x]
    BY <1>4
  <2> QED
    BY <2>1, <2>2
<1>10. ASSUME NEW d \in Conn
       PROVE  /\ EndStep(d, n, C) /\ conn'[d][n].phase = conn[d][n].phase
              /\ conn'[d][n].sending # "no" <=> conn[d][n].sending # "no"
              /\ d # c => conn'[d][n].receiving = conn[d][n].receiving
              /\ d = c => conn'[d][n].receiving = TRUE
  <2>1. PICK f : f = conn[d][n]
    OBVIOUS
  <2>2. IsEnd(f) /\ EndOK(d, n)
    BY <2>1 DEF IInv, TypeOK, EndsOK
  <2>3. PICK here \in BOOLEAN : here <=> d = c
    OBVIOUS
  <2>4. PICK g : g = cs[d][n]
    OBVIOUS
  <2>5. g = OnBursting(f, st, here)
    <3>1. g = OnBursting(f, st, d = c)
      BY <1>4, <2>1, <2>4
    <3>2. here = (d = c)
      BY <2>3
    <3> QED
      BY <3>1, <3>2
  <2>6. /\ IsEnd(g) /\ g.closed = f.closed /\ g.phase = f.phase /\ g.node = f.node
        /\ (g.sending # "no" <=> f.sending # "no")
        /\ g.receiving \in BOOLEAN /\ (g.receiving <=> f.receiving \/ here)
        /\ f.sending = "no" /\ ~here => g = f
    BY <2>2, <2>5, BurstEndIs
  <2>7. /\ f.receiving \in BOOLEAN /\ f.closed \in BOOLEAN
        /\ f.receiving => f.phase = "handled"
        /\ f.phase = "none" => f.sending = "no"
    BY <2>1, <2>2 DEF IsEnd, EndOK, NoFollowConn
  <2>8. d = c => f.phase = "handled"
    BY <2>1
  <2>9. CASE d \in C
    <3>1. conn'[d][n] = Closed(g) /\ f.phase = "handled"
      BY <1>8, <2>1, <2>4, <2>9
    <3>2. PICK k : k = Closed(g)
      OBVIOUS
    <3>3. /\ IsEnd(k) /\ k.closed /\ k.phase = g.phase /\ k.node = g.node
          /\ k.receiving = g.receiving /\ k.sending = g.sending
      BY <2>6, <3>2, ClosedEnd
    <3>4. EndStep(d, n, C)
      BY <2>1, <2>6, <2>9, <3>1, <3>2, <3>3 DEF EndStep
    <3> QED
      BY <2>1, <2>3, <2>6, <2>7, <3>1, <3>2, <3>3, <3>4
  <2>10. CASE d \notin C
    <3>1. conn'[d][n] = g
      BY <1>8, <2>4, <2>10
    <3>2. f.phase = "none" => g = f
      BY <2>3, <2>6, <2>7, <2>8
    <3>3. g.receiving => g.phase = "handled"
      BY <2>3, <2>6, <2>7, <2>8
    <3>4. EndStep(d, n, C)
      BY <2>1, <2>6, <2>7, <2>10, <3>1, <3>2, <3>3 DEF EndStep
    <3> QED
      BY <2>1, <2>3, <2>6, <2>7, <3>1, <3>4
  <2> QED
    BY <2>9, <2>10
<1> QED
  BY <1>6, <1>7, <1>9, <1>10 DEF Bursts

LEMMA BurstingHandled ==
    ASSUME IInv, NEW n \in Node, NEW c \in Conn, HandleBursting(c, n)
    PROVE  IInv'
<1>1. PICK C \in SUBSET Conn : C = {d \in Used(n) \ {c} : ~conn[d][n].receiving}
  <2>1. Used(n) \subseteq Conn
    BY UsedIs
  <2> QED
    BY <2>1
<1>2. Received(c, n, "Bursting")
  BY DEF HandleBursting
<1>3. /\ conn[c][n].phase = "handled" /\ queue[c][n] # <<>> /\ n \notin crashed
      /\ Head(queue[c][n]).type = "Bursting"
  BY <1>2, Receives
<1>4. \A d \in C : conn[d][n].phase = "handled"
  BY <1>1, UsedIs
<1>5. CloseAll(C, n, [d \in Conn |->
           [conn[d] EXCEPT ![n] = OnBursting(@, store[n], d = c)]])
  BY <1>1 DEF HandleBursting
<1>6. /\ IsTable(conn') /\ cut' = cut \cup C
      /\ \A d \in Conn, x \in Node \ {n} : conn'[d][x] = conn[d][x]
      /\ \A d \in Conn :
            /\ EndStep(d, n, C) /\ conn'[d][n].phase = conn[d][n].phase
            /\ conn'[d][n].sending # "no" <=> conn[d][n].sending # "no"
            /\ d # c => conn'[d][n].receiving = conn[d][n].receiving
      /\ conn'[c][n].receiving = TRUE
  <2>1. Bursts(c, n, C)
    BY <1>3, <1>4, <1>5, BurstingConns
  <2> QED
    BY <2>1 DEF Bursts
<1>7. PICK q : q = Taken(c, n)
  OBVIOUS
<1>8. /\ IsTable(q) /\ q[c][n] = Tail(queue[c][n])
      /\ \A d \in Conn, x \in Node : d # c \/ x # n => q[d][x] = queue[d][x]
  <2>1. IsTable(queue)
    BY DEF IInv, TypeOK
  <2> QED
    BY <1>7, <2>1, TakenIs
<1>9. /\ IsTable(queue')
      /\ \A d \in Conn, x \in Node :
            queue'[d][x] = IF d \in C /\ x = n THEN <<>> ELSE q[d][x]
  <2>1. queue' = Emptied(q, C, n)
    BY <1>1, <1>7 DEF HandleBursting
  <2>2. PICK u : u = Emptied(q, C, n)
    OBVIOUS
  <2>3. /\ IsTable(u)
        /\ \A d \in Conn, x \in Node :
              u[d][x] = IF d \in C /\ x = n THEN <<>> ELSE q[d][x]
    BY <1>8, <2>2, EmptiedIs
  <2> QED
    BY <2>1, <2>2, <2>3
<1>10. ASSUME NEW d \in Conn \ C PROVE Transmission(d, n)
  <2>1. \A x \in Node \ {n} : queue'[d][x] = queue[d][x]
    BY <1>8, <1>9
  <2>2. \A x \in Node : queue[d][x] \o <<>> = queue[d][x]
    <3>1. \A x \in Node : IsQueue(queue[d][x])
      BY DEF IInv, TypeOK
    <3> QED
      BY <3>1, ConcatNothing DEF IsQueue
  <2>3. IsQueue(<<>>)
    BY QueueEmpty
  <2>4. Sends(conn[d][n].sending # "no", <<>>, conn'[d][n].sending # "no")
    <3>1. Plain(<<>>, TRUE) /\ Plain(<<>>, FALSE)
      BY PlainEmpty
    <3>2. conn'[d][n].sending # "no" <=> conn[d][n].sending # "no"
      BY <1>6
    <3> QED
      BY <3>1, <3>2 DEF Sends, Plain
  <2>5. CASE d # c
    <3>1. queue'[d][n] = queue[d][n] /\ conn'[d][n].receiving = conn[d][n].receiving
      BY <1>6, <1>8, <1>9, <2>5
    <3> QED
      BY <2>1, <2>2, <2>3, <2>4, <3>1, SendsNothing
  <2>6. CASE d = c
    <3>1. queue'[d][n] = Tail(queue[d][n])
      BY <1>8, <1>9, <2>6
    <3>2. conn'[d][n].receiving = AfterMessage(conn[d][n].receiving, Head(queue[d][n]))
      BY <1>3, <1>6, <2>6 DEF AfterMessage
    <3>3. queue[d][n] # <<>>
      BY <1>3, <2>6
    <3>4. \A x \in Node \ {n} : queue'[d][x] =
              IF d \notin cut /\ conn[d][n].phase # "none" /\ x = conn[d][n].node
              THEN queue[d][x] \o <<>> ELSE queue[d][x]
      BY <2>1, <2>2
    <3> QED
      BY <2>3, <2>4, <3>1, <3>2, <3>3, <3>4 DEF Transmission
  <2> QED
    BY <2>5, <2>6
<1>11. HandleStep(n, C)
  <2>1. \A d \in C : /\ queue'[d][n] = <<>>
                     /\ \A x \in Node \ {n} : queue'[d][x] = queue[d][x]
    BY <1>8, <1>9
  <2> QED
    BY <1>6, <1>9, <1>10, <2>1 DEF HandleStep
<1>12. StoreStep(n) /\ store'[n].degraded
  <2>1. PICK st2 : st2 = Degrade(store[n])
    OBVIOUS
  <2>2. IsStore(st2) /\ HasApplied(st2) /\ st2.degraded
    <3>1. PICK st : st = store[n] /\ IsStore(st)
      BY DEF IInv, TypeOK
    <3> QED
      BY <2>1, <3>1, DegradeStore
  <2>3. store' = [store EXCEPT ![n] = st2] /\ crashed' = crashed
    BY <2>1 DEF HandleBursting
  <2>4. StoreStep(n) /\ store'[n] = st2
    BY <2>2, <2>3, StoreIs
  <2> QED
    BY <2>2, <2>4
<1>13. SameUse(n)
  BY <1>6 DEF HandleBursting, SameUse
<1>14. InUse' /\ connections' \in [Node -> [Node -> Conn \cup {NoConn}]]
  BY <1>11, <1>13, SameInUse
<1>15. Alone(n)'
  <2>1. ~conn[c][n].closed /\ Alone(n)
    BY <1>3 DEF IInv, EndsOK, EndOK
  <2>2. \A d \in Conn : conn[d][n].closed => conn'[d][n].closed
    BY <1>6 DEF EndStep
  <2>3. \A d \in Conn \ {c} : conn[d][n].receiving => conn[d][n].closed
    BY <1>3, <2>1 DEF Alone
  <2>4. ASSUME NEW d \in Conn \ {c}, conn'[d][n].phase = "handled"
        PROVE  conn'[d][n].closed
    <3>1. conn[d][n].phase = "handled"
      BY <1>6, <2>4
    <3>2. CASE conn[d][n].closed
      BY <2>2, <3>2
    <3>3. CASE ~conn[d][n].closed
      <4>1. d \in Used(n)
        <5>1. connections[n][conn[d][n].node] = d /\ conn[d][n].node \in Node
          BY <3>1, <3>3 DEF IInv, InUse, EndsOK, EndOK
        <5>2. d # NoConn
          BY FollowAssumption
        <5> QED
          BY <5>1, <5>2 DEF Used
      <4>2. d \in C
        BY <1>1, <2>3, <3>3, <4>1
      <4> QED
        BY <1>6, <4>2 DEF EndStep
    <3> QED
      BY <3>2, <3>3
  <2>5. ASSUME NEW d \in Conn \ {c} PROVE ~(conn'[d][n].receiving /\ ~conn'[d][n].closed)
    BY <1>6, <2>2, <2>3
  <2> QED
    BY <1>12, <2>4, <2>5 DEF Alone
<1> QED
  BY <1>11, <1>12, <1>14, <1>15, StepKeeps

-----------------------------------------------------------------------------
(* Connections that come into use.                                         *)
LEMMA OnlyOneWelcome ==
    ASSUME IInv, NEW c, NEW n \in Node, ~Unwelcome(c, n), NEW d \in Conn
    PROVE  ~(conn[d][n].receiving /\ ~conn[d][n].closed)
<1> SUFFICES ASSUME conn[d][n].receiving, ~conn[d][n].closed PROVE FALSE
  OBVIOUS
<1>1. store[n].degraded /\ conn[d][n].phase = "handled" /\ conn[d][n].node \in Node
  BY DEF IInv, Alone, EndsOK, EndOK
<1>2. connections[n][conn[d][n].node] = d
  BY <1>1 DEF IInv, InUse
<1>3. d # NoConn
  BY FollowAssumption
<1>4. d \in Used(n)
  BY <1>1, <1>2, <1>3 DEF Used
<1> QED
  BY <1>1, <1>4 DEF Unwelcome

LEMMA AddsConn ==
    ASSUME IInv, NEW n \in Node, NEW c \in Conn, AddConn(c, n)
    PROVE  IInv'
<1>1. PICK f : f = conn[c][n]
  OBVIOUS
<1>2. IsEnd(f) /\ EndOK(c, n) /\ f.phase = "received" /\ n \notin crashed
  BY <1>1 DEF AddConn, ReceivedConn, IInv, TypeOK, EndsOK
<1>3. PICK m \in Node \ {n} : m = f.node
  BY <1>1, <1>2 DEF EndOK
<1>4. PICK C \in SUBSET Conn : C = {connections[n][m]} \ {NoConn}
  <2>1. connections[n][m] \in Conn \cup {NoConn}
    BY DEF IInv, TypeOK
  <2>2. {connections[n][m]} \ {NoConn} \subseteq Conn
    BY <2>1
  <2> QED
    BY <2>2
<1>5. \A d \in C : conn[d][n].phase = "handled" /\ conn[d][n].node = m
  BY <1>4 DEF IInv, InUse
<1>6. c \notin C
  BY <1>1, <1>2, <1>5
<1>7. PICK g : g = [f EXCEPT !.phase = "handled"]
  OBVIOUS
<1>8. /\ IsEnd(g) /\ g.closed = f.closed /\ g.phase = "handled" /\ g.node = f.node
      /\ g.receiving = f.receiving /\ g.sending = f.sending
  <2>1. f = [phase |-> f.phase, node |-> f.node, outgoing |-> f.outgoing,
            closed |-> f.closed, sending |-> f.sending, first |-> f.first,
            sent |-> f.sent, frozen |-> f.frozen, receiving |-> f.receiving,
            waiting |-> f.waiting, offers |-> f.offers]
    BY <1>2 DEF IsEnd
  <2>2. g = [phase |-> "handled", node |-> f.node, outgoing |-> f.outgoing,
            closed |-> f.closed, sending |-> f.sending, first |-> f.first,
            sent |-> f.sent, frozen |-> f.frozen, receiving |-> f.receiving,
            waiting |-> f.waiting, offers |-> f.offers]
    BY <1>7, <2>1
  <2>3. IsEnd(g)
    BY <1>2, <2>2 DEF IsEnd
  <2> QED
    BY <2>2, <2>3
<1>9. PICK t, cs : t = conn /\ cs = WithEntry(t, c, n, g)
  OBVIOUS
<1>10. /\ IsTable(cs) /\ cs[c][n] = g
       /\ \A d \in Conn, x \in Node : d # c \/ x # n => cs[d][x] = t[d][x]
  <2>1. IsTable(t)
    BY <1>9 DEF IInv, TypeOK
  <2> QED
    BY <1>9, <2>1, TableExcept
<1>11. CloseAll(C, n, cs)
  <2>1. cs = [conn EXCEPT ![c][n].phase = "handled"]
    BY <1>1, <1>7, <1>9 DEF WithEntry
  <2> QED
    BY <1>1, <1>3, <1>4, <2>1 DEF AddConn
<1>12. IsTable(conn')
  BY <1>10, <1>11, CloseAllIs
<1>13. cut' = cut \cup C
  BY <1>10, <1>11, CloseAllIs
<1>14. \A d \in Conn, x \in Node :
          conn'[d][x] = IF d \in C /\ x = n THEN Closed(cs[d][n]) ELSE cs[d][x]
  BY <1>10, <1>11, CloseAllIs
<1>15. /\ conn'[c][n] = g
       /\ \A d \in C : conn'[d][n] = Closed(conn[d][n])
       /\ \A d \in Conn \ C : d # c => conn'[d][n] = conn[d][n]
       /\ \A d \in Conn, x \in Node \ {n} : conn'[d][x] = conn[d][x]
  BY <1>6, <1>9, <1>10, <1>14
<1>16. ASSUME NEW d \in C
       PROVE  /\ conn'[d][n].closed /\ conn'[d][n].phase = "handled"
              /\ conn'[d][n].node = m /\ EndStep(d, n, C)
              /\ conn'[d][n].receiving = conn[d][n].receiving
  <2>1. IsEnd(conn[d][n]) /\ d \in Conn
    BY DEF IInv, TypeOK
  <2>2. PICK h, k : h = conn[d][n] /\ k = Closed(h)
    OBVIOUS
  <2>3. /\ IsEnd(k) /\ k.closed /\ k.phase = h.phase /\ k.node = h.node
        /\ k.receiving = h.receiving /\ k.sending = h.sending
    BY <2>1, <2>2, ClosedEnd
  <2>4. conn'[d][n] = k
    BY <1>15, <2>2
  <2> QED
    BY <1>5, <2>1, <2>2, <2>3, <2>4 DEF EndStep
<1>17. PICK q : q = Emptied(queue, C, n)
  OBVIOUS
<1>18. /\ IsTable(q)
       /\ \A d \in Conn, x \in Node :
             q[d][x] = IF d \in C /\ x = n THEN <<>> ELSE queue[d][x]
  <2>1. PICK q0 : q0 = queue /\ IsTable(q0)
    BY DEF IInv, TypeOK
  <2>2. q = Emptied(q0, C, n)
    BY <1>17, <2>1
  <2>3. /\ IsTable(q)
        /\ \A d \in Conn, x \in Node :
              q[d][x] = IF d \in C /\ x = n THEN <<>> ELSE q0[d][x]
    BY <2>1, <2>2, EmptiedIs
  <2> QED
    BY <2>1, <2>3
<1>19. PICK ms : ms = <<Position(n)>>
  OBVIOUS
<1>20. IsQueue(ms) /\ Plain(ms, FALSE)
  <2>1. PICK msg : msg = Position(n)
    OBVIOUS
  <2>2. IsStore(store[n])
    BY DEF IInv, TypeOK
  <2>3. IsPlain(msg)
    BY <2>1, <2>2 DEF Position, IsPlain, IsMessage, Marks, OfBurst, IsStore
  <2> QED
    BY <1>19, <2>1, <2>3, PlainOne
<1>21. /\ IsTable(queue')
       /\ \A d \in Conn, x \in Node :
             queue'[d][x] = IF d = c /\ x = m /\ c \notin cut
                            THEN q[d][x] \o ms ELSE q[d][x]
  <2>1. PICK u : u = Sent(q, c, n, ms)
    OBVIOUS
  <2>2. conn[c][n].node \in Node
    BY <1>1, <1>3
  <2>3. /\ IsTable(u)
        /\ \A d \in Conn, x \in Node :
              u[d][x] = IF d = c /\ x = conn[c][n].node /\ c \notin cut
                        THEN q[d][x] \o ms ELSE q[d][x]
    BY <1>18, <2>1, <2>2, SentIs
  <2>4. queue' = u
    BY <1>1, <1>3, <1>4, <1>17, <1>19, <2>1 DEF AddConn
  <2> QED
    BY <1>1, <1>3, <2>3, <2>4
<1>22. \A d \in C : /\ queue'[d][n] = <<>>
                    /\ \A x \in Node \ {n} : queue'[d][x] = queue[d][x]
  BY <1>6, <1>18, <1>21
<1>23. EndStep(c, n, C)
  <2>1. ~f.receiving /\ f.closed \in BOOLEAN
    BY <1>1, <1>2 DEF EndOK, IsEnd
  <2> QED
    BY <1>1, <1>2, <1>6, <1>8, <1>15, <2>1 DEF EndStep
<1>24. Transmission(c, n)
  <2>1. queue'[c][n] = queue[c][n] /\ conn'[c][n].receiving = conn[c][n].receiving
    BY <1>1, <1>3, <1>6, <1>8, <1>15, <1>18, <1>21
  <2>2. Sends(conn[c][n].sending # "no", ms, conn'[c][n].sending # "no")
    BY <1>1, <1>8, <1>15, <1>20 DEF Sends, Plain
  <2>3. \A x \in Node \ {n} : queue'[c][x] =
            IF c \notin cut /\ conn[c][n].phase # "none" /\ x = conn[c][n].node
            THEN queue[c][x] \o ms ELSE queue[c][x]
    BY <1>1, <1>2, <1>3, <1>6, <1>18, <1>21
  <2> QED
    BY <1>20, <2>1, <2>2, <2>3 DEF Transmission
<1>25. ASSUME NEW d \in Conn \ C, d # c PROVE Transmission(d, n) /\ EndStep(d, n, C)
  <2>1. \A x \in Node : queue'[d][x] = queue[d][x]
    BY <1>18, <1>21, <1>25
  <2>2. conn'[d][n] = conn[d][n]
    BY <1>15, <1>25
  <2> QED
    BY <2>1, <2>2, Quiet
<1>26. HandleStep(n, C)
  <2>1. \A d \in Conn : EndStep(d, n, C)
    BY <1>16, <1>23, <1>25
  <2>2. \A d \in Conn \ C : Transmission(d, n)
    BY <1>24, <1>25
  <2> QED
    BY <1>12, <1>13, <1>15, <1>21, <1>22, <2>1, <2>2 DEF HandleStep
<1>27. StoreStep(n)
  BY SameStore DEF AddConn
<1>28. /\ connections' = [connections EXCEPT ![n][m] = c]
       /\ connections \in [Node -> [Node -> Conn \cup {NoConn}]]
  BY <1>1, <1>3 DEF AddConn, IInv, TypeOK
<1>29. connections' \in [Node -> [Node -> Conn \cup {NoConn}]]
  BY <1>28
<1>30. /\ connections'[n][m] = c
       /\ \A x, y \in Node : x # n \/ y # m => connections'[x][y] = connections[x][y]
  BY <1>28
<1>31. InUse'
  <2>1. ASSUME NEW x \in Node, NEW y \in Node, connections'[x][y] # NoConn
        PROVE  /\ conn'[connections'[x][y]][x].phase = "handled"
               /\ conn'[connections'[x][y]][x].node = y
    <3>1. CASE x = n /\ y = m
      BY <1>3, <1>8, <1>15, <1>30, <3>1
    <3>2. CASE x # n \/ y # m
      <4>1. PICK d \in Conn : d = connections[x][y]
        BY <1>28, <1>30, <2>1, <3>2
      <4>2. conn[d][x].phase = "handled" /\ conn[d][x].node = y
        BY <1>30, <2>1, <3>2, <4>1 DEF IInv, InUse
      <4>3. conn'[d][x].phase = "handled" /\ conn'[d][x].node = y
        <5>1. CASE x # n
          BY <1>15, <4>2, <5>1
        <5>2. CASE x = n /\ d \in C
          BY <1>5, <1>16, <4>2, <5>2
        <5>3. CASE x = n /\ d \notin C
          <6>1. d # c
            BY <1>1, <1>2, <4>2, <5>3
          <6> QED
            BY <1>15, <4>2, <5>3, <6>1
        <5> QED
          BY <5>1, <5>2, <5>3
      <4> QED
        BY <1>30, <3>2, <4>1, <4>3
    <3> QED
      BY <3>1, <3>2
  <2>2. ASSUME NEW d \in Conn, NEW x \in Node,
               conn'[d][x].phase = "handled", ~conn'[d][x].closed
        PROVE  connections'[x][conn'[d][x].node] = d
    <3>1. CASE x # n
      <4>1. conn'[d][x] = conn[d][x]
        BY <1>15, <3>1
      <4>2. connections[x][conn[d][x].node] = d /\ conn[d][x].node \in Node
        BY <2>2, <4>1 DEF IInv, InUse, EndsOK, EndOK
      <4> QED
        BY <1>30, <3>1, <4>1, <4>2
    <3>2. CASE x = n /\ d = c
      BY <1>3, <1>8, <1>15, <1>30, <3>2
    <3>3. CASE x = n /\ d # c
      <4>1. d \notin C
        BY <1>16, <2>2, <3>3
      <4>2. conn'[d][n] = conn[d][n]
        BY <1>15, <3>3, <4>1
      <4>3. connections[n][conn[d][n].node] = d /\ conn[d][n].node \in Node
        BY <2>2, <3>3, <4>2 DEF IInv, InUse, EndsOK, EndOK
      <4>4. d # NoConn
        BY FollowAssumption
      <4>5. conn[d][n].node # m
        BY <1>4, <4>1, <4>3, <4>4
      <4> QED
        BY <1>30, <3>3, <4>2, <4>3, <4>5
    <3> QED
      BY <3>1, <3>2, <3>3
  <2> QED
    BY <2>1, <2>2 DEF InUse
<1>32. Alone(n)'
  <2>1. ~Unwelcome(c, n)
    BY DEF AddConn
  <2>2. ASSUME NEW d \in Conn PROVE ~(conn'[d][n].receiving /\ ~conn'[d][n].closed)
    <3>1. ~(conn[d][n].receiving /\ ~conn[d][n].closed)
      BY <2>1, OnlyOneWelcome
    <3>2. CASE d \in C
      BY <1>16, <3>2
    <3>3. CASE d = c
      BY <1>1, <1>8, <1>15, <3>1, <3>3
    <3>4. CASE d \notin C /\ d # c
      BY <1>15, <3>1, <3>4
    <3> QED
      BY <3>2, <3>3, <3>4
  <2> QED
    BY <2>2 DEF Alone
<1> QED
  BY <1>26, <1>27, <1>29, <1>31, <1>32, StepKeeps

-----------------------------------------------------------------------------
(* Connections that go.                                                    *)
LEMMA NoEndIs ==
    /\ IsEnd(NoFollowConn) /\ NoFollowConn.phase = "none"
    /\ ~NoFollowConn.closed /\ ~NoFollowConn.receiving
    /\ NoFollowConn.sending = "no" /\ NoFollowConn.waiting = <<>>
BY DEF NoFollowConn, IsEnd, Sendings

(* c has gone at n: what that leaves of it.                                *)
HasGone(c, n) ==
    /\ IsTable(conn') /\ IsTable(queue') /\ cut' \subseteq Conn
    /\ conn'[c][n] = NoFollowConn /\ queue'[c][n] = <<>>
    /\ \A d \in Conn, x \in Node : d # c \/ x # n => conn'[d][x] = conn[d][x]
    /\ \A d \in Conn, x \in Node : d # c => queue'[d][x] = queue[d][x]
    /\ \A d \in Conn : d # c => (d \in cut' <=> d \in cut)
    /\ \A x \in Node \ {n} :
          IF conn[c][x].phase = "none" THEN queue'[c][x] = <<>>
          ELSE c \in cut' /\ queue'[c][x] = queue[c][x]

LEMMA GoneIs ==
    ASSUME IInv, NEW n \in Node, NEW c \in Conn, Gone(c, n, queue)
    PROVE  HasGone(c, n)
<1>1. PICK last : last = (\A m \in Node \ {n} : conn[c][m].phase = "none")
  OBVIOUS
<1>2. /\ conn' = WithEntry(conn, c, n, NoFollowConn)
      /\ cut' = IF last THEN cut \ {c} ELSE cut \cup {c}
      /\ queue' = [queue EXCEPT ![c] =
                      IF last THEN [m \in Node |-> <<>>]
                              ELSE [@ EXCEPT ![n] = <<>>]]
  BY <1>1 DEF Gone, WithEntry
<1>3. IsTable(conn) /\ IsTable(queue) /\ cut \subseteq Conn
  BY DEF IInv, TypeOK
<1>4. PICK t, u : t = conn /\ u = WithEntry(t, c, n, NoFollowConn)
  OBVIOUS
<1>5. /\ IsTable(u) /\ u[c][n] = NoFollowConn
      /\ \A d \in Conn, x \in Node : d # c \/ x # n => u[d][x] = t[d][x]
  BY <1>3, <1>4, TableExcept
<1>6. /\ IsTable(conn') /\ conn'[c][n] = NoFollowConn
      /\ \A d \in Conn, x \in Node : d # c \/ x # n => conn'[d][x] = conn[d][x]
  BY <1>2, <1>4, <1>5
<1>7. \A x \in Node : conn[c][x].phase = "none" => queue[c][x] = <<>>
  BY DEF IInv, EndsOK, EndOK
<1>8. CASE last
  <2>1. queue' = [queue EXCEPT ![c] = [m \in Node |-> <<>>]]
    BY <1>2, <1>8
  <2>2. IsTable(queue') /\ \A x \in Node : queue'[c][x] = <<>>
    BY <1>3, <2>1 DEF IsTable
  <2>3. \A d \in Conn, x \in Node : d # c => queue'[d][x] = queue[d][x]
    BY <1>3, <2>1 DEF IsTable
  <2>4. \A x \in Node \ {n} : conn[c][x].phase = "none"
    BY <1>1, <1>8
  <2>5. cut' \subseteq Conn /\ \A d \in Conn : d # c => (d \in cut' <=> d \in cut)
    BY <1>2, <1>3, <1>8
  <2> QED
    BY <1>6, <2>2, <2>3, <2>4, <2>5 DEF HasGone
<1>9. CASE ~last
  <2>1. PICK q, r : q = queue /\ r = WithEntry(q, c, n, <<>>)
    OBVIOUS
  <2>2. queue' = r
    BY <1>2, <1>3, <1>9, <2>1 DEF WithEntry, IsTable
  <2>3. /\ IsTable(r) /\ r[c][n] = <<>>
        /\ \A d \in Conn, x \in Node : d # c \/ x # n => r[d][x] = q[d][x]
    BY <1>3, <2>1, TableExcept
  <2>4. cut' \subseteq Conn /\ c \in cut' /\ \A d \in Conn : d # c => (d \in cut' <=> d \in cut)
    BY <1>2, <1>3, <1>9
  <2> QED
    BY <1>6, <1>7, <2>1, <2>2, <2>3, <2>4 DEF HasGone
<1> QED
  BY <1>8, <1>9

LEMMA GoneKeeps ==
    ASSUME IInv, NEW n \in Node, NEW c \in Conn, HasGone(c, n),
           store' = store, crashed' = crashed,
           connections' \in [Node -> [Node -> Conn \cup {NoConn}]], InUse'
    PROVE  IInv'
<1>1. /\ conn'[c][n] = NoFollowConn /\ queue'[c][n] = <<>>
      /\ \A d \in Conn, x \in Node : d # c \/ x # n => conn'[d][x] = conn[d][x]
      /\ \A d \in Conn, x \in Node : d # c => queue'[d][x] = queue[d][x]
      /\ \A d \in Conn : d # c => (d \in cut' <=> d \in cut)
      /\ \A x \in Node \ {n} :
            IF conn[c][x].phase = "none" THEN queue'[c][x] = <<>>
            ELSE c \in cut' /\ queue'[c][x] = queue[c][x]
  BY DEF HasGone
<1>2. /\ IsTable(conn') /\ IsTable(queue') /\ cut' \subseteq Conn
  BY DEF HasGone
<1>3. \A d \in Conn, x \in Node : \/ conn'[d][x] = conn[d][x]
                                  \/ d = c /\ x = n
  BY <1>1
<1>4. \A d \in Conn, x \in Node : queue'[d][x] \in {queue[d][x], <<>>}
  BY <1>1
<1>5. TypeOK'
  <2>1. \A d \in Conn, x \in Node : IsEnd(conn'[d][x])
    BY <1>1, <1>3, NoEndIs DEF IInv, TypeOK
  <2>2. \A d \in Conn, x \in Node : IsQueue(queue'[d][x])
    BY <1>4, QueueEmpty DEF IInv, TypeOK
  <2> QED
    BY <1>2, <2>1, <2>2 DEF IInv, TypeOK
<1>6. ASSUME NEW d \in Conn, NEW x \in Node PROVE EndOK(d, x)'
  <2>1. EndOK(d, x)
    BY DEF IInv, EndsOK
  <2>2. CASE d = c /\ x = n
    BY <1>1, <2>2, NoEndIs DEF EndOK
  <2>3. CASE d # c
    <3>1. /\ conn'[d][x] = conn[d][x] /\ queue'[d][x] = queue[d][x]
          /\ (d \in cut' <=> d \in cut)
          /\ \A y \in Node : conn'[d][y] = conn[d][y]
      BY <1>1, <2>3
    <3> QED
      BY <2>1, <3>1 DEF EndOK
  <2>4. CASE d = c /\ x # n
    <3>1. conn'[d][x] = conn[d][x]
      BY <1>1, <2>4
    <3>2. CASE conn[d][x].phase = "none"
      <4>1. conn'[d][x] = NoFollowConn /\ queue'[d][x] = <<>>
        BY <1>1, <2>1, <2>4, <3>1, <3>2 DEF EndOK
      <4> QED
        BY <4>1, NoEndIs DEF EndOK
    <3>3. CASE conn[d][x].phase # "none"
      <4>1. d \in cut' /\ queue'[d][x] = queue[d][x]
        BY <1>1, <2>4, <3>3
      <4> QED
        BY <2>1, <3>1, <3>3, <4>1 DEF EndOK
    <3> QED
      BY <3>2, <3>3
  <2> QED
    BY <2>2, <2>3, <2>4
<1>7. ASSUME NEW x \in Node PROVE Alone(x)'
  <2> SUFFICES ASSUME NEW d \in Conn, conn'[d][x].receiving, ~conn'[d][x].closed
               PROVE  /\ store'[x].degraded
                      /\ \A k \in Conn \ {d} :
                            conn'[k][x].phase = "handled" => conn'[k][x].closed
    BY DEF Alone
  <2>1. conn'[d][x] = conn[d][x]
    BY <1>1, <1>3, NoEndIs
  <2>2. /\ store[x].degraded
        /\ \A k \in Conn \ {d} : conn[k][x].phase = "handled" => conn[k][x].closed
    BY <2>1 DEF IInv, Alone
  <2>3. ASSUME NEW k \in Conn \ {d}, conn'[k][x].phase = "handled"
        PROVE  conn'[k][x].closed
    <3>1. conn'[k][x] = conn[k][x]
      BY <1>1, <1>3, <2>3, NoEndIs
    <3> QED
      BY <2>2, <2>3, <3>1
  <2> QED
    BY <2>2, <2>3
<1>8. StoresOK'
  BY SameStore, StepStores
<1>9. ASSUME NEW d \in Conn, NEW x \in Node PROVE FramedAt(d, x)'
  <2>1. FramedAt(d, x) /\ EndOK(d, x)
    BY DEF IInv, EndsOK
  <2>2. CASE d = c /\ x = n
    BY <1>1, <2>2, NoEndIs DEF FramedAt
  <2>3. CASE d # c
    <3>1. /\ conn'[d][x] = conn[d][x] /\ queue'[d][x] = queue[d][x]
          /\ (d \in cut' <=> d \in cut)
          /\ \A y \in Node : conn'[d][y] = conn[d][y]
      BY <1>1, <2>3
    <3>2. conn[d][x].phase # "none" => conn[d][x].node \in Node
      BY <2>1 DEF EndOK
    <3> QED
      BY <2>1, <3>1, <3>2 DEF FramedAt
  <2>4. CASE d = c /\ x # n
    <3>1. conn'[d][x] = conn[d][x]
      BY <1>1, <2>4
    <3>2. conn[d][x].phase # "none" => d \in cut' /\ queue'[d][x] = queue[d][x]
      BY <1>1, <2>4
    <3> QED
      BY <2>1, <3>1, <3>2 DEF FramedAt
  <2> QED
    BY <2>2, <2>3, <2>4
<1> QED
  BY <1>5, <1>6, <1>7, <1>8, <1>9 DEF IInv, EndsOK

LEMMA ConnRejected ==
    ASSUME IInv, NEW n \in Node, NEW c \in Conn, RejectConn(c, n)
    PROVE  IInv'
<1>1. HasGone(c, n) /\ connections' = connections
  BY GoneIs DEF RejectConn
<1>2. conn[c][n].phase = "received"
  BY DEF RejectConn, ReceivedConn
<1>3. /\ conn'[c][n] = NoFollowConn
      /\ \A d \in Conn, x \in Node : d # c \/ x # n => conn'[d][x] = conn[d][x]
  BY <1>1 DEF HasGone
<1>4. connections \in [Node -> [Node -> Conn \cup {NoConn}]]
  BY DEF IInv, TypeOK
<1>5. InUse'
  <2>1. ASSUME NEW x \in Node, NEW y \in Node, connections'[x][y] # NoConn
        PROVE  /\ conn'[connections'[x][y]][x].phase = "handled"
               /\ conn'[connections'[x][y]][x].node = y
    <3>1. PICK d \in Conn : d = connections[x][y]
      BY <1>1, <1>4, <2>1
    <3>2. conn[d][x].phase = "handled" /\ conn[d][x].node = y
      BY <1>1, <2>1, <3>1 DEF IInv, InUse
    <3> QED
      BY <1>1, <1>2, <1>3, <3>1, <3>2
  <2>2. ASSUME NEW d \in Conn, NEW x \in Node,
               conn'[d][x].phase = "handled", ~conn'[d][x].closed
        PROVE  connections'[x][conn'[d][x].node] = d
    <3>1. conn'[d][x] = conn[d][x]
      BY <1>3, <2>2, NoEndIs
    <3> QED
      BY <1>1, <2>2, <3>1 DEF IInv, InUse
  <2> QED
    BY <2>1, <2>2 DEF InUse
<1> QED
  BY <1>1, <1>4, <1>5, GoneKeeps DEF RejectConn

LEMMA ConnTerminates ==
    ASSUME IInv, NEW n \in Node, NEW c \in Conn, Terminate(c, n)
    PROVE  IInv'
<1>1. HasGone(c, n) /\ conn[c][n].phase = "handled"
  BY GoneIs DEF Terminate, Handled
<1>2. PICK m \in Node \ {n} : m = conn[c][n].node
  BY <1>1 DEF IInv, EndsOK, EndOK
<1>3. /\ connections \in [Node -> [Node -> Conn \cup {NoConn}]]
      /\ connections' = [connections EXCEPT ![n][m] = IF @ = c THEN NoConn ELSE @]
  BY <1>2 DEF Terminate, IInv, TypeOK
<1>4. connections' \in [Node -> [Node -> Conn \cup {NoConn}]]
  BY <1>3
<1>5. /\ connections'[n][m] = IF connections[n][m] = c THEN NoConn ELSE connections[n][m]
      /\ \A x, y \in Node : x # n \/ y # m => connections'[x][y] = connections[x][y]
  BY <1>3
<1>6. /\ conn'[c][n] = NoFollowConn
      /\ \A d \in Conn, x \in Node : d # c \/ x # n => conn'[d][x] = conn[d][x]
  BY <1>1 DEF HasGone
<1>7. InUse'
  <2>1. ASSUME NEW x \in Node, NEW y \in Node, connections'[x][y] # NoConn
        PROVE  /\ conn'[connections'[x][y]][x].phase = "handled"
               /\ conn'[connections'[x][y]][x].node = y
    <3>1. connections'[x][y] = connections[x][y]
      BY <1>5, <2>1
    <3>2. PICK d \in Conn : d = connections[x][y]
      BY <1>3, <2>1, <3>1
    <3>3. conn[d][x].phase = "handled" /\ conn[d][x].node = y
      BY <2>1, <3>1, <3>2 DEF IInv, InUse
    <3>4. ~(d = c /\ x = n)
      <4>1. ASSUME d = c, x = n PROVE FALSE
        <5>1. y = m /\ connections[n][m] = c
          BY <1>2, <3>2, <3>3, <4>1
        <5> QED
          BY <1>5, <2>1, <4>1, <5>1
      <4> QED
        BY <4>1
    <3> QED
      BY <1>6, <3>1, <3>2, <3>3, <3>4
  <2>2. ASSUME NEW d \in Conn, NEW x \in Node,
               conn'[d][x].phase = "handled", ~conn'[d][x].closed
        PROVE  connections'[x][conn'[d][x].node] = d
    <3>1. conn'[d][x] = conn[d][x] /\ ~(d = c /\ x = n)
      BY <1>6, <2>2, NoEndIs
    <3>2. connections[x][conn[d][x].node] = d /\ conn[d][x].node \in Node
      BY <2>2, <3>1 DEF IInv, InUse, EndsOK, EndOK
    <3>3. connections'[x][conn[d][x].node] = d
      <4>1. CASE x = n /\ conn[d][x].node = m
        BY <1>5, <3>1, <3>2, <4>1
      <4>2. CASE x # n \/ conn[d][x].node # m
        BY <1>5, <3>2, <4>2
      <4> QED
        BY <4>1, <4>2
    <3> QED
      BY <3>1, <3>3
  <2> QED
    BY <2>1, <2>2 DEF InUse
<1> QED
  BY <1>1, <1>4, <1>7, GoneKeeps DEF Terminate

-----------------------------------------------------------------------------
(* Connections that are made and broken.                                   *)
LEMMA NewEndIs ==
    ASSUME NEW m, NEW outgoing \in BOOLEAN, NEW f, f = NewFollowConn(m, outgoing)
    PROVE  /\ IsEnd(f) /\ f.phase = "received" /\ f.node = m
           /\ ~f.closed /\ ~f.receiving /\ f.sending = "no" /\ f.waiting = <<>>
<1>1. f = [phase |-> "received", node |-> m, outgoing |-> outgoing,
           closed |-> FALSE, sending |-> "no", first |-> {}, sent |-> {},
           frozen |-> EmptyState, receiving |-> FALSE, waiting |-> <<>>,
           offers |-> {}]
  BY DEF NewFollowConn, NoFollowConn
<1> QED
  BY <1>1 DEF IsEnd, Sendings

LEMMA Dials ==
    ASSUME IInv, NEW n \in Node, NEW m \in Node, NEW c \in Conn, Dial(n, m, c)
    PROVE  IInv'
<1>1. m # n
  BY DEF Dial, Wanted
<1>2. PICK yes \in BOOLEAN, no \in BOOLEAN : yes = TRUE /\ no = FALSE
  OBVIOUS
<1>3. PICK a, b : a = NewFollowConn(m, yes) /\ b = NewFollowConn(n, no)
  OBVIOUS
<1>4. /\ IsEnd(a) /\ a.phase = "received" /\ a.node = m
      /\ ~a.closed /\ ~a.receiving /\ a.sending = "no"
  BY <1>3, NewEndIs
<1>5. /\ IsEnd(b) /\ b.phase = "received" /\ b.node = n
      /\ ~b.closed /\ ~b.receiving /\ b.sending = "no"
  BY <1>3, NewEndIs
<1>6. PICK t, u, v : t = conn /\ u = WithEntry(t, c, n, a) /\ v = WithEntry(u, c, m, b)
  OBVIOUS
<1>7. conn' = v
  BY <1>3, <1>6, <1>2 DEF Dial, WithEntry
<1>8. IsTable(t)
  BY <1>6 DEF IInv, TypeOK
<1>9. /\ IsTable(u) /\ u[c][n] = a
      /\ \A d \in Conn, x \in Node : d # c \/ x # n => u[d][x] = t[d][x]
  BY <1>6, <1>8, TableExcept
<1>10. /\ IsTable(v) /\ v[c][m] = b
      /\ \A d \in Conn, x \in Node : d # c \/ x # m => v[d][x] = u[d][x]
  BY <1>6, <1>9, TableExcept
<1>11. /\ IsTable(conn') /\ conn'[c][n] = a /\ conn'[c][m] = b
       /\ \A d \in Conn, x \in Node :
             d # c \/ (x # n /\ x # m) => conn'[d][x] = conn[d][x]
  BY <1>1, <1>6, <1>7, <1>9, <1>10
<1>12. \A x \in Node : conn[c][x] = NoFollowConn /\ queue[c][x] = <<>>
  BY DEF Dial, Free, IInv, EndsOK, EndOK
<1>13. /\ store' = store /\ connections' = connections /\ queue' = queue
       /\ cut' = cut /\ crashed' = crashed
  BY DEF Dial
<1>14. \A d \in Conn, x \in Node :
          \/ conn'[d][x] = conn[d][x]
          \/ d = c /\ conn'[d][x] \in {a, b}
  BY <1>11
<1>15. TypeOK'
  <2>1. \A d \in Conn, x \in Node : IsEnd(conn'[d][x])
    BY <1>4, <1>5, <1>14 DEF IInv, TypeOK
  <2> QED
    BY <1>11, <1>13, <2>1 DEF IInv, TypeOK, IsTable
<1>16. ASSUME NEW d \in Conn, NEW x \in Node PROVE EndOK(d, x)'
  <2>1. EndOK(d, x)
    BY DEF IInv, EndsOK
  <2>2. CASE d # c
    <3>1. \A y \in Node : conn'[d][y] = conn[d][y]
      BY <1>11, <2>2
    <3> QED
      BY <1>13, <2>1, <3>1 DEF EndOK
  <2>3. CASE d = c /\ x = n
    BY <1>1, <1>4, <1>5, <1>11, <2>3 DEF EndOK
  <2>4. CASE d = c /\ x = m
    BY <1>1, <1>4, <1>5, <1>11, <2>4 DEF EndOK
  <2>5. CASE d = c /\ x # n /\ x # m
    <3>1. conn'[d][x] = NoFollowConn /\ queue'[d][x] = <<>>
      BY <1>11, <1>12, <1>13, <2>5
    <3> QED
      BY <3>1, NoEndIs DEF EndOK
  <2> QED
    BY <2>2, <2>3, <2>4, <2>5
<1>17. InUse'
  <2>1. ASSUME NEW x \in Node, NEW y \in Node, connections'[x][y] # NoConn
        PROVE  /\ conn'[connections'[x][y]][x].phase = "handled"
               /\ conn'[connections'[x][y]][x].node = y
    <3>1. PICK d \in Conn : d = connections[x][y]
      BY <1>13, <2>1 DEF IInv, TypeOK
    <3>2. conn[d][x].phase = "handled" /\ conn[d][x].node = y
      BY <1>13, <2>1, <3>1 DEF IInv, InUse
    <3>3. d # c
      BY <1>12, <3>2, NoEndIs
    <3> QED
      BY <1>11, <1>13, <3>1, <3>2, <3>3
  <2>2. ASSUME NEW d \in Conn, NEW x \in Node,
               conn'[d][x].phase = "handled", ~conn'[d][x].closed
        PROVE  connections'[x][conn'[d][x].node] = d
    <3>1. conn'[d][x] = conn[d][x]
      BY <1>4, <1>5, <1>14, <2>2
    <3> QED
      BY <1>13, <2>2, <3>1 DEF IInv, InUse
  <2> QED
    BY <2>1, <2>2 DEF InUse
<1>18. ASSUME NEW x \in Node PROVE Alone(x)'
  <2>1. Alone(x)
    BY DEF IInv
  <2> QED
    BY <1>4, <1>5, <1>13, <1>14, <2>1 DEF Alone
<1>19. StoresOK'
  BY <1>13, SameStore, StepStores
<1>20. ASSUME NEW d \in Conn, NEW x \in Node PROVE FramedAt(d, x)'
  <2>1. FramedAt(d, x) /\ EndOK(d, x)
    BY DEF IInv, EndsOK
  <2>2. CASE d # c
    <3>1. \A y \in Node : conn'[d][y] = conn[d][y]
      BY <1>11, <2>2
    <3> QED
      BY <1>13, <2>1, <3>1 DEF FramedAt, EndOK
  <2>3. \A before \in BOOLEAN : Framed(before, <<>>, before)
    BY FramedEmpty
  <2>4. CASE d = c /\ x = n
    <3>1. /\ conn'[d][x] = a /\ conn'[d][a.node] = b /\ queue'[d][x] = <<>>
          /\ a.receiving = no /\ (b.sending # "no" <=> no)
      BY <1>4, <1>5, <1>11, <1>12, <1>13, <1>2, <2>4 DEF IsEnd
    <3> QED
      BY <2>3, <3>1 DEF FramedAt, Framed
  <2>5. CASE d = c /\ x = m
    <3>1. /\ conn'[d][x] = b /\ conn'[d][b.node] = a /\ queue'[d][x] = <<>>
          /\ b.receiving = no /\ (a.sending # "no" <=> no)
      BY <1>4, <1>5, <1>11, <1>12, <1>13, <1>2, <2>5 DEF IsEnd
    <3> QED
      BY <2>3, <3>1 DEF FramedAt, Framed
  <2>6. CASE d = c /\ x # n /\ x # m
    <3>1. conn'[d][x] = NoFollowConn
      BY <1>11, <1>12, <2>6
    <3> QED
      BY <3>1, NoEndIs DEF FramedAt
  <2> QED
    BY <2>2, <2>4, <2>5, <2>6
<1> QED
  BY <1>15, <1>16, <1>17, <1>18, <1>19, <1>20 DEF IInv, EndsOK

(* Nothing changes but that there may be one more connection that is cut.  *)
LEMMA CutKeeps ==
    ASSUME IInv, cut' \subseteq Conn, cut \subseteq cut',
           store' = store, connections' = connections, conn' = conn,
           queue' = queue, crashed' = crashed
    PROVE  IInv'
<1>1. TypeOK' /\ StoresOK' /\ InUse'
  BY DEF IInv, TypeOK, StoresOK, InUse, IsTable
<1>2. ASSUME NEW d \in Conn, NEW x \in Node PROVE EndOK(d, x)' /\ FramedAt(d, x)'
  <2>1. EndOK(d, x) /\ FramedAt(d, x)
    BY DEF IInv, EndsOK
  <2>2. EndOK(d, x)'
    BY <2>1 DEF EndOK
  <2>3. FramedAt(d, x)'
    BY <2>1 DEF FramedAt
  <2> QED
    BY <2>2, <2>3
<1>3. \A x \in Node : Alone(x)'
  BY DEF IInv, Alone
<1> QED
  BY <1>1, <1>2, <1>3 DEF IInv, EndsOK

LEMMA Breaks ==
    ASSUME IInv, NEW c \in Conn, Break(c)
    PROVE  IInv'
<1>1. cut' \subseteq Conn /\ cut \subseteq cut'
  BY DEF Break, IInv, TypeOK
<1> QED
  BY <1>1, CutKeeps DEF Break

-----------------------------------------------------------------------------
(* The beginning.                                                          *)
LEMMA PastStoreIs ==
    ASSUME NEW p \in 0 .. LastSlot + 1, NEW k \in 0 .. LastSlot + 1,
           p = 0 \/ p < k, NEW st, st = PastStore(p, k)
    PROVE  IsStore(st) /\ HasApplied(st)
<1>1. p \in Nat /\ k \in Nat /\ LastSlot \in Nat /\ k <= LastSlot + 1 /\ p <= k
  BY FollowAssumption
<1>2. PICK q, content : q = [i \in 1 .. k - p |-> p + i - 1] /\ content = After[k]
  OBVIOUS
<1>3. st = [degraded |-> FALSE, start |-> p, firstUnapplied |-> k, slots |-> q,
            state |-> content]
  BY <1>2 DEF PastStore, InitialStore
<1>4. q = [i \in 1 .. k - p |-> q[i]] /\ k - p \in Nat
  BY <1>1, <1>2
<1>5. IsSequence(q) /\ Len(q) = k - p
  BY <1>4, FunctionIs
<1>6. /\ st.start = p /\ st.firstUnapplied = k /\ st.slots = q /\ ~st.degraded
      /\ st.degraded = FALSE /\ st.state = content
  BY <1>3
<1>7. IsStore(st)
  BY <1>1, <1>3, <1>5, <1>6 DEF IsStore
<1>8. ASSUME NEW t \in p .. k - 1 PROVE IsChosen(st, t)
  <2>1. t - p + 1 \in 1 .. k - p
    BY <1>1
  <2>2. q[t - p + 1] = t
    BY <1>1, <1>2, <2>1
  <2>3. t # Unchosen
    BY <1>1 DEF Unchosen
  <2> QED
    BY <1>5, <1>6, <1>7, <2>1, <2>2, <2>3, SlotAt
<1> QED
  BY <1>6, <1>7, <1>8 DEF HasApplied

(* What the nodes have discarded and applied before.                       *)
LEMMA PastIs ==
    ASSUME NEW past \in Pasts, NEW n \in Node
    PROVE  /\ past[n][1] \in 0 .. LastSlot + 1
           /\ past[n][2] \in 0 .. LastSlot + 1
           /\ past[n][1] = 0 \/ past[n][1] < past[n][2]
  BY FollowAssumption

LEMMA Initially ==
    ASSUME Init
    PROVE  IInv
<1>1. PICK past \in Pasts :
         store = [n \in Node |-> PastStore(past[n][1], past[n][2])]
  BY DEF Init
<1>2. \A n \in Node : IsStore(store[n]) /\ HasApplied(store[n])
  BY <1>1, PastIs, PastStoreIs
<1>3. store = [n \in Node |-> store[n]]
  BY <1>1
<1>4. /\ connections = [n \in Node |-> [m \in Node |-> NoConn]]
      /\ conn = [c \in Conn |-> [n \in Node |-> NoFollowConn]]
      /\ queue = [c \in Conn |-> [n \in Node |-> <<>>]]
      /\ cut = {} /\ crashed = {}
  BY DEF Init
<1>5. /\ \A c \in Conn, n \in Node : conn[c][n] = NoFollowConn /\ queue[c][n] = <<>>
      /\ \A n, m \in Node : connections[n][m] = NoConn
      /\ IsTable(conn) /\ IsTable(queue)
  BY <1>4 DEF IsTable
<1>6. TypeOK
  BY <1>2, <1>3, <1>4, <1>5, NoEndIs, QueueEmpty DEF TypeOK
<1>7. EndsOK /\ InUse
  BY <1>5, NoEndIs DEF EndsOK, EndOK, InUse
<1>8. StoresOK
  BY <1>2, <1>4 DEF StoresOK
<1>9. \A n \in Node : Alone(n)
  BY <1>5, NoEndIs DEF Alone
<1>10. \A c \in Conn, n \in Node : FramedAt(c, n)
  BY <1>5, NoEndIs DEF FramedAt
<1> QED
  BY <1>6, <1>7, <1>8, <1>9, <1>10 DEF IInv

-----------------------------------------------------------------------------
(* Every step.                                                             *)
LEMMA MessagesHandled ==
    ASSUME IInv, NEW n \in Node, NEW c \in Conn, Receive(c, n)
    PROVE  IInv'
<1>1. CASE HandlePosition(c, n)
  BY <1>1, PositionHandled
<1>2. CASE HandleBursting(c, n)
  BY <1>2, BurstingHandled
<1>3. CASE HandleGlobalProperty(c, n) \/ HandleEntityProperty(c, n)
  BY <1>3, PropertiesHandled
<1>4. CASE HandleBurstDone(c, n)
  BY <1>4, BurstDoneHandled
<1>5. CASE HandleInstructionChosen(c, n)
  BY <1>5, ChosenHandled
<1>6. CASE HandleInstructionRequest(c, n)
  BY <1>6, RequestHandled
<1>7. CASE HandleInstructionData(c, n)
  BY <1>7, DataHandled
<1> QED
  BY <1>1, <1>2, <1>3, <1>4, <1>5, <1>6, <1>7 DEF Receive

LEMMA Steps ==
    ASSUME IInv, [Next]_vars
    PROVE  IInv'
<1>1. ASSUME NEW n \in Node, NEW s \in 0 .. LastSlot, Learn(n, s) PROVE IInv'
  BY <1>1, Learns
<1>2. ASSUME NEW n \in Node, NEW m \in Node, NEW c \in Conn, Dial(n, m, c) PROVE IInv'
  BY <1>2, Dials
<1>3. ASSUME NEW c \in Conn, Break(c) PROVE IInv'
  BY <1>3, Breaks
<1>4. ASSUME NEW c \in Conn, NEW n \in Node, RejectConn(c, n) PROVE IInv'
  BY <1>4, ConnRejected
<1>5. ASSUME NEW c \in Conn, NEW n \in Node, AddConn(c, n) PROVE IInv'
  BY <1>5, AddsConn
<1>6. ASSUME NEW c \in Conn, NEW n \in Node, Terminate(c, n) PROVE IInv'
  BY <1>6, ConnTerminates
<1>7. ASSUME NEW c \in Conn, NEW n \in Node, Receive(c, n) PROVE IInv'
  BY <1>7, MessagesHandled
<1>8. ASSUME NEW c \in Conn, NEW n \in Node, NEW s \in 0 .. LastSlot, OfferTimeout(c, n, s)
      PROVE  IInv'
  BY <1>8, RequestsOffered
<1>9. ASSUME NEW c \in Conn, NEW n \in Node, BurstStart(c, n) PROVE IInv'
  BY <1>9, BurstStarts
<1>10. ASSUME NEW c \in Conn, NEW n \in Node, BurstEntity(c, n) PROVE IInv'
  BY <1>10, BurstsEntity
<1>11. ASSUME NEW c \in Conn, NEW n \in Node, BurstEnd(c, n) PROVE IInv'
  BY <1>11, BurstEnds
<1>12. CASE UNCHANGED vars
  <2>1. cut' \subseteq Conn /\ cut \subseteq cut'
    BY <1>12 DEF vars, netVars, IInv, TypeOK
  <2> QED
    BY <1>12, <2>1, CutKeeps DEF vars, netVars
<1> QED
  BY <1>1, <1>2, <1>3, <1>4, <1>5, <1>6, <1>7, <1>8, <1>9, <1>10, <1>11, <1>12 DEF Next

LEMMA InvariantImplies ==
    ASSUME IInv
    PROVE  BurstFramed /\ BurstOnlyDegraded
<1>1. BurstFramed
  BY DEF IInv, FramedAt, Placed, BurstFramed
<1>2. BurstOnlyDegraded
  BY DEF IInv, Alone, StoresOK, BurstOnlyDegraded
<1> QED
  BY <1>1, <1>2

(* The inductive invariant holds of every node and connection, in every    *)
(* state: the two ends of a connection know each other, those handled and  *)
(* not closed are the ones in use, a node that is burst to has no other.   *)
THEOREM Invariant == Spec => []IInv
<1>1. Init => IInv
  BY Initially
<1>2. IInv /\ [Next]_vars => IInv'
  BY Steps
<1> QED
  BY <1>1, <1>2, PTL DEF Spec

(* The messages of a burst reach a node between its Bursting and its       *)
(* BurstDone, and both ends agree on whether one is going on: no handler   *)
(* finds a part of a burst outside of one, for which it would close the    *)
(* connection, or put an instruction's idempotent form in a slot.          *)
THEOREM BurstsFramed == Spec => []BurstFramed
<1>1. IInv => BurstFramed
  BY InvariantImplies
<1> QED
  BY <1>1, Invariant, PTL

(* A node stays degraded for as long as it is burst to, and only one that  *)
(* is degraded can panic: neither ending a burst nor discarding the        *)
(* instructions that it has applied makes one panic that is not.           *)
THEOREM BurstsOnlyWhenDegraded == Spec => []BurstOnlyDegraded
<1>1. IInv => BurstOnlyDegraded
  BY InvariantImplies
<1> QED
  BY <1>1, Invariant, PTL
=============================================================================
