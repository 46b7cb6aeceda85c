---------------------------- MODULE ChangesProofs ----------------------------
(***************************************************************************)
(* What applyChanges does with the requests that listeners make, for all   *)
(* states that requests can leave and any number of entities.              *)
(*                                                                         *)
(* applyChanges is a loop over a list that grows and is rewritten as it    *)
(* goes.  Sound is what every round keeps: the list is well formed (an     *)
(* entity is created under an ID of its own before anything is set on it,  *)
(* removals come last), and what is yet to be done with the state so far   *)
(* makes up for what does not hold of the state between two requests.      *)
(***************************************************************************)
EXTENDS Changes, SequenceTheorems, FiniteSetTheorems, WellFoundedInduction, TLAPS

-----------------------------------------------------------------------------
(* Induction over the rounds of applyChanges, from the well-foundedness of *)
(* the order of the natural numbers.                                       *)
LEMMA LeastNumber ==
    ASSUME NEW T \in SUBSET Nat, T # {}
    PROVE  \E x \in T : \A y \in T : ~(y < x)
<1>1. PICK x \in T : \A y \in T : <<y, x>> \notin OpToRel(<, Nat)
    BY WFMin, NatLessThanWellFounded, Zenon
<1>2. \A y \in T : y < x => <<y, x>> \in OpToRel(<, Nat)
    BY Zenon DEF OpToRel
<1> QED
    BY <1>1, <1>2

LEMMA CountedUp ==
    ASSUME NEW S \in SUBSET Nat, 0 \in S, \A n \in S : n + 1 \in S
    PROVE  S = Nat
<1> SUFFICES ASSUME S # Nat PROVE FALSE
    OBVIOUS
<1>1. PICK x \in Nat \ S : \A y \in Nat \ S : ~(y < x)
    BY LeastNumber
<1>2. x # 0 /\ x \in Nat
    BY <1>1
<1>3. x - 1 \in Nat /\ x - 1 < x /\ (x - 1) + 1 = x
    BY <1>2
<1>4. x - 1 \in S
    BY <1>1, <1>3
<1> QED
    BY <1>1, <1>3, <1>4

(* after[k] is the work after k rounds, up to n of them.                   *)
IsAfter(after, w, idempotent, n) ==
    after = [k \in 0 .. n |->
                IF k = 0 THEN w ELSE ApplyChange(after[k - 1], idempotent)]

LEMMA AfterExists ==
    ASSUME NEW w, NEW idempotent, NEW n \in Nat
    PROVE  \E after : IsAfter(after, w, idempotent, n)
<1> DEFINE S == {m \in Nat : \E after : IsAfter(after, w, idempotent, m)}
<1>1. 0 \in S
  <2>1. [k \in 0 .. 0 |-> w] = [k \in 0 .. 0 |-> IF k = 0 THEN w
                   ELSE ApplyChange([j \in 0 .. 0 |-> w][k - 1], idempotent)]
    OBVIOUS
  <2> QED
    BY <2>1 DEF IsAfter
<1>2. ASSUME NEW m \in S PROVE m + 1 \in S
  <2>1. PICK f : IsAfter(f, w, idempotent, m)
    OBVIOUS
  <2> DEFINE g == [k \in 0 .. m + 1 |->
                     IF k <= m THEN f[k] ELSE ApplyChange(f[m], idempotent)]
  <2>2. ASSUME NEW k \in 0 .. m + 1
        PROVE  g[k] = IF k = 0 THEN w ELSE ApplyChange(g[k - 1], idempotent)
    <3>1. CASE k = 0
      BY <2>1, <3>1 DEF IsAfter
    <3>2. CASE k # 0 /\ k <= m
      <4>1. k - 1 \in 0 .. m + 1 /\ k - 1 <= m /\ k \in 0 .. m
        BY <3>2
      <4> QED
        BY <2>1, <3>2, <4>1 DEF IsAfter
    <3>3. CASE k = m + 1
      <4>1. k - 1 = m /\ ~(k <= m) /\ m \in 0 .. m + 1
        BY <3>3
      <4>2. g[k - 1] = f[m] /\ k # 0
        BY <3>3, <4>1
      <4>3. g[k] = ApplyChange(f[m], idempotent)
        BY <4>1
      <4> QED
        BY <4>2, <4>3
    <3> QED
      BY <3>1, <3>2, <3>3
  <2>3. g = [k \in 0 .. m + 1 |->
               IF k = 0 THEN w ELSE ApplyChange(g[k - 1], idempotent)]
    <3> HIDE DEF g
    <3>1. g = [k \in 0 .. m + 1 |-> g[k]]
      BY DEF g
    <3> QED
      BY <2>2, <3>1
  <2>4. IsAfter(g, w, idempotent, m + 1)
    BY <2>3 DEF IsAfter
  <2> HIDE DEF g
  <2> QED
    BY <2>4
<1>3. S = Nat
  <2> HIDE DEF S
  <2> QED
    BY <1>1, <1>2, CountedUp DEF S
<1> QED
    BY <1>3

(* What holds of the work at first, and of the result of every round if it *)
(* held before, holds of what applyChanges ends with.                      *)
Later(w, idempotent, n) == Iterated(LAMBDA x : ApplyChange(x, idempotent), w, n)

LEMMA Rounds ==
    ASSUME NEW w, NEW idempotent, NEW n \in Nat, NEW P,
           <<0, w>> \in P,
           \A k \in Nat : \A x : <<k, x>> \in P
               => <<k + 1, ApplyChange(x, idempotent)>> \in P
    PROVE  <<n, Later(w, idempotent, n)>> \in P
<1> DEFINE IsF(f) == f = [k \in 0 .. n |-> IF k = 0 THEN w
                ELSE CHOOSE y \in {ApplyChange(x, idempotent) : x \in {f[k - 1]}} : TRUE]
           after == CHOOSE f : IsF(f)
<1>1. ASSUME NEW f PROVE IsF(f) <=> IsAfter(f, w, idempotent, n)
  <2>1. \A k \in 0 .. n :
         (CHOOSE y \in {ApplyChange(x, idempotent) : x \in {f[k - 1]}} : TRUE)
            = ApplyChange(f[k - 1], idempotent)
    OBVIOUS
  <2> QED
    BY <2>1 DEF IsAfter
<1>2. IsAfter(after, w, idempotent, n)
  <2>1. \E f : IsF(f)
    BY <1>1, AfterExists
  <2>2. IsF(after)
    BY <2>1
  <2> HIDE DEF IsF
  <2> QED
    BY <2>2, <1>1
<1>3. Later(w, idempotent, n) = after[n]
  BY DEF Iterated, Later
<1>4. {m \in Nat : m <= n => <<m, after[m]>> \in P} = Nat
  <2> HIDE DEF after
  <2> DEFINE S == {m \in Nat : m <= n => <<m, after[m]>> \in P}
  <2>1. 0 \in S
    BY <1>2 DEF IsAfter
  <2>2. ASSUME NEW m \in S PROVE m + 1 \in S
    <3>1. CASE m + 1 <= n
      <4>1. m + 1 \in 0 .. n /\ m + 1 # 0 /\ (m + 1) - 1 = m /\ m <= n
        BY <3>1
      <4>2. after[m + 1] = ApplyChange(after[m], idempotent)
        BY <1>2, <4>1 DEF IsAfter
      <4> QED
        BY <4>1, <4>2
    <3>2. CASE ~(m + 1 <= n)
      BY <3>2
    <3> QED
      BY <3>1, <3>2
  <2> HIDE DEF S
  <2>3. S = Nat
    BY <2>1, <2>2, CountedUp DEF S
  <2> QED
    BY <2>3 DEF S
<1> QED
  <2> HIDE DEF after
  <2>1. n \in {m \in Nat : m <= n => <<m, after[m]>> \in P}
    BY <1>4
  <2> QED
    BY <1>3, <2>1

-----------------------------------------------------------------------------
(* States and changes.                                                     *)
Values == Names \cup {NoValue, True, "user", "session"}
Key == {Kind, Name, Transient} \cup {Attach(x) : x \in Nat}
Stored == Values \ {NoValue}
Record == UNION {[K -> Stored] : K \in SUBSET Key}
States == [next : Nat, entities : UNION {[D -> Record] : D \in SUBSET Nat}]

Change == [op : {"create", "delete"}, target : Nat]
          \cup [op : {"set"}, target : Nat, key : Key, value : Values]
          \cup [op : {"next"}, target : {0}, next : Nat]

LEMMA KeyFacts ==
    /\ \A x, y : Attach(x) = Attach(y) <=> x = y
    /\ \A x : Attach(x) \notin {Kind, Name, Transient} /\ IsAttach(Attach(x))
    /\ ~IsAttach(Kind) /\ ~IsAttach(Name) /\ ~IsAttach(Transient)
    /\ Kind # Name /\ Kind # Transient /\ Name # Transient
    /\ \A x : Attach(x)[2] = x
BY DEF Attach, Kind, Name, Transient, IsAttach

LEMMA AttachKeys ==
    ASSUME NEW key \in Key
    PROVE  IsAttach(key) <=> \E x \in Nat : key = Attach(x)
BY KeyFacts DEF Key

LEMMA ChangeFacts ==
    ASSUME NEW c \in Change
    PROVE  /\ c.op \in {"create", "delete", "set", "next"}
           /\ c.target \in Nat
           /\ c.op = "set" => /\ c.key \in Key /\ c.value \in Values
                              /\ c = Set(c.target, c.key, c.value)
           /\ c.op = "create" => c = Create(c.target)
           /\ c.op = "delete" => c = Delete(c.target)
           /\ c.op = "next" => c = NextEntity(c.next) /\ c.next \in Nat
BY DEF Change, Set, Create, Delete, NextEntity

LEMMA ChangesMade ==
    ASSUME NEW t \in Nat
    PROVE  /\ Create(t) \in Change /\ Delete(t) \in Change
           /\ NextEntity(t) \in Change
           /\ \A key \in Key, value \in Values : Set(t, key, value) \in Change
           /\ \A e, key, value :
                 /\ Set(e, key, value).op = "set"
                 /\ Set(e, key, value).target = e
                 /\ Set(e, key, value).key = key
                 /\ Set(e, key, value).value = value
           /\ \A e : /\ Create(e).op = "create" /\ Create(e).target = e
                     /\ Delete(e).op = "delete" /\ Delete(e).target = e
                     /\ NextEntity(e).op = "next" /\ NextEntity(e).target = 0
                     /\ NextEntity(e).next = e
BY DEF Change, Set, Create, Delete, NextEntity

LEMMA StateFacts ==
    ASSUME NEW st \in States
    PROVE  /\ st.next \in Nat
           /\ DOMAIN st.entities \subseteq Nat
           /\ \A e \in DOMAIN st.entities :
                 /\ st.entities[e] \in Record
                 /\ DOMAIN st.entities[e] \subseteq Key
                 /\ \A k \in DOMAIN st.entities[e] : st.entities[e][k] \in Stored
           /\ st.entities \in [DOMAIN st.entities -> Record]
<1>1. st.next \in Nat
  BY DEF States
<1>2. PICK D \in SUBSET Nat : st.entities \in [D -> Record]
  BY DEF States
<1>3. DOMAIN st.entities = D
  BY <1>2
<1>4. ASSUME NEW e \in D
      PROVE  /\ st.entities[e] \in Record
             /\ DOMAIN st.entities[e] \subseteq Key
             /\ \A k \in DOMAIN st.entities[e] : st.entities[e][k] \in Stored
  <2>1. st.entities[e] \in Record
    BY <1>2
  <2>2. PICK K \in SUBSET Key : st.entities[e] \in [K -> Stored]
    BY <2>1 DEF Record
  <2> QED
    BY <2>1, <2>2
<1> QED
  BY <1>1, <1>2, <1>3, <1>4

LEMMA WithEntityFacts ==
    ASSUME NEW st \in States, NEW id \in Nat
    PROVE  /\ WithEntity(st, id) \in States
           /\ WithEntity(st, id).next = st.next
           /\ DOMAIN WithEntity(st, id).entities = DOMAIN st.entities \cup {id}
           /\ WithEntity(st, id).entities[id] = <<>>
           /\ \A e \in DOMAIN st.entities \ {id} :
                 WithEntity(st, id).entities[e] = st.entities[e]
<1> DEFINE f == Put(st.entities, {id}, <<>>)
<1>1. /\ DOMAIN f = DOMAIN st.entities \cup {id}
      /\ f[id] = <<>>
      /\ \A e \in DOMAIN st.entities \ {id} : f[e] = st.entities[e]
      /\ f = [e \in DOMAIN st.entities \cup {id} |-> f[e]]
  BY DEF Put
<1>2. WithEntity(st, id) = [st EXCEPT !.entities = f]
  BY DEF WithEntity
<1>3. <<>> \in Record
  <2>1. <<>> \in [{} -> Stored] /\ {} \in SUBSET Key
    OBVIOUS
  <2> QED
    BY <2>1 DEF Record
<1>4. f \in [DOMAIN st.entities \cup {id} -> Record]
  <2> HIDE DEF f
  <2> QED
    BY <1>1, <1>3, StateFacts
<1>5. DOMAIN st.entities \cup {id} \in SUBSET Nat
  BY StateFacts
<1> HIDE DEF f
<1>6. [st EXCEPT !.entities = f] \in States
  BY <1>4, <1>5 DEF States
<1> QED
  BY <1>1, <1>2, <1>6 DEF States

LEMMA WithoutEntityFacts ==
    ASSUME NEW st \in States, NEW id
    PROVE  /\ WithoutEntity(st, id) \in States
           /\ WithoutEntity(st, id).next = st.next
           /\ DOMAIN WithoutEntity(st, id).entities = DOMAIN st.entities \ {id}
           /\ \A e \in DOMAIN st.entities \ {id} :
                 WithoutEntity(st, id).entities[e] = st.entities[e]
<1> DEFINE f == [e \in DOMAIN st.entities \ {id} |-> st.entities[e]]
<1>1. WithoutEntity(st, id) = [st EXCEPT !.entities = f]
  BY DEF WithoutEntity, States
<1>2. f \in [DOMAIN st.entities \ {id} -> Record]
  BY StateFacts
<1>3. DOMAIN st.entities \ {id} \in SUBSET Nat
  BY StateFacts
<1>4. /\ DOMAIN f = DOMAIN st.entities \ {id}
      /\ \A e \in DOMAIN st.entities \ {id} : f[e] = st.entities[e]
  OBVIOUS
<1> HIDE DEF f
<1>5. [st EXCEPT !.entities = f] \in States
  BY <1>2, <1>3 DEF States
<1> QED
  BY <1>1, <1>4, <1>5 DEF States

(* State st2 is st but for the value of a key of an entity.                *)
Assigned(st, id, key, value, st2) ==
    /\ st2 \in States /\ st2.next = st.next
    /\ DOMAIN st2.entities = DOMAIN st.entities
    /\ \A e \in DOMAIN st.entities \ {id} : st2.entities[e] = st.entities[e]
    /\ DOMAIN st2.entities[id] = IF value # NoValue
                                 THEN DOMAIN st.entities[id] \cup {key}
                                 ELSE DOMAIN st.entities[id] \ {key}
    /\ value # NoValue => st2.entities[id][key] = value
    /\ \A k \in DOMAIN st.entities[id] \ {key} :
          st2.entities[id][k] = st.entities[id][k]

LEMMA WithValueFacts ==
    ASSUME NEW st \in States, NEW id \in DOMAIN st.entities,
           NEW key \in Key, NEW value \in Values
    PROVE  Assigned(st, id, key, value, WithValue(st, id, key, value))
<1> DEFINE old == st.entities[id]
           new == IF value # NoValue THEN Put(old, {key}, value)
                  ELSE [k \in DOMAIN old \ {key} |-> old[k]]
           K == IF value # NoValue THEN DOMAIN old \cup {key}
                ELSE DOMAIN old \ {key}
<1>1. /\ DOMAIN old \subseteq Key
      /\ \A k \in DOMAIN old : old[k] \in Stored
  BY StateFacts
<1>2. /\ DOMAIN new = K
      /\ value # NoValue => new[key] = value
      /\ \A k \in DOMAIN old \ {key} : new[k] = old[k]
      /\ new = [k \in K |-> new[k]]
  BY DEF Put
<1>3. new \in Record
  <2> HIDE DEF new
  <2>1. \A k \in K : new[k] \in Stored
    BY <1>1, <1>2 DEF Stored
  <2>2. new \in [K -> Stored]
    <3> HIDE DEF K
    <3> QED
      BY <1>2, <2>1
  <2>3. K \in SUBSET Key
    BY <1>1
  <2> HIDE DEF K
  <2> QED
    BY <2>2, <2>3 DEF Record
<1> DEFINE f == [st.entities EXCEPT ![id] = new]
<1>4. WithValue(st, id, key, value) = [st EXCEPT !.entities = f]
  BY DEF WithValue, States
<1> HIDE DEF new
<1>5. /\ f \in [DOMAIN st.entities -> Record]
      /\ DOMAIN f = DOMAIN st.entities
      /\ f[id] = new
      /\ \A e \in DOMAIN st.entities \ {id} : f[e] = st.entities[e]
  BY <1>3, StateFacts
<1>6. DOMAIN st.entities \in SUBSET Nat
  BY StateFacts
<1> HIDE DEF f
<1>7. [st EXCEPT !.entities = f] \in States
  BY <1>5, <1>6 DEF States
<1>8. [st EXCEPT !.entities = f].entities = f /\ [st EXCEPT !.entities = f].next = st.next
  BY DEF States
<1> QED
  BY <1>2, <1>4, <1>5, <1>7, <1>8 DEF Assigned

LEMMA AttachedFacts ==
    ASSUME NEW st \in States, NEW e \in DOMAIN st.entities, NEW x
    PROVE  x \in AllAttached(st, e) <=> x \in Nat /\ Attach(x) \in DOMAIN st.entities[e]
BY StateFacts, AttachKeys, KeyFacts DEF AllAttached

-----------------------------------------------------------------------------
(* IDs that entities have within a request.                                *)
Temp == {1, 2}

Sets(c, key) == c.op = "set" /\ c.key = key
Attaches(c) == c.op = "set" /\ IsAttach(c.key) /\ c.value # NoValue
Removes(c) == \/ c.op = "delete"
              \/ c.op = "set" /\ c.key = Transient
              \/ c.op = "set" /\ IsAttach(c.key) /\ c.value = NoValue

(* A rename whose name is taken is dropped, if no other rename is to come. *)
LEMMA NoChain ==
    ASSUME NEW w, NEW c, NEW owner, owner # c.target,
           w.todo \in Seq(Change), w.todo # <<>>,
           \A r \in ToSet(w.todo) : Sets(r, Name) => r.target = c.target
    PROVE  tryNameSatisfy(w, c, owner) = {}
<1> DEFINE kind == Value(w.state, c.target, Kind)
           e(l) == CHOOSE e \in l.owner : TRUE
           new(l) == CHOOSE r \in Renames(w, e(l)) : TRUE
           Link(l) == IF \/ l.owner = {}
                        \/ l.owner \subseteq ToSet(l.ids)
                     THEN l
                     ELSE IF \/ Renames(w, e(l)) = {}
                             \/ e(l) \in w.renamed
                             \/ e(l) \in Named(w.state, kind, new(l).value)
                     THEN [ids |-> <<>>, owner |-> {}]
                     ELSE [ids |-> Append(l.ids, e(l)),
                           owner |-> Named(w.state, kind, new(l).value)]
           first == [ids |-> <<c.target>>, owner |-> {owner}]
           none == [ids |-> <<>>, owner |-> {}]
           Is(f) == f = [k \in Nat |-> IF k = 0 THEN first ELSE Link(f[k - 1])]
           chain == CHOOSE f : Is(f)
<1>1. tryNameSatisfy(w, c, owner) = ToSet(chain[Len(w.todo)].ids)
  BY DEF tryNameSatisfy
<1>2. Link(first) = none
  <2>1. first.owner = {owner} /\ first.ids = <<c.target>>
    OBVIOUS
  <2>2. ToSet(first.ids) = {c.target}
    BY <2>1 DEF ToSet
  <2>3. e(first) = owner
    BY <2>1
  <2>4. Renames(w, owner) = {}
    BY DEF Renames, Sets
  <2> HIDE DEF first, e, new, kind
  <2> QED
    BY <2>1, <2>2, <2>3, <2>4
<1>3. Link(none) = none
  <2>1. none.owner = {}
    OBVIOUS
  <2> HIDE DEF none, e, new, kind
  <2> QED
    BY <2>1
<1> HIDE DEF Link, first, none
<1>4. Is([k \in Nat |-> IF k = 0 THEN first ELSE none])
  <2> DEFINE f == [k \in Nat |-> IF k = 0 THEN first ELSE none]
  <2>1. ASSUME NEW k \in Nat
        PROVE  f[k] = IF k = 0 THEN first ELSE Link(f[k - 1])
    <3>1. CASE k = 0
      BY <3>1
    <3>2. CASE k # 0
      <4>1. k - 1 \in Nat
        BY <3>2
      <4>2. f[k - 1] \in {first, none}
        BY <4>1
      <4> QED
        BY <3>2, <4>2, <1>2, <1>3
    <3> QED
      BY <3>1, <3>2
  <2>2. f = [k \in Nat |-> IF k = 0 THEN first ELSE Link(f[k - 1])]
    <3>1. f = [k \in Nat |-> f[k]]
      OBVIOUS
    <3> HIDE DEF f
    <3> QED
      BY <2>1, <3>1
  <2> QED
    BY <2>2
<1>5. Is(chain)
  BY <1>4
<1> HIDE DEF chain
<1>6. {k \in Nat : chain[k + 1] = none} = Nat
  <2> DEFINE S == {k \in Nat : chain[k + 1] = none}
  <2>1. 0 \in S
    BY <1>2, <1>5
  <2>2. ASSUME NEW k \in S PROVE k + 1 \in S
    <3>1. k + 1 \in Nat /\ (k + 1) + 1 \in Nat /\ (k + 1) + 1 # 0
          /\ ((k + 1) + 1) - 1 = k + 1
      OBVIOUS
    <3>2. chain[(k + 1) + 1] = Link(chain[k + 1])
      BY <1>5, <3>1
    <3> QED
      BY <1>3, <3>1, <3>2
  <2> HIDE DEF S
  <2> QED
    BY <2>1, <2>2, CountedUp DEF S
<1>7. Len(w.todo) \in Nat \ {0}
  BY EmptySeq
<1>8. chain[Len(w.todo)] = none
  <2>1. Len(w.todo) - 1 \in Nat /\ (Len(w.todo) - 1) + 1 = Len(w.todo)
    BY <1>7
  <2> QED
    BY <1>6, <2>1
<1>9. ToSet(none.ids) = {}
  BY DEF none, ToSet
<1> QED
  BY <1>1, <1>8, <1>9

-----------------------------------------------------------------------------
(* What the list of changes is like, whatever round comes next.            *)
Works == [state : States, done : Seq(Change), todo : Seq(Change),
          renamed : SUBSET Nat]

(* The IDs up to which entities exist, while "next entity" lags behind.    *)
Bound(w) == IF w.todo # <<>> /\ w.todo[1].op = "next"
            THEN w.todo[1].next ELSE w.state.next

IdsInRange(w) ==
    /\ FirstEntity <= w.state.next
    /\ DOMAIN w.state.entities \subseteq FirstEntity .. Bound(w) - 1
    /\ \A i \in DOMAIN w.todo :
          /\ w.todo[i].op = "next" => i = 1 /\ w.todo[i].next = w.state.next + 1
          /\ w.todo[i].op = "create" => w.todo[i].target \in Temp
          /\ w.todo[i].op \in {"delete", "set"} =>
                w.todo[i].target \in Temp \cup FirstEntity .. Bound(w) - 1
          /\ Sets(w.todo[i], Kind) => w.todo[i].value \in {"user", "session"}
          /\ Attaches(w.todo[i]) => w.todo[i].value = True

MakesSession(c) == Sets(c, Kind) /\ c.value = "session"

(* Change d may come after c.                                              *)
Permits(c, d) ==
    /\ Removes(c) => Removes(d)
    /\ ~(c.op = "create" /\ d.op = "create" /\ c.target = d.target)
    /\ ~(Sets(d, Kind) /\ c.op = "set" /\ c.target = d.target)
    /\ ~(Sets(c, Name) /\ Sets(d, Name))
    /\ ~(MakesSession(c) /\ MakesSession(d))

Ordered(w) ==
    \A j \in DOMAIN w.todo : \A i \in 1 .. j - 1 : Permits(w.todo[i], w.todo[j])

(* An entity is a session, or will be before the change at j.              *)
SessionBy(w, j, x) ==
    \/ Value(w.state, x, Kind) = "session"
    \/ \E i \in 1 .. j - 1 : w.todo[i] = Set(x, Kind, "session")

KindReady(w, j) ==
    Sets(w.todo[j], Kind) =>
        LET t == w.todo[j].target
        IN  IF t \in Temp THEN \E i \in 1 .. j - 1 : w.todo[i] = Create(t)
            ELSE Exists(w.state, t) /\ DOMAIN w.state.entities[t] = {}

NameReady(w, j) ==
    Sets(w.todo[j], Name) =>
        LET t == w.todo[j].target
        IN  /\ w.renamed = {}
            /\ Exists(w.state, t) => Name \notin DOMAIN w.state.entities[t]

(* Sessions are attached to nodes, and users to sessions.                  *)
AttachReady(w, j) ==
    \A x \in Nat :
        Attaches(w.todo[j]) /\ w.todo[j].key = Attach(x) =>
            LET t == w.todo[j].target
            IN  IF x \in Temp \/ x >= FirstEntity THEN SessionBy(w, j, x)
                ELSE SessionBy(w, j, t) \/ (t \notin Temp /\ ~Exists(w.state, t))

Legal(w) ==
    \A j \in DOMAIN w.todo : KindReady(w, j) /\ NameReady(w, j) /\ AttachReady(w, j)

WellFormed(w) == w \in Works /\ IdsInRange(w) /\ Ordered(w) /\ Legal(w)

-----------------------------------------------------------------------------
(* The rounds that there are for such lists.                               *)
NextRound(w, w2) ==
    /\ Head(w.todo).op = "next"
    /\ w2 = Done(w, [w.state EXCEPT !.next = Head(w.todo).next], Head(w.todo))

CreateRound(w, w2) ==
    /\ Head(w.todo).op = "create"
    /\ w2 = CreateEntity(w, Head(w.todo))

DeleteRound(w, w2) ==
    /\ Head(w.todo).op = "delete"
    /\ w2 = DeleteEntity(w, Head(w.todo))

DropRound(w, w2) ==
    /\ Head(w.todo).op = "set"
    /\ ~Exists(w.state, Head(w.todo).target) \/ Sets(Head(w.todo), Name)
    /\ w2 = Drop(w)

Result(w) == WithValue(w.state, Head(w.todo).target, Head(w.todo).key,
                       Head(w.todo).value)

SetRound(w, w2) ==
    /\ Head(w.todo).op = "set"
    /\ Exists(w.state, Head(w.todo).target)
    /\ Sets(Head(w.todo), Name) =>
          Named(w.state, Value(w.state, Head(w.todo).target, Kind),
                Head(w.todo).value) \subseteq {Head(w.todo).target}
    /\ \E renamed \in SUBSET Nat :
          /\ ~Sets(Head(w.todo), Name) => renamed = w.renamed
          /\ w2 = [Done(w, Result(w), Head(w.todo)) EXCEPT !.renamed = renamed]

ExpireRound(w, w2) ==
    /\ Head(w.todo).op = "set" /\ Removes(Head(w.todo))
    /\ Exists(w.state, Head(w.todo).target)
    /\ w2 = Inject(Done(w, Result(w), Head(w.todo)),
                   <<Delete(Head(w.todo).target)>>)

LEMMA RoundCases ==
    ASSUME NEW w, WellFormed(w), w.todo # <<>>,
           NEW w2, w2 = ApplyChange(w, FALSE)
    PROVE  \/ NextRound(w, w2) \/ CreateRound(w, w2) \/ DeleteRound(w, w2)
           \/ DropRound(w, w2) \/ SetRound(w, w2) \/ ExpireRound(w, w2)
<1> DEFINE c == Head(w.todo)
<1>1. /\ c \in Change /\ c = w.todo[1] /\ 1 \in DOMAIN w.todo
      /\ w \in Works /\ w.todo \in Seq(Change)
  BY HeadTailProperties, EmptySeq, LenProperties DEF WellFormed, Works
<1>2. c.op \in {"create", "delete", "set", "next"}
  BY <1>1, ChangeFacts
<1> HIDE DEF c
<1>3. CASE c.op = "create"
  BY <1>3 DEF ApplyChange, CreateRound, c
<1>4. CASE c.op = "delete"
  BY <1>4 DEF ApplyChange, DeleteRound, c
<1>5. CASE c.op = "next"
  BY <1>5 DEF ApplyChange, NextRound, c
<1>6. CASE c.op = "set" /\ ~Exists(w.state, c.target)
  BY <1>6 DEF ApplyChange, DropRound, c
<1>7. CASE c.op = "set" /\ Exists(w.state, c.target)
  <2>1. w2 = SetValue(w, c)
    BY <1>7 DEF ApplyChange, c
  <2>2. Result(w) = WithValue(w.state, c.target, c.key, c.value)
    BY DEF Result, c
  <2>3. c.target \in Nat /\ c.key \in Key /\ w.renamed \in SUBSET Nat
    BY <1>1, <1>7, ChangeFacts DEF Works
  <2>4. ~Sets(c, Name) /\ w2 = Done(w, Result(w), c) => SetRound(w, w2)
    <3>1. Done(w, Result(w), c) =
            [Done(w, Result(w), c) EXCEPT !.renamed = w.renamed]
      BY <1>1 DEF Done, Works
    <3> QED
      BY <1>7, <2>3, <3>1 DEF SetRound, c
  <2>5. CASE \/ c.key = Transient /\ c.value # NoValue
             \/ /\ IsAttach(c.key) /\ c.value = NoValue
                /\ Value(w.state, c.target, Transient) # NoValue
    <3>1. w2 = SetOrExpire(w, c, Result(w))
      BY <2>1, <2>2, <2>5 DEF SetValue
    <3>2. Removes(c) /\ ~Sets(c, Name)
      BY <1>7, <2>5, KeyFacts DEF Removes, Sets
    <3> QED
      BY <3>1, <3>2, <1>7, <2>4 DEF SetOrExpire, ExpireRound, c
  <2>6. CASE c.key # Name /\ ~(\/ c.key = Transient /\ c.value # NoValue
             \/ /\ IsAttach(c.key) /\ c.value = NoValue
                /\ Value(w.state, c.target, Transient) # NoValue)
    BY <2>1, <2>2, <2>4, <2>6 DEF SetValue, Sets
  <2>7. CASE c.key = Name
    <3>1. w2 = Rename(w, c)
      BY <2>1, <2>7, KeyFacts DEF SetValue
    <3> DEFINE owners == Named(w.state, Value(w.state, c.target, Kind), c.value)
               owner == CHOOSE e \in owners \ {c.target} : TRUE
    <3>2. Sets(c, Name)
      BY <1>7, <2>7 DEF Sets
    <3>3. w.renamed = {} /\ Name \notin DOMAIN w.state.entities[c.target]
      BY <1>1, <1>7, <3>2 DEF WellFormed, Legal, NameReady
    <3>4. \A r \in ToSet(w.todo) : Sets(r, Name) => r.target = c.target
      <4> SUFFICES ASSUME NEW i \in DOMAIN w.todo, Sets(w.todo[i], Name)
                   PROVE  i = 1
        BY <1>1 DEF ToSet
      <4>1. i \in Nat \ {0}
        BY <1>1, LenProperties
      <4>2. i # 1 => 1 \in 1 .. i - 1
        BY <4>1
      <4>3. i # 1 => Permits(w.todo[1], w.todo[i])
        BY <4>2 DEF WellFormed, Ordered
      <4> QED
        BY <1>1, <3>2, <4>3 DEF Permits
    <3>5. CASE owners \subseteq {c.target}
      <4>1. w2 = [Done(w, Result(w), c) EXCEPT !.renamed = @ \cup {c.target}]
        BY <2>2, <2>7, <3>1, <3>3, <3>5 DEF Rename
      <4>2. Done(w, Result(w), c).renamed = w.renamed
        BY <1>1 DEF Done, Works
      <4>3. w2 = [Done(w, Result(w), c) EXCEPT !.renamed = w.renamed \cup {c.target}]
        BY <4>1, <4>2 DEF Done, Works
      <4>4. w.renamed \cup {c.target} \in SUBSET Nat
        BY <2>3
      <4> QED
        BY <1>7, <3>2, <3>5, <4>3, <4>4 DEF SetRound, c
    <3>6. CASE ~(owners \subseteq {c.target})
      <4>1. owner \in owners /\ owner # c.target
        BY <3>6
      <4>2. tryNameSatisfy(w, c, owner) = {}
        BY <1>1, <3>4, <4>1, NoChain
      <4>3. w2 = Drop(w)
        BY <3>1, <3>3, <3>6, <4>2 DEF Rename
      <4> QED
        BY <1>7, <3>2, <4>3 DEF DropRound, c
    <3> QED
      BY <3>5, <3>6
  <2> QED
    BY <2>5, <2>6, <2>7
<1> QED
  BY <1>2, <1>3, <1>4, <1>5, <1>6, <1>7

-----------------------------------------------------------------------------
(* What each kind of round does.                                           *)
LEMMA SeqOfSet ==
    ASSUME NEW S, IsFiniteSet(S)
    PROVE  SetToSeq(S) \in Seq(S) /\ ToSet(SetToSeq(S)) = S
<1>1. Cardinality(S) \in Nat /\ ExistsBijection(1 .. Cardinality(S), S)
  BY FS_CardinalityType
<1>2. \E f \in [1 .. Cardinality(S) -> S] : IsInjective(f)
  BY <1>1 DEF ExistsBijection, Bijection, Injection
<1> DEFINE f == SetToSeq(S)
<1>3. f \in [1 .. Cardinality(S) -> S] /\ IsInjective(f)
  BY <1>2 DEF SetToSeq
<1> HIDE DEF f
<1>4. f \in Injection(1 .. Cardinality(S), S)
  BY <1>3 DEF Injection
<1>5. Cardinality(1 .. Cardinality(S)) = Cardinality(S)
  BY <1>1, FS_Interval
<1>6. f \in Surjection(1 .. Cardinality(S), S)
  BY <1>4, <1>5, FS_Injection
<1>7. ToSet(f) = S
  BY <1>3, <1>6 DEF ToSet, Surjection
<1>8. f \in Seq(S)
  BY <1>1, <1>3
<1> QED
  BY <1>7, <1>8 DEF f

LEMMA HeadFacts ==
    ASSUME NEW w, w \in Works, w.todo # <<>>
    PROVE  /\ Head(w.todo) \in Change /\ Head(w.todo) = w.todo[1]
           /\ 1 \in DOMAIN w.todo
           /\ Tail(w.todo) \in Seq(Change)
           /\ Append(w.done, Head(w.todo)) \in Seq(Change)
           /\ ToSet(Append(w.done, Head(w.todo))) = ToSet(w.done) \cup {Head(w.todo)}
           /\ \A i \in DOMAIN Tail(w.todo) :
                 /\ i + 1 \in DOMAIN w.todo
                 /\ Tail(w.todo)[i] = w.todo[i + 1]
                 /\ i \in Nat \ {0}
           /\ ToSet(w.todo) = {Head(w.todo)} \cup ToSet(Tail(w.todo))
<1>1. w.todo \in Seq(Change) /\ w.done \in Seq(Change)
  BY DEF Works
<1>2. /\ Head(w.todo) \in Change /\ Head(w.todo) = w.todo[1]
      /\ Tail(w.todo) \in Seq(Change)
      /\ Len(w.todo) \in Nat \ {0} /\ Len(Tail(w.todo)) = Len(w.todo) - 1
      /\ \A i \in 1 .. Len(Tail(w.todo)) : Tail(w.todo)[i] = w.todo[i + 1]
      /\ DOMAIN w.todo = 1 .. Len(w.todo)
      /\ DOMAIN Tail(w.todo) = 1 .. Len(Tail(w.todo))
  BY <1>1, HeadTailProperties, EmptySeq, LenProperties
<1>3. /\ Append(w.done, Head(w.todo)) \in Seq(Change)
      /\ Len(Append(w.done, Head(w.todo))) = Len(w.done) + 1
      /\ \A i \in 1 .. Len(w.done) : Append(w.done, Head(w.todo))[i] = w.done[i]
      /\ Append(w.done, Head(w.todo))[Len(w.done) + 1] = Head(w.todo)
  BY <1>1, <1>2, AppendProperties
<1> DEFINE a == Append(w.done, Head(w.todo))
<1>4. Len(w.done) \in Nat /\ DOMAIN w.done = 1 .. Len(w.done)
      /\ DOMAIN a = 1 .. Len(w.done) + 1
  BY <1>1, <1>3, LenProperties
<1> HIDE DEF a
<1>5. ToSet(a) = ToSet(w.done) \cup {Head(w.todo)}
  BY <1>3, <1>4 DEF ToSet, a
<1>6. ToSet(w.todo) = {Head(w.todo)} \cup ToSet(Tail(w.todo))
  <2>1. \A i \in DOMAIN w.todo : i = 1 \/ i - 1 \in DOMAIN Tail(w.todo)
    BY <1>2
  <2>2. \A i \in DOMAIN Tail(w.todo) : i + 1 \in DOMAIN w.todo
    BY <1>2
  <2>3. \A i \in DOMAIN w.todo : i # 1 => w.todo[i] = Tail(w.todo)[i - 1]
    BY <1>2, <2>1
  <2>4. 1 \in DOMAIN w.todo
    BY <1>2
  <2>5. Head(w.todo) = w.todo[1]
    BY <1>2
  <2>6. \A i \in DOMAIN Tail(w.todo) : w.todo[i + 1] = Tail(w.todo)[i]
    BY <1>2
  <2>7. ASSUME NEW x \in ToSet(w.todo)
        PROVE  x \in {Head(w.todo)} \cup ToSet(Tail(w.todo))
    <3>1. PICK i \in DOMAIN w.todo : x = w.todo[i]
      BY DEF ToSet
    <3> QED
      BY <2>1, <2>3, <2>5, <3>1 DEF ToSet
  <2>8. ASSUME NEW x \in {Head(w.todo)} \cup ToSet(Tail(w.todo))
        PROVE  x \in ToSet(w.todo)
    BY <2>2, <2>4, <2>5, <2>6 DEF ToSet
  <2> QED
    BY <2>7, <2>8
<1> QED
  BY <1>2, <1>3, <1>5, <1>6 DEF a

LEMMA NextShape ==
    ASSUME NEW w, WellFormed(w), w.todo # <<>>, NEW w2, NextRound(w, w2)
    PROVE  /\ w2 \in Works /\ w2.todo = Tail(w.todo) /\ w2.renamed = w.renamed
           /\ w2.done = Append(w.done, Head(w.todo))
           /\ w2.state.entities = w.state.entities
           /\ w2.state.next = w.state.next + 1
           /\ Head(w.todo).next = w2.state.next
           /\ w2.state = [w.state EXCEPT !.next = Head(w.todo).next]
<1>1. /\ w \in Works /\ Head(w.todo).op = "next"
      /\ w2 = Done(w, [w.state EXCEPT !.next = Head(w.todo).next], Head(w.todo))
  BY DEF NextRound, WellFormed
<1>2. Head(w.todo).next = w.state.next + 1
  BY <1>1, HeadFacts DEF WellFormed, IdsInRange
<1>3. PICK st \in States : st = [w.state EXCEPT !.next = Head(w.todo).next]
  BY <1>1, <1>2, StateFacts DEF Works, States
<1>4. w2 = [w EXCEPT !.state = st, !.done = Append(@, Head(w.todo)), !.todo = Tail(@)]
  BY <1>1, <1>3 DEF Done
<1>5. /\ w2 \in Works /\ w2.state = st /\ w2.todo = Tail(w.todo)
      /\ w2.renamed = w.renamed /\ w2.done = Append(w.done, Head(w.todo))
  <2>1. /\ Tail(w.todo) \in Seq(Change)
        /\ Append(w.done, Head(w.todo)) \in Seq(Change)
    BY <1>1, HeadFacts
  <2> QED
    BY <1>1, <1>3, <1>4, <2>1 DEF Works
<1>6. st.entities = w.state.entities /\ st.next = Head(w.todo).next
  BY <1>1, <1>3 DEF Works, States
<1> QED
  BY <1>2, <1>3, <1>5, <1>6

LEMMA DropShape ==
    ASSUME NEW w, WellFormed(w), w.todo # <<>>, NEW w2, DropRound(w, w2)
    PROVE  /\ w2 \in Works /\ w2.todo = Tail(w.todo) /\ w2.renamed = w.renamed
           /\ w2.done = w.done /\ w2.state = w.state
           /\ ~Sets(Head(w.todo), Kind)
<1>1. w \in Works /\ w2 = Drop(w)
  BY DEF DropRound, WellFormed
<1>2. ~Sets(Head(w.todo), Kind)
  <2> SUFFICES ASSUME Sets(Head(w.todo), Kind) PROVE FALSE
    OBVIOUS
  <2>1. Head(w.todo) = w.todo[1] /\ 1 \in DOMAIN w.todo
    BY <1>1, HeadFacts
  <2>2. ~Sets(Head(w.todo), Name)
    BY KeyFacts DEF Sets
  <2>3. KindReady(w, 1)
    BY <2>1 DEF WellFormed, Legal
  <2>4. Exists(w.state, Head(w.todo).target)
    BY <2>1, <2>3 DEF KindReady
  <2> QED
    BY <2>2, <2>4 DEF DropRound
<1> QED
  BY <1>1, <1>2, HeadFacts DEF Drop, Works

Assigns(w, st) ==
    /\ Exists(w.state, Head(w.todo).target)
    /\ Assigned(w.state, Head(w.todo).target, Head(w.todo).key,
                Head(w.todo).value, st)

LEMMA ResultFacts ==
    ASSUME NEW w, w \in Works, w.todo # <<>>, Head(w.todo).op = "set",
           Exists(w.state, Head(w.todo).target)
    PROVE  Assigns(w, Result(w))
<1>1. /\ Head(w.todo).key \in Key /\ Head(w.todo).value \in Values
      /\ w.state \in States
  BY HeadFacts, ChangeFacts DEF Works
<1>2. Head(w.todo).target \in DOMAIN w.state.entities
  BY DEF Exists
<1> QED
  BY <1>1, <1>2, WithValueFacts DEF Result, Assigns

LEMMA SetShape ==
    ASSUME NEW w, WellFormed(w), w.todo # <<>>, NEW w2, SetRound(w, w2)
    PROVE  /\ w2 \in Works /\ w2.todo = Tail(w.todo)
           /\ ~Sets(Head(w.todo), Name) => w2.renamed = w.renamed
           /\ w2.done = Append(w.done, Head(w.todo))
           /\ w2.state = Result(w) /\ Assigns(w, w2.state)
<1>1. w \in Works /\ Assigns(w, Result(w))
  BY ResultFacts DEF SetRound, WellFormed
<1>2. PICK renamed \in SUBSET Nat :
          /\ ~Sets(Head(w.todo), Name) => renamed = w.renamed
          /\ w2 = [Done(w, Result(w), Head(w.todo)) EXCEPT !.renamed = renamed]
  BY DEF SetRound
<1>3. Result(w) \in States
  BY <1>1 DEF Assigns, Assigned
<1> QED
  BY <1>1, <1>2, <1>3, HeadFacts DEF Done, Works

LEMMA ExpireShape ==
    ASSUME NEW w, WellFormed(w), w.todo # <<>>, NEW w2, ExpireRound(w, w2)
    PROVE  /\ w2 \in Works /\ w2.renamed = w.renamed
           /\ ToSet(w2.todo) = {Delete(Head(w.todo).target)} \cup ToSet(Tail(w.todo))
           /\ w2.done = Append(w.done, Head(w.todo))
           /\ w2.state = Result(w) /\ Assigns(w, w2.state)
<1>1. w \in Works /\ Assigns(w, Result(w))
  BY ResultFacts DEF ExpireRound, WellFormed
<1> DEFINE d == Delete(Head(w.todo).target)
<1>2. d \in Change
  BY <1>1, HeadFacts, ChangeFacts, ChangesMade
<1> HIDE DEF d
<1>3. /\ <<d>> \in Seq(Change) /\ Len(<<d>>) = 1 /\ <<d>>[1] = d
  BY <1>2
<1> DEFINE t == Tail(w.todo)
           todo == <<d>> \o t
<1>4. t \in Seq(Change)
  BY <1>1, HeadFacts
<1> HIDE DEF t
<1>5. /\ todo \in Seq(Change)
      /\ Len(todo) = 1 + Len(t)
      /\ \A i \in 1 .. 1 + Len(t) : todo[i] = IF i <= 1 THEN <<d>>[i] ELSE t[i - 1]
      /\ Len(t) \in Nat /\ DOMAIN t = 1 .. Len(t) /\ DOMAIN todo = 1 .. 1 + Len(t)
  BY <1>3, <1>4, ConcatProperties, LenProperties
<1> HIDE DEF todo
<1>6. ToSet(todo) = {d} \cup ToSet(t)
  <2>1. \A i \in 1 .. 1 + Len(t) : i = 1 \/ i - 1 \in 1 .. Len(t)
    BY <1>5
  <2>2. \A i \in 1 .. Len(t) : /\ i + 1 \in 1 .. 1 + Len(t)
                               /\ ~(i + 1 <= 1) /\ (i + 1) - 1 = i
    BY <1>5
  <2>3. ASSUME NEW x \in ToSet(todo) PROVE x \in {d} \cup ToSet(t)
    <3>1. PICK i \in 1 .. 1 + Len(t) : x = todo[i]
      BY <1>5 DEF ToSet
    <3>2. x = IF i <= 1 THEN <<d>>[i] ELSE t[i - 1]
      BY <1>5, <3>1
    <3>3. i = 1 => x = d
      BY <3>2
    <3>4. i # 1 => x = t[i - 1] /\ i - 1 \in DOMAIN t
      BY <1>5, <2>1, <3>1, <3>2
    <3> QED
      BY <3>3, <3>4 DEF ToSet
  <2>4. d \in ToSet(todo)
    BY <1>3, <1>5 DEF ToSet
  <2>5. \A i \in 1 .. Len(t) : todo[i + 1] = t[i] /\ i + 1 \in DOMAIN todo
    BY <1>5, <2>2
  <2>6. ToSet(t) \subseteq ToSet(todo)
    BY <1>5, <2>5 DEF ToSet
  <2> QED
    BY <2>3, <2>4, <2>6
<1>7. /\ w2 = Inject(Done(w, Result(w), Head(w.todo)), <<d>>)
      /\ Result(w) \in States
  BY <1>1 DEF ExpireRound, d, Assigns, Assigned
<1>8. /\ w2 = [Done(w, Result(w), Head(w.todo)) EXCEPT !.todo = todo]
      /\ Done(w, Result(w), Head(w.todo)) \in Works
  BY <1>1, <1>7, HeadFacts DEF Done, Works, Inject, todo, t
<1> QED
  BY <1>1, <1>5, <1>6, <1>7, <1>8 DEF Done, Works, d, t

LEMMA DeleteShape ==
    ASSUME NEW w, WellFormed(w), w.todo # <<>>, NEW w2, DeleteRound(w, w2)
    PROVE  /\ w2 \in Works /\ w2.renamed = w.renamed
           /\ ToSet(w2.todo) =
                 {Set(e, Attach(Head(w.todo).target), NoValue) :
                     e \in AllAttachedTo(w.state, Head(w.todo).target)}
                 \cup ToSet(Tail(w.todo))
           /\ w2.done = Append(w.done, Head(w.todo))
           /\ w2.state = WithoutEntity(w.state, Head(w.todo).target)
<1> DEFINE id == Head(w.todo).target
           to == AllAttachedTo(w.state, id)
           detach == {Set(e, Attach(id), NoValue) : e \in to}
           t == Tail(w.todo)
           todo == SetToSeq(detach) \o t
           st == WithoutEntity(w.state, id)
<1>1. /\ w \in Works /\ w.state \in States /\ w.state.next \in Nat
      /\ id \in Nat /\ t \in Seq(Change)
  BY HeadFacts, ChangeFacts, StateFacts DEF WellFormed, Works
<1>2. /\ DOMAIN w.state.entities \subseteq FirstEntity .. Bound(w) - 1
      /\ Bound(w) = w.state.next
  BY HeadFacts, <1>1 DEF WellFormed, IdsInRange, Bound, DeleteRound
<1>3. IsFiniteSet(to)
  <2>1. to \in SUBSET Nat /\ \A e \in to : e <= w.state.next
    BY <1>1, <1>2 DEF AllAttachedTo, FirstEntity
  <2> QED
    BY <1>1, <2>1, FS_BoundedSetOfNaturals
<1>4. IsFiniteSet(detach)
  <2> DEFINE f == [e \in to |-> Set(e, Attach(id), NoValue)]
  <2>1. f \in Surjection(to, detach)
    BY DEF Surjection
  <2> QED
    BY <1>3, <2>1, FS_Surjection
<1>5. detach \subseteq Change
  <2>1. Attach(id) \in Key
    BY <1>1 DEF Key
  <2>2. NoValue \in Values
    BY DEF Values
  <2>3. to \subseteq Nat
    BY <1>1, StateFacts DEF AllAttachedTo
  <2> QED
    BY <2>1, <2>3, <2>2, ChangesMade
<1> HIDE DEF detach
<1> DEFINE s == SetToSeq(detach)
<1>6. s \in Seq(Change) /\ ToSet(s) = detach
  BY <1>4, <1>5, SeqOfSet
<1> HIDE DEF s, t
<1>7. /\ todo \in Seq(Change)
      /\ Len(todo) = Len(s) + Len(t)
      /\ \A i \in 1 .. Len(s) + Len(t) :
            todo[i] = IF i <= Len(s) THEN s[i] ELSE t[i - Len(s)]
      /\ Len(t) \in Nat /\ DOMAIN t = 1 .. Len(t)
      /\ Len(s) \in Nat /\ DOMAIN s = 1 .. Len(s)
      /\ DOMAIN todo = 1 .. Len(s) + Len(t)
  BY <1>1, <1>6, ConcatProperties, LenProperties DEF s
<1> HIDE DEF todo
<1>8. ToSet(todo) = detach \cup ToSet(t)
  <2>1. \A i \in 1 .. Len(s) + Len(t) : i <= Len(s) => i \in 1 .. Len(s)
    BY <1>7
  <2>2. \A i \in 1 .. Len(s) + Len(t) : ~(i <= Len(s)) => i - Len(s) \in 1 .. Len(t)
    BY <1>7
  <2>3. \A i \in 1 .. Len(s) : i \in 1 .. Len(s) + Len(t) /\ i <= Len(s)
    BY <1>7
  <2>4. \A i \in 1 .. Len(t) : /\ i + Len(s) \in 1 .. Len(s) + Len(t)
                               /\ ~(i + Len(s) <= Len(s)) /\ (i + Len(s)) - Len(s) = i
    BY <1>7
  <2>5. ToSet(todo) \subseteq ToSet(s) \cup ToSet(t)
    BY <1>7, <2>1, <2>2 DEF ToSet
  <2>6. ToSet(s) \subseteq ToSet(todo)
    BY <1>7, <2>3 DEF ToSet
  <2>7. ToSet(t) \subseteq ToSet(todo)
    BY <1>7, <2>4 DEF ToSet
  <2> QED
    BY <1>6, <2>5, <2>6, <2>7
<1>9. st \in States
  BY <1>1, WithoutEntityFacts
<1>10. w2 = Inject(Done(w, st, Head(w.todo)), s)
  BY DEF DeleteRound, DeleteEntity, s, detach
<1> HIDE DEF st
<1>11. /\ w2 = [Done(w, st, Head(w.todo)) EXCEPT !.todo = todo]
       /\ Done(w, st, Head(w.todo)) \in Works
  BY <1>1, <1>9, <1>10, HeadFacts DEF Done, Works, Inject, todo, t, s
<1> QED
  BY <1>1, <1>7, <1>8, <1>9, <1>11 DEF Done, Works, detach, t, st

-----------------------------------------------------------------------------
(* The value of any key of any entity after a change.                      *)
LEMMA AssignedValue ==
    ASSUME NEW st, NEW id \in DOMAIN st.entities, NEW key, NEW value, NEW st2,
           Assigned(st, id, key, value, st2)
    PROVE  \A x, k : Value(st2, x, k) =
              IF x = id /\ k = key THEN value ELSE Value(st, x, k)
<1> SUFFICES ASSUME NEW x, NEW k
             PROVE  Value(st2, x, k) =
                       IF x = id /\ k = key THEN value ELSE Value(st, x, k)
  OBVIOUS
<1>1. CASE x = id /\ k = key
  BY <1>1 DEF Assigned, Value, Exists
<1>2. CASE x = id /\ k # key
  BY <1>2 DEF Assigned, Value, Exists
<1>3. CASE x # id
  BY <1>3 DEF Assigned, Value, Exists
<1> QED
  BY <1>1, <1>2, <1>3

LEMMA WithoutValue ==
    ASSUME NEW st \in States, NEW id
    PROVE  \A x, k : Value(WithoutEntity(st, id), x, k) =
              IF x = id THEN NoValue ELSE Value(st, x, k)
BY WithoutEntityFacts DEF Value, Exists

LEMMA WithEntityValue ==
    ASSUME NEW st \in States, NEW id \in Nat
    PROVE  \A x, k : Value(WithEntity(st, id), x, k) =
              IF x = id THEN NoValue ELSE Value(st, x, k)
<1>1. DOMAIN <<>> = {}
  OBVIOUS
<1> QED
  BY <1>1, WithEntityFacts DEF Value, Exists

-----------------------------------------------------------------------------
(* Rounds that take the first change from the list keep it well formed.    *)
Takes(w, w2) ==
    LET c == Head(w.todo)
    IN  /\ w2 \in Works /\ w2.todo = Tail(w.todo)
        /\ w2.state.next = Bound(w) /\ w2.state.next >= FirstEntity
        /\ w2.state.next >= w.state.next
        /\ DOMAIN w2.state.entities = DOMAIN w.state.entities
        /\ c.op \in {"next", "set"}
        /\ \A e \in DOMAIN w.state.entities : c.op = "next" \/ e # c.target =>
              w2.state.entities[e] = w.state.entities[e]
        /\ \A e \in DOMAIN w.state.entities :
              Name \in DOMAIN w2.state.entities[e] =>
                  Name \in DOMAIN w.state.entities[e] \/ Sets(c, Name)
        /\ ~Sets(c, Name) => w2.renamed = w.renamed
        /\ \A x : Value(w.state, x, Kind) = "session"
                  => Value(w2.state, x, Kind) = "session"
        /\ MakesSession(c) => Value(w2.state, c.target, Kind) = "session"

LEMMA HeadBound ==
    ASSUME NEW w, WellFormed(w), w.todo # <<>>
    PROVE  /\ w.state.next \in Nat /\ Bound(w) \in Nat
           /\ Bound(w) = IF Head(w.todo).op = "next" THEN w.state.next + 1
                         ELSE w.state.next
           /\ w.state.next >= FirstEntity
           /\ FirstEntity \in Nat
<1>1. w \in Works /\ w.state \in States
  BY DEF WellFormed, Works
<1>2. Head(w.todo) = w.todo[1] /\ 1 \in DOMAIN w.todo
  BY <1>1, HeadFacts
<1> QED
  BY <1>1, <1>2, StateFacts DEF Bound, WellFormed, IdsInRange, FirstEntity

LEMMA NextTakes ==
    ASSUME NEW w, WellFormed(w), w.todo # <<>>, NEW w2, NextRound(w, w2)
    PROVE  Takes(w, w2)
<1> DEFINE c == Head(w.todo)
<1>1. c.op = "next" /\ ~Sets(c, Name) /\ ~MakesSession(c)
  BY DEF NextRound, Sets, MakesSession
<1>2. \A x : Value(w2.state, x, Kind) = Value(w.state, x, Kind)
  BY NextShape DEF Value, Exists
<1>3. /\ w2 \in Works /\ w2.todo = Tail(w.todo) /\ w2.renamed = w.renamed
      /\ w2.state.entities = w.state.entities
      /\ w2.state.next = w.state.next + 1
  BY NextShape
<1>4. /\ w.state.next \in Nat /\ Bound(w) = w.state.next + 1
      /\ w.state.next >= FirstEntity /\ FirstEntity \in Nat
  BY <1>1, HeadBound
<1> HIDE DEF c
<1>5. /\ w2.state.next = Bound(w) /\ w2.state.next >= FirstEntity
      /\ w2.state.next >= w.state.next
  BY <1>3, <1>4
<1> QED
  BY <1>1, <1>2, <1>3, <1>5 DEF Takes, c

LEMMA DropTakes ==
    ASSUME NEW w, WellFormed(w), w.todo # <<>>, NEW w2, DropRound(w, w2)
    PROVE  Takes(w, w2)
<1> DEFINE c == Head(w.todo)
<1>1. c.op = "set"
  BY DEF DropRound
<1>2. ~MakesSession(c)
  BY DropShape DEF MakesSession
<1> HIDE DEF c
<1> QED
  BY <1>1, <1>2, DropShape, HeadBound DEF Takes, c

(* A kind is only given to an entity that has nothing yet.                 *)
LEMMA KindOfNothing ==
    ASSUME NEW w, WellFormed(w), w.todo # <<>>, Sets(Head(w.todo), Kind)
    PROVE  /\ Exists(w.state, Head(w.todo).target)
           /\ DOMAIN w.state.entities[Head(w.todo).target] = {}
           /\ Value(w.state, Head(w.todo).target, Kind) = NoValue
<1>1. Head(w.todo) = w.todo[1] /\ 1 \in DOMAIN w.todo
  BY HeadFacts DEF WellFormed
<1>2. KindReady(w, 1)
  BY <1>1 DEF WellFormed, Legal
<1>3. /\ Exists(w.state, Head(w.todo).target)
      /\ DOMAIN w.state.entities[Head(w.todo).target] = {}
  BY <1>1, <1>2 DEF KindReady
<1> QED
  BY <1>3 DEF Value

LEMMA SetTakes ==
    ASSUME NEW w, WellFormed(w), w.todo # <<>>, NEW w2, SetRound(w, w2)
    PROVE  Takes(w, w2)
<1> DEFINE c == Head(w.todo)
<1>1. c.op = "set" /\ Exists(w.state, c.target)
  BY DEF SetRound
<1>2. Assigned(w.state, c.target, c.key, c.value, w2.state)
  BY SetShape DEF Assigns
<1>3. c.target \in DOMAIN w.state.entities
  BY <1>1 DEF Exists
<1>4. \A x, k : Value(w2.state, x, k) =
              IF x = c.target /\ k = c.key THEN c.value ELSE Value(w.state, x, k)
  BY <1>2, <1>3, AssignedValue
<1>5. ~Sets(c, Name) => w2.renamed = w.renamed
  BY SetShape
<1>6. Sets(c, Kind) => Value(w.state, c.target, Kind) = NoValue
  BY KindOfNothing
<1>7. w2 \in Works /\ w2.todo = Tail(w.todo)
  BY SetShape
<1> HIDE DEF c
<1>8. \A x : Value(w.state, x, Kind) = "session"
             => Value(w2.state, x, Kind) = "session"
  BY <1>1, <1>4, <1>6 DEF Sets, NoValue
<1>9. MakesSession(c) => Value(w2.state, c.target, Kind) = "session"
  BY <1>4 DEF MakesSession, Sets
<1>10. \A e \in DOMAIN w.state.entities :
         Name \in DOMAIN w2.state.entities[e] =>
             Name \in DOMAIN w.state.entities[e] \/ Sets(c, Name)
  <2> SUFFICES ASSUME NEW e \in DOMAIN w.state.entities,
                      Name \in DOMAIN w2.state.entities[e], c.key # Name
               PROVE  Name \in DOMAIN w.state.entities[e]
    BY <1>1 DEF Sets
  <2>1. CASE e = c.target
    BY <1>2, <2>1 DEF Assigned
  <2>2. CASE e # c.target
    BY <1>2, <2>2 DEF Assigned
  <2> QED
    BY <2>1, <2>2
<1>11. w2.state.next = w.state.next /\ DOMAIN w2.state.entities = DOMAIN w.state.entities
       /\ \A e \in DOMAIN w.state.entities : e # c.target =>
              w2.state.entities[e] = w.state.entities[e]
  BY <1>2 DEF Assigned
<1> QED
  BY <1>1, <1>5, <1>7, <1>8, <1>9, <1>10, <1>11, HeadBound DEF Takes, c

LEMMA TakesInRange ==
    ASSUME NEW w, WellFormed(w), w.todo # <<>>, NEW w2, Takes(w, w2)
    PROVE  IdsInRange(w2)
<1> DEFINE t == Tail(w.todo)
<1>1. /\ w \in Works /\ w2.todo = t /\ w2.state.next = Bound(w)
      /\ w2.state.next >= FirstEntity
      /\ DOMAIN w2.state.entities = DOMAIN w.state.entities
  BY DEF Takes, WellFormed
<1>2. \A i \in DOMAIN t :
         i + 1 \in DOMAIN w.todo /\ t[i] = w.todo[i + 1] /\ i \in Nat \ {0}
  BY <1>1, HeadFacts
<1>3. \A i \in DOMAIN t : t[i].op # "next"
  <2> TAKE i \in DOMAIN t
  <2>1. i + 1 # 1
    BY <1>2
  <2> QED
    BY <1>2, <2>1 DEF WellFormed, IdsInRange
<1>4. Bound(w2) = w2.state.next
  <2>1. t # <<>> => 1 \in DOMAIN t
    BY <1>1, HeadFacts, EmptySeq, LenProperties
  <2> HIDE DEF t
  <2> QED
    BY <1>1, <1>3, <2>1 DEF Bound
<1> HIDE DEF t
<1>5. ASSUME NEW i \in DOMAIN t
      PROVE  /\ t[i].op = "create" => t[i].target \in Temp
             /\ t[i].op \in {"delete", "set"} =>
                   t[i].target \in Temp \cup FirstEntity .. Bound(w) - 1
             /\ Sets(t[i], Kind) => t[i].value \in {"user", "session"}
             /\ Attaches(t[i]) => t[i].value = True
  BY <1>2 DEF WellFormed, IdsInRange
<1>6. DOMAIN w.state.entities \subseteq FirstEntity .. Bound(w) - 1
  BY DEF WellFormed, IdsInRange
<1> QED
  BY <1>1, <1>3, <1>4, <1>5, <1>6 DEF IdsInRange, FirstEntity

LEMMA TakesInOrder ==
    ASSUME NEW w, WellFormed(w), w.todo # <<>>, NEW w2, Takes(w, w2)
    PROVE  Ordered(w2)
<1> DEFINE t == Tail(w.todo)
<1>1. w \in Works /\ w2.todo = t
  BY DEF Takes, WellFormed
<1>2. DOMAIN t = 1 .. Len(t) /\ Len(t) \in Nat
  BY <1>1, HeadFacts, LenProperties
<1> SUFFICES ASSUME NEW j \in DOMAIN t, NEW i \in 1 .. j - 1
             PROVE  Permits(t[i], t[j])
  BY <1>1 DEF Ordered
<1>3. i \in DOMAIN t /\ i + 1 \in 1 .. (j + 1) - 1
  BY <1>2
<1>4. t[i] = w.todo[i + 1] /\ t[j] = w.todo[j + 1] /\ j + 1 \in DOMAIN w.todo
  BY <1>1, <1>3, HeadFacts
<1> QED
  BY <1>3, <1>4 DEF WellFormed, Ordered

LEMMA TakesReady ==
    ASSUME NEW w, WellFormed(w), w.todo # <<>>, NEW w2, Takes(w, w2)
    PROVE  Legal(w2)
<1> DEFINE t == Tail(w.todo)
           c == Head(w.todo)
<1>1. w \in Works /\ w2.todo = t
  BY DEF Takes, WellFormed
<1>2. c = w.todo[1] /\ c.op \in {"next", "set"}
  BY <1>1, HeadFacts DEF Takes
<1> HIDE DEF c
<1> SUFFICES ASSUME NEW j \in DOMAIN t
             PROVE  KindReady(w2, j) /\ NameReady(w2, j) /\ AttachReady(w2, j)
  BY <1>1 DEF Legal
<1>3. j \in Nat \ {0} /\ j + 1 \in DOMAIN w.todo /\ t[j] = w.todo[j + 1]
  BY <1>1, HeadFacts
<1> DEFINE d == t[j]
<1>4. d = w.todo[j + 1] /\ d = w2.todo[j]
  BY <1>1, <1>3
<1>5. Permits(c, d)
  <2>1. 1 \in 1 .. (j + 1) - 1
    BY <1>3
  <2> QED
    BY <1>2, <1>3, <1>4, <2>1 DEF WellFormed, Ordered
<1>6. \A i \in 1 .. (j + 1) - 1 : \/ i = 1 /\ w.todo[i] = c
                                  \/ i - 1 \in 1 .. j - 1 /\ w2.todo[i - 1] = w.todo[i]
  <2>1. DOMAIN t = 1 .. Len(t) /\ Len(t) \in Nat
    BY <1>1, HeadFacts, LenProperties
  <2> TAKE i \in 1 .. (j + 1) - 1
  <2>2. CASE i = 1
    BY <1>2, <2>2
  <2>3. CASE i # 1
    <3>1. i - 1 \in 1 .. j - 1 /\ i - 1 \in DOMAIN t /\ (i - 1) + 1 = i
      BY <1>3, <2>1, <2>3
    <3>2. t[i - 1] = w.todo[(i - 1) + 1]
      BY <1>1, <3>1, HeadFacts
    <3> QED
      BY <1>1, <3>1, <3>2
  <2> QED
    BY <2>2, <2>3
<1> HIDE DEF t, d
<1>7. \A x : SessionBy(w, j + 1, x) => SessionBy(w2, j, x)
  <2> SUFFICES ASSUME NEW x, SessionBy(w, j + 1, x) PROVE SessionBy(w2, j, x)
    OBVIOUS
  <2>1. CASE Value(w.state, x, Kind) = "session"
    BY <2>1 DEF SessionBy, Takes
  <2>2. CASE \E i \in 1 .. (j + 1) - 1 : w.todo[i] = Set(x, Kind, "session")
    <3>1. PICK i \in 1 .. (j + 1) - 1 : w.todo[i] = Set(x, Kind, "session")
      BY <2>2
    <3>2. CASE w.todo[i] = c
      <4>1. MakesSession(c) /\ c.target = x
        BY <3>1, <3>2 DEF MakesSession, Sets, Set
      <4> QED
        BY <4>1 DEF SessionBy, Takes, c
    <3>3. CASE i - 1 \in 1 .. j - 1 /\ w2.todo[i - 1] = w.todo[i]
      BY <3>1, <3>3 DEF SessionBy
    <3> QED
      BY <1>6, <3>2, <3>3
  <2> QED
    BY <2>1, <2>2 DEF SessionBy
<1>8. KindReady(w2, j)
  <2> SUFFICES ASSUME Sets(d, Kind)
               PROVE  IF d.target \in Temp
                      THEN \E i \in 1 .. j - 1 : w2.todo[i] = Create(d.target)
                      ELSE /\ Exists(w2.state, d.target)
                           /\ DOMAIN w2.state.entities[d.target] = {}
    BY <1>4 DEF KindReady
  <2>1. IF d.target \in Temp
        THEN \E i \in 1 .. (j + 1) - 1 : w.todo[i] = Create(d.target)
        ELSE /\ Exists(w.state, d.target)
             /\ DOMAIN w.state.entities[d.target] = {}
    BY <1>3, <1>4 DEF WellFormed, Legal, KindReady
  <2>2. CASE d.target \in Temp
    <3>1. PICK i \in 1 .. (j + 1) - 1 : w.todo[i] = Create(d.target)
      BY <2>1, <2>2
    <3>2. c # Create(d.target)
      BY <1>2 DEF Create
    <3> QED
      BY <1>6, <2>2, <3>1, <3>2
  <2>3. CASE d.target \notin Temp
    <3>1. d.target # c.target \/ c.op = "next"
      BY <1>2, <1>5 DEF Permits
    <3>2. d.target \in DOMAIN w.state.entities
      BY <2>1, <2>3 DEF Exists
    <3>3. w2.state.entities[d.target] = w.state.entities[d.target]
      BY <3>1, <3>2 DEF Takes, c
    <3>4. DOMAIN w2.state.entities = DOMAIN w.state.entities
      BY DEF Takes
    <3> QED
      BY <2>1, <2>3, <3>3, <3>4 DEF Exists
  <2> QED
    BY <2>2, <2>3
<1>9. NameReady(w2, j)
  <2> SUFFICES ASSUME Sets(d, Name)
               PROVE  /\ w2.renamed = {}
                      /\ Exists(w2.state, d.target)
                            => Name \notin DOMAIN w2.state.entities[d.target]
    BY <1>4 DEF NameReady
  <2>1. /\ w.renamed = {}
        /\ Exists(w.state, d.target)
              => Name \notin DOMAIN w.state.entities[d.target]
    BY <1>3, <1>4 DEF WellFormed, Legal, NameReady
  <2>2. ~Sets(c, Name)
    BY <1>5 DEF Permits
  <2>3. /\ w2.renamed = w.renamed
        /\ DOMAIN w2.state.entities = DOMAIN w.state.entities
        /\ \A e \in DOMAIN w.state.entities :
              Name \in DOMAIN w2.state.entities[e] =>
                  Name \in DOMAIN w.state.entities[e]
    BY <2>2 DEF Takes, c
  <2> QED
    BY <2>1, <2>3 DEF Exists
<1>10. AttachReady(w2, j)
  <2> SUFFICES ASSUME NEW x \in Nat, Attaches(d), d.key = Attach(x)
               PROVE  IF x \in Temp \/ x >= FirstEntity THEN SessionBy(w2, j, x)
                      ELSE \/ SessionBy(w2, j, d.target)
                           \/ d.target \notin Temp /\ ~Exists(w2.state, d.target)
    BY <1>4 DEF AttachReady
  <2>1. IF x \in Temp \/ x >= FirstEntity THEN SessionBy(w, j + 1, x)
        ELSE \/ SessionBy(w, j + 1, d.target)
             \/ d.target \notin Temp /\ ~Exists(w.state, d.target)
    BY <1>3, <1>4 DEF WellFormed, Legal, AttachReady
  <2>2. DOMAIN w2.state.entities = DOMAIN w.state.entities
    BY DEF Takes
  <2> QED
    BY <1>7, <2>1, <2>2 DEF Exists
<1> QED
  BY <1>8, <1>9, <1>10

-----------------------------------------------------------------------------
(* Creating an entity keeps the list well formed.                          *)
LEMMA RewrittenFacts ==
    ASSUME NEW c \in Change, NEW old \in Temp, NEW new \in Nat, NEW r,
           r = Rewritten(c, old, new)
    PROVE  /\ r \in Change /\ r.op = c.op
           /\ r.target = IF c.target = old THEN new ELSE c.target
           /\ c.op = "next" => r = c
           /\ c.op = "set" =>
                 /\ r.value = c.value
                 /\ r.key = IF c.key = Attach(old) THEN Attach(new) ELSE c.key
           /\ \A k \in {Kind, Name, Transient} : Sets(r, k) <=> Sets(c, k)
           /\ Attaches(r) <=> Attaches(c)
           /\ Removes(r) <=> Removes(c)
           /\ MakesSession(r) <=> MakesSession(c)
<1>1. CASE c.op = "set"
  <2>1. c.target \in Nat /\ c.key \in Key /\ c.value \in Values
    BY <1>1, ChangeFacts
  <2> DEFINE t == IF c.target = old THEN new ELSE c.target
             k == IF c.key = Attach(old) THEN Attach(new) ELSE c.key
  <2>2. r = Set(t, k, c.value)
    BY <1>1 DEF Rewritten
  <2>3. t \in Nat /\ k \in Key
    BY <2>1 DEF Key
  <2>4. /\ r \in Change /\ r.op = "set" /\ r.target = t /\ r.key = k
        /\ r.value = c.value
    BY <2>1, <2>2, <2>3, ChangesMade
  <2>5. \A key \in {Kind, Name, Transient} : k = key <=> c.key = key
    BY KeyFacts
  <2>6. IsAttach(k) <=> IsAttach(c.key)
    BY KeyFacts
  <2> HIDE DEF k
  <2> QED
    BY <1>1, <2>4, <2>5, <2>6 DEF Sets, Attaches, Removes, MakesSession, k
<1>2. CASE c.op = "next"
  <2>1. c.target = 0 /\ c.target # old
    BY <1>2 DEF Change, Temp
  <2>2. r = c
    BY <1>2, <2>1 DEF Rewritten
  <2> QED
    BY <1>2, <2>1, <2>2
<1>3. CASE c.op \in {"create", "delete"}
  <2>1. r = IF c.target = old THEN [c EXCEPT !.target = new] ELSE c
    BY <1>3 DEF Rewritten
  <2>2. c \in [op : {"create", "delete"}, target : Nat]
    BY <1>3 DEF Change
  <2>3. /\ r \in [op : {"create", "delete"}, target : Nat] /\ r.op = c.op
        /\ r.target = IF c.target = old THEN new ELSE c.target
    BY <2>1, <2>2
  <2>4. r \in Change
    BY <2>3 DEF Change
  <2> QED
    BY <1>3, <2>3, <2>4 DEF Sets, Attaches, Removes, MakesSession
<1> QED
  BY <1>1, <1>2, <1>3, ChangeFacts

(* The list after an entity was created as id.                             *)
Creates(w, w2, old, id) ==
    /\ w.todo[1] = Create(old) /\ old \in Temp /\ id \in Nat
    /\ id = w.state.next /\ id = Bound(w) /\ id >= FirstEntity
    /\ w2 \in Works /\ w2.renamed = w.renamed
    /\ w2.done = Append(w.done, Create(id))
    /\ w2.state = WithEntity(w.state, id)
    /\ 1 \in DOMAIN w.todo /\ DOMAIN w.todo \subseteq Nat \ {0}
    /\ DOMAIN w2.todo = DOMAIN w.todo
    /\ w2.todo[1] = NextEntity(id + 1)
    /\ \A i \in DOMAIN w.todo \ {1} :
          /\ w.todo[i] \in Change
          /\ w2.todo[i] = Rewritten(w.todo[i], old, id)

LEMMA CreateShape ==
    ASSUME NEW w, WellFormed(w), w.todo # <<>>, NEW w2, CreateRound(w, w2)
    PROVE  Creates(w, w2, Head(w.todo).target, w.state.next)
<1> DEFINE old == Head(w.todo).target
           id == w.state.next
           t == Tail(w.todo)
           rest == <<NextEntity(id + 1)>> \o t
           todo == [i \in DOMAIN rest |-> Rewritten(rest[i], old, id)]
<1>1. /\ w \in Works /\ w.state \in States /\ id \in Nat
      /\ id = Bound(w) /\ id >= FirstEntity
  BY HeadBound DEF WellFormed, Works, CreateRound
<1>2. /\ Head(w.todo) = Create(old) /\ w.todo[1] = Head(w.todo)
      /\ 1 \in DOMAIN w.todo /\ t \in Seq(Change) /\ w.todo \in Seq(Change)
  BY <1>1, HeadFacts, ChangeFacts DEF CreateRound, Works
<1>3. old \in Temp
  BY <1>1, <1>2 DEF CreateRound, WellFormed, IdsInRange, Create
<1>4. /\ Len(w.todo) \in Nat \ {0} /\ Len(t) = Len(w.todo) - 1
      /\ DOMAIN w.todo = 1 .. Len(w.todo) /\ DOMAIN t = 1 .. Len(t)
      /\ \A i \in 1 .. Len(t) : t[i] = w.todo[i + 1]
  BY <1>2, HeadTailProperties, EmptySeq, LenProperties
<1>5. w2 = [w EXCEPT !.state = WithEntity(@, id),
                     !.done = Append(@, Create(id)), !.todo = todo]
  BY DEF CreateRound, CreateEntity
<1> HIDE DEF old, id, t
<1>6. NextEntity(id + 1) \in Change
  BY <1>1, ChangesMade
<1>7. /\ <<NextEntity(id + 1)>> \in Seq(Change)
      /\ Len(<<NextEntity(id + 1)>>) = 1
      /\ <<NextEntity(id + 1)>>[1] = NextEntity(id + 1)
  BY <1>6
<1>8. /\ rest \in Seq(Change)
      /\ Len(rest) = 1 + Len(t)
      /\ \A i \in 1 .. 1 + Len(t) :
            rest[i] = IF i <= 1 THEN <<NextEntity(id + 1)>>[i] ELSE t[i - 1]
  BY <1>2, <1>7, ConcatProperties
<1> HIDE DEF rest
<1>9. DOMAIN rest = 1 .. Len(w.todo) /\ Len(rest) = Len(w.todo)
  BY <1>4, <1>8, LenProperties
<1>10. rest[1] = NextEntity(id + 1)
  BY <1>4, <1>7, <1>8
<1>11. ASSUME NEW i \in DOMAIN w.todo, i # 1 PROVE rest[i] = w.todo[i]
  <2>1. i - 1 \in 1 .. Len(t) /\ i \in 1 .. 1 + Len(t) /\ ~(i <= 1) /\ (i - 1) + 1 = i
    BY <1>4, <1>11
  <2> QED
    BY <1>4, <1>8, <2>1
<1>12. \A i \in DOMAIN rest : rest[i] \in Change
  BY <1>8, LenProperties
<1>13. \A i \in DOMAIN rest : todo[i] \in Change
  BY <1>1, <1>3, <1>12, RewrittenFacts
<1>14. todo \in Seq(Change) /\ DOMAIN todo = DOMAIN w.todo
  <2>1. DOMAIN todo = DOMAIN rest /\ todo = [i \in DOMAIN todo |-> todo[i]]
    OBVIOUS
  <2> HIDE DEF todo
  <2>2. todo \in [1 .. Len(w.todo) -> Change]
    BY <1>9, <1>13, <2>1
  <2> QED
    BY <1>4, <1>9, <2>1, <2>2
<1>15. todo[1] = NextEntity(id + 1)
  <2>1. todo[1] = Rewritten(NextEntity(id + 1), old, id)
    BY <1>4, <1>9, <1>10
  <2>2. NextEntity(id + 1).op = "next"
    BY DEF NextEntity
  <2> QED
    BY <1>1, <1>3, <1>6, <2>1, <2>2, RewrittenFacts
<1>16. \A i \in DOMAIN w.todo \ {1} :
          /\ w.todo[i] \in Change
          /\ todo[i] = Rewritten(w.todo[i], old, id)
  BY <1>4, <1>9, <1>11, <1>12
<1> HIDE DEF todo
<1>17. /\ Append(w.done, Create(id)) \in Seq(Change)
       /\ WithEntity(w.state, id) \in States
  <2>1. Create(id) \in Change
    BY <1>1, ChangesMade
  <2> QED
    BY <1>1, <2>1, AppendProperties, WithEntityFacts DEF Works
<1>18. /\ w2 \in Works /\ w2.renamed = w.renamed
       /\ w2.done = Append(w.done, Create(id))
       /\ w2.state = WithEntity(w.state, id) /\ w2.todo = todo
  BY <1>1, <1>5, <1>14, <1>17 DEF Works
<1> QED
  BY <1>1, <1>2, <1>3, <1>4, <1>14, <1>15, <1>16, <1>18 DEF Creates, old, id

(* Where the changes of the list come from, and where they refer to.       *)
LEMMA CreatesTodo ==
    ASSUME NEW w, WellFormed(w), NEW w2, NEW old, NEW id, Creates(w, w2, old, id),
           NEW i \in DOMAIN w.todo \ {1}, NEW c, c = w.todo[i], NEW r, r = w2.todo[i]
    PROVE  /\ c \in Change /\ r \in Change /\ r.op = c.op /\ r.op # "next"
           /\ r.target = IF c.target = old THEN id ELSE c.target
           /\ c.op = "create" => r = c
           /\ r.op \in {"create", "delete", "set"}
           /\ c.target \in Temp \cup FirstEntity .. id - 1
           /\ c.op = "set" =>
                 /\ r.value = c.value
                 /\ r.key = IF c.key = Attach(old) THEN Attach(id) ELSE c.key
           /\ \A k \in {Kind, Name, Transient} : Sets(r, k) <=> Sets(c, k)
           /\ Attaches(r) <=> Attaches(c)
           /\ Removes(r) <=> Removes(c)
           /\ MakesSession(r) <=> MakesSession(c)
<1>1. c \in Change /\ r = Rewritten(c, old, id) /\ old \in Temp /\ id \in Nat
  BY DEF Creates
<1>2. c.op \in {"create", "delete", "set"}
  BY <1>1, ChangeFacts DEF WellFormed, IdsInRange
<1>3. c.target \in Temp \cup FirstEntity .. id - 1
  BY <1>2 DEF WellFormed, IdsInRange, Creates
<1>4. c.op = "create" => r = c
  <2> SUFFICES ASSUME c.op = "create" PROVE c.target # old
    BY <1>1 DEF Rewritten
  <2>1. 1 \in 1 .. i - 1
    BY DEF Creates
  <2>2. Permits(w.todo[1], c)
    BY <2>1 DEF WellFormed, Ordered
  <2>3. w.todo[1].op = "create" /\ w.todo[1].target = old
    BY DEF Creates, Create
  <2> QED
    BY <2>2, <2>3 DEF Permits
<1> QED
  BY <1>1, <1>2, <1>3, <1>4, RewrittenFacts

LEMMA CreatesInRange ==
    ASSUME NEW w, WellFormed(w), NEW w2, NEW old, NEW id, Creates(w, w2, old, id)
    PROVE  IdsInRange(w2) /\ Bound(w2) = id + 1
<1>1. /\ w.state \in States /\ id \in Nat /\ w2.todo \in Seq(Change)
      /\ FirstEntity \in Nat /\ id >= FirstEntity
  BY DEF WellFormed, Works, Creates, FirstEntity
<1>2. w2.state.next = id /\ DOMAIN w2.state.entities = DOMAIN w.state.entities \cup {id}
  <2>1. w2.state = WithEntity(w.state, id) /\ id = w.state.next
    BY DEF Creates
  <2>2. WithEntity(w.state, id).next = w.state.next
    BY <1>1, WithEntityFacts
  <2>3. DOMAIN WithEntity(w.state, id).entities = DOMAIN w.state.entities \cup {id}
    BY <1>1, WithEntityFacts
  <2> QED
    BY <2>1, <2>2, <2>3
<1>3. /\ w2.todo[1].op = "next" /\ w2.todo[1].next = id + 1
      /\ 1 \in DOMAIN w2.todo
  BY DEF Creates, NextEntity
<1>4. Bound(w2) = id + 1
  <2>1. w2.todo # <<>>
    BY <1>3
  <2> QED
    BY <1>3, <2>1 DEF Bound
<1>5. DOMAIN w.state.entities \subseteq FirstEntity .. id - 1
  BY DEF WellFormed, IdsInRange, Creates
<1>6. DOMAIN w2.state.entities \subseteq FirstEntity .. Bound(w2) - 1
  BY <1>1, <1>2, <1>4, <1>5
<1>7. ASSUME NEW i \in DOMAIN w2.todo
      PROVE  /\ w2.todo[i].op = "next" =>
                   i = 1 /\ w2.todo[i].next = w2.state.next + 1
             /\ w2.todo[i].op = "create" => w2.todo[i].target \in Temp
             /\ w2.todo[i].op \in {"delete", "set"} =>
                   w2.todo[i].target \in Temp \cup FirstEntity .. Bound(w2) - 1
             /\ Sets(w2.todo[i], Kind) => w2.todo[i].value \in {"user", "session"}
             /\ Attaches(w2.todo[i]) => w2.todo[i].value = True
  <2>1. CASE i = 1
    BY <1>2, <1>3, <2>1 DEF Sets, Attaches
  <2>2. CASE i # 1
    <3> DEFINE c == w.todo[i]
               r == w2.todo[i]
    <3>1. i \in DOMAIN w.todo \ {1}
      BY <2>2 DEF Creates
    <3>2. /\ c.op = "create" => c.target \in Temp
          /\ Sets(c, Kind) => c.value \in {"user", "session"}
          /\ Attaches(c) => c.value = True
      BY <3>1 DEF WellFormed, IdsInRange
    <3>3. /\ r.op = c.op /\ r.op # "next"
          /\ r.target = IF c.target = old THEN id ELSE c.target
          /\ c.op = "create" => r = c
          /\ c.target \in Temp \cup FirstEntity .. id - 1
          /\ c.op = "set" => r.value = c.value
          /\ \A k \in {Kind, Name, Transient} : Sets(r, k) <=> Sets(c, k)
          /\ Attaches(r) <=> Attaches(c)
      BY <3>1, CreatesTodo
    <3> HIDE DEF c, r
    <3>4. r.target \in Temp \cup FirstEntity .. Bound(w2) - 1
      BY <1>1, <1>4, <3>3
    <3>5. /\ Sets(r, Kind) => r.value \in {"user", "session"}
          /\ Attaches(r) => r.value = True
      BY <3>2, <3>3 DEF Sets, Attaches
    <3> QED
      BY <3>2, <3>3, <3>4, <3>5 DEF r
  <2> QED
    BY <2>1, <2>2
<1> QED
  BY <1>1, <1>2, <1>4, <1>6, <1>7 DEF IdsInRange

LEMMA CreatesInOrder ==
    ASSUME NEW w, WellFormed(w), NEW w2, NEW old, NEW id, Creates(w, w2, old, id)
    PROVE  Ordered(w2)
<1> SUFFICES ASSUME NEW j \in DOMAIN w.todo, NEW i \in 1 .. j - 1
             PROVE  Permits(w2.todo[i], w2.todo[j])
  BY DEF Ordered, Creates
<1>1. CASE i = 1
  <2>1. w2.todo[i].op = "next"
    BY <1>1 DEF Creates, NextEntity
  <2> QED
    BY <2>1 DEF Permits, Removes, Sets, MakesSession
<1>2. CASE i # 1
  <2> DEFINE c == w.todo[i]
             d == w.todo[j]
             c2 == w2.todo[i]
             d2 == w2.todo[j]
  <2>1. w.todo \in Seq(Change)
    BY DEF WellFormed, Works
  <2>2. i \in DOMAIN w.todo \ {1} /\ j \in DOMAIN w.todo \ {1}
    <3>1. DOMAIN w.todo = 1 .. Len(w.todo) /\ Len(w.todo) \in Nat
      BY <2>1, LenProperties
    <3> QED
      BY <1>2, <3>1
  <2>3. Permits(c, d)
    BY DEF WellFormed, Ordered
  <2>4. /\ c2.op = c.op
        /\ c2.target = IF c.target = old THEN id ELSE c.target
        /\ c.target \in Temp \cup FirstEntity .. id - 1
        /\ \A k \in {Kind, Name, Transient} : Sets(c2, k) <=> Sets(c, k)
        /\ Removes(c2) <=> Removes(c)
        /\ MakesSession(c2) <=> MakesSession(c)
    BY <2>2, CreatesTodo
  <2>5. /\ d2.op = d.op
        /\ d2.target = IF d.target = old THEN id ELSE d.target
        /\ d.target \in Temp \cup FirstEntity .. id - 1
        /\ \A k \in {Kind, Name, Transient} : Sets(d2, k) <=> Sets(d, k)
        /\ Removes(d2) <=> Removes(d)
        /\ MakesSession(d2) <=> MakesSession(d)
    BY <2>2, CreatesTodo
  <2>6. id \in Nat /\ id >= FirstEntity /\ FirstEntity > 2 /\ FirstEntity \in Nat
    BY DEF Creates, FirstEntity
  <2> HIDE DEF c, d, c2, d2
  <2>7. c.target # id /\ d.target # id
    BY <2>4, <2>5, <2>6 DEF Temp
  <2>8. c2.target = d2.target => c.target = d.target
    BY <2>4, <2>5, <2>7
  <2>9. Permits(c2, d2)
    BY <2>3, <2>4, <2>5, <2>8 DEF Permits
  <2> QED
    BY <2>9 DEF c2, d2
<1> QED
  BY <1>1, <1>2

LEMMA CreatesReady ==
    ASSUME NEW w, WellFormed(w), NEW w2, NEW old, NEW id, Creates(w, w2, old, id)
    PROVE  Legal(w2)
<1>1. /\ w.state \in States /\ id \in Nat /\ id >= FirstEntity
      /\ FirstEntity > 2 /\ FirstEntity \in Nat /\ old \in Temp
      /\ w2.renamed = w.renamed /\ w.todo \in Seq(Change)
  BY DEF WellFormed, Works, Creates, FirstEntity
<1>2. /\ DOMAIN w2.state.entities = DOMAIN w.state.entities \cup {id}
      /\ w2.state.entities[id] = <<>>
      /\ \A e \in DOMAIN w.state.entities \ {id} :
            w2.state.entities[e] = w.state.entities[e]
      /\ \A x, k : Value(w2.state, x, k) =
              IF x = id THEN NoValue ELSE Value(w.state, x, k)
  <2>1. w2.state = WithEntity(w.state, id)
    BY DEF Creates
  <2> QED
    BY <1>1, <2>1, WithEntityFacts, WithEntityValue
<1>3. DOMAIN w.state.entities \subseteq FirstEntity .. id - 1
  BY DEF WellFormed, IdsInRange, Creates
<1>4. id \notin DOMAIN w.state.entities /\ old \notin DOMAIN w.state.entities
      /\ id \notin Temp
  BY <1>1, <1>3 DEF Temp
<1> SUFFICES ASSUME NEW j \in DOMAIN w.todo
             PROVE  KindReady(w2, j) /\ NameReady(w2, j) /\ AttachReady(w2, j)
  BY DEF Legal, Creates
<1>5. CASE j = 1
  <2>1. w2.todo[j].op = "next"
    BY <1>5 DEF Creates, NextEntity
  <2> QED
    BY <2>1 DEF KindReady, NameReady, AttachReady, Sets, Attaches
<1>6. CASE j # 1
  <2> DEFINE d == w.todo[j]
             d2 == w2.todo[j]
  <2>1. j \in DOMAIN w.todo \ {1}
    BY <1>6
  <2>2. /\ d2.op = d.op
        /\ d2.target = IF d.target = old THEN id ELSE d.target
        /\ d.target \in Temp \cup FirstEntity .. id - 1
        /\ d.op = "set" => d2.key = IF d.key = Attach(old) THEN Attach(id) ELSE d.key
        /\ \A k \in {Kind, Name, Transient} : Sets(d2, k) <=> Sets(d, k)
        /\ Attaches(d2) <=> Attaches(d)
    BY <2>1, CreatesTodo
  <2>3. /\ KindReady(w, j) /\ NameReady(w, j) /\ AttachReady(w, j)
    BY DEF WellFormed, Legal
  <2>4. \A i \in 1 .. j - 1 :
           /\ i \in DOMAIN w.todo
           /\ \A t : w.todo[i] = Create(t) /\ t # old => w2.todo[i] = Create(t)
           /\ \A t : w.todo[i] = Set(t, Kind, "session") =>
                 w2.todo[i] = Set(IF t = old THEN id ELSE t, Kind, "session")
    <3> TAKE i \in 1 .. j - 1
    <3>1. i \in DOMAIN w.todo
      <4>1. DOMAIN w.todo = 1 .. Len(w.todo) /\ Len(w.todo) \in Nat
        BY <1>1, LenProperties
      <4> QED
        BY <4>1
    <3>2. CASE i = 1
      <4>1. w.todo[i] = Create(old)
        BY <3>2 DEF Creates
      <4> QED
        BY <3>1, <4>1 DEF Create, Set
    <3>3. CASE i # 1
      <4> DEFINE c == w.todo[i]
                 c2 == w2.todo[i]
      <4>1. /\ c \in Change /\ c2 = Rewritten(c, old, id)
        BY <3>1, <3>3 DEF Creates
      <4>2. \A t : c = Create(t) /\ t # old => c2 = Create(t)
        BY <4>1 DEF Rewritten, Create
      <4>3. \A t : c = Set(t, Kind, "session") =>
                 c2 = Set(IF t = old THEN id ELSE t, Kind, "session")
        BY <4>1, KeyFacts DEF Rewritten, Set
      <4> QED
        BY <3>1, <4>2, <4>3
    <3> QED
      BY <3>2, <3>3
  <2>5. \A x : SessionBy(w, j, x) => SessionBy(w2, j, IF x = old THEN id ELSE x)
    <3> SUFFICES ASSUME NEW x, SessionBy(w, j, x)
                 PROVE  SessionBy(w2, j, IF x = old THEN id ELSE x)
      OBVIOUS
    <3>1. CASE Value(w.state, x, Kind) = "session"
      <4>1. x \in DOMAIN w.state.entities
        BY <3>1 DEF Value, Exists, NoValue
      <4>2. x # id /\ x # old
        BY <1>4, <4>1
      <4> QED
        BY <1>2, <3>1, <4>2 DEF SessionBy
    <3>2. CASE \E i \in 1 .. j - 1 : w.todo[i] = Set(x, Kind, "session")
      BY <2>4, <3>2 DEF SessionBy
    <3> QED
      BY <3>1, <3>2 DEF SessionBy
  <2> HIDE DEF d, d2
  <2>6. KindReady(w2, j)
    <3> SUFFICES ASSUME Sets(d, Kind)
                 PROVE  IF d2.target \in Temp
                        THEN \E i \in 1 .. j - 1 : w2.todo[i] = Create(d2.target)
                        ELSE /\ Exists(w2.state, d2.target)
                             /\ DOMAIN w2.state.entities[d2.target] = {}
      BY <2>2 DEF KindReady, d2
    <3>1. IF d.target \in Temp
          THEN \E i \in 1 .. j - 1 : w.todo[i] = Create(d.target)
          ELSE /\ Exists(w.state, d.target)
               /\ DOMAIN w.state.entities[d.target] = {}
      BY <2>3 DEF KindReady, d
    <3>2. CASE d.target = old
      BY <1>2, <1>4, <2>2, <3>2 DEF Exists
    <3>3. CASE d.target # old /\ d.target \in Temp
      BY <2>2, <2>4, <3>1, <3>3
    <3>4. CASE d.target \notin Temp
      <4>1. d2.target = d.target /\ d.target # id /\ Exists(w.state, d.target)
        BY <1>1, <1>4, <2>2, <3>1, <3>4 DEF Exists
      <4> QED
        BY <1>2, <3>1, <3>4, <4>1 DEF Exists
    <3> QED
      BY <3>2, <3>3, <3>4
  <2>7. NameReady(w2, j)
    <3> SUFFICES ASSUME Sets(d, Name)
                 PROVE  /\ w2.renamed = {}
                        /\ Exists(w2.state, d2.target)
                              => Name \notin DOMAIN w2.state.entities[d2.target]
      BY <2>2 DEF NameReady, d2
    <3>1. /\ w.renamed = {}
          /\ Exists(w.state, d.target)
                => Name \notin DOMAIN w.state.entities[d.target]
      BY <2>3 DEF NameReady, d
    <3>2. CASE d2.target = id
      <4>1. w2.state.entities[d2.target] = <<>>
        BY <1>2, <3>2
      <4> QED
        BY <1>1, <3>1, <4>1
    <3>3. CASE d2.target # id
      <4>1. d2.target = d.target
        BY <2>2, <3>3
      <4> QED
        BY <1>1, <1>2, <3>1, <3>3, <4>1 DEF Exists
    <3> QED
      BY <3>2, <3>3
  <2>8. AttachReady(w2, j)
    <3> SUFFICES ASSUME NEW x \in Nat, Attaches(d), d2.key = Attach(x)
                 PROVE  IF x \in Temp \/ x >= FirstEntity THEN SessionBy(w2, j, x)
                        ELSE \/ SessionBy(w2, j, d2.target)
                             \/ d2.target \notin Temp /\ ~Exists(w2.state, d2.target)
      BY <2>2 DEF AttachReady, d2
    <3>1. d.op = "set"
      BY DEF Attaches
    <3>2. CASE d.key = Attach(old)
      <4>1. x = id
        BY <2>2, <3>1, <3>2, KeyFacts
      <4>2. SessionBy(w, j, old)
        <5>1. old \in Nat
          BY <1>1 DEF Temp
        <5> QED
          BY <1>1, <2>3, <3>2, <5>1 DEF AttachReady, d
      <4> QED
        BY <1>1, <2>5, <4>1, <4>2
    <3>3. CASE d.key # Attach(old)
      <4>1. d.key = Attach(x) /\ x # old
        BY <2>2, <3>1, <3>3
      <4>2. IF x \in Temp \/ x >= FirstEntity THEN SessionBy(w, j, x)
            ELSE \/ SessionBy(w, j, d.target)
                 \/ d.target \notin Temp /\ ~Exists(w.state, d.target)
        BY <2>3, <4>1 DEF AttachReady, d
      <4>3. CASE x \in Temp \/ x >= FirstEntity
        BY <2>5, <4>1, <4>2, <4>3
      <4>4. CASE ~(x \in Temp \/ x >= FirstEntity) /\ SessionBy(w, j, d.target)
        BY <2>2, <2>5, <4>4
      <4>5. CASE /\ ~(x \in Temp \/ x >= FirstEntity)
                 /\ d.target \notin Temp /\ ~Exists(w.state, d.target)
        <5>1. d2.target = d.target /\ d.target # id
          BY <1>1, <2>2, <4>5
        <5> QED
          BY <1>2, <4>5, <5>1 DEF Exists
      <4> QED
        BY <4>2, <4>3, <4>4, <4>5
    <3> QED
      BY <3>2, <3>3
  <2> QED
    BY <2>6, <2>7, <2>8
<1> QED
  BY <1>5, <1>6

-----------------------------------------------------------------------------
(* Rounds that remove something leave nothing but removals.                *)
LEMMA OnlyRemovals ==
    ASSUME NEW w, WellFormed(w), w.todo # <<>>, Removes(Head(w.todo))
    PROVE  \A d \in ToSet(w.todo) :
              Removes(d) /\ d.target \in Temp \cup FirstEntity .. w.state.next - 1
<1>1. w \in Works /\ w.todo \in Seq(Change)
  BY DEF WellFormed, Works
<1>2. Head(w.todo) = w.todo[1] /\ 1 \in DOMAIN w.todo
  BY <1>1, HeadFacts
<1>3. w.todo[1].op # "next"
  BY <1>2 DEF Removes
<1>4. Bound(w) = w.state.next
  BY <1>3 DEF Bound
<1> SUFFICES ASSUME NEW i \in DOMAIN w.todo
             PROVE  /\ Removes(w.todo[i])
                    /\ w.todo[i].target \in Temp \cup FirstEntity .. w.state.next - 1
  BY DEF ToSet
<1>5. Removes(w.todo[i])
  <2>1. CASE i = 1
    BY <1>2, <2>1
  <2>2. CASE i # 1
    <3>1. i \in Nat \ {0}
      BY <1>1, LenProperties
    <3>2. 1 \in 1 .. i - 1
      BY <2>2, <3>1
    <3>3. Permits(w.todo[1], w.todo[i])
      BY <3>2 DEF WellFormed, Ordered
    <3> QED
      BY <1>2, <3>3 DEF Permits
  <2> QED
    BY <2>1, <2>2
<1>6. w.todo[i].op \in {"delete", "set"}
  BY <1>5 DEF Removes
<1> QED
  BY <1>4, <1>5, <1>6 DEF WellFormed, IdsInRange

LEMMA RemovalsWellFormed ==
    ASSUME NEW w, w \in Works, FirstEntity <= w.state.next,
           DOMAIN w.state.entities \subseteq FirstEntity .. w.state.next - 1,
           \A d \in ToSet(w.todo) :
              Removes(d) /\ d.target \in Temp \cup FirstEntity .. w.state.next - 1
    PROVE  WellFormed(w)
<1>1. ASSUME NEW i \in DOMAIN w.todo
      PROVE  /\ Removes(w.todo[i]) /\ w.todo[i].op \notin {"create", "next"}
             /\ ~Sets(w.todo[i], Kind) /\ ~Sets(w.todo[i], Name)
             /\ ~Attaches(w.todo[i]) /\ ~MakesSession(w.todo[i])
             /\ w.todo[i].target \in Temp \cup FirstEntity .. w.state.next - 1
  <2>1. w.todo[i] \in ToSet(w.todo)
    BY DEF ToSet
  <2>2. Removes(w.todo[i])
    BY <2>1
  <2> QED
    BY <2>1, <2>2, KeyFacts DEF Removes, Sets, Attaches, MakesSession
<1>2. w.todo \in Seq(Change)
  BY DEF Works
<1>3. w.todo # <<>> => 1 \in DOMAIN w.todo
  BY <1>2, EmptySeq, LenProperties
<1>4. Bound(w) = w.state.next
  BY <1>1, <1>3 DEF Bound
<1>5. IdsInRange(w)
  BY <1>1, <1>4 DEF IdsInRange
<1>6. Ordered(w)
  <2> SUFFICES ASSUME NEW j \in DOMAIN w.todo, NEW i \in 1 .. j - 1
               PROVE  Permits(w.todo[i], w.todo[j])
    BY DEF Ordered
  <2>1. DOMAIN w.todo = 1 .. Len(w.todo) /\ Len(w.todo) \in Nat
    BY <1>2, LenProperties
  <2>2. i \in DOMAIN w.todo
    BY <2>1
  <2> QED
    BY <1>1, <2>2 DEF Permits
<1>7. Legal(w)
  BY <1>1 DEF Legal, KindReady, NameReady, AttachReady
<1> QED
  BY <1>5, <1>6, <1>7 DEF WellFormed

LEMMA ExpireWellFormed ==
    ASSUME NEW w, WellFormed(w), w.todo # <<>>, NEW w2, ExpireRound(w, w2)
    PROVE  WellFormed(w2)
<1>1. /\ w2 \in Works /\ Assigns(w, w2.state)
      /\ ToSet(w2.todo) = {Delete(Head(w.todo).target)} \cup ToSet(Tail(w.todo))
  BY ExpireShape
<1>2. Removes(Head(w.todo)) /\ Head(w.todo).op = "set"
  BY DEF ExpireRound
<1>3. \A d \in ToSet(w.todo) :
         Removes(d) /\ d.target \in Temp \cup FirstEntity .. w.state.next - 1
  BY <1>2, OnlyRemovals
<1>4. ToSet(w.todo) = {Head(w.todo)} \cup ToSet(Tail(w.todo))
  BY HeadFacts DEF WellFormed
<1>5. w2.state.next = w.state.next /\ DOMAIN w2.state.entities = DOMAIN w.state.entities
  BY <1>1 DEF Assigns, Assigned
<1>6. /\ Bound(w) = w.state.next /\ w.state.next >= FirstEntity
      /\ w.state.next \in Nat /\ FirstEntity \in Nat
  BY <1>2, HeadBound
<1>7. \A d \in ToSet(w2.todo) :
         Removes(d) /\ d.target \in Temp \cup FirstEntity .. w2.state.next - 1
  <2>1. Removes(Delete(Head(w.todo).target))
    BY DEF Removes, Delete
  <2>2. Delete(Head(w.todo).target).target = Head(w.todo).target
    BY DEF Delete
  <2> QED
    BY <1>1, <1>3, <1>4, <1>5, <2>1, <2>2
<1>8. DOMAIN w2.state.entities \subseteq FirstEntity .. w2.state.next - 1
  BY <1>5, <1>6 DEF WellFormed, IdsInRange
<1> QED
  BY <1>1, <1>5, <1>6, <1>7, <1>8, RemovalsWellFormed

LEMMA DeleteWellFormed ==
    ASSUME NEW w, WellFormed(w), w.todo # <<>>, NEW w2, DeleteRound(w, w2)
    PROVE  WellFormed(w2)
<1> DEFINE t == Head(w.todo).target
<1>1. /\ w2 \in Works /\ w2.state = WithoutEntity(w.state, t)
      /\ ToSet(w2.todo) = {Set(e, Attach(t), NoValue) : e \in AllAttachedTo(w.state, t)}
                          \cup ToSet(Tail(w.todo))
  BY DeleteShape
<1>2. Removes(Head(w.todo)) /\ Head(w.todo).op = "delete"
  BY DEF DeleteRound, Removes
<1>3. \A d \in ToSet(w.todo) :
         Removes(d) /\ d.target \in Temp \cup FirstEntity .. w.state.next - 1
  BY <1>2, OnlyRemovals
<1>4. ToSet(w.todo) = {Head(w.todo)} \cup ToSet(Tail(w.todo))
  BY HeadFacts DEF WellFormed
<1>5. /\ w2.state.next = w.state.next
      /\ DOMAIN w2.state.entities = DOMAIN w.state.entities \ {t}
  <2>1. w.state \in States
    BY DEF WellFormed, Works
  <2> HIDE DEF t
  <2> QED
    BY <1>1, <2>1, WithoutEntityFacts
<1>6. /\ Bound(w) = w.state.next /\ w.state.next >= FirstEntity
      /\ w.state.next \in Nat /\ FirstEntity \in Nat
  BY <1>2, HeadBound
<1>7. /\ DOMAIN w.state.entities \subseteq FirstEntity .. w.state.next - 1
      /\ DOMAIN w2.state.entities \subseteq FirstEntity .. w2.state.next - 1
  BY <1>5, <1>6 DEF WellFormed, IdsInRange
<1> HIDE DEF t
<1>8. \A d \in ToSet(w2.todo) :
         Removes(d) /\ d.target \in Temp \cup FirstEntity .. w2.state.next - 1
  <2> SUFFICES ASSUME NEW e \in AllAttachedTo(w.state, t)
               PROVE  /\ Removes(Set(e, Attach(t), NoValue))
                      /\ Set(e, Attach(t), NoValue).target
                            \in Temp \cup FirstEntity .. w2.state.next - 1
    BY <1>1, <1>3, <1>4, <1>5
  <2>1. Removes(Set(e, Attach(t), NoValue))
    BY KeyFacts DEF Removes, Set
  <2>2. Set(e, Attach(t), NoValue).target = e
    BY DEF Set
  <2>3. e \in DOMAIN w.state.entities
    BY DEF AllAttachedTo
  <2> QED
    BY <1>5, <1>7, <2>1, <2>2, <2>3
<1> QED
  BY <1>1, <1>5, <1>6, <1>8, <1>7, RemovalsWellFormed

(* Every round of applyChanges keeps its list well formed.                 *)
LEMMA RoundWellFormed ==
    ASSUME NEW w, WellFormed(w)
    PROVE  WellFormed(ApplyChange(w, FALSE))
<1> DEFINE w2 == ApplyChange(w, FALSE)
<1>1. CASE w.todo = <<>>
  BY <1>1 DEF ApplyChange
<1>2. CASE w.todo # <<>>
  <2>1. \/ NextRound(w, w2) \/ CreateRound(w, w2) \/ DeleteRound(w, w2)
        \/ DropRound(w, w2) \/ SetRound(w, w2) \/ ExpireRound(w, w2)
    BY <1>2, RoundCases
  <2> HIDE DEF w2
  <2>2. CASE Takes(w, w2)
    <3>1. w2 \in Works
      BY <2>2 DEF Takes
    <3>2. IdsInRange(w2) /\ Ordered(w2) /\ Legal(w2)
      BY <1>2, <2>2, TakesInRange, TakesInOrder, TakesReady
    <3> QED
      BY <3>1, <3>2 DEF WellFormed, w2
  <2>3. CASE CreateRound(w, w2)
    <3>1. Creates(w, w2, Head(w.todo).target, w.state.next)
      BY <1>2, <2>3, CreateShape
    <3>2. w2 \in Works
      BY <3>1 DEF Creates
    <3>3. IdsInRange(w2) /\ Ordered(w2) /\ Legal(w2)
      BY <3>1, CreatesInRange, CreatesInOrder, CreatesReady
    <3> QED
      BY <3>2, <3>3 DEF WellFormed, w2
  <2> QED
    BY <1>2, <2>1, <2>2, <2>3, NextTakes, DropTakes, SetTakes, ExpireWellFormed,
       DeleteWellFormed DEF w2
<1> QED
  BY <1>1, <1>2

-----------------------------------------------------------------------------
(* What a round does to values and to the two lists as sets.               *)
LEMMA ValueThere ==
    ASSUME NEW st \in States, NEW e, NEW k
    PROVE  Value(st, e, k) # NoValue <=>
              Exists(st, e) /\ k \in DOMAIN st.entities[e]
BY StateFacts DEF Value, Exists, Stored

LEMMA AttachedValue ==
    ASSUME NEW st \in States, NEW e, NEW x
    PROVE  /\ e \in AllAttachedTo(st, x) <=> Value(st, e, Attach(x)) # NoValue
           /\ Exists(st, e) =>
                 (x \in AllAttached(st, e) <=>
                     x \in Nat /\ Value(st, e, Attach(x)) # NoValue)
BY ValueThere, AttachedFacts DEF AllAttachedTo, Exists

LEMMA OfKindValue ==
    ASSUME NEW st, NEW e, NEW kind, kind # NoValue
    PROVE  e \in OfKind(st, kind) <=> Value(st, e, Kind) = kind
BY DEF OfKind, Value, Exists

SameValues(w, w2) ==
    /\ \A x, k : Value(w2.state, x, k) = Value(w.state, x, k)
    /\ \A e : Exists(w2.state, e) <=> Exists(w.state, e)

Idles(w, c, w2) ==
    /\ SameValues(w, w2)
    /\ ToSet(w.todo) = {c} \cup ToSet(w2.todo)
    /\ ToSet(w.done) \subseteq ToSet(w2.done)
    /\ ToSet(w2.done) \subseteq
          IF c.op = "next" THEN ToSet(w.done) \cup {c} ELSE ToSet(w.done)
    /\ ~Sets(c, Kind)
    /\ \/ c.op = "next"
       \/ c.op = "set" /\ ~Exists(w.state, c.target)
       \/ Sets(c, Name)

Assigning(w, c, w2) ==
    /\ c \in Change /\ c = Set(c.target, c.key, c.value)
    /\ c.op = "set" /\ c.key \in Key
    /\ Exists(w.state, c.target)
    /\ \A x, k : Value(w2.state, x, k) =
          IF x = c.target /\ k = c.key THEN c.value ELSE Value(w.state, x, k)
    /\ \A e : Exists(w2.state, e) <=> Exists(w.state, e)
    /\ ToSet(w2.done) = ToSet(w.done) \cup {c}
    /\ ToSet(w.todo) \subseteq {c} \cup ToSet(w2.todo)
    /\ ToSet(w2.todo) \subseteq {Delete(c.target)} \cup ToSet(Tail(w.todo))
    /\ ToSet(Tail(w.todo)) \subseteq ToSet(w.todo)
    /\ Sets(c, Name) =>
          Named(w.state, Value(w.state, c.target, Kind), c.value)
              \subseteq {c.target}

Deleting(w, c, w2) ==
    /\ c = Delete(c.target)
    /\ \A x, k : Value(w2.state, x, k) =
          IF x = c.target THEN NoValue ELSE Value(w.state, x, k)
    /\ \A e : Exists(w2.state, e) <=> Exists(w.state, e) /\ e # c.target
    /\ ToSet(w2.done) = ToSet(w.done) \cup {c}
    /\ ToSet(w.todo) = {c} \cup ToSet(Tail(w.todo))
    /\ ToSet(w2.todo) =
          {Set(e, Attach(c.target), NoValue) :
              e \in AllAttachedTo(w.state, c.target)}
          \cup ToSet(Tail(w.todo))

Creating(w, w2) ==
    \E old \in Temp, id \in Nat :
        /\ id = w.state.next
        /\ Creates(w, w2, old, id)
        /\ \A x, k : Value(w2.state, x, k) = Value(w.state, x, k)
        /\ \A e : Exists(w2.state, e) <=> Exists(w.state, e) \/ e = id
        /\ ToSet(w2.done) = ToSet(w.done) \cup {Create(id)}
        /\ \A c \in ToSet(w.todo) :
              \/ c.op = "create"
              \/ Rewritten(c, old, id) \in ToSet(w2.todo)
        /\ \A c \in ToSet(w2.todo) :
              \/ c.op = "next"
              \/ \E d \in ToSet(w.todo) : d \in Change /\ c = Rewritten(d, old, id)

LEMMA HeadDigest ==
    ASSUME NEW w, WellFormed(w), w.todo # <<>>, NEW c, c = Head(w.todo)
    PROVE  /\ w \in Works /\ w.state \in States /\ w.state.next \in Nat
           /\ c \in Change /\ c = w.todo[1]
           /\ ToSet(w.todo) = {c} \cup ToSet(Tail(w.todo))
           /\ ToSet(Append(w.done, c)) = ToSet(w.done) \cup {c}
<1>1. w \in Works /\ w.state \in States
  BY DEF WellFormed, Works
<1> QED
  BY <1>1, HeadFacts, StateFacts

LEMMA DigestNext ==
    ASSUME NEW w, WellFormed(w), w.todo # <<>>, NEW c, c = Head(w.todo),
           NEW w2, NextRound(w, w2)
    PROVE  w2.state.next >= w.state.next /\ Idles(w, c, w2)
<1>1. /\ w \in Works /\ w.state \in States /\ w.state.next \in Nat
      /\ c \in Change /\ c = w.todo[1]
      /\ ToSet(w.todo) = {c} \cup ToSet(Tail(w.todo))
      /\ ToSet(Append(w.done, c)) = ToSet(w.done) \cup {c}
  BY HeadDigest
<1>2. /\ w2.todo = Tail(w.todo) /\ w2.done = Append(w.done, c)
      /\ w2.state.entities = w.state.entities
      /\ w2.state.next = w.state.next + 1 /\ c.op = "next"
  BY NextShape DEF NextRound
<1>3. SameValues(w, w2)
  BY <1>2 DEF SameValues, Value, Exists
<1>4. Idles(w, c, w2)
  BY <1>1, <1>2, <1>3 DEF Idles, Sets
<1> QED
  BY <1>1, <1>2, <1>4

LEMMA DigestDrop ==
    ASSUME NEW w, WellFormed(w), w.todo # <<>>, NEW c, c = Head(w.todo),
           NEW w2, DropRound(w, w2)
    PROVE  w2.state.next >= w.state.next /\ Idles(w, c, w2)
<1>1. /\ w \in Works /\ w.state \in States /\ w.state.next \in Nat
      /\ c \in Change /\ c = w.todo[1]
      /\ ToSet(w.todo) = {c} \cup ToSet(Tail(w.todo))
      /\ ToSet(Append(w.done, c)) = ToSet(w.done) \cup {c}
  BY HeadDigest
<1>2. /\ w2.todo = Tail(w.todo) /\ w2.done = w.done /\ w2.state = w.state
      /\ ~Sets(c, Kind) /\ c.op = "set"
      /\ ~Exists(w.state, c.target) \/ Sets(c, Name)
  BY DropShape DEF DropRound
<1>3. SameValues(w, w2)
  BY <1>2 DEF SameValues
<1>4. Idles(w, c, w2)
  BY <1>1, <1>2, <1>3 DEF Idles
<1> QED
  BY <1>1, <1>2, <1>4

LEMMA DigestSet ==
    ASSUME NEW w, WellFormed(w), w.todo # <<>>, NEW c, c = Head(w.todo),
           NEW w2, SetRound(w, w2) \/ ExpireRound(w, w2)
    PROVE  w2.state.next >= w.state.next /\ Assigning(w, c, w2)
<1>1. /\ w \in Works /\ w.state \in States /\ w.state.next \in Nat
      /\ c \in Change /\ c = w.todo[1]
      /\ ToSet(w.todo) = {c} \cup ToSet(Tail(w.todo))
      /\ ToSet(Append(w.done, c)) = ToSet(w.done) \cup {c}
  BY HeadDigest
<1>2. /\ w2.done = Append(w.done, c) /\ Assigns(w, w2.state)
      /\ c.op = "set" /\ Exists(w.state, c.target)
  BY SetShape, ExpireShape DEF SetRound, ExpireRound
<1>3. /\ ToSet(Tail(w.todo)) \subseteq ToSet(w2.todo)
      /\ ToSet(w2.todo) \subseteq {Delete(c.target)} \cup ToSet(Tail(w.todo))
  BY SetShape, ExpireShape
<1>4. Sets(c, Name) =>
            Named(w.state, Value(w.state, c.target, Kind), c.value)
                \subseteq {c.target}
  BY KeyFacts DEF SetRound, ExpireRound, Removes, Sets
<1>5. Assigned(w.state, c.target, c.key, c.value, w2.state)
  BY <1>2 DEF Assigns
<1>6. c.target \in DOMAIN w.state.entities
  BY <1>2 DEF Exists
<1>7. \A x, k : Value(w2.state, x, k) =
         IF x = c.target /\ k = c.key THEN c.value ELSE Value(w.state, x, k)
  BY <1>5, <1>6, AssignedValue
<1>8. /\ w2.state.next = w.state.next
      /\ \A e : Exists(w2.state, e) <=> Exists(w.state, e)
  BY <1>5 DEF Assigned, Exists
<1>9. c = Set(c.target, c.key, c.value) /\ c.key \in Key
  BY <1>1, <1>2, ChangeFacts
<1>10. Assigning(w, c, w2)
  BY <1>1, <1>2, <1>3, <1>4, <1>7, <1>8, <1>9 DEF Assigning
<1> QED
  BY <1>1, <1>8, <1>10

LEMMA DigestDelete ==
    ASSUME NEW w, WellFormed(w), w.todo # <<>>, NEW c, c = Head(w.todo),
           NEW w2, DeleteRound(w, w2)
    PROVE  w2.state.next >= w.state.next /\ Deleting(w, c, w2)
<1>1. /\ w \in Works /\ w.state \in States /\ w.state.next \in Nat
      /\ c \in Change /\ c = w.todo[1]
      /\ ToSet(w.todo) = {c} \cup ToSet(Tail(w.todo))
      /\ ToSet(Append(w.done, c)) = ToSet(w.done) \cup {c}
  BY HeadDigest
<1>2. /\ w2.done = Append(w.done, c) /\ c.op = "delete"
      /\ w2.state = WithoutEntity(w.state, c.target)
      /\ ToSet(w2.todo) =
            {Set(e, Attach(c.target), NoValue) :
                e \in AllAttachedTo(w.state, c.target)}
            \cup ToSet(Tail(w.todo))
  <2>1. c.op = "delete"
    BY DEF DeleteRound
  <2> QED
    BY <2>1, DeleteShape
<1>3. c = Delete(c.target)
  BY <1>1, <1>2, ChangeFacts
<1>4. \A x, k : Value(w2.state, x, k) =
            IF x = c.target THEN NoValue ELSE Value(w.state, x, k)
  BY <1>1, <1>2, WithoutValue
<1>5. DOMAIN w2.state.entities = DOMAIN w.state.entities \ {c.target}
      /\ w2.state.next = w.state.next
  BY <1>1, <1>2, WithoutEntityFacts
<1>6. Deleting(w, c, w2)
  BY <1>1, <1>2, <1>3, <1>4, <1>5 DEF Deleting, Exists
<1> QED
  BY <1>1, <1>5, <1>6

LEMMA DigestCreate ==
    ASSUME NEW w, WellFormed(w), w.todo # <<>>, NEW c, c = Head(w.todo),
           NEW w2, CreateRound(w, w2)
    PROVE  w2.state.next >= w.state.next /\ Creating(w, w2)
<1>1. /\ w \in Works /\ w.state \in States /\ w.state.next \in Nat
      /\ c \in Change /\ c = w.todo[1]
      /\ ToSet(w.todo) = {c} \cup ToSet(Tail(w.todo))
      /\ ToSet(Append(w.done, c)) = ToSet(w.done) \cup {c}
  BY HeadDigest
<1> DEFINE old == c.target
           id == w.state.next
<1>2. Creates(w, w2, old, id)
  BY CreateShape
<1>3. old \in Temp /\ id \in Nat /\ w2.state = WithEntity(w.state, id)
      /\ w.todo[1] = Create(old)
  BY <1>2 DEF Creates
<1> HIDE DEF old
<1>4. \A x, k : Value(WithEntity(w.state, id), x, k) =
            IF x = id THEN NoValue ELSE Value(w.state, x, k)
  BY <1>1, WithEntityValue
<1>5. /\ DOMAIN WithEntity(w.state, id).entities = DOMAIN w.state.entities \cup {id}
      /\ WithEntity(w.state, id).next = w.state.next
  BY <1>1, WithEntityFacts
<1>6. ~Exists(w.state, id)
  <2>1. DOMAIN w.state.entities \subseteq FirstEntity .. id - 1
    BY <1>2 DEF WellFormed, IdsInRange, Creates
  <2> QED
    BY <1>1, <2>1 DEF Exists, FirstEntity
<1>7. \A x, k : Value(w2.state, x, k) = Value(w.state, x, k)
  BY <1>3, <1>4, <1>6 DEF Value
<1>8. \A e : Exists(w2.state, e) <=> Exists(w.state, e) \/ e = id
  BY <1>3, <1>5 DEF Exists
<1>9. ToSet(w2.done) = ToSet(w.done) \cup {Create(id)}
  <2>1. w2.done = Append(w.done, Create(id)) /\ w.done \in Seq(Change)
    BY <1>1, <1>2 DEF Creates, Works
  <2> DEFINE a == Append(w.done, Create(id))
  <2>2. Create(id) \in Change
    BY <1>3, ChangesMade
  <2>3. /\ a \in Seq(Change) /\ Len(a) = Len(w.done) + 1
        /\ \A i \in 1 .. Len(w.done) : a[i] = w.done[i]
        /\ a[Len(w.done) + 1] = Create(id)
        /\ Len(w.done) \in Nat /\ DOMAIN w.done = 1 .. Len(w.done)
    BY <2>1, <2>2, AppendProperties, LenProperties
  <2> HIDE DEF a
  <2>4. DOMAIN a = 1 .. Len(w.done) + 1
    BY <2>3, LenProperties
  <2>5. ToSet(a) = ToSet(w.done) \cup {Create(id)}
    BY <2>3, <2>4 DEF ToSet
  <2> QED
    BY <2>1, <2>5 DEF a
<1>10. \A d \in ToSet(w.todo) :
            d.op = "create" \/ Rewritten(d, old, id) \in ToSet(w2.todo)
  <2> SUFFICES ASSUME NEW i \in DOMAIN w.todo, w.todo[i].op # "create"
               PROVE  Rewritten(w.todo[i], old, id) \in ToSet(w2.todo)
    BY DEF ToSet
  <2>1. i # 1
    BY <1>3 DEF Create
  <2>2. w2.todo[i] = Rewritten(w.todo[i], old, id) /\ i \in DOMAIN w2.todo
    BY <1>2, <2>1 DEF Creates
  <2> QED
    BY <2>2 DEF ToSet
<1>11. \A d \in ToSet(w2.todo) :
            \/ d.op = "next"
            \/ \E e \in ToSet(w.todo) : e \in Change /\ d = Rewritten(e, old, id)
  <2> SUFFICES ASSUME NEW i \in DOMAIN w2.todo, w2.todo[i].op # "next"
               PROVE  \E e \in ToSet(w.todo) :
                          e \in Change /\ w2.todo[i] = Rewritten(e, old, id)
    BY DEF ToSet
  <2>1. i # 1
    BY <1>2 DEF Creates, NextEntity
  <2>2. /\ i \in DOMAIN w.todo /\ w.todo[i] \in Change
        /\ w2.todo[i] = Rewritten(w.todo[i], old, id)
    BY <1>2, <2>1 DEF Creates
  <2> QED
    BY <2>2 DEF ToSet
<1>12. Creating(w, w2)
  BY <1>2, <1>3, <1>7, <1>8, <1>9, <1>10, <1>11 DEF Creating
<1> QED
  BY <1>1, <1>3, <1>5, <1>12

LEMMA RoundDigest ==
    ASSUME NEW w, WellFormed(w), w.todo # <<>>,
           NEW c, c = Head(w.todo), NEW w2, w2 = ApplyChange(w, FALSE)
    PROVE  /\ w2.state.next >= w.state.next
           /\ \/ Idles(w, c, w2) \/ Assigning(w, c, w2)
              \/ Deleting(w, c, w2) \/ Creating(w, w2)
BY RoundCases, DigestNext, DigestDrop, DigestSet, DigestDelete, DigestCreate

LEMMA HeadReady ==
    ASSUME NEW w, WellFormed(w), w.todo # <<>>, NEW c, c = Head(w.todo)
    PROVE  /\ c \in Change /\ c \in ToSet(w.todo) /\ w.state \in States
           /\ c.op \in {"delete", "set"} =>
                 c.target \in Temp \/ c.target >= FirstEntity
           /\ Sets(c, Kind) =>
                 /\ Exists(w.state, c.target)
                 /\ c.value \in {"user", "session"}
                 /\ \A k : Value(w.state, c.target, k) = NoValue
           /\ Attaches(c) => c.value = True
           /\ \A x \in Nat :
                 Attaches(c) /\ c.key = Attach(x) =>
                     IF x \in Temp \/ x >= FirstEntity
                     THEN Value(w.state, x, Kind) = "session"
                     ELSE \/ Value(w.state, c.target, Kind) = "session"
                          \/ c.target \notin Temp /\ ~Exists(w.state, c.target)
           /\ \A e : Exists(w.state, e) =>
                 e \in Nat /\ e >= FirstEntity /\ e \notin Temp
           /\ \A d \in ToSet(Tail(w.todo)) : Permits(c, d)
<1>1. /\ w \in Works /\ w.state \in States
      /\ c \in Change /\ c = w.todo[1] /\ 1 \in DOMAIN w.todo
      /\ ToSet(w.todo) = {c} \cup ToSet(Tail(w.todo))
      /\ \A i \in DOMAIN Tail(w.todo) :
            i + 1 \in DOMAIN w.todo /\ Tail(w.todo)[i] = w.todo[i + 1] /\ i \in Nat \ {0}
  BY HeadFacts DEF WellFormed, Works
<1>2. \A e : Exists(w.state, e) => e \in Nat /\ e >= FirstEntity /\ e \notin Temp
  <2>1. w.state.next \in Nat /\ Bound(w) \in Nat
    BY HeadBound
  <2>2. DOMAIN w.state.entities \subseteq FirstEntity .. Bound(w) - 1
    BY DEF WellFormed, IdsInRange
  <2> QED
    BY <2>1, <2>2 DEF Exists, FirstEntity, Temp
<1>3. \A i \in 1 .. 1 - 1 : FALSE
  OBVIOUS
<1>4. KindReady(w, 1) /\ AttachReady(w, 1)
  BY <1>1 DEF WellFormed, Legal
<1>5. Sets(c, Kind) =>
         /\ Exists(w.state, c.target)
         /\ \A k : Value(w.state, c.target, k) = NoValue
  BY <1>1, <1>3, <1>4 DEF KindReady, Value
<1>6. \A x : SessionBy(w, 1, x) <=> Value(w.state, x, Kind) = "session"
  BY <1>3 DEF SessionBy
<1>7. \A x \in Nat :
                 Attaches(c) /\ c.key = Attach(x) =>
                     IF x \in Temp \/ x >= FirstEntity
                     THEN Value(w.state, x, Kind) = "session"
                     ELSE \/ Value(w.state, c.target, Kind) = "session"
                          \/ c.target \notin Temp /\ ~Exists(w.state, c.target)
  BY <1>1, <1>4, <1>6 DEF AttachReady
<1>8. \A d \in ToSet(Tail(w.todo)) : Permits(c, d)
  <2> SUFFICES ASSUME NEW i \in DOMAIN Tail(w.todo)
               PROVE  Permits(w.todo[1], w.todo[i + 1])
    BY <1>1 DEF ToSet
  <2>1. i + 1 \in DOMAIN w.todo /\ 1 \in 1 .. (i + 1) - 1
    BY <1>1
  <2> QED
    BY <2>1 DEF WellFormed, Ordered
<1>9. /\ Sets(c, Kind) => c.value \in {"user", "session"}
      /\ Attaches(c) => c.value = True
  BY <1>1 DEF WellFormed, IdsInRange
<1>10. c.op \in {"delete", "set"} => c.target \in Temp \/ c.target >= FirstEntity
  <2>1. c.op \in {"delete", "set"} =>
           c.target \in Temp \cup FirstEntity .. Bound(w) - 1
    BY <1>1 DEF WellFormed, IdsInRange
  <2>2. Bound(w) \in Nat /\ FirstEntity \in Nat
    BY HeadBound
  <2> QED
    BY <2>1, <2>2
<1> QED
  BY <1>1, <1>2, <1>5, <1>7, <1>8, <1>9, <1>10

LEMMA CreatingTodo ==
    ASSUME NEW w, NEW w2, Creating(w, w2)
    PROVE  \E old \in Temp, id \in Nat :
              /\ id = w.state.next /\ id >= FirstEntity
              /\ \A c \in ToSet(w.todo) :
                    \/ c.op = "create"
                    \/ Rewritten(c, old, id) \in ToSet(w2.todo)
              /\ \A c \in ToSet(w2.todo) :
                    \/ c.op = "next"
                    \/ \E d \in ToSet(w.todo) :
                          /\ d \in Change /\ c = Rewritten(d, old, id)
                          /\ c.op = d.op
                          /\ c.target = IF d.target = old THEN id ELSE d.target
                          /\ d.op = "set" =>
                                /\ c.value = d.value
                                /\ c.key = IF d.key = Attach(old)
                                           THEN Attach(id) ELSE d.key
                          /\ \A k \in {Kind, Name} : Sets(c, k) <=> Sets(d, k)
                          /\ MakesSession(c) <=> MakesSession(d)
<1>1. PICK old \in Temp, id \in Nat :
        /\ id = w.state.next /\ Creates(w, w2, old, id)
        /\ \A c \in ToSet(w.todo) :
              \/ c.op = "create"
              \/ Rewritten(c, old, id) \in ToSet(w2.todo)
        /\ \A c \in ToSet(w2.todo) :
              \/ c.op = "next"
              \/ \E d \in ToSet(w.todo) : d \in Change /\ c = Rewritten(d, old, id)
  BY DEF Creating
<1>2. id >= FirstEntity
  BY <1>1 DEF Creates
<1>3. ASSUME NEW d \in Change
      PROVE LET c == Rewritten(d, old, id) IN
                          /\ c.op = d.op
                          /\ c.target = IF d.target = old THEN id ELSE d.target
                          /\ d.op = "set" =>
                                /\ c.value = d.value
                                /\ c.key = IF d.key = Attach(old)
                                           THEN Attach(id) ELSE d.key
                          /\ \A k \in {Kind, Name} : Sets(c, k) <=> Sets(d, k)
                          /\ MakesSession(c) <=> MakesSession(d)
  BY RewrittenFacts
<1> QED
  BY <1>1, <1>2, <1>3

-----------------------------------------------------------------------------
(* Entities that state st has keep their kind and name, and none returns;  *)
(* kinds and names are set only for new ones.                              *)
Kept(st, w) ==
    /\ st.next <= w.state.next
    /\ \A e : Exists(w.state, e) /\ e < st.next =>
          /\ Exists(st, e)
          /\ Value(w.state, e, Kind) = Value(st, e, Kind)
          /\ Value(w.state, e, Name) = Value(st, e, Name)
    /\ \A c \in ToSet(w.todo) :
          Sets(c, Kind) \/ Sets(c, Name) => c.target \in Temp \/ c.target >= st.next

Digest(w, c, w2) ==
    /\ w2.state.next >= w.state.next
    /\ Idles(w, c, w2) \/ Assigning(w, c, w2) \/ Deleting(w, c, w2) \/ Creating(w, w2)

LEMMA KeptRound ==
    ASSUME NEW st \in States, NEW w, WellFormed(w), w.todo # <<>>,
           NEW c, c = Head(w.todo), NEW w2, w2.state \in States,
           Digest(w, c, w2), Kept(st, w)
    PROVE  Kept(st, w2)
<1>1. st.next \in Nat /\ w.state.next \in Nat /\ w2.state.next \in Nat
  BY HeadReady, StateFacts
<1>2. st.next <= w2.state.next
  BY <1>1 DEF Kept, Digest
<1>3. CASE Idles(w, c, w2)
  BY <1>2, <1>3 DEF Idles, SameValues, Kept
<1>4. CASE Assigning(w, c, w2)
  <2>1. ASSUME NEW e, Exists(w.state, e), e < st.next
        PROVE  ~(e = c.target /\ c.key \in {Kind, Name})
    <3>1. c \in ToSet(w.todo) /\ e \in Nat /\ e \notin Temp
      BY <2>1, HeadReady
    <3>2. e = c.target /\ c.key \in {Kind, Name} => e >= st.next
      BY <1>4, <3>1 DEF Assigning, Kept, Sets
    <3> QED
      BY <1>1, <2>1, <3>1, <3>2
  <2>2. \A e : Exists(w2.state, e) /\ e < st.next =>
          /\ Exists(st, e)
          /\ Value(w2.state, e, Kind) = Value(st, e, Kind)
          /\ Value(w2.state, e, Name) = Value(st, e, Name)
    BY <1>4, <2>1 DEF Assigning, Kept
  <2>3. \A d \in ToSet(w2.todo) : d \in ToSet(w.todo) \/ d = Delete(c.target)
    BY <1>4 DEF Assigning
  <2> QED
    BY <1>2, <2>2, <2>3 DEF Kept, Sets, Delete
<1>5. CASE Deleting(w, c, w2)
  <2>1. \A d \in ToSet(w2.todo) :
           d \in ToSet(w.todo) \/ \E e : d = Set(e, Attach(c.target), NoValue)
    BY <1>5 DEF Deleting
  <2>2. \A e : ~Sets(Set(e, Attach(c.target), NoValue), Kind)
               /\ ~Sets(Set(e, Attach(c.target), NoValue), Name)
    BY KeyFacts DEF Sets, Set
  <2>3. \A e : Exists(w2.state, e) /\ e < st.next =>
          /\ Exists(st, e)
          /\ Value(w2.state, e, Kind) = Value(st, e, Kind)
          /\ Value(w2.state, e, Name) = Value(st, e, Name)
    BY <1>5 DEF Deleting, Kept
  <2> QED
    BY <1>2, <2>1, <2>2, <2>3 DEF Kept
<1>6. CASE Creating(w, w2)
  <2>1. \A e : Exists(w2.state, e) /\ e < st.next => Exists(w.state, e)
    BY <1>1, <1>6 DEF Creating, Kept
  <2>2. \A e : Exists(w2.state, e) /\ e < st.next =>
          /\ Exists(st, e)
          /\ Value(w2.state, e, Kind) = Value(st, e, Kind)
          /\ Value(w2.state, e, Name) = Value(st, e, Name)
    BY <1>6, <2>1 DEF Creating, Kept
  <2>3. \A d \in ToSet(w2.todo) :
          Sets(d, Kind) \/ Sets(d, Name) => d.target \in Temp \/ d.target >= st.next
    <3> SUFFICES ASSUME NEW d \in ToSet(w2.todo), Sets(d, Kind) \/ Sets(d, Name)
                 PROVE  d.target \in Temp \/ d.target >= st.next
      OBVIOUS
    <3>1. d.op = "set"
      BY DEF Sets
    <3>2. PICK old \in Temp, id \in Nat, b \in ToSet(w.todo) :
            /\ id = w.state.next
            /\ d.target = IF b.target = old THEN id ELSE b.target
            /\ \A k \in {Kind, Name} : Sets(d, k) <=> Sets(b, k)
      BY <1>6, <3>1, CreatingTodo
    <3>3. b.target \in Temp \/ b.target >= st.next
      BY <3>2 DEF Kept
    <3> QED
      BY <3>2, <3>3 DEF Kept
  <2> QED
    BY <1>2, <2>2, <2>3 DEF Kept
<1> QED
  BY <1>3, <1>4, <1>5, <1>6 DEF Digest

(* Kinds are given to new entities only, at most one of them a session;    *)
(* the users that st does not have are among them.                         *)
News(st, w) ==
    /\ \A c \in ToSet(w.done) : Sets(c, Kind) => c.target >= st.next
    /\ \A c \in ToSet(w.done), d \in ToSet(w.todo) :
          ~(MakesSession(c) /\ MakesSession(d))
    /\ \A c, d \in ToSet(w.done) :
          MakesSession(c) /\ MakesSession(d) => c.target = d.target
    /\ \A u : Value(w.state, u, Kind) = "user" =>
          \/ Value(st, u, Kind) = "user"
          \/ Set(u, Kind, "user") \in ToSet(w.done)

LEMMA MadeRound ==
    ASSUME NEW st \in States, NEW w, WellFormed(w), w.todo # <<>>,
           NEW c, c = Head(w.todo), NEW w2, w2.state \in States,
           Digest(w, c, w2), Kept(st, w), News(st, w)
    PROVE  News(st, w2)
<1>1. /\ \A d : ~MakesSession(Delete(d)) /\ ~Sets(Delete(d), Kind)
      /\ \A d : ~MakesSession(Create(d)) /\ ~Sets(Create(d), Kind)
      /\ \A e, x, v : ~MakesSession(Set(e, Attach(x), v))
  BY KeyFacts DEF MakesSession, Sets, Delete, Create, Set
<1>2. CASE Idles(w, c, w2)
  <2>1. \A d \in ToSet(w2.done) : Sets(d, Kind) => d \in ToSet(w.done)
    BY <1>2 DEF Idles
  <2>2. /\ ToSet(w2.todo) \subseteq ToSet(w.todo)
        /\ ToSet(w.done) \subseteq ToSet(w2.done)
        /\ \A u : Value(w2.state, u, Kind) = Value(w.state, u, Kind)
    BY <1>2 DEF Idles, SameValues
  <2> QED
    BY <2>1, <2>2 DEF News, MakesSession
<1>3. CASE Assigning(w, c, w2)
  <2>1. /\ ToSet(w2.done) = ToSet(w.done) \cup {c} /\ c \in ToSet(w.todo)
        /\ \A d \in ToSet(w2.todo) :
              d \in ToSet(Tail(w.todo)) \/ d = Delete(c.target)
        /\ ToSet(Tail(w.todo)) \subseteq ToSet(w.todo)
    BY <1>3, HeadReady DEF Assigning
  <2>2. \A d \in ToSet(Tail(w.todo)) : ~(MakesSession(c) /\ MakesSession(d))
    BY HeadReady DEF Permits
  <2>3. Sets(c, Kind) => c.target >= st.next
    BY <2>1, HeadReady DEF Kept
  <2>4. \A d \in ToSet(w2.done) : Sets(d, Kind) => d.target >= st.next
    BY <2>1, <2>3 DEF News
  <2>5. \A b \in ToSet(w2.done), d \in ToSet(w2.todo) :
          ~(MakesSession(b) /\ MakesSession(d))
    BY <1>1, <2>1, <2>2 DEF News
  <2>6. \A b, d \in ToSet(w2.done) :
          MakesSession(b) /\ MakesSession(d) => b.target = d.target
    BY <2>1 DEF News
  <2>7. ASSUME NEW u, Value(w2.state, u, Kind) = "user"
        PROVE  \/ Value(st, u, Kind) = "user"
               \/ Set(u, Kind, "user") \in ToSet(w2.done)
    <3>1. CASE u = c.target /\ c.key = Kind
      BY <1>3, <2>1, <2>7, <3>1 DEF Assigning
    <3>2. CASE ~(u = c.target /\ c.key = Kind)
      <4>1. Value(w.state, u, Kind) = "user"
        BY <1>3, <2>7, <3>2 DEF Assigning
      <4> QED
        BY <2>1, <4>1 DEF News
    <3> QED
      BY <3>1, <3>2
  <2> QED
    BY <2>4, <2>5, <2>6, <2>7 DEF News
<1>4. CASE Deleting(w, c, w2)
  <2>1. /\ ToSet(w2.done) = ToSet(w.done) \cup {c}
        /\ ~Sets(c, Kind) /\ ~MakesSession(c)
        /\ \A d \in ToSet(w2.todo) : MakesSession(d) => d \in ToSet(w.todo)
    BY <1>1, <1>4 DEF Deleting
  <2>2. \A u : Value(w2.state, u, Kind) = "user" => Value(w.state, u, Kind) = "user"
    BY <1>4 DEF Deleting, NoValue
  <2> QED
    BY <2>1, <2>2 DEF News
<1>5. CASE Creating(w, w2)
  <2>1. \A d \in ToSet(w2.todo) : MakesSession(d) =>
           \E b \in ToSet(w.todo) : MakesSession(b)
    BY <1>5, CreatingTodo DEF MakesSession, Sets
  <2>2. /\ \A d \in ToSet(w2.done) : Sets(d, Kind) => d \in ToSet(w.done)
        /\ ToSet(w.done) \subseteq ToSet(w2.done)
    BY <1>1, <1>5 DEF Creating
  <2>3. \A u : Value(w2.state, u, Kind) = Value(w.state, u, Kind)
    BY <1>5 DEF Creating
  <2> QED
    BY <2>1, <2>2, <2>3 DEF News, MakesSession
<1> QED
  BY <1>2, <1>3, <1>4, <1>5 DEF Digest

-----------------------------------------------------------------------------
(* What is attached to node n was attached before or is attached by a      *)
(* change done; a request that detaches something from n attaches nothing. *)
Detaches(c, n) == c.op = "set" /\ c.key = Attach(n) /\ c.value = NoValue

NodeAttached(st, n, w) ==
    /\ \A s : Value(w.state, s, Attach(n)) # NoValue =>
          \/ Value(st, s, Attach(n)) # NoValue
          \/ Set(s, Attach(n), True) \in ToSet(w.done)
    /\ \A c \in ToSet(w.done) \cup ToSet(w.todo), d \in ToSet(w.todo) :
          Detaches(c, n) => ~(Attaches(d) /\ d.key = Attach(n))
    /\ \A c \in ToSet(w.done) :
          Detaches(c, n) => Value(w.state, c.target, Attach(n)) = NoValue

LEMMA NodeAttachedRound ==
    ASSUME NEW st \in States, NEW w, WellFormed(w), w.todo # <<>>,
           NEW c, c = Head(w.todo), NEW w2, w2.state \in States,
           Digest(w, c, w2), NEW n \in Nat, n < FirstEntity, n \notin Temp,
           NodeAttached(st, n, w)
    PROVE  NodeAttached(st, n, w2)
<1>1. /\ \A d, x : ~Detaches(Delete(d), x) /\ ~Attaches(Delete(d))
      /\ \A d, x : ~Detaches(Create(d), x) /\ ~Attaches(Create(d))
      /\ \A e, x, v : Detaches(Set(e, Attach(x), v), n) => x = n
      /\ \A e, x : ~Attaches(Set(e, Attach(x), NoValue))
  BY KeyFacts DEF Detaches, Attaches, Delete, Create, Set
<1>2. CASE Idles(w, c, w2)
  <2>1. /\ ToSet(w2.done) \cup ToSet(w2.todo) \subseteq ToSet(w.done) \cup ToSet(w.todo)
        /\ ToSet(w2.todo) \subseteq ToSet(w.todo)
        /\ ToSet(w.done) \subseteq ToSet(w2.done)
        /\ \A s, k : Value(w2.state, s, k) = Value(w.state, s, k)
    BY <1>2 DEF Idles, SameValues
  <2>2. \A d \in ToSet(w2.done) : Detaches(d, n) => d \in ToSet(w.done)
    BY <1>2 DEF Idles, Detaches
  <2> QED
    BY <2>1, <2>2 DEF NodeAttached
<1>3. CASE Assigning(w, c, w2)
  <2>1. /\ ToSet(w2.done) = ToSet(w.done) \cup {c} /\ c \in ToSet(w.todo)
        /\ \A d \in ToSet(w2.todo) : d \in ToSet(w.todo) \/ d = Delete(c.target)
        /\ c = Set(c.target, c.key, c.value) /\ c.op = "set"
    BY <1>3, HeadReady DEF Assigning
  <2>2. ASSUME NEW s, Value(w2.state, s, Attach(n)) # NoValue
        PROVE  \/ Value(st, s, Attach(n)) # NoValue
               \/ Set(s, Attach(n), True) \in ToSet(w2.done)
    <3>1. CASE s = c.target /\ c.key = Attach(n)
      <4>1. c.value # NoValue
        BY <1>3, <2>2, <3>1 DEF Assigning
      <4>2. Attaches(c)
        BY <2>1, <3>1, <4>1, KeyFacts DEF Attaches
      <4>3. c.value = True
        BY <4>2, HeadReady
      <4> QED
        BY <2>1, <3>1, <4>3
    <3>2. CASE ~(s = c.target /\ c.key = Attach(n))
      <4>1. Value(w.state, s, Attach(n)) # NoValue
        BY <1>3, <2>2, <3>2 DEF Assigning
      <4> QED
        BY <2>1, <4>1 DEF NodeAttached
    <3> QED
      BY <3>1, <3>2
  <2>3. \A b \in ToSet(w2.done) \cup ToSet(w2.todo), d \in ToSet(w2.todo) :
          Detaches(b, n) => ~(Attaches(d) /\ d.key = Attach(n))
    BY <1>1, <2>1 DEF NodeAttached
  <2>4. ASSUME NEW b \in ToSet(w2.done), Detaches(b, n)
        PROVE  Value(w2.state, b.target, Attach(n)) = NoValue
    <3>1. CASE b = c
      BY <1>3, <2>4, <3>1 DEF Assigning, Detaches
    <3>2. CASE b \in ToSet(w.done)
      <4>1. Value(w.state, b.target, Attach(n)) = NoValue
        BY <2>4, <3>2 DEF NodeAttached
      <4>2. ~(Attaches(c) /\ c.key = Attach(n))
        BY <2>1, <2>4, <3>2 DEF NodeAttached
      <4>3. c.key = Attach(n) => c.value = NoValue
        BY <2>1, <4>2, KeyFacts DEF Attaches
      <4> QED
        BY <1>3, <4>1, <4>3 DEF Assigning
    <3> QED
      BY <2>1, <2>4, <3>1, <3>2
  <2> QED
    BY <2>2, <2>3, <2>4 DEF NodeAttached
<1>4. CASE Deleting(w, c, w2)
  <2>1. /\ ToSet(w2.done) = ToSet(w.done) \cup {c}
        /\ ToSet(Tail(w.todo)) \subseteq ToSet(w.todo)
        /\ c = Delete(c.target)
    BY <1>4 DEF Deleting
  <2>2. \A d \in ToSet(w2.todo) :
           \/ d \in ToSet(w.todo)
           \/ ~Attaches(d) /\ ~Detaches(d, n)
    <3>1. c.target # n
      <4>1. c.target \in Temp \/ c.target >= FirstEntity
        BY <2>1, HeadReady, ChangesMade DEF Delete
      <4> QED
        BY <4>1 DEF FirstEntity
    <3>2. \A e : /\ ~Attaches(Set(e, Attach(c.target), NoValue))
                 /\ ~Detaches(Set(e, Attach(c.target), NoValue), n)
      BY <1>1, <3>1
    <3> QED
      BY <1>4, <2>1, <3>2 DEF Deleting
  <2>3. \A s : Value(w2.state, s, Attach(n)) # NoValue =>
           Value(w.state, s, Attach(n)) # NoValue
    BY <1>4 DEF Deleting
  <2>4. \A d \in ToSet(w2.done) : Detaches(d, n) => d \in ToSet(w.done)
    BY <1>1, <2>1
  <2>5. \A b \in ToSet(w2.done) \cup ToSet(w2.todo), d \in ToSet(w2.todo) :
          Detaches(b, n) => ~(Attaches(d) /\ d.key = Attach(n))
    BY <2>2, <2>4 DEF NodeAttached
  <2>6. \A d \in ToSet(w2.done) :
          Detaches(d, n) => Value(w2.state, d.target, Attach(n)) = NoValue
    BY <2>3, <2>4 DEF NodeAttached
  <2> QED
    BY <2>1, <2>3, <2>5, <2>6 DEF NodeAttached
<1>5. CASE Creating(w, w2)
  <2>1. \A s, k : Value(w2.state, s, k) = Value(w.state, s, k)
    BY <1>5 DEF Creating
  <2>2. /\ \A d \in ToSet(w2.done) : Detaches(d, n) => d \in ToSet(w.done)
        /\ ToSet(w.done) \subseteq ToSet(w2.done)
    BY <1>1, <1>5 DEF Creating
  <2>3. \A d \in ToSet(w2.todo) :
           /\ Detaches(d, n) => \E b \in ToSet(w.todo) : Detaches(b, n)
           /\ Attaches(d) /\ d.key = Attach(n) =>
                 \E b \in ToSet(w.todo) : Attaches(b) /\ b.key = Attach(n)
    <3> SUFFICES ASSUME NEW d \in ToSet(w2.todo), d.op = "set", d.key = Attach(n)
                 PROVE  \E b \in ToSet(w.todo) :
                           b.op = "set" /\ b.key = Attach(n) /\ b.value = d.value
      BY KeyFacts DEF Detaches, Attaches
    <3>1. PICK old \in Temp, id \in Nat, b \in ToSet(w.todo) :
            /\ id >= FirstEntity /\ d.op = b.op
            /\ b.op = "set" =>
                  /\ d.value = b.value
                  /\ d.key = IF b.key = Attach(old) THEN Attach(id) ELSE b.key
      BY <1>5, CreatingTodo
    <3>2. id # n
      BY <3>1 DEF FirstEntity
    <3> QED
      BY <3>1, <3>2, KeyFacts
  <2> QED
    BY <2>1, <2>2, <2>3 DEF NodeAttached
<1> QED
  BY <1>2, <1>3, <1>4, <1>5 DEF Digest

(* Something that is to be detached from node n will be.                   *)
Detaching(n, s, w) ==
    /\ \A d \in ToSet(w.todo) : ~(Attaches(d) /\ d.key = Attach(n))
    /\ \/ Set(s, Attach(n), NoValue) \in ToSet(w.todo)
       \/ Value(w.state, s, Attach(n)) = NoValue

LEMMA DetachingRound ==
    ASSUME NEW w, WellFormed(w), w.todo # <<>>,
           NEW c, c = Head(w.todo), NEW w2, w2.state \in States,
           Digest(w, c, w2), NEW n \in Nat, n < FirstEntity, n \notin Temp,
           NEW s \in Nat, s >= FirstEntity, Detaching(n, s, w)
    PROVE  Detaching(n, s, w2)
<1> DEFINE it == Set(s, Attach(n), NoValue)
<1>1. /\ it.op = "set" /\ it.target = s /\ it.key = Attach(n)
      /\ it.value = NoValue /\ ~Sets(it, Name)
      /\ \A d : ~Attaches(Delete(d))
      /\ \A e, x : ~Attaches(Set(e, Attach(x), NoValue))
  BY KeyFacts DEF Attaches, Delete, Set, Sets
<1> HIDE DEF it
<1>2. CASE Idles(w, c, w2)
  <2>1. /\ ToSet(w2.todo) \subseteq ToSet(w.todo)
        /\ ToSet(w.todo) = {c} \cup ToSet(w2.todo)
        /\ \A x, k : Value(w2.state, x, k) = Value(w.state, x, k)
    BY <1>2 DEF Idles, SameValues
  <2>2. c = it => Value(w.state, s, Attach(n)) = NoValue
    BY <1>1, <1>2 DEF Idles, Value
  <2> QED
    BY <2>1, <2>2 DEF Detaching, it
<1>3. CASE Assigning(w, c, w2)
  <2>1. /\ ToSet(w.todo) \subseteq {c} \cup ToSet(w2.todo) /\ c \in ToSet(w.todo)
        /\ \A d \in ToSet(w2.todo) : d \in ToSet(w.todo) \/ d = Delete(c.target)
        /\ c = Set(c.target, c.key, c.value) /\ c.op = "set"
    BY <1>3, HeadReady DEF Assigning
  <2>2. c.key = Attach(n) => c.value = NoValue
    BY <2>1, KeyFacts DEF Detaching, Attaches
  <2>3. Value(w.state, s, Attach(n)) = NoValue
           => Value(w2.state, s, Attach(n)) = NoValue
    BY <1>3, <2>2 DEF Assigning
  <2>4. c = it => Value(w2.state, s, Attach(n)) = NoValue
    BY <1>1, <1>3 DEF Assigning
  <2>5. \A d \in ToSet(w2.todo) : ~(Attaches(d) /\ d.key = Attach(n))
    BY <1>1, <2>1 DEF Detaching
  <2> QED
    BY <2>1, <2>3, <2>4, <2>5 DEF Detaching, it
<1>4. CASE Deleting(w, c, w2)
  <2>1. /\ c = Delete(c.target) /\ ToSet(w.todo) = {c} \cup ToSet(Tail(w.todo))
        /\ ToSet(Tail(w.todo)) \subseteq ToSet(w2.todo)
        /\ \A d \in ToSet(w2.todo) : d \in ToSet(w.todo) \/ ~Attaches(d)
    BY <1>1, <1>4 DEF Deleting
  <2>2. c # it
    BY <1>1, <2>1 DEF Delete
  <2>3. Value(w.state, s, Attach(n)) = NoValue
           => Value(w2.state, s, Attach(n)) = NoValue
    BY <1>4 DEF Deleting
  <2> QED
    BY <2>1, <2>2, <2>3 DEF Detaching, it
<1>5. CASE Creating(w, w2)
  <2>1. PICK old \in Temp, id \in Nat :
              /\ id >= FirstEntity
              /\ \A d \in ToSet(w.todo) :
                    \/ d.op = "create"
                    \/ Rewritten(d, old, id) \in ToSet(w2.todo)
              /\ \A d \in ToSet(w2.todo) :
                    \/ d.op = "next"
                    \/ \E b \in ToSet(w.todo) :
                          /\ d.op = b.op
                          /\ b.op = "set" =>
                                /\ d.value = b.value
                                /\ d.key = IF b.key = Attach(old)
                                           THEN Attach(id) ELSE b.key
    BY <1>5, CreatingTodo
  <2>2. s # old /\ n # old /\ n # id
    BY <2>1 DEF FirstEntity, Temp
  <2>3. Rewritten(it, old, id) = it
    BY <1>1, <2>2, KeyFacts DEF Rewritten, it
  <2>4. it \in ToSet(w.todo) => it \in ToSet(w2.todo)
    BY <1>1, <2>1, <2>3
  <2>5. \A d \in ToSet(w2.todo) : ~(Attaches(d) /\ d.key = Attach(n))
    BY <2>1, <2>2, KeyFacts DEF Detaching, Attaches
  <2>6. Value(w2.state, s, Attach(n)) = Value(w.state, s, Attach(n))
    BY <1>5 DEF Creating
  <2> QED
    BY <2>4, <2>5, <2>6 DEF Detaching, it
<1> QED
  BY <1>2, <1>3, <1>4, <1>5 DEF Digest

-----------------------------------------------------------------------------
(* No two users have the same name.                                        *)
UniqueNames(st) ==
    \A u, v :
        /\ Value(st, u, Kind) = "user" /\ Value(st, v, Kind) = "user"
        /\ Value(st, u, Name) = Value(st, v, Name)
        /\ Value(st, u, Name) # NoValue
        => u = v

LEMMA UniqueNamesRound ==
    ASSUME NEW w, WellFormed(w), w.todo # <<>>,
           NEW c, c = Head(w.todo), NEW w2, w2.state \in States,
           Digest(w, c, w2), UniqueNames(w.state)
    PROVE  UniqueNames(w2.state)
<1>1. CASE Idles(w, c, w2) \/ Creating(w, w2)
  <2>1. \A x, k : Value(w2.state, x, k) = Value(w.state, x, k)
    BY <1>1 DEF Idles, Creating, SameValues
  <2> QED
    BY <2>1 DEF UniqueNames
<1>2. CASE Deleting(w, c, w2)
  <2>1. "user" # NoValue
    BY DEF NoValue
  <2> QED
    BY <1>2, <2>1 DEF Deleting, UniqueNames
<1>3. CASE Assigning(w, c, w2)
  <2> SUFFICES ASSUME NEW u, NEW v, u # v,
                      Value(w2.state, u, Kind) = "user",
                      Value(w2.state, v, Kind) = "user",
                      Value(w2.state, u, Name) = Value(w2.state, v, Name),
                      Value(w2.state, u, Name) # NoValue
               PROVE  FALSE
    BY DEF UniqueNames
  <2>1. \A x, k : Value(w2.state, x, k) =
           IF x = c.target /\ k = c.key THEN c.value ELSE Value(w.state, x, k)
    BY <1>3 DEF Assigning
  <2>2. Kind # Name
    BY KeyFacts
  <2>3. CASE c.key = Kind
    <3>1. Value(w.state, c.target, Name) = NoValue
      <4>1. Sets(c, Kind)
        BY <1>3, <2>3 DEF Assigning, Sets
      <4>2. Sets(c, Kind) => \A k : Value(w.state, c.target, k) = NoValue
        BY HeadReady
      <4> QED
        BY <4>1, <4>2
    <3>2. u # c.target /\ v # c.target
      BY <2>1, <2>2, <2>3, <3>1
    <3> QED
      BY <2>1, <3>2 DEF UniqueNames
  <2>4. CASE c.key = Name
    <3>1. Named(w.state, Value(w.state, c.target, Kind), c.value) \subseteq {c.target}
      BY <1>3, <2>4 DEF Assigning, Sets
    <3>2. Value(w.state, u, Kind) = "user" /\ Value(w.state, v, Kind) = "user"
      BY <2>1, <2>2, <2>4
    <3>3. \A e : Value(w.state, e, Kind) = "user" /\ Value(w.state, e, Name) = c.value
              => e \in Named(w.state, "user", c.value)
      <4>1. "user" # NoValue
        BY DEF NoValue
      <4> QED
        BY <4>1, OfKindValue DEF Named
    <3> QED
      BY <2>1, <2>2, <2>4, <3>1, <3>2, <3>3 DEF UniqueNames
  <2>5. CASE c.key # Kind /\ c.key # Name
    BY <2>1, <2>5 DEF UniqueNames
  <2> QED
    BY <2>3, <2>4, <2>5
<1> QED
  BY <1>1, <1>2, <1>3 DEF Digest

-----------------------------------------------------------------------------
(* What is attached to a user is a session, or is about to be detached.    *)
UsersAttached(w) ==
    \A u, x :
        Value(w.state, u, Kind) = "user" /\ Value(w.state, u, Attach(x)) # NoValue =>
            /\ x \notin Temp
            /\ \/ Value(w.state, x, Kind) = "session"
               \/ Set(u, Attach(x), NoValue) \in ToSet(w.todo)

LEMMA UsersAttachedRound ==
    ASSUME NEW w, WellFormed(w), w.todo # <<>>,
           NEW c, c = Head(w.todo), NEW w2, w2.state \in States,
           Digest(w, c, w2), UsersAttached(w)
    PROVE  UsersAttached(w2)
<1> SUFFICES ASSUME NEW u, NEW x,
                    Value(w2.state, u, Kind) = "user",
                    Value(w2.state, u, Attach(x)) # NoValue
             PROVE  /\ x \notin Temp
                    /\ \/ Value(w2.state, x, Kind) = "session"
                       \/ Set(u, Attach(x), NoValue) \in ToSet(w2.todo)
  BY DEF UsersAttached
<1> DEFINE it == Set(u, Attach(x), NoValue)
<1>1. /\ it.op = "set" /\ it.target = u /\ it.key = Attach(x)
      /\ it.value = NoValue /\ ~Sets(it, Name)
  BY KeyFacts DEF Set, Sets
<1>2. "user" # NoValue /\ "session" # NoValue
  BY DEF NoValue
<1>3. \A e, k : Value(w.state, e, k) # NoValue => Exists(w.state, e)
  BY DEF Value
<1>4. \A e : Exists(w.state, e) => e \notin Temp
  BY HeadReady
<1> HIDE DEF it
<1>5. CASE Idles(w, c, w2)
  <2>1. /\ ToSet(w.todo) = {c} \cup ToSet(w2.todo)
        /\ \A e, k : Value(w2.state, e, k) = Value(w.state, e, k)
    BY <1>5 DEF Idles, SameValues
  <2>2. c # it
    BY <1>1, <1>2, <1>3, <1>5, <2>1 DEF Idles
  <2> QED
    BY <2>1, <2>2 DEF UsersAttached, it
<1>6. CASE Assigning(w, c, w2)
  <2>1. /\ ToSet(w.todo) \subseteq {c} \cup ToSet(w2.todo)
        /\ c = Set(c.target, c.key, c.value) /\ c.op = "set" /\ c.key \in Key
        /\ \A e, k : Value(w2.state, e, k) =
           IF e = c.target /\ k = c.key THEN c.value ELSE Value(w.state, e, k)
    BY <1>6 DEF Assigning
  <2>2. c.key = Kind => \A k : Value(w.state, c.target, k) = NoValue
    <3>1. c.key = Kind => Sets(c, Kind)
      BY <2>1 DEF Sets
    <3>2. Sets(c, Kind) => \A k : Value(w.state, c.target, k) = NoValue
      BY HeadReady
    <3> QED
      BY <3>1, <3>2
  <2>3. Value(w.state, u, Kind) = "user"
    BY <2>1, <2>2, KeyFacts
  <2>4. Value(w.state, x, Kind) = "session" => Value(w2.state, x, Kind) = "session"
    BY <1>2, <2>1, <2>2
  <2>5. CASE u = c.target /\ c.key = Attach(x)
    <3>1. Attaches(c)
      BY <2>1, <2>5, KeyFacts DEF Attaches
    <3>2. x \in Nat
      BY <2>1, <2>5, AttachKeys, KeyFacts
    <3>3. Exists(w.state, c.target) /\ Value(w.state, c.target, Kind) # "session"
      BY <1>2, <1>3, <2>3, <2>5
    <3>4. Value(w.state, x, Kind) = "session"
      BY <2>5, <3>1, <3>2, <3>3, HeadReady
    <3> QED
      BY <1>2, <1>3, <1>4, <2>4, <3>4
  <2>6. CASE ~(u = c.target /\ c.key = Attach(x))
    <3>1. Value(w.state, u, Attach(x)) # NoValue
      BY <2>1, <2>6
    <3>2. c # it
      BY <1>1, <2>6
    <3> QED
      BY <2>1, <2>3, <2>4, <3>1, <3>2 DEF UsersAttached, it
  <2> QED
    BY <2>5, <2>6
<1>7. CASE Deleting(w, c, w2)
  <2>1. /\ \A e, k : Value(w2.state, e, k) =
               IF e = c.target THEN NoValue ELSE Value(w.state, e, k)
        /\ c = Delete(c.target) /\ ToSet(w.todo) = {c} \cup ToSet(Tail(w.todo))
        /\ ToSet(Tail(w.todo)) \subseteq ToSet(w2.todo)
        /\ \A e \in AllAttachedTo(w.state, c.target) :
              Set(e, Attach(c.target), NoValue) \in ToSet(w2.todo)
    BY <1>7 DEF Deleting
  <2>2. c # it
    BY <1>1, <2>1 DEF Delete
  <2>3. u # c.target /\ Value(w.state, u, Kind) = "user"
        /\ Value(w.state, u, Attach(x)) # NoValue
    BY <1>2, <2>1
  <2>4. CASE x = c.target
    <3>1. u \in AllAttachedTo(w.state, x)
      BY <2>3, AttachedValue, HeadReady
    <3> QED
      BY <2>1, <2>3, <2>4, <3>1 DEF UsersAttached
  <2>5. CASE x # c.target
    BY <2>1, <2>2, <2>3, <2>5 DEF UsersAttached, it
  <2> QED
    BY <2>4, <2>5
<1>8. CASE Creating(w, w2)
  <2>1. PICK old \in Temp, id \in Nat :
              \A d \in ToSet(w.todo) :
                    \/ d.op = "create"
                    \/ Rewritten(d, old, id) \in ToSet(w2.todo)
    BY <1>8, CreatingTodo
  <2>2. \A e, k : Value(w2.state, e, k) = Value(w.state, e, k)
    BY <1>8 DEF Creating
  <2>3. x \notin Temp /\ u \notin Temp
    BY <1>2, <1>3, <1>4, <2>2 DEF UsersAttached
  <2>4. Rewritten(it, old, id) = it
    BY <1>1, <2>3, KeyFacts DEF Rewritten, it
  <2>5. it \in ToSet(w.todo) => it \in ToSet(w2.todo)
    BY <1>1, <2>1, <2>4
  <2> QED
    BY <2>2, <2>5 DEF UsersAttached, it
<1> QED
  BY <1>5, <1>6, <1>7, <1>8 DEF Digest

-----------------------------------------------------------------------------
(* The rounds of applyChanges.                                             *)
LEMMA KeptInSet ==
    ASSUME NEW S, NEW w \in S, NEW idempotent,
           \A x \in S : ApplyChange(x, idempotent) \in S
    PROVE  Later(w, idempotent, MaxChanges) \in S
<1> DEFINE T == Nat \X S
<1>1. MaxChanges \in Nat
  BY ChangesAssumption
<1>2. <<0, w>> \in T
  OBVIOUS
<1>3. \A k \in Nat : \A x : <<k, x>> \in T
               => <<k + 1, ApplyChange(x, idempotent)>> \in T
  OBVIOUS
<1>4. \A t : <<MaxChanges, t>> \in T => t \in S
  OBVIOUS
<1> HIDE DEF T
<1>5. <<MaxChanges, Later(w, idempotent, MaxChanges)>> \in T
  BY <1>1, <1>2, <1>3, Rounds
<1> QED
  BY <1>4, <1>5

LEMMA AppliedRounds ==
    ASSUME NEW st, NEW changes, NEW idempotent, NEW w,
           w = Later(Work(st, changes), idempotent, MaxChanges)
    PROVE  /\ applyChanges(st, changes, idempotent).state = w.state
           /\ applyChanges(st, changes, idempotent).changes = w.done
           /\ applyChanges(st, changes, idempotent).complete => w.todo = <<>>
<1> DEFINE r == [state |-> w.state, changes |-> w.done,
                 complete |-> /\ Assert(w.todo = <<>>, "MaxChanges is too small")
                              /\ w.todo = <<>>]
<1>1. applyChanges(st, changes, idempotent) = r
  BY DEF applyChanges, Later
<1>2. r.state = w.state /\ r.changes = w.done
  OBVIOUS
<1>3. r.complete => w.todo = <<>>
  OBVIOUS
<1> QED
  BY <1>1, <1>2, <1>3

(* What holds after every round of a request applied to state st.          *)
Sound(st, w) ==
    /\ WellFormed(w) /\ Kept(st, w) /\ News(st, w)
    /\ \A n \in Nat \ Temp : n < FirstEntity => NodeAttached(st, n, w)
    /\ UniqueNames(w.state) /\ UsersAttached(w)

LEMMA SoundRound ==
    ASSUME NEW st \in States, NEW w, Sound(st, w), NEW w2,
           w2 = ApplyChange(w, FALSE)
    PROVE  Sound(st, w2)
<1>1. CASE w.todo = <<>>
  <2>1. w2 = w
    BY <1>1 DEF ApplyChange
  <2> QED
    BY <2>1
<1>2. CASE w.todo # <<>>
  <2>1. WellFormed(w)
    BY DEF Sound
  <2>2. WellFormed(w2)
    BY <1>2, <2>1, RoundWellFormed
  <2>3. w2.state \in States
    BY <2>2 DEF WellFormed, Works
  <2>4. PICK c : c = Head(w.todo)
    OBVIOUS
  <2>5. Digest(w, c, w2)
    BY <1>2, <2>1, <2>4, RoundDigest DEF Digest
  <2>6. Kept(st, w2)
    BY <1>2, <2>1, <2>3, <2>4, <2>5, KeptRound DEF Sound
  <2>7. News(st, w2)
    BY <1>2, <2>1, <2>3, <2>4, <2>5, MadeRound DEF Sound
  <2>8. \A n \in Nat \ Temp : n < FirstEntity => NodeAttached(st, n, w2)
    BY <1>2, <2>1, <2>3, <2>4, <2>5, NodeAttachedRound DEF Sound
  <2>9. UniqueNames(w2.state)
    BY <1>2, <2>1, <2>3, <2>4, <2>5, UniqueNamesRound DEF Sound
  <2>10. UsersAttached(w2)
    BY <1>2, <2>1, <2>3, <2>4, <2>5, UsersAttachedRound DEF Sound
  <2> QED
    BY <2>2, <2>6, <2>7, <2>8, <2>9, <2>10 DEF Sound
<1> QED
  BY <1>1, <1>2

LEMMA AppliedSound ==
    ASSUME NEW st \in States, NEW changes, Sound(st, Work(st, changes))
    PROVE  \E w : /\ Sound(st, w)
                  /\ applyChanges(st, changes, FALSE).state = w.state
                  /\ applyChanges(st, changes, FALSE).changes = w.done
                  /\ applyChanges(st, changes, FALSE).complete => w.todo = <<>>
<1> DEFINE w0 == Work(st, changes)
           P == {x \in Works : Sound(st, x)}
<1>1. \A w : Sound(st, w) => w \in Works
  BY DEF Sound, WellFormed
<1>2. w0 \in P
  BY <1>1
<1>3. ASSUME NEW w \in P PROVE ApplyChange(w, FALSE) \in P
  <2>1. Sound(st, w)
    BY <1>3
  <2>2. Sound(st, ApplyChange(w, FALSE))
    BY <2>1, SoundRound
  <2> QED
    BY <1>1, <2>2
<1> DEFINE w == Later(w0, FALSE, MaxChanges)
<1> HIDE DEF P, w0
<1>4. w \in P
  BY <1>2, <1>3, KeptInSet
<1>5. Sound(st, w)
  BY <1>4 DEF P
<1> HIDE DEF w
<1>6. PICK v : v = w
  OBVIOUS
<1>7. v = Later(Work(st, changes), FALSE, MaxChanges)
  BY <1>6 DEF w, w0
<1>8. /\ applyChanges(st, changes, FALSE).state = v.state
      /\ applyChanges(st, changes, FALSE).changes = v.done
      /\ applyChanges(st, changes, FALSE).complete => v.todo = <<>>
  BY <1>7, AppliedRounds
<1> QED
  BY <1>5, <1>6, <1>8

LEMMA AppliedDetaches ==
    ASSUME NEW st \in States, NEW changes, WellFormed(Work(st, changes)),
           NEW n \in Nat, n < FirstEntity, n \notin Temp,
           NEW s \in Nat, s >= FirstEntity, Detaching(n, s, Work(st, changes)),
           applyChanges(st, changes, FALSE).complete
    PROVE  Value(applyChanges(st, changes, FALSE).state, s, Attach(n)) = NoValue
<1> DEFINE w0 == Work(st, changes)
           P == {x \in Works : WellFormed(x) /\ Detaching(n, s, x)}
<1>1. \A w : WellFormed(w) => w \in Works
  BY DEF WellFormed
<1>2. w0 \in P
  BY <1>1
<1>3. ASSUME NEW w \in P PROVE ApplyChange(w, FALSE) \in P
  <2>1. WellFormed(w) /\ Detaching(n, s, w)
    BY <1>3
  <2>2. PICK w2 : w2 = ApplyChange(w, FALSE)
    OBVIOUS
  <2>3. CASE w.todo = <<>>
    BY <1>1, <2>1, <2>3 DEF ApplyChange
  <2>4. CASE w.todo # <<>>
    <3>1. WellFormed(w2)
      BY <2>1, <2>2, <2>4, RoundWellFormed
    <3>2. w2.state \in States
      BY <3>1 DEF WellFormed, Works
    <3>3. PICK c : c = Head(w.todo)
      OBVIOUS
    <3>4. Digest(w, c, w2)
      BY <2>1, <2>2, <2>4, <3>3, RoundDigest DEF Digest
    <3>5. Detaching(n, s, w2)
      BY <2>1, <2>4, <3>2, <3>3, <3>4, DetachingRound
    <3> QED
      BY <1>1, <2>2, <3>1, <3>5
  <2> QED
    BY <2>3, <2>4
<1> DEFINE w == Later(w0, FALSE, MaxChanges)
<1> HIDE DEF P, w0
<1>4. w \in P
  BY <1>2, <1>3, KeptInSet
<1>5. Detaching(n, s, w)
  BY <1>4 DEF P
<1> HIDE DEF w
<1>6. PICK v : v = w
  OBVIOUS
<1>7. v = Later(Work(st, changes), FALSE, MaxChanges)
  BY <1>6 DEF w, w0
<1>8. v.todo = <<>> /\ applyChanges(st, changes, FALSE).state = v.state
  BY <1>7, AppliedRounds
<1>9. ToSet(v.todo) = {}
  BY <1>8 DEF ToSet
<1> QED
  BY <1>5, <1>6, <1>8, <1>9 DEF Detaching

-----------------------------------------------------------------------------
(* States between requests, and the requests made in them.                 *)
NodeIDs == {n \in Nat : n < FirstEntity /\ n \notin Temp}

SessionsAttached(st) ==
    \A u, x : Value(st, u, Kind) = "user" /\ Value(st, u, Attach(x)) # NoValue
              => Value(st, x, Kind) = "session"

Consistent(st) ==
    /\ st \in States
    /\ FirstEntity <= st.next
    /\ DOMAIN st.entities \subseteq FirstEntity .. st.next - 1
    /\ UniqueNames(st) /\ SessionsAttached(st)

LEMMA EmptyConsistent == Consistent(EmptyState)
<1>1. /\ EmptyState.next = FirstEntity /\ DOMAIN EmptyState.entities = {}
      /\ EmptyState \in States
  <2>1. <<>> \in [{} -> Record]
    OBVIOUS
  <2>2. {} \in SUBSET Nat /\ FirstEntity \in Nat
    BY DEF FirstEntity
  <2> QED
    BY <2>1, <2>2 DEF EmptyState, States
<1>2. \A e, k : Value(EmptyState, e, k) = NoValue
  BY <1>1 DEF Value, Exists
<1>3. UniqueNames(EmptyState) /\ SessionsAttached(EmptyState)
  BY <1>2 DEF UniqueNames, SessionsAttached
<1>4. FirstEntity <= FirstEntity
  BY DEF FirstEntity
<1> QED
  BY <1>1, <1>3, <1>4 DEF Consistent

Ids(st) == FirstEntity .. st.next - 1

Sessions(st) == {s \in Ids(st) : Exists(st, s) => Value(st, s, Kind) = "session"}

Requests(st) ==
    {makeNewUserRequest(n, name) : n \in NodeIDs, name \in Names}
    \cup {makeNewSessionRequest(n, u) : n \in NodeIDs, u \in Ids(st)}
    \cup {AttachRequest(n, s) : n \in NodeIDs, s \in Sessions(st)}
    \cup {DetachRequest(n, s) : n \in NodeIDs, s \in Ids(st)}
    \cup {DeleteRequest(u) : u \in Ids(st)}

(* What suffices for a list of changes to be a sound start.                *)
Starts(st, ch) ==
    /\ ch \in Seq(Change)
    /\ \A i \in DOMAIN ch :
          /\ ch[i].op # "next"
          /\ ch[i].op = "create" => ch[i].target \in Temp
          /\ ch[i].target \in Temp \cup Ids(st)
          /\ Sets(ch[i], Kind) => /\ ch[i].value \in {"user", "session"}
                                  /\ ch[i].target \in Temp
                                  /\ \E j \in 1 .. i - 1 : ch[j] = Create(ch[i].target)
          /\ Sets(ch[i], Name) => ch[i].target \in Temp
          /\ \A x \in Nat :
                Attaches(ch[i]) /\ ch[i].key = Attach(x) =>
                    /\ ch[i].value = True
                    /\ \/ /\ x \in Temp
                          /\ \E j \in 1 .. i - 1 : ch[j] = Set(x, Kind, "session")
                       \/ /\ x \in NodeIDs
                          /\ \/ \E j \in 1 .. i - 1 :
                                   ch[j] = Set(ch[i].target, Kind, "session")
                             \/ ch[i].target \in Sessions(st)
          /\ \A j \in 1 .. i - 1 : Permits(ch[j], ch[i])
    /\ \A i, j \in DOMAIN ch : ~(Attaches(ch[i]) /\ \E n \in Nat : Detaches(ch[j], n))

LEMMA StartsSound ==
    ASSUME NEW st, Consistent(st), NEW ch, Starts(st, ch)
    PROVE  Sound(st, Work(st, ch))
<1> DEFINE w == Work(st, ch)
<1>1. /\ w.state = st /\ w.done = <<>> /\ w.todo = ch /\ w.renamed = {}
      /\ w = [state |-> st, done |-> <<>>, todo |-> ch, renamed |-> {}]
  BY DEF Work
<1>2. st \in States /\ ch \in Seq(Change) /\ st.next \in Nat
  BY StateFacts DEF Consistent, Starts
<1>3. w \in Works
  <2>1. <<>> \in Seq(Change) /\ {} \in SUBSET Nat
    OBVIOUS
  <2> QED
    BY <1>1, <1>2, <2>1 DEF Works
<1> HIDE DEF w
<1>4. DOMAIN ch = 1 .. Len(ch) /\ Len(ch) \in Nat
  BY <1>2, LenProperties
<1>5. Bound(w) = st.next
  <2>1. ch # <<>> => 1 \in DOMAIN ch
    BY <1>2, <1>4, EmptySeq
  <2> QED
    BY <1>1, <2>1 DEF Bound, Starts
<1>6. \A i \in DOMAIN ch : ch[i] \in Change
  BY <1>2, <1>4
<1>7. IdsInRange(w)
  <2>1. \A i \in DOMAIN ch : Attaches(ch[i]) => ch[i].value = True
    <3> SUFFICES ASSUME NEW i \in DOMAIN ch, Attaches(ch[i])
                 PROVE  ch[i].value = True
      OBVIOUS
    <3>1. ch[i].op = "set" /\ ch[i].key \in Key /\ IsAttach(ch[i].key)
      BY <1>6, ChangeFacts DEF Attaches
    <3>2. PICK x \in Nat : ch[i].key = Attach(x)
      BY <3>1, AttachKeys
    <3> QED
      BY <3>2 DEF Starts
  <2> QED
    BY <1>1, <1>5, <2>1 DEF IdsInRange, Consistent, Starts, Ids
<1>8. Ordered(w)
  BY <1>1 DEF Ordered, Starts
<1>9. Legal(w)
  <2> SUFFICES ASSUME NEW i \in DOMAIN ch
               PROVE  KindReady(w, i) /\ NameReady(w, i) /\ AttachReady(w, i)
    BY <1>1 DEF Legal
  <2>1. KindReady(w, i)
    BY <1>1 DEF KindReady, Starts
  <2>2. NameReady(w, i)
    <3>1. \A t \in Temp : ~Exists(st, t)
      BY <1>2 DEF Exists, Temp, Consistent, FirstEntity
    <3> QED
      BY <1>1, <3>1 DEF NameReady, Starts
  <2>3. ASSUME NEW x \in Nat, Attaches(w.todo[i]), w.todo[i].key = Attach(x)
        PROVE  LET t == w.todo[i].target
               IN  IF x \in Temp \/ x >= FirstEntity THEN SessionBy(w, i, x)
                ELSE SessionBy(w, i, t) \/ (t \notin Temp /\ ~Exists(w.state, t))
    <3>1. CASE /\ x \in Temp
               /\ \E j \in 1 .. i - 1 : ch[j] = Set(x, Kind, "session")
      BY <1>1, <3>1 DEF SessionBy
    <3>2. CASE /\ x \in NodeIDs
               /\ \E j \in 1 .. i - 1 : ch[j] = Set(ch[i].target, Kind, "session")
      <4>1. ~(x \in Temp \/ x >= FirstEntity)
        BY <3>2 DEF NodeIDs, FirstEntity
      <4> QED
        BY <1>1, <3>2, <4>1 DEF SessionBy
    <3>3. CASE x \in NodeIDs /\ ch[i].target \in Sessions(st)
      <4>1. ~(x \in Temp \/ x >= FirstEntity)
        BY <3>3 DEF NodeIDs, FirstEntity
      <4>2. ch[i].target \notin Temp
        BY <1>2, <3>3 DEF Sessions, Ids, Temp, FirstEntity
      <4>3. Value(st, ch[i].target, Kind) = "session" \/ ~Exists(st, ch[i].target)
        BY <3>3 DEF Sessions
      <4> QED
        BY <1>1, <4>1, <4>2, <4>3 DEF SessionBy
    <3> QED
      BY <1>1, <2>3, <3>1, <3>2, <3>3 DEF Starts
  <2>4. AttachReady(w, i)
    BY <1>1, <2>3 DEF AttachReady
  <2> QED
    BY <2>1, <2>2, <2>4
<1>10. ToSet(w.done) = {} /\ \A c \in ToSet(w.todo) : \E i \in DOMAIN ch : c = ch[i]
  BY <1>1 DEF ToSet
<1>11. Kept(st, w)
  BY <1>1, <1>2, <1>10 DEF Kept, Starts
<1>12. News(st, w)
  BY <1>1, <1>10 DEF News
<1>13. ASSUME NEW n \in Nat \ Temp PROVE NodeAttached(st, n, w)
  <2>1. \A c, d \in ToSet(w.todo) : Detaches(c, n) => ~Attaches(d)
    BY <1>10 DEF Starts
  <2> QED
    BY <1>1, <1>10, <2>1 DEF NodeAttached
<1>14. UniqueNames(w.state)
  BY <1>1 DEF Consistent
<1>15. UsersAttached(w)
  <2>1. \A x : Value(st, x, Kind) = "session" => x \notin Temp
    BY <1>2 DEF Value, Exists, Consistent, Temp, FirstEntity, NoValue
  <2> QED
    BY <1>1, <2>1 DEF UsersAttached, Consistent, SessionsAttached
<1>16. WellFormed(w)
  BY <1>3, <1>7, <1>8, <1>9 DEF WellFormed
<1> QED
  BY <1>11, <1>12, <1>13, <1>14, <1>15, <1>16 DEF Sound, w

-----------------------------------------------------------------------------
(* Each request is a sound start.                                          *)
LEMMA Strings ==
    /\ True # NoValue /\ "user" # NoValue /\ "session" # NoValue
    /\ "user" # "session"
    /\ {True, "user", "session", NoValue} \subseteq Values
BY DEF True, NoValue, Values

LEMMA SetMade ==
    ASSUME NEW t \in Nat, NEW key \in Key, NEW value \in Values
    PROVE  /\ Set(t, key, value) \in Change /\ Set(t, key, value).op = "set"
           /\ Set(t, key, value).target = t /\ Set(t, key, value).key = key
           /\ Set(t, key, value).value = value
BY DEF Set, Change

LEMMA SetKinds ==
    ASSUME NEW t, NEW value
    PROVE  /\ Sets(Set(t, Kind, value), Kind) /\ ~Sets(Set(t, Kind, value), Name)
           /\ ~Attaches(Set(t, Kind, value)) /\ ~Removes(Set(t, Kind, value))
           /\ MakesSession(Set(t, Kind, value)) <=> value = "session"
           /\ Sets(Set(t, Name, value), Name) /\ ~Sets(Set(t, Name, value), Kind)
           /\ ~Attaches(Set(t, Name, value)) /\ ~Removes(Set(t, Name, value))
           /\ ~MakesSession(Set(t, Name, value))
           /\ ~Sets(Set(t, Transient, value), Kind)
           /\ ~Sets(Set(t, Transient, value), Name)
           /\ ~Attaches(Set(t, Transient, value))
           /\ ~MakesSession(Set(t, Transient, value))
           /\ \A n : /\ ~Detaches(Set(t, Transient, value), n)
                     /\ ~Detaches(Set(t, Kind, value), n)
                     /\ ~Detaches(Set(t, Name, value), n)
BY KeyFacts DEF Sets, Attaches, Removes, MakesSession, Set, Detaches

LEMMA SetAttaches ==
    ASSUME NEW t, NEW x, NEW value
    PROVE  /\ ~Sets(Set(t, Attach(x), value), Kind)
           /\ ~Sets(Set(t, Attach(x), value), Name)
           /\ ~MakesSession(Set(t, Attach(x), value))
           /\ Attaches(Set(t, Attach(x), value)) <=> value # NoValue
           /\ Removes(Set(t, Attach(x), value)) <=> value = NoValue
           /\ \A n : Detaches(Set(t, Attach(x), value), n) <=>
                 n = x /\ value = NoValue
BY KeyFacts DEF Sets, Attaches, Removes, MakesSession, Set, Detaches

LEMMA CreateKinds ==
    ASSUME NEW t
    PROVE  /\ \A key : ~Sets(Create(t), key)
           /\ ~Attaches(Create(t)) /\ ~Removes(Create(t)) /\ ~MakesSession(Create(t))
           /\ \A n : ~Detaches(Create(t), n)
           /\ \A key : ~Sets(Delete(t), key)
           /\ ~Attaches(Delete(t)) /\ ~MakesSession(Delete(t))
           /\ \A n : ~Detaches(Delete(t), n)
BY DEF Sets, Attaches, Removes, MakesSession, Create, Delete, Detaches

LEMMA OneChange ==
    ASSUME NEW c \in Change
    PROVE  /\ <<c>> \in Seq(Change) /\ DOMAIN <<c>> = {1} /\ <<c>>[1] = c
           /\ 1 .. 1 - 1 = {}
OBVIOUS

LEMMA AttachStarts ==
    ASSUME NEW st, Consistent(st), NEW n \in NodeIDs, NEW s \in Sessions(st)
    PROVE  Starts(st, AttachRequest(n, s))
<1> DEFINE c == Set(s, Attach(n), True)
<1>1. s \in Nat /\ n \in Nat /\ Attach(n) \in Key /\ s \in Ids(st)
  <2>1. st.next \in Nat
    BY StateFacts DEF Consistent
  <2> QED
    BY <2>1 DEF Sessions, Ids, FirstEntity, NodeIDs, Key
<1>2. c \in Change /\ c.op = "set" /\ c.target = s /\ c.key = Attach(n)
      /\ c.value = True
  BY <1>1, Strings, ChangesMade
<1>3. /\ ~Sets(c, Kind) /\ ~Sets(c, Name) /\ \A m : ~Detaches(c, m)
  BY Strings, SetAttaches
<1>4. AttachRequest(n, s) = <<c>>
  BY DEF AttachRequest
<1> HIDE DEF c
<1>5. \A x : c.key = Attach(x) => x = n
  BY <1>2, KeyFacts
<1> QED
  BY <1>1, <1>2, <1>3, <1>4, <1>5, OneChange DEF Starts

LEMMA DetachStarts ==
    ASSUME NEW st, Consistent(st), NEW n \in NodeIDs, NEW s \in Ids(st)
    PROVE  /\ Starts(st, DetachRequest(n, s))
           /\ Detaching(n, s, Work(st, DetachRequest(n, s)))
<1> DEFINE c == Set(s, Attach(n), NoValue)
<1>1. s \in Nat /\ n \in Nat /\ Attach(n) \in Key
  <2>1. st.next \in Nat
    BY StateFacts DEF Consistent
  <2> QED
    BY <2>1 DEF Ids, FirstEntity, NodeIDs, Key
<1>2. c \in Change /\ c.op = "set" /\ c.target = s
  BY <1>1, Strings, ChangesMade
<1>3. ~Sets(c, Kind) /\ ~Sets(c, Name) /\ ~Attaches(c)
  BY SetAttaches
<1>4. DetachRequest(n, s) = <<c>>
  BY DEF DetachRequest
<1> HIDE DEF c
<1>5. Starts(st, DetachRequest(n, s))
  BY <1>1, <1>2, <1>3, <1>4, OneChange DEF Starts
<1>6. ToSet(<<c>>) = {c}
  BY <1>2, OneChange DEF ToSet
<1>7. Detaching(n, s, Work(st, DetachRequest(n, s)))
  BY <1>3, <1>4, <1>6 DEF Detaching, Work, c
<1> QED
  BY <1>5, <1>7

LEMMA DeleteStarts ==
    ASSUME NEW st, Consistent(st), NEW u \in Ids(st)
    PROVE  Starts(st, DeleteRequest(u))
<1> DEFINE c == Delete(u)
<1>1. u \in Nat
  <2>1. st.next \in Nat
    BY StateFacts DEF Consistent
  <2> QED
    BY <2>1 DEF Ids, FirstEntity
<1>2. c \in Change /\ c.op = "delete" /\ c.target = u
  BY <1>1, ChangesMade
<1>3. /\ ~Sets(c, Kind) /\ ~Sets(c, Name) /\ ~Attaches(c)
  BY CreateKinds
<1>4. DeleteRequest(u) = <<c>>
  BY DEF DeleteRequest
<1> HIDE DEF c
<1> QED
  BY <1>1, <1>2, <1>3, <1>4, OneChange DEF Starts

LEMMA NewSessionStarts ==
    ASSUME NEW st, Consistent(st), NEW n \in NodeIDs, NEW u \in Ids(st)
    PROVE  Starts(st, makeNewSessionRequest(n, u))
<1> DEFINE c1 == Create(1)
           c2 == Set(1, Kind, "session")
           c3 == Set(u, Attach(1), True)
           c4 == Set(1, Attach(n), True)
           c5 == Set(1, Transient, True)
           ch == <<c1, c2, c3, c4, c5>>
<1>1. u \in Nat /\ u \notin Temp /\ n \in Nat /\ n \notin Temp
      /\ {Kind, Name, Transient, Attach(1), Attach(n)} \subseteq Key
  <2>1. st.next \in Nat
    BY StateFacts DEF Consistent
  <2> QED
    BY <2>1 DEF Ids, FirstEntity, NodeIDs, Key, Temp
<1>2. /\ c1 \in Change /\ c1.op = "create" /\ c1.target = 1
      /\ c2 \in Change /\ c2.op = "set" /\ c2.target = 1 /\ c2.value = "session"
      /\ c3 \in Change /\ c3.op = "set" /\ c3.target = u /\ c3.value = True
      /\ c3.key = Attach(1)
      /\ c4 \in Change /\ c4.op = "set" /\ c4.target = 1 /\ c4.value = True
      /\ c4.key = Attach(n)
      /\ c5 \in Change /\ c5.op = "set" /\ c5.target = 1
  <2>1. c1 \in Change /\ c1.op = "create" /\ c1.target = 1
    BY ChangesMade
  <2>2. c2 \in Change /\ c2.op = "set" /\ c2.target = 1 /\ c2.value = "session"
    <3>1. 1 \in Nat /\ Kind \in Key /\ "session" \in Values
      BY <1>1, Strings
    <3> QED
      BY <3>1, SetMade
  <2>3. /\ c3 \in Change /\ c3.op = "set" /\ c3.target = u /\ c3.value = True
        /\ c3.key = Attach(1)
    <3>1. u \in Nat /\ Attach(1) \in Key /\ True \in Values
      BY <1>1, Strings
    <3> QED
      BY <3>1, SetMade
  <2>4. /\ c4 \in Change /\ c4.op = "set" /\ c4.target = 1 /\ c4.value = True
        /\ c4.key = Attach(n)
    <3>1. 1 \in Nat /\ Attach(n) \in Key /\ True \in Values
      BY <1>1, Strings
    <3> QED
      BY <3>1, SetMade
  <2>5. c5 \in Change /\ c5.op = "set" /\ c5.target = 1
    <3>1. 1 \in Nat /\ Transient \in Key /\ True \in Values
      BY <1>1, Strings
    <3> QED
      BY <3>1, SetMade
  <2> QED
    BY <2>1, <2>2, <2>3, <2>4, <2>5
<1>3. /\ ~Sets(c1, Kind) /\ ~Sets(c1, Name) /\ ~Attaches(c1) /\ ~Removes(c1)
      /\ ~MakesSession(c1) /\ \A m : ~Detaches(c1, m)
      /\ ~Sets(c2, Name) /\ ~Attaches(c2) /\ ~Removes(c2)
      /\ \A m : ~Detaches(c2, m)
  BY CreateKinds, SetKinds
<1>4. /\ ~Sets(c3, Kind) /\ ~Sets(c3, Name) /\ ~Removes(c3)
      /\ ~MakesSession(c3) /\ \A m : ~Detaches(c3, m)
      /\ ~Sets(c4, Kind) /\ ~Sets(c4, Name) /\ ~Removes(c4)
      /\ ~MakesSession(c4) /\ \A m : ~Detaches(c4, m)
  BY Strings, SetAttaches
<1>5. /\ ~Sets(c5, Kind) /\ ~Sets(c5, Name) /\ ~Attaches(c5)
      /\ ~MakesSession(c5) /\ \A m : ~Detaches(c5, m)
  BY SetKinds
<1>6. makeNewSessionRequest(n, u) = ch
  BY DEF makeNewSessionRequest
<1>7. c1 = Create(1) /\ c2 = Set(1, Kind, "session")
  OBVIOUS
<1>8. /\ \A x : c3.key = Attach(x) => x = 1
      /\ \A x : c4.key = Attach(x) => x = n
  BY <1>2, KeyFacts
<1> HIDE DEF c1, c2, c3, c4, c5
<1>9. /\ ch \in Seq(Change) /\ DOMAIN ch = 1 .. 5
      /\ ch[1] = c1 /\ ch[2] = c2 /\ ch[3] = c3 /\ ch[4] = c4 /\ ch[5] = c5
  BY <1>2
<1> HIDE DEF ch
<1>10. ASSUME NEW i \in 1 .. 5, NEW j \in 1 .. i - 1
       PROVE  Permits(ch[j], ch[i])
  <2>1. i \in {2, 3, 4, 5} /\ j \in {1, 2, 3, 4} /\ (i = 2 => j = 1)
    OBVIOUS
  <2>2. ~Removes(ch[j]) /\ ~Sets(ch[i], Name)
    BY <1>3, <1>4, <1>5, <1>9, <2>1
  <2>3. ch[i].op # "create" /\ (Sets(ch[i], Kind) => i = 2)
        /\ (MakesSession(ch[i]) => i = 2)
    BY <1>2, <1>3, <1>4, <1>5, <1>9, <2>1
  <2> QED
    BY <1>2, <1>3, <1>9, <2>1, <2>2, <2>3 DEF Permits
<1>11. ASSUME NEW i \in 1 .. 5
       PROVE  /\ ch[i].op # "next"
              /\ ch[i].op = "create" => ch[i].target \in Temp
              /\ ch[i].target \in Temp \cup Ids(st)
              /\ ~Sets(ch[i], Name) /\ \A m : ~Detaches(ch[i], m)
              /\ Sets(ch[i], Kind) => i = 2
              /\ Attaches(ch[i]) => i \in {3, 4}
  <2>1. 1 \in Temp /\ i \in {1, 2, 3, 4, 5}
    BY DEF Temp
  <2> QED
    BY <1>2, <1>3, <1>4, <1>5, <1>9, <2>1
<1>12. 1 \in 1 .. 2 - 1 /\ 2 \in 1 .. 3 - 1 /\ 2 \in 1 .. 4 - 1 /\ 1 \in Temp
  BY DEF Temp
<1>13. ASSUME NEW i \in 1 .. 5, Sets(ch[i], Kind)
       PROVE  /\ ch[i].value \in {"user", "session"}
              /\ ch[i].target \in Temp
              /\ \E j \in 1 .. i - 1 : ch[j] = Create(ch[i].target)
  BY <1>2, <1>7, <1>9, <1>11, <1>12, <1>13
<1>14. ASSUME NEW i \in 1 .. 5, NEW x \in Nat,
              Attaches(ch[i]), ch[i].key = Attach(x)
       PROVE  /\ ch[i].value = True
              /\ \/ /\ x \in Temp
                    /\ \E j \in 1 .. i - 1 : ch[j] = Set(x, Kind, "session")
                 \/ /\ x \in NodeIDs
                    /\ \E j \in 1 .. i - 1 :
                          ch[j] = Set(ch[i].target, Kind, "session")
  BY <1>2, <1>7, <1>8, <1>9, <1>11, <1>12, <1>14
<1>15. Starts(st, ch)
  BY <1>9, <1>10, <1>11, <1>13, <1>14 DEF Starts
<1> QED
  BY <1>6, <1>15

LEMMA NewUserStarts ==
    ASSUME NEW st, Consistent(st), NEW n \in NodeIDs, NEW name \in Names
    PROVE  Starts(st, makeNewUserRequest(n, name))
<1> DEFINE c1 == Create(1)
           c2 == Set(1, Kind, "user")
           c3 == Set(1, Name, name)
           c4 == Create(2)
           c5 == Set(2, Kind, "session")
           c6 == Set(1, Attach(2), True)
           c7 == Set(2, Attach(n), True)
           c8 == Set(2, Transient, True)
           ch == <<c1, c2, c3, c4, c5, c6, c7, c8>>
<1>1. n \in Nat /\ n \notin Temp /\ 1 \in Nat /\ 2 \in Nat
      /\ {Kind, Name, Transient, Attach(2), Attach(n)} \subseteq Key
  BY DEF NodeIDs, Key
<1>2. name \in Values
  BY DEF Values
<1>3. /\ c1 \in Change /\ c1.op = "create" /\ c1.target = 1
      /\ c4 \in Change /\ c4.op = "create" /\ c4.target = 2
  BY ChangesMade
<1>4. /\ c2 \in Change /\ c2.op = "set" /\ c2.target = 1 /\ c2.value = "user"
      /\ c3 \in Change /\ c3.op = "set" /\ c3.target = 1
      /\ c5 \in Change /\ c5.op = "set" /\ c5.target = 2 /\ c5.value = "session"
  <2>1. c2 \in Change /\ c2.op = "set" /\ c2.target = 1 /\ c2.value = "user"
    <3>1. "user" \in Values
      BY DEF Values
    <3> QED
      BY <1>1, <3>1, SetMade
  <2>2. c3 \in Change /\ c3.op = "set" /\ c3.target = 1
    BY <1>1, <1>2, SetMade
  <2>3. c5 \in Change /\ c5.op = "set" /\ c5.target = 2 /\ c5.value = "session"
    <3>1. 2 \in Nat /\ Kind \in Key /\ "session" \in Values
      BY <1>1, Strings
    <3> QED
      BY <3>1, SetMade
  <2> QED
    BY <2>1, <2>2, <2>3
<1>5. /\ c6 \in Change /\ c6.op = "set" /\ c6.target = 1 /\ c6.value = True
      /\ c6.key = Attach(2)
      /\ c7 \in Change /\ c7.op = "set" /\ c7.target = 2 /\ c7.value = True
      /\ c7.key = Attach(n)
      /\ c8 \in Change /\ c8.op = "set" /\ c8.target = 2
  <2>1. /\ c6 \in Change /\ c6.op = "set" /\ c6.target = 1 /\ c6.value = True
        /\ c6.key = Attach(2)
    <3>1. 1 \in Nat /\ Attach(2) \in Key /\ True \in Values
      BY <1>1, Strings
    <3> QED
      BY <3>1, SetMade
  <2>2. /\ c7 \in Change /\ c7.op = "set" /\ c7.target = 2 /\ c7.value = True
        /\ c7.key = Attach(n)
    <3>1. 2 \in Nat /\ Attach(n) \in Key /\ True \in Values
      BY <1>1, Strings
    <3> QED
      BY <3>1, SetMade
  <2>3. c8 \in Change /\ c8.op = "set" /\ c8.target = 2
    <3>1. 2 \in Nat /\ Transient \in Key /\ True \in Values
      BY <1>1, Strings
    <3> QED
      BY <3>1, SetMade
  <2> QED
    BY <2>1, <2>2, <2>3
<1>6. /\ ~Sets(c1, Kind) /\ ~Sets(c1, Name) /\ ~Attaches(c1) /\ ~Removes(c1)
      /\ ~MakesSession(c1) /\ \A m : ~Detaches(c1, m)
      /\ ~Sets(c4, Kind) /\ ~Sets(c4, Name) /\ ~Attaches(c4) /\ ~Removes(c4)
      /\ ~MakesSession(c4) /\ \A m : ~Detaches(c4, m)
  BY CreateKinds
<1>7. /\ ~Sets(c2, Name) /\ ~Attaches(c2) /\ ~Removes(c2)
      /\ ~MakesSession(c2) /\ \A m : ~Detaches(c2, m)
      /\ ~Sets(c3, Kind) /\ ~Attaches(c3) /\ ~Removes(c3)
      /\ ~MakesSession(c3) /\ \A m : ~Detaches(c3, m)
      /\ ~Sets(c5, Name) /\ ~Attaches(c5) /\ ~Removes(c5)
      /\ \A m : ~Detaches(c5, m)
  BY Strings, SetKinds
<1>8. /\ ~Sets(c6, Kind) /\ ~Sets(c6, Name) /\ ~Removes(c6)
      /\ ~MakesSession(c6) /\ \A m : ~Detaches(c6, m)
      /\ ~Sets(c7, Kind) /\ ~Sets(c7, Name) /\ ~Removes(c7)
      /\ ~MakesSession(c7) /\ \A m : ~Detaches(c7, m)
  BY Strings, SetAttaches
<1>9. /\ ~Sets(c8, Kind) /\ ~Sets(c8, Name) /\ ~Attaches(c8)
      /\ ~MakesSession(c8) /\ \A m : ~Detaches(c8, m)
  BY SetKinds
<1>10. makeNewUserRequest(n, name) = ch
  BY DEF makeNewUserRequest
<1>11. c1 = Create(1) /\ c4 = Create(2) /\ c5 = Set(2, Kind, "session")
  OBVIOUS
<1>12. /\ \A x : c6.key = Attach(x) => x = 2
       /\ \A x : c7.key = Attach(x) => x = n
  BY <1>5, KeyFacts
<1> HIDE DEF c1, c2, c3, c4, c5, c6, c7, c8
<1>13. /\ ch \in Seq(Change) /\ DOMAIN ch = 1 .. 8
       /\ ch[1] = c1 /\ ch[2] = c2 /\ ch[3] = c3 /\ ch[4] = c4 /\ ch[5] = c5
       /\ ch[6] = c6 /\ ch[7] = c7 /\ ch[8] = c8
  BY <1>3, <1>4, <1>5
<1> HIDE DEF ch
<1>14. ASSUME NEW i \in 1 .. 8
       PROVE  /\ ch[i].op \in {"create", "set"}
              /\ ch[i].op = "create" <=> i \in {1, 4}
              /\ ch[i].target \in Temp
              /\ ch[i].target = IF i \in {4, 5, 7, 8} THEN 2 ELSE 1
              /\ \A m : ~Detaches(ch[i], m)
              /\ Sets(ch[i], Kind) => i \in {2, 5}
              /\ Sets(ch[i], Name) => i = 3
              /\ Attaches(ch[i]) => i \in {6, 7}
              /\ Removes(ch[i]) => i = 8
              /\ MakesSession(ch[i]) => i = 5
  <2>1. 1 \in Temp /\ 2 \in Temp /\ i \in {1, 2, 3, 4, 5, 6, 7, 8}
    BY DEF Temp
  <2>2. CASE i \in {1, 4}
    BY <1>3, <1>6, <1>13, <2>1, <2>2
  <2>3. CASE i \in {2, 3, 5}
    BY <1>4, <1>7, <1>13, <2>1, <2>3
  <2>4. CASE i \in {6, 7, 8}
    BY <1>5, <1>8, <1>9, <1>13, <2>1, <2>4
  <2> QED
    BY <2>1, <2>2, <2>3, <2>4
<1>15. ASSUME NEW i \in 1 .. 8, NEW j \in 1 .. i - 1
       PROVE  Permits(ch[j], ch[i])
  <2>1. j \in 1 .. 8 /\ j < i /\ i # 1
    OBVIOUS
  <2>2. ~Removes(ch[j])
    BY <1>14, <2>1
  <2>3. ~(ch[j].op = "create" /\ ch[i].op = "create" /\ ch[j].target = ch[i].target)
    BY <1>14, <2>1
  <2>4. ~(Sets(ch[i], Kind) /\ ch[j].op = "set" /\ ch[j].target = ch[i].target)
    BY <1>14, <2>1
  <2>5. /\ ~(Sets(ch[j], Name) /\ Sets(ch[i], Name))
        /\ ~(MakesSession(ch[j]) /\ MakesSession(ch[i]))
    BY <1>14, <2>1
  <2> QED
    BY <2>2, <2>3, <2>4, <2>5 DEF Permits
<1>16. /\ 1 \in 1 .. 2 - 1 /\ 4 \in 1 .. 5 - 1 /\ 5 \in 1 .. 6 - 1
       /\ 5 \in 1 .. 7 - 1 /\ 2 \in Temp
  BY DEF Temp
<1>17. ASSUME NEW i \in 1 .. 8, Sets(ch[i], Kind)
       PROVE  /\ ch[i].value \in {"user", "session"}
              /\ \E j \in 1 .. i - 1 : ch[j] = Create(ch[i].target)
  <2>1. i \in {2, 5}
    BY <1>14, <1>17
  <2> QED
    BY <1>4, <1>11, <1>13, <1>16, <2>1
<1>18. ASSUME NEW i \in 1 .. 8, NEW x \in Nat,
              Attaches(ch[i]), ch[i].key = Attach(x)
       PROVE  /\ ch[i].value = True
              /\ \/ /\ x \in Temp
                    /\ \E j \in 1 .. i - 1 : ch[j] = Set(x, Kind, "session")
                 \/ /\ x \in NodeIDs
                    /\ \E j \in 1 .. i - 1 :
                          ch[j] = Set(ch[i].target, Kind, "session")
  <2>1. CASE i = 6
    <3>1. ch[i] = c6 /\ x = 2
      BY <1>12, <1>13, <1>18, <2>1
    <3>2. 5 \in 1 .. i - 1 /\ ch[5] = Set(2, Kind, "session")
      BY <1>11, <1>13, <1>16, <2>1
    <3> QED
      BY <1>5, <1>16, <3>1, <3>2
  <2>2. CASE i = 7
    <3>1. ch[i] = c7 /\ x = n
      BY <1>12, <1>13, <1>18, <2>2
    <3>2. 5 \in 1 .. i - 1 /\ ch[5] = Set(2, Kind, "session")
      BY <1>11, <1>13, <1>16, <2>2
    <3> QED
      BY <1>5, <3>1, <3>2
  <2> QED
    BY <1>14, <1>18, <2>1, <2>2
<1>19. Starts(st, ch)
  BY <1>13, <1>14, <1>15, <1>17, <1>18 DEF Starts
<1> QED
  BY <1>10, <1>19

LEMMA RequestsStart ==
    ASSUME NEW st, Consistent(st), NEW ch \in Requests(st)
    PROVE  Starts(st, ch)
<1>1. \/ \E n \in NodeIDs, name \in Names : ch = makeNewUserRequest(n, name)
      \/ \E n \in NodeIDs, u \in Ids(st) : ch = makeNewSessionRequest(n, u)
      \/ \E n \in NodeIDs, s \in Sessions(st) : ch = AttachRequest(n, s)
      \/ \E n \in NodeIDs, s \in Ids(st) : ch = DetachRequest(n, s)
      \/ \E u \in Ids(st) : ch = DeleteRequest(u)
  BY DEF Requests
<1> QED
  BY <1>1, AttachStarts, DetachStarts, DeleteStarts, NewSessionStarts, NewUserStarts

-----------------------------------------------------------------------------
(* applyChanges (instructions.go:357-611), given a request such as         *)
(* listeners make (handle.go:621-738) and a state as requests leave it,    *)
(* with no two users of a name and nothing but sessions attached to users, *)
(* keeps that state so.  No entity that is gone returns, none gets another *)
(* kind or name, and no more than one session is made.  The changes done   *)
(* tell of each new user and of what is newly attached to a node, which    *)
(* the callbacks of a listener rely on.                                    *)
THEOREM RequestApplied ==
    ASSUME NEW st, Consistent(st), NEW ch \in Requests(st),
           NEW r, r = applyChanges(st, ch, FALSE), r.complete
    PROVE  /\ Consistent(r.state)
           /\ st.next <= r.state.next
           /\ \A e \in Ids(st) : Exists(r.state, e) =>
                 /\ Exists(st, e)
                 /\ Value(r.state, e, Kind) = Value(st, e, Kind)
                 /\ Value(r.state, e, Name) = Value(st, e, Name)
           /\ r.changes \in Seq(Change)
           /\ \A c \in ToSet(r.changes) : Sets(c, Kind) => c.target >= st.next
           /\ \A c, d \in ToSet(r.changes) :
                 MakesSession(c) /\ MakesSession(d) => c.target = d.target
           /\ \A u : Value(r.state, u, Kind) = "user" =>
                 \/ Value(st, u, Kind) = "user"
                 \/ Set(u, Kind, "user") \in ToSet(r.changes)
           /\ \A n \in NodeIDs :
                 /\ \A s : Value(r.state, s, Attach(n)) # NoValue =>
                       \/ Value(st, s, Attach(n)) # NoValue
                       \/ Set(s, Attach(n), True) \in ToSet(r.changes)
                 /\ \A c \in ToSet(r.changes) : Detaches(c, n) =>
                       Value(r.state, c.target, Attach(n)) = NoValue
<1>1. st \in States /\ Sound(st, Work(st, ch)) /\ st.next \in Nat
  BY RequestsStart, StartsSound, StateFacts DEF Consistent
<1>2. PICK w : /\ Sound(st, w) /\ r.state = w.state /\ r.changes = w.done
               /\ w.todo = <<>>
  BY <1>1, AppliedSound
<1>3. ToSet(w.todo) = {}
  BY <1>2 DEF ToSet
<1>4. w \in Works /\ w.state \in States /\ w.state.next \in Nat
  BY <1>2, StateFacts DEF Sound, WellFormed, Works
<1>5. Bound(w) = w.state.next
  BY <1>2 DEF Bound
<1>6. SessionsAttached(w.state)
  BY <1>2, <1>3 DEF Sound, UsersAttached, SessionsAttached
<1>7. Consistent(w.state)
  BY <1>2, <1>4, <1>5, <1>6 DEF Consistent, Sound, WellFormed, IdsInRange
<1>8. /\ st.next <= w.state.next
      /\ \A e \in Ids(st) : Exists(w.state, e) =>
                 /\ Exists(st, e)
                 /\ Value(w.state, e, Kind) = Value(st, e, Kind)
                 /\ Value(w.state, e, Name) = Value(st, e, Name)
  <2>1. \A e \in Ids(st) : e < st.next
    BY <1>1 DEF Ids, FirstEntity
  <2> QED
    BY <1>2, <2>1 DEF Sound, Kept
<1>9. w.done \in Seq(Change)
  BY <1>4 DEF Works
<1>10. \A n \in NodeIDs : NodeAttached(st, n, w)
  BY <1>2 DEF Sound, NodeIDs
<1>11. News(st, w)
  BY <1>2 DEF Sound
<1> QED
  BY <1>2, <1>7, <1>8, <1>9, <1>10, <1>11 DEF NodeAttached, News

(* A session is not attached to the node once the request of the node to   *)
(* detach it is applied, whether or not it then expires                     *)
(* (instructions.go:526-550).                                              *)
THEOREM DetachApplied ==
    ASSUME NEW st, Consistent(st), NEW n \in NodeIDs, NEW s \in Ids(st),
           NEW r, r = applyChanges(st, DetachRequest(n, s), FALSE), r.complete
    PROVE  Value(r.state, s, Attach(n)) = NoValue
<1>1. /\ Starts(st, DetachRequest(n, s))
      /\ Detaching(n, s, Work(st, DetachRequest(n, s)))
  BY DetachStarts
<1>2. WellFormed(Work(st, DetachRequest(n, s)))
  BY <1>1, StartsSound DEF Sound
<1>3. s \in Nat /\ s >= FirstEntity /\ st \in States
  <2>1. st.next \in Nat
    BY StateFacts DEF Consistent
  <2> QED
    BY <2>1 DEF Ids, FirstEntity, Consistent
<1> QED
  BY <1>1, <1>2, <1>3, AppliedDetaches DEF NodeIDs

(* A request that waits while others are applied keeps its meaning.        *)
LEMMA RequestsKept ==
    ASSUME NEW st, Consistent(st), NEW st2, Consistent(st2), st.next <= st2.next,
           \A e \in Ids(st) : Exists(st2, e) =>
                 Exists(st, e) /\ Value(st2, e, Kind) = Value(st, e, Kind)
    PROVE  Requests(st) \subseteq Requests(st2) /\ Ids(st) \subseteq Ids(st2)
<1>1. st.next \in Nat /\ st2.next \in Nat
  BY StateFacts DEF Consistent
<1>2. Ids(st) \subseteq Ids(st2)
  BY <1>1 DEF Ids, FirstEntity
<1>3. Sessions(st) \subseteq Sessions(st2)
  BY <1>2 DEF Sessions
<1> QED
  BY <1>2, <1>3 DEF Requests

-----------------------------------------------------------------------------
(* The idempotent form of changes: what each does by itself.               *)
Step(st, c) ==
    IF c.op = "create" THEN WithEntity(st, c.target)
    ELSE IF c.op = "delete" THEN WithoutEntity(st, c.target)
    ELSE IF c.op = "next" THEN [st EXCEPT !.next = c.next]
    ELSE WithValue(st, c.target, c.key, c.value)

Leads(g, st, w) ==
    /\ g[0] = st /\ g[Len(w.done)] = w.state
    /\ \A i \in 1 .. Len(w.done) :
          /\ w.done[i].op = "set" => Exists(g[i - 1], w.done[i].target)
          /\ g[i] = Step(g[i - 1], w.done[i])

LEMMA RoundSteps ==
    ASSUME NEW w, WellFormed(w), w.todo # <<>>,
           NEW w2, w2 = ApplyChange(w, FALSE)
    PROVE  \/ w2.done = w.done /\ w2.state = w.state
           \/ \E c \in Change :
                 /\ w2.done = Append(w.done, c)
                 /\ c.op = "set" => Exists(w.state, c.target)
                 /\ w2.state = Step(w.state, c)
<1>1. w \in Works /\ Head(w.todo) \in Change
  BY HeadFacts DEF WellFormed
<1>2. CASE NextRound(w, w2)
  BY <1>1, <1>2, NextShape DEF NextRound, Step
<1>3. CASE CreateRound(w, w2)
  <2>1. Creates(w, w2, Head(w.todo).target, w.state.next)
    BY <1>3, CreateShape
  <2>2. /\ w2.done = Append(w.done, Create(w.state.next))
        /\ w2.state = WithEntity(w.state, w.state.next)
        /\ w.state.next \in Nat
    BY <2>1 DEF Creates
  <2>3. /\ Create(w.state.next) \in Change
        /\ Create(w.state.next).op = "create"
        /\ Create(w.state.next).target = w.state.next
    BY <2>2, ChangesMade
  <2>4. Step(w.state, Create(w.state.next)) = WithEntity(w.state, w.state.next)
    BY <2>3 DEF Step
  <2> QED
    BY <2>2, <2>3, <2>4
<1>4. CASE DeleteRound(w, w2)
  <2>1. w2.done = Append(w.done, Head(w.todo))
        /\ w2.state = WithoutEntity(w.state, Head(w.todo).target)
    BY <1>4, DeleteShape
  <2>2. Head(w.todo).op = "delete"
    BY <1>4 DEF DeleteRound
  <2> QED
    BY <1>1, <2>1, <2>2 DEF Step
<1>5. CASE DropRound(w, w2)
  BY <1>5, DropShape
<1>6. CASE SetRound(w, w2) \/ ExpireRound(w, w2)
  <2>1. w2.done = Append(w.done, Head(w.todo)) /\ Head(w.todo).op = "set"
        /\ Exists(w.state, Head(w.todo).target)
    BY <1>6, SetShape, ExpireShape DEF SetRound, ExpireRound
  <2>2. w2.state = Result(w)
    BY <1>1, <1>6 DEF SetRound, ExpireRound, Done, Inject, Works
  <2> QED
    BY <1>1, <2>1, <2>2 DEF Step, Result
<1> QED
  BY <1>2, <1>3, <1>4, <1>5, <1>6, RoundCases

LEMMA LeadsAppend ==
    ASSUME NEW st, NEW w, w.done \in Seq(Change), NEW c \in Change, NEW w2,
           w2.done = Append(w.done, c),
           c.op = "set" => Exists(w.state, c.target),
           w2.state = Step(w.state, c), NEW g, Leads(g, st, w)
    PROVE  /\ \E g2 : Leads(g2, st, w2)
           /\ w2.done \in Seq(Change) /\ Len(w2.done) = Len(w.done) + 1
<1>1. PICK n \in Nat : n = Len(w.done)
  BY LenProperties
<1>2. PICK d : d = Append(w.done, c)
  OBVIOUS
<1>3. /\ d \in Seq(Change) /\ Len(d) = n + 1 /\ d[n + 1] = c
      /\ \A i \in 1 .. n : d[i] = w.done[i]
  BY <1>1, <1>2, AppendProperties
<1> DEFINE g2 == [i \in 0 .. n + 1 |-> IF i = n + 1 THEN w2.state ELSE g[i]]
<1>4. g2[n + 1] = w2.state
  <2>1. n + 1 \in 0 .. n + 1
    OBVIOUS
  <2> QED
    BY <2>1
<1>5. ASSUME NEW i \in 0 .. n PROVE g2[i] = g[i]
  <2>1. i \in 0 .. n + 1 /\ i # n + 1
    OBVIOUS
  <2> QED
    BY <2>1
<1> HIDE DEF g2
<1>6. g2[0] = st /\ g2[Len(d)] = w2.state /\ g[n] = w.state
  <2>1. 0 \in 0 .. n
    OBVIOUS
  <2> QED
    BY <1>1, <1>3, <1>4, <1>5, <2>1 DEF Leads
<1>7. ASSUME NEW i \in 1 .. n + 1
      PROVE  /\ d[i].op = "set" => Exists(g2[i - 1], d[i].target)
             /\ g2[i] = Step(g2[i - 1], d[i])
  <2>1. CASE i = n + 1
    <3>1. i - 1 = n /\ n \in 0 .. n
      BY <2>1
    <3>2. g2[i - 1] = w.state
      BY <1>5, <1>6, <3>1
    <3>3. d[i] = c /\ g2[i] = w2.state
      BY <1>3, <1>4, <2>1
    <3> QED
      BY <3>2, <3>3
  <2>2. CASE i # n + 1
    <3>1. i \in 1 .. n /\ i - 1 \in 0 .. n /\ i \in 0 .. n
      BY <2>2
    <3>2. g2[i - 1] = g[i - 1] /\ g2[i] = g[i] /\ d[i] = w.done[i]
      BY <1>3, <1>5, <3>1
    <3> QED
      BY <1>1, <3>1, <3>2 DEF Leads
  <2> QED
    BY <2>1, <2>2
<1>8. Leads(g2, st, w2)
  BY <1>2, <1>3, <1>6, <1>7 DEF Leads
<1>9. w2.done \in Seq(Change) /\ Len(w2.done) = Len(w.done) + 1
  BY <1>1, <1>2, <1>3
<1> QED
  BY <1>8, <1>9

LEMMA LeadsStep ==
    ASSUME NEW st, NEW w, w.done \in Seq(Change), NEW w2, NEW g,
           Leads(g, st, w),
           \/ w2.done = w.done /\ w2.state = w.state
           \/ \E c \in Change :
                 /\ w2.done = Append(w.done, c)
                 /\ c.op = "set" => Exists(w.state, c.target)
                 /\ w2.state = Step(w.state, c)
    PROVE  /\ \E g2 : Leads(g2, st, w2)
           /\ w2.done \in Seq(Change) /\ Len(w2.done) <= Len(w.done) + 1
<1>1. w.done \in Seq(Change) /\ Len(w.done) \in Nat
  BY LenProperties
<1>2. CASE w2.done = w.done /\ w2.state = w.state
  <2>1. Leads(g, st, w2)
    BY <1>2 DEF Leads
  <2>2. Len(w2.done) <= Len(w.done) + 1
    BY <1>1, <1>2
  <2> QED
    BY <1>1, <1>2, <2>1, <2>2
<1>3. CASE \E c \in Change :
            /\ w2.done = Append(w.done, c)
            /\ c.op = "set" => Exists(w.state, c.target)
            /\ w2.state = Step(w.state, c)
  <2>1. /\ \E g2 : Leads(g2, st, w2)
        /\ w2.done \in Seq(Change) /\ Len(w2.done) = Len(w.done) + 1
    <3>1. PICK c \in Change :
             /\ w2.done = Append(w.done, c)
             /\ c.op = "set" => Exists(w.state, c.target)
             /\ w2.state = Step(w.state, c)
      BY <1>3
    <3>2. w2.done = Append(w.done, c)
      BY <3>1
    <3>3. c.op = "set" => Exists(w.state, c.target)
      BY <3>1
    <3>4. w2.state = Step(w.state, c)
      BY <3>1
    <3>5. w.done \in Seq(Change) /\ Leads(g, st, w)
      OBVIOUS
    <3> QED
      BY ONLY <3>2, <3>3, <3>4, <3>5, c \in Change, LeadsAppend
  <2> QED
    BY <1>1, <2>1
<1> QED
  BY <1>2, <1>3

LEMMA LeadsRound ==
    ASSUME NEW st, NEW w, WellFormed(w), w.todo # <<>>,
           NEW w2, w2 = ApplyChange(w, FALSE), NEW g, Leads(g, st, w)
    PROVE  /\ \E g2 : Leads(g2, st, w2)
           /\ w2.done \in Seq(Change) /\ Len(w2.done) <= Len(w.done) + 1
<1>1. w.done \in Seq(Change)
  BY DEF WellFormed, Works
<1>2. \/ w2.done = w.done /\ w2.state = w.state
      \/ \E c \in Change :
            /\ w2.done = Append(w.done, c)
            /\ c.op = "set" => Exists(w.state, c.target)
            /\ w2.state = Step(w.state, c)
  BY RoundSteps
<1> QED
  BY <1>1, <1>2, LeadsStep

LEMMA IdempotentRound ==
    ASSUME NEW x, x.todo # <<>>, NEW c, c = Head(x.todo), c \in Change,
           c.op = "set" => Exists(x.state, c.target)
    PROVE  ApplyChange(x, TRUE) = Done(x, Step(x.state, c), c)
<1>1. c.op \in {"create", "delete", "set", "next"}
  BY ChangeFacts
<1>2. CASE c.op = "create"
  BY <1>2 DEF ApplyChange, Step
<1>3. CASE c.op = "delete"
  BY <1>3 DEF ApplyChange, Step
<1>4. CASE c.op = "next"
  BY <1>4 DEF ApplyChange, Step
<1>5. CASE c.op = "set"
  BY <1>5 DEF ApplyChange, Step
<1> QED
  BY <1>1, <1>2, <1>3, <1>4, <1>5

(* Work on the changes d, of which k are done.                             *)
Replaying(g, d, k, x) ==
    /\ x \in [state : {g[i] : i \in 0 .. Len(d)}, done : Seq(Change),
              todo : Seq(Change), renamed : {{}}]
    /\ k <= Len(d) => /\ x.state = g[k] /\ Len(x.todo) = Len(d) - k
                      /\ \A i \in 1 .. Len(d) - k : x.todo[i] = d[k + i]
    /\ k >= Len(d) => x.state = g[Len(d)] /\ x.todo = <<>>

LEMMA ReplayRound ==
    ASSUME NEW st, NEW w, w.done \in Seq(Change), NEW g, Leads(g, st, w),
           NEW k \in Nat, NEW x, Replaying(g, w.done, k, x)
    PROVE  Replaying(g, w.done, k + 1, ApplyChange(x, TRUE))
<1>1. PICK d \in Seq(Change) : d = w.done
  OBVIOUS
<1>2. PICK n \in Nat : n = Len(d)
  BY LenProperties
<1>3. CASE k >= n
  <2>1. x.todo = <<>> /\ x.state = g[n]
    BY <1>1, <1>2, <1>3 DEF Replaying
  <2>2. ApplyChange(x, TRUE) = x
    BY <2>1 DEF ApplyChange
  <2>3. k + 1 >= n /\ ~(k + 1 <= n)
    BY <1>3
  <2> QED
    BY <1>1, <1>2, <2>1, <2>2, <2>3 DEF Replaying
<1>4. CASE ~(k >= n)
  <2>1. k < n
    BY <1>4
  <2>2. /\ x.todo \in Seq(Change) /\ x.done \in Seq(Change)
        /\ x.state = g[k] /\ Len(x.todo) = n - k
        /\ \A i \in 1 .. n - k : x.todo[i] = d[k + i]
        /\ x \in [state : {g[i] : i \in 0 .. n}, done : Seq(Change),
                  todo : Seq(Change), renamed : {{}}]
    BY <1>1, <1>2, <2>1 DEF Replaying
  <2>3. x.todo # <<>> /\ 1 \in 1 .. n - k
    BY <2>1, <2>2, EmptySeq
  <2>4. PICK c \in Change : c = Head(x.todo)
    BY <2>2, <2>3, HeadTailProperties
  <2>5. PICK t \in Seq(Change) : t = Tail(x.todo)
    BY <2>2, <2>3, HeadTailProperties
  <2>6. /\ c = x.todo[1] /\ Len(t) = (n - k) - 1
        /\ \A i \in 1 .. Len(t) : t[i] = x.todo[i + 1]
    BY <2>2, <2>3, <2>4, <2>5, HeadTailProperties
  <2>7. c = d[k + 1] /\ k + 1 \in 1 .. n /\ (k + 1) - 1 = k
    BY <2>1, <2>2, <2>3, <2>6
  <2>8. /\ c.op = "set" => Exists(x.state, c.target)
        /\ g[k + 1] = Step(x.state, c)
    BY <1>1, <1>2, <2>2, <2>7 DEF Leads
  <2>9. ApplyChange(x, TRUE) = Done(x, g[k + 1], c)
    BY <2>3, <2>4, <2>8, IdempotentRound
  <2>10. PICK y : y = Done(x, g[k + 1], c)
    OBVIOUS
  <2>11. PICK a \in Seq(Change) : a = Append(x.done, c)
    BY <2>2, AppendProperties
  <2>12. y = [x EXCEPT !.state = g[k + 1], !.done = a, !.todo = t]
    BY <2>5, <2>10, <2>11 DEF Done
  <2>13. g[k + 1] \in {g[i] : i \in 0 .. n}
    <3>1. k + 1 \in 0 .. n
      BY <2>7
    <3> QED
      BY <3>1
  <2>14. /\ y \in [state : {g[i] : i \in 0 .. n}, done : Seq(Change),
                   todo : Seq(Change), renamed : {{}}]
         /\ y.state = g[k + 1] /\ y.todo = t
    <3> DEFINE G == {g[i] : i \in 0 .. n}
    <3>1. g[k + 1] \in G /\ x \in [state : G, done : Seq(Change),
                                   todo : Seq(Change), renamed : {{}}]
      BY <2>2, <2>13
    <3> HIDE DEF G
    <3>2. /\ y \in [state : G, done : Seq(Change),
                    todo : Seq(Change), renamed : {{}}]
          /\ y.state = g[k + 1] /\ y.todo = t
      BY <2>12, <3>1
    <3> QED
      BY <3>2 DEF G
  <2>15. ASSUME NEW i \in 1 .. n - (k + 1) PROVE t[i] = d[(k + 1) + i]
    <3>1. i \in 1 .. Len(t) /\ i + 1 \in 1 .. n - k /\ k + (i + 1) = (k + 1) + i
      BY <2>1, <2>6
    <3> QED
      BY <2>2, <2>6, <3>1
  <2>16. Len(t) = n - (k + 1) /\ k + 1 <= n
    BY <2>1, <2>6
  <2>17. k + 1 >= n => y.state = g[n] /\ y.todo = <<>>
    <3>1. k + 1 >= n => k + 1 = n /\ Len(t) = 0
      BY <2>16
    <3> QED
      BY <2>14, <3>1, EmptySeq
  <2>18. Replaying(g, d, k + 1, y)
    BY <1>2, <2>14, <2>15, <2>16, <2>17 DEF Replaying
  <2> QED
    BY <1>1, <2>9, <2>10, <2>18
<1> QED
  BY <1>3, <1>4

LEMMA AppliedIdempotent ==
    ASSUME NEW st, NEW changes
    PROVE  applyChanges(st, changes, TRUE).state
               = Later(Work(st, changes), TRUE, MaxChanges).state
<1> DEFINE w == Later(Work(st, changes), TRUE, MaxChanges)
           r == [state |-> w.state, changes |-> w.done,
                 complete |-> /\ Assert(w.todo = <<>>, "MaxChanges is too small")
                              /\ w.todo = <<>>]
<1>1. applyChanges(st, changes, TRUE) = r
  BY DEF applyChanges, Later
<1>2. r.state = w.state
  OBVIOUS
<1> QED
  BY <1>1, <1>2

LEMMA Repeated ==
    ASSUME NEW st, NEW w, w.done \in Seq(Change), NEW g, Leads(g, st, w),
           Len(w.done) <= MaxChanges
    PROVE  applyChanges(st, w.done, TRUE).state = w.state
<1> DEFINE d == w.done
           x0 == Work(st, d)
           P == {p \in Nat \X [state : {g[i] : i \in 0 .. Len(d)},
                      done : Seq(Change), todo : Seq(Change), renamed : {{}}] :
                    Replaying(g, d, p[1], p[2])}
<1>1. Len(d) \in Nat /\ MaxChanges \in Nat
  BY LenProperties, ChangesAssumption
<1>2. Replaying(g, d, 0, x0)
  <2>1. g[0] = st /\ 0 \in 0 .. Len(d)
    BY <1>1 DEF Leads
  <2>2. <<>> \in Seq(Change)
    OBVIOUS
  <2>3. x0 \in [state : {g[i] : i \in 0 .. Len(d)}, done : Seq(Change),
              todo : Seq(Change), renamed : {{}}]
    BY <2>1, <2>2 DEF Work
  <2>4. x0.state = g[0] /\ x0.todo = d
    BY <2>1 DEF Work
  <2>5. 0 >= Len(d) => Len(d) = 0 /\ d = <<>>
    BY <1>1, EmptySeq
  <2>6. \A i \in 1 .. Len(d) - 0 : x0.todo[i] = d[0 + i]
    BY <1>1, <2>4
  <2> QED
    BY <1>1, <2>1, <2>3, <2>4, <2>5, <2>6 DEF Replaying
<1>3. \A k, x : <<k, x>> \in P <=> k \in Nat /\ Replaying(g, d, k, x)
  BY DEF Replaying
<1> HIDE DEF P, x0
<1>4. \A k \in Nat : \A x : <<k, x>> \in P => <<k + 1, ApplyChange(x, TRUE)>> \in P
  <2> SUFFICES ASSUME NEW k \in Nat, NEW x, <<k, x>> \in P
               PROVE  <<k + 1, ApplyChange(x, TRUE)>> \in P
    OBVIOUS
  <2>1. Replaying(g, d, k, x) /\ k + 1 \in Nat
    BY <1>3
  <2>2. PICK y : y = ApplyChange(x, TRUE)
    OBVIOUS
  <2>3. Replaying(g, d, k + 1, y)
    BY <2>1, <2>2, ReplayRound
  <2>4. <<k + 1, y>> \in P
    BY <1>3, <2>1, <2>3
  <2> QED
    BY <2>2, <2>4
<1>5. <<0, x0>> \in P
  BY <1>2, <1>3
<1>6. <<MaxChanges, Later(x0, TRUE, MaxChanges)>> \in P
  BY <1>1, <1>4, <1>5, Rounds
<1>7. Replaying(g, d, MaxChanges, Later(x0, TRUE, MaxChanges))
  BY <1>3, <1>6
<1>8. Later(x0, TRUE, MaxChanges).state = g[Len(d)]
  BY <1>1, <1>7 DEF Replaying
<1>9. PICK x : x = Later(x0, TRUE, MaxChanges)
  OBVIOUS
<1>10. x = Later(Work(st, w.done), TRUE, MaxChanges)
  BY <1>9 DEF x0
<1>11. applyChanges(st, w.done, TRUE).state = x.state
  BY <1>10, AppliedIdempotent
<1> QED
  BY <1>8, <1>9, <1>11 DEF Leads

(* The changes that applyChanges returns for a request give, applied as    *)
(* idempotent to the same state, the state that the request gave: what a   *)
(* node is sent in a burst does there what the request did elsewhere       *)
(* (instructions.go:358-360).                                              *)
THEOREM IdempotentApplied ==
    ASSUME NEW st, Consistent(st), NEW ch \in Requests(st)
    PROVE  applyChanges(st, applyChanges(st, ch, FALSE).changes, TRUE).state
               = applyChanges(st, ch, FALSE).state
<1> DEFINE w0 == Work(st, ch)
           Good(k, w) == /\ Sound(st, w) /\ Len(w.done) <= k
                         /\ \E g : Leads(g, st, w)
           P == {p \in Nat \X Works : Good(p[1], p[2])}
<1>1. \A w : Sound(st, w) => w \in Works /\ w.done \in Seq(Change)
                             /\ Len(w.done) \in Nat
  BY LenProperties DEF Sound, WellFormed, Works
<1>2. Good(0, w0)
  <2>1. Sound(st, w0)
    BY RequestsStart, StartsSound
  <2>2. w0.done = <<>> /\ w0.state = st /\ Len(<<>>) = 0
    BY DEF Work
  <2>3. Leads([i \in {0} |-> st], st, w0)
    BY <2>2 DEF Leads
  <2> QED
    BY <2>1, <2>2, <2>3
<1>3. \A k, w : <<k, w>> \in P <=> k \in Nat /\ Good(k, w)
  BY <1>1
<1>4. ASSUME NEW k \in Nat, NEW w, Good(k, w)
      PROVE  Good(k + 1, ApplyChange(w, FALSE))
  <2>1. Sound(st, w) /\ WellFormed(w) /\ Len(w.done) \in Nat /\ Len(w.done) <= k
    BY <1>1, <1>4 DEF Sound
  <2>2. Sound(st, ApplyChange(w, FALSE))
    BY <2>1, SoundRound DEF Consistent
  <2>3. CASE w.todo = <<>>
    <3>1. ApplyChange(w, FALSE) = w
      BY <2>3 DEF ApplyChange
    <3>2. Len(w.done) <= k + 1
      BY <2>1
    <3> QED
      BY <1>4, <2>1, <3>1, <3>2
  <2>4. CASE w.todo # <<>>
    <3>1. PICK g : Leads(g, st, w)
      BY <1>4
    <3>2. PICK w2 : w2 = ApplyChange(w, FALSE)
      OBVIOUS
    <3>3. (\E g2 : Leads(g2, st, w2)) /\ Len(w2.done) <= Len(w.done) + 1
      BY <2>1, <2>4, <3>1, <3>2, LeadsRound
    <3>4. Len(w2.done) \in Nat
      BY <1>1, <2>2, <3>2
    <3>5. Len(w2.done) <= k + 1
      BY <2>1, <3>3, <3>4
    <3> QED
      BY <2>2, <3>2, <3>3, <3>5
  <2> QED
    BY <2>3, <2>4
<1> HIDE DEF P, Good
<1>5. <<0, w0>> \in P
  BY <1>2, <1>3
<1>6. \A k \in Nat : \A x : <<k, x>> \in P => <<k + 1, ApplyChange(x, FALSE)>> \in P
  <2> SUFFICES ASSUME NEW k \in Nat, NEW x, <<k, x>> \in P
               PROVE  <<k + 1, ApplyChange(x, FALSE)>> \in P
    OBVIOUS
  <2>1. Good(k, x)
    BY <1>3
  <2>2. PICK y : y = ApplyChange(x, FALSE)
    OBVIOUS
  <2>3. Good(k + 1, ApplyChange(x, FALSE))
    BY <1>4, <2>1
  <2>4. Good(k + 1, y)
    BY <2>2, <2>3
  <2>5. k + 1 \in Nat
    OBVIOUS
  <2>6. <<k + 1, y>> \in P
    BY <1>3, <2>4, <2>5
  <2> QED
    BY <2>2, <2>6
<1>7. MaxChanges \in Nat
  BY ChangesAssumption
<1> HIDE DEF w0
<1>8. <<MaxChanges, Later(w0, FALSE, MaxChanges)>> \in P
  BY <1>5, <1>6, <1>7, Rounds
<1>9. PICK w : w = Later(w0, FALSE, MaxChanges)
  OBVIOUS
<1>10. Good(MaxChanges, w)
  BY <1>3, <1>8, <1>9
<1>11. /\ applyChanges(st, ch, FALSE).state = w.state
       /\ applyChanges(st, ch, FALSE).changes = w.done
  <2>1. w = Later(Work(st, ch), FALSE, MaxChanges)
    BY <1>9 DEF w0
  <2> QED
    BY <2>1, AppliedRounds
<1>12. w.done \in Seq(Change)
  BY <1>1, <1>10 DEF Good
<1>13. applyChanges(st, w.done, TRUE).state = w.state
  BY <1>10, <1>12, Repeated DEF Good
<1> QED
  BY <1>11, <1>13
==============================================================================
