------------------------ MODULE ChangeRequestsProofs ------------------------
(***************************************************************************)
(* Theorems about ChangeRequests, for any nodes, requests and bounds: what *)
(* the ignore lists of forwards look like, and what timeouts do.           *)
(***************************************************************************)
EXTENDS ChangeRequests, SequenceTheorems, FiniteSetTheorems, TLAPS

(* A list that names nobody twice.                                         *)
Distinct(list) ==
    \A i, j \in 1 .. Len(list) : list[i] = list[j] => i = j

IgnoreList == {list \in Seq(CoreNodes) : Distinct(list)}

-----------------------------------------------------------------------------
(* Lemmas about lists and candidates.                                      *)

(* A nonempty set of node IDs has a first one.                             *)
LEMMA FirstNode ==
    ASSUME NEW S \in SUBSET Nat, S # {}
    PROVE  \E m \in S : \A o \in S : m <= o
<1> DEFINE R == OpToRel(<, Nat)
<1>1. IsWellFoundedOn(R, Nat)
    BY NatLessThanWellFounded
<1>2. \A x, y \in Nat : y < x => <<y, x>> \in R
    BY DEF OpToRel
<1> HIDE DEF R
<1>3. PICK m \in S : \A o \in S : <<o, m>> \notin R
    BY <1>1, WFMin
<1>4. ASSUME NEW o \in S
      PROVE  m <= o
    <2>1. m \in Nat /\ o \in Nat
        OBVIOUS
    <2>2. ~(o < m)
        BY <1>2, <1>3, <2>1
    <2> QED
        BY <2>1, <2>2
<1> QED
    BY <1>4

(* A list without duplicates is as long as its range is large, and it      *)
(* names every core node as soon as it is as long as they are many.        *)
LEMMA DistinctLength ==
    ASSUME NEW list \in IgnoreList
    PROVE  /\ Len(list) = Cardinality(Range(list))
           /\ Range(list) \subseteq CoreNodes
           /\ Len(list) = Cardinality(CoreNodes) => Range(list) = CoreNodes
<1>1. list \in Seq(CoreNodes) /\ Distinct(list)
    BY DEF IgnoreList
<1>2. Range(list) = {list[i] : i \in 1 .. Len(list)}
    BY <1>1, RangeEquality
<1>3. Range(list) \subseteq CoreNodes
    BY <1>1, RangeOfSeq
<1>4. Len(list) = Cardinality(Range(list))
    <2>1. Len(list) \in Nat /\ DOMAIN list = 1 .. Len(list)
        BY <1>1, LenProperties
    <2> DEFINE l == Len(list)
    <2> HIDE DEF l
    <2>2. /\ IsFiniteSet(1 .. l)
          /\ Cardinality(1 .. l) = l
        <3>1. l \in Nat
            BY <2>1 DEF l
        <3>2. /\ IsFiniteSet(1 .. l)
              /\ Cardinality(1 .. l) = IF 1 > l THEN 0 ELSE l - 1 + 1
            BY <3>1, FS_Interval
        <3> QED
            BY <3>1, <3>2
    <2>3. list \in Bijection(1 .. Len(list), Range(list))
        <3>1. list \in [1 .. Len(list) -> Range(list)]
            BY <1>1, SeqOfRange, LenProperties
        <3>2. list \in Injection(1 .. Len(list), Range(list))
            BY <1>1, <3>1 DEF Distinct, Injection, IsInjective
        <3>3. list \in Surjection(1 .. Len(list), Range(list))
            BY <1>2, <3>1 DEF Surjection
        <3> QED
            BY <3>2, <3>3 DEF Bijection
    <2>4. ExistsBijection(1 .. Len(list), Range(list))
        BY <2>3 DEF ExistsBijection
    <2> QED
        BY <2>2, <2>4, FS_Bijection DEF l
<1> QED
    BY <1>3, <1>4, CoreNodesAssumption, FS_Subset

(* Another node at the end of a list keeps it free of duplicates.          *)
LEMMA DistinctAppend ==
    ASSUME NEW list \in IgnoreList, NEW m \in CoreNodes \ Range(list)
    PROVE  Append(list, m) \in IgnoreList
<1> DEFINE longer == Append(list, m)
<1>1. list \in Seq(CoreNodes) /\ Distinct(list) /\ Len(list) \in Nat
    BY DEF IgnoreList
<1>2. Range(list) = {list[i] : i \in 1 .. Len(list)}
    BY <1>1, RangeEquality
<1>3. /\ longer \in Seq(CoreNodes)
      /\ Len(longer) = Len(list) + 1
      /\ \A i \in 1 .. Len(list) : longer[i] = list[i]
      /\ longer[Len(list) + 1] = m
    BY <1>1, AppendProperties
<1> HIDE DEF longer
<1>4. \A i \in 1 .. Len(longer) : i \in 1 .. Len(list) \/ i = Len(list) + 1
    BY <1>1, <1>3
<1>5. \A i \in 1 .. Len(list) : longer[i] # m
    BY <1>2, <1>3
<1>6. Distinct(longer)
    BY <1>1, <1>3, <1>4, <1>5 DEF Distinct
<1> QED
    BY <1>3, <1>6 DEF IgnoreList, longer

LEMMA EmptyList == <<>> \in IgnoreList /\ Len(<<>>) = 0
<1>1. <<>> \in Seq(CoreNodes) /\ Len(<<>>) = 0
    BY EmptySeq
<1> QED
    BY <1>1 DEF IgnoreList, Distinct

LEMMA WithSelfFacts ==
    ASSUME stopped \subseteq CoreNodes, NEW n, NEW list \in IgnoreList
    PROVE  WithSelf(n, list) \in IgnoreList
<1>1. CASE n \in stopped /\ n \notin Range(list)
    BY <1>1, DistinctAppend DEF WithSelf
<1>2. CASE ~(n \in stopped /\ n \notin Range(list))
    BY <1>2 DEF WithSelf
<1> QED
    BY <1>1, <1>2

(* Candidates are core nodes that are not ignored, and there is one unless *)
(* every core node is.                                                     *)
LEMMA CandidatesFacts ==
    ASSUME NEW n, NEW list \in IgnoreList
    PROVE  /\ Candidates(n, list) \subseteq CoreNodes \ Range(list)
           /\ Candidates(n, list) = {} => Range(list) = CoreNodes
<1> DEFINE open == CoreNodes \ Range(list)
<1>1. Range(list) \subseteq CoreNodes
    BY DistinctLength
<1>2. open # {} => \E m \in open : \A o \in open : m <= o
    BY CoreNodesAssumption, FirstNode
<1> QED
    BY <1>1, <1>2 DEF Candidates

-----------------------------------------------------------------------------
(* The inductive invariant.                                                *)

(* No ignore list, wherever it is, names a node twice.                     *)
ListsDistinct ==
    /\ \A f \in forwards : f.ignores \in IgnoreList
    /\ \A n \in CoreNodes : \A f \in received[n] : f.ignores \in IgnoreList
    /\ \A n \in Node, r \in Request : forwardTimeouts[n][r] \in IgnoreList

(* An acknowledgement is sent by a node that the forward has reached.      *)
AcksReached == \A a \in acks : <<a.from, a.request>> \in reached

Started(r) == requestTimeout[r] \notin {"none", "queued"}

(* What consensus has got.                                                 *)
Taken ==
    chosen \cup abandoned
    \cup UNION {waitingRequests[n] \cup proposed[n] : n \in CoreNodes}

(* Whatever is on its way, has arrived or is chosen was started by its     *)
(* requester.                                                              *)
OnlyStarted ==
    /\ \A f \in forwards : Started(f.request)
    /\ \A n \in CoreNodes : \A f \in received[n] : Started(f.request)
    /\ \A n \in Node, r \in Request : forwardTimeouts[n][r] # <<>> => Started(r)
    /\ \A n \in CoreNodes : \A r \in newChanges[n] : Started(r)
    /\ \A r \in Taken : Started(r)

(* A request that its requester knows as chosen has no timer any more.     *)
KnownSettled ==
    \A r \in Request :
        r \in known[RequestNode[r]] => requestTimeout[r] \in {"canceled", "done"}

RequestsInv ==
    TypeOK /\ ListsDistinct /\ AcksReached /\ OnlyStarted /\ KnownSettled

LEMMA TakenRequests == TypeOK => Taken \subseteq Request
BY DEF TypeOK, Taken

-----------------------------------------------------------------------------
(* What processForward does: it sends request r only, gives nothing else   *)
(* to consensus, and touches only the timeout of r.  It waits afterwards   *)
(* unless it has taken the request itself or nobody is left to try.        *)
LEMMA processForwardFacts ==
    ASSUME TypeOK, NEW n \in Node, NEW r \in Request,
           NEW list \in IgnoreList,
           NEW pending \in [Node -> [Request -> IgnoreList]],
           processForward(n, r, list, pending)
    PROVE  /\ forwards' \subseteq Forward
           /\ \A f \in forwards' :
                 f \in forwards \/ (f.request = r /\ f.ignores \in IgnoreList)
           /\ newChanges' \in [CoreNodes -> SUBSET Request]
           /\ \A k \in CoreNodes : newChanges'[k] \subseteq newChanges[k] \cup {r}
           /\ forwardTimeouts' \in [Node -> [Request -> IgnoreList]]
           /\ \A k \in Node, q \in Request :
                 k # n \/ q # r => forwardTimeouts'[k][q] = pending[k][q]
           /\ \/ forwardTimeouts'[n][r] # <<>>
              \/ n \in CoreNodes /\ r \in newChanges'[n]
              \/ CoreNodes = Range(WithSelf(n, list))
<1> DEFINE ignores == WithSelf(n, list)
<1>1. /\ forwards \subseteq Forward
      /\ newChanges \in [CoreNodes -> SUBSET Request]
      /\ stopped \subseteq CoreNodes
    BY DEF TypeOK
<1>2. ignores \in IgnoreList
    BY <1>1, WithSelfFacts
<1> HIDE DEF ignores
<1>3. /\ Candidates(n, ignores) \subseteq CoreNodes \ Range(ignores)
      /\ Candidates(n, ignores) = {} => Range(ignores) = CoreNodes
      /\ Len(ignores) = Cardinality(CoreNodes) => Range(ignores) = CoreNodes
    BY <1>2, CandidatesFacts, DistinctLength
<1>4. CASE /\ \/ pending[n][r] # <<>>
              \/ Len(ignores) = Cardinality(CoreNodes)
              \/ Candidates(n, ignores) = {}
           /\ forwardTimeouts' = pending
           /\ UNCHANGED <<forwards, newChanges>>
    <2>1. \/ forwardTimeouts'[n][r] # <<>>
          \/ CoreNodes = Range(ignores)
        BY <1>3, <1>4
    <2> QED
        BY <1>1, <1>4, <2>1 DEF ignores
<1>5. CASE /\ n \in Candidates(n, ignores)
           /\ newChanges' = [newChanges EXCEPT ![n] = @ \cup {r}]
           /\ forwardTimeouts' = pending
           /\ UNCHANGED forwards
    <2>1. n \in CoreNodes
        BY <1>3, <1>5
    <2> QED
        BY <1>1, <1>5, <2>1
<1>6. CASE /\ \E m \in Candidates(n, ignores) \ {n} :
                 /\ sendForward(n, m, r, ignores)
                 /\ forwardTimeouts' =
                      [pending EXCEPT ![n][r] = Append(ignores, m)]
           /\ UNCHANGED newChanges
    <2>1. PICK m \in Candidates(n, ignores) \ {n} :
                 /\ sendForward(n, m, r, ignores)
                 /\ forwardTimeouts' =
                      [pending EXCEPT ![n][r] = Append(ignores, m)]
        BY <1>6
    <2>2. m \in CoreNodes \ Range(ignores)
        BY <1>3
    <2> DEFINE longer == Append(ignores, m)
               sent == [from |-> n, to |-> m, request |-> r,
                        ignores |-> ignores]
    <2>3. longer \in IgnoreList
        BY <1>2, <2>2, DistinctAppend
    <2>4. longer # <<>>
        BY <1>2, <2>2, AppendProperties DEF IgnoreList
    <2> HIDE DEF longer
    <2>5. /\ forwardTimeouts' \in [Node -> [Request -> IgnoreList]]
          /\ forwardTimeouts'[n][r] = longer
          /\ \A k \in Node, q \in Request :
                k # n \/ q # r => forwardTimeouts'[k][q] = pending[k][q]
        <3>1. forwardTimeouts' = [pending EXCEPT ![n][r] = longer]
            BY <2>1 DEF longer
        <3> QED
            BY <2>3, <3>1
    <2>6. forwards' \subseteq forwards \cup {sent}
        BY <2>1 DEF sendForward
    <2>7. /\ sent \in Forward
          /\ sent.request = r
          /\ sent.ignores \in IgnoreList
        BY <1>2, <2>2 DEF Forward, IgnoreList
    <2> QED
        BY <1>1, <1>6, <2>4, <2>5, <2>6, <2>7
<1> QED
    BY <1>4, <1>5, <1>6 DEF processForward, ignores

-----------------------------------------------------------------------------
(* One lemma for each kind of step.                                        *)

(* A forward, from list, of a request that was or is now started.          *)
LEMMA ForwardingStep ==
    ASSUME RequestsInv, NEW n \in Node, NEW r \in Request,
           NEW list \in IgnoreList,
           NEW pending \in [Node -> [Request -> IgnoreList]],
           \A k \in Node, q \in Request :
              pending[k][q] = forwardTimeouts[k][q] \/ pending[k][q] = <<>>,
           processForward(n, r, list, pending),
           requestTimeout' \in [Request -> TimeoutState],
           Started(r)',
           \A q \in Request \ {r} : requestTimeout'[q] = requestTimeout[q],
           r \in known[RequestNode[r]]
              => requestTimeout'[r] = requestTimeout[r],
           received' \in [CoreNodes -> SUBSET Forward],
           \A k \in CoreNodes : received'[k] \subseteq received[k],
           UNCHANGED <<acks, lockVars, consensusVars, losses, reached>>
    PROVE  RequestsInv'
<1>1. TypeOK /\ ListsDistinct /\ AcksReached /\ OnlyStarted /\ KnownSettled
    BY DEF RequestsInv
<1>2. /\ forwards' \subseteq Forward
      /\ \A f \in forwards' :
            f \in forwards \/ (f.request = r /\ f.ignores \in IgnoreList)
      /\ newChanges' \in [CoreNodes -> SUBSET Request]
      /\ \A k \in CoreNodes : newChanges'[k] \subseteq newChanges[k] \cup {r}
      /\ forwardTimeouts' \in [Node -> [Request -> IgnoreList]]
      /\ \A k \in Node, q \in Request :
            k # n \/ q # r => forwardTimeouts'[k][q] = pending[k][q]
    BY <1>1, processForwardFacts
<1>3. TypeOK'
    <2>1. forwardTimeouts' \in [Node -> [Request -> Seq(CoreNodes)]]
        BY <1>2 DEF IgnoreList
    <2> QED
        BY <1>1, <1>2, <2>1 DEF TypeOK, lockVars, consensusVars, leaderVars
<1>4. ListsDistinct'
    BY <1>1, <1>2 DEF ListsDistinct
<1>5. AcksReached'
    BY <1>1 DEF AcksReached
<1>6. \A q \in Request : Started(q) \/ q = r => Started(q)'
    BY DEF Started
<1>7. OnlyStarted'
    <2>1. \A f \in forwards' : Started(f.request)'
        BY <1>1, <1>2, <1>6 DEF OnlyStarted, Forward
    <2>2. \A k \in CoreNodes : \A f \in received'[k] : Started(f.request)'
        BY <1>1, <1>6 DEF OnlyStarted, TypeOK, Forward
    <2>3. ASSUME NEW k \in Node, NEW q \in Request,
                 forwardTimeouts'[k][q] # <<>>
          PROVE  Started(q)'
        BY <1>1, <1>2, <1>6, <2>3 DEF OnlyStarted
    <2>4. \A k \in CoreNodes : \A q \in newChanges'[k] : Started(q)'
        BY <1>1, <1>2, <1>6 DEF OnlyStarted
    <2>5. \A q \in Taken' : Started(q)'
        BY <1>1, <1>6, TakenRequests DEF OnlyStarted, Taken, consensusVars, leaderVars
    <2> QED
        BY <2>1, <2>2, <2>3, <2>4, <2>5 DEF OnlyStarted
<1>8. KnownSettled'
    BY <1>1 DEF KnownSettled, consensusVars
<1> QED
    BY <1>3, <1>4, <1>5, <1>7, <1>8 DEF RequestsInv

(* What an event does to the type invariant and the lists.                 *)
LEMMA TimeoutLists ==
    ASSUME TypeOK, ListsDistinct
    PROVE  /\ forwardTimeouts \in [Node -> [Request -> IgnoreList]]
           /\ \A n \in Node, r \in Request :
                 [forwardTimeouts EXCEPT ![n][r] = <<>>]
                 \in [Node -> [Request -> IgnoreList]]
<1>1. forwardTimeouts \in [Node -> [Request -> IgnoreList]]
    <2>1. /\ forwardTimeouts \in [Node -> [Request -> Seq(CoreNodes)]]
          /\ \A n \in Node, r \in Request : forwardTimeouts[n][r] \in IgnoreList
        BY DEF TypeOK, ListsDistinct
    <2> QED
        BY <2>1
<1> QED
    BY <1>1, EmptyList

LEMMA StartRequestStep ==
    ASSUME RequestsInv, NEW r \in Request, NEW from \in {"queued", "fired"},
           StartRequest(r, from)
    PROVE  RequestsInv'
<1> DEFINE n == RequestNode[r]
<1>1. TypeOK /\ ListsDistinct /\ AcksReached /\ OnlyStarted /\ KnownSettled
    BY DEF RequestsInv
<1>2. n \in Node
    BY ChangeRequestsAssumption
<1>3. /\ requestTimeout[r] = from
      /\ UNCHANGED <<acks, received, halted, consensusVars, losses, reached>>
    BY DEF StartRequest
<1>4. CASE n \in locked
    <2>1. /\ blocked' = blocked \cup {n}
          /\ UNCHANGED <<requestTimeout, forwardVars, locked>>
        BY <1>4 DEF StartRequest, UnderLock
    <2>2. TypeOK'
        BY <1>1, <1>2, <1>3, <2>1 DEF TypeOK, forwardVars, consensusVars, leaderVars
    <2>3. (ListsDistinct /\ AcksReached /\ OnlyStarted /\ KnownSettled)'
        BY <1>1, <1>3, <2>1
           DEF ListsDistinct, AcksReached, OnlyStarted, KnownSettled, Started,
               Taken, forwardVars, consensusVars, leaderVars
    <2> QED
        BY <2>2, <2>3 DEF RequestsInv
<1>5. CASE n \notin locked
    <2>1. /\ requestTimeout' = [requestTimeout EXCEPT ![r] = "running"]
          /\ processForward(n, r, <<>>, forwardTimeouts)
          /\ UNCHANGED <<locked, blocked>>
        BY <1>5 DEF StartRequest, UnderLock
    <2>2. requestTimeout \in [Request -> TimeoutState]
        BY <1>1 DEF TypeOK
    <2>3. /\ requestTimeout' \in [Request -> TimeoutState]
          /\ Started(r)'
          /\ \A q \in Request \ {r} : requestTimeout'[q] = requestTimeout[q]
        BY <2>1, <2>2 DEF TimeoutState, Started
    <2>4. r \notin known[RequestNode[r]]
        BY <1>1, <1>3 DEF KnownSettled
    <2>5. /\ received' \in [CoreNodes -> SUBSET Forward]
          /\ \A k \in CoreNodes : received'[k] \subseteq received[k]
        BY <1>1, <1>3 DEF TypeOK
    <2>6. UNCHANGED <<acks, lockVars, consensusVars, losses, reached>>
        BY <1>3, <2>1 DEF lockVars
    <2> QED
        BY <1>1, <1>2, <2>1, <2>3, <2>4, <2>5, <2>6, EmptyList, TimeoutLists,
           ForwardingStep
<1> QED
    BY <1>4, <1>5

LEMMA ForwardTimeoutStep ==
    ASSUME RequestsInv, NEW n \in Node, NEW r \in Request,
           ForwardTimeout(n, r)
    PROVE  RequestsInv'
<1> DEFINE list == forwardTimeouts[n][r]
           pending == [forwardTimeouts EXCEPT ![n][r] = <<>>]
<1>1. TypeOK /\ ListsDistinct /\ AcksReached /\ OnlyStarted /\ KnownSettled
    BY DEF RequestsInv
<1>2. /\ list # <<>>
      /\ processForward(n, r, list, pending)
      /\ UNCHANGED <<requestTimeout, acks, received, lockVars, consensusVars,
                     losses, reached>>
    BY DEF ForwardTimeout
<1>3. /\ list \in IgnoreList
      /\ pending \in [Node -> [Request -> IgnoreList]]
      /\ \A k \in Node, q \in Request :
            pending[k][q] = forwardTimeouts[k][q] \/ pending[k][q] = <<>>
    <2>1. /\ forwardTimeouts \in [Node -> [Request -> IgnoreList]]
          /\ pending \in [Node -> [Request -> IgnoreList]]
        BY <1>1, TimeoutLists
    <2> QED
        BY <2>1
<1>4. Started(r)'
    BY <1>1, <1>2 DEF OnlyStarted, Started
<1>5. /\ requestTimeout' \in [Request -> TimeoutState]
      /\ received' \in [CoreNodes -> SUBSET Forward]
    BY <1>1, <1>2 DEF TypeOK
<1> HIDE DEF list, pending
<1> QED
    BY <1>2, <1>3, <1>4, <1>5, ForwardingStep

LEMMA ReceivedForwardStep ==
    ASSUME RequestsInv, NEW n \in CoreNodes, NEW f \in received[n],
           ReceivedForward(n, f)
    PROVE  RequestsInv'
<1>1. TypeOK /\ ListsDistinct /\ AcksReached /\ OnlyStarted /\ KnownSettled
    BY DEF RequestsInv
<1>2. /\ received' = [received EXCEPT ![n] = @ \ {f}]
      /\ processForward(n, f.request, f.ignores, forwardTimeouts)
      /\ UNCHANGED <<requestTimeout, acks, lockVars, consensusVars, losses,
                     reached>>
    BY DEF ReceivedForward
<1>3. n \in Node /\ f.request \in Request /\ f.ignores \in IgnoreList
    BY <1>1 DEF TypeOK, ListsDistinct, Forward, Node
<1>4. Started(f.request)'
    BY <1>1, <1>2 DEF OnlyStarted, Started
<1>5. /\ requestTimeout' \in [Request -> TimeoutState]
      /\ received' \in [CoreNodes -> SUBSET Forward]
      /\ \A k \in CoreNodes : received'[k] \subseteq received[k]
    BY <1>1, <1>2 DEF TypeOK
<1> QED
    BY <1>1, <1>2, <1>3, <1>4, <1>5, TimeoutLists, ForwardingStep

(* A step that leaves the forwards alone and settles or starts no request  *)
(* keeps what RequestsInv says beyond the types.                           *)
LEMMA OtherStep ==
    ASSUME RequestsInv,
           TypeOK',
           \A r \in Request :
              \/ requestTimeout'[r] = requestTimeout[r]
              \/ /\ ~Started(r) /\ ~Started(r)'
                 /\ r \notin known[RequestNode[r]]
              \/ /\ Started(r)'
                 /\ \/ requestTimeout'[r] \in {"canceled", "done"}
                    \/ r \notin known[RequestNode[r]],
           \A r \in Request :
              \/ r \in known'[RequestNode[r]] => r \in known[RequestNode[r]]
              \/ requestTimeout'[r] \in {"canceled", "done"},
           \A r \in Request : Started(r) => Started(r)',
           forwards' \subseteq forwards,
           acks' \subseteq acks,
           received' = received,
           \A n \in Node, r \in Request :
              forwardTimeouts'[n][r] \in {forwardTimeouts[n][r], <<>>},
           \A n \in CoreNodes : newChanges'[n] \subseteq newChanges[n],
           Taken' \subseteq Taken \cup UNION {newChanges[n] : n \in CoreNodes},
           reached' = reached
    PROVE  RequestsInv'
<1>1. TypeOK /\ ListsDistinct /\ AcksReached /\ OnlyStarted /\ KnownSettled
    BY DEF RequestsInv
<1>2. ListsDistinct'
    BY <1>1, EmptyList DEF ListsDistinct
<1>3. AcksReached'
    BY <1>1 DEF AcksReached
<1>4. OnlyStarted'
    <2>1. \A f \in forwards' : Started(f.request)'
        BY <1>1 DEF OnlyStarted, TypeOK, Forward
    <2>2. \A k \in CoreNodes : \A f \in received'[k] : Started(f.request)'
        BY <1>1 DEF OnlyStarted, TypeOK, Forward
    <2>3. \A k \in Node, q \in Request :
             forwardTimeouts'[k][q] # <<>> => Started(q)'
        BY <1>1 DEF OnlyStarted
    <2>4. \A k \in CoreNodes : \A q \in newChanges'[k] : Started(q)'
        BY <1>1 DEF OnlyStarted, TypeOK
    <2>5. \A q \in Taken' : Started(q)'
        BY <1>1, TakenRequests DEF OnlyStarted, TypeOK
    <2> QED
        BY <2>1, <2>2, <2>3, <2>4, <2>5 DEF OnlyStarted
<1>5. KnownSettled'
    BY <1>1 DEF KnownSettled
<1> QED
    BY <1>2, <1>3, <1>4, <1>5 DEF RequestsInv

(* The requester's other events.                                           *)
LEMMA TimerStep ==
    ASSUME RequestsInv, NEW r \in Request,
           \/ MakeRequest(r)
           \/ FireRequestTimeout(r)
           \/ CanceledRequestTimeout(r)
    PROVE  RequestsInv'
<1>1. TypeOK /\ ListsDistinct /\ AcksReached /\ OnlyStarted /\ KnownSettled
    BY DEF RequestsInv
<1>2. RequestNode[r] \in Node
    BY ChangeRequestsAssumption
<1>3. /\ requestTimeout \in [Request -> TimeoutState]
      /\ locked \cup blocked \cup halted \subseteq Node
    BY <1>1 DEF TypeOK
<1>4. /\ UNCHANGED <<forwardVars, acks, received, halted, consensusVars,
                     losses, reached>>
      /\ locked' \cup blocked' \subseteq locked \cup blocked \cup {RequestNode[r]}
      /\ \/ UNCHANGED requestTimeout
         \/ /\ requestTimeout[r] = "none"
            /\ requestTimeout' = [requestTimeout EXCEPT ![r] = "queued"]
         \/ /\ requestTimeout[r] = "running"
            /\ requestTimeout' = [requestTimeout EXCEPT ![r] = "fired"]
         \/ /\ requestTimeout[r] = "canceled"
            /\ requestTimeout' = [requestTimeout EXCEPT ![r] = "done"]
    <2>1. CASE MakeRequest(r)
        BY <2>1 DEF MakeRequest, lockVars
    <2>2. CASE FireRequestTimeout(r)
        BY <2>2 DEF FireRequestTimeout, lockVars
    <2>3. CASE CanceledRequestTimeout(r)
        BY <2>3 DEF CanceledRequestTimeout, UnderLock, forwardVars
    <2> QED
        BY <2>1, <2>2, <2>3
<1>5. requestTimeout' \in [Request -> TimeoutState]
    BY <1>3, <1>4 DEF TimeoutState
<1>6. TypeOK'
    BY <1>1, <1>2, <1>4, <1>5 DEF TypeOK, forwardVars, consensusVars, leaderVars
<1>7. \A q \in Request :
         \/ requestTimeout'[q] = requestTimeout[q]
         \/ /\ ~Started(q) /\ ~Started(q)'
            /\ q \notin known[RequestNode[q]]
         \/ /\ Started(q)'
            /\ \/ requestTimeout'[q] \in {"canceled", "done"}
               \/ q \notin known[RequestNode[q]]
    BY <1>1, <1>3, <1>4 DEF Started, KnownSettled
<1>8. \A q \in Request : Started(q) => Started(q)'
    BY <1>3, <1>4 DEF Started
<1> QED
    BY <1>4, <1>6, <1>7, <1>8, OtherStep
       DEF Taken, forwardVars, consensusVars, leaderVars

LEMMA ReceiveForwardStep ==
    ASSUME RequestsInv, NEW f \in forwards, ReceiveForward(f)
    PROVE  RequestsInv'
<1>1. TypeOK /\ ListsDistinct /\ AcksReached /\ OnlyStarted /\ KnownSettled
    BY DEF RequestsInv
<1>2. /\ forwards' = forwards \ {f}
      /\ acks' = acks \cup {[from |-> f.to, to |-> f.from,
                             request |-> f.request]}
      /\ received' = [received EXCEPT ![f.to] = @ \cup {f}]
      /\ reached' = reached \cup {<<f.to, f.request>>}
      /\ UNCHANGED <<requestTimeout, forwardTimeouts, newChanges, lockVars,
                     consensusVars, losses>>
    BY DEF ReceiveForward
<1>3. /\ f \in Forward
      /\ f.from \in Node /\ f.to \in CoreNodes /\ f.request \in Request
    BY <1>1 DEF TypeOK, Forward
<1>4. TypeOK'
    <2>1. acks' \subseteq Ack
        BY <1>1, <1>2, <1>3 DEF TypeOK, Ack
    <2> QED
        BY <1>1, <1>2, <1>3, <2>1 DEF TypeOK, lockVars, consensusVars, leaderVars
<1>5. \A k \in CoreNodes : received'[k] \subseteq received[k] \cup {f}
    BY <1>1, <1>2 DEF TypeOK
<1>6. ListsDistinct'
    BY <1>1, <1>2, <1>5 DEF ListsDistinct
<1>7. ASSUME NEW a \in acks'
      PROVE  <<a.from, a.request>> \in reached'
    <2>1. CASE a \in acks
        BY <1>1, <1>2, <2>1 DEF AcksReached
    <2>2. CASE a \notin acks
        <3>1. a.from = f.to /\ a.request = f.request
            BY <1>2, <2>2
        <3> QED
            BY <1>2, <3>1
    <2> QED
        BY <2>1, <2>2
<1>8. OnlyStarted' /\ KnownSettled'
    BY <1>1, <1>2, <1>5 DEF OnlyStarted, KnownSettled, Started, Taken, consensusVars,
                                 leaderVars
<1> QED
    BY <1>4, <1>6, <1>7, <1>8 DEF RequestsInv, AcksReached

LEMMA ReceivedAckStep ==
    ASSUME RequestsInv, NEW a \in acks, ReceivedAck(a)
    PROVE  RequestsInv'
<1>1. TypeOK
    BY DEF RequestsInv
<1>2. /\ acks' = acks \ {a}
      /\ \/ UNCHANGED forwardTimeouts
         \/ forwardTimeouts' =
              [forwardTimeouts EXCEPT ![a.to][a.request] = <<>>]
      /\ UNCHANGED <<requestTimeout, forwards, newChanges, received, lockVars,
                     consensusVars, losses, reached>>
    <2>1. /\ acks' = acks \ {a}
          /\ UNCHANGED <<requestTimeout, forwards, newChanges, received,
                         lockVars, consensusVars, losses, reached>>
        BY DEF ReceivedAck
    <2>2. \/ UNCHANGED forwardTimeouts
          \/ forwardTimeouts' =
               [forwardTimeouts EXCEPT ![a.to][a.request] = <<>>]
        BY <1>1 DEF ReceivedAck, TypeOK, Ack
    <2> QED
        BY <2>1, <2>2
<1>3. a.to \in Node /\ a.request \in Request
    BY <1>1 DEF TypeOK, Ack
<1>4. <<>> \in Seq(CoreNodes)
    BY EmptyList DEF IgnoreList
<1>5. /\ forwardTimeouts' \in [Node -> [Request -> Seq(CoreNodes)]]
      /\ \A n \in Node, r \in Request :
            forwardTimeouts'[n][r] \in {forwardTimeouts[n][r], <<>>}
    <2>1. forwardTimeouts \in [Node -> [Request -> Seq(CoreNodes)]]
        BY <1>1 DEF TypeOK
    <2>2. CASE UNCHANGED forwardTimeouts
        BY <2>1, <2>2
    <2>3. CASE forwardTimeouts' =
                 [forwardTimeouts EXCEPT ![a.to][a.request] = <<>>]
        <3> DEFINE empty == <<>>
        <3>1. empty \in Seq(CoreNodes)
            BY <1>4
        <3>2. forwardTimeouts' =
                 [forwardTimeouts EXCEPT ![a.to][a.request] = empty]
            BY <2>3
        <3> HIDE DEF empty
        <3>3. /\ forwardTimeouts' \in [Node -> [Request -> Seq(CoreNodes)]]
              /\ \A n \in Node, r \in Request :
                    forwardTimeouts'[n][r] \in {forwardTimeouts[n][r], empty}
            BY <1>3, <2>1, <3>1, <3>2
        <3> QED
            BY <3>3 DEF empty
    <2> QED
        BY <1>2, <2>2, <2>3
<1>6. TypeOK'
    BY <1>1, <1>2, <1>5 DEF TypeOK, lockVars, consensusVars, leaderVars
<1> QED
    BY <1>2, <1>5, <1>6, OtherStep DEF Started, Taken, consensusVars, leaderVars

LEMMA LoseStep ==
    ASSUME RequestsInv, Lose
    PROVE  RequestsInv'
<1>1. TypeOK
    BY DEF RequestsInv
<1>2. /\ forwards' \subseteq forwards
      /\ acks' \subseteq acks
      /\ losses' = losses + 1
      /\ UNCHANGED <<requestTimeout, forwardTimeouts, newChanges, received,
                     lockVars, consensusVars, reached>>
    BY DEF Lose
<1>3. TypeOK'
    BY <1>1, <1>2 DEF TypeOK, lockVars, consensusVars, leaderVars
<1> QED
    BY <1>2, <1>3, OtherStep DEF Started, Taken, consensusVars, leaderVars

(* What a node that stops leading, or starts to attempt it, changes.       *)
LEMMA StopLeadingFacts ==
    ASSUME TypeOK, NEW n \in CoreNodes, StopLeading(n)
    PROVE  /\ leading' \subseteq CoreNodes
           /\ stopped' \subseteq CoreNodes
           /\ proposed' \in [CoreNodes -> SUBSET Request]
           /\ abandoned' \subseteq Request
           /\ \A k \in CoreNodes : proposed'[k] \subseteq proposed[k]
           /\ abandoned' \subseteq abandoned \cup proposed[n]
BY DEF TypeOK, StopLeading

LEMMA NextProposal ==
    ASSUME TypeOK, NEW n \in CoreNodes,
           proposal' = [proposal EXCEPT ![n] = <<@[1] + 1, n>>]
    PROVE  proposal' \in [Node -> Nat \X (CoreNodes \cup {0})]
<1>1. /\ proposal \in [Node -> Nat \X (CoreNodes \cup {0})]
      /\ n \in Node
    BY DEF TypeOK, Node
<1> DEFINE next == <<proposal[n][1] + 1, n>>
<1>2. proposal[n] \in Nat \X (CoreNodes \cup {0})
    BY <1>1
<1>3. next \in Nat \X (CoreNodes \cup {0})
    BY <1>2
<1>4. proposal' = [proposal EXCEPT ![n] = next]
    OBVIOUS
<1> HIDE DEF next
<1> QED
    BY <1>1, <1>3, <1>4

(* The steps of consensus on core node n or, for what it learns, any node. *)
LEMMA ConsensusStep ==
    ASSUME RequestsInv, Consensus
    PROVE  RequestsInv'
<1>1. TypeOK /\ ListsDistinct /\ AcksReached /\ OnlyStarted /\ KnownSettled
    BY DEF RequestsInv
<1>2. ASSUME NEW n \in CoreNodes, NEW r \in Request, TakeRequest(n, r)
      PROVE  RequestsInv'
    <2>1. /\ r \in newChanges[n]
          /\ newChanges' = [newChanges EXCEPT ![n] = @ \ {r}]
          /\ UNCHANGED <<requestTimeout, forwardTimeouts, forwards, acks,
                         received, lockVars, leading, abandoned, stopped,
                         chosen, known, losses, reached>>
        BY <1>2 DEF TakeRequest
    <2>2. /\ attempting' \subseteq CoreNodes
          /\ \/ UNCHANGED proposal
             \/ proposal' = [proposal EXCEPT ![n] = <<@[1] + 1, n>>]
        BY <1>1, <1>2 DEF TakeRequest, TypeOK
    <2>3. proposal' \in [Node -> Nat \X (CoreNodes \cup {0})]
        <3>1. CASE UNCHANGED proposal
            BY <1>1, <3>1 DEF TypeOK
        <3> QED
            BY <1>1, <2>2, <3>1, NextProposal
    <2>4. /\ newChanges' \in [CoreNodes -> SUBSET Request]
          /\ \A k \in CoreNodes : newChanges'[k] \subseteq newChanges[k]
        BY <1>1, <2>1 DEF TypeOK
    <2>5. /\ waitingRequests' \in [CoreNodes -> SUBSET Request]
          /\ proposed' \in [CoreNodes -> SUBSET Request]
          /\ \A k \in CoreNodes :
                /\ waitingRequests'[k] \subseteq waitingRequests[k] \cup {r}
                /\ proposed'[k] \subseteq proposed[k] \cup {r}
        <3>1. /\ waitingRequests \in [CoreNodes -> SUBSET Request]
              /\ proposed \in [CoreNodes -> SUBSET Request]
            BY <1>1 DEF TypeOK
        <3>2. /\ \/ UNCHANGED waitingRequests
                 \/ waitingRequests' =
                      [waitingRequests EXCEPT ![n] = @ \cup {r}]
              /\ \/ UNCHANGED proposed
                 \/ proposed' = [proposed EXCEPT ![n] = @ \cup {r}]
            BY <1>2 DEF TakeRequest
        <3> QED
            BY <3>1, <3>2
    <2>6. Taken' \subseteq Taken \cup UNION {newChanges[k] : k \in CoreNodes}
        BY <2>1, <2>5 DEF Taken
    <2>7. TypeOK'
        BY <1>1, <2>1, <2>2, <2>3, <2>4, <2>5 DEF TypeOK, lockVars
    <2> QED
        BY <2>1, <2>4, <2>6, <2>7, OtherStep DEF Started
<1>3. ASSUME NEW n \in CoreNodes, BecomeLeader(n)
      PROVE  RequestsInv'
    <2>1. /\ leading' = leading \cup {n}
          /\ attempting' = attempting \ {n}
          /\ proposed' = [proposed EXCEPT ![n] = waitingRequests[n]]
          /\ waitingRequests' = [waitingRequests EXCEPT ![n] = {}]
          /\ UNCHANGED <<requestTimeout, forwardVars, acks, received, lockVars,
                         proposal, abandoned, stopped, chosen, known, losses,
                         reached>>
        BY <1>3 DEF BecomeLeader
    <2>2. /\ waitingRequests' \in [CoreNodes -> SUBSET Request]
          /\ proposed' \in [CoreNodes -> SUBSET Request]
          /\ \A k \in CoreNodes :
                /\ waitingRequests'[k] \subseteq waitingRequests[k]
                /\ proposed'[k] \subseteq proposed[k] \cup waitingRequests[k]
        BY <1>1, <2>1 DEF TypeOK
    <2>3. Taken' \subseteq Taken
        BY <2>1, <2>2 DEF Taken
    <2>4. TypeOK'
        BY <1>1, <2>1, <2>2 DEF TypeOK, lockVars, forwardVars
    <2> QED
        BY <2>1, <2>3, <2>4, OtherStep DEF Started, forwardVars
<1>4. ASSUME NEW r \in Request, ChooseRequest(r)
      PROVE  RequestsInv'
    <2>1. /\ \E n \in CoreNodes : r \in proposed[n] \cup abandoned
          /\ proposed' = [n \in CoreNodes |-> proposed[n] \ {r}]
          /\ abandoned' = abandoned \ {r}
          /\ chosen' = chosen \cup {r}
          /\ UNCHANGED <<requestTimeout, forwardVars, acks, received, lockVars,
                         proposal, attempting, leading, waitingRequests,
                         stopped, known, losses, reached>>
        BY <1>4 DEF ChooseRequest
    <2>2. /\ proposed' \in [CoreNodes -> SUBSET Request]
          /\ \A k \in CoreNodes : proposed'[k] \subseteq proposed[k]
        BY <1>1, <2>1 DEF TypeOK
    <2>3. Taken' \subseteq Taken
        BY <2>1, <2>2 DEF Taken
    <2>4. TypeOK'
        BY <1>1, <2>1, <2>2 DEF TypeOK, lockVars, forwardVars
    <2> QED
        BY <2>1, <2>3, <2>4, OtherStep DEF Started, forwardVars
<1>5. ASSUME NEW n \in CoreNodes, ProposalTimeout(n)
      PROVE  RequestsInv'
    <2>1. /\ losses' = losses + 1
          /\ StopLeading(n)
          /\ UNCHANGED <<requestTimeout, forwardVars, acks, received, lockVars,
                         proposal, attempting, waitingRequests, chosen, known,
                         reached>>
        BY <1>5 DEF ProposalTimeout
    <2>2. /\ leading' \subseteq CoreNodes
          /\ stopped' \subseteq CoreNodes
          /\ proposed' \in [CoreNodes -> SUBSET Request]
          /\ abandoned' \subseteq Request
          /\ \A k \in CoreNodes : proposed'[k] \subseteq proposed[k]
          /\ abandoned' \subseteq abandoned \cup proposed[n]
        BY <1>1, <2>1, StopLeadingFacts
    <2>3. Taken' \subseteq Taken
        BY <2>1, <2>2 DEF Taken
    <2>4. TypeOK'
        BY <1>1, <2>1, <2>2 DEF TypeOK, lockVars, forwardVars
    <2> QED
        BY <2>1, <2>3, <2>4, OtherStep DEF Started, forwardVars
<1>6. ASSUME NEW n \in CoreNodes, MayLeadAgain(n)
      PROVE  RequestsInv'
    <2>1. /\ stopped' \subseteq stopped
          /\ UNCHANGED <<requestTimeout, forwardVars, acks, received, lockVars,
                         proposal, leaderVars, chosen, known, losses, reached>>
        BY <1>6 DEF MayLeadAgain
    <2>2. TypeOK'
        BY <1>1, <2>1 DEF TypeOK, lockVars, forwardVars, leaderVars
    <2> QED
        BY <2>1, <2>2, OtherStep DEF Started, Taken, forwardVars, leaderVars
<1>7. ASSUME NEW n \in Node, NEW m \in Node, LearnProposal(n, m)
      PROVE  RequestsInv'
    <2>1. /\ proposal' = [proposal EXCEPT ![n] = proposal[m]]
          /\ \/ n \in leading /\ StopLeading(n)
             \/ UNCHANGED <<leading, stopped, proposed, abandoned>>
          /\ UNCHANGED <<requestTimeout, forwardVars, acks, received, lockVars,
                         attempting, waitingRequests, chosen, known, losses,
                         reached>>
        BY <1>7 DEF LearnProposal
    <2>2. proposal' \in [Node -> Nat \X (CoreNodes \cup {0})]
        BY <1>1, <2>1 DEF TypeOK
    <2>3. /\ leading' \subseteq CoreNodes
          /\ stopped' \subseteq CoreNodes
          /\ proposed' \in [CoreNodes -> SUBSET Request]
          /\ abandoned' \subseteq Request
          /\ \A k \in CoreNodes : proposed'[k] \subseteq proposed[k]
          /\ abandoned' \subseteq
                abandoned \cup UNION {proposed[k] : k \in CoreNodes}
        <3>1. CASE n \in leading /\ StopLeading(n)
            <4>1. n \in CoreNodes
                BY <1>1, <3>1 DEF TypeOK
            <4> QED
                BY <1>1, <3>1, <4>1, StopLeadingFacts
        <3>2. CASE UNCHANGED <<leading, stopped, proposed, abandoned>>
            BY <1>1, <3>2 DEF TypeOK
        <3> QED
            BY <2>1, <3>1, <3>2
    <2>4. Taken' \subseteq Taken
        BY <2>1, <2>3 DEF Taken
    <2>5. TypeOK'
        BY <1>1, <2>1, <2>2, <2>3 DEF TypeOK, lockVars, forwardVars
    <2> QED
        BY <2>1, <2>4, <2>5, OtherStep DEF Started, forwardVars
<1>8. ASSUME NEW n \in Requesters, NEW r \in Request, HandleChosen(n, r)
      PROVE  RequestsInv'
    <2>1. n \in Node
        BY ChangeRequestsAssumption DEF Requesters
    <2>2. CASE n \in locked
        <3>1. /\ halted' = halted \cup {n}
              /\ UNCHANGED <<known, requestTimeout, forwardVars, acks, received,
                             locked, blocked, proposal, leaderVars, stopped, chosen, losses,
                             reached>>
            BY <1>8, <2>2 DEF HandleChosen
        <3>2. TypeOK'
            BY <1>1, <2>1, <3>1 DEF TypeOK, forwardVars, leaderVars
        <3> QED
            BY <3>1, <3>2, OtherStep DEF Started, Taken, forwardVars, leaderVars
    <2>3. CASE n \notin locked
        <3>1. /\ r \in chosen
              /\ known' = [known EXCEPT ![n] = @ \cup {r}]
              /\ requestTimeout' = [requestTimeout EXCEPT ![r] =
                   CASE n = RequestNode[r] /\ @ = "running" -> "done"
                     [] n = RequestNode[r] /\ @ = "fired" -> "canceled"
                     [] OTHER -> @]
              /\ UNCHANGED <<forwardVars, acks, received, lockVars, proposal,
                             leaderVars, stopped, chosen, losses, reached>>
            BY <1>8, <2>3 DEF HandleChosen, lockVars
        <3>2. /\ requestTimeout \in [Request -> TimeoutState]
              /\ known \in [Requesters -> SUBSET Request]
            BY <1>1 DEF TypeOK
        <3>3. Started(r)
            BY <1>1, <3>1 DEF OnlyStarted, Taken
        <3>4. /\ requestTimeout' \in [Request -> TimeoutState]
              /\ \A q \in Request : Started(q) => Started(q)'
              /\ \A q \in Request :
                    \/ requestTimeout'[q] = requestTimeout[q]
                    \/ requestTimeout'[q] \in {"canceled", "done"}
              /\ n = RequestNode[r] => requestTimeout'[r] \in {"canceled", "done"}
            BY <3>1, <3>2, <3>3 DEF TimeoutState, Started
        <3>5. /\ known' \in [Requesters -> SUBSET Request]
              /\ \A q \in Request :
                    \/ q \in known'[RequestNode[q]] => q \in known[RequestNode[q]]
                    \/ q = r /\ n = RequestNode[r]
            BY <3>1, <3>2 DEF Requesters
        <3>6. TypeOK'
            BY <1>1, <3>1, <3>4, <3>5 DEF TypeOK, forwardVars, lockVars, leaderVars
        <3>7. \A q \in Request :
                 requestTimeout'[q] \in {"canceled", "done"} => Started(q)'
            BY DEF Started
        <3> QED
            BY <3>1, <3>4, <3>5, <3>6, <3>7, OtherStep
               DEF Taken, forwardVars, leaderVars
    <2> QED
        BY <2>2, <2>3
<1> QED
    BY <1>2, <1>3, <1>4, <1>5, <1>6, <1>7, <1>8 DEF Consensus

-----------------------------------------------------------------------------
(***************************************************************************)
(* Theorems                                                                *)
(***************************************************************************)

LEMMA InitInv == Init => RequestsInv
<1> SUFFICES ASSUME Init
             PROVE  RequestsInv
    OBVIOUS
<1>1. TypeOK
    <2>1. <<>> \in Seq(CoreNodes)
        BY EmptyList DEF IgnoreList
    <2>2. NoProposal \in Nat \X (CoreNodes \cup {0})
        BY DEF NoProposal
    <2>3. forwardTimeouts \in [Node -> [Request -> Seq(CoreNodes)]]
        BY <2>1 DEF Init
    <2>4. proposal \in [Node -> Nat \X (CoreNodes \cup {0})]
        BY <2>2 DEF Init
    <2> QED
        BY <2>3, <2>4 DEF Init, TypeOK, TimeoutState
<1>2. ListsDistinct
    BY EmptyList DEF Init, ListsDistinct
<1>3. OnlyStarted
    BY DEF Init, OnlyStarted, Taken
<1>4. AcksReached
    BY DEF Init, AcksReached
<1>5. KnownSettled
    BY DEF Init, KnownSettled, Requesters
<1> QED
    BY <1>1, <1>2, <1>3, <1>4, <1>5 DEF RequestsInv

LEMMA NextInv == RequestsInv /\ [Next]_vars => RequestsInv'
<1> SUFFICES ASSUME RequestsInv, [Next]_vars
             PROVE  RequestsInv'
    OBVIOUS
<1>1. ASSUME NEW r \in Request, Requester(r)
      PROVE  RequestsInv'
    <2>1. CASE NewRequest(r)
        BY <2>1, StartRequestStep DEF NewRequest
    <2>2. CASE RequestTimeout(r)
        BY <2>2, StartRequestStep DEF RequestTimeout
    <2>3. CASE \/ MakeRequest(r)
               \/ FireRequestTimeout(r)
               \/ CanceledRequestTimeout(r)
        BY <2>3, TimerStep
    <2> QED
        BY <1>1, <2>1, <2>2, <2>3 DEF Requester
<1>2. ASSUME Forwarder
      PROVE  RequestsInv'
    BY <1>2, ForwardTimeoutStep, ReceiveForwardStep, ReceivedForwardStep,
       ReceivedAckStep, LoseStep DEF Forwarder
<1>3. CASE UNCHANGED vars
    BY <1>3 DEF RequestsInv, TypeOK, ListsDistinct, AcksReached, OnlyStarted,
                Started, Taken, KnownSettled, vars, forwardVars, lockVars,
                consensusVars, leaderVars
<1> QED
    BY <1>1, <1>2, <1>3, ConsensusStep DEF Next

(* RequestsInv is inductive.                                               *)
THEOREM RequestsInvariant == Spec => []RequestsInv
<1> QED
    BY InitInv, NextInv, PTL DEF Spec

(* The variables of the forwarding nodes have their types.                 *)
THEOREM RequestsTyped == Spec => []TypeOK
<1>1. RequestsInv => TypeOK
    BY DEF RequestsInv
<1> QED
    BY <1>1, RequestsInvariant, PTL

(* processForward always finds a candidate or a full list, whatever lists  *)
(* other nodes send and however often a forward is sent again: no list     *)
(* names a node twice, so that lengths tell the truth.                     *)
THEOREM CandidateIsFound == Spec => []CandidateFound
<1>1. RequestsInv => CandidateFound
    <2> SUFFICES ASSUME RequestsInv, NEW list \in HandledLists, NEW n \in Node
                 PROVE  LET ignores == WithSelf(n, list)
                        IN  /\ Len(ignores) = Cardinality(Range(ignores))
                            /\ Len(ignores) # Cardinality(CoreNodes)
                               => Candidates(n, ignores) # {}
        BY DEF CandidateFound
    <2>1. list \in IgnoreList
        BY DEF HandledLists, RequestsInv, ListsDistinct
    <2>2. WithSelf(n, list) \in IgnoreList
        BY <2>1, WithSelfFacts DEF RequestsInv, TypeOK
    <2> QED
        BY <2>2, DistinctLength, CandidatesFacts
<1> QED
    BY <1>1, RequestsInvariant, PTL

(* A requester does not forget what it knows as chosen.                    *)
LEMMA KnownGrows ==
    ASSUME TypeOK, [Next]_vars, NEW n \in Requesters
    PROVE  known[n] \subseteq known'[n]
<1>1. known \in [Requesters -> SUBSET Request]
    BY DEF TypeOK
<1>2. ASSUME NEW r \in Request, Requester(r)
      PROVE  UNCHANGED known
    BY <1>2 DEF Requester, MakeRequest, FireRequestTimeout, NewRequest,
                RequestTimeout, StartRequest, CanceledRequestTimeout,
                consensusVars
<1>3. ASSUME Forwarder
      PROVE  UNCHANGED known
    BY <1>3 DEF Forwarder, ForwardTimeout, ReceiveForward, ReceivedForward,
                ReceivedAck, Lose, consensusVars
<1>4. ASSUME NEW m \in Requesters, NEW r \in Request, HandleChosen(m, r)
      PROVE  known[n] \subseteq known'[n]
    <2>1. UNCHANGED known \/ known' = [known EXCEPT ![m] = @ \cup {r}]
        BY <1>4 DEF HandleChosen
    <2> QED
        BY <1>1, <2>1
<1>5. ASSUME Consensus, ~\E m \in Requesters, r \in Request : HandleChosen(m, r)
      PROVE  UNCHANGED known
    BY <1>5 DEF Consensus, TakeRequest, BecomeLeader, ChooseRequest, ProposalTimeout,
                MayLeadAgain, LearnProposal
<1>6. CASE UNCHANGED vars
    BY <1>6 DEF vars, consensusVars
<1> QED
    BY <1>2, <1>3, <1>4, <1>5, <1>6 DEF Next

(* No step starts a timer for a request that its requester knows as        *)
(* chosen, the step of a timeout that fired before it was canceled least.  *)
THEOREM RetriesAreStopped == Spec => RetriesStop
<1>1. RequestsInv /\ RequestsInv' /\ [Next]_vars
      => [\A r \in Request : r \in known[RequestNode[r]]
                            => requestTimeout'[r] # "running"]_vars
    <2> SUFFICES ASSUME RequestsInv, RequestsInv', [Next]_vars,
                        NEW r \in Request, r \in known[RequestNode[r]]
                 PROVE  requestTimeout'[r] # "running"
        OBVIOUS
    <2>1. r \in known'[RequestNode[r]]
        BY KnownGrows DEF RequestsInv, Requesters
    <2>2. requestTimeout'[r] \in {"canceled", "done"}
        BY <2>1 DEF RequestsInv, KnownSettled
    <2> QED
        BY <2>2
<1> QED
    BY <1>1, RequestsInvariant, PTL DEF Spec, RetriesStop

(* Only ForwardTimeout and ReceivedAck can end a wait.                     *)
LEMMA WaitKept ==
    ASSUME RequestsInv, [Next]_vars, NEW n \in Node, NEW r \in Request,
           forwardTimeouts[n][r] # <<>>, forwardTimeouts'[n][r] = <<>>
    PROVE  \/ ForwardTimeout(n, r)
           \/ \E a \in acks : a.to = n /\ a.request = r /\ ReceivedAck(a)
<1>1. /\ TypeOK
      /\ forwardTimeouts \in [Node -> [Request -> IgnoreList]]
    BY TimeoutLists DEF RequestsInv
<1>2. ASSUME NEW k \in Node, NEW q \in Request, NEW list \in IgnoreList,
             processForward(k, q, list, forwardTimeouts)
      PROVE  FALSE
    <2>1. CASE k = n /\ q = r
        <3>1. UNCHANGED forwardTimeouts
            BY <1>2, <2>1 DEF processForward
        <3> QED
            BY <3>1
    <2>2. CASE ~(k = n /\ q = r)
        BY <1>1, <1>2, <2>2, processForwardFacts
    <2> QED
        BY <2>1, <2>2
<1>3. ~\E q \in Request : Requester(q)
    <2> SUFFICES ASSUME NEW q \in Request, Requester(q)
                 PROVE  FALSE
        OBVIOUS
    <2>1. RequestNode[q] \in Node
        BY ChangeRequestsAssumption
    <2>2. ASSUME NEW from, StartRequest(q, from)
          PROVE  FALSE
        <3>1. \/ UNCHANGED forwardTimeouts
              \/ processForward(RequestNode[q], q, <<>>, forwardTimeouts)
            BY <2>2 DEF StartRequest, UnderLock, forwardVars
        <3> QED
            BY <1>2, <2>1, <3>1, EmptyList
    <2>3. CASE \/ MakeRequest(q)
               \/ FireRequestTimeout(q)
               \/ CanceledRequestTimeout(q)
        BY <2>3 DEF MakeRequest, FireRequestTimeout, CanceledRequestTimeout,
                    UnderLock, forwardVars
    <2> QED
        BY <2>2, <2>3 DEF Requester, NewRequest, RequestTimeout
<1>4. ~Consensus
    BY DEF Consensus, TakeRequest, BecomeLeader, ChooseRequest, ProposalTimeout,
           MayLeadAgain, LearnProposal, HandleChosen, forwardVars
<1>5. CASE Forwarder
    <2>1. ASSUME NEW k \in Node, NEW q \in Request, ForwardTimeout(k, q)
          PROVE  k = n /\ q = r
        <3> DEFINE pending == [forwardTimeouts EXCEPT ![k][q] = <<>>]
                   list == forwardTimeouts[k][q]
        <3>1. /\ pending \in [Node -> [Request -> IgnoreList]]
              /\ list \in IgnoreList
            BY <1>1, TimeoutLists DEF RequestsInv
        <3>2. k # n \/ q # r => pending[n][r] = forwardTimeouts[n][r]
            BY <1>1
        <3>3. processForward(k, q, list, pending)
            BY <2>1 DEF ForwardTimeout
        <3> HIDE DEF pending, list
        <3>4. k # n \/ q # r => forwardTimeouts'[n][r] = pending[n][r]
            BY <1>1, <3>1, <3>3, processForwardFacts
        <3> QED
            BY <3>2, <3>4
    <2>2. ASSUME NEW k \in CoreNodes, NEW f \in received[k],
                 ReceivedForward(k, f)
          PROVE  FALSE
        <3>1. k \in Node /\ f.request \in Request /\ f.ignores \in IgnoreList
            BY <1>1 DEF RequestsInv, ListsDistinct, TypeOK, Forward, Node
        <3>2. processForward(k, f.request, f.ignores, forwardTimeouts)
            BY <2>2 DEF ReceivedForward
        <3> QED
            BY <1>2, <3>1, <3>2
    <2>3. ASSUME NEW a \in acks, ReceivedAck(a)
          PROVE  a.to = n /\ a.request = r
        <3>1. /\ forwardTimeouts' =
                 [forwardTimeouts EXCEPT ![a.to][a.request] =
                    forwardTimeouts'[a.to][a.request]]
              /\ a.to \in Node /\ a.request \in Request
            BY <1>1, <2>3 DEF ReceivedAck, TypeOK, Ack
        <3>2. a.to # n \/ a.request # r
              => forwardTimeouts'[n][r] = forwardTimeouts[n][r]
            BY <1>1, <2>3, <3>1 DEF ReceivedAck
        <3> QED
            BY <3>2
    <2>4. CASE Lose \/ \E f \in forwards : ReceiveForward(f)
        BY <2>4 DEF Lose, ReceiveForward
    <2> QED
        BY <1>5, <2>1, <2>2, <2>3, <2>4 DEF Forwarder
<1>6. CASE UNCHANGED vars
    BY <1>6 DEF vars, forwardVars
<1> QED
    BY <1>3, <1>4, <1>5, <1>6 DEF Next

(* A node stops waiting for an acknowledgement only because the node it    *)
(* sent the request to last has got it, because it takes the request       *)
(* itself, or because nobody is left to try; never because of an answer    *)
(* of an earlier target.                                                   *)
THEOREM LastTargetAwaited == Spec => WaitsForLastTarget
<1> DEFINE Ends(n, r) ==
        LET ignores == forwardTimeouts[n][r]
        IN  ignores # <<>> /\ forwardTimeouts'[n][r] = <<>>
            => \/ <<ignores[Len(ignores)], r>> \in reached
               \/ n \in CoreNodes /\ r \in newChanges'[n]
               \/ CoreNodes = Range(WithSelf(n, ignores))
<1>1. RequestsInv /\ [Next]_vars
      => [\A n \in Node, r \in Request : Ends(n, r)]_vars
    <2> SUFFICES ASSUME RequestsInv, [Next]_vars,
                        NEW n \in Node, NEW r \in Request,
                        forwardTimeouts[n][r] # <<>>,
                        forwardTimeouts'[n][r] = <<>>
                 PROVE  Ends(n, r)
        OBVIOUS
    <2> DEFINE list == forwardTimeouts[n][r]
               pending == [forwardTimeouts EXCEPT ![n][r] = <<>>]
    <2>1. CASE ForwardTimeout(n, r)
        <3>1. /\ pending \in [Node -> [Request -> IgnoreList]]
              /\ list \in IgnoreList
              /\ TypeOK
            BY TimeoutLists DEF RequestsInv
        <3>2. processForward(n, r, list, pending)
            BY <2>1 DEF ForwardTimeout
        <3> HIDE DEF pending, list
        <3>3. \/ forwardTimeouts'[n][r] # <<>>
              \/ n \in CoreNodes /\ r \in newChanges'[n]
              \/ CoreNodes = Range(WithSelf(n, list))
            BY <3>1, <3>2, processForwardFacts
        <3> QED
            BY <3>3 DEF list
    <2>2. ASSUME NEW a \in acks, a.to = n, a.request = r, ReceivedAck(a)
          PROVE  <<list[Len(list)], r>> \in reached
        <3>1. forwardTimeouts \in [Node -> [Request -> IgnoreList]]
            BY TimeoutLists DEF RequestsInv
        <3>2. list[Len(list)] = a.from
            BY <2>2, <3>1 DEF ReceivedAck
        <3>3. <<a.from, a.request>> \in reached
            BY DEF RequestsInv, AcksReached
        <3> QED
            BY <2>2, <3>2, <3>3
    <2> QED
        BY <2>1, <2>2, WaitKept
<1> QED
    BY <1>1, RequestsInvariant, PTL DEF Spec, WaitsForLastTarget
=============================================================================
