--------------------------- MODULE ChangeRequests ---------------------------
(***************************************************************************)
(* How a change request gets from the node that makes it to the node that  *)
(* leads: shared/chrequest on every node, over nodes whose views of the    *)
(* leader differ and change.                                               *)
(*                                                                         *)
(* Each action is one case of the processing goroutine, one message of a   *)
(* reading goroutine, one timer, or a step of the consensus protocol that  *)
(* shared/chrequest observes.  Of consensus only who attempts to lead or   *)
(* leads under which proposal is kept, and where the requests are that it  *)
(* was given; the module Consensus has the rest.                           *)
(*                                                                         *)
(* Two equal messages in flight at once count as one.  A forward timeout   *)
(* that fired before it was canceled is discarded without an effect, so    *)
(* that only request timeouts have a state between firing and handling.    *)
(***************************************************************************)
EXTENDS Proposals, Sequences, Functions

CONSTANTS
    ClientNodes,    \* the IDs of the client nodes
    Request,        \* change requests, told apart by (RequestNode, RequestId)
    RequestNode,    \* RequestNode[r]: the node that makes request r
    MaxProposal,    \* bound: the highest proposal number used
    MaxLosses,      \* bound: the messages lost and proposals timed out
    MaxInFlight     \* bound: forwards from one node to another at a time

Node == CoreNodes \cup ClientNodes

(* A node that makes no requests has no request timeouts to cancel: what   *)
(* it knows as chosen does not matter here.                                *)
Requesters == {RequestNode[r] : r \in Request}

ASSUME ChangeRequestsAssumption ==
    /\ ClientNodes \subseteq Nat \ {0}
    /\ ClientNodes \cap CoreNodes = {}
    /\ RequestNode \in [Request -> Node]
    /\ MaxProposal \in Nat
    /\ MaxLosses \in Nat
    /\ MaxInFlight \in Nat

VARIABLES
    requestTimeout,  \* requestTimeout[r]: how far r got at its requester
    forwardTimeouts, \* forwardTimeouts[n][r]: the ignores of the forward
                     \* that n waits for an acknowledgement of, or <<>>
    forwards,        \* Change Forward messages in flight
    acks,            \* Change Forward Ack messages in flight
    received,        \* received[n]: the forwards in receivedForwardCh
    newChanges,      \* newChanges[n]: the requests in newChangeCh of n
    locked,          \* the nodes whose requestTimeoutLock was left locked
    blocked,         \* the nodes whose processing goroutine waits for it
    halted,          \* the nodes where a transaction waits for it
    proposal,        \* proposal[n]: <<intProposal, intLeader>> of node n
    attempting,      \* the nodes that attempt to lead: receivedPromises
    leading,         \* the nodes that lead: amLeader
    waitingRequests, \* waitingRequests[n]: what n is to propose once it leads
    proposed,        \* proposed[n]: what the leader n proposes
    abandoned,       \* what was proposed by nodes that stopped leading
    stopped,         \* the nodes that stopped leading a short time ago
    chosen,          \* the requests that are chosen
    known,           \* known[n]: those that the requester n knows as chosen
    losses,          \* how many messages and proposals have been lost
    reached          \* history: the <<node, request>> where a forward came

forwardVars == <<forwardTimeouts, forwards, newChanges>>
lockVars == <<locked, blocked, halted>>
leaderVars == <<attempting, leading, waitingRequests, proposed, abandoned>>
consensusVars == <<proposal, leaderVars, stopped, chosen, known>>
vars == <<requestTimeout, forwardVars, acks, received, lockVars,
          consensusVars, losses, reached>>

Forward == [from : Node, to : CoreNodes, request : Request,
            ignores : Seq(CoreNodes)]

Ack == [from : CoreNodes, to : Node, request : Request]

(* The life of a request timeout, from the call of Request on.  A timeout  *)
(* that is canceled after it fired is still received by the processing     *)
(* goroutine; one that is canceled before is gone.                         *)
TimeoutState == {"none", "queued", "running", "fired", "canceled", "done"}

Init ==
    /\ requestTimeout = [r \in Request |-> "none"]
    /\ forwardTimeouts = [n \in Node |-> [r \in Request |-> <<>>]]
    /\ forwards = {}
    /\ acks = {}
    /\ received = [n \in CoreNodes |-> {}]
    /\ newChanges = [n \in CoreNodes |-> {}]
    /\ locked = {}
    /\ blocked = {}
    /\ halted = {}
    /\ proposal = [n \in Node |-> NoProposal]
    /\ attempting = {}
    /\ leading = {}
    /\ waitingRequests = [n \in CoreNodes |-> {}]
    /\ proposed = [n \in CoreNodes |-> {}]
    /\ abandoned = {}
    /\ stopped = {}
    /\ chosen = {}
    /\ known = [n \in Requesters |-> {}]
    /\ losses = 0
    /\ reached = {}

-----------------------------------------------------------------------------
(* Mutant of WithSelf: not looked up in the list first.                    *)
WithSelfAgain(n, ignores) ==
    IF n \in stopped THEN Append(ignores, n) ELSE ignores

(* The ignore list of a forward as node n handles it: a core node that     *)
(* stopped leading a short time ago adds itself.                           *)
WithSelf(n, ignores) ==
    IF n \in stopped /\ n \notin Range(ignores) THEN Append(ignores, n)
                                                ELSE ignores

(* Mutant of Candidates: leader 0 is not told from a node.                 *)
CandidatesOrZero(n, ignores) ==
    IF proposal[n][2] \notin Range(ignores)
    THEN {proposal[n][2]}
    ELSE {m \in CoreNodes \ Range(ignores) :
             \A o \in CoreNodes \ Range(ignores) : m <= o}

(* The nodes that n can choose to lead: the leader it knows, or, if that   *)
(* one is ignored, the first core node that is not.  Empty if there is     *)
(* none, which the code reports as a bug.                                  *)
Candidates(n, ignores) ==
    LET open == CoreNodes \ Range(ignores)
    IN  IF proposal[n][2] \in open
        THEN {proposal[n][2]}
        ELSE {m \in open : \A o \in open : m <= o}

(* sendForward: the message is dropped if there is no connection to m, for *)
(* which too many messages on their way stand here.                        *)
sendForward(n, m, r, ignores) ==
    LET sent == forwards \cup (UNION {received[k] : k \in CoreNodes})
        onTheWay == {f \in sent : f.from = n /\ f.to = m}
    IN  forwards' = forwards \cup
          {f \in {[from |-> n, to |-> m, request |-> r,
                   ignores |-> ignores]} :
              Cardinality(onTheWay) < MaxInFlight}              \* bound

(* processForward, for a forward of request r: given up, handed to our own *)
(* consensus, or sent on.  pending is what forwardTimeouts is before.      *)
processForward(n, r, list, pending) ==
    LET ignores == WithSelf(n, list)
        dropped == \/ pending[n][r] # <<>>
                   \/ Len(ignores) = Cardinality(CoreNodes)
                   \/ Candidates(n, ignores) = {}
    IN  \/ /\ dropped
           /\ forwardTimeouts' = pending
           /\ UNCHANGED <<forwards, newChanges>>
        \/ /\ ~dropped
           /\ n \in Candidates(n, ignores)
           /\ newChanges' = [newChanges EXCEPT ![n] = @ \cup {r}]
           /\ forwardTimeouts' = pending
           /\ UNCHANGED forwards
        \/ /\ ~dropped
           /\ \E m \in Candidates(n, ignores) \ {n} :
                 /\ sendForward(n, m, r, ignores)
                 /\ forwardTimeouts' =
                      [pending EXCEPT ![n][r] = Append(ignores, m)]
           /\ UNCHANGED newChanges

(* The processing goroutine of n takes the next event.                     *)
Processing(n) == n \notin blocked \cup halted

-----------------------------------------------------------------------------
(* Request: the new request goes on newRequestCh.                          *)
MakeRequest(r) ==
    /\ requestTimeout[r] = "none"
    /\ requestTimeout' = [requestTimeout EXCEPT ![r] = "queued"]
    /\ UNCHANGED <<forwardVars, acks, received, lockVars, consensusVars,
                   losses, reached>>

(* A request timer fires, and puts the timeout on requestTimedOut.         *)
FireRequestTimeout(r) ==
    /\ requestTimeout[r] = "running"
    /\ requestTimeout' = [requestTimeout EXCEPT ![r] = "fired"]
    /\ UNCHANGED <<forwardVars, acks, received, lockVars, consensusVars,
                   losses, reached>>

(* The processing goroutine of n runs step under the lock; if the lock was *)
(* left taken, it waits for it and does nothing else any more.             *)
UnderLock(n, step) ==
    IF n \in locked
    THEN /\ blocked' = blocked \cup {n}
         /\ UNCHANGED <<requestTimeout, forwardVars, locked>>
    ELSE /\ step
         /\ UNCHANGED blocked

(* It starts (or, after a timeout, starts again) the timer of a request    *)
(* under the lock, and then forwards the request afresh.                   *)
StartRequest(r, from) ==
    LET n == RequestNode[r]
        step == /\ requestTimeout' = [requestTimeout EXCEPT ![r] = "running"]
                /\ processForward(n, r, <<>>, forwardTimeouts)
                /\ UNCHANGED locked
    IN  /\ Processing(n)
        /\ requestTimeout[r] = from
        /\ UnderLock(n, step)
        /\ UNCHANGED <<acks, received, halted, consensusVars, losses,
                       reached>>

NewRequest(r) == StartRequest(r, "queued")

(* Mutant of RequestTimeout: the canceled flag is not looked at.           *)
AnyRequestTimeout(r) ==
    StartRequest(r, "fired") \/ StartRequest(r, "canceled")

RequestTimeout(r) == StartRequest(r, "fired")

(* A timeout that was canceled after it fired leaves the case with the     *)
(* lock taken.                                                             *)
CanceledRequestTimeout(r) ==
    LET n == RequestNode[r]
        step == /\ requestTimeout' = [requestTimeout EXCEPT ![r] = "done"]
                /\ locked' = locked \cup {n}
                /\ UNCHANGED forwardVars
    IN  /\ Processing(n)
        /\ requestTimeout[r] = "canceled"
        /\ UnderLock(n, step)
        /\ UNCHANGED <<acks, received, halted, consensusVars, losses,
                       reached>>

(* Mutant of ForwardTimeout: the old timeout is not removed.               *)
ForwardTimeoutKept(n, r) ==
    /\ Processing(n)
    /\ forwardTimeouts[n][r] # <<>>
    /\ processForward(n, r, forwardTimeouts[n][r], forwardTimeouts)
    /\ UNCHANGED <<requestTimeout, acks, received, lockVars, consensusVars,
                   losses, reached>>

(* No acknowledgement in time: the forward is tried somewhere else.        *)
ForwardTimeout(n, r) ==
    /\ Processing(n)
    /\ forwardTimeouts[n][r] # <<>>
    /\ processForward(n, r, forwardTimeouts[n][r],
                      [forwardTimeouts EXCEPT ![n][r] = <<>>])
    /\ UNCHANGED <<requestTimeout, acks, received, lockVars, consensusVars,
                   losses, reached>>

(* handleMsg of a Change Forward: acknowledged by the reading goroutine    *)
(* before the processing goroutine gets it.                                *)
ReceiveForward(f) ==
    /\ forwards' = forwards \ {f}
    /\ acks' = acks \cup {[from |-> f.to, to |-> f.from,
                           request |-> f.request]}
    /\ received' = [received EXCEPT ![f.to] = @ \cup {f}]
    /\ reached' = reached \cup {<<f.to, f.request>>}
    /\ UNCHANGED <<requestTimeout, forwardTimeouts, newChanges, lockVars,
                   consensusVars, losses>>

(* The processing goroutine handles a received forward.                    *)
ReceivedForward(n, f) ==
    /\ Processing(n)
    /\ f \in received[n]
    /\ received' = [received EXCEPT ![n] = @ \ {f}]
    /\ processForward(n, f.request, f.ignores, forwardTimeouts)
    /\ UNCHANGED <<requestTimeout, acks, lockVars, consensusVars, losses,
                   reached>>

(* Mutant of ReceivedAck: any node acknowledges.                           *)
ReceivedAnyAck(a) ==
    /\ Processing(a.to)
    /\ acks' = acks \ {a}
    /\ forwardTimeouts' = [forwardTimeouts EXCEPT ![a.to][a.request] = <<>>]
    /\ UNCHANGED <<requestTimeout, forwards, newChanges, received, lockVars,
                   consensusVars, losses, reached>>

(* An acknowledgement counts if the forward was last sent to its sender.   *)
ReceivedAck(a) ==
    LET ignores == forwardTimeouts[a.to][a.request]
        counts == ignores # <<>> /\ ignores[Len(ignores)] = a.from
    IN  /\ Processing(a.to)
        /\ acks' = acks \ {a}
        /\ forwardTimeouts' =
             [forwardTimeouts EXCEPT ![a.to][a.request] =
                 IF counts THEN <<>> ELSE @]
        /\ UNCHANGED <<requestTimeout, forwards, newChanges, received,
                       lockVars, consensusVars, losses, reached>>

(* A connection closes, or cannot be made.                                 *)
Lose ==
    /\ losses < MaxLosses                                       \* bound
    /\ losses' = losses + 1
    /\ \/ /\ \E f \in forwards : forwards' = forwards \ {f}
          /\ UNCHANGED acks
       \/ /\ \E a \in acks : acks' = acks \ {a}
          /\ UNCHANGED forwards
    /\ UNCHANGED <<requestTimeout, forwardTimeouts, newChanges, received,
                   lockVars, consensusVars, reached>>

-----------------------------------------------------------------------------
(* What consensus does, as far as shared/chrequest can tell.               *)

(* The consensus goroutine of n takes a request: a leader proposes it, a   *)
(* candidate keeps it until it leads, any other node attempts to lead.     *)
TakeRequest(n, r) ==
    /\ n \notin halted
    /\ r \in newChanges[n]
    /\ newChanges' = [newChanges EXCEPT ![n] = @ \ {r}]
    /\ \/ /\ n \in leading
          /\ proposed' = [proposed EXCEPT ![n] = @ \cup {r}]
          /\ UNCHANGED <<proposal, attempting, waitingRequests>>
       \/ /\ n \in attempting
          /\ waitingRequests' = [waitingRequests EXCEPT ![n] = @ \cup {r}]
          /\ UNCHANGED <<proposal, attempting, proposed>>
       \/ /\ n \notin leading \cup attempting
          /\ proposal[n][1] < MaxProposal                       \* bound
          /\ waitingRequests' = [waitingRequests EXCEPT ![n] = @ \cup {r}]
          /\ attempting' = attempting \cup {n}
          /\ proposal' = [proposal EXCEPT ![n] = <<@[1] + 1, n>>]
          /\ UNCHANGED proposed
    /\ UNCHANGED <<requestTimeout, forwardTimeouts, forwards, acks,
                   received, lockVars, leading, abandoned, stopped, chosen,
                   known, losses, reached>>

(* addPromise, of the last promise that n needs: nobody promises who has   *)
(* not heard of its proposal, or of a higher one later.                    *)
BecomeLeader(n) ==
    /\ n \notin halted
    /\ n \in attempting
    /\ proposal[n][2] = n
    /\ Majority({m \in CoreNodes : CompareProposals(proposal[m], proposal[n])})
    /\ leading' = leading \cup {n}
    /\ attempting' = attempting \ {n}
    /\ proposed' = [proposed EXCEPT ![n] = waitingRequests[n]]
    /\ waitingRequests' = [waitingRequests EXCEPT ![n] = {}]
    /\ UNCHANGED <<requestTimeout, forwardVars, acks, received, lockVars,
                   proposal, abandoned, stopped, chosen, known, losses,
                   reached>>

(* A majority accepts what a leader has proposed, perhaps after it stopped *)
(* leading.                                                                *)
ChooseRequest(r) ==
    /\ \E n \in CoreNodes : r \in proposed[n] \cup abandoned
    /\ proposed' = [n \in CoreNodes |-> proposed[n] \ {r}]
    /\ abandoned' = abandoned \ {r}
    /\ chosen' = chosen \cup {r}
    /\ UNCHANGED <<requestTimeout, forwardVars, acks, received, lockVars,
                   proposal, attempting, leading, waitingRequests, stopped,
                   known, losses, reached>>

(* stopBeingLeader, of a leader: nobody calls it for a candidate.          *)
StopLeading(n) ==
    /\ leading' = leading \ {n}
    /\ stopped' = stopped \cup {n}
    /\ proposed' = [proposed EXCEPT ![n] = {}]
    /\ abandoned' = abandoned \cup proposed[n]

(* A proposal of a leader times out.                                       *)
ProposalTimeout(n) ==
    /\ losses < MaxLosses                                       \* bound
    /\ n \notin halted
    /\ n \in leading
    /\ losses' = losses + 1
    /\ StopLeading(n)
    /\ UNCHANGED <<requestTimeout, forwardVars, acks, received, lockVars,
                   proposal, attempting, waitingRequests, chosen, known,
                   reached>>

(* Node n hears of a higher proposal from m, which ends its leadership, but*)
(* no attempt to lead.                                                     *)
LearnProposal(n, m) ==
    /\ n \notin halted
    /\ proposal[m] # proposal[n]
    /\ CompareProposals(proposal[m], proposal[n])
    /\ proposal' = [proposal EXCEPT ![n] = proposal[m]]
    /\ IF n \in leading /\ proposal[m][2] # n
       THEN StopLeading(n)
       ELSE UNCHANGED <<leading, stopped, proposed, abandoned>>
    /\ UNCHANGED <<requestTimeout, forwardVars, acks, received, lockVars,
                   attempting, waitingRequests, chosen, known, losses,
                   reached>>

(* A Change Timeout Period after it stopped leading, n may lead again.     *)
MayLeadAgain(n) ==
    /\ n \in stopped
    /\ stopped' = stopped \ {n}
    /\ UNCHANGED <<requestTimeout, forwardVars, acks, received, lockVars,
                   proposal, leaderVars, chosen, known, losses, reached>>

(* handleChosenRequests: inside the transaction in which n learns that r   *)
(* is chosen, its request timeout is canceled, under the lock; if the lock *)
(* was left taken, the transaction never ends.                             *)
HandleChosen(n, r) ==
    /\ n \notin halted
    /\ r \in chosen \ known[n]
    /\ IF n \in locked
       THEN /\ halted' = halted \cup {n}
            /\ UNCHANGED <<known, requestTimeout>>
       ELSE /\ known' = [known EXCEPT ![n] = @ \cup {r}]
            /\ requestTimeout' = [requestTimeout EXCEPT ![r] =
                 CASE n = RequestNode[r] /\ @ = "running" -> "done"
                   [] n = RequestNode[r] /\ @ = "fired" -> "canceled"
                   [] OTHER -> @]
            /\ UNCHANGED halted
    /\ UNCHANGED <<forwardVars, acks, received, locked, blocked, proposal,
                   leaderVars, stopped, chosen, losses, reached>>

-----------------------------------------------------------------------------
Requester(r) ==
    \/ MakeRequest(r)
    \/ FireRequestTimeout(r)
    \/ NewRequest(r)
    \/ RequestTimeout(r)
    \/ CanceledRequestTimeout(r)

Forwarder ==
    \/ \E n \in Node, r \in Request : ForwardTimeout(n, r)
    \/ \E f \in forwards : ReceiveForward(f)
    \/ \E n \in CoreNodes : \E f \in received[n] : ReceivedForward(n, f)
    \/ \E a \in acks : ReceivedAck(a)
    \/ Lose

Consensus ==
    \/ \E n \in CoreNodes :
          \/ \E r \in Request : TakeRequest(n, r)
          \/ BecomeLeader(n)
          \/ ProposalTimeout(n)
          \/ MayLeadAgain(n)
    \/ \E n \in Node, m \in Node : LearnProposal(n, m)
    \/ \E r \in Request : ChooseRequest(r)
    \/ \E n \in Requesters, r \in Request : HandleChosen(n, r)

Next ==
    \/ \E r \in Request : Requester(r)
    \/ Forwarder
    \/ Consensus

Spec == Init /\ [][Next]_vars

(* What the goroutines, the timers and the network give once nothing more  *)
(* is lost: every channel is read, every timer fires, every message        *)
(* arrives.  That nodes hear of proposals, come to lead and get requests   *)
(* chosen is up to consensus and not promised here.                        *)
FairSpec ==
    /\ Spec
    /\ \A r \in Request :
         /\ WF_vars(FireRequestTimeout(r))
         /\ WF_vars(NewRequest(r))
         /\ WF_vars(RequestTimeout(r))
    /\ \A n \in Node :
         /\ WF_vars(\E r \in Request : ForwardTimeout(n, r))
         /\ \A m \in CoreNodes :
              WF_vars(\E f \in forwards : /\ f.from = n /\ f.to = m
                                         /\ ReceiveForward(f))
         /\ WF_vars(\E a \in acks : a.to = n /\ ReceivedAck(a))
    /\ \A n \in CoreNodes :
         /\ WF_vars(\E f \in received[n] : ReceivedForward(n, f))
         /\ WF_vars(\E r \in Request : TakeRequest(n, r))
         /\ WF_vars(MayLeadAgain(n))

-----------------------------------------------------------------------------
(***************************************************************************)
(* Properties                                                              *)
(***************************************************************************)

(* Every variable keeps its type.                                          *)
TypeOK ==
    /\ requestTimeout \in [Request -> TimeoutState]
    /\ forwardTimeouts \in [Node -> [Request -> Seq(CoreNodes)]]
    /\ forwards \subseteq Forward
    /\ acks \subseteq Ack
    /\ received \in [CoreNodes -> SUBSET Forward]
    /\ newChanges \in [CoreNodes -> SUBSET Request]
    /\ locked \cup blocked \cup halted \subseteq Node
    /\ proposal \in [Node -> Nat \X (CoreNodes \cup {0})]
    /\ attempting \cup leading \cup stopped \subseteq CoreNodes
    /\ waitingRequests \in [CoreNodes -> SUBSET Request]
    /\ proposed \in [CoreNodes -> SUBSET Request]
    /\ abandoned \cup chosen \subseteq Request
    /\ known \in [Requesters -> SUBSET Request]
    /\ losses \in Nat
    /\ reached \subseteq CoreNodes \X Request

(* processForward finds a candidate or gives up because of a full list:    *)
(* its branch "bug, couldn't find candidate leader node" is dead.  It      *)
(* compares lengths, which tells a full list only while no list, in a      *)
(* message, a channel or a timeout, names a node twice.                    *)
HandledLists ==
    {f.ignores : f \in forwards \cup UNION {received[n] : n \in CoreNodes}}
    \cup {forwardTimeouts[n][r] : n \in Node, r \in Request}

CandidateFound ==
    \A list \in HandledLists : \A n \in Node :
        LET ignores == WithSelf(n, list)
        IN  /\ Len(ignores) = Cardinality(Range(ignores))
            /\ Len(ignores) # Cardinality(CoreNodes)
               => Candidates(n, ignores) # {}

(* A request that its requester knows as chosen is not made again: a timer *)
(* that fired just before does not restart itself.                         *)
RetriesStop ==
    [][\A r \in Request :
          r \in known[RequestNode[r]] => requestTimeout'[r] # "running"]_vars

(* A node stops waiting for an acknowledgement only if the node it last    *)
(* forwarded the request to has got it, it takes the request to its own    *)
(* consensus, or nobody is left to try: an acknowledgement by an earlier   *)
(* target does not end the wait for a later one.                           *)
WaitsForLastTarget ==
    [][\A n \in Node, r \in Request :
          LET ignores == forwardTimeouts[n][r]
          IN  ignores # <<>> /\ forwardTimeouts'[n][r] = <<>>
              => \/ <<ignores[Len(ignores)], r>> \in reached
                 \/ n \in CoreNodes /\ r \in newChanges'[n]
                 \/ CoreNodes = Range(WithSelf(n, ignores))]_vars

(* What shared/chrequest needs of the rest of a node to do its own part.   *)
(* None of it is sure: a candidate without a majority remains one, and a   *)
(* lock may be left taken; AttemptsEnd and TransactionsContinue are about   *)
(* that.  The last part is that the bound stops nobody for ever.           *)
OutOfProposals(n) ==
    /\ newChanges[n] # {} /\ n \notin leading \cup attempting
    /\ proposal[n][1] = MaxProposal

ConsensusWorks ==
    /\ \A n \in CoreNodes : []<>(n \notin attempting)
    /\ \A r \in Request :
          []<>(\E n \in leading : r \in proposed[n]) => <>(r \in chosen)
    /\ []<>(locked = {})
    /\ \A n \in CoreNodes : []<>~OutOfProposals(n)

(* A request that was made becomes chosen if attempts to lead end and what *)
(* leaders propose again and again is chosen, although nodes disagree about*)
(* the leader, for ever perhaps, resign, drop requests and lose messages.  *)
RequestsSucceed ==
    ConsensusWorks =>
        \A r \in Request : requestTimeout[r] # "none" ~> r \in chosen

(* No transaction waits for ever (StartTransaction: "Blocks until no other *)
(* transaction is ongoing, then continues").                               *)
TransactionsContinue == halted = {}
=============================================================================
