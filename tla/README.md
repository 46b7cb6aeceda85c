# Unanimity in TLA+

TLA+ modules for [unanimity](../src/README.md), a message relay in Go whose nodes
agree on a log of instructions "using Paxos", with the TLC configurations that
check them on small instances and TLAPS proofs for every instance. The modules
are translated from the Go source; `PROJECT.json` names the lines each
definition stands for.

## The system

A unanimity network has *core* nodes (IDs up to 0x2000), which agree on
instructions, and *client* nodes, which serve users. Every node keeps a replica
of the state that the instructions build.

| Component | State | Operations | Talks to |
|---|---|---|---|
| Proposal numbers, `shared/store/proposal.go` | `intProposal`, `intLeader`, `lastLeader` | `SetProposal`, `StopLeading`, `CompareProposals` | callbacks into consensus and follow |
| Instruction slots, `shared/store/instructions.go` | `start`, `firstUnapplied`, `slots`, `degraded` | `AddInstructionValue`, `Accept`, `Choose`, `tryApply`, `Degrade`, `EndBurst` | callbacks on chosen, applied, degraded |
| Consensus protocol, `core/consensus` | `receivedPromises`, `waitingRequests`, `amLeader`, `nextProposalSlot`, `proposalTimeouts` | five messages, new change requests, proposal timeouts | other core nodes; store |
| Follow protocol, `shared/follow` | one connection per peer with `sendingBurst`, `receivingBurst`, `waiting`, `offerTimers` | ten messages, bursts of the state, instruction offers | any node; store |
| Change requests, `shared/chrequest` | `requestTimeouts`, `forwardTimeouts`, `connections` | new request, forward, acknowledgement, two timeouts | any node; consensus |
| Transactions, `shared/store/main.go` | `transactionToken`, `usedRequestIds` | `StartTransaction`, `EndTransaction`, `AllocateRequestId` | every goroutine of a node |
| State store, `shared/store/{store,names,nodeinfo,callback}.go` | `Global`, `entityMap`, first unapplied slots of other nodes | lookups, bursts, changes | |
| Connections, `shared/connect` | send queue, closed flag, `Received` channel | dial, listen, send, close | TLS |
| Client listener, `client/listener` | `connections`, `sessions`, `waiting`, timeouts | authentication, following users, sending | store, relay, change requests |
| Client relay, `client/relay` | connections | forwarding with a hop limit | other client nodes |
| Configuration, startup, benchmarks, generated code | read once | | |

Each node runs a processing goroutine per protocol and a reading goroutine per
connection. They share the store, and take turns through one transaction token:
everything between `StartTransaction` and `EndTransaction` is atomic to the
others. Callbacks of the store run inside the transaction that caused them.

What is hard about this code, and what the properties are for:

- *Consensus*: messages of different attempts overtake one another; a node
  leads, is deposed by any of four messages, and leads again; acceptances are
  counted per value over all proposals; instructions become chosen by counting
  and by being told, out of slot order; slots are discarded on old information.
- *Follow*: a burst goes over many transactions while instructions keep arriving
  at both ends; connections cross, break and are made again in the middle of it.
- *Change requests*: forwards and acknowledgements get lost; timers fire while
  they are being canceled; requests are retried without end.
- *Goroutines*: a token, three mutexes and bounded channels are taken in
  different orders.
- *Listener*: checks made before a request is sent are stale when the
  instruction is applied, sessions are taken over by new connections, and a burst
  replaces the state without callbacks.

The hazards, each at its line and with the properties that cover it or the
reason why none does yet, are in `PROJECT.json`.

## Modules

| Module | Models |
|---|---|
| `Proposals` | proposal numbers, their order, and the majority test |
| `InstructionLog` | the slots of one node as a value, and accept, choose, apply and discard as operators on it |
| `Consensus` | all core nodes: the handlers of `core/consensus` and the messages of `shared/follow` that change the same state |
| `ConsensusBallots` | the inductive invariant about proposals |
| `ChangeRequests` | `shared/chrequest` on every node, over a consensus whose leader changes |
| `Changes` | what an instruction does to the state: entities, attachments, names, and the idempotent form that bursts use |
| `Follow` | `shared/follow` on every node, with `Degrade`, `Burst` and `EndBurst` of the store |
| `ReplicatedState` | abstract: what a node promises of its replica |
| `Listener` | `client/listener` of one node, with the part of `client/relay` that delivers |
| `Connection` | both ends of a `BaseConn` of `shared/connect` |
| `Link` | abstract: what a connection promises to its ends |
| `MCConsensus`, `MCChangeRequests`, `MCFollow`, `MCListener`, `MCConnection` | the constants of the small instances |
| `ConsensusProofs` | the operators of `InstructionLog`; types, what is chosen, what is applied, what is discarded; proposals and promises, and the timeouts of a leader's proposals |
| `ChangeRequestsProofs` | ignore lists, retries and acknowledgements |
| `ConnectionProofs` | the order of messages, and the refinement of `Link` |
| `ChangesProofs` | what `applyChanges` does with the requests of listeners |
| `ListenerProofs` | the invariants of `Listener` |
| `FollowProofs` | how bursts are framed, and who is burst to and may panic |

`Consensus` extends `InstructionLog`, which extends `Proposals`; `ChangeRequests`
extends `Proposals` too. `Consensus` takes requests out of the blue (`Entry`),
and `ChangeRequests` keeps of consensus only who follows whose proposal, who
attempts to lead or leads, and with which requests, so that the two can be read,
and checked, apart. `Follow` and `Listener` extend
`Changes`: both apply real instructions to a real state. `Follow` implements
`ReplicatedState` and `Connection` implements `Link`.

The modules meet where one has the outcome of another. `Follow` is given, in
`Agreed`, what `Consensus` chooses, and `Listener` takes a node that is not
degraded to have the state that `ReplicatedState` promises. `Follow` delivers
the messages of a connection in order, as `Link` promises; `Consensus` and
`ChangeRequests` ask less.

### How the state corresponds to the code

The variables are the code's, one function over the core nodes each.
`receivedPromises` is the set of keys of the map and `{}` for nil (the map is
never empty when it is not nil, for a candidate promises to itself in the
transaction that creates it). `proposalTimeouts[n][s]` is the request of the
timeout in slot `s`; a canceled or replaced timeout is forgotten, which is what
`proposalTimeouts[timeout.slot] == timeout` tests. `log` holds `start`,
`firstUnapplied`, and, per slot, the acceptances counted for each request and
the request that is chosen. It remembers chosen requests of discarded slots,
which the code forgets, so that properties can speak of them; no guard reads
them. `announced`, `proposals` and `votes` only ever grow: the first is what
Leader messages may say, the others are history that nothing reads.

One action is one transaction: the whole of a `case` of `process`, or of a
message handler, with the callbacks it runs. `processAccept`, for instance, is
the Nack of an earlier proposal, or the new proposal, the resignation of a
deposed leader, the acceptance counted as our own, what that makes chosen,
the timeouts this cancels, what can be applied and discarded then, and the
Accepted messages to the others.

Two departures are worth a word. The promise's list of accepted instructions is
not modelled because the code builds it and does not send it
(`process.go:278-304`); so `limit` in `addPromise` is always `firstUnapplied`
and the loop over earlier slots never runs. And the leader timeout is not
modelled because nothing starts it.

The network delivers a message at most once, at any time, or never: two core
nodes usually have two connections, a message goes out on the first in the
list, and one that finds no connection is dropped. `Connections` says who sends to
whom at all; connections that come and go are messages that do not arrive. Nodes do
not restart.

A node that panics is in `crashed` and takes no further steps.

#### Change requests

`ChangeRequests` has all nodes, core and client. `requestTimeout[r]` follows a
request at the node that makes it: queued in `newRequestCh`, its timer running,
the timer fired (the timeout is in `requestTimedOut`), canceled after that, or
done. `forwardTimeouts[n][r]` is the ignore list of the forward that `n` waits
for an answer to; its last member is where the forward went. `received` is
`receivedForwardCh`. A forward timeout needs no such life: one that is canceled
after it fired is received, found canceled, and forgotten.

The request timeouts are read by two goroutines, under `requestTimeoutLock`: the
processing goroutine and whoever runs `handleChosenRequests` in a transaction.
Only one path leaves the lock taken (a canceled timeout, `process.go:24-28`), so
that the lock is modelled by who hangs because of it: `locked` holds the nodes
where it was left taken, `blocked` those whose processing goroutine waits for
it, `halted` those where a transaction does.

Of consensus it keeps what `shared/chrequest` sees and what becomes of a request
that is handed over (`TakeRequest`): a node that leads proposes it, one that is a
candidate already queues it (`process.go:85-86`), any other begins an attempt to
lead with it. An attempt gets its majority (`BecomeLeader`) or never ends; a leader
proposes what it is given, and again after a proposal timeout, and what it has
proposed becomes chosen (`ChooseRequest`) or not. `LearnProposal` stands for Prepare,
Accept, Nack and Leader messages alike; whoever adopts a proposal stops leading
(`StopLeading`), which drops the timeouts of what it had proposed (`abandoned`). A node whose
attempt was overtaken stays a candidate, and so does one that had a majority
of promises to a proposal that is no longer its own.

#### Changes, and what bursts do to them

A state is the next entity ID and a function from entity IDs to entities. An
entity is a kind and the values that the listener gives it: a name, the client
node that a session is attached to, the user it belongs to. `applyChanges` goes
through the changes one by one, as the code does, and may extend the list it
walks through (a transient entity that loses its last attachment is deleted by
a change added at the end; a name in use is dropped). Besides the new state it
results in the list as it ends up, with new IDs in place, which is the
*idempotent* form that a node sends to those it is bursting to, and which
`applyChanges(..., TRUE)` applies. `MaxChanges` bounds the rounds; a result that
they were not enough for is not `complete`, and no action takes such a step.

The code refuses no username (`handle.go:190` has a TODO), so the empty one may
be among `Names`. A user of that name is a user without a name, which
`NameLookup` finds as it finds others, but which names nobody: the properties
are about the other names.

#### Follow

One action is one transaction: a message handled, a connection accepted, one
step of a burst. `store[n]` is `start`, `firstUnapplied`, `slots`, `degraded`
and the state. `conn[c][n]` is `n`'s end of connection `c`: closed or not, with
the burst it sends (not at all, about to start, or at some of the entities) and
the one it receives, the instructions that wait for its end, and the offers that
it has timers for. A burst visits the entities of the live store one transaction
at a time, in any order (a Go map), so that what changes meanwhile may be seen
or not; or the old map, if the store was replaced under it.

`Learn` is what consensus does to a node in `Learners`. Messages are delivered
in order; `Break` cuts a connection and loses what is under way. A node that
panics is in `crashed`. An instruction on its way carries its slot, its changes, and
`request`, which of the agreed ones it is: history, with which `SlotsRight` and
`WaitingIdempotent` can tell the right one from another. `Pasts` gives the
positions where the nodes may begin, with what they have discarded.

`tainted` is history too: it holds the nodes of whose state `ReplicatedState` says
nothing. It comes to hold a node whose burst was mixed with an instruction that was not
idempotent, the defect that `WaitingIdempotent` is about, until it is burst to
again; and everybody from the moment when a core node degrades, after which
core nodes panic (`NoPanic`) or take one instruction for another (`SlotsRight`).

#### Listener

`agreed` is the state that all instructions make. `requested` are the node's own
requests that are not chosen yet, `waiting` maps their IDs to connections.
`sessions` and `userConn` are the maps of the code. A connection's cleanup has
two halves, with other goroutines' steps in between, as it has two transactions.
Callbacks on applied instructions, deleted entities and the end of being
degraded are part of the actions that cause them. `blocked` means that a
goroutine waits for a lock that it holds; nothing happens after that.

Other nodes are `ChooseElsewhere`: any request that the listener of one of them
may make (`ElsewhereRequests`), at any time. They register users, make sessions,
attach to sessions and detach from them, and remove nameless users. Messages from
them are `HandleForward`.

#### Connection

Each end has `readLoop` and `writeLoop`, goroutines whose position is in
`reading`, `writing` and `writer`, the channels between them and the node, and
the network, with room for a few messages each way. The messages are numbers in
the order in which `Send` takes them. `sent`, `got` and `ended` are what the
users of the connection see, and what `Link` speaks of. An end in
`Transactional` handles messages in the same transactions in which it sends, as
nodes do; a user, at the other end of a connection of the listener, has none.
`StaysUp` keeps a connection from being closed or broken.

## What is checked

Each passing run ends within five minutes on two workers:

| Run | Instance | Shows |
|---|---|---|
| `ConsensusDuel` | 3 nodes, all connected but for the third to the first, 2 of them get a request and the first follows the second, 2 requests, 2 slots, the first of which may be discarded, proposal number up to 1, each request delivered once | `TypeOK`, `LeaderOwnsProposal`, `OneProposalPerSlot`, `ChosenByMajority`, `ProposalsWatched`, `AppliedUpToGap`, `DiscardedAppliedByMajority`, `BallotsInOrder`, `PromisesKept`, `ProposalsRise`, `ChosenForever` |
| `RequestsForwarded` | 3 core nodes that do not lead, 1 client that makes 1 request, 2 losses of a message, 2 forwards per pair of nodes under way | `TypeOK`, `WaitsForLastTarget` |
| `RequestsSucceed` | 2 core nodes, 1 of which makes 1 request, proposal number up to 1, 1 loss of a message or a proposal | `CandidateFound`, `RetriesStop`, `RequestsSucceed` |
| `FollowBurst` | 1 core node that has applied 2 instructions and learns the third, 1 client node that knows nothing, 2 connections, 1 broken or crossing connection | `BurstOnlyDegraded`, `BurstFramed`, `CaughtUp` |
| `FollowCores` | 2 core nodes, of which one has all 3 instructions and the other 1 or 2, with slots discarded at either, 1 client node that knows nothing, 2 connections | `ImplementsReplicatedState` |
| `Listener` | 1 client node, 2 user connections, 3 requests, 1 of which may come from elsewhere, 1 loss of the state, any number of messages through delivery channels of size 1 | `SessionOwned`, `ConnectedToExisting`, `WaitersAnswered`, `NamesUnique`, `IdempotentForm` |
| `Connection` | a node that sends 6 messages to a user, and handles messages only between its sends, and gets 1; channels of size 1 | `ImplementsLink`, `CloseEnds`, `Delivered` |

The bounds are constants of the modules (`LastSlot`, `MaxProposal`,
`MaxDeliveries`, `SlotCap`, `AgedSlots`, `Entry`, `Connections`, `Follows`; `MaxLosses`,
`MaxInFlight`; `MaxAhead`, `MaxFaults`, `MaxRequests`, `MaxDegrades`, `MaxSends`
and so on), each named in the guard it bounds. Three nodes are the fewest where a majority is not everybody,
two competing nodes the fewest that depose each other, two slots the fewest
with a gap, and two requests the fewest that compete for a slot. In
`ConsensusDuel` the third node does not reach the first, which so learns of its
acceptances only through the second, by a follow connection; the two that
compete reach everybody. With that connection too the instance (834k states)
was checked by itself, without an error. The proofs have no bounds. The runs
stop when the bounds are reached, so deadlock is not checked in them. Symmetry is
used over requests and user connections, in runs without liveness.

Two core nodes are enough for the end of a request: they disagree about the leader,
depose each other, and fill an ignore list. The wait for an acknowledgement is
about nodes that do not lead, and targets that change: `RequestsForwarded` has
three of them and a client, a third party that forwards to each and leads itself
never. One request is enough because requests meet nowhere but at the lock, for
which `RequestsLocked` has two. A client and two core nodes that depose each
other, with nothing lost, are 3.1 million states: checked by itself, without an
error, for `TypeOK`, `CandidateFound`, `WaitsForLastTarget` and `RetriesStop`.
`RequestsSucceed` was checked by itself also with proposal number up to 2 and
nothing lost.

In `FollowBurst` the instructions are a user with a session, a rename, and a
detach that deletes the transient session, one of each kind of change that a
burst can get wrong. The core node has nobody to be behind of and never
degrades. Every position of the start
before the first unapplied slot is an initial state, so that the client is
either sent what it misses or burst to. An instance that begins before the
first instruction (657k states) was checked for safety too. `CaughtUp` is
checked without symmetry.

In `FollowCores` a client has connections with two core nodes that are not equally
far, which `EndBurst` does not compare with what the client has
(`instructions.go:285`): it may be burst to by either, be told of instructions by
the other before, within and after, and have the burst cut off by the
other's. Or one core node bursts to the other, which degrades for that, and the
property says nothing from there on. The two initial states are those
in which the client is burst to by the node that is behind, and by the one that is
ahead. Nobody learns anything and nothing breaks; with that, or with four
instructions, the instance is out of TLC's reach.

In `Listener` three requests are two users and a change to one, or a user, a
second session of it, and the end of one of them. A channel of one message is
full as soon as it is used. In `Connection` six messages fill everything between
the two ends, so that every goroutine comes to wait for every other. A connection
ends in one way there, closed or broken: `Break` says so.

Five runs refute what comments of the code say:

| Run | Violated | Why |
|---|---|---|
| `ConsensusAgreement` | `Agreement` | the Promise does not carry the accepted instructions |
| `ConsensusTwice` | `NoRequestTwice` | a leader does not look whether a request was proposed before |
| `ConsensusAttempts` | `AttemptsEnd` | the leader timeout is never started |
| `RequestsLocked` | `TransactionsContinue` | a canceled request timeout leaves its lock taken |
| `FollowWaiting` | `WaitingIdempotent` | a request from before the burst is answered within it, with the original changes |

The modules state more that TLC refutes, each in an instance of its own. They have no
run here, and no property of a run depends on them:

| Module | Refuted | Instance | Why |
|---|---|---|---|
| `Consensus` | `NoPanic` | `OneNode` gets 2 requests, `FirstSlot` may be discarded, `FollowTheSecond` | a slot before the start is a negative index (`process.go:613`, 631) |
| `Follow` | `NoPanic` | `TwoCores`, both `Learners`, `CoresApart`, `TwoRequests` | a core node that degrades keeps its first unapplied slot, and discards empty slots (`instructions.go:140`) |
| `Follow` | `SlotsRight` | the same with `ThreeRequests` | slots that a core node fills during its burst keep their places when the start moves by more than their number (`instructions.go:305`) |
| `Listener` | `OrphansWatched` | that of `Listener` | the timer of an orphaned attachment looks in the map of the nameless users (`checks.go:78`) |
| `Listener` | `NamelessWatched` | the same with 2 requests from elsewhere | the timer of a nameless user that fires at a degraded node does nothing, and is not started again (`checks.go:62`, 108) |
| `Listener` | `NeverBlocked` | that of `Listener` | a lock is taken twice by the goroutine that creates a guest (`handle.go:359`) |
| `Listener` | `ConnectedIsAttached` | the same with 5 requests | a detach made in time is applied late (`handle.go:60`) |
| `Connection` | `SendReturns` | both ends `Transactional`, `SixEach`, `StaysUp` | two nodes that send to each other in transactions fill all channels and wait for each other (`baseconn.go:304`) |

`ConsensusAttempts` assumes `FairSpec`: a running node handles the messages that
reach it, fires the timers it started, and reads its follow connections. That is
all the goroutines give; nothing says that a message is delivered.

`RequestsSucceed` asks whether forwarding can fail by itself. Its fairness is that
of the goroutines and of a network that loses at most `MaxLosses` messages and
proposals: forwards and acknowledgements arrive, channels are read and timers
fire. Whether a node ever hears of a proposal is left open. That consensus does its part
is not assumed of the system, which `ConsensusAttempts` refutes, but is the premise of the
property, `ConsensusWorks`: no candidate stays one for ever, a request that leaders propose
again and again is chosen, and the lock of `RequestsLocked` is free. The candidate that
queues requests, the leader that is deposed with what it has proposed, and the leader that
resigned under its own proposal are all there.

`CaughtUp` assumes that some goroutine of `Follow` that has something to do gets
to do it (`Progress`): readers, accepted connections, bursts, and the
process goroutine, which redials after some seconds. Weak fairness of them
together is enough and no more than Go's scheduler gives; `Break`, `Learn` and
the offer timers are not in it.

In `Connection` each goroutine is weakly fair. An end whose handlers wait for a
transaction gets it in turn (strong fairness), for the token is a channel, and
goroutines that wait for a channel are served first come, first served. Between two
nodes that does not help (`SendReturns`): each is in a transaction that
does not end. The
invariants of `Listener` need no fairness.

Every property of a passing run has a mutant, a definition with the bug that
the property is there to catch (marked as such in the modules), and TLC finds
the property violated with it.

## What is proved

For every finite set of core nodes, any requests, slots and bounds, and for any
client nodes, connections, usernames and channel sizes:

| Theorem | Says |
|---|---|
| `TypeCorrect` | `TypeOK`, and every acceptance a node has recorded was sent |
| `MajorityBehindChosen` | what a node knows as chosen has acceptances of a majority |
| `AppliedInOrder` | exactly the instructions before the first gap are applied |
| `ChosenStays` | a chosen instruction is never replaced |
| `DiscardedSafely` | a majority has applied whatever is discarded |
| `BallotsStayInOrder` | the invariant `BallotsInOrder` |
| `OneProposal` | one request per proposal and slot, as a theorem of its own |
| `LeadersOwnProposals` | a leader leads its own proposal; one request per proposal and slot |
| `ProposalsOnlyRise` | no proposal ever decreases |
| `PromisesAreKept` | nothing is accepted under less than was promised |
| `RequestsTyped` | `TypeOK` of `ChangeRequests` |
| `CandidateIsFound` | no ignore list names a node twice; a candidate is found while one is left |
| `RetriesAreStopped` | a request known as chosen is not made again |
| `LastTargetAwaited` | only the last target's answer ends a wait |
| `LeadersWatchProposals` | a leader runs a timeout for what it has proposed and does not know as chosen |
| `MessagesInOrder` | the invariant `IInv` of a connection: its messages lie between the ends in order |
| `ConnectionImplementsLink` | `ImplementsLink`, for any sizes of the channels and the network |
| `RequestApplied` | a listener's request keeps the state consistent, revives and renames nothing, makes one session at most, and lists what it attaches |
| `DetachApplied` | a request to detach a session detaches it |
| `IdempotentApplied` | the idempotent form of a request does what the request does |
| `Types` | the types of `Listener`: the state stays consistent, requests under way are still well formed |
| `SessionsOwned` | `SessionOwned` |
| `LiveConnections` | `ConnectedToExisting` |
| `AnswersComing` | `WaitersAnswered` |
| `UniqueUsernames` | `NamesUnique` |
| `BurstsReplay` | `IdempotentForm` |
| `Invariant` | the invariant `IInv` of `Follow` |
| `BurstsFramed` | `BurstFramed` |
| `BurstsOnlyWhenDegraded` | `BurstOnlyDegraded` |

The assumptions are those on the constants: `CoreNodesAssumption`,
`LogAssumption`, `ConsensusAssumption`, `ChangeRequestsAssumption`,
`ConnectionAssumption`, `ChangesAssumption` (the bound on rounds is a number),
`FollowAssumption` and `ListenerAssumption` (client nodes have IDs between 0x2000 and 0x10000, as
`IsCore` and their 16 bits say, so that no entity has the ID of a node).
`FollowAssumption` says that only core nodes learn from consensus (`Learners`),
as `core/consensus` runs on no other.

*What is chosen.* `ChosenByMajority` is not inductive: an Accepted message that
arrives completes a majority with acceptances recorded long before.
`AcceptedSent` adds that whatever is recorded, and whatever an Accepted message
says, was sent as an acceptance. Every action changes the log of at most one
node, through `Store`; `StoreFacts` and the lemmas about the operators of the log say
what that does, so that each action needs one digest and each invariant one
argument about the digest.

*Proposals.* `OneProposalPerSlot` needs that a node does not attempt to lead
twice under one proposal, hence that its own proposal is at least as high as any
proposal in its name, in messages, histories and other nodes: `OwnHighest`. It
needs too that a Promise counts for the node that leads its proposal only:
`PromisesToLeader`; and that a node which has proposed under its proposal is no
candidate under it and goes on in later slots: `ProposesOnce`.

*Change requests.* `RequestsInv` says of every list in a message, a channel or a
timeout that it names nobody twice (`ListsDistinct`), because a node adds itself
only if it is not there and adds a candidate only if it is not ignored; such a
list is as long as its range is large (`DistinctLength`), which is what the
comparison of lengths needs. It says that acknowledgements come from nodes the
forward reached (`AcksReached`), and that nothing is chosen or on its way which
its requester has not started (`OnlyStarted`), so that learning that a request
is chosen always settles a timer that was there (`KnownSettled`).

*Timeouts of proposals.* `ProposalsWatched` needs of what chooses an instruction
that it stops the timeout of that slot only, and of what deposes a leader that
no proposal made under its next proposal exists yet, which is `ProposesOnce`. So
it is inductive together with `BallotsInOrder`, by one digest of every action
(`TimeoutFacts`).

*Connections.* Messages are numbered as they are sent, so that `InOrder` can say
of each end that the messages it got, those in its reader's hand and channel, in
the network, in its peer's writer, channel and waiting list are consecutive
numbers: what lies before a place ends where the next begins. A message that is
lost with a closed connection leaves a gap only where nobody reads any longer.
The refinement maps every step to a send, a receipt, an end or a stutter of
`Link`; the invariant is what makes a receipt the next number.

*Changes.* `applyChanges` is a loop over a list that grows and is rewritten while
it is walked through, and half of what a request promises does not hold between
two rounds: an entity exists before it has a kind, is attached before it is a
session, and is gone before everything is detached from it. `Sound` says what
every round keeps. `WellFormed` is about the list: an ID within the request is
created once and before it is used, `next` follows `create` at once, removals
come last, kinds and names are set once and only on what the request itself makes.
The other parts say that what the state does not have yet is still in the list,
or what it has already is in the changes done: that whatever is attached to a user is a
session or is to be detached (`UsersAttached`), that an entity keeps its kind
and name (`Kept`), that new users are listed (`News`), and so is what is newly
attached (`NodeAttached`). Each kind of
round has a digest (`Digest`: values before, values after, the two lists as sets),
and each part of `Sound` one argument about the digest. That `MaxChanges` rounds
keep what one round keeps is an induction over the rounds; the library's
induction theorems take an operator, so `Rounds` has it from the well-foundedness
of the natural numbers, for a set in place of a predicate. The idempotent form is
replayed against a history of the states (`Leads`), one for every change done.

*Listener.* The invariants of `Listener` depend on one another and on two more
parts, `TypeOK` and `Linked`; `IInv` is all of them together. A new session is not
another connection's because the sessions map has only existing entities and what
is created is new, which is `TypeOK`, with `Consistent` of the replicated state.
At most one connection gets it because a connection that waits is in the map under
its own request's ID and has no session yet, which is `Linked`. That whoever waits
is not live when the node is degraded (`Linked`) is why a burst can leave nobody
waiting. `Applies` is the digest of an instruction that is applied with its
callbacks: what is gone, who waited, what is new, detached and closed; each
invariant has its argument about that, and the other actions change little.

*Follow.* That a burst is going on over a connection is noted at its sender
(`sending`), at its receiver (`receiving`) and, while its messages are under way,
by what is between them; `FramedAt` says that the three fit. `InBurst` says for a
place in the queue whether its receiver will be in a burst when it gets there, by
the last `Bursting` or `BurstDone` before, so that a message at the end leaves the
places before it alone and one that is handled moves them all by one.
Every action is the step of one node, or cuts a connection. `HandleStep` is the
digest of such a step: what a node sends on each of its connections fits what
`sending` is before and after (`Sends`), and it takes no message, or one that
`receiving` follows (`AfterMessage`), or closes the connection. One argument about
the digest keeps `FramedAt`; each action then is shown to be such a step.
It needs that the two ends of a connection that is not cut know each other, and
that a closed end gets nothing any more (`EndsOK`). `BurstOnlyDegraded` needs that
the connections in use are those which are handled and not closed (`InUse`), and
that whoever is burst to has no other such connection (`Alone`): a `Bursting`
closes all others, and a degraded node accepts none while it has one. That a
discard makes nobody panic who is not degraded needs that such a node has all
instructions between its start and its first unapplied slot (`HasApplied`), which
`tryApply` keeps by induction over its rounds.

Only checked by TLC: everything about liveness (`CaughtUp`, `RequestsSucceed`,
`CloseEnds`, `Delivered`), which is out of reach of the prover, and
`ImplementsReplicatedState`.

## Not modelled

- *Dial, Listen, TLS and framing* (`shared/connect`): input and output. That a
  peer presents the certificate of its node is taken for granted.
- *Connection lists of consensus, requests and relay*: a message that meets no
  connection is a message lost, which those models have anyway. The relay keeps
  nothing else.
- *The transaction token as a lock of all goroutines of a node*: that transactions
  exclude one another is what makes one handler one action, and goroutines that
  fail to give it back are in `ChangeRequests`, `Listener` and `Connection`, each
  with the ones it has. A model of all of them at once would be a product of
  these. So the channel of 100 change requests (`consensus/events.go:34`), which
  blocks a sender in a transaction when it is full, has no property.
- *Restarts*: nothing is persisted and the code promises no recovery.
- *What core nodes that degraded bring about*: `NoPanic` and `SlotsRight` of
  `Follow` say how it begins; what clients are told by such nodes afterwards has no
  property.
- *Wording*: answers to users, notices to followers, logs; password hashing.
- *Configuration, startup, benchmarks and generated code*: read once, load
  generators, and message types, which are records here.

## What is left to prove

Every invariant and action property of the passing runs is a theorem, and so is that
`Connection` implements `Link`. What is left is liveness, which stays with TLC, and
that `Follow` implements `ReplicatedState` until a core node degrades, which
`FollowCores` checks for two core nodes.
