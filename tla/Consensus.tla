----------------------------- MODULE Consensus -----------------------------
(***************************************************************************)
(* The consensus protocol between the core nodes: core/consensus, with the *)
(* parts of shared/store it drives and the parts of shared/follow that     *)
(* change the same state (Leader, InstructionData and FirstUnapplied       *)
(* messages).                                                              *)
(*                                                                         *)
(* Each action is one transaction: everything a handler does between       *)
(* StartTransaction and EndTransaction is one step, as the code's          *)
(* transaction token makes it.  A message is delivered at most once, in    *)
(* any order (two nodes usually have two connections and each connection   *)
(* has a reading goroutine of its own); a message that is never delivered  *)
(* stands for one that a missing or closed connection lost.  A delivery    *)
(* that a handler discards without any effect is a stuttering step here,   *)
(* so that the message stays in flight; that adds no behaviour, for it     *)
(* could as well have been delivered later.                                *)
(***************************************************************************)
EXTENDS InstructionLog, Sequences

CONSTANTS
    Entry,          \* the nodes whose shared/chrequest hands requests over
    Connections,    \* bound: the <<n, m>> where n has a connection to m
    Follows,        \* the <<n, m>> where n hears m over a follow connection
    MaxProposal,    \* bound: the highest proposal number used
    MaxDeliveries   \* bound: how often one request reaches a leader

ASSUME ConsensusAssumption ==
    /\ Entry \subseteq CoreNodes
    /\ Connections \subseteq CoreNodes \X CoreNodes
    /\ Follows \subseteq CoreNodes \X CoreNodes
    /\ MaxProposal \in Nat
    /\ MaxDeliveries \in Nat

VARIABLES
    proposal,           \* proposal[n]: <<intProposal, intLeader>> of node n
    amLeader,           \* amLeader[n]
    receivedPromises,   \* receivedPromises[n]: the senders; {} for nil
    waitingRequests,    \* waitingRequests[n]: requests of a candidate
    nextProposalSlot,   \* nextProposalSlot[n]
    proposalTimeouts,   \* proposalTimeouts[n][s]: request timed, or None
    log,                \* log[n]: the instruction slots of node n
    nodeFirstUnapplied, \* nodeFirstUnapplied[n][m]: what n knows of m
    crashed,            \* the nodes whose process has panicked
    msgs,               \* consensus messages in flight
    announced,          \* announced[n]: proposals n sent in Leader messages
    deliveries,         \* deliveries[r]: how often r was given to a node
    proposals,          \* history: the <<proposal, slot, request>> proposed
    votes               \* history: the acceptances sent to other nodes

leaderVars == <<amLeader, receivedPromises, waitingRequests,
                nextProposalSlot, proposalTimeouts>>
storeVars == <<log, nodeFirstUnapplied, crashed>>
historyVars == <<proposals, votes>>
vars == <<proposal, leaderVars, storeVars, msgs, announced, deliveries,
          historyVars>>

(***************************************************************************)
(* Messages.  A Prepare also carries firstUnapplied and a Promise a list   *)
(* of accepted instructions, but processPrepare never puts the list it     *)
(* builds into the Promise, so that neither has an effect.                 *)
(***************************************************************************)
Message ==
    [type : {"Prepare", "Promise", "Nack"},
     from : CoreNodes, to : CoreNodes, proposal : Proposal]
    \cup
    [type : {"Accept", "Accepted"},
     from : CoreNodes, to : CoreNodes, proposal : Proposal,
     slot : Slot, request : Request]

Followed == {e[2] : e \in Follows}

(* Whom n sends to when it sends to all.                                   *)
Others(n) == {m \in CoreNodes \ {n} : <<n, m>> \in Connections}

Reply(m, type, p) ==
    [type |-> type, from |-> m.to, to |-> m.from, proposal |-> p]

PrepareMsgs(n, p) ==
    {[type |-> "Prepare", from |-> n, to |-> m, proposal |-> p] :
        m \in Others(n)}

(* Accept and Accepted messages from n to all, one for each                *)
(* <<slot, request>> in pairs.                                             *)
InstructionMsgs(n, type, p, pairs) ==
    {[type |-> type, from |-> n, to |-> m, proposal |-> p,
      slot |-> sr[1], request |-> sr[2]] : m \in Others(n), sr \in pairs}

Vote(n, p, pairs) ==
    {[node |-> n, proposal |-> p, slot |-> sr[1], request |-> sr[2]] :
        sr \in pairs}

-----------------------------------------------------------------------------
Init ==
    /\ proposal = [n \in CoreNodes |-> NoProposal]
    /\ amLeader = [n \in CoreNodes |-> FALSE]
    /\ receivedPromises = [n \in CoreNodes |-> {}]
    /\ waitingRequests = [n \in CoreNodes |-> <<>>]
    /\ nextProposalSlot = [n \in CoreNodes |-> 0]
    /\ proposalTimeouts = [n \in CoreNodes |-> [s \in Slot |-> None]]
    /\ log = [n \in CoreNodes |-> EmptyLog]
    /\ nodeFirstUnapplied = [n \in CoreNodes |-> [m \in CoreNodes |-> 0]]
    /\ crashed = {}
    /\ msgs = {}
    /\ announced = [n \in CoreNodes |-> {NoProposal}]
    /\ deliveries = [r \in Request |-> 0]
    /\ proposals = {}
    /\ votes = {}

-----------------------------------------------------------------------------
(* stopBeingLeader: also drops the requests that wait for leadership.      *)
stopBeingLeader(n) ==
    /\ amLeader' = [amLeader EXCEPT ![n] = FALSE]
    /\ receivedPromises' = [receivedPromises EXCEPT ![n] = {}]
    /\ waitingRequests' = [waitingRequests EXCEPT ![n] = <<>>]
    /\ proposalTimeouts' =
         [proposalTimeouts EXCEPT ![n] = [s \in Slot |-> None]]
    /\ UNCHANGED nextProposalSlot

(* The proposal of the next attempt of node n to become leader.            *)
NextProposalSame(n) == <<proposal[n][1], n>>        \* mutant: not raised

NextProposal(n) == <<proposal[n][1] + 1, n>>

(* Whether node n rejects an Accept under proposal p as an earlier one.    *)
EarlierNumber(n, p) == proposal[n][1] > p[1]        \* mutant: leader ignored

EarlierProposal(n, p) ==
    proposal[n] # p /\ CompareProposals(proposal[n], p)

(* SetProposal with its callbacks: shared/follow announces a changed       *)
(* proposal, and a leader that is no longer the one named by it resigns (a *)
(* candidate does not).                                                    *)
SetProposal(n, p) ==
    /\ proposal' = [proposal EXCEPT ![n] = p]
    /\ announced' = [announced EXCEPT
                      ![n] = @ \cup {q \in {p} : n \in Followed}]

ResignIfDeposed(n, p) ==
    IF p # proposal[n] /\ amLeader[n] /\ p[2] # n
    THEN stopBeingLeader(n)
    ELSE UNCHANGED leaderVars

(* Mutant of Store: a timeout is canceled whatever was chosen.             *)
StoreCancelingAll(n, log2, timeouts) ==
    /\ \E new \in NewStarts(n, log[n], log2, nodeFirstUnapplied[n]) :
          log' = [log EXCEPT ![n] = [log2 EXCEPT !.start = new]]
    /\ proposalTimeouts' = [proposalTimeouts EXCEPT ![n] =
         [s \in Slot |-> IF s \in NewlyChosen(log[n], log2)
                         THEN None ELSE timeouts[s]]]

(* The log of n becomes log2 with any slots discarded that can be, and the *)
(* timeouts of the proposals that were chosen are canceled (timeouts are   *)
(* those pending before).                                                  *)
Store(n, log2, timeouts) ==
    /\ \E new \in NewStarts(n, log[n], log2, nodeFirstUnapplied[n]) :
          log' = [log EXCEPT ![n] = [log2 EXCEPT !.start = new]]
    /\ proposalTimeouts' = [proposalTimeouts EXCEPT ![n] =
         [s \in Slot |-> IF /\ s \in NewlyChosen(log[n], log2)
                            /\ timeouts[s] = log2.chosen[s]
                         THEN None
                         ELSE timeouts[s]]]

(* addAccept at node n for instructions proposed under p: they are         *)
(* recorded, then Accepted messages go out, for slots that already have a  *)
(* different chosen instruction too.  out is what the handler sent before. *)
(* A slot that has been discarded makes the node panic.                    *)
addAccept(n, p, pairs, timeouts, inFlight, out) ==
    LET told == WithinCap(log[n], pairs)
    IN  IF Discarded(log[n], pairs) = {}
        THEN /\ Store(n, addAccepted(log[n], n, pairs), timeouts)
             /\ msgs' = inFlight \cup out
                          \cup InstructionMsgs(n, "Accepted", p, told)
             /\ votes' = votes \cup Vote(n, p, told)
             /\ UNCHANGED crashed
        ELSE /\ crashed' = crashed \cup {n}
             /\ msgs' = inFlight \cup out
             /\ proposalTimeouts' = [proposalTimeouts EXCEPT ![n] = timeouts]
             /\ UNCHANGED <<log, votes>>

(* sendProposal of all the pairs: Accept messages, then our own acceptance.*)
(* A proposal timeout has been added for each.                             *)
sendProposals(n, p, pairs, inFlight) ==
    /\ proposals' = proposals \cup {<<p, sr[1], sr[2]>> : sr \in pairs}
    /\ addAccept(n, p, pairs,
                 [s \in Slot |-> IF \E sr \in pairs : sr[1] = s
                                 THEN (CHOOSE sr \in pairs : sr[1] = s)[2]
                                 ELSE proposalTimeouts[n][s]],
                 inFlight, InstructionMsgs(n, "Accept", p, pairs))

(* Mutant of WaitingProposals: off by one.                                 *)
WaitingProposalsAfter(n, requests) ==
    {<<log[n].firstUnapplied + i, requests[i]>> : i \in DOMAIN requests}

(* The slots a new leader gives to the requests that wait: they follow its *)
(* first unapplied slot, for no promise reports an accepted instruction.   *)
WaitingProposals(n, requests) ==
    {<<log[n].firstUnapplied + i - 1, requests[i]>> : i \in DOMAIN requests}

(* Mutant of BecomeLeader: the next slot is not set.                       *)
BecomeLeaderAtOldSlot(n, p, requests, inFlight) ==
    /\ log[n].firstUnapplied + Len(requests) <= LastSlot + 1
    /\ amLeader' = [amLeader EXCEPT ![n] = TRUE]
    /\ receivedPromises' = [receivedPromises EXCEPT ![n] = {}]
    /\ waitingRequests' = [waitingRequests EXCEPT ![n] = <<>>]
    /\ UNCHANGED nextProposalSlot
    /\ sendProposals(n, p, WaitingProposals(n, requests), inFlight)

(* addPromise when the promises of nodes are a majority: n leads.          *)
BecomeLeader(n, p, requests, inFlight) ==
    /\ log[n].firstUnapplied + Len(requests) <= LastSlot + 1    \* bound
    /\ amLeader' = [amLeader EXCEPT ![n] = TRUE]
    /\ receivedPromises' = [receivedPromises EXCEPT ![n] = {}]
    /\ waitingRequests' = [waitingRequests EXCEPT ![n] = <<>>]
    /\ nextProposalSlot' = [nextProposalSlot EXCEPT
                              ![n] = log[n].firstUnapplied + Len(requests)]
    /\ sendProposals(n, p, WaitingProposals(n, requests), inFlight)

(* addPromise: record the promise, and lead on a majority.                 *)
addPromise(n, m, p, requests, inFlight) ==
    LET promised == receivedPromises[n] \cup {m}
    IN  IF Majority(promised)
        THEN BecomeLeader(n, p, requests, inFlight)
        ELSE /\ receivedPromises' = [receivedPromises EXCEPT ![n] = promised]
             /\ waitingRequests' = [waitingRequests EXCEPT ![n] = requests]
             /\ msgs' = inFlight
             /\ UNCHANGED <<amLeader, nextProposalSlot, proposalTimeouts,
                            log, crashed, historyVars>>

-----------------------------------------------------------------------------
(* A change request comes from shared/chrequest, for node n to propose as  *)
(* leader.  Requests are retried, so that one can come more than once.     *)
NewChange(n, r) ==
    /\ n \in Entry \ crashed
    /\ deliveries[r] < MaxDeliveries                            \* bound
    /\ deliveries' = [deliveries EXCEPT ![r] = @ + 1]

(* An attempt to lead is under way: the request waits for its end.         *)
QueueChange(n, r) ==
    /\ NewChange(n, r)
    /\ ~amLeader[n] /\ receivedPromises[n] # {}
    /\ waitingRequests' = [waitingRequests EXCEPT ![n] = Append(@, r)]
    /\ UNCHANGED <<proposal, amLeader, receivedPromises, nextProposalSlot,
                   proposalTimeouts, storeVars, msgs, announced, historyVars>>

(* Otherwise a node that does not lead starts an attempt: a proposal       *)
(* number above the current one, Prepare messages, and its own promise.    *)
StartAttempt(n, r) ==
    LET p == NextProposal(n)
    IN  /\ NewChange(n, r)
        /\ ~amLeader[n] /\ receivedPromises[n] = {}
        /\ p[1] <= MaxProposal                                  \* bound
        /\ SetProposal(n, p)
        /\ addPromise(n, n, p, Append(waitingRequests[n], r),
                      msgs \cup PrepareMsgs(n, p))
        /\ UNCHANGED nodeFirstUnapplied

(* A leader proposes the request in its next slot.                         *)
ProposeChange(n, r) ==
    /\ NewChange(n, r)
    /\ amLeader[n]
    /\ nextProposalSlot[n] <= LastSlot                          \* bound
    /\ nextProposalSlot' = [nextProposalSlot EXCEPT ![n] = @ + 1]
    /\ sendProposals(n, proposal[n], {<<nextProposalSlot[n], r>>}, msgs)
    /\ UNCHANGED <<proposal, amLeader, receivedPromises, waitingRequests,
                   nodeFirstUnapplied, announced>>

(* A proposal timeout fires that was not canceled.                         *)
ProposalTimeout(n, s) ==
    /\ n \notin crashed
    /\ proposalTimeouts[n][s] # None
    /\ stopBeingLeader(n)
    /\ UNCHANGED <<proposal, storeVars, msgs, announced, deliveries,
                   historyVars>>

-----------------------------------------------------------------------------
Receive(m, type) ==
    /\ m.type = type
    /\ m.to \notin crashed

(* A Prepare for a proposal at least as high as ours gets a Promise and    *)
(* makes it ours; a lower one gets a Nack.                                 *)
processPrepare(m) ==
    LET n == m.to
        higher == CompareProposals(m.proposal, proposal[n])
    IN  /\ Receive(m, "Prepare")
        /\ IF higher
           THEN /\ msgs' = (msgs \ {m})
                             \cup {Reply(m, "Promise", m.proposal)}
                /\ SetProposal(n, m.proposal)
                /\ ResignIfDeposed(n, m.proposal)
           ELSE /\ msgs' = (msgs \ {m}) \cup {Reply(m, "Nack", proposal[n])}
                /\ UNCHANGED <<proposal, announced, leaderVars>>
        /\ UNCHANGED <<storeVars, deliveries, historyVars>>

(* Mutant of processPromise: the proposal of the Promise is not compared.  *)
processAnyPromise(m) ==
    LET n == m.to
    IN  /\ Receive(m, "Promise")
        /\ receivedPromises[n] # {}
        /\ m.from \notin receivedPromises[n]
        /\ addPromise(n, m.from, m.proposal, waitingRequests[n], msgs \ {m})
        /\ UNCHANGED <<proposal, announced, nodeFirstUnapplied, deliveries>>

(* A Promise counts for a candidate if it is for its current proposal and  *)
(* the first from that node; any other is discarded.                       *)
processPromise(m) ==
    LET n == m.to
    IN  /\ Receive(m, "Promise")
        /\ receivedPromises[n] # {}
        /\ proposal[n] = m.proposal
        /\ m.from \notin receivedPromises[n]
        /\ addPromise(n, m.from, m.proposal, waitingRequests[n], msgs \ {m})
        /\ UNCHANGED <<proposal, announced, nodeFirstUnapplied, deliveries>>

(* An Accept for an earlier proposal than ours gets a Nack; one for a      *)
(* later proposal makes it ours; an instruction under our proposal is      *)
(* accepted.                                                               *)
processAccept(m) ==
    LET n == m.to
        earlier == EarlierProposal(n, m.proposal)
        deposed == /\ m.proposal # proposal[n]
                   /\ amLeader[n] /\ m.proposal[2] # n
    IN  /\ Receive(m, "Accept")
        /\ IF earlier
           THEN /\ msgs' = (msgs \ {m}) \cup {Reply(m, "Nack", proposal[n])}
                /\ UNCHANGED <<proposal, announced, proposalTimeouts, log,
                               crashed, votes>>
           ELSE /\ SetProposal(n, m.proposal)
                /\ addAccept(n, m.proposal, {<<m.slot, m.request>>},
                             IF deposed THEN [s \in Slot |-> None]
                                        ELSE proposalTimeouts[n],
                             msgs \ {m}, {})
        /\ IF ~earlier /\ deposed
           THEN /\ amLeader' = [amLeader EXCEPT ![n] = FALSE]
                /\ receivedPromises' = [receivedPromises EXCEPT ![n] = {}]
                /\ waitingRequests' = [waitingRequests EXCEPT ![n] = <<>>]
                /\ UNCHANGED nextProposalSlot
           ELSE UNCHANGED <<amLeader, receivedPromises, waitingRequests,
                            nextProposalSlot>>
        /\ UNCHANGED <<nodeFirstUnapplied, deliveries, proposals>>

(* An Accepted message adds its sender to those that accept the value,     *)
(* unless that is known or the slot has a chosen instruction.              *)
processAccepted(m) ==
    LET n == m.to
        pairs == {<<m.slot, m.request>>}
        log2 == addAccepted(log[n], m.from, pairs)
    IN  /\ Receive(m, "Accepted")
        /\ msgs' = msgs \ {m}
        /\ IF Discarded(log[n], pairs) = {}
           THEN /\ log2 # log[n]
                /\ Store(n, log2, proposalTimeouts[n])
                /\ UNCHANGED crashed
           ELSE /\ crashed' = crashed \cup {n}
                /\ UNCHANGED <<log, proposalTimeouts>>
        /\ UNCHANGED <<proposal, amLeader, receivedPromises, waitingRequests,
                       nextProposalSlot, nodeFirstUnapplied, announced,
                       deliveries, historyVars>>

(* A Nack with another proposal at least as high makes a leader resign and *)
(* take that proposal over; any other, and every one that reaches a node   *)
(* that does not lead, a candidate too, is discarded.                      *)
processNack(m) ==
    LET n == m.to
    IN  /\ Receive(m, "Nack")
        /\ amLeader[n]
        /\ m.proposal # proposal[n]
        /\ CompareProposals(m.proposal, proposal[n])
        /\ msgs' = msgs \ {m}
        /\ stopBeingLeader(n)
        /\ SetProposal(n, m.proposal)
        /\ UNCHANGED <<storeVars, deliveries, historyVars>>

-----------------------------------------------------------------------------
(* Mutant of handleLeader: any proposal is taken over.                     *)
handleAnyLeader(n, m) ==
    /\ n \notin crashed
    /\ <<n, m>> \in Follows
    /\ \E p \in announced[m] : SetProposal(n, p) /\ ResignIfDeposed(n, p)
    /\ UNCHANGED <<storeVars, msgs, deliveries, historyVars>>

(* handleLeader: a Leader message of shared/follow, sent by m when its     *)
(* proposal changed (or it connected).  A second delivery of one would     *)
(* change nothing, so that they are not consumed.                          *)
handleLeader(n, m) ==
    /\ n \notin crashed
    /\ <<n, m>> \in Follows
    /\ \E p \in announced[m] :
          /\ CompareProposals(p, proposal[n])
          /\ SetProposal(n, p)
          /\ ResignIfDeposed(n, p)
    /\ UNCHANGED <<storeVars, msgs, deliveries, historyVars>>

(* Mutant of handleInstructionData: a chosen instruction is overwritten.   *)
handleAnyInstructionData(n, m, s) ==
    /\ n \notin crashed
    /\ <<n, m>> \in Follows /\ m # n
    /\ IsChosen(log[m], s)
    /\ s >= log[n].start /\ s <= log[n].start + SlotCap
    /\ Store(n, Choose(log[n], [t \in {s} |-> log[m].chosen[s]]),
             proposalTimeouts[n])
    /\ UNCHANGED <<proposal, amLeader, receivedPromises, waitingRequests,
                   nextProposalSlot, nodeFirstUnapplied, crashed, msgs,
                   announced, deliveries, historyVars>>

(* handleInstructionData: node n is told by m of the instruction chosen in *)
(* slot s.  It adds and chooses it unless it has one there.  The value     *)
(* cannot be added too far ahead, and the code calls Choose on nil then.   *)
handleInstructionData(n, m, s) ==
    /\ n \notin crashed
    /\ <<n, m>> \in Follows /\ m # n
    /\ IsChosen(log[m], s)
    /\ s >= log[n].start
    /\ ~IsChosen(log[n], s)
    /\ IF s <= log[n].start + SlotCap
       THEN /\ Store(n, Choose(log[n], [t \in {s} |-> log[m].chosen[s]]),
                     proposalTimeouts[n])
            /\ UNCHANGED crashed
       ELSE /\ crashed' = crashed \cup {n}
            /\ UNCHANGED <<log, proposalTimeouts>>
    /\ UNCHANGED <<proposal, amLeader, receivedPromises, waitingRequests,
                   nextProposalSlot, nodeFirstUnapplied, msgs, announced,
                   deliveries, historyVars>>

(* handleFirstUnapplied: n learns how far m has applied.  The number is    *)
(* read when it arrives: one that was read earlier could only keep a slot  *)
(* longer, which NewStarts allows anyway.                                  *)
handleFirstUnapplied(n, m) ==
    /\ AgedSlots # {}           \* bound: nothing else reads the number
    /\ n \notin crashed
    /\ <<n, m>> \in Follows /\ m # n
    /\ nodeFirstUnapplied' =
         [nodeFirstUnapplied EXCEPT ![n][m] = log[m].firstUnapplied]
    /\ UNCHANGED <<proposal, leaderVars, log, crashed, msgs, announced,
                   deliveries, historyVars>>

-----------------------------------------------------------------------------
HandleChange(n) ==
    \E r \in Request :
        QueueChange(n, r) \/ StartAttempt(n, r) \/ ProposeChange(n, r)

HandleMessage(m) ==
    \/ processPrepare(m)
    \/ processPromise(m)
    \/ processAccept(m)
    \/ processAccepted(m)
    \/ processNack(m)

Follow(n) ==
    \/ \E m \in CoreNodes : handleLeader(n, m)
    \/ \E m \in CoreNodes, s \in Slot : handleInstructionData(n, m, s)
    \/ \E m \in CoreNodes : handleFirstUnapplied(n, m)

Next ==
    \/ \E n \in CoreNodes : HandleChange(n)
    \/ \E n \in CoreNodes, s \in Slot : ProposalTimeout(n, s)
    \/ \E m \in msgs : HandleMessage(m)
    \/ \E n \in CoreNodes : Follow(n)

Spec == Init /\ [][Next]_vars
-----------------------------------------------------------------------------
(***************************************************************************)
(* Properties                                                              *)
(***************************************************************************)

(* Every variable keeps its type.                                          *)
TypeOK ==
    /\ proposal \in [CoreNodes -> Proposal]
    /\ amLeader \in [CoreNodes -> BOOLEAN]
    /\ receivedPromises \in [CoreNodes -> SUBSET CoreNodes]
    /\ waitingRequests \in [CoreNodes -> Seq(Request)]
    /\ nextProposalSlot \in [CoreNodes -> Nat]
    /\ proposalTimeouts \in [CoreNodes -> [Slot -> Request \cup {None}]]
    /\ log \in [CoreNodes -> Log]
    /\ nodeFirstUnapplied \in [CoreNodes -> [CoreNodes -> Nat]]
    /\ crashed \subseteq CoreNodes
    /\ msgs \subseteq Message
    /\ announced \in [CoreNodes -> SUBSET Proposal]
    /\ deliveries \in [Request -> Nat]
    /\ proposals \subseteq Proposal \X Slot \X Request
    /\ votes \subseteq [node : CoreNodes, proposal : Proposal,
                        slot : Slot, request : Request]

(* A leader leads the current proposal: the panic "tried to send accept    *)
(* messages while not leader" of sendProposal cannot happen, whatever      *)
(* promises, Leader messages and Nacks arrive in between.                  *)
LeaderOwnsProposal == \A n \in CoreNodes : amLeader[n] => proposal[n][2] = n

(* Two nodes never lead under the same proposal, and no node proposes two  *)
(* requests for one slot under one proposal, although it leaves leadership *)
(* and comes back: what makes "accepted under proposal p" mean something.  *)
OneProposalPerSlot ==
    \A a, b \in proposals : a[1] = b[1] /\ a[2] = b[2] => a[3] = b[3]

(* A node knows an instruction as chosen only if a majority of the core    *)
(* nodes sent acceptances of that request in that slot, whether it counted *)
(* them itself or was told by a node it follows.                           *)
AcceptedBy(s, r) ==
    {v.node : v \in {w \in votes : w.slot = s /\ w.request = r}}

ChosenByMajority ==
    \A n \in CoreNodes, s \in Slot :
        IsChosen(log[n], s) => Majority(AcceptedBy(s, log[n].chosen[s]))

(* The instructions a node has applied are exactly the chosen ones before  *)
(* its first gap: none is applied out of order, skipped, or left waiting.  *)
AppliedUpToGap == \A n \in CoreNodes : AppliedToGap(log[n])

(* A slot is discarded only when a majority of the core nodes has applied  *)
(* it (so that a majority can burst the state that follows from it), and   *)
(* by the node itself too.                                                 *)
DiscardedAppliedByMajority ==
    \A n \in CoreNodes :
        /\ log[n].start <= log[n].firstUnapplied
        /\ Majority({m \in CoreNodes :
                        log[m].firstUnapplied >= log[n].start})

(* A leader watches every proposal it made under its current proposal      *)
(* until it sees that very request chosen: a proposal whose slot went to   *)
(* another request still has its timeout, and ends the leadership.         *)
ProposalsWatched ==
    \A n \in CoreNodes, s \in Slot, r \in Request :
        /\ amLeader[n] /\ n \notin crashed
        /\ <<proposal[n], s, r>> \in proposals
        => log[n].chosen[s] = r \/ proposalTimeouts[n][s] = r

(* The proposal of a node never decreases, whichever of the five ways it   *)
(* changes: own attempt, Prepare, Accept, Nack or Leader message.          *)
ProposalsRise ==
    [][\A n \in CoreNodes : CompareProposals(proposal'[n], proposal[n])]_vars

(* A promise is kept: a node that promised or accepted under one proposal  *)
(* never afterwards accepts under a lower one.                             *)
PromisesKept ==
    [][\A v \in votes' \ votes :
          CompareProposals(v.proposal, proposal[v.node])]_vars

(* What a node has chosen in a slot it keeps for ever, though Accepted and *)
(* InstructionData messages for the slot go on arriving.                   *)
ChosenForever ==
    [][\A n \in CoreNodes, s \in Slot :
          IsChosen(log[n], s) => log'[n].chosen[s] = log[n].chosen[s]]_vars

(* Two nodes never choose different instructions in a slot (README: "using *)
(* Paxos"; processPrepare: "Add all the instructions we've previously      *)
(* accepted or chosen" to the promise).                                    *)
Agreement ==
    \A n, m \in CoreNodes, s \in Slot :
        IsChosen(log[n], s) /\ IsChosen(log[m], s)
        => log[n].chosen[s] = log[m].chosen[s]

(* No request is chosen in two slots (package comment: "Filters out        *)
(* changes whose change request ID already occurs in our instruction       *)
(* proposals").                                                            *)
NoRequestTwice ==
    \A n \in CoreNodes, s, t \in Slot :
        IsChosen(log[n], s) /\ log[n].chosen[s] = log[n].chosen[t] => s = t

(* No message or request makes a node panic (AddInstructionValue: "Returns *)
(* nil if we can't add this instruction, because it is before the start of *)
(* our slots").                                                            *)
NoPanic == crashed = {}

(* An attempt to become leader comes to an end (process: "Leadership       *)
(* attempt timed out", "stop our attempt to become leader").               *)
AttemptsEnd ==
    \A n \in CoreNodes :
        receivedPromises[n] # {} ~> receivedPromises[n] = {}

(* What the scheduling gives: the goroutines of a running node handle what *)
(* their connections deliver, and timers fire.                             *)
FairSpec ==
    /\ Spec
    /\ \A n \in CoreNodes :
         /\ WF_vars(\E m \in msgs : m.to = n /\ HandleMessage(m))
         /\ WF_vars(\E s \in Slot : ProposalTimeout(n, s))
         /\ WF_vars(\E m \in CoreNodes : handleLeader(n, m))
=============================================================================
