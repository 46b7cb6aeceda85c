-------------------------- MODULE ConsensusBallots --------------------------
(***************************************************************************)
(* Why two proposals are never confused: the inductive invariant behind    *)
(* LeaderOwnsProposal and OneProposalPerSlot of Consensus.                 *)
(***************************************************************************)
EXTENDS Consensus

(* The proposals that exist anywhere.                                      *)
Seen ==
    {proposal[n] : n \in CoreNodes}
    \cup {m.proposal : m \in msgs}
    \cup {x[1] : x \in proposals}
    \cup (UNION {announced[n] : n \in CoreNodes})

(* The proposals that a node leads never run ahead of its own, so that the *)
(* next one it starts is new.                                              *)
OwnHighest ==
    \A p \in Seen, n \in CoreNodes :
        p[2] = n => CompareProposals(proposal[n], p)

(* A Promise goes to the node that leads its proposal.                     *)
PromisesToLeader ==
    \A m \in msgs : /\ m.type = "Prepare" => m.proposal[2] = m.from
                    /\ m.type = "Promise" => m.proposal[2] = m.to

(* A node that has proposed under its current proposal is no candidate     *)
(* under it, and as its leader goes on in later slots.                     *)
ProposesOnce ==
    \A n \in CoreNodes, x \in proposals :
        x[1] = proposal[n] /\ x[1][2] = n
        => /\ receivedPromises[n] = {}
           /\ amLeader[n] => x[2] < nextProposalSlot[n]

BallotsInOrder ==
    /\ OwnHighest
    /\ PromisesToLeader
    /\ ProposesOnce
    /\ LeaderOwnsProposal
    /\ OneProposalPerSlot
    /\ \A n \in CoreNodes : amLeader[n] => receivedPromises[n] = {}
=============================================================================
