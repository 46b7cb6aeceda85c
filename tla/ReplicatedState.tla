-------------------------- MODULE ReplicatedState --------------------------
(***************************************************************************)
(* What the follow protocol promises of every node's replica, without its  *)
(* messages: a node that is ready holds exactly the state after the        *)
(* instructions before its position, which goes back only when the node    *)
(* has lost its state and gets it again.                                   *)
(***************************************************************************)
EXTENDS Naturals

CONSTANTS
    Node,
    LastSlot,   \* the highest slot
    After,      \* After[k]: the state after the first k instructions
    NoContent   \* stands for whatever a node holds while it is not ready

VARIABLES
    position,   \* position[n]: the first slot n has not applied
    ready,      \* ready[n]: whether n serves its state
    content     \* content[n]: its state

replicaVars == <<position, ready, content>>

Init ==
    /\ position \in [Node -> 0 .. LastSlot + 1]
    /\ ready = [n \in Node |-> TRUE]
    /\ content = [n \in Node |-> After[position[n]]]

(* Node n comes to be at position p, with its state.                       *)
Become(n, p) ==
    /\ position' = [position EXCEPT ![n] = p]
    /\ ready' = [ready EXCEPT ![n] = TRUE]
    /\ content' = [content EXCEPT ![n] = After[p]]

Advance(n) == ready[n] /\ \E p \in position[n] .. LastSlot + 1 : Become(n, p)

Restore(n) == ~ready[n] /\ \E p \in 0 .. LastSlot + 1 : Become(n, p)

(* The nodes in S lose their state, and where they were is forgotten.      *)
Lose(S) ==
    /\ position' = [n \in Node |-> IF n \in S THEN 0 ELSE position[n]]
    /\ ready' = [n \in Node |-> n \notin S /\ ready[n]]
    /\ content' = [n \in Node |-> IF n \in S THEN NoContent ELSE content[n]]

Next ==
    \/ \E n \in Node : Advance(n) \/ Restore(n)
    \/ \E S \in SUBSET Node : Lose(S)

Spec == Init /\ [][Next]_replicaVars
=============================================================================
