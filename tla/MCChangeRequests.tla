-------------------------- MODULE MCChangeRequests --------------------------
(* Small instances of ChangeRequests for TLC.                              *)
EXTENDS ChangeRequests, TLC

TwoCores == {1, 2}
NoClients == {}
ThreeCores == {1, 2, 3}
OneClient == {9}

(* Every request is made by the client node, or by the last core node.     *)
MadeByClient == [r \in Request |-> 9]
MadeByLast == [r \in Request |-> 2]

RequestSymmetry == Permutations(Request)
=============================================================================
