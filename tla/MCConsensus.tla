---------------------------- MODULE MCConsensus ----------------------------
(* Small instances of Consensus for TLC.                                   *)
EXTENDS ConsensusBallots, TLC

ThreeNodes == 1 .. 3
OneNode == {1}
TwoNodes == {1, 2}
NoSlots == {}
FirstSlot == {0}

(* Consensus connections: all of them, or none from the third to the first.*)
AllPairs == CoreNodes \X CoreNodes
ThirdToSecond == AllPairs \ {<<3, 1>>}

(* Follow connections.                                                     *)
NoFollows == {}
FollowTheSecond == {<<1, 2>>}

RequestSymmetry == Permutations(Request)
=============================================================================
