------------------------------ MODULE MCFollow ------------------------------
(* Small instances of Follow for TLC: one or two core nodes, one client.   *)
EXTENDS Follow

ClientNode == 8193
CoreAndClient == {1, ClientNode}
TwoCoresAndClient == {1, 2, ClientNode}
TheCore == {1}
TwoCores == {1, 2}

(* What the nodes have discarded and applied at the start.                 *)
AllAtStart == {1 :> <<0, 0>> @@ ClientNode :> <<0, 0>>}
CoreAhead == {1 :> <<p, 2>> @@ ClientNode :> <<0, 0>> : p \in {0, 1}}
CoresApart == {1 :> <<1, 2>> @@ 2 :> <<0, 0>>}

(* In the first, node 2 bursts to the client behind node 1, which has yet  *)
(* more to pass on; in the second, node 1 bursts to the client and to      *)
(* node 2.                                                                 *)
CoresAhead ==
    {1 :> <<0, 3>> @@ 2 :> <<1, 2>> @@ ClientNode :> <<0, 0>>,
     1 :> <<2, 3>> @@ 2 :> <<0, 1>> @@ ClientNode :> <<0, 0>>}

(* A user is created with a session, renamed, and loses the session, which *)
(* is transient.                                                           *)
User == FirstEntity
Session == FirstEntity + 1
TwoRequests ==
    0 :> makeNewUserRequest(ClientNode, "a")
    @@ 1 :> <<Set(User, Name, "b")>>

ThreeRequests == TwoRequests @@ 2 :> DetachRequest(ClientNode, Session)

(* It loses the session first.                                             *)
DetachedThenRenamed ==
    0 :> makeNewUserRequest(ClientNode, "a")
    @@ 1 :> DetachRequest(ClientNode, Session)
    @@ 2 :> <<Set(User, Name, "b")>>

(* Nodes in a burst replay the idempotent forms of what was applied.       *)
ASSUME AgreedReplayable == Replayable

ConnSymmetry == Permutations(Conn)
=============================================================================
