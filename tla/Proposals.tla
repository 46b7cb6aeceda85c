----------------------------- MODULE Proposals -----------------------------
(***************************************************************************)
(* Proposal identifiers of shared/store: a proposal number together with   *)
(* the node that leads it, and the order the whole system compares them    *)
(* by.  Node IDs start at 1; leader 0 means that no node leads yet.        *)
(***************************************************************************)
EXTENDS Naturals, FiniteSets

CONSTANT
    CoreNodes   \* the IDs of the core nodes

ASSUME CoreNodesAssumption ==
    /\ CoreNodes \subseteq Nat \ {0}
    /\ CoreNodes # {}
    /\ IsFiniteSet(CoreNodes)

(* A proposal is <<number, leader>>.                                       *)
Proposal == Nat \X Nat

NoProposal == <<0, 0>>

(* Whether the first proposal is the higher one, or the two are equal.     *)
CompareProposals(b, c) ==
    \/ b[1] > c[1]
    \/ b[1] = c[1] /\ b[2] >= c[2]

(* A strict majority of the core nodes, counted as the code counts it.     *)
Majority(S) == Cardinality(S) > Cardinality(CoreNodes) \div 2
=============================================================================
