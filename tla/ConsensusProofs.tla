-------------------------- MODULE ConsensusProofs --------------------------
(***************************************************************************)
(* Theorems about Consensus, for any core nodes, requests, follow          *)
(* connections and bounds: first about the operators of one node's log,    *)
(* then about what a node learns and sends, and then about its proposals:  *)
(* that they only rise, that a promise is kept, that a leader owns its     *)
(* proposal, that no two requests are proposed for one slot under one      *)
(* proposal, and that a leader watches each proposal it made until it sees *)
(* that very request chosen.                                               *)
(***************************************************************************)
EXTENDS
    ConsensusBallots, SequenceTheorems, FiniteSetTheorems,
    WellFoundedInduction, TLAPS

-----------------------------------------------------------------------------
(* The operators of Proposals and InstructionLog: the proposal order,      *)
(* majorities, and what is done to one node's instruction log.             *)

(* CompareProposals orders proposals: reflexive, transitive, total, and    *)
(* two proposals that are each as high as the other are the same one.      *)
LEMMA ProposalOrder ==
    ASSUME NEW a \in Proposal, NEW b \in Proposal, NEW c \in Proposal
    PROVE  /\ CompareProposals(a, a)
           /\ CompareProposals(a, b) \/ CompareProposals(b, a)
           /\ CompareProposals(a, b) /\ CompareProposals(b, a) => a = b
           /\ CompareProposals(a, b) /\ CompareProposals(b, c)
              => CompareProposals(a, c)
BY DEF Proposal, CompareProposals

(* A set of core nodes that contains a majority is a majority.             *)
LEMMA MajorityMonotone ==
    ASSUME NEW S, NEW T, S \subseteq T, T \subseteq CoreNodes, Majority(S)
    PROVE  Majority(T)
<1>1. IsFiniteSet(T)
    BY CoreNodesAssumption, FS_Subset
<1>2. /\ IsFiniteSet(S)
      /\ Cardinality(S) <= Cardinality(T)
    BY <1>1, FS_Subset
<1>3. /\ Cardinality(S) \in Nat
      /\ Cardinality(T) \in Nat
      /\ Cardinality(CoreNodes) \in Nat
    BY <1>1, <1>2, FS_CardinalityType, CoreNodesAssumption
<1> QED
    BY <1>2, <1>3 DEF Majority

(* A non-empty set of naturals has a least element.                        *)
LEMMA LeastNatural ==
    ASSUME NEW S \in SUBSET Nat, S # {}
    PROVE  \E x \in S : \A y \in S : x <= y
<1> DEFINE Less == {ss \in Nat \X Nat : ss[1] < ss[2]}
<1>1. IsWellFoundedOn(Less, Nat)
    BY NatLessThanWellFounded DEF OpToRel
<1>2. ASSUME NEW x \in S, NEW y \in S, ~(x <= y)
      PROVE  <<y, x>> \in Less
    BY <1>2
<1> HIDE DEF Less
<1>3. \E x \in S : \A y \in S : <<y, x>> \notin Less
    BY <1>1, WFMin
<1> QED
    BY <1>2, <1>3

(* Applying stops at the first slot without a chosen instruction.          *)
LEMMA tryApplyStopsAtGap ==
    ASSUME NEW chosen, NEW from \in 0 .. LastSlot + 1
    PROVE  LET a == tryApply(chosen, from)
           IN  /\ a \in from .. LastSlot + 1
               /\ \A t \in from .. a - 1 : chosen[t] # None
               /\ a \in Slot => chosen[a] = None
<1> DEFINE Stops == {s \in from .. LastSlot + 1 : s \in Slot => chosen[s] = None}
<1>0. LastSlot \in Nat
    BY LogAssumption
<1>1. Stops \in SUBSET Nat /\ LastSlot + 1 \in Stops
    BY <1>0 DEF Slot
<1>2. PICK a \in Stops : \A s \in Stops : a <= s
    BY <1>1, LeastNatural
<1>3. \A t \in from .. a - 1 : chosen[t] # None
    <2> SUFFICES ASSUME NEW t \in from .. a - 1, chosen[t] = None
                 PROVE  FALSE
        OBVIOUS
    <2>1. t \in Stops
        BY <1>0, <1>1, <1>2
    <2> QED
        BY <1>0, <1>1, <1>2, <2>1
<1>4. \E s \in from .. LastSlot + 1 :
          /\ \A t \in from .. s - 1 : chosen[t] # None
          /\ s \in Slot => chosen[s] = None
    BY <1>2, <1>3
<1> QED
    BY <1>4 DEF tryApply

(* Choosing values: what becomes chosen, and that applying keeps up.       *)
LEMMA ChooseFacts ==
    ASSUME NEW l \in Log, NEW new, DOMAIN new \subseteq Slot,
           \A s \in DOMAIN new : new[s] \in Request
    PROVE  LET l2 == Choose(l, new)
           IN  /\ l2 \in Log
               /\ l2.start = l.start
               /\ l2.firstUnapplied >= l.firstUnapplied
               /\ \A s \in Slot :
                     /\ s \in DOMAIN new => l2.chosen[s] = new[s]
                     /\ s \notin DOMAIN new => l2.chosen[s] = l.chosen[s]
               /\ \A s \in Slot, r \in Request :
                     l2.accepted[s][r] \subseteq l.accepted[s][r]
               /\ AppliedToGap(l) => AppliedToGap(l2)
<1> DEFINE l2 == Choose(l, new)
           now == [s \in Slot |-> IF s \in DOMAIN new THEN new[s]
                                                      ELSE l.chosen[s]]
           acc == [s \in Slot |-> IF s \in DOMAIN new
                                  THEN [r \in Request |-> {}]
                                  ELSE l.accepted[s]]
           a == tryApply(now, l.firstUnapplied)
<1>0. LastSlot \in Nat /\ None \notin Request
    BY LogAssumption
<1>1. l2 = [l EXCEPT !.chosen = now, !.accepted = acc, !.firstUnapplied = a]
    BY DEF Choose
<1>2. /\ l.start \in 0 .. LastSlot + 1
      /\ l.firstUnapplied \in 0 .. LastSlot + 1
      /\ l.accepted \in [Slot -> [Request -> SUBSET CoreNodes]]
      /\ l.chosen \in [Slot -> Request \cup {None}]
    BY DEF Log
<1>3. /\ a \in l.firstUnapplied .. LastSlot + 1
      /\ \A t \in l.firstUnapplied .. a - 1 : now[t] # None
      /\ a \in Slot => now[a] = None
    <2> HIDE DEF now
    <2> QED
        BY <1>2, tryApplyStopsAtGap
<1>4. /\ now \in [Slot -> Request \cup {None}]
      /\ acc \in [Slot -> [Request -> SUBSET CoreNodes]]
    BY <1>2
<1>5. /\ l2.start = l.start
      /\ l2.firstUnapplied = a
      /\ l2.accepted = acc
      /\ l2.chosen = now
      /\ l2 \in Log
    <2> HIDE DEF now, acc, a, l2
    <2>1. a \in 0 .. LastSlot + 1
        BY <1>0, <1>2, <1>3
    <2> QED
        BY <1>1, <1>2, <1>4, <2>1 DEF Log
<1>6. AppliedToGap(l) => AppliedToGap(l2)
    <2> SUFFICES ASSUME AppliedToGap(l)
                 PROVE  AppliedToGap(l2)
        OBVIOUS
    <2>1. ASSUME NEW s \in Slot, s < a
          PROVE  now[s] # None
        <3>1. CASE s < l.firstUnapplied
            BY <3>1, <1>0, <1>2 DEF AppliedToGap, IsChosen
        <3>2. CASE ~(s < l.firstUnapplied)
            <4>1. s \in l.firstUnapplied .. a - 1
                BY <3>2, <2>1, <1>0, <1>2, <1>3 DEF Slot
            <4> QED
                BY <4>1, <1>3
        <3> QED
            BY <3>1, <3>2
    <2> QED
        BY <2>1, <1>3, <1>5 DEF AppliedToGap, IsChosen
<1>7. l2.firstUnapplied >= l.firstUnapplied
    BY <1>0, <1>2, <1>3, <1>5
<1> QED
    BY <1>4, <1>5, <1>6, <1>7
(* Counting acceptances: an acceptance is recorded only for a pair within  *)
(* the cap, nothing chosen changes, and a slot becomes chosen only for a   *)
(* pair that a majority, with the new acceptance, has accepted.            *)
LEMMA addAcceptedFacts ==
    ASSUME NEW l \in Log, NEW id \in CoreNodes,
           NEW pairs \in SUBSET (Slot \X Request)
    PROVE  LET l2 == addAccepted(l, id, pairs)
           IN  /\ l2 \in Log
               /\ l2.start = l.start
               /\ l2.firstUnapplied >= l.firstUnapplied
               /\ \A s \in Slot : IsChosen(l, s) => l2.chosen[s] = l.chosen[s]
               /\ \A s \in Slot, r \in Request :
                     l2.chosen[s] = r /\ ~IsChosen(l, s)
                     => /\ <<s, r>> \in WithinCap(l, pairs)
                        /\ Majority(l.accepted[s][r] \cup {id})
               /\ \A s \in Slot, r \in Request :
                     \/ l2.accepted[s][r] \subseteq l.accepted[s][r]
                     \/ /\ l2.accepted[s][r] \subseteq l.accepted[s][r] \cup {id}
                        /\ <<s, r>> \in WithinCap(l, pairs)
               /\ AppliedToGap(l) => AppliedToGap(l2)
<1> DEFINE open == {sr \in WithinCap(l, pairs) : ~IsChosen(l, sr[1])}
           added == [s \in Slot |-> [r \in Request |->
                       IF <<s, r>> \in open
                       THEN l.accepted[s][r] \cup {id}
                       ELSE l.accepted[s][r]]]
           won == {sr \in open : Majority(added[sr[1]][sr[2]])}
           D == {sr[1] : sr \in won}
           new == [s \in D |-> CHOOSE r \in Request : <<s, r>> \in won]
           l1 == [l EXCEPT !.accepted = added]
           l2 == addAccepted(l, id, pairs)
<1>0. None \notin Request
    BY LogAssumption
<1>1. l2 = Choose(l1, new)
    BY DEF addAccepted
<1>2. /\ l.start \in 0 .. LastSlot + 1
      /\ l.firstUnapplied \in 0 .. LastSlot + 1
      /\ l.accepted \in [Slot -> [Request -> SUBSET CoreNodes]]
      /\ l.chosen \in [Slot -> Request \cup {None}]
    BY DEF Log
<1>3. added \in [Slot -> [Request -> SUBSET CoreNodes]]
    BY <1>2
<1>4. /\ l1 \in Log
      /\ l1.start = l.start
      /\ l1.firstUnapplied = l.firstUnapplied
      /\ l1.chosen = l.chosen
      /\ l1.accepted = added
    <2> HIDE DEF added
    <2> QED
        BY <1>2, <1>3 DEF Log
<1>5. open \subseteq Slot \X Request
    BY DEF WithinCap
<1>6. ASSUME NEW s \in D
      PROVE  /\ s \in Slot
             /\ new[s] \in Request
             /\ <<s, new[s]>> \in won
    <2>1. PICK r \in Request : <<s, r>> \in won
        <3> HIDE DEF open, added
        <3>1. PICK sr \in won : s = sr[1]
            OBVIOUS
        <3>2. sr \in Slot \X Request
            BY <3>1, <1>5
        <3> QED
            BY <3>1, <3>2
    <2>2. new[s] \in Request /\ <<s, new[s]>> \in won
        <3> HIDE DEF won
        <3> QED
            BY <2>1
    <2> HIDE DEF open, added, new
    <2> QED
        BY <2>2, <1>5
<1>7. /\ DOMAIN new = D
      /\ D \subseteq Slot
      /\ \A s \in D : new[s] \in Request
    <2>1. DOMAIN new = D
        OBVIOUS
    <2> HIDE DEF D, new
    <2> QED
        BY <2>1, <1>6
<1>8. /\ l2 \in Log
      /\ l2.start = l1.start
      /\ l2.firstUnapplied >= l1.firstUnapplied
      /\ \A s \in Slot : /\ s \in D => l2.chosen[s] = new[s]
                         /\ s \notin D => l2.chosen[s] = l1.chosen[s]
      /\ \A s \in Slot, r \in Request :
            l2.accepted[s][r] \subseteq l1.accepted[s][r]
      /\ AppliedToGap(l1) => AppliedToGap(l2)
    <2> HIDE DEF D, new, l1, l2
    <2> QED
        BY <1>1, <1>4, <1>7, ChooseFacts
<1>9. ASSUME NEW s \in Slot, IsChosen(l, s)
      PROVE  l2.chosen[s] = l.chosen[s]
    <2>1. s \notin D
        <3> HIDE DEF added
        <3>1. \A sr \in won : ~IsChosen(l, sr[1])
            OBVIOUS
        <3> QED
            BY <3>1, <1>9
    <2> HIDE DEF D, l2
    <2> QED
        BY <2>1, <1>4, <1>8
<1>10. ASSUME NEW s \in Slot, NEW r \in Request,
              l2.chosen[s] = r, ~IsChosen(l, s)
       PROVE  /\ <<s, r>> \in WithinCap(l, pairs)
              /\ Majority(l.accepted[s][r] \cup {id})
    <2>1. s \in D
        <3>1. l1.chosen[s] = None /\ l2.chosen[s] # None
            BY <1>10, <1>4, <1>0 DEF IsChosen
        <3>2. s \notin D => l2.chosen[s] = l1.chosen[s]
            BY <1>8
        <3> HIDE DEF D, l1, l2
        <3> QED
            BY <3>1, <3>2
    <2>2. <<s, r>> \in won
        <3> HIDE DEF D, new, won, l2
        <3> QED
            BY <2>1, <1>10, <1>6, <1>8
    <2>3. /\ <<s, r>> \in open
          /\ Majority(added[s][r])
        <3> HIDE DEF open, added
        <3> QED
            BY <2>2
    <2>4. added[s][r] = l.accepted[s][r] \cup {id}
        <3> HIDE DEF open
        <3> QED
            BY <2>3
    <2> HIDE DEF added
    <2> QED
        BY <2>3, <2>4
<1>11. ASSUME NEW s \in Slot, NEW r \in Request
       PROVE  \/ l2.accepted[s][r] \subseteq l.accepted[s][r]
              \/ /\ l2.accepted[s][r] \subseteq l.accepted[s][r] \cup {id}
                 /\ <<s, r>> \in WithinCap(l, pairs)
    <2>1. l2.accepted[s][r] \subseteq added[s][r]
        <3> HIDE DEF added, l2, l1
        <3> QED
            BY <1>4, <1>8
    <2>2. CASE <<s, r>> \in open
        <3>1. added[s][r] = l.accepted[s][r] \cup {id}
            <4> HIDE DEF open
            <4> QED
                BY <2>2
        <3> HIDE DEF added, l2
        <3> QED
            BY <2>1, <2>2, <3>1
    <2>3. CASE <<s, r>> \notin open
        <3>1. added[s][r] = l.accepted[s][r]
            <4> HIDE DEF open
            <4> QED
                BY <2>3
        <3> HIDE DEF added, l2
        <3> QED
            BY <2>1, <3>1
    <2> QED
        BY <2>2, <2>3
<1>12. AppliedToGap(l) => AppliedToGap(l2)
    <2> HIDE DEF l1, l2
    <2> QED
        BY <1>4, <1>8 DEF AppliedToGap, IsChosen
<1>13. l2.start = l.start /\ l2.firstUnapplied >= l.firstUnapplied
    <2> HIDE DEF l1, l2
    <2> QED
        BY <1>4, <1>8
<1>14. l2 \in Log
    BY <1>8
<1> HIDE DEF open, added, won, D, new, l1
<1> QED
    BY <1>14, <1>9, <1>10, <1>11, <1>12, <1>13
(* How one step may change a log: what is chosen stays chosen, nothing is  *)
(* unapplied, and the applied slots go on reaching to the first gap.       *)
Grows(l, l2) ==
    /\ l2 \in Log
    /\ \A s \in Slot : IsChosen(l, s) => l2.chosen[s] = l.chosen[s]
    /\ l2.firstUnapplied >= l.firstUnapplied
    /\ l.start <= l.firstUnapplied => l2.start <= l2.firstUnapplied
    /\ AppliedToGap(l) => AppliedToGap(l2)

(* The discard at the end of a step changes start only, and never past the *)
(* first unapplied slot.                                                   *)
LEMMA DiscardFacts ==
    ASSUME NEW id, NEW known, NEW l \in Log, NEW l1 \in Log,
           l1.start = l.start,
           l1.firstUnapplied >= l.firstUnapplied,
           \A s \in Slot : IsChosen(l, s) => l1.chosen[s] = l.chosen[s],
           AppliedToGap(l) => AppliedToGap(l1),
           NEW new \in NewStarts(id, l, l1, known)
    PROVE  LET l2 == [l1 EXCEPT !.start = new]
           IN  /\ Grows(l, l2)
               /\ l2.chosen = l1.chosen
               /\ l2.accepted = l1.accepted
               /\ l2.firstUnapplied = l1.firstUnapplied
               /\ l2.start = new
<1> DEFINE l2 == [l1 EXCEPT !.start = new]
<1>0. LastSlot \in Nat
    BY LogAssumption
<1>1. /\ l.start \in 0 .. LastSlot + 1
      /\ l.firstUnapplied \in 0 .. LastSlot + 1
      /\ l1.start \in 0 .. LastSlot + 1
      /\ l1.firstUnapplied \in 0 .. LastSlot + 1
    BY DEF Log
<1>2. new = l.start \/ new \in l1.start .. l1.firstUnapplied
    BY DEF NewStarts
<1>3. new \in 0 .. LastSlot + 1
    BY <1>0, <1>1, <1>2
<1>4. /\ l2 \in Log
      /\ l2.chosen = l1.chosen
      /\ l2.accepted = l1.accepted
      /\ l2.firstUnapplied = l1.firstUnapplied
      /\ l2.start = new
    BY <1>3 DEF Log
<1>5. l.start <= l.firstUnapplied => l2.start <= l2.firstUnapplied
    BY <1>0, <1>1, <1>2, <1>4
<1>6. AppliedToGap(l1) => AppliedToGap(l2)
    BY <1>4 DEF AppliedToGap, IsChosen
<1>7. Grows(l, l2)
    <2> HIDE DEF l2
    <2> QED
        BY <1>4, <1>5, <1>6 DEF Grows
<1> QED
    BY <1>4, <1>7

-----------------------------------------------------------------------------
(* The timeouts of node n are canceled only for what is chosen.            *)
CanceledForChosen(n, timeouts) ==
    \A s \in Slot : \/ proposalTimeouts'[n][s] = timeouts[s]
                    \/ log'[n].chosen[s] = timeouts[s]

(* What recording acceptances does to node n, in any handler.              *)
LEMMA StoreFacts ==
    ASSUME TypeOK, NEW n \in CoreNodes, NEW log2 \in Log,
           NEW timeouts \in [Slot -> Request \cup {None}],
           log2.start = log[n].start,
           log2.firstUnapplied >= log[n].firstUnapplied,
           \A s \in Slot : IsChosen(log[n], s)
                           => log2.chosen[s] = log[n].chosen[s],
           AppliedToGap(log[n]) => AppliedToGap(log2),
           Store(n, log2, timeouts)
    PROVE  /\ log' \in [CoreNodes -> Log]
           /\ proposalTimeouts' \in [CoreNodes -> [Slot -> Request \cup {None}]]
           /\ \A k \in CoreNodes \ {n} :
                 log'[k] = log[k] /\ proposalTimeouts'[k] = proposalTimeouts[k]
           /\ Grows(log[n], log'[n])
           /\ log'[n].chosen = log2.chosen
           /\ log'[n].accepted = log2.accepted
           /\ \/ log'[n].start = log[n].start
              \/ Majority({n} \cup {m \in CoreNodes \ {n} :
                             nodeFirstUnapplied[n][m] >= log'[n].start})
           /\ CanceledForChosen(n, timeouts)
<1>1. PICK new \in NewStarts(n, log[n], log2, nodeFirstUnapplied[n]) :
          log' = [log EXCEPT ![n] = [log2 EXCEPT !.start = new]]
    BY DEF Store
<1>2. /\ log \in [CoreNodes -> Log]
      /\ nodeFirstUnapplied \in [CoreNodes -> [CoreNodes -> Nat]]
      /\ proposalTimeouts \in [CoreNodes -> [Slot -> Request \cup {None}]]
    BY DEF TypeOK
<1>3. log'[n] = [log2 EXCEPT !.start = new]
    BY <1>1, <1>2
<1>4. /\ Grows(log[n], log'[n])
      /\ log'[n].chosen = log2.chosen
      /\ log'[n].accepted = log2.accepted
      /\ log'[n].start = new
    <2>1. log[n] \in Log
        BY <1>2
    <2> DEFINE l == log[n]
               l2 == [log2 EXCEPT !.start = new]
    <2>2. /\ l \in Log
          /\ log2.start = l.start
          /\ log2.firstUnapplied >= l.firstUnapplied
          /\ \A s \in Slot : IsChosen(l, s) => log2.chosen[s] = l.chosen[s]
          /\ AppliedToGap(l) => AppliedToGap(log2)
          /\ new \in NewStarts(n, l, log2, nodeFirstUnapplied[n])
        BY <2>1
    <2>3. /\ Grows(l, l2)
          /\ l2.chosen = log2.chosen
          /\ l2.accepted = log2.accepted
          /\ l2.start = new
        <3> HIDE DEF l
        <3> QED
            BY <2>2, DiscardFacts
    <2> QED
        BY <1>3, <2>3
<1>5. log' \in [CoreNodes -> Log]
    <2>1. log'[n] \in Log
        BY <1>4 DEF Grows
    <2> QED
        BY <1>1, <1>2, <1>3, <2>1
<1>6. \/ new = log[n].start
      \/ Majority({n} \cup {m \in CoreNodes \ {n} :
                     nodeFirstUnapplied[n][m] >= new})
    <2> SUFFICES ASSUME new # log[n].start
                 PROVE  Majority({n} \cup {m \in CoreNodes \ {n} :
                                    nodeFirstUnapplied[n][m] >= new})
        OBVIOUS
    <2>1. /\ log2.start \in 0 .. LastSlot + 1
          /\ log2.firstUnapplied \in 0 .. LastSlot + 1
          /\ LastSlot \in Nat
        BY LogAssumption DEF Log
    <2>2. /\ new \in log2.start .. log2.firstUnapplied
          /\ \A s \in log2.start .. new - 1 :
                Majority({n} \cup {m \in CoreNodes \ {n} :
                            nodeFirstUnapplied[n][m] > s})
        BY DEF NewStarts
    <2>3. new - 1 \in log2.start .. new - 1
        BY <2>1, <2>2
    <2>4. {m \in CoreNodes \ {n} : nodeFirstUnapplied[n][m] > new - 1}
          = {m \in CoreNodes \ {n} : nodeFirstUnapplied[n][m] >= new}
        BY <1>2, <2>1, <2>2
    <2> QED
        BY <2>2, <2>3, <2>4
<1>7. /\ proposalTimeouts' \in [CoreNodes -> [Slot -> Request \cup {None}]]
      /\ \A k \in CoreNodes \ {n} : proposalTimeouts'[k] = proposalTimeouts[k]
      /\ \A s \in Slot : \/ proposalTimeouts'[n][s] = timeouts[s]
                         \/ log2.chosen[s] = timeouts[s]
    BY <1>2 DEF Store
<1>8. \A k \in CoreNodes \ {n} : log'[k] = log[k]
    BY <1>1, <1>2
<1> QED
    BY <1>4, <1>5, <1>6, <1>7, <1>8 DEF CanceledForChosen

(* What counting the acceptances by id of some pairs does to node n.       *)
LEMMA AcceptanceFacts ==
    ASSUME TypeOK, NEW n \in CoreNodes, NEW id \in CoreNodes,
           NEW pairs \in SUBSET (Slot \X Request),
           NEW timeouts \in [Slot -> Request \cup {None}],
           Store(n, addAccepted(log[n], id, pairs), timeouts)
    PROVE  /\ log' \in [CoreNodes -> Log]
           /\ proposalTimeouts' \in [CoreNodes -> [Slot -> Request \cup {None}]]
           /\ \A k \in CoreNodes \ {n} :
                 log'[k] = log[k] /\ proposalTimeouts'[k] = proposalTimeouts[k]
           /\ Grows(log[n], log'[n])
           /\ \/ log'[n].start = log[n].start
              \/ Majority({n} \cup {m \in CoreNodes \ {n} :
                             nodeFirstUnapplied[n][m] >= log'[n].start})
           /\ CanceledForChosen(n, timeouts)
           /\ \A s \in Slot, r \in Request :
                 log'[n].chosen[s] = r /\ ~IsChosen(log[n], s)
                 => /\ <<s, r>> \in WithinCap(log[n], pairs)
                    /\ Majority(log[n].accepted[s][r] \cup {id})
           /\ \A s \in Slot, r \in Request :
                 \/ log'[n].accepted[s][r] \subseteq log[n].accepted[s][r]
                 \/ /\ log'[n].accepted[s][r]
                          \subseteq log[n].accepted[s][r] \cup {id}
                    /\ <<s, r>> \in WithinCap(log[n], pairs)
<1> DEFINE log2 == addAccepted(log[n], id, pairs)
<1>1. log[n] \in Log
    BY DEF TypeOK
<1>2. /\ log2 \in Log
      /\ log2.start = log[n].start
      /\ log2.firstUnapplied >= log[n].firstUnapplied
      /\ \A s \in Slot : IsChosen(log[n], s)
                         => log2.chosen[s] = log[n].chosen[s]
      /\ \A s \in Slot, r \in Request :
            log2.chosen[s] = r /\ ~IsChosen(log[n], s)
            => /\ <<s, r>> \in WithinCap(log[n], pairs)
               /\ Majority(log[n].accepted[s][r] \cup {id})
      /\ \A s \in Slot, r \in Request :
            \/ log2.accepted[s][r] \subseteq log[n].accepted[s][r]
            \/ /\ log2.accepted[s][r] \subseteq log[n].accepted[s][r] \cup {id}
               /\ <<s, r>> \in WithinCap(log[n], pairs)
      /\ AppliedToGap(log[n]) => AppliedToGap(log2)
    BY <1>1, addAcceptedFacts
<1> HIDE DEF log2
<1>3. Store(n, log2, timeouts)
    BY DEF log2
<1>4. /\ log' \in [CoreNodes -> Log]
      /\ proposalTimeouts' \in [CoreNodes -> [Slot -> Request \cup {None}]]
      /\ \A k \in CoreNodes \ {n} :
            log'[k] = log[k] /\ proposalTimeouts'[k] = proposalTimeouts[k]
      /\ Grows(log[n], log'[n])
      /\ log'[n].chosen = log2.chosen
      /\ log'[n].accepted = log2.accepted
      /\ \/ log'[n].start = log[n].start
         \/ Majority({n} \cup {m \in CoreNodes \ {n} :
                        nodeFirstUnapplied[n][m] >= log'[n].start})
      /\ CanceledForChosen(n, timeouts)
    BY <1>2, <1>3, StoreFacts
<1> QED
    BY <1>2, <1>4
-----------------------------------------------------------------------------
(* The effect of a step on the logs and on who is known to have accepted   *)
(* what: an instruction becomes chosen at a node because a majority sent   *)
(* acceptances, or because another node has it chosen.                     *)
LogStep ==
    /\ log' \in [CoreNodes -> Log]
    /\ votes \subseteq votes'
    /\ \A n \in CoreNodes : Grows(log[n], log'[n])
    /\ \A n \in CoreNodes :
          \/ log'[n].start = log[n].start
          \/ Majority({n} \cup {m \in CoreNodes \ {n} :
                         nodeFirstUnapplied[n][m] >= log'[n].start})
    /\ \A n \in CoreNodes, s \in Slot, r \in Request :
          log'[n].accepted[s][r]
          \subseteq log[n].accepted[s][r] \cup AcceptedBy(s, r)'
    /\ \A n \in CoreNodes, s \in Slot, r \in Request :
          log'[n].chosen[s] = r /\ ~IsChosen(log[n], s)
          => \/ \E S : /\ Majority(S)
                       /\ S \subseteq log[n].accepted[s][r]
                                     \cup AcceptedBy(s, r)'
             \/ \E m \in CoreNodes : IsChosen(log[m], s) /\ log[m].chosen[s] = r

(* A log that does not change.                                             *)
LEMMA GrowsReflexive ==
    ASSUME NEW l \in Log
    PROVE  Grows(l, l)
<1>1. l.firstUnapplied \in Nat
    BY DEF Log
<1> QED
    BY <1>1 DEF Grows

LEMMA NoLogStep ==
    ASSUME TypeOK, log' = log, votes \subseteq votes'
    PROVE  LogStep
<1>1. log \in [CoreNodes -> Log]
    BY DEF TypeOK
<1>2. \A n \in CoreNodes : Grows(log[n], log[n])
    BY <1>1, GrowsReflexive
<1> QED
    BY <1>1, <1>2, LogAssumption DEF LogStep, IsChosen

(* When one node id accepts pairs at node n and its acceptances have been  *)
(* sent, the step is a LogStep.                                            *)
LEMMA AcceptanceIsLogStep ==
    ASSUME TypeOK, NEW n \in CoreNodes, NEW id \in CoreNodes,
           NEW pairs \in SUBSET (Slot \X Request),
           NEW timeouts \in [Slot -> Request \cup {None}],
           Store(n, addAccepted(log[n], id, pairs), timeouts),
           votes \subseteq votes',
           \A s \in Slot, r \in Request :
              <<s, r>> \in WithinCap(log[n], pairs) => id \in AcceptedBy(s, r)'
    PROVE  /\ LogStep
           /\ proposalTimeouts' \in [CoreNodes -> [Slot -> Request \cup {None}]]
           /\ \A k \in CoreNodes \ {n} :
                 log'[k] = log[k] /\ proposalTimeouts'[k] = proposalTimeouts[k]
           /\ CanceledForChosen(n, timeouts)
<1>1. /\ log \in [CoreNodes -> Log]
      /\ \A k \in CoreNodes : Grows(log[k], log[k])
    BY GrowsReflexive DEF TypeOK
<1>2. /\ log' \in [CoreNodes -> Log]
      /\ \A k \in CoreNodes \ {n} : log'[k] = log[k]
      /\ Grows(log[n], log'[n])
      /\ \/ log'[n].start = log[n].start
         \/ Majority({n} \cup {m \in CoreNodes \ {n} :
                        nodeFirstUnapplied[n][m] >= log'[n].start})
      /\ \A s \in Slot, r \in Request :
            log'[n].chosen[s] = r /\ ~IsChosen(log[n], s)
            => /\ <<s, r>> \in WithinCap(log[n], pairs)
               /\ Majority(log[n].accepted[s][r] \cup {id})
      /\ \A s \in Slot, r \in Request :
            \/ log'[n].accepted[s][r] \subseteq log[n].accepted[s][r]
            \/ /\ log'[n].accepted[s][r] \subseteq log[n].accepted[s][r] \cup {id}
               /\ <<s, r>> \in WithinCap(log[n], pairs)
    BY AcceptanceFacts
<1>7. /\ proposalTimeouts' \in [CoreNodes -> [Slot -> Request \cup {None}]]
      /\ \A k \in CoreNodes \ {n} : proposalTimeouts'[k] = proposalTimeouts[k]
      /\ CanceledForChosen(n, timeouts)
    <2>1. proposalTimeouts' \in [CoreNodes -> [Slot -> Request \cup {None}]]
        BY AcceptanceFacts
    <2>2. \A k \in CoreNodes \ {n} : proposalTimeouts'[k] = proposalTimeouts[k]
        BY AcceptanceFacts
    <2>3. CanceledForChosen(n, timeouts)
        BY AcceptanceFacts
    <2> QED
        BY <2>1, <2>2, <2>3
<1>3. \A k \in CoreNodes : Grows(log[k], log'[k])
    BY <1>1, <1>2
<1>4. ASSUME NEW k \in CoreNodes
      PROVE  \/ log'[k].start = log[k].start
             \/ Majority({k} \cup {m \in CoreNodes \ {k} :
                            nodeFirstUnapplied[k][m] >= log'[k].start})
    <2>1. CASE k = n
        BY <1>2, <2>1
    <2>2. CASE k # n
        BY <1>2, <2>2
    <2> QED
        BY <2>1, <2>2
<1>5. ASSUME NEW k \in CoreNodes, NEW s \in Slot, NEW r \in Request
      PROVE  log'[k].accepted[s][r]
             \subseteq log[k].accepted[s][r] \cup AcceptedBy(s, r)'
    BY <1>2
<1>6. ASSUME NEW k \in CoreNodes, NEW s \in Slot, NEW r \in Request,
             log'[k].chosen[s] = r, ~IsChosen(log[k], s)
      PROVE  \E S : /\ Majority(S)
                    /\ S \subseteq log[k].accepted[s][r] \cup AcceptedBy(s, r)'
    <2>1. CASE k = n
        <3>1. /\ id \in AcceptedBy(s, r)'
              /\ Majority(log[n].accepted[s][r] \cup {id})
            BY <1>2, <1>6, <2>1
        <3> WITNESS log[n].accepted[s][r] \cup {id}
        <3> QED
            BY <2>1, <3>1
    <2>2. CASE k # n
        <3>1. log[k].chosen[s] = r /\ None \notin Request
            BY <1>2, <1>6, <2>2, LogAssumption
        <3> QED
            BY <1>6, <3>1 DEF IsChosen
    <2> QED
        BY <2>1, <2>2
<1> QED
    BY <1>2, <1>3, <1>4, <1>5, <1>6, <1>7 DEF LogStep
-----------------------------------------------------------------------------
(* Messages built by the handlers are messages.                            *)
LEMMA PrepareMsgsFacts ==
    ASSUME NEW n \in CoreNodes, NEW p \in Proposal
    PROVE  \A m \in PrepareMsgs(n, p) :
              /\ m \in Message
              /\ m.type = "Prepare" /\ m.from = n /\ m.proposal = p
<1>1. Others(n) \subseteq CoreNodes
    BY DEF Others
<1> QED
    BY <1>1 DEF PrepareMsgs, Message

LEMMA InstructionMsgsFacts ==
    ASSUME NEW n \in CoreNodes, NEW type \in {"Accept", "Accepted"},
           NEW p \in Proposal, NEW pairs \in SUBSET (Slot \X Request)
    PROVE  \A m \in InstructionMsgs(n, type, p, pairs) :
              /\ m \in Message
              /\ m.type = type /\ m.from = n /\ m.proposal = p
              /\ <<m.slot, m.request>> \in pairs
<1> SUFFICES ASSUME NEW m \in InstructionMsgs(n, type, p, pairs)
             PROVE  /\ m \in Message
                    /\ m.type = type /\ m.from = n /\ m.proposal = p
                    /\ <<m.slot, m.request>> \in pairs
    OBVIOUS
<1>1. PICK k \in Others(n), sr \in pairs :
          m = [type |-> type, from |-> n, to |-> k, proposal |-> p,
               slot |-> sr[1], request |-> sr[2]]
    BY DEF InstructionMsgs
<1>2. /\ sr[1] \in Slot
      /\ sr[2] \in Request
      /\ sr = <<sr[1], sr[2]>>
      /\ k \in CoreNodes
    BY DEF Others
<1> QED
    BY <1>1, <1>2 DEF Message

(* What a handler of node n does when it proposes or accepts under p, the  *)
(* messages in inFlight staying in flight.                                 *)
AcceptStep(n, p, inFlight) ==
    /\ LogStep
    /\ proposalTimeouts' \in [CoreNodes -> [Slot -> Request \cup {None}]]
    /\ crashed' \subseteq CoreNodes
    /\ votes' \subseteq [node : CoreNodes, proposal : Proposal,
                         slot : Slot, request : Request]
    /\ \A v \in votes' \ votes : v.node = n /\ v.proposal = p
    /\ msgs' \subseteq Message
    /\ \A m \in msgs' \ inFlight :
          /\ m.type \in {"Accept", "Accepted"}
          /\ m.from = n /\ m.proposal = p
          /\ m.type = "Accepted" => m.from \in AcceptedBy(m.slot, m.request)'

LEMMA addAcceptFacts ==
    ASSUME TypeOK, NEW n \in CoreNodes, NEW p \in Proposal,
           NEW pairs \in SUBSET (Slot \X Request),
           NEW timeouts \in [Slot -> Request \cup {None}],
           NEW inFlight \in SUBSET Message, NEW out \in SUBSET Message,
           \A m \in out : m.type = "Accept" /\ m.from = n /\ m.proposal = p,
           addAccept(n, p, pairs, timeouts, inFlight, out)
    PROVE  /\ AcceptStep(n, p, inFlight)
           /\ \A k \in CoreNodes \ {n} :
                 log'[k] = log[k] /\ proposalTimeouts'[k] = proposalTimeouts[k]
           /\ CanceledForChosen(n, timeouts)
<1> DEFINE told == WithinCap(log[n], pairs)
<1>0. /\ told \in SUBSET (Slot \X Request)
      /\ votes \subseteq [node : CoreNodes, proposal : Proposal,
                         slot : Slot, request : Request]
      /\ proposalTimeouts \in [CoreNodes -> [Slot -> Request \cup {None}]]
      /\ crashed \subseteq CoreNodes
    BY DEF WithinCap, TypeOK
<1>1. CASE Discarded(log[n], pairs) = {}
    <2>1. /\ Store(n, addAccepted(log[n], n, pairs), timeouts)
          /\ msgs' = inFlight \cup out
                       \cup InstructionMsgs(n, "Accepted", p, told)
          /\ votes' = votes \cup Vote(n, p, told)
          /\ crashed' = crashed
        BY <1>1 DEF addAccept
    <2>2. \A s, r : <<s, r>> \in told => n \in AcceptedBy(s, r)'
        <3> SUFFICES ASSUME NEW s, NEW r, <<s, r>> \in told
                     PROVE  n \in AcceptedBy(s, r)'
            OBVIOUS
        <3>1. [node |-> n, proposal |-> p, slot |-> s, request |-> r] \in votes'
            BY <2>1 DEF Vote
        <3> QED
            BY <3>1 DEF AcceptedBy
    <2>3. /\ LogStep
          /\ proposalTimeouts' \in [CoreNodes -> [Slot -> Request \cup {None}]]
          /\ \A k \in CoreNodes \ {n} :
                log'[k] = log[k] /\ proposalTimeouts'[k] = proposalTimeouts[k]
          /\ CanceledForChosen(n, timeouts)
        BY <2>1, <2>2, AcceptanceIsLogStep
    <2>5. \A m \in InstructionMsgs(n, "Accepted", p, told) :
              /\ m \in Message
              /\ m.type = "Accepted" /\ m.from = n /\ m.proposal = p
              /\ <<m.slot, m.request>> \in told
        <3> HIDE DEF told
        <3> QED
            BY <1>0, InstructionMsgsFacts
    <2>6. \A v \in Vote(n, p, told) :
              /\ v \in [node : CoreNodes, proposal : Proposal,
                        slot : Slot, request : Request]
              /\ v.node = n /\ v.proposal = p
        <3> HIDE DEF told
        <3> QED
            BY <1>0 DEF Vote
    <2>7. \A m \in msgs' \ inFlight :
              /\ m.type \in {"Accept", "Accepted"}
              /\ m.from = n /\ m.proposal = p
              /\ m.type = "Accepted"
                 => m.from \in AcceptedBy(m.slot, m.request)'
        <3> HIDE DEF told
        <3> TAKE m \in msgs' \ inFlight
        <3>1. CASE m \in out
            BY <3>1
        <3>2. CASE m \in InstructionMsgs(n, "Accepted", p, told)
            <4>1. n \in AcceptedBy(m.slot, m.request)'
                BY <2>2, <2>5, <3>2
            <4> QED
                BY <2>5, <3>2, <4>1
        <3> QED
            BY <2>1, <3>1, <3>2
    <2> HIDE DEF told
    <2> QED
        BY <1>0, <2>1, <2>3, <2>5, <2>6, <2>7 DEF AcceptStep
<1>2. CASE Discarded(log[n], pairs) # {}
    <2>1. /\ crashed' = crashed \cup {n}
          /\ msgs' = inFlight \cup out
          /\ proposalTimeouts' = [proposalTimeouts EXCEPT ![n] = timeouts]
          /\ log' = log
          /\ votes' = votes
        BY <1>2 DEF addAccept
    <2>2. LogStep
        BY <2>1, NoLogStep
    <2>3. CanceledForChosen(n, timeouts)
        BY <1>0, <2>1 DEF CanceledForChosen
    <2> QED
        BY <1>0, <2>1, <2>2, <2>3 DEF AcceptStep
<1> QED
    BY <1>1, <1>2

(* Proposing: Accept messages and history records on top of that.          *)
LEMMA sendProposalsFacts ==
    ASSUME TypeOK, NEW n \in CoreNodes, NEW p \in Proposal,
           NEW pairs \in SUBSET (Slot \X Request),
           NEW inFlight \in SUBSET Message,
           sendProposals(n, p, pairs, inFlight)
    PROVE  /\ AcceptStep(n, p, inFlight)
           /\ proposals' \subseteq Proposal \X Slot \X Request
           /\ proposals' = proposals \cup {<<p, sr[1], sr[2]>> : sr \in pairs}
<1> DEFINE timeouts ==
             [s \in Slot |-> IF \E sr \in pairs : sr[1] = s
                             THEN (CHOOSE sr \in pairs : sr[1] = s)[2]
                             ELSE proposalTimeouts[n][s]]
           out == InstructionMsgs(n, "Accept", p, pairs)
<1>1. timeouts \in [Slot -> Request \cup {None}]
    BY DEF TypeOK
<1>2. /\ out \in SUBSET Message
      /\ \A m \in out : m.type = "Accept" /\ m.from = n /\ m.proposal = p
    <2>1. \A m \in InstructionMsgs(n, "Accept", p, pairs) :
              /\ m \in Message
              /\ m.type = "Accept" /\ m.from = n /\ m.proposal = p
              /\ <<m.slot, m.request>> \in pairs
        BY InstructionMsgsFacts
    <2> QED
        BY <2>1
<1>3. /\ addAccept(n, p, pairs, timeouts, inFlight, out)
      /\ proposals' = proposals \cup {<<p, sr[1], sr[2]>> : sr \in pairs}
    BY DEF sendProposals
<1>4. AcceptStep(n, p, inFlight)
    <2> HIDE DEF timeouts, out
    <2> QED
        BY <1>1, <1>2, <1>3, addAcceptFacts
<1> QED
    BY <1>3, <1>4 DEF TypeOK

(* The slots and requests a new leader proposes.                           *)
LEMMA WaitingProposalsFacts ==
    ASSUME TypeOK, NEW n \in CoreNodes, NEW requests \in Seq(Request),
           log[n].firstUnapplied + Len(requests) <= LastSlot + 1
    PROVE  /\ WaitingProposals(n, requests) \in SUBSET (Slot \X Request)
           /\ \A x, y \in WaitingProposals(n, requests) :
                 x[1] = y[1] => x[2] = y[2]
           /\ \A x \in WaitingProposals(n, requests) :
                 x[1] < log[n].firstUnapplied + Len(requests)
<1>1. /\ log[n].firstUnapplied \in Nat
      /\ LastSlot \in Nat
      /\ Len(requests) \in Nat
      /\ DOMAIN requests = 1 .. Len(requests)
      /\ \A i \in DOMAIN requests : requests[i] \in Request
    BY LogAssumption DEF TypeOK, Log
<1> QED
    BY <1>1 DEF WaitingProposals, Slot

(* Becoming leader, or recording one more promise: the proposals made are  *)
(* for distinct slots below the leader's next one.                         *)
LEMMA addPromiseFacts ==
    ASSUME TypeOK, NEW n \in CoreNodes, NEW m \in CoreNodes,
           NEW p \in Proposal, NEW requests \in Seq(Request),
           NEW inFlight \in SUBSET Message,
           addPromise(n, m, p, requests, inFlight)
    PROVE  /\ AcceptStep(n, p, inFlight)
           /\ amLeader' \in [CoreNodes -> BOOLEAN]
           /\ receivedPromises' \in [CoreNodes -> SUBSET CoreNodes]
           /\ waitingRequests' \in [CoreNodes -> Seq(Request)]
           /\ nextProposalSlot' \in [CoreNodes -> Nat]
           /\ proposals' \subseteq Proposal \X Slot \X Request
           /\ \A k \in CoreNodes \ {n} :
                 /\ amLeader'[k] = amLeader[k]
                 /\ receivedPromises'[k] = receivedPromises[k]
                 /\ nextProposalSlot'[k] = nextProposalSlot[k]
           /\ \/ /\ amLeader'[n]
                 /\ receivedPromises'[n] = {}
                 /\ proposals \subseteq proposals'
                 /\ \A x \in proposals' \ proposals :
                       x[1] = p /\ x[2] < nextProposalSlot'[n]
                 /\ \A x, y \in proposals' \ proposals :
                       x[2] = y[2] => x[3] = y[3]
              \/ /\ UNCHANGED <<amLeader, proposals>>
                 /\ receivedPromises'[n] = receivedPromises[n] \cup {m}
<1>0. /\ amLeader \in [CoreNodes -> BOOLEAN]
      /\ receivedPromises \in [CoreNodes -> SUBSET CoreNodes]
      /\ waitingRequests \in [CoreNodes -> Seq(Request)]
      /\ nextProposalSlot \in [CoreNodes -> Nat]
      /\ proposalTimeouts \in [CoreNodes -> [Slot -> Request \cup {None}]]
      /\ proposals \subseteq Proposal \X Slot \X Request
      /\ votes \subseteq [node : CoreNodes, proposal : Proposal,
                         slot : Slot, request : Request]
      /\ crashed \subseteq CoreNodes
    BY DEF TypeOK
<1>1. CASE BecomeLeader(n, p, requests, inFlight)
    <2> DEFINE pairs == WaitingProposals(n, requests)
               next == log[n].firstUnapplied + Len(requests)
    <2>1. /\ next <= LastSlot + 1
          /\ amLeader' = [amLeader EXCEPT ![n] = TRUE]
          /\ receivedPromises' = [receivedPromises EXCEPT ![n] = {}]
          /\ waitingRequests' = [waitingRequests EXCEPT ![n] = <<>>]
          /\ nextProposalSlot' = [nextProposalSlot EXCEPT ![n] = next]
          /\ sendProposals(n, p, pairs, inFlight)
        BY <1>1 DEF BecomeLeader
    <2>2. /\ pairs \in SUBSET (Slot \X Request)
          /\ \A x, y \in pairs : x[1] = y[1] => x[2] = y[2]
          /\ \A x \in pairs : x[1] < next
        BY <2>1, WaitingProposalsFacts
    <2>3. next \in Nat
        BY DEF TypeOK, Log
    <2> HIDE DEF pairs, next
    <2>4. /\ AcceptStep(n, p, inFlight)
          /\ proposals' \subseteq Proposal \X Slot \X Request
          /\ proposals' = proposals \cup {<<p, sr[1], sr[2]>> : sr \in pairs}
        BY <2>1, <2>2, sendProposalsFacts
    <2>5. /\ \A x \in proposals' \ proposals : x[1] = p /\ x[2] < next
          /\ \A x, y \in proposals' \ proposals : x[2] = y[2] => x[3] = y[3]
        BY <2>2, <2>4
    <2>6. waitingRequests' \in [CoreNodes -> Seq(Request)]
        BY <1>0, <2>1
    <2> QED
        BY <1>0, <2>1, <2>3, <2>4, <2>5, <2>6
<1>2. CASE ~Majority(receivedPromises[n] \cup {m})
    <2>1. /\ receivedPromises' =
               [receivedPromises EXCEPT ![n] = receivedPromises[n] \cup {m}]
          /\ waitingRequests' = [waitingRequests EXCEPT ![n] = requests]
          /\ msgs' = inFlight
          /\ UNCHANGED <<amLeader, nextProposalSlot, proposalTimeouts,
                         log, crashed, proposals, votes>>
        BY <1>2 DEF addPromise, historyVars
    <2>2. AcceptStep(n, p, inFlight)
        BY <1>0, <2>1, NoLogStep DEF AcceptStep
    <2> QED
        BY <1>0, <2>1, <2>2
<1> QED
    BY <1>1, <1>2 DEF addPromise
-----------------------------------------------------------------------------
(* Types of the variables that say whether a node leads.                   *)
LeaderTypes ==
    /\ amLeader \in [CoreNodes -> BOOLEAN]
    /\ receivedPromises \in [CoreNodes -> SUBSET CoreNodes]
    /\ waitingRequests \in [CoreNodes -> Seq(Request)]
    /\ nextProposalSlot \in [CoreNodes -> Nat]
    /\ proposalTimeouts \in [CoreNodes -> [Slot -> Request \cup {None}]]

LEMMA ResignFacts ==
    ASSUME TypeOK, NEW n \in CoreNodes, NEW p \in Proposal,
           stopBeingLeader(n) \/ ResignIfDeposed(n, p)
    PROVE  LeaderTypes'
<1>1. LeaderTypes
    BY DEF TypeOK, LeaderTypes
<1>2. <<>> \in Seq(Request)
    OBVIOUS
<1>3. CASE stopBeingLeader(n)
    BY <1>1, <1>2, <1>3 DEF LeaderTypes, stopBeingLeader
<1>4. CASE UNCHANGED leaderVars
    BY <1>1, <1>4 DEF LeaderTypes, leaderVars
<1> QED
    BY <1>3, <1>4 DEF ResignIfDeposed

LEMMA SetProposalFacts ==
    ASSUME TypeOK, NEW n \in CoreNodes, NEW p \in Proposal, SetProposal(n, p)
    PROVE  /\ proposal' \in [CoreNodes -> Proposal]
           /\ announced' \in [CoreNodes -> SUBSET Proposal]
           /\ proposal'[n] = p
           /\ \A k \in CoreNodes \ {n} : proposal'[k] = proposal[k]
           /\ \A k \in CoreNodes : announced'[k] \subseteq announced[k] \cup {p}
BY DEF TypeOK, SetProposal

(* Facts about messages, told apart by their type.                         *)
LEMMA MessageFacts ==
    ASSUME NEW m \in Message
    PROVE  /\ m.from \in CoreNodes
           /\ m.to \in CoreNodes
           /\ m.proposal \in Proposal
           /\ m.type \in {"Accept", "Accepted"}
              => m.slot \in Slot /\ m.request \in Request
BY DEF Message

LEMMA ReplyFacts ==
    ASSUME NEW m \in Message, NEW t \in {"Promise", "Nack"},
           NEW p \in Proposal
    PROVE  /\ Reply(m, t, p) \in Message
           /\ Reply(m, t, p).type = t
           /\ Reply(m, t, p).from = m.to
           /\ Reply(m, t, p).to = m.from
           /\ Reply(m, t, p).proposal = p
BY DEF Message, Reply
-----------------------------------------------------------------------------
(* An Accepted message in flight is one that its sender did send.          *)
AcceptedSent ==
    \A m \in msgs :
        m.type = "Accepted" => m.from \in AcceptedBy(m.slot, m.request)

(* What every step does to types, logs, and what nodes know of others.     *)
KnownStep ==
    \A n, m \in CoreNodes :
        \/ nodeFirstUnapplied'[n][m] = nodeFirstUnapplied[n][m]
        \/ nodeFirstUnapplied'[n][m] = log[m].firstUnapplied

StepFacts == TypeOK' /\ AcceptedSent' /\ LogStep /\ KnownStep

(* A step that sends no acceptance and stores nothing.                     *)
LEMMA QuietStepFacts ==
    ASSUME TypeOK, AcceptedSent, UNCHANGED <<log, votes>>,
           \A m \in msgs' : m \in msgs \/ m.type # "Accepted"
    PROVE  AcceptedSent' /\ LogStep
<1>1. LogStep
    BY NoLogStep
<1> QED
    BY <1>1 DEF AcceptedSent, AcceptedBy

(* A step that proposes or accepts.                                        *)
LEMMA AcceptStepFacts ==
    ASSUME AcceptedSent, NEW n, NEW p, NEW inFlight,
           AcceptStep(n, p, inFlight),
           \A m \in inFlight : m \in msgs \/ m.type # "Accepted"
    PROVE  AcceptedSent' /\ LogStep
<1>1. \A s, r : AcceptedBy(s, r) \subseteq AcceptedBy(s, r)'
    BY DEF AcceptStep, LogStep, AcceptedBy
<1> QED
    BY <1>1 DEF AcceptStep, AcceptedSent
-----------------------------------------------------------------------------
(* One lemma per action.                                                   *)
LEMMA NewChangeFacts ==
    ASSUME TypeOK, NEW n \in CoreNodes, NEW r \in Request, NewChange(n, r)
    PROVE  deliveries' \in [Request -> Nat]
BY DEF TypeOK, NewChange

LEMMA QueueChangeStep ==
    ASSUME TypeOK, AcceptedSent, NEW n \in CoreNodes, NEW r \in Request,
           QueueChange(n, r)
    PROVE  StepFacts
<1>1. /\ waitingRequests' = [waitingRequests EXCEPT ![n] = Append(@, r)]
      /\ UNCHANGED <<proposal, amLeader, receivedPromises, nextProposalSlot,
                     proposalTimeouts, log, nodeFirstUnapplied, crashed, msgs,
                     announced, proposals, votes>>
      /\ deliveries' \in [Request -> Nat]
    BY NewChangeFacts DEF QueueChange, storeVars, historyVars
<1>2. AcceptedSent' /\ LogStep
    BY <1>1, QuietStepFacts
<1>3. Append(waitingRequests[n], r) \in Seq(Request)
    BY DEF TypeOK
<1>4. TypeOK'
    BY <1>1, <1>3 DEF TypeOK
<1> QED
    BY <1>1, <1>2, <1>4 DEF StepFacts, KnownStep

LEMMA StartAttemptStep ==
    ASSUME TypeOK, AcceptedSent, NEW n \in CoreNodes, NEW r \in Request,
           StartAttempt(n, r)
    PROVE  StepFacts
<1> DEFINE p == NextProposal(n)
           requests == Append(waitingRequests[n], r)
           inFlight == msgs \cup PrepareMsgs(n, p)
<1>1. /\ SetProposal(n, p)
      /\ addPromise(n, n, p, requests, inFlight)
      /\ UNCHANGED nodeFirstUnapplied
      /\ deliveries' \in [Request -> Nat]
    BY NewChangeFacts DEF StartAttempt
<1>2. /\ p \in Proposal
      /\ requests \in Seq(Request)
    BY CoreNodesAssumption DEF TypeOK, Proposal, NextProposal
<1>3. /\ PrepareMsgs(n, p) \in SUBSET Message
      /\ \A m \in PrepareMsgs(n, p) : m.type = "Prepare"
    <2> HIDE DEF p
    <2> QED
        BY <1>2, PrepareMsgsFacts
<1>4. /\ inFlight \in SUBSET Message
      /\ \A m \in inFlight : m \in msgs \/ m.type # "Accepted"
    BY <1>3 DEF TypeOK
<1> HIDE DEF p, requests, inFlight
<1>5. /\ AcceptStep(n, p, inFlight)
      /\ amLeader' \in [CoreNodes -> BOOLEAN]
      /\ receivedPromises' \in [CoreNodes -> SUBSET CoreNodes]
      /\ waitingRequests' \in [CoreNodes -> Seq(Request)]
      /\ nextProposalSlot' \in [CoreNodes -> Nat]
      /\ proposals' \subseteq Proposal \X Slot \X Request
    BY <1>1, <1>2, <1>4, addPromiseFacts
<1>6. /\ proposal' \in [CoreNodes -> Proposal]
      /\ announced' \in [CoreNodes -> SUBSET Proposal]
    BY <1>1, <1>2, SetProposalFacts
<1>7. AcceptedSent' /\ LogStep
    BY <1>4, <1>5, AcceptStepFacts
<1>8. TypeOK'
    BY <1>1, <1>5, <1>6, <1>7 DEF TypeOK, AcceptStep, LogStep
<1> QED
    BY <1>1, <1>7, <1>8 DEF StepFacts, KnownStep

LEMMA ProposeChangeStep ==
    ASSUME TypeOK, AcceptedSent, NEW n \in CoreNodes, NEW r \in Request,
           ProposeChange(n, r)
    PROVE  StepFacts
<1> DEFINE pairs == {<<nextProposalSlot[n], r>>}
<1>1. /\ nextProposalSlot[n] <= LastSlot
      /\ nextProposalSlot' = [nextProposalSlot EXCEPT ![n] = @ + 1]
      /\ sendProposals(n, proposal[n], pairs, msgs)
      /\ UNCHANGED <<proposal, amLeader, receivedPromises, waitingRequests,
                     nodeFirstUnapplied, announced>>
      /\ deliveries' \in [Request -> Nat]
    BY NewChangeFacts DEF ProposeChange
<1>2. /\ pairs \in SUBSET (Slot \X Request)
      /\ proposal[n] \in Proposal
      /\ msgs \in SUBSET Message
    BY <1>1, LogAssumption DEF TypeOK, Slot
<1> HIDE DEF pairs
<1>3. /\ AcceptStep(n, proposal[n], msgs)
      /\ proposals' \subseteq Proposal \X Slot \X Request
    BY <1>1, <1>2, sendProposalsFacts
<1>4. AcceptedSent' /\ LogStep
    BY <1>3, AcceptStepFacts
<1>5. TypeOK'
    <2>1. nextProposalSlot' \in [CoreNodes -> Nat]
        BY <1>1 DEF TypeOK
    <2>2. /\ proposal' = proposal /\ amLeader' = amLeader
          /\ receivedPromises' = receivedPromises
          /\ waitingRequests' = waitingRequests
          /\ nodeFirstUnapplied' = nodeFirstUnapplied
          /\ announced' = announced
        BY <1>1
    <2>3. /\ proposalTimeouts' \in [CoreNodes -> [Slot -> Request \cup {None}]]
          /\ log' \in [CoreNodes -> Log]
          /\ crashed' \subseteq CoreNodes
          /\ msgs' \subseteq Message
          /\ votes' \subseteq [node : CoreNodes, proposal : Proposal,
                               slot : Slot, request : Request]
        BY <1>3, <1>4 DEF AcceptStep, LogStep
    <2> QED
        BY <1>1, <1>3, <2>1, <2>2, <2>3 DEF TypeOK
<1> QED
    BY <1>1, <1>4, <1>5 DEF StepFacts, KnownStep

LEMMA ProposalTimeoutStep ==
    ASSUME TypeOK, AcceptedSent, NEW n \in CoreNodes, NEW s \in Slot,
           ProposalTimeout(n, s)
    PROVE  StepFacts
<1>1. /\ stopBeingLeader(n)
      /\ UNCHANGED <<proposal, log, nodeFirstUnapplied, crashed, msgs,
                     announced, deliveries, proposals, votes>>
    BY DEF ProposalTimeout, storeVars, historyVars
<1>2. LeaderTypes'
    BY <1>1, ResignFacts DEF TypeOK
<1>3. AcceptedSent' /\ LogStep
    BY <1>1, QuietStepFacts
<1>4. TypeOK'
    BY <1>1, <1>2 DEF TypeOK, LeaderTypes
<1> QED
    BY <1>1, <1>3, <1>4 DEF StepFacts, KnownStep

LEMMA processPrepareStep ==
    ASSUME TypeOK, AcceptedSent, NEW m \in msgs, processPrepare(m)
    PROVE  StepFacts
<1> DEFINE n == m.to
<1>1. m \in Message /\ n \in CoreNodes /\ m.proposal \in Proposal
    BY MessageFacts DEF TypeOK
<1>2. proposal[n] \in Proposal
    BY <1>1 DEF TypeOK
<1>3. /\ UNCHANGED <<log, nodeFirstUnapplied, crashed, deliveries, proposals,
                     votes>>
      /\ \/ /\ msgs' = (msgs \ {m}) \cup {Reply(m, "Promise", m.proposal)}
            /\ SetProposal(n, m.proposal)
            /\ ResignIfDeposed(n, m.proposal)
         \/ /\ msgs' = (msgs \ {m}) \cup {Reply(m, "Nack", proposal[n])}
            /\ UNCHANGED <<proposal, announced, leaderVars>>
    BY DEF processPrepare, storeVars, historyVars
<1> HIDE DEF n
<1>4. /\ msgs' \subseteq Message
      /\ \A k \in msgs' : k \in msgs \/ k.type # "Accepted"
    <2>1. ASSUME NEW t \in {"Promise", "Nack"}, NEW p \in Proposal,
                 msgs' = (msgs \ {m}) \cup {Reply(m, t, p)}
          PROVE  /\ msgs' \subseteq Message
                 /\ \A k \in msgs' : k \in msgs \/ k.type # "Accepted"
        <3>1. /\ Reply(m, t, p) \in Message
              /\ Reply(m, t, p).type = t
            BY <1>1, ReplyFacts
        <3>2. msgs \subseteq Message /\ t # "Accepted"
            BY DEF TypeOK
        <3> QED
            BY <2>1, <3>1, <3>2
    <2> QED
        BY <1>1, <1>2, <1>3, <2>1
<1>5. AcceptedSent' /\ LogStep
    BY <1>3, <1>4, QuietStepFacts
<1>6. /\ LeaderTypes'
      /\ proposal' \in [CoreNodes -> Proposal]
      /\ announced' \in [CoreNodes -> SUBSET Proposal]
    <2>1. CASE SetProposal(n, m.proposal) /\ ResignIfDeposed(n, m.proposal)
        BY <1>1, <2>1, SetProposalFacts, ResignFacts
    <2>2. CASE UNCHANGED <<proposal, announced, leaderVars>>
        BY <2>2 DEF TypeOK, LeaderTypes, leaderVars
    <2> QED
        BY <1>3, <2>1, <2>2
<1>7. TypeOK'
    BY <1>3, <1>4, <1>6 DEF TypeOK, LeaderTypes
<1> QED
    BY <1>3, <1>5, <1>7 DEF StepFacts, KnownStep

LEMMA processPromiseStep ==
    ASSUME TypeOK, AcceptedSent, NEW m \in msgs, processPromise(m)
    PROVE  StepFacts
<1> DEFINE n == m.to
           inFlight == msgs \ {m}
<1>1. /\ m.from \in CoreNodes
      /\ n \in CoreNodes
      /\ m.proposal \in Proposal
      /\ waitingRequests[n] \in Seq(Request)
      /\ inFlight \in SUBSET Message
      /\ \A k \in inFlight : k \in msgs \/ k.type # "Accepted"
    BY MessageFacts DEF TypeOK
<1>2. /\ addPromise(n, m.from, m.proposal, waitingRequests[n], inFlight)
      /\ UNCHANGED <<proposal, announced, nodeFirstUnapplied, deliveries>>
    BY DEF processPromise
<1> HIDE DEF n, inFlight
<1>3. /\ AcceptStep(n, m.proposal, inFlight)
      /\ amLeader' \in [CoreNodes -> BOOLEAN]
      /\ receivedPromises' \in [CoreNodes -> SUBSET CoreNodes]
      /\ waitingRequests' \in [CoreNodes -> Seq(Request)]
      /\ nextProposalSlot' \in [CoreNodes -> Nat]
      /\ proposals' \subseteq Proposal \X Slot \X Request
    BY <1>1, <1>2, addPromiseFacts
<1>4. AcceptedSent' /\ LogStep
    BY <1>1, <1>3, AcceptStepFacts
<1>5. TypeOK'
    BY <1>2, <1>3, <1>4 DEF TypeOK, AcceptStep, LogStep
<1> QED
    BY <1>2, <1>4, <1>5 DEF StepFacts, KnownStep

LEMMA processAcceptStep ==
    ASSUME TypeOK, AcceptedSent, NEW m \in msgs, processAccept(m)
    PROVE  StepFacts
<1> DEFINE n == m.to
           pairs == {<<m.slot, m.request>>}
           deposed == /\ m.proposal # proposal[n]
                      /\ amLeader[n] /\ m.proposal[2] # n
           timeouts == IF deposed THEN [s \in Slot |-> None]
                                  ELSE proposalTimeouts[n]
           inFlight == msgs \ {m}
<1>1. /\ m \in Message
      /\ n \in CoreNodes
      /\ m.proposal \in Proposal
      /\ m.type = "Accept"
      /\ pairs \in SUBSET (Slot \X Request)
      /\ timeouts \in [Slot -> Request \cup {None}]
      /\ inFlight \in SUBSET Message
      /\ \A k \in inFlight : k \in msgs \/ k.type # "Accepted"
    <2>1. m \in Message /\ m.type = "Accept"
        BY DEF TypeOK, processAccept, Receive
    <2>2. /\ n \in CoreNodes
          /\ m.proposal \in Proposal
          /\ m.slot \in Slot /\ m.request \in Request
        BY <2>1, MessageFacts
    <2> QED
        BY <2>1, <2>2 DEF TypeOK
<1>2. /\ nodeFirstUnapplied' = nodeFirstUnapplied
      /\ deliveries' = deliveries
      /\ proposals' = proposals
      /\ nextProposalSlot' = nextProposalSlot
      /\ \/ amLeader' = amLeader
         \/ amLeader' = [amLeader EXCEPT ![n] = FALSE]
      /\ \/ receivedPromises' = receivedPromises
         \/ receivedPromises' = [receivedPromises EXCEPT ![n] = {}]
      /\ \/ waitingRequests' = waitingRequests
         \/ waitingRequests' = [waitingRequests EXCEPT ![n] = <<>>]
    BY DEF processAccept
<1>3. \/ /\ msgs' = inFlight \cup {Reply(m, "Nack", proposal[n])}
         /\ UNCHANGED <<proposal, announced, proposalTimeouts, log, crashed,
                        votes>>
      \/ /\ SetProposal(n, m.proposal)
         /\ addAccept(n, m.proposal, pairs, timeouts, inFlight, {})
    BY DEF processAccept
<1> HIDE DEF n, pairs, deposed, timeouts, inFlight
<1>4. /\ amLeader' \in [CoreNodes -> BOOLEAN]
      /\ receivedPromises' \in [CoreNodes -> SUBSET CoreNodes]
      /\ waitingRequests' \in [CoreNodes -> Seq(Request)]
    <2>1. <<>> \in Seq(Request)
        OBVIOUS
    <2>2. /\ amLeader' \in [CoreNodes -> BOOLEAN]
          /\ receivedPromises' \in [CoreNodes -> SUBSET CoreNodes]
          /\ waitingRequests' \in [CoreNodes -> Seq(Request)]
        <3>1. amLeader' \in [CoreNodes -> BOOLEAN]
            BY <1>1, <1>2 DEF TypeOK
        <3>2. receivedPromises' \in [CoreNodes -> SUBSET CoreNodes]
            BY <1>1, <1>2 DEF TypeOK
        <3>3. waitingRequests' \in [CoreNodes -> Seq(Request)]
            BY <1>1, <1>2, <2>1 DEF TypeOK
        <3> QED
            BY <3>1, <3>2, <3>3
    <2> QED
        BY <2>2
<1>5. CASE /\ msgs' = inFlight \cup {Reply(m, "Nack", proposal[n])}
           /\ UNCHANGED <<proposal, announced, proposalTimeouts, log, crashed,
                          votes>>
    <2>1. proposal[n] \in Proposal
        BY <1>1 DEF TypeOK
    <2>2. /\ msgs' \subseteq Message
          /\ \A k \in msgs' : k \in msgs \/ k.type # "Accepted"
        <3>1. /\ Reply(m, "Nack", proposal[n]) \in Message
              /\ Reply(m, "Nack", proposal[n]).type = "Nack"
            BY <1>1, <2>1, ReplyFacts
        <3> QED
            BY <1>1, <1>5, <3>1
    <2>3. AcceptedSent' /\ LogStep
        BY <1>5, <2>2, QuietStepFacts
    <2>4. TypeOK'
        BY <1>2, <1>4, <1>5, <2>2 DEF TypeOK
    <2> QED
        BY <1>2, <2>3, <2>4 DEF StepFacts, KnownStep
<1>6. CASE /\ SetProposal(n, m.proposal)
           /\ addAccept(n, m.proposal, pairs, timeouts, inFlight, {})
    <2>1. AcceptStep(n, m.proposal, inFlight)
        BY <1>1, <1>6, addAcceptFacts
    <2>2. /\ proposal' \in [CoreNodes -> Proposal]
          /\ announced' \in [CoreNodes -> SUBSET Proposal]
        BY <1>1, <1>6, SetProposalFacts
    <2>3. AcceptedSent' /\ LogStep
        BY <1>1, <2>1, AcceptStepFacts
    <2>4. TypeOK'
        BY <1>2, <1>4, <2>1, <2>2, <2>3 DEF TypeOK, AcceptStep, LogStep
    <2> QED
        BY <1>2, <2>3, <2>4 DEF StepFacts, KnownStep
<1> QED
    BY <1>3, <1>5, <1>6

LEMMA processAcceptedStep ==
    ASSUME TypeOK, AcceptedSent, NEW m \in msgs, processAccepted(m)
    PROVE  StepFacts
<1> DEFINE n == m.to
           pairs == {<<m.slot, m.request>>}
<1>1. /\ n \in CoreNodes
      /\ m.from \in CoreNodes
      /\ m.from \in AcceptedBy(m.slot, m.request)
      /\ pairs \in SUBSET (Slot \X Request)
    <2>1. m \in Message /\ m.type = "Accepted"
        BY DEF TypeOK, processAccepted, Receive
    <2>2. m.slot \in Slot /\ m.request \in Request
        BY <2>1, MessageFacts
    <2> QED
        BY <2>1, <2>2, MessageFacts DEF AcceptedSent
<1>2. /\ msgs' = msgs \ {m}
      /\ UNCHANGED <<proposal, amLeader, receivedPromises, waitingRequests,
                     nextProposalSlot, nodeFirstUnapplied, announced,
                     deliveries, proposals, votes>>
      /\ \/ /\ Store(n, addAccepted(log[n], m.from, pairs), proposalTimeouts[n])
            /\ crashed' = crashed
         \/ /\ crashed' = crashed \cup {n}
            /\ UNCHANGED <<log, proposalTimeouts>>
    BY DEF processAccepted, historyVars
<1>3. /\ LogStep
      /\ proposalTimeouts' \in [CoreNodes -> [Slot -> Request \cup {None}]]
    <2>1. CASE Store(n, addAccepted(log[n], m.from, pairs), proposalTimeouts[n])
        <3>1. \A s \in Slot, r \in Request :
                  <<s, r>> \in WithinCap(log[n], pairs)
                  => m.from \in AcceptedBy(s, r)'
            BY <1>1, <1>2 DEF WithinCap, AcceptedBy
        <3>2. /\ proposalTimeouts[n] \in [Slot -> Request \cup {None}]
              /\ votes \subseteq votes'
            BY <1>1, <1>2 DEF TypeOK
        <3> HIDE DEF n, pairs
        <3> QED
            BY <1>1, <2>1, <3>1, <3>2, AcceptanceIsLogStep
    <2>2. CASE UNCHANGED <<log, proposalTimeouts>>
        BY <1>2, <2>2, NoLogStep DEF TypeOK
    <2> QED
        BY <1>2, <2>1, <2>2
<1>4. AcceptedSent'
    BY <1>2 DEF AcceptedSent, AcceptedBy
<1>5. TypeOK'
    BY <1>1, <1>2, <1>3 DEF TypeOK, LogStep
<1> QED
    BY <1>2, <1>3, <1>4, <1>5 DEF StepFacts, KnownStep

LEMMA processNackStep ==
    ASSUME TypeOK, AcceptedSent, NEW m \in msgs, processNack(m)
    PROVE  StepFacts
<1>1. /\ m.to \in CoreNodes
      /\ m.proposal \in Proposal
    BY MessageFacts DEF TypeOK
<1>2. /\ msgs' = msgs \ {m}
      /\ stopBeingLeader(m.to)
      /\ SetProposal(m.to, m.proposal)
      /\ UNCHANGED <<log, nodeFirstUnapplied, crashed, deliveries, proposals,
                     votes>>
    BY DEF processNack, storeVars, historyVars
<1>3. /\ LeaderTypes'
      /\ proposal' \in [CoreNodes -> Proposal]
      /\ announced' \in [CoreNodes -> SUBSET Proposal]
    BY <1>1, <1>2, SetProposalFacts, ResignFacts
<1>4. AcceptedSent' /\ LogStep
    BY <1>2, QuietStepFacts
<1>5. TypeOK'
    BY <1>2, <1>3 DEF TypeOK, LeaderTypes
<1> QED
    BY <1>2, <1>4, <1>5 DEF StepFacts, KnownStep

LEMMA handleLeaderStep ==
    ASSUME TypeOK, AcceptedSent, NEW n \in CoreNodes, NEW m \in CoreNodes,
           handleLeader(n, m)
    PROVE  StepFacts
<1>1. PICK p \in announced[m] : SetProposal(n, p) /\ ResignIfDeposed(n, p)
    BY DEF handleLeader
<1>2. p \in Proposal
    BY DEF TypeOK
<1>3. UNCHANGED <<log, nodeFirstUnapplied, crashed, msgs, deliveries,
                  proposals, votes>>
    BY DEF handleLeader, storeVars, historyVars
<1>4. /\ LeaderTypes'
      /\ proposal' \in [CoreNodes -> Proposal]
      /\ announced' \in [CoreNodes -> SUBSET Proposal]
    BY <1>1, <1>2, SetProposalFacts, ResignFacts
<1>5. AcceptedSent' /\ LogStep
    BY <1>3, QuietStepFacts
<1>6. TypeOK'
    BY <1>3, <1>4 DEF TypeOK, LeaderTypes
<1> QED
    BY <1>3, <1>5, <1>6 DEF StepFacts, KnownStep

LEMMA handleInstructionDataStep ==
    ASSUME TypeOK, AcceptedSent, NEW n \in CoreNodes, NEW m \in CoreNodes,
           NEW s \in Slot, handleInstructionData(n, m, s)
    PROVE  StepFacts
<1> DEFINE new == [t \in {s} |-> log[m].chosen[s]]
           log2 == Choose(log[n], new)
<1>1. /\ IsChosen(log[m], s)
      /\ ~IsChosen(log[n], s)
      /\ UNCHANGED <<proposal, amLeader, receivedPromises, waitingRequests,
                     nextProposalSlot, nodeFirstUnapplied, msgs, announced,
                     deliveries, proposals, votes>>
      /\ \/ Store(n, log2, proposalTimeouts[n]) /\ crashed' = crashed
         \/ /\ crashed' = crashed \cup {n}
            /\ UNCHANGED <<log, proposalTimeouts>>
    BY DEF handleInstructionData, historyVars
<1>2. /\ log \in [CoreNodes -> Log]
      /\ log[n] \in Log
      /\ log[m].chosen[s] \in Request
      /\ None \notin Request
      /\ proposalTimeouts[n] \in [Slot -> Request \cup {None}]
    <2>1. /\ log \in [CoreNodes -> Log]
          /\ log[n] \in Log
          /\ log[m] \in Log
          /\ proposalTimeouts[n] \in [Slot -> Request \cup {None}]
        BY DEF TypeOK
    <2>2. log[m].chosen[s] \in Request \cup {None}
        BY <2>1 DEF Log
    <2> QED
        BY <1>1, <2>1, <2>2, LogAssumption DEF IsChosen
<1>3. /\ LogStep
      /\ proposalTimeouts' \in [CoreNodes -> [Slot -> Request \cup {None}]]
    <2>1. CASE Store(n, log2, proposalTimeouts[n])
        <3>1. /\ DOMAIN new = {s}
              /\ new[s] = log[m].chosen[s]
              /\ DOMAIN new \subseteq Slot
              /\ \A t \in DOMAIN new : new[t] \in Request
            BY <1>2
        <3> HIDE DEF new
        <3>2. /\ log2 \in Log
              /\ log2.start = log[n].start
              /\ log2.firstUnapplied >= log[n].firstUnapplied
              /\ \A t \in Slot :
                    /\ t \in DOMAIN new => log2.chosen[t] = new[t]
                    /\ t \notin DOMAIN new => log2.chosen[t] = log[n].chosen[t]
              /\ \A t \in Slot, r \in Request :
                    log2.accepted[t][r] \subseteq log[n].accepted[t][r]
              /\ AppliedToGap(log[n]) => AppliedToGap(log2)
            BY <1>2, <3>1, ChooseFacts
        <3>3. \A t \in Slot : IsChosen(log[n], t)
                              => log2.chosen[t] = log[n].chosen[t]
            BY <1>1, <3>1, <3>2
        <3> HIDE DEF log2
        <3>4. /\ log' \in [CoreNodes -> Log]
              /\ proposalTimeouts'
                 \in [CoreNodes -> [Slot -> Request \cup {None}]]
              /\ \A k \in CoreNodes \ {n} :
                    /\ log'[k] = log[k]
                    /\ proposalTimeouts'[k] = proposalTimeouts[k]
              /\ Grows(log[n], log'[n])
              /\ log'[n].chosen = log2.chosen
              /\ log'[n].accepted = log2.accepted
              /\ \/ log'[n].start = log[n].start
                 \/ Majority({n} \cup {k \in CoreNodes \ {n} :
                                nodeFirstUnapplied[n][k] >= log'[n].start})
            <4>1. /\ TypeOK
                  /\ log2 \in Log
                  /\ log2.start = log[n].start
                  /\ log2.firstUnapplied >= log[n].firstUnapplied
                  /\ AppliedToGap(log[n]) => AppliedToGap(log2)
                BY <3>2
            <4> DEFINE timeouts == proposalTimeouts[n]
            <4>2. timeouts \in [Slot -> Request \cup {None}]
                BY <1>2
            <4>3. Store(n, log2, timeouts)
                BY <2>1
            <4> HIDE DEF timeouts
            <4> QED
                BY ONLY <4>1, <4>2, <4>3, <3>3, n \in CoreNodes, StoreFacts
        <3>5. \A k \in CoreNodes : Grows(log[k], log'[k])
            BY <1>2, <3>4, GrowsReflexive
        <3>6. ASSUME NEW k \in CoreNodes
              PROVE  \/ log'[k].start = log[k].start
                     \/ Majority({k} \cup {j \in CoreNodes \ {k} :
                                nodeFirstUnapplied[k][j] >= log'[k].start})
            <4>1. CASE k = n
                BY <3>4, <4>1
            <4>2. CASE k # n
                BY <3>4, <4>2
            <4> QED
                BY <4>1, <4>2
        <3>7. ASSUME NEW k \in CoreNodes, NEW t \in Slot, NEW r \in Request
              PROVE  log'[k].accepted[t][r]
                     \subseteq log[k].accepted[t][r] \cup AcceptedBy(t, r)'
            BY <3>2, <3>4
        <3>8. ASSUME NEW k \in CoreNodes, NEW t \in Slot, NEW r \in Request,
                     log'[k].chosen[t] = r, ~IsChosen(log[k], t)
              PROVE  IsChosen(log[m], t) /\ log[m].chosen[t] = r
            BY <1>1, <1>2, <3>1, <3>2, <3>4, <3>8 DEF IsChosen
        <3> QED
            BY <1>1, <3>4, <3>5, <3>6, <3>7, <3>8 DEF LogStep
    <2>2. CASE UNCHANGED <<log, proposalTimeouts>>
        BY <1>1, <2>2, NoLogStep DEF TypeOK
    <2> QED
        BY <1>1, <2>1, <2>2
<1>4. AcceptedSent'
    BY <1>1 DEF AcceptedSent, AcceptedBy
<1>5. crashed' \subseteq CoreNodes
    BY <1>1 DEF TypeOK
<1> HIDE DEF log2, new
<1>6. TypeOK'
    BY <1>1, <1>3, <1>5 DEF TypeOK, LogStep
<1> QED
    BY <1>1, <1>3, <1>4, <1>6 DEF StepFacts, KnownStep

LEMMA handleFirstUnappliedStep ==
    ASSUME TypeOK, AcceptedSent, NEW n \in CoreNodes, NEW m \in CoreNodes,
           handleFirstUnapplied(n, m)
    PROVE  StepFacts
<1>1. /\ nodeFirstUnapplied' =
           [nodeFirstUnapplied EXCEPT ![n][m] = log[m].firstUnapplied]
      /\ UNCHANGED <<proposal, amLeader, receivedPromises, waitingRequests,
                     nextProposalSlot, proposalTimeouts, log, crashed, msgs,
                     announced, deliveries, proposals, votes>>
    BY DEF handleFirstUnapplied, leaderVars, historyVars
<1>2. AcceptedSent' /\ LogStep
    BY <1>1, QuietStepFacts
<1>3. log[m].firstUnapplied \in Nat
    BY DEF TypeOK, Log
<1>4. nodeFirstUnapplied' \in [CoreNodes -> [CoreNodes -> Nat]] /\ KnownStep
    BY <1>1, <1>3 DEF TypeOK, KnownStep
<1>5. TypeOK'
    BY <1>1, <1>4 DEF TypeOK
<1> QED
    BY <1>2, <1>4, <1>5 DEF StepFacts
-----------------------------------------------------------------------------
(* Every step at once, and the invariants that follow.                     *)
LEMMA NextStep ==
    ASSUME TypeOK, AcceptedSent, [Next]_vars
    PROVE  StepFacts
<1>1. ASSUME NEW n \in CoreNodes, HandleChange(n)
      PROVE  StepFacts
    BY <1>1, QueueChangeStep, StartAttemptStep, ProposeChangeStep
       DEF HandleChange
<1>2. ASSUME NEW n \in CoreNodes, NEW s \in Slot, ProposalTimeout(n, s)
      PROVE  StepFacts
    BY <1>2, ProposalTimeoutStep
<1>3. ASSUME NEW m \in msgs, HandleMessage(m)
      PROVE  StepFacts
    BY <1>3, processPrepareStep, processPromiseStep, processAcceptStep,
       processAcceptedStep, processNackStep DEF HandleMessage
<1>4. ASSUME NEW n \in CoreNodes, Follow(n)
      PROVE  StepFacts
    BY <1>4, handleLeaderStep, handleInstructionDataStep,
       handleFirstUnappliedStep DEF Follow
<1>5. CASE UNCHANGED vars
    <2>1. UNCHANGED <<proposal, amLeader, receivedPromises, waitingRequests,
                      nextProposalSlot, proposalTimeouts, log,
                      nodeFirstUnapplied, crashed, msgs, announced,
                      deliveries, proposals, votes>>
        BY <1>5 DEF vars, leaderVars, storeVars, historyVars
    <2>2. AcceptedSent' /\ LogStep
        BY <2>1, QuietStepFacts
    <2>3. TypeOK'
        BY <2>1 DEF TypeOK
    <2> QED
        BY <2>1, <2>2, <2>3 DEF StepFacts, KnownStep
<1> QED
    BY <1>1, <1>2, <1>3, <1>4, <1>5 DEF Next

LEMMA InitFacts == Init => TypeOK /\ AcceptedSent
<1> SUFFICES ASSUME Init PROVE TypeOK /\ AcceptedSent
    OBVIOUS
<1>1. LastSlot \in Nat
    BY LogAssumption
<1>2. /\ NoProposal \in Proposal
      /\ EmptyLog \in Log
      /\ <<>> \in Seq(Request)
    BY <1>1 DEF NoProposal, Proposal, EmptyLog, Log, Slot
<1> QED
    BY <1>2 DEF Init, TypeOK, AcceptedSent

(* Every variable keeps its type.                                          *)
THEOREM TypeCorrect == Spec => [](TypeOK /\ AcceptedSent)
<1>1. Init => TypeOK /\ AcceptedSent
    BY InitFacts
<1>2. (TypeOK /\ AcceptedSent) /\ [Next]_vars => (TypeOK /\ AcceptedSent)'
    BY NextStep DEF StepFacts
<1> QED
    BY <1>1, <1>2, PTL DEF Spec

(* What a node has chosen it keeps, and what it has applied are the chosen *)
(* instructions up to its first gap.                                       *)
THEOREM ChosenStays == Spec => ChosenForever
<1>1. TypeOK /\ AcceptedSent /\ [Next]_vars
      => [\A n \in CoreNodes, s \in Slot :
             IsChosen(log[n], s) => log'[n].chosen[s] = log[n].chosen[s]]_vars
    BY NextStep DEF StepFacts, LogStep, Grows
<1> QED
    BY <1>1, TypeCorrect, PTL DEF Spec, ChosenForever

THEOREM AppliedInOrder == Spec => []AppliedUpToGap
<1>1. Init => AppliedUpToGap
    BY LogAssumption DEF Init, AppliedUpToGap, AppliedToGap, EmptyLog, Slot,
                         IsChosen
<1>2. TypeOK /\ AcceptedSent /\ AppliedUpToGap /\ [Next]_vars
      => AppliedUpToGap'
    BY NextStep DEF StepFacts, LogStep, Grows, AppliedUpToGap
<1> QED
    BY <1>1, <1>2, TypeCorrect, PTL DEF Spec

(* The inductive form of ChosenByMajority: a node counts an acceptance     *)
(* only of a node that sent it.                                            *)
CountedWereSent ==
    \A n \in CoreNodes, s \in Slot, r \in Request :
        log[n].accepted[s][r] \subseteq AcceptedBy(s, r)

THEOREM MajorityBehindChosen == Spec => []ChosenByMajority
<1>1. Init => CountedWereSent /\ ChosenByMajority
    BY LogAssumption DEF Init, CountedWereSent, ChosenByMajority, EmptyLog,
                         IsChosen
<1>2. /\ TypeOK /\ AcceptedSent /\ CountedWereSent /\ ChosenByMajority
      /\ [Next]_vars
      => CountedWereSent' /\ ChosenByMajority'
    <2> SUFFICES ASSUME TypeOK, AcceptedSent, CountedWereSent,
                        ChosenByMajority, [Next]_vars
                 PROVE  CountedWereSent' /\ ChosenByMajority'
        OBVIOUS
    <2>1. TypeOK' /\ LogStep
        BY NextStep DEF StepFacts
    <2>2. \A s, r : AcceptedBy(s, r) \subseteq AcceptedBy(s, r)'
        BY <2>1 DEF LogStep, AcceptedBy
    <2>3. CountedWereSent'
        BY <2>1, <2>2 DEF LogStep, CountedWereSent
    <2>4. ASSUME NEW s, NEW r
          PROVE  AcceptedBy(s, r)' \subseteq CoreNodes
        BY <2>1 DEF TypeOK, AcceptedBy
    <2>5. ASSUME NEW n \in CoreNodes, NEW s \in Slot, NEW r \in Request,
                 log'[n].chosen[s] = r
          PROVE  Majority(AcceptedBy(s, r)')
        <3>1. \/ IsChosen(log[n], s) /\ log[n].chosen[s] = r
              \/ \E S : /\ Majority(S)
                        /\ S \subseteq log[n].accepted[s][r]
                                      \cup AcceptedBy(s, r)'
              \/ \E m \in CoreNodes : IsChosen(log[m], s) /\ log[m].chosen[s] = r
            <4>1. CASE IsChosen(log[n], s)
                BY <2>1, <2>5, <4>1 DEF LogStep, Grows
            <4>2. CASE ~IsChosen(log[n], s)
                BY <2>1, <2>5, <4>2 DEF LogStep
            <4> QED
                BY <4>1, <4>2
        <3>2. CASE \E m \in CoreNodes : /\ IsChosen(log[m], s)
                                        /\ log[m].chosen[s] = r
            <4>1. Majority(AcceptedBy(s, r))
                BY <3>2 DEF ChosenByMajority
            <4> QED
                BY <2>2, <2>4, <4>1, MajorityMonotone
        <3>3. CASE \E S : /\ Majority(S)
                          /\ S \subseteq log[n].accepted[s][r]
                                        \cup AcceptedBy(s, r)'
            <4>1. PICK S : /\ Majority(S)
                           /\ S \subseteq log[n].accepted[s][r]
                                         \cup AcceptedBy(s, r)'
                BY <3>3
            <4>2. S \subseteq AcceptedBy(s, r)'
                BY <2>2, <4>1 DEF CountedWereSent
            <4> QED
                BY <2>4, <4>1, <4>2, MajorityMonotone
        <3> QED
            BY <3>1, <3>2, <3>3
    <2>6. ASSUME NEW n \in CoreNodes, NEW s \in Slot, IsChosen(log[n], s)'
          PROVE  Majority(AcceptedBy(s, log[n].chosen[s]))'
        <3>1. PICK r \in Request : log'[n].chosen[s] = r
            <4>1. log'[n] \in Log
                BY <2>1 DEF LogStep
            <4> QED
                BY <2>6, <4>1 DEF IsChosen, Log
        <3> QED
            BY <2>5, <3>1 DEF Majority
    <2> QED
        BY <2>3, <2>6 DEF ChosenByMajority
<1> QED
    BY <1>1, <1>2, TypeCorrect, PTL DEF Spec

(* What a node knows of how far others have applied has happened.          *)
KnownApplied ==
    \A n, m \in CoreNodes :
        nodeFirstUnapplied[n][m] <= log[m].firstUnapplied

THEOREM DiscardedSafely == Spec => []DiscardedAppliedByMajority
<1> DEFINE Past(n) == {m \in CoreNodes : log[m].firstUnapplied >= log[n].start}
<1>1. Init => KnownApplied /\ DiscardedAppliedByMajority
    <2> SUFFICES ASSUME Init PROVE KnownApplied /\ DiscardedAppliedByMajority
        OBVIOUS
    <2>1. \A n \in CoreNodes : log[n].start = 0 /\ log[n].firstUnapplied = 0
        BY DEF Init, EmptyLog
    <2>2. KnownApplied
        BY <2>1 DEF Init, KnownApplied
    <2>3. \A n \in CoreNodes : Past(n) = CoreNodes
        BY <2>1
    <2>4. Majority(CoreNodes)
        BY CoreNodesAssumption, FS_CardinalityType, FS_EmptySet DEF Majority
    <2> QED
        BY <2>1, <2>2, <2>3, <2>4 DEF DiscardedAppliedByMajority
<1>2. TypeOK /\ AcceptedSent /\ KnownApplied /\ DiscardedAppliedByMajority
      /\ [Next]_vars
      => KnownApplied' /\ DiscardedAppliedByMajority'
    <2> SUFFICES ASSUME TypeOK, AcceptedSent, KnownApplied,
                        DiscardedAppliedByMajority, [Next]_vars
                 PROVE  KnownApplied' /\ DiscardedAppliedByMajority'
        OBVIOUS
    <2>1. TypeOK' /\ LogStep /\ KnownStep
        BY NextStep DEF StepFacts
    <2>2. ASSUME NEW n \in CoreNodes
          PROVE  /\ log[n].start \in Nat /\ log[n].firstUnapplied \in Nat
                 /\ log'[n].start \in Nat /\ log'[n].firstUnapplied \in Nat
                 /\ log'[n].firstUnapplied >= log[n].firstUnapplied
                 /\ log[n].start <= log[n].firstUnapplied
                 /\ log'[n].start <= log'[n].firstUnapplied
        <3>1. log[n] \in Log /\ log'[n] \in Log /\ Grows(log[n], log'[n])
            BY <2>1 DEF TypeOK, LogStep
        <3>2. log[n].start <= log[n].firstUnapplied
            BY DEF DiscardedAppliedByMajority
        <3>3. /\ log[n].start \in Nat /\ log[n].firstUnapplied \in Nat
              /\ log'[n].start \in Nat /\ log'[n].firstUnapplied \in Nat
            BY <3>1 DEF Log
        <3> QED
            BY <3>1, <3>2, <3>3 DEF Grows
    <2>3. \A n, m \in CoreNodes : nodeFirstUnapplied[n][m] \in Nat
        BY DEF TypeOK
    <2>4. KnownApplied'
        BY <2>1, <2>2, <2>3 DEF KnownStep, KnownApplied
    <2>5. ASSUME NEW n \in CoreNodes
          PROVE  Majority(Past(n))'
        <3>1. CASE log'[n].start = log[n].start
            <4>1. Past(n) \subseteq Past(n)'
                BY <2>2, <3>1
            <4>2. Majority(Past(n))
                BY DEF DiscardedAppliedByMajority
            <4>3. Past(n)' \subseteq CoreNodes
                OBVIOUS
            <4> QED
                BY <4>1, <4>2, <4>3, MajorityMonotone DEF Majority
        <3>2. CASE Majority({n} \cup {m \in CoreNodes \ {n} :
                               nodeFirstUnapplied[n][m] >= log'[n].start})
            <4>1. {n} \cup {m \in CoreNodes \ {n} :
                              nodeFirstUnapplied[n][m] >= log'[n].start}
                  \subseteq Past(n)'
                BY <2>2, <2>3 DEF KnownApplied
            <4>2. Past(n)' \subseteq CoreNodes
                OBVIOUS
            <4> QED
                BY <3>2, <4>1, <4>2, MajorityMonotone DEF Majority
        <3> QED
            BY <2>1, <3>1, <3>2 DEF LogStep
    <2> QED
        BY <2>2, <2>4, <2>5 DEF DiscardedAppliedByMajority
<1> QED
    BY <1>1, <1>2, TypeCorrect, PTL DEF Spec

-----------------------------------------------------------------------------
(* What every step of node n does to proposals: other nodes keep theirs    *)
(* and their leadership, its own rises, and nothing mentions a proposal    *)
(* that was not seen before, except that.                                  *)
BallotStep(n) ==
    /\ \A k \in CoreNodes \ {n} :
          /\ proposal'[k] = proposal[k]
          /\ amLeader'[k] = amLeader[k]
          /\ receivedPromises'[k] = receivedPromises[k]
          /\ nextProposalSlot'[k] = nextProposalSlot[k]
    /\ CompareProposals(proposal'[n], proposal[n])
    /\ \A k \in CoreNodes : announced'[k] \subseteq announced[k] \cup {proposal'[n]}
    /\ \A m \in msgs' \ msgs :
          /\ m.proposal \in Seen \cup {proposal'[n]}
          /\ m.type = "Prepare" => m.proposal[2] = m.from
          /\ m.type = "Promise" => m.proposal[2] = m.to
    /\ proposals \subseteq proposals'
    /\ \A x \in proposals' \ proposals : x[1] = proposal'[n]
    /\ \A v \in votes' \ votes : v.node = n /\ v.proposal = proposal'[n]

(* The end of addPromise: n leads and proposes, or waits for more.         *)
LeadsOrWaits(n) ==
    \/ /\ amLeader'[n]
       /\ receivedPromises'[n] = {}
       /\ \A x \in proposals' \ proposals : x[2] < nextProposalSlot'[n]
       /\ \A x, y \in proposals' \ proposals : x[2] = y[2] => x[3] = y[3]
    \/ amLeader'[n] = amLeader[n] /\ proposals' = proposals

(* The four kinds of step.                                                 *)
Attempts(n) ==
    /\ ~amLeader[n]
    /\ proposal'[n] = <<proposal[n][1] + 1, n>>
    /\ LeadsOrWaits(n)

IsPromised(n) ==
    /\ proposal'[n] = proposal[n]
    /\ proposal[n][2] = n
    /\ receivedPromises[n] # {}
    /\ LeadsOrWaits(n)

Proposes(n) ==
    /\ amLeader[n] /\ amLeader'[n]
    /\ proposal'[n] = proposal[n]
    /\ receivedPromises'[n] = receivedPromises[n]
    /\ nextProposalSlot'[n] = nextProposalSlot[n] + 1
    /\ \E r \in Request :
          proposals' = proposals \cup {<<proposal[n], nextProposalSlot[n], r>>}

Learns(n) ==
    /\ proposal'[n] \in Seen
    /\ proposals' = proposals
    /\ nextProposalSlot'[n] = nextProposalSlot[n]
    /\ receivedPromises'[n] \in {receivedPromises[n], {}}
    /\ \/ ~amLeader'[n]
       \/ /\ amLeader'[n] = amLeader[n]
          /\ proposal'[n] = proposal[n] \/ proposal'[n][2] = n

BallotFacts ==
    \E n \in CoreNodes :
        /\ BallotStep(n)
        /\ Attempts(n) \/ IsPromised(n) \/ Proposes(n) \/ Learns(n)

-----------------------------------------------------------------------------
(* Proposals a node can learn of.                                          *)
LEMMA SeenFacts ==
    /\ \A n \in CoreNodes : proposal[n] \in Seen
    /\ \A n \in CoreNodes : announced[n] \subseteq Seen
    /\ \A m \in msgs : m.proposal \in Seen
    /\ \A x \in proposals : x[1] \in Seen
BY DEF Seen

LEMMA SeenTypes == ASSUME TypeOK PROVE Seen \subseteq Proposal
<1>1. /\ \A n \in CoreNodes : proposal[n] \in Proposal
      /\ \A n \in CoreNodes : announced[n] \subseteq Proposal
      /\ \A x \in proposals : x[1] \in Proposal
    BY DEF TypeOK
<1>2. \A m \in msgs : m.proposal \in Proposal
    BY MessageFacts DEF TypeOK
<1> QED
    BY <1>1, <1>2 DEF Seen

LEMMA SeenStep ==
    ASSUME NEW n \in CoreNodes, BallotStep(n)
    PROVE  Seen' \subseteq Seen \cup {proposal'[n]}
<1> SUFFICES ASSUME NEW p \in Seen'
             PROVE  p \in Seen \cup {proposal'[n]}
    OBVIOUS
<1>1. ASSUME NEW k \in CoreNodes, p = proposal'[k]
      PROVE  p \in Seen \cup {proposal'[n]}
    BY <1>1, SeenFacts DEF BallotStep
<1>2. ASSUME NEW k \in CoreNodes, p \in announced'[k]
      PROVE  p \in Seen \cup {proposal'[n]}
    BY <1>2, SeenFacts DEF BallotStep
<1>3. ASSUME NEW m \in msgs', p = m.proposal
      PROVE  p \in Seen \cup {proposal'[n]}
    BY <1>3, SeenFacts DEF BallotStep
<1>4. ASSUME NEW x \in proposals', p = x[1]
      PROVE  p \in Seen \cup {proposal'[n]}
    BY <1>4, SeenFacts DEF BallotStep
<1> QED
    BY <1>1, <1>2, <1>3, <1>4 DEF Seen

-----------------------------------------------------------------------------
(* A step that leaves leadership to resignation, sends no acceptance and   *)
(* proposes nothing.                                                       *)
LEMMA ResignBallots ==
    ASSUME TypeOK, NEW n \in CoreNodes, NEW p \in Proposal,
           \/ stopBeingLeader(n)
           \/ ResignIfDeposed(n, p) /\ proposal'[n] = p
    PROVE  /\ \A k \in CoreNodes \ {n} :
                 /\ amLeader'[k] = amLeader[k]
                 /\ receivedPromises'[k] = receivedPromises[k]
                 /\ nextProposalSlot'[k] = nextProposalSlot[k]
           /\ nextProposalSlot'[n] = nextProposalSlot[n]
           /\ receivedPromises'[n] \in {receivedPromises[n], {}}
           /\ \/ ~amLeader'[n]
              \/ /\ amLeader'[n] = amLeader[n]
                 /\ proposal'[n] = proposal[n] \/ proposal'[n][2] = n
<1>1. CASE stopBeingLeader(n)
    BY <1>1 DEF stopBeingLeader, TypeOK
<1>2. CASE UNCHANGED leaderVars /\ proposal'[n] = p
           /\ ~(p # proposal[n] /\ amLeader[n] /\ p[2] # n)
    BY <1>2 DEF leaderVars, TypeOK
<1> QED
    BY <1>1, <1>2 DEF ResignIfDeposed

LEMMA QueueChangeBallots ==
    ASSUME TypeOK, NEW n \in CoreNodes, NEW r \in Request, QueueChange(n, r)
    PROVE  BallotFacts
<1>1. UNCHANGED <<proposal, amLeader, receivedPromises, nextProposalSlot,
                  msgs, announced, proposals, votes>>
    BY DEF QueueChange, historyVars
<1>2. CompareProposals(proposal[n], proposal[n])
    BY ProposalOrder DEF TypeOK
<1>3. BallotStep(n) /\ Learns(n)
    BY <1>1, <1>2, SeenFacts DEF BallotStep, Learns
<1> QED
    BY <1>3 DEF BallotFacts

LEMMA StartAttemptBallots ==
    ASSUME TypeOK, NEW n \in CoreNodes, NEW r \in Request, StartAttempt(n, r)
    PROVE  BallotFacts
<1> DEFINE p == NextProposal(n)
           requests == Append(waitingRequests[n], r)
           inFlight == msgs \cup PrepareMsgs(n, p)
<1>1. /\ SetProposal(n, p)
      /\ addPromise(n, n, p, requests, inFlight)
      /\ ~amLeader[n]
    BY DEF StartAttempt
<1>2. /\ p \in Proposal
      /\ requests \in Seq(Request)
      /\ CompareProposals(p, proposal[n])
      /\ p[2] = n
    BY CoreNodesAssumption DEF TypeOK, Proposal, CompareProposals, NextProposal
<1> HIDE DEF p
<1>3. \A m \in PrepareMsgs(n, p) :
          /\ m \in Message
          /\ m.type = "Prepare" /\ m.from = n /\ m.proposal = p
    BY <1>2, PrepareMsgsFacts
<1>4. inFlight \in SUBSET Message
    BY <1>3 DEF TypeOK
<1> HIDE DEF requests, inFlight
<1>5. /\ AcceptStep(n, p, inFlight)
      /\ \A k \in CoreNodes \ {n} :
            /\ amLeader'[k] = amLeader[k]
            /\ receivedPromises'[k] = receivedPromises[k]
            /\ nextProposalSlot'[k] = nextProposalSlot[k]
      /\ \/ /\ amLeader'[n]
            /\ receivedPromises'[n] = {}
            /\ proposals \subseteq proposals'
            /\ \A x \in proposals' \ proposals :
                  x[1] = p /\ x[2] < nextProposalSlot'[n]
            /\ \A x, y \in proposals' \ proposals :
                  x[2] = y[2] => x[3] = y[3]
         \/ /\ UNCHANGED <<amLeader, proposals>>
            /\ receivedPromises'[n] = receivedPromises[n] \cup {n}
    BY <1>1, <1>2, <1>4, addPromiseFacts
<1>6. /\ proposal'[n] = p
      /\ \A k \in CoreNodes \ {n} : proposal'[k] = proposal[k]
      /\ \A k \in CoreNodes : announced'[k] \subseteq announced[k] \cup {p}
    BY <1>1, <1>2, SetProposalFacts
<1>7. \A m \in msgs' \ msgs :
          /\ m.proposal = p
          /\ m.type = "Prepare" => m.from = n
          /\ m.type # "Promise"
    BY <1>3, <1>5 DEF AcceptStep, inFlight
<1>8. BallotStep(n)
    BY <1>2, <1>5, <1>6, <1>7 DEF BallotStep, AcceptStep
<1>9. Attempts(n)
    BY <1>1, <1>5, <1>6 DEF Attempts, LeadsOrWaits, NextProposal, p
<1> QED
    BY <1>8, <1>9 DEF BallotFacts

LEMMA ProposeChangeBallots ==
    ASSUME TypeOK, LeaderOwnsProposal, NEW n \in CoreNodes, NEW r \in Request,
           ProposeChange(n, r)
    PROVE  BallotFacts
<1> DEFINE pairs == {<<nextProposalSlot[n], r>>}
<1>1. /\ amLeader[n]
      /\ nextProposalSlot[n] <= LastSlot
      /\ nextProposalSlot' = [nextProposalSlot EXCEPT ![n] = @ + 1]
      /\ sendProposals(n, proposal[n], pairs, msgs)
      /\ UNCHANGED <<proposal, amLeader, receivedPromises, announced>>
    BY DEF ProposeChange
<1>2. /\ pairs \in SUBSET (Slot \X Request)
      /\ proposal[n] \in Proposal
      /\ msgs \in SUBSET Message
      /\ nextProposalSlot \in [CoreNodes -> Nat]
    BY <1>1, LogAssumption DEF TypeOK, Slot
<1>3. /\ AcceptStep(n, proposal[n], msgs)
      /\ proposals' =
           proposals \cup {<<proposal[n], sr[1], sr[2]>> : sr \in pairs}
    <2> HIDE DEF pairs
    <2> QED
        BY <1>1, <1>2, sendProposalsFacts
<1>4. proposals' = proposals \cup {<<proposal[n], nextProposalSlot[n], r>>}
    BY <1>3
<1>5. CompareProposals(proposal[n], proposal[n])
    BY <1>2, ProposalOrder
<1>6. BallotStep(n)
    BY <1>1, <1>2, <1>3, <1>4, <1>5, SeenFacts DEF BallotStep, AcceptStep
<1>7. Proposes(n)
    BY <1>1, <1>2, <1>4 DEF Proposes
<1> QED
    BY <1>6, <1>7 DEF BallotFacts

LEMMA ProposalTimeoutBallots ==
    ASSUME TypeOK, NEW n \in CoreNodes, NEW s \in Slot, ProposalTimeout(n, s)
    PROVE  BallotFacts
<1>1. /\ stopBeingLeader(n)
      /\ UNCHANGED <<proposal, msgs, announced, proposals, votes>>
    BY DEF ProposalTimeout, historyVars
<1>2. proposal[n] \in Proposal /\ CompareProposals(proposal[n], proposal[n])
    BY ProposalOrder DEF TypeOK
<1>3. BallotStep(n) /\ Learns(n)
    BY <1>1, <1>2, ResignBallots, SeenFacts DEF BallotStep, Learns
<1> QED
    BY <1>3 DEF BallotFacts

LEMMA processPrepareBallots ==
    ASSUME TypeOK, PromisesToLeader, NEW m \in msgs, processPrepare(m)
    PROVE  BallotFacts
<1> DEFINE n == m.to
           higher == CompareProposals(m.proposal, proposal[n])
<1>1. /\ m \in Message /\ n \in CoreNodes /\ m.proposal \in Proposal
      /\ proposal[n] \in Proposal
      /\ m.proposal[2] = m.from
      /\ CompareProposals(proposal[n], proposal[n])
    <2>1. m \in Message /\ m.type = "Prepare"
        BY DEF TypeOK, processPrepare, Receive
    <2>2. m.proposal[2] = m.from
        BY <2>1 DEF PromisesToLeader
    <2>3. n \in CoreNodes /\ m.proposal \in Proposal
        BY <2>1, MessageFacts
    <2>4. proposal[n] \in Proposal
        BY <2>3 DEF TypeOK
    <2> QED
        BY <2>1, <2>2, <2>3, <2>4, ProposalOrder
<1>2. UNCHANGED <<proposals, votes>>
    BY DEF processPrepare, historyVars
<1>3. CASE higher
    <2>1. /\ msgs' = (msgs \ {m}) \cup {Reply(m, "Promise", m.proposal)}
          /\ SetProposal(n, m.proposal)
          /\ ResignIfDeposed(n, m.proposal)
        BY <1>3 DEF processPrepare
    <2>2. /\ Reply(m, "Promise", m.proposal).type = "Promise"
          /\ Reply(m, "Promise", m.proposal).to = m.from
          /\ Reply(m, "Promise", m.proposal).proposal = m.proposal
        BY <1>1, ReplyFacts
    <2> HIDE DEF n
    <2>3. /\ proposal'[n] = m.proposal
          /\ \A k \in CoreNodes \ {n} : proposal'[k] = proposal[k]
          /\ \A k \in CoreNodes :
                announced'[k] \subseteq announced[k] \cup {m.proposal}
        BY <1>1, <2>1, SetProposalFacts
    <2>4. BallotStep(n) /\ Learns(n)
        BY <1>1, <1>2, <1>3, <2>1, <2>2, <2>3, ResignBallots, SeenFacts
           DEF BallotStep, Learns
    <2> QED
        BY <1>1, <2>4 DEF BallotFacts
<1>4. CASE ~higher
    <2>1. /\ msgs' = (msgs \ {m}) \cup {Reply(m, "Nack", proposal[n])}
          /\ UNCHANGED <<proposal, announced, amLeader, receivedPromises,
                         nextProposalSlot>>
        BY <1>4 DEF processPrepare, leaderVars
    <2>2. /\ Reply(m, "Nack", proposal[n]).type = "Nack"
          /\ Reply(m, "Nack", proposal[n]).proposal = proposal[n]
        BY <1>1, ReplyFacts
    <2> HIDE DEF n
    <2>3. BallotStep(n) /\ Learns(n)
        BY <1>1, <1>2, <2>1, <2>2, SeenFacts DEF BallotStep, Learns
    <2> QED
        BY <1>1, <2>3 DEF BallotFacts
<1> QED
    BY <1>3, <1>4

LEMMA processPromiseBallots ==
    ASSUME TypeOK, PromisesToLeader, NEW m \in msgs, processPromise(m)
    PROVE  BallotFacts
<1> DEFINE n == m.to
           inFlight == msgs \ {m}
<1>1. /\ m.from \in CoreNodes
      /\ n \in CoreNodes
      /\ m.proposal \in Proposal
      /\ m.proposal[2] = n
      /\ waitingRequests[n] \in Seq(Request)
      /\ inFlight \in SUBSET Message
    <2>1. m \in Message /\ m.type = "Promise"
        BY DEF TypeOK, processPromise, Receive
    <2>2. m.proposal[2] = n
        BY <2>1 DEF PromisesToLeader
    <2> QED
        BY <2>1, <2>2, MessageFacts DEF TypeOK
<1>2. /\ addPromise(n, m.from, m.proposal, waitingRequests[n], inFlight)
      /\ receivedPromises[n] # {}
      /\ proposal[n] = m.proposal
      /\ UNCHANGED <<proposal, announced>>
    BY DEF processPromise
<1>3. CompareProposals(proposal[n], proposal[n])
    BY <1>1, <1>2, ProposalOrder
<1> HIDE DEF n, inFlight
<1>4. /\ AcceptStep(n, m.proposal, inFlight)
      /\ \A k \in CoreNodes \ {n} :
            /\ amLeader'[k] = amLeader[k]
            /\ receivedPromises'[k] = receivedPromises[k]
            /\ nextProposalSlot'[k] = nextProposalSlot[k]
      /\ \/ /\ amLeader'[n]
            /\ receivedPromises'[n] = {}
            /\ proposals \subseteq proposals'
            /\ \A x \in proposals' \ proposals :
                  x[1] = m.proposal /\ x[2] < nextProposalSlot'[n]
            /\ \A x, y \in proposals' \ proposals :
                  x[2] = y[2] => x[3] = y[3]
         \/ /\ UNCHANGED <<amLeader, proposals>>
            /\ receivedPromises'[n] = receivedPromises[n] \cup {m.from}
    BY <1>1, <1>2, addPromiseFacts
<1>5. BallotStep(n)
    BY <1>1, <1>2, <1>3, <1>4, SeenFacts DEF BallotStep, AcceptStep, inFlight
<1>6. IsPromised(n)
    BY <1>1, <1>2, <1>4 DEF IsPromised, LeadsOrWaits
<1> QED
    BY <1>1, <1>5, <1>6 DEF BallotFacts

LEMMA processAcceptBallots ==
    ASSUME TypeOK, NEW m \in msgs, processAccept(m)
    PROVE  BallotFacts
<1> DEFINE n == m.to
           pairs == {<<m.slot, m.request>>}
           earlier == EarlierProposal(n, m.proposal)
           deposed == /\ m.proposal # proposal[n]
                      /\ amLeader[n] /\ m.proposal[2] # n
           timeouts == IF deposed THEN [s \in Slot |-> None]
                                  ELSE proposalTimeouts[n]
           inFlight == msgs \ {m}
<1>1. /\ m \in Message
      /\ n \in CoreNodes
      /\ m.proposal \in Proposal
      /\ pairs \in SUBSET (Slot \X Request)
      /\ timeouts \in [Slot -> Request \cup {None}]
      /\ inFlight \in SUBSET Message
    <2>1. m \in Message /\ m.type = "Accept"
        BY DEF TypeOK, processAccept, Receive
    <2>2. /\ n \in CoreNodes
          /\ m.proposal \in Proposal
          /\ m.slot \in Slot /\ m.request \in Request
        BY <2>1, MessageFacts
    <2> QED
        BY <2>1, <2>2 DEF TypeOK
<1>2. /\ proposal[n] \in Proposal
      /\ CompareProposals(proposal[n], proposal[n])
      /\ ~earlier => CompareProposals(m.proposal, proposal[n])
    <2>1. proposal[n] \in Proposal
        BY <1>1 DEF TypeOK
    <2> QED
        BY <1>1, <2>1, ProposalOrder DEF EarlierProposal
<1>3. /\ UNCHANGED <<proposals, nextProposalSlot>>
      /\ \/ /\ ~earlier /\ deposed
            /\ amLeader' = [amLeader EXCEPT ![n] = FALSE]
            /\ receivedPromises' = [receivedPromises EXCEPT ![n] = {}]
         \/ /\ earlier \/ ~deposed
            /\ UNCHANGED <<amLeader, receivedPromises>>
    BY DEF processAccept
<1>4. /\ \A k \in CoreNodes \ {n} :
            /\ amLeader'[k] = amLeader[k]
            /\ receivedPromises'[k] = receivedPromises[k]
      /\ receivedPromises'[n] \in {receivedPromises[n], {}}
      /\ \/ ~amLeader'[n]
         \/ amLeader'[n] = amLeader[n] /\ (earlier \/ ~deposed)
    <2>1. CASE /\ amLeader' = [amLeader EXCEPT ![n] = FALSE]
               /\ receivedPromises' = [receivedPromises EXCEPT ![n] = {}]
        <3>1. /\ ~amLeader'[n]
              /\ receivedPromises'[n] = {}
              /\ \A k \in CoreNodes \ {n} :
                    /\ amLeader'[k] = amLeader[k]
                    /\ receivedPromises'[k] = receivedPromises[k]
            <4> HIDE DEF n, earlier, deposed
            <4> QED
                BY <1>1, <2>1 DEF TypeOK
        <3> QED
            BY <3>1
    <2>2. CASE /\ earlier \/ ~deposed
               /\ UNCHANGED <<amLeader, receivedPromises>>
        BY <2>2
    <2> QED
        BY <1>3, <2>1, <2>2
<1>5. CASE earlier
    <2>1. /\ msgs' = inFlight \cup {Reply(m, "Nack", proposal[n])}
          /\ UNCHANGED <<proposal, announced, votes>>
        BY <1>5 DEF processAccept
    <2>2. /\ Reply(m, "Nack", proposal[n]).type = "Nack"
          /\ Reply(m, "Nack", proposal[n]).proposal = proposal[n]
        BY <1>1, <1>2, ReplyFacts
    <2> HIDE DEF n, earlier, deposed
    <2>3. BallotStep(n) /\ Learns(n)
        BY <1>1, <1>2, <1>3, <1>4, <2>1, <2>2, SeenFacts
           DEF BallotStep, Learns
    <2> QED
        BY <1>1, <2>3 DEF BallotFacts
<1>6. CASE ~earlier
    <2>1. /\ SetProposal(n, m.proposal)
          /\ addAccept(n, m.proposal, pairs, timeouts, inFlight, {})
        BY <1>6 DEF processAccept
    <2>2. AcceptStep(n, m.proposal, inFlight)
        <3> HIDE DEF n, pairs, timeouts, inFlight
        <3> QED
            BY <1>1, <2>1, addAcceptFacts
    <2>3. \/ ~amLeader'[n]
          \/ /\ amLeader'[n] = amLeader[n]
             /\ m.proposal = proposal[n] \/ m.proposal[2] = n
        BY <1>4, <1>6
    <2> HIDE DEF n, earlier, deposed, pairs, timeouts
    <2>4. /\ proposal'[n] = m.proposal
          /\ \A k \in CoreNodes \ {n} : proposal'[k] = proposal[k]
          /\ \A k \in CoreNodes :
                announced'[k] \subseteq announced[k] \cup {m.proposal}
        BY <1>1, <2>1, SetProposalFacts
    <2>5. BallotStep(n)
        BY <1>1, <1>2, <1>3, <1>4, <1>6, <2>2, <2>4
           DEF BallotStep, AcceptStep
    <2>6. Learns(n)
        BY <1>3, <1>4, <2>3, <2>4, SeenFacts DEF Learns
    <2> QED
        BY <1>1, <2>5, <2>6 DEF BallotFacts
<1> QED
    BY <1>5, <1>6

LEMMA processNackBallots ==
    ASSUME TypeOK, NEW m \in msgs, processNack(m)
    PROVE  BallotFacts
<1> DEFINE n == m.to
<1>1. n \in CoreNodes /\ m.proposal \in Proposal
    BY MessageFacts DEF TypeOK
<1>2. /\ CompareProposals(m.proposal, proposal[n])
      /\ msgs' = msgs \ {m}
      /\ stopBeingLeader(n)
      /\ SetProposal(n, m.proposal)
      /\ UNCHANGED <<proposals, votes>>
    BY DEF processNack, historyVars
<1> HIDE DEF n
<1>3. /\ proposal'[n] = m.proposal
      /\ \A k \in CoreNodes \ {n} : proposal'[k] = proposal[k]
      /\ \A k \in CoreNodes :
            announced'[k] \subseteq announced[k] \cup {m.proposal}
    BY <1>1, <1>2, SetProposalFacts
<1>4. BallotStep(n) /\ Learns(n)
    BY <1>1, <1>2, <1>3, ResignBallots, SeenFacts DEF BallotStep, Learns
<1> QED
    BY <1>1, <1>4 DEF BallotFacts

LEMMA handleLeaderBallots ==
    ASSUME TypeOK, NEW n \in CoreNodes, NEW m \in CoreNodes,
           handleLeader(n, m)
    PROVE  BallotFacts
<1>1. PICK p \in announced[m] :
          /\ CompareProposals(p, proposal[n])
          /\ SetProposal(n, p)
          /\ ResignIfDeposed(n, p)
    BY DEF handleLeader
<1>2. p \in Proposal /\ p \in Seen
    BY SeenFacts DEF TypeOK
<1>3. UNCHANGED <<msgs, proposals, votes>>
    BY DEF handleLeader, historyVars
<1>4. /\ proposal'[n] = p
      /\ \A k \in CoreNodes \ {n} : proposal'[k] = proposal[k]
      /\ \A k \in CoreNodes : announced'[k] \subseteq announced[k] \cup {p}
    BY <1>1, <1>2, SetProposalFacts
<1>5. BallotStep(n) /\ Learns(n)
    BY <1>1, <1>2, <1>3, <1>4, ResignBallots DEF BallotStep, Learns
<1> QED
    BY <1>5 DEF BallotFacts

(* The other handlers, and stuttering, leave all this alone.               *)
LEMMA QuietBallots ==
    ASSUME TypeOK,
           UNCHANGED <<proposal, amLeader, receivedPromises, nextProposalSlot,
                       announced, proposals, votes>>,
           msgs' \subseteq msgs
    PROVE  BallotFacts
<1>1. PICK n \in CoreNodes : TRUE
    BY CoreNodesAssumption
<1>2. CompareProposals(proposal[n], proposal[n])
    BY ProposalOrder DEF TypeOK
<1>3. BallotStep(n) /\ Learns(n)
    BY <1>2, SeenFacts DEF BallotStep, Learns
<1> QED
    BY <1>3 DEF BallotFacts

LEMMA NextBallots ==
    ASSUME TypeOK, PromisesToLeader, LeaderOwnsProposal, [Next]_vars
    PROVE  BallotFacts
<1>1. ASSUME NEW n \in CoreNodes, HandleChange(n)
      PROVE  BallotFacts
    BY <1>1, QueueChangeBallots, StartAttemptBallots, ProposeChangeBallots
       DEF HandleChange
<1>2. ASSUME NEW n \in CoreNodes, NEW s \in Slot, ProposalTimeout(n, s)
      PROVE  BallotFacts
    BY <1>2, ProposalTimeoutBallots
<1>3. ASSUME NEW m \in msgs, HandleMessage(m)
      PROVE  BallotFacts
    <2>1. CASE processAccepted(m)
        BY <2>1, QuietBallots DEF processAccepted, historyVars
    <2> QED
        BY <1>3, <2>1, processPrepareBallots, processPromiseBallots,
           processAcceptBallots, processNackBallots DEF HandleMessage
<1>4. ASSUME NEW n \in CoreNodes, Follow(n)
      PROVE  BallotFacts
    <2>1. ASSUME NEW m \in CoreNodes, NEW s \in Slot,
                 handleInstructionData(n, m, s)
          PROVE  BallotFacts
        BY <2>1, QuietBallots DEF handleInstructionData, historyVars
    <2>2. ASSUME NEW m \in CoreNodes, handleFirstUnapplied(n, m)
          PROVE  BallotFacts
        BY <2>2, QuietBallots
           DEF handleFirstUnapplied, leaderVars, historyVars
    <2> QED
        BY <1>4, <2>1, <2>2, handleLeaderBallots DEF Follow
<1>5. CASE UNCHANGED vars
    BY <1>5, QuietBallots DEF vars, leaderVars, historyVars
<1> QED
    BY <1>1, <1>2, <1>3, <1>4, <1>5 DEF Next
-----------------------------------------------------------------------------
(* The four kinds of step keep the proposals in order.                     *)
LEMMA BallotsInOrderStep ==
    ASSUME TypeOK, TypeOK', BallotsInOrder, [Next]_vars
    PROVE  BallotsInOrder'
<1>1. PICK n \in CoreNodes :
          /\ BallotStep(n)
          /\ Attempts(n) \/ IsPromised(n) \/ Proposes(n) \/ Learns(n)
    BY NextBallots DEF BallotFacts, BallotsInOrder
<1>2. /\ Seen \subseteq Proposal
      /\ Seen' \subseteq Seen \cup {proposal'[n]}
      /\ proposal[n] \in Proposal /\ proposal'[n] \in Proposal
      /\ n \in Nat
      /\ \A k \in CoreNodes : proposal[k] \in Proposal
      /\ \A k \in CoreNodes : proposal'[k] \in Proposal
    BY <1>1, SeenTypes, SeenStep, CoreNodesAssumption DEF TypeOK
<1>3. /\ \A k \in CoreNodes \ {n} :
            /\ proposal'[k] = proposal[k]
            /\ amLeader'[k] = amLeader[k]
            /\ receivedPromises'[k] = receivedPromises[k]
            /\ nextProposalSlot'[k] = nextProposalSlot[k]
      /\ CompareProposals(proposal'[n], proposal[n])
      /\ proposals \subseteq proposals'
      /\ \A x \in proposals' \ proposals : x[1] = proposal'[n]
    BY <1>1 DEF BallotStep
<1>4. /\ \A p \in Seen, k \in CoreNodes :
            p[2] = k => CompareProposals(proposal[k], p)
      /\ \A k \in CoreNodes, x \in proposals :
            x[1] = proposal[k] /\ x[1][2] = k
            => /\ receivedPromises[k] = {}
               /\ amLeader[k] => x[2] < nextProposalSlot[k]
      /\ \A k \in CoreNodes : amLeader[k] => proposal[k][2] = k
      /\ \A a, b \in proposals : a[1] = b[1] /\ a[2] = b[2] => a[3] = b[3]
      /\ \A k \in CoreNodes : amLeader[k] => receivedPromises[k] = {}
      /\ \A x \in proposals : x[1] \in Seen
    BY SeenFacts DEF BallotsInOrder, OwnHighest, ProposesOnce,
                     LeaderOwnsProposal, OneProposalPerSlot

<1>13. ASSUME Attempts(n)
       PROVE  /\ proposal'[n][2] = n
              /\ \A p \in Seen : p # proposal'[n]
    <2>1. proposal'[n] = <<proposal[n][1] + 1, n>>
        BY <1>13 DEF Attempts
    <2>2. \A p \in Seen : p[2] = n => p[1] <= proposal[n][1]
        BY <1>2, <1>4 DEF CompareProposals, Proposal
    <2>3. proposal[n][1] \in Nat
        BY <1>2 DEF Proposal
    <2> QED
        BY <2>1, <2>2, <2>3
<1>14. ASSUME IsPromised(n) \/ Proposes(n)
       PROVE  proposal'[n][2] = n /\ proposal'[n] \in Seen
    BY <1>4, <1>14, SeenFacts DEF IsPromised, Proposes
<1>5. proposal'[n] \in Seen \/ proposal'[n][2] = n
    BY <1>1, <1>13, <1>14 DEF Learns
<1>6. OwnHighest'
    <2> SUFFICES ASSUME NEW p \in Seen', NEW k \in CoreNodes, p[2] = k
                 PROVE  CompareProposals(proposal'[k], p)
        BY DEF OwnHighest
    <2>1. p \in Proposal
        BY <1>2
    <2>2. CASE p \in Seen
        <3>1. CompareProposals(proposal[k], p)
            BY <1>4, <2>2
        <3>2. CompareProposals(proposal'[k], proposal[k])
            BY <1>2, <1>3, ProposalOrder
        <3> QED
            BY <1>2, <2>1, <3>1, <3>2, ProposalOrder
    <2>3. CASE p \notin Seen
        <3>1. p = proposal'[n] /\ k = n
            BY <1>2, <1>5, <2>3
        <3> QED
            BY <1>2, <3>1, ProposalOrder
    <2> QED
        BY <2>2, <2>3
<1>7. PromisesToLeader'
    BY <1>1 DEF BallotsInOrder, PromisesToLeader, BallotStep
<1>8. LeaderOwnsProposal'
    <2> SUFFICES ASSUME NEW k \in CoreNodes, amLeader'[k]
                 PROVE  proposal'[k][2] = k
        BY DEF LeaderOwnsProposal
    <2>1. CASE k # n
        BY <1>3, <1>4, <2>1
    <2>2. CASE k = n /\ Learns(n)
        BY <1>4, <2>2 DEF Learns
    <2> QED
        BY <1>1, <1>13, <1>14, <2>1, <2>2
<1>9. ASSUME Learns(n), NEW p \in Seen, p = proposal'[n], p[2] = n
      PROVE  proposal'[n] = proposal[n]
    <2>1. CompareProposals(proposal[n], p)
        BY <1>4, <1>9
    <2> QED
        BY <1>2, <1>3, <1>9, <2>1, ProposalOrder
<1>10. ProposesOnce'
    <2> SUFFICES ASSUME NEW k \in CoreNodes, NEW x \in proposals',
                        x[1] = proposal'[k], x[1][2] = k
                 PROVE  /\ receivedPromises'[k] = {}
                        /\ amLeader'[k] => x[2] < nextProposalSlot'[k]
        BY DEF ProposesOnce
    <2>1. CASE k # n
        <3>1. x \in proposals
            BY <1>1, <1>3, <1>13, <1>14, <2>1 DEF Learns
        <3> QED
            BY <1>3, <1>4, <2>1, <3>1
    <2>2. CASE k = n /\ Attempts(n)
        <3>1. x \notin proposals
            BY <1>4, <1>13, <2>2
        <3> QED
            BY <2>2, <3>1 DEF Attempts, LeadsOrWaits
    <2>3. CASE k = n /\ IsPromised(n)
        <3>1. x \notin proposals
            BY <1>4, <2>3 DEF IsPromised
        <3> QED
            BY <2>3, <3>1 DEF IsPromised, LeadsOrWaits
    <2>4. CASE k = n /\ Proposes(n)
        <3>1. /\ receivedPromises'[n] = {}
              /\ nextProposalSlot'[n] = nextProposalSlot[n] + 1
              /\ nextProposalSlot[n] \in Nat
            BY <1>4, <2>4 DEF Proposes, TypeOK
        <3>2. x[2] \in Nat /\ x[2] <= nextProposalSlot[n]
            <4>1. CASE x \in proposals
                <5>1. x[2] \in Slot
                    BY <4>1 DEF TypeOK
                <5>2. x[2] < nextProposalSlot[n]
                    BY <1>4, <2>4, <4>1 DEF Proposes
                <5> QED
                    BY <3>1, <5>1, <5>2, LogAssumption DEF Slot
            <4>2. CASE x \notin proposals
                BY <2>4, <3>1, <4>2 DEF Proposes
            <4> QED
                BY <4>1, <4>2
        <3> QED
            BY <2>4, <3>1, <3>2
    <2>5. CASE k = n /\ Learns(n)
        <3>1. x \in proposals
            BY <2>5 DEF Learns
        <3>2. proposal'[n] = proposal[n]
            BY <1>4, <1>9, <2>5, <3>1
        <3>3. /\ receivedPromises[n] = {}
              /\ amLeader[n] => x[2] < nextProposalSlot[n]
            BY <1>4, <2>5, <3>1, <3>2
        <3> QED
            BY <2>5, <3>3 DEF Learns
    <2> QED
        BY <1>1, <2>1, <2>2, <2>3, <2>4, <2>5
<1>11. OneProposalPerSlot'
    <2> SUFFICES ASSUME NEW a \in proposals', NEW b \in proposals',
                        a[1] = b[1], a[2] = b[2]
                 PROVE  a[3] = b[3]
        BY DEF OneProposalPerSlot
    <2>1. CASE a \in proposals /\ b \in proposals
        BY <1>4, <2>1
    <2>2. CASE Learns(n)
        BY <1>4, <2>2 DEF Learns
    <2>3. CASE Attempts(n) \/ IsPromised(n)
        <3>1. LeadsOrWaits(n)
            BY <2>3 DEF Attempts, IsPromised
        <3>2. \A x \in proposals : x[1] # proposal'[n]
            <4>1. CASE Attempts(n)
                BY <1>4, <1>13, <4>1
            <4>2. CASE IsPromised(n)
                BY <1>4, <4>2 DEF IsPromised
            <4> QED
                BY <2>3, <4>1, <4>2
        <3>3. CASE a \notin proposals /\ b \notin proposals
            BY <3>1, <3>3 DEF LeadsOrWaits
        <3>4. CASE a \in proposals /\ b \notin proposals
            BY <1>3, <3>2, <3>4
        <3>5. CASE a \notin proposals /\ b \in proposals
            BY <1>3, <3>2, <3>5
        <3> QED
            BY <2>1, <3>3, <3>4, <3>5
    <2>4. CASE Proposes(n)
        <3>1. \A x \in proposals : x[1] = proposal[n] => x[2] # nextProposalSlot[n]
            <4> SUFFICES ASSUME NEW x \in proposals, x[1] = proposal[n]
                         PROVE  x[2] # nextProposalSlot[n]
                OBVIOUS
            <4>1. x[2] < nextProposalSlot[n]
                BY <1>4, <2>4 DEF Proposes
            <4>2. x[2] \in Nat /\ nextProposalSlot[n] \in Nat
                BY LogAssumption DEF TypeOK, Slot
            <4> QED
                BY <4>1, <4>2
        <3>2. PICK r \in Request :
                 proposals' =
                   proposals \cup {<<proposal[n], nextProposalSlot[n], r>>}
            BY <2>4 DEF Proposes
        <3> QED
            BY <2>1, <3>1, <3>2
    <2> QED
        BY <1>1, <2>2, <2>3, <2>4
<1>12. \A k \in CoreNodes : amLeader'[k] => receivedPromises'[k] = {}
    <2> SUFFICES ASSUME NEW k \in CoreNodes, amLeader'[k]
                 PROVE  receivedPromises'[k] = {}
        OBVIOUS
    <2>1. CASE k # n
        BY <1>3, <1>4, <2>1
    <2>2. CASE k = n /\ (Learns(n) \/ Proposes(n))
        BY <1>4, <2>2 DEF Learns, Proposes
    <2>3. CASE k = n /\ (Attempts(n) \/ IsPromised(n))
        BY <1>4, <2>3 DEF Attempts, IsPromised, LeadsOrWaits
    <2> QED
        BY <1>1, <2>1, <2>2, <2>3
<1> QED
    BY <1>6, <1>7, <1>8, <1>10, <1>11, <1>12 DEF BallotsInOrder

LEMMA BallotsInOrderInit == Init => BallotsInOrder
<1> SUFFICES ASSUME Init PROVE BallotsInOrder
    OBVIOUS
<1>1. Seen = {NoProposal}
    BY CoreNodesAssumption DEF Init, Seen
<1>2. \A n \in CoreNodes : n # 0
    BY CoreNodesAssumption
<1>3. OwnHighest
    BY <1>1, <1>2 DEF OwnHighest, NoProposal
<1> QED
    BY <1>3 DEF Init, BallotsInOrder, PromisesToLeader, ProposesOnce,
                LeaderOwnsProposal, OneProposalPerSlot

(* Proposals stay in order.                                                *)
THEOREM BallotsStayInOrder == Spec => []BallotsInOrder
<1>1. Init => BallotsInOrder
    BY BallotsInOrderInit
<1>2. TypeOK /\ TypeOK' /\ BallotsInOrder /\ [Next]_vars => BallotsInOrder'
    BY BallotsInOrderStep
<1> QED
    BY <1>1, <1>2, TypeCorrect, PTL DEF Spec

(* A leader owns its proposal, and proposes one request per slot under it. *)
THEOREM LeadersOwnProposals ==
    Spec => [](LeaderOwnsProposal /\ OneProposalPerSlot)
<1>1. BallotsInOrder => LeaderOwnsProposal /\ OneProposalPerSlot
    BY DEF BallotsInOrder
<1> QED
    BY <1>1, BallotsStayInOrder, PTL

(* However often a node leads, no two requests are proposed for one slot   *)
(* under one proposal.                                                     *)
THEOREM OneProposal == Spec => []OneProposalPerSlot
    BY LeadersOwnProposals, PTL

(* The proposal of a node never decreases.                                 *)
THEOREM ProposalsOnlyRise == Spec => ProposalsRise
<1>1. TypeOK /\ BallotsInOrder /\ [Next]_vars
      => [\A n \in CoreNodes : CompareProposals(proposal'[n], proposal[n])]_vars
    <2> SUFFICES ASSUME TypeOK, BallotsInOrder, [Next]_vars,
                        NEW k \in CoreNodes
                 PROVE  CompareProposals(proposal'[k], proposal[k])
        OBVIOUS
    <2>1. PICK n \in CoreNodes : BallotStep(n)
        BY NextBallots DEF BallotFacts, BallotsInOrder
    <2>2. CompareProposals(proposal[k], proposal[k])
        BY ProposalOrder DEF TypeOK
    <2> QED
        BY <2>1, <2>2 DEF BallotStep
<1> QED
    BY <1>1, TypeCorrect, BallotsStayInOrder, PTL DEF Spec, ProposalsRise

(* A node never accepts under a proposal below one it promised.            *)
THEOREM PromisesAreKept == Spec => PromisesKept
<1>1. TypeOK /\ BallotsInOrder /\ [Next]_vars
      => [\A v \in votes' \ votes :
             CompareProposals(v.proposal, proposal[v.node])]_vars
    <2> SUFFICES ASSUME TypeOK, BallotsInOrder, [Next]_vars,
                        NEW v \in votes' \ votes
                 PROVE  CompareProposals(v.proposal, proposal[v.node])
        OBVIOUS
    <2>1. PICK n \in CoreNodes : BallotStep(n)
        BY NextBallots DEF BallotFacts, BallotsInOrder
    <2> QED
        BY <2>1 DEF BallotStep
<1> QED
    BY <1>1, TypeCorrect, BallotsStayInOrder, PTL DEF Spec, PromisesKept

-----------------------------------------------------------------------------
(* The timeouts of proposals.                                              *)

(* What every step of node n does to proposals and their timeouts: it does *)
(* not lead afterwards, or it has canceled timeouts for chosen requests    *)
(* only, having added one for each proposal it has just made.              *)
Watches(n, pairs, timeouts) ==
    /\ proposals' = proposals \cup {<<proposal'[n], sr[1], sr[2]>> : sr \in pairs}
    /\ \A s \in Slot : \/ <<s, timeouts[s]>> \in pairs
                       \/ /\ timeouts[s] = proposalTimeouts[n][s]
                          /\ \A sr \in pairs : sr[1] # s
    /\ CanceledForChosen(n, timeouts)

TimeoutStep(n) ==
    /\ \A k \in CoreNodes \ {n} : proposalTimeouts'[k] = proposalTimeouts[k]
    /\ crashed \subseteq crashed'
    /\ \/ ~amLeader'[n] /\ proposals' = proposals
       \/ CanceledForChosen(n, proposalTimeouts[n]) /\ proposals' = proposals
       \/ amLeader'[n] /\ \E pairs, timeouts : Watches(n, pairs, timeouts)

TimeoutFacts == \E n \in CoreNodes : TimeoutStep(n)

-----------------------------------------------------------------------------
(* Storing leaves other nodes alone, and cancels for what is chosen.       *)
LEMMA StoreTimeouts ==
    ASSUME TypeOK, NEW n \in CoreNodes, NEW log2 \in Log,
           NEW timeouts \in [Slot -> Request \cup {None}],
           Store(n, log2, timeouts)
    PROVE  /\ \A k \in CoreNodes \ {n} : proposalTimeouts'[k] = proposalTimeouts[k]
           /\ CanceledForChosen(n, timeouts)
<1>1. PICK new \in NewStarts(n, log[n], log2, nodeFirstUnapplied[n]) :
          log' = [log EXCEPT ![n] = [log2 EXCEPT !.start = new]]
    BY DEF Store
<1>2. /\ log \in [CoreNodes -> Log]
      /\ proposalTimeouts \in [CoreNodes -> [Slot -> Request \cup {None}]]
    BY DEF TypeOK
<1>3. log'[n].chosen = log2.chosen
    BY <1>1, <1>2 DEF Log
<1>4. \A s \in Slot : \/ proposalTimeouts'[n][s] = timeouts[s]
                      \/ log2.chosen[s] = timeouts[s]
    BY <1>2 DEF Store
<1>5. \A k \in CoreNodes \ {n} : proposalTimeouts'[k] = proposalTimeouts[k]
    BY <1>2 DEF Store
<1> QED
    BY <1>3, <1>4, <1>5 DEF CanceledForChosen

(* Accepting under p: nodes that have panicked stay so.                    *)
LEMMA addAcceptTimeouts ==
    ASSUME TypeOK, NEW n \in CoreNodes, NEW p \in Proposal,
           NEW pairs \in SUBSET (Slot \X Request),
           NEW timeouts \in [Slot -> Request \cup {None}],
           NEW inFlight, NEW out,
           addAccept(n, p, pairs, timeouts, inFlight, out)
    PROVE  /\ \A k \in CoreNodes \ {n} : proposalTimeouts'[k] = proposalTimeouts[k]
           /\ CanceledForChosen(n, timeouts)
           /\ crashed \subseteq crashed'
<1>1. CASE Discarded(log[n], pairs) = {}
    <2>1. /\ Store(n, addAccepted(log[n], n, pairs), timeouts)
          /\ crashed' = crashed
        BY <1>1 DEF addAccept
    <2>2. addAccepted(log[n], n, pairs) \in Log
        BY addAcceptedFacts DEF TypeOK
    <2> QED
        BY <2>1, <2>2, StoreTimeouts
<1>2. CASE Discarded(log[n], pairs) # {}
    BY <1>2 DEF addAccept, TypeOK, CanceledForChosen
<1> QED
    BY <1>1, <1>2

(* Proposing pairs of distinct slots adds a timeout for each.              *)
LEMMA sendProposalsTimeouts ==
    ASSUME TypeOK, NEW n \in CoreNodes, NEW p \in Proposal,
           NEW pairs \in SUBSET (Slot \X Request), NEW inFlight,
           sendProposals(n, p, pairs, inFlight),
           p = proposal'[n], amLeader'[n]
    PROVE  TimeoutStep(n)
<1> DEFINE timeouts ==
             [s \in Slot |-> IF \E sr \in pairs : sr[1] = s
                             THEN (CHOOSE sr \in pairs : sr[1] = s)[2]
                             ELSE proposalTimeouts[n][s]]
<1>1. timeouts \in [Slot -> Request \cup {None}]
    BY DEF TypeOK
<1>2. ASSUME NEW s \in Slot
      PROVE  \/ <<s, timeouts[s]>> \in pairs
             \/ /\ timeouts[s] = proposalTimeouts[n][s]
                /\ \A sr \in pairs : sr[1] # s
    <2>1. CASE \E sr \in pairs : sr[1] = s
        <3> DEFINE chosen == CHOOSE sr \in pairs : sr[1] = s
        <3>1. chosen \in pairs /\ chosen[1] = s
            BY <2>1
        <3>2. timeouts[s] = chosen[2]
            BY <2>1
        <3> HIDE DEF chosen, timeouts
        <3>3. chosen = <<chosen[1], chosen[2]>>
            BY <3>1
        <3> QED
            BY <3>1, <3>2, <3>3
    <2>2. CASE ~\E sr \in pairs : sr[1] = s
        BY <2>2
    <2> QED
        BY <2>1, <2>2
<1>3. /\ addAccept(n, p, pairs, timeouts, inFlight,
                   InstructionMsgs(n, "Accept", p, pairs))
      /\ proposals' = proposals \cup {<<p, sr[1], sr[2]>> : sr \in pairs}
    BY DEF sendProposals
<1> HIDE DEF timeouts
<1>4. /\ \A k \in CoreNodes \ {n} : proposalTimeouts'[k] = proposalTimeouts[k]
      /\ CanceledForChosen(n, timeouts)
      /\ crashed \subseteq crashed'
    BY <1>1, <1>3, addAcceptTimeouts
<1>5. Watches(n, pairs, timeouts)
    BY <1>2, <1>3, <1>4 DEF Watches
<1> QED
    BY <1>4, <1>5 DEF TimeoutStep

(* Promising: n leads and proposes, or goes on waiting.                    *)
LEMMA addPromiseTimeouts ==
    ASSUME TypeOK, NEW n \in CoreNodes, NEW m \in CoreNodes,
           NEW p \in Proposal, NEW requests \in Seq(Request), NEW inFlight,
           addPromise(n, m, p, requests, inFlight), p = proposal'[n]
    PROVE  TimeoutStep(n)
<1>1. CASE BecomeLeader(n, p, requests, inFlight)
    <2> DEFINE pairs == WaitingProposals(n, requests)
    <2>1. /\ log[n].firstUnapplied + Len(requests) <= LastSlot + 1
          /\ amLeader' = [amLeader EXCEPT ![n] = TRUE]
          /\ sendProposals(n, p, pairs, inFlight)
        BY <1>1 DEF BecomeLeader
    <2>2. pairs \in SUBSET (Slot \X Request)
        BY <2>1, WaitingProposalsFacts
    <2>3. amLeader'[n]
        BY <2>1 DEF TypeOK
    <2> HIDE DEF pairs
    <2> QED
        BY <2>1, <2>2, <2>3, sendProposalsTimeouts
<1>2. CASE ~Majority(receivedPromises[n] \cup {m})
    <2>1. UNCHANGED <<proposalTimeouts, crashed, proposals>>
        BY <1>2 DEF addPromise, historyVars
    <2> QED
        BY <2>1 DEF TimeoutStep, CanceledForChosen
<1> QED
    BY <1>1, <1>2 DEF addPromise

-----------------------------------------------------------------------------
(* One lemma per kind of step.                                             *)
(* Nothing is proposed, canceled or chosen.                                *)
LEMMA QuietTimeouts ==
    ASSUME UNCHANGED <<proposalTimeouts, crashed, proposals>>
    PROVE  TimeoutFacts
<1>1. PICK n \in CoreNodes : TRUE
    BY CoreNodesAssumption
<1>2. TimeoutStep(n)
    BY DEF TimeoutStep, CanceledForChosen
<1> QED
    BY <1>2 DEF TimeoutFacts

(* A node may stop leading: its timeouts go, and that is all.              *)
LEMMA ResignTimeouts ==
    ASSUME TypeOK, NEW n \in CoreNodes, NEW p,
           stopBeingLeader(n) \/ ResignIfDeposed(n, p),
           UNCHANGED <<crashed, proposals>>
    PROVE  TimeoutFacts
<1>1. CASE stopBeingLeader(n)
    <2>1. /\ ~amLeader'[n]
          /\ \A k \in CoreNodes \ {n} : proposalTimeouts'[k] = proposalTimeouts[k]
        BY <1>1 DEF stopBeingLeader, TypeOK
    <2> QED
        BY <2>1 DEF TimeoutStep, TimeoutFacts
<1>2. CASE UNCHANGED leaderVars
    BY <1>2, QuietTimeouts DEF leaderVars
<1> QED
    BY <1>1, <1>2 DEF ResignIfDeposed

(* What is stored was proposed by another node.                            *)
LEMMA LearnTimeouts ==
    ASSUME TypeOK, NEW n \in CoreNodes, NEW log2 \in Log,
           \/ Store(n, log2, proposalTimeouts[n]) /\ crashed' = crashed
           \/ crashed' = crashed \cup {n} /\ UNCHANGED <<log, proposalTimeouts>>,
           proposals' = proposals
    PROVE  TimeoutFacts
<1>1. proposalTimeouts[n] \in [Slot -> Request \cup {None}]
    BY DEF TypeOK
<1>2. TimeoutStep(n)
    <2>1. CASE Store(n, log2, proposalTimeouts[n]) /\ crashed' = crashed
        <3> DEFINE timeouts == proposalTimeouts[n]
        <3> HIDE DEF timeouts
        <3>1. timeouts \in [Slot -> Request \cup {None}]
              /\ Store(n, log2, timeouts)
            BY <1>1, <2>1 DEF timeouts
        <3>2. /\ \A k \in CoreNodes \ {n} :
                    proposalTimeouts'[k] = proposalTimeouts[k]
              /\ CanceledForChosen(n, timeouts)
            BY <3>1, StoreTimeouts
        <3> QED
            BY <2>1, <3>2 DEF TimeoutStep, timeouts
    <2>2. CASE crashed' = crashed \cup {n} /\ UNCHANGED <<log, proposalTimeouts>>
        BY <2>2 DEF TimeoutStep, CanceledForChosen
    <2> QED
        BY <2>1, <2>2
<1> QED
    BY <1>2 DEF TimeoutFacts

LEMMA StartAttemptTimeouts ==
    ASSUME TypeOK, NEW n \in CoreNodes, NEW r \in Request, StartAttempt(n, r)
    PROVE  TimeoutFacts
<1> DEFINE p == NextProposal(n)
           requests == Append(waitingRequests[n], r)
           inFlight == msgs \cup PrepareMsgs(n, p)
<1>1. /\ SetProposal(n, p)
      /\ addPromise(n, n, p, requests, inFlight)
    BY DEF StartAttempt
<1>2. /\ p \in Proposal
      /\ requests \in Seq(Request)
    BY CoreNodesAssumption DEF TypeOK, Proposal, NextProposal
<1> HIDE DEF p, requests, inFlight
<1>3. proposal'[n] = p
    BY <1>1, <1>2, SetProposalFacts
<1> QED
    BY <1>1, <1>2, <1>3, addPromiseTimeouts DEF TimeoutFacts

LEMMA ProposeChangeTimeouts ==
    ASSUME TypeOK, NEW n \in CoreNodes, NEW r \in Request, ProposeChange(n, r)
    PROVE  TimeoutFacts
<1> DEFINE pairs == {<<nextProposalSlot[n], r>>}
<1>1. /\ amLeader[n]
      /\ nextProposalSlot[n] <= LastSlot
      /\ sendProposals(n, proposal[n], pairs, msgs)
      /\ UNCHANGED <<proposal, amLeader>>
    BY DEF ProposeChange
<1>2. /\ pairs \in SUBSET (Slot \X Request)
      /\ proposal[n] \in Proposal
    BY <1>1, LogAssumption DEF TypeOK, Slot
<1> HIDE DEF pairs
<1> QED
    BY <1>1, <1>2, sendProposalsTimeouts DEF TimeoutFacts

LEMMA processPromiseTimeouts ==
    ASSUME TypeOK, NEW m \in msgs, processPromise(m)
    PROVE  TimeoutFacts
<1> DEFINE n == m.to
<1>1. /\ m.from \in CoreNodes
      /\ n \in CoreNodes
      /\ m.proposal \in Proposal
      /\ waitingRequests[n] \in Seq(Request)
    BY MessageFacts DEF TypeOK
<1>2. /\ addPromise(n, m.from, m.proposal, waitingRequests[n], msgs \ {m})
      /\ m.proposal = proposal'[n]
    BY DEF processPromise
<1> HIDE DEF n
<1> QED
    BY <1>1, <1>2, addPromiseTimeouts DEF TimeoutFacts

LEMMA processAcceptTimeouts ==
    ASSUME TypeOK, NEW m \in msgs, processAccept(m)
    PROVE  TimeoutFacts
<1> DEFINE n == m.to
           earlier == EarlierProposal(n, m.proposal)
           deposed == /\ m.proposal # proposal[n]
                      /\ amLeader[n] /\ m.proposal[2] # n
           pairs == {<<m.slot, m.request>>}
           timeouts == IF deposed THEN [s \in Slot |-> None]
                                  ELSE proposalTimeouts[n]
<1>1. /\ n \in CoreNodes
      /\ m.proposal \in Proposal
      /\ pairs \in SUBSET (Slot \X Request)
      /\ timeouts \in [Slot -> Request \cup {None}]
    <2>1. /\ n \in CoreNodes
          /\ m.proposal \in Proposal
          /\ pairs \in SUBSET (Slot \X Request)
        <3>1. m \in Message /\ m.type = "Accept"
            BY DEF TypeOK, processAccept, Receive
        <3>2. /\ m.to \in CoreNodes /\ m.proposal \in Proposal
              /\ m.slot \in Slot /\ m.request \in Request
            BY <3>1, MessageFacts
        <3> QED
            BY <3>2
    <2>2. proposalTimeouts[n] \in [Slot -> Request \cup {None}]
        BY <2>1 DEF TypeOK
    <2> QED
        BY <2>1, <2>2
<1>2. proposals' = proposals
    BY DEF processAccept
<1>3. CASE earlier
    BY <1>2, <1>3, QuietTimeouts DEF processAccept
<1>4. CASE ~earlier
    <2>1. addAccept(n, m.proposal, pairs, timeouts, msgs \ {m}, {})
        BY <1>4 DEF processAccept
    <2>2. deposed => ~amLeader'[n]
        BY <1>1, <1>4 DEF processAccept, TypeOK
    <2>3. ~deposed => timeouts = proposalTimeouts[n]
        OBVIOUS
    <2> HIDE DEF n, pairs, timeouts, deposed
    <2>4. /\ \A k \in CoreNodes \ {n} : proposalTimeouts'[k] = proposalTimeouts[k]
          /\ CanceledForChosen(n, timeouts)
          /\ crashed \subseteq crashed'
        BY <1>1, <2>1, addAcceptTimeouts
    <2>5. TimeoutStep(n)
        BY <1>2, <2>2, <2>3, <2>4 DEF TimeoutStep
    <2> QED
        BY <1>1, <2>5 DEF TimeoutFacts
<1> QED
    BY <1>3, <1>4

LEMMA processAcceptedTimeouts ==
    ASSUME TypeOK, NEW m \in msgs, processAccepted(m)
    PROVE  TimeoutFacts
<1> DEFINE n == m.to
           pairs == {<<m.slot, m.request>>}
           log2 == addAccepted(log[n], m.from, pairs)
<1>1. /\ n \in CoreNodes
      /\ m.from \in CoreNodes
      /\ pairs \in SUBSET (Slot \X Request)
    BY MessageFacts DEF TypeOK, processAccepted, Receive
<1>2. log2 \in Log
    <2> HIDE DEF n, pairs
    <2> QED
        BY <1>1, addAcceptedFacts DEF TypeOK
<1>3. /\ proposals' = proposals
      /\ \/ Store(n, log2, proposalTimeouts[n]) /\ crashed' = crashed
         \/ crashed' = crashed \cup {n} /\ UNCHANGED <<log, proposalTimeouts>>
    BY DEF processAccepted, historyVars
<1> HIDE DEF n, log2
<1> QED
    BY <1>1, <1>2, <1>3, LearnTimeouts

LEMMA handleInstructionDataTimeouts ==
    ASSUME TypeOK, NEW n \in CoreNodes, NEW m \in CoreNodes,
           NEW s \in Slot, handleInstructionData(n, m, s)
    PROVE  TimeoutFacts
<1> DEFINE new == [t \in {s} |-> log[m].chosen[s]]
           log2 == Choose(log[n], new)
<1>1. log[n] \in Log /\ log[m].chosen[s] \in Request
    BY DEF handleInstructionData, IsChosen, TypeOK, Log
<1>2. DOMAIN new \subseteq Slot /\ \A t \in DOMAIN new : new[t] \in Request
    BY <1>1
<1>3. log2 \in Log
    <2> HIDE DEF new
    <2> QED
        BY <1>1, <1>2, ChooseFacts
<1>4. /\ proposals' = proposals
      /\ \/ Store(n, log2, proposalTimeouts[n]) /\ crashed' = crashed
         \/ crashed' = crashed \cup {n} /\ UNCHANGED <<log, proposalTimeouts>>
    BY DEF handleInstructionData, historyVars
<1> HIDE DEF log2
<1> QED
    BY <1>3, <1>4, LearnTimeouts

LEMMA NextTimeouts ==
    ASSUME TypeOK, [Next]_vars
    PROVE  TimeoutFacts
<1>1. ASSUME NEW n \in CoreNodes, HandleChange(n)
      PROVE  TimeoutFacts
    <2>1. ASSUME NEW r \in Request, QueueChange(n, r)
          PROVE  TimeoutFacts
        BY <2>1, QuietTimeouts DEF QueueChange, storeVars, historyVars
    <2> QED
        BY <1>1, <2>1, StartAttemptTimeouts, ProposeChangeTimeouts
           DEF HandleChange
<1>2. ASSUME NEW n \in CoreNodes, NEW s \in Slot, ProposalTimeout(n, s)
      PROVE  TimeoutFacts
    BY <1>2, ResignTimeouts DEF ProposalTimeout, storeVars, historyVars
<1>3. ASSUME NEW m \in msgs, HandleMessage(m)
      PROVE  TimeoutFacts
    <2>1. m.to \in CoreNodes
        BY MessageFacts DEF TypeOK
    <2>2. ASSUME processPrepare(m)
          PROVE  TimeoutFacts
        <3>1. UNCHANGED <<crashed, proposals>>
              /\ (ResignIfDeposed(m.to, m.proposal) \/ UNCHANGED leaderVars)
            BY <2>2 DEF processPrepare, storeVars, historyVars
        <3> QED
            BY <2>1, <3>1, ResignTimeouts, QuietTimeouts DEF leaderVars
    <2>3. ASSUME processNack(m)
          PROVE  TimeoutFacts
        BY <2>1, <2>3, ResignTimeouts DEF processNack, storeVars, historyVars
    <2> QED
        BY <1>3, <2>2, <2>3, processPromiseTimeouts, processAcceptTimeouts,
           processAcceptedTimeouts DEF HandleMessage
<1>4. ASSUME NEW n \in CoreNodes, Follow(n)
      PROVE  TimeoutFacts
    <2>1. ASSUME NEW m \in CoreNodes, handleLeader(n, m)
          PROVE  TimeoutFacts
        BY <2>1, ResignTimeouts DEF handleLeader, storeVars, historyVars
    <2>2. ASSUME NEW m \in CoreNodes, handleFirstUnapplied(n, m)
          PROVE  TimeoutFacts
        BY <2>2, QuietTimeouts DEF handleFirstUnapplied, leaderVars, historyVars
    <2> QED
        BY <1>4, <2>1, <2>2, handleInstructionDataTimeouts DEF Follow
<1>5. CASE UNCHANGED vars
    BY <1>5, QuietTimeouts DEF vars, leaderVars, storeVars, historyVars
<1> QED
    BY <1>1, <1>2, <1>3, <1>4, <1>5 DEF Next
-----------------------------------------------------------------------------
(* A node that leads after a step under a proposal that was proposed under *)
(* before led under that proposal already.                                 *)
LEMMA LedBefore ==
    ASSUME TypeOK, TypeOK', BallotsInOrder, [Next]_vars,
           NEW k \in CoreNodes, amLeader'[k],
           NEW x \in proposals, x[1] = proposal'[k]
    PROVE  amLeader[k] /\ proposal[k] = proposal'[k]
<1>1. PICK n \in CoreNodes :
          /\ BallotStep(n)
          /\ Attempts(n) \/ IsPromised(n) \/ Proposes(n) \/ Learns(n)
    BY NextBallots DEF BallotFacts, BallotsInOrder
<1>2. CASE k # n
    BY <1>1, <1>2 DEF BallotStep
<1>3. CASE k = n
    <2>1. /\ x[1] \in Seen /\ proposal[n] \in Proposal
          /\ x[1] \in Proposal /\ n \in Nat
        BY SeenFacts, CoreNodesAssumption DEF TypeOK
    <2>2. \A p \in Seen : p[2] = n => CompareProposals(proposal[n], p)
        BY DEF BallotsInOrder, OwnHighest
    <2>3. ~Attempts(n)
        <3> SUFFICES ASSUME Attempts(n) PROVE FALSE
            OBVIOUS
        <3>1. x[1] = <<proposal[n][1] + 1, n>>
            BY <1>3 DEF Attempts
        <3>2. CompareProposals(proposal[n], x[1])
            BY <2>1, <2>2, <3>1
        <3> QED
            BY <2>1, <3>1, <3>2 DEF CompareProposals, Proposal
    <2>4. ~IsPromised(n)
        BY <1>3 DEF IsPromised, BallotsInOrder, ProposesOnce
    <2>5. CASE Proposes(n)
        BY <1>3, <2>5 DEF Proposes
    <2>6. CASE Learns(n)
        <3>1. amLeader[n] /\ (proposal'[n] = proposal[n] \/ proposal'[n][2] = n)
            BY <1>3, <2>6 DEF Learns
        <3>2. ASSUME proposal'[n][2] = n
              PROVE  proposal'[n] = proposal[n]
            <4>1. CompareProposals(proposal[n], proposal'[n])
                BY <1>3, <2>1, <2>2, <3>2
            <4>2. CompareProposals(proposal'[n], proposal[n])
                BY <1>1 DEF BallotStep
            <4> QED
                BY <1>3, <2>1, <4>1, <4>2, ProposalOrder
        <3> QED
            BY <1>3, <3>1, <3>2
    <2> QED
        BY <1>1, <2>3, <2>4, <2>5, <2>6
<1> QED
    BY <1>2, <1>3

LEMMA ProposalsWatchedStep ==
    ASSUME TypeOK, AcceptedSent, BallotsInOrder, ProposalsWatched, [Next]_vars
    PROVE  ProposalsWatched'
<1>1. TypeOK' /\ LogStep
    BY NextStep DEF StepFacts
<1>2. LeaderOwnsProposal' /\ OneProposalPerSlot'
    BY <1>1, BallotsInOrderStep DEF BallotsInOrder
<1>3. PICK n \in CoreNodes : TimeoutStep(n)
    BY NextTimeouts DEF TimeoutFacts
<1> SUFFICES ASSUME NEW k \in CoreNodes, NEW s \in Slot, NEW r \in Request,
                    amLeader'[k], k \notin crashed',
                    <<proposal'[k], s, r>> \in proposals'
             PROVE  log'[k].chosen[s] = r \/ proposalTimeouts'[k][s] = r
    BY DEF ProposalsWatched
<1> DEFINE x == <<proposal'[k], s, r>>
<1>4. ASSUME x \in proposals
      PROVE  \/ log[k].chosen[s] = r /\ log'[k].chosen[s] = r
             \/ proposalTimeouts[k][s] = r
    <2>1. amLeader[k] /\ proposal[k] = proposal'[k]
        BY <1>1, <1>4, LedBefore
    <2>2. k \notin crashed
        BY <1>3 DEF TimeoutStep
    <2>3. log[k].chosen[s] = r \/ proposalTimeouts[k][s] = r
        BY <1>4, <2>1, <2>2 DEF ProposalsWatched
    <2>4. IsChosen(log[k], s) => log'[k].chosen[s] = log[k].chosen[s]
        BY <1>1 DEF LogStep, Grows
    <2> QED
        BY <2>3, <2>4, LogAssumption DEF IsChosen
<1>5. CASE proposals' = proposals /\ k = n
            /\ CanceledForChosen(n, proposalTimeouts[n])
    BY <1>4, <1>5 DEF CanceledForChosen
<1>6. CASE k # n
    <2>1. proposalTimeouts'[k] = proposalTimeouts[k]
        BY <1>3, <1>6 DEF TimeoutStep
    <2>2. x \in proposals
        <3> SUFFICES ASSUME x \notin proposals PROVE FALSE
            OBVIOUS
        <3>1. PICK pairs, timeouts : Watches(n, pairs, timeouts) /\ amLeader'[n]
            BY <1>3 DEF TimeoutStep
        <3>2. proposal'[k] = proposal'[n]
            BY <3>1 DEF Watches
        <3> QED
            BY <1>2, <1>6, <3>1, <3>2 DEF LeaderOwnsProposal
    <2> QED
        BY <1>4, <2>1, <2>2
<1>7. ASSUME k = n, NEW pairs, NEW timeouts, Watches(n, pairs, timeouts)
      PROVE  log'[k].chosen[s] = r \/ proposalTimeouts'[k][s] = r
    <2>1. \/ proposalTimeouts'[n][s] = timeouts[s]
          \/ log'[n].chosen[s] = timeouts[s]
        BY <1>7 DEF Watches, CanceledForChosen
    <2>2. CASE <<s, timeouts[s]>> \in pairs
        <3>1. <<proposal'[n], s, timeouts[s]>> \in proposals'
            BY <1>7, <2>2 DEF Watches
        <3>2. timeouts[s] = r
            BY <1>2, <1>7, <3>1 DEF OneProposalPerSlot
        <3> QED
            BY <1>7, <2>1, <3>2
    <2>3. CASE /\ timeouts[s] = proposalTimeouts[n][s]
               /\ \A sr \in pairs : sr[1] # s
        <3>1. x \in proposals
            BY <1>7, <2>3 DEF Watches
        <3> QED
            BY <1>4, <1>7, <2>1, <2>3, <3>1
    <2> QED
        BY <1>7, <2>2, <2>3 DEF Watches
<1> QED
    BY <1>3, <1>5, <1>6, <1>7 DEF TimeoutStep

(* A leader keeps the timeout of each proposal it made under its current   *)
(* proposal until it sees that very request chosen in the slot             *)
(* (addProposalTimeout and cancelProposalTimeout).                         *)
THEOREM LeadersWatchProposals == Spec => []ProposalsWatched
<1>1. Init => ProposalsWatched
    BY DEF Init, ProposalsWatched
<1>2. /\ TypeOK /\ AcceptedSent /\ BallotsInOrder /\ ProposalsWatched
      /\ [Next]_vars
      => ProposalsWatched'
    BY ProposalsWatchedStep
<1> QED
    BY <1>1, <1>2, TypeCorrect, BallotsStayInOrder, PTL DEF Spec
=============================================================================
