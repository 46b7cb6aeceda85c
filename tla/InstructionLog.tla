--------------------------- MODULE InstructionLog ---------------------------
(***************************************************************************)
(* The instruction slots that shared/store keeps on one core node, as a    *)
(* value, and the operations the rest of the node performs on it.          *)
(*                                                                         *)
(* A log is a record                                                       *)
(*   start           first slot kept; earlier ones have been discarded     *)
(*   firstUnapplied  first slot whose instruction is not applied yet       *)
(*   accepted        accepted[s][r]: the core nodes this node knows to     *)
(*                   have accepted request r in slot s.  The code has an   *)
(*                   InstructionValue for r in s exactly when this set is  *)
(*                   not empty                                             *)
(*   chosen          chosen[s]: the request chosen in slot s, or None.     *)
(*                   It is kept below start too, where the code has        *)
(*                   forgotten it, so that properties can mention it       *)
(*                                                                         *)
(* latestProposal and latestLeader are left out: the accepted list that    *)
(* processPrepare builds from them is never put in a message.              *)
(***************************************************************************)
EXTENDS Proposals

CONSTANTS
    Request,    \* change requests, told apart by (RequestNode, RequestId)
    None,       \* no request
    LastSlot,   \* bound: the highest slot number used
    SlotCap,    \* how far past start a slot may be (0xFFFF in the code)
    AgedSlots   \* bound: slots chosen long enough ago for a discard

ASSUME LogAssumption ==
    /\ None \notin Request
    /\ LastSlot \in Nat
    /\ SlotCap \in Nat
    /\ AgedSlots \subseteq 0 .. LastSlot

Slot == 0 .. LastSlot

Log == [start : 0 .. LastSlot + 1,
        firstUnapplied : 0 .. LastSlot + 1,
        accepted : [Slot -> [Request -> SUBSET CoreNodes]],
        chosen : [Slot -> Request \cup {None}]]

EmptyLog ==
    [start |-> 0,
     firstUnapplied |-> 0,
     accepted |-> [s \in Slot |-> [r \in Request |-> {}]],
     chosen |-> [s \in Slot |-> None]]

IsChosen(log, s) == log.chosen[s] # None

(* Mutant of tryApply: at most one instruction is applied.                 *)
tryApplyOne(chosen, from) ==
    IF from \in Slot /\ chosen[from] # None THEN from + 1 ELSE from

(* tryApply: instructions are applied in slot order while the next slot    *)
(* has a chosen one.  The result is the new firstUnapplied.                *)
tryApply(chosen, from) ==
    CHOOSE s \in from .. LastSlot + 1 :
        /\ \A t \in from .. s - 1 : chosen[t] # None
        /\ s \in Slot => chosen[s] = None

(* Choose: the values of newChosen (a function on some slots) become       *)
(* chosen, every other value of those slots is dropped, and what can be    *)
(* applied is applied.                                                     *)
Choose(log, newChosen) ==
    LET now == [s \in Slot |-> IF s \in DOMAIN newChosen THEN newChosen[s]
                                                         ELSE log.chosen[s]]
    IN  [log EXCEPT
           !.chosen = now,
           !.accepted = [s \in Slot |->
                            IF s \in DOMAIN newChosen
                            THEN [r \in Request |-> {}]
                            ELSE log.accepted[s]],
           !.firstUnapplied = tryApply(now, log.firstUnapplied)]

(* The slots of the proposals in pairs that can be recorded: those that    *)
(* AddInstructionValue does not find too far ahead.                        *)
WithinCap(log, pairs) == {sr \in pairs : sr[1] <= log.start + SlotCap}

(* The pairs in slots that have been discarded.  The code subtracts start  *)
(* from the slot and indexes with the negative result.                     *)
Discarded(log, pairs) == {sr \in pairs : sr[1] < log.start}

(* Mutant of addAccepted: the acceptances of any request in a slot count.  *)
addAcceptedOfSlot(log, id, pairs) ==
    LET open == {sr \in WithinCap(log, pairs) : ~IsChosen(log, sr[1])}
        added == [s \in Slot |-> [r \in Request |->
                    IF <<s, r>> \in open
                    THEN log.accepted[s][r] \cup {id}
                    ELSE log.accepted[s][r]]]
        won == {sr \in open :
                  Majority(UNION {added[sr[1]][r] : r \in Request})}
        newChosen == [s \in {sr[1] : sr \in won} |->
                        CHOOSE r \in Request : <<s, r>> \in won]
    IN  Choose([log EXCEPT !.accepted = added], newChosen)

(* addAccepted, for the acceptances by node id of the <<slot, request>>    *)
(* pairs (at most one per slot): those of slots with a chosen instruction  *)
(* are ignored, the others are added, and a value that a majority accepts  *)
(* is chosen.                                                              *)
addAccepted(log, id, pairs) ==
    LET open == {sr \in WithinCap(log, pairs) : ~IsChosen(log, sr[1])}
        added == [s \in Slot |-> [r \in Request |->
                    IF <<s, r>> \in open
                    THEN log.accepted[s][r] \cup {id}
                    ELSE log.accepted[s][r]]]
        won == {sr \in open : Majority(added[sr[1]][sr[2]])}
        newChosen == [s \in {sr[1] : sr \in won} |->
                        CHOOSE r \in Request : <<s, r>> \in won]
    IN  Choose([log EXCEPT !.accepted = added], newChosen)

(* Everything before the first unapplied slot is chosen, and it is not.    *)
AppliedToGap(log) ==
    /\ \A s \in Slot : s < log.firstUnapplied => IsChosen(log, s)
    /\ log.firstUnapplied \in Slot => ~IsChosen(log, log.firstUnapplied)

(* The slots chosen in the step from log to log2.                          *)
NewlyChosen(log, log2) ==
    {s \in Slot : log.chosen[s] = None /\ log2.chosen[s] # None}

(* Mutant of NewStarts: known[m] = s passes for having applied slot s.     *)
NewStartsEarly(id, log, log2, known) ==
    {log.start} \cup
    {new \in log2.start .. log2.firstUnapplied :
        /\ NewlyChosen(log, log2) # {}
        /\ \A s \in log2.start .. new - 1 :
              /\ s \in AgedSlots \ NewlyChosen(log, log2)
              /\ Majority({id} \cup {m \in CoreNodes \ {id} : known[m] >= s})}

(* The discard loop at the end of Choose, run by core node id that knows   *)
(* other nodes to have applied everything below known[m].  A slot can go   *)
(* when it is applied, was chosen long enough ago, and a majority of the   *)
(* core nodes is past it; a slot chosen in this very step is not old       *)
(* enough.  Without a newly chosen slot the loop does not run.             *)
NewStarts(id, log, log2, known) ==
    {log.start} \cup
    {new \in log2.start .. log2.firstUnapplied :
        /\ NewlyChosen(log, log2) # {}
        /\ \A s \in log2.start .. new - 1 :
              /\ s \in AgedSlots \ NewlyChosen(log, log2)
              /\ Majority({id} \cup {m \in CoreNodes \ {id} : known[m] > s})}
=============================================================================
