----------------------------- MODULE MCConnection -----------------------------
(* Small instances of Connection for TLC.                                  *)
EXTENDS Connection

CONSTANTS Source, Sink

TwoEnds == {Source, Sink}
TheSource == {Source}

(* Six messages fill all that is between the ends; one goes the other way. *)
SixAndOne == [e \in TwoEnds |-> IF e = Source THEN 6 ELSE 1]
SixEach == [e \in TwoEnds |-> 6]
=============================================================================
