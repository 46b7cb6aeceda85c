--------------------------------- MODULE Link ---------------------------------
(***************************************************************************)
(* What a connection promises to the nodes at its two ends: each gets a    *)
(* prefix of what the other sent, in order and once, and getting stops     *)
(* for good.  Nothing says how long the prefix is.                         *)
(***************************************************************************)
EXTENDS Sequences, Integers

CONSTANTS End, Peer(_), Message

VARIABLES
    sent,       \* sent[e]: the messages that Send at e took
    got,        \* got[e]: the messages that came out at e
    ended       \* the ends where Received was found closed

vars == <<sent, got, ended>>

Init ==
    /\ sent = [e \in End |-> <<>>]
    /\ got = [e \in End |-> <<>>]
    /\ ended = {}

Send(e) ==
    /\ \E m \in Message : sent' = [sent EXCEPT ![e] = Append(@, m)]
    /\ UNCHANGED <<got, ended>>

Receive(e) ==
    LET next == Len(got[e]) + 1
    IN  /\ e \notin ended
        /\ next <= Len(sent[Peer(e)])
        /\ got' = [got EXCEPT ![e] = Append(@, sent[Peer(e)][next])]
        /\ UNCHANGED <<sent, ended>>

Finish(e) ==
    /\ ended' = ended \cup {e}
    /\ UNCHANGED <<sent, got>>

Next == \E e \in End : Send(e) \/ Receive(e) \/ Finish(e)

Spec == Init /\ [][Next]_vars
=============================================================================
