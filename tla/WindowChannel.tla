---------------------------- MODULE WindowChannel ----------------------------
(***************************************************************************)
(* What the tunnel between the two boxes promises a TCP channel: packets   *)
(* come out in the order they went in, each once, none left out, and the   *)
(* sender is never more than a window ahead of the receiver.  Packets are  *)
(* known by their position in the flow.                                    *)
(***************************************************************************)
EXTENDS Naturals, Sequences

CONSTANT Size        \* packets that may be accepted and not yet delivered

VARIABLES accepted,  \* how many packets went in
          out        \* the packets that came out

vars == <<accepted, out>>

Init == accepted = 0 /\ out = <<>>

Accept == /\ accepted - Len(out) < Size
          /\ accepted' = accepted + 1
          /\ UNCHANGED out

\* A packet that fills a gap takes those behind it along.
Deliver == /\ \E n \in (Len(out) + 1)..accepted : out' = [i \in 1..n |-> i - 1]
           /\ UNCHANGED accepted

Next == Accept \/ Deliver

Spec == Init /\ [][Next]_vars
=============================================================================
