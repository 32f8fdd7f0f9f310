---------------------------- MODULE FifoChannel ----------------------------
(***************************************************************************)
(* What the hand-off between a receiving thread and a sending thread       *)
(* promises: packets come out in the order they went in, each at most      *)
(* once, none invented; the end marker is taken last and nothing follows   *)
(* it.  A packet the sending thread gave up on is recorded as lost.  When  *)
(* the session is aborted the sending thread may leave at any time and     *)
(* abandon what is in the channel; what is delivered until then is still   *)
(* in order and complete.                                                  *)
(***************************************************************************)
EXTENDS Naturals, Sequences

CONSTANTS Packets,   \* what can be put into the channel
          End        \* the marker that closes it (MAGIC_WORD_BANK), not a packet

VARIABLES chan,      \* accepted and not yet taken out, oldest first
          out,       \* delivered, in order
          lost,      \* given up
          ended,     \* the end marker was taken, or the session abandoned
          aborted    \* the session is being aborted

vars == <<chan, out, lost, ended, aborted>>

Init == /\ chan = <<>>
        /\ out = <<>>
        /\ lost = {}
        /\ ended = FALSE
        /\ aborted = FALSE

\* End is the last thing that is ever put in.
Closed == ended \/ \E i \in 1..Len(chan) : chan[i] = End

Put(x) == /\ ~Closed
          /\ chan' = Append(chan, x)
          /\ UNCHANGED <<out, lost, ended, aborted>>

Deliver == /\ chan # <<>>
           /\ Head(chan) # End
           /\ out' = Append(out, Head(chan))
           /\ chan' = Tail(chan)
           /\ UNCHANGED <<lost, ended, aborted>>

GiveUp == /\ chan # <<>>
          /\ Head(chan) # End
          /\ lost' = lost \union {Head(chan)}
          /\ chan' = Tail(chan)
          /\ UNCHANGED <<out, ended, aborted>>

TakeEnd == /\ chan = <<End>>
           /\ chan' = <<>>
           /\ ended' = TRUE
           /\ UNCHANGED <<out, lost, aborted>>

Abort == /\ ~aborted
         /\ aborted' = TRUE
         /\ UNCHANGED <<chan, out, lost, ended>>

Abandon == /\ aborted
           /\ ~ended
           /\ chan' = <<>>
           /\ ended' = TRUE
           /\ UNCHANGED <<out, lost, aborted>>

Next == \/ \E x \in Packets \union {End} : Put(x)
        \/ Deliver
        \/ GiveUp
        \/ TakeEnd
        \/ Abort
        \/ Abandon

Spec == Init /\ [][Next]_vars
=============================================================================
