---------------------------- MODULE BoundedFifo ----------------------------
(***************************************************************************)
(* What a PSTACK of sgg_stack.h promises its users: a bounded queue whose  *)
(* newest element can be taken back, whose last dequeued element can be    *)
(* put back, and of which everything up to the newest element of a given   *)
(* kind can be dropped at once.                                            *)
(***************************************************************************)
EXTENDS Integers, Sequences, FiniteSetsExt

CONSTANTS Bound,   \* elements it can hold
          Vals,    \* contents of an element
          None     \* no element, not in Vals

VARIABLES q,       \* the elements, oldest first
          held     \* the element dequeued last and not put back, or None

vars == <<q, held>>

Init == q = <<>> /\ held = None

Put(v) == /\ Len(q) < Bound
          /\ q' = Append(q, v)
          /\ UNCHANGED held

Unput == /\ q # <<>>
         /\ q' = SubSeq(q, 1, Len(q) - 1)
         /\ UNCHANGED held

Get == /\ q # <<>>
       /\ held' = Head(q)
       /\ q' = Tail(q)

\* the element is put back unless its place has been taken
Unget == /\ held # None
         /\ held' = None
         /\ q' = IF Len(q) < Bound THEN <<held>> \o q ELSE q

Positions(K) == {i \in 1..Len(q) : q[i] \in K}

DropThrough(K) == /\ Positions(K) # {}
                  /\ q' = SubSeq(q, Max(Positions(K)) + 1, Len(q))
                  /\ held' = None

Clear == q' = <<>> /\ held' = None

Next == \/ \E v \in Vals : Put(v)
        \/ Unput
        \/ Get
        \/ Unget
        \/ \E K \in SUBSET Vals : DropThrough(K)
        \/ Clear

Spec == Init /\ [][Next]_vars
=============================================================================
