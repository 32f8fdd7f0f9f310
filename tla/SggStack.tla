------------------------------ MODULE SggStack ------------------------------
(***************************************************************************)
(* The ring buffer of sgg_stack.cpp, the PSTACK that carries every packet  *)
(* queue and every retransmission cache of the program.  top is the next   *)
(* block to fill and buttom the oldest block in use; one block of the ring *)
(* always stays free.  The blocks are allocated once and only the two      *)
(* indices move, so a block keeps its contents after it was popped: that   *)
(* is what BackPopStack relies on.                                         *)
(***************************************************************************)
EXTENDS Integers, Sequences, FiniteSetsExt

CONSTANTS Size,    \* stackSize
          Vals,    \* contents of a block, as far as callers compare them
          None

ASSUME SizeAssumption == Size \in Nat /\ Size >= 2 /\ None \notin Vals

Index == 0..(Size - 1)
\* Faulty variant: the modulus is one too large.
SuccOffByOne(i) == (i + 1) % (Size + 1)
Succ(i) == (i + 1) % Size
Pred(i) == (i + Size - 1) % Size

Rings == [top : Index, buttom : Index, data : [Index -> Vals]]

VARIABLES ring,   \* *Stack
          popped  \* the block the caller popped last and may put back

ringVars == <<ring, popped>>

IsStackEmpty(s) == s.top = s.buttom

IsStackFull(s) == Succ(s.top) = s.buttom

\* The caller fills the block PushStack returns before anything else happens
\* to the ring.
PushStack(s, v) == [s EXCEPT !.data[s.top] = v, !.top = Succ(@)]
BackPushStack(s) == [s EXCEPT !.top = Pred(@)]
PopStack(s) == [s EXCEPT !.buttom = Succ(@)]
BackPopStack(s) == [s EXCEPT !.buttom = Pred(@)]
ClearStack(s) == [s EXCEPT !.top = 0, !.buttom = 0]

\* Faulty variant: the search runs from the newest block.
GetStackDataNewest(s, K) ==
  LET from[i \in Index] == IF i = s.buttom THEN None
                           ELSE IF s.data[Pred(i)] \in K THEN s.data[Pred(i)]
                           ELSE from[Pred(i)]
  IN  from[s.top]

\* The first block, from the oldest on, whose contents are in K.
GetStackData(s, K) ==
  LET from[i \in Index] == IF i = s.top THEN None
                           ELSE IF s.data[i] \in K THEN s.data[i]
                           ELSE from[Succ(i)]
  IN  from[s.buttom]

\* Faulty variant: the block found stays in the ring.
PopStackExShort(s, K) ==
  LET from[i \in Index] == IF i = s.buttom THEN s
                           ELSE IF s.data[Pred(i)] \in K
                                  THEN [s EXCEPT !.buttom = Pred(i)]
                           ELSE from[Pred(i)]
  IN  from[s.top]

\* Searches from the newest block on and frees the block found and all older
\* ones; without one (the code returns -2) the ring is unchanged.
PopStackEx(s, K) ==
  LET from[i \in Index] == IF i = s.buttom THEN s
                           ELSE IF s.data[Pred(i)] \in K
                                  THEN [s EXCEPT !.buttom = i]
                           ELSE from[Pred(i)]
  IN  from[s.top]

\* What a callback passed to TraversalStack sees, in this order.
TraversalStack(s) ==
  LET from[i \in Index] == IF i = s.top THEN <<>>
                           ELSE <<s.data[i]>> \o from[Succ(i)]
  IN  from[s.buttom]

-----------------------------------------------------------------------------
\* CreateStack: the blocks are malloc'ed, their contents arbitrary
RingInit == /\ ring \in [top : {0}, buttom : {0}, data : [Index -> Vals]]
            /\ popped = None

RingPush == /\ ~IsStackFull(ring)
            /\ \E v \in Vals : ring' = PushStack(ring, v)
            /\ UNCHANGED popped

RingBackPush == /\ ~IsStackEmpty(ring)
                /\ ring' = BackPushStack(ring)
                /\ UNCHANGED popped

RingPop == /\ ~IsStackEmpty(ring)
           /\ popped' = ring.data[ring.buttom]
           /\ ring' = PopStack(ring)

\* callers put back what they popped last, once, and ignore a refusal
RingBackPop == /\ popped # None
               /\ ring' = IF IsStackFull(ring) THEN ring ELSE BackPopStack(ring)
               /\ popped' = None

RingPopEx == /\ \E K \in SUBSET Vals : ring' = PopStackEx(ring, K)
             /\ popped' = IF ring' = ring THEN popped ELSE None

RingClear == /\ ring' = ClearStack(ring)
             /\ popped' = None

RingNext == \/ RingPush \/ RingBackPush \/ RingPop
            \/ RingBackPop \/ RingPopEx \/ RingClear

RingSpec == RingInit /\ [][RingNext]_ringVars

-----------------------------------------------------------------------------
\* Properties.

\* The indices stay inside the ring.
RingTypeOK == ring \in Rings /\ popped \in Vals \union {None}

\* The blocks in use, oldest first.
Used(s) == (s.top - s.buttom + Size) % Size
Contents(s) == [i \in 1..Used(s) |-> s.data[(s.buttom + i - 1) % Size]]

\* The ring behaves as a bounded queue of Size - 1 elements, wherever its
\* indices wrap; in particular a popped block can be put back with its contents
\* intact until its place has been taken (sgg_stack.cpp:120-129).
Fifo == INSTANCE BoundedFifo WITH Bound <- Size - 1, q <- Contents(ring), held <- popped
ImplementsFifo == Fifo!Spec

\* A retransmission request finds the oldest cached packet that matches, and
\* only packets in use are looked at (sgg_stack.cpp:181-197).
FindsOldest ==
  \A K \in SUBSET Vals :
    LET c == Contents(ring)
        hits == {i \in 1..Len(c) : c[i] \in K}
    IN  GetStackData(ring, K) = IF hits = {} THEN None ELSE c[Min(hits)]

\* A traversal visits every block in use once, oldest first
\* (sgg_stack.cpp:219-229).
TraversesInOrder == TraversalStack(ring) = Contents(ring)

\* The resend search, the drop-through and the destruction of a cache all walk
\* the ring from buttom to top: they see exactly the blocks in use, in order,
\* also where the indices wrap.
SearchesAgree == FindsOldest /\ TraversesInOrder
=============================================================================
