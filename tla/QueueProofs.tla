---------------------------- MODULE QueueProofs ----------------------------
(***************************************************************************)
(* Proofs about SggStack, for every size of a ring and all contents, and   *)
(* about PktQueue, for every ring capacity, every number of packets and    *)
(* every retry limit.                                                      *)
(***************************************************************************)
EXTENDS SggStack, PktQueue, SequenceTheorems, WellFoundedInduction, TLAPS

-----------------------------------------------------------------------------
(* Part 1: the ring.                                                       *)

-----------------------------------------------------------------------------
(* The indices of the ring without the modulus.                            *)

LEMMA SizeFacts == Size \in Nat /\ Size >= 2 /\ None \notin Vals
BY SizeAssumption

(* What % gives below twice the modulus.                                   *)
LEMMA ModOnce ==
  ASSUME NEW m \in Nat \ {0}, NEW x \in 0..(2 * m - 1)
  PROVE  x % m = IF x < m THEN x ELSE x - m
<1> DEFINE d == x \div m
           e == x % m
<1>1. d \in Int /\ e \in 0..(m - 1) /\ x = m * d + e
  OBVIOUS
<1> HIDE DEF d, e
<1>2. ASSUME d >= 2 PROVE FALSE
  <2>1. m * d >= m * 2
    BY <1>1, <1>2
  <2>. QED  BY <1>1, <2>1
<1>3. ASSUME d <= -1 PROVE FALSE
  <2>1. m * d <= -m
    BY <1>1, <1>3
  <2>. QED  BY <1>1, <2>1
<1>4. d = 0 \/ d = 1
  BY <1>1, <1>2, <1>3
<1>5. CASE d = 0
  <2>1. x = e
    BY <1>1, <1>5
  <2>. QED  BY <1>1, <2>1 DEF e
<1>6. CASE d = 1
  <2>1. x = m + e
    BY <1>1, <1>6
  <2>2. e = x - m /\ ~(x < m)
    BY <1>1, <2>1
  <2>. QED  BY <2>2 DEF e
<1>. QED  BY <1>4, <1>5, <1>6

(* The block n places after block i.                                       *)
After(i, n) == IF i + n < Size THEN i + n ELSE i + n - Size

(* How far block j is ahead of block i.                                    *)
Ahead(i, j) == IF i <= j THEN j - i ELSE j - i + Size

LEMMA Turns ==
  ASSUME NEW i \in Index
  PROVE  /\ Succ(i) = After(i, 1) /\ Succ(i) \in Index
         /\ Pred(i) = After(i, Size - 1) /\ Pred(i) \in Index
         /\ \A n \in 0..Size : (i + n) % Size = After(i, n) /\ After(i, n) \in Index
         /\ \A j \in Index : (j - i + Size) % Size = Ahead(i, j) /\ Ahead(i, j) \in Index
<1>1. Size \in Nat \ {0} /\ Size >= 2 /\ i \in 0..(Size - 1)
  BY SizeFacts DEF Index
<1>2. ASSUME NEW n \in 0..Size PROVE (i + n) % Size = After(i, n) /\ After(i, n) \in Index
  <2> DEFINE x == i + n
  <2>1. x \in 0..(2 * Size - 1)
    BY <1>1
  <2>2. x % Size = IF x < Size THEN x ELSE x - Size
    <3> HIDE DEF x
    <3>. QED  BY <1>1, <2>1, ModOnce
  <2>. QED  BY <1>1, <2>1, <2>2 DEF After, Index
<1>3. ASSUME NEW j \in Index PROVE (j - i + Size) % Size = Ahead(i, j) /\ Ahead(i, j) \in Index
  <2> DEFINE x == j - i + Size
  <2>1. x \in 0..(2 * Size - 1) /\ j \in 0..(Size - 1)
    BY <1>1 DEF Index
  <2>2. x % Size = IF x < Size THEN x ELSE x - Size
    <3> HIDE DEF x
    <3>. QED  BY <1>1, <2>1, ModOnce
  <2>. QED  BY <1>1, <2>1, <2>2 DEF Ahead, Index
<1>4. Succ(i) = After(i, 1) /\ Succ(i) \in Index
  <2>1. 1 \in 0..Size
    BY <1>1
  <2>. QED  BY <1>2, <2>1 DEF Succ
<1>5. Pred(i) = After(i, Size - 1) /\ Pred(i) \in Index
  <2>1. i + Size - 1 = i + (Size - 1) /\ Size - 1 \in 0..Size
    BY <1>1
  <2>. QED  BY <1>2, <2>1 DEF Pred
<1>. QED  BY <1>2, <1>3, <1>4, <1>5

(* Distances on the ring.                                                  *)
LEMMA Distances ==
  ASSUME NEW i \in Index, NEW j \in Index
  PROVE  /\ Ahead(i, j) \in Index /\ After(i, 0) = i
         /\ After(i, Ahead(i, j)) = j
         /\ Ahead(i, After(j, 1)) = IF Ahead(i, j) = Size - 1 THEN 0 ELSE Ahead(i, j) + 1
         /\ Ahead(i, After(j, Size - 1)) = IF Ahead(i, j) = 0 THEN Size - 1 ELSE Ahead(i, j) - 1
         /\ Ahead(After(i, Size - 1), j) = IF Ahead(i, j) = Size - 1 THEN 0 ELSE Ahead(i, j) + 1
         /\ Ahead(i, j) = 0 => i = j
         /\ Ahead(i, j) # 0 => After(i, Ahead(i, j) - 1) = After(j, Size - 1)
         /\ After(After(i, Size - 1), 1) = i
<1>1. Size \in Nat /\ Size >= 2 /\ i \in Nat /\ j \in Nat /\ i < Size /\ j < Size
  BY SizeFacts DEF Index
<1>. QED  BY <1>1 DEF Ahead, After, Index

LEMMA Places ==
  ASSUME NEW i \in Index, NEW n \in Nat, n < Size
  PROVE  /\ After(i, n) \in Index
         /\ \A m \in Nat : m < n => After(i, m) # After(i, n)
         /\ \A k \in Nat : n + k <= Size => After(After(i, n), k) = After(i, n + k)
         /\ \A j \in Index : n <= Ahead(i, j) => Ahead(After(i, n), j) = Ahead(i, j) - n
<1>1. Size \in Nat /\ Size >= 2 /\ i \in Nat /\ i < Size
  BY SizeFacts DEF Index
<1>2. After(i, n) \in Index
  BY <1>1 DEF After, Index
<1>3. ASSUME NEW m \in Nat, m < n PROVE After(i, m) # After(i, n)
  BY <1>1, <1>3 DEF After
<1>4. ASSUME NEW k \in Nat, n + k <= Size PROVE After(After(i, n), k) = After(i, n + k)
  BY <1>1, <1>4 DEF After
<1>5. ASSUME NEW j \in Index, n <= Ahead(i, j) PROVE Ahead(After(i, n), j) = Ahead(i, j) - n
  <2>1. j \in Nat /\ j < Size
    BY <1>1 DEF Index
  <2>. QED  BY <1>1, <1>5, <2>1 DEF After, Ahead
<1>. QED  BY <1>2, <1>3, <1>4, <1>5

(* The blocks in use, counted from the oldest one.                         *)
LEMMA InUse ==
  ASSUME NEW s \in Rings
  PROVE  /\ s.top \in Index /\ s.buttom \in Index /\ s.data \in [Index -> Vals]
         /\ Used(s) = Ahead(s.buttom, s.top) /\ Used(s) \in Index
         /\ s.top = After(s.buttom, Used(s))
         /\ Contents(s) \in Seq(Vals) /\ Len(Contents(s)) = Used(s)
         /\ \A n \in 1..Used(s) : /\ After(s.buttom, n - 1) \in Index
                                  /\ Contents(s)[n] = s.data[After(s.buttom, n - 1)]
<1>1. Size \in Nat \ {0} /\ Size >= 2
  BY SizeFacts
<1>2. s.top \in Index /\ s.buttom \in Index /\ s.data \in [Index -> Vals]
  BY DEF Rings
<1>3. Used(s) = Ahead(s.buttom, s.top) /\ Used(s) \in Index
  BY <1>2, Turns DEF Used
<1>4. s.top = After(s.buttom, Used(s))
  BY <1>1, <1>2, <1>3 DEF Ahead, After, Index
<1>5. Used(s) \in Nat /\ Used(s) < Size
  BY <1>1, <1>3 DEF Index
<1>6. ASSUME NEW n \in 1..Used(s)
      PROVE  (s.buttom + n - 1) % Size = After(s.buttom, n - 1) /\ After(s.buttom, n - 1) \in Index
  <2>1. n - 1 \in 0..Size /\ s.buttom + n - 1 = s.buttom + (n - 1)
    BY <1>1, <1>2, <1>5 DEF Index
  <2>. QED  BY <1>2, <2>1, Turns
<1>7. Contents(s) = [n \in 1..Used(s) |-> s.data[After(s.buttom, n - 1)]]
  BY <1>6 DEF Contents
<1>8. Contents(s) \in [1..Used(s) -> Vals]
  BY <1>2, <1>6, <1>7
<1>9. Contents(s) \in Seq(Vals) /\ Len(Contents(s)) = Used(s)
  BY <1>5, <1>8
<1>. QED  BY <1>2, <1>3, <1>4, <1>6, <1>7, <1>9

(* Two rings with equally many blocks in use and the same blocks have the  *)
(* same contents.                                                          *)
LEMMA SameContents ==
  ASSUME NEW s \in Rings, NEW c \in Seq(Vals), Len(c) = Used(s),
         \A n \in 1..Used(s) : c[n] = s.data[After(s.buttom, n - 1)]
  PROVE  Contents(s) = c
<1>1. /\ Contents(s) \in Seq(Vals) /\ Len(Contents(s)) = Used(s)
      /\ \A n \in 1..Used(s) : Contents(s)[n] = s.data[After(s.buttom, n - 1)]
  BY InUse
<1>2. \A n \in 1..Len(c) : Contents(s)[n] = c[n]
  BY <1>1
<1>. QED  BY <1>1, <1>2, SeqEqual

LEMMA EmptyFull ==
  ASSUME NEW s \in Rings
  PROVE  /\ IsStackEmpty(s) <=> Used(s) = 0
         /\ IsStackEmpty(s) <=> Contents(s) = <<>>
         /\ IsStackFull(s) <=> Used(s) = Size - 1
<1>1. Size \in Nat \ {0} /\ Size >= 2
  BY SizeFacts
<1>2. /\ s.top \in Index /\ s.buttom \in Index
      /\ Used(s) = Ahead(s.buttom, s.top)
      /\ Contents(s) \in Seq(Vals) /\ Len(Contents(s)) = Used(s)
  BY InUse
<1>3. Succ(s.top) = After(s.top, 1)
  BY <1>2, Turns
<1>4. IsStackEmpty(s) <=> Used(s) = 0
  BY <1>1, <1>2 DEF IsStackEmpty, Ahead, Index
<1>5. IsStackFull(s) <=> Used(s) = Size - 1
  BY <1>1, <1>2, <1>3 DEF IsStackFull, Ahead, After, Index
<1>6. Contents(s) = <<>> <=> Used(s) = 0
  BY <1>2, EmptySeq
<1>. QED  BY <1>4, <1>5, <1>6

-----------------------------------------------------------------------------
(* What the operations do to the contents.                                 *)

LEMMA HeadAndTail ==
  ASSUME NEW S, NEW c \in Seq(S), Len(c) # 0
  PROVE  c = <<Head(c)>> \o Tail(c) /\ Head(c) = c[1] /\ Head(c) \in S /\ Tail(c) \in Seq(S)
<1>1. c # <<>> /\ Len(c) \in Nat \ {0} /\ 1 \in 1..Len(c) /\ Len(c) \in 1..Len(c)
  BY EmptySeq
<1>2. SubSeq(c, 1, Len(c)) = c
  BY SubSeqFull
<1>3. SubSeq(c, 1, Len(c)) = <<c[1]>> \o SubSeq(c, 1 + 1, Len(c))
  BY <1>1, SubSeqRecursiveFirst
<1>4. Tail(c) = SubSeq(c, 2, Len(c)) /\ Head(c) = c[1]
  BY <1>1, TailIsSubSeq
<1>5. Head(c) \in S /\ Tail(c) \in Seq(S)
  BY <1>1, HeadTailProperties
<1>. QED  BY <1>2, <1>3, <1>4, <1>5

LEMMA PushAppends ==
  ASSUME NEW s \in Rings, ~IsStackFull(s), NEW v \in Vals
  PROVE  /\ PushStack(s, v) \in Rings
         /\ Contents(PushStack(s, v)) = Append(Contents(s), v)
<1> DEFINE t == PushStack(s, v)
           c == Append(Contents(s), v)
<1>1. Size \in Nat \ {0} /\ Size >= 2
  BY SizeFacts
<1>2. /\ s.top \in Index /\ s.buttom \in Index /\ s.data \in [Index -> Vals]
      /\ Used(s) = Ahead(s.buttom, s.top) /\ Used(s) \in Index
      /\ s.top = After(s.buttom, Used(s))
      /\ Contents(s) \in Seq(Vals) /\ Len(Contents(s)) = Used(s)
      /\ \A n \in 1..Used(s) : /\ After(s.buttom, n - 1) \in Index
                               /\ Contents(s)[n] = s.data[After(s.buttom, n - 1)]
  BY InUse
<1>3. Used(s) # Size - 1
  BY EmptyFull
<1>4. Succ(s.top) \in Index /\ Succ(s.top) = After(s.top, 1)
  BY <1>2, Turns
<1>5. /\ t.top = Succ(s.top) /\ t.buttom = s.buttom
      /\ t.data = [s.data EXCEPT ![s.top] = v] /\ t \in Rings
  BY <1>2, <1>4 DEF PushStack, Rings
<1> HIDE DEF t
<1>6. Used(t) = Ahead(s.buttom, Succ(s.top))
  BY <1>5, InUse
<1>7. Used(t) = Used(s) + 1 /\ Used(s) \in Nat /\ Used(s) < Size - 1
  <2> DEFINE b == s.buttom
             u == s.top
  <2>1. b \in Index /\ u \in Index /\ Used(s) = Ahead(b, u) /\ Used(s) # Size - 1
    BY <1>2, <1>3
  <2>2. Used(t) = Ahead(b, After(u, 1))
    BY <1>4, <1>6
  <2> HIDE DEF b, u
  <2>3. Used(t) = Used(s) + 1 /\ Used(s) \in Index
    BY <2>1, <2>2, Distances
  <2>. QED  BY <1>1, <2>1, <2>3 DEF Index
<1>8. /\ c \in Seq(Vals) /\ Len(c) = Used(s) + 1 /\ c[Used(s) + 1] = v
      /\ \A n \in 1..Used(s) : c[n] = Contents(s)[n]
  BY <1>2
<1> HIDE DEF c
<1>9. ASSUME NEW n \in 1..Used(t) PROVE c[n] = t.data[After(t.buttom, n - 1)]
  <2>1. CASE n = Used(s) + 1
    <3>1. n - 1 = Used(s)
      BY <1>7, <2>1
    <3>2. After(t.buttom, n - 1) = s.top
      BY <1>2, <1>5, <3>1
    <3>3. t.data[s.top] = v
      <4>1. s.top \in Index /\ s.data \in [Index -> Vals]
        BY <1>2
      <4>. QED  BY <1>5, <4>1
    <3>4. c[n] = v
      BY <1>8, <2>1
    <3>. QED  BY <3>2, <3>3, <3>4
  <2>2. CASE n \in 1..Used(s)
    <3>1. After(t.buttom, n - 1) \in Index /\ c[n] = s.data[After(t.buttom, n - 1)]
      BY <1>2, <1>5, <1>8, <2>2
    <3>2. After(t.buttom, n - 1) # s.top
      <4>1. n - 1 \in Nat /\ n - 1 < Used(s) /\ Used(s) < Size
        BY <1>1, <1>7, <2>2
      <4>. QED  BY <1>2, <1>5, <1>7, <4>1, Places
    <3>. QED  BY <1>2, <1>5, <3>1, <3>2
  <2>. QED  BY <1>7, <2>1, <2>2
<1>10. Contents(t) = c
  BY <1>5, <1>7, <1>8, <1>9, SameContents
<1>. QED  BY <1>5, <1>10 DEF t, c

(* Moving top back takes the newest block out, which is the one before top. *)
LEMMA TopBack ==
  ASSUME NEW s \in Rings, ~IsStackEmpty(s)
  PROVE  /\ BackPushStack(s) \in Rings
         /\ Used(BackPushStack(s)) = Used(s) - 1
         /\ Contents(BackPushStack(s)) = SubSeq(Contents(s), 1, Len(Contents(s)) - 1)
         /\ Contents(s)[Used(s)] = s.data[Pred(s.top)]
         /\ After(s.buttom, Used(s) - 1) = Pred(s.top)
<1> DEFINE t == BackPushStack(s)
           c == SubSeq(Contents(s), 1, Len(Contents(s)) - 1)
<1>1. Size \in Nat \ {0} /\ Size >= 2
  BY SizeFacts
<1>2. /\ s.top \in Index /\ s.buttom \in Index /\ s.data \in [Index -> Vals]
      /\ Used(s) = Ahead(s.buttom, s.top) /\ Used(s) \in Index
      /\ s.top = After(s.buttom, Used(s))
      /\ Contents(s) \in Seq(Vals) /\ Len(Contents(s)) = Used(s)
      /\ \A n \in 1..Used(s) : /\ After(s.buttom, n - 1) \in Index
                               /\ Contents(s)[n] = s.data[After(s.buttom, n - 1)]
  BY InUse
<1>3. Used(s) # 0 /\ Used(s) \in Nat
  BY <1>1, <1>2, EmptyFull DEF Index
<1>4. Pred(s.top) \in Index /\ Pred(s.top) = After(s.top, Size - 1)
  BY <1>2, Turns
<1>5. /\ t.top = Pred(s.top) /\ t.buttom = s.buttom /\ t.data = s.data /\ t \in Rings
  BY <1>2, <1>4 DEF BackPushStack, Rings
<1> HIDE DEF t
<1>6. Used(t) = Ahead(s.buttom, Pred(s.top))
  BY <1>5, InUse
<1>7. Used(t) = Used(s) - 1 /\ After(s.buttom, Used(s) - 1) = Pred(s.top)
  <2> DEFINE b == s.buttom
             u == s.top
  <2>1. b \in Index /\ u \in Index /\ Used(s) = Ahead(b, u) /\ Used(s) # 0
    BY <1>2, <1>3
  <2>2. Used(t) = Ahead(b, After(u, Size - 1)) /\ Pred(s.top) = After(u, Size - 1)
    BY <1>4, <1>6
  <2> HIDE DEF b, u
  <2>3. Used(t) = Used(s) - 1 /\ After(b, Used(s) - 1) = After(u, Size - 1)
    BY <2>1, <2>2, Distances
  <2>. QED  BY <2>2, <2>3 DEF b
<1>8. /\ c \in Seq(Vals) /\ Len(c) = Used(s) - 1
      /\ \A n \in 1..(Used(s) - 1) : c[n] = Contents(s)[n]
  <2> DEFINE q == Contents(s)
  <2>1. q \in Seq(Vals) /\ Len(q) = Used(s)
    BY <1>2
  <2> HIDE DEF q
  <2>2. /\ SubSeq(q, 1, Len(q) - 1) \in Seq(Vals) /\ Len(SubSeq(q, 1, Len(q) - 1)) = Used(s) - 1
        /\ \A n \in 1..(Used(s) - 1) : SubSeq(q, 1, Len(q) - 1)[n] = q[n]
    BY <1>3, <2>1
  <2>. QED  BY <2>2 DEF q
<1> HIDE DEF c
<1>9. ASSUME NEW n \in 1..Used(t) PROVE c[n] = t.data[After(t.buttom, n - 1)]
  <2>1. n \in 1..(Used(s) - 1) /\ n \in 1..Used(s)
    BY <1>3, <1>7
  <2>. QED  BY <1>2, <1>5, <1>8, <2>1
<1>10. Contents(t) = c
  BY <1>5, <1>7, <1>8, <1>9, SameContents
<1>11. Contents(s)[Used(s)] = s.data[Pred(s.top)]
  <2>1. Used(s) \in 1..Used(s)
    BY <1>3
  <2>. QED  BY <1>2, <1>7, <2>1
<1>. QED  BY <1>5, <1>7, <1>10, <1>11 DEF t, c

(* Moving buttom on takes the first n blocks out.                          *)
LEMMA ButtomOn ==
  ASSUME NEW s \in Rings, NEW n \in 0..Used(s),
         NEW t, t = [s EXCEPT !.buttom = After(s.buttom, n)]
  PROVE  /\ t \in Rings /\ Used(t) = Used(s) - n
         /\ Contents(t) = SubSeq(Contents(s), n + 1, Len(Contents(s)))
<1> DEFINE c == SubSeq(Contents(s), n + 1, Len(Contents(s)))
<1>1. Size \in Nat \ {0} /\ Size >= 2
  BY SizeFacts
<1>2. /\ s.top \in Index /\ s.buttom \in Index /\ s.data \in [Index -> Vals]
      /\ Used(s) = Ahead(s.buttom, s.top) /\ Used(s) \in Index
      /\ s.top = After(s.buttom, Used(s))
      /\ Contents(s) \in Seq(Vals) /\ Len(Contents(s)) = Used(s)
      /\ \A k \in 1..Used(s) : /\ After(s.buttom, k - 1) \in Index
                               /\ Contents(s)[k] = s.data[After(s.buttom, k - 1)]
  BY InUse
<1>3. Used(s) \in Nat /\ Used(s) < Size /\ n \in Nat /\ n <= Used(s)
  BY <1>1, <1>2 DEF Index
<1>4. /\ After(s.buttom, n) \in Index
      /\ \A k \in Nat : n + k <= Size => After(After(s.buttom, n), k) = After(s.buttom, n + k)
      /\ Ahead(After(s.buttom, n), s.top) = Ahead(s.buttom, s.top) - n
  <2>1. n < Size /\ n <= Ahead(s.buttom, s.top)
    BY <1>1, <1>2, <1>3
  <2>. QED  BY <1>2, <1>3, <2>1, Places
<1>5. /\ t.top = s.top /\ t.buttom = After(s.buttom, n) /\ t.data = s.data /\ t \in Rings
  BY <1>2, <1>4 DEF Rings
<1>6. Used(t) = Ahead(After(s.buttom, n), s.top)
  BY <1>5, InUse
<1>7. Used(t) = Used(s) - n
  BY <1>2, <1>4, <1>6
<1>8. /\ c \in Seq(Vals) /\ Len(c) = Used(s) - n
      /\ \A k \in 1..(Used(s) - n) : c[k] = Contents(s)[n + k]
  <2> DEFINE q == Contents(s)
             r == SubSeq(q, n + 1, Len(q))
  <2>1. q \in Seq(Vals) /\ Len(q) = Used(s)
    BY <1>2
  <2> HIDE DEF q
  <2>2. /\ r \in Seq(Vals) /\ Len(r) = Used(s) - n
        /\ \A k \in 1..(Used(s) - n) : r[k] = q[n + k]
    BY <1>3, <2>1
  <2>. QED  BY <2>2 DEF q
<1> HIDE DEF c
<1>9. ASSUME NEW k \in 1..Used(t) PROVE c[k] = t.data[After(t.buttom, k - 1)]
  <2>1. k \in Nat /\ k >= 1 /\ n + k \in 1..Used(s)
    BY <1>3, <1>7
  <2>2. c[k] = s.data[After(s.buttom, (n + k) - 1)]
    BY <1>2, <1>7, <1>8, <2>1
  <2>3. After(s.buttom, (n + k) - 1) = After(After(s.buttom, n), k - 1)
    <3>1. k - 1 \in Nat /\ n + (k - 1) <= Size /\ (n + k) - 1 = n + (k - 1)
      BY <1>1, <1>3, <2>1
    <3>. QED  BY <1>4, <3>1
  <2>. QED  BY <1>5, <2>2, <2>3
<1>10. Contents(t) = c
  BY <1>5, <1>7, <1>8, <1>9, SameContents
<1>. QED  BY <1>5, <1>7, <1>10 DEF c

LEMMA PopTakesHead ==
  ASSUME NEW s \in Rings, ~IsStackEmpty(s)
  PROVE  /\ PopStack(s) \in Rings
         /\ Used(PopStack(s)) = Used(s) - 1
         /\ Contents(PopStack(s)) = Tail(Contents(s))
         /\ Head(Contents(s)) = s.data[s.buttom] /\ s.data[s.buttom] \in Vals
<1> DEFINE c == Contents(s)
<1>1. Size \in Nat \ {0} /\ Size >= 2
  BY SizeFacts
<1>2. /\ s.buttom \in Index /\ s.data \in [Index -> Vals] /\ Used(s) \in Index
      /\ c \in Seq(Vals) /\ Len(c) = Used(s)
      /\ \A k \in 1..Used(s) : /\ After(s.buttom, k - 1) \in Index
                               /\ c[k] = s.data[After(s.buttom, k - 1)]
  BY InUse
<1>3. Used(s) \in Nat /\ Used(s) # 0 /\ c # <<>>
  BY <1>1, <1>2, EmptyFull DEF Index
<1>4. Succ(s.buttom) = After(s.buttom, 1)
  BY <1>2, Turns
<1>5. PopStack(s) = [s EXCEPT !.buttom = After(s.buttom, 1)]
  BY <1>4 DEF PopStack, Rings
<1>6. 1 \in 0..Used(s)
  BY <1>3
<1>7. /\ PopStack(s) \in Rings /\ Used(PopStack(s)) = Used(s) - 1
      /\ Contents(PopStack(s)) = SubSeq(c, 2, Len(c))
  BY <1>5, <1>6, ButtomOn
<1>8. Tail(c) = SubSeq(c, 2, Len(c)) /\ Head(c) = c[1]
  <2> HIDE DEF c
  <2>. QED  BY <1>2, <1>3
<1>9. c[1] = s.data[s.buttom]
  <2>1. 1 \in 1..Used(s)
    BY <1>3
  <2>2. After(s.buttom, 1 - 1) = s.buttom
    BY <1>1, <1>2 DEF After, Index
  <2>. QED  BY <1>2, <2>1, <2>2
<1>10. s.data[s.buttom] \in Vals
  BY <1>2
<1>. QED  BY <1>7, <1>8, <1>9, <1>10

(* The block before buttom comes back with what it holds.                  *)
LEMMA BackPopPrepends ==
  ASSUME NEW s \in Rings, ~IsStackFull(s)
  PROVE  /\ BackPopStack(s) \in Rings
         /\ Contents(BackPopStack(s)) = <<s.data[Pred(s.buttom)]>> \o Contents(s)
<1> DEFINE t == BackPopStack(s)
           c == Contents(s)
           d == Contents(t)
           x == s.data[Pred(s.buttom)]
<1>1. Size \in Nat \ {0} /\ Size >= 2
  BY SizeFacts
<1>2. /\ s.top \in Index /\ s.buttom \in Index /\ s.data \in [Index -> Vals]
      /\ Used(s) = Ahead(s.buttom, s.top) /\ Used(s) \in Index /\ c \in Seq(Vals)
  BY InUse
<1>3. Pred(s.buttom) \in Index /\ Pred(s.buttom) = After(s.buttom, Size - 1)
  BY <1>2, Turns
<1>4. /\ t.top = s.top /\ t.buttom = Pred(s.buttom) /\ t.data = s.data /\ t \in Rings
  BY <1>2, <1>3 DEF BackPopStack, Rings
<1> HIDE DEF t
<1>5. Used(s) # Size - 1
  BY EmptyFull
<1>6. Used(t) = Ahead(Pred(s.buttom), s.top)
  BY <1>4, InUse
<1>7. Used(t) = Used(s) + 1
  <2> DEFINE b == s.buttom
             u == s.top
  <2>1. b \in Index /\ u \in Index /\ Used(s) = Ahead(b, u) /\ Used(s) # Size - 1
    BY <1>2, <1>5
  <2>2. Used(t) = Ahead(After(b, Size - 1), u)
    BY <1>3, <1>6
  <2> HIDE DEF b, u
  <2>. QED  BY <2>1, <2>2, Distances
<1>8. ~IsStackEmpty(t)
  BY <1>1, <1>2, <1>4, <1>7, EmptyFull DEF Index
<1>9. Head(d) = x /\ x \in Vals /\ Tail(d) = Contents(PopStack(t))
  BY <1>4, <1>8, PopTakesHead
<1>10. PopStack(t) = s
  <2>1. Succ(Pred(s.buttom)) = s.buttom
    <3>1. Succ(Pred(s.buttom)) = After(Pred(s.buttom), 1)
      BY <1>3, Turns
    <3>. QED  BY <1>2, <1>3, <3>1, Distances
  <2>2. /\ PopStack(t).top = s.top /\ PopStack(t).buttom = s.buttom
        /\ PopStack(t).data = s.data /\ PopStack(t) \in Rings
    BY <1>2, <1>4, <2>1 DEF PopStack, Rings
  <2>. QED  BY <2>2 DEF Rings
<1>11. d \in Seq(Vals) /\ Len(d) = Used(t)
  BY <1>4, InUse
<1>12. d = <<Head(d)>> \o Tail(d)
  <2>1. Len(d) # 0
    BY <1>1, <1>2, <1>7, <1>11 DEF Index
  <2> HIDE DEF d
  <2>. QED  BY <1>11, <2>1, HeadAndTail
<1>. QED  BY <1>4, <1>9, <1>10, <1>12 DEF t

LEMMA ClearEmpties ==
  ASSUME NEW s \in Rings
  PROVE  ClearStack(s) \in Rings /\ Contents(ClearStack(s)) = <<>>
<1>1. 0 \in Index
  BY SizeFacts DEF Index
<1>2. /\ ClearStack(s) \in Rings /\ ClearStack(s).top = 0 /\ ClearStack(s).buttom = 0
  BY <1>1 DEF ClearStack, Rings
<1>. QED  BY <1>2, EmptyFull DEF IsStackEmpty

-----------------------------------------------------------------------------
(* The searches.  Each walks from block to block; started at block i it is *)
(* the search of the ring that begins (or ends) at i, and the blocks still *)
(* to be seen become one fewer with every step.                            *)

From(s, i) == [s EXCEPT !.buttom = i]
UpTo(s, i) == [s EXCEPT !.top = i]

LEMMA FromBlock ==
  ASSUME NEW s \in Rings, NEW i \in Index
  PROVE  /\ From(s, i) \in Rings /\ Used(From(s, i)) \in Nat
         /\ Contents(From(s, i)) \in Seq(Vals) /\ Len(Contents(From(s, i))) = Used(From(s, i))
         /\ i = s.top => Contents(From(s, i)) = <<>>
         /\ i # s.top =>
              /\ Succ(i) \in Index /\ Used(From(s, Succ(i))) = Used(From(s, i)) - 1
              /\ Contents(From(s, i)) # <<>>
              /\ Head(Contents(From(s, i))) = s.data[i] /\ s.data[i] \in Vals
              /\ Tail(Contents(From(s, i))) = Contents(From(s, Succ(i)))
<1> DEFINE t == From(s, i)
<1>1. /\ t \in Rings /\ t.buttom = i /\ t.top = s.top /\ t.data = s.data
  BY DEF From, Rings
<1>2. PopStack(t) = From(s, Succ(i))
  BY DEF PopStack, From, Rings
<1>3. IsStackEmpty(t) <=> i = s.top
  BY <1>1 DEF IsStackEmpty
<1> HIDE DEF t
<1>4. Used(t) \in Nat /\ Contents(t) \in Seq(Vals) /\ Len(Contents(t)) = Used(t)
  BY <1>1, SizeFacts, InUse DEF Index
<1>5. i = s.top => Contents(t) = <<>>
  BY <1>1, <1>3, EmptyFull
<1>6. ASSUME i # s.top
      PROVE  /\ Used(From(s, Succ(i))) = Used(t) - 1 /\ Contents(t) # <<>>
             /\ Head(Contents(t)) = s.data[i] /\ s.data[i] \in Vals
             /\ Tail(Contents(t)) = Contents(From(s, Succ(i)))
  BY <1>1, <1>2, <1>3, <1>6, PopTakesHead, EmptyFull
<1>7. Succ(i) \in Index
  BY Turns
<1>. QED  BY <1>1, <1>4, <1>5, <1>6, <1>7 DEF t

LEMMA UpToBlock ==
  ASSUME NEW s \in Rings, NEW i \in Index
  PROVE  /\ UpTo(s, i) \in Rings /\ Used(UpTo(s, i)) \in Nat /\ Used(UpTo(s, i)) < Size
         /\ Contents(UpTo(s, i)) \in Seq(Vals) /\ Len(Contents(UpTo(s, i))) = Used(UpTo(s, i))
         /\ i = After(s.buttom, Used(UpTo(s, i)))
         /\ i = s.buttom => Contents(UpTo(s, i)) = <<>>
         /\ i # s.buttom =>
              /\ Pred(i) \in Index /\ Used(UpTo(s, Pred(i))) = Used(UpTo(s, i)) - 1
              /\ Contents(UpTo(s, i))[Used(UpTo(s, i))] = s.data[Pred(i)]
              /\ Contents(UpTo(s, Pred(i)))
                   = SubSeq(Contents(UpTo(s, i)), 1, Len(Contents(UpTo(s, i))) - 1)
<1> DEFINE t == UpTo(s, i)
<1>1. /\ t \in Rings /\ t.top = i /\ t.buttom = s.buttom /\ t.data = s.data
  BY DEF UpTo, Rings
<1>2. BackPushStack(t) = UpTo(s, Pred(i))
  BY DEF BackPushStack, UpTo, Rings
<1>3. IsStackEmpty(t) <=> i = s.buttom
  BY <1>1 DEF IsStackEmpty
<1> HIDE DEF t
<1>4. /\ Used(t) \in Nat /\ Used(t) < Size /\ Contents(t) \in Seq(Vals) /\ Len(Contents(t)) = Used(t)
      /\ i = After(s.buttom, Used(t))
  BY <1>1, SizeFacts, InUse DEF Index
<1>5. i = s.buttom => Contents(t) = <<>>
  BY <1>1, <1>3, EmptyFull
<1>6. ASSUME i # s.buttom
      PROVE  /\ Used(UpTo(s, Pred(i))) = Used(t) - 1
             /\ Contents(t)[Used(t)] = s.data[Pred(i)]
             /\ Contents(UpTo(s, Pred(i))) = SubSeq(Contents(t), 1, Len(Contents(t)) - 1)
  BY <1>1, <1>2, <1>3, <1>6, TopBack
<1>7. Pred(i) \in Index
  BY Turns
<1>. QED  BY <1>1, <1>4, <1>5, <1>6, <1>7 DEF t

(* The least and the greatest of a set of numbers.                         *)
LEMMA LeastOf ==
  ASSUME NEW S \in SUBSET Nat, S # {}
  PROVE  Min(S) \in S /\ \A y \in S : Min(S) <= y
<1>1. PICK x \in S : \A y \in S : ~ (<<y, x>> \in OpToRel(<, Nat))
  BY NatLessThanWellFounded, WFMin
<1>2. ASSUME NEW y \in S PROVE x <= y
  <2>1. ~(y < x)
    <3>1. SUFFICES ASSUME y < x PROVE <<y, x>> \in OpToRel(<, Nat)
      BY <1>1
    <3>2. <<y, x>> \in Nat \X Nat /\ <<y, x>>[1] < <<y, x>>[2]
      BY <3>1
    <3>. QED  BY <3>2, Zenon DEF OpToRel
  <2>. QED  BY <2>1
<1>. QED  BY <1>2, Zenon DEF Min

LEMMA LeastIs ==
  ASSUME NEW S \in SUBSET Nat, NEW x \in S, \A y \in S : x <= y
  PROVE  Min(S) = x
<1> DEFINE m == Min(S)
<1>1. m \in S /\ m <= x
  BY LeastOf
<1> HIDE DEF m
<1>2. x <= m /\ m \in Nat /\ x \in Nat
  BY <1>1
<1>3. m = x
  BY <1>1, <1>2
<1>. QED  BY <1>3 DEF m

LEMMA GreatestOf ==
  ASSUME NEW n \in Nat, NEW S \in SUBSET (0..n), S # {}
  PROVE  Max(S) \in S /\ \A y \in S : Max(S) >= y
<1> DEFINE T == {t \in Nat : \E x \in S : t = n - x}
<1>1. T \in SUBSET Nat /\ \A x \in S : n - x \in T
  OBVIOUS
<1>2. PICK t \in T : \A y \in T : t <= y
  <2>1. T # {}
    BY <1>1
  <2> HIDE DEF T
  <2>. QED  BY <1>1, <2>1, LeastOf
<1>3. PICK x \in S : t = n - x
  BY <1>2
<1> HIDE DEF T
<1>4. ASSUME NEW y \in S PROVE x >= y
  <2>1. n - y \in T /\ t <= n - y
    BY <1>1, <1>2
  <2>2. x \in 0..n /\ y \in 0..n
    OBVIOUS
  <2>. QED  BY <1>3, <2>1, <2>2
<1>. QED  BY <1>4, Zenon DEF Max

LEMMA GreatestIs ==
  ASSUME NEW n \in Nat, NEW S \in SUBSET (0..n), NEW x \in S, \A y \in S : y <= x
  PROVE  Max(S) = x
<1> DEFINE m == Max(S)
<1>1. m \in S /\ m >= x
  BY GreatestOf
<1> HIDE DEF m
<1>2. m <= x /\ m \in Nat /\ x \in Nat
  BY <1>1
<1>3. m = x
  BY <1>1, <1>2
<1>. QED  BY <1>3 DEF m

(* Where the blocks of kind K are, and the oldest one.                     *)
Hits(c, K) == {i \in 1..Len(c) : c[i] \in K}
Oldest(c, K) == IF Hits(c, K) = {} THEN None ELSE c[Min(Hits(c, K))]

LEMMA OldestStep ==
  ASSUME NEW c \in Seq(Vals), NEW K
  PROVE  /\ c = <<>> => Oldest(c, K) = None
         /\ c # <<>> => Oldest(c, K) = IF Head(c) \in K THEN Head(c) ELSE Oldest(Tail(c), K)
<1>1. ASSUME c = <<>> PROVE Oldest(c, K) = None
  <2>1. Len(c) = 0
    BY <1>1, EmptySeq
  <2>2. Hits(c, K) = {}
    BY <2>1 DEF Hits
  <2>. QED  BY <2>2 DEF Oldest
<1>2. ASSUME c # <<>> PROVE Oldest(c, K) = IF Head(c) \in K THEN Head(c) ELSE Oldest(Tail(c), K)
  <2> DEFINE d == Tail(c)
             H == Hits(c, K)
             J == Hits(d, K)
  <2>1. Len(c) \in Nat \ {0}
    BY <1>2, EmptySeq
  <2>2. Head(c) = c[1] /\ d \in Seq(Vals)
    BY <2>1, HeadAndTail
  <2>3. Len(d) = Len(c) - 1 /\ \A i \in 1..Len(d) : d[i] = c[i + 1]
    BY <1>2, HeadTailProperties
  <2> HIDE DEF d
  <2>4. H \in SUBSET Nat /\ \A i : i \in H <=> i \in 1..Len(c) /\ c[i] \in K
    BY <2>1 DEF Hits
  <2>5. J \in SUBSET Nat /\ \A i : i \in J <=> i \in 1..Len(d) /\ d[i] \in K
    BY <2>1, <2>3 DEF Hits
  <2> HIDE DEF H, J
  <2>6. CASE Head(c) \in K
    <3>1. 1 \in H
      BY <2>1, <2>2, <2>4, <2>6
    <3>2. \A y \in H : 1 <= y
      BY <2>1, <2>4
    <3>3. Min(H) = 1
      BY <2>4, <3>1, <3>2, LeastIs
    <3>. QED  BY <2>2, <2>6, <3>1, <3>3 DEF Oldest, H
  <2>7. CASE Head(c) \notin K
    <3>1. ASSUME NEW i \in J PROVE i + 1 \in H
      <4>1. i \in 1..Len(d) /\ d[i] \in K
        BY <2>5
      <4>2. i + 1 \in 1..Len(c) /\ c[i + 1] = d[i]
        BY <2>1, <2>3, <4>1
      <4>. QED  BY <2>4, <4>1, <4>2
    <3>2. \A i \in H : i - 1 \in J
      <4>1. SUFFICES ASSUME NEW i \in H PROVE i - 1 \in J
        OBVIOUS
      <4>2. i # 1 /\ i \in 1..Len(c) /\ c[i] \in K
        BY <2>2, <2>4, <2>7
      <4>3. i - 1 \in 1..Len(d) /\ d[i - 1] = c[i]
        BY <2>1, <2>3, <4>2
      <4>. QED  BY <2>5, <4>2, <4>3
    <3>3. CASE J = {}
      <4>1. H = {}
        BY <3>2, <3>3
      <4>. QED  BY <2>7, <3>3, <4>1 DEF Oldest, H, J, d
    <3>4. CASE J # {}
      <4> DEFINE m == Min(J)
      <4>1. m \in J /\ \A y \in J : m <= y
        BY <2>5, <3>4, LeastOf
      <4> HIDE DEF m
      <4>2. m \in Nat /\ m + 1 \in H /\ m \in 1..Len(d)
        BY <2>5, <3>1, <4>1
      <4>3. ASSUME NEW y \in H PROVE m + 1 <= y
        <5>1. y - 1 \in J /\ y \in Nat
          BY <2>4, <3>2
        <5>2. m <= y - 1
          BY <4>1, <5>1
        <5>. QED  BY <4>2, <5>1, <5>2
      <4>4. Min(H) = m + 1
        BY <2>4, <4>2, <4>3, LeastIs
      <4>5. d[m] = c[m + 1] /\ H # {}
        BY <2>3, <4>2
      <4>6. Oldest(c, K) = c[m + 1]
        BY <4>4, <4>5 DEF Oldest, H
      <4>7. Oldest(d, K) = d[m]
        BY <3>4 DEF Oldest, J, m
      <4>. QED  BY <2>7, <4>5, <4>6, <4>7 DEF d
    <3>. QED  BY <3>3, <3>4
  <2>. QED  BY <2>6, <2>7
<1>. QED  BY <1>1, <1>2

(* What the search started at block i returns, and that this solves the    *)
(* equation of the code's loop.                                            *)
OldestFrom(s, K) == [i \in Index |-> Oldest(Contents(From(s, i)), K)]

DataLoop(s, K, f) ==
  [i \in Index |-> IF i = s.top THEN None
                   ELSE IF s.data[i] \in K THEN s.data[i]
                   ELSE f[Succ(i)]]

LEMMA DataSolved ==
  ASSUME NEW s \in Rings, NEW K
  PROVE  OldestFrom(s, K) = DataLoop(s, K, OldestFrom(s, K))
<1> DEFINE g == OldestFrom(s, K)
<1>1. ASSUME NEW i \in Index
      PROVE  g[i] = IF i = s.top THEN None
                    ELSE IF s.data[i] \in K THEN s.data[i] ELSE g[Succ(i)]
  <2> DEFINE c == Contents(From(s, i))
  <2>1. c \in Seq(Vals) /\ g[i] = Oldest(c, K)
    BY FromBlock DEF OldestFrom
  <2>2. CASE i = s.top
    <3>1. c = <<>>
      BY <2>2, FromBlock
    <3> HIDE DEF c
    <3>. QED  BY <2>1, <2>2, <3>1, OldestStep
  <2>3. CASE i # s.top
    <3>1. /\ c # <<>> /\ Head(c) = s.data[i] /\ Succ(i) \in Index
          /\ g[Succ(i)] = Oldest(Tail(c), K)
      BY <2>3, FromBlock DEF OldestFrom
    <3> HIDE DEF c, g
    <3>. QED  BY <2>1, <2>3, <3>1, OldestStep
  <2>. QED  BY <2>2, <2>3
<1>2. g = [i \in Index |-> g[i]]
  BY DEF OldestFrom
<1> HIDE DEF g
<1>3. [i \in Index |-> g[i]] = DataLoop(s, K, g)
  BY <1>1 DEF DataLoop
<1>. QED  BY <1>2, <1>3 DEF g

(* Two solutions agree: a block where they differ, nearest to top, would   *)
(* have a successor where they differ.                                     *)
LEMMA DataUnique ==
  ASSUME NEW s \in Rings, NEW K, NEW f, f = DataLoop(s, K, f),
         NEW g, g = DataLoop(s, K, g), NEW j \in Index
  PROVE  f[j] = g[j]
<1> DEFINE D == {n \in Nat : \E i \in Index : n = Used(From(s, i)) /\ f[i] # g[i]}
<1>1. \A i \in Index :
        /\ f[i] = IF i = s.top THEN None ELSE IF s.data[i] \in K THEN s.data[i] ELSE f[Succ(i)]
        /\ g[i] = IF i = s.top THEN None ELSE IF s.data[i] \in K THEN s.data[i] ELSE g[Succ(i)]
  <2> SUFFICES ASSUME NEW i \in Index
               PROVE  /\ f[i] = IF i = s.top THEN None ELSE IF s.data[i] \in K THEN s.data[i] ELSE f[Succ(i)]
                      /\ g[i] = IF i = s.top THEN None ELSE IF s.data[i] \in K THEN s.data[i] ELSE g[Succ(i)]
    OBVIOUS
  <2>1. /\ DataLoop(s, K, f)[i] = IF i = s.top THEN None ELSE IF s.data[i] \in K THEN s.data[i] ELSE f[Succ(i)]
        /\ DataLoop(s, K, g)[i] = IF i = s.top THEN None ELSE IF s.data[i] \in K THEN s.data[i] ELSE g[Succ(i)]
    BY DEF DataLoop
  <2>. QED  BY <2>1
<1>2. ASSUME f[j] # g[j] PROVE FALSE
  <2>1. D \in SUBSET Nat /\ D # {}
    BY <1>2, FromBlock
  <2>2. PICK n \in D : \A m \in D : n <= m
    <3> HIDE DEF D
    <3>. QED  BY <2>1, LeastOf
  <2>3. PICK i \in Index : n = Used(From(s, i)) /\ f[i] # g[i]
    BY <2>2
  <2>4. i # s.top /\ f[Succ(i)] # g[Succ(i)]
    BY <1>1, <2>3
  <2>5. /\ Succ(i) \in Index /\ Used(From(s, Succ(i))) \in Nat
        /\ Used(From(s, Succ(i))) = n - 1
    BY <2>3, <2>4, FromBlock
  <2>6. n - 1 \in D
    BY <2>4, <2>5
  <2>7. n \in Nat /\ n <= n - 1
    BY <2>1, <2>2, <2>6
  <2>. QED  BY <2>7
<1>. QED  BY <1>2

LEMMA DataFound ==
  ASSUME NEW s \in Rings, NEW K
  PROVE  GetStackData(s, K) = Oldest(Contents(s), K)
<1> DEFINE f == CHOOSE f : f = DataLoop(s, K, f)
           g == OldestFrom(s, K)
<1>1. g = DataLoop(s, K, g)
  BY DataSolved
<1> HIDE DEF g
<1>2. f = DataLoop(s, K, f)
  BY <1>1
<1>3. GetStackData(s, K) = f[s.buttom]
  BY DEF GetStackData, DataLoop
<1> HIDE DEF f
<1>4. s.buttom \in Index
  BY InUse
<1>5. f[s.buttom] = g[s.buttom]
  BY <1>1, <1>2, <1>4, DataUnique
<1>6. g[s.buttom] = Oldest(Contents(From(s, s.buttom)), K)
  BY <1>4 DEF g, OldestFrom
<1>7. From(s, s.buttom) = s
  BY DEF From, Rings
<1>. QED  BY <1>3, <1>5, <1>6, <1>7

(* The traversal, in the same way.                                         *)
RestFrom(s) == [i \in Index |-> Contents(From(s, i))]

VisitLoop(s, f) ==
  [i \in Index |-> IF i = s.top THEN <<>> ELSE <<s.data[i]>> \o f[Succ(i)]]

LEMMA VisitSolved ==
  ASSUME NEW s \in Rings
  PROVE  RestFrom(s) = VisitLoop(s, RestFrom(s))
<1> DEFINE g == RestFrom(s)
<1>1. ASSUME NEW i \in Index
      PROVE  g[i] = IF i = s.top THEN <<>> ELSE <<s.data[i]>> \o g[Succ(i)]
  <2> DEFINE c == Contents(From(s, i))
  <2>1. c \in Seq(Vals) /\ g[i] = c
    BY FromBlock DEF RestFrom
  <2>2. CASE i = s.top
    BY <2>1, <2>2, FromBlock
  <2>3. CASE i # s.top
    <3>1. /\ c # <<>> /\ Head(c) = s.data[i] /\ Succ(i) \in Index /\ g[Succ(i)] = Tail(c)
      BY <2>3, FromBlock DEF RestFrom
    <3> HIDE DEF c, g
    <3>2. Len(c) # 0
      BY <2>1, <3>1, EmptySeq
    <3>3. c = <<Head(c)>> \o Tail(c)
      BY <2>1, <3>2, HeadAndTail
    <3>. QED  BY <2>1, <2>3, <3>1, <3>3
  <2>. QED  BY <2>2, <2>3
<1>2. g = [i \in Index |-> g[i]]
  BY DEF RestFrom
<1> HIDE DEF g
<1>3. [i \in Index |-> g[i]] = VisitLoop(s, g)
  BY <1>1 DEF VisitLoop
<1>. QED  BY <1>2, <1>3 DEF g

LEMMA VisitUnique ==
  ASSUME NEW s \in Rings, NEW f, f = VisitLoop(s, f), NEW g, g = VisitLoop(s, g), NEW j \in Index
  PROVE  f[j] = g[j]
<1> DEFINE D == {n \in Nat : \E i \in Index : n = Used(From(s, i)) /\ f[i] # g[i]}
<1>1. \A i \in Index : /\ f[i] = IF i = s.top THEN <<>> ELSE <<s.data[i]>> \o f[Succ(i)]
                       /\ g[i] = IF i = s.top THEN <<>> ELSE <<s.data[i]>> \o g[Succ(i)]
  <2> SUFFICES ASSUME NEW i \in Index
               PROVE  /\ f[i] = IF i = s.top THEN <<>> ELSE <<s.data[i]>> \o f[Succ(i)]
                      /\ g[i] = IF i = s.top THEN <<>> ELSE <<s.data[i]>> \o g[Succ(i)]
    OBVIOUS
  <2>1. /\ VisitLoop(s, f)[i] = IF i = s.top THEN <<>> ELSE <<s.data[i]>> \o f[Succ(i)]
        /\ VisitLoop(s, g)[i] = IF i = s.top THEN <<>> ELSE <<s.data[i]>> \o g[Succ(i)]
    BY DEF VisitLoop
  <2>. QED  BY <2>1
<1>2. ASSUME f[j] # g[j] PROVE FALSE
  <2>1. D \in SUBSET Nat /\ D # {}
    BY <1>2, FromBlock
  <2>2. PICK n \in D : \A m \in D : n <= m
    <3> HIDE DEF D
    <3>. QED  BY <2>1, LeastOf
  <2>3. PICK i \in Index : n = Used(From(s, i)) /\ f[i] # g[i]
    BY <2>2
  <2>4. i # s.top /\ f[Succ(i)] # g[Succ(i)]
    BY <1>1, <2>3
  <2>5. /\ Succ(i) \in Index /\ Used(From(s, Succ(i))) \in Nat
        /\ Used(From(s, Succ(i))) = n - 1
    BY <2>3, <2>4, FromBlock
  <2>6. n - 1 \in D
    BY <2>4, <2>5
  <2>7. n \in Nat /\ n <= n - 1
    BY <2>1, <2>2, <2>6
  <2>. QED  BY <2>7
<1>. QED  BY <1>2

LEMMA AllVisited ==
  ASSUME NEW s \in Rings
  PROVE  TraversalStack(s) = Contents(s)
<1> DEFINE f == CHOOSE f : f = VisitLoop(s, f)
           g == RestFrom(s)
<1>1. g = VisitLoop(s, g)
  BY VisitSolved
<1> HIDE DEF g
<1>2. f = VisitLoop(s, f)
  BY <1>1
<1>3. TraversalStack(s) = f[s.buttom]
  BY DEF TraversalStack, VisitLoop
<1> HIDE DEF f
<1>4. s.buttom \in Index
  BY InUse
<1>5. f[s.buttom] = g[s.buttom]
  BY <1>1, <1>2, <1>4, VisitUnique
<1>6. g[s.buttom] = Contents(From(s, s.buttom))
  BY <1>4 DEF g, RestFrom
<1>7. From(s, s.buttom) = s
  BY DEF From, Rings
<1>. QED  BY <1>3, <1>5, <1>6, <1>7

(* The drop-through walks down: started at block i it looks at the blocks  *)
(* older than i, the newest first.                                         *)
NewestAt(c, K) == Max(Hits(c, K))
Without(s, c, K) ==
  IF Hits(c, K) = {} THEN s ELSE From(s, After(s.buttom, NewestAt(c, K)))
DropUpTo(s, K) == [i \in Index |-> Without(s, Contents(UpTo(s, i)), K)]

DropLoop(s, K, f) ==
  [i \in Index |-> IF i = s.buttom THEN s
                   ELSE IF s.data[Pred(i)] \in K THEN [s EXCEPT !.buttom = i]
                   ELSE f[Pred(i)]]

LEMMA NewestStep ==
  ASSUME NEW c \in Seq(Vals), NEW K, Len(c) # 0, NEW d, d = SubSeq(c, 1, Len(c) - 1)
  PROVE  /\ c[Len(c)] \in K => Hits(c, K) # {} /\ NewestAt(c, K) = Len(c)
         /\ c[Len(c)] \notin K => Hits(c, K) = Hits(d, K)
<1>1. Len(c) \in Nat \ {0}
  BY LenProperties
<1>2. Len(d) = Len(c) - 1 /\ \A i \in 1..Len(d) : d[i] = c[i]
  <2> DEFINE n == Len(c) - 1
  <2>1. ASSUME NEW i \in 1..n PROVE c[i] \in Vals
    <3>1. i \in 1..Len(c)
      BY <1>1
    <3>. QED  BY <3>1, ElementOfSeq
  <2>2. n \in Nat /\ 1 \in Int
    BY <1>1
  <2> HIDE DEF n
  <2>6. n \in Int /\ (IF 1 <= n THEN n - 1 + 1 ELSE 0) = n /\ n - 1 + 1 = n
    BY <2>2
  <2>3. Len(SubSeq(c, 1, n)) = n
    BY <2>1, <2>2, <2>6, SubSeqProperties
  <2>4. \A i \in 1..n : SubSeq(c, 1, n)[i] = c[1 + i - 1]
    BY <2>1, <2>2, <2>6, SubSeqProperties
  <2>5. \A i \in 1..n : 1 + i - 1 = i
    BY <2>2
  <2>. QED  BY <2>3, <2>4, <2>5 DEF n
<1>3. ASSUME c[Len(c)] \in K PROVE Hits(c, K) # {} /\ NewestAt(c, K) = Len(c)
  <2> DEFINE n == Len(c)
             H == Hits(c, K)
  <2>1. n \in Nat /\ n \in H /\ H \in SUBSET (0..n) /\ \A y \in H : y <= n
    BY <1>1, <1>3 DEF Hits
  <2> HIDE DEF n, H
  <2>2. Max(H) = n
    BY <2>1, GreatestIs
  <2>. QED  BY <2>1, <2>2 DEF NewestAt, n, H
<1>4. ASSUME c[Len(c)] \notin K PROVE Hits(c, K) = Hits(d, K)
  <2>1. ASSUME NEW i \in Hits(c, K) PROVE i \in Hits(d, K)
    <3>1. i \in 1..Len(c) /\ c[i] \in K
      BY DEF Hits
    <3>2. i # Len(c)
      BY <1>4, <3>1
    <3>3. i \in 1..Len(d)
      BY <1>1, <1>2, <3>1, <3>2
    <3>. QED  BY <1>2, <3>1, <3>3 DEF Hits
  <2>2. ASSUME NEW i \in Hits(d, K) PROVE i \in Hits(c, K)
    <3>1. i \in 1..Len(d) /\ d[i] \in K
      BY DEF Hits
    <3>2. i \in 1..Len(c)
      BY <1>1, <1>2, <3>1
    <3>. QED  BY <1>2, <3>1, <3>2 DEF Hits
  <2>. QED  BY <2>1, <2>2
<1>. QED  BY <1>3, <1>4

LEMMA DropSolved ==
  ASSUME NEW s \in Rings, NEW K
  PROVE  DropUpTo(s, K) = DropLoop(s, K, DropUpTo(s, K))
<1> DEFINE g == DropUpTo(s, K)
<1>1. ASSUME NEW i \in Index
      PROVE  g[i] = IF i = s.buttom THEN s
                    ELSE IF s.data[Pred(i)] \in K THEN [s EXCEPT !.buttom = i] ELSE g[Pred(i)]
  <2> DEFINE c == Contents(UpTo(s, i))
             n == Used(UpTo(s, i))
  <2>1. /\ c \in Seq(Vals) /\ g[i] = Without(s, c, K) /\ Len(c) = n /\ n \in Nat
        /\ i = After(s.buttom, n)
    BY UpToBlock DEF DropUpTo
  <2>2. CASE i = s.buttom
    <3>1. c = <<>>
      BY <2>2, UpToBlock
    <3> HIDE DEF c
    <3>2. Hits(c, K) = {}
      <4>1. Len(c) = 0
        BY <3>1, EmptySeq
      <4>. QED  BY <4>1 DEF Hits
    <3>. QED  BY <2>1, <2>2, <3>2 DEF Without
  <2>3. CASE i # s.buttom
    <3> DEFINE d == Contents(UpTo(s, Pred(i)))
    <3>1. /\ c[n] = s.data[Pred(i)] /\ Pred(i) \in Index /\ d = SubSeq(c, 1, Len(c) - 1)
          /\ Used(UpTo(s, Pred(i))) = n - 1
      BY <2>3, UpToBlock
    <3>2. g[Pred(i)] = Without(s, d, K)
      BY <3>1 DEF DropUpTo
    <3>3. n # 0
      <4>1. Used(UpTo(s, Pred(i))) \in Nat
        BY <3>1, UpToBlock
      <4>. QED  BY <2>1, <3>1, <4>1
    <3> HIDE DEF c, d, g, n
    <3>4. /\ c[n] \in K => Hits(c, K) # {} /\ NewestAt(c, K) = n
          /\ c[n] \notin K => Hits(c, K) = Hits(d, K)
      BY <2>1, <3>1, <3>3, NewestStep
    <3>5. CASE c[n] \in K
      <4>1. g[i] = From(s, After(s.buttom, n))
        BY <2>1, <3>4, <3>5 DEF Without
      <4>. QED  BY <2>1, <2>3, <3>1, <3>5, <4>1 DEF From
    <3>6. CASE c[n] \notin K
      <4>1. g[i] = Without(s, d, K)
        BY <2>1, <3>4, <3>6 DEF Without, NewestAt
      <4>. QED  BY <2>3, <3>1, <3>2, <3>6, <4>1
    <3>. QED  BY <3>5, <3>6
  <2>. QED  BY <2>2, <2>3
<1>2. g = [i \in Index |-> g[i]]
  BY DEF DropUpTo
<1> HIDE DEF g
<1>3. [i \in Index |-> g[i]] = DropLoop(s, K, g)
  BY <1>1 DEF DropLoop
<1>. QED  BY <1>2, <1>3 DEF g

LEMMA DropUnique ==
  ASSUME NEW s \in Rings, NEW K, NEW f, f = DropLoop(s, K, f),
         NEW g, g = DropLoop(s, K, g), NEW j \in Index
  PROVE  f[j] = g[j]
<1> DEFINE D == {n \in Nat : \E i \in Index : n = Used(UpTo(s, i)) /\ f[i] # g[i]}
<1>1. \A i \in Index :
        /\ f[i] = IF i = s.buttom THEN s
                  ELSE IF s.data[Pred(i)] \in K THEN [s EXCEPT !.buttom = i] ELSE f[Pred(i)]
        /\ g[i] = IF i = s.buttom THEN s
                  ELSE IF s.data[Pred(i)] \in K THEN [s EXCEPT !.buttom = i] ELSE g[Pred(i)]
  <2> SUFFICES ASSUME NEW i \in Index
               PROVE  /\ f[i] = IF i = s.buttom THEN s
                                ELSE IF s.data[Pred(i)] \in K THEN [s EXCEPT !.buttom = i] ELSE f[Pred(i)]
                      /\ g[i] = IF i = s.buttom THEN s
                                ELSE IF s.data[Pred(i)] \in K THEN [s EXCEPT !.buttom = i] ELSE g[Pred(i)]
    OBVIOUS
  <2>1. /\ DropLoop(s, K, f)[i] = IF i = s.buttom THEN s
             ELSE IF s.data[Pred(i)] \in K THEN [s EXCEPT !.buttom = i] ELSE f[Pred(i)]
        /\ DropLoop(s, K, g)[i] = IF i = s.buttom THEN s
             ELSE IF s.data[Pred(i)] \in K THEN [s EXCEPT !.buttom = i] ELSE g[Pred(i)]
    BY DEF DropLoop
  <2>. QED  BY <2>1
<1>2. ASSUME f[j] # g[j] PROVE FALSE
  <2>1. D \in SUBSET Nat /\ D # {}
    BY <1>2, UpToBlock
  <2>2. PICK n \in D : \A m \in D : n <= m
    <3> HIDE DEF D
    <3>. QED  BY <2>1, LeastOf
  <2>3. PICK i \in Index : n = Used(UpTo(s, i)) /\ f[i] # g[i]
    BY <2>2
  <2>4. i # s.buttom /\ f[Pred(i)] # g[Pred(i)]
    BY <1>1, <2>3
  <2>5. /\ Pred(i) \in Index /\ Used(UpTo(s, Pred(i))) \in Nat
        /\ Used(UpTo(s, Pred(i))) = n - 1
    <3>1. Pred(i) \in Index /\ Used(UpTo(s, Pred(i))) = n - 1
      BY <2>3, <2>4, UpToBlock
    <3>. QED  BY <3>1, UpToBlock
  <2>6. n - 1 \in D
    BY <2>4, <2>5
  <2>7. n \in Nat /\ n <= n - 1
    BY <2>1, <2>2, <2>6
  <2>. QED  BY <2>7
<1>. QED  BY <1>2

LEMMA Dropped ==
  ASSUME NEW s \in Rings, NEW K
  PROVE  PopStackEx(s, K) = Without(s, Contents(s), K)
<1> DEFINE f == CHOOSE f : f = DropLoop(s, K, f)
           g == DropUpTo(s, K)
<1>1. g = DropLoop(s, K, g)
  BY DropSolved
<1> HIDE DEF g
<1>2. f = DropLoop(s, K, f)
  BY <1>1
<1>3. PopStackEx(s, K) = f[s.top]
  BY DEF PopStackEx, DropLoop
<1> HIDE DEF f
<1>4. s.top \in Index
  BY InUse
<1>5. f[s.top] = g[s.top]
  BY <1>1, <1>2, <1>4, DropUnique
<1>6. g[s.top] = Without(s, Contents(UpTo(s, s.top)), K)
  BY <1>4 DEF g, DropUpTo
<1>7. UpTo(s, s.top) = s
  BY DEF UpTo, Rings
<1>. QED  BY <1>3, <1>5, <1>6, <1>7

-----------------------------------------------------------------------------
(* The steps.                                                              *)

LEMMA RingInitTypes ==
  ASSUME RingInit
  PROVE  RingTypeOK /\ Contents(ring) = <<>>
<1>1. 0 \in Index
  BY SizeFacts DEF Index
<1>2. ring \in Rings /\ IsStackEmpty(ring) /\ popped = None
  BY <1>1 DEF RingInit, Rings, IsStackEmpty
<1>. QED  BY <1>2, EmptyFull DEF RingTypeOK

(* What is left when everything up to the newest block of kind K goes.     *)
LEMMA DropKeepsRest ==
  ASSUME NEW s \in Rings, NEW K
  PROVE  /\ PopStackEx(s, K) \in Rings
         /\ Hits(Contents(s), K) = {} => PopStackEx(s, K) = s
         /\ Hits(Contents(s), K) # {} =>
              /\ PopStackEx(s, K) # s
              /\ Contents(PopStackEx(s, K))
                   = SubSeq(Contents(s), NewestAt(Contents(s), K) + 1, Len(Contents(s)))
<1> DEFINE c == Contents(s)
           t == PopStackEx(s, K)
           H == Hits(c, K)
           m == NewestAt(c, K)
<1>1. t = Without(s, c, K)
  BY Dropped
<1>2. /\ s.buttom \in Index /\ Used(s) \in Nat /\ Used(s) < Size /\ Len(c) = Used(s)
  BY InUse, SizeFacts DEF Index
<1> HIDE DEF c, t
<1>3. ASSUME H = {} PROVE t = s
  BY <1>1, <1>3 DEF Without
<1>4. ASSUME H # {}
      PROVE  /\ t \in Rings /\ t # s
             /\ Contents(t) = SubSeq(c, m + 1, Len(c))
  <2>1. H \in SUBSET (0..Used(s)) /\ \A x \in H : x >= 1 /\ x <= Used(s)
    BY <1>2 DEF Hits
  <2> HIDE DEF H
  <2>2. m \in H
    <3>1. Max(H) \in H
      BY <1>2, <1>4, <2>1, GreatestOf
    <3>. QED  BY <3>1 DEF NewestAt, H
  <2> HIDE DEF m
  <2>3. m \in 0..Used(s) /\ m \in Nat /\ m >= 1 /\ m < Size
    BY <1>2, <2>1, <2>2, SizeFacts
  <2>4. t = [s EXCEPT !.buttom = After(s.buttom, m)]
    BY <1>1, <1>4 DEF Without, From, H, m
  <2>5. /\ t \in Rings /\ Contents(t) = SubSeq(Contents(s), m + 1, Len(Contents(s)))
    BY <2>3, <2>4, ButtomOn
  <2>6. After(s.buttom, m) # s.buttom
    <3>1. After(s.buttom, 0) = s.buttom
      BY <1>2, Distances
    <3>2. 0 \in Nat /\ 0 < m
      BY <2>3
    <3>3. After(s.buttom, 0) # After(s.buttom, m)
      BY <1>2, <2>3, <3>2, Places
    <3>. QED  BY <3>1, <3>3
  <2>7. t.buttom = After(s.buttom, m)
    BY <2>4 DEF Rings
  <2>. QED  BY <2>5, <2>6, <2>7 DEF c
<1>. QED  BY <1>3, <1>4 DEF c, t, H, m

LEMMA RingStepTypes ==
  ASSUME RingTypeOK, [RingNext]_ringVars
  PROVE  RingTypeOK'
<1>1. ring \in Rings /\ popped \in Vals \union {None}
  BY DEF RingTypeOK
<1>2. CASE RingPush
  BY <1>1, <1>2, PushAppends DEF RingPush, RingTypeOK
<1>3. CASE RingBackPush
  BY <1>1, <1>3, TopBack DEF RingBackPush, RingTypeOK
<1>4. CASE RingPop
  BY <1>1, <1>4, PopTakesHead DEF RingPop, RingTypeOK
<1>5. CASE RingBackPop
  BY <1>1, <1>5, BackPopPrepends DEF RingBackPop, RingTypeOK
<1>6. CASE RingPopEx
  BY <1>1, <1>6, DropKeepsRest DEF RingPopEx, RingTypeOK
<1>7. CASE RingClear
  BY <1>1, <1>7, ClearEmpties DEF RingClear, RingTypeOK
<1>8. CASE UNCHANGED ringVars
  BY <1>1, <1>8 DEF RingTypeOK, ringVars
<1>. QED  BY <1>2, <1>3, <1>4, <1>5, <1>6, <1>7, <1>8 DEF RingNext

(* A ring keeps its indices inside the blocks (sgg_stack.cpp:70-238): no   *)
(* operation, the drop-through included, moves one past the last block.    *)
THEOREM RingTypes == RingSpec => []RingTypeOK
<1>1. RingInit => RingTypeOK
  BY RingInitTypes
<1>2. RingTypeOK /\ [RingNext]_ringVars => RingTypeOK'
  BY RingStepTypes
<1>. QED  BY <1>1, <1>2, PTL DEF RingSpec

(* For every size of the ring and wherever its indices stand, the search   *)
(* of a retransmission finds the oldest packet in use that matches, and a  *)
(* traversal sees exactly the packets in use, oldest first                 *)
(* (sgg_stack.cpp:181-229).                                                *)
THEOREM RingSearches == RingSpec => []SearchesAgree
<1>1. ASSUME RingTypeOK PROVE SearchesAgree
  <2>1. ring \in Rings
    BY <1>1 DEF RingTypeOK
  <2>2. TraversesInOrder
    BY <2>1, AllVisited DEF TraversesInOrder
  <2>3. ASSUME NEW K \in SUBSET Vals
        PROVE  LET c == Contents(ring)
                   hits == {i \in 1..Len(c) : c[i] \in K}
               IN  GetStackData(ring, K) = IF hits = {} THEN None ELSE c[Min(hits)]
    BY <2>1, DataFound DEF Oldest, Hits
  <2>. QED  BY <2>2, <2>3 DEF SearchesAgree, FindsOldest
<1>2. RingTypeOK => SearchesAgree
  BY <1>1
<1>. QED  BY <1>2, RingTypes, PTL

(* The block popped last stays where BackPop finds it: the only block that  *)
(* is free in a full ring is the one before buttom.                        *)
Remembered == popped # None => ring.data[Pred(ring.buttom)] = popped

RingInv == RingTypeOK /\ Remembered

LEMMA PushKeepsFree ==
  ASSUME NEW s \in Rings, ~IsStackFull(s), NEW v \in Vals
  PROVE  /\ PushStack(s, v).buttom = s.buttom
         /\ PushStack(s, v).data[Pred(s.buttom)] = s.data[Pred(s.buttom)]
<1>1. /\ s.top \in Index /\ s.buttom \in Index /\ s.data \in [Index -> Vals]
  BY InUse
<1>2. Pred(s.buttom) \in Index /\ Pred(s.buttom) = After(s.buttom, Size - 1)
  BY <1>1, Turns
<1>3. s.top # Pred(s.buttom)
  <2>1. Succ(Pred(s.buttom)) = After(Pred(s.buttom), 1)
    BY <1>2, Turns
  <2>2. Succ(Pred(s.buttom)) = s.buttom
    BY <1>1, <1>2, <2>1, Distances
  <2>. QED  BY <2>2 DEF IsStackFull
<1>. QED  BY <1>1, <1>2, <1>3 DEF PushStack, Rings

LEMMA RingStepInv ==
  ASSUME RingInv, [RingNext]_ringVars
  PROVE  RingInv'
<1>1. RingTypeOK /\ Remembered /\ ring \in Rings
  BY DEF RingInv, RingTypeOK
<1>2. RingTypeOK'
  BY <1>1, RingStepTypes
<1>3. Remembered'
  <2>1. CASE RingPush
    <3>1. PICK v \in Vals : ring' = PushStack(ring, v) /\ ~IsStackFull(ring) /\ popped' = popped
      BY <2>1 DEF RingPush
    <3>2. ring'.buttom = ring.buttom /\ ring'.data[Pred(ring.buttom)] = ring.data[Pred(ring.buttom)]
      BY <1>1, <3>1, PushKeepsFree
    <3>. QED  BY <1>1, <3>1, <3>2 DEF Remembered
  <2>2. CASE RingBackPush
    <3>1. ring'.buttom = ring.buttom /\ ring'.data = ring.data /\ popped' = popped
      BY <1>1, <2>2 DEF RingBackPush, BackPushStack, Rings
    <3>. QED  BY <1>1, <3>1 DEF Remembered
  <2>3. CASE RingPop
    <3>1. /\ ring'.buttom = Succ(ring.buttom) /\ ring'.data = ring.data
          /\ popped' = ring.data[ring.buttom]
      BY <1>1, <2>3 DEF RingPop, PopStack, Rings
    <3>2. Pred(Succ(ring.buttom)) = ring.buttom
      <4>1. ring.buttom \in Index
        BY <1>1, InUse
      <4>2. Succ(ring.buttom) \in Index /\ Succ(ring.buttom) = After(ring.buttom, 1)
        BY <4>1, Turns
      <4>3. Pred(Succ(ring.buttom)) = After(After(ring.buttom, 1), Size - 1)
        BY <4>2, Turns
      <4>4. 1 \in Nat /\ 1 < Size /\ Size - 1 \in Nat /\ 1 + (Size - 1) <= Size
            /\ 1 + (Size - 1) = Size
        BY SizeFacts
      <4>5. Size \in Nat /\ ring.buttom \in Nat
        BY <4>1, SizeFacts DEF Index
      <4>6. After(ring.buttom, Size) = ring.buttom
        BY <4>5 DEF After
      <4>. QED  BY <4>1, <4>3, <4>4, <4>6, Places
    <3>. QED  BY <3>1, <3>2 DEF Remembered
  <2>4. CASE RingBackPop
    BY <2>4 DEF RingBackPop, Remembered
  <2>5. CASE RingPopEx
    BY <1>1, <2>5 DEF RingPopEx, Remembered
  <2>6. CASE RingClear
    BY <2>6 DEF RingClear, Remembered
  <2>7. CASE UNCHANGED ringVars
    BY <1>1, <2>7 DEF Remembered, ringVars
  <2>. QED  BY <2>1, <2>2, <2>3, <2>4, <2>5, <2>6, <2>7 DEF RingNext
<1>. QED  BY <1>2, <1>3 DEF RingInv

(* Each step of the ring is the step of the bounded queue of the same name, *)
(* or leaves the queue as it is.                                            *)
LEMMA RingStepFifo ==
  ASSUME RingInv, [RingNext]_ringVars
  PROVE  [Fifo!Next]_(Fifo!vars)
<1> DEFINE q == Contents(ring)
<1>1. RingTypeOK /\ Remembered /\ ring \in Rings /\ popped \in Vals \union {None}
  BY DEF RingInv, RingTypeOK
<1>2. /\ q \in Seq(Vals) /\ Len(q) = Used(ring) /\ Used(ring) \in Nat /\ Used(ring) < Size
      /\ IsStackEmpty(ring) <=> q = <<>>
      /\ IsStackFull(ring) <=> Used(ring) = Size - 1
  <2>1. Used(ring) \in Index /\ q \in Seq(Vals) /\ Len(q) = Used(ring)
    BY <1>1, InUse
  <2>2. /\ IsStackEmpty(ring) <=> q = <<>>
        /\ IsStackFull(ring) <=> Used(ring) = Size - 1
    BY <1>1, EmptyFull
  <2>. QED  BY <2>1, <2>2, SizeFacts DEF Index
<1>3. Size \in Nat /\ Size >= 2
  BY SizeFacts
<1>4. CASE RingPush
  <2>1. PICK v \in Vals : ring' = PushStack(ring, v) /\ ~IsStackFull(ring) /\ popped' = popped
    BY <1>4 DEF RingPush
  <2>2. Contents(ring)' = Append(q, v)
    BY <1>1, <2>1, PushAppends
  <2>3. Len(q) < Size - 1
    BY <1>2, <1>3, <2>1
  <2>4. Fifo!Put(v)
    BY <2>1, <2>2, <2>3 DEF Fifo!Put
  <2>. QED  BY <2>4 DEF Fifo!Next
<1>5. CASE RingBackPush
  <2>1. Contents(ring)' = SubSeq(q, 1, Len(q) - 1) /\ q # <<>> /\ popped' = popped
    BY <1>1, <1>2, <1>5, TopBack DEF RingBackPush
  <2>. QED  BY <2>1 DEF Fifo!Next, Fifo!Unput
<1>6. CASE RingPop
  <2>1. Contents(ring)' = Tail(q) /\ q # <<>> /\ popped' = Head(q)
    BY <1>1, <1>2, <1>6, PopTakesHead DEF RingPop
  <2>. QED  BY <2>1 DEF Fifo!Next, Fifo!Get
<1>7. CASE RingBackPop
  <2>1. popped # None /\ popped' = None
    BY <1>7 DEF RingBackPop
  <2>2. Contents(ring)' = IF Len(q) < Size - 1 THEN <<popped>> \o q ELSE q
    <3>1. CASE IsStackFull(ring)
      BY <1>2, <1>3, <1>7, <3>1 DEF RingBackPop
    <3>2. CASE ~IsStackFull(ring)
      <4>1. ring' = BackPopStack(ring) /\ Len(q) < Size - 1
        BY <1>2, <1>3, <1>7, <3>2 DEF RingBackPop
      <4>2. Contents(ring)' = <<ring.data[Pred(ring.buttom)]>> \o q
        BY <1>1, <3>2, <4>1, BackPopPrepends
      <4>. QED  BY <1>1, <2>1, <4>1, <4>2 DEF Remembered
    <3>. QED  BY <3>1, <3>2
  <2>. QED  BY <2>1, <2>2 DEF Fifo!Next, Fifo!Unget
<1>8. CASE RingPopEx
  <2>1. PICK K \in SUBSET Vals : ring' = PopStackEx(ring, K)
    BY <1>8 DEF RingPopEx
  <2>2. popped' = IF ring' = ring THEN popped ELSE None
    BY <1>8 DEF RingPopEx
  <2>3. Fifo!Positions(K) = Hits(q, K)
    BY DEF Fifo!Positions, Hits
  <2>4. CASE Hits(q, K) = {}
    <3>1. ring' = ring /\ popped' = popped
      BY <1>1, <2>1, <2>2, <2>4, DropKeepsRest
    <3>. QED  BY <3>1 DEF Fifo!vars
  <2>5. CASE Hits(q, K) # {}
    <3>1. /\ ring' # ring
          /\ Contents(ring)' = SubSeq(q, NewestAt(q, K) + 1, Len(q))
      BY <1>1, <2>1, <2>5, DropKeepsRest
    <3>2. popped' = None
      BY <2>2, <3>1
    <3>3. Fifo!DropThrough(K)
      BY <2>3, <2>5, <3>1, <3>2 DEF Fifo!DropThrough, NewestAt, Max, Fifo!Max
    <3>. QED  BY <3>3 DEF Fifo!Next
  <2>. QED  BY <2>4, <2>5
<1>9. CASE RingClear
  <2>1. Contents(ring)' = <<>> /\ popped' = None
    BY <1>1, <1>9, ClearEmpties DEF RingClear
  <2>. QED  BY <2>1 DEF Fifo!Next, Fifo!Clear
<1>10. CASE UNCHANGED ringVars
  <2>1. ring' = ring /\ popped' = popped
    BY <1>10 DEF ringVars
  <2>. QED  BY <2>1 DEF Fifo!vars
<1>. QED  BY <1>4, <1>5, <1>6, <1>7, <1>8, <1>9, <1>10 DEF RingNext

(* The ring is a bounded queue of Size - 1 elements: every operation of    *)
(* sgg_stack.cpp:70-238 does to the blocks in use what the queue's         *)
(* operation does to its elements, and a popped block that is put back     *)
(* has kept its contents (sgg_stack.cpp:120-129).                          *)
THEOREM RingFifo == RingSpec => ImplementsFifo
<1>1. RingInit => RingInv /\ Fifo!Init
  <2>1. SUFFICES ASSUME RingInit PROVE RingInv /\ Fifo!Init
    OBVIOUS
  <2>2. RingTypeOK /\ Contents(ring) = <<>> /\ popped = None
    BY <2>1, RingInitTypes DEF RingInit
  <2>. QED  BY <2>2 DEF RingInv, Remembered, Fifo!Init
<1>2. RingInv /\ [RingNext]_ringVars => RingInv'
  BY RingStepInv
<1>3. RingInv /\ [RingNext]_ringVars => [Fifo!Next]_(Fifo!vars)
  BY RingStepFifo
<1>. QED  BY <1>1, <1>2, <1>3, PTL DEF RingSpec, ImplementsFifo, Fifo!Spec

-----------------------------------------------------------------------------
(* Part 2: the packet queue.                                               *)

(* Writing the last element of a nonempty sequence. *)
LEMMA SetLast ==
  ASSUME NEW S, NEW s \in Seq(S), s # <<>>, NEW x \in S
  PROVE  /\ [s EXCEPT ![Len(s)] = x] \in Seq(S)
         /\ Len([s EXCEPT ![Len(s)] = x]) = Len(s)
         /\ [s EXCEPT ![Len(s)] = x][Len(s)] = x
         /\ \A i \in 1..(Len(s) - 1) : [s EXCEPT ![Len(s)] = x][i] = s[i]
<1>1. Len(s) \in Nat \ {0}
  BY EmptySeq
<1>. QED
  BY <1>1, ExceptSeq

(* Dropping the last element of a nonempty sequence. *)
LEMMA DropLast ==
  ASSUME NEW S, NEW s \in Seq(S), s # <<>>
  PROVE  /\ SubSeq(s, 1, Len(s) - 1) \in Seq(S)
         /\ Len(SubSeq(s, 1, Len(s) - 1)) = Len(s) - 1
         /\ \A i \in 1..(Len(s) - 1) : SubSeq(s, 1, Len(s) - 1)[i] = s[i]
<1>1. Len(s) \in Nat \ {0}
  BY EmptySeq
<1>2. \A i \in 1..(Len(s) - 1) : s[i] \in S
  BY <1>1, ElementOfSeq
<1> DEFINE n == Len(s) - 1
           t == SubSeq(s, 1, n)
<1>0. n \in Nat
  BY <1>1
<1>3. n - 1 + 1 = n /\ (1 <= n \/ n = 0)
  <2> HIDE DEF n
  <2>. QED  BY <1>0
<1>4. /\ t \in Seq(S)
      /\ Len(t) = IF 1 <= n THEN n - 1 + 1 ELSE 0
      /\ \A i \in 1..(n - 1 + 1) : t[i] = s[1 + i - 1]
  BY <1>0, <1>2, <1>3, SubSeqProperties
<1> HIDE DEF n, t
<1>5. Len(t) = n
  BY <1>0, <1>3, <1>4
<1>6. ASSUME NEW i \in 1..n PROVE t[i] = s[i]
  BY <1>0, <1>3, <1>4
<1>. QED
  BY <1>4, <1>5, <1>6 DEF n, t

(* The two ring positions swap. *)
LEMMA OtherRing ==
  ASSUME NEW i \in 0..1
  PROVE  (i + 1) % 2 = 1 - i /\ 1 - i \in 0..1 /\ 1 - (1 - i) = i /\ 1 - i # i
<1>1. CASE i = 0  BY <1>1
<1>2. CASE i = 1  BY <1>2
<1>. QED  BY <1>1, <1>2

LEMMA BlockFacts ==
  /\ End \in Blocks /\ Unfilled \in Blocks /\ End # Unfilled
  /\ \A n \in Nat : n < MaxPkts => n \in Blocks /\ n # Unfilled /\ n # End
BY ConstAssumption DEF Blocks, Packets

-----------------------------------------------------------------------------
IInv == TypeOK /\ RingOwnership /\ NoStaleBlock

LEMMA InitInv == Init => IInv
<1> SUFFICES ASSUME Init PROVE IInv
  OBVIOUS
<1>1. /\ stack \in [0..1 -> Seq(Blocks)]
      /\ \A i \in 0..1 : stack[i] = <<>> /\ Len(stack[i]) = 0
  BY EmptySeq DEF Init
<1>2. out \in Seq(Blocks)
  BY EmptySeq DEF Init
<1>3. TypeOK
  BY <1>1, <1>2, ConstAssumption, BlockFacts DEF Init, TypeOK
<1>4. RingOwnership
  BY <1>1 DEF Init, RingOwnership
<1>. QED
  BY <1>3, <1>4 DEF Init, IInv, NoStaleBlock

(* A step that replaces the contents of one ring. *)
LEMMA OneRing ==
  ASSUME stack \in [0..1 -> Seq(Blocks)], \A i \in 0..1 : Len(stack[i]) <= Capacity,
         NEW p \in 0..1, NEW t \in Seq(Blocks), Len(t) <= Capacity,
         stack' = [stack EXCEPT ![p] = t]
  PROVE  /\ stack' \in [0..1 -> Seq(Blocks)]
         /\ \A i \in 0..1 : Len(stack'[i]) <= Capacity
         /\ stack'[p] = t
         /\ \A i \in 0..1 : i # p => stack'[i] = stack[i]
OBVIOUS

LEMMA WriterInv == IInv /\ Writer => IInv'
<1> SUFFICES ASSUME IInv, Writer PROVE IInv'
  OBVIOUS
<1> USE DEF IInv, wvars, rvars
<1> DEFINE s == stack[wpos]
<1>0. /\ s \in Seq(Blocks) /\ Len(s) \in Nat /\ Len(s) <= Capacity
      /\ s # <<>> => Len(s) > 0
  BY EmptySeq DEF TypeOK
<1>1. CASE WLoop
  <2>1. CASE UNCHANGED stack
    <3>1. TypeOK'
      BY <1>1, <2>1 DEF WLoop, TypeOK
    <3>2. RingOwnership'
      BY <1>1, <2>1, ConstAssumption DEF WLoop, TypeOK, RingOwnership
    <3>. QED  BY <1>1, <3>1, <3>2 DEF WLoop, NoStaleBlock
  <2>2. CASE /\ Len(s) < Capacity
             /\ stack' = [stack EXCEPT ![wpos] = Append(s, Unfilled)]
             /\ wpc' = "fill"
    <3> DEFINE t == Append(s, Unfilled)
    <3>1. /\ t \in Seq(Blocks) /\ Len(t) = Len(s) + 1 /\ t # <<>>
          /\ \A k \in 1..Len(s) : t[k] = s[k]
      BY <1>0, BlockFacts
    <3>2. /\ stack' \in [0..1 -> Seq(Blocks)]
          /\ \A i \in 0..1 : Len(stack'[i]) <= Capacity
          /\ stack'[wpos] = t
          /\ \A i \in 0..1 : i # wpos => stack'[i] = stack[i]
      BY <1>0, <2>2, <3>1, OneRing, ConstAssumption DEF TypeOK
    <3> HIDE DEF t
    <3>3. TypeOK'
      BY <1>1, <2>2, <3>2 DEF WLoop, TypeOK
    <3>4. RingOwnership'
      <4>1. ASSUME NEW i \in 0..1, NEW k \in 1..Len(stack'[i]), stack'[i][k] = Unfilled
            PROVE  i = wpos /\ k = Len(stack'[i])
        <5>1. CASE i = wpos
          BY SMTT(30), <1>0, <1>1, <3>1, <3>2, <4>1, <5>1 DEF WLoop, RingOwnership
        <5>2. CASE i # wpos
          BY <1>1, <3>2, <4>1, <5>2 DEF WLoop, RingOwnership
        <5>. QED  BY <5>1, <5>2
      <4>2. wpos = rpos => stack'[1 - wpos] = <<>>
        BY <1>1, <3>2, OtherRing DEF TypeOK, RingOwnership
      <4>3. rpc = "send" => rpos # wpos
        BY <1>1 DEF WLoop, RingOwnership
      <4>4. rpc = "send" => Len(stack'[rpos]) < Capacity
        BY <3>2, <4>3 DEF TypeOK, RingOwnership
      <4>5. rpc = "lock" => stack'[rpos] = <<>>
        BY <1>1, <3>2 DEF WLoop, TypeOK, RingOwnership
      <4>. QED
        BY <1>1, <2>2, <3>1, <3>2, <4>1, <4>2, <4>4, <4>5
           DEF WLoop, RingOwnership
    <3>. QED  BY <1>1, <3>3, <3>4 DEF WLoop, NoStaleBlock
  <2>. QED  BY <1>1, <2>1, <2>2 DEF WLoop
<1>2. CASE WFull
  <2>1. TypeOK'
    BY <1>2 DEF WFull, TypeOK
  <2>2. RingOwnership'
    BY <1>2 DEF WFull, TypeOK, RingOwnership
  <2>3. NoStaleBlock'
    BY <1>2 DEF WFull, NoStaleBlock
  <2>. QED BY <2>1, <2>2, <2>3
<1>3. CASE WFill
  <2>0. s # <<>> /\ wpc = "fill" /\ wpc' = "cmp"
    BY <1>3 DEF WFill, RingOwnership
  <2>1. PICK t : /\ stack' = [stack EXCEPT ![wpos] = t]
                 /\ \/ \E x \in Blocks \ {Unfilled} : t = [s EXCEPT ![Len(s)] = x]
                    \/ t = SubSeq(s, 1, Len(s) - 1)
    <3>1. CASE next < MaxPkts /\ Fill(next)
      <4>1. next \in Blocks \ {Unfilled}
        BY <3>1, BlockFacts DEF TypeOK
      <4>. QED  BY <3>1, <4>1 DEF Fill
    <3>2. CASE Fill(End)
      BY <3>2, BlockFacts DEF Fill
    <3>3. CASE BackPush
      BY <3>3 DEF BackPush
    <3>. QED  BY <1>3, <3>1, <3>2, <3>3 DEF WFill
  <2>2. /\ t \in Seq(Blocks) /\ Len(t) \in Nat /\ Len(t) <= Len(s)
        /\ \A k \in 1..Len(t) : t[k] # Unfilled
    <3>1. \A k \in 1..(Len(s) - 1) : s[k] # Unfilled
      BY <1>0, <2>0 DEF TypeOK, RingOwnership
    <3>2. CASE \E x \in Blocks \ {Unfilled} : t = [s EXCEPT ![Len(s)] = x]
      BY <1>0, <2>0, <3>1, <3>2, SetLast
    <3>3. CASE t = SubSeq(s, 1, Len(s) - 1)
      BY <1>0, <2>0, <3>1, <3>3, DropLast
    <3>. QED  BY <2>1, <3>2, <3>3
  <2>3. /\ stack' \in [0..1 -> Seq(Blocks)]
        /\ \A i \in 0..1 : Len(stack'[i]) <= Capacity
        /\ stack'[wpos] = t
        /\ \A i \in 0..1 : i # wpos => stack'[i] = stack[i]
    BY <1>0, <2>1, <2>2, OneRing, ConstAssumption DEF TypeOK
  <2>4. TypeOK'
    <3>1. next' \in 0..MaxPkts
      BY <1>3, ConstAssumption DEF WFill, TypeOK
    <3>2. finished' \in BOOLEAN
      BY <1>3 DEF WFill, TypeOK
    <3>. QED  BY <1>3, <2>3, <3>1, <3>2 DEF WFill, TypeOK
  <2>5. RingOwnership'
    BY <1>3, <2>0, <2>2, <2>3 DEF WFill, TypeOK, RingOwnership
  <2>. QED  BY <1>3, <2>4, <2>5 DEF WFill, NoStaleBlock
<1>4. CASE WCompare
  <2>1. TypeOK'
    BY <1>4 DEF WCompare, TypeOK
  <2>2. RingOwnership'
    BY <1>4 DEF WCompare, TypeOK, RingOwnership
  <2>3. NoStaleBlock'
    BY <1>4 DEF WCompare, NoStaleBlock
  <2>. QED BY <2>1, <2>2, <2>3
<1>5. CASE WFlip
  <2>1. TypeOK'
    BY <1>5, OtherRing DEF WFlip, TypeOK
  <2>2. RingOwnership'
    BY <1>5, OtherRing DEF WFlip, LockFree, TypeOK, RingOwnership
  <2>3. NoStaleBlock'
    BY <1>5 DEF WFlip, NoStaleBlock
  <2>. QED BY <2>1, <2>2, <2>3
<1>6. CASE WAfter
  <2>1. TypeOK'
    BY <1>6 DEF WAfter, TypeOK
  <2>2. RingOwnership'
    BY <1>6 DEF WAfter, LockFree, TypeOK, RingOwnership
  <2>3. NoStaleBlock'
    BY <1>6 DEF WAfter, NoStaleBlock
  <2>. QED BY <2>1, <2>2, <2>3
<1>7. CASE WExit
  <2>1. TypeOK'
    BY <1>7 DEF WExit, TypeOK
  <2>2. RingOwnership'
    BY <1>7 DEF WExit, TypeOK, RingOwnership
  <2>3. NoStaleBlock'
    BY <1>7 DEF WExit, NoStaleBlock
  <2>. QED BY <2>1, <2>2, <2>3
<1>. QED
  BY <1>1, <1>2, <1>3, <1>4, <1>5, <1>6, <1>7 DEF Writer

LEMMA ReaderInv == IInv /\ Reader => IInv'
<1> SUFFICES ASSUME IInv, Reader PROVE IInv'
  OBVIOUS
<1> USE DEF IInv, wvars, rvars
<1> DEFINE s == stack[rpos]
<1>0. /\ s \in Seq(Blocks) /\ Len(s) \in Nat /\ Len(s) <= Capacity
      /\ s # <<>> => Len(s) > 0
  BY EmptySeq DEF TypeOK
<1>1. CASE RLoop
  <2>1. TypeOK'
    BY <1>1 DEF RLoop, TypeOK
  <2>2. RingOwnership'
    BY <1>1 DEF RLoop, TypeOK, RingOwnership
  <2>. QED  BY <1>1, <2>1, <2>2 DEF RLoop, NoStaleBlock
<1>2. CASE RLock
  <2>1. TypeOK'
    BY <1>2 DEF RLock, TypeOK
  <2>2. rpos = 1 - wpos
    BY <1>2 DEF RLock, TypeOK, RingOwnership
  <2>3. RingOwnership'
    BY <1>2, <2>2 DEF RLock, TypeOK, RingOwnership
  <2>. QED  BY <1>2, <2>1, <2>3 DEF RLock, NoStaleBlock
<1>3. CASE RSleep
  <2>1. TypeOK'
    BY <1>3 DEF RSleep, TypeOK
  <2>2. RingOwnership'
    BY <1>3 DEF RSleep, TypeOK, RingOwnership
  <2>. QED  BY <1>3, <2>1, <2>2 DEF RSleep, NoStaleBlock
<1>4. CASE RWake
  <2>1. TypeOK'
    BY <1>4 DEF RWake, TypeOK
  <2>2. RingOwnership'
    BY <1>4 DEF RWake, TypeOK, RingOwnership
  <2>. QED  BY <1>4, <2>1, <2>2 DEF RWake, NoStaleBlock
<1>5. CASE RPop
  <2>1. CASE UNCHANGED <<stack, held>> /\ rpc' = "loop"
    <3>1. TypeOK'
      BY <1>5, <2>1 DEF RPop, TypeOK
    <3>2. RingOwnership'
      BY <1>5, <2>1 DEF RPop, TypeOK, RingOwnership
    <3>. QED  BY <1>5, <2>1, <3>1, <3>2 DEF RPop, NoStaleBlock
  <2>2. CASE /\ s # <<>>
             /\ held' = Head(s)
             /\ stack' = [stack EXCEPT ![rpos] = Tail(s)]
             /\ rpc' = "send"
    <3>1. /\ Head(s) \in Blocks /\ Head(s) = s[1]
          /\ Tail(s) \in Seq(Blocks) /\ Len(Tail(s)) = Len(s) - 1
          /\ \A k \in 1..Len(Tail(s)) : Tail(s)[k] = s[k + 1]
      BY <1>0, <2>2, HeadTailProperties
    <3>2. /\ stack' \in [0..1 -> Seq(Blocks)]
          /\ \A i \in 0..1 : Len(stack'[i]) <= Capacity
          /\ stack'[rpos] = Tail(s)
          /\ \A i \in 0..1 : i # rpos => stack'[i] = stack[i]
      BY <1>0, <2>2, <3>1, OneRing, ConstAssumption DEF TypeOK
    <3>3. wpc # "fill" \/ wpos # rpos
      BY <1>5 DEF RPop, RingOwnership
    <3>4. \A k \in 1..Len(s) : s[k] # Unfilled
      BY <3>3 DEF TypeOK, RingOwnership
    <3>5. TypeOK'
      BY <1>5, <2>2, <3>1, <3>2 DEF RPop, TypeOK
    <3>6. NoStaleBlock'
      BY <1>0, <2>2, <3>1, <3>4 DEF NoStaleBlock
    <3>7. RingOwnership'
      <4>1. ASSUME NEW i \in 0..1, NEW k \in 1..Len(stack'[i]), stack'[i][k] = Unfilled
            PROVE  wpc = "fill" /\ i = wpos /\ k = Len(stack'[i])
        <5>1. CASE i = rpos
          <6>1. k \in 1..Len(Tail(s)) /\ Tail(s)[k] = Unfilled
            BY <3>2, <4>1, <5>1
          <6>2. k + 1 \in 1..Len(s) /\ s[k + 1] = Unfilled
            BY <1>0, <3>1, <6>1
          <6>. QED  BY <3>4, <6>2
        <5>2. CASE i # rpos
          BY <3>2, <4>1, <5>2 DEF RingOwnership
        <5>. QED  BY <5>1, <5>2
      <4>2. wpc = "fill" => stack'[wpos] # <<>>
        BY <3>2, <3>3 DEF TypeOK, RingOwnership
      <4>3. wpos = rpos => stack'[1 - wpos] = <<>>
        BY <3>2, OtherRing DEF TypeOK, RingOwnership
      <4>4. Len(stack'[rpos]) < Capacity
        BY <1>0, <3>1, <3>2, ConstAssumption
      <4>. QED
        BY <1>5, <2>2, <4>1, <4>2, <4>3, <4>4 DEF RPop, RingOwnership
    <3>. QED  BY <3>5, <3>6, <3>7
  <2>. QED  BY <1>5, <2>1, <2>2 DEF RPop
<1>6. CASE RSent
  <2>1. Append(out, held) \in Seq(Blocks)
    BY DEF TypeOK
  <2>2. TypeOK'
    BY <1>6, <2>1, ConstAssumption DEF RSent, TypeOK
  <2>3. RingOwnership'
    BY <1>6 DEF RSent, TypeOK, RingOwnership
  <2>. QED  BY <1>6, <2>2, <2>3 DEF RSent, NoStaleBlock
<1>7. CASE RFailed
  <2>1. /\ failed' \in 0..MaxTries
        /\ lost' \subseteq Blocks
    BY <1>7, ConstAssumption DEF RFailed, TypeOK
  <2>2. CASE UNCHANGED stack
    <3>1. TypeOK'
      BY <1>7, <2>1, <2>2 DEF RFailed, TypeOK
    <3>2. RingOwnership'
      BY <1>7, <2>2 DEF RFailed, TypeOK, RingOwnership
    <3>. QED  BY <1>7, <3>1, <3>2 DEF RFailed, NoStaleBlock
  <2>3. CASE stack' = [stack EXCEPT ![rpos] = <<held>> \o s] /\ Len(s) < Capacity
    <3> DEFINE t == <<held>> \o s
    <3>1. <<held>> \in Seq(Blocks) /\ Len(<<held>>) = 1 /\ <<held>>[1] = held
      BY DEF TypeOK
    <3>2. /\ t \in Seq(Blocks) /\ Len(t) = 1 + Len(s)
          /\ \A k \in 1..(1 + Len(s)) : t[k] = IF k <= 1 THEN <<held>>[k] ELSE s[k - 1]
      BY <1>0, <3>1, ConcatProperties
    <3>3. /\ stack' \in [0..1 -> Seq(Blocks)]
          /\ \A i \in 0..1 : Len(stack'[i]) <= Capacity
          /\ stack'[rpos] = t
          /\ \A i \in 0..1 : i # rpos => stack'[i] = stack[i]
      BY <1>0, <2>3, <3>2, OneRing, ConstAssumption DEF TypeOK
    <3> HIDE DEF t
    <3>4. (wpc # "fill" \/ wpos # rpos) /\ rpc = "send"
      BY <1>7 DEF RFailed, RingOwnership
    <3>5. \A k \in 1..Len(t) : t[k] # Unfilled
      <4>1. held # Unfilled /\ \A k \in 1..Len(s) : s[k] # Unfilled
        BY <3>4 DEF TypeOK, RingOwnership, NoStaleBlock
      <4>2. ASSUME NEW k \in 1..Len(t) PROVE t[k] # Unfilled
        <5>1. CASE k = 1
          BY <1>0, <3>1, <3>2, <4>1, <4>2, <5>1
        <5>2. CASE k > 1
          <6>1. k \in 1..(1 + Len(s)) /\ ~(k <= 1) /\ k - 1 \in 1..Len(s)
            BY <1>0, <3>2, <4>2, <5>2
          <6>2. t[k] = s[k - 1]
            BY <3>2, <6>1
          <6>. QED  BY <4>1, <6>1, <6>2
        <5>. QED  BY <1>0, <3>2, <4>2, <5>1, <5>2
      <4>. QED  BY <4>2
    <3>6. TypeOK'
      BY <1>7, <2>1, <3>3 DEF RFailed, TypeOK
    <3>7. RingOwnership'
      <4>1. ASSUME NEW i \in 0..1, NEW k \in 1..Len(stack'[i]), stack'[i][k] = Unfilled
            PROVE  wpc = "fill" /\ i = wpos /\ k = Len(stack'[i])
        <5>1. CASE i = rpos
          BY <3>3, <3>5, <4>1, <5>1
        <5>2. CASE i # rpos
          BY <3>3, <4>1, <5>2 DEF RingOwnership
        <5>. QED  BY <5>1, <5>2
      <4>2. wpc = "fill" => stack'[wpos] # <<>>
        BY <3>3, <3>4 DEF TypeOK, RingOwnership
      <4>3. wpos = rpos => stack'[1 - wpos] = <<>>
        BY <3>3, OtherRing DEF TypeOK, RingOwnership
      <4>. QED
        BY <1>7, <3>4, <4>1, <4>2, <4>3 DEF RFailed, RingOwnership
    <3>. QED  BY <1>7, <3>6, <3>7 DEF RFailed, NoStaleBlock
  <2>. QED  BY <1>7, <2>2, <2>3 DEF RFailed, BackPop
<1>8. CASE REnd
  <2>1. TypeOK'
    BY <1>8 DEF REnd, TypeOK
  <2>2. RingOwnership'
    BY <1>8 DEF REnd, TypeOK, RingOwnership
  <2>. QED  BY <1>8, <2>1, <2>2 DEF REnd, NoStaleBlock
<1>9. CASE RExit
  <2>1. /\ stack' \in [0..1 -> Seq(Blocks)]
        /\ \A i \in 0..1 : stack'[i] = <<>> /\ Len(stack'[i]) = 0
    BY <1>9, EmptySeq DEF RExit
  <2>2. TypeOK'
    BY <1>9, <2>1, ConstAssumption DEF RExit, TypeOK
  <2>3. RingOwnership'
    BY <1>9, <2>1, OtherRing DEF RExit, TypeOK, RingOwnership
  <2>. QED  BY <1>9, <2>2, <2>3 DEF RExit, NoStaleBlock
<1>. QED
  BY <1>1, <1>2, <1>3, <1>4, <1>5, <1>6, <1>7, <1>8, <1>9 DEF Reader

LEMMA StepInv == IInv /\ [Next]_vars => IInv'
<1> SUFFICES ASSUME IInv, [Next]_vars PROVE IInv'
  OBVIOUS
<1>1. CASE Shutdown
  <2>1. TypeOK'
    BY <1>1 DEF Shutdown, IInv, TypeOK, wvars, rvars
  <2>2. RingOwnership'
    BY <1>1 DEF Shutdown, IInv, TypeOK, RingOwnership, wvars, rvars
  <2>. QED
    BY <1>1, <2>1, <2>2 DEF Shutdown, IInv, NoStaleBlock, wvars, rvars
<1>2. CASE UNCHANGED vars
  BY <1>2 DEF IInv, TypeOK, RingOwnership, NoStaleBlock, vars, wvars, rvars
<1>. QED
  BY <1>1, <1>2, WriterInv, ReaderInv DEF Next, Stopped

(* In every reachable state the variables have their types and a ring holds *)
(* no more than its blocks.                                                 *)
THEOREM TypeCorrect == Spec => []TypeOK
<1>1. IInv => TypeOK
  BY DEF IInv
<1>. QED
  BY InitInv, StepInv, <1>1, PTL DEF Spec

(* The discipline of the hand-off (tcp_socket.cpp:327-388, 462-471): the     *)
(* reader and the writer are never in the same ring except as it states.    *)
THEOREM OwnershipHolds == Spec => []RingOwnership
<1>1. IInv => RingOwnership
  BY DEF IInv
<1>. QED
  BY InitInv, StepInv, <1>1, PTL DEF Spec

(* A block is sent only after recv filled it (tcp_socket.cpp:471-509).       *)
THEOREM NeverStale == Spec => []NoStaleBlock
<1>1. IInv => NoStaleBlock
  BY DEF IInv
<1>. QED
  BY InitInv, StepInv, <1>1, PTL DEF Spec

-----------------------------------------------------------------------------
(* The hand-off implements FifoChannel.  Four facts about sequences: adding  *)
(* a last element, and moving the first one.                                 *)

LEMMA AppendRight ==
  ASSUME NEW S, NEW s \in Seq(S), NEW t \in Seq(S), NEW x \in S
  PROVE  s \o Append(t, x) = Append(s \o t, x)
<1>1. <<x>> \in Seq(S) /\ s \o t \in Seq(S) /\ Append(t, x) = t \o <<x>>
  BY ConcatProperties, AppendIsConcat
<1>2. Append(s \o t, x) = (s \o t) \o <<x>>
  BY <1>1, AppendIsConcat
<1>. QED
  BY <1>1, <1>2, ConcatAssociative

LEMMA ButLastOfAppend ==
  ASSUME NEW S, NEW s \in Seq(S), NEW x \in S
  PROVE  SubSeq(Append(s, x), 1, Len(Append(s, x)) - 1) = s
<1> DEFINE a == Append(s, x)
           b == SubSeq(a, 1, Len(a) - 1)
<1>1. /\ a \in Seq(S) /\ a # <<>> /\ Len(a) = Len(s) + 1
      /\ \A i \in 1..Len(s) : a[i] = s[i]
      /\ Len(s) \in Nat
  BY AppendProperties, LenProperties
<1>2. b \in Seq(S) /\ Len(b) = Len(a) - 1 /\ \A i \in 1..(Len(a) - 1) : b[i] = a[i]
  <2> HIDE DEF a
  <2>. QED  BY <1>1, DropLast
<1> HIDE DEF a, b
<1>3. Len(b) = Len(s) /\ \A i \in 1..Len(b) : b[i] = s[i]
  BY <1>1, <1>2
<1>4. b = s
  BY <1>2, <1>3, SeqEqual
<1>. QED
  BY <1>4 DEF a, b

LEMMA SetLastIsAppend ==
  ASSUME NEW S, NEW s \in Seq(S), s # <<>>, NEW x \in S
  PROVE  [s EXCEPT ![Len(s)] = x] = Append(SubSeq(s, 1, Len(s) - 1), x)
<1> DEFINE e == [s EXCEPT ![Len(s)] = x]
           b == SubSeq(s, 1, Len(s) - 1)
           a == Append(b, x)
<1>1. Len(s) \in Nat \ {0}
  BY EmptySeq
<1>2. /\ e \in Seq(S) /\ Len(e) = Len(s) /\ e[Len(s)] = x
      /\ \A i \in 1..(Len(s) - 1) : e[i] = s[i]
  BY SetLast
<1>3. b \in Seq(S) /\ Len(b) = Len(s) - 1 /\ \A i \in 1..(Len(s) - 1) : b[i] = s[i]
  BY DropLast
<1> HIDE DEF e, b
<1>4. /\ a \in Seq(S) /\ Len(a) = Len(b) + 1 /\ a[Len(b) + 1] = x
      /\ \A i \in 1..Len(b) : a[i] = b[i]
  BY <1>3, AppendProperties
<1> HIDE DEF a
<1>5. Len(a) = Len(e)
  BY <1>1, <1>2, <1>3, <1>4
<1>6. ASSUME NEW i \in 1..Len(e) PROVE e[i] = a[i]
  <2>1. CASE i = Len(s)
    BY <1>1, <1>2, <1>3, <1>4, <2>1
  <2>2. CASE i # Len(s)
    BY <1>1, <1>2, <1>3, <1>4, <2>2
  <2>. QED  BY <2>1, <2>2
<1>7. e = a
  BY <1>2, <1>4, <1>5, <1>6, SeqEqual
<1>. QED
  BY <1>7 DEF e, b, a

LEMMA HeadFirst ==
  ASSUME NEW S, NEW s \in Seq(S), s # <<>>
  PROVE  /\ Head(s) \in S /\ Tail(s) \in Seq(S)
         /\ <<Head(s)>> \o Tail(s) = s
<1> DEFINE h == Head(s)
           t == Tail(s)
           a == <<h>> \o t
<1>1. /\ h \in S /\ h = s[1] /\ t \in Seq(S) /\ Len(t) = Len(s) - 1
      /\ \A i \in 1..Len(t) : t[i] = s[i + 1]
      /\ Len(s) \in Nat \ {0}
  BY HeadTailProperties, EmptySeq
<1> HIDE DEF h, t
<1>2. <<h>> \in Seq(S) /\ Len(<<h>>) = 1 /\ <<h>>[1] = h
  BY <1>1
<1>3. /\ a \in Seq(S) /\ Len(a) = 1 + Len(t)
      /\ \A i \in 1..(1 + Len(t)) : a[i] = IF i <= 1 THEN <<h>>[i] ELSE t[i - 1]
  BY <1>1, <1>2, ConcatProperties
<1> HIDE DEF a
<1>4. Len(a) = Len(s)
  BY <1>1, <1>3
<1>5. ASSUME NEW i \in 1..Len(a) PROVE a[i] = s[i]
  <2>1. CASE i = 1
    BY <1>1, <1>2, <1>3, <2>1
  <2>2. CASE i > 1
    <3>1. i \in 1..(1 + Len(t)) /\ ~(i <= 1) /\ i - 1 \in 1..Len(t) /\ (i - 1) + 1 = i
      BY <1>1, <1>3, <2>2
    <3>. QED  BY <1>1, <1>3, <3>1
  <2>. QED  BY <1>1, <1>4, <2>1, <2>2
<1>6. a = s
  BY <1>1, <1>3, <1>4, <1>5, SeqEqual
<1>. QED
  BY <1>1, <1>6 DEF h, t, a

LEMMA HeadOfCons ==
  ASSUME NEW S, NEW s \in Seq(S), NEW x \in S
  PROVE  /\ <<x>> \o s \in Seq(S) /\ <<x>> \o s # <<>>
         /\ Head(<<x>> \o s) = x /\ Tail(<<x>> \o s) = s
<1> DEFINE a == <<x>> \o s
           t == Tail(a)
<1>1. <<x>> \in Seq(S) /\ Len(<<x>>) = 1 /\ <<x>>[1] = x /\ Len(s) \in Nat
  BY LenProperties
<1>2. /\ a \in Seq(S) /\ Len(a) = 1 + Len(s)
      /\ \A i \in 1..(1 + Len(s)) : a[i] = IF i <= 1 THEN <<x>>[i] ELSE s[i - 1]
  BY <1>1, ConcatProperties
<1> HIDE DEF a
<1>3. a # <<>>
  BY <1>1, <1>2, EmptySeq
<1>4. /\ Head(a) = a[1] /\ t \in Seq(S) /\ Len(t) = Len(a) - 1
      /\ \A i \in 1..Len(t) : t[i] = a[i + 1]
  BY <1>2, <1>3, HeadTailProperties
<1> HIDE DEF t
<1>5. Head(a) = x
  BY <1>1, <1>2, <1>4
<1>6. Len(t) = Len(s)
  BY <1>1, <1>2, <1>4
<1>7. ASSUME NEW i \in 1..Len(t) PROVE t[i] = s[i]
  <2>1. i + 1 \in 1..(1 + Len(s)) /\ ~(i + 1 <= 1) /\ (i + 1) - 1 = i
    BY <1>1, <1>6
  <2>2. a[i + 1] = s[(i + 1) - 1]
    BY <1>2, <2>1
  <2>. QED  BY <1>4, <2>1, <2>2
<1>8. t = s
  BY <1>4, <1>6, <1>7, SeqEqual
<1>. QED
  BY <1>2, <1>3, <1>5, <1>8 DEF a, t

(* The packets in transit, part by part: the block the reader holds, the    *)
(* ring that was handed over, the filled blocks of the writer's ring.       *)
InHand == IF rpc = "send" THEN <<held>> ELSE <<>>
OwnRing == IF wpc = "fill" THEN SubSeq(stack[wpos], 1, Len(stack[wpos]) - 1)
                           ELSE stack[wpos]

LEMMA TransitParts ==
  IInv => /\ InHand \in Seq(Blocks)
          /\ stack[1 - wpos] \in Seq(Blocks)
          /\ OwnRing \in Seq(Blocks)
          /\ InTransit = (InHand \o stack[1 - wpos]) \o OwnRing
          /\ InTransit \in Seq(Blocks)
<1> SUFFICES ASSUME IInv
             PROVE  /\ InHand \in Seq(Blocks)
                    /\ stack[1 - wpos] \in Seq(Blocks)
                    /\ OwnRing \in Seq(Blocks)
                    /\ InTransit = (InHand \o stack[1 - wpos]) \o OwnRing
                    /\ InTransit \in Seq(Blocks)
  OBVIOUS
<1>1. /\ wpos \in 0..1 /\ 1 - wpos \in 0..1 /\ 1 - wpos # wpos
      /\ stack[wpos] \in Seq(Blocks) /\ stack[1 - wpos] \in Seq(Blocks)
  BY OtherRing DEF IInv, TypeOK
<1>2. InHand \in Seq(Blocks)
  <2>1. CASE rpc = "send"
    BY <2>1 DEF InHand, IInv, TypeOK
  <2>2. CASE rpc # "send"
    BY <2>2, EmptySeq DEF InHand
  <2>. QED  BY <2>1, <2>2
<1>3. OwnRing \in Seq(Blocks)
  <2>1. CASE wpc = "fill"
    <3>1. stack[wpos] # <<>>
      BY <2>1 DEF IInv, RingOwnership
    <3>. QED  BY <1>1, <2>1, <3>1, DropLast DEF OwnRing
  <2>2. CASE wpc # "fill"
    BY <1>1, <2>2 DEF OwnRing
  <2>. QED  BY <2>1, <2>2
<1>4. Filled(1 - wpos) = stack[1 - wpos] /\ Filled(wpos) = OwnRing
  BY <1>1 DEF Filled, OwnRing
<1>5. InTransit = (InHand \o stack[1 - wpos]) \o OwnRing
  BY <1>4 DEF InTransit, InHand
<1>6. InHand \o stack[1 - wpos] \in Seq(Blocks)
  BY <1>1, <1>2, ConcatProperties
<1>7. (InHand \o stack[1 - wpos]) \o OwnRing \in Seq(Blocks)
  BY <1>3, <1>6, ConcatProperties
<1>. QED
  BY <1>1, <1>2, <1>3, <1>5, <1>7

LEMMA TransitNext ==
  (IInv => InTransit = (InHand \o stack[1 - wpos]) \o OwnRing)'
<1>1. IInv => InTransit = (InHand \o stack[1 - wpos]) \o OwnRing
  BY TransitParts
<1>. QED
  BY <1>1, PTL

LEMMA WriterEffect ==
  ASSUME IInv, Writer
  PROVE  /\ UNCHANGED <<rpc, out, lost, shutdown>>
         /\ \/ InTransit' = InTransit /\ finished' = finished
            \/ /\ ~finished /\ finished' = finished
               /\ next \in Packets
               /\ InTransit' = Append(InTransit, next)
            \/ ~finished /\ finished' /\ InTransit' = Append(InTransit, End)
<1>0. IInv'
  BY WriterInv
<1>1. /\ InTransit = (InHand \o stack[1 - wpos]) \o OwnRing
      /\ InHand \in Seq(Blocks)
      /\ stack[1 - wpos] \in Seq(Blocks)
      /\ InHand \o stack[1 - wpos] \in Seq(Blocks)
  BY TransitParts, ConcatProperties
<1>2. (IInv => InTransit = (InHand \o stack[1 - wpos]) \o OwnRing)'
  BY TransitNext
<1>3. UNCHANGED <<rpc, held, out, lost, shutdown>> /\ InHand' = InHand
  BY DEF Writer, WLoop, WFull, WFill, WCompare, WFlip, WAfter, WExit, rvars, InHand
<1>4. InTransit' = (InHand \o stack'[1 - wpos']) \o OwnRing'
  BY <1>0, <1>2, <1>3
<1>5. /\ wpos \in 0..1 /\ 1 - wpos \in 0..1 /\ 1 - wpos # wpos
      /\ stack[wpos] \in Seq(Blocks) /\ stack \in [0..1 -> Seq(Blocks)]
  BY OtherRing DEF IInv, TypeOK
<1>6. CASE WLoop
  <2>1. CASE UNCHANGED stack /\ wpc' # "fill"
    <3>1. wpos' = wpos /\ finished' = finished /\ OwnRing' = OwnRing
      BY <1>6, <2>1 DEF WLoop, OwnRing
    <3>. QED  BY <1>1, <1>3, <1>4, <2>1, <3>1
  <2>2. CASE /\ stack' = [stack EXCEPT ![wpos] = Append(stack[wpos], Unfilled)]
             /\ wpc' = "fill"
    <3>1. /\ wpos' = wpos /\ finished' = finished /\ OwnRing = stack[wpos]
          /\ stack'[1 - wpos] = stack[1 - wpos]
          /\ stack'[wpos] = Append(stack[wpos], Unfilled)
      BY <1>5, <1>6, <2>2 DEF WLoop, OwnRing
    <3>2. SubSeq(stack'[wpos], 1, Len(stack'[wpos]) - 1) = stack[wpos]
      BY <1>5, <3>1, BlockFacts, ButLastOfAppend
    <3>3. OwnRing' = OwnRing
      BY <2>2, <3>1, <3>2 DEF OwnRing
    <3>. QED  BY <1>1, <1>3, <1>4, <3>1, <3>3
  <2>. QED  BY <1>6, <2>1, <2>2 DEF WLoop
<1>7. CASE WFull
  <2>1. wpos' = wpos /\ stack' = stack /\ finished' = finished /\ OwnRing' = OwnRing
    BY <1>7 DEF WFull, OwnRing
  <2>. QED  BY <1>1, <1>3, <1>4, <2>1
<1>8. CASE WFill
  <2>1. /\ wpos' = wpos /\ wpc = "fill" /\ wpc' = "cmp" /\ stack[wpos] # <<>>
        /\ OwnRing = SubSeq(stack[wpos], 1, Len(stack[wpos]) - 1)
        /\ OwnRing \in Seq(Blocks)
        /\ OwnRing' = stack'[wpos]
    BY <1>8, TransitParts DEF WFill, IInv, RingOwnership, OwnRing
  <2>2. ASSUME NEW x \in Blocks, Fill(x)
        PROVE  InTransit' = Append(InTransit, x)
    <3>1. stack'[wpos] = [stack[wpos] EXCEPT ![Len(stack[wpos])] = x]
          /\ stack'[1 - wpos] = stack[1 - wpos]
      BY <1>5, <2>2 DEF Fill
    <3>2. OwnRing' = Append(OwnRing, x)
      BY <1>5, <2>1, <3>1, SetLastIsAppend
    <3>3. (InHand \o stack[1 - wpos]) \o Append(OwnRing, x)
            = Append((InHand \o stack[1 - wpos]) \o OwnRing, x)
      <4> DEFINE p == InHand \o stack[1 - wpos]
      <4>1. p \in Seq(Blocks) /\ OwnRing \in Seq(Blocks)
        BY <1>1, <2>1
      <4> HIDE DEF p
      <4>2. p \o Append(OwnRing, x) = Append(p \o OwnRing, x)
        BY <4>1, AppendRight
      <4>. QED  BY <4>2 DEF p
    <3>. QED  BY <1>1, <1>4, <2>1, <3>1, <3>2, <3>3
  <2>3. CASE ~finished /\ next < MaxPkts /\ Fill(next) /\ finished' = finished
    <3>1. next \in Packets /\ next \in Blocks
      BY <2>3, ConstAssumption, BlockFacts DEF IInv, TypeOK, Packets
    <3>. QED  BY <1>3, <2>2, <2>3, <3>1
  <2>4. CASE ~finished /\ Fill(End) /\ finished'
    BY <1>3, <2>2, <2>4, BlockFacts
  <2>5. CASE BackPush /\ finished' = finished
    <3>1. stack'[wpos] = OwnRing /\ stack'[1 - wpos] = stack[1 - wpos]
      BY <1>5, <2>1, <2>5 DEF BackPush
    <3>. QED  BY <1>1, <1>3, <1>4, <2>1, <2>5, <3>1
  <2>. QED  BY <1>8, <2>3, <2>4, <2>5 DEF WFill
<1>9. CASE WCompare
  <2>1. wpos' = wpos /\ stack' = stack /\ finished' = finished /\ OwnRing' = OwnRing
    BY <1>9 DEF WCompare, OwnRing
  <2>. QED  BY <1>1, <1>3, <1>4, <2>1
<1>10. CASE WFlip
  <2>1. /\ wpos' = 1 - wpos /\ 1 - wpos' = wpos /\ stack' = stack
        /\ finished' = finished
        /\ stack[1 - wpos] = <<>>
        /\ OwnRing = stack[wpos] /\ OwnRing' = stack[1 - wpos]
    BY <1>5, <1>10, OtherRing DEF WFlip, OwnRing, IInv, RingOwnership
  <2>2. /\ InHand \o <<>> = InHand
        /\ (InHand \o stack[wpos]) \o <<>> = InHand \o stack[wpos]
    BY <1>1, <1>5, ConcatEmptySeq, ConcatProperties
  <2>. QED  BY <1>1, <1>3, <1>4, <2>1, <2>2
<1>11. CASE WAfter
  <2>1. wpos' = wpos /\ stack' = stack /\ finished' = finished /\ OwnRing' = OwnRing
    BY <1>11 DEF WAfter, OwnRing
  <2>. QED  BY <1>1, <1>3, <1>4, <2>1
<1>12. CASE WExit
  <2>1. wpos' = wpos /\ stack' = stack /\ finished' = finished /\ OwnRing' = OwnRing
    BY <1>12 DEF WExit, OwnRing
  <2>. QED  BY <1>1, <1>3, <1>4, <2>1
<1>. QED
  BY <1>6, <1>7, <1>8, <1>9, <1>10, <1>11, <1>12 DEF Writer

(* What is left when the reader stands in a ring: its first block is the     *)
(* oldest of all that is in the two rings.                                   *)
LEMMA ReaderFirst ==
  ASSUME NEW S, NEW a \in Seq(S), NEW b \in Seq(S), NEW x \in S
  PROVE  /\ (<<>> \o a) \o b = a \o b
         /\ (<<x>> \o a) \o b = <<x>> \o (a \o b)
         /\ a \o b \in Seq(S)
BY ConcatEmptySeq, ConcatAssociative, ConcatProperties

LEMMA ReaderEffect ==
  ASSUME IInv, Reader
  PROVE  /\ UNCHANGED <<shutdown, finished>>
         /\ \/ Over /\ Over' /\ UNCHANGED <<out, lost>>
            \/ /\ ~Over /\ ~Over' /\ InTransit' = InTransit
               /\ UNCHANGED <<out, lost>>
            \/ ~Over /\ Over' /\ shutdown /\ UNCHANGED <<out, lost>>
            \/ /\ ~Over /\ ~Over'
               /\ InTransit # <<>> /\ Head(InTransit) # End
               /\ InTransit' = Tail(InTransit)
               /\ \/ out' = Append(out, Head(InTransit)) /\ lost' = lost
                  \/ lost' = lost \union {Head(InTransit)} /\ out' = out
            \/ /\ ~Over /\ Over'
               /\ InTransit # <<>> /\ Head(InTransit) = End
               /\ UNCHANGED <<out, lost>>
<1> DEFINE a == stack[1 - wpos]
           b == OwnRing
<1>0. IInv'
  BY ReaderInv
<1>1. /\ InTransit = (InHand \o a) \o b
      /\ a \in Seq(Blocks) /\ b \in Seq(Blocks) /\ a \o b \in Seq(Blocks)
  BY TransitParts, ConcatProperties
<1>2. (IInv => InTransit = (InHand \o stack[1 - wpos]) \o OwnRing)'
  BY TransitNext
<1>3. UNCHANGED <<wpc, wpos, next, finished, shutdown>>
  BY DEF Reader, RLoop, RLock, RSleep, RWake, RPop, RSent, RFailed, REnd, RExit, wvars
<1>4. InTransit' = (InHand' \o stack'[1 - wpos]) \o OwnRing'
  BY <1>0, <1>2, <1>3
<1>5. /\ wpos \in 0..1 /\ 1 - wpos \in 0..1 /\ 1 - wpos # wpos
      /\ rpos = wpos \/ rpos = 1 - wpos
      /\ stack \in [0..1 -> Seq(Blocks)]
      /\ rpos \in 0..1 /\ held \in Blocks
  BY OtherRing DEF IInv, TypeOK
<1>6. stack' = stack => stack'[1 - wpos] = a /\ OwnRing' = b
  BY <1>3 DEF OwnRing
<1>7. /\ rpc = "send" => InTransit = <<held>> \o (a \o b)
      /\ rpc # "send" => InTransit = a \o b
  <2>1. /\ (<<>> \o a) \o b = a \o b
        /\ (<<held>> \o a) \o b = <<held>> \o (a \o b)
    <3> HIDE DEF a, b
    <3>1. a \in Seq(Blocks) /\ b \in Seq(Blocks) /\ held \in Blocks
      BY <1>1, <1>5
    <3>. QED  BY <3>1, ReaderFirst
  <2>. QED  BY <1>1, <2>1 DEF InHand
<1>8. stack' = stack => /\ rpc' = "send" => InTransit' = <<held'>> \o (a \o b)
                        /\ rpc' # "send" => InTransit' = a \o b
  <2>1. held' \in Blocks
    BY <1>0 DEF IInv, TypeOK
  <2>2. /\ (<<>> \o a) \o b = a \o b
        /\ (<<held'>> \o a) \o b = <<held'>> \o (a \o b)
    <3> DEFINE h == held'
    <3> HIDE DEF a, b, h
    <3>1. a \in Seq(Blocks) /\ b \in Seq(Blocks) /\ h \in Blocks
      BY <1>1, <2>1 DEF h
    <3>2. /\ (<<>> \o a) \o b = a \o b
          /\ (<<h>> \o a) \o b = <<h>> \o (a \o b)
      BY <3>1, ReaderFirst
    <3>. QED  BY <3>2 DEF h
  <2>3. ASSUME stack' = stack
        PROVE  InTransit' = (InHand' \o a) \o b
    BY <1>4, <1>6, <2>3
  <2>. QED  BY <2>2, <2>3 DEF InHand
<1>9. rpc = "send" => /\ InTransit # <<>> /\ Head(InTransit) = held
                      /\ Tail(InTransit) = a \o b
  <2>1. /\ <<held>> \o (a \o b) # <<>>
        /\ Head(<<held>> \o (a \o b)) = held
        /\ Tail(<<held>> \o (a \o b)) = a \o b
    <3> DEFINE c == a \o b
    <3>1. held \in Blocks /\ c \in Seq(Blocks)
      BY <1>1, <1>5
    <3> HIDE DEF c
    <3>2. <<held>> \o c # <<>> /\ Head(<<held>> \o c) = held /\ Tail(<<held>> \o c) = c
      BY <3>1, HeadOfCons
    <3>. QED  BY <3>2 DEF c
  <2>. QED  BY <1>7, <2>1
<1>10. CASE RLoop
  <2>1. /\ stack' = stack /\ UNCHANGED <<out, lost>> /\ rpc = "loop"
        /\ \/ shutdown /\ rpc' = "drain"
           \/ rpc' \in {"lock", "pop"}
    BY <1>10 DEF RLoop
  <2>. QED  BY <1>3, <1>7, <1>8, <2>1 DEF Over
<1>11. CASE RLock
  BY <1>3, <1>7, <1>8, <1>11 DEF RLock, Over
<1>12. CASE RSleep
  BY <1>3, <1>7, <1>8, <1>12 DEF RSleep, Over
<1>13. CASE RWake
  BY <1>3, <1>7, <1>8, <1>13 DEF RWake, Over
<1>14. CASE RPop
  <2>1. /\ UNCHANGED <<out, lost>> /\ rpc = "pop" /\ rpc' \in {"loop", "send"}
        /\ wpos = rpos => wpc # "fill" /\ a = <<>>
    BY <1>14 DEF RPop, IInv, RingOwnership
  <2>2. CASE stack' = stack /\ rpc' = "loop"
    BY <1>3, <1>7, <1>8, <2>1, <2>2 DEF Over
  <2>3. CASE /\ stack[rpos] # <<>> /\ held' = Head(stack[rpos]) /\ rpc' = "send"
             /\ stack' = [stack EXCEPT ![rpos] = Tail(stack[rpos])]
    <3> DEFINE s == stack[rpos]
    <3>1. /\ s \in Seq(Blocks) /\ held' \in Blocks /\ Tail(s) \in Seq(Blocks)
          /\ <<held'>> \o Tail(s) = s
      BY <1>5, <2>3, HeadFirst
    <3>2. InTransit = a \o b
      BY <1>7, <2>1
    <3>3. InTransit' = (<<held'>> \o stack'[1 - wpos]) \o OwnRing'
      BY <1>4, <2>3 DEF InHand
    <3>4. CASE rpos = 1 - wpos
      <4>1. stack'[1 - wpos] = Tail(s) /\ OwnRing' = b /\ s = a
        BY <1>3, <1>5, <2>3, <3>4 DEF OwnRing
      <4>. QED  BY <1>3, <2>1, <2>3, <3>1, <3>2, <3>3, <4>1 DEF Over
    <3>5. CASE rpos = wpos
      <4>1. stack'[1 - wpos] = <<>> /\ OwnRing' = Tail(s) /\ b = s /\ a = <<>>
        BY <1>3, <1>5, <2>1, <2>3, <3>5 DEF OwnRing
      <4>2. /\ <<held'>> \in Seq(Blocks)
            /\ <<held'>> \o <<>> = <<held'>> /\ <<>> \o s = s
        BY <3>1, ConcatEmptySeq
      <4>. QED  BY <1>3, <2>1, <2>3, <3>1, <3>2, <3>3, <4>1, <4>2 DEF Over
    <3>. QED  BY <1>5, <3>4, <3>5
  <2>. QED  BY <1>14, <2>2, <2>3 DEF RPop
<1>15. CASE RSent
  BY <1>3, <1>8, <1>9, <1>15 DEF RSent, Over
<1>16. CASE RFailed
  <2>1. CASE lost' = lost /\ BackPop
    <3> DEFINE s == stack[rpos]
    <3>1. /\ rpc = "send" /\ rpc' = "loop" /\ UNCHANGED <<out, lost>>
          /\ stack' = [stack EXCEPT ![rpos] = <<held>> \o s]
          /\ wpos = rpos => wpc # "fill" /\ a = <<>>
      BY <1>16, <2>1 DEF RFailed, BackPop, IInv, RingOwnership
    <3>2. InTransit' = (<<>> \o stack'[1 - wpos]) \o OwnRing'
      BY <1>4, <3>1 DEF InHand
    <3>3. InTransit = <<held>> \o (a \o b) /\ InTransit = (<<held>> \o a) \o b
      BY <1>1, <1>7, <3>1 DEF InHand
    <3>4. s \in Seq(Blocks) /\ <<held>> \o s \in Seq(Blocks)
      BY <1>5, HeadOfCons
    <3>5. CASE rpos = 1 - wpos
      <4>1. stack'[1 - wpos] = <<held>> \o s /\ OwnRing' = b /\ s = a
        BY <1>3, <1>5, <3>1, <3>5 DEF OwnRing
      <4>2. <<>> \o (<<held>> \o s) = <<held>> \o s
        BY <3>4, ConcatEmptySeq
      <4>. QED  BY <1>3, <3>1, <3>2, <3>3, <4>1, <4>2 DEF Over
    <3>6. CASE rpos = wpos
      <4>1. stack'[1 - wpos] = <<>> /\ OwnRing' = <<held>> \o s /\ b = s /\ a = <<>>
        BY <1>3, <1>5, <3>1, <3>6 DEF OwnRing
      <4>2. /\ <<>> \o <<>> = <<>> /\ <<>> \o s = s
            /\ <<>> \o (<<held>> \o s) = <<held>> \o s
        BY <3>4, EmptySeq, ConcatEmptySeq
      <4>. QED  BY <1>3, <3>1, <3>2, <3>3, <4>1, <4>2 DEF Over
    <3>. QED  BY <1>5, <3>5, <3>6
  <2>2. CASE lost' = lost \union {held} /\ UNCHANGED stack
    BY <1>3, <1>8, <1>9, <1>16, <2>2 DEF RFailed, Over
  <2>. QED  BY <1>16, <2>1, <2>2 DEF RFailed
<1>17. CASE REnd
  BY <1>3, <1>9, <1>17 DEF REnd, Over
<1>18. CASE RExit
  BY <1>3, <1>18 DEF RExit, Over
<1>. QED
  BY <1>10, <1>11, <1>12, <1>13, <1>14, <1>15, <1>16, <1>17, <1>18 DEF Reader

(* Nothing follows the end marker, and it comes only after the writer read   *)
(* the end of the connection.                                                *)
EndLast == ~Over => \A k \in 1..Len(InTransit) :
                      InTransit[k] = End => finished /\ k = Len(InTransit)

ChanInv == IInv /\ EndLast

LEMMA InitChan == Init => ChanInv /\ Channel!Init
<1> SUFFICES ASSUME Init PROVE ChanInv /\ Channel!Init
  OBVIOUS
<1>1. IInv
  BY InitInv
<1>2. InHand = <<>> /\ stack[1 - wpos] = <<>> /\ OwnRing = <<>>
  BY OtherRing DEF Init, InHand, OwnRing
<1>3. InTransit = <<>>
  <2>1. InTransit = (<<>> \o <<>>) \o <<>>
    BY <1>1, <1>2, TransitParts
  <2>2. <<>> \o <<>> = <<>>
    BY EmptySeq, ConcatEmptySeq
  <2>. QED  BY <2>1, <2>2
<1>4. EndLast
  BY <1>3, EmptySeq DEF EndLast
<1>5. Channel!Init
  BY <1>3 DEF Init, Channel!Init, Over
<1>. QED
  BY <1>1, <1>4, <1>5 DEF ChanInv

LEMMA StepChan == ChanInv /\ [Next]_vars => ChanInv' /\ [Channel!Next]_(Channel!vars)
<1> SUFFICES ASSUME ChanInv, [Next]_vars
             PROVE  ChanInv' /\ [Channel!Next]_(Channel!vars)
  OBVIOUS
<1> USE DEF ChanInv
<1> DEFINE q == InTransit
<1>0. IInv' /\ q \in Seq(Blocks) /\ Len(q) \in Nat
  BY StepInv, TransitParts, LenProperties
<1>1. ~Over /\ ~finished => \A k \in 1..Len(q) : q[k] # End
  BY DEF EndLast
<1>2. CASE Writer
  <2>1. /\ rpc' = rpc /\ out' = out /\ lost' = lost /\ shutdown' = shutdown
        /\ Over' = Over
    BY <1>2, WriterEffect DEF Over
  <2>2. CASE InTransit' = InTransit /\ finished' = finished
    <3>1. EndLast'
      BY <2>1, <2>2 DEF EndLast
    <3>2. UNCHANGED Channel!vars
      BY <2>1, <2>2 DEF Channel!vars
    <3>. QED  BY <1>0, <3>1, <3>2
  <2>3. ASSUME NEW x \in Blocks, ~finished, InTransit' = Append(q, x),
               x \in Packets \/ (x = End /\ finished')
        PROVE  EndLast' /\ [Channel!Next]_(Channel!vars)
    <3>1. CASE Over
      BY <2>1, <2>3, <3>1 DEF EndLast, Channel!vars
    <3>2. CASE ~Over
      <4> DEFINE r == Append(q, x)
      <4>1. /\ r \in Seq(Blocks) /\ Len(r) = Len(q) + 1 /\ r[Len(q) + 1] = x
            /\ \A k \in 1..Len(q) : r[k] = q[k]
        BY <1>0, AppendProperties
      <4> HIDE DEF r
      <4>2. ASSUME NEW k \in 1..Len(r), r[k] = End
            PROVE  finished' /\ k = Len(r)
        <5>1. CASE k \in 1..Len(q)
          BY <1>1, <2>3, <3>2, <4>1, <4>2, <5>1
        <5>2. CASE k = Len(q) + 1
          BY <2>3, <4>1, <4>2, <5>2, ConstAssumption DEF Packets
        <5>. QED  BY <1>0, <4>1, <5>1, <5>2
      <4>3. EndLast'
        BY <2>3, <4>2 DEF EndLast, r
      <4>4. ~Channel!Closed
        BY <1>1, <2>3, <3>2 DEF Channel!Closed
      <4>5. Channel!Put(x)
        BY <2>1, <2>3, <3>2, <4>4 DEF Channel!Put
      <4>. QED  BY <2>3, <4>3, <4>5 DEF Channel!Next
    <3>. QED  BY <3>1, <3>2
  <2>4. CASE ~finished /\ next \in Packets /\ InTransit' = Append(q, next)
    BY <1>0, <2>3, <2>4 DEF Blocks
  <2>5. CASE ~finished /\ finished' /\ InTransit' = Append(q, End)
    BY <1>0, <2>3, <2>5, BlockFacts
  <2>. QED  BY <1>2, <2>2, <2>4, <2>5, WriterEffect
<1>3. CASE Reader
  <2>1. shutdown' = shutdown /\ finished' = finished
    BY <1>3, ReaderEffect
  <2>2. CASE Over /\ Over' /\ UNCHANGED <<out, lost>>
    BY <1>0, <2>1, <2>2 DEF EndLast, Channel!vars
  <2>3. CASE ~Over /\ ~Over' /\ InTransit' = InTransit /\ UNCHANGED <<out, lost>>
    <3>1. EndLast'
      BY <2>1, <2>3 DEF EndLast
    <3>2. Over' = Over
      BY <2>3 DEF Over
    <3>3. UNCHANGED Channel!vars
      BY <2>1, <2>3, <3>2 DEF Channel!vars
    <3>. QED  BY <1>0, <3>1, <3>3
  <2>4. CASE ~Over /\ Over' /\ shutdown /\ UNCHANGED <<out, lost>>
    <3>1. Channel!Abandon
      BY <2>1, <2>4 DEF Channel!Abandon
    <3>. QED  BY <1>0, <2>4, <3>1 DEF EndLast, Channel!Next
  <2>5. CASE /\ ~Over /\ ~Over' /\ q # <<>> /\ Head(q) # End
             /\ InTransit' = Tail(q)
             /\ \/ out' = Append(out, Head(q)) /\ lost' = lost
                \/ lost' = lost \union {Head(q)} /\ out' = out
    <3> DEFINE t == Tail(q)
    <3>1. /\ t \in Seq(Blocks) /\ Len(t) = Len(q) - 1
          /\ \A k \in 1..Len(t) : t[k] = q[k + 1]
      BY <1>0, <2>5, HeadTailProperties
    <3> HIDE DEF t
    <3>2. ASSUME NEW k \in 1..Len(t), t[k] = End
          PROVE  finished /\ k = Len(t)
      <4>1. k + 1 \in 1..Len(q) /\ q[k + 1] = End
        BY <1>0, <3>1, <3>2
      <4>2. finished /\ k + 1 = Len(q)
        BY <2>5, <4>1 DEF EndLast
      <4>. QED  BY <1>0, <3>1, <4>2
    <3>3. EndLast'
      BY <2>1, <2>5, <3>2 DEF EndLast, t
    <3>4. Channel!Deliver \/ Channel!GiveUp
      <4>0. Over' = Over
        BY <2>5 DEF Over
      <4>1. CASE out' = Append(out, Head(q)) /\ lost' = lost
        BY <2>1, <2>5, <4>0, <4>1 DEF Channel!Deliver
      <4>2. CASE lost' = lost \union {Head(q)} /\ out' = out
        BY <2>1, <2>5, <4>0, <4>2 DEF Channel!GiveUp
      <4>. QED  BY <2>5, <4>1, <4>2
    <3>. QED  BY <1>0, <3>3, <3>4 DEF Channel!Next
  <2>6. CASE ~Over /\ Over' /\ q # <<>> /\ Head(q) = End /\ UNCHANGED <<out, lost>>
    <3>1. 1 \in 1..Len(q) /\ q[1] = End
      BY <1>0, <2>6, EmptySeq
    <3>2. Len(q) = 1
      BY <2>6, <3>1 DEF EndLast
    <3>3. q = <<End>>
      <4>1. <<End>> \in Seq(Blocks) /\ Len(<<End>>) = 1 /\ <<End>>[1] = End
        BY BlockFacts
      <4>2. \A k \in 1..Len(q) : q[k] = <<End>>[k]
        BY <3>1, <3>2, <4>1
      <4>. QED  BY <1>0, <3>2, <4>1, <4>2, SeqEqual
    <3>4. Channel!TakeEnd
      BY <2>1, <2>6, <3>3 DEF Channel!TakeEnd
    <3>. QED  BY <1>0, <2>6, <3>4 DEF EndLast, Channel!Next
  <2>. QED  BY <1>3, <2>2, <2>3, <2>4, <2>5, <2>6, ReaderEffect
<1>4. CASE Shutdown
  <2>1. /\ UNCHANGED <<stack, wpos, wpc, rpc, held, finished, out, lost>>
        /\ ~shutdown /\ shutdown' = TRUE
    BY <1>4 DEF Shutdown, wvars, rvars
  <2>2. InTransit' = InTransit /\ Over' = Over
    BY <2>1 DEF InTransit, Filled, Over
  <2>3. EndLast'
    BY <2>1, <2>2 DEF EndLast
  <2>4. Channel!Abort
    BY <2>1, <2>2 DEF Channel!Abort
  <2>. QED  BY <1>0, <2>3, <2>4 DEF Channel!Next
<1>5. CASE UNCHANGED vars
  <2>1. /\ InTransit' = InTransit /\ Over' = Over
        /\ UNCHANGED <<finished, out, lost, shutdown>>
    BY <1>5 DEF vars, wvars, rvars, InTransit, Filled, Over
  <2>. QED  BY <1>0, <2>1 DEF EndLast, Channel!vars
<1>. QED
  BY <1>2, <1>3, <1>4, <1>5 DEF Next, Stopped

(* The two rings, the swap and the wait (tcp_socket.cpp:321-388, 455-509)    *)
(* implement a FIFO channel: packets come out in the order they went in,     *)
(* each at most once; only what the reader gives up is missing, until the    *)
(* end marker or a shutdown.                                                 *)
THEOREM HandOffHolds == Spec => FifoHandOff
BY InitChan, StepChan, PTL DEF Spec, FifoHandOff, Channel!Spec
=============================================================================
