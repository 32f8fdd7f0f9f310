--------------------------- MODULE UdpFlowProofs ---------------------------
(***************************************************************************)
(* Proofs about UdpFlow for every window, every range of numbers and every *)
(* environment.                                                            *)
(***************************************************************************)
EXTENDS UdpFlow, SequenceTheorems, WellFoundedInduction, TLAPS

-----------------------------------------------------------------------------
(* Numbers.                                                                *)

(* The least and the greatest of a set of numbers. *)
LEMMA LeastIn ==
  ASSUME NEW S \in SUBSET Nat, S # {}
  PROVE  Min(S) \in S /\ \A y \in S : Min(S) <= y
<1>1. PICK x \in S : \A y \in S : ~ (<<y, x>> \in OpToRel(<, Nat))
  BY NatLessThanWellFounded, WFMin
<1>2. ASSUME NEW y \in S PROVE x <= y
  <2>1. ~(y < x)
    <3>1. SUFFICES ASSUME y < x PROVE <<y, x>> \in OpToRel(<, Nat)
      BY <1>1
    <3>2. <<y, x>> \in Nat \X Nat /\ <<y, x>>[1] < <<y, x>>[2]
      BY <3>1
    <3>. QED  BY <3>2, Zenon DEF OpToRel
  <2>. QED  BY <2>1
<1>. QED  BY <1>2, Zenon DEF Min

LEMMA GreatestIn ==
  ASSUME NEW n \in Nat, NEW S \in SUBSET (0..n), S # {}
  PROVE  Max(S) \in S /\ \A y \in S : Max(S) >= y
<1> DEFINE T == {t \in Nat : \E x \in S : t = n - x}
<1>1. T \in SUBSET Nat /\ \A x \in S : n - x \in T
  OBVIOUS
<1>2. PICK t \in T : \A y \in T : t <= y
  <2>1. T # {}
    BY <1>1
  <2> HIDE DEF T
  <2>. QED  BY <1>1, <2>1, LeastIn
<1>3. PICK x \in S : t = n - x
  BY <1>2
<1> HIDE DEF T
<1>4. ASSUME NEW y \in S PROVE x >= y
  <2>1. n - y \in T /\ t <= n - y
    BY <1>1, <1>2
  <2>2. x \in 0..n /\ y \in 0..n
    OBVIOUS
  <2>. QED  BY <1>3, <2>1, <2>2
<1>. QED  BY <1>4, Zenon DEF Max

(* What \div and % give. *)
LEMMA DivMod ==
  ASSUME NEW m \in Nat \ {0}, NEW x \in Int, NEW d, NEW e, d = x \div m, e = x % m
  PROVE  d \in Int /\ e \in 0..(m - 1) /\ x = m * d + e
OBVIOUS

LEMMA ModOf ==
  ASSUME NEW m \in Nat \ {0}, NEW q \in Int, NEW r \in 0..(m - 1)
  PROVE  (q * m + r) % m = r
<1> DEFINE x == q * m + r
           d == x \div m
           e == x % m
<1>1. x \in Int /\ d \in Int /\ e \in 0..(m - 1) /\ x = m * d + e
  OBVIOUS
<1>2. (q - d) * m = e - r
  BY <1>1
<1> HIDE DEF x, d, e
<1>3. ASSUME q - d >= 1 PROVE FALSE
  <2>1. (q - d) * m >= m
    BY <1>1, <1>3
  <2>. QED  BY <1>1, <1>2, <2>1
<1>4. ASSUME q - d <= -1 PROVE FALSE
  <2>1. (q - d) * m <= -m
    BY <1>1, <1>4
  <2>. QED  BY <1>1, <1>2, <2>1
<1>5. q - d = 0
  BY <1>1, <1>3, <1>4
<1>6. e = r
  BY <1>1, <1>2, <1>5
<1>. QED  BY <1>6 DEF e, x

LEMMA ModAdd ==
  ASSUME NEW m \in Nat \ {0}, NEW a \in Int, NEW k \in Int
  PROVE  ((a % m) + k) % m = (a + k) % m
<1> DEFINE d == a \div m
           r == a % m
           b == r + k
           e == b \div m
           s == b % m
<1>1. d \in Int /\ r \in 0..(m - 1) /\ a = m * d + r
  BY DivMod
<1>2. b \in Int
  BY <1>1
<1>3. e \in Int /\ s \in 0..(m - 1) /\ b = m * e + s
  <2> HIDE DEF b
  <2>. QED  BY <1>2, DivMod
<1> HIDE DEF d, r, e, s
<1>4. a + k = (d + e) * m + s
  BY <1>1, <1>3
<1>5. ((d + e) * m + s) % m = s
  BY <1>1, <1>3, ModOf
<1>. QED  BY <1>4, <1>5 DEF s, b, r

LEMMA ModSmall ==
  ASSUME NEW m \in Nat \ {0}, NEW a \in 0..(m - 1)
  PROVE  a % m = a
<1>1. (0 * m + a) % m = a
  BY ModOf
<1>2. 0 * m + a = a
  OBVIOUS
<1>. QED  BY <1>1, <1>2

(* A number taken modulo a multiple of w keeps what it is modulo w. *)
LEMMA ModMod ==
  ASSUME NEW w \in Nat \ {0}, NEW m \in Nat \ {0}, m % w = 0, NEW a \in Int
  PROVE  (a % m) % w = a % w
<1> DEFINE q == m \div w
           d == a \div m
           r == a % m
           e == r \div w
           s == r % w
<1>1. q \in Int /\ m = w * q
  <2>1. q \in Int /\ m % w \in 0..(w - 1) /\ m = w * q + (m % w)
    BY DivMod
  <2>. QED  BY <2>1
<1>2. d \in Int /\ r \in 0..(m - 1) /\ a = m * d + r
  BY DivMod
<1>3. e \in Int /\ s \in 0..(w - 1) /\ r = w * e + s
  <2> HIDE DEF r
  <2>. QED  BY <1>2, DivMod
<1> HIDE DEF q, d, r, e, s
<1>4. a = (q * d + e) * w + s
  <2>1. m * d = (q * d) * w
    BY <1>1, <1>2
  <2>2. a = (q * d) * w + (w * e + s)
    BY <1>2, <1>3, <2>1
  <2>3. q * d \in Int
    BY <1>1, <1>2
  <2> DEFINE z == q * d
  <2> HIDE DEF z
  <2>4. z \in Int /\ a = z * w + (w * e + s)
    BY <2>2, <2>3 DEF z
  <2>5. a = (z + e) * w + s
    BY <1>3, <2>4
  <2>. QED  BY <2>5 DEF z
<1>5. q * d + e \in Int
  BY <1>1, <1>2, <1>3
<1>6. ((q * d + e) * w + s) % w = s
  BY <1>3, <1>5, ModOf
<1>. QED  BY <1>4, <1>6 DEF s, r

(* Two numbers less than m apart differ modulo m. *)
LEMMA ModDiffers ==
  ASSUME NEW m \in Nat \ {0}, NEW a \in Int, NEW b \in Int, a < b, b < a + m
  PROVE  a % m # b % m
<1> SUFFICES ASSUME a % m = b % m PROVE FALSE
  OBVIOUS
<1> DEFINE d == a \div m
           e == b \div m
           r == a % m
<1>1. d \in Int /\ r \in 0..(m - 1) /\ a = m * d + r
  BY DivMod
<1>2. e \in Int /\ b = m * e + r
  BY DivMod
<1> HIDE DEF d, e, r
<1>3. b - a = (e - d) * m
  BY <1>1, <1>2
<1>4. CASE e - d >= 1
  <2>1. (e - d) * m >= m
    BY <1>1, <1>2, <1>4
  <2>. QED  BY <1>3, <2>1
<1>5. CASE e - d <= 0
  <2>1. (e - d) * m <= 0
    BY <1>1, <1>2, <1>5
  <2>. QED  BY <1>3, <2>1
<1>. QED  BY <1>1, <1>2, <1>4, <1>5

LEMMA ModShift ==
  ASSUME NEW m \in Nat \ {0}, NEW a \in Int
  PROVE  (a + m) % m = a % m
<1> DEFINE d == a \div m
           r == a % m
<1>1. d \in Int /\ r \in 0..(m - 1) /\ a = m * d + r
  BY DivMod
<1> HIDE DEF d, r
<1>2. a + m = (d + 1) * m + r
  BY <1>1
<1>3. ((d + 1) * m + r) % m = r
  BY <1>1, ModOf
<1>. QED  BY <1>2, <1>3 DEF r

-----------------------------------------------------------------------------
(* Positions, numbers and sequences.                                        *)

LEMMA WindowFacts ==
  /\ Window \in Nat \ {0} /\ Window >= 2 /\ NumMod \in Nat \ {0}
  /\ Positions \subseteq Numbers /\ Positions \subseteq Nat /\ Numbers \subseteq Nat
  /\ None \notin Nat /\ End \notin Nat /\ None # End
BY ConstAssumption DEF Positions, Numbers

LEMMA PosFacts ==
  ASSUME NEW a \in Int
  PROVE  /\ Pos(a) \in Positions /\ Pos(a) \in Int
         /\ \A k \in Int : Pos(Pos(a) + k) = Pos(a + k)
         /\ Pos(a + Window) = Pos(a)
<1>1. Window \in Nat \ {0}
  BY WindowFacts
<1>2. a % Window \in 0..(Window - 1)
  BY <1>1, DivMod
<1>3. \A k \in Int : ((a % Window) + k) % Window = (a + k) % Window
  BY <1>1, ModAdd
<1>4. (a + Window) % Window = a % Window
  BY <1>1, ModShift
<1>. QED  BY <1>2, <1>3, <1>4 DEF Pos, Positions

LEMMA PosSelf ==
  ASSUME NEW p \in Positions
  PROVE  Pos(p) = p
BY WindowFacts, ModSmall DEF Pos, Positions

(* Two packets less than a window apart have different positions. *)
LEMMA PosDiffers ==
  ASSUME NEW a \in Int, NEW b \in Int, a # b, a - b < Window, b - a < Window
  PROVE  Pos(a) # Pos(b)
<1>1. Window \in Nat \ {0}
  BY WindowFacts
<1>2. CASE a < b
  <2>1. b < a + Window
    BY <1>1
  <2>2. a % Window # b % Window
    BY <1>1, <1>2, <2>1, ModDiffers
  <2>. QED  BY <2>2 DEF Pos
<1>3. CASE b < a
  <2>1. a < b + Window
    BY <1>1
  <2>2. b % Window # a % Window
    BY <1>1, <1>3, <2>1, ModDiffers
  <2>. QED  BY <2>2 DEF Pos
<1>. QED  BY <1>2, <1>3

LEMMA IncrFacts ==
  ASSUME NEW a \in Int, NEW k \in Int
  PROVE  Incr(a, k) \in Numbers /\ Incr(a % NumMod, k) = (a + k) % NumMod
<1>1. NumMod \in Nat \ {0}
  BY WindowFacts
<1>2. (a + k) % NumMod \in 0..(NumMod - 1)
  <2>1. a + k \in Int
    OBVIOUS
  <2>. QED  BY <1>1, <2>1, DivMod
<1>3. ((a % NumMod) + k) % NumMod = (a + k) % NumMod
  BY <1>1, ModAdd
<1>. QED  BY <1>2, <1>3 DEF Incr, Numbers

LEMMA Removed ==
  ASSUME NEW S, NEW s \in Seq(S), NEW i \in 1..Len(s)
  PROVE  /\ RemoveAt(s, i) \in Seq(S)
         /\ Len(RemoveAt(s, i)) = Len(s) - 1
         /\ \A j \in 1..(Len(s) - 1) : RemoveAt(s, i)[j] = IF j < i THEN s[j] ELSE s[j + 1]
<1> DEFINE a == SubSeq(s, 1, i - 1)
           b == SubSeq(s, i + 1, Len(s))
           c == a \o b
<1>0. Len(s) \in Nat /\ i \in Nat
  OBVIOUS
<1>1. \A j \in 1..Len(s) : s[j] \in S
  BY ElementOfSeq
<1> DEFINE n == Len(s)
<1> HIDE DEF n
<1>2. /\ n \in Nat /\ i \in 1..n /\ i - 1 \in Int /\ i + 1 \in Int /\ n \in Int
      /\ \A j \in 1..(i - 1) : s[j] \in S
      /\ \A j \in (i + 1)..n : s[j] \in S
  BY <1>0, <1>1 DEF n
<1>3. /\ a \in Seq(S) /\ Len(a) = i - 1
      /\ \A j \in 1..(i - 1) : a[j] = s[j]
  <2>1. /\ a \in Seq(S)
        /\ Len(a) = IF 1 <= i - 1 THEN (i - 1) - 1 + 1 ELSE 0
        /\ \A j \in 1..((i - 1) - 1 + 1) : a[j] = s[1 + j - 1]
    BY <1>2, SubSeqProperties
  <2> HIDE DEF a
  <2>. QED  BY <1>2, <2>1
<1>4. /\ b \in Seq(S) /\ Len(b) = n - i
      /\ \A j \in 1..(n - i) : b[j] = s[i + j]
  <2> DEFINE e == SubSeq(s, i + 1, n)
  <2>1. /\ e \in Seq(S)
        /\ Len(e) = IF i + 1 <= n THEN n - (i + 1) + 1 ELSE 0
        /\ \A j \in 1..(n - (i + 1) + 1) : e[j] = s[(i + 1) + j - 1]
    BY <1>2, SubSeqProperties
  <2>2. e = b
    BY DEF n
  <2> HIDE DEF e, b
  <2>. QED  BY <1>2, <2>1, <2>2
<1> HIDE DEF a, b
<1>5. /\ c \in Seq(S) /\ Len(c) = Len(a) + Len(b)
      /\ \A j \in 1..(Len(a) + Len(b)) : c[j] = IF j <= Len(a) THEN a[j] ELSE b[j - Len(a)]
  BY <1>3, <1>4, ConcatProperties
<1> HIDE DEF c
<1>6. Len(c) = n - 1
  BY <1>2, <1>3, <1>4, <1>5
<1>7. ASSUME NEW j \in 1..(n - 1) PROVE c[j] = IF j < i THEN s[j] ELSE s[j + 1]
  <2>1. j \in 1..(Len(a) + Len(b))
    BY <1>2, <1>3, <1>4, <1>7
  <2>2. CASE j < i
    BY <1>2, <1>3, <1>5, <1>7, <2>1, <2>2
  <2>3. CASE j >= i
    <3>1. j - (i - 1) \in 1..(n - i) /\ i + (j - (i - 1)) = j + 1
      BY <1>2, <1>7, <2>3
    <3>2. c[j] = b[j - (i - 1)]
      BY <1>2, <1>3, <1>5, <1>7, <2>1, <2>3
    <3>3. b[j - (i - 1)] = s[i + (j - (i - 1))]
      BY <1>4, <3>1
    <3>. QED  BY <1>2, <1>7, <2>3, <3>1, <3>2, <3>3
  <2>. QED  BY <1>2, <1>7, <2>2, <2>3
<1>8. RemoveAt(s, i) = c
  BY DEF RemoveAt, c, a, b
<1>. QED  BY <1>5, <1>6, <1>7, <1>8 DEF n

LEMMA Suffix ==
  ASSUME NEW S, NEW s \in Seq(S), NEW k \in 0..Len(s)
  PROVE  /\ SubSeq(s, k + 1, Len(s)) \in Seq(S)
         /\ Len(SubSeq(s, k + 1, Len(s))) = Len(s) - k
         /\ \A j \in 1..(Len(s) - k) : SubSeq(s, k + 1, Len(s))[j] = s[k + j]
<1> DEFINE n == Len(s)
           b == SubSeq(s, k + 1, n)
<1>0. n \in Nat /\ k \in 0..n /\ \A j \in 1..n : s[j] \in S
  BY ElementOfSeq
<1> HIDE DEF n
<1>1. \A j \in (k + 1)..n : s[j] \in S
  BY <1>0
<1>2. /\ b \in Seq(S)
      /\ Len(b) = IF k + 1 <= n THEN n - (k + 1) + 1 ELSE 0
      /\ \A j \in 1..(n - (k + 1) + 1) : b[j] = s[(k + 1) + j - 1]
  BY <1>0, <1>1, SubSeqProperties
<1> HIDE DEF b
<1>3. b \in Seq(S) /\ Len(b) = n - k /\ \A j \in 1..(n - k) : b[j] = s[k + j]
  BY <1>0, <1>2
<1>. QED  BY <1>3 DEF b, n

-----------------------------------------------------------------------------
(* What the receiver asks for after a silence, as a loop over the window.    *)

IsList(n, g) ==
  g = [j \in 0..n |->
         IF j = 0 THEN <<waiting>>
         ELSE IF Buffered(Pos(waiting + j)) THEN g[j - 1]
         ELSE Append(g[j - 1], Pos(waiting + j))]

(* Such a list exists for any number of turns. *)
LEMMA ListExists ==
  ASSUME NEW n \in Nat
  PROVE  \E g : IsList(n, g)
<1> DEFINE Bad == {k \in Nat : ~ \E g : IsList(k, g)}
<1> SUFFICES ASSUME Bad # {} PROVE FALSE
  OBVIOUS
<1>1. PICK k \in Bad : \A j \in Bad : k <= j
  BY LeastIn
<1>2. CASE k = 0
  <2> DEFINE g == [i \in 0..0 |-> <<waiting>>]
  <2>1. IsList(0, g)
    BY DEF IsList
  <2>. QED  BY <1>1, <1>2, <2>1
<1>3. CASE k # 0
  <2>1. k - 1 \in Nat /\ k - 1 \notin Bad
    BY <1>1, <1>3
  <2>2. PICK g : IsList(k - 1, g)
    BY <2>1
  <2> DEFINE Turn(x, i) == IF Buffered(Pos(waiting + i)) THEN x ELSE Append(x, Pos(waiting + i))
             h == [i \in 0..k |-> IF i < k THEN g[i] ELSE Turn(g[k - 1], k)]
  <2>3. \A i \in 0..(k - 1) : h[i] = g[i]
    BY <1>1
  <2>4. \A i \in 0..(k - 1) : g[i] = IF i = 0 THEN <<waiting>> ELSE Turn(g[i - 1], i)
    BY <2>2 DEF IsList
  <2>5. h[k] = Turn(h[k - 1], k)
    BY <1>1, <1>3, <2>3
  <2> HIDE DEF Turn
  <2>6. \A i \in 0..k : h[i] = IF i = 0 THEN <<waiting>> ELSE Turn(h[i - 1], i)
    <3> SUFFICES ASSUME NEW i \in 0..k
                 PROVE  h[i] = IF i = 0 THEN <<waiting>> ELSE Turn(h[i - 1], i)
      OBVIOUS
    <3>1. CASE i = k
      BY <3>1, <1>1, <1>3, <2>5
    <3>2. CASE i # k
      <4>1. i \in 0..(k - 1) /\ (i # 0 => i - 1 \in 0..(k - 1))
        BY <3>2, <1>1
      <4>. QED  BY <4>1, <2>3, <2>4
    <3>. QED  BY <3>1, <3>2
  <2>7. h = [i \in 0..k |-> IF i = 0 THEN <<waiting>> ELSE Turn(h[i - 1], i)]
    <3> DEFINE f == [i \in 0..k |-> IF i = 0 THEN <<waiting>> ELSE Turn(h[i - 1], i)]
    <3>1. \A i \in 0..k : h[i] = f[i]
      BY <2>6
    <3>. QED  BY <3>1
  <2>8. IsList(k, h)
    BY <2>7 DEF IsList, Turn
  <2>. QED  BY <1>1, <2>8
<1>. QED  BY <1>2, <1>3

(* It begins with the position waited for; the others are empty, and each    *)
(* is listed once.                                                           *)
ListRules(n, q) ==
  /\ q \in Seq(Positions) /\ Len(q) >= 1 /\ q[1] = waiting
  /\ \A k \in 2..Len(q) : ~Buffered(q[k]) /\ \E i \in 1..n : q[k] = Pos(waiting + i)
  /\ \A k, l \in 1..Len(q) : k # l => q[k] # q[l]

LEMMA ListRight ==
  ASSUME waiting \in Positions, NEW n \in 0..(Window - 1), NEW g, IsList(n, g)
  PROVE  \A j \in 0..n : ListRules(j, g[j])
<1> DEFINE Bad == {j \in Nat : j <= n /\ ~ListRules(j, g[j])}
<1> SUFFICES ASSUME Bad # {} PROVE FALSE
  OBVIOUS
<1>0. /\ waiting \in Nat /\ Window \in Nat /\ n \in Nat
      /\ \A j \in 0..n : g[j] = IF j = 0 THEN <<waiting>>
                                ELSE IF Buffered(Pos(waiting + j)) THEN g[j - 1]
                                ELSE Append(g[j - 1], Pos(waiting + j))
  <2>1. waiting \in Nat /\ Window \in Nat /\ n \in Nat
    BY WindowFacts
  <2>2. g = [j \in 0..n |-> IF j = 0 THEN <<waiting>>
                            ELSE IF Buffered(Pos(waiting + j)) THEN g[j - 1]
                            ELSE Append(g[j - 1], Pos(waiting + j))]
    BY Zenon DEF IsList
  <2>3. \A j \in 0..n : g[j] = IF j = 0 THEN <<waiting>>
                                ELSE IF Buffered(Pos(waiting + j)) THEN g[j - 1]
                                ELSE Append(g[j - 1], Pos(waiting + j))
    BY <2>2, Zenon
  <2>. QED  BY <2>1, <2>3
<1>1. PICK j \in Bad : \A i \in Bad : j <= i
  <2> HIDE DEF Bad
  <2>1. Bad \subseteq Nat
    BY DEF Bad
  <2>. QED  BY <2>1, LeastIn
<1>2. j \in 0..n /\ j \in Nat /\ ~ListRules(j, g[j])
  BY <1>0, <1>1
<1>3. CASE j = 0
  <2>1. g[j] = <<waiting>>
    BY <1>0, <1>2, <1>3
  <2>2. <<waiting>> \in Seq(Positions) /\ Len(<<waiting>>) = 1 /\ <<waiting>>[1] = waiting
    OBVIOUS
  <2>3. ListRules(j, <<waiting>>)
    BY <2>2 DEF ListRules
  <2>. QED  BY <1>2, <2>1, <2>3
<1>4. CASE j # 0
  <2> DEFINE q == g[j - 1]
             p == Pos(waiting + j)
  <2>1. j - 1 \in 0..n /\ j - 1 \notin Bad
    BY <1>1, <1>2, <1>4
  <2>2. ListRules(j - 1, q)
    BY <1>0, <2>1
  <2>3. g[j] = IF Buffered(p) THEN q ELSE Append(q, p)
    BY <1>0, <1>2, <1>4
  <2>4. p \in Positions
    BY <1>0, <1>2, PosFacts
  <2>5. \A i \in 0..(j - 1) : Pos(waiting + i) # p
    <3> SUFFICES ASSUME NEW i \in 0..(j - 1) PROVE Pos(waiting + i) # p
      OBVIOUS
    <3>1. /\ waiting + i \in Int /\ waiting + j \in Int /\ waiting + i # waiting + j
          /\ (waiting + i) - (waiting + j) < Window /\ (waiting + j) - (waiting + i) < Window
      BY <1>0, <1>2
    <3>. QED  BY <3>1, PosDiffers
  <2>6. waiting # p
    <3>1. Pos(waiting + 0) # p
      BY <1>2, <1>4, <2>5
    <3>2. waiting + 0 = waiting /\ Pos(waiting) = waiting
      BY <1>0, PosSelf
    <3>. QED  BY <3>1, <3>2
  <2> HIDE DEF q, p
  <2>7. CASE Buffered(p)
    <3>1. g[j] = q
      BY <2>3, <2>7
    <3>2. ListRules(j, q)
      BY <1>2, <2>2 DEF ListRules
    <3>. QED  BY <1>2, <3>1, <3>2
  <2>8. CASE ~Buffered(p)
    <3> DEFINE r == Append(q, p)
    <3>1. q \in Seq(Positions) /\ Len(q) \in Nat /\ Len(q) >= 1 /\ q[1] = waiting
      BY <2>2, LenProperties DEF ListRules
    <3>2. /\ r \in Seq(Positions) /\ Len(r) = Len(q) + 1 /\ r[Len(q) + 1] = p
          /\ \A k \in 1..Len(q) : r[k] = q[k]
      BY <2>4, <3>1, AppendProperties
    <3> HIDE DEF r
    <3>3. \A k \in 1..Len(q) : q[k] # p
      <4> SUFFICES ASSUME NEW k \in 1..Len(q) PROVE q[k] # p
        OBVIOUS
      <4>1. CASE k = 1
        BY <2>6, <3>1, <4>1
      <4>2. CASE k # 1
        <5>1. k \in 2..Len(q)
          BY <3>1, <4>2
        <5>2. PICK i \in 1..(j - 1) : q[k] = Pos(waiting + i)
          BY <2>2, <5>1 DEF ListRules
        <5>. QED  BY <1>2, <2>5, <5>2
      <4>. QED  BY <4>1, <4>2
    <3>4. ASSUME NEW k \in 2..Len(r)
          PROVE  ~Buffered(r[k]) /\ \E i \in 1..j : r[k] = Pos(waiting + i)
      <4>1. CASE k = Len(q) + 1
        BY <1>2, <1>4, <2>8, <3>2, <4>1 DEF p
      <4>2. CASE k # Len(q) + 1
        <5>1. k \in 2..Len(q) /\ r[k] = q[k]
          BY <3>1, <3>2, <3>4, <4>2
        <5>2. ~Buffered(q[k]) /\ \E i \in 1..(j - 1) : q[k] = Pos(waiting + i)
          BY <2>2, <5>1 DEF ListRules
        <5>. QED  BY <1>2, <5>1, <5>2
      <4>. QED  BY <4>1, <4>2
    <3>5. ASSUME NEW k \in 1..Len(r), NEW l \in 1..Len(r), k # l
          PROVE  r[k] # r[l]
      <4>1. \A a, b \in 1..Len(q) : a # b => q[a] # q[b]
        BY <2>2 DEF ListRules
      <4>2. CASE k = Len(q) + 1
        BY <3>1, <3>2, <3>3, <3>5, <4>2
      <4>3. CASE l = Len(q) + 1
        BY <3>1, <3>2, <3>3, <3>5, <4>3
      <4>4. CASE k # Len(q) + 1 /\ l # Len(q) + 1
        BY <3>1, <3>2, <3>5, <4>1, <4>4
      <4>. QED  BY <4>2, <4>3, <4>4
    <3>6. ListRules(j, r)
      <4>1. Len(r) >= 1 /\ r[1] = waiting
        BY <3>1, <3>2
      <4>. QED  BY <3>2, <3>4, <3>5, <4>1 DEF ListRules
    <3>. QED  BY <1>2, <2>3, <2>8, <3>6 DEF r
  <2>. QED  BY <2>7, <2>8
<1>. QED  BY <1>3, <1>4

LEMMA MissingRight ==
  ASSUME waiting \in Positions
  PROVE  ListRules(Window - 1, Missing)
<1> DEFINE L == CHOOSE g : IsList(Window - 1, g)
<1>1. Window - 1 \in Nat /\ Window - 1 \in 0..(Window - 1)
  BY WindowFacts
<1>2. IsList(Window - 1, L)
  BY <1>1, ListExists
<1>3. Missing = L[Window - 1]
  BY Zenon DEF Missing, IsList
<1> HIDE DEF L
<1>4. ListRules(Window - 1, L[Window - 1])
  BY <1>1, <1>2, ListRight
<1>. QED  BY <1>3, <1>4

(* The packets sent on along with one lie behind it without a gap, and are   *)
(* all there are.                                                            *)
LEMMA BehindRight ==
  ASSUME NEW o
  PROVE  /\ Behind(o) \in 0..(Window - 1)
         /\ \A j \in 1..Behind(o) : Buffered(Pos(o + j))
         /\ Behind(o) < Window - 1 => ~Buffered(Pos(o + (Behind(o) + 1)))
<1> DEFINE S == {k \in 0..(Window - 1) : \A j \in 1..k : Buffered(Pos(o + j))}
           k == Behind(o)
<1>1. Window - 1 \in Nat
  BY WindowFacts
<1>2. S \in SUBSET (0..(Window - 1)) /\ S # {}
  <2>1. 0 \in S
    BY <1>1
  <2>. QED  BY <2>1
<1>3. k = Max(S)
  BY DEF Behind
<1>4. Max(S) \in S /\ \A y \in S : Max(S) >= y
  <2> HIDE DEF S
  <2>. QED  BY <1>1, <1>2, GreatestIn
<1>5. k \in 0..(Window - 1) /\ (\A j \in 1..k : Buffered(Pos(o + j))) /\ \A y \in S : k >= y
  BY <1>3, <1>4
<1> HIDE DEF k
<1>6. ASSUME k < Window - 1, Buffered(Pos(o + (k + 1))) PROVE FALSE
  <2>1. k + 1 \in 0..(Window - 1)
    BY <1>1, <1>5, <1>6
  <2>2. ASSUME NEW j \in 1..(k + 1) PROVE Buffered(Pos(o + j))
    <3>1. j = k + 1 \/ j \in 1..k
      BY <1>5
    <3>. QED  BY <1>5, <1>6, <3>1
  <2>3. k + 1 \in S
    BY <2>1, <2>2
  <2>. QED  BY <1>1, <1>5, <2>3
<1>. QED  BY <1>5, <1>6 DEF k

-----------------------------------------------------------------------------
(* What one packet brings about at the receiver.                            *)

(* The packets it takes along are kept, and come after it in order.         *)
Count(m) == IF env.heartbeat THEN Behind(Pos(m.num)) ELSE 0
Brought(m) == [j \in 1..Count(m) |-> buf[Pos(Pos(m.num) + j)]]
Delivered(m) == out \o <<m.data>> \o Brought(m)

LEMMA PacketFacts ==
  ASSUME NEW m \in Packets
  PROVE  /\ m.num \in Int /\ m.num \in Numbers /\ m.src \in Nat /\ Pos(m.num) \in Positions
         /\ Pos(m.num) \in Int /\ m.data \in Nat \union {End}
<1>1. m.num \in Numbers /\ m.src \in Nat /\ m.data \in Nat \union {End}
  BY DEF Packets
<1>2. m.num \in Int
  <2>1. \A n \in Numbers : n \in Int
    BY WindowFacts
  <2>. QED  BY <1>1, <2>1
<1>. QED  BY <1>1, <1>2, PosFacts

LEMMA Carried ==
  ASSUME buf \in [Positions -> Nat \union {None}], NEW m \in Packets
  PROVE  /\ Count(m) \in 0..(Window - 1)
         /\ \A j \in 1..Count(m) : Buffered(Pos(Pos(m.num) + j))
         /\ Brought(m) \in Seq(Nat) /\ Len(Brought(m)) = Count(m)
<1> DEFINE o == Pos(m.num)
           k == Count(m)
<1>1. k \in 0..(Window - 1) /\ \A j \in 1..k : Buffered(Pos(o + j))
  <2>1. CASE env.heartbeat
    BY <2>1, BehindRight DEF Count
  <2>2. CASE ~env.heartbeat
    BY <2>2, WindowFacts DEF Count
  <2>. QED  BY <2>1, <2>2
<1>2. ASSUME NEW j \in 1..k PROVE buf[Pos(o + j)] \in Nat
  <2>1. o + j \in Int
    BY PacketFacts
  <2>2. Pos(o + j) \in Positions
    BY <2>1, PosFacts
  <2>3. buf[Pos(o + j)] # None
    BY <1>1 DEF Buffered
  <2>. QED  BY <2>2, <2>3
<1> DEFINE q == [j \in 1..k |-> buf[Pos(o + j)]]
<1>3. k \in Nat
  <2> HIDE DEF k
  <2>. QED  BY <1>1, WindowFacts
<1>4. q \in Seq(Nat) /\ Len(q) = k
  <2> HIDE DEF o, k
  <2>1. q \in [1..k -> Nat]
    BY <1>2
  <2>2. DOMAIN q = 1..k
    OBVIOUS
  <2> HIDE DEF q
  <2>. QED  BY <1>3, <2>1, <2>2
<1>. QED  BY <1>1, <1>4 DEF Brought

LEMMA DeliveredRight ==
  ASSUME buf \in [Positions -> Nat \union {None}], out \in Seq(Nat),
         NEW m \in Packets, m.data \in Nat
  PROVE  /\ Delivered(m) \in Seq(Nat) /\ Len(Delivered(m)) = Len(out) + 1 + Count(m)
         /\ \A i \in 1..Len(out) : Delivered(m)[i] = out[i]
         /\ Delivered(m)[Len(out) + 1] = m.data
         /\ \A j \in 1..Count(m) : Delivered(m)[Len(out) + 1 + j] = buf[Pos(Pos(m.num) + j)]
<1> DEFINE a == out \o <<m.data>>
           q == Brought(m)
           k == Count(m)
           n == Len(out)
<1>1. k \in Nat /\ q \in Seq(Nat) /\ Len(q) = k
  BY Carried, WindowFacts
<1>2. \A j \in 1..k : q[j] = buf[Pos(Pos(m.num) + j)]
  BY DEF Brought
<1>3. n \in Nat /\ a \in Seq(Nat) /\ Len(a) = n + 1 /\ a[n + 1] = m.data /\ \A i \in 1..n : a[i] = out[i]
  <2>1. a = Append(out, m.data)
    OBVIOUS
  <2> HIDE DEF a
  <2>. QED  BY <2>1, AppendProperties, LenProperties
<1> HIDE DEF a, q, k, n
<1> DEFINE c == a \o q
<1>4. /\ c \in Seq(Nat) /\ Len(c) = Len(a) + Len(q)
      /\ \A i \in 1..(Len(a) + Len(q)) : c[i] = IF i <= Len(a) THEN a[i] ELSE q[i - Len(a)]
  BY <1>1, <1>3, ConcatProperties
<1> HIDE DEF c
<1>5. Len(c) = n + 1 + k /\ c[n + 1] = m.data /\ \A i \in 1..n : c[i] = out[i]
  BY <1>1, <1>3, <1>4
<1>6. \A j \in 1..k : c[n + 1 + j] = q[j]
  BY <1>1, <1>3, <1>4
<1>7. c = Delivered(m)
  BY DEF c, a, q, Delivered
<1>. QED  BY <1>2, <1>4, <1>5, <1>6, <1>7 DEF n, k

LEMMA DeliverIs ==
  ASSUME NEW m, Deliver(m)
  PROVE  /\ waiting = Pos(m.num) /\ out' = Delivered(m)
         /\ waiting' = Pos(Pos(m.num) + Count(m) + 1)
         /\ buf' = [p \in Positions |->
                     IF \E j \in 0..Count(m) : p = Pos(Pos(m.num) + j) THEN None ELSE buf[p]]
         /\ up' = IF env.heartbeat
                    THEN Append(up, Answer("ack", <<Incr(m.num, Count(m))>>, m.src)) ELSE up
         /\ again' = None /\ from' = from
BY Zenon DEF Deliver, Delivered, Brought, Count

(* A packet behind which the window ends stays where it is kept; from the   *)
(* first kept packet on those without a gap are sent on.                    *)
After(m) == [buf EXCEPT ![Pos(m.num)] = m.data]
FirstOf(m) == Min({j \in 1..Window : After(m)[Pos(Pos(m.num) + j)] # None})
LastOf(m) == Max({j \in FirstOf(m)..Window :
                    \A i \in FirstOf(m)..j : After(m)[Pos(Pos(m.num) + i)] # None})
RunOf(m) == [j \in 1..(LastOf(m) - FirstOf(m) + 1) |-> After(m)[Pos(Pos(m.num) + FirstOf(m) + j - 1)]]

LEMMA AfterType ==
  ASSUME buf \in [Positions -> Nat \union {None}], NEW m \in Packets, m.data \in Nat
  PROVE  /\ After(m) \in [Positions -> Nat \union {None}]
         /\ After(m)[Pos(m.num)] = m.data
         /\ \A p \in Positions \ {Pos(m.num)} : After(m)[p] = buf[p]
BY PacketFacts DEF After

LEMMA RunRight ==
  ASSUME buf \in [Positions -> Nat \union {None}], NEW m \in Packets, m.data \in Nat
  PROVE  /\ FirstOf(m) \in 1..Window /\ LastOf(m) \in FirstOf(m)..Window
         /\ \A i \in FirstOf(m)..LastOf(m) : After(m)[Pos(Pos(m.num) + i)] # None
         /\ RunOf(m) \in Seq(Nat) /\ Len(RunOf(m)) = LastOf(m) - FirstOf(m) + 1
         /\ \A j \in 1..(LastOf(m) - FirstOf(m) + 1) :
               RunOf(m)[j] = After(m)[Pos(Pos(m.num) + FirstOf(m) + j - 1)]
<1> DEFINE o == Pos(m.num)
           b == After(m)
           S == {j \in 1..Window : b[Pos(o + j)] # None}
           f == FirstOf(m)
           T == {j \in f..Window : \A i \in f..j : b[Pos(o + i)] # None}
           g == LastOf(m)
<1>1. Window \in Nat /\ Window \in 1..Window
  BY WindowFacts
<1>2. o \in Positions /\ o \in Int /\ Pos(o) = o /\ Pos(o + Window) = o
  <2>1. o \in Positions /\ o \in Int
    BY PacketFacts
  <2>. QED  BY <2>1, PosSelf, PosFacts
<1>3. b[o] # None /\ b \in [Positions -> Nat \union {None}]
  BY AfterType, WindowFacts
<1>4. Window \in S /\ S \in SUBSET Nat
  BY <1>1, <1>2, <1>3
<1>5. f = Min(S)
  BY DEF FirstOf
<1>6. f \in S
  <2> HIDE DEF S
  <2>. QED  BY <1>4, <1>5, LeastIn
<1>7. f \in 1..Window /\ b[Pos(o + f)] # None
  BY <1>6
<1>8. g = Max(T)
  BY DEF LastOf
<1> HIDE DEF f, b, o, g
<1>9. f \in T /\ T \in SUBSET (0..Window)
  BY <1>1, <1>7
<1>10. g \in T
  <2> HIDE DEF T
  <2>. QED  BY <1>1, <1>8, <1>9, GreatestIn
<1>11. g \in f..Window /\ \A i \in f..g : b[Pos(o + i)] # None
  BY <1>10
<1> DEFINE n == g - f + 1
           r == [j \in 1..n |-> b[Pos(o + f + j - 1)]]
<1>12. n \in Nat
  BY <1>1, <1>7, <1>11
<1>13. ASSUME NEW j \in 1..n PROVE b[Pos(o + f + j - 1)] \in Nat
  <2>1. f + j - 1 \in f..g /\ o + (f + j - 1) = o + f + j - 1
    BY <1>1, <1>2, <1>7, <1>11
  <2>2. b[Pos(o + f + j - 1)] # None
    BY <1>11, <2>1
  <2>3. o + f + j - 1 \in Int
    BY <1>1, <1>2, <1>7
  <2>4. Pos(o + f + j - 1) \in Positions
    BY <2>3, PosFacts
  <2>. QED  BY <1>3, <2>2, <2>4
<1>14. r \in Seq(Nat) /\ Len(r) = n /\ \A j \in 1..n : r[j] = b[Pos(o + f + j - 1)]
  <2> HIDE DEF n
  <2>1. r \in [1..n -> Nat] /\ DOMAIN r = 1..n
    BY <1>13
  <2>2. \A j \in 1..n : r[j] = b[Pos(o + f + j - 1)]
    OBVIOUS
  <2> HIDE DEF r
  <2>. QED  BY <1>12, <2>1, <2>2
<1>15. r = RunOf(m)
  BY DEF RunOf, f, g, b, o
<1> HIDE DEF r
<1>. QED  BY <1>7, <1>11, <1>14, <1>15 DEF f, g, b, o

LEMMA FrontRight ==
  ASSUME NEW S, NEW s \in Seq(S), Len(s) >= 1
  PROVE  /\ Front(s) \in Seq(S) /\ Len(Front(s)) = Len(s) - 1
         /\ \A i \in 1..(Len(s) - 1) : Front(s)[i] = s[i]
<1> DEFINE n == Len(s)
           b == SubSeq(s, 1, n - 1)
<1>0. n \in Nat /\ n >= 1 /\ \A j \in 1..n : s[j] \in S
  BY ElementOfSeq
<1> HIDE DEF n
<1>1. \A j \in 1..(n - 1) : s[j] \in S
  BY <1>0
<1>2. /\ b \in Seq(S)
      /\ Len(b) = IF 1 <= n - 1 THEN (n - 1) - 1 + 1 ELSE 0
      /\ \A j \in 1..((n - 1) - 1 + 1) : b[j] = s[1 + j - 1]
  BY <1>0, <1>1, SubSeqProperties
<1> HIDE DEF b
<1>3. b \in Seq(S) /\ Len(b) = n - 1 /\ \A j \in 1..(n - 1) : b[j] = s[j]
  BY <1>0, <1>2
<1>. QED  BY <1>3 DEF b, n, Front

LEMMA SkipIs ==
  ASSUME NEW m, Skip(m)
  PROVE  /\ ~env.heartbeat /\ waiting = Pos(Pos(m.num) + 1)
         /\ buf' = [p \in Positions |->
                     IF \E j \in FirstOf(m)..LastOf(m) : p = Pos(Pos(m.num) + j)
                       THEN None ELSE After(m)[p]]
         /\ from' = m.src /\ up' = up
         /\ \/ out' = out \o RunOf(m) /\ again' = None
               /\ waiting' = Pos(Pos(m.num) + LastOf(m) + 1)
            \/ out' = out \o Front(RunOf(m)) /\ again' = m
               /\ waiting' = Pos(Pos(m.num)
                                 + (IF LastOf(m) = Window THEN Window ELSE LastOf(m) + 1) - 1)
BY Zenon DEF Skip, FirstOf, LastOf, RunOf, After

-----------------------------------------------------------------------------
(* Types.  A packet that was put back carries data, never the end marker.    *)

SenderType ==
  /\ sent \in 0..env.pkts /\ num \in Numbers /\ refused \in 0..env.refusals
  /\ sock \in Nat
  /\ cache \in Seq(Packets) /\ Len(cache) <= Window
  /\ asked \in Seq(Numbers)
  /\ phase \in {"open", "closing", "closed"}

ReceiverType ==
  /\ waiting \in Positions
  /\ buf \in [Positions -> Nat \union {None}]
  /\ from \in Nat
  /\ again \in Packets \union {None} /\ (again # None => again.data \in Nat)
  /\ idle \in 0..ReclaimAfter
  /\ out \in Seq(Nat)

LinkType == down \in Seq(Packets) /\ up \in Seq(Answers) /\ lost \in 0..env.loss

Typed == env \in Envs /\ SenderType /\ ReceiverType /\ LinkType

LEMMA EnvFacts ==
  ASSUME env \in Envs
  PROVE  /\ env.pkts \in Nat /\ env.loss \in Nat /\ env.refusals \in Nat /\ env.overtake \in Nat
         /\ env.heartbeat \in BOOLEAN /\ env.channel \in {"tcp", "udp"}
BY ConstAssumption DEF Environments

LEMMA TypedInit == Init => Typed
<1> SUFFICES ASSUME Init PROVE Typed
  OBVIOUS
<1>1. 0 \in Positions /\ 0 \in Numbers /\ 0 <= Window
  BY WindowFacts DEF Positions, Numbers
<1>2. SenderType
  BY <1>1, EnvFacts DEF Init, SenderType
<1>3. ReceiverType
  <2>1. ReclaimAfter \in 0..ReclaimAfter
    BY ConstAssumption
  <2>. QED  BY <1>1, <2>1 DEF Init, ReceiverType
<1>4. LinkType
  BY EnvFacts DEF Init, LinkType
<1>. QED  BY <1>2, <1>3, <1>4 DEF Typed, Init

LEMMA PacketType ==
  ASSUME num \in Numbers, sock \in Nat, NEW d \in Nat \union {End}
  PROVE  Packet(d) \in Packets
BY DEF Packet, Packets

LEMMA AnswerType ==
  ASSUME NEW t \in {"ack", "request"}, NEW n \in Seq(Numbers), NEW to \in Nat
  PROVE  Answer(t, n, to) \in Answers
BY DEF Answer, Answers

LEMMA IncrNum ==
  ASSUME num \in Numbers
  PROVE  Incr(num, 1) \in Numbers
<1>1. num \in Int
  BY WindowFacts
<1>. QED  BY <1>1, IncrFacts

(* The steps of the sender. *)
LEMMA SendTyped == Typed /\ Send => Typed'
<1> SUFFICES ASSUME Typed, Send PROVE Typed'
  OBVIOUS
<1>1. /\ sent \in 0..env.pkts /\ num \in Numbers /\ sock \in Nat /\ cache \in Seq(Packets)
      /\ Len(cache) <= Window /\ down \in Seq(Packets) /\ env.pkts \in Nat
      /\ sent < env.pkts /\ Len(cache) \in Nat /\ Window \in Nat
  <2>1. /\ sent \in 0..env.pkts /\ num \in Numbers /\ sock \in Nat /\ cache \in Seq(Packets)
        /\ Len(cache) <= Window /\ down \in Seq(Packets)
    BY DEF Typed, SenderType, LinkType
  <2>2. env.pkts \in Nat /\ Window \in Nat
    BY EnvFacts, WindowFacts DEF Typed
  <2>3. sent < env.pkts
    BY DEF Send
  <2>4. Len(cache) \in Nat
    BY <2>1
  <2>. QED  BY <2>1, <2>2, <2>3, <2>4
<1>2. Packet(sent) \in Packets
  BY <1>1, PacketType
<1>3. sent' \in 0..env.pkts /\ num' \in Numbers
  <2>1. sent' = sent + 1 /\ num' = Incr(num, 1)
    BY DEF Send
  <2>. QED  BY <1>1, <2>1, IncrNum
<1>4. cache' \in Seq(Packets) /\ Len(cache') <= Window
  <2>1. env.heartbeat => Len(cache) # Window /\ cache' = Append(cache, Packet(sent))
    BY DEF Send, CacheFull
  <2>2. ~env.heartbeat => cache' = cache
    BY DEF Send
  <2>3. /\ Append(cache, Packet(sent)) \in Seq(Packets)
        /\ Len(Append(cache, Packet(sent))) = Len(cache) + 1
    BY <1>1, <1>2, AppendProperties
  <2> DEFINE n == Len(cache)
             c == Append(cache, Packet(sent))
  <2> HIDE DEF n, c
  <2>4. n + 1 <= Window \/ n = Window
    BY <1>1 DEF n
  <2>. QED  BY <1>1, <2>1, <2>2, <2>3, <2>4 DEF n, c
<1>5. down' \in Seq(Packets)
  <2>1. down' = Append(down, Packet(sent))
    BY DEF Send
  <2>. QED  BY <1>1, <1>2, <2>1, AppendProperties
<1>6. UNCHANGED <<env, refused, sock, asked, phase, rvars, up, lost>>
  BY DEF Send
<1>7. SenderType'
  BY <1>1, <1>3, <1>4, <1>6 DEF Typed, SenderType
<1>8. ReceiverType'
  BY <1>6 DEF Typed, ReceiverType, rvars
<1>9. LinkType'
  BY <1>5, <1>6 DEF Typed, LinkType
<1>. QED  BY <1>6, <1>7, <1>8, <1>9 DEF Typed

LEMMA OtherSenderTyped == Typed /\ (Refuse \/ GiveUp \/ Finish \/ Close) => Typed'
<1> SUFFICES ASSUME Typed, Refuse \/ GiveUp \/ Finish \/ Close PROVE Typed'
  OBVIOUS
<1>1. /\ sent \in 0..env.pkts /\ num \in Numbers /\ sock \in Nat /\ refused \in 0..env.refusals
      /\ down \in Seq(Packets) /\ env.pkts \in Nat /\ env.refusals \in Nat
      /\ Window \in Nat /\ Incr(num, 1) \in Numbers
  BY EnvFacts, WindowFacts, IncrNum DEF Typed, SenderType, LinkType
<1>2. env' = env /\ UNCHANGED <<rvars, up, lost>>
  BY DEF Refuse, GiveUp, Finish, Close
<1>3. ReceiverType'
  BY <1>2 DEF Typed, ReceiverType, rvars
<1>4. Len(<<>>) <= Window /\ <<>> \in Seq(Packets) /\ <<>> \in Seq(Numbers)
  BY <1>1
<1>5. CASE Refuse
  <2>1. refused < env.refusals /\ refused' = refused + 1 /\ num' = Incr(num, 1)
    BY <1>5 DEF Refuse
  <2>2. refused' \in 0..env.refusals
    BY <1>1, <2>1
  <2>3. UNCHANGED <<env, sent, sock, cache, asked, phase, down, up, lost>>
    BY <1>5 DEF Refuse
  <2>4. SenderType'
    BY <1>1, <2>1, <2>2, <2>3 DEF Typed, SenderType
  <2>. QED  BY <1>2, <1>3, <2>3, <2>4 DEF Typed, LinkType
<1>6. CASE GiveUp
  <2>1. sent < env.pkts /\ sent' = sent + 1 /\ num' = Incr(num, 1)
    BY <1>6 DEF GiveUp
  <2>2. sent' \in 0..env.pkts
    BY <1>1, <2>1
  <2>3. UNCHANGED <<env, refused, phase, down, up, lost>>
    BY <1>6 DEF GiveUp
  <2>4. \/ sock' = sock + 1 /\ cache' = <<>> /\ asked' = <<>>
        \/ sock' = sock /\ cache' = cache /\ asked' = asked
    BY <1>6 DEF GiveUp
  <2>5. sock + 1 \in Nat
    BY <1>1
  <2>6. sock' \in Nat /\ cache' \in Seq(Packets) /\ Len(cache') <= Window /\ asked' \in Seq(Numbers)
    BY <1>4, <2>4, <2>5 DEF Typed, SenderType
  <2>7. SenderType'
    BY <1>1, <2>1, <2>2, <2>3, <2>6 DEF Typed, SenderType
  <2>. QED  BY <1>2, <1>3, <2>3, <2>7 DEF Typed, LinkType
<1>7. CASE Finish
  <2>1. phase' = "closing" /\ UNCHANGED <<sent, num, refused, sock, cache, asked, down>>
    BY <1>7 DEF Finish
  <2>2. SenderType'
    BY <1>2, <2>1 DEF Typed, SenderType
  <2>. QED  BY <1>2, <1>3, <2>1, <2>2 DEF Typed, LinkType
<1>8. CASE Close
  <2>1. /\ phase' = "closed" /\ cache' = <<>> /\ asked' = <<>>
        /\ down' = Append(down, Packet(End)) /\ UNCHANGED <<sent, num, refused, sock>>
    BY <1>8 DEF Close
  <2>2. SenderType'
    BY <1>2, <1>4, <2>1 DEF Typed, SenderType
  <2>3. down' \in Seq(Packets)
    BY <1>1, <2>1, PacketType, AppendProperties
  <2>. QED  BY <1>2, <1>3, <2>2, <2>3 DEF Typed, LinkType
<1>. QED  BY <1>5, <1>6, <1>7, <1>8

(* What is left of the cache after an acknowledgement is its end. *)
LEMMA UnackedRight ==
  ASSUME cache \in Seq(Packets), NEW n
  PROVE  \E k \in 0..Len(cache) :
            /\ Unacked(n) \in Seq(Packets) /\ Len(Unacked(n)) = Len(cache) - k
            /\ \A j \in 1..(Len(cache) - k) : Unacked(n)[j] = cache[k + j]
            /\ k # 0 => k \in Matching(n)
            /\ \A j \in Matching(n) : j <= k
<1>1. Len(cache) \in Nat
  BY LenProperties
<1>2. CASE Matching(n) = {}
  <2>1. Unacked(n) = cache
    BY <1>2 DEF Unacked
  <2>2. \A j \in 1..(Len(cache) - 0) : Unacked(n)[j] = cache[0 + j]
    BY <1>1, <2>1
  <2>3. 0 \in 0..Len(cache) /\ Len(Unacked(n)) = Len(cache) - 0
    BY <1>1, <2>1
  <2>4. Unacked(n) \in Seq(Packets) /\ \A j \in Matching(n) : j <= 0
    BY <1>2, <2>1
  <2>. QED  BY <2>2, <2>3, <2>4, Zenon
<1>3. CASE Matching(n) # {}
  <2> DEFINE k == Max(Matching(n))
             c == Len(cache)
  <2>0. Matching(n) \in SUBSET (0..c)
    BY <1>1 DEF Matching
  <2>1. k \in Matching(n) /\ \A j \in Matching(n) : k >= j
    <3> HIDE DEF c
    <3>. QED  BY <1>1, <1>3, <2>0, GreatestIn DEF c
  <2>2. k \in 0..c
    BY <2>0, <2>1
  <2>3. Unacked(n) = SubSeq(cache, k + 1, c)
    BY <1>3 DEF Unacked
  <2> HIDE DEF k
  <2>4. /\ SubSeq(cache, k + 1, c) \in Seq(Packets)
        /\ Len(SubSeq(cache, k + 1, c)) = c - k
        /\ \A j \in 1..(c - k) : SubSeq(cache, k + 1, c)[j] = cache[k + j]
    BY <2>2, Suffix
  <2>5. \A j \in Matching(n) : j <= k
    BY <1>1, <2>0, <2>1, <2>2
  <2>. QED  BY <2>1, <2>2, <2>3, <2>4, <2>5
<1>. QED  BY <1>2, <1>3

(* Answers read by the sender, and what it sends again. *)
LEMMA HeartTyped == Typed /\ Heart => Typed'
<1> SUFFICES ASSUME Typed, Heart PROVE Typed'
  OBVIOUS
<1>1. /\ cache \in Seq(Packets) /\ Len(cache) <= Window /\ up \in Seq(Answers) /\ down \in Seq(Packets)
      /\ asked \in Seq(Numbers) /\ Len(cache) \in Nat /\ Window \in Nat
  BY WindowFacts, LenProperties DEF Typed, SenderType, LinkType
<1>2. UNCHANGED <<env, sent, num, refused, sock, phase, rvars, lost>>
  BY DEF Heart, HeartAck, HeartRequest, NobodyListens, Answered, Resend
<1>3. ReceiverType'
  BY <1>2 DEF Typed, ReceiverType, rvars
<1>4. SUFFICES /\ cache' \in Seq(Packets) /\ Len(cache') <= Window /\ asked' \in Seq(Numbers)
               /\ down' \in Seq(Packets) /\ up' \in Seq(Answers)
  <2>1. SenderType'
    BY <1>2, <1>4 DEF Typed, SenderType
  <2>. QED  BY <1>2, <1>3, <1>4, <2>1 DEF Typed, LinkType
<1>5. CASE Answered /\ (HeartAck \/ HeartRequest \/ NobodyListens)
  <2>1. up # <<>> /\ up' = Tail(up) /\ down' = down
    BY <1>5 DEF Answered
  <2>2. up' \in Seq(Answers) /\ Head(up) \in Answers
    BY <1>1, <2>1, HeadTailProperties
  <2>3. Head(up).nums \in Seq(Numbers)
    BY <2>2 DEF Answers
  <2>4. CASE HeartAck
    <3>1. cache' = Unacked(Head(Head(up).nums)) /\ asked' = asked
      BY <2>4 DEF HeartAck
    <3>2. PICK k \in 0..Len(cache) : /\ Unacked(Head(Head(up).nums)) \in Seq(Packets)
                                     /\ Len(Unacked(Head(Head(up).nums))) = Len(cache) - k
      BY <1>1, UnackedRight
    <3> DEFINE c == Len(cache)
               u == Unacked(Head(Head(up).nums))
    <3> HIDE DEF c, u
    <3>3. c - k <= Window
      BY <1>1, <3>2 DEF c
    <3>. QED  BY <1>1, <2>1, <2>2, <3>1, <3>2, <3>3 DEF c, u
  <2>5. CASE HeartRequest
    BY <1>1, <2>1, <2>2, <2>3, <2>5 DEF HeartRequest
  <2>6. CASE NobodyListens
    BY <1>1, <2>1, <2>2, <2>6 DEF NobodyListens
  <2>. QED  BY <1>5, <2>4, <2>5, <2>6
<1>6. CASE Resend
  <2>1. asked # <<>> /\ asked' = Tail(asked) /\ cache' = cache /\ up' = up
    BY <1>6 DEF Resend
  <2>2. asked' \in Seq(Numbers)
    BY <1>1, <2>1, HeadTailProperties
  <2> DEFINE M == Matching(Head(asked))
  <2>3. CASE M = {}
    <3>1. down' = down
      BY <1>6, <2>3 DEF Resend
    <3>. QED  BY <1>1, <2>1, <2>2, <3>1
  <2>4. CASE M # {}
    <3>1. down' = Append(down, cache[Min(M)])
      BY <1>6, <2>4 DEF Resend
    <3>2. M \in SUBSET (1..Len(cache)) /\ M \in SUBSET Nat
      BY DEF Matching
    <3>3. Min(M) \in M
      <4> HIDE DEF M
      <4>. QED  BY <2>4, <3>2, LeastIn
    <3>4. cache[Min(M)] \in Packets
      BY <1>1, <3>2, <3>3, ElementOfSeq
    <3>5. down' \in Seq(Packets)
      BY <1>1, <3>1, <3>4, AppendProperties
    <3>. QED  BY <1>1, <2>1, <2>2, <3>5
  <2>. QED  BY <2>3, <2>4
<1>7. (HeartAck \/ HeartRequest \/ NobodyListens) => Answered
  BY DEF HeartAck, HeartRequest, NobodyListens
<1>. QED  BY <1>5, <1>6, <1>7 DEF Heart

LEMMA SingleNum ==
  ASSUME NEW n \in Numbers
  PROVE  <<n>> \in Seq(Numbers)
OBVIOUS

(* One packet at the receiver, whatever is done with it. *)
LEMMA ProcessTyped ==
  ASSUME ReceiverType, up \in Seq(Answers), NEW m \in Packets, m.data \in Nat, Process(m)
  PROVE  ReceiverType' /\ up' \in Seq(Answers)
<1>1. /\ waiting \in Positions /\ buf \in [Positions -> Nat \union {None}]
      /\ from \in Nat /\ out \in Seq(Nat) /\ None \notin Nat
  BY WindowFacts DEF ReceiverType
<1>2. /\ m.num \in Int /\ m.num \in Numbers /\ m.src \in Nat /\ Pos(m.num) \in Positions
      /\ Pos(m.num) \in Int
  BY PacketFacts
<1>3. idle' \in 0..ReclaimAfter
  <2>1. idle' = 0 /\ ReclaimAfter \in Nat
    BY ConstAssumption DEF Process
  <2>. QED  BY <2>1
<1>4. SUFFICES /\ waiting' \in Positions /\ buf' \in [Positions -> Nat \union {None}]
               /\ from' \in Nat /\ out' \in Seq(Nat) /\ again' \in {None, m}
               /\ up' \in Seq(Answers)
  <2>1. again' \in Packets \union {None} /\ (again' # None => again'.data \in Nat)
    BY <1>4
  <2>. QED  BY <1>3, <1>4, <2>1 DEF ReceiverType
<1>5. CASE Deliver(m)
  <2> DEFINE k == Count(m)
             o == Pos(m.num)
  <2>1. k \in Int
    <3>1. k \in 0..(Window - 1)
      BY <1>1, Carried
    <3> HIDE DEF k
    <3>. QED  BY <3>1
  <2>2. /\ out' = Delivered(m) /\ waiting' = Pos(o + k + 1)
        /\ buf' = [p \in Positions |-> IF \E j \in 0..k : p = Pos(o + j) THEN None ELSE buf[p]]
        /\ up' = IF env.heartbeat THEN Append(up, Answer("ack", <<Incr(m.num, k)>>, m.src)) ELSE up
        /\ again' = None /\ from' = from
    BY <1>5, DeliverIs, Zenon
  <2> HIDE DEF k, o
  <2>3. o + k + 1 \in Int
    BY <1>2, <2>1 DEF o
  <2>4. waiting' \in Positions
    BY <2>2, <2>3, PosFacts
  <2>5. out' \in Seq(Nat)
    BY <1>1, <2>2, DeliveredRight
  <2>6. Incr(m.num, k) \in Numbers
    BY <1>2, <2>1, IncrFacts
  <2>7. Answer("ack", <<Incr(m.num, k)>>, m.src) \in Answers
    BY <1>2, <2>6, SingleNum, AnswerType
  <2>8. up' \in Seq(Answers)
    BY <2>2, <2>7, AppendProperties
  <2>9. buf' \in [Positions -> Nat \union {None}]
    BY <1>1, <2>2
  <2>. QED  BY <1>1, <2>2, <2>4, <2>5, <2>8, <2>9
<1>6. CASE WindowEnd(m)
  <2>1. /\ buf' = [buf EXCEPT ![Pos(m.num)] = m.data] /\ from' = m.src /\ again' = None
        /\ up' = Append(up, Answer("request", <<Incr(m.num, 1 - Window)>>, m.src))
        /\ waiting' = waiting /\ out' = out
    BY <1>6 DEF WindowEnd
  <2>2. 1 - Window \in Int
    BY WindowFacts
  <2>3. Incr(m.num, 1 - Window) \in Numbers
    BY <1>2, <2>2, IncrFacts
  <2>4. Answer("request", <<Incr(m.num, 1 - Window)>>, m.src) \in Answers
    BY <1>2, <2>3, SingleNum, AnswerType
  <2>5. up' \in Seq(Answers)
    BY <2>1, <2>4, AppendProperties
  <2>. QED  BY <1>1, <1>2, <2>1, <2>5
<1>7. CASE Skip(m)
  <2> DEFINE f == FirstOf(m)
             g == LastOf(m)
             o == Pos(m.num)
             at == IF g = Window THEN Window ELSE g + 1
  <2>1. /\ f \in 1..Window /\ g \in f..Window /\ RunOf(m) \in Seq(Nat) /\ Len(RunOf(m)) = g - f + 1
    BY <1>1, RunRight
  <2>2. /\ buf' = [p \in Positions |-> IF \E j \in f..g : p = Pos(o + j) THEN None ELSE After(m)[p]]
        /\ from' = m.src /\ up' = up
        /\ \/ out' = out \o RunOf(m) /\ again' = None /\ waiting' = Pos(o + g + 1)
           \/ out' = out \o Front(RunOf(m)) /\ again' = m /\ waiting' = Pos(o + at - 1)
    BY <1>7, SkipIs, Zenon
  <2>3. After(m) \in [Positions -> Nat \union {None}]
    BY <1>1, AfterType
  <2> HIDE DEF f, g, o
  <2>4. Len(RunOf(m)) >= 1 /\ o + g + 1 \in Int /\ o + at - 1 \in Int
    BY <1>2, <2>1, WindowFacts DEF o
  <2>5. Front(RunOf(m)) \in Seq(Nat)
    BY <2>1, <2>4, FrontRight
  <2>6. out' \in Seq(Nat)
    <3> DEFINE r == RunOf(m)
               s == Front(r)
    <3> HIDE DEF r, s
    <3>1. r \in Seq(Nat) /\ s \in Seq(Nat)
      BY <2>1, <2>5 DEF r, s
    <3>2. out \o r \in Seq(Nat) /\ out \o s \in Seq(Nat)
      BY <1>1, <3>1, ConcatProperties
    <3>3. out' = out \o r \/ out' = out \o s
      BY <2>2, Zenon DEF r, s
    <3>. QED  BY <3>2, <3>3
  <2>7. Pos(o + g + 1) \in Positions /\ Pos(o + at - 1) \in Positions
    <3> HIDE DEF at
    <3>. QED  BY <2>4, PosFacts
  <2>8. buf' \in [Positions -> Nat \union {None}]
    BY <2>2, <2>3
  <2>9. waiting' \in Positions /\ again' \in {None, m}
    <3> HIDE DEF at
    <3>. QED  BY <2>2, <2>7
  <2>. QED  BY <1>2, <2>2, <2>6, <2>8, <2>9
<1>8. CASE Keep(m)
  BY <1>1, <1>2, <1>8 DEF Keep
<1>. QED  BY <1>5, <1>6, <1>7, <1>8 DEF Process

LEMMA ReceiveTyped == Typed /\ Receive => Typed'
<1> SUFFICES ASSUME Typed, Receive PROVE Typed'
  OBVIOUS
<1>1. UNCHANGED <<env, svars, lost>>
  BY DEF Receive
<1>2. SenderType'
  BY <1>1 DEF Typed, SenderType, svars
<1>3. /\ ReceiverType /\ up \in Seq(Answers) /\ down \in Seq(Packets)
      /\ again \in Packets \union {None} /\ (again # None => again.data \in Nat)
  BY DEF Typed, LinkType, ReceiverType
<1>4. CASE again # None
  <2>1. Process(again) /\ down' = down
    BY <1>4 DEF Receive
  <2>2. ReceiverType' /\ up' \in Seq(Answers)
    BY <1>3, <1>4, <2>1, ProcessTyped
  <2>. QED  BY <1>1, <1>2, <1>3, <2>1, <2>2 DEF Typed, LinkType
<1>5. CASE again = None
  <2>1. PICK i \in 1..Len(down) : /\ down[i].data # End /\ Process(down[i])
                                  /\ down' = RemoveAt(down, i)
    BY <1>5 DEF Receive
  <2>2. down[i] \in Packets
    BY <1>3, ElementOfSeq
  <2>3. down[i].data \in Nat
    BY <2>1, <2>2, PacketFacts
  <2>4. ReceiverType' /\ up' \in Seq(Answers)
    BY <1>3, <2>1, <2>2, <2>3, ProcessTyped
  <2>5. down' \in Seq(Packets)
    BY <1>3, <2>1, Removed
  <2>. QED  BY <1>1, <1>2, <2>4, <2>5 DEF Typed, LinkType
<1>. QED  BY <1>4, <1>5

LEMMA ListOfNumbers ==
  ASSUME NEW q \in Seq(Positions)
  PROVE  q \in Seq(Numbers)
<1>1. Len(q) \in Nat /\ \A i \in 1..Len(q) : q[i] \in Numbers
  <2>1. \A i \in 1..Len(q) : q[i] \in Positions
    BY ElementOfSeq
  <2>2. \A p \in Positions : p \in Numbers
    BY WindowFacts
  <2>. QED  BY <2>1, <2>2, LenProperties
<1>2. q = [i \in 1..Len(q) |-> q[i]]
  OBVIOUS
<1> DEFINE n == Len(q)
<1> HIDE DEF n
<1>3. [i \in 1..n |-> q[i]] \in Seq(Numbers)
  BY <1>1 DEF n
<1>. QED  BY <1>2, <1>3 DEF n

LEMMA QuietTyped == Typed /\ (DropEnd \/ IdlePeriod \/ Lose) => Typed'
<1> SUFFICES ASSUME Typed, DropEnd \/ IdlePeriod \/ Lose PROVE Typed'
  OBVIOUS
<1>1. UNCHANGED <<env, svars>>
  BY DEF DropEnd, IdlePeriod, Lose
<1>2. SenderType'
  BY <1>1 DEF Typed, SenderType, svars
<1>3. /\ up \in Seq(Answers) /\ down \in Seq(Packets) /\ lost \in 0..env.loss /\ env.loss \in Nat
  BY EnvFacts DEF Typed, LinkType
<1>4. CASE DropEnd
  <2>1. UNCHANGED <<rvars, up, lost>>
    BY <1>4 DEF DropEnd
  <2>2. PICK i \in 1..Len(down) : down' = RemoveAt(down, i)
    BY <1>4 DEF DropEnd
  <2>3. down' \in Seq(Packets)
    BY <1>3, <2>2, Removed
  <2>4. ReceiverType'
    BY <2>1 DEF Typed, ReceiverType, rvars
  <2>. QED  BY <1>1, <1>2, <1>3, <2>1, <2>3, <2>4 DEF Typed, LinkType
<1>5. CASE IdlePeriod
  <2>1. /\ idle < ReclaimAfter /\ idle' = idle + 1 /\ UNCHANGED <<from, again, out, down, lost>>
        /\ idle \in 0..ReclaimAfter /\ ReclaimAfter \in Nat
    BY <1>5, ConstAssumption DEF IdlePeriod, Typed, ReceiverType
  <2>2. idle' \in 0..ReclaimAfter
    BY <2>1
  <2>3. \/ waiting' = 0 /\ buf' = [p \in Positions |-> None]
        \/ waiting' = waiting /\ buf' = buf
    BY <1>5 DEF IdlePeriod
  <2>4. waiting \in Positions /\ buf \in [Positions -> Nat \union {None}] /\ from \in Nat
    BY DEF Typed, ReceiverType
  <2>5. 0 \in Positions
    BY WindowFacts DEF Positions
  <2>6. waiting' \in Positions /\ buf' \in [Positions -> Nat \union {None}]
    BY <2>3, <2>4, <2>5
  <2>7. Missing \in Seq(Numbers)
    BY <2>4, MissingRight, ListOfNumbers DEF ListRules
  <2>8. Answer("request", Missing, from) \in Answers
    BY <2>4, <2>7, AnswerType
  <2>9. up' \in {<<Answer("request", Missing, from)>>, <<>>}
    BY <1>5 DEF IdlePeriod
  <2>10. up' \in Seq(Answers)
    <3> DEFINE r == Answer("request", Missing, from)
    <3> HIDE DEF r
    <3>1. <<r>> \in Seq(Answers) /\ <<>> \in Seq(Answers)
      BY <2>8 DEF r
    <3>2. up' \in {<<r>>, <<>>}
      BY <2>9 DEF r
    <3>. QED  BY <3>1, <3>2
  <2>11. ReceiverType'
    BY <2>1, <2>2, <2>6 DEF Typed, ReceiverType
  <2>. QED  BY <1>1, <1>2, <1>3, <2>1, <2>10, <2>11 DEF Typed, LinkType
<1>6. CASE Lose
  <2>1. UNCHANGED rvars /\ lost < env.loss /\ lost' = lost + 1
    BY <1>6 DEF Lose
  <2>2. \/ up' = up /\ \E i \in 1..Len(down) : down' = RemoveAt(down, i)
        \/ down' = down /\ \E i \in 1..Len(up) : up' = RemoveAt(up, i)
    BY <1>6 DEF Lose
  <2>3. down' \in Seq(Packets) /\ up' \in Seq(Answers)
    BY <1>3, <2>2, Removed
  <2>4. lost' \in 0..env.loss
    BY <1>3, <2>1
  <2>5. ReceiverType'
    BY <2>1 DEF Typed, ReceiverType, rvars
  <2>. QED  BY <1>1, <1>2, <2>3, <2>4, <2>5 DEF Typed, LinkType
<1>. QED  BY <1>4, <1>5, <1>6

LEMMA TypedStep == Typed /\ [Next]_vars => Typed'
<1> SUFFICES ASSUME Typed, [Next]_vars PROVE Typed'
  OBVIOUS
<1>1. CASE UNCHANGED vars
  BY <1>1 DEF vars, svars, rvars, Typed, SenderType, ReceiverType, LinkType
<1>2. CASE Next
  BY <1>2, SendTyped, OtherSenderTyped, HeartTyped, ReceiveTyped, QuietTyped
     DEF Next, Sender, Receiver
<1>. QED  BY <1>1, <1>2

LEMMA TypedAlways == Spec => []Typed
<1>. QED  BY TypedInit, TypedStep, PTL DEF Spec

(* Types of the variables in every environment: the cache never holds more   *)
(* than a window, and waiting stays within it, where the number wraps as     *)
(* well (udp_socket.cpp:618, 1311).                                          *)
THEOREM TypeCorrect == Spec => []TypeOK
<1>1. Typed => TypeOK
  BY DEF Typed, SenderType, ReceiverType, LinkType, TypeOK
<1>. QED  BY <1>1, TypedAlways, PTL

-----------------------------------------------------------------------------
(* The cache of a TCP channel: the last packets sent, in order, each under   *)
(* the number of its position in the flow.                                   *)

Copy(d, s) == [num |-> d % NumMod, data |-> d, src |-> s]
First == sent - Len(cache)

Cached ==
  env.channel = "tcp" =>
    /\ num = sent % NumMod /\ Len(cache) <= sent
    /\ ~env.heartbeat => cache = <<>>
    /\ \A i \in 1..Len(cache) : cache[i] = Copy(First + i - 1, sock)

LEMMA CachedInit == Init => Cached
<1> SUFFICES ASSUME Init PROVE Cached
  OBVIOUS
<1>1. sent = 0 /\ num = 0 /\ cache = <<>> /\ Len(cache) = 0
  BY DEF Init
<1>2. 0 % NumMod = 0
  <2>1. 0 \in 0..(NumMod - 1) /\ NumMod \in Nat \ {0}
    BY WindowFacts
  <2>. QED  BY <2>1, ModSmall
<1>. QED  BY <1>1, <1>2 DEF Cached

(* After an acknowledgement the rest is still the last packets sent. *)
LEMMA CachedSuffix ==
  ASSUME Typed, Cached, env.channel = "tcp", NEW n
  PROVE  /\ Len(Unacked(n)) \in 0..Len(cache)
         /\ \A i \in 1..Len(Unacked(n)) : Unacked(n)[i] = Copy(sent - Len(Unacked(n)) + i - 1, sock)
<1>1. cache \in Seq(Packets) /\ sent \in Nat /\ Len(cache) \in Nat
  BY EnvFacts, LenProperties DEF Typed, SenderType
<1>2. PICK k \in 0..Len(cache) :
            /\ Unacked(n) \in Seq(Packets) /\ Len(Unacked(n)) = Len(cache) - k
            /\ \A j \in 1..(Len(cache) - k) : Unacked(n)[j] = cache[k + j]
  BY <1>1, UnackedRight
<1> DEFINE u == Unacked(n)
           c == Len(cache)
           l == Len(u)
<1>3. \A i \in 1..c : cache[i] = Copy(sent - c + i - 1, sock)
  BY DEF Cached, First
<1>4. l = c - k /\ \A j \in 1..(c - k) : u[j] = cache[k + j]
  BY <1>2
<1>5. c \in Nat /\ k \in 0..c
  BY <1>1, <1>2
<1> HIDE DEF c, u, l
<1>6. l \in 0..c
  BY <1>4, <1>5
<1>7. ASSUME NEW i \in 1..l PROVE u[i] = Copy(sent - l + i - 1, sock)
  <2>1. k + i \in 1..c /\ i \in 1..(c - k) /\ sent - c + (k + i) - 1 = sent - l + i - 1
    BY <1>1, <1>4, <1>5
  <2>. QED  BY <1>3, <1>4, <2>1
<1>. QED  BY <1>6, <1>7 DEF c, u, l

LEMMA NextNum ==
  ASSUME sent \in Nat, num = sent % NumMod
  PROVE  Incr(num, 1) = (sent + 1) % NumMod
<1>1. sent \in Int /\ 1 \in Int
  OBVIOUS
<1>2. Incr(sent % NumMod, 1) = (sent + 1) % NumMod
  BY <1>1, IncrFacts
<1>. QED  BY <1>2

LEMMA CachedSend == Typed /\ Cached /\ Send => Cached'
<1> SUFFICES ASSUME Typed, Cached, Send, env.channel = "tcp" PROVE Cached'
  <2>1. Send => env' = env
    BY DEF Send
  <2>. QED  BY <2>1 DEF Cached
<1>1. /\ cache \in Seq(Packets) /\ sent \in Nat /\ Len(cache) \in Nat /\ sock \in Nat /\ num \in Numbers
  BY EnvFacts, LenProperties DEF Typed, SenderType
<1>2. /\ num = sent % NumMod /\ Len(cache) <= sent
      /\ ~env.heartbeat => cache = <<>>
      /\ \A i \in 1..Len(cache) : cache[i] = Copy(sent - Len(cache) + i - 1, sock)
  BY DEF Cached, First
<1>3. /\ sent' = sent + 1 /\ env' = env /\ sock' = sock
      /\ cache' = IF env.heartbeat THEN Append(cache, Packet(sent)) ELSE cache
      /\ num' = Incr(num, 1)
  BY DEF Send
<1>4. num' = (sent + 1) % NumMod
  BY <1>1, <1>2, <1>3, NextNum
<1>5. Packet(sent) = Copy(sent, sock) /\ Packet(sent) \in Packets
  BY <1>1, <1>2, PacketType DEF Packet, Copy
<1>6. CASE env.heartbeat
  <2> DEFINE c == Len(cache)
             d == Append(cache, Packet(sent))
  <2>1. /\ Len(d) = c + 1 /\ d[c + 1] = Packet(sent) /\ \A i \in 1..c : d[i] = cache[i]
    BY <1>1, <1>5, AppendProperties
  <2>2. cache' = d
    BY <1>3, <1>6
  <2>3. c \in Nat /\ c <= sent
    BY <1>1, <1>2
  <2>4. \A i \in 1..c : cache[i] = Copy(sent - c + i - 1, sock)
    BY <1>2
  <2> HIDE DEF c, d
  <2>5. ASSUME NEW i \in 1..(c + 1) PROVE d[i] = Copy((sent + 1) - (c + 1) + i - 1, sock)
    <3>1. CASE i = c + 1
      <4>1. (sent + 1) - (c + 1) + i - 1 = sent
        BY <1>1, <2>3, <3>1
      <4>. QED  BY <1>5, <2>1, <3>1, <4>1
    <3>2. CASE i # c + 1
      <4>1. i \in 1..c /\ (sent + 1) - (c + 1) + i - 1 = sent - c + i - 1
        BY <1>1, <2>3, <3>2
      <4>. QED  BY <2>1, <2>4, <4>1
    <3>. QED  BY <3>1, <3>2
  <2>6. c + 1 <= sent + 1
    BY <1>1, <2>3
  <2>. QED  BY <1>3, <1>4, <1>6, <2>1, <2>2, <2>5, <2>6 DEF Cached, First
<1>7. CASE ~env.heartbeat
  <2>1. cache = <<>> /\ cache' = <<>> /\ Len(cache') = 0
    BY <1>2, <1>3, <1>7
  <2>. QED  BY <1>1, <1>3, <1>4, <1>7, <2>1 DEF Cached
<1>. QED  BY <1>6, <1>7

LEMMA CachedGone ==
  ASSUME cache = <<>>, num = sent % NumMod, sent \in Nat
  PROVE  Cached
BY DEF Cached

LEMMA CachedStep == Typed /\ Cached /\ [Next]_vars => Cached'
<1> SUFFICES ASSUME Typed, Cached, [Next]_vars, env.channel = "tcp" PROVE Cached'
  <2>1. [Next]_vars => env' = env
    BY DEF Next, Sender, Send, Refuse, GiveUp, Finish, Close, Heart, HeartAck, HeartRequest,
           NobodyListens, Answered, Resend, Receiver, Receive, DropEnd, IdlePeriod, Lose, vars
  <2>. QED  BY <2>1 DEF Cached
<1>1. sent \in Nat /\ num = sent % NumMod
  BY EnvFacts DEF Typed, SenderType, Cached
<1>2. CASE Send
  BY <1>2, CachedSend
<1>3. CASE GiveUp
  <2>1. sent' = sent + 1 /\ num' = Incr(num, 1) /\ cache' = <<>>
    BY <1>3 DEF GiveUp
  <2>2. num' = (sent + 1) % NumMod
    BY <1>1, <2>1, NextNum
  <2>. QED  BY <1>1, <2>1, <2>2 DEF Cached
<1>4. CASE Close
  <2>1. sent' = sent /\ num' = num /\ cache' = <<>>
    BY <1>4 DEF Close
  <2>. QED  BY <1>1, <2>1 DEF Cached
<1>5. CASE HeartAck
  <2>1. UNCHANGED <<env, sent, num, sock>> /\ cache' = Unacked(Head(Head(up).nums))
    BY <1>5 DEF HeartAck, Answered
  <2> DEFINE u == Unacked(Head(Head(up).nums))
  <2>2. /\ Len(u) \in 0..Len(cache)
        /\ \A i \in 1..Len(u) : u[i] = Copy(sent - Len(u) + i - 1, sock)
    BY CachedSuffix
  <2> HIDE DEF u
  <2>3. /\ Len(cache) <= sent /\ Len(cache) \in Nat
        /\ ~env.heartbeat => cache = <<>>
    BY LenProperties DEF Cached, Typed, SenderType
  <2>4. ~env.heartbeat => u = <<>>
    <3> SUFFICES ASSUME ~env.heartbeat PROVE u = <<>>
      OBVIOUS
    <3>1. cache = <<>>
      BY <2>3
    <3>2. Matching(Head(Head(up).nums)) = {}
      BY <3>1 DEF Matching
    <3>. QED  BY <3>1, <3>2 DEF u, Unacked
  <2>5. cache' = u
    BY <2>1 DEF u
  <2>6. Len(u) <= sent
    BY <1>1, <2>2, <2>3
  <2>. QED  BY <1>1, <2>1, <2>2, <2>4, <2>5, <2>6 DEF Cached, First
<1>6. CASE UNCHANGED <<env, sent, num, sock, cache>>
  BY <1>6 DEF Cached, First
<1>7. CASE Finish \/ HeartRequest \/ NobodyListens \/ Resend \/ Receiver \/ Lose \/ UNCHANGED vars
  BY <1>6, <1>7 DEF Finish, HeartRequest, NobodyListens, Answered, Resend, Receiver, Receive,
     DropEnd, IdlePeriod, Lose, vars, svars
<1>8. ~Refuse
  BY DEF Refuse
<1>. QED  BY <1>2, <1>3, <1>4, <1>5, <1>7, <1>8 DEF Next, Sender, Heart

(* As long as the numbers have not wrapped, or if they wrap at a multiple of *)
(* the window, a packet's number tells its position in the flow modulo       *)
(* Window.                                                                   *)
LEMMA PosOfCopy ==
  ASSUME NEW d \in Nat, NEW s, d < NumMod \/ NumMod % Window = 0
  PROVE  Pos(Copy(d, s).num) = Pos(d)
<1>1. Window \in Nat \ {0} /\ NumMod \in Nat \ {0} /\ d \in Int
  BY WindowFacts
<1>2. CASE d < NumMod
  <2>1. d \in 0..(NumMod - 1)
    BY <1>1, <1>2
  <2>2. d % NumMod = d
    BY <1>1, <2>1, ModSmall
  <2>. QED  BY <2>2 DEF Copy
<1>3. CASE NumMod % Window = 0
  <2>1. (d % NumMod) % Window = d % Window
    BY <1>1, <1>3, ModMod
  <2>. QED  BY <2>1 DEF Copy, Pos
<1>. QED  BY <1>2, <1>3

(* The packets cached for a TCP channel have different positions: an answer  *)
(* of the receiver, which knows positions only, names at most one of them    *)
(* (udp_socket.cpp:728, 766).                                                *)
THEOREM CacheHolds == Spec => []OneCachedPerPosition
<1>1. Typed /\ Cached => OneCachedPerPosition
  <2> SUFFICES ASSUME Typed, Cached, env.channel = "tcp",
                      sent <= NumMod \/ NumMod % Window = 0,
                      NEW i \in 1..Len(cache), NEW j \in 1..Len(cache), i # j
               PROVE  Pos(cache[i].num) # Pos(cache[j].num)
    BY DEF OneCachedPerPosition
  <2> DEFINE c == Len(cache)
             a == sent - c + i - 1
             b == sent - c + j - 1
  <2>1. c \in Nat /\ sent \in Nat /\ c <= sent /\ c <= Window
    BY EnvFacts, LenProperties DEF Typed, SenderType, Cached
  <2>2. Window \in Nat /\ NumMod \in Nat /\ i \in 1..c /\ j \in 1..c
    BY WindowFacts
  <2>3. cache[i] = Copy(a, sock) /\ cache[j] = Copy(b, sock)
    BY DEF Cached, First
  <2> HIDE DEF c
  <2>4. /\ a \in Nat /\ b \in Nat /\ a < sent /\ b < sent
        /\ a # b /\ a - b < Window /\ b - a < Window
    BY <2>1, <2>2
  <2> HIDE DEF a, b
  <2>5. /\ a < NumMod \/ NumMod % Window = 0
        /\ b < NumMod \/ NumMod % Window = 0
    BY <2>1, <2>2, <2>4
  <2>6. Pos(cache[i].num) = Pos(a) /\ Pos(cache[j].num) = Pos(b)
    BY <2>3, <2>4, <2>5, PosOfCopy
  <2>7. Pos(a) # Pos(b)
    BY <2>4, PosDiffers
  <2>. QED  BY <2>6, <2>7
<1>2. Typed /\ Cached /\ [Next]_vars => (Typed /\ Cached)'
  BY TypedStep, CachedStep
<1>3. Init => Typed /\ Cached
  BY TypedInit, CachedInit
<1>. QED  BY <1>1, <1>2, <1>3, PTL DEF Spec

-----------------------------------------------------------------------------
(* What lies between the two boxes when the link and the timeouts are as     *)
(* Reliable demands.  In what follows f is the first packet of the cache, d  *)
(* the packet the receiver waits for and n the next one to be sent; q stands *)
(* for down, b for buf, u for up and w for the numbers asked for.            *)

Sizes(f, d, n) ==
  /\ f \in Nat /\ d \in Nat /\ n \in Nat /\ Window \in Nat
  /\ f <= d /\ d <= n /\ n <= f + Window

(* Buffered packets are later ones, each at its own position. *)
Ahead(b, d, n) ==
  \A p \in Positions : b[p] # None => b[p] \in (d + 1)..(n - 1) /\ Pos(b[p]) = p

(* A packet on its way was neither delivered nor buffered, is there once and *)
(* never in front of the packet a window less one before it.                 *)
OnLink(q, b, d, n) ==
  \A i \in 1..Len(q) :
    /\ q[i].data \in d..(n - 1) /\ q[i] = Copy(q[i].data, 0) /\ b[Pos(q[i].data)] = None
    /\ \A j \in 1..Len(q) : j # i => q[j].data # q[i].data
    /\ \A j \in 1..Len(q) : i < j => q[i].data # q[j].data + Window - 1

(* A packet that will be sent again is missing and not on its way, and will  *)
(* come before the packet a window less one after it.                        *)
Wanted(w, q, b, f, d, n) ==
  \A k \in 1..Len(w) : \A e \in f..(n - 1) : Pos(w[k]) = Pos(e) =>
    /\ d <= e /\ b[Pos(e)] = None
    /\ \A i \in 1..Len(q) : q[i].data # e /\ q[i].data # e + Window - 1
    /\ \A l \in 1..Len(w) : l # k => Pos(w[l]) # Pos(e)
    /\ e + Window - 1 < n => \A l \in 1..(k - 1) : Pos(w[l]) # Pos(e + Window - 1)

(* Acknowledgements on their way cover the cache up to the last delivery. *)
Acks(u, f, d) ==
  \E g \in [1..Len(u) -> f..(d - 1)] :
    /\ \A i \in 1..Len(u) : u[i] = Answer("ack", <<g[i] % NumMod>>, 0)
    /\ \A i, j \in 1..Len(u) : i < j => g[i] < g[j]
    /\ u = <<>> => f = d
    /\ u # <<>> => g[Len(u)] = d - 1

(* Or the receiver has asked for the packet it waits for. *)
OneRequest(u, f, d, n) ==
  /\ Len(u) = 1 /\ u[1].type = "request" /\ u[1].to = 0
  /\ f = d /\ d < n
  /\ \E k \in 1..Len(u[1].nums) : Pos(u[1].nums[k]) = Pos(d)

Pending(a, u) == IF u # <<>> /\ u[1].type = "request" THEN a \o u[1].nums ELSE a

(* Packets less than a window apart are the same if their positions are. *)
LEMMA SamePos ==
  ASSUME NEW x \in Int, NEW y \in Int, x - y < Window, y - x < Window, Pos(x) = Pos(y)
  PROVE  x = y
BY PosDiffers

LEMMA PosNumber ==
  ASSUME NumMod % Window = 0, NEW x \in Nat
  PROVE  Pos(x % NumMod) = Pos(x)
BY PosOfCopy DEF Copy

LEMMA LinkRemoved ==
  ASSUME NEW q \in Seq(Packets), NEW i \in 1..Len(q)
  PROVE  /\ \A j \in 1..Len(RemoveAt(q, i)) :
              \E l \in 1..Len(q) : l # i /\ RemoveAt(q, i)[j] = q[l]
         /\ \A b, d, n : OnLink(q, b, d, n) => OnLink(RemoveAt(q, i), b, d, n)
<1> DEFINE r == RemoveAt(q, i)
           c == Len(q)
           h(j) == IF j < i THEN j ELSE j + 1
<1>1. c \in Nat /\ i \in 1..c
  BY LenProperties
<1>2. Len(r) = c - 1 /\ \A j \in 1..(c - 1) : r[j] = IF j < i THEN q[j] ELSE q[j + 1]
  BY Removed
<1> HIDE DEF r, c
<1>3. ASSUME NEW j \in 1..Len(r)
      PROVE  h(j) \in 1..c /\ h(j) # i /\ r[j] = q[h(j)]
  BY <1>1, <1>2
<1>4. ASSUME NEW j \in 1..Len(r), NEW l \in 1..Len(r)
      PROVE  /\ j # l => h(j) # h(l)
             /\ j < l => h(j) < h(l)
  BY <1>1, <1>2
<1> HIDE DEF h
<1>5. \A j \in 1..Len(r) : \E l \in 1..c : l # i /\ r[j] = q[l]
  BY <1>3
<1>6. ASSUME NEW b, NEW d, NEW n, OnLink(q, b, d, n)
      PROVE  OnLink(r, b, d, n)
  <2> SUFFICES ASSUME NEW j \in 1..Len(r)
               PROVE  /\ r[j].data \in d..(n - 1) /\ r[j] = Copy(r[j].data, 0)
                      /\ b[Pos(r[j].data)] = None
                      /\ \A l \in 1..Len(r) : l # j => r[l].data # r[j].data
                      /\ \A l \in 1..Len(r) : j < l => r[j].data # r[l].data + Window - 1
    BY Zenon DEF OnLink
  <2>1. /\ q[h(j)].data \in d..(n - 1) /\ q[h(j)] = Copy(q[h(j)].data, 0)
        /\ b[Pos(q[h(j)].data)] = None
        /\ \A l \in 1..c : l # h(j) => q[l].data # q[h(j)].data
        /\ \A l \in 1..c : h(j) < l => q[h(j)].data # q[l].data + Window - 1
    BY <1>3, <1>6, Zenon DEF OnLink, c
  <2>2. r[j] = q[h(j)]
    BY <1>3
  <2>3. ASSUME NEW l \in 1..Len(r), l # j PROVE r[l].data # r[j].data
    <3>1. h(l) \in 1..c /\ h(l) # h(j) /\ r[l] = q[h(l)]
      BY <1>3, <1>4, <2>3
    <3>. QED  BY <2>1, <2>2, <3>1
  <2>4. ASSUME NEW l \in 1..Len(r), j < l PROVE r[j].data # r[l].data + Window - 1
    <3>1. h(l) \in 1..c /\ h(j) < h(l) /\ r[l] = q[h(l)]
      BY <1>3, <1>4, <2>4
    <3>. QED  BY <2>1, <2>2, <3>1
  <2>. QED  BY <2>1, <2>2, <2>3, <2>4
<1>. QED  BY <1>5, <1>6, Zenon DEF r, c

LEMMA LinkAppended ==
  ASSUME NEW q \in Seq(Packets), NEW b, NEW d \in Nat, NEW n \in Nat, OnLink(q, b, d, n),
         NEW x \in d..(n - 1), b[Pos(x)] = None, NEW y, y = Copy(x, 0),
         \A i \in 1..Len(q) : q[i].data # x /\ q[i].data # x + Window - 1
  PROVE  OnLink(Append(q, y), b, d, n)
<1> DEFINE r == Append(q, y)
           c == Len(q)
<1>0. y.data = x
  BY DEF Copy
<1>1. c \in Nat /\ Len(r) = c + 1 /\ r[c + 1] = y /\ \A i \in 1..c : r[i] = q[i]
  <2>1. y \in Packets
    <3>1. x \in Nat /\ x \in Int
      OBVIOUS
    <3>2. x % NumMod \in Numbers
      BY <3>1, WindowFacts, DivMod DEF Numbers
    <3>. QED  BY <3>1, <3>2 DEF Packets, Copy
  <2>. QED  BY <2>1, AppendProperties, LenProperties
<1>2. \A i \in 1..c :
         /\ q[i].data \in d..(n - 1) /\ q[i] = Copy(q[i].data, 0) /\ b[Pos(q[i].data)] = None
         /\ \A j \in 1..c : j # i => q[j].data # q[i].data
         /\ \A j \in 1..c : i < j => q[i].data # q[j].data + Window - 1
         /\ q[i].data # x /\ q[i].data # x + Window - 1
  BY Zenon DEF OnLink
<1> HIDE DEF r, c
<1> SUFFICES ASSUME NEW i \in 1..Len(r)
             PROVE  /\ r[i].data \in d..(n - 1) /\ r[i] = Copy(r[i].data, 0)
                    /\ b[Pos(r[i].data)] = None
                    /\ \A j \in 1..Len(r) : j # i => r[j].data # r[i].data
                    /\ \A j \in 1..Len(r) : i < j => r[i].data # r[j].data + Window - 1
  BY Zenon DEF OnLink, r
<1>3. CASE i = c + 1
  <2>1. r[i] = y /\ \A j \in 1..Len(r) : ~(i < j) /\ (j # i => j \in 1..c)
    BY <1>1, <1>3
  <2>. QED  BY <1>0, <1>1, <1>2, <2>1
<1>4. CASE i # c + 1
  <2>1. i \in 1..c /\ r[i] = q[i]
    BY <1>1, <1>4
  <2>2. ASSUME NEW j \in 1..Len(r), j # i PROVE r[j].data # r[i].data
    <3>1. CASE j = c + 1
      BY <1>0, <1>1, <1>2, <2>1, <3>1
    <3>2. CASE j # c + 1
      <4>1. j \in 1..c /\ r[j] = q[j]
        BY <1>1, <3>2
      <4>. QED  BY <1>2, <2>1, <2>2, <4>1
    <3>. QED  BY <3>1, <3>2
  <2>3. ASSUME NEW j \in 1..Len(r), i < j PROVE r[i].data # r[j].data + Window - 1
    <3>1. CASE j = c + 1
      BY <1>0, <1>1, <1>2, <2>1, <3>1
    <3>2. CASE j # c + 1
      <4>1. j \in 1..c /\ r[j] = q[j]
        BY <1>1, <3>2
      <4>. QED  BY <1>2, <2>1, <2>3, <4>1
    <3>. QED  BY <3>1, <3>2
  <2>. QED  BY <1>2, <2>1, <2>2, <2>3
<1>. QED  BY <1>3, <1>4

LEMMA LinkKept ==
  ASSUME NEW q, NEW b, NEW d, NEW n, OnLink(q, b, d, n), NEW c, NEW e, NEW m,
         \A i \in 1..Len(q) : q[i].data \in e..(m - 1) /\ c[Pos(q[i].data)] = None
  PROVE  OnLink(q, c, e, m)
BY Zenon DEF OnLink

(* Fewer packets on their way, more of them delivered or buffered. *)
LEMMA WantedKept ==
  ASSUME NEW w, NEW q, NEW b, NEW f, NEW d, NEW n, Wanted(w, q, b, f, d, n),
         NEW r, NEW c, NEW t, 
         \A j \in 1..Len(r) : \E i \in 1..Len(q) : r[j] = q[i],
         \A k \in 1..Len(w) : \A e \in f..(n - 1) :
            Pos(w[k]) = Pos(e) => t <= e /\ c[Pos(e)] = None
  PROVE  Wanted(w, r, c, f, t, n)
<1> SUFFICES ASSUME NEW k \in 1..Len(w), NEW e \in f..(n - 1), Pos(w[k]) = Pos(e)
             PROVE  /\ t <= e /\ c[Pos(e)] = None
                    /\ \A i \in 1..Len(r) : r[i].data # e /\ r[i].data # e + Window - 1
                    /\ \A l \in 1..Len(w) : l # k => Pos(w[l]) # Pos(e)
                    /\ e + Window - 1 < n =>
                         \A l \in 1..(k - 1) : Pos(w[l]) # Pos(e + Window - 1)
  BY Zenon DEF Wanted
<1>1. /\ \A i \in 1..Len(q) : q[i].data # e /\ q[i].data # e + Window - 1
      /\ \A l \in 1..Len(w) : l # k => Pos(w[l]) # Pos(e)
      /\ e + Window - 1 < n => \A l \in 1..(k - 1) : Pos(w[l]) # Pos(e + Window - 1)
  BY Zenon DEF Wanted
<1>2. t <= e /\ c[Pos(e)] = None
  OBVIOUS
<1>3. ASSUME NEW i \in 1..Len(r) PROVE r[i].data # e /\ r[i].data # e + Window - 1
  <2>1. PICK j \in 1..Len(q) : r[i] = q[j]
    BY <1>3
  <2>. QED  BY <1>1, <2>1
<1>. QED  BY <1>1, <1>2, <1>3

(* The first number asked for is answered. *)
LEMMA WantedNext ==
  ASSUME NEW w \in Seq(Numbers), w # <<>>, NEW q \in Seq(Packets), NEW b, NEW f \in Nat,
         NEW d, NEW n \in Nat, Wanted(w, q, b, f, d, n)
  PROVE  Wanted(Tail(w), q, b, f, d, n)
<1> DEFINE v == Tail(w)
           c == Len(w)
<1>1. c \in Nat /\ c >= 1 /\ Len(v) = c - 1 /\ \A k \in 1..(c - 1) : v[k] = w[k + 1]
  BY LenProperties, EmptySeq, HeadTailProperties
<1> HIDE DEF v, c
<1> SUFFICES ASSUME NEW k \in 1..Len(v), NEW e \in f..(n - 1), Pos(v[k]) = Pos(e)
             PROVE  /\ d <= e /\ b[Pos(e)] = None
                    /\ \A i \in 1..Len(q) : q[i].data # e /\ q[i].data # e + Window - 1
                    /\ \A l \in 1..Len(v) : l # k => Pos(v[l]) # Pos(e)
                    /\ e + Window - 1 < n =>
                         \A l \in 1..(k - 1) : Pos(v[l]) # Pos(e + Window - 1)
  BY Zenon DEF Wanted, v
<1>2. k + 1 \in 1..c /\ v[k] = w[k + 1] /\ k \in Nat /\ (k + 1) - 1 = k
  BY <1>1
<1>3. /\ d <= e /\ b[Pos(e)] = None
      /\ \A i \in 1..Len(q) : q[i].data # e /\ q[i].data # e + Window - 1
      /\ \A l \in 1..c : l # k + 1 => Pos(w[l]) # Pos(e)
      /\ e + Window - 1 < n => \A l \in 1..k : Pos(w[l]) # Pos(e + Window - 1)
  BY <1>2, ZenonT(60) DEF Wanted, c
<1>4. ASSUME NEW l \in 1..Len(v), l # k PROVE Pos(v[l]) # Pos(e)
  <2>1. l + 1 \in 1..c /\ l + 1 # k + 1 /\ v[l] = w[l + 1]
    BY <1>1, <1>4
  <2>. QED  BY <1>3, <2>1
<1>5. ASSUME e + Window - 1 < n, NEW l \in 1..(k - 1) PROVE Pos(v[l]) # Pos(e + Window - 1)
  <2>1. l + 1 \in 1..k /\ v[l] = w[l + 1]
    BY <1>1, <1>2, <1>5
  <2>. QED  BY <1>3, <1>5, <2>1
<1>. QED  BY <1>3, <1>4, <1>5

(* The answers on their way. *)
LEMMA AcksAdded ==
  ASSUME NEW f \in Nat, NEW d \in Nat, NEW t \in Nat, f <= d, d < t,
         NEW u \in Seq(Answers), Acks(u, f, d)
  PROVE  Acks(Append(u, Answer("ack", <<(t - 1) % NumMod>>, 0)), f, t)
<1> DEFINE y == Answer("ack", <<(t - 1) % NumMod>>, 0)
           v == Append(u, y)
           c == Len(u)
<1>1. c \in Nat /\ Len(v) = c + 1 /\ v[c + 1] = y /\ \A i \in 1..c : v[i] = u[i]
  <2>1. y \in Answers
    <3>1. (t - 1) % NumMod \in Numbers
      <4>1. NumMod \in Nat \ {0} /\ t - 1 \in Int
        BY WindowFacts
      <4>. QED  BY <4>1, DivMod DEF Numbers
    <3>. QED  BY <3>1, SingleNum, AnswerType
  <2> HIDE DEF y
  <2>. QED  BY <2>1, AppendProperties, LenProperties
<1>2. PICK g \in [1..c -> f..(d - 1)] :
        /\ \A i \in 1..c : u[i] = Answer("ack", <<g[i] % NumMod>>, 0)
        /\ \A i, j \in 1..c : i < j => g[i] < g[j]
  BY Zenon DEF Acks
<1> DEFINE h == [i \in 1..(c + 1) |-> IF i = c + 1 THEN t - 1 ELSE g[i]]
<1> HIDE DEF v, c
<1>3. h[c + 1] = t - 1 /\ \A i \in 1..c : h[i] = g[i] /\ g[i] \in f..(d - 1)
  BY <1>1, <1>2
<1>4. h \in [1..(c + 1) -> f..(t - 1)]
  <2>1. \A i \in 1..(c + 1) : i = c + 1 \/ i \in 1..c
    BY <1>1
  <2>2. \A i \in 1..(c + 1) : h[i] \in f..(t - 1)
    BY <1>3, <2>1
  <2>. QED  BY <2>2
<1> HIDE DEF h
<1>5. ASSUME NEW i \in 1..(c + 1) PROVE v[i] = Answer("ack", <<h[i] % NumMod>>, 0)
  <2>1. CASE i = c + 1
    BY <1>1, <1>3, <2>1 DEF y
  <2>2. CASE i # c + 1
    <3>1. i \in 1..c
      BY <1>1, <2>2
    <3>. QED  BY <1>1, <1>2, <1>3, <3>1
  <2>. QED  BY <2>1, <2>2
<1>6. ASSUME NEW i \in 1..(c + 1), NEW j \in 1..(c + 1), i < j PROVE h[i] < h[j]
  <2>1. i \in 1..c
    BY <1>1, <1>6
  <2>2. CASE j = c + 1
    BY <1>3, <2>1, <2>2
  <2>3. CASE j # c + 1
    <3>1. j \in 1..c
      BY <1>1, <2>3
    <3>. QED  BY <1>2, <1>3, <1>6, <2>1, <3>1
  <2>. QED  BY <2>2, <2>3
<1>7. v # <<>>
  BY <1>1
<1>8. Acks(v, f, t)
  BY <1>1, <1>3, <1>4, <1>5, <1>6, <1>7, Zenon DEF Acks
<1>. QED  BY <1>8 DEF v

LEMMA AcksRead ==
  ASSUME NEW f \in Nat, NEW d \in Nat, NEW u \in Seq(Answers), Acks(u, f, d), u # <<>>
  PROVE  \E x \in f..(d - 1) : /\ Head(u) = Answer("ack", <<x % NumMod>>, 0)
                               /\ Acks(Tail(u), x + 1, d)
<1> DEFINE c == Len(u)
           v == Tail(u)
<1>1. /\ c \in Nat /\ c >= 1 /\ Len(v) = c - 1 /\ Head(u) = u[1]
      /\ \A i \in 1..(c - 1) : v[i] = u[i + 1]
      /\ v \in Seq(Answers)
  BY LenProperties, EmptySeq, HeadTailProperties
<1>2. PICK g \in [1..c -> f..(d - 1)] :
        /\ \A i \in 1..c : u[i] = Answer("ack", <<g[i] % NumMod>>, 0)
        /\ \A i, j \in 1..c : i < j => g[i] < g[j]
        /\ g[c] = d - 1
  BY Zenon DEF Acks
<1> DEFINE x == g[1]
           h == [i \in 1..(c - 1) |-> g[i + 1]]
<1> HIDE DEF v, c
<1>3. x \in f..(d - 1) /\ Head(u) = Answer("ack", <<x % NumMod>>, 0)
  <2>1. 1 \in 1..c
    BY <1>1
  <2>. QED  BY <1>1, <1>2, <2>1
<1>4. \A i \in 1..(c - 1) : h[i] \in (x + 1)..(d - 1)
  <2> SUFFICES ASSUME NEW i \in 1..(c - 1) PROVE h[i] \in (x + 1)..(d - 1)
    OBVIOUS
  <2>1. 1 \in 1..c /\ i + 1 \in 1..c /\ 1 < i + 1
    BY <1>1
  <2>2. g[1] < g[i + 1] /\ g[i + 1] \in f..(d - 1) /\ h[i] = g[i + 1]
    BY <1>2, <2>1
  <2>. QED  BY <1>3, <2>2
<1>5. \A i \in 1..(c - 1) : v[i] = Answer("ack", <<h[i] % NumMod>>, 0)
  <2> SUFFICES ASSUME NEW i \in 1..(c - 1) PROVE v[i] = Answer("ack", <<h[i] % NumMod>>, 0)
    OBVIOUS
  <2>1. i + 1 \in 1..c /\ h[i] = g[i + 1]
    BY <1>1
  <2>. QED  BY <1>1, <1>2, <2>1
<1>6. ASSUME NEW i \in 1..(c - 1), NEW j \in 1..(c - 1), i < j PROVE h[i] < h[j]
  <2>1. i + 1 \in 1..c /\ j + 1 \in 1..c /\ i + 1 < j + 1 /\ h[i] = g[i + 1] /\ h[j] = g[j + 1]
    BY <1>1, <1>6
  <2>. QED  BY <1>2, <2>1
<1>7. v = <<>> => x + 1 = d
  <2> SUFFICES ASSUME v = <<>> PROVE x + 1 = d
    OBVIOUS
  <2>1. c = 1
    BY <1>1
  <2>. QED  BY <1>2, <2>1
<1>8. v # <<>> => h[Len(v)] = d - 1
  <2> SUFFICES ASSUME v # <<>> PROVE h[Len(v)] = d - 1
    OBVIOUS
  <2>1. c - 1 \in 1..(c - 1) /\ (c - 1) + 1 = c
    BY <1>1, EmptySeq
  <2>. QED  BY <1>1, <1>2, <2>1
<1>9. h \in [1..(c - 1) -> (x + 1)..(d - 1)]
  BY <1>4
<1> HIDE DEF h
<1>10. Acks(v, x + 1, d)
  BY <1>1, <1>5, <1>6, <1>7, <1>8, <1>9, Zenon DEF Acks
<1> HIDE DEF x
<1>. QED  BY <1>3, <1>10, Zenon DEF v

LEMMA AcksEmpty ==
  ASSUME NEW d
  PROVE  Acks(<<>>, d, d)
<1> DEFINE g == [i \in 1..0 |-> 0]
<1>1. g \in [1..0 -> d..(d - 1)] /\ Len(<<>>) = 0 /\ \A i \in 1..0 : FALSE
  OBVIOUS
<1> HIDE DEF g
<1>. QED  BY <1>1 DEF Acks

LEMMA AcksAll ==
  ASSUME NEW d \in Nat, NEW u \in Seq(Answers), Acks(u, d, d)
  PROVE  u = <<>>
<1> SUFFICES ASSUME u # <<>> PROVE FALSE
  OBVIOUS
<1>1. PICK x \in d..(d - 1) : TRUE
  BY AcksRead
<1>. QED  BY <1>1

LEMMA AcksOnly ==
  ASSUME NEW f, NEW d, NEW u \in Seq(Answers), Acks(u, f, d)
  PROVE  /\ \A i \in 1..Len(u) : u[i].type = "ack" /\ u[i].to = 0
         /\ \A w : Pending(w, u) = w
<1>1. \A i \in 1..Len(u) : u[i].type = "ack" /\ u[i].to = 0
  <2>1. PICK g \in [1..Len(u) -> f..(d - 1)] :
          \A i \in 1..Len(u) : u[i] = Answer("ack", <<g[i] % NumMod>>, 0)
    BY Zenon DEF Acks
  <2>2. \A n : Answer("ack", n, 0).type = "ack" /\ Answer("ack", n, 0).to = 0
    BY DEF Answer
  <2>3. ASSUME NEW i \in 1..Len(u) PROVE u[i].type = "ack" /\ u[i].to = 0
    <3> DEFINE n == <<g[i] % NumMod>>
    <3>1. u[i] = Answer("ack", n, 0)
      BY <2>1
    <3> HIDE DEF n
    <3>. QED  BY <2>2, <3>1
  <2>. QED  BY <2>3
<1>2. u # <<>> => u[1].type = "ack"
  <2>1. u # <<>> => 1 \in 1..Len(u)
    BY EmptySeq, LenProperties
  <2>. QED  BY <1>1, <2>1
<1>3. "ack" # "request"
  OBVIOUS
<1>. QED  BY <1>1, <1>2, <1>3 DEF Pending

-----------------------------------------------------------------------------
(* A reliable tunnel delivers everything in order.                           *)

Done == Len(out)

CommonRules ==
  /\ sock = 0 /\ from = 0 /\ again = None
  /\ First <= Done /\ Done <= sent
  /\ \A i \in 1..Done : out[i] = i - 1
  /\ Ahead(buf, Done, sent)

OpenRules ==
  /\ waiting = Pos(Done)
  /\ OnLink(down, buf, Done, sent)
  /\ Acks(up, First, Done) \/ OneRequest(up, First, Done, sent)
  /\ Wanted(Pending(asked, up), down, buf, First, Done, sent)

ClosedRules ==
  /\ cache = <<>> /\ asked = <<>> /\ Done = sent
  /\ \A i \in 1..Len(down) : down[i].data = End

InOrder ==
  Reliable => /\ CommonRules
              /\ phase = "closed" => ClosedRules
              /\ phase # "closed" => OpenRules

Known == Typed /\ Cached /\ InOrder /\ Reliable

LEMMA KnownTypes ==
  ASSUME Known
  PROVE  /\ cache \in Seq(Packets) /\ Len(cache) \in Nat /\ asked \in Seq(Numbers)
         /\ out \in Seq(Nat) /\ down \in Seq(Packets) /\ up \in Seq(Answers)
         /\ buf \in [Positions -> Nat \union {None}] /\ Done \in Nat
         /\ num = sent % NumMod /\ env.heartbeat /\ NumMod % Window = 0
BY LenProperties DEF Known, Typed, SenderType, ReceiverType, LinkType, Cached, Reliable, Done

LEMMA KnownSizes ==
  ASSUME Known
  PROVE  Sizes(First, Done, sent) /\ First = sent - Len(cache)
<1>1. Len(cache) <= sent /\ Len(cache) <= Window /\ sent \in Nat /\ Window \in Nat
  BY EnvFacts, WindowFacts DEF Known, Typed, SenderType, Cached, Reliable
<1>2. First <= Done /\ Done <= sent
  BY DEF Known, InOrder, CommonRules
<1>. QED  BY <1>1, <1>2, KnownTypes DEF Sizes, First

(* The packet kept for one of the next packets is this packet. *)
LEMMA AheadAt ==
  ASSUME NEW f, NEW d, NEW n, Sizes(f, d, n), NEW b, Ahead(b, d, n),
         NEW x \in Int, d <= x, x < d + Window, b[Pos(x)] # None
  PROVE  b[Pos(x)] = x /\ x \in (d + 1)..(n - 1)
<1> DEFINE e == b[Pos(x)]
<1>1. Pos(x) \in Positions
  BY PosFacts
<1>2. e \in (d + 1)..(n - 1) /\ Pos(e) = Pos(x)
  BY <1>1 DEF Ahead
<1> HIDE DEF e
<1>3. e \in Int /\ e - x < Window /\ x - e < Window
  BY <1>2 DEF Sizes
<1>4. e = x
  BY <1>2, <1>3, SamePos
<1>. QED  BY <1>2, <1>4 DEF e

LEMMA WantedNothing ==
  ASSUME NEW q, NEW b, NEW f, NEW d, NEW n
  PROVE  Wanted(<<>>, q, b, f, d, n)
<1>1. \A k \in 1..Len(<<>>) : FALSE
  OBVIOUS
<1>. QED  BY <1>1 DEF Wanted

(* A number names the packet of the cache at its position. *)
LEMMA CachedAt ==
  ASSUME Known, NEW i \in 1..Len(cache)
  PROVE  /\ cache[i] = Copy(First + i - 1, 0) /\ First + i - 1 \in First..(sent - 1)
         /\ First + i - 1 \in Nat /\ Pos(cache[i].num) = Pos(First + i - 1)
         /\ cache[i].data = First + i - 1
<1>1. First + i - 1 \in First..(sent - 1) /\ First + i - 1 \in Nat
  <2> DEFINE f == First
             c == Len(cache)
  <2>1. f \in Nat /\ sent \in Nat /\ c \in Nat /\ f = sent - c /\ i \in 1..c
    BY KnownSizes, KnownTypes DEF Sizes
  <2> HIDE DEF f, c
  <2>2. f + i - 1 \in f..(sent - 1) /\ f + i - 1 \in Nat
    BY <2>1
  <2>. QED  BY <2>2 DEF f
<1>2. cache[i] = Copy(First + i - 1, 0)
  BY DEF Known, Cached, InOrder, CommonRules, Reliable
<1>3. cache[i].num = (First + i - 1) % NumMod /\ cache[i].data = First + i - 1
  BY <1>2 DEF Copy
<1>. QED  BY <1>1, <1>2, <1>3, PosNumber, KnownTypes

LEMMA MatchingOne ==
  ASSUME Known, NEW h, NEW x \in First..(sent - 1), Pos(h) = Pos(x)
  PROVE  Matching(h) = {x - First + 1} /\ x - First + 1 \in 1..Len(cache)
<1> DEFINE j == x - First + 1
<1>1. j \in 1..Len(cache) /\ First + j - 1 = x /\ x \in Int
  <2> DEFINE f == First
             c == Len(cache)
  <2>1. f \in Nat /\ sent \in Nat /\ c \in Nat /\ f = sent - c /\ x \in f..(sent - 1)
    BY KnownSizes, KnownTypes DEF Sizes
  <2> HIDE DEF f, c
  <2>2. x - f + 1 \in 1..c /\ f + (x - f + 1) - 1 = x /\ x \in Int
    BY <2>1
  <2>. QED  BY <2>2 DEF f, c
<1>2. ASSUME NEW i \in 1..Len(cache), Pos(cache[i].num) = Pos(h) PROVE i = j
  <2>1. Pos(First + i - 1) = Pos(x) /\ First + i - 1 \in First..(sent - 1)
    BY <1>2, CachedAt
  <2> DEFINE y == First + i - 1
  <2>2. y \in Int /\ y - x < Window /\ x - y < Window
    BY SMTT(30), <2>1, KnownSizes DEF Sizes
  <2>3. Pos(y) = Pos(x)
    BY <2>1
  <2> HIDE DEF y
  <2>4. y = x
    BY <1>1, <2>2, <2>3, SamePos
  <2>. QED  BY SMTT(30), <2>4, KnownSizes DEF y, Sizes
<1>3. Pos(cache[j].num) = Pos(h)
  <2>1. Pos(cache[j].num) = Pos(First + j - 1)
    <3> HIDE DEF j
    <3>. QED  BY <1>1, CachedAt
  <2>. QED  BY <1>1, <2>1
<1> HIDE DEF j
<1>4. \A i : i \in Matching(h) <=> i = j
  BY <1>1, <1>2, <1>3 DEF Matching
<1>. QED  BY <1>1, <1>4 DEF j

LEMMA OpenKnown ==
  ASSUME Known, phase # "closed"
  PROVE  OpenRules /\ CommonRules
BY DEF Known, InOrder

LEMMA SendOrder == Known /\ Send => InOrder'
<1> SUFFICES ASSUME Known, Send PROVE InOrder'
  OBVIOUS
<1> DEFINE f == First
           d == Done
           n == sent
<1>1. /\ phase = "open" /\ phase' = phase /\ sent' = n + 1 /\ UNCHANGED <<sock, asked, up, rvars>>
      /\ down' = Append(down, Packet(n)) /\ cache' = Append(cache, Packet(n))
      /\ Len(cache) # Window /\ ~Requested
  BY KnownTypes DEF Send, CacheFull, Known, Reliable
<1>2. OpenRules /\ CommonRules
  BY <1>1, OpenKnown
<1>3. Sizes(f, d, n) /\ n < f + Window /\ n \in Nat /\ d \in Nat
  BY <1>1, KnownSizes, KnownTypes DEF Sizes, Known, Typed, SenderType
<1>4. Packet(n) = Copy(n, 0) /\ Packet(n) \in Packets
  <2>1. num \in Numbers /\ sock \in Nat /\ n \in Nat
    BY <1>3 DEF Known, Typed, SenderType
  <2>2. sock = 0 /\ num = n % NumMod
    BY <1>2, KnownTypes DEF CommonRules
  <2>. QED  BY <2>1, <2>2, PacketType DEF Packet, Copy
<1>5. First' = f
  <2>1. Len(Append(cache, Packet(n))) = Len(cache) + 1
    BY <1>4, KnownTypes, AppendProperties
  <2>. QED  BY <1>1, <1>3, <2>1, KnownTypes DEF First
<1>6. asked = <<>> /\ \A i \in 1..Len(up) : up[i].type # "request"
  BY <1>1 DEF Requested
<1>7. Acks(up, f, d)
  <2>1. ~OneRequest(up, f, d, n)
    BY <1>6 DEF OneRequest
  <2>. QED  BY <1>2, <2>1 DEF OpenRules
<1>8. Pending(asked, up) = <<>>
  BY <1>6, <1>7, AcksOnly, KnownTypes
<1>9. buf[Pos(n)] = None
  <2> SUFFICES ASSUME buf[Pos(n)] # None PROVE FALSE
    OBVIOUS
  <2>1. Ahead(buf, d, n) /\ n \in Int /\ d <= n /\ n < d + Window
    BY <1>2, <1>3 DEF CommonRules, Sizes
  <2>2. n \in (d + 1)..(n - 1)
    BY <1>3, <2>1, AheadAt
  <2>. QED  BY <1>3, <2>2
<1>10. OnLink(down, buf, d, n)
  BY <1>2 DEF OpenRules
<1>11. \A i \in 1..Len(down) : /\ down[i].data \in d..(n - 1) /\ buf[Pos(down[i].data)] = None
                               /\ down[i].data \in d..((n + 1) - 1)
                               /\ down[i].data # n /\ down[i].data # n + Window - 1
  <2>1. \A i \in 1..Len(down) : down[i].data \in d..(n - 1) /\ buf[Pos(down[i].data)] = None
    BY <1>10, Zenon DEF OnLink
  <2>2. \A x \in d..(n - 1) : x \in d..((n + 1) - 1) /\ x # n /\ x # n + Window - 1
    BY <1>3, WindowFacts
  <2>. QED  BY <2>1, <2>2
<1>12. OnLink(down, buf, d, n + 1)
  BY <1>10, <1>11, LinkKept, Zenon
<1>13. OnLink(Append(down, Packet(n)), buf, d, n + 1)
  <2>1. n \in d..((n + 1) - 1) /\ n + 1 \in Nat
    BY <1>3 DEF Sizes
  <2> DEFINE m == n + 1
             y == Packet(n)
  <2> HIDE DEF m, y
  <2>2. n \in d..(m - 1) /\ m \in Nat /\ y = Copy(n, 0) /\ OnLink(down, buf, d, m)
    BY <1>4, <1>12, <2>1 DEF m, y
  <2>3. OnLink(Append(down, y), buf, d, m)
    BY <1>3, <1>9, <1>11, <2>2, KnownTypes, LinkAppended
  <2>. QED  BY <2>3 DEF m, y
<1>14. Ahead(buf, d, n + 1)
  <2>1. Ahead(buf, d, n)
    BY <1>2 DEF CommonRules
  <2>2. \A x \in (d + 1)..(n - 1) : x \in (d + 1)..((n + 1) - 1)
    BY <1>3
  <2>. QED  BY <2>1, <2>2, Zenon DEF Ahead
<1>15. Done' = d /\ waiting' = waiting /\ buf' = buf /\ from' = from /\ again' = again /\ out' = out
  BY <1>1 DEF rvars, Done
<1>16. CommonRules'
  <2>1. d <= n + 1
    BY <1>3 DEF Sizes
  <2>. QED  BY <1>1, <1>2, <1>5, <1>14, <1>15, <2>1 DEF CommonRules
<1>17. Wanted(Pending(asked, up), down', buf, f, d, n + 1)
  BY <1>8, WantedNothing
<1> HIDE DEF f, d, n
<1>18. OpenRules'
  BY <1>1, <1>2, <1>5, <1>7, <1>13, <1>15, <1>17 DEF OpenRules, d, f, n
<1>. QED  BY <1>1, <1>16, <1>18 DEF InOrder

LEMMA FinishOrder == Known /\ Finish => InOrder'
<1> SUFFICES ASSUME Known, Finish PROVE InOrder'
  OBVIOUS
<1>1. /\ phase = "open" /\ phase' = "closing"
      /\ UNCHANGED <<sent, sock, cache, asked, rvars, down, up>>
  BY DEF Finish
<1>2. OpenRules /\ CommonRules
  BY <1>1, OpenKnown
<1>3. OpenRules' /\ CommonRules'
  BY <1>1, <1>2 DEF OpenRules, CommonRules, rvars, First, Done
<1>. QED  BY <1>1, <1>3 DEF InOrder

LEMMA CloseOrder == Known /\ Close => InOrder'
<1> SUFFICES ASSUME Known, Close PROVE InOrder'
  OBVIOUS
<1>1. /\ phase = "closing" /\ phase' = "closed" /\ cache = <<>> /\ cache' = <<>> /\ asked' = <<>>
      /\ down' = Append(down, Packet(End)) /\ UNCHANGED <<sent, sock, rvars>>
  BY DEF Close, Known, Reliable, AllAcked
<1>2. OpenRules /\ CommonRules
  BY <1>1, OpenKnown
<1>3. /\ First = sent /\ Done = sent /\ sent \in Nat
  BY <1>1, KnownSizes, KnownTypes DEF Sizes
<1>4. Len(down) = 0
  <2>1. \A i \in 1..Len(down) : down[i].data \in Done..(sent - 1)
    BY <1>2, Zenon DEF OpenRules, OnLink
  <2>2. \A i \in 1..Len(down) : FALSE
    BY <1>3, <2>1
  <2>3. Len(down) \in Nat
    BY KnownTypes, LenProperties
  <2>. QED  BY <2>2, <2>3
<1>5. Packet(End) \in Packets
  BY PacketType DEF Known, Typed, SenderType
<1>6. ASSUME NEW i \in 1..Len(down') PROVE down'[i].data = End
  <2>1. Len(down') = 1 /\ down'[1] = Packet(End)
    BY <1>1, <1>4, <1>5, KnownTypes, AppendProperties
  <2>2. Packet(End).data = End
    BY DEF Packet
  <2>. QED  BY <1>6, <2>1, <2>2
<1>7. First' = First /\ Done' = Done /\ sent' = sent
  BY <1>1 DEF First, Done, rvars
<1>8. CommonRules'
  BY <1>1, <1>2, <1>7 DEF CommonRules, rvars
<1>9. ClosedRules'
  BY <1>1, <1>3, <1>6, <1>7 DEF ClosedRules
<1>. QED  BY <1>1, <1>8, <1>9 DEF InOrder

LEMMA AckOrder == Known /\ HeartAck => InOrder'
<1> SUFFICES ASSUME Known, HeartAck PROVE InOrder'
  OBVIOUS
<1>1. /\ up # <<>> /\ asked = <<>> /\ up' = Tail(up) /\ phase # "closed"
      /\ UNCHANGED <<sent, sock, phase, rvars, down, asked>>
      /\ Head(up).type = "ack" /\ cache' = Unacked(Head(Head(up).nums))
  BY DEF HeartAck, Answered, Ours
<1>2. OpenRules /\ CommonRules
  BY <1>1, OpenKnown
<1>3. Sizes(First, Done, sent) /\ First = sent - Len(cache) /\ up \in Seq(Answers)
  BY KnownSizes, KnownTypes
<1>4. Acks(up, First, Done)
  <2>1. Head(up) = up[1]
    BY <1>1, <1>3, HeadTailProperties
  <2>2. "ack" # "request"
    OBVIOUS
  <2>3. ~OneRequest(up, First, Done, sent)
    BY <1>1, <2>1, <2>2 DEF OneRequest
  <2>. QED  BY <1>2, <2>3 DEF OpenRules
<1>5. First \in Nat /\ Done \in Nat
  BY <1>3 DEF Sizes
<1>6. PICK x \in First..(Done - 1) : /\ Head(up) = Answer("ack", <<x % NumMod>>, 0)
                                     /\ Acks(Tail(up), x + 1, Done)
  BY <1>1, <1>3, <1>4, <1>5, AcksRead
<1> DEFINE h == x % NumMod
<1>7. x \in First..(sent - 1) /\ x \in Nat
  BY <1>3, <1>6 DEF Sizes
<1>8. Pos(h) = Pos(x)
  BY <1>7, PosNumber, KnownTypes
<1>9. Head(Head(up).nums) = h
  <2>1. Answer("ack", <<h>>, 0).nums = <<h>>
    BY DEF Answer
  <2>2. Head(<<h>>) = h
    OBVIOUS
  <2>. QED  BY <1>6, <2>1, <2>2
<1> HIDE DEF h
<1>10. Matching(h) = {x - First + 1} /\ x - First + 1 \in 1..Len(cache)
  BY <1>7, <1>8, MatchingOne
<1>11. PICK k \in 0..Len(cache) : /\ Len(Unacked(h)) = Len(cache) - k
                                  /\ k # 0 => k \in Matching(h)
                                  /\ \A j \in Matching(h) : j <= k
  BY KnownTypes, UnackedRight
<1>12. k = x - First + 1
  BY <1>10, <1>11
<1>13. First' = x + 1
  <2>1. Len(cache') = Len(cache) - (x - First + 1)
    BY <1>1, <1>9, <1>11, <1>12
  <2> DEFINE f == First
             c == Len(cache)
             b == Len(cache')
  <2>2. f \in Nat /\ sent \in Nat /\ c \in Nat /\ f = sent - c /\ b = c - (x - f + 1)
    BY <1>3, <2>1, KnownTypes DEF Sizes
  <2>3. First' = sent - b
    BY <1>1 DEF First
  <2> HIDE DEF f, c, b
  <2>. QED  BY <1>7, <2>2, <2>3
<1>14. Done' = Done /\ sent' = sent
  BY <1>1 DEF Done, rvars
<1>15. CommonRules'
  <2>1. x + 1 <= Done
    BY <1>5, <1>6
  <2>. QED  BY <1>1, <1>2, <1>13, <1>14, <2>1 DEF CommonRules, rvars
<1>16. Tail(up) \in Seq(Answers)
  BY <1>1, <1>3, HeadTailProperties
<1>17. Pending(asked, Tail(up)) = <<>>
  BY <1>1, <1>6, <1>16, AcksOnly
<1>18. Wanted(Pending(asked, Tail(up)), down, buf, x + 1, Done, sent)
  BY <1>17, WantedNothing
<1>19. OpenRules'
  BY <1>1, <1>2, <1>6, <1>13, <1>14, <1>18 DEF OpenRules, rvars
<1>. QED  BY <1>1, <1>15, <1>19 DEF InOrder

LEMMA RequestOrder == Known /\ HeartRequest => InOrder'
<1> SUFFICES ASSUME Known, HeartRequest PROVE InOrder'
  OBVIOUS
<1>1. /\ up # <<>> /\ asked = <<>> /\ up' = Tail(up) /\ phase # "closed"
      /\ UNCHANGED <<sent, sock, phase, rvars, down, cache>>
      /\ Head(up).type = "request" /\ asked' = Head(up).nums
  BY DEF HeartRequest, Answered, Ours
<1>2. OpenRules /\ CommonRules
  BY <1>1, OpenKnown
<1>3. up \in Seq(Answers) /\ Head(up) = up[1] /\ Len(up) \in Nat /\ Len(up) >= 1 /\ up[1] \in Answers
      /\ Len(Tail(up)) = Len(up) - 1 /\ Tail(up) \in Seq(Answers)
  BY <1>1, KnownTypes, HeadTailProperties, LenProperties, EmptySeq
<1>4. OneRequest(up, First, Done, sent)
  <2>1. Acks(up, First, Done) => up[1].type = "ack"
    BY <1>3, AcksOnly
  <2>2. "ack" # "request"
    OBVIOUS
  <2>. QED  BY <1>1, <1>2, <1>3, <2>1, <2>2 DEF OpenRules
<1>5. Tail(up) = <<>> /\ First = Done
  <2>1. Len(up) = 1 /\ First = Done
    BY <1>4 DEF OneRequest
  <2>2. Len(Tail(up)) = 0
    BY <1>3, <2>1
  <2>. QED  BY <1>3, <2>1, <2>2, EmptySeq
<1>6. Pending(asked, up) = up[1].nums
  <2>1. up[1].nums \in Seq(Numbers)
    BY <1>3 DEF Answers
  <2>2. <<>> \o up[1].nums = up[1].nums
    BY <2>1, ConcatEmptySeq
  <2>. QED  BY <1>1, <1>3, <2>2 DEF Pending
<1>7. Pending(asked', up') = up[1].nums
  BY <1>1, <1>3, <1>5 DEF Pending
<1>8. First' = First /\ Done' = Done /\ sent' = sent
  BY <1>1 DEF First, Done, rvars
<1>9. CommonRules'
  BY <1>1, <1>2, <1>8 DEF CommonRules, rvars
<1>10. Acks(up', First, Done)
  BY <1>1, <1>5, AcksEmpty
<1>11. OpenRules'
  BY <1>1, <1>2, <1>6, <1>7, <1>8, <1>10 DEF OpenRules, rvars
<1>. QED  BY <1>1, <1>9, <1>11 DEF InOrder

LEMMA NobodyOrder == Known /\ NobodyListens => InOrder'
<1> SUFFICES ASSUME Known, NobodyListens PROVE InOrder'
  OBVIOUS
<1>1. /\ up # <<>> /\ (Head(up).to # sock \/ phase = "closed")
      /\ UNCHANGED <<sent, sock, phase, rvars, down, cache, asked>>
  BY DEF NobodyListens, Answered, Ours
<1>2. phase = "closed"
  <2> SUFFICES ASSUME phase # "closed" PROVE FALSE
    OBVIOUS
  <2>1. OpenRules /\ CommonRules
    BY OpenKnown
  <2>2. up \in Seq(Answers) /\ up # <<>> /\ Head(up) = up[1] /\ 1 \in 1..Len(up)
    BY KnownTypes, HeadTailProperties, LenProperties, EmptySeq DEF NobodyListens, Answered
  <2>3. up[1].to = 0
    BY <2>1, <2>2, AcksOnly DEF OpenRules, OneRequest
  <2>. QED  BY <1>1, <2>1, <2>2, <2>3 DEF CommonRules
<1>3. CommonRules /\ ClosedRules
  BY <1>2 DEF Known, InOrder
<1>4. CommonRules' /\ ClosedRules'
  BY <1>1, <1>3 DEF CommonRules, ClosedRules, rvars, First, Done
<1>. QED  BY <1>1, <1>2, <1>4 DEF InOrder

LEMMA FirstOfConcat ==
  ASSUME NEW S, NEW a \in Seq(S), NEW b \in Seq(S), a # <<>>
  PROVE  /\ a \o b \in Seq(S) /\ a \o b # <<>>
         /\ Head(a \o b) = Head(a) /\ Tail(a \o b) = Tail(a) \o b
<1> DEFINE c == a \o b
           t == Tail(a)
           e == t \o b
           s == Tail(c)
           la == Len(a)
           lb == Len(b)
<1>1. /\ la \in Nat /\ lb \in Nat /\ la >= 1
      /\ t \in Seq(S) /\ Len(t) = la - 1 /\ Head(a) = a[1] /\ \A i \in 1..(la - 1) : t[i] = a[i + 1]
  BY LenProperties, EmptySeq, HeadTailProperties
<1>2. /\ c \in Seq(S) /\ Len(c) = la + lb
      /\ \A i \in 1..(la + lb) : c[i] = IF i <= la THEN a[i] ELSE b[i - la]
  BY ConcatProperties
<1> HIDE DEF t, c
<1>3. /\ e \in Seq(S) /\ Len(e) = Len(t) + lb
      /\ \A i \in 1..(Len(t) + lb) : e[i] = IF i <= Len(t) THEN t[i] ELSE b[i - Len(t)]
  BY <1>1, ConcatProperties
<1> HIDE DEF e, la, lb
<1>4. c # <<>>
  BY <1>1, <1>2, EmptySeq
<1>5. /\ s \in Seq(S) /\ Len(s) = Len(c) - 1 /\ Head(c) = c[1]
      /\ \A i \in 1..(Len(c) - 1) : s[i] = c[i + 1]
  BY <1>2, <1>4, HeadTailProperties
<1> HIDE DEF s
<1>6. Head(c) = Head(a)
  <2>1. 1 \in 1..(la + lb)
    BY <1>1
  <2>. QED  BY <1>1, <1>2, <1>5, <2>1
<1>7. Len(s) = Len(e)
  BY <1>1, <1>2, <1>3, <1>5
<1>8. ASSUME NEW i \in 1..Len(s) PROVE s[i] = e[i]
  <2>1. i \in 1..(la + lb - 1) /\ i + 1 \in 1..(la + lb)
    BY <1>1, <1>2, <1>5
  <2>2. s[i] = c[i + 1]
    BY <1>1, <1>2, <1>5, <2>1
  <2>3. CASE i <= la - 1
    BY SMTT(30), <1>1, <1>2, <1>3, <2>1, <2>2, <2>3
  <2>4. CASE i > la - 1
    <3>1. (i + 1) - la = i - (la - 1)
      BY <1>1, <2>1
    <3>2. c[i + 1] = b[(i + 1) - la]
      BY <1>1, <1>2, <2>1, <2>4
    <3>3. e[i] = b[i - (la - 1)]
      BY <1>1, <1>3, <2>1, <2>4
    <3>. QED  BY <2>2, <3>1, <3>2, <3>3
  <2>. QED  BY <1>1, <2>1, <2>3, <2>4
<1>9. s = e
  BY <1>3, <1>5, <1>7, <1>8, SeqEqual
<1>. QED  BY <1>2, <1>4, <1>6, <1>9 DEF c, s, e, t

(* The first number asked for brings a packet onto the link. *)
LEMMA WantedSent ==
  ASSUME down \in Seq(Packets), First \in Nat, sent \in Nat,
         NEW w \in Seq(Numbers), w # <<>>, Wanted(w, down, buf, First, Done, sent),
         NEW x \in First..(sent - 1), Pos(Head(w)) = Pos(x), NEW y \in Packets, y.data = x
  PROVE  /\ Wanted(Tail(w), Append(down, y), buf, First, Done, sent)
         /\ Done <= x /\ buf[Pos(x)] = None
         /\ \A i \in 1..Len(down) : down[i].data # x /\ down[i].data # x + Window - 1
<1> DEFINE v == Tail(w)
           c == Len(w)
           r == Append(down, y)
           s == Len(down)
<1>1. /\ c \in Nat /\ c >= 1 /\ Len(v) = c - 1 /\ \A k \in 1..(c - 1) : v[k] = w[k + 1]
      /\ Head(w) = w[1]
  BY LenProperties, EmptySeq, HeadTailProperties
<1>2. s \in Nat /\ Len(r) = s + 1 /\ r[s + 1] = y /\ \A i \in 1..s : r[i] = down[i]
  BY AppendProperties, LenProperties
<1>3. Wanted(v, down, buf, First, Done, sent)
  BY WantedNext
<1>4. 1 \in 1..c /\ Pos(w[1]) = Pos(x)
  BY <1>1
<1>5. /\ Done <= x /\ buf[Pos(x)] = None
      /\ \A i \in 1..s : down[i].data # x /\ down[i].data # x + Window - 1
      /\ \A l \in 1..c : l # 1 => Pos(w[l]) # Pos(x)
  BY <1>4, Zenon DEF Wanted, c, s
<1>6. ASSUME NEW k \in 1..Len(v), NEW e \in First..(sent - 1), Pos(v[k]) = Pos(e)
      PROVE  x # e /\ x # e + Window - 1
  <2>1. k + 1 \in 1..c /\ k + 1 # 1 /\ v[k] = w[k + 1] /\ k \in Nat /\ (k + 1) - 1 = k /\ 1 \in 1..k
    BY <1>1
  <2>2. x # e
    BY <1>5, <1>6, <2>1
  <2>3. e + Window - 1 < sent => \A l \in 1..k : Pos(w[l]) # Pos(e + Window - 1)
    BY <1>6, <2>1, ZenonT(60) DEF Wanted, c
  <2>4. x # e + Window - 1
    BY <1>4, <2>1, <2>3
  <2>. QED  BY <2>2, <2>4
<1> HIDE DEF v, r, s, c
<1>7. Wanted(v, r, buf, First, Done, sent)
  <2> SUFFICES ASSUME NEW k \in 1..Len(v), NEW e \in First..(sent - 1), Pos(v[k]) = Pos(e)
               PROVE  /\ Done <= e /\ buf[Pos(e)] = None
                      /\ \A i \in 1..Len(r) : r[i].data # e /\ r[i].data # e + Window - 1
                      /\ \A l \in 1..Len(v) : l # k => Pos(v[l]) # Pos(e)
                      /\ e + Window - 1 < sent =>
                           \A l \in 1..(k - 1) : Pos(v[l]) # Pos(e + Window - 1)
    BY Zenon DEF Wanted
  <2>1. /\ Done <= e /\ buf[Pos(e)] = None
        /\ \A i \in 1..s : down[i].data # e /\ down[i].data # e + Window - 1
        /\ \A l \in 1..Len(v) : l # k => Pos(v[l]) # Pos(e)
        /\ e + Window - 1 < sent => \A l \in 1..(k - 1) : Pos(v[l]) # Pos(e + Window - 1)
    BY <1>3, Zenon DEF Wanted, s
  <2>2. ASSUME NEW i \in 1..Len(r) PROVE r[i].data # e /\ r[i].data # e + Window - 1
    <3>1. CASE i = s + 1
      BY <1>2, <1>6, <3>1
    <3>2. CASE i # s + 1
      <4>1. i \in 1..s /\ r[i] = down[i]
        BY <1>2, <3>2
      <4>. QED  BY <2>1, <4>1
    <3>. QED  BY <3>1, <3>2
  <2>. QED  BY <2>1, <2>2
<1>. QED  BY <1>5, <1>7 DEF v, r, s

LEMMA ResendOrder == Known /\ Resend => InOrder'
<1> SUFFICES ASSUME Known, Resend PROVE InOrder'
  OBVIOUS
<1> DEFINE w == Pending(asked, up)
           h == Head(asked)
<1>1. /\ asked # <<>> /\ asked' = Tail(asked)
      /\ down' = IF Matching(h) = {} THEN down ELSE Append(down, cache[Min(Matching(h))])
      /\ UNCHANGED <<sent, sock, phase, rvars, up, cache>>
  BY DEF Resend
<1>2. phase # "closed"
  BY <1>1 DEF Known, InOrder, ClosedRules
<1>3. OpenRules /\ CommonRules
  BY <1>2, OpenKnown
<1>4. /\ down \in Seq(Packets) /\ up \in Seq(Answers) /\ asked \in Seq(Numbers)
      /\ Sizes(First, Done, sent) /\ First \in Nat /\ Done \in Nat /\ sent \in Nat
  BY KnownTypes, KnownSizes DEF Sizes
<1>5. w \in Seq(Numbers) /\ w # <<>> /\ Head(w) = h /\ Tail(w) = Pending(Tail(asked), up)
  <2>1. CASE up # <<>> /\ up[1].type = "request"
    <3> DEFINE v == up[1].nums
    <3>1. up[1] \in Answers
      BY <1>4, <2>1, HeadTailProperties
    <3>2. v \in Seq(Numbers) /\ w = asked \o v /\ Pending(Tail(asked), up) = Tail(asked) \o v
      BY <2>1, <3>1 DEF Pending, Answers
    <3> HIDE DEF v
    <3>3. /\ asked \o v \in Seq(Numbers) /\ asked \o v # <<>>
          /\ Head(asked \o v) = Head(asked) /\ Tail(asked \o v) = Tail(asked) \o v
      BY <1>1, <1>4, <3>2, FirstOfConcat
    <3> HIDE DEF w
    <3>. QED  BY <3>2, <3>3
  <2>2. CASE ~(up # <<>> /\ up[1].type = "request")
    BY <1>1, <1>4, <2>2 DEF Pending
  <2>. QED  BY <2>1, <2>2
<1>6. Wanted(w, down, buf, First, Done, sent) /\ OnLink(down, buf, Done, sent)
  BY <1>3 DEF OpenRules
<1> HIDE DEF w
<1>7. OnLink(down', buf, Done, sent) /\ Wanted(Tail(w), down', buf, First, Done, sent)
  <2>1. CASE Matching(h) = {}
    <3>1. down' = down
      BY <1>1, <2>1
    <3>. QED  BY <1>4, <1>5, <1>6, <3>1, WantedNext
  <2>2. CASE Matching(h) # {}
    <3> DEFINE i == Min(Matching(h))
               x == First + i - 1
               y == cache[i]
    <3>1. i \in Matching(h)
      <4>1. Matching(h) \in SUBSET Nat
        BY DEF Matching
      <4>. QED  BY <2>2, <4>1, LeastIn
    <3>2. i \in 1..Len(cache) /\ Pos(cache[i].num) = Pos(h)
      BY <3>1 DEF Matching
    <3>3. y \in Packets
      BY <3>2, KnownTypes, ElementOfSeq
    <3>4. y = Copy(x, 0) /\ x \in First..(sent - 1) /\ Pos(h) = Pos(x) /\ y.data = x
      <4> HIDE DEF i
      <4>. QED  BY <3>2, CachedAt
    <3>5. down' = Append(down, y)
      BY <1>1, <2>2
    <3> HIDE DEF i, x, y
    <3>6. /\ Wanted(Tail(w), Append(down, y), buf, First, Done, sent)
          /\ Done <= x /\ buf[Pos(x)] = None
          /\ \A j \in 1..Len(down) : down[j].data # x /\ down[j].data # x + Window - 1
      <4>1. Pos(Head(w)) = Pos(x)
        BY <1>5, <3>4
      <4>. QED  BY <1>4, <1>5, <1>6, <3>3, <3>4, <4>1, WantedSent
    <3>7. x \in Done..(sent - 1)
      BY <1>4, <3>4, <3>6
    <3>8. OnLink(Append(down, y), buf, Done, sent)
      BY <1>4, <1>6, <3>4, <3>6, <3>7, LinkAppended
    <3>. QED  BY <3>5, <3>6, <3>8
  <2>. QED  BY <2>1, <2>2
<1>8. First' = First /\ Done' = Done /\ sent' = sent
  BY <1>1 DEF First, Done, rvars
<1>9. CommonRules'
  BY <1>1, <1>3, <1>8 DEF CommonRules, rvars
<1>10. OpenRules'
  BY <1>1, <1>3, <1>5, <1>7, <1>8 DEF OpenRules, rvars
<1>. QED  BY <1>1, <1>2, <1>9, <1>10 DEF InOrder

(* A packet taken from the link. *)
LEMMA Taken ==
  ASSUME Known, NEW i \in 1..Len(down), down[i].data # End
  PROVE  /\ phase # "closed" /\ OpenRules /\ CommonRules
         /\ down[i] \in Packets /\ down[i].src = 0 /\ down[i].num = down[i].data % NumMod
         /\ down[i].data \in Done..(sent - 1) /\ down[i].data \in Nat
         /\ Pos(down[i].num) = Pos(down[i].data)
         /\ OnLink(RemoveAt(down, i), buf, Done, sent)
         /\ \A j \in 1..Len(RemoveAt(down, i)) :
               \E l \in 1..Len(down) : l # i /\ RemoveAt(down, i)[j] = down[l]
         /\ \A l \in 1..Len(down) :
               /\ down[l].data \in Done..(sent - 1) /\ buf[Pos(down[l].data)] = None
               /\ l # i => down[l].data # down[i].data
<1>1. phase # "closed"
  BY DEF Known, InOrder, ClosedRules
<1>2. OpenRules /\ CommonRules
  BY <1>1, OpenKnown
<1>3. down \in Seq(Packets) /\ down[i] \in Packets
  BY KnownTypes, ElementOfSeq
<1>4. OnLink(down, buf, Done, sent)
  BY <1>2 DEF OpenRules
<1>5. /\ down[i].data \in Done..(sent - 1) /\ down[i] = Copy(down[i].data, 0)
      /\ \A l \in 1..Len(down) :
               /\ down[l].data \in Done..(sent - 1) /\ buf[Pos(down[l].data)] = None
               /\ l # i => down[l].data # down[i].data
  BY <1>4, Zenon DEF OnLink
<1>6. down[i].src = 0 /\ down[i].num = down[i].data % NumMod
  <2> DEFINE x == down[i].data
  <2>1. down[i] = Copy(x, 0)
    BY <1>5
  <2> HIDE DEF x
  <2>2. down[i].src = 0 /\ down[i].num = x % NumMod
    BY <2>1 DEF Copy
  <2>. QED  BY <2>2 DEF x
<1>7. down[i].data \in Nat
  BY <1>5, KnownSizes DEF Sizes
<1>8. Pos(down[i].num) = Pos(down[i].data)
  BY <1>6, <1>7, KnownTypes, PosNumber
<1>9. OnLink(RemoveAt(down, i), buf, Done, sent)
  BY <1>3, <1>4, LinkRemoved
<1>10. \A j \in 1..Len(RemoveAt(down, i)) :
          \E l \in 1..Len(down) : l # i /\ RemoveAt(down, i)[j] = down[l]
  BY <1>3, LinkRemoved
<1>. QED  BY <1>1, <1>2, <1>3, <1>5, <1>6, <1>7, <1>8, <1>9, <1>10

(* While the receiver's request is on its way, neither the packet it waits   *)
(* for nor one that would end the window is.                                 *)
LEMMA NoRequest ==
  ASSUME Known, OpenRules, NEW i \in 1..Len(down),
         down[i].data = Done \/ down[i].data = Done + Window - 1
  PROVE  Acks(up, First, Done)
<1> SUFFICES ASSUME OneRequest(up, First, Done, sent) PROVE FALSE
  BY DEF OpenRules
<1> DEFINE v == up[1].nums
           c == Len(asked)
           w == asked \o v
           d == Done
           n == sent
<1>1. /\ Len(up) = 1 /\ up[1].type = "request" /\ First = d /\ d < n
      /\ \E k \in 1..Len(v) : Pos(v[k]) = Pos(d)
  BY DEF OneRequest
<1>2. up \in Seq(Answers) /\ asked \in Seq(Numbers) /\ up # <<>> /\ up[1] \in Answers
  <2>1. up \in Seq(Answers) /\ asked \in Seq(Numbers) /\ Len(up) = 1
    BY <1>1, KnownTypes
  <2>2. 1 \in 1..Len(up)
    BY <2>1
  <2>3. up # <<>>
    <3>1. Len(<<>>) # 1
      OBVIOUS
    <3>. QED  BY <2>1, <3>1, Zenon
  <2>. QED  BY <2>1, <2>2, <2>3, ElementOfSeq
<1>3. Pending(asked, up) = w
  BY <1>1, <1>2 DEF Pending
<1>4. v \in Seq(Numbers)
  BY <1>2 DEF Answers
<1> HIDE DEF v
<1>5. /\ c \in Nat /\ Len(v) \in Nat /\ Len(w) = c + Len(v)
      /\ \A k \in 1..(c + Len(v)) : w[k] = IF k <= c THEN asked[k] ELSE v[k - c]
  BY <1>2, <1>4, ConcatProperties, LenProperties
<1>6. PICK k \in 1..Len(v) : Pos(v[k]) = Pos(d)
  BY <1>1
<1>7. c + k \in 1..Len(w) /\ w[c + k] = v[k]
  <2> DEFINE a == Len(v)
  <2> HIDE DEF c, w, a
  <2>1. c + k \in 1..(c + a) /\ ~(c + k <= c) /\ (c + k) - c = k
    BY <1>5 DEF a
  <2>. QED  BY <1>5, <2>1 DEF a
<1>8. d \in First..(n - 1)
  BY <1>1, KnownSizes DEF Sizes
<1>9. Wanted(w, down, buf, First, d, n)
  BY <1>3 DEF OpenRules
<1> HIDE DEF w, c, d, n
<1>10. \A j \in 1..Len(down) : down[j].data # d /\ down[j].data # d + Window - 1
  BY <1>6, <1>7, <1>8, <1>9, ZenonT(60) DEF Wanted
<1>. QED  BY <1>10 DEF d

LEMMA DeliverOrder ==
  ASSUME Known, NEW i \in 1..Len(down), down[i].data # End, Deliver(down[i]),
         down' = RemoveAt(down, i), UNCHANGED svars
  PROVE  InOrder'
<1> DEFINE m == down[i]
           d == Done
           n == sent
           f == First
           k == Count(m)
           t == d + k + 1
           r == RemoveAt(down, i)
           S(j) == Pos(Pos(m.num) + j)
<1>1. /\ phase # "closed" /\ OpenRules /\ CommonRules /\ m \in Packets /\ m.src = 0
      /\ m.num = m.data % NumMod /\ m.data \in d..(n - 1) /\ m.data \in Nat
      /\ Pos(m.num) = Pos(m.data) /\ OnLink(r, buf, d, n)
      /\ \A j \in 1..Len(r) : \E l \in 1..Len(down) : l # i /\ r[j] = down[l]
      /\ \A l \in 1..Len(down) : /\ down[l].data \in d..(n - 1) /\ buf[Pos(down[l].data)] = None
                                 /\ l # i => down[l].data # m.data
  BY Taken
<1>2. /\ out \in Seq(Nat) /\ up \in Seq(Answers) /\ buf \in [Positions -> Nat \union {None}]
      /\ env.heartbeat /\ d \in Nat /\ n \in Nat /\ f \in Nat /\ f <= d /\ d <= n /\ n <= f + Window
      /\ Window \in Nat
  BY KnownTypes, KnownSizes DEF Sizes
<1>3. /\ waiting = Pos(m.num) /\ out' = Delivered(m) /\ waiting' = Pos(Pos(m.num) + k + 1)
      /\ buf' = [p \in Positions |-> IF \E j \in 0..k : p = S(j) THEN None ELSE buf[p]]
      /\ up' = Append(up, Answer("ack", <<Incr(m.num, k)>>, m.src))
      /\ again' = None /\ from' = from
  BY <1>2, DeliverIs, Zenon
<1>4. m.data = d
  <2>1. waiting = Pos(d)
    BY <1>1 DEF OpenRules
  <2> DEFINE x == m.data
  <2>2. x \in Int /\ d \in Int /\ x - d < Window /\ d - x < Window /\ Pos(x) = Pos(d)
    <3>1. x \in d..(n - 1) /\ Pos(x) = Pos(d)
      BY <1>1, <1>3, <2>1
    <3> HIDE DEF x, d, n, f
    <3>. QED  BY <1>2, <3>1, WindowFacts
  <2> HIDE DEF x, d
  <2>3. x = d
    BY <2>2, SamePos
  <2>. QED  BY <2>3 DEF x
<1>5. Pos(m.num) = Pos(d) /\ d < n
  BY <1>1, <1>2, <1>4
<1>6. \A j \in Int : S(j) = Pos(d + j)
  BY <1>2, <1>5, PosFacts
<1>7. /\ k \in 0..(Window - 1)
      /\ \A j \in 1..k : buf[S(j)] # None
      /\ k < Window - 1 => buf[S(k + 1)] = None
  BY <1>2, BehindRight DEF Count, Buffered
<1> HIDE DEF m, d, n, f, k, r, S
<1>8. k \in Nat /\ t \in Nat /\ t > d /\ k + 1 \in Int
  BY <1>2, <1>7
<1>9. Ahead(buf, d, n) /\ Sizes(f, d, n)
  BY <1>1, <1>2 DEF CommonRules, Sizes, d, n
<1>10. \A j \in 1..k : buf[Pos(d + j)] = d + j /\ d + j \in (d + 1)..(n - 1)
  <2> SUFFICES ASSUME NEW j \in 1..k
               PROVE  buf[Pos(d + j)] = d + j /\ d + j \in (d + 1)..(n - 1)
    OBVIOUS
  <2> DEFINE x == d + j
  <2>1. x \in Int /\ d <= x /\ x < d + Window /\ buf[Pos(x)] # None
    <3>1. j \in Int /\ j < Window
      BY <1>2, <1>7
    <3>2. S(j) = Pos(x) /\ buf[S(j)] # None
      BY <1>6, <1>7, <3>1
    <3>3. x \in Int /\ d <= x /\ x < d + Window
      BY <1>2, <3>1
    <3>. QED  BY <3>2, <3>3
  <2> HIDE DEF x
  <2>2. buf[Pos(x)] = x /\ x \in (d + 1)..(n - 1)
    BY <1>9, <2>1, AheadAt
  <2>. QED  BY <2>2 DEF x
<1>11. t <= n
  <2>1. CASE k = 0
    BY <1>2, <1>5, <2>1
  <2>2. CASE k # 0
    <3>1. k \in 1..k
      BY <1>8, <2>2
    <3>2. d + k \in (d + 1)..(n - 1)
      BY <1>10, <3>1
    <3>. QED  BY <1>2, <1>8, <3>2
  <2>. QED  BY <2>1, <2>2
<1>12. Done' = t
  <2>1. Len(Delivered(m)) = Len(out) + 1 + Count(m)
    BY <1>1, <1>2, DeliveredRight
  <2>. QED  BY <1>2, <1>3, <1>8, <2>1 DEF Done, d, k
<1>13. ASSUME NEW j \in 1..t PROVE out'[j] = j - 1
  <2>1. /\ \A l \in 1..Len(out) : Delivered(m)[l] = out[l]
        /\ Delivered(m)[Len(out) + 1] = m.data
        /\ \A l \in 1..Count(m) : Delivered(m)[Len(out) + 1 + l] = buf[Pos(Pos(m.num) + l)]
    BY <1>1, <1>2, DeliveredRight
  <2>2. /\ \A l \in 1..d : out'[l] = out[l] /\ out[l] = l - 1
        /\ out'[d + 1] = d
        /\ \A l \in 1..k : out'[d + 1 + l] = buf[S(l)]
    BY <1>1, <1>3, <1>4, <2>1 DEF CommonRules, Done, d, k, S
  <2>3. CASE j <= d
    BY <1>2, <2>2, <2>3
  <2>4. CASE j = d + 1
    BY <1>2, <2>2, <2>4
  <2>5. CASE j > d + 1
    <3>1. j - (d + 1) \in 1..k /\ j - (d + 1) \in Int /\ d + 1 + (j - (d + 1)) = j
      BY <1>2, <1>8, <2>5
    <3>2. out'[j] = buf[S(j - (d + 1))]
      BY <2>2, <3>1
    <3>3. S(j - (d + 1)) = Pos(d + (j - (d + 1)))
      BY <1>6, <3>1
    <3>4. buf[Pos(d + (j - (d + 1)))] = d + (j - (d + 1))
      BY <1>10, <3>1
    <3>. QED  BY <1>2, <3>1, <3>2, <3>3, <3>4
  <2>. QED  BY <1>2, <2>3, <2>4, <2>5
<1>14. waiting' = Pos(t)
  <2>1. S(k + 1) = Pos(d + (k + 1))
    BY <1>6, <1>8
  <2>2. Pos(m.num) \in Int
    BY <1>1, PacketFacts
  <2> DEFINE o == Pos(m.num)
  <2> HIDE DEF o
  <2>3. o + k + 1 = o + (k + 1) /\ d + (k + 1) = t
    BY <1>2, <1>8, <2>2 DEF o
  <2>. QED  BY <1>3, <2>1, <2>3 DEF S, o
<1>15. \A p \in Positions : /\ buf'[p] = None \/ buf'[p] = buf[p]
                            /\ buf'[p] # None => \A j \in 0..k : p # Pos(d + j)
  <2>1. \A j \in 0..k : S(j) = Pos(d + j)
    BY <1>6
  <2>. QED  BY <1>3, <2>1
<1>16. Ahead(buf', t, n)
  <2> SUFFICES ASSUME NEW p \in Positions, buf'[p] # None
               PROVE  buf'[p] \in (t + 1)..(n - 1) /\ Pos(buf'[p]) = p
    BY DEF Ahead
  <2> DEFINE e == buf[p]
  <2>1. buf'[p] = e /\ \A j \in 0..k : p # Pos(d + j)
    BY <1>15
  <2>2. e \in (d + 1)..(n - 1) /\ Pos(e) = p
    BY <1>9, <2>1 DEF Ahead
  <2>3. ~(e <= d + k)
    <3> SUFFICES ASSUME e <= d + k PROVE FALSE
      OBVIOUS
    <3> HIDE DEF e
    <3>1. e - d \in 0..k /\ d + (e - d) = e
      BY <1>2, <1>8, <2>2
    <3>. QED  BY <2>1, <2>2, <3>1
  <2>4. e # t
    <3> SUFFICES ASSUME e = t PROVE FALSE
      OBVIOUS
    <3>1. buf[Pos(t)] # None
      BY <2>1, <2>2
    <3> HIDE DEF e
    <3>2. k < Window - 1
      BY <1>2, <1>7, <2>2
    <3>3. S(k + 1) = Pos(d + (k + 1)) /\ d + (k + 1) = t
      BY <1>2, <1>6, <1>8
    <3>. QED  BY <1>7, <3>1, <3>2, <3>3
  <2> HIDE DEF e
  <2>. QED  BY <1>2, <1>8, <2>1, <2>2, <2>3, <2>4
<1>17. ASSUME NEW y \in d..(n - 1), y # d, buf[Pos(y)] = None
       PROVE  y \in t..(n - 1) /\ buf'[Pos(y)] = None
  <2>1. ~(y <= d + k)
    <3> SUFFICES ASSUME y <= d + k PROVE FALSE
      OBVIOUS
    <3>1. y - d \in 1..k /\ d + (y - d) = y
      BY <1>2, <1>8, <1>17
    <3>2. buf[Pos(d + (y - d))] = d + (y - d)
      BY <1>10, <3>1
    <3>. QED  BY <1>2, <1>17, <3>1, <3>2, WindowFacts
  <2>2. Pos(y) \in Positions
    BY <1>2, PosFacts
  <2>3. y \in t..(n - 1)
    BY <1>2, <1>8, <2>1
  <2>. QED  BY <1>15, <1>17, <2>2, <2>3
<1>18. OnLink(r, buf', t, n)
  <2>1. \A j \in 1..Len(r) : r[j].data \in t..(n - 1) /\ buf'[Pos(r[j].data)] = None
    <3> SUFFICES ASSUME NEW j \in 1..Len(r)
                 PROVE  r[j].data \in t..(n - 1) /\ buf'[Pos(r[j].data)] = None
      OBVIOUS
    <3>1. PICK l \in 1..Len(down) : l # i /\ r[j] = down[l]
      BY <1>1
    <3>. QED  BY <1>1, <1>4, <1>17, <3>1
  <2>. QED  BY <1>1, <2>1, LinkKept, Zenon
<1>19. Acks(up, f, d)
  BY <1>1, <1>4, NoRequest DEF f, d, m
<1>20. Acks(up', f, t) /\ Pending(asked, up) = asked /\ Pending(asked, up') = asked
  <2>1. Incr(m.num, k) = (t - 1) % NumMod
    <3>1. Incr(d % NumMod, k) = (d + k) % NumMod
      BY <1>2, <1>8, IncrFacts
    <3>2. t - 1 = d + k
      BY <1>2, <1>8
    <3>. QED  BY <1>1, <1>4, <3>1, <3>2
  <2>2. up' = Append(up, Answer("ack", <<(t - 1) % NumMod>>, 0))
    BY <1>1, <1>3, <2>1
  <2> HIDE DEF t
  <2>3. Acks(up', f, t)
    BY <1>2, <1>8, <1>19, <2>2, AcksAdded
  <2>4. up' \in Seq(Answers)
    <3>1. (t - 1) % NumMod \in Numbers
      <4>1. t - 1 \in Int /\ NumMod \in Nat \ {0}
        BY <1>8, WindowFacts
      <4>. QED  BY <4>1, DivMod DEF Numbers
    <3>2. Answer("ack", <<(t - 1) % NumMod>>, 0) \in Answers
      BY <3>1, SingleNum, AnswerType
    <3>. QED  BY <1>2, <2>2, <3>2, AppendProperties
  <2>. QED  BY <1>2, <1>19, <2>3, <2>4, AcksOnly
<1> HIDE DEF t
<1>21. Wanted(asked, r, buf', f, t, n)
  <2>1. Wanted(asked, down, buf, f, d, n)
    BY <1>1, <1>20 DEF OpenRules, f, d, n
  <2>2. ASSUME NEW l \in 1..Len(asked), NEW e \in f..(n - 1), Pos(asked[l]) = Pos(e)
        PROVE  t <= e /\ buf'[Pos(e)] = None
    <3>1. d <= e /\ buf[Pos(e)] = None /\ \A j \in 1..Len(down) : down[j].data # e
      BY <2>1, <2>2, Zenon DEF Wanted
    <3>2. e # d /\ e \in d..(n - 1)
      BY <1>2, <1>4, <3>1 DEF m
    <3>3. e \in t..(n - 1) /\ buf'[Pos(e)] = None
      BY <1>17, <3>1, <3>2
    <3>. QED  BY <3>3
  <2>3. \A j \in 1..Len(r) : \E l \in 1..Len(down) : r[j] = down[l]
    BY <1>1
  <2>. QED  BY <2>1, <2>2, <2>3, WantedKept
<1>22. /\ First' = f /\ sent' = n /\ phase' = phase /\ asked' = asked /\ sock' = sock
  BY DEF svars, First, f, n
<1>23. CommonRules'
  <2>1. f <= t
    BY <1>2, <1>8
  <2>2. \A j \in 1..t : out'[j] = j - 1
    BY <1>13
  <2>. QED  BY <1>1, <1>3, <1>11, <1>12, <1>16, <1>22, <2>1, <2>2 DEF CommonRules
<1>24. OpenRules'
  <2>1. down' = r
    BY DEF r
  <2>. QED  BY <1>12, <1>14, <1>18, <1>20, <1>21, <1>22, <2>1 DEF OpenRules
<1>. QED  BY <1>1, <1>22, <1>23, <1>24 DEF InOrder

(* The buffer with one more packet at its position. *)
LEMMA BufWith ==
  ASSUME Sizes(First, Done, sent), buf \in [Positions -> Nat \union {None}],
         Ahead(buf, Done, sent), NEW x \in (Done + 1)..(sent - 1),
         NEW c, c = [buf EXCEPT ![Pos(x)] = x]
  PROVE  /\ Ahead(c, Done, sent)
         /\ \A y \in First..(sent - 1) : y # x => Pos(y) # Pos(x) /\ c[Pos(y)] = buf[Pos(y)]
<1> DEFINE f == First
           d == Done
           n == sent
<1>0. Ahead(buf, d, n) /\ x \in (d + 1)..(n - 1)
  OBVIOUS
<1>1. f \in Nat /\ d \in Nat /\ n \in Nat /\ f <= d /\ d <= n /\ n <= f + Window /\ Window \in Nat
  BY DEF Sizes
<1> HIDE DEF f, d, n
<1>2. x \in Int /\ Pos(x) \in Positions
  BY <1>0, <1>1, PosFacts
<1>3. c[Pos(x)] = x /\ \A p \in Positions : p # Pos(x) => c[p] = buf[p]
  BY <1>2
<1>4. ASSUME NEW p \in Positions, c[p] # None
      PROVE  c[p] \in (d + 1)..(n - 1) /\ Pos(c[p]) = p
  <2>1. CASE p = Pos(x)
    BY <1>0, <1>3, <2>1
  <2>2. CASE p # Pos(x)
    BY <1>0, <1>3, <1>4, <2>2 DEF Ahead
  <2>. QED  BY <2>1, <2>2
<1>5. ASSUME NEW y \in f..(n - 1), y # x
      PROVE  Pos(y) # Pos(x) /\ c[Pos(y)] = buf[Pos(y)]
  <2>1. y \in Int /\ y - x < Window /\ x - y < Window
    BY <1>0, <1>1, <1>2
  <2>2. Pos(y) # Pos(x)
    BY <1>2, <1>5, <2>1, PosDiffers
  <2>3. Pos(y) \in Positions
    BY <2>1, PosFacts
  <2>. QED  BY <1>3, <2>2, <2>3
<1>. QED  BY <1>4, <1>5 DEF Ahead, f, d, n

LEMMA KeepOrder ==
  ASSUME Known, NEW i \in 1..Len(down), down[i].data # End, Keep(down[i]),
         down' = RemoveAt(down, i), UNCHANGED svars
  PROVE  InOrder'
<1> DEFINE x == down[i].data
           d == Done
           n == sent
           f == First
           r == RemoveAt(down, i)
           w == Pending(asked, up)
<1>1. /\ phase # "closed" /\ OpenRules /\ CommonRules /\ down[i].src = 0
      /\ x \in d..(n - 1) /\ Pos(down[i].num) = Pos(x) /\ OnLink(r, buf, d, n)
      /\ \A j \in 1..Len(r) : \E l \in 1..Len(down) : l # i /\ r[j] = down[l]
      /\ \A l \in 1..Len(down) : /\ down[l].data \in d..(n - 1) /\ buf[Pos(down[l].data)] = None
                                 /\ l # i => down[l].data # x
  BY Taken
<1>2. buf \in [Positions -> Nat \union {None}] /\ Sizes(f, d, n)
  BY KnownTypes, KnownSizes
<1>3. f \in Nat /\ d \in Nat /\ n \in Nat /\ f <= d
  BY <1>2 DEF Sizes
<1>4. /\ Pos(x) # waiting /\ buf' = [buf EXCEPT ![Pos(x)] = x] /\ from' = 0 /\ again' = None
      /\ UNCHANGED <<waiting, out, up>>
  BY <1>1 DEF Keep
<1>5. x \in (d + 1)..(n - 1)
  <2>1. waiting = Pos(d)
    BY <1>1 DEF OpenRules
  <2>2. x # d
    BY <1>4, <2>1
  <2> HIDE DEF x, d, n
  <2>. QED  BY <1>1, <1>3, <2>2
<1>6. Ahead(buf, d, n)
  BY <1>1 DEF CommonRules
<1>7. Wanted(w, down, buf, f, d, n)
  BY <1>1 DEF OpenRules
<1> HIDE DEF d, n, f, r, w
<1>8. /\ Ahead(buf', d, n)
      /\ \A y \in f..(n - 1) : y # x => Pos(y) # Pos(x) /\ buf'[Pos(y)] = buf[Pos(y)]
  <2> DEFINE c == buf'
  <2>1. c = [buf EXCEPT ![Pos(x)] = x]
    BY <1>4
  <2> HIDE DEF c, x
  <2>2. /\ Ahead(c, d, n)
        /\ \A y \in f..(n - 1) : y # x => Pos(y) # Pos(x) /\ c[Pos(y)] = buf[Pos(y)]
    BY <1>2, <1>5, <1>6, <2>1, BufWith DEF f, d, n
  <2>. QED  BY <2>2 DEF c
<1>9. OnLink(r, buf', d, n)
  <2>1. \A j \in 1..Len(r) : r[j].data \in d..(n - 1) /\ buf'[Pos(r[j].data)] = None
    <3> SUFFICES ASSUME NEW j \in 1..Len(r)
                 PROVE  r[j].data \in d..(n - 1) /\ buf'[Pos(r[j].data)] = None
      OBVIOUS
    <3>1. PICK l \in 1..Len(down) : l # i /\ r[j] = down[l]
      BY <1>1
    <3> DEFINE y == r[j].data
    <3>2. y \in d..(n - 1) /\ y # x /\ buf[Pos(y)] = None
      BY <1>1, <3>1
    <3> HIDE DEF y
    <3>3. y \in f..(n - 1)
      BY <1>3, <3>2
    <3>. QED  BY <1>8, <3>2, <3>3 DEF y
  <2>. QED  BY <1>1, <2>1, LinkKept, Zenon
<1>10. Wanted(w, r, buf', f, d, n)
  <2>1. ASSUME NEW l \in 1..Len(w), NEW e \in f..(n - 1), Pos(w[l]) = Pos(e)
        PROVE  d <= e /\ buf'[Pos(e)] = None
    <3>1. d <= e /\ buf[Pos(e)] = None /\ \A j \in 1..Len(down) : down[j].data # e
      BY <1>7, <2>1, Zenon DEF Wanted
    <3>2. e # x
      BY <3>1
    <3>. QED  BY <1>8, <3>1, <3>2
  <2>2. \A j \in 1..Len(r) : \E l \in 1..Len(down) : r[j] = down[l]
    BY <1>1
  <2>. QED  BY <1>7, <2>1, <2>2, WantedKept
<1>11. /\ First' = f /\ sent' = n /\ Done' = d /\ phase' = phase /\ asked' = asked /\ sock' = sock
  BY <1>4 DEF svars, First, Done, f, n, d
<1>12. CommonRules'
  BY <1>1, <1>4, <1>8, <1>11 DEF CommonRules, f, d, n
<1>13. OpenRules'
  <2>1. down' = r
    BY DEF r
  <2>. QED  BY <1>1, <1>4, <1>9, <1>10, <1>11, <2>1 DEF OpenRules, f, d, n, w
<1>. QED  BY <1>1, <1>11, <1>12, <1>13 DEF InOrder

LEMMA WindowEndOrder ==
  ASSUME Known, NEW i \in 1..Len(down), down[i].data # End, MayArrive(i), WindowEnd(down[i]),
         down' = RemoveAt(down, i), UNCHANGED svars
  PROVE  InOrder'
<1> DEFINE x == down[i].data
           d == Done
           n == sent
           f == First
           r == RemoveAt(down, i)
           y == d % NumMod
           w == Append(asked, y)
           c == Len(asked)
<1>1. /\ phase # "closed" /\ OpenRules /\ CommonRules /\ down[i].src = 0 /\ down[i] \in Packets
      /\ x \in d..(n - 1) /\ Pos(down[i].num) = Pos(x) /\ OnLink(r, buf, d, n)
      /\ down[i].num = x % NumMod
      /\ \A j \in 1..Len(r) : \E l \in 1..Len(down) : l # i /\ r[j] = down[l]
      /\ \A l \in 1..Len(down) : /\ down[l].data \in d..(n - 1) /\ buf[Pos(down[l].data)] = None
                                 /\ l # i => down[l].data # x
  BY Taken
<1>2. /\ buf \in [Positions -> Nat \union {None}] /\ Sizes(f, d, n) /\ asked \in Seq(Numbers)
      /\ up \in Seq(Answers)
  BY KnownTypes, KnownSizes
<1>3. /\ f \in Nat /\ d \in Nat /\ n \in Nat /\ f <= d /\ d <= n /\ n <= f + Window
      /\ Window \in Nat /\ Window >= 2
  BY <1>2, WindowFacts DEF Sizes
<1>4. /\ waiting = Pos(Pos(x) + 1) /\ buf' = [buf EXCEPT ![Pos(x)] = x] /\ from' = 0 /\ again' = None
      /\ up' = Append(up, Answer("request", <<Incr(x % NumMod, 1 - Window)>>, 0))
      /\ UNCHANGED <<waiting, out>>
  BY <1>1 DEF WindowEnd
<1>5. x = d + Window - 1 /\ f = d /\ n = d + Window
  <2>1. waiting = Pos(d)
    BY <1>1 DEF OpenRules
  <2>0. x \in d..(n - 1)
    BY <1>1
  <2> HIDE DEF x, d, n, f
  <2>2. /\ x \in Int /\ x + 1 \in Int /\ d + Window \in Int
        /\ (x + 1) - (d + Window) < Window /\ (d + Window) - (x + 1) < Window
    BY <1>3, <2>0
  <2>3. Pos(Pos(x) + 1) = Pos(x + 1) /\ Pos(d + Window) = Pos(d)
    <3>1. \A k \in Int : Pos(Pos(x) + k) = Pos(x + k)
      BY <2>2, PosFacts
    <3>2. d \in Int /\ 1 \in Int
      BY <1>3
    <3>. QED  BY <3>1, <3>2, PosFacts
  <2>4. Pos(x + 1) = Pos(d + Window)
    BY <1>4, <2>1, <2>3
  <2>5. x + 1 = d + Window
    BY <2>2, <2>4, SamePos
  <2>. QED  BY <1>1, <1>3, <2>5
<1>6. Acks(up, f, d)
  BY <1>1, <1>5, NoRequest
<1>7. up = <<>> /\ Pending(asked, up) = asked
  BY <1>2, <1>3, <1>5, <1>6, AcksAll, AcksOnly
<1>8. Wanted(asked, down, buf, f, d, n)
  BY <1>1, <1>7 DEF OpenRules
<1>9. Ahead(buf, d, n)
  BY <1>1 DEF CommonRules
<1>10. \A j \in 1..Len(down) : down[j].data # d
  <2> SUFFICES ASSUME NEW j \in 1..Len(down), down[j].data = d PROVE FALSE
    OBVIOUS
  <2>1. Len(down) \in Nat
    BY KnownTypes, LenProperties
  <2>2. j # i
    BY <1>3, <1>5
  <2>3. CASE j < i
    <3>1. j \in 1..(i - 1) /\ i # 1
      BY <2>1, <2>3
    <3>2. down[i].data - down[j].data \in -env.overtake..env.overtake
      BY <3>1 DEF MayArrive
    <3>3. x - d \in -env.overtake..env.overtake /\ env.overtake <= Window - 2 /\ env.overtake \in Nat
      BY <3>2, EnvFacts DEF Known, Reliable, Typed
    <3>. QED  BY <1>3, <1>5, <3>3
  <2>4. CASE i < j
    <3>1. OnLink(down, buf, d, n)
      BY <1>1 DEF OpenRules
    <3>2. down[i].data # down[j].data + Window - 1
      BY <2>4, <3>1, Zenon DEF OnLink
    <3>. QED  BY <1>5, <3>2
  <2>. QED  BY <2>1, <2>2, <2>3, <2>4
<1> HIDE DEF d, n, f, r
<1>11. x \in (d + 1)..(n - 1)
  BY <1>3, <1>5
<1>12. /\ Ahead(buf', d, n)
       /\ \A z \in f..(n - 1) : z # x => Pos(z) # Pos(x) /\ buf'[Pos(z)] = buf[Pos(z)]
  <2> DEFINE b == buf'
  <2>1. b = [buf EXCEPT ![Pos(x)] = x]
    BY <1>4
  <2> HIDE DEF b, x
  <2>2. /\ Ahead(b, d, n)
        /\ \A z \in f..(n - 1) : z # x => Pos(z) # Pos(x) /\ b[Pos(z)] = buf[Pos(z)]
    BY <1>2, <1>9, <1>11, <2>1, BufWith DEF f, d, n
  <2>. QED  BY <2>2 DEF b
<1>13. \A j \in 1..Len(r) : /\ r[j].data \in d..(n - 1) /\ r[j].data # x /\ r[j].data # d
                            /\ buf[Pos(r[j].data)] = None
                            /\ \E l \in 1..Len(down) : r[j] = down[l]
  <2> SUFFICES ASSUME NEW j \in 1..Len(r)
               PROVE  /\ r[j].data \in d..(n - 1) /\ r[j].data # x /\ r[j].data # d
                      /\ buf[Pos(r[j].data)] = None
                      /\ \E l \in 1..Len(down) : r[j] = down[l]
    OBVIOUS
  <2>1. PICK l \in 1..Len(down) : l # i /\ r[j] = down[l]
    BY <1>1
  <2>. QED  BY <1>1, <1>10, <2>1
<1>14. OnLink(r, buf', d, n)
  <2>1. \A j \in 1..Len(r) : r[j].data \in d..(n - 1) /\ buf'[Pos(r[j].data)] = None
    BY <1>5, <1>12, <1>13
  <2>. QED  BY <1>1, <2>1, LinkKept, Zenon
(* Neither packet was asked for before. *)
<1>15. \A k \in 1..c : Pos(asked[k]) # Pos(d) /\ Pos(asked[k]) # Pos(x)
  <2>1. d \in f..(n - 1) /\ x \in f..(n - 1) /\ down[i].data = d + Window - 1
    BY <1>3, <1>5
  <2>2. ASSUME NEW k \in 1..c, Pos(asked[k]) = Pos(d) PROVE FALSE
    <3>1. down[i].data # d + Window - 1
      BY <1>8, <2>1, <2>2, Zenon DEF Wanted
    <3>. QED  BY <2>1, <3>1
  <2>3. ASSUME NEW k \in 1..c, Pos(asked[k]) = Pos(x) PROVE FALSE
    <3> DEFINE z == x
    <3>1. z \in f..(n - 1) /\ Pos(asked[k]) = Pos(z)
      BY <2>1, <2>3
    <3> HIDE DEF z
    <3>2. down[i].data # z
      BY <1>8, <3>1, Zenon DEF Wanted
    <3>. QED  BY <3>2 DEF z
  <2>. QED  BY <2>2, <2>3
<1>16. y \in Numbers /\ Pos(y) = Pos(d)
  <2>1. NumMod \in Nat \ {0} /\ d \in Int
    BY <1>3, WindowFacts
  <2>2. y \in Numbers
    BY <2>1, DivMod DEF Numbers
  <2>. QED  BY <1>3, <2>2, KnownTypes, PosNumber
<1>17. up' = <<Answer("request", <<y>>, 0)>>
  <2>1. Incr(x % NumMod, 1 - Window) = (x + (1 - Window)) % NumMod
    <3>1. x \in Int /\ 1 - Window \in Int
      BY <1>3, <1>11
    <3>. QED  BY <3>1, IncrFacts
  <2>2. x + (1 - Window) = d
    BY <1>3, <1>5
  <2>. QED  BY <1>4, <1>7, <2>1, <2>2
<1> HIDE DEF x, y
<1>18. /\ c \in Nat /\ Len(w) = c + 1 /\ w[c + 1] = y /\ \A k \in 1..c : w[k] = asked[k]
  BY <1>2, <1>16, AppendProperties, LenProperties
<1>19. Pending(asked, up') = w
  <2> DEFINE q == <<y>>
             a == Answer("request", q, 0)
  <2>1. a.type = "request" /\ a.nums = q
    BY DEF Answer
  <2> HIDE DEF a
  <2>2. up' = <<a>>
    BY <1>17 DEF a
  <2>3. up' # <<>> /\ up'[1] = a
    BY <2>2
  <2>4. asked \o q = w
    BY <1>2, <1>16
  <2>. QED  BY <2>1, <2>3, <2>4 DEF Pending
<1>20. OneRequest(up', f, d, n)
  <2> DEFINE q == <<y>>
             a == Answer("request", q, 0)
  <2>1. a.type = "request" /\ a.nums = q /\ a.to = 0
    BY DEF Answer
  <2> HIDE DEF a
  <2>2. up' = <<a>>
    BY <1>17 DEF a
  <2>3. Len(up') = 1 /\ up'[1] = a
    BY <2>2
  <2>4. Len(q) = 1 /\ q[1] = y /\ 1 \in 1..1
    OBVIOUS
  <2>5. d < n
    BY <1>3, <1>5
  <2> HIDE DEF q
  <2>. QED  BY <1>5, <1>16, <2>1, <2>3, <2>4, <2>5 DEF OneRequest
<1> HIDE DEF w, c
<1>21. Wanted(w, r, buf', f, d, n)
  <2> SUFFICES ASSUME NEW k \in 1..Len(w), NEW e \in f..(n - 1), Pos(w[k]) = Pos(e)
               PROVE  /\ d <= e /\ buf'[Pos(e)] = None
                      /\ \A j \in 1..Len(r) : r[j].data # e /\ r[j].data # e + Window - 1
                      /\ \A l \in 1..Len(w) : l # k => Pos(w[l]) # Pos(e)
                      /\ e + Window - 1 < n =>
                           \A l \in 1..(k - 1) : Pos(w[l]) # Pos(e + Window - 1)
    BY Zenon DEF Wanted
  <2>1. CASE k \in 1..c
    <3>1. w[k] = asked[k]
      BY <1>18, <2>1
    <3>2. e # d /\ e # x
      BY <1>15, <2>1, <3>1
    <3>3. /\ d <= e /\ buf[Pos(e)] = None
          /\ \A j \in 1..Len(down) : down[j].data # e /\ down[j].data # e + Window - 1
          /\ \A l \in 1..c : l # k => Pos(asked[l]) # Pos(e)
      BY <1>8, <2>1, <3>1, Zenon DEF Wanted, c
    <3>4. buf'[Pos(e)] = None
      BY <1>12, <3>2, <3>3
    <3>5. \A j \in 1..Len(r) : r[j].data # e /\ r[j].data # e + Window - 1
      <4> SUFFICES ASSUME NEW j \in 1..Len(r)
                   PROVE  r[j].data # e /\ r[j].data # e + Window - 1
        OBVIOUS
      <4>1. PICK l \in 1..Len(down) : r[j] = down[l]
        BY <1>13
      <4>. QED  BY <3>3, <4>1
    <3>6. ASSUME NEW l \in 1..Len(w), l # k PROVE Pos(w[l]) # Pos(e)
      <4>1. CASE l = c + 1
        <5>1. Pos(w[l]) = Pos(d) /\ Pos(asked[k]) # Pos(d)
          BY <1>15, <1>16, <1>18, <2>1, <4>1
        <5>. QED  BY <3>1, <5>1
      <4>2. CASE l # c + 1
        <5>1. l \in 1..c /\ w[l] = asked[l]
          BY <1>18, <4>2
        <5>. QED  BY <3>3, <3>6, <5>1
      <4>. QED  BY <4>1, <4>2
    <3>7. ~(e + Window - 1 < n)
      BY <1>3, <1>5, <3>2, <3>3
    <3>. QED  BY <3>3, <3>4, <3>5, <3>6, <3>7
  <2>2. CASE k = c + 1
    <3>1. e = d
      <4>1. Pos(e) = Pos(d) /\ e \in Int /\ d \in Int /\ e - d < Window /\ d - e < Window
        BY <1>3, <1>5, <1>16, <1>18, <2>2
      <4>. QED  BY <4>1, SamePos
    <3>2. buf'[Pos(d)] = None
      <4> SUFFICES ASSUME buf'[Pos(d)] # None PROVE FALSE
        BY <3>1
      <4> DEFINE b == buf'
      <4>1. Ahead(b, d, n) /\ b[Pos(d)] # None /\ d \in Int /\ d <= d /\ d < d + Window
        BY <1>3, <1>12
      <4> HIDE DEF b
      <4>2. d \in (d + 1)..(n - 1)
        BY <1>2, <4>1, AheadAt DEF f, d, n
      <4>. QED  BY <1>3, <4>2
    <3>3. \A j \in 1..Len(r) : r[j].data # d /\ r[j].data # d + Window - 1
      BY <1>5, <1>13
    <3>4. ASSUME NEW l \in 1..Len(w), l # k PROVE Pos(w[l]) # Pos(d)
      <4>1. l \in 1..c /\ w[l] = asked[l]
        BY <1>18, <2>2, <3>4
      <4>. QED  BY <1>15, <4>1
    <3>5. \A l \in 1..(k - 1) : Pos(w[l]) # Pos(d + Window - 1)
      <4>1. \A l \in 1..(k - 1) : l \in 1..c
        BY <1>18, <2>2
      <4>2. Pos(d + Window - 1) = Pos(x)
        BY <1>5
      <4>. QED  BY <1>15, <1>18, <4>1, <4>2
    <3>6. d <= d
      BY <1>3
    <3>. QED  BY <3>1, <3>2, <3>3, <3>4, <3>5, <3>6
  <2>3. k \in 1..c \/ k = c + 1
    BY <1>18
  <2>. QED  BY <2>1, <2>2, <2>3
<1>22. /\ First' = f /\ sent' = n /\ Done' = d /\ phase' = phase /\ asked' = asked /\ sock' = sock
  BY <1>4 DEF svars, First, Done, f, n, d
<1>23. CommonRules'
  BY <1>1, <1>4, <1>12, <1>22 DEF CommonRules, f, d, n
<1>24. OpenRules'
  <2>1. down' = r
    BY DEF r
  <2>2. Pending(asked', up') = w
    BY <1>19, <1>22
  <2>. QED  BY <1>1, <1>4, <1>14, <1>20, <1>21, <1>22, <2>1, <2>2 DEF OpenRules, d
<1>. QED  BY <1>1, <1>22, <1>23, <1>24 DEF InOrder

LEMMA ReceiveOrder == Known /\ Receive => InOrder'
<1> SUFFICES ASSUME Known, Receive PROVE InOrder'
  OBVIOUS
<1>1. again = None /\ env.heartbeat
  BY KnownTypes DEF Known, InOrder, CommonRules
<1>2. UNCHANGED svars
  BY DEF Receive
<1>3. PICK i \in 1..Len(down) : /\ down[i].data # End /\ MayArrive(i) /\ Process(down[i])
                                /\ down' = RemoveAt(down, i)
  BY <1>1 DEF Receive
<1>4. Deliver(down[i]) \/ WindowEnd(down[i]) \/ Keep(down[i])
  BY <1>1, <1>3 DEF Process, Skip
<1>. QED  BY <1>2, <1>3, <1>4, DeliverOrder, WindowEndOrder, KeepOrder

(* A packet less on the link. *)
LEMMA DropOrder ==
  ASSUME Known, NEW i \in 1..Len(down), down' = RemoveAt(down, i), UNCHANGED <<svars, rvars, up>>
  PROVE  InOrder'
<1> DEFINE r == RemoveAt(down, i)
<1>1. /\ down \in Seq(Packets)
      /\ \A j \in 1..Len(r) : \E l \in 1..Len(down) : r[j] = down[l]
  BY SMTT(30), KnownTypes, LinkRemoved
<1>2. First' = First /\ Done' = Done /\ UNCHANGED <<svars, rvars, up>>
  BY DEF svars, rvars, First, Done
<1>3. CommonRules'
  BY <1>2 DEF Known, InOrder, CommonRules, svars, rvars
<1>4. CASE phase = "closed"
  <2>1. ClosedRules
    BY <1>4 DEF Known, InOrder
  <2>2. \A j \in 1..Len(r) : r[j].data = End
    BY <1>1, <2>1 DEF ClosedRules
  <2>3. ClosedRules'
    BY <1>2, <2>1, <2>2 DEF ClosedRules, svars
  <2>. QED  BY <1>2, <1>3, <1>4, <2>3 DEF InOrder, svars
<1>5. CASE phase # "closed"
  <2>1. OpenRules
    BY <1>5, OpenKnown
  <2>2. OnLink(r, buf, Done, sent)
    BY <1>1, <2>1, LinkRemoved DEF OpenRules
  <2> DEFINE w == Pending(asked, up)
  <2>3. Wanted(w, down, buf, First, Done, sent)
    BY <2>1 DEF OpenRules
  <2> HIDE DEF w, r
  <2>4. \A k \in 1..Len(w) : \A e \in First..(sent - 1) :
            Pos(w[k]) = Pos(e) => Done <= e /\ buf[Pos(e)] = None
    BY <2>3, Zenon DEF Wanted
  <2>5. Wanted(w, r, buf, First, Done, sent)
    BY <1>1, <2>3, <2>4, WantedKept
  <2>6. OpenRules'
    BY <1>2, <2>1, <2>2, <2>5 DEF OpenRules, svars, rvars, w, r
  <2>. QED  BY <1>2, <1>3, <1>5, <2>6 DEF InOrder, svars
<1>. QED  BY <1>4, <1>5

LEMMA LoseOrder == Known /\ (DropEnd \/ Lose) => InOrder'
<1> SUFFICES ASSUME Known, DropEnd \/ Lose PROVE InOrder'
  OBVIOUS
<1>1. UNCHANGED <<svars, rvars, up>> /\ \E i \in 1..Len(down) : down' = RemoveAt(down, i)
  BY DEF DropEnd, Lose, Known, Reliable
<1>. QED  BY <1>1, DropOrder

(* What is asked for after a silence is missing. *)
LEMMA MissingWanted ==
  ASSUME Known, OpenRules, down = <<>>, First = Done, Done < sent
  PROVE  /\ Wanted(Missing, <<>>, buf, First, Done, sent)
         /\ 1 \in 1..Len(Missing) /\ Pos(Missing[1]) = Pos(Done)
<1> DEFINE q == Missing
           d == Done
           n == sent
<1>1. waiting = Pos(d) /\ d \in Nat /\ n \in Nat /\ n <= d + Window /\ Window \in Nat
  BY KnownSizes DEF OpenRules, Sizes
<1>2. waiting \in Positions /\ Pos(waiting) = waiting
  BY <1>1, PosFacts, PosSelf
<1>3. ListRules(Window - 1, q)
  BY <1>2, MissingRight
<1>4. /\ q \in Seq(Positions) /\ Len(q) >= 1 /\ q[1] = waiting /\ Len(q) \in Nat
      /\ \A k \in 2..Len(q) : buf[q[k]] = None
      /\ \A k, l \in 1..Len(q) : k # l => q[k] # q[l]
  BY <1>3, LenProperties DEF ListRules, Buffered
<1>5. \A k \in 1..Len(q) : Pos(q[k]) = q[k]
  BY <1>4, ElementOfSeq, PosSelf
<1>6. buf[Pos(d)] = None
  <2> SUFFICES ASSUME buf[Pos(d)] # None PROVE FALSE
    OBVIOUS
  <2>1. Sizes(First, d, n) /\ Ahead(buf, d, n)
    BY KnownSizes DEF Known, InOrder, CommonRules
  <2>2. d \in Int /\ d <= d /\ d < d + Window
    BY <1>1, WindowFacts
  <2> HIDE DEF d
  <2>3. d \in (d + 1)..(n - 1)
    BY <2>1, <2>2, AheadAt
  <2>. QED  BY <2>2, <2>3
<1>7. Wanted(q, <<>>, buf, d, d, n)
  <2> HIDE DEF q, d, n
  <2> SUFFICES ASSUME NEW k \in 1..Len(q), NEW e \in d..(n - 1), Pos(q[k]) = Pos(e)
               PROVE  /\ d <= e /\ buf[Pos(e)] = None
                      /\ \A l \in 1..Len(q) : l # k => Pos(q[l]) # Pos(e)
                      /\ e + Window - 1 < n =>
                           \A l \in 1..(k - 1) : Pos(q[l]) # Pos(e + Window - 1)
    <3>1. \A j \in 1..Len(<<>>) : FALSE
      OBVIOUS
    <3>. QED  BY <3>1 DEF Wanted
  <2>1. q[k] = Pos(e)
    BY <1>5
  <2>2. buf[Pos(e)] = None
    <3>1. CASE k = 1
      BY <1>1, <1>4, <1>6, <2>1, <3>1
    <3>2. CASE k # 1
      <4>1. k \in 2..Len(q)
        BY <1>4, <3>2
      <4>. QED  BY <1>4, <2>1, <4>1
    <3>. QED  BY <3>1, <3>2
  <2>3. \A l \in 1..Len(q) : l # k => Pos(q[l]) # Pos(e)
    BY <1>4, <1>5, <2>1
  <2>4. e + Window - 1 < n => k = 1
    <3> SUFFICES ASSUME e + Window - 1 < n PROVE k = 1
      OBVIOUS
    <3>1. e = d
      BY <1>1
    <3>2. q[k] = q[1] /\ 1 \in 1..Len(q)
      BY <1>1, <1>4, <2>1, <3>1
    <3>. QED  BY <1>4, <3>2
  <2>5. d <= e
    BY <1>1
  <2>6. k = 1 => \A l \in 1..(k - 1) : FALSE
    OBVIOUS
  <2>. QED  BY <2>2, <2>3, <2>4, <2>5, <2>6
<1>8. 1 \in 1..Len(q) /\ Pos(q[1]) = Pos(d)
  <2> HIDE DEF q
  <2>1. 1 \in 1..Len(q)
    BY <1>4
  <2>. QED  BY <1>1, <1>2, <1>4, <2>1
<1>. QED  BY <1>7, <1>8

LEMMA IdleOrder == Known /\ IdlePeriod => InOrder'
<1> SUFFICES ASSUME Known, IdlePeriod PROVE InOrder'
  OBVIOUS
<1>1. /\ down = <<>> /\ up = <<>> /\ asked = <<>> /\ UNCHANGED <<svars, from, again, out, down>>
      /\ idle + 1 < ReclaimAfter \/ phase = "closed"
      /\ idle' = idle + 1
      /\ \/ idle' = ReclaimAfter /\ buf' = [p \in Positions |-> None]
         \/ idle' # ReclaimAfter /\ buf' = buf /\ waiting' = waiting
  BY DEF IdlePeriod, Known, Reliable
<1>2. /\ First' = First /\ Done' = Done /\ Sizes(First, Done, sent)
      /\ UNCHANGED <<sent, sock, phase, asked, cache>>
  BY <1>1, KnownSizes DEF First, Done, svars
<1>3. CommonRules
  BY DEF Known, InOrder
<1>4. Ahead(buf', Done, sent)
  BY <1>1, <1>3 DEF CommonRules, Ahead
<1>5. CommonRules'
  BY <1>1, <1>2, <1>3, <1>4 DEF CommonRules
<1>6. CASE phase = "closed"
  <2>1. ClosedRules'
    BY <1>1, <1>2, <1>6 DEF Known, InOrder, ClosedRules
  <2>. QED  BY <1>2, <1>5, <1>6, <2>1 DEF InOrder
<1>7. CASE phase # "closed"
  <2>1. OpenRules
    BY <1>7, OpenKnown
  <2>2. buf' = buf /\ waiting' = waiting
    <3>1. idle + 1 < ReclaimAfter /\ ReclaimAfter \in Nat /\ idle \in Nat
      BY <1>1, <1>7, ConstAssumption DEF Known, Typed, ReceiverType
    <3>. QED  BY <1>1, <3>1
  <2>3. ~OneRequest(up, First, Done, sent)
    <3>1. Len(<<>>) = 0
      OBVIOUS
    <3>. QED  BY <1>1, <3>1 DEF OneRequest
  <2>4. First = Done
    BY <1>1, <2>1, <2>3 DEF OpenRules, Acks
  <2>5. CASE up' = <<>>
    <3>1. OpenRules'
      BY <1>1, <1>2, <2>1, <2>2, <2>5 DEF OpenRules
    <3>. QED  BY <1>2, <1>5, <1>7, <3>1 DEF InOrder
  <2>6. CASE up' # <<>>
    <3>1. up' = <<Answer("request", Missing, from)>> /\ \E p \in Positions : buf[p] # None
      BY <2>6 DEF IdlePeriod, Buffered
    <3>2. Done < sent
      BY <1>2, <1>3, <3>1 DEF CommonRules, Ahead, Sizes
    <3>3. /\ Wanted(Missing, <<>>, buf, First, Done, sent)
          /\ 1 \in 1..Len(Missing) /\ Pos(Missing[1]) = Pos(Done)
      BY <1>1, <2>1, <2>4, <3>2, MissingWanted
    <3> DEFINE q == Missing
               a == Answer("request", q, 0)
    <3>4. up' = <<a>>
      BY <1>3, <3>1 DEF CommonRules
    <3>5. a.type = "request" /\ a.nums = q /\ a.to = 0
      BY DEF Answer
    <3>6. q \in Seq(Numbers)
      <4>1. waiting \in Positions
        BY DEF Known, Typed, ReceiverType
      <4>. QED  BY <4>1, MissingRight, ListOfNumbers DEF ListRules
    <3> HIDE DEF q, a
    <3>7. Len(up') = 1 /\ up'[1] = a /\ up' # <<>>
      BY <3>4
    <3>8. OneRequest(up', First, Done, sent)
      BY <2>4, <3>2, <3>3, <3>5, <3>7 DEF OneRequest, q
    <3>9. Pending(asked, up') = q
      <4>1. <<>> \o q = q
        BY <3>6, ConcatEmptySeq
      <4>. QED  BY <1>1, <3>5, <3>7, <4>1 DEF Pending
    <3>10. Wanted(Pending(asked, up'), down', buf, First, Done, sent)
      BY <1>1, <3>3, <3>9 DEF q
    <3>11. OpenRules'
      BY <1>1, <1>2, <2>1, <2>2, <3>8, <3>10 DEF OpenRules
    <3>. QED  BY <1>2, <1>5, <1>7, <3>11 DEF InOrder
  <2>. QED  BY <2>5, <2>6
<1>. QED  BY <1>6, <1>7

LEMMA SameEnv == [Next]_vars => env' = env
BY DEF Next, Sender, Send, Refuse, GiveUp, Finish, Close, Heart, HeartAck, HeartRequest,
       NobodyListens, Answered, Resend, Receiver, Receive, DropEnd, IdlePeriod, Lose, vars

LEMMA InOrderInit == Init => InOrder
<1> SUFFICES ASSUME Init, Reliable PROVE InOrder
  BY DEF InOrder
<1>1. /\ sent = 0 /\ sock = 0 /\ cache = <<>> /\ asked = <<>> /\ phase = "open" /\ waiting = 0
      /\ buf = [p \in Positions |-> None] /\ from = 0 /\ again = None /\ out = <<>>
      /\ down = <<>> /\ up = <<>>
  BY DEF Init
<1>2. First = 0 /\ Done = 0 /\ Len(<<>>) = 0 /\ \A i \in 1..Len(<<>>) : FALSE
  <2>1. Len(<<>>) = 0
    OBVIOUS
  <2>2. Len(cache) = 0 /\ Len(out) = 0
    BY <1>1, <2>1
  <2>3. First = 0 /\ Done = 0
    <3>1. First = 0
      <4>. DEFINE n == Len(cache)
      <4>1. n = 0
        BY <2>2
      <4>2. First = sent - n
        BY DEF First
      <4>. HIDE DEF n
      <4>. QED  BY <1>1, <4>1, <4>2, SMT
    <3>2. Done = 0
      BY <1>1, <2>2, SMT DEF Done
    <3>. QED  BY <3>1, <3>2
  <2>4. \A i \in 1..0 : FALSE
    BY SMT
  <2>. QED  BY <2>1, <2>3, <2>4
<1>3. CommonRules
  <2>1. Ahead(buf, 0, 0)
    BY <1>1 DEF Ahead
  <2>2. \A i \in 1..0 : FALSE
    OBVIOUS
  <2>. QED  BY <1>1, <1>2, <2>1, <2>2 DEF CommonRules
<1>4. Pos(0) = 0
  <2>1. 0 \in Positions
    BY WindowFacts DEF Positions
  <2>. QED  BY <2>1, PosSelf
<1>5. OnLink(<<>>, buf, 0, 0)
  BY <1>2 DEF OnLink
<1>6. Acks(<<>>, 0, 0)
  BY AcksEmpty
<1>7. Pending(asked, up) = <<>>
  BY <1>1 DEF Pending
<1>8. Wanted(<<>>, <<>>, buf, 0, 0, 0)
  BY WantedNothing
<1>9. OpenRules
  BY <1>1, <1>2, <1>4, <1>5, <1>6, <1>7, <1>8 DEF OpenRules
<1>. QED  BY <1>1, <1>3, <1>9 DEF InOrder

LEMMA InOrderStep == Typed /\ Cached /\ InOrder /\ [Next]_vars => InOrder'
<1> SUFFICES ASSUME Typed, Cached, InOrder, [Next]_vars PROVE InOrder'
  OBVIOUS
<1>1. Reliable' = Reliable
  BY SameEnv DEF Reliable
<1>2. CASE ~Reliable
  BY <1>1, <1>2 DEF InOrder
<1>3. CASE Reliable
  <2>1. Known
    BY <1>3 DEF Known
  <2>2. CASE UNCHANGED vars
    <3>1. UNCHANGED <<svars, rvars, down, up>> /\ First' = First /\ Done' = Done
      BY <2>2 DEF vars, svars, rvars, First, Done
    <3>. QED  BY <1>3, <3>1 DEF InOrder, CommonRules, OpenRules, ClosedRules, svars, rvars
  <2>3. ~Refuse /\ ~GiveUp
    BY <1>3 DEF Reliable, Refuse, GiveUp
  <2>4. CASE Next
    BY <2>1, <2>3, <2>4, SendOrder, FinishOrder, CloseOrder, AckOrder, RequestOrder, NobodyOrder,
       ResendOrder, ReceiveOrder, LoseOrder, IdleOrder DEF Next, Sender, Heart, Receiver
  <2>. QED  BY <2>2, <2>4
<1>. QED  BY <1>2, <1>3

Inv == Typed /\ Cached /\ InOrder

LEMMA InvAlways == Spec => []Inv
<1>1. Init => Inv
  BY TypedInit, CachedInit, InOrderInit DEF Inv
<1>2. Inv /\ [Next]_vars => Inv'
  BY TypedStep, CachedStep, InOrderStep DEF Inv
<1>. QED  BY <1>1, <1>2, PTL DEF Spec

(* The sender's copy of a packet outlives the receiver's need of it: until   *)
(* the flow is closed every packet was sent on or is still in the cache, and *)
(* the flow is closed only when all were sent on (udp_socket.cpp:728).       *)
THEOREM CopiesHold == Spec => []KeptUntilDelivered
<1>1. Inv => KeptUntilDelivered
  <2> SUFFICES ASSUME Inv, Reliable PROVE KeptUntilDelivered
    BY DEF KeptUntilDelivered, NothingForgotten, ClosedAfterDelivery
  <2>1. Known
    BY DEF Inv, Known
  <2>2. /\ First \in Nat /\ Done \in Nat /\ sent \in Nat /\ First <= Done /\ First = sent - Len(cache)
        /\ Len(cache) \in Nat
    BY <2>1, KnownSizes, KnownTypes DEF Sizes
  <2>3. ASSUME NEW d \in 0..(sent - 1)
        PROVE  \/ \E i \in 1..Len(out) : out[i] = d
               \/ \E i \in 1..Len(cache) : cache[i].data = d
    <3>1. CASE d < Done
      <4>1. \A i \in 1..Done : out[i] = i - 1
        BY <2>1 DEF Known, InOrder, CommonRules
      <4>2. d + 1 \in 1..Done /\ (d + 1) - 1 = d
        BY <2>2, <3>1
      <4>3. out[d + 1] = d
        BY <4>1, <4>2
      <4>. QED  BY <4>2, <4>3 DEF Done
    <3>2. CASE d >= Done
      <4> DEFINE i == d - First + 1
                 c == Len(cache)
                 f == First
      <4>1. f \in Nat /\ sent \in Nat /\ f = sent - c /\ c \in Nat /\ f <= d
        BY <2>2, <3>2
      <4> HIDE DEF f, c
      <4>2. d - f + 1 \in 1..c /\ f + (d - f + 1) - 1 = d
        BY <4>1
      <4>3. i \in 1..Len(cache) /\ First + i - 1 = d
        BY <4>2 DEF f, c
      <4> HIDE DEF i
      <4>4. cache[i].data = d
        BY <2>1, <4>3, CachedAt
      <4>. QED  BY <4>3, <4>4
    <3>. QED  BY <2>2, <3>1, <3>2
  <2>4. phase = "closed" => Len(out) = sent
    BY <2>1 DEF Known, InOrder, ClosedRules, Done
  <2>. QED  BY <2>3, <2>4 DEF KeptUntilDelivered, NothingForgotten, ClosedAfterDelivery
<1>. QED  BY <1>1, InvAlways, PTL

(* A step of the tunnel takes a packet in, or delivers some in order, or     *)
(* neither.                                                                  *)
LEMMA TunnelStep == Inv /\ Inv' /\ [Next]_vars => [Tunnel!Next]_Tunnel!vars
<1> SUFFICES ASSUME Inv, Inv', [Next]_vars PROVE [Tunnel!Next]_Tunnel!vars
  OBVIOUS
<1>1. Reliable' = Reliable
  BY SameEnv DEF Reliable
<1>2. CASE ~Reliable
  BY <1>1, <1>2 DEF Tunnel!vars
<1>3. CASE Reliable
  <2>1. Known
    BY <1>3 DEF Known, Inv
  <2>2. SUFFICES \/ sent' = sent /\ out' = out
                 \/ sent - Len(out) < Window /\ sent' = sent + 1 /\ out' = out
                 \/ /\ \E n \in (Len(out) + 1)..sent : out' = [i \in 1..n |-> i - 1]
                    /\ sent' = sent
    BY <1>1, <1>3, <2>2 DEF Tunnel!Next, Tunnel!Accept, Tunnel!Deliver, Tunnel!vars
  <2>3. CASE Send
    <3>1. sent' = sent + 1 /\ out' = out /\ Len(cache) # Window
      BY <2>1, <2>3, KnownTypes DEF Send, CacheFull, rvars
    <3>2. /\ First = sent - Len(cache) /\ First <= Done /\ First \in Nat /\ Done \in Nat /\ sent \in Nat
          /\ sent <= First + Window /\ Window \in Nat /\ Len(cache) \in Nat
      BY <2>1, KnownSizes, KnownTypes DEF Sizes
    <3> DEFINE c == Len(cache)
               f == First
               d == Done
    <3>3. c # Window /\ f = sent - c /\ f <= d /\ f \in Nat /\ d \in Nat /\ sent \in Nat
          /\ sent <= f + Window /\ Window \in Nat /\ c \in Nat
      BY <3>1, <3>2
    <3> HIDE DEF c, f, d
    <3>4. sent - d < Window
      BY <3>3
    <3>. QED  BY <3>1, <3>4 DEF d, Done
  <2>4. CASE Receive
    <3>1. sent' = sent
      BY <2>4 DEF Receive, svars
    <3>2. PICK i \in 1..Len(down) : down[i].data # End /\ Process(down[i])
      BY <2>1, <2>4 DEF Receive, Known, InOrder, CommonRules
    <3>3. CASE Deliver(down[i])
      <4>1. down[i] \in Packets /\ down[i].data \in Nat
        BY <2>1, <3>2, Taken
      <4>2. out' = Delivered(down[i])
        BY <3>3, DeliverIs
      <4>3. Len(out') = Len(out) + 1 + Count(down[i]) /\ Count(down[i]) \in 0..(Window - 1)
        BY <2>1, <4>1, <4>2, KnownTypes, DeliveredRight, Carried
      <4> DEFINE n == Len(out')
      <4>4. out' \in Seq(Nat) /\ \A j \in 1..n : out'[j] = j - 1
        BY <1>1, <1>3 DEF Inv, Typed, ReceiverType, InOrder, CommonRules, Done
      <4>5. n <= sent
        BY <1>1, <1>3, <3>1 DEF Inv, InOrder, CommonRules, Done
      <4>6. out' = [j \in 1..n |-> j - 1]
        BY <4>4
      <4>7. n \in (Len(out) + 1)..sent
        <5>1. Len(out) \in Nat /\ sent \in Nat /\ Window \in Nat
          BY <2>1, KnownTypes, KnownSizes, LenProperties DEF Sizes
        <5> DEFINE a == Len(out)
                   k == Count(down[i])
        <5>2. n = a + 1 + k /\ k \in 0..(Window - 1) /\ a \in Nat /\ n <= sent
          BY <4>3, <4>5, <5>1
        <5> HIDE DEF n, a, k
        <5>3. n \in (a + 1)..sent
          BY <5>1, <5>2
        <5>. QED  BY <5>3 DEF a
      <4> HIDE DEF n
      <4>. QED  BY <3>1, <4>6, <4>7
    <3>4. CASE WindowEnd(down[i]) \/ Keep(down[i])
      BY <3>1, <3>4 DEF WindowEnd, Keep
    <3>5. env.heartbeat
      BY <2>1, KnownTypes
    <3>. QED  BY <3>2, <3>3, <3>4, <3>5 DEF Process, Skip
  <2>5. ~Refuse /\ ~GiveUp
    BY <1>3 DEF Reliable, Refuse, GiveUp
  <2>6. CASE Finish \/ Close \/ Heart \/ DropEnd \/ IdlePeriod \/ Lose \/ UNCHANGED vars
    BY <2>6 DEF Finish, Close, Heart, HeartAck, HeartRequest, NobodyListens, Answered, Resend,
       DropEnd, IdlePeriod, Lose, vars, svars, rvars
  <2>. QED  BY <2>3, <2>4, <2>5, <2>6 DEF Next, Sender, Receiver
<1>. QED  BY <1>2, <1>3

(* A reliable tunnel is a channel that delivers everything in order, each    *)
(* packet once and none left out, no more than a window behind the sender,   *)
(* although the receiver knows a packet by its number modulo Window only     *)
(* (udp_socket.cpp:1257, 1311).                                              *)
THEOREM TunnelHolds == Spec => ImplementsChannel
<1>1. Init => Tunnel!Init
  BY DEF Init, Tunnel!Init
<1>2. Inv /\ Inv' /\ [Next]_vars => [Tunnel!Next]_Tunnel!vars
  BY TunnelStep
<1>. QED  BY <1>1, <1>2, InvAlways, PTL DEF Spec, ImplementsChannel, Tunnel!Spec

-----------------------------------------------------------------------------
(* Without a heartbeat.  A packet is in one place only: sent on, kept, or on *)
(* the link; one that is put back is also where it is kept itself.           *)

Differ(s, n) ==
  \A i \in 1..Len(s) : s[i] < n /\ \A j \in 1..Len(s) : i # j => s[i] # s[j]

Absent(x, s) == \A i \in 1..Len(s) : s[i] # x

KeptOnlyAt(b, x, p) == \A q \in Positions : b[q] = x => q = p

KeptOnce(b, s, n) ==
  \A p \in Positions : b[p] # None => /\ b[p] < n /\ Absent(b[p], s)
                                      /\ KeptOnlyAt(b, b[p], p)

OnWayOnce(d, b, s, n) ==
  \A i \in 1..Len(d) : d[i].data # End =>
    /\ d[i].data < n /\ Absent(d[i].data, s)
    /\ \A p \in Positions : b[p] # d[i].data
    /\ \A j \in 1..Len(d) : i # j => d[i].data # d[j].data

InHand(m, d, b, s, n) ==
  /\ m.data < n /\ Absent(m.data, s) /\ KeptOnlyAt(b, m.data, Pos(m.num))
  /\ \A j \in 1..Len(d) : d[j].data # m.data

NoAnswers == cache = <<>> /\ asked = <<>> /\ up = <<>>

OnePlace ==
  ~env.heartbeat =>
    /\ NoAnswers
    /\ Differ(out, sent) /\ KeptOnce(buf, out, sent) /\ OnWayOnce(down, buf, out, sent)
    /\ again # None => InHand(again, down, buf, out, sent)

(* What is sent on goes behind what was. *)
LEMMA SentBehind ==
  ASSUME NEW s \in Seq(Nat), NEW r \in Seq(Nat), NEW n \in Nat,
         Differ(s, n), Differ(r, n), \A i \in 1..Len(r) : Absent(r[i], s)
  PROVE  /\ Differ(s \o r, n)
         /\ \A x : Absent(x, s) /\ Absent(x, r) => Absent(x, s \o r)
<1> DEFINE a == Len(s)
           k == Len(r)
           c == s \o r
<1>1. a \in Nat /\ k \in Nat
  OBVIOUS
<1>2. Len(c) = a + k /\ \A i \in 1..(a + k) : c[i] = IF i <= a THEN s[i] ELSE r[i - a]
  BY ConcatProperties
<1>3. /\ \A i \in 1..a : s[i] < n /\ \A j \in 1..a : i # j => s[i] # s[j]
      /\ \A i \in 1..k : r[i] < n /\ \A j \in 1..k : i # j => r[i] # r[j]
      /\ \A i \in 1..k : \A j \in 1..a : s[j] # r[i]
  BY DEF Differ, Absent
<1> HIDE DEF a, k, c
<1>4. ASSUME NEW i \in 1..(a + k)
      PROVE  \/ i \in 1..a /\ c[i] = s[i]
             \/ i > a /\ i - a \in 1..k /\ c[i] = r[i - a]
  BY <1>1, <1>2
<1>5. ASSUME NEW i \in 1..(a + k), NEW j \in 1..(a + k), i # j PROVE c[i] # c[j]
  <2>1. CASE i <= a /\ j <= a
    BY <1>1, <1>3, <1>4, <1>5, <2>1
  <2>0. /\ i > a => i - a \in 1..k /\ c[i] = r[i - a]
        /\ j > a => j - a \in 1..k /\ c[j] = r[j - a]
        /\ i \in Int /\ j \in Int
    BY <1>1, <1>2
  <2>2. CASE i > a /\ j > a
    <3>1. i - a \in 1..k /\ j - a \in 1..k /\ i - a # j - a
      BY <1>1, <1>5, <2>2, <2>0
    <3>2. c[i] = r[i - a] /\ c[j] = r[j - a]
      BY <2>2, <2>0
    <3>. QED  BY <1>3, <3>1, <3>2
  <2>3. CASE i <= a /\ j > a
    <3>1. i \in 1..a /\ c[i] = s[i] /\ j - a \in 1..k /\ c[j] = r[j - a]
      BY <1>1, <1>2, <2>3, <2>0
    <3>. QED  BY <1>3, <3>1
  <2>4. CASE i > a /\ j <= a
    <3>1. j \in 1..a /\ c[j] = s[j] /\ i - a \in 1..k /\ c[i] = r[i - a]
      BY <1>1, <1>2, <2>4, <2>0
    <3>. QED  BY <1>3, <3>1
  <2>. QED  BY <1>1, <2>1, <2>2, <2>3, <2>4
<1>6. Differ(c, n)
  <2>1. \A i \in 1..(a + k) : c[i] < n
    BY <1>3, <1>4
  <2>. QED  BY <1>2, <1>5, <2>1 DEF Differ
<1>7. ASSUME NEW x, Absent(x, s), Absent(x, r) PROVE Absent(x, c)
  <2>1. (\A i \in 1..a : s[i] # x) /\ \A i \in 1..k : r[i] # x
    BY <1>7, Zenon DEF Absent, a, k
  <2>2. \A i \in 1..(a + k) : c[i] # x
    BY <1>4, <2>1
  <2>. QED  BY <1>2, <2>2 DEF Absent
<1>. QED  BY <1>6, <1>7 DEF c

(* The packet in hand is put at its position: it is still in one place.      *)
LEMMA PutAtItsPosition ==
  ASSUME buf \in [Positions -> Nat \union {None}], NEW m \in Packets, m.data \in Nat,
         NEW d, NEW n \in Nat, KeptOnce(buf, out, n), OnWayOnce(d, buf, out, n),
         InHand(m, d, buf, out, n)
  PROVE  /\ KeptOnce(After(m), out, n) /\ OnWayOnce(d, After(m), out, n)
         /\ KeptOnlyAt(After(m), m.data, Pos(m.num))
<1> DEFINE o == Pos(m.num)
           x == m.data
           b == After(m)
<1>1. /\ o \in Positions /\ x # None /\ b[o] = x
      /\ \A p \in Positions : p # o => b[p] = buf[p]
  BY PacketFacts, AfterType, WindowFacts
<1>2. /\ x < n /\ Absent(x, out) /\ \A q \in Positions : buf[q] = x => q = o
      /\ \A j \in 1..Len(d) : d[j].data # x
  BY DEF InHand, KeptOnlyAt
<1>3. \A p \in Positions : buf[p] # None => /\ buf[p] < n /\ Absent(buf[p], out)
                                            /\ \A q \in Positions : buf[q] = buf[p] => q = p
  BY Zenon DEF KeptOnce, KeptOnlyAt
<1> HIDE DEF o, x, b
<1>4. \A q \in Positions : b[q] = x => q = o
  BY <1>1, <1>2
<1>5. ASSUME NEW p \in Positions, b[p] # None
      PROVE  b[p] < n /\ Absent(b[p], out) /\ \A q \in Positions : b[q] = b[p] => q = p
  <2>1. CASE p = o
    BY <1>1, <1>2, <1>4, <2>1
  <2>2. CASE p # o
    <3>1. b[p] = buf[p] /\ buf[p] # None /\ b[p] # x
      BY <1>1, <1>2, <1>5, <2>2
    <3>2. ASSUME NEW q \in Positions, b[q] = b[p] PROVE q = p
      <4>1. q # o
        BY <1>1, <3>1, <3>2
      <4>. QED  BY <1>1, <1>3, <3>1, <3>2, <4>1
    <3>. QED  BY <1>3, <3>1, <3>2
  <2>. QED  BY <2>1, <2>2
<1>6. KeptOnce(b, out, n)
  BY <1>5, Zenon DEF KeptOnce, KeptOnlyAt
<1>7. OnWayOnce(d, b, out, n)
  <2>1. ASSUME NEW i \in 1..Len(d), d[i].data # End, NEW p \in Positions PROVE b[p] # d[i].data
    <3>1. buf[p] # d[i].data
      BY <2>1, Zenon DEF OnWayOnce
    <3>. QED  BY <1>1, <1>2, <3>1
  <2>. QED  BY <2>1, Zenon DEF OnWayOnce
<1>8. KeptOnlyAt(b, x, o)
  BY <1>4, Zenon DEF KeptOnlyAt
<1>. QED  BY <1>6, <1>7, <1>8 DEF o, x, b

(* r was kept in b at places that are empty in e.                            *)
TakenFrom(r, b, e) ==
  /\ \A p \in Positions : e[p] = b[p] \/ e[p] = None
  /\ \A i \in 1..Len(r) : \E p \in Positions : b[p] = r[i] /\ e[p] = None

NoneTwice(r) == \A i, j \in 1..Len(r) : i # j => r[i] # r[j]

(* Packets sent on from their places, which are emptied.                     *)
LEMMA SentFrom ==
  ASSUME NEW b \in [Positions -> Nat \union {None}], NEW e,
         NEW d \in Seq(Packets), NEW n \in Nat,
         out \in Seq(Nat), Differ(out, n), KeptOnce(b, out, n), OnWayOnce(d, b, out, n),
         NEW r \in Seq(Nat), TakenFrom(r, b, e), NoneTwice(r)
  PROVE  /\ Differ(out \o r, n) /\ KeptOnce(e, out \o r, n) /\ OnWayOnce(d, e, out \o r, n)
         /\ \A x : Absent(x, out) /\ Absent(x, r) => Absent(x, out \o r)
<1>1. ASSUME NEW i \in 1..Len(r)
      PROVE  /\ r[i] < n /\ Absent(r[i], out)
             /\ \A p \in Positions : b[p] = r[i] => e[p] = None
             /\ \A l \in 1..Len(d) : d[l].data # End => d[l].data # r[i]
  <2>1. PICK p \in Positions : b[p] = r[i] /\ e[p] = None
    BY DEF TakenFrom
  <2>2. r[i] \in Nat /\ r[i] # None
    <3>1. r[i] \in Nat
      BY ElementOfSeq
    <3>. QED  BY <3>1, WindowFacts
  <2>3. b[p] < n /\ Absent(b[p], out) /\ \A q \in Positions : b[q] = b[p] => q = p
    BY <2>1, <2>2, Zenon DEF KeptOnce, KeptOnlyAt
  <2>4. \A l \in 1..Len(d) : d[l].data # End => b[p] # d[l].data
    BY Zenon DEF OnWayOnce
  <2>. QED  BY <2>1, <2>3, <2>4
<1>2. Differ(r, n)
  BY <1>1 DEF Differ, NoneTwice
<1>3. /\ Differ(out \o r, n)
      /\ \A x : Absent(x, out) /\ Absent(x, r) => Absent(x, out \o r)
  BY <1>1, <1>2, SentBehind
<1>4. \A p \in Positions : e[p] # None => e[p] = b[p] /\ b[p] # None
  BY DEF TakenFrom
<1>5. ASSUME NEW p \in Positions, e[p] # None
      PROVE  e[p] < n /\ Absent(e[p], out \o r) /\ KeptOnlyAt(e, e[p], p)
  <2>1. e[p] = b[p] /\ b[p] # None
    BY <1>4, <1>5
  <2>2. b[p] < n /\ Absent(b[p], out) /\ \A q \in Positions : b[q] = b[p] => q = p
    BY <2>1, Zenon DEF KeptOnce, KeptOnlyAt
  <2>3. \A i \in 1..Len(r) : r[i] # b[p]
    BY <1>1, <1>5, <2>1
  <2>4. Absent(b[p], out \o r)
    <3>1. Absent(b[p], r)
      BY <2>3, Zenon DEF Absent
    <3>. QED  BY <1>3, <2>2, <3>1, Zenon
  <2>5. \A q \in Positions : e[q] = e[p] => q = p
    BY <1>4, <1>5, <2>1, <2>2
  <2>. QED  BY <2>1, <2>2, <2>4, <2>5, Zenon DEF KeptOnlyAt
<1>6. KeptOnce(e, out \o r, n)
  BY <1>5, Zenon DEF KeptOnce
<1>7. ASSUME NEW i \in 1..Len(d), d[i].data # End
      PROVE  /\ d[i].data < n /\ Absent(d[i].data, out \o r)
             /\ \A p \in Positions : e[p] # d[i].data
             /\ \A j \in 1..Len(d) : i # j => d[i].data # d[j].data
  <2>1. /\ d[i].data < n /\ Absent(d[i].data, out)
        /\ \A p \in Positions : b[p] # d[i].data
        /\ \A j \in 1..Len(d) : i # j => d[i].data # d[j].data
    BY <1>7, Zenon DEF OnWayOnce
  <2>2. Absent(d[i].data, out \o r)
    <3>1. \A l \in 1..Len(r) : r[l] # d[i].data
      BY <1>1, <1>7
    <3>2. Absent(d[i].data, r)
      BY <3>1, Zenon DEF Absent
    <3>. QED  BY <1>3, <2>1, <3>2, Zenon
  <2>3. \A p \in Positions : e[p] # d[i].data
    <3> SUFFICES ASSUME NEW p \in Positions, e[p] = d[i].data PROVE FALSE
      OBVIOUS
    <3>1. e[p] = None
      BY <1>4, <2>1
    <3>2. d[i].data \in Nat \union {End}
      BY ElementOfSeq, PacketFacts
    <3>. QED  BY <3>1, <3>2, WindowFacts
  <2>. QED  BY <2>1, <2>2, <2>3
<1>8. OnWayOnce(d, e, out \o r, n)
  BY <1>7, Zenon DEF OnWayOnce
<1>. QED  BY <1>3, <1>6, <1>8

OnePlaceIn(d, b, s) == Differ(s, sent) /\ KeptOnce(b, s, sent) /\ OnWayOnce(d, b, s, sent)

(* A packet at the receiver, without a heartbeat.                            *)
LEMMA ProcessOnce ==
  ASSUME Typed, ~env.heartbeat, NEW d \in Seq(Packets), NEW m \in Packets, m.data \in Nat,
         OnePlaceIn(d, buf, out), InHand(m, d, buf, out, sent), Process(m)
  PROVE  /\ OnePlaceIn(d, buf', out') /\ up' = up
         /\ again' # None => again' = m /\ InHand(m, d, buf', out', sent)
<1> DEFINE o == Pos(m.num)
           b == After(m)
<1>1. /\ buf \in [Positions -> Nat \union {None}] /\ out \in Seq(Nat) /\ sent \in Nat
      /\ o \in Positions /\ o \in Int /\ Pos(o) = o
  BY PacketFacts, PosSelf, EnvFacts DEF Typed, SenderType, ReceiverType
<1>2. /\ b \in [Positions -> Nat \union {None}] /\ b[o] = m.data
      /\ \A p \in Positions \ {o} : b[p] = buf[p]
  BY <1>1, AfterType
<1>3. /\ KeptOnce(b, out, sent) /\ OnWayOnce(d, b, out, sent) /\ Differ(out, sent)
      /\ KeptOnlyAt(b, m.data, o)
  BY <1>1, PutAtItsPosition DEF OnePlaceIn
<1>4. m.data < sent /\ Absent(m.data, out) /\ \A j \in 1..Len(d) : d[j].data # m.data
  BY DEF InHand
<1>5. CASE Deliver(m)
  <2> DEFINE r == <<m.data>>
             e == [p \in Positions |-> IF p = o THEN None ELSE b[p]]
  <2>1. Count(m) = 0
    BY DEF Count
  <2>2. out' = out \o r
    <3>1. out' = out \o <<m.data>> \o [j \in 1..0 |-> buf[Pos(o + j)]]
      BY <1>5, <2>1, DeliverIs, Zenon DEF Delivered, Brought
    <3>2. [j \in 1..0 |-> buf[Pos(o + j)]] = <<>>
      OBVIOUS
    <3>3. r \in Seq(Nat)
      OBVIOUS
    <3> HIDE DEF r
    <3>4. out \o r \in Seq(Nat)
      BY <1>1, <3>3, ConcatProperties
    <3> DEFINE c == out \o r
    <3> HIDE DEF c
    <3>5. c \in Seq(Nat) /\ out' = c \o <<>>
      BY <3>1, <3>2, <3>4 DEF c, r
    <3>. QED  BY <3>5, ConcatEmptySeq DEF c
  <2>3. buf' = e /\ again' = None /\ up' = up
    <3>1. /\ buf' = [p \in Positions |->
                      IF \E j \in 0..Count(m) : p = Pos(o + j) THEN None ELSE buf[p]]
          /\ again' = None /\ up' = up
      BY <1>5, DeliverIs, Zenon
    <3>2. \A p \in Positions : (\E j \in 0..Count(m) : p = Pos(o + j)) <=> p = o
      <4>1. \A j \in 0..0 : o + j = o
        BY <1>1
      <4>. QED  BY <1>1, <2>1, <4>1
    <3>3. \A p \in Positions : buf'[p] = e[p] /\ buf' = [q \in Positions |-> buf'[q]]
      BY <1>2, <3>1, <3>2
    <3>. QED  BY <3>1, <3>3
  <2>4. /\ r \in Seq(Nat) /\ Len(r) = 1 /\ r[1] = m.data
    OBVIOUS
  <2> HIDE DEF r, b
  <2>5. TakenFrom(r, b, e) /\ NoneTwice(r)
    BY <1>1, <1>2, <2>4 DEF TakenFrom, NoneTwice
  <2> HIDE DEF e
  <2>6. /\ Differ(out \o r, sent) /\ KeptOnce(e, out \o r, sent)
        /\ OnWayOnce(d, e, out \o r, sent)
    BY <1>1, <1>2, <1>3, <2>4, <2>5, SentFrom
  <2>. QED  BY <2>2, <2>3, <2>6 DEF OnePlaceIn
<1>6. CASE Keep(m)
  <2>1. buf' = b /\ again' = None /\ out' = out /\ up' = up
    BY <1>6 DEF Keep, After
  <2>. QED  BY <1>3, <2>1 DEF OnePlaceIn
<1>7. CASE Skip(m)
  <2> DEFINE f == FirstOf(m)
             g == LastOf(m)
             run == RunOf(m)
             C == {p \in Positions : \E j \in f..g : p = Pos(o + j)}
             e == [p \in Positions |-> IF p \in C THEN None ELSE b[p]]
  <2>1. /\ f \in 1..Window /\ g \in f..Window
        /\ \A i \in f..g : b[Pos(o + i)] # None
        /\ run \in Seq(Nat) /\ Len(run) = g - f + 1
        /\ \A j \in 1..(g - f + 1) : run[j] = b[Pos(o + f + j - 1)]
    BY <1>1, RunRight
  <2>2. /\ buf' = [p \in Positions |->
                    IF \E j \in f..g : p = Pos(o + j) THEN None ELSE b[p]]
        /\ up' = up
        /\ \/ out' = out \o run /\ again' = None
           \/ out' = out \o Front(run) /\ again' = m
    BY <1>7, SkipIs, Zenon
  <2>3. buf' = e
    BY <2>2
  <2> HIDE DEF f, g, run, b
  <2>4. Window \in Nat /\ f \in Int /\ g \in Int /\ f >= 1 /\ f <= g /\ g <= Window
    BY <2>1, WindowFacts
  <2>5. ASSUME NEW i \in 1..(g - f + 1)
        PROVE  /\ Pos(o + f + i - 1) \in C /\ run[i] = b[Pos(o + f + i - 1)]
               /\ run[i] # None
    <3>1. f + i - 1 \in f..g /\ o + (f + i - 1) = o + f + i - 1 /\ o + f + i - 1 \in Int
      BY <1>1, <2>4
    <3>2. Pos(o + f + i - 1) \in Positions
      BY <3>1, PosFacts
    <3>3. b[Pos(o + f + i - 1)] # None
      BY <2>1, <3>1
    <3>. QED  BY <2>1, <3>1, <3>2, <3>3
  <2>6. ASSUME NEW i \in 1..(g - f + 1), NEW j \in 1..(g - f + 1), i # j PROVE run[i] # run[j]
    <3> DEFINE p == o + f + i - 1
               q == o + f + j - 1
    <3>0. o \in Int /\ i \in Int /\ j \in Int /\ i - j < Window /\ j - i < Window
      BY <1>1, <2>4
    <3> HIDE DEF o
    <3>1. /\ p \in Int /\ q \in Int /\ p # q /\ p - q < Window /\ q - p < Window
      BY <2>4, <2>6, <3>0
    <3>2. /\ Pos(p) \in C /\ run[i] = b[Pos(p)] /\ run[i] # None
          /\ Pos(q) \in C /\ run[j] = b[Pos(q)]
      BY <2>5
    <3> HIDE DEF p, q
    <3>3. Pos(p) # Pos(q)
      BY <3>1, PosDiffers
    <3>4. \A u \in Positions : b[u] # None => \A v \in Positions : b[v] = b[u] => v = u
      BY <1>3, Zenon DEF KeptOnce, KeptOnlyAt
    <3>. QED  BY <3>2, <3>3, <3>4
  <2>7. /\ Front(run) \in Seq(Nat) /\ Len(Front(run)) = g - f
        /\ \A i \in 1..(g - f) : Front(run)[i] = run[i]
    <3>1. Len(run) >= 1 /\ Len(run) - 1 = g - f
      BY <2>1, <2>4
    <3>. QED  BY <2>1, <3>1, FrontRight
  <2>8. ASSUME NEW r \in Seq(Nat), Len(r) <= g - f + 1, \A i \in 1..Len(r) : r[i] = run[i]
        PROVE  /\ OnePlaceIn(d, buf', out \o r)
               /\ \A x : Absent(x, out) /\ Absent(x, r) => Absent(x, out \o r)
    <3>1. \A i \in 1..Len(r) : i \in 1..(g - f + 1)
      BY <2>4, <2>8
    <3>2. TakenFrom(r, b, e)
      <4>1. \A p \in Positions : e[p] = (IF p \in C THEN None ELSE b[p])
        OBVIOUS
      <4>2. C \subseteq Positions
        OBVIOUS
      <4> HIDE DEF e, C
      <4>3. ASSUME NEW i \in 1..Len(r) PROVE \E p \in Positions : b[p] = r[i] /\ e[p] = None
        BY SMTT(30), <2>5, <2>8, <3>1, <4>1, <4>2
      <4>. QED  BY <4>1, <4>3, Zenon DEF TakenFrom
    <3>4. NoneTwice(r)
      BY <2>6, <2>8, <3>1 DEF NoneTwice
    <3> HIDE DEF e
    <3>3. /\ Differ(out \o r, sent) /\ KeptOnce(e, out \o r, sent)
          /\ OnWayOnce(d, e, out \o r, sent)
          /\ \A x : Absent(x, out) /\ Absent(x, r) => Absent(x, out \o r)
      BY <1>1, <1>2, <1>3, <3>2, <3>4, SentFrom
    <3>. QED  BY <2>3, <3>3 DEF OnePlaceIn
  <2>9. CASE out' = out \o run /\ again' = None
    <3>1. Len(run) <= g - f + 1
      BY <2>1, <2>4
    <3>2. OnePlaceIn(d, buf', out \o run)
      BY <2>1, <2>8, <3>1
    <3>. QED  BY <2>2, <2>9, <3>2
  <2>10. CASE out' = out \o Front(run) /\ again' = m
    <3> DEFINE r == Front(run)
    <3>1. r \in Seq(Nat) /\ Len(r) = g - f /\ \A i \in 1..(g - f) : r[i] = run[i]
      BY <2>7
    <3> HIDE DEF r
    <3>2. Len(r) <= g - f + 1 /\ \A i \in 1..Len(r) : r[i] = run[i]
      BY <2>4, <3>1
    <3>3. /\ OnePlaceIn(d, buf', out \o r)
          /\ \A x : Absent(x, out) /\ Absent(x, r) => Absent(x, out \o r)
      BY <2>8, <3>1, <3>2
    <3>4. ASSUME NEW i \in 1..Len(r), r[i] = m.data PROVE FALSE
      <4> DEFINE p == o + f + i - 1
      <4>1. i \in 1..(g - f + 1) /\ r[i] = run[i]
        BY <2>4, <3>1
      <4>2. p \in Int /\ p # o /\ p - o < Window /\ o - p < Window
        <5>1. o \in Int /\ i \in Int /\ i >= 1 /\ i <= g - f
          <6>1. i \in 1..(g - f) /\ o \in Int
            BY <1>1, <3>1
          <6> HIDE DEF o
          <6>. QED  BY <2>4, <6>1
        <5> HIDE DEF o
        <5>. QED  BY <2>4, <5>1
      <4>3. Pos(p) \in C /\ run[i] = b[Pos(p)]
        BY <2>5, <4>1
      <4> HIDE DEF p
      <4>4. Pos(p) # o
        BY <1>1, <4>2, PosDiffers
      <4>. QED  BY <1>3, <3>4, <4>1, <4>3, <4>4 DEF KeptOnlyAt
    <3>5. Absent(m.data, out \o r)
      <4>1. Absent(m.data, r)
        BY <3>4 DEF Absent
      <4>. QED  BY <1>4, <3>3, <4>1
    <3>6. KeptOnlyAt(buf', m.data, o)
      <4>1. \A p \in Positions : e[p] = m.data => b[p] = m.data
        BY WindowFacts
      <4> HIDE DEF e
      <4>. QED  BY <1>3, <2>3, <4>1 DEF KeptOnlyAt
    <3>7. out' = out \o r
      BY <2>10 DEF r
    <3>8. InHand(m, d, buf', out', sent)
      BY <1>4, <3>5, <3>6, <3>7 DEF InHand
    <3>. QED  BY <2>2, <2>10, <3>3, <3>7, <3>8
  <2>. QED  BY <2>2, <2>9, <2>10
<1>8. ~WindowEnd(m)
  BY DEF WindowEnd
<1>. QED  BY <1>5, <1>6, <1>7, <1>8 DEF Process

(* One packet less on its way.                                               *)
LEMMA FewerOnWay ==
  ASSUME NEW q \in Seq(Packets), NEW i \in 1..Len(q), NEW b, NEW s, NEW n
  PROVE  /\ OnWayOnce(q, b, s, n) => OnWayOnce(RemoveAt(q, i), b, s, n)
         /\ \A m : InHand(m, q, b, s, n) => InHand(m, RemoveAt(q, i), b, s, n)
         /\ OnWayOnce(q, b, s, n) /\ q[i].data # End => InHand(q[i], RemoveAt(q, i), b, s, n)
<1> DEFINE r == RemoveAt(q, i)
           c == Len(q)
           h(j) == IF j < i THEN j ELSE j + 1
<1>1. c \in Nat /\ i \in 1..c
  BY LenProperties
<1>2. Len(r) = c - 1 /\ \A j \in 1..(c - 1) : r[j] = IF j < i THEN q[j] ELSE q[j + 1]
  BY Removed
<1> HIDE DEF r, c
<1>3. \A j \in 1..Len(r) : h(j) \in 1..c /\ h(j) # i /\ r[j] = q[h(j)]
  BY <1>1, <1>2
<1>4. \A j, l \in 1..Len(r) : j # l => h(j) # h(l)
  BY <1>1, <1>2
<1> HIDE DEF h
<1>5. ASSUME OnWayOnce(q, b, s, n) PROVE OnWayOnce(r, b, s, n)
  <2> SUFFICES ASSUME NEW j \in 1..Len(r), r[j].data # End
               PROVE  /\ r[j].data < n /\ Absent(r[j].data, s)
                      /\ \A p \in Positions : b[p] # r[j].data
                      /\ \A l \in 1..Len(r) : j # l => r[j].data # r[l].data
    BY Zenon DEF OnWayOnce
  <2>1. /\ q[h(j)].data < n /\ Absent(q[h(j)].data, s)
        /\ \A p \in Positions : b[p] # q[h(j)].data
        /\ \A l \in 1..c : h(j) # l => q[h(j)].data # q[l].data
    BY <1>3, <1>5, Zenon DEF OnWayOnce, c
  <2>. QED  BY <1>3, <1>4, <2>1
<1>6. ASSUME NEW m, InHand(m, q, b, s, n) PROVE InHand(m, r, b, s, n)
  BY <1>3, <1>6, Zenon DEF InHand, c
<1>7. ASSUME OnWayOnce(q, b, s, n), q[i].data # End PROVE InHand(q[i], r, b, s, n)
  <2>1. /\ q[i].data < n /\ Absent(q[i].data, s)
        /\ \A p \in Positions : b[p] # q[i].data
        /\ \A l \in 1..c : i # l => q[i].data # q[l].data
    BY <1>7, Zenon DEF OnWayOnce, c
  <2>2. \A j \in 1..Len(r) : r[j].data # q[i].data
    BY <1>3, <2>1
  <2>. QED  BY <2>1, <2>2, Zenon DEF InHand, KeptOnlyAt
<1>. QED  BY <1>5, <1>6, <1>7, Zenon DEF r

(* One more on its way: a new one, or the closing packet.                    *)
LEMMA MoreOnWay ==
  ASSUME NEW q \in Seq(Packets), NEW b \in [Positions -> Nat \union {None}],
         NEW s \in Seq(Nat), NEW n \in Nat, NEW k \in Nat, n <= k,
         Differ(s, n), KeptOnce(b, s, n), OnWayOnce(q, b, s, n),
         NEW x \in Packets, x.data = End \/ x.data \in n..(k - 1)
  PROVE  /\ Differ(s, k) /\ KeptOnce(b, s, k) /\ OnWayOnce(Append(q, x), b, s, k)
         /\ \A m \in Packets : m.data \in Nat /\ InHand(m, q, b, s, n)
                                 => InHand(m, Append(q, x), b, s, k)
<1> DEFINE r == Append(q, x)
           c == Len(q)
<1>1. c \in Nat /\ Len(r) = c + 1 /\ r[c + 1] = x /\ \A i \in 1..c : r[i] = q[i]
  BY AppendProperties, LenProperties
<1>2. /\ \A i \in 1..Len(s) : s[i] \in Nat
      /\ \A i \in 1..c : q[i].data \in Nat \union {End}
      /\ None \notin Nat /\ End \notin Nat /\ None # End
  BY ElementOfSeq, PacketFacts, WindowFacts
<1>3. \A y \in Nat : y < n => y < k /\ x.data # y
  BY WindowFacts
<1> HIDE DEF r, c
<1>4. Differ(s, k)
  BY <1>2, <1>3, Zenon DEF Differ
<1>5. \A p \in Positions : b[p] # None => b[p] \in Nat
  OBVIOUS
<1>6. KeptOnce(b, s, k)
  BY <1>3, <1>5, Zenon DEF KeptOnce
<1>7. \A i \in 1..c : q[i].data # End =>
        /\ q[i].data < n /\ q[i].data < k /\ x.data # q[i].data /\ Absent(q[i].data, s)
        /\ \A p \in Positions : b[p] # q[i].data
        /\ \A j \in 1..c : i # j => q[i].data # q[j].data
  <2>1. \A i \in 1..c : q[i].data # End =>
          /\ q[i].data < n /\ Absent(q[i].data, s)
          /\ \A p \in Positions : b[p] # q[i].data
          /\ \A j \in 1..c : i # j => q[i].data # q[j].data
    BY Zenon DEF OnWayOnce, c
  <2>. QED  BY <1>2, <1>3, <2>1
<1>8. x.data # End =>
        /\ x.data < k /\ Absent(x.data, s) /\ \A p \in Positions : b[p] # x.data
  <2> SUFFICES ASSUME x.data # End
               PROVE  x.data < k /\ Absent(x.data, s) /\ \A p \in Positions : b[p] # x.data
    OBVIOUS
  <2>1. x.data \in Nat /\ x.data < k /\ ~(x.data < n)
    OBVIOUS
  <2>2. \A i \in 1..Len(s) : s[i] # x.data
    BY <2>1 DEF Differ
  <2>3. \A p \in Positions : b[p] # x.data
    <3>1. \A p \in Positions : b[p] # None => b[p] < n
      BY Zenon DEF KeptOnce
    <3>. QED  BY <1>2, <2>1, <3>1
  <2>. QED  BY <2>1, <2>2, <2>3 DEF Absent
<1>9. OnWayOnce(r, b, s, k)
  <2> SUFFICES ASSUME NEW i \in 1..Len(r), r[i].data # End
               PROVE  /\ r[i].data < k /\ Absent(r[i].data, s)
                      /\ \A p \in Positions : b[p] # r[i].data
                      /\ \A j \in 1..Len(r) : i # j => r[i].data # r[j].data
    BY Zenon DEF OnWayOnce
  <2>1. \A j \in 1..Len(r) : j = c + 1 \/ j \in 1..c
    BY <1>1
  <2>2. CASE i = c + 1
    <3>1. r[i] = x /\ \A j \in 1..Len(r) : i # j => j \in 1..c
      BY <1>1, <2>1, <2>2
    <3>2. ASSUME NEW j \in 1..Len(r), i # j PROVE x.data # r[j].data
      <4>1. j \in 1..c /\ r[j] = q[j]
        BY <1>1, <3>1, <3>2
      <4>. QED  BY <1>7, <3>1, <4>1
    <3>. QED  BY <1>8, <3>1, <3>2
  <2>3. CASE i # c + 1
    <3>1. i \in 1..c /\ r[i] = q[i]
      BY <1>1, <2>1, <2>3
    <3>2. ASSUME NEW j \in 1..Len(r), i # j PROVE q[i].data # r[j].data
      <4>1. CASE j = c + 1
        BY <1>1, <1>7, <3>1, <4>1
      <4>2. CASE j \in 1..c
        BY <1>1, <1>7, <3>1, <3>2, <4>2
      <4>. QED  BY <2>1, <4>1, <4>2
    <3>. QED  BY <1>7, <3>1, <3>2
  <2>. QED  BY <2>2, <2>3
<1>10. ASSUME NEW m \in Packets, m.data \in Nat, InHand(m, q, b, s, n)
       PROVE  InHand(m, r, b, s, k)
  <2>1. m.data < n /\ Absent(m.data, s) /\ KeptOnlyAt(b, m.data, Pos(m.num))
        /\ \A j \in 1..c : q[j].data # m.data
    BY <1>10, Zenon DEF InHand, c
  <2>2. m.data < k /\ x.data # m.data
    BY <1>3, <1>10, <2>1
  <2>3. ASSUME NEW j \in 1..Len(r) PROVE r[j].data # m.data
    <3>1. r[j] = x \/ (j \in 1..c /\ r[j] = q[j])
      <4>1. j = c + 1 \/ j \in 1..c
        BY <1>1
      <4>. QED  BY <1>1, <4>1
    <3>. QED  BY <2>1, <2>2, <3>1
  <2>. QED  BY <2>1, <2>2, <2>3, Zenon DEF InHand
<1>. QED  BY <1>4, <1>6, <1>9, <1>10 DEF r

LEMMA OnePlaceInit == Init => OnePlace
<1> SUFFICES ASSUME Init PROVE OnePlace
  OBVIOUS
<1>1. /\ NoAnswers /\ out = <<>> /\ down = <<>> /\ again = None
      /\ buf = [p \in Positions |-> None]
  BY DEF Init, NoAnswers
<1>2. \A i \in 1..Len(<<>>) : FALSE
  OBVIOUS
<1>3. Differ(out, sent) /\ OnWayOnce(down, buf, out, sent)
  BY <1>1, <1>2 DEF Differ, OnWayOnce
<1>4. KeptOnce(buf, out, sent)
  BY <1>1 DEF KeptOnce
<1>. QED  BY <1>1, <1>3, <1>4 DEF OnePlace

LEMMA OnePlaceStep == Typed /\ OnePlace /\ [Next]_vars => OnePlace'
<1>1. [Next]_vars => env' = env
  BY SameEnv
<1> SUFFICES ASSUME Typed, OnePlace, [Next]_vars, ~env.heartbeat PROVE OnePlace'
  BY <1>1 DEF OnePlace
<1>2. /\ buf \in [Positions -> Nat \union {None}] /\ out \in Seq(Nat) /\ sent \in Nat
      /\ down \in Seq(Packets) /\ num \in Numbers /\ sock \in Nat
      /\ again \in Packets \union {None} /\ (again # None => again.data \in Nat)
  BY EnvFacts DEF Typed, SenderType, ReceiverType, LinkType
<1>3. /\ cache = <<>> /\ asked = <<>> /\ up = <<>>
      /\ Differ(out, sent) /\ KeptOnce(buf, out, sent) /\ OnWayOnce(down, buf, out, sent)
      /\ again # None => InHand(again, down, buf, out, sent)
  BY DEF OnePlace, NoAnswers
<1>4. ~Refuse /\ ~GiveUp /\ ~Heart
  BY <1>3 DEF Refuse, GiveUp, CacheFull, Heart, HeartAck, HeartRequest, NobodyListens, Answered,
     Resend
<1>5. CASE Send \/ Close
  <2>1. PICK x \in Packets, k \in Nat :
          /\ down' = Append(down, x) /\ sent' = k /\ sent <= k
          /\ x.data = End \/ x.data \in sent..(k - 1)
    <3>1. CASE Send
      <4>1. down' = Append(down, Packet(sent)) /\ sent' = sent + 1
        BY <3>1 DEF Send
      <4>2. Packet(sent) \in Packets /\ Packet(sent).data = sent
        BY <1>2, PacketType DEF Packet
      <4>3. sent + 1 \in Nat /\ sent <= sent + 1 /\ sent \in sent..(sent + 1 - 1)
        BY <1>2
      <4>. QED  BY <4>1, <4>2, <4>3
    <3>2. CASE Close
      <4>1. down' = Append(down, Packet(End)) /\ sent' = sent
        BY <3>2 DEF Close
      <4>2. Packet(End) \in Packets /\ Packet(End).data = End
        BY <1>2, PacketType DEF Packet
      <4>3. sent <= sent
        BY <1>2
      <4>. QED  BY <1>2, <4>1, <4>2, <4>3
    <3>. QED  BY <1>5, <3>1, <3>2
  <2>2. /\ cache' = <<>> /\ asked' = <<>> /\ up' = up
        /\ buf' = buf /\ out' = out /\ again' = again
    BY <1>3, <1>5 DEF Send, Close, rvars
  <2>3. /\ Differ(out, k) /\ KeptOnce(buf, out, k) /\ OnWayOnce(Append(down, x), buf, out, k)
        /\ \A m \in Packets : m.data \in Nat /\ InHand(m, down, buf, out, sent)
                               => InHand(m, Append(down, x), buf, out, k)
    BY <1>2, <1>3, <2>1, MoreOnWay
  <2>4. again # None => InHand(again, Append(down, x), buf, out, k)
    BY <1>2, <1>3, <2>3
  <2>. QED  BY <1>3, <2>1, <2>2, <2>3, <2>4 DEF OnePlace, NoAnswers
<1>6. CASE Receive
  <2>1. UNCHANGED <<cache, asked, sent>>
    BY <1>6 DEF Receive, svars
  <2>2. PICK m \in Packets, d \in Seq(Packets) :
          /\ m.data \in Nat /\ Process(m) /\ down' = d
          /\ OnePlaceIn(d, buf, out) /\ InHand(m, d, buf, out, sent)
    <3>1. CASE again # None
      <4>1. Process(again) /\ down' = down
        BY <1>6, <3>1 DEF Receive
      <4>. QED  BY <1>2, <1>3, <3>1, <4>1 DEF OnePlaceIn
    <3>2. CASE again = None
      <4>1. PICK i \in 1..Len(down) : /\ down[i].data # End /\ Process(down[i])
                                      /\ down' = RemoveAt(down, i)
        BY <1>6, <3>2 DEF Receive
      <4>2. down[i] \in Packets
        BY <1>2, ElementOfSeq
      <4>3. down[i].data \in Nat
        BY <4>1, <4>2, PacketFacts
      <4>4. RemoveAt(down, i) \in Seq(Packets)
        BY <1>2, Removed
      <4>5. /\ OnWayOnce(RemoveAt(down, i), buf, out, sent)
            /\ InHand(down[i], RemoveAt(down, i), buf, out, sent)
        BY <1>2, <1>3, <4>1, FewerOnWay
      <4>. QED  BY <1>3, <4>1, <4>2, <4>3, <4>4, <4>5 DEF OnePlaceIn
    <3>. QED  BY <3>1, <3>2
  <2>3. /\ OnePlaceIn(d, buf', out') /\ up' = up
        /\ again' # None => again' = m /\ InHand(m, d, buf', out', sent)
    BY <2>2, ProcessOnce
  <2>. QED  BY <1>3, <2>1, <2>2, <2>3 DEF OnePlace, OnePlaceIn, NoAnswers
<1>7. CASE DropEnd \/ Lose
  <2>1. UNCHANGED <<cache, asked, sent, buf, out, again>>
    BY <1>7 DEF DropEnd, Lose, svars, rvars
  <2>2. PICK i \in 1..Len(down) : down' = RemoveAt(down, i) /\ up' = up
    <3>1. \A i \in 1..Len(<<>>) : FALSE
      OBVIOUS
    <3>. QED  BY <1>3, <1>7, <3>1 DEF DropEnd, Lose
  <2>3. /\ OnWayOnce(RemoveAt(down, i), buf, out, sent)
        /\ again # None => InHand(again, RemoveAt(down, i), buf, out, sent)
    BY <1>2, <1>3, FewerOnWay
  <2>. QED  BY <1>3, <2>1, <2>2, <2>3 DEF OnePlace, NoAnswers
<1>8. CASE IdlePeriod
  <2>1. UNCHANGED <<cache, asked, sent, out, again, down>> /\ up' = <<>>
    BY <1>8 DEF IdlePeriod, svars
  <2>2. buf' = buf \/ buf' = [p \in Positions |-> None]
    BY <1>8 DEF IdlePeriod
  <2>3. down = <<>> /\ again = None
    BY <1>8 DEF IdlePeriod
  <2>4. KeptOnce(buf', out, sent)
    BY <1>3, <2>2 DEF KeptOnce
  <2>5. OnWayOnce(down, buf', out, sent)
    <3>1. \A i \in 1..Len(<<>>) : FALSE
      OBVIOUS
    <3>. QED  BY <2>3, <3>1 DEF OnWayOnce
  <2>. QED  BY <1>3, <2>1, <2>3, <2>4, <2>5 DEF OnePlace, NoAnswers
<1>9. CASE Finish \/ UNCHANGED vars
  <2>1. UNCHANGED <<cache, asked, up, sent, out, again, down, buf>>
    BY <1>9 DEF Finish, vars, svars, rvars
  <2>. QED  BY <1>3, <2>1 DEF OnePlace, NoAnswers
<1>. QED  BY <1>4, <1>5, <1>6, <1>7, <1>8, <1>9 DEF Next, Sender, Receiver

(* Without a heartbeat packets are skipped and come late, and a packet whose *)
(* send failed is processed a second time, but none is sent on twice         *)
(* (udp_socket.cpp:1375, 1405).                                              *)
THEOREM OnceHolds == Spec => []OncePerPacket
<1>1. OnePlace => OncePerPacket
  BY DEF OnePlace, Differ, OncePerPacket
<1>2. Init => Typed /\ OnePlace
  BY TypedInit, OnePlaceInit
<1>3. Typed /\ OnePlace /\ [Next]_vars => Typed' /\ OnePlace'
  BY TypedStep, OnePlaceStep
<1>. QED  BY <1>1, <1>2, <1>3, PTL DEF Spec
=============================================================================
