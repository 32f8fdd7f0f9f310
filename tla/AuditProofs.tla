---------------------------- MODULE AuditProofs ----------------------------
(***************************************************************************)
(* Proofs about Audit for any sources, servers and settings.               *)
(***************************************************************************)
EXTENDS Audit, WellFoundedInduction, TLAPS

-----------------------------------------------------------------------------
(* Numbers.                                                                *)

(* A set of numbers has a least one. *)
LEMMA LeastOf ==
  ASSUME NEW S \in SUBSET Nat, S # {}
  PROVE  \E x \in S : \A y \in S : x <= y
<1>1. PICK x \in S : \A y \in S : ~ (<<y, x>> \in OpToRel(<, Nat))
  BY NatLessThanWellFounded, WFMin
<1>2. ASSUME NEW y \in S PROVE x <= y
  <2>1. ~(y < x)
    <3>1. SUFFICES ASSUME y < x PROVE <<y, x>> \in OpToRel(<, Nat)
      BY <1>1
    <3>2. <<y, x>> \in Nat \X Nat /\ <<y, x>>[1] < <<y, x>>[2]
      BY <3>1
    <3>. QED  BY <3>2, Zenon DEF OpToRel
  <2>. QED  BY <2>1
<1>. QED  BY <1>2

(* What \div and % give. *)
LEMMA DivMod ==
  ASSUME NEW p \in Nat \ {0}, NEW x \in Int, NEW d, NEW e, d = x \div p, e = x % p
  PROVE  d \in Int /\ e \in 0..(p - 1) /\ x = p * d + e
OBVIOUS

LEMMA ModOf ==
  ASSUME NEW p \in Nat \ {0}, NEW m \in Int, NEW r \in 0..(p - 1)
  PROVE  (m * p + r) % p = r
<1> DEFINE x == m * p + r
           d == x \div p
           e == x % p
<1>1. x \in Int /\ d \in Int /\ e \in 0..(p - 1) /\ x = p * d + e
  OBVIOUS
<1>2. (m - d) * p = e - r
  BY <1>1
<1> HIDE DEF x, d, e
<1>3. ASSUME m - d >= 1 PROVE FALSE
  <2>1. (m - d) * p >= p
    BY <1>1, <1>3
  <2>. QED  BY <1>1, <1>2, <2>1
<1>4. ASSUME m - d <= -1 PROVE FALSE
  <2>1. (m - d) * p <= -p
    BY <1>1, <1>4
  <2>. QED  BY <1>1, <1>2, <2>1
<1>5. m - d = 0
  BY <1>1, <1>3, <1>4
<1>6. e = r
  BY <1>1, <1>2, <1>5
<1>. QED  BY <1>6 DEF e, x

(* The larger and the smaller of two numbers. *)
LEMMA MaxOfTwo ==
  ASSUME NEW a \in Int, NEW b \in Int
  PROVE  Max({a, b}) = IF a >= b THEN a ELSE b
BY DEF Max

LEMMA MinOfTwo ==
  ASSUME NEW a \in Int, NEW b \in Int
  PROVE  Min({a, b}) = IF a <= b THEN a ELSE b
BY DEF Min

-----------------------------------------------------------------------------
(* The white frames of a packet of n bytes, when total bytes have come.    *)

LEMMA PeriodFacts ==
  ASSUME env \in SettingType
  PROVE  /\ Period \in Nat /\ Interval \in Nat /\ env.len \in Nat
         /\ env.len >= 1 /\ Interval >= 1 /\ Period = Interval + env.len
<1>1. env.k \in Nat /\ env.k >= 1 /\ env.len \in 1..(Unit - 1) /\ Unit \in Nat /\ Unit >= 2
  BY UnitAssumption DEF SettingType
<1>2. env.k * Unit >= Unit /\ env.k * Unit \in Nat
  BY <1>1
<1>. QED  BY <1>1, <1>2 DEF Period, Interval

(* The first frame the packet meets begins Interval bytes into a period,   *)
(* and less than a frame before the packet.                                *)
LEMMA FirstFrame ==
  ASSUME env \in SettingType, NEW before \in Nat
  PROVE  /\ \E m \in Int : First(before) = m * Period + Interval
         /\ First(before) \in Int
         /\ before - env.len < First(before)
         /\ First(before) <= before + Interval
         /\ Offset(before) = First(before) - before
<1>0. /\ Period \in Nat /\ Interval \in Nat /\ env.len \in Nat
      /\ env.len >= 1 /\ Interval >= 1 /\ Period = Interval + env.len
  BY PeriodFacts
<1> DEFINE r == before % Period
           m == before \div Period
<1>1. r \in 0..(Period - 1) /\ m \in Int /\ before = Period * m + r
  <2>1. Period \in Nat \ {0} /\ before \in Int
    BY <1>0
  <2>2. \A d, e : d = before \div Period /\ e = before % Period =>
                  d \in Int /\ e \in 0..(Period - 1) /\ before = Period * d + e
    BY <2>1, DivMod
  <2>. QED  BY <2>2
<1>2. Period * m = m * Period
  BY <1>0, <1>1
<1>3. First(before) = before + (Interval - r)
  BY DEF First
<1> HIDE DEF r, m
<1>4. First(before) = m * Period + Interval
  BY <1>0, <1>1, <1>2, <1>3
<1>5. First(before) % Period = Interval
  BY <1>0, <1>1, <1>4, ModOf
<1>6. Offset(before) = First(before) - before
  BY <1>0, <1>5 DEF Offset
<1>. QED  BY <1>0, <1>1, <1>3, <1>4, <1>6

(* The frame that begins at start in the stream: which of the bytes of a   *)
(* period from there are white.                                            *)
LEMMA FrameFrom ==
  ASSUME env \in SettingType, NEW m \in Int, NEW y \in -Interval..(Period - 1)
  PROVE  ((m * Period + Interval) + y) % Period >= Interval <=> y \in 0..(env.len - 1)
<1>0. /\ Period \in Nat /\ Interval \in Nat /\ env.len \in Nat
      /\ env.len >= 1 /\ Interval >= 1 /\ Period = Interval + env.len
  BY PeriodFacts
<1>1. CASE y < env.len
  <2>1. ((m * Period + Interval) + y) = m * Period + (Interval + y) /\ Interval + y \in 0..(Period - 1)
        /\ Period \in Nat \ {0}
    BY <1>0, <1>1
  <2>2. (m * Period + (Interval + y)) % Period = Interval + y
    BY <2>1, ModOf, Zenon
  <2>3. ((m * Period + Interval) + y) % Period = Interval + y
    BY <2>1, <2>2, Zenon
  <2>. QED  BY <2>3, <1>0, <1>1
<1>2. CASE y >= env.len
  <2>1. /\ ((m * Period + Interval) + y) = (m + 1) * Period + (y - env.len)
        /\ y - env.len \in 0..(Period - 1) /\ y - env.len < Interval
    BY <1>0, <1>2
  <2>2. ((m + 1) * Period + (y - env.len)) % Period = y - env.len
    BY <2>1, <1>0, ModOf
  <2>3. ((m * Period + Interval) + y) % Period = y - env.len
    BY <2>1, <2>2, Zenon
  <2>. QED  BY <2>3, <1>0, <1>2
<1>. QED  BY <1>0, <1>1, <1>2

(* The turns of the loop that puts the frames in. *)
FrameStep(total, w) ==
  LET from == Max({w.offset, 0})
      null == Min({total - w.start, env.len}) + Min({w.offset, 0})
  IN [start |-> w.start + Period, offset |-> from + Interval + null,
      zeroed |-> w.zeroed \cup (from..(from + null - 1))]

FirstTurn(before) == [start |-> First(before), offset |-> Offset(before), zeroed |-> {}]
NextTurn(total, w) == IF w.start < total THEN FrameStep(total, w) ELSE w
IsLoop(total, n, k, g) ==
  g = [i \in 0..k |-> IF i = 0 THEN FirstTurn(total - n) ELSE NextTurn(total, g[i - 1])]

(* A loop of any number of turns exists. *)
LEMMA LoopExists ==
  ASSUME NEW total, NEW n \in Nat
  PROVE  \E g : IsLoop(total, n, n, g)
<1> DEFINE Bad == {k \in Nat : ~ \E g : IsLoop(total, n, k, g)}
<1> SUFFICES ASSUME Bad # {} PROVE FALSE
  OBVIOUS
<1>1. PICK k \in Bad : \A j \in Bad : k <= j
  BY LeastOf
<1>2. CASE k = 0
  <2> DEFINE g == [i \in 0..0 |-> FirstTurn(total - n)]
  <2>1. IsLoop(total, n, 0, g)
    BY DEF IsLoop
  <2>. QED  BY <1>1, <1>2, <2>1
<1>3. CASE k # 0
  <2>1. k - 1 \in Nat /\ k - 1 \notin Bad
    BY <1>1, <1>3
  <2>2. PICK g : IsLoop(total, n, k - 1, g)
    BY <2>1
  <2> DEFINE h == [i \in 0..k |-> IF i < k THEN g[i] ELSE NextTurn(total, g[k - 1])]
  <2>3. \A i \in 0..(k - 1) : h[i] = g[i]
    BY <1>1
  <2>4. \A i \in 0..k : h[i] = IF i = 0 THEN FirstTurn(total - n) ELSE NextTurn(total, h[i - 1])
    <3> SUFFICES ASSUME NEW i \in 0..k
                 PROVE  h[i] = IF i = 0 THEN FirstTurn(total - n) ELSE NextTurn(total, h[i - 1])
      OBVIOUS
    <3>1. CASE i = k
      BY <3>1, <1>1, <1>3, <2>3
    <3>2. CASE i # k
      <4>1. i \in 0..(k - 1) /\ (i # 0 => i - 1 \in 0..(k - 1))
        BY <3>2, <1>1
      <4>2. g[i] = IF i = 0 THEN FirstTurn(total - n) ELSE NextTurn(total, g[i - 1])
        BY <4>1, <2>2 DEF IsLoop
      <4>. QED  BY <4>1, <4>2, <2>3
    <3>. QED  BY <3>1, <3>2
  <2>5. IsLoop(total, n, k, h)
    BY <2>4 DEF IsLoop
  <2>. QED  BY <1>1, <2>5
<1>. QED  BY <1>2, <1>3

LEMMA WhitenedIsLoop ==
  ASSUME NEW total, NEW n \in Nat
  PROVE  \E g : IsLoop(total, n, n, g) /\ Whitened(total, n) = g[n].zeroed
<1> DEFINE L == CHOOSE g : IsLoop(total, n, n, g)
<1>1. IsLoop(total, n, n, L)
  BY LoopExists
<1>2. Whitened(total, n) = L[n].zeroed
  BY Zenon DEF Whitened, IsLoop, FirstTurn, NextTurn, FrameStep
<1>. QED  BY <1>1, <1>2

(* What every turn leaves: the white bytes before the frame the loop has   *)
(* come to, which begins where a period's last bytes begin.                *)
LoopRules(total, n, i, w) ==
  /\ w.start \in Int
  /\ \E m \in Int : w.start = m * Period + Interval
  /\ w.start < total => w.offset = w.start - (total - n) /\ w.offset > -env.len
  /\ w.zeroed = {j \in 0..(n - 1) : ((total - n) + j) % Period >= Interval /\ (total - n) + j < w.start}
  /\ w.start >= total \/ i = 0 \/ w.start >= (total - n) + i
  /\ i = 0 => w.start > (total - n) - env.len

LEMMA FirstTurnRight ==
  ASSUME env \in SettingType, NEW total \in Nat, NEW n \in Nat \ {0}, n <= total
  PROVE  LoopRules(total, n, 0, FirstTurn(total - n))
<1> DEFINE b == total - n
           w == FirstTurn(b)
<1>0. /\ Period \in Nat /\ Interval \in Nat /\ env.len \in Nat
      /\ env.len >= 1 /\ Interval >= 1 /\ Period = Interval + env.len
  BY PeriodFacts
<1>1. b \in Nat
  OBVIOUS
<1>2. /\ \E m \in Int : w.start = m * Period + Interval
      /\ w.start \in Int /\ b - env.len < w.start /\ w.start <= b + Interval
      /\ w.offset = w.start - b /\ w.zeroed = {}
  BY <1>1, FirstFrame DEF FirstTurn
<1> HIDE DEF w
<1>. w.start \in Int /\ w.start <= b + Interval
  BY <1>2
<1>3. ASSUME NEW j \in 0..(n - 1), b + j < w.start, (b + j) % Period >= Interval PROVE FALSE
  <2>1. PICK m \in Int : w.start = m * Period + Interval
    BY <1>2
  <2> DEFINE y == (b + j) - w.start
  <2>. b + j < w.start
    BY <1>3
  <2>2. y \in -Interval..(Period - 1) /\ y < 0 /\ b + j = w.start + y
    BY <1>0, <1>1
  <2> HIDE DEF y
  <2>3. (w.start + y) % Period >= Interval <=> y \in 0..(env.len - 1)
    BY <2>1, <2>2, FrameFrom
  <2>. QED  BY <1>3, <2>2, <2>3
<1>4. {j \in 0..(n - 1) : (b + j) % Period >= Interval /\ b + j < w.start} = {}
  BY <1>3
<1>5. w.start < total => w.offset = w.start - b /\ w.offset > -env.len
  BY <1>0, <1>1, <1>2
<1>. QED  BY <1>2, <1>4, <1>5 DEF LoopRules, w

LEMMA NextTurnRight ==
  ASSUME env \in SettingType, NEW total \in Nat, NEW n \in Nat \ {0}, n <= total,
         NEW i \in Nat, NEW w, LoopRules(total, n, i, w)
  PROVE  LoopRules(total, n, i + 1, NextTurn(total, w))
<1> DEFINE b == total - n
           v == NextTurn(total, w)
<1>0. /\ Period \in Nat /\ Interval \in Nat /\ env.len \in Nat
      /\ env.len >= 1 /\ Interval >= 1 /\ Period = Interval + env.len /\ b \in Nat
  BY PeriodFacts
<1>1. CASE w.start >= total
  <2>1. v = w
    BY <1>1 DEF NextTurn, LoopRules
  <2>. QED  BY <1>1, <2>1 DEF LoopRules
<1>2. CASE w.start < total
  <2> DEFINE o == w.offset
             from == Max({o, 0})
             null == Min({total - w.start, env.len}) + Min({o, 0})
  <2>1. w.start \in Int /\ o = w.start - b /\ o \in Int /\ o > -env.len /\ o < n
    BY <1>0, <1>2 DEF LoopRules
  <2>2. v = [start |-> w.start + Period, offset |-> from + Interval + null,
             zeroed |-> w.zeroed \cup (from..(from + null - 1))]
    BY <1>2, <2>1 DEF NextTurn, FrameStep
  <2>3. /\ from = IF o >= 0 THEN o ELSE 0
        /\ null = (IF total - w.start <= env.len THEN total - w.start ELSE env.len)
                  + (IF o <= 0 THEN o ELSE 0)
    BY <1>0, <2>1, MaxOfTwo, MinOfTwo
  <2> HIDE DEF from, null
  <2>4. from \in Nat /\ null \in Int
    BY <1>0, <2>1, <2>3
  <2>5. PICK m \in Int : w.start = m * Period + Interval
    BY DEF LoopRules
  <2>6. v.start = (m + 1) * Period + Interval /\ v.start = w.start + Period /\ v.start \in Int
    <3>1. v.start = w.start + Period
      BY <2>2
    <3>2. m * Period \in Int /\ (m + 1) * Period = m * Period + Period
      BY <1>0
    <3>. QED  BY <1>0, <2>1, <2>5, <3>1, <3>2
  <2>7. v.start < total => v.offset = v.start - b /\ v.offset > -env.len
    BY <1>0, <2>1, <2>2, <2>3, <2>6
  <2>8. ASSUME NEW j \in 0..(n - 1)
        PROVE  j \in v.zeroed <=> (b + j) % Period >= Interval /\ b + j < v.start
    <3> DEFINE y == (b + j) - w.start
    <3>1. y \in Int /\ b + j = w.start + y
      BY <1>0, <2>1
    <3>2. j \in w.zeroed <=> (b + j) % Period >= Interval /\ b + j < w.start
      BY DEF LoopRules
    <3>3. j \in v.zeroed <=> j \in w.zeroed \/ (from <= j /\ j <= from + null - 1)
      BY <2>2, <2>4
    <3>4. from <= j /\ j <= from + null - 1 <=> 0 <= y /\ y < env.len
      BY <1>0, <2>1, <2>3, <2>4
    <3> HIDE DEF y
    <3>5. CASE y < 0
      <4>1. b + j < w.start /\ b + j < v.start
        BY <1>0, <2>1, <2>6, <3>1, <3>5
      <4>2. ~(0 <= y)
        BY <3>1, <3>5
      <4>. QED  BY <3>2, <3>3, <3>4, <4>1, <4>2
    <3>6. CASE 0 <= y /\ y < Period
      <4>. y \in -Interval..(Period - 1)
        BY <1>0, <3>1, <3>6
      <4>0. ((m * Period + Interval) + y) % Period >= Interval <=> y \in 0..(env.len - 1)
        BY FrameFrom
      <4>1. (w.start + y) % Period >= Interval <=> y \in 0..(env.len - 1)
        BY <4>0, <2>5
      <4>2. (b + j) % Period >= Interval <=> y \in 0..(env.len - 1)
        BY <3>1, <4>1
      <4>3. ~(b + j < w.start) /\ b + j < v.start
        BY <1>0, <2>1, <2>6, <3>1, <3>6
      <4>. QED  BY <1>0, <3>1, <3>2, <3>3, <3>4, <3>6, <4>2, <4>3
    <3>7. CASE y >= Period
      <4>1. ~(b + j < v.start) /\ ~(b + j < w.start) /\ ~(y < env.len)
        BY <1>0, <2>1, <2>6, <3>1, <3>7
      <4>. QED  BY <3>2, <3>3, <3>4, <4>1
    <3>. QED  BY <1>0, <3>1, <3>5, <3>6, <3>7
  <2>9. v.zeroed = {j \in 0..(n - 1) : (b + j) % Period >= Interval /\ b + j < v.start}
    <3>1. w.zeroed \subseteq 0..(n - 1)
      BY DEF LoopRules
    <3>2. from..(from + null - 1) \subseteq 0..(n - 1)
      BY <1>0, <2>1, <2>3, <2>4
    <3>. QED  BY <2>2, <2>8, <3>1, <3>2
  <2>10. v.start >= total \/ v.start >= b + (i + 1)
    BY <1>0, <1>2, <2>1, <2>6 DEF LoopRules
  <2> HIDE DEF v, b
  <2>11. i + 1 # 0
    OBVIOUS
  <2>12. b = total - n
    BY DEF b
  <2>. QED  BY <2>6, <2>7, <2>9, <2>10, <2>11, <2>12 DEF LoopRules, v
<1>3. w.start \in Int
  BY DEF LoopRules
<1>. QED  BY <1>1, <1>2, <1>3

(* Whatever has come before, the bytes of a packet that are zeroed are     *)
(* those in the last len of a period of the stream.                        *)
THEOREM WhitenedRight ==
  ASSUME env \in SettingType, NEW total \in Nat, NEW n \in Nat \ {0}, n <= total
  PROVE  Whitened(total, n) = {j \in 0..(n - 1) : ((total - n) + j) % Period >= Interval}
<1>1. PICK g : IsLoop(total, n, n, g) /\ Whitened(total, n) = g[n].zeroed
  BY WhitenedIsLoop
<1>2. \A i \in 0..n : g[i] = IF i = 0 THEN FirstTurn(total - n) ELSE NextTurn(total, g[i - 1])
  BY <1>1 DEF IsLoop
<1>3. \A i \in 0..n : LoopRules(total, n, i, g[i])
  <2> DEFINE Bad == {i \in 0..n : ~LoopRules(total, n, i, g[i])}
  <2> SUFFICES ASSUME Bad # {} PROVE FALSE
    OBVIOUS
  <2>1. PICK i \in Bad : \A j \in Bad : i <= j
    <3>1. Bad \in SUBSET Nat
      OBVIOUS
    <3>. QED  BY <3>1, LeastOf
  <2>2. CASE i = 0
    BY <1>2, <2>1, <2>2, FirstTurnRight
  <2>3. CASE i # 0
    <3>1. i - 1 \in 0..n /\ i - 1 \in Nat /\ (i - 1) + 1 = i /\ i - 1 \notin Bad
      BY <2>1, <2>3
    <3>2. LoopRules(total, n, i - 1, g[i - 1])
      BY <3>1
    <3>3. LoopRules(total, n, (i - 1) + 1, NextTurn(total, g[i - 1]))
      BY <3>1, <3>2, NextTurnRight
    <3>. QED  BY <1>2, <2>1, <2>3, <3>1, <3>3
  <2>. QED  BY <2>2, <2>3
<1>4. LoopRules(total, n, n, g[n])
  BY <1>3
<1>5. g[n].start \in Int /\ g[n].start >= total
  BY <1>4 DEF LoopRules
<1>6. \A j \in 0..(n - 1) : (total - n) + j < g[n].start
  BY <1>5
<1>7. g[n].zeroed = {j \in 0..(n - 1) : ((total - n) + j) % Period >= Interval /\ (total - n) + j < g[n].start}
  BY <1>4 DEF LoopRules
<1>. QED  BY <1>1, <1>6, <1>7

-----------------------------------------------------------------------------
(* The maps and the servers.                                               *)

\* A server has a packet in its hands.
Busy(d) == server[d].pc \in {"got", "counted", "noted", "seen", "done"}

\* The packet is part of what was heard of its flow, the library sees flows
\* noted for it only, and the stream is as long as what was heard.
PacketRules ==
  \A d \in Dests :
    /\ Busy(d) => /\ server[d].src \in Sources /\ server[d].len \in Nat \ {0}
                  /\ server[d].len <= heard[<<server[d].src, d>>]
    /\ At(d, "noted") => env.lib /\ d \in DOMAIN coding /\ server[d].src \in coding[d]
    /\ Busy(d) /\ ~At(d, "got") /\ env.audit =>
         /\ server[d].len <= server[d].total
         /\ ~env.shared => server[d].total = heard[<<server[d].src, d>>]

\* Nothing is kept of a server that has ended.
MapRules ==
  /\ \A t \in DOMAIN nodes : ~At(nodes[t].dst, "off") /\ ~At(nodes[t].dst, "removed")
  /\ \A e \in DOMAIN coding : ~At(e, "off")
  /\ ~env.lib => DOMAIN coding = {}
  /\ \A f \in media : f[2] \in DOMAIN coding /\ f[1] \in coding[f[2]]

\* The bytes of each flow that wait to be counted.
Waiting == [f \in Flows |-> Uncounted(f)]

\* A source of one server is heard by that server alone, and its node has
\* all that was counted.
NodeRules ==
  ~env.shared =>
    /\ \A s \in Sources, d, e \in Dests : heard[<<s, d>>] > 0 /\ heard[<<s, e>>] > 0 => d = e
    /\ env.audit =>
         /\ \A t \in DOMAIN nodes :
              LET f == <<t, nodes[t].dst>> IN nodes[t].stat > 0 /\ nodes[t].stat = heard[f] - Waiting[f]
         /\ \A f \in Flows : heard[f] > Waiting[f] => f[1] \in DOMAIN nodes /\ nodes[f[1]].dst = f[2]

Inductive == TypeOK /\ PacketRules /\ MapRules /\ NodeRules /\ WhiteFramesRight

(* TypeOK in parts. *)
ServerType == [pc : {"off", "idle", "got", "counted", "noted", "seen", "done", "ended", "removed"},
               src : Sources \cup {NoSource}, len : Nat, total : Nat, zeroed : SUBSET (0..(env.bytes - 1))]
NodesType == DOMAIN nodes \subseteq Sources /\ \A t \in DOMAIN nodes : nodes[t] \in [dst : Dests, stat : Nat]
CodingType == DOMAIN coding \subseteq Dests /\ \A e \in DOMAIN coding : coding[e] \in SUBSET Sources
ServersType == server \in [Dests -> ServerType]
HeardType == heard \in [Flows -> 0..env.bytes]

LEMMA TypeParts ==
  TypeOK <=> /\ env \in Settings /\ NodesType /\ CodingType /\ media \in SUBSET Flows
             /\ ServersType /\ HeardType
BY DEF TypeOK, NodesType, CodingType, ServersType, ServerType, HeardType

LEMMA SettingFacts ==
  ASSUME env \in Settings
  PROVE  /\ env \in SettingType /\ env.bytes \in Nat
         /\ env.shared \in BOOLEAN /\ env.lib \in BOOLEAN /\ env.audit \in BOOLEAN
BY SettingsAssumption DEF SettingType

(* What the audit does to its nodes when n more bytes have come from s. *)
Grown(new, s, d, n) ==
  /\ DOMAIN new = DOMAIN nodes \cup {s}
  /\ \A t \in DOMAIN new : new[t] \in [dst : Dests, stat : Nat]
  /\ \A t \in DOMAIN nodes : new[t].dst = nodes[t].dst /\ (t # s => new[t] = nodes[t])
  /\ s \in DOMAIN nodes => new[s].stat = nodes[s].stat + n
  /\ s \notin DOMAIN nodes => new[s] = [dst |-> d, stat |-> n]
  /\ new[s].stat >= n

LEMMA AuditAddRight ==
  ASSUME NodesType, NEW s \in Sources, NEW d \in Dests, NEW n \in Nat
  PROVE  Grown(AuditAdd(s, d, n), s, d, n)
<1>1. ASSUME s \in DOMAIN nodes
      PROVE  /\ [nodes[s] EXCEPT !.stat = @ + n] \in [dst : Dests, stat : Nat]
             /\ [nodes[s] EXCEPT !.stat = @ + n].dst = nodes[s].dst
             /\ [nodes[s] EXCEPT !.stat = @ + n].stat = nodes[s].stat + n
             /\ nodes[s].stat \in Nat
  BY <1>1 DEF NodesType
<1>2. Node(d, n) = [dst |-> d, stat |-> n] /\ Node(d, n) \in [dst : Dests, stat : Nat]
  BY DEF Node
<1>3. CASE s \in DOMAIN nodes
  BY <1>1, <1>3 DEF AuditAdd, NodesType, Grown
<1>4. CASE s \notin DOMAIN nodes
  BY <1>2, <1>4 DEF AuditAdd, NodesType, Grown
<1>. QED  BY <1>3, <1>4

LEMMA CountedType ==
  ASSUME ServersType, NEW d \in Dests, NEW x \in Nat
  PROVE  [server EXCEPT ![d].pc = "counted", ![d].total = x] \in [Dests -> ServerType]
BY ZenonT(60) DEF ServersType, ServerType

LEMMA WhitenedType ==
  ASSUME ServersType, NEW d \in Dests, NEW z \in SUBSET (0..(env.bytes - 1))
  PROVE  [server EXCEPT ![d].pc = "done", ![d].zeroed = z] \in [Dests -> ServerType]
<1> DEFINE Z == 0..(env.bytes - 1)
<1> HIDE DEF Z
<1>1. server \in [Dests -> [pc : {"off", "idle", "got", "counted", "noted", "seen", "done", "ended", "removed"},
               src : Sources \cup {NoSource}, len : Nat, total : Nat, zeroed : SUBSET Z]]
  BY DEF ServersType, ServerType, Z
<1>2. z \in SUBSET Z
  BY DEF Z
<1>3. [server EXCEPT ![d].pc = "done", ![d].zeroed = z] \in
        [Dests -> [pc : {"off", "idle", "got", "counted", "noted", "seen", "done", "ended", "removed"},
               src : Sources \cup {NoSource}, len : Nat, total : Nat, zeroed : SUBSET Z]]
  BY ZenonT(60), <1>1, <1>2
<1>. QED  BY <1>3 DEF ServerType, Z

(* Types. *)
LEMMA TypeStep ==
  ASSUME TypeOK, PacketRules, [Next]_vars
  PROVE  TypeOK'
<1> SUFFICES (env \in Settings /\ NodesType /\ CodingType /\ media \in SUBSET Flows /\ ServersType /\ HeardType)'
  BY DEF TypeOK, NodesType, CodingType, ServersType, ServerType, HeardType
<1>0. env \in Settings /\ NodesType /\ CodingType /\ media \in SUBSET Flows /\ ServersType /\ HeardType
  BY TypeParts
<1>e. env \in SettingType /\ env.bytes \in Nat
  BY <1>0, SettingFacts
<1>i. Idle \in ServerType /\ Off \in ServerType
  BY <1>e DEF Idle, Off, ServerType
<1>1. ASSUME NEW d \in Dests, NEW pc \in {"off", "idle", "got", "counted", "noted", "seen", "done", "ended", "removed"},
             Goto(d, pc), UNCHANGED env
      PROVE  ServersType'
  BY <1>0, <1>1 DEF Goto, ServersType, ServerType
<1>2. ASSUME NEW d \in Dests, Start(d)
      PROVE  (env \in Settings /\ NodesType /\ CodingType /\ media \in SUBSET Flows /\ ServersType /\ HeardType)'
  BY <1>0, <1>i, <1>2 DEF Start, ServersType, ServerType, NodesType, CodingType, HeardType
<1>3. ASSUME NEW d \in Dests, NEW s \in Sources, NEW n \in 1..env.bytes, Recv(d, s, n)
      PROVE  (env \in Settings /\ NodesType /\ CodingType /\ media \in SUBSET Flows /\ ServersType /\ HeardType)'
  <2> DEFINE r == [pc |-> "got", src |-> s, len |-> n, total |-> 0, zeroed |-> {}]
  <2>2. r \in ServerType
    BY <1>e DEF ServerType
  <2> HIDE DEF r
  <2>3. server' = [server EXCEPT ![d] = r]
    BY <1>3 DEF Recv, r
  <2>4. ServersType'
    BY <1>0, <1>3, <2>2, <2>3 DEF Recv, ServersType, ServerType
  <2>5. HeardType'
    BY <1>0, <1>e, <1>3 DEF Recv, HeardType, Flows
  <2>. QED  BY <1>0, <1>3, <2>4, <2>5 DEF Recv, NodesType, CodingType
<1>4. ASSUME NEW d \in Dests, Count(d)
      PROVE  (env \in Settings /\ NodesType /\ CodingType /\ media \in SUBSET Flows /\ ServersType /\ HeardType)'
  <2>1. server[d].src \in Sources /\ server[d].len \in Nat
    BY <1>4 DEF Count, PacketRules, Busy, At
  <2> DEFINE new == AuditAdd(server[d].src, d, server[d].len)
  <2>5. Grown(new, server[d].src, d, server[d].len)
    BY <1>0, <2>1, AuditAddRight
  <2>6. nodes' = IF env.audit THEN new ELSE nodes
    BY <1>4 DEF Count
  <2> HIDE DEF new
  <2>2. NodesType'
    BY <1>0, <2>1, <2>5, <2>6 DEF NodesType, Grown
  <2>3. env.audit => nodes'[server[d].src].stat \in Nat
    BY <2>5, <2>6 DEF Grown
  <2>4. ServersType'
    <3> DEFINE x == IF env.audit THEN nodes'[server[d].src].stat ELSE 0
    <3>1. x \in Nat
      BY <2>3
    <3>2. server' = [server EXCEPT ![d].pc = "counted", ![d].total = x]
      BY <1>4 DEF Count
    <3> HIDE DEF x
    <3>3. server' \in [Dests -> ServerType]
      BY <1>0, <3>1, <3>2, CountedType, Zenon
    <3>4. env' = env
      BY <1>4 DEF Count
    <3>. QED  BY <3>3, <3>4 DEF ServersType, ServerType
  <2>. QED  BY <1>0, <1>4, <2>2, <2>4 DEF Count, CodingType, HeardType
<1>5. ASSUME NEW d \in Dests, Register(d)
      PROVE  (env \in Settings /\ NodesType /\ CodingType /\ media \in SUBSET Flows /\ ServersType /\ HeardType)'
  <2>1. server[d].src \in Sources
    BY <1>5 DEF Register, PacketRules, Busy, At
  <2>2. CodingType'
    BY <1>0, <1>5, <2>1 DEF Register, CodingAdd, CodingType
  <2>3. ServersType'
    BY <1>5, <1>1 DEF Register
  <2>. QED  BY <1>0, <1>5, <2>2, <2>3 DEF Register, NodesType, HeardType
<1>6. ASSUME NEW d \in Dests, Packethandle(d)
      PROVE  (env \in Settings /\ NodesType /\ CodingType /\ media \in SUBSET Flows /\ ServersType /\ HeardType)'
  <2>1. server[d].src \in Sources
    BY <1>6 DEF Packethandle, PacketRules, Busy, At
  <2>2. ServersType'
    BY <1>6, <1>1 DEF Packethandle
  <2>. QED  BY <1>0, <1>6, <2>1, <2>2 DEF Packethandle, Flows, CodingType, NodesType, HeardType
<1>7. ASSUME NEW d \in Dests, Whiten(d)
      PROVE  (env \in Settings /\ NodesType /\ CodingType /\ media \in SUBSET Flows /\ ServersType /\ HeardType)'
  <2> DEFINE z == IF env.white /\ env.audit THEN Whitened(server[d].total, server[d].len) ELSE {}
  <2>1. z \in SUBSET (0..(env.bytes - 1))
    <3>1. /\ server[d].src \in Sources /\ server[d].len \in Nat \ {0}
          /\ server[d].len <= heard[<<server[d].src, d>>]
          /\ env.audit => server[d].len <= server[d].total
      BY <1>7 DEF Whiten, PacketRules, Busy, At
    <3>2. server[d].len <= env.bytes /\ server[d].total \in Nat
      BY <1>0, <1>e, <3>1 DEF HeardType, Flows, ServersType, ServerType
    <3>3. env.audit => Whitened(server[d].total, server[d].len) \subseteq 0..(server[d].len - 1)
      BY <1>e, <3>1, <3>2, WhitenedRight
    <3>. QED  BY <1>e, <3>1, <3>2, <3>3
  <2>2. server' = [server EXCEPT ![d].pc = "done", ![d].zeroed = z]
    BY <1>7 DEF Whiten
  <2> HIDE DEF z
  <2>3. ServersType'
    <3>1. server' \in [Dests -> ServerType]
      BY <1>0, <2>1, <2>2, WhitenedType, Zenon
    <3>2. env' = env
      BY <1>7 DEF Whiten
    <3>. QED  BY <3>1, <3>2 DEF ServersType, ServerType
  <2>. QED  BY <1>0, <1>7, <2>3 DEF Whiten, CodingType, NodesType, HeardType
<1>8. ASSUME NEW d \in Dests, Forward(d)
      PROVE  (env \in Settings /\ NodesType /\ CodingType /\ media \in SUBSET Flows /\ ServersType /\ HeardType)'
  BY <1>0, <1>i, <1>8 DEF Forward, ServersType, ServerType, NodesType, CodingType, HeardType
<1>9. ASSUME NEW d \in Dests, Stop(d)
      PROVE  (env \in Settings /\ NodesType /\ CodingType /\ media \in SUBSET Flows /\ ServersType /\ HeardType)'
  <2>1. ServersType'
    BY <1>9, <1>1 DEF Stop
  <2>. QED  BY <1>0, <2>1, <1>9 DEF Stop, NodesType, CodingType, HeardType
<1>10. ASSUME NEW d \in Dests, RemoveAudit(d)
       PROVE  (env \in Settings /\ NodesType /\ CodingType /\ media \in SUBSET Flows /\ ServersType /\ HeardType)'
  <2>1. ServersType'
    BY <1>10, <1>1 DEF RemoveAudit
  <2>2. HeardType'
    BY <1>0, <1>e, <1>10 DEF RemoveAudit, HeardType
  <2>3. NodesType'
    BY <1>0, <1>10 DEF RemoveAudit, AuditRmv, NodesType
  <2>. QED  BY <1>0, <2>1, <2>2, <2>3, <1>10 DEF RemoveAudit, CodingType
<1>11. ASSUME NEW d \in Dests, RemoveCoding(d)
       PROVE  (env \in Settings /\ NodesType /\ CodingType /\ media \in SUBSET Flows /\ ServersType /\ HeardType)'
  <2>1. ServersType'
    BY <1>0, <1>i, <1>11 DEF RemoveCoding, ServersType, ServerType
  <2>2. CodingType' /\ (media \in SUBSET Flows)'
    BY <1>0, <1>11 DEF RemoveCoding, CodingRmv, CodingType
  <2>. QED  BY <1>0, <2>1, <2>2, <1>11 DEF RemoveCoding, NodesType, HeardType
<1>12. CASE UNCHANGED vars
  BY <1>0, <1>12 DEF vars, ServersType, ServerType, NodesType, CodingType, HeardType
<1>. QED
  BY <1>2, <1>3, <1>4, <1>5, <1>6, <1>7, <1>8, <1>9, <1>10, <1>11, <1>12 DEF Next

(* One step and one server. *)
Changed(d, r) == server' = [server EXCEPT ![d] = r]

(* The server of an action goes to another place in its loop, and no other *)
(* server changes.                                                         *)
Moves(d, pc) ==
  /\ server'[d].pc = pc /\ server'[d].src = server[d].src /\ server'[d].len = server[d].len
  /\ \A e \in Dests \ {d} : server'[e] = server[e]

LEMMA Moved ==
  ASSUME ServersType, NEW d \in Dests
  PROVE  /\ \A pc : Goto(d, pc) => Moves(d, pc) /\ server'[d].total = server[d].total
         /\ Count(d) => Moves(d, "counted") /\ (env.audit => server'[d].total = nodes'[server[d].src].stat)
         /\ Whiten(d) => /\ Moves(d, "done") /\ server'[d].total = server[d].total
                         /\ server'[d].zeroed = IF env.white /\ env.audit
                                                THEN Whitened(server[d].total, server[d].len) ELSE {}
<1>1. ASSUME NEW pc, Goto(d, pc) PROVE Moves(d, pc) /\ server'[d].total = server[d].total
  BY <1>1 DEF Goto, Moves, ServersType, ServerType
<1>2. ASSUME Count(d)
      PROVE  Moves(d, "counted") /\ (env.audit => server'[d].total = nodes'[server[d].src].stat)
  BY <1>2 DEF Count, Moves, ServersType, ServerType
<1>3. ASSUME Whiten(d)
      PROVE  /\ Moves(d, "done") /\ server'[d].total = server[d].total
             /\ server'[d].zeroed = IF env.white /\ env.audit
                                    THEN Whitened(server[d].total, server[d].len) ELSE {}
  BY <1>3 DEF Whiten, Moves, ServersType, ServerType
<1>. QED  BY <1>1, <1>2, <1>3

(* A packet that is counted makes the node of its source as long as what   *)
(* was heard of the flow.                                                  *)
LEMMA CountedIsHeard ==
  ASSUME TypeOK, PacketRules, NodeRules, NEW d \in Dests, Count(d), env.audit, ~env.shared
  PROVE  LET src == server[d].src IN
         /\ nodes'[src] = [dst |-> d, stat |-> heard[<<src, d>>]]
         /\ DOMAIN nodes' = DOMAIN nodes \cup {src}
         /\ \A t \in DOMAIN nodes \ {src} : nodes'[t] = nodes[t]
<1> DEFINE src == server[d].src
           len == server[d].len
<1>0. NodesType /\ HeardType
  BY TypeParts
<1>1. At(d, "got") /\ src \in Sources /\ len \in Nat \ {0} /\ len <= heard[<<src, d>>]
  BY DEF Count, PacketRules, Busy, At
<1>2. Grown(nodes', src, d, len)
  <2>1. nodes' = AuditAdd(src, d, len)
    BY DEF Count
  <2>. QED  BY <1>0, <1>1, <2>1, AuditAddRight
<1>3. Waiting[<<src, d>>] = len
  BY <1>1 DEF Waiting, Uncounted, Flows
<1>4. heard[<<src, d>>] \in Nat /\ <<src, d>> \in Flows
  BY <1>0, <1>1 DEF HeardType, Flows
<1>5. CASE src \in DOMAIN nodes
  <2> DEFINE e == nodes[src].dst
  <2>1. e \in Dests /\ nodes[src].stat \in Nat
    BY <1>0, <1>5 DEF NodesType
  <2>2. nodes[src].stat > 0 /\ nodes[src].stat = heard[<<src, e>>] - Waiting[<<src, e>>]
    BY <1>5 DEF NodeRules
  <2>3. Waiting[<<src, e>>] \in Nat /\ heard[<<src, e>>] \in Nat
    <3>1. heard[<<src, e>>] \in Nat
      BY <1>0, <1>1, <2>1 DEF HeardType, Flows
    <3>2. At(e, "got") => server[e].len \in Nat
      BY <2>1 DEF PacketRules, Busy, At
    <3>3. <<src, e>> \in Flows
      BY <1>1, <2>1 DEF Flows
    <3>4. Waiting[<<src, e>>] \in Nat
      BY <3>2, <3>3 DEF Waiting, Uncounted
    <3>. QED  BY <3>1, <3>4
  <2>4. e = d
    BY <1>1, <1>4, <2>1, <2>2, <2>3 DEF NodeRules
  <2>5. nodes'[src].dst = d /\ nodes'[src].stat = heard[<<src, d>>]
    BY <1>1, <1>2, <1>3, <1>4, <1>5, <2>2, <2>4 DEF Grown
  <2>6. nodes'[src] \in [dst : Dests, stat : Nat]
    BY <1>2 DEF Grown
  <2>7. nodes'[src] = [dst |-> d, stat |-> heard[<<src, d>>]]
    BY <2>5, <2>6
  <2>. QED  BY <1>2, <2>7 DEF Grown
<1>6. CASE src \notin DOMAIN nodes
  <2>1. ~(heard[<<src, d>>] > len)
    BY <1>3, <1>4, <1>6 DEF NodeRules
  <2>2. heard[<<src, d>>] = len
    BY <1>1, <1>4, <2>1
  <2>. QED  BY <1>2, <1>6, <2>2 DEF Grown
<1>. QED  BY <1>5, <1>6


LEMMA PacketStep ==
  ASSUME TypeOK, PacketRules, NodeRules, [Next]_vars
  PROVE  PacketRules'
<1>0. env \in Settings /\ NodesType /\ CodingType /\ media \in SUBSET Flows /\ ServersType /\ HeardType
  BY TypeParts
<1>1. ASSUME NEW d \in Dests, Start(d) PROVE PacketRules'
  <2>1. server'[d] = Idle /\ \A e \in Dests \ {d} : server'[e] = server[e]
    BY <1>0, <1>1 DEF Start, ServersType
  <2>2. ~Busy(d)'
    BY <2>1 DEF Busy, Idle, Off
  <2>. QED  BY <1>1, <2>1, <2>2 DEF Start, PacketRules, Busy, At, Idle, Off
<1>2. ASSUME NEW d \in Dests, NEW s \in Sources, NEW n \in 1..env.bytes, Recv(d, s, n) PROVE PacketRules'
  <2>1. /\ server'[d] = [pc |-> "got", src |-> s, len |-> n, total |-> 0, zeroed |-> {}]
        /\ \A e \in Dests \ {d} : server'[e] = server[e]
    BY <1>0, <1>2 DEF Recv, ServersType
  <2>2. n \in Nat \ {0} /\ heard[<<s, d>>] \in Nat /\ <<s, d>> \in DOMAIN heard
    BY <1>0, <1>2, SettingFacts DEF HeardType, Flows
  <2>3. n <= heard'[<<s, d>>]
    BY <1>2, <2>2 DEF Recv
  <2>4. \A e \in Dests \ {d} : \A t : heard'[<<t, e>>] = heard[<<t, e>>]
    BY <1>2, <1>0 DEF Recv, HeardType
  <2>. QED  BY <1>2, <2>1, <2>2, <2>3, <2>4 DEF Recv, PacketRules, Busy, At
<1>3. ASSUME NEW d \in Dests, Count(d) PROVE PacketRules'
  <2> DEFINE src == server[d].src
  <2>1. Moves(d, "counted") /\ (env.audit => server'[d].total = nodes'[src].stat)
    BY <1>0, <1>3, Moved
  <2>2. /\ src \in Sources /\ server[d].len \in Nat \ {0}
        /\ server[d].len <= heard[<<src, d>>]
    BY <1>3 DEF Count, PacketRules, Busy, At
  <2>3. env.audit => server[d].len <= nodes'[src].stat
    <3> SUFFICES ASSUME env.audit PROVE server[d].len <= nodes'[src].stat
      OBVIOUS
    <3>1. nodes' = AuditAdd(src, d, server[d].len)
      BY <1>3 DEF Count
    <3>2. Grown(nodes', src, d, server[d].len)
      BY <1>0, <2>2, <3>1, AuditAddRight
    <3>3. nodes'[src].stat \in Nat
      BY <3>2 DEF Grown
    <3>. QED  BY <2>2, <3>2, <3>3 DEF Grown
  <2>4. ASSUME env.audit, ~env.shared PROVE nodes'[src].stat = heard[<<src, d>>]
    <3>1. nodes'[src] = [dst |-> d, stat |-> heard[<<src, d>>]]
      BY <1>3, <2>4, CountedIsHeard
    <3>. QED  BY <3>1
  <2>5. At(d, "got") /\ UNCHANGED <<env, coding, heard>>
    BY <1>3 DEF Count
  <2>. QED  BY <2>1, <2>2, <2>3, <2>4, <2>5 DEF Moves, PacketRules, Busy, At
<1>4. ASSUME NEW d \in Dests, Register(d) PROVE PacketRules'
  <2> DEFINE pc == IF env.coding /\ env.lib THEN "noted" ELSE "seen"
  <2>1. Moves(d, pc) /\ server'[d].total = server[d].total
    BY <1>0, <1>4, Moved DEF Register
  <2>2. \A e \in DOMAIN coding : e \in DOMAIN coding' /\ coding[e] \subseteq coding'[e]
    BY <1>4 DEF Register, CodingAdd
  <2>3. pc = "noted" => env.lib /\ d \in DOMAIN coding' /\ server[d].src \in coding'[d]
    BY <1>4 DEF Register, CodingAdd
  <2>. QED  BY <1>4, <2>1, <2>2, <2>3 DEF Register, Moves, PacketRules, Busy, At
<1>5. ASSUME NEW d \in Dests, Packethandle(d) PROVE PacketRules'
  <2>1. Moves(d, "seen") /\ server'[d].total = server[d].total
    BY <1>0, <1>5, Moved DEF Packethandle
  <2>. QED  BY <1>5, <1>0, <2>1 DEF Packethandle, Moves, PacketRules, Busy, At
<1>6. ASSUME NEW d \in Dests, Whiten(d) PROVE PacketRules'
  <2>1. Moves(d, "done") /\ server'[d].total = server[d].total
    BY <1>0, <1>6, Moved
  <2>2. At(d, "seen") /\ UNCHANGED <<env, coding, heard>>
    BY <1>6 DEF Whiten
  <2>. QED  BY <2>1, <2>2 DEF Moves, PacketRules, Busy, At
<1>7. ASSUME NEW d \in Dests, Forward(d) PROVE PacketRules'
  <2>1. server'[d] = Idle /\ \A e \in Dests \ {d} : server'[e] = server[e]
    BY <1>0, <1>7 DEF Forward, ServersType
  <2>2. ~Busy(d)'
    BY <2>1 DEF Busy, Idle, Off
  <2>. QED  BY <1>7, <2>1, <2>2 DEF Forward, PacketRules, Busy, At, Idle, Off
<1>8. ASSUME NEW d \in Dests, Stop(d) PROVE PacketRules'
  <2>1. Moves(d, "ended") /\ server'[d].total = server[d].total
    BY <1>0, <1>8, Moved DEF Stop
  <2>. QED  BY <1>8, <1>0, <2>1 DEF Stop, Moves, PacketRules, Busy, At
<1>9. ASSUME NEW d \in Dests, RemoveAudit(d) PROVE PacketRules'
  <2>1. Moves(d, "removed") /\ server'[d].total = server[d].total
    BY <1>0, <1>9, Moved DEF RemoveAudit
  <2>2. \A e \in Dests \ {d}, t \in Sources : heard'[<<t, e>>] = heard[<<t, e>>]
    BY <1>9 DEF RemoveAudit, Flows
  <2>. QED  BY <1>9, <1>0, <2>1, <2>2 DEF RemoveAudit, Moves, PacketRules, Busy, At
<1>10. ASSUME NEW d \in Dests, RemoveCoding(d) PROVE PacketRules'
  <2>1. server'[d] = Off /\ \A e \in Dests \ {d} : server'[e] = server[e]
    BY <1>0, <1>10 DEF RemoveCoding, ServersType
  <2>2. ~Busy(d)'
    BY <2>1 DEF Busy, Off
  <2>3. \A e \in DOMAIN coding \ {d} : e \in DOMAIN coding' /\ coding'[e] = coding[e]
    BY <1>10 DEF RemoveCoding, CodingRmv
  <2>. QED  BY <1>10, <2>1, <2>2, <2>3 DEF RemoveCoding, PacketRules, Busy, At, Off
<1>11. CASE UNCHANGED vars
  BY <1>0, <1>11 DEF vars, PacketRules, Busy, At
<1>. QED
  BY <1>1, <1>2, <1>3, <1>4, <1>5, <1>6, <1>7, <1>8, <1>9, <1>10, <1>11 DEF Next

LEMMA MapStep ==
  ASSUME TypeOK, PacketRules, MapRules, [Next]_vars
  PROVE  MapRules'
<1>0. env \in Settings /\ NodesType /\ CodingType /\ media \in SUBSET Flows /\ ServersType /\ HeardType
  BY TypeParts
<1>1. ASSUME NEW d \in Dests, Start(d) PROVE MapRules'
  <2>1. server'[d] = Idle /\ \A e \in Dests \ {d} : server'[e] = server[e]
    BY <1>0, <1>1 DEF Start, ServersType
  <2>. QED  BY <1>0, <1>1, <2>1 DEF Start, Moves, MapRules, At, NodesType, Idle, CodingType
<1>2. ASSUME NEW d \in Dests, NEW s \in Sources, NEW n \in 1..env.bytes, Recv(d, s, n) PROVE MapRules'
  <2>1. server'[d] = [pc |-> "got", src |-> s, len |-> n, total |-> 0, zeroed |-> {}] /\ \A e \in Dests \ {d} : server'[e] = server[e]
    BY <1>0, <1>2 DEF Recv, ServersType
  <2>. QED  BY <1>0, <1>2, <2>1 DEF Recv, Moves, MapRules, At, NodesType, CodingType
<1>3. ASSUME NEW d \in Dests, Count(d) PROVE MapRules'
  <2> DEFINE src == server[d].src
  <2>1. Moves(d, "counted") /\ At(d, "got") /\ UNCHANGED <<env, coding, media>>
    BY <1>0, <1>3, Moved DEF Count
  <2>2. nodes' = nodes \/ (\A t \in DOMAIN nodes' : nodes'[t].dst = d \/ (t \in DOMAIN nodes /\ nodes'[t].dst = nodes[t].dst))
    <3>1. src \in Sources /\ server[d].len \in Nat
      BY <2>1 DEF PacketRules, Busy, At
    <3>2. CASE env.audit
      <4>1. nodes' = AuditAdd(src, d, server[d].len)
        BY <1>3, <3>2 DEF Count
      <4>2. Grown(nodes', src, d, server[d].len)
        BY <1>0, <3>1, <4>1, AuditAddRight
      <4>. QED  BY <4>2 DEF Grown
    <3>. QED  BY <1>3, <3>2 DEF Count
  <2>. QED  BY <1>0, <2>1, <2>2 DEF Moves, MapRules, At, NodesType, CodingType
<1>4. ASSUME NEW d \in Dests, Register(d) PROVE MapRules'
  <2>1. /\ Moves(d, IF env.coding /\ env.lib THEN "noted" ELSE "seen") /\ At(d, "counted")
        /\ UNCHANGED <<env, nodes, media>>
    BY <1>0, <1>4, Moved DEF Register
  <2>2. \/ coding' = coding
        \/ /\ env.lib /\ DOMAIN coding' = DOMAIN coding \cup {d}
           /\ \A e \in DOMAIN coding : coding[e] \subseteq coding'[e]
    BY <1>4 DEF Register, CodingAdd
  <2>. QED  BY <1>0, <2>1, <2>2 DEF Moves, MapRules, At, NodesType, CodingType
<1>5. ASSUME NEW d \in Dests, Packethandle(d) PROVE MapRules'
  <2>1. /\ Moves(d, "seen") /\ At(d, "noted")
        /\ UNCHANGED <<env, nodes, coding>> /\ media' \subseteq media \cup {<<server[d].src, d>>}
    BY <1>0, <1>5, Moved DEF Packethandle
  <2>2. d \in DOMAIN coding /\ server[d].src \in coding[d]
    BY <2>1 DEF PacketRules
  <2>. QED  BY <1>0, <2>1, <2>2 DEF Moves, MapRules, At, NodesType, CodingType
<1>6. ASSUME NEW d \in Dests, Whiten(d) PROVE MapRules'
  <2>1. Moves(d, "done") /\ UNCHANGED <<env, nodes, coding, media>>
    BY <1>0, <1>6, Moved DEF Whiten
  <2>. QED  BY <1>0, <2>1 DEF Moves, MapRules, At, NodesType, CodingType
<1>7. ASSUME NEW d \in Dests, Forward(d) PROVE MapRules'
  <2>1. server'[d] = Idle /\ \A e \in Dests \ {d} : server'[e] = server[e]
    BY <1>0, <1>7 DEF Forward, ServersType
  <2>. QED  BY <1>0, <1>7, <2>1 DEF Forward, Moves, MapRules, At, NodesType, Idle, CodingType
<1>8. ASSUME NEW d \in Dests, Stop(d) PROVE MapRules'
  <2>1. Moves(d, "ended")
    BY <1>0, <1>8, Moved DEF Stop
  <2>. QED  BY <1>0, <1>8, <2>1 DEF Stop, Moves, MapRules, At, NodesType, CodingType
<1>9. ASSUME NEW d \in Dests, RemoveAudit(d) PROVE MapRules'
  <2>1. Moves(d, "removed") /\ UNCHANGED <<env, coding, media>>
    BY <1>0, <1>9, Moved DEF RemoveAudit
  <2>2. \A t \in DOMAIN nodes' : t \in DOMAIN nodes /\ nodes'[t] = nodes[t] /\ nodes[t].dst # d
    BY <1>9 DEF RemoveAudit, AuditRmv
  <2>. QED  BY <1>0, <2>1, <2>2 DEF Moves, MapRules, At, NodesType, CodingType
<1>10. ASSUME NEW d \in Dests, RemoveCoding(d) PROVE MapRules'
  <2>1. /\ server'[d] = Off /\ \A e \in Dests \ {d} : server'[e] = server[e]
        /\ At(d, "removed") /\ UNCHANGED <<env, nodes>>
    BY <1>0, <1>10 DEF RemoveCoding, ServersType
  <2>2. /\ DOMAIN coding' = DOMAIN coding \ {d}
        /\ \A e \in DOMAIN coding' : coding'[e] = coding[e]
        /\ media' = media \ (Sources \X {d})
    <3>1. CASE env.lib /\ d \in DOMAIN coding
      <4>1. media' = media \ (coding[d] \X {d})
        BY <1>10, <3>1 DEF RemoveCoding, CodingRmv
      <4>2. \A f \in media : f \in Sources \X {d} => f \in coding[d] \X {d}
        BY <1>0 DEF MapRules, Flows
      <4>3. coding[d] \subseteq Sources
        BY <1>0, <3>1 DEF CodingType
      <4>. QED  BY <1>10, <3>1, <4>1, <4>2, <4>3 DEF RemoveCoding, CodingRmv
    <3>2. CASE ~(env.lib /\ d \in DOMAIN coding)
      <4>1. d \notin DOMAIN coding
        BY <3>2 DEF MapRules
      <4>2. media \cap (Sources \X {d}) = {}
        BY <1>0, <4>1 DEF MapRules
      <4>. QED  BY <1>10, <3>2, <4>1, <4>2 DEF RemoveCoding, CodingRmv
    <3>. QED  BY <3>1, <3>2
  <2>3. \A f \in media' : f \in media /\ f[2] # d
    BY <1>0, <2>2 DEF Flows
  <2>. QED  BY <1>0, <2>1, <2>2, <2>3 DEF MapRules, At, NodesType, CodingType, Off, Idle
<1>11. CASE UNCHANGED vars
  BY <1>0, <1>11 DEF vars, MapRules, At
<1>. QED
  BY <1>1, <1>2, <1>3, <1>4, <1>5, <1>6, <1>7, <1>8, <1>9, <1>10, <1>11 DEF Next

LEMMA WhiteStep ==
  ASSUME TypeOK, PacketRules, WhiteFramesRight, [Next]_vars
  PROVE  WhiteFramesRight'
<1>0. env \in Settings /\ NodesType /\ CodingType /\ media \in SUBSET Flows /\ ServersType /\ HeardType
  BY TypeParts
<1>p. UNCHANGED env => Period' = Period /\ Interval' = Interval
  BY DEF Period, Interval
<1>1. ASSUME NEW d \in Dests, Start(d) PROVE WhiteFramesRight'
  <2>1. server'[d] = Idle /\ \A e \in Dests \ {d} : server'[e] = server[e]
    BY <1>0, <1>1 DEF Start, ServersType
  <2>2. ~At(d, "done")' /\ UNCHANGED <<env, heard>>
    BY <1>1, <2>1 DEF Start, At, Idle, Off
  <2>. QED  BY <2>1, <2>2, <1>p DEF WhiteFramesRight, At
<1>2. ASSUME NEW d \in Dests, NEW s \in Sources, NEW n \in 1..env.bytes, Recv(d, s, n) PROVE WhiteFramesRight'
  <2>1. server'[d].pc = "got" /\ \A e \in Dests \ {d} : server'[e] = server[e]
    BY <1>0, <1>2 DEF Recv, ServersType
  <2>2. UNCHANGED env /\ \A e \in Dests \ {d} : \A t : heard'[<<t, e>>] = heard[<<t, e>>]
    BY <1>2, <1>0 DEF Recv, HeardType
  <2>. QED  BY <2>1, <2>2, <1>p DEF WhiteFramesRight, At
<1>3. ASSUME NEW d \in Dests, Count(d) PROVE WhiteFramesRight'
  <2>1. Moves(d, "counted") /\ UNCHANGED <<env, heard>>
    BY <1>0, <1>3, Moved DEF Count
  <2>. QED  BY <2>1, <1>p DEF Moves, WhiteFramesRight, At
<1>4. ASSUME NEW d \in Dests, Register(d) PROVE WhiteFramesRight'
  <2>1. Moves(d, IF env.coding /\ env.lib THEN "noted" ELSE "seen") /\ UNCHANGED <<env, heard>>
    BY <1>0, <1>4, Moved DEF Register
  <2>. QED  BY <2>1, <1>p DEF Moves, WhiteFramesRight, At
<1>5. ASSUME NEW d \in Dests, Packethandle(d) PROVE WhiteFramesRight'
  <2>1. Moves(d, "seen") /\ UNCHANGED <<env, heard>>
    BY <1>0, <1>5, Moved DEF Packethandle
  <2>. QED  BY <2>1, <1>p DEF Moves, WhiteFramesRight, At
<1>6. ASSUME NEW d \in Dests, Whiten(d) PROVE WhiteFramesRight'
  <2> DEFINE v == server[d]
             flow == <<v.src, d>>
  <2>1. /\ Moves(d, "done") /\ UNCHANGED <<env, heard>>
        /\ server'[d].zeroed = IF env.white /\ env.audit THEN Whitened(v.total, v.len) ELSE {}
    BY <1>0, <1>6, Moved DEF Whiten
  <2>2. At(d, "seen")
    BY <1>6 DEF Whiten
  <2>3. ASSUME env.white, env.audit, ~env.shared
        PROVE  server'[d].zeroed = {i \in 0..(v.len - 1) : ((heard[flow] - v.len) + i) % Period >= Interval}
    <3>1. v.total \in Nat /\ v.len \in Nat \ {0} /\ v.len <= v.total /\ v.total = heard[flow]
      BY <1>0, <2>2, <2>3 DEF PacketRules, Busy, At, ServersType, ServerType
    <3>2. Whitened(v.total, v.len) = {i \in 0..(v.len - 1) : ((v.total - v.len) + i) % Period >= Interval}
      BY <1>0, <3>1, SettingFacts, WhitenedRight
    <3>. QED  BY <2>1, <2>3, <3>1, <3>2
  <2>. QED  BY <2>1, <2>3, <1>p DEF Moves, WhiteFramesRight, At
<1>7. ASSUME NEW d \in Dests, Forward(d) PROVE WhiteFramesRight'
  <2>1. server'[d] = Idle /\ \A e \in Dests \ {d} : server'[e] = server[e]
    BY <1>0, <1>7 DEF Forward, ServersType
  <2>2. ~At(d, "done")' /\ UNCHANGED <<env, heard>>
    BY <1>7, <2>1 DEF Forward, At, Idle, Off
  <2>. QED  BY <2>1, <2>2, <1>p DEF WhiteFramesRight, At
<1>8. ASSUME NEW d \in Dests, Stop(d) PROVE WhiteFramesRight'
  <2>1. Moves(d, "ended") /\ UNCHANGED <<env, heard>>
    BY <1>0, <1>8, Moved DEF Stop
  <2>. QED  BY <2>1, <1>p DEF Moves, WhiteFramesRight, At
<1>9. ASSUME NEW d \in Dests, RemoveAudit(d) PROVE WhiteFramesRight'
  <2>1. Moves(d, "removed") /\ UNCHANGED env
    BY <1>0, <1>9, Moved DEF RemoveAudit
  <2>2. \A e \in Dests \ {d}, t \in Sources : heard'[<<t, e>>] = heard[<<t, e>>]
    BY <1>9 DEF RemoveAudit, Flows
  <2>3. \A e \in Dests : At(e, "done") => server[e].src \in Sources
    BY DEF PacketRules, Busy, At
  <2>. QED  BY <2>1, <2>2, <2>3, <1>p DEF Moves, WhiteFramesRight, At
<1>10. ASSUME NEW d \in Dests, RemoveCoding(d) PROVE WhiteFramesRight'
  <2>1. server'[d] = Off /\ \A e \in Dests \ {d} : server'[e] = server[e]
    BY <1>0, <1>10 DEF RemoveCoding, ServersType
  <2>2. ~At(d, "done")' /\ UNCHANGED <<env, heard>>
    BY <1>10, <2>1 DEF RemoveCoding, At, Idle, Off
  <2>. QED  BY <2>1, <2>2, <1>p DEF WhiteFramesRight, At
<1>11. CASE UNCHANGED vars
  BY <1>0, <1>11, <1>p DEF vars, WhiteFramesRight, At
<1>. QED
  BY <1>1, <1>2, <1>3, <1>4, <1>5, <1>6, <1>7, <1>8, <1>9, <1>10, <1>11 DEF Next

(* Neither a map nor what was heard changes, and no packet waits to be     *)
(* counted that did not before.                                            *)
LEMMA NodeSame ==
  ASSUME TypeOK, NodeRules, UNCHANGED <<env, nodes, heard>>,
         \A t \in Sources, e \in Dests : Waiting'[<<t, e>>] = Waiting[<<t, e>>]
  PROVE  NodeRules'
<1> SUFFICES ASSUME ~env.shared
             PROVE  NodeRules'
  BY DEF NodeRules
<1>1. \A f \in Flows : Waiting'[f] = Waiting[f]
  BY DEF Flows
<1>2. \A t \in DOMAIN nodes : <<t, nodes[t].dst>> \in Flows
  BY DEF TypeOK, Flows
<1>. QED  BY <1>1, <1>2 DEF NodeRules

LEMMA NodeStep ==
  ASSUME TypeOK, PacketRules, NodeRules, [Next]_vars
  PROVE  NodeRules'
<1>0. env \in Settings /\ NodesType /\ CodingType /\ media \in SUBSET Flows /\ ServersType /\ HeardType
  BY TypeParts
<1>1. ASSUME NEW d \in Dests, Start(d) PROVE NodeRules'
  <2>1. /\ server'[d] = Idle /\ \A e \in Dests \ {d} : server'[e] = server[e]
        /\ At(d, "off") /\ UNCHANGED <<env, nodes, heard>>
    BY <1>0, <1>1 DEF Start, ServersType
  <2>2. \A t \in Sources, e \in Dests : Waiting'[<<t, e>>] = Waiting[<<t, e>>]
    BY <2>1 DEF Moves, Waiting, Uncounted, Flows, At, Idle, Off
  <2>. QED  BY <2>1, <2>2, NodeSame
<1>2. ASSUME NEW d \in Dests, NEW s \in Sources, NEW n \in 1..env.bytes, Recv(d, s, n) PROVE NodeRules'
  <2>1. /\ server'[d] = [pc |-> "got", src |-> s, len |-> n, total |-> 0, zeroed |-> {}]
        /\ \A e \in Dests \ {d} : server'[e] = server[e]
        /\ At(d, "idle") /\ UNCHANGED <<env, nodes>>
    BY <1>0, <1>2 DEF Recv, ServersType
  <2>2. /\ n \in Nat \ {0}
        /\ \A t \in Sources, e \in Dests : heard[<<t, e>>] \in Nat /\ heard[<<t, e>>] >= 0
    BY <1>0, <1>2, SettingFacts DEF HeardType, Flows
  <2>3. \A t \in Sources, e \in Dests :
          heard'[<<t, e>>] = IF t = s /\ e = d THEN heard[<<s, d>>] + n ELSE heard[<<t, e>>]
    BY <1>2, <1>0 DEF Recv, HeardType, Flows
  <2>4. \A t \in Sources, e \in Dests :
          /\ Waiting'[<<t, e>>] = IF t = s /\ e = d THEN n ELSE Waiting[<<t, e>>]
          /\ e = d => Waiting[<<t, e>>] = 0
    BY <2>1 DEF Waiting, Uncounted, Flows, At
  <2>5. ~env.shared => \A e \in Dests \ {d} : heard[<<s, e>>] = 0
    BY <1>2 DEF Recv
  <2>. QED
    <3> SUFFICES ASSUME ~env.shared PROVE NodeRules'
      BY <2>1 DEF NodeRules
    <3>1. ASSUME NEW t \in Sources, NEW a \in Dests, NEW e \in Dests, heard'[<<t, a>>] > 0, heard'[<<t, e>>] > 0
          PROVE  a = e
      <4>1. CASE t = s
        <5>1. \A x \in Dests \ {d} : heard'[<<t, x>>] = 0
          BY <2>3, <2>5, <4>1
        <5>. QED  BY <3>1, <5>1
      <4>2. CASE t # s
        BY <2>3, <3>1, <4>2 DEF NodeRules
      <4>. QED  BY <4>1, <4>2
    <3>2. ASSUME env.audit, NEW t \in DOMAIN nodes
          PROVE  LET f == <<t, nodes[t].dst>> IN nodes[t].stat > 0 /\ nodes[t].stat = heard'[f] - Waiting'[f]
      <4> DEFINE e == nodes[t].dst
      <4>1. t \in Sources /\ e \in Dests
        BY <1>0 DEF NodesType
      <4>2. nodes[t].stat > 0 /\ nodes[t].stat = heard[<<t, e>>] - Waiting[<<t, e>>]
        BY <3>2 DEF NodeRules
      <4> HIDE DEF e
      <4>3. heard'[<<t, e>>] - Waiting'[<<t, e>>] = heard[<<t, e>>] - Waiting[<<t, e>>]
        BY <2>2, <2>3, <2>4, <4>1
      <4>. QED  BY <4>2, <4>3 DEF e
    <3>3. ASSUME env.audit, NEW t \in Sources, NEW e \in Dests, heard'[<<t, e>>] > Waiting'[<<t, e>>]
          PROVE  t \in DOMAIN nodes /\ nodes[t].dst = e
      <4>1. heard[<<t, e>>] > Waiting[<<t, e>>]
        BY <2>2, <2>3, <2>4, <3>3
      <4>2. <<t, e>> \in Flows
        BY DEF Flows
      <4>. QED  BY <3>3, <4>1, <4>2 DEF NodeRules
    <3>4. ASSUME env.audit, NEW f \in Flows, heard'[f] > Waiting'[f]
          PROVE  f[1] \in DOMAIN nodes /\ nodes[f[1]].dst = f[2]
      <4>1. PICK t \in Sources, e \in Dests : f = <<t, e>>
        BY DEF Flows
      <4>. QED  BY <3>3, <3>4, <4>1
    <3>. QED  BY <2>1, <3>1, <3>2, <3>4 DEF NodeRules
<1>3. ASSUME NEW d \in Dests, Count(d) PROVE NodeRules'
  <2> DEFINE src == server[d].src
  <2>1. Moves(d, "counted") /\ At(d, "got") /\ UNCHANGED <<env, heard>>
    BY <1>0, <1>3, Moved DEF Count
  <2>2. src \in Sources /\ server[d].len \in Nat \ {0} /\ server[d].len <= heard[<<src, d>>]
    BY <2>1 DEF PacketRules, Busy, At
  <2>3. \A t \in Sources, e \in Dests :
          Waiting'[<<t, e>>] = IF t = src /\ e = d THEN 0 ELSE Waiting[<<t, e>>]
    BY <2>1 DEF Moves, Waiting, Uncounted, Flows, At
  <2>. QED
    <3> SUFFICES ASSUME ~env.shared PROVE NodeRules'
      BY <2>1 DEF NodeRules
    <3>0. CASE ~env.audit
      BY <2>1, <3>0 DEF NodeRules
    <3>1. CASE env.audit
      <4>1. /\ nodes'[src] = [dst |-> d, stat |-> heard[<<src, d>>]]
            /\ DOMAIN nodes' = DOMAIN nodes \cup {src}
            /\ \A t \in DOMAIN nodes \ {src} : nodes'[t] = nodes[t]
        BY <1>3, <3>1, CountedIsHeard
      <4>2. heard[<<src, d>>] \in Nat /\ heard[<<src, d>>] > 0
        BY <1>0, <2>2 DEF HeardType, Flows
      <4>3. ASSUME NEW t \in DOMAIN nodes'
            PROVE  LET f == <<t, nodes'[t].dst>> IN nodes'[t].stat > 0 /\ nodes'[t].stat = heard[f] - Waiting'[f]
        <5>1. CASE t = src
          <6>1. nodes'[t].dst = d /\ nodes'[t].stat = heard[<<src, d>>]
            BY <4>1, <5>1
          <6>2. Waiting'[<<src, d>>] = 0
            BY <2>2, <2>3
          <6>. QED  BY <4>2, <5>1, <6>1, <6>2
        <5>2. CASE t # src
          <6>1. t \in DOMAIN nodes /\ nodes'[t] = nodes[t] /\ t \in Sources /\ nodes[t].dst \in Dests
            BY <1>0, <4>1, <5>2 DEF NodesType
          <6>2. Waiting'[<<t, nodes[t].dst>>] = Waiting[<<t, nodes[t].dst>>]
            BY <2>3, <5>2, <6>1
          <6>. QED  BY <3>1, <6>1, <6>2 DEF NodeRules
        <5>. QED  BY <5>1, <5>2
      <4>4. ASSUME NEW t \in Sources, NEW e \in Dests, heard[<<t, e>>] > Waiting'[<<t, e>>]
            PROVE  t \in DOMAIN nodes' /\ nodes'[t].dst = e
        <5>0. <<t, e>> \in Flows /\ heard[<<t, e>>] \in Nat
          BY <1>0 DEF Flows, HeardType
        <5>1. CASE t = src
          <6>1. heard[<<t, e>>] > 0
            <7>1. CASE e = d
              BY <4>2, <5>1, <7>1
            <7>2. CASE e # d
              <8>1. server[e].pc = "got" => server[e].len \in Nat
                BY DEF PacketRules, Busy
              <8>2. Waiting[<<t, e>>] \in Nat
                BY <5>0, <8>1 DEF Waiting, Uncounted, At
              <8>3. heard[<<t, e>>] > Waiting[<<t, e>>]
                BY <2>3, <4>4, <7>2
              <8>. QED  BY <5>0, <8>2, <8>3
            <7>. QED  BY <7>1, <7>2
          <6>2. e = d
            BY <2>2, <4>2, <5>1, <6>1 DEF NodeRules
          <6>. QED  BY <4>1, <5>1, <6>2
        <5>2. CASE t # src
          <6>1. heard[<<t, e>>] > Waiting[<<t, e>>]
            BY <2>3, <4>4, <5>2
          <6>2. t \in DOMAIN nodes /\ nodes[t].dst = e
            BY <3>1, <5>0, <6>1 DEF NodeRules
          <6>. QED  BY <4>1, <5>2, <6>2
        <5>. QED  BY <5>1, <5>2
      <4>5. ASSUME NEW f \in Flows, heard[f] > Waiting'[f]
            PROVE  f[1] \in DOMAIN nodes' /\ nodes'[f[1]].dst = f[2]
        <5>1. PICK t \in Sources, e \in Dests : f = <<t, e>>
          BY DEF Flows
        <5>. QED  BY <4>4, <4>5, <5>1
      <4>. QED  BY <2>1, <4>3, <4>5 DEF NodeRules
    <3>. QED  BY <3>0, <3>1
<1>4. ASSUME NEW d \in Dests, Register(d) PROVE NodeRules'
  <2>1. Moves(d, IF env.coding /\ env.lib THEN "noted" ELSE "seen") /\ At(d, "counted") /\ UNCHANGED <<env, nodes, heard>>
    BY <1>0, <1>4, Moved DEF Register
  <2>2. \A t \in Sources, e \in Dests : Waiting'[<<t, e>>] = Waiting[<<t, e>>]
    BY <2>1 DEF Moves, Waiting, Uncounted, Flows, At, Idle, Off
  <2>. QED  BY <2>1, <2>2, NodeSame
<1>5. ASSUME NEW d \in Dests, Packethandle(d) PROVE NodeRules'
  <2>1. Moves(d, "seen") /\ At(d, "noted") /\ UNCHANGED <<env, nodes, heard>>
    BY <1>0, <1>5, Moved DEF Packethandle
  <2>2. \A t \in Sources, e \in Dests : Waiting'[<<t, e>>] = Waiting[<<t, e>>]
    BY <2>1 DEF Moves, Waiting, Uncounted, Flows, At, Idle, Off
  <2>. QED  BY <2>1, <2>2, NodeSame
<1>6. ASSUME NEW d \in Dests, Whiten(d) PROVE NodeRules'
  <2>1. Moves(d, "done") /\ At(d, "seen") /\ UNCHANGED <<env, nodes, heard>>
    BY <1>0, <1>6, Moved DEF Whiten
  <2>2. \A t \in Sources, e \in Dests : Waiting'[<<t, e>>] = Waiting[<<t, e>>]
    BY <2>1 DEF Moves, Waiting, Uncounted, Flows, At, Idle, Off
  <2>. QED  BY <2>1, <2>2, NodeSame
<1>7. ASSUME NEW d \in Dests, Forward(d) PROVE NodeRules'
  <2>1. /\ server'[d] = Idle /\ \A e \in Dests \ {d} : server'[e] = server[e]
        /\ At(d, "done") /\ UNCHANGED <<env, nodes, heard>>
    BY <1>0, <1>7 DEF Forward, ServersType
  <2>2. \A t \in Sources, e \in Dests : Waiting'[<<t, e>>] = Waiting[<<t, e>>]
    BY <2>1 DEF Moves, Waiting, Uncounted, Flows, At, Idle, Off
  <2>. QED  BY <2>1, <2>2, NodeSame
<1>8. ASSUME NEW d \in Dests, Stop(d) PROVE NodeRules'
  <2>1. Moves(d, "ended") /\ At(d, "idle") /\ UNCHANGED <<env, nodes, heard>>
    BY <1>0, <1>8, Moved DEF Stop
  <2>2. \A t \in Sources, e \in Dests : Waiting'[<<t, e>>] = Waiting[<<t, e>>]
    BY <2>1 DEF Moves, Waiting, Uncounted, Flows, At, Idle, Off
  <2>. QED  BY <2>1, <2>2, NodeSame
<1>9. ASSUME NEW d \in Dests, RemoveAudit(d) PROVE NodeRules'
  <2>1. Moves(d, "removed") /\ At(d, "ended") /\ UNCHANGED env
    BY <1>0, <1>9, Moved DEF RemoveAudit
  <2>2. \A t \in Sources, e \in Dests : Waiting'[<<t, e>>] = Waiting[<<t, e>>] /\ (e = d => Waiting[<<t, e>>] = 0)
    BY <2>1 DEF Moves, Waiting, Uncounted, Flows, At
  <2>3. \A t \in Sources, e \in Dests : heard'[<<t, e>>] = IF e = d THEN 0 ELSE heard[<<t, e>>]
    BY <1>9 DEF RemoveAudit, Flows
  <2>4. /\ DOMAIN nodes' = {t \in DOMAIN nodes : nodes[t].dst # d}
        /\ \A t \in DOMAIN nodes' : nodes'[t] = nodes[t]
    BY <1>9 DEF RemoveAudit, AuditRmv
  <2>. QED
    <3> SUFFICES ASSUME ~env.shared PROVE NodeRules'
      BY <2>1 DEF NodeRules
    <3>1. ASSUME NEW t \in Sources, NEW a \in Dests, NEW e \in Dests, heard'[<<t, a>>] > 0, heard'[<<t, e>>] > 0
          PROVE  a = e
      BY <2>3, <3>1 DEF NodeRules
    <3>2. ASSUME env.audit, NEW t \in DOMAIN nodes'
          PROVE  LET f == <<t, nodes'[t].dst>> IN nodes'[t].stat > 0 /\ nodes'[t].stat = heard'[f] - Waiting'[f]
      <4>1. t \in Sources /\ nodes[t].dst \in Dests \ {d} /\ t \in DOMAIN nodes /\ nodes'[t] = nodes[t]
        BY <1>0, <2>4 DEF NodesType
      <4>2. /\ heard'[<<t, nodes[t].dst>>] = heard[<<t, nodes[t].dst>>]
            /\ Waiting'[<<t, nodes[t].dst>>] = Waiting[<<t, nodes[t].dst>>]
        BY <2>2, <2>3, <4>1
      <4>. QED  BY <3>2, <4>1, <4>2 DEF NodeRules
    <3>3. ASSUME env.audit, NEW t \in Sources, NEW e \in Dests, heard'[<<t, e>>] > Waiting'[<<t, e>>]
          PROVE  t \in DOMAIN nodes' /\ nodes'[t].dst = e
      <4>1. e # d /\ heard[<<t, e>>] > Waiting[<<t, e>>]
        BY <2>2, <2>3, <3>3
      <4>2. <<t, e>> \in Flows
        BY DEF Flows
      <4>3. t \in DOMAIN nodes /\ nodes[t].dst = e
        BY <3>3, <4>1, <4>2 DEF NodeRules
      <4>. QED  BY <2>4, <4>1, <4>3
    <3>4. ASSUME env.audit, NEW f \in Flows, heard'[f] > Waiting'[f]
          PROVE  f[1] \in DOMAIN nodes' /\ nodes'[f[1]].dst = f[2]
      <4>1. PICK t \in Sources, e \in Dests : f = <<t, e>>
        BY DEF Flows
      <4>. QED  BY <3>3, <3>4, <4>1
    <3>. QED  BY <2>1, <3>1, <3>2, <3>4 DEF NodeRules
<1>10. ASSUME NEW d \in Dests, RemoveCoding(d) PROVE NodeRules'
  <2>1. /\ server'[d] = Off /\ \A e \in Dests \ {d} : server'[e] = server[e]
        /\ At(d, "removed") /\ UNCHANGED <<env, nodes, heard>>
    BY <1>0, <1>10 DEF RemoveCoding, ServersType
  <2>2. \A t \in Sources, e \in Dests : Waiting'[<<t, e>>] = Waiting[<<t, e>>]
    BY <2>1 DEF Moves, Waiting, Uncounted, Flows, At, Idle, Off
  <2>. QED  BY <2>1, <2>2, NodeSame
<1>11. CASE UNCHANGED vars
  <2>1. \A t \in Sources, e \in Dests : Waiting'[<<t, e>>] = Waiting[<<t, e>>]
    BY <1>11 DEF vars, Waiting, Uncounted, Flows, At
  <2>. QED  BY <1>11, <2>1, NodeSame DEF vars
<1>. QED
  BY <1>1, <1>2, <1>3, <1>4, <1>5, <1>6, <1>7, <1>8, <1>9, <1>10, <1>11 DEF Next

-----------------------------------------------------------------------------
(* The theorems.                                                           *)

LEMMA InitInductive == Init => Inductive
<1> SUFFICES ASSUME Init PROVE Inductive
  OBVIOUS
<1>1. env \in SettingType /\ env.bytes \in Nat
  BY SettingFacts DEF Init
<1>2. server = [d \in Dests |-> Off] /\ Off.pc = "off"
  BY DEF Init, Off, Idle
<1>3. Off \in ServerType
  BY <1>1 DEF ServerType, Off, Idle
<1>4. TypeOK
  <2>1. ServersType
    BY <1>2, <1>3 DEF ServersType
  <2>2. HeardType
    BY <1>1 DEF Init, HeardType
  <2>. QED  BY <2>1, <2>2, TypeParts DEF Init, NodesType, CodingType
<1>5. PacketRules /\ WhiteFramesRight
  BY <1>2 DEF PacketRules, Busy, At, WhiteFramesRight
<1>6. MapRules
  BY DEF Init, MapRules
<1>7. \A f \in Flows : heard[f] = 0 /\ Waiting[f] = 0
  BY <1>2 DEF Init, Waiting, Uncounted, At, Flows
<1>8. NodeRules
  BY <1>7 DEF Init, NodeRules, Flows
<1>. QED  BY <1>4, <1>5, <1>6, <1>8 DEF Inductive

LEMMA StepInductive == Inductive /\ [Next]_vars => Inductive'
BY TypeStep, PacketStep, MapStep, NodeStep, WhiteStep DEF Inductive

(* Whatever servers and sources do, the inductive invariant holds. *)
THEOREM InductiveHolds == Spec => []Inductive
BY InitInductive, StepInductive, PTL DEF Spec

(* The rules of the maps say what the lists of the command channel show. *)
LEMMA RulesGiveLists == Inductive => ListsRight
<1> SUFFICES ASSUME Inductive PROVE ListsRight
  OBVIOUS
<1>0. TypeOK /\ MapRules /\ NodeRules
  BY DEF Inductive
<1>t. NodesType /\ CodingType /\ media \in SUBSET Flows
  BY <1>0, TypeParts
<1>1. ASSUME env.audit, ~env.shared
      PROVE  Reported = {<<f[1], f[2], heard[f] - Uncounted(f)>> : f \in {g \in Flows : heard[g] > Uncounted(g)}}
  <2> DEFINE R == {<<f[1], f[2], heard[f] - Uncounted(f)>> : f \in {g \in Flows : heard[g] > Uncounted(g)}}
  <2>0. \A f \in Flows : Waiting[f] = Uncounted(f)
    BY DEF Waiting
  <2>1. ASSUME NEW t \in DOMAIN nodes
        PROVE  <<t, nodes[t].dst, nodes[t].stat>> \in R
    <3> DEFINE f == <<t, nodes[t].dst>>
    <3>1. f \in Flows /\ f[1] = t /\ f[2] = nodes[t].dst
      BY <1>t DEF NodesType, Flows
    <3>2. nodes[t].stat > 0 /\ nodes[t].stat = heard[f] - Waiting[f]
      BY <1>0, <1>1 DEF NodeRules
    <3>3. heard[f] \in Nat /\ Waiting[f] \in Nat
      BY <1>0, <3>1 DEF TypeOK, Waiting, Uncounted, Flows
    <3> HIDE DEF f
    <3>4. heard[f] > Uncounted(f)
      BY <2>0, <3>1, <3>2, <3>3
    <3>. QED  BY <2>0, <3>1, <3>2, <3>4
  <2>2. ASSUME NEW f \in Flows, heard[f] > Uncounted(f)
        PROVE  <<f[1], f[2], heard[f] - Uncounted(f)>> \in Reported
    <3>1. f[1] \in DOMAIN nodes /\ nodes[f[1]].dst = f[2] /\ f = <<f[1], f[2]>>
      BY <1>0, <1>1, <2>0, <2>2 DEF NodeRules, Flows
    <3>2. nodes[f[1]].stat = heard[f] - Waiting[f]
      BY <1>0, <1>1, <3>1 DEF NodeRules
    <3>. QED  BY <2>0, <3>1, <3>2 DEF Reported
  <2>. QED  BY <2>1, <2>2 DEF Reported
<1>2. ASSUME NEW d \in Dests, At(d, "off")
      PROVE  /\ \A r \in Reported : r[2] # d
             /\ d \notin DOMAIN coding
             /\ \A f \in media : f[2] # d
  BY <1>0, <1>2 DEF MapRules, Reported
<1>3. Coded(Dests) = media
  BY <1>0, <1>t DEF Coded, MapRules, Flows
<1>. QED  BY <1>0, <1>1, <1>2, <1>3 DEF ListsRight

(* ListsRight of the model, for any sources, servers and settings: the     *)
(* lists of sgg_audit_manage::report and sgg_rtp_encoding_manage::getcoding *)
(* are right while servers come and go.                                    *)
THEOREM ListsHold == Spec => []ListsRight
BY InductiveHolds, RulesGiveLists, PTL

(* WhiteFramesRight of the model, for packets of any length and frames of  *)
(* any length and distance (sgg_RtpAuditAdd).                              *)
THEOREM WhiteFramesHold == Spec => []WhiteFramesRight
<1>1. Inductive => WhiteFramesRight
  BY DEF Inductive
<1>. QED  BY <1>1, InductiveHolds, PTL
=============================================================================
