------------------------------ MODULE HeapProofs ------------------------------
(***************************************************************************)
(* The safety of Heap, for pages and sizes of any number of words and any  *)
(* memory map whose frames are listed in ascending order.                  *)
(***************************************************************************)
EXTENDS Heap, SequenceTheorems, WellFoundedInduction, TLAPS

\* The bootloader sorts its map by base and its usable entries do not overlap.
Ascending ==
  /\ MemList \in Seq(Nat \ {0})
  /\ \A m, n \in 1..Len(MemList) : m < n => MemList[m] < MemList[n]

\* The frame that follows the first n frames of the list.
Edge(n) == IF n < Len(MemList) THEN MemList[n + 1] ELSE MemList[Len(MemList)] + 1

Types ==
  /\ stack_position \in 0..Len(MemList)
  /\ bin_headers \in [Lists -> Frames \cup {Null}]
  /\ header \in [Frames -> [next : {Null}, head : Nat, size : Nat]]
  /\ big \in Seq(Frames)
  /\ mem \in [Words -> Int]
  /\ live \subseteq [at : Nat, words : Nat]

\* Page f of list l has given away its first k blocks, and has the others on its list;
\* it is the first of its list unless they are all gone.
Page(f, l, k) ==
  /\ header[f].size = l
  /\ header[f].head = IF k <= LastBlock(l) THEN Block(f, l, k) ELSE Null
  /\ \A n \in k..LastBlock(l) :
       mem[Block(f, l, n)] = IF n = LastBlock(l) THEN Null ELSE Block(f, l, n + 1)
  /\ \A n \in 0..(k - 1) : \E b \in live : b.at = Block(f, l, n)
  /\ \A b \in live : FrameOf(b.at) = f =>
       b.words <= Power[l] /\ \E n \in 0..(k - 1) : b.at = Block(f, l, n)
  /\ bin_headers[l] = f <=> k <= LastBlock(l)

Pages == \A f \in SmallPages : \E l \in Lists : \E k \in 1..(LastBlock(l) + 1) : Page(f, l, k)

Bins == \A l \in Lists : bin_headers[l] # Null =>
  bin_headers[l] \in SmallPages /\ header[bin_headers[l]].size = l

\* A block begins behind a header in a frame that was taken, and ends before the frames
\* that were not.
Inside == \A b \in live :
  LET f == FrameOf(b.at) IN
  /\ f \in Taken /\ f * PageWords + HeaderWords <= b.at
  /\ b.at + b.words <= Edge(stack_position) * PageWords

\* Blocks of different frames are ordered as these are, headers included.
Order == \A b, c \in live :
  /\ FrameOf(b.at) < FrameOf(c.at) => b.at + b.words <= FrameOf(c.at) * PageWords
  /\ b # c /\ FrameOf(b.at) = FrameOf(c.at) =>
       b.at + b.words <= c.at \/ c.at + c.words <= b.at

BigPages == \A k \in DOMAIN big : big[k] \in Taken

IInv == Types /\ Pages /\ Bins /\ Inside /\ Order /\ BigPages

\* A frame that others have lies below a block's own frame or behind the block's end.
LentApart ==
  /\ lent \subseteq Taken
  /\ \A b \in live, g \in lent : g < FrameOf(b.at) \/ b.at + b.words <= g * PageWords

-----------------------------------------------------------------------------
(* Induction, and the powers that a recursive function defines.            *)

LEMMA SetInduction ==
  ASSUME NEW S, 0 \in S, \A n \in Nat : n \in S => n + 1 \in S
  PROVE  \A n \in Nat : n \in S
<1> DEFINE T == Nat \ S
           R == OpToRel(<, Nat)
<1> SUFFICES ASSUME T # {} PROVE FALSE
  OBVIOUS
<1>1. IsWellFoundedOn(R, Nat)
  BY NatLessThanWellFounded
<1>2. T \subseteq Nat
  OBVIOUS
<1> HIDE DEF R, T
<1>3. PICK n \in T : \A m \in T : ~(<<m, n>> \in R)
  BY <1>1, <1>2, WFMin
<1>4. \A m \in Nat : m < n => m \in S
  BY <1>2, <1>3 DEF R, OpToRel, T
<1>5. n \in Nat /\ n \notin S
  BY DEF T
<1>6. n # 0 /\ n - 1 \in Nat
  BY <1>5
<1> QED  BY <1>4, <1>5, <1>6

LEMMA Smallest ==
  ASSUME NEW S \in SUBSET Nat, S # {}
  PROVE  \E m \in S : \A n \in S : m <= n
<1> DEFINE R == OpToRel(<, Nat)
<1>1. IsWellFoundedOn(R, Nat)
  BY NatLessThanWellFounded
<1> HIDE DEF R
<1>2. PICK m \in S : \A n \in S : ~(<<n, m>> \in R)
  BY <1>1, WFMin
<1>3. \A n \in S : ~(n < m)
  BY <1>2 DEF R, OpToRel
<1> QED  BY <1>3

\* The beginnings of the function that doubles from 1 on.
Doubles(h, n) == h[0] = 1 /\ \A m \in 0..(n - 1) : h[m + 1] = 2 * h[m]

LEMMA DoublesExist == \A n \in Nat : \E h \in [Nat -> Nat \ {0}] : Doubles(h, n)
<1> DEFINE S == {n \in Nat : \E h \in [Nat -> Nat \ {0}] : Doubles(h, n)}
<1>1. 0 \in S
  <2> DEFINE h == [n \in Nat |-> 1]
  <2>1. h \in [Nat -> Nat \ {0}] /\ Doubles(h, 0)
    BY DEF Doubles
  <2> QED  BY <2>1
<1>2. ASSUME NEW n \in Nat, n \in S PROVE n + 1 \in S
  <2>1. PICK h \in [Nat -> Nat \ {0}] : Doubles(h, n)
    BY <1>2
  <2> DEFINE g == [h EXCEPT ![n + 1] = 2 * h[n]]
  <2>2. g \in [Nat -> Nat \ {0}]
    OBVIOUS
  <2>3. g[0] = 1
    BY <2>1 DEF Doubles
  <2>4. ASSUME NEW m \in 0..n PROVE g[m + 1] = 2 * g[m]
    <3>1. m \in Nat /\ m + 1 \in Nat /\ m # n + 1 /\ g[m] = h[m]
      OBVIOUS
    <3>2. CASE m = n
      BY <3>1, <3>2
    <3>3. CASE m # n
      <4>1. m \in 0..(n - 1) /\ m + 1 # n + 1
        BY <3>3
      <4>2. g[m + 1] = h[m + 1]
        BY <3>1, <4>1
      <4> QED  BY <2>1, <3>1, <4>1, <4>2 DEF Doubles
    <3> QED  BY <3>2, <3>3
  <2>5. Doubles(g, n + 1)
    BY <2>3, <2>4 DEF Doubles
  <2> HIDE DEF g
  <2> QED  BY <2>2, <2>5
<1>3. \A n \in Nat : n \in S
  <2> HIDE DEF S
  <2> QED  BY <1>1, <1>2, SetInduction
<1> QED  BY <1>3

LEMMA DoublesAgree ==
  ASSUME NEW n \in Nat, NEW h, NEW g, Doubles(h, n), Doubles(g, n)
  PROVE  \A m \in 0..n : h[m] = g[m]
<1> DEFINE S == {m \in Nat : m <= n => h[m] = g[m]}
<1>1. 0 \in S
  BY DEF Doubles
<1>2. ASSUME NEW m \in Nat, m \in S PROVE m + 1 \in S
  BY <1>2 DEF Doubles
<1>3. \A m \in Nat : m \in S
  <2> HIDE DEF S
  <2> QED  BY <1>1, <1>2, SetInduction
<1> QED  BY <1>3

LEMMA Powers ==
  /\ Power \in [Nat -> Nat \ {0}]
  /\ Power[0] = 1
  /\ \A n \in Nat : Power[n + 1] = 2 * Power[n]
<1> DEFINE upTo(n) == CHOOSE h \in [Nat -> Nat \ {0}] : Doubles(h, n)
           g == [n \in Nat |-> upTo(n)[n]]
<1>1. \A n \in Nat : upTo(n) \in [Nat -> Nat \ {0}] /\ Doubles(upTo(n), n)
  BY DoublesExist
<1> HIDE DEF upTo
<1>2. g \in [Nat -> Nat \ {0}] /\ g[0] = 1
  BY <1>1 DEF Doubles
<1>3. ASSUME NEW n \in Nat PROVE g[n + 1] = 2 * g[n]
  <2>1. Doubles(upTo(n), n) /\ Doubles(upTo(n + 1), n) /\ upTo(n + 1)[n + 1] = 2 * upTo(n + 1)[n]
    BY <1>1 DEF Doubles
  <2>2. upTo(n)[n] = upTo(n + 1)[n]
    BY <2>1, DoublesAgree
  <2> QED  BY <2>1, <2>2
<1>4. g = [n \in Nat |-> IF n = 0 THEN 1 ELSE 2 * g[n - 1]]
  <2> SUFFICES ASSUME NEW n \in Nat PROVE g[n] = IF n = 0 THEN 1 ELSE 2 * g[n - 1]
    OBVIOUS
  <2>1. CASE n = 0
    BY <1>2, <2>1
  <2>2. CASE n # 0
    <3>1. n - 1 \in Nat /\ (n - 1) + 1 = n
      BY <2>2
    <3>2. g[(n - 1) + 1] = 2 * g[n - 1]
      BY <1>3, <3>1
    <3> QED  BY <2>2, <3>1, <3>2
  <2> QED  BY <2>1, <2>2
<1> HIDE DEF g
<1>5. Power = [n \in Nat |-> IF n = 0 THEN 1 ELSE 2 * Power[n - 1]]
  BY <1>4 DEF Power
<1>6. Power[0] = 1 /\ \A n \in Nat : Power[n + 1] = 2 * Power[n]
  <2>1. \A n \in Nat : Power[n] = IF n = 0 THEN 1 ELSE 2 * Power[n - 1]
    BY <1>5
  <2>2. \A n \in Nat : n + 1 \in Nat /\ n + 1 # 0 /\ (n + 1) - 1 = n
    OBVIOUS
  <2> QED  BY <2>1, <2>2
<1>7. \A n \in Nat : Power[n] \in Nat \ {0}
  <2> DEFINE S == {n \in Nat : Power[n] \in Nat \ {0}}
  <2>1. 0 \in S
    BY <1>6
  <2>2. ASSUME NEW n \in Nat, n \in S PROVE n + 1 \in S
    BY <1>6, <2>2
  <2> HIDE DEF S
  <2>3. \A n \in Nat : n \in S
    BY <2>1, <2>2, SetInduction
  <2> QED  BY <2>3 DEF S
<1> QED  BY <1>5, <1>6, <1>7

LEMMA PowersMultiply ==
  ASSUME NEW m \in Nat
  PROVE  \A n \in Nat : Power[m + n] = Power[m] * Power[n]
<1> DEFINE S == {n \in Nat : Power[m + n] = Power[m] * Power[n]}
<1>1. 0 \in S
  BY Powers
<1>2. ASSUME NEW n \in Nat, n \in S PROVE n + 1 \in S
  <2> DEFINE a == Power[m]
             b == Power[n]
             c == Power[m + n]
  <2>1. a \in Nat /\ b \in Nat /\ c = a * b
    BY <1>2, Powers
  <2>2. Power[m + (n + 1)] = 2 * c
    <3>1. m + n \in Nat /\ m + (n + 1) = (m + n) + 1
      OBVIOUS
    <3> QED  BY <3>1, Powers
  <2>3. Power[n + 1] = 2 * b
    BY Powers
  <2> HIDE DEF a, b, c
  <2>4. 2 * c = a * (2 * b)
    BY <2>1
  <2>5. Power[m + (n + 1)] = Power[m] * Power[n + 1]
    BY <2>2, <2>3, <2>4 DEF a
  <2> QED  BY <2>5
<1>3. \A n \in Nat : n \in S
  <2> HIDE DEF S
  <2> QED  BY <1>1, <1>2, SetInduction
<1> QED  BY <1>3

LEMMA PowersGrow == \A m, n \in Nat : n < Power[n] /\ (m <= n => Power[m] <= Power[n])
<1> DEFINE S == {n \in Nat : n < Power[n]}
<1>1. 0 \in S
  BY Powers
<1>2. ASSUME NEW n \in Nat, n \in S PROVE n + 1 \in S
  BY <1>2, Powers
<1>3. \A n \in Nat : n \in S
  <2> HIDE DEF S
  <2> QED  BY <1>1, <1>2, SetInduction
<1>4. ASSUME NEW m \in Nat, NEW n \in Nat, m <= n PROVE Power[m] <= Power[n]
  <2> DEFINE a == Power[m]
             b == Power[n - m]
  <2>1. n - m \in Nat /\ m + (n - m) = n
    BY <1>4
  <2>2. a \in Nat \ {0} /\ b \in Nat \ {0}
    BY <2>1, Powers
  <2>3. Power[n] = a * b
    BY <2>1, PowersMultiply
  <2> HIDE DEF a, b
  <2>4. a <= a * b
    BY <2>2
  <2> QED  BY <2>3, <2>4 DEF a
<1> QED  BY <1>3, <1>4

-----------------------------------------------------------------------------
(* The geometry of pages and blocks.                                       *)

\* A page has 8 words or more.
LEMMA Page8 ==
  /\ PageWords \in Nat /\ 8 <= PageWords /\ BigFrom \in Nat
  /\ \A l \in Lists : 2 * Power[l] <= PageWords /\ l \in Nat /\ Power[l] \in Nat \ {0}
<1>1. BigFrom \in Nat /\ 3 <= BigFrom /\ PageWords = Power[BigFrom]
  BY HeapAssumption
<1>2. Power[3] = 8
  <2>1. Power[0] = 1 /\ Power[0 + 1] = 2 * Power[0] /\ Power[1 + 1] = 2 * Power[1] /\ Power[2 + 1] = 2 * Power[2]
    BY Powers
  <2> QED  BY <2>1
<1>3. 8 <= PageWords /\ PageWords \in Nat
  BY <1>1, <1>2, PowersGrow, Powers
<1>4. ASSUME NEW l \in Lists PROVE 2 * Power[l] <= PageWords /\ l \in Nat /\ Power[l] \in Nat \ {0}
  <2>1. l \in Nat /\ l + 1 \in Nat /\ l + 1 <= BigFrom
    BY <1>1 DEF Lists
  <2>2. Power[l + 1] <= Power[BigFrom]
    BY <1>1, <2>1, PowersGrow
  <2> QED  BY <1>1, <2>1, <2>2, Powers
<1> QED  BY <1>1, <1>3, <1>4

LEMMA Frame ==
  ASSUME NEW f \in Nat, NEW w \in 0..(PageWords - 1)
  PROVE  /\ f * PageWords \in Nat /\ FrameOf(f * PageWords + w) = f
         /\ f \in Frames => f * PageWords + w \in Words
<1> DEFINE P == PageWords
<1>1. P \in Nat /\ 8 <= P
  BY Page8
<1>2. f \in Frames => f * PageWords + w \in Words
  BY DEF Words
<1> HIDE DEF P
<1>3. f * P \in Nat /\ (w \in 0..(P - 1) => (f * P + w) \div P = f)
  BY <1>1
<1> QED  BY <1>2, <1>3 DEF P, FrameOf

\* An address is in the frame that FrameOf says.
LEMMA InFrame ==
  ASSUME NEW a \in Nat
  PROVE  /\ FrameOf(a) \in Nat
         /\ FrameOf(a) * PageWords <= a /\ a < FrameOf(a) * PageWords + PageWords
<1> DEFINE P == PageWords
           q == a \div P
<1>1. P \in Nat /\ 8 <= P
  BY Page8
<1> HIDE DEF P
<1>2. q \in Nat /\ q * P <= a /\ a < q * P + P
  BY <1>1
<1> QED  BY <1>2 DEF P, FrameOf

LEMMA FramesApart ==
  ASSUME NEW f \in Nat, NEW g \in Nat
  PROVE  /\ f < g => f * PageWords + PageWords <= g * PageWords
         /\ f <= g => f * PageWords <= g * PageWords
<1> DEFINE P == PageWords
<1>1. P \in Nat /\ 8 <= P
  BY Page8
<1> HIDE DEF P
<1>2. f < g => f * P + P <= g * P
  BY <1>1
<1>3. f <= g => f * P <= g * P
  BY <1>1
<1> QED  BY <1>2, <1>3 DEF P

\* The blocks of a page lie behind its header, one after the other, and end with it.
LEMMA Blocks ==
  ASSUME NEW f \in Nat \ {0}, NEW l \in Lists
  PROVE  /\ LastBlock(l) \in Nat /\ LastBlock(l) < PageWords
         /\ Block(f, l, 0) = f * PageWords + HeaderWords
         /\ \A n \in 0..LastBlock(l) :
              /\ Block(f, l, n) \in Nat \ {0}
              /\ FrameOf(Block(f, l, n)) = f
              /\ f * PageWords + HeaderWords <= Block(f, l, n)
              /\ Block(f, l, n) + Power[l] <= f * PageWords + PageWords
              /\ Block(f, l, n) + Power[l] = Block(f, l, n + 1)
              /\ f \in Frames => Block(f, l, n) \in Words
         /\ \A m, n \in 0..LastBlock(l) : m < n => Block(f, l, m) + Power[l] <= Block(f, l, n)
<1> DEFINE P == PageWords
           w == Power[l]
           q == (P - 3) \div w
           base == f * P
<1>1. P \in Nat /\ 8 <= P /\ w \in Nat \ {0} /\ 2 * w <= P
  BY Page8
<1>2. LastBlock(l) = q - 1 /\ \A n \in Nat : Block(f, l, n) = base + 3 + n * w
  BY DEF LastBlock, Block, HeaderWords
<1>3. base \in Nat /\ base >= 1
  <2> HIDE DEF P
  <2> QED  BY <1>1
<1> HIDE DEF P, w
<1>4. q \in Nat /\ q >= 1 /\ q <= P - 3 /\ q * w <= P - 3
  <2>1. w <= P - 3
    BY <1>1
  <2>2. q \in Nat /\ q * w <= P - 3 /\ P - 3 < q * w + w
    BY <1>1
  <2> HIDE DEF q
  <2>3. q >= 1
    BY <1>1, <2>1, <2>2
  <2>4. q <= q * w
    BY <1>1, <2>2
  <2> QED  BY <1>1, <2>2, <2>3, <2>4
<1> HIDE DEF q, base
<1>5. \A n \in 0..(q - 1) : n * w \in Nat /\ n * w + w <= q * w /\ (n + 1) * w = n * w + w
  BY <1>1, <1>4
<1>6. \A m, n \in 0..(q - 1) : m < n => m * w + w <= n * w
  BY <1>1, <1>4
<1>7. ASSUME NEW n \in 0..(q - 1)
      PROVE /\ base + 3 + n * w \in Nat \ {0}
            /\ base + 3 <= base + 3 + n * w
            /\ base + 3 + n * w + w <= base + P
            /\ base + 3 + n * w + w = base + 3 + (n + 1) * w
            /\ 3 + n * w \in 0..(P - 1)
  BY <1>1, <1>3, <1>4, <1>5
<1>8. ASSUME NEW n \in 0..(q - 1)
      PROVE FrameOf(base + 3 + n * w) = f /\ (f \in Frames => base + 3 + n * w \in Words)
  <2>1. PICK r \in 0..(P - 1) : r = 3 + n * w
    BY <1>7
  <2>2. base + 3 + n * w = f * PageWords + r
    BY <1>3, <1>5, <2>1 DEF base, P
  <2> QED  BY <2>1, <2>2, Frame DEF P
<1>9. \A m, n \in 0..(q - 1) : m < n => base + 3 + m * w + w <= base + 3 + n * w
  BY <1>1, <1>3, <1>5, <1>6
<1>10. Block(f, l, 0) = base + 3
  BY <1>1, <1>2, <1>3
<1> QED
  BY <1>1, <1>2, <1>4, <1>7, <1>8, <1>9, <1>10 DEF base, w, P, HeaderWords

\* A size is smaller than a block of its list.
LEMMA ListOfSize ==
  ASSUME NEW s \in Nat
  PROVE  Index(s) \in Nat /\ s + 1 <= Power[Index(s)]
<1> DEFINE S == {l \in Nat : s < Power[l]}
<1>1. s \in S
  BY PowersGrow
<1>2. PICK l \in S : \A k \in S : l <= k
  <2> HIDE DEF S
  <2>1. S \subseteq Nat
    BY DEF S
  <2> QED  BY <1>1, <2>1, Smallest
<1>3. l \in 0..s /\ s < Power[l]
  BY <1>1, <1>2
<1>4. l = 0 \/ s >= Power[l - 1]
  <2> SUFFICES ASSUME l # 0 PROVE s >= Power[l - 1]
    OBVIOUS
  <2>1. l - 1 \in Nat /\ ~(l <= l - 1)
    BY <1>2
  <2>2. l - 1 \notin S
    BY <1>2, <2>1
  <2> QED  BY <2>1, <2>2, Powers
<1>5. Index(s) \in 0..s /\ s < Power[Index(s)]
  BY <1>3, <1>4 DEF Index
<1> QED  BY <1>5, Powers

-----------------------------------------------------------------------------
(* The frame list.                                                         *)

\* Frames that follow each other in the list are at least as far apart in memory.
LEMMA Listed ==
  ASSUME Ascending
  PROVE  /\ Len(MemList) \in Nat
         /\ \A n \in 1..Len(MemList) : MemList[n] \in Nat \ {0} /\ MemList[n] \in Frames
         /\ \A m, n \in 1..Len(MemList) : m <= n => MemList[m] + (n - m) <= MemList[n]
<1>1. /\ Len(MemList) \in Nat
      /\ \A n \in 1..Len(MemList) : MemList[n] \in Nat \ {0} /\ MemList[n] \in Frames
  BY DEF Ascending, Frames
<1>2. SUFFICES ASSUME NEW m \in 1..Len(MemList)
               PROVE  \A n \in 1..Len(MemList) : m <= n => MemList[m] + (n - m) <= MemList[n]
  BY <1>1
<1> DEFINE S == {d \in Nat : m + d <= Len(MemList) => MemList[m] + d <= MemList[m + d]}
<1>3. 0 \in S
  BY <1>1
<1>4. ASSUME NEW d \in Nat, d \in S PROVE d + 1 \in S
  <2> SUFFICES ASSUME m + (d + 1) <= Len(MemList)
               PROVE  MemList[m] + (d + 1) <= MemList[m + (d + 1)]
    OBVIOUS
  <2>1. m + d \in 1..Len(MemList) /\ m + (d + 1) \in 1..Len(MemList) /\ m + d < m + (d + 1)
    BY <1>1
  <2>2. MemList[m] + d <= MemList[m + d] /\ MemList[m + d] < MemList[m + (d + 1)]
    BY <1>4, <2>1 DEF Ascending
  <2>3. MemList[m] \in Nat /\ MemList[m + d] \in Nat /\ MemList[m + (d + 1)] \in Nat
    BY <1>1, <2>1
  <2> QED  BY <2>2, <2>3
<1>5. \A d \in Nat : d \in S
  <2> HIDE DEF S
  <2> QED  BY <1>3, <1>4, SetInduction
<1>6. ASSUME NEW n \in 1..Len(MemList), m <= n PROVE MemList[m] + (n - m) <= MemList[n]
  <2>1. n - m \in Nat /\ m + (n - m) = n /\ m + (n - m) <= Len(MemList)
    BY <1>1, <1>6
  <2> QED  BY <1>5, <2>1
<1> QED  BY <1>6

LEMMA Edges ==
  ASSUME Ascending, NEW n \in 1..Len(MemList)
  PROVE  /\ Edge(n) \in Nat
         /\ \A k \in 1..n : MemList[k] + (n - k) + 1 <= Edge(n)
         /\ \A m \in 0..n : Edge(m) \in Nat /\ Edge(m) <= Edge(n)
<1>1. Len(MemList) \in Nat
  BY Listed
<1>2. ASSUME NEW m \in 0..Len(MemList) PROVE Edge(m) \in Nat
  <2>1. CASE m < Len(MemList)
    <3>1. m + 1 \in 1..Len(MemList)
      BY <1>1, <2>1
    <3> QED  BY <2>1, <3>1, Listed DEF Edge
  <2>2. CASE ~(m < Len(MemList))
    <3>1. Len(MemList) \in 1..Len(MemList)
      BY <1>1
    <3> QED  BY <2>2, <3>1, Listed DEF Edge
  <2> QED  BY <2>1, <2>2
<1>3. ASSUME NEW k \in 1..n PROVE MemList[k] + (n - k) + 1 <= Edge(n)
  <2>1. CASE n < Len(MemList)
    <3>1. k \in 1..Len(MemList) /\ n + 1 \in 1..Len(MemList) /\ k <= n + 1
      BY <1>1, <2>1
    <3>2. MemList[k] + ((n + 1) - k) <= MemList[n + 1] /\ MemList[k] \in Nat /\ MemList[n + 1] \in Nat
      BY <3>1, Listed
    <3> QED  BY <1>1, <2>1, <3>2 DEF Edge
  <2>2. CASE n = Len(MemList)
    <3>1. k \in 1..Len(MemList) /\ k <= n
      BY <1>1, <2>2
    <3>2. MemList[k] + (n - k) <= MemList[n] /\ MemList[k] \in Nat /\ MemList[n] \in Nat
      BY <3>1, Listed
    <3> QED  BY <1>1, <2>2, <3>2 DEF Edge
  <2> QED  BY <1>1, <2>1, <2>2
<1>4. ASSUME NEW m \in 0..n PROVE Edge(m) <= Edge(n)
  <2>1. CASE m = n
    BY <1>2, <2>1
  <2>2. CASE m # n
    <3>1. m + 1 \in 1..n /\ m < Len(MemList) /\ m + 1 \in 1..Len(MemList)
      BY <1>1, <2>2
    <3>2. Edge(m) = MemList[m + 1] /\ MemList[m + 1] \in Nat
      BY <3>1, Listed DEF Edge
    <3>3. MemList[m + 1] + (n - (m + 1)) + 1 <= Edge(n)
      BY <1>3, <3>1
    <3> QED  BY <1>1, <1>2, <3>1, <3>2, <3>3
  <2> QED  BY <2>1, <2>2
<1> QED  BY <1>1, <1>2, <1>3, <1>4

-----------------------------------------------------------------------------
(* States.                                                                 *)

LEMMA Initially == ASSUME Ascending, Init PROVE IInv
<1>1. Types
  <2>1. stack_position \in 0..Len(MemList)
    BY Listed DEF Init
  <2>2. big \in Seq(Frames) /\ live = {}
    BY DEF Init
  <2>3. bin_headers \in [Lists -> Frames \cup {Null}] /\ mem \in [Words -> Int]
    BY DEF Init, Data
  <2>4. header \in [Frames -> [next : {Null}, head : Nat, size : Nat]]
    BY DEF Init, Null
  <2> QED  BY <2>1, <2>2, <2>3, <2>4 DEF Types
<1>2. Pages /\ Inside /\ Order
  BY DEF Init, Pages, Inside, Order, SmallPages
<1>3. Bins /\ BigPages
  BY DEF Init, Bins, BigPages
<1> QED  BY <1>1, <1>2, <1>3 DEF IInv

\* A frame that holds blocks was taken, and comes before those that were not.
LEMMA TakenFrames ==
  ASSUME Ascending, IInv, NEW f \in Taken
  PROVE  /\ f \in Frames /\ f \in Nat \ {0}
         /\ f * PageWords + PageWords <= Edge(stack_position) * PageWords
         /\ \A n \in (stack_position + 1)..Len(MemList) : f < MemList[n]
<1>1. stack_position \in 0..Len(MemList) /\ Len(MemList) \in Nat
  BY Listed DEF IInv, Types
<1>2. PICK k \in 1..stack_position : f = MemList[k]
  BY DEF Taken
<1>3. k \in 1..Len(MemList) /\ stack_position \in 1..Len(MemList)
  BY <1>1, <1>2
<1>4. f \in Frames /\ f \in Nat \ {0}
  BY <1>2, <1>3, Listed
<1>5. Edge(stack_position) \in Nat /\ f + 1 <= Edge(stack_position)
  BY <1>1, <1>2, <1>3, <1>4, Edges
<1>6. f * PageWords + PageWords <= Edge(stack_position) * PageWords
  BY <1>4, <1>5, FramesApart
<1>7. ASSUME NEW n \in (stack_position + 1)..Len(MemList) PROVE f < MemList[n]
  <2>1. n \in 1..Len(MemList) /\ k < n
    BY <1>1, <1>3, <1>7
  <2> QED  BY <1>2, <1>3, <2>1 DEF Ascending
<1> QED  BY <1>4, <1>6, <1>7

LEMMA LiveBlocks ==
  ASSUME Ascending, IInv, NEW b \in live
  PROVE  /\ b.at \in Nat /\ b.words \in Nat
         /\ FrameOf(b.at) \in Taken /\ FrameOf(b.at) \in Nat \ {0}
         /\ FrameOf(b.at) * PageWords + HeaderWords <= b.at
<1>1. b.at \in Nat /\ b.words \in Nat
  BY DEF IInv, Types
<1>2. FrameOf(b.at) \in Taken /\ FrameOf(b.at) * PageWords + HeaderWords <= b.at
  BY DEF IInv, Inside
<1> QED  BY <1>1, <1>2, TakenFrames

LEMMA SmallPageIsTaken ==
  ASSUME Ascending, IInv, NEW f \in SmallPages
  PROVE  f \in Taken /\ f \in Frames /\ f \in Nat \ {0} /\ \E b \in live : f = FrameOf(b.at)
<1>1. PICK b \in live : f = FrameOf(b.at)
  BY DEF SmallPages
<1> QED  BY <1>1, LiveBlocks, TakenFrames

\* The next frame is above everything that was handed out.
LEMMA FreshFrame ==
  ASSUME Ascending, IInv, NEW e \in Nat, Left(1 + e)
  PROVE  /\ NextFrame \in Frames /\ NextFrame \in Nat \ {0}
         /\ NextFrame \notin Taken /\ NextFrame \notin SmallPages
         /\ NextFrame \in {MemList[n] : n \in 1..(stack_position + 1 + e)}
         /\ Taken \subseteq {MemList[n] : n \in 1..(stack_position + 1 + e)}
         /\ stack_position + 1 + e \in 1..Len(MemList)
         /\ Edge(stack_position + 1 + e) \in Nat
         /\ NextFrame + 1 + e <= Edge(stack_position + 1 + e)
         /\ Edge(stack_position) * PageWords <= Edge(stack_position + 1 + e) * PageWords
         /\ \A b \in live : FrameOf(b.at) < NextFrame /\ b.at + b.words <= NextFrame * PageWords
         /\ \A f \in SmallPages : f < NextFrame
<1> DEFINE n == stack_position + 1
           N == stack_position + 1 + e
<1>1. stack_position \in 0..Len(MemList) /\ Len(MemList) \in Nat
  BY Listed DEF IInv, Types
<1>2. n \in 1..Len(MemList) /\ N \in 1..Len(MemList) /\ n \in 1..N /\ N - n = e /\ stack_position \in 0..N
  BY <1>1 DEF Left
<1>3. NextFrame = MemList[n] /\ NextFrame \in Frames /\ NextFrame \in Nat \ {0}
  BY <1>2, Listed DEF NextFrame
<1>4. n \in (stack_position + 1)..Len(MemList) /\ stack_position < Len(MemList)
  BY <1>1, <1>2
<1>5. \A f \in Taken : f < NextFrame /\ f \in Nat
  BY <1>3, <1>4, TakenFrames
<1>6. NextFrame \notin Taken
  BY <1>3, <1>5
<1>7. \A f \in SmallPages : f < NextFrame /\ f \in Taken
  BY <1>5, SmallPageIsTaken
<1>8. Taken \subseteq {MemList[m] : m \in 1..N}
  BY <1>1, <1>2 DEF Taken
<1>9. /\ Edge(N) \in Nat /\ NextFrame + 1 + e <= Edge(N)
      /\ Edge(stack_position) \in Nat /\ Edge(stack_position) <= Edge(N)
  <2>1. MemList[n] + (N - n) + 1 <= Edge(N) /\ Edge(N) \in Nat
    BY <1>2, Edges
  <2>2. Edge(stack_position) \in Nat /\ Edge(stack_position) <= Edge(N)
    BY <1>2, Edges
  <2> HIDE DEF n, N
  <2>3. NextFrame + (N - n) + 1 <= Edge(N)
    BY <1>3, <2>1
  <2>4. NextFrame + 1 + e <= Edge(N)
    BY <1>2, <1>3, <2>1, <2>3
  <2> QED  BY <2>1, <2>2, <2>4
<1>10. Edge(stack_position) * PageWords <= Edge(N) * PageWords
  BY <1>9, FramesApart
<1>11. \A b \in live : FrameOf(b.at) < NextFrame /\ b.at + b.words <= NextFrame * PageWords
  <2>1. Edge(stack_position) = NextFrame
    BY <1>3, <1>4 DEF Edge
  <2> QED  BY <1>5, <2>1, LiveBlocks DEF IInv, Inside
<1> QED
  BY <1>2, <1>3, <1>6, <1>7, <1>8, <1>9, <1>10, <1>11

\* Blocks stay where they are while frames are taken.
LEMMA InsideGrows ==
  ASSUME Ascending, IInv, NEW x, live' = live \cup {x},
         Taken \subseteq Taken',
         Edge(stack_position) * PageWords <= Edge(stack_position') * PageWords,
         stack_position' \in 0..Len(MemList), Edge(stack_position') \in Nat, Edge(stack_position) \in Nat,
         FrameOf(x.at) \in Taken', FrameOf(x.at) * PageWords + HeaderWords <= x.at,
         x.at + x.words <= Edge(stack_position') * PageWords
  PROVE  Inside'
<1>1. ASSUME NEW b \in live
      PROVE  /\ FrameOf(b.at) \in Taken' /\ FrameOf(b.at) * PageWords + HeaderWords <= b.at
             /\ b.at + b.words <= Edge(stack_position') * PageWords
  <2>1. b.at + b.words <= Edge(stack_position) * PageWords /\ FrameOf(b.at) \in Taken
    BY DEF IInv, Inside
  <2>2. b.at + b.words \in Nat
    BY LiveBlocks
  <2>3. Edge(stack_position) * PageWords \in Int /\ Edge(stack_position') * PageWords \in Int
    BY Page8
  <2> QED  BY <2>1, <2>2, <2>3, LiveBlocks
<1> QED  BY <1>1 DEF Inside

LEMMA OrderGrows ==
  ASSUME Ascending, IInv, NEW x, live' = live \cup {x},
         \A b \in live :
           /\ FrameOf(b.at) < FrameOf(x.at) => b.at + b.words <= FrameOf(x.at) * PageWords
           /\ FrameOf(x.at) < FrameOf(b.at) => x.at + x.words <= FrameOf(b.at) * PageWords
           /\ FrameOf(b.at) = FrameOf(x.at) => b.at + b.words <= x.at \/ x.at + x.words <= b.at,
         FrameOf(x.at) \in Nat
  PROVE  Order'
<1>1. \A b, c \in live' :
        /\ FrameOf(b.at) < FrameOf(c.at) => b.at + b.words <= FrameOf(c.at) * PageWords
        /\ b # c /\ FrameOf(b.at) = FrameOf(c.at) =>
             b.at + b.words <= c.at \/ c.at + c.words <= b.at
  <2> SUFFICES ASSUME NEW b \in live', NEW c \in live'
      PROVE /\ FrameOf(b.at) < FrameOf(c.at) => b.at + b.words <= FrameOf(c.at) * PageWords
            /\ b # c /\ FrameOf(b.at) = FrameOf(c.at) =>
                 b.at + b.words <= c.at \/ c.at + c.words <= b.at
    OBVIOUS
  <2>1. CASE b \in live /\ c \in live
    BY <2>1 DEF IInv, Order
  <2>2. CASE b = x /\ c \in live
    BY <2>2
  <2>3. CASE b \in live /\ c = x
    BY <2>3
  <2>4. CASE b = x /\ c = x
    BY <2>4
  <2> QED  BY <2>1, <2>2, <2>3, <2>4
<1> QED  BY <1>1 DEF Order

\* A page in which nothing is done stays as it is.
LEMMA PageKept ==
  ASSUME NEW f, NEW l \in Lists, NEW k, Page(f, l, k),
         NEW x, live' = live \cup {x}, FrameOf(x.at) # f,
         header'[f] = header[f],
         \A n \in k..LastBlock(l) : mem'[Block(f, l, n)] = mem[Block(f, l, n)],
         bin_headers'[l] = f <=> bin_headers[l] = f
  PROVE  Page(f, l, k)'
BY DEF Page

-----------------------------------------------------------------------------
(* The actions.                                                            *)

LEMMA TakeFrameKeeps == ASSUME Ascending, IInv, TakeFrame PROVE IInv'
<1>1. /\ Left(1 + 0) /\ stack_position' = stack_position + 1 + 0
      /\ bin_headers' = bin_headers /\ header' = header /\ big' = big /\ mem' = mem /\ live' = live
  <2>1. stack_position \in Nat
    BY Listed DEF IInv, Types
  <2> QED  BY <2>1 DEF TakeFrame, Left
<1>2. /\ stack_position' \in 1..Len(MemList) /\ Taken \subseteq Taken'
      /\ Edge(stack_position) * PageWords <= Edge(stack_position') * PageWords
      /\ Edge(stack_position') \in Nat
  BY <1>1, FreshFrame DEF Taken
<1>3. Types'
  BY <1>1, <1>2 DEF IInv, Types
<1>4. SmallPages' = SmallPages
  BY <1>1 DEF SmallPages
<1>5. Pages' /\ Bins'
  BY <1>1, <1>4 DEF IInv, Pages, Bins, Page
<1>6. Order' /\ BigPages'
  BY <1>1, <1>2 DEF IInv, Order, BigPages
<1>7. Inside'
  <2> SUFFICES ASSUME NEW b \in live
               PROVE  /\ FrameOf(b.at) \in Taken' /\ FrameOf(b.at) * PageWords + HeaderWords <= b.at
                      /\ b.at + b.words <= Edge(stack_position') * PageWords
    BY <1>1 DEF Inside
  <2>1. b.at + b.words <= Edge(stack_position) * PageWords /\ FrameOf(b.at) \in Taken
    BY DEF IInv, Inside
  <2>2. stack_position \in 0..stack_position'
    BY <1>1, <1>2, Listed DEF IInv, Types
  <2>3. Edge(stack_position) \in Nat
    BY <1>2, <2>2, Edges
  <2>4. Edge(stack_position) * PageWords \in Int /\ Edge(stack_position') * PageWords \in Int
    BY <1>2, <2>3, Page8
  <2>5. b.at + b.words \in Nat
    BY LiveBlocks
  <2> QED  BY <1>2, <2>1, <2>4, <2>5, LiveBlocks
<1> QED  BY <1>3, <1>5, <1>6, <1>7 DEF IInv

LEMMA MallocBigKeeps == ASSUME Ascending, IInv, NEW s \in Sizes, MallocBig(s) PROVE IInv'
<1> DEFINE l == Index(s)
           e == ExtraFrames(l)
           f == NextFrame
           at == f * PageWords + HeaderWords
           x == Handed(at, s)
<1>1. s \in Nat /\ l \in Nat /\ s + 1 <= Power[l] /\ BigFrom \in Nat /\ l >= BigFrom
  BY HeapAssumption, ListOfSize DEF MallocBig
<1>2. e \in Nat /\ s + 1 + HeaderWords <= (1 + e) * PageWords
  <2> DEFINE P == PageWords
             r == Power[l - BigFrom]
  <2>1. r \in Nat \ {0} /\ e = 2 * r /\ P \in Nat /\ 8 <= P
    BY <1>1, Powers, Page8 DEF ExtraFrames
  <2>2. Power[l] = P * r
    <3>1. l - BigFrom \in Nat /\ BigFrom + (l - BigFrom) = l
      BY <1>1
    <3> QED  BY <1>1, <3>1, PowersMultiply, HeapAssumption
  <2> HIDE DEF P, r
  <2>3. P * r \in Nat /\ P * r <= 2 * r * P /\ (1 + 2 * r) * P = P + 2 * r * P
    BY <2>1
  <2>4. s + 1 + 3 <= P + 2 * r * P
    BY <1>1, <2>1, <2>2, <2>3
  <2> QED  BY <2>1, <2>3, <2>4 DEF P, HeaderWords
<1>3. /\ Left(1 + e) /\ stack_position' = stack_position + 1 + e
      /\ big' = Append(big, f) /\ live' = live \cup {x} /\ mem' = Filled(mem, at, s)
      /\ bin_headers' = bin_headers /\ header' = header
  BY DEF MallocBig
<1> HIDE DEF l, e
<1>4. f \in Nat \ {0} /\ f \in Frames
  BY <1>2, <1>3, FreshFrame
<1>5. /\ x.at = at /\ x.words = s + 1 /\ at \in Nat /\ FrameOf(at) = f
      /\ x \in [at : Nat, words : Nat]
  <2>1. HeaderWords \in 0..(PageWords - 1)
    BY Page8 DEF HeaderWords
  <2>2. f * PageWords \in Nat /\ FrameOf(at) = f
    BY <1>4, <2>1, Frame
  <2> QED  BY <1>1, <2>2 DEF Handed, HeaderWords
<1>6. /\ f \notin Taken /\ f \notin SmallPages /\ f \in Taken' /\ Taken \subseteq Taken'
      /\ stack_position' \in 1..Len(MemList) /\ Edge(stack_position') \in Nat
      /\ f + 1 + e <= Edge(stack_position')
      /\ Edge(stack_position) * PageWords <= Edge(stack_position') * PageWords
      /\ \A b \in live : FrameOf(b.at) < f /\ b.at + b.words <= f * PageWords
      /\ \A g \in SmallPages : g < f
  BY <1>2, <1>3, FreshFrame DEF Taken
<1> HIDE DEF f, x
<1>7. Types'
  <2>1. mem' \in [Words -> Int]
    BY <1>3 DEF IInv, Types, Filled, Data
  <2>2. stack_position' \in 0..Len(MemList)
    BY <1>6
  <2>3. big' \in Seq(Frames)
    BY <1>3, <1>4, AppendProperties DEF IInv, Types
  <2>4. live' \subseteq [at : Nat, words : Nat]
    BY <1>3, <1>5 DEF IInv, Types
  <2>5. /\ bin_headers' \in [Lists -> Frames \cup {Null}]
        /\ header' \in [Frames -> [next : {Null}, head : Nat, size : Nat]]
    BY <1>3 DEF IInv, Types
  <2> QED  BY <2>1, <2>2, <2>3, <2>4, <2>5 DEF Types
<1>8. /\ DOMAIN big' = DOMAIN big \cup {Len(big) + 1} /\ Len(big) \in Nat /\ DOMAIN big = 1..Len(big)
      /\ \A k \in DOMAIN big : big'[k] = big[k]
      /\ big'[Len(big) + 1] = f
  BY <1>3, <1>4, AppendProperties DEF IInv, Types
<1>9. SmallPages' = SmallPages
  <2>1. {big'[k] : k \in DOMAIN big'} = {big[k] : k \in DOMAIN big} \cup {f}
    BY <1>8
  <2>2. {FrameOf(b.at) : b \in live'} = {FrameOf(b.at) : b \in live} \cup {f}
    BY <1>3, <1>5
  <2> QED  BY <1>6, <2>1, <2>2 DEF SmallPages
<1>10. Pages'
  <2> SUFFICES ASSUME NEW g \in SmallPages
               PROVE  \E m \in Lists : \E k \in 1..(LastBlock(m) + 1) : Page(g, m, k)'
    BY <1>9 DEF Pages
  <2>1. PICK m \in Lists : \E k \in 1..(LastBlock(m) + 1) : Page(g, m, k)
    BY DEF IInv, Pages
  <2>2. PICK k \in 1..(LastBlock(m) + 1) : Page(g, m, k)
    BY <2>1
  <2>3. g \in Nat \ {0} /\ g \in Frames /\ g # f /\ g < f
    BY <1>4, <1>6, SmallPageIsTaken
  <2>4. ASSUME NEW n \in k..LastBlock(m) PROVE mem'[Block(g, m, n)] = mem[Block(g, m, n)]
    <3>1. LastBlock(m) \in Nat /\ n \in 0..LastBlock(m)
      BY <2>2, <2>3, Blocks
    <3>2. /\ Block(g, m, n) \in Words /\ Block(g, m, n) \in Nat
          /\ Block(g, m, n) + Power[m] <= g * PageWords + PageWords
      BY <2>3, <3>1, Blocks
    <3>3. g * PageWords + PageWords <= f * PageWords /\ Power[m] \in Nat \ {0} /\ f * PageWords \in Nat
      BY <1>4, <2>3, FramesApart, Page8
    <3>4. g * PageWords + PageWords \in Nat
      BY <2>3, Page8
    <3>5. ~(at <= Block(g, m, n))
      BY <3>2, <3>3, <3>4 DEF HeaderWords
    <3> QED  BY <1>1, <1>3, <1>5, <3>2, <3>5 DEF IInv, Types, Filled
  <2>5. Page(g, m, k)'
    BY <1>3, <1>5, <2>2, <2>3, <2>4, PageKept
  <2> QED  BY <2>5
<1>11. Bins'
  BY <1>3, <1>9 DEF IInv, Bins
<1>12. BigPages'
  BY <1>6, <1>8 DEF IInv, BigPages
<1>13. Order'
  <2>1. \A b \in live : FrameOf(b.at) \in Nat
    BY LiveBlocks
  <2> QED  BY <1>3, <1>4, <1>5, <1>6, <2>1, OrderGrows
<1>14. Inside'
  <2>1. x.at + x.words <= Edge(stack_position') * PageWords
    <3>1. (f + 1 + e) * PageWords <= Edge(stack_position') * PageWords
      <4>1. f + 1 + e \in Nat
        BY <1>2, <1>4
      <4> QED  BY <1>6, <4>1, FramesApart
    <3>2. (f + 1 + e) * PageWords = f * PageWords + (1 + e) * PageWords
      BY <1>2, <1>4, Page8
    <3>3. /\ (1 + e) * PageWords \in Nat /\ f * PageWords \in Nat
          /\ Edge(stack_position') * PageWords \in Nat
      BY <1>2, <1>4, <1>6, Page8
    <3> QED  BY <1>1, <1>2, <1>5, <3>1, <3>2, <3>3 DEF HeaderWords
  <2>2. stack_position \in 0..stack_position'
    BY <1>2, <1>3, <1>6, Listed DEF IInv, Types
  <2>3. Edge(stack_position) \in Nat
    BY <1>6, <2>2, Edges
  <2>4. stack_position' \in 0..Len(MemList) /\ FrameOf(x.at) \in Taken'
        /\ FrameOf(x.at) * PageWords + HeaderWords <= x.at
    BY <1>5, <1>6
  <2> QED  BY <1>3, <1>6, <2>1, <2>3, <2>4, InsideGrows
<1> QED  BY <1>7, <1>10, <1>11, <1>12, <1>13, <1>14 DEF IInv

LEMMA MallocExpandKeeps == ASSUME Ascending, IInv, NEW s \in Sizes, MallocExpand(s) PROVE IInv'
<1> DEFINE l == Index(s)
           last == LastBlock(l)
<1>1. s \in Nat /\ s + 1 <= Power[l] /\ l \in Lists /\ Power[l] \in Nat
  <2>1. s \in Nat /\ l \in Nat /\ s + 1 <= Power[l] /\ BigFrom \in Nat /\ l < BigFrom
    BY HeapAssumption, ListOfSize DEF MallocExpand
  <2> QED  BY <2>1, Powers DEF Lists
<1> HIDE DEF l
<1>2. /\ Left(1 + 0) /\ stack_position' = stack_position + 1 + 0
      /\ stack_position + 1 + 0 = stack_position + 1
  <2>1. stack_position \in Nat
    BY Listed DEF IInv, Types
  <2> QED  BY <2>1 DEF MallocExpand, Left
<1>3. PICK f \in Nat \ {0} : f = NextFrame /\ f \in Frames
  BY <1>2, FreshFrame
<1> DEFINE at == Block(f, l, 0)
           x == Handed(at, s)
<1>4. /\ big' = big /\ live' = live \cup {x}
      /\ mem' = Filled(Chained(f, l), at, s)
      /\ bin_headers[l] = Null
      /\ bin_headers' = [bin_headers EXCEPT ![l] = IF last = 0 THEN Null ELSE f]
      /\ header' = [header EXCEPT ![f] =
                      [next |-> Null, size |-> l, head |-> IF last = 0 THEN Null ELSE Block(f, l, 1)]]
  BY <1>3 DEF MallocExpand, l
<1>5. /\ f \notin Taken /\ f \notin SmallPages /\ f \in Taken' /\ Taken \subseteq Taken'
      /\ stack_position' \in 1..Len(MemList) /\ Edge(stack_position') \in Nat
      /\ f + 1 <= Edge(stack_position')
      /\ Edge(stack_position) * PageWords <= Edge(stack_position') * PageWords
      /\ \A b \in live : FrameOf(b.at) < f /\ b.at + b.words <= f * PageWords
      /\ \A g \in SmallPages : g < f
  <2>1. /\ f \notin Taken /\ f \notin SmallPages
        /\ f \in {MemList[n] : n \in 1..stack_position'}
        /\ Taken \subseteq {MemList[n] : n \in 1..stack_position'}
        /\ stack_position' \in 1..Len(MemList) /\ Edge(stack_position') \in Nat
        /\ f + 1 + 0 <= Edge(stack_position')
        /\ Edge(stack_position) * PageWords <= Edge(stack_position') * PageWords
        /\ \A b \in live : FrameOf(b.at) < f /\ b.at + b.words <= f * PageWords
        /\ \A g \in SmallPages : g < f
    BY <1>2, <1>3, FreshFrame
  <2>2. f + 1 <= Edge(stack_position')
    BY <2>1
  <2> QED  BY <2>1, <2>2 DEF Taken
<1>6. /\ last \in Nat
      /\ \A n \in 0..last :
           /\ Block(f, l, n) \in Nat \ {0} /\ Block(f, l, n) \in Words
           /\ FrameOf(Block(f, l, n)) = f
           /\ f * PageWords + HeaderWords <= Block(f, l, n)
           /\ Block(f, l, n) + Power[l] <= f * PageWords + PageWords
           /\ Block(f, l, n) + Power[l] = Block(f, l, n + 1)
      /\ \A m, n \in 0..last : m < n => Block(f, l, m) + Power[l] <= Block(f, l, n)
  BY <1>1, <1>3, Blocks
<1> HIDE DEF last
<1>7. /\ x.at = at /\ x.words = s + 1 /\ at \in Nat \ {0} /\ FrameOf(at) = f
      /\ f * PageWords + HeaderWords <= at /\ at + s + 1 <= f * PageWords + PageWords
      /\ x \in [at : Nat, words : Nat]
  <2>1. 0 \in 0..last
    BY <1>6
  <2>2. at \in Nat \ {0} /\ FrameOf(at) = f /\ f * PageWords + HeaderWords <= at
        /\ at + Power[l] <= f * PageWords + PageWords
    BY <1>6, <2>1
  <2>3. f * PageWords + PageWords \in Nat
    BY <1>3, Page8
  <2> HIDE DEF at
  <2> QED  BY <1>1, <2>2, <2>3 DEF Handed
<1>8. \A a \in Words : mem'[a] = IF a \in at..(at + s) THEN Data ELSE Chained(f, l)[a]
  BY <1>4 DEF Filled, Chained
<1>9. mem' \in [Words -> Int]
  <2>1. \A a \in Words : a \in Int
    <3>1. \A g \in Frames : g \in Nat
      BY Listed, <1>5 DEF Frames
    <3> SUFFICES ASSUME NEW g \in Frames, NEW w \in 0..(PageWords - 1) PROVE g * PageWords + w \in Int
      BY DEF Words
    <3> QED  BY <3>1, Page8
  <2>2. Chained(f, l) \in [Words -> Int]
    BY <1>1, <2>1 DEF IInv, Types, Chained, Null
  <2> QED  BY <1>4, <2>2 DEF Filled, Data
<1>10. \A n \in 1..last : mem'[Block(f, l, n)] = IF n = last THEN Null ELSE Block(f, l, n + 1)
  <2> SUFFICES ASSUME NEW n \in 1..last
               PROVE  mem'[Block(f, l, n)] = IF n = last THEN Null ELSE Block(f, l, n + 1)
    OBVIOUS
  <2>1. n \in 0..last /\ 0 \in 0..last /\ last \in 0..last
    BY <1>6
  <2>2. at + Power[l] <= Block(f, l, n)
    BY <1>6, <2>1
  <2>3. Block(f, l, n) \in Words /\ Block(f, l, n) \in Nat
    BY <1>6, <2>1
  <2>4. Block(f, l, n) \notin at..(at + s)
    <3> HIDE DEF at
    <3> QED  BY <1>1, <1>7, <2>2, <2>3
  <2>5. n # last => Block(f, l, n) # Block(f, l, last)
    <3>1. Block(f, l, last) \in Nat
      BY <1>6, <2>1
    <3>2. n # last => Block(f, l, n) + Power[l] <= Block(f, l, last)
      BY <1>6, <2>1
    <3> QED  BY <1>1, <2>3, <3>1, <3>2
  <2>6. Chained(f, l)[Block(f, l, n)] = IF n = last THEN Null ELSE Block(f, l, n) + Power[l]
    BY <2>1, <2>3, <2>5 DEF Chained, last
  <2> QED  BY <1>6, <1>8, <2>1, <2>3, <2>4, <2>6
<1>11. \A b \in live : FrameOf(b.at) \in Nat /\ FrameOf(b.at) # f
  BY <1>3, <1>5, LiveBlocks
<1>12. /\ header'[f] = [next |-> Null, size |-> l, head |-> IF last = 0 THEN Null ELSE Block(f, l, 1)]
       /\ \A g \in Frames : g # f => header'[g] = header[g]
       /\ bin_headers'[l] = IF last = 0 THEN Null ELSE f
       /\ \A m \in Lists : m # l => bin_headers'[m] = bin_headers[m]
  BY <1>1, <1>4, <1>3 DEF IInv, Types
<1>13. Page(f, l, 1)'
  <2>1. header'[f].size = l
    BY <1>12
  <2>2. header'[f].head = IF 1 <= LastBlock(l) THEN Block(f, l, 1) ELSE Null
    BY <1>6, <1>12 DEF last
  <2>3. \A n \in 0..(1 - 1) : \E b \in live' : b.at = Block(f, l, n)
    BY <1>4, <1>7
  <2>4. ASSUME NEW b \in live', FrameOf(b.at) = f
        PROVE  b.words <= Power[l] /\ \E n \in 0..(1 - 1) : b.at = Block(f, l, n)
    <3>1. b = x
      BY <1>4, <1>11, <2>4
    <3> QED  BY <1>1, <1>7, <3>1
  <2>5. bin_headers'[l] = f <=> 1 <= LastBlock(l)
    BY <1>3, <1>6, <1>12 DEF last, Null
  <2>6. \A n \in 1..LastBlock(l) :
          mem'[Block(f, l, n)] = IF n = LastBlock(l) THEN Null ELSE Block(f, l, n + 1)
    BY <1>10 DEF last
  <2> QED  BY <2>1, <2>2, <2>3, <2>4, <2>5, <2>6 DEF Page
<1>14. SmallPages' = SmallPages \cup {f}
  <2>1. \A k \in DOMAIN big : big[k] # f
    BY <1>5 DEF IInv, BigPages
  <2>2. {FrameOf(b.at) : b \in live'} = {FrameOf(b.at) : b \in live} \cup {f}
    BY <1>4, <1>7
  <2> QED  BY <1>4, <2>1, <2>2 DEF SmallPages
<1>15. Pages'
  <2>1. ASSUME NEW g \in SmallPages
        PROVE  \E m \in Lists : \E k \in 1..(LastBlock(m) + 1) : Page(g, m, k)'
    <3>1. PICK m \in Lists : \E k \in 1..(LastBlock(m) + 1) : Page(g, m, k)
      BY DEF IInv, Pages
    <3>2. PICK k \in 1..(LastBlock(m) + 1) : Page(g, m, k)
      BY <3>1
    <3>3. g \in Nat \ {0} /\ g \in Frames /\ g # f /\ g < f
      BY <1>3, <1>5, SmallPageIsTaken
    <3>4. ASSUME NEW n \in k..LastBlock(m) PROVE mem'[Block(g, m, n)] = mem[Block(g, m, n)]
      <4>1. LastBlock(m) \in Nat /\ n \in 0..LastBlock(m)
        BY <3>2, <3>3, Blocks
      <4>2. /\ Block(g, m, n) \in Words /\ Block(g, m, n) \in Nat /\ FrameOf(Block(g, m, n)) = g
            /\ Block(g, m, n) + Power[m] <= g * PageWords + PageWords
        BY <3>3, <4>1, Blocks
      <4>3. /\ g * PageWords + PageWords <= f * PageWords /\ Power[m] \in Nat \ {0}
            /\ f * PageWords \in Nat /\ g * PageWords + PageWords \in Nat
        BY <1>3, <3>3, FramesApart, Page8
      <4>4. Block(g, m, n) \notin at..(at + s)
        <5> HIDE DEF at
        <5> QED  BY <1>1, <1>7, <4>2, <4>3 DEF HeaderWords
      <4>5. \A j \in 0..last : Block(g, m, n) # Block(f, l, j)
        BY <1>6, <3>3, <4>2
      <4>6. Chained(f, l)[Block(g, m, n)] = mem[Block(g, m, n)]
        BY <4>2, <4>5 DEF Chained, last
      <4> QED  BY <1>8, <4>2, <4>4, <4>6
    <3>5. bin_headers'[m] = g <=> bin_headers[m] = g
      BY <1>4, <1>12, <3>3 DEF Null
    <3>6. Page(g, m, k)'
      <4> HIDE DEF at, x
      <4> QED  BY <1>4, <1>7, <1>12, <3>2, <3>3, <3>4, <3>5, PageKept
    <3> QED  BY <3>6
  <2>2. \E m \in Lists : \E k \in 1..(LastBlock(m) + 1) : Page(f, m, k)'
    <3>1. 1 \in 1..(LastBlock(l) + 1)
      BY <1>6 DEF last
    <3> QED  BY <1>1, <1>13, <3>1
  <2> QED  BY <1>14, <2>1, <2>2 DEF Pages
<1>16. Bins'
  <2> SUFFICES ASSUME NEW m \in Lists, bin_headers'[m] # Null
               PROVE  bin_headers'[m] \in SmallPages' /\ header'[bin_headers'[m]].size = m
    BY DEF Bins
  <2>1. CASE m = l
    BY <1>12, <1>14, <2>1
  <2>2. CASE m # l
    <3>1. bin_headers'[m] \in SmallPages /\ header[bin_headers'[m]].size = m
      BY <1>12, <2>2 DEF IInv, Bins
    <3>2. bin_headers'[m] \in Frames /\ bin_headers'[m] # f
      BY <1>5, <3>1, SmallPageIsTaken
    <3> QED  BY <1>12, <1>14, <3>1, <3>2
  <2> QED  BY <2>1, <2>2
<1>17. BigPages'
  BY <1>4, <1>5 DEF IInv, BigPages
<1>18. Order'
  BY <1>4, <1>3, <1>5, <1>7, <1>11, OrderGrows
<1>19. Inside'
  <2>1. x.at + x.words <= Edge(stack_position') * PageWords
    <3>1. f * PageWords + PageWords <= Edge(stack_position') * PageWords
      BY <1>3, <1>5, FramesApart
    <3>2. f * PageWords + PageWords \in Nat /\ Edge(stack_position') * PageWords \in Nat
      BY <1>3, <1>5, Page8
    <3> HIDE DEF at, x
    <3> QED  BY <1>1, <1>7, <3>1, <3>2
  <2>2. stack_position \in 0..stack_position'
    BY <1>2, <1>5, Listed DEF IInv, Types
  <2>3. Edge(stack_position) \in Nat
    BY <1>5, <2>2, Edges
  <2>4. stack_position' \in 0..Len(MemList) /\ FrameOf(x.at) \in Taken'
        /\ FrameOf(x.at) * PageWords + HeaderWords <= x.at
    BY <1>5, <1>7
  <2> HIDE DEF x
  <2> QED  BY <1>4, <1>5, <2>1, <2>3, <2>4, InsideGrows
<1>20. Types'
  <2>1. header' \in [Frames -> [next : {Null}, head : Nat, size : Nat]]
    <3>1. Block(f, l, 1) \in Nat \/ last = 0
      BY <1>6
    <3>2. [next |-> Null, size |-> l, head |-> IF last = 0 THEN Null ELSE Block(f, l, 1)]
            \in [next : {Null}, head : Nat, size : Nat]
      BY <1>1, <3>1, Page8 DEF Null
    <3> QED  BY <1>4, <3>2 DEF IInv, Types
  <2>2. bin_headers' \in [Lists -> Frames \cup {Null}]
    BY <1>4, <1>3 DEF IInv, Types
  <2>3. live' \subseteq [at : Nat, words : Nat] /\ stack_position' \in 0..Len(MemList)
    BY <1>4, <1>5, <1>7 DEF IInv, Types
  <2>4. big' \in Seq(Frames)
    BY <1>4 DEF IInv, Types
  <2> QED  BY <1>9, <2>1, <2>2, <2>3, <2>4 DEF Types
<1> QED  BY <1>15, <1>16, <1>17, <1>18, <1>19, <1>20 DEF IInv

LEMMA MallocFromBinKeeps == ASSUME Ascending, IInv, NEW s \in Sizes, MallocFromBin(s) PROVE IInv'
<1> DEFINE l == Index(s)
           last == LastBlock(l)
<1>1. s \in Nat /\ s + 1 <= Power[l] /\ l \in Lists /\ Power[l] \in Nat
  <2>1. s \in Nat /\ l \in Nat /\ s + 1 <= Power[l] /\ BigFrom \in Nat /\ l < BigFrom
    BY HeapAssumption, ListOfSize DEF MallocFromBin
  <2> QED  BY <2>1, Powers DEF Lists
<1>2. PICK f \in SmallPages : f = bin_headers[l] /\ header[f].size = l
  BY <1>1 DEF IInv, Bins, MallocFromBin
<1>3. PICK m \in Lists : \E k \in 1..(LastBlock(m) + 1) : Page(f, m, k)
  BY DEF IInv, Pages
<1>4. m = l
  BY <1>2, <1>3 DEF Page
<1>5. PICK k \in 1..(last + 1) : Page(f, l, k)
  BY <1>3, <1>4
<1>6. f \in Nat \ {0} /\ f \in Frames /\ f \in Taken
  BY SmallPageIsTaken
<1>7. k \in 0..last /\ 0 \in 0..last /\ last \in Nat
  <2>1. last \in Nat /\ k <= last
    BY <1>1, <1>2, <1>5, <1>6, Blocks DEF Page
  <2> QED  BY <1>5, <2>1
<1>8. /\ \A n \in 0..last :
           /\ Block(f, l, n) \in Nat \ {0} /\ Block(f, l, n) \in Words
           /\ FrameOf(Block(f, l, n)) = f
           /\ f * PageWords + HeaderWords <= Block(f, l, n)
           /\ Block(f, l, n) + Power[l] <= f * PageWords + PageWords
           /\ Block(f, l, n) + Power[l] = Block(f, l, n + 1)
      /\ \A i, n \in 0..last : i < n => Block(f, l, i) + Power[l] <= Block(f, l, n)
  BY <1>1, <1>6, Blocks
<1>9. PICK at \in Nat \ {0} : at = Block(f, l, k)
  BY <1>7, <1>8
<1> DEFINE x == Handed(at, s)
           next == IF k = last THEN Null ELSE Block(f, l, k + 1)
<1>10. header[f].head = at /\ mem[at] = next /\ header[f].next = Null
  <2>1. header[f].head = at /\ k \in k..last
    BY <1>5, <1>7, <1>9 DEF Page
  <2>2. mem[at] = next
    BY <1>5, <1>9, <2>1 DEF Page
  <2> QED  BY <1>6, <2>1, <2>2 DEF IInv, Types
<1>11. next \in Nat /\ (next = Null <=> k = last)
  <2>1. k # last => k + 1 \in 0..last
    BY <1>7
  <2> QED  BY <1>8, <2>1 DEF Null
<1>12. /\ live' = live \cup {x} /\ mem' = Filled(mem, at, s)
       /\ stack_position' = stack_position /\ big' = big
       /\ bin_headers' = [bin_headers EXCEPT ![l] = IF k = last THEN Null ELSE f]
       /\ header'[f] = [next |-> Null, head |-> next, size |-> l]
       /\ \A g \in Frames : g # f => header'[g] = header[g]
       /\ header' \in [Frames -> [next : {Null}, head : Nat, size : Nat]]
  <2> DEFINE old == header[f]
  <2>1. /\ header \in [Frames -> [next : {Null}, head : Nat, size : Nat]]
        /\ bin_headers \in [Lists -> Frames \cup {Null}]
        /\ header[f] \in [next : {Null}, head : Nat, size : Nat]
    BY <1>6 DEF IInv, Types
  <2>2. /\ live' = live \cup {x} /\ mem' = Filled(mem, at, s)
        /\ stack_position' = stack_position /\ big' = big
    BY <1>2, <1>10 DEF MallocFromBin
  <2>3. CASE next = Null
    <3>1. /\ bin_headers' = [bin_headers EXCEPT ![l] = Null]
          /\ header' = [header EXCEPT ![f].head = Null, ![f].next = Null]
      BY <1>2, <1>10, <2>3 DEF MallocFromBin, Decouple
    <3>2. header' = [header EXCEPT ![f] = [next |-> Null, head |-> next, size |-> l]]
      <4> DEFINE first == [header EXCEPT ![f] = [old EXCEPT !.head = Null]]
      <4>1. /\ first[f] = [old EXCEPT !.head = Null]
            /\ header' = [first EXCEPT ![f] = [first[f] EXCEPT !.next = Null]]
        BY <1>6, <2>1, <3>1
      <4>2. [[old EXCEPT !.head = Null] EXCEPT !.next = Null] = [next |-> Null, head |-> next, size |-> l]
        <5>1. [old EXCEPT !.head = Null] = [next |-> Null, head |-> Null, size |-> l]
          BY <1>2, <1>10, <2>1
        <5>2. [[next |-> Null, head |-> Null, size |-> l] EXCEPT !.next = Null]
                = [next |-> Null, head |-> Null, size |-> l]
          <6> HIDE DEF l
          <6> QED  OBVIOUS
        <5> HIDE DEF old, next, l
        <5> QED  BY <2>3, <5>1, <5>2
      <4>3. \A row : [first EXCEPT ![f] = row] = [header EXCEPT ![f] = row]
        <5> HIDE DEF old
        <5> QED  BY <2>1
      <4> HIDE DEF first, old, next, l
      <4> QED  BY <4>1, <4>2, <4>3
    <3>3. [next |-> Null, head |-> next, size |-> l] \in [next : {Null}, head : Nat, size : Nat]
      BY <1>1, <1>11, Page8
    <3> HIDE DEF next, x
    <3> QED  BY <1>6, <1>11, <2>1, <2>2, <2>3, <3>1, <3>2, <3>3
  <2>4. CASE next # Null
    <3>1. /\ bin_headers' = bin_headers
          /\ header' = [header EXCEPT ![f].head = next]
      BY <1>2, <1>10, <2>4 DEF MallocFromBin
    <3>2. header' = [header EXCEPT ![f] = [next |-> Null, head |-> next, size |-> l]]
      <4>1. [old EXCEPT !.head = next] = [next |-> Null, head |-> next, size |-> l]
        BY <1>2, <1>10, <2>1
      <4>2. header' = [header EXCEPT ![f] = [old EXCEPT !.head = next]]
        BY <3>1
      <4> HIDE DEF old, next, l
      <4> QED  BY <4>1, <4>2
    <3>3. [next |-> Null, head |-> next, size |-> l] \in [next : {Null}, head : Nat, size : Nat]
      BY <1>1, <1>11, Page8
    <3>4. bin_headers' = [bin_headers EXCEPT ![l] = f]
      BY <1>1, <1>2, <2>1, <3>1
    <3> HIDE DEF next, x
    <3> QED  BY <1>6, <1>11, <2>1, <2>2, <2>4, <3>2, <3>3, <3>4
  <2> QED  BY <2>3, <2>4
<1> HIDE DEF next
<1>13. /\ x.at = at /\ x.words = s + 1 /\ FrameOf(at) = f
       /\ f * PageWords + HeaderWords <= at /\ at + s + 1 <= f * PageWords + PageWords
       /\ x \in [at : Nat, words : Nat]
  <2>1. /\ FrameOf(at) = f /\ f * PageWords + HeaderWords <= at
        /\ at + Power[l] <= f * PageWords + PageWords
    BY <1>7, <1>8, <1>9
  <2>2. f * PageWords + PageWords \in Nat
    BY <1>6, Page8
  <2>3. at + s + 1 <= f * PageWords + PageWords
    BY <1>1, <2>1, <2>2
  <2> QED  BY <1>1, <2>1, <2>3 DEF Handed
<1>14. \A a \in Words : a \notin at..(at + s) => mem'[a] = mem[a]
  BY <1>12 DEF Filled, IInv, Types
<1> HIDE DEF x, l
<1>15. SmallPages' = SmallPages
  <2>1. {FrameOf(b.at) : b \in live'} = {FrameOf(b.at) : b \in live} \cup {f}
    BY <1>12, <1>13
  <2> QED  BY <1>12, <2>1 DEF SmallPages
<1>16. /\ bin_headers'[l] = IF k = last THEN Null ELSE f
       /\ \A i \in Lists : i # l => bin_headers'[i] = bin_headers[i]
       /\ bin_headers' \in [Lists -> Frames \cup {Null}]
  BY <1>1, <1>6, <1>12 DEF IInv, Types
<1>17. Page(f, l, k + 1)'
  <2>1. header'[f].size = l
    BY <1>12
  <2>2. header'[f].head = IF k + 1 <= LastBlock(l) THEN Block(f, l, k + 1) ELSE Null
    BY <1>7, <1>12 DEF last, next
  <2>3. ASSUME NEW n \in 0..((k + 1) - 1) PROVE \E b \in live' : b.at = Block(f, l, n)
    <3>1. CASE n = k
      BY <1>9, <1>12, <1>13, <3>1
    <3>2. CASE n # k
      <4>1. n \in 0..(k - 1)
        BY <1>7, <3>2
      <4> QED  BY <1>5, <1>12, <4>1 DEF Page
    <3> QED  BY <3>1, <3>2
  <2>4. ASSUME NEW b \in live', FrameOf(b.at) = f
        PROVE  b.words <= Power[l] /\ \E n \in 0..((k + 1) - 1) : b.at = Block(f, l, n)
    <3>1. CASE b = x
      BY <1>1, <1>7, <1>9, <1>13, <3>1
    <3>2. CASE b \in live
      <4>1. b.words <= Power[l] /\ \E n \in 0..(k - 1) : b.at = Block(f, l, n)
        BY <1>5, <2>4, <3>2 DEF Page
      <4> QED  BY <1>7, <4>1
    <3> QED  BY <1>12, <3>1, <3>2
  <2>5. bin_headers'[l] = f <=> k + 1 <= LastBlock(l)
    BY <1>6, <1>7, <1>16 DEF last, Null
  <2>6. ASSUME NEW n \in (k + 1)..LastBlock(l)
        PROVE  mem'[Block(f, l, n)] = IF n = LastBlock(l) THEN Null ELSE Block(f, l, n + 1)
    <3>1. n \in k..LastBlock(l) /\ n \in 0..last /\ k < n
      BY <1>7
    <3>2. /\ at + Power[l] <= Block(f, l, n)
          /\ Block(f, l, n) \in Words /\ Block(f, l, n) \in Nat
      BY <1>7, <1>8, <1>9, <3>1
    <3>3. Block(f, l, n) \notin at..(at + s)
      BY <1>1, <3>2
    <3>4. mem[Block(f, l, n)] = IF n = LastBlock(l) THEN Null ELSE Block(f, l, n + 1)
      BY <1>5, <3>1 DEF Page
    <3> QED  BY <1>14, <3>2, <3>3, <3>4
  <2> QED  BY <2>1, <2>2, <2>3, <2>4, <2>5, <2>6 DEF Page
<1>18. Pages'
  <2>1. ASSUME NEW g \in SmallPages, g # f
        PROVE  \E i \in Lists : \E j \in 1..(LastBlock(i) + 1) : Page(g, i, j)'
    <3>1. PICK i \in Lists : \E j \in 1..(LastBlock(i) + 1) : Page(g, i, j)
      BY DEF IInv, Pages
    <3>2. PICK j \in 1..(LastBlock(i) + 1) : Page(g, i, j)
      BY <3>1
    <3>3. g \in Nat \ {0} /\ g \in Frames
      BY SmallPageIsTaken
    <3>4. ASSUME NEW n \in j..LastBlock(i) PROVE mem'[Block(g, i, n)] = mem[Block(g, i, n)]
      <4>1. LastBlock(i) \in Nat /\ n \in 0..LastBlock(i)
        BY <3>2, <3>3, Blocks
      <4>2. /\ Block(g, i, n) \in Words /\ Block(g, i, n) \in Nat
            /\ g * PageWords + HeaderWords <= Block(g, i, n)
            /\ Block(g, i, n) + Power[i] <= g * PageWords + PageWords
        BY <3>3, <4>1, Blocks
      <4>3. /\ g * PageWords + PageWords <= f * PageWords \/ f * PageWords + PageWords <= g * PageWords
            /\ Power[i] \in Nat \ {0} /\ f * PageWords \in Nat /\ g * PageWords \in Nat
            /\ PageWords \in Nat
        BY <1>6, <2>1, <3>3, FramesApart, Page8
      <4>4. Block(g, i, n) \notin at..(at + s)
        BY <1>1, <1>13, <4>2, <4>3 DEF HeaderWords
      <4> QED  BY <1>14, <4>2, <4>4
    <3>5. bin_headers'[i] = g <=> bin_headers[i] = g
      BY <1>2, <1>16, <2>1, <3>3 DEF Null
    <3>6. Page(g, i, j)'
      BY <1>12, <1>13, <2>1, <3>2, <3>3, <3>4, <3>5, PageKept
    <3> QED  BY <3>6
  <2>2. \E i \in Lists : \E j \in 1..(LastBlock(i) + 1) : Page(f, i, j)'
    <3>1. k + 1 \in 1..(LastBlock(l) + 1)
      BY <1>7 DEF last
    <3> QED  BY <1>1, <1>17, <3>1
  <2> QED  BY <1>15, <2>1, <2>2 DEF Pages
<1>19. Bins'
  <2> SUFFICES ASSUME NEW i \in Lists, bin_headers'[i] # Null
               PROVE  bin_headers'[i] \in SmallPages' /\ header'[bin_headers'[i]].size = i
    BY DEF Bins
  <2>1. CASE i = l
    BY <1>12, <1>15, <1>16, <2>1
  <2>2. CASE i # l
    <3>1. bin_headers'[i] \in SmallPages /\ header[bin_headers'[i]].size = i
      BY <1>16, <2>2 DEF IInv, Bins
    <3>2. bin_headers'[i] \in Frames /\ bin_headers'[i] # f
      BY <1>2, <2>2, <3>1, SmallPageIsTaken
    <3> QED  BY <1>12, <1>15, <3>1, <3>2
  <2> QED  BY <2>1, <2>2
<1>20. BigPages'
  BY <1>12 DEF IInv, BigPages, Taken
<1>21. Order'
  <2>1. ASSUME NEW b \in live, FrameOf(b.at) < f PROVE b.at + b.words <= f * PageWords
    <3>1. PICK c \in live : f = FrameOf(c.at)
      BY DEF SmallPages
    <3> QED  BY <2>1, <3>1 DEF IInv, Order
  <2>2. ASSUME NEW b \in live, f < FrameOf(b.at) PROVE x.at + x.words <= FrameOf(b.at) * PageWords
    <3>1. FrameOf(b.at) \in Nat
      BY LiveBlocks
    <3>2. f * PageWords + PageWords <= FrameOf(b.at) * PageWords
      BY <1>6, <2>2, <3>1, FramesApart
    <3>3. f * PageWords + PageWords \in Nat /\ FrameOf(b.at) * PageWords \in Nat
      BY <1>6, <3>1, Page8
    <3> QED  BY <1>1, <1>13, <3>2, <3>3
  <2>3. ASSUME NEW b \in live, FrameOf(b.at) = f PROVE b.at + b.words <= x.at
    <3>1. b.words <= Power[l] /\ \E n \in 0..(k - 1) : b.at = Block(f, l, n)
      BY <1>5, <2>3 DEF Page
    <3>2. PICK n \in 0..(k - 1) : b.at = Block(f, l, n)
      BY <3>1
    <3>3. n \in 0..last /\ n < k
      BY <1>7
    <3>4. Block(f, l, n) + Power[l] <= at /\ Block(f, l, n) \in Nat
      BY <1>7, <1>8, <1>9, <3>3
    <3>5. b.words \in Nat
      BY LiveBlocks
    <3> QED  BY <1>1, <1>13, <3>1, <3>2, <3>4, <3>5
  <2> QED  BY <1>6, <1>12, <1>13, <2>1, <2>2, <2>3, OrderGrows
<1>22. Inside'
  <2>1. f * PageWords + PageWords <= Edge(stack_position) * PageWords
    BY <1>6, TakenFrames
  <2>2. stack_position \in 1..Len(MemList) /\ Len(MemList) \in Nat
    BY <1>6, Listed DEF IInv, Types, Taken
  <2>3. Edge(stack_position) \in Nat
    BY <2>2, Edges
  <2>4. x.at + x.words <= Edge(stack_position) * PageWords
    <3>1. f * PageWords + PageWords \in Nat /\ Edge(stack_position) * PageWords \in Nat
      BY <1>6, <2>3, Page8
    <3> QED  BY <1>1, <1>13, <2>1, <3>1
  <2>5. Taken' = Taken /\ Edge(stack_position') = Edge(stack_position)
    BY <1>12 DEF Taken
  <2>6. Edge(stack_position) * PageWords \in Nat
    BY <2>3, Page8
  <2>7. stack_position' \in 0..Len(MemList)
    BY <1>12, <2>2
  <2> QED  BY <1>6, <1>12, <1>13, <2>3, <2>4, <2>5, <2>6, <2>7, InsideGrows
<1>23. Types'
  <2>1. mem' \in [Words -> Int]
    BY <1>12 DEF IInv, Types, Filled, Data
  <2>2. live' \subseteq [at : Nat, words : Nat]
    BY <1>12, <1>13 DEF IInv, Types
  <2> QED  BY <1>12, <1>16, <2>1, <2>2 DEF IInv, Types
<1> QED  BY <1>18, <1>19, <1>20, <1>21, <1>22, <1>23 DEF IInv

LEMMA Invariance == ASSUME Ascending PROVE Spec => []IInv
<1>1. Init => IInv
  BY Initially
<1>2. ASSUME IInv, [Next]_vars PROVE IInv'
  <2>1. ASSUME NEW s \in Sizes, MallocFromBin(s) PROVE IInv'
    BY <1>2, <2>1, MallocFromBinKeeps
  <2>2. ASSUME NEW s \in Sizes, MallocExpand(s) PROVE IInv'
    BY <1>2, <2>2, MallocExpandKeeps
  <2>3. ASSUME NEW s \in Sizes, MallocBig(s) PROVE IInv'
    BY <1>2, <2>3, MallocBigKeeps
  <2>4. CASE TakeFrame
    BY <1>2, <2>4, TakeFrameKeeps
  <2>5. CASE UNCHANGED vars
    BY <1>2, <2>5 DEF vars, IInv, Types, Pages, Page, Bins, Inside, Order, BigPages, SmallPages, Taken
  <2> QED  BY <1>2, <2>1, <2>2, <2>3, <2>4, <2>5 DEF Next
<1> QED  BY <1>1, <1>2, PTL DEF Spec

-----------------------------------------------------------------------------
(* The theorems.                                                           *)

\* Blocks that callers hold share no word, and none covers a header (malloc.c:57-119).
THEOREM BlocksAreApart == ASSUME Ascending PROVE Spec => []NoOverlap
<1>1. ASSUME IInv PROVE NoOverlap
  <2> SUFFICES ASSUME NEW b \in live, NEW c \in live
               PROVE  /\ b # c => Span(b) \cap Span(c) = {}
                      /\ Span(b) \cap HeaderSpan(c) = {}
    BY DEF NoOverlap
  <2> DEFINE F == FrameOf(b.at)
             G == FrameOf(c.at)
  <2>1. /\ b.at \in Nat /\ b.words \in Nat /\ F \in Nat \ {0} /\ F * PageWords + HeaderWords <= b.at
        /\ c.at \in Nat /\ c.words \in Nat /\ G \in Nat \ {0} /\ G * PageWords + HeaderWords <= c.at
    BY <1>1, LiveBlocks
  <2>2. /\ F < G => F * PageWords + PageWords <= G * PageWords /\ b.at + b.words <= G * PageWords
        /\ G < F => G * PageWords + PageWords <= F * PageWords /\ c.at + c.words <= F * PageWords
        /\ F = G /\ b # c => b.at + b.words <= c.at \/ c.at + c.words <= b.at
    BY <1>1, <2>1, FramesApart DEF IInv, Order
  <2>3. PageWords \in Nat /\ 8 <= PageWords /\ F * PageWords \in Nat /\ G * PageWords \in Nat
    BY <2>1, Page8
  <2>4. \A a \in HeaderSpan(c) : a \in Nat /\ G * PageWords <= a /\ a < G * PageWords + HeaderWords
    BY <2>3 DEF HeaderSpan, HeaderWords
  <2>5. /\ \A a \in Span(b) : a \in Int /\ b.at <= a /\ a < b.at + b.words
        /\ \A a \in Span(c) : a \in Int /\ c.at <= a /\ a < c.at + c.words
    BY <2>1 DEF Span
  <2> HIDE DEF F, G
  <2>6. b # c => b.at + b.words <= c.at \/ c.at + c.words <= b.at
    BY <2>1, <2>2, <2>3 DEF HeaderWords
  <2>7. b.at + b.words <= G * PageWords \/ G * PageWords + HeaderWords <= b.at
    BY <2>1, <2>2, <2>3 DEF HeaderWords
  <2>8. ASSUME b # c, NEW a \in Span(b), a \in Span(c) PROVE FALSE
    BY <2>1, <2>5, <2>6, <2>8
  <2>9. ASSUME NEW a \in Span(b), a \in HeaderSpan(c) PROVE FALSE
    BY <2>1, <2>3, <2>4, <2>5, <2>7, <2>9 DEF HeaderWords
  <2> QED  BY <2>8, <2>9
<1> QED  BY <1>1, Invariance, PTL

\* A new block lies in the next frame of the list, or in a page cut up before, whose end
\* it does not pass.
LEMMA NewBlock ==
  ASSUME Ascending, IInv, NEW s \in Sizes,
         MallocFromBin(s) \/ MallocExpand(s) \/ MallocBig(s)
  PROVE  \E x \in [at : Nat, words : Nat] :
           /\ live' = live \cup {x} /\ lent' = lent /\ Taken \subseteq Taken'
           /\ \/ FrameOf(x.at) \notin Taken /\ \A f \in Taken : f < FrameOf(x.at)
              \/ /\ FrameOf(x.at) \in SmallPages
                 /\ x.at + x.words <= FrameOf(x.at) * PageWords + PageWords
<1> DEFINE l == Index(s)
<1>1. s \in Nat /\ l \in Nat /\ s + 1 <= Power[l] /\ stack_position \in Nat /\ BigFrom \in Nat
  BY HeapAssumption, ListOfSize, Listed DEF IInv, Types
<1>2. l < BigFrom => l \in Lists
  BY <1>1 DEF Lists
<1>3. ASSUME NEW e \in Nat, Left(1 + e), stack_position' = stack_position + 1 + e,
             NEW at, at = NextFrame * PageWords + HeaderWords,
             live' = live \cup {Handed(at, s)}, lent' = lent
      PROVE  \E x \in [at : Nat, words : Nat] :
               /\ live' = live \cup {x} /\ lent' = lent /\ Taken \subseteq Taken'
               /\ FrameOf(x.at) \notin Taken /\ \A f \in Taken : f < FrameOf(x.at)
  <2> DEFINE f == NextFrame
             x == Handed(at, s)
  <2>1. f \in Nat \ {0} /\ f \notin Taken
    BY <1>3, FreshFrame
  <2>2. HeaderWords \in 0..(PageWords - 1)
    BY Page8 DEF HeaderWords
  <2>3. at \in Nat /\ FrameOf(at) = f
    <3>1. f * PageWords \in Nat /\ FrameOf(f * PageWords + HeaderWords) = f
      BY <2>1, <2>2, Frame
    <3> HIDE DEF f
    <3> QED  BY <1>3, <2>2, <3>1 DEF f
  <2>4. \A g \in Taken : g < f
    <3>1. stack_position + 1 \in (stack_position + 1)..Len(MemList)
      BY <1>1, <1>3, Listed DEF Left
    <3> QED  BY <3>1, TakenFrames DEF NextFrame
  <2>5. Taken \subseteq Taken'
    BY <1>1, <1>3 DEF Taken
  <2>6. x \in [at : Nat, words : Nat] /\ x.at = at
    BY <1>1, <2>3 DEF Handed
  <2> HIDE DEF f, x
  <2> QED  BY <1>3, <2>1, <2>3, <2>4, <2>5, <2>6 DEF x
<1>4. CASE MallocBig(s)
  <2> DEFINE e == ExtraFrames(l)
  <2>1. e \in Nat
    <3>1. l >= BigFrom
      BY <1>4 DEF MallocBig
    <3> HIDE DEF l
    <3>2. l - BigFrom \in Nat
      BY <1>1, <3>1
    <3>3. Power[l - BigFrom] \in Nat
      BY <3>2, Powers
    <3> QED  BY <3>3 DEF ExtraFrames
  <2>2. /\ Left(1 + e) /\ stack_position' = stack_position + 1 + e /\ lent' = lent
        /\ live' = live \cup {Handed(NextFrame * PageWords + HeaderWords, s)}
    BY <1>4 DEF MallocBig
  <2> HIDE DEF e
  <2> QED  BY <1>3, <2>1, <2>2
<1>5. CASE MallocExpand(s)
  <2>1. /\ Left(1 + 0) /\ stack_position' = stack_position + 1 + 0 /\ lent' = lent
        /\ live' = live \cup {Handed(Block(NextFrame, l, 0), s)} /\ l \in Lists
    BY <1>1, <1>2, <1>5 DEF MallocExpand, Left
  <2>2. NextFrame \in Nat \ {0}
    BY <2>1, FreshFrame
  <2>3. Block(NextFrame, l, 0) = NextFrame * PageWords + HeaderWords
    BY <2>1, <2>2, Blocks
  <2> QED  BY <1>3, <2>1, <2>3
<1>6. CASE MallocFromBin(s)
  <2>1. l \in Lists /\ bin_headers[l] # Null
    BY <1>2, <1>6 DEF MallocFromBin
  <2>2. PICK f \in SmallPages : f = bin_headers[l] /\ header[f].size = l
    BY <2>1 DEF IInv, Bins
  <2>3. PICK m \in Lists : \E k \in 1..(LastBlock(m) + 1) : Page(f, m, k)
    BY DEF IInv, Pages
  <2>4. m = l
    BY <2>2, <2>3 DEF Page
  <2>5. PICK k \in 1..(LastBlock(l) + 1) : Page(f, l, k)
    BY <2>3, <2>4
  <2>6. f \in Nat \ {0} /\ f \in Frames
    BY SmallPageIsTaken
  <2>7. LastBlock(l) \in Nat /\ k <= LastBlock(l) /\ header[f].head = Block(f, l, k)
    BY <2>1, <2>2, <2>5, <2>6, Blocks DEF Page
  <2> DEFINE at == Block(f, l, k)
             x == Handed(at, s)
  <2>8. at \in Nat /\ FrameOf(at) = f /\ at + Power[l] <= f * PageWords + PageWords
    <3>1. k \in 0..LastBlock(l)
      BY <2>5, <2>7
    <3> QED  BY <2>1, <2>6, <3>1, Blocks
  <2>9. live' = live \cup {x} /\ lent' = lent /\ Taken' = Taken
    BY <1>6, <2>2, <2>7 DEF MallocFromBin, Taken
  <2> HIDE DEF at
  <2>10. x \in [at : Nat, words : Nat] /\ x.at = at /\ x.words = s + 1
    BY <1>1, <2>8 DEF Handed
  <2> HIDE DEF x
  <2>11. x.at + x.words <= f * PageWords + PageWords
    <3>1. Power[l] \in Nat /\ f * PageWords \in Nat /\ PageWords \in Nat
      BY <1>1, <2>6, Powers, Page8
    <3> HIDE DEF l
    <3> QED  BY <1>1, <2>8, <2>10, <3>1
  <2> QED  BY <2>8, <2>9, <2>10, <2>11
<1> QED  BY <1>4, <1>5, <1>6

\* Frames are lent from beyond all blocks, and blocks come from beyond all that was lent,
\* or are cut from a page that has a block already.
LEMMA LentStaysApart ==
  ASSUME Ascending, IInv, LentApart, [Next]_vars
  PROVE  LentApart'
<1>1. lent \subseteq Nat
  BY TakenFrames DEF LentApart
<1>2. ASSUME NEW s \in Sizes, MallocFromBin(s) \/ MallocExpand(s) \/ MallocBig(s)
      PROVE  LentApart'
  <2>1. PICK x \in [at : Nat, words : Nat] :
           /\ live' = live \cup {x} /\ lent' = lent /\ Taken \subseteq Taken'
           /\ \/ FrameOf(x.at) \notin Taken /\ \A f \in Taken : f < FrameOf(x.at)
              \/ /\ FrameOf(x.at) \in SmallPages
                 /\ x.at + x.words <= FrameOf(x.at) * PageWords + PageWords
    BY <1>2, NewBlock
  <2>2. ASSUME NEW g \in lent
        PROVE  g < FrameOf(x.at) \/ x.at + x.words <= g * PageWords
    <3>1. g \in Taken /\ g \in Nat
      BY <1>1 DEF LentApart
    <3>2. CASE FrameOf(x.at) \in SmallPages
      <4> DEFINE f == FrameOf(x.at)
      <4>1. PICK c \in live : FrameOf(c.at) = f
        BY <3>2, SmallPageIsTaken
      <4>2. /\ c.at \in Nat /\ c.words \in Nat /\ f \in Nat /\ f * PageWords + HeaderWords <= c.at
        BY <4>1, LiveBlocks
      <4>3. g < f \/ c.at + c.words <= g * PageWords
        BY <4>1 DEF LentApart
      <4>4. f * PageWords \in Nat /\ g * PageWords \in Nat /\ PageWords \in Nat
            /\ x.at + x.words \in Nat
        BY <2>1, <3>1, <4>2, Page8
      <4>5. f < g => f * PageWords + PageWords <= g * PageWords
        BY <3>1, <4>2, FramesApart
      <4>6. x.at + x.words <= f * PageWords + PageWords
        BY <2>1, <3>2, SmallPageIsTaken
      <4> HIDE DEF f
      <4>7. g # f \/ g < f
        BY <3>1, <4>2, <4>3, <4>4 DEF HeaderWords
      <4> QED  BY <3>1, <4>2, <4>4, <4>5, <4>6, <4>7 DEF f
    <3>3. CASE FrameOf(x.at) \notin SmallPages
      BY <2>1, <3>1, <3>3
    <3> QED  BY <3>2, <3>3
  <2> QED  BY <2>1, <2>2 DEF LentApart
<1>3. CASE TakeFrame
  <2>1. /\ Left(1 + 0) /\ stack_position' = stack_position + 1 /\ stack_position \in Nat
        /\ live' = live /\ lent' = lent \cup {NextFrame}
    BY <1>3, Listed DEF TakeFrame, Left, IInv, Types
  <2>2. \A b \in live : b.at + b.words <= NextFrame * PageWords
    BY <2>1, FreshFrame
  <2>3. Taken \subseteq Taken' /\ NextFrame \in Taken'
    BY <2>1 DEF Taken, NextFrame
  <2> QED  BY <2>1, <2>2, <2>3 DEF LentApart
<1>4. CASE UNCHANGED vars
  BY <1>4 DEF vars, LentApart, Taken
<1> QED  BY <1>2, <1>3, <1>4 DEF Next

\* Of usable memory, no block covers a frame that is still on the list or that another
\* caller was given, for memory maps of any number of regions with any holes between
\* them (malloc.c:69, 86, 94; mmu.c:46-61).
THEOREM BlocksAreInOwnFrames ==
  ASSUME Ascending PROVE Spec => []OnlyOwnFrames
<1>1. Init => LentApart
  BY DEF Init, LentApart
<1>2. IInv /\ LentApart /\ [Next]_vars => LentApart'
  BY LentStaysApart
<1>3. ASSUME IInv, LentApart PROVE OnlyOwnFrames
  <2> SUFFICES ASSUME NEW b \in live, NEW a \in Span(b), FrameOf(a) \in Frames
               PROVE  FrameOf(a) \in Taken /\ FrameOf(a) \notin lent
    BY DEF OnlyOwnFrames
  <2> DEFINE g == FrameOf(a)
             edge == Edge(stack_position)
  <2>1. b.at \in Nat /\ b.words \in Nat /\ FrameOf(b.at) \in Taken /\ FrameOf(b.at) \in Nat
    BY <1>3, LiveBlocks
  <2>2. a \in Nat /\ b.at <= a /\ a < b.at + b.words
    BY <2>1 DEF Span
  <2>3. g \in Nat /\ g * PageWords <= a /\ a < g * PageWords + PageWords
    BY <2>2, InFrame
  <2>4. stack_position \in 1..Len(MemList) /\ Len(MemList) \in Nat
    BY <1>3, <2>1, Listed DEF IInv, Types, Taken
  <2>5. b.at + b.words <= edge * PageWords /\ edge \in Nat
    BY <1>3, <2>4, Edges DEF IInv, Inside
  <2>6. PageWords \in Nat /\ g * PageWords \in Nat /\ edge * PageWords \in Nat
    BY <2>3, <2>5, Page8
  <2>7. ~(edge <= g)
    <3>1. edge <= g => edge * PageWords <= g * PageWords
      BY <2>3, <2>5, FramesApart
    <3> HIDE DEF g, edge
    <3> QED  BY <2>1, <2>2, <2>3, <2>5, <2>6, <3>1
  <2>8. g \in Taken
    <3>1. PICK n \in 1..Len(MemList) : g = MemList[n]
      BY DEF Frames
    <3>2. ASSUME stack_position < n PROVE FALSE
      <4>1. stack_position + 1 \in 1..Len(MemList) /\ stack_position + 1 <= n
            /\ stack_position < Len(MemList)
        BY <2>4, <3>1, <3>2
      <4>2. MemList[stack_position + 1] + (n - (stack_position + 1)) <= MemList[n]
            /\ MemList[stack_position + 1] \in Nat
        BY <4>1, <3>1, Listed
      <4>3. edge = MemList[stack_position + 1]
        BY <4>1 DEF Edge
      <4> HIDE DEF edge, g
      <4> QED  BY <2>3, <2>4, <2>5, <2>7, <3>1, <4>1, <4>2, <4>3
    <3>3. n \in 1..stack_position
      BY <2>4, <3>1, <3>2
    <3> QED  BY <3>1, <3>3 DEF Taken
  <2>9. ASSUME g \in lent PROVE FALSE
    <3>1. g < FrameOf(b.at) \/ b.at + b.words <= g * PageWords
      BY <1>3, <2>9 DEF LentApart
    <3>2. FrameOf(b.at) * PageWords <= b.at /\ FrameOf(b.at) * PageWords \in Nat
      BY <2>1, InFrame, Page8
    <3>3. g < FrameOf(b.at) => g * PageWords + PageWords <= FrameOf(b.at) * PageWords
      BY <2>1, <2>3, FramesApart
    <3> HIDE DEF g
    <3> QED  BY <2>1, <2>2, <2>3, <2>6, <3>1, <3>2, <3>3
  <2> QED  BY <2>8, <2>9
<1>4. Spec => []IInv
  BY Invariance
<1>5. Spec => []LentApart
  BY <1>1, <1>2, <1>4, PTL DEF Spec
<1> QED  BY <1>3, <1>4, <1>5, PTL

\* The links that start at the head of a page lead through its remaining blocks.
LEMMA Path ==
  ASSUME Ascending, IInv, NEW f \in SmallPages, NEW l \in Lists,
         NEW k \in 1..(LastBlock(l) + 1), Page(f, l, k)
  PROVE  \A n \in 0..PageWords :
           Follow(f)[n] = IF k + n <= LastBlock(l) THEN Block(f, l, k + n) ELSE Null
<1> DEFINE last == LastBlock(l)
           Step(g) == [n \in 0..PageWords |->
                        IF n = 0 THEN header[f].head
                        ELSE IF g[n - 1] = Null THEN Null ELSE mem[g[n - 1]]]
           path == [n \in 0..PageWords |-> IF k + n <= last THEN Block(f, l, k + n) ELSE Null]
<1>1. f \in Nat \ {0} /\ f \in Frames /\ PageWords \in Nat
  BY SmallPageIsTaken, Page8
<1>2. last \in Nat /\ \A n \in 0..last : Block(f, l, n) # Null
  BY <1>1, Blocks DEF Null
<1>3. \A n \in 0..PageWords : path[n] = IF n = 0 THEN header[f].head
                        ELSE IF path[n - 1] = Null THEN Null ELSE mem[path[n - 1]]
  <2> SUFFICES ASSUME NEW n \in 0..PageWords
      PROVE path[n] = IF n = 0 THEN header[f].head
                        ELSE IF path[n - 1] = Null THEN Null ELSE mem[path[n - 1]]
    OBVIOUS
  <2>1. CASE n = 0
    BY <1>1, <1>2, <2>1 DEF Page
  <2>2. CASE n # 0 /\ k + (n - 1) <= last
    <3>1. n - 1 \in 0..PageWords /\ k + (n - 1) \in k..last /\ k + (n - 1) \in 0..last /\ k + n = (k + (n - 1)) + 1
      BY <1>1, <1>2, <2>2
    <3>2. path[n - 1] = Block(f, l, k + (n - 1)) /\ path[n - 1] # Null
      BY <1>2, <2>2, <3>1
    <3>3. mem[Block(f, l, k + (n - 1))] =
            IF k + (n - 1) = last THEN Null ELSE Block(f, l, (k + (n - 1)) + 1)
      BY <3>1 DEF Page
    <3>4. k + (n - 1) = last <=> ~(k + n <= last)
      BY <1>2, <2>2, <3>1
    <3>5. path[n] = IF k + n <= last THEN Block(f, l, k + n) ELSE Null
      OBVIOUS
    <3> HIDE DEF path, last
    <3> QED  BY <2>2, <3>1, <3>2, <3>3, <3>4, <3>5
  <2>3. CASE n # 0 /\ ~(k + (n - 1) <= last)
    <3>1. n - 1 \in 0..PageWords /\ ~(k + n <= last)
      BY <1>1, <1>2, <2>3
    <3> QED  BY <2>3, <3>1
  <2> QED  BY <2>1, <2>2, <2>3
<1>4. path = Step(path)
  BY <1>3
<1>5. \E g : g = Step(g)
  <2> HIDE DEF path
  <2> QED  BY <1>4
<1>6. Follow(f) = Step(Follow(f))
  BY <1>5 DEF Follow
<1> DEFINE S == {n \in Nat : n <= PageWords => Follow(f)[n] = path[n]}
<1>7. 0 \in S
  <2>1. 0 \in 0..PageWords
    BY <1>1
  <2> HIDE DEF path
  <2> QED  BY <1>3, <1>6, <2>1
<1>8. ASSUME NEW n \in Nat, n \in S PROVE n + 1 \in S
  <2> SUFFICES ASSUME n + 1 <= PageWords PROVE Follow(f)[n + 1] = path[n + 1]
    OBVIOUS
  <2>1. n + 1 \in 0..PageWords /\ n \in 0..PageWords /\ n + 1 # 0 /\ (n + 1) - 1 = n /\ Follow(f)[n] = path[n]
    BY <1>1, <1>8
  <2> HIDE DEF path
  <2> QED  BY <1>3, <1>6, <2>1
<1>9. \A n \in Nat : n \in S
  <2> HIDE DEF S
  <2> QED  BY <1>7, <1>8, SetInduction
<1>10. \A n \in 0..PageWords : Follow(f)[n] = path[n]
  <2> SUFFICES ASSUME NEW n \in 0..PageWords PROVE Follow(f)[n] = path[n]
    OBVIOUS
  <2>1. n \in Nat /\ n <= PageWords
    BY <1>1
  <2>2. n \in S
    <3> HIDE DEF S
    <3> QED  BY <1>9, <2>1
  <2> HIDE DEF path
  <2> QED  BY <2>1, <2>2
<1> QED  BY <1>10

\* Every block of a page is held by a caller or on the list of that page, not both; the
\* list ends, and its page is the first of its size as long as it has a block
\* (malloc.c:98-117).
THEOREM NoBlockIsLost == ASSUME Ascending PROVE Spec => []NothingLost
<1>1. ASSUME IInv PROVE NothingLost
  <2> SUFFICES ASSUME NEW f \in SmallPages
      PROVE LET l == header[f].size
                path == Follow(f)
                free == {path[n] : n \in 0..PageWords} \ {Null}
                held == {b.at : b \in live}
                blocks == {Block(f, l, n) : n \in 0..LastBlock(l)}
            IN  /\ path[PageWords] = Null
                /\ free \cap held = {}
                /\ blocks = free \cup {a \in held : FrameOf(a) = f}
                /\ (free # {}) <=> (bin_headers[l] = f)
    BY DEF NothingLost
  <2>1. PICK l \in Lists : \E k \in 1..(LastBlock(l) + 1) : Page(f, l, k)
    BY <1>1 DEF IInv, Pages
  <2>2. PICK k \in 1..(LastBlock(l) + 1) : Page(f, l, k)
    BY <2>1
  <2>3. f \in Nat \ {0} /\ PageWords \in Nat /\ header[f].size = l
    BY <1>1, <2>2, SmallPageIsTaken, Page8 DEF Page
  <2> DEFINE last == LastBlock(l)
             path == Follow(f)
             free == {path[n] : n \in 0..PageWords} \ {Null}
             held == {b.at : b \in live}
  <2>4. \A n \in 0..PageWords : path[n] = IF k + n <= last THEN Block(f, l, k + n) ELSE Null
    BY <1>1, <2>2, Path
  <2>5. /\ last \in Nat /\ last < PageWords /\ k \in Nat /\ 1 <= k
        /\ \A n \in 0..last : Block(f, l, n) \in Nat \ {0} /\ FrameOf(Block(f, l, n)) = f
        /\ \A m, n \in 0..last : m < n => Block(f, l, m) + Power[l] <= Block(f, l, n)
        /\ Power[l] \in Nat \ {0}
    BY <2>2, <2>3, Blocks, Page8
  <2>6. \A m, n \in 0..last : Block(f, l, m) = Block(f, l, n) => m = n
    <3> SUFFICES ASSUME NEW m \in 0..last, NEW n \in 0..last, m < n
                 PROVE  Block(f, l, m) # Block(f, l, n)
      <4>1. \A m, n \in 0..last : m < n \/ n < m \/ m = n
        BY <2>5
      <4> QED  BY <4>1
    <3>1. Block(f, l, m) + Power[l] <= Block(f, l, n) /\ Block(f, l, m) \in Nat /\ Block(f, l, n) \in Nat
      BY <2>5
    <3> QED  BY <2>5, <3>1
  <2> HIDE DEF path, last
  <2>7. free = {Block(f, l, n) : n \in k..last}
    <3>1. ASSUME NEW n \in k..last PROVE Block(f, l, n) \in free
      <4>1. n - k \in 0..PageWords /\ k + (n - k) = n /\ n \in 0..last
        BY <2>3, <2>5
      <4>2. path[n - k] = Block(f, l, n)
        BY <2>4, <2>5, <4>1
      <4> QED  BY <2>5, <4>1, <4>2 DEF Null
    <3>2. ASSUME NEW n \in 0..PageWords, path[n] # Null PROVE path[n] \in {Block(f, l, j) : j \in k..last}
      <4>1. k + n <= last /\ path[n] = Block(f, l, k + n)
        BY <2>4, <3>2
      <4>2. k + n \in k..last
        BY <2>5, <4>1
      <4> QED  BY <4>1, <4>2
    <3> QED  BY <3>1, <3>2
  <2>8. {a \in held : FrameOf(a) = f} = {Block(f, l, n) : n \in 0..(k - 1)}
    <3>1. ASSUME NEW n \in 0..(k - 1) PROVE Block(f, l, n) \in {a \in held : FrameOf(a) = f}
      <4>1. n \in 0..last
        BY <2>2, <2>5 DEF last
      <4>2. PICK b \in live : b.at = Block(f, l, n)
        BY <2>2 DEF Page
      <4> QED  BY <2>5, <4>1, <4>2
    <3>2. ASSUME NEW b \in live, FrameOf(b.at) = f PROVE b.at \in {Block(f, l, n) : n \in 0..(k - 1)}
      BY <2>2, <3>2 DEF Page
    <3> QED  BY <3>1, <3>2
  <2> HIDE DEF free, held
  <2>9. path[PageWords] = Null
    <3>1. ~(k + PageWords <= last) /\ PageWords \in 0..PageWords
      BY <2>3, <2>5
    <3> QED  BY <2>4, <3>1
  <2>10. free \cap held = {}
    <3> SUFFICES ASSUME NEW n \in k..last, Block(f, l, n) \in held PROVE FALSE
      BY <2>7
    <3>1. n \in 0..last
      BY <2>5
    <3>2. Block(f, l, n) \in {Block(f, l, j) : j \in 0..(k - 1)}
      BY <2>5, <2>8, <3>1
    <3>3. PICK j \in 0..(k - 1) : Block(f, l, n) = Block(f, l, j)
      BY <3>2
    <3>4. j \in 0..last /\ j # n
      BY <2>2, <2>5 DEF last
    <3> QED  BY <2>6, <3>1, <3>3, <3>4
  <2>11. {Block(f, l, n) : n \in 0..last} = free \cup {a \in held : FrameOf(a) = f}
    <3>1. 0..last = (k..last) \cup (0..(k - 1))
      BY <2>2, <2>5 DEF last
    <3> QED  BY <2>7, <2>8, <3>1
  <2>12. (free # {}) <=> (bin_headers[l] = f)
    <3>1. bin_headers[l] = f <=> k <= last
      BY <2>2 DEF Page, last
    <3>2. free # {} <=> k <= last
      BY <2>5, <2>7
    <3> QED  BY <3>1, <3>2
  <2> QED  BY <2>3, <2>9, <2>10, <2>11, <2>12 DEF path, free, held, last
<1> QED  BY <1>1, Invariance, PTL
=============================================================================
