--------------------------- MODULE RtosHeapProofs ---------------------------
(***************************************************************************)
(* Proofs about RtosHeap, for any size of the heap and any requests.       *)
(*                                                                         *)
(* Part 1 is about sizes and sequences, part 2 about the blocks (a split   *)
(* keeps the heap tiled), part 3 about the free list; part 4 puts them     *)
(* together into an inductive invariant and shows that the heap is an      *)
(* Allocator.                                                              *)
(***************************************************************************)
EXTENDS RtosHeap, TLAPS, SequenceTheorems

-----------------------------------------------------------------------------
(* Part 1.                                                                 *)

(* Sums and differences of multiples of the alignment are multiples.       *)
LEMMA AlignedSum ==
  ASSUME NEW a \in Nat, NEW b \in Nat, a % 4 = 0, b % 4 = 0
  PROVE  (a + b) % 4 = 0 /\ (a >= b => (a - b) % 4 = 0)
BY SMT

(* The size that is looked for is a multiple of the alignment and has room *)
(* for the header and what was asked for.                                  *)
LEMMA WantedSizeFits ==
  ASSUME NEW n \in Nat, n > 0
  PROVE  /\ WantedSize(n) \in Nat
         /\ WantedSize(n) % 4 = 0
         /\ WantedSize(n) >= n + heapSTRUCT_SIZE
BY SMT DEF WantedSize, RoundUp, heapSTRUCT_SIZE, portBYTE_ALIGNMENT

(* The elements of the start of a sequence.                                *)
LEMMA StartElements ==
  ASSUME NEW S, NEW list \in Seq(S), NEW i \in 0 .. Len(list),
         NEW s, s = SubSeq(list, 1, i)
  PROVE  s \in Seq(S) /\ Len(s) = i /\ \A j \in 1 .. i : s[j] = list[j]
BY SMT

(* Those behind the one at i.                                              *)
LEMMA EndElements ==
  ASSUME NEW S, NEW list \in Seq(S), NEW i \in 0 .. Len(list),
         NEW s, s = SubSeq(list, i + 1, Len(list))
  PROVE  /\ s \in Seq(S) /\ Len(s) = Len(list) - i
         /\ \A j \in 1 .. (Len(list) - i) : s[j] = list[i + j]
BY SMT

(* The elements of two sequences put together.                             *)
LEMMA ConcatElements ==
  ASSUME NEW S, NEW s \in Seq(S), NEW t \in Seq(S), NEW m \in Nat, NEW n \in Nat,
         Len(s) = m, Len(t) = n, NEW u, u = s \o t
  PROVE  /\ u \in Seq(S) /\ Len(u) = m + n
         /\ \A j \in 1 .. m : u[j] = s[j]
         /\ \A j \in 1 .. n : u[m + j] = t[j]
<1>1. u \in Seq(S) /\ Len(u) = m + n
  BY SMT
<1>2. \A j \in 1 .. (m + n) : u[j] = IF j <= m THEN s[j] ELSE t[j - m]
  BY ConcatProperties
<1>3. ASSUME NEW j \in 1 .. m PROVE u[j] = s[j]
  BY <1>2, SMT
<1>4. ASSUME NEW j \in 1 .. n PROVE u[m + j] = t[j]
  <2> DEFINE k == m + j
  <2>1. k \in 1 .. (m + n) /\ ~(k <= m) /\ k - m = j
    BY SMT
  <2>2. u[k] = t[k - m]
    BY <1>2, <2>1
  <2> QED  BY <2>1, <2>2
<1> QED  BY <1>1, <1>3, <1>4

(* The elements of a sequence without the one at i.                        *)
LEMMA WithoutElements ==
  ASSUME NEW S, NEW list \in Seq(S), NEW i \in 1 .. Len(list),
         NEW rest, rest = Without(list, i)
  PROVE  /\ rest \in Seq(S) /\ Len(rest) = Len(list) - 1
         /\ \A j \in 1 .. (i - 1) : rest[j] = list[j]
         /\ \A j \in i .. (Len(list) - 1) : rest[j] = list[j + 1]
<1> DEFINE s == SubSeq(list, 1, i - 1)
           t == SubSeq(list, i + 1, Len(list))
<1>1. i - 1 \in 0 .. Len(list) /\ i \in 0 .. Len(list) /\ Len(list) \in Nat
  OBVIOUS
<1>2. s \in Seq(S) /\ Len(s) = i - 1 /\ \A j \in 1 .. (i - 1) : s[j] = list[j]
  BY <1>1, StartElements
<1>3. /\ t \in Seq(S) /\ Len(t) = Len(list) - i
      /\ \A j \in 1 .. (Len(list) - i) : t[j] = list[i + j]
  BY <1>1, EndElements
<1>4. rest = s \o t
  BY DEF Without
<1> HIDE DEF s, t
<1> DEFINE m == i - 1
           n == Len(list) - i
<1>5. m \in Nat /\ n \in Nat /\ m + n = Len(list) - 1
  BY <1>1
<1>6. ASSUME NEW j \in i .. (Len(list) - 1)
      PROVE  \E k \in 1 .. n : m + k = j /\ i + k = j + 1
  BY <1>1, j - (i - 1) \in 1 .. n, SMT
<1>7. s \in Seq(S) /\ t \in Seq(S) /\ Len(s) = m /\ Len(t) = n
  BY <1>2, <1>3
<1>8. \A k \in 1 .. n : t[k] = list[i + k]
  BY <1>3
<1> HIDE DEF m, n
<1>9. /\ rest \in Seq(S) /\ Len(rest) = m + n
      /\ \A j \in 1 .. m : rest[j] = s[j]
      /\ \A j \in 1 .. n : rest[m + j] = t[j]
  BY <1>4, <1>5, <1>7, ConcatElements
<1>10. ASSUME NEW j \in i .. (Len(list) - 1) PROVE rest[j] = list[j + 1]
  <2>1. PICK k \in 1 .. n : m + k = j /\ i + k = j + 1
    BY <1>6
  <2>2. rest[m + k] = t[k] /\ t[k] = list[i + k]
    BY <1>9, <1>8
  <2> QED  BY <2>1, <2>2
<1> QED  BY <1>2, <1>5, <1>9, <1>10 DEF m

HasBehind(more, list, i, b) ==
  /\ Len(more) = Len(list) + 1
  /\ \A j \in 1 .. i : more[j] = list[j]
  /\ more[i + 1] = b
  /\ \A j \in (i + 1) .. Len(list) : more[j + 1] = list[j]

(* The elements of a sequence with b behind the one at i.                  *)
LEMMA InsertBehindElements ==
  ASSUME NEW S, NEW list \in Seq(S), NEW i \in 0 .. Len(list), NEW b \in S,
         NEW more, more = InsertBehind(list, i, b)
  PROVE  more \in Seq(S) /\ HasBehind(more, list, i, b)
<1> DEFINE s == SubSeq(list, 1, i)
           t == SubSeq(list, i + 1, Len(list))
           u == s \o <<b>>
<1>1. s \in Seq(S) /\ Len(s) = i /\ \A j \in 1 .. i : s[j] = list[j]
  BY StartElements
<1>2. /\ t \in Seq(S) /\ Len(t) = Len(list) - i
      /\ \A j \in 1 .. (Len(list) - i) : t[j] = list[i + j]
  BY EndElements
<1>3. <<b>> \in Seq(S) /\ Len(<<b>>) = 1 /\ <<b>>[1] = b
  OBVIOUS
<1>4. more = u \o t
  BY DEF InsertBehind
<1>5. i \in Nat /\ Len(list) - i \in Nat /\ (i + 1) + (Len(list) - i) = Len(list) + 1
  OBVIOUS
<1> HIDE DEF s, t
<1>6. /\ u \in Seq(S) /\ Len(u) = i + 1
      /\ \A j \in 1 .. i : u[j] = s[j]
      /\ \A j \in 1 .. 1 : u[i + j] = <<b>>[j]
  BY <1>1, <1>3, <1>5, ConcatElements
<1>7. 1 \in 1 .. 1 /\ i + 1 \in 1 .. (i + 1) /\ \A j \in 1 .. i : j \in 1 .. (i + 1)
  BY <1>5
<1>8. u[i + 1] = b
  BY <1>3, <1>6, <1>7
<1> HIDE DEF u
<1> DEFINE m == i + 1
           n == Len(list) - i
<1>9. m \in Nat /\ n \in Nat /\ m + n = Len(list) + 1
  BY <1>5
<1>10. ASSUME NEW j \in (i + 1) .. Len(list)
       PROVE  \E k \in 1 .. n : m + k = j + 1 /\ i + k = j
  BY <1>5, j - i \in 1 .. n, SMT
<1>11. u \in Seq(S) /\ t \in Seq(S) /\ Len(u) = m /\ Len(t) = n
  BY <1>2, <1>6
<1>12. \A k \in 1 .. n : t[k] = list[i + k]
  BY <1>2
<1> HIDE DEF m, n
<1>13. /\ more \in Seq(S) /\ Len(more) = m + n
       /\ \A j \in 1 .. m : more[j] = u[j]
       /\ \A j \in 1 .. n : more[m + j] = t[j]
  BY <1>4, <1>9, <1>11, ConcatElements
<1>14. ASSUME NEW j \in (i + 1) .. Len(list) PROVE more[j + 1] = list[j]
  <2>1. PICK k \in 1 .. n : m + k = j + 1 /\ i + k = j
    BY <1>10
  <2>2. more[m + k] = t[k] /\ t[k] = list[i + k]
    BY <1>13, <1>12
  <2> QED  BY <2>1, <2>2
<1>15. more[i + 1] = b /\ \A j \in 1 .. i : more[j] = list[j]
  BY <1>1, <1>6, <1>7, <1>8, <1>13 DEF m
<1> QED  BY <1>9, <1>13, <1>14, <1>15 DEF HasBehind

-----------------------------------------------------------------------------
(* Part 2.                                                                 *)
BlocksOf(size) == {a \in Addresses : size[a] > 0}

(* What TypeOK and HeapTiled say of the sizes alone.                       *)
Tiles(size) ==
  /\ size \in [Addresses -> Nat]
  /\ \A b \in BlocksOf(size) : /\ b % 4 = 0 /\ size[b] % 4 = 0
                               /\ b + size[b] <= configTOTAL_HEAP_SIZE
  /\ \A b, c \in BlocksOf(size) : b < c => b + size[b] <= c
  /\ \A a \in Addresses : \E b \in BlocksOf(size) : b <= a /\ a < b + size[b]

SplitOf(size, b, w) == [size EXCEPT ![b] = w, ![b + w] = size[b] - w]

IsSplit(size1, size, b, w) ==
  /\ Tiles(size1)
  /\ b + w \in Addresses \ BlocksOf(size)
  /\ BlocksOf(size1) = BlocksOf(size) \cup {b + w}
  /\ size1[b] = w /\ size1[b + w] = size[b] - w
  /\ \A c \in Addresses \ {b, b + w} : size1[c] = size[c]

(* What a split makes of the sizes.                                        *)
LEMMA SplitTiles ==
  ASSUME NEW size, Tiles(size), NEW b \in BlocksOf(size),
         NEW w \in Nat, w > 0, w < size[b], w % 4 = 0,
         NEW size1, size1 = SplitOf(size, b, w)
  PROVE  IsSplit(size1, size, b, w)
<1>1. /\ b \in Addresses /\ b \in Nat /\ size[b] \in Nat /\ b % 4 = 0 /\ size[b] % 4 = 0
      /\ b + size[b] <= configTOTAL_HEAP_SIZE
  BY HeapAssumption, SMT DEF Tiles, BlocksOf, Addresses
<1>2. b + w \in Addresses /\ b + w # b
  BY <1>1, HeapAssumption, SMT DEF Addresses
<1>3. b + w \notin BlocksOf(size)
  BY <1>1, SMT DEF Tiles
<1>4. /\ size1 \in [Addresses -> Nat]
      /\ size1[b] = w /\ size1[b + w] = size[b] - w
      /\ \A c \in Addresses \ {b, b + w} : size1[c] = size[c]
  BY <1>1, <1>2, SMT DEF Tiles, SplitOf
<1>5. BlocksOf(size1) = BlocksOf(size) \cup {b + w}
  <2>1. \A a \in Addresses : a \in BlocksOf(size1) <=> a \in BlocksOf(size) \/ a = b + w
    BY <1>1, <1>2, <1>4, SMT DEF BlocksOf
  <2>2. BlocksOf(size1) \subseteq Addresses /\ BlocksOf(size) \subseteq Addresses
    BY DEF BlocksOf
  <2> QED  BY <1>2, <2>1, <2>2
<1>6. (b + w) % 4 = 0 /\ (size[b] - w) % 4 = 0
  BY <1>1, AlignedSum, SMT
<1>7. \A a \in Addresses : a \in Nat
  BY SMT DEF Addresses
<1>8. BlocksOf(size) \subseteq Addresses
  BY DEF BlocksOf
<1>9. ASSUME NEW c \in BlocksOf(size1)
      PROVE  c % 4 = 0 /\ size1[c] % 4 = 0 /\ c + size1[c] <= configTOTAL_HEAP_SIZE
  <2>1. CASE c = b
    BY <1>1, <1>4, <2>1, HeapAssumption, SMT
  <2>2. CASE c = b + w
    BY <1>1, <1>4, <1>6, <2>2, HeapAssumption, SMT
  <2>3. CASE c \notin {b, b + w}
    BY <1>4, <1>5, <1>8, <2>3 DEF Tiles
  <2> QED  BY <2>1, <2>2, <2>3
<1>10. \A c \in BlocksOf(size) : /\ b < c => b + size[b] <= c
                                 /\ c < b => c + size[c] <= b
  BY DEF Tiles
<1>11. ASSUME NEW c \in BlocksOf(size1), NEW d \in BlocksOf(size1), c < d
       PROVE  c + size1[c] <= d
  <2> c \in Addresses /\ d \in Addresses
    BY DEF BlocksOf
  <2> c \in Nat /\ d \in Nat
    BY <1>7
  <2> d = b + w \/ d \in BlocksOf(size)
    BY <1>5
  <2>1. d # b + w /\ b < d => b + size[b] <= d
    BY <1>10
  <2>2. CASE c = b
    BY <1>1, <1>4, <1>11, <2>1, <2>2, SMT
  <2>3. CASE c = b + w
    BY <1>1, <1>4, <1>11, <2>1, <2>3, SMT
  <2>4. CASE c \notin {b, b + w}
    <3>1. c \in BlocksOf(size) /\ size1[c] = size[c] /\ size[c] \in Nat /\ c \in Nat
      BY <1>4, <1>5, <1>7, <1>8, <2>4 DEF Tiles
    <3>2. CASE d = b + w
      <4>1. c < b => c + size[c] <= b
        BY <1>10, <3>1
      <4>2. b < c => b + size[b] <= c
        BY <1>10, <3>1
      <4> QED  BY <1>1, <1>11, <2>4, <3>1, <3>2, <4>1, <4>2, SMT
    <3>3. CASE d # b + w
      BY <1>5, <1>11, <3>1, <3>3 DEF Tiles
    <3> QED  BY <3>2, <3>3
  <2> QED  BY <2>2, <2>3, <2>4
<1>12. ASSUME NEW a \in Addresses
       PROVE  \E c \in BlocksOf(size1) : c <= a /\ a < c + size1[c]
  <2>1. PICK c \in BlocksOf(size) : c <= a /\ a < c + size[c]
    BY DEF Tiles
  <2>2. CASE c # b
    BY <1>3, <1>4, <1>5, <1>8, <2>1, <2>2
  <2>3. CASE c = b /\ a < b + w
    BY <1>4, <1>5, <2>1, <2>3
  <2>4. CASE c = b /\ ~(a < b + w)
    <3>1. b + w \in BlocksOf(size1)
      BY <1>5
    <3>2. b + w <= a /\ a < (b + w) + size1[b + w]
      BY <1>1, <1>4, <1>7, <2>1, <2>4, SMT
    <3> QED  BY <3>1, <3>2
  <2> QED  BY <2>2, <2>3, <2>4
<1>13. Tiles(size1)
  BY <1>4, <1>9, <1>11, <1>12 DEF Tiles
<1> QED  BY <1>2, <1>3, <1>4, <1>5, <1>13 DEF IsSplit

-----------------------------------------------------------------------------
(* Part 3.                                                                 *)

(* The list has the members of B, each of them once.                       *)
Lists(list, B) ==
  /\ list \in Seq(Addresses)
  /\ \A i, j \in 1 .. Len(list) : list[i] = list[j] => i = j
  /\ \A i \in 1 .. Len(list) : list[i] \in B
  /\ \A b \in B : \E i \in 1 .. Len(list) : list[i] = b

SortedBy(list, size) ==
  \A i, j \in 1 .. Len(list) : i < j => size[list[i]] <= size[list[j]]

(* Where the elements of a sequence were before that at i was taken out:   *)
(* f gives the place of each.                                              *)
ComeFrom(f, rest, list, i) ==
  /\ f \in [1 .. Len(rest) -> 1 .. Len(list)]
  /\ \A j \in 1 .. Len(rest) : rest[j] = list[f[j]] /\ f[j] # i
  /\ \A j, k \in 1 .. Len(rest) : j < k => f[j] < f[k]
  /\ \A m \in 1 .. Len(list) : m # i => \E j \in 1 .. Len(rest) : f[j] = m

(* There are such places.                                                  *)
LEMMA WithoutPlaces ==
  ASSUME NEW S, NEW list \in Seq(S), NEW i \in 1 .. Len(list),
         NEW rest, rest = Without(list, i)
  PROVE  /\ rest \in Seq(S)
         /\ \E f : ComeFrom(f, rest, list, i)
<1> DEFINE f == [j \in 1 .. Len(rest) |-> IF j < i THEN j ELSE j + 1]
<1>1. /\ rest \in Seq(S) /\ Len(rest) = Len(list) - 1
      /\ \A j \in 1 .. (i - 1) : rest[j] = list[j]
      /\ \A j \in i .. (Len(list) - 1) : rest[j] = list[j + 1]
  BY WithoutElements, SMTT(30)
<1>2. Len(list) \in Nat /\ i \in Nat /\ 1 <= i /\ i <= Len(list)
  OBVIOUS
<1>3. \A j \in 1 .. Len(rest) : f[j] = IF j < i THEN j ELSE j + 1
  OBVIOUS
<1>4. f \in [1 .. Len(rest) -> 1 .. Len(list)]
  BY <1>1, <1>2, SMT
<1> HIDE DEF f
<1>5. ASSUME NEW j \in 1 .. Len(rest) PROVE rest[j] = list[f[j]] /\ f[j] # i
  <2>1. CASE j < i
    <3>1. j \in 1 .. (i - 1) /\ j # i
      BY <1>2, <2>1, SMT
    <3> QED  BY <1>1, <1>3, <2>1, <3>1
  <2>2. CASE ~(j < i)
    <3>1. j \in i .. (Len(list) - 1) /\ j + 1 # i
      BY <1>1, <1>2, <2>2, SMT
    <3> QED  BY <1>1, <1>3, <2>2, <3>1
  <2> QED  BY <2>1, <2>2
<1>6. \A j, k \in 1 .. Len(rest) : j < k => f[j] < f[k]
  BY <1>2, <1>3, SMT
<1>7. ASSUME NEW m \in 1 .. Len(list), m # i
      PROVE  \E j \in 1 .. Len(rest) : f[j] = m
  <2>1. CASE m < i
    <3>1. m \in 1 .. Len(rest)
      BY <1>1, <1>2, <2>1, SMT
    <3> QED  BY <1>3, <2>1, <3>1
  <2>2. CASE ~(m < i)
    <3>1. m - 1 \in 1 .. Len(rest) /\ ~(m - 1 < i) /\ (m - 1) + 1 = m
      BY <1>1, <1>2, <1>7, <2>2, SMT
    <3> QED  BY <1>3, <3>1
  <2> QED  BY <2>1, <2>2
<1>8. ComeFrom(f, rest, list, i)
  BY <1>4, <1>5, <1>6, <1>7 DEF ComeFrom
<1> QED  BY <1>1, <1>8

MakeRoom(more, list, i, b) ==
  /\ i + 1 \in 1 .. Len(more) /\ more[i + 1] = b
  /\ \A m \in 1 .. Len(more) : m # i + 1 =>
       \E j \in 1 .. Len(list) :
         more[m] = list[j] /\ m = (IF j <= i THEN j ELSE j + 1)
  /\ \A j \in 1 .. Len(list) :
       \E m \in 1 .. Len(more) : more[m] = list[j] /\ m # i + 1

(* Where the elements of a sequence are when b is put behind that at i.    *)
LEMMA InsertBehindPlaces ==
  ASSUME NEW S, NEW list \in Seq(S), NEW i \in 0 .. Len(list), NEW b \in S,
         NEW more, more = InsertBehind(list, i, b)
  PROVE  more \in Seq(S) /\ MakeRoom(more, list, i, b)
<1>1. more \in Seq(S) /\ HasBehind(more, list, i, b)
  BY InsertBehindElements
<1>2. /\ Len(more) = Len(list) + 1
      /\ \A j \in 1 .. i : more[j] = list[j]
      /\ more[i + 1] = b
      /\ \A j \in (i + 1) .. Len(list) : more[j + 1] = list[j]
  BY <1>1 DEF HasBehind
<1>3. Len(list) \in Nat /\ i \in Nat /\ i <= Len(list)
  OBVIOUS
<1>4. i + 1 \in 1 .. Len(more)
  BY <1>2, <1>3, SMT
<1>5. ASSUME NEW m \in 1 .. Len(more), m # i + 1
      PROVE  \E j \in 1 .. Len(list) :
               more[m] = list[j] /\ m = (IF j <= i THEN j ELSE j + 1)
  <2>1. CASE m <= i
    <3>1. m \in 1 .. i /\ m \in 1 .. Len(list)
      BY <1>3, <2>1, SMT
    <3> QED  BY <1>2, <2>1, <3>1
  <2>2. CASE ~(m <= i)
    <3>1. PICK j \in (i + 1) .. Len(list) : m = j + 1
      BY <1>2, <1>3, <1>5, <2>2, m - 1 \in (i + 1) .. Len(list), SMT
    <3>2. j \in 1 .. Len(list) /\ ~(j <= i)
      BY <1>3, SMT
    <3> QED  BY <1>2, <3>1, <3>2
  <2> QED  BY <2>1, <2>2
<1>6. ASSUME NEW j \in 1 .. Len(list)
      PROVE  \E m \in 1 .. Len(more) : more[m] = list[j] /\ m # i + 1
  <2>1. CASE j <= i
    <3>1. j \in 1 .. i /\ j \in 1 .. Len(more) /\ j # i + 1
      BY <1>2, <1>3, <2>1, SMT
    <3> QED  BY <1>2, <3>1
  <2>2. CASE ~(j <= i)
    <3>1. j \in (i + 1) .. Len(list) /\ j + 1 \in 1 .. Len(more) /\ j + 1 # i + 1
      BY <1>2, <1>3, <2>2, SMT
    <3> QED  BY <1>2, <3>1
  <2> QED  BY <2>1, <2>2
<1> QED  BY <1>1, <1>2, <1>4, <1>5, <1>6 DEF MakeRoom

(* Taking a block out of the list leaves the others, in their order.       *)
LEMMA WithoutLists ==
  ASSUME NEW list, NEW B, Lists(list, B), NEW i \in 1 .. Len(list),
         NEW rest, rest = Without(list, i)
  PROVE  /\ Lists(rest, B \ {list[i]})
         /\ \A size : SortedBy(list, size) => SortedBy(rest, size)
<1>1. list \in Seq(Addresses)
  BY DEF Lists
<1>2. rest \in Seq(Addresses) /\ \E f : ComeFrom(f, rest, list, i)
  BY <1>1, WithoutPlaces
<1> PICK f : ComeFrom(f, rest, list, i)
  BY <1>2
<1>3. /\ \A j \in 1 .. Len(rest) : rest[j] = list[f[j]] /\ f[j] # i
      /\ \A j, k \in 1 .. Len(rest) : j < k => f[j] < f[k]
      /\ \A m \in 1 .. Len(list) : m # i => \E j \in 1 .. Len(rest) : f[j] = m
  BY DEF ComeFrom
<1>4. \A j \in 1 .. Len(rest) : f[j] \in 1 .. Len(list)
  BY DEF ComeFrom
<1>5. ASSUME NEW j \in 1 .. Len(rest), NEW k \in 1 .. Len(rest), rest[j] = rest[k]
      PROVE  j = k
  <2>1. f[j] = f[k]
    <3>1. f[j] \in 1 .. Len(list) /\ f[k] \in 1 .. Len(list) /\ list[f[j]] = list[f[k]]
      BY <1>3, <1>4, <1>5
    <3> QED  BY <3>1 DEF Lists
  <2>2. f[j] \in Int /\ f[k] \in Int /\ j \in Int /\ k \in Int
    BY <1>4, SMT
  <2>3. (j < k => f[j] < f[k]) /\ (k < j => f[k] < f[j])
    BY <1>3
  <2> QED  BY <2>1, <2>2, <2>3, SMT
<1>6. ASSUME NEW j \in 1 .. Len(rest) PROVE rest[j] \in B \ {list[i]}
  BY <1>3, <1>4 DEF Lists
<1>7. ASSUME NEW b \in B \ {list[i]} PROVE \E j \in 1 .. Len(rest) : rest[j] = b
  <2>1. PICK m \in 1 .. Len(list) : list[m] = b
    BY DEF Lists
  <2> QED  BY <1>3, <2>1
<1>8. ASSUME NEW size, SortedBy(list, size) PROVE SortedBy(rest, size)
  <2> SUFFICES ASSUME NEW j \in 1 .. Len(rest), NEW k \in 1 .. Len(rest), j < k
               PROVE  size[rest[j]] <= size[rest[k]]
    BY DEF SortedBy
  <2>1. f[j] \in 1 .. Len(list) /\ f[k] \in 1 .. Len(list) /\ f[j] < f[k]
    BY <1>3, <1>4
  <2>2. size[list[f[j]]] <= size[list[f[k]]]
    BY <1>8, <2>1 DEF SortedBy
  <2> QED  BY <1>3, <2>2
<1> QED  BY <1>2, <1>5, <1>6, <1>7, <1>8 DEF Lists

(* Putting a block into the list where prvInsertBlockIntoFreeList does.    *)
LEMMA InsertLists ==
  ASSUME NEW list, NEW B, Lists(list, B), NEW b \in Addresses \ B,
         NEW size \in [Addresses -> Nat], SortedBy(list, size),
         NEW i \in Place(list, size, size[b]),
         NEW more, more = InsertBehind(list, i, b)
  PROVE  Lists(more, B \cup {b}) /\ SortedBy(more, size)
<1>1. list \in Seq(Addresses)
  BY DEF Lists
<1>2. /\ i \in 0 .. Len(list)
      /\ \A j \in 1 .. i : size[list[j]] < size[b]
      /\ i < Len(list) => size[list[i + 1]] >= size[b]
  BY DEF Place
<1>3. i \in Nat /\ Len(list) \in Nat /\ i <= Len(list)
  BY <1>1, <1>2
<1> b \in Addresses
  OBVIOUS
<1>4. more \in Seq(Addresses) /\ MakeRoom(more, list, i, b)
  BY <1>1, <1>2, InsertBehindPlaces
<1>5. /\ i + 1 \in 1 .. Len(more) /\ more[i + 1] = b
      /\ \A m \in 1 .. Len(more) : m # i + 1 =>
           \E j \in 1 .. Len(list) :
             more[m] = list[j] /\ m = (IF j <= i THEN j ELSE j + 1)
      /\ \A j \in 1 .. Len(list) :
           \E m \in 1 .. Len(more) : more[m] = list[j] /\ m # i + 1
  BY <1>4 DEF MakeRoom
<1>6. ASSUME NEW m \in 1 .. Len(more), NEW n \in 1 .. Len(more), more[m] = more[n]
      PROVE  m = n
  <2>1. ASSUME NEW k \in 1 .. Len(more), k # i + 1 PROVE more[k] # b
    <3>1. PICK j \in 1 .. Len(list) : more[k] = list[j]
      BY <1>5, <2>1
    <3>2. list[j] \in B
      BY DEF Lists
    <3> QED  BY <3>1, <3>2
  <2>2. CASE m = i + 1 \/ n = i + 1
    BY <1>5, <1>6, <2>1, <2>2
  <2>3. CASE m # i + 1 /\ n # i + 1
    <3>1. PICK j \in 1 .. Len(list) : more[m] = list[j] /\ m = (IF j <= i THEN j ELSE j + 1)
      BY <1>5, <2>3
    <3>2. PICK k \in 1 .. Len(list) : more[n] = list[k] /\ n = (IF k <= i THEN k ELSE k + 1)
      BY <1>5, <2>3
    <3>3. j = k
      BY <1>6, <3>1, <3>2, ZenonT(40) DEF Lists
    <3> QED  BY <3>1, <3>2, <3>3
  <2> QED  BY <2>2, <2>3
<1>7. ASSUME NEW m \in 1 .. Len(more) PROVE more[m] \in B \cup {b}
  BY <1>5 DEF Lists
<1>8. ASSUME NEW c \in B \cup {b} PROVE \E m \in 1 .. Len(more) : more[m] = c
  BY <1>5 DEF Lists
<1>9. \A j \in 1 .. Len(list) : list[j] \in Addresses /\ size[list[j]] \in Nat
  BY <1>1
<1>10. size[b] \in Nat
  OBVIOUS
<1>11. ASSUME NEW j \in 1 .. Len(list), ~(j <= i) PROVE size[b] <= size[list[j]]
  <2>1. i + 1 \in 1 .. Len(list) /\ i < Len(list) /\ (i + 1 = j \/ i + 1 < j)
    BY <1>3, <1>11, SMT
  <2>2. size[list[i + 1]] >= size[b] /\ size[list[i + 1]] <= size[list[j]]
    <3>1. CASE i + 1 = j
      BY <1>2, <1>9, <2>1, <3>1, SMT
    <3>2. CASE i + 1 < j
      BY <1>2, <2>1, <3>2 DEF SortedBy
    <3> QED  BY <2>1, <3>1, <3>2
  <2> QED  BY <1>9, <1>10, <2>1, <2>2, SMT
<1>12. ASSUME NEW j \in 1 .. Len(list), j <= i PROVE size[list[j]] <= size[b]
  <2>1. j \in 1 .. i
    BY <1>3, <1>12, SMT
  <2> QED  BY <1>2, <1>9, <1>10, <2>1, SMT
<1>13. ASSUME NEW m \in 1 .. Len(more), NEW n \in 1 .. Len(more), m < n
       PROVE  size[more[m]] <= size[more[n]]
  <2>1. CASE m = i + 1
    <3>1. n # i + 1
      BY <1>13, <2>1, SMT
    <3>2. PICK k \in 1 .. Len(list) : more[n] = list[k] /\ n = (IF k <= i THEN k ELSE k + 1)
      BY <1>5, <3>1
    <3>3. ~(k <= i)
      BY <1>3, <1>13, <2>1, <3>2, SMT
    <3> QED  BY <1>5, <1>11, <2>1, <3>2, <3>3
  <2>2. CASE n = i + 1
    <3>1. m # i + 1
      BY <1>13, <2>2, SMT
    <3>2. PICK j \in 1 .. Len(list) : more[m] = list[j] /\ m = (IF j <= i THEN j ELSE j + 1)
      BY <1>5, <3>1
    <3>3. j <= i
      BY <1>3, <1>13, <2>2, <3>2, SMT
    <3> QED  BY <1>5, <1>12, <2>2, <3>2, <3>3
  <2>3. CASE m # i + 1 /\ n # i + 1
    <3>1. PICK j \in 1 .. Len(list) : more[m] = list[j] /\ m = (IF j <= i THEN j ELSE j + 1)
      BY <1>5, <2>3
    <3>2. PICK k \in 1 .. Len(list) : more[n] = list[k] /\ n = (IF k <= i THEN k ELSE k + 1)
      BY <1>5, <2>3
    <3>3. j < k
      BY <1>3, <1>13, <3>1, <3>2, SMT
    <3> QED  BY <3>1, <3>2, <3>3 DEF SortedBy
  <2> QED  BY <2>1, <2>2, <2>3
<1>14. SortedBy(more, size)
  BY <1>13 DEF SortedBy
<1> QED  BY <1>4, <1>6, <1>7, <1>8, <1>14 DEF Lists

(* Only the sizes of the blocks in the list matter for its order.          *)
LEMMA SortedCongruence ==
  ASSUME NEW list, NEW B, Lists(list, B), NEW size, NEW size1,
         \A b \in B : size1[b] = size[b], SortedBy(list, size)
  PROVE  SortedBy(list, size1)
BY DEF SortedBy, Lists

-----------------------------------------------------------------------------
(* Part 4.                                                                 *)
FreeBlocks == Blocks \ DOMAIN requested

(* Every block in use is one that was asked for, and large enough.         *)
RequestsHeld ==
  \A b \in DOMAIN requested :
    /\ b \in Blocks /\ requested[b] \in Requests
    /\ requested[b] > 0 /\ WantedSize(requested[b]) <= xBlockSize[b]

(* The inductive invariant.                                                *)
HeapInv ==
  /\ Tiles(xBlockSize)
  /\ Lists(free, FreeBlocks)
  /\ SortedBy(free, xBlockSize)
  /\ RequestsHeld

(* It says what TypeOK, HeapTiled and FreeListSorted say.                  *)
LEMMA HeapInvImplies ==
  HeapInv => TypeOK /\ HeapTiled /\ FreeListSorted
<1> SUFFICES ASSUME HeapInv PROVE TypeOK /\ HeapTiled /\ FreeListSorted
  OBVIOUS
<1>1. free \in Seq(Addresses) /\ DOMAIN free = 1 .. Len(free)
  BY DEF HeapInv, Lists
<1>2. Blocks = BlocksOf(xBlockSize)
  BY DEF Blocks, BlocksOf
<1>3. TypeOK
  BY <1>1, <1>2 DEF TypeOK, HeapInv, Tiles, RequestsHeld, End, portBYTE_ALIGNMENT
<1>4. HeapTiled
  <2>1. \A b \in Blocks : b \in DOMAIN requested <=> ~InFreeList(b)
    BY <1>1 DEF HeapInv, Lists, FreeBlocks, InFreeList
  <2>2. \A i \in DOMAIN free : free[i] \in Blocks
    BY <1>1 DEF HeapInv, Lists, FreeBlocks
  <2>3. \A i, j \in DOMAIN free : free[i] = free[j] => i = j
    BY <1>1 DEF HeapInv, Lists
  <2>4. \A b, c \in Blocks : b < c => End(b) <= c
    BY <1>2 DEF HeapInv, Tiles, End
  <2>5. \A a \in Addresses : \E b \in Blocks : b <= a /\ a < End(b)
    BY <1>2 DEF HeapInv, Tiles, End
  <2> QED  BY <2>1, <2>2, <2>3, <2>4, <2>5 DEF HeapTiled
<1>5. FreeListSorted
  BY <1>1 DEF HeapInv, SortedBy, FreeListSorted
<1> QED  BY <1>3, <1>4, <1>5

(* The heap starts as one free block.                                      *)
LEMMA HeapInit == Init => HeapInv
<1> SUFFICES ASSUME Init PROVE HeapInv
  OBVIOUS
<1> USE DEF Init, prvHeapInit
<1>1. /\ configTOTAL_HEAP_SIZE \in Nat /\ configTOTAL_HEAP_SIZE > 0
      /\ configTOTAL_HEAP_SIZE % 4 = 0
  BY HeapAssumption, SMT DEF portBYTE_ALIGNMENT
<1>2. 0 \in Addresses /\ \A a \in Addresses : a \in Nat /\ a < configTOTAL_HEAP_SIZE
  BY <1>1, SMT DEF Addresses
<1>3. xBlockSize \in [Addresses -> Nat]
  BY <1>1
<1>4. /\ xBlockSize[0] = configTOTAL_HEAP_SIZE
      /\ \A a \in Addresses : a # 0 => xBlockSize[a] = 0
  BY <1>2
<1>5. BlocksOf(xBlockSize) = {0} /\ Blocks = {0}
  <2>1. \A a \in Addresses : xBlockSize[a] > 0 <=> a = 0
    BY <1>1, <1>4, SMT
  <2>2. \A a : (a \in Addresses /\ xBlockSize[a] > 0) <=> a = 0
    BY <1>2, <2>1
  <2> QED  BY <2>2 DEF BlocksOf, Blocks
<1>6. Tiles(xBlockSize)
  <2>1. 0 % 4 = 0 /\ 0 + configTOTAL_HEAP_SIZE = configTOTAL_HEAP_SIZE
    BY <1>1, SMT
  <2>2. \A b \in {0} : /\ b % 4 = 0 /\ xBlockSize[b] % 4 = 0
                       /\ b + xBlockSize[b] <= configTOTAL_HEAP_SIZE
    BY <1>1, <1>4, <2>1, SMT
  <2>3. \A b, c \in {0} : b < c => b + xBlockSize[b] <= c
    BY SMT
  <2>4. \A a \in Addresses : \E b \in {0} : b <= a /\ a < b + xBlockSize[b]
    BY <1>1, <1>2, <1>4, SMT
  <2> QED  BY <1>3, <1>5, <2>2, <2>3, <2>4 DEF Tiles
<1>7. DOMAIN requested = {}
  OBVIOUS
<1>8. free \in Seq(Addresses) /\ Len(free) = 1 /\ free[1] = 0
  BY <1>2
<1>9. Lists(free, FreeBlocks)
  <2>1. FreeBlocks = {0}
    BY <1>5, <1>7 DEF FreeBlocks
  <2>2. \A i \in 1 .. Len(free) : i = 1
    BY <1>8, SMT
  <2>3. 1 \in 1 .. Len(free)
    BY <1>8, SMT
  <2> HIDE DEF Init
  <2> QED  BY <1>8, <2>1, <2>2, <2>3 DEF Lists
<1>10. SortedBy(free, xBlockSize)
  BY <1>8, SMT DEF SortedBy
<1> QED  BY <1>6, <1>7, <1>9, <1>10 DEF HeapInv, RequestsHeld

(* What a block is when it is taken from the free list.                    *)
LEMMA TakenBlock ==
  ASSUME HeapInv, NEW i \in DOMAIN free
  PROVE  /\ i \in 1 .. Len(free) /\ free[i] \in BlocksOf(xBlockSize)
         /\ free[i] \in FreeBlocks /\ free[i] \notin DOMAIN requested
         /\ free[i] \in Addresses /\ xBlockSize[free[i]] \in Nat
<1>1. i \in 1 .. Len(free)
  BY DEF HeapInv, Lists
<1>2. free[i] \in FreeBlocks
  BY <1>1 DEF HeapInv, Lists
<1> QED  BY <1>1, <1>2 DEF HeapInv, Tiles, FreeBlocks, Blocks, BlocksOf

(* pvPortMalloc keeps the invariant when it takes a block whole.           *)
LEMMA TakeWholeKeeps ==
  ASSUME HeapInv, NEW n \in Requests, NEW i \in DOMAIN free,
         WantedSize(n) > 0, Fits(i, WantedSize(n)), TakeWhole(i, n)
  PROVE  HeapInv'
<1> DEFINE b == free[i]
<1>1. /\ i \in 1 .. Len(free) /\ b \in BlocksOf(xBlockSize)
      /\ b \in FreeBlocks /\ b \notin DOMAIN requested
  BY TakenBlock
<1>2. free' = Without(free, i) /\ xBlockSize' = xBlockSize
  BY DEF TakeWhole
<1>3. requested' = [c \in DOMAIN requested \cup {b} |-> IF c = b THEN n ELSE requested[c]]
  BY DEF TakeWhole, Uses
<1>4. Blocks' = Blocks /\ FreeBlocks' = FreeBlocks \ {b}
  BY <1>2, <1>3 DEF Blocks, FreeBlocks
<1>5. Lists(free', FreeBlocks') /\ SortedBy(free', xBlockSize')
  BY <1>1, <1>2, <1>4, WithoutLists DEF HeapInv
<1>6. n > 0 /\ WantedSize(n) <= xBlockSize[b]
  <2>1. n \in Nat
    BY HeapAssumption
  <2>2. n > 0
    BY <2>1, SMT DEF WantedSize
  <2>3. WantedSize(n) \in Nat /\ xBlockSize[b] \in Nat
    BY <2>1, <2>2, WantedSizeFits, TakenBlock
  <2> QED  BY <2>2, <2>3, SMT DEF Fits
<1>7. RequestsHeld'
  BY <1>1, <1>2, <1>3, <1>4, <1>6 DEF HeapInv, RequestsHeld, FreeBlocks
<1> QED  BY <1>2, <1>5, <1>7 DEF HeapInv

(* pvPortMalloc keeps the invariant when it splits a block.                *)
LEMMA TakeSplitKeeps ==
  ASSUME HeapInv, NEW n \in Requests, NEW i \in DOMAIN free,
         WantedSize(n) > 0, Fits(i, WantedSize(n)), TakeSplit(i, n)
  PROVE  HeapInv'
<1> DEFINE b == free[i]
           w == WantedSize(n)
           new == b + w
           rest == Without(free, i)
           others == FreeBlocks \ {b}
<1>1. /\ i \in 1 .. Len(free) /\ b \in BlocksOf(xBlockSize)
      /\ b \in FreeBlocks /\ b \notin DOMAIN requested
      /\ b \in Addresses /\ xBlockSize[b] \in Nat
  BY TakenBlock
<1>2. n > 0 /\ w \in Nat /\ w % 4 = 0 /\ w > 0
  <2>1. n \in Nat
    BY HeapAssumption
  <2>2. n > 0
    BY <2>1, SMT DEF WantedSize
  <2> QED  BY <2>1, <2>2, WantedSizeFits
<1>3. requested' = [c \in DOMAIN requested \cup {b} |-> IF c = b THEN n ELSE requested[c]]
  BY DEF TakeSplit, Uses
<1>4. xBlockSize' = SplitOf(xBlockSize, b, w)
  BY DEF TakeSplit, SplitSizes, SplitOf
<1>5. PICK j \in Place(rest, xBlockSize', xBlockSize'[new]) : free' = InsertBehind(rest, j, new)
  BY DEF TakeSplit
<1>6. w < xBlockSize[b]
  <2>1. xBlockSize[b] - w > heapMINIMUM_BLOCK_SIZE
    BY DEF TakeSplit, Splits
  <2> QED  BY <1>1, <1>2, <2>1, SMT DEF heapMINIMUM_BLOCK_SIZE, heapSTRUCT_SIZE
<1>7. Tiles(xBlockSize) /\ Lists(free, FreeBlocks) /\ SortedBy(free, xBlockSize) /\ RequestsHeld
  BY DEF HeapInv
<1> HIDE DEF b, w, rest
<1>8. /\ Tiles(xBlockSize')
      /\ new \in Addresses \ BlocksOf(xBlockSize)
      /\ BlocksOf(xBlockSize') = BlocksOf(xBlockSize) \cup {new}
      /\ xBlockSize'[b] = w
      /\ \A c \in Addresses \ {b, new} : xBlockSize'[c] = xBlockSize[c]
  <2>1. IsSplit(xBlockSize', xBlockSize, b, w)
    BY <1>1, <1>2, <1>4, <1>6, <1>7, SplitTiles
  <2> QED  BY <2>1 DEF IsSplit
<1> HIDE DEF new
<1>9. Blocks = BlocksOf(xBlockSize) /\ Blocks' = BlocksOf(xBlockSize')
  BY DEF Blocks, BlocksOf
<1>10. Blocks \subseteq Addresses
  BY DEF Blocks
<1>11. DOMAIN requested' = DOMAIN requested \cup {b} /\ DOMAIN requested \subseteq Blocks
  BY <1>3, <1>7 DEF RequestsHeld
<1>12. FreeBlocks' = others \cup {new} /\ new \in Addresses \ others
  BY <1>1, <1>8, <1>9, <1>11 DEF FreeBlocks
<1>13. Lists(rest, others) /\ SortedBy(rest, xBlockSize)
  BY <1>1, <1>7, WithoutLists DEF b, rest
<1>14. \A c \in others : xBlockSize'[c] = xBlockSize[c]
  BY <1>8, <1>9, <1>10 DEF FreeBlocks
<1>15. SortedBy(rest, xBlockSize')
  BY <1>13, <1>14, SortedCongruence
<1>16. xBlockSize' \in [Addresses -> Nat]
  BY <1>8 DEF Tiles
<1> HIDE DEF others
<1>17. Lists(free', others \cup {new}) /\ SortedBy(free', xBlockSize')
  BY <1>5, <1>12, <1>13, <1>15, <1>16, InsertLists
<1>18. ASSUME NEW c \in DOMAIN requested'
       PROVE  /\ c \in Blocks' /\ requested'[c] \in Requests
              /\ requested'[c] > 0 /\ WantedSize(requested'[c]) <= xBlockSize'[c]
  <2>1. CASE c = b
    <3>1. requested'[c] = n
      BY <1>3, <1>11, <2>1
    <3>2. w <= w
      BY <1>2, SMT
    <3> QED  BY <1>1, <1>2, <1>8, <1>9, <2>1, <3>1, <3>2 DEF w
  <2>2. CASE c # b
    <3>1. c \in DOMAIN requested /\ requested'[c] = requested[c]
      BY <1>3, <1>11, <2>2
    <3>2. xBlockSize'[c] = xBlockSize[c]
      BY <1>8, <1>9, <1>10, <1>11, <2>2, <3>1
    <3> QED  BY <1>7, <1>8, <1>9, <3>1, <3>2 DEF RequestsHeld
  <2> QED  BY <2>1, <2>2
<1>19. RequestsHeld'
  BY <1>18 DEF RequestsHeld
<1> QED  BY <1>8, <1>12, <1>17, <1>19 DEF HeapInv

(* vPortFree keeps the invariant.                                          *)
LEMMA FreeKeeps ==
  ASSUME HeapInv, NEW b \in DOMAIN requested, vPortFree(b)
  PROVE  HeapInv'
<1>1. PICK i \in Place(free, xBlockSize, xBlockSize[b]) : free' = InsertBehind(free, i, b)
  BY DEF vPortFree
<1>2. /\ xBlockSize' = xBlockSize
      /\ requested' = [c \in DOMAIN requested \ {b} |-> requested[c]]
  BY DEF vPortFree
<1>3. Tiles(xBlockSize) /\ Lists(free, FreeBlocks) /\ SortedBy(free, xBlockSize) /\ RequestsHeld
  BY DEF HeapInv
<1>4. b \in Blocks /\ b \in Addresses \ FreeBlocks /\ xBlockSize \in [Addresses -> Nat]
  BY <1>3 DEF RequestsHeld, Blocks, FreeBlocks, Tiles
<1>5. Blocks' = Blocks /\ FreeBlocks' = FreeBlocks \cup {b}
  BY <1>2, <1>4 DEF Blocks, FreeBlocks
<1>6. Lists(free', FreeBlocks \cup {b}) /\ SortedBy(free', xBlockSize)
  BY <1>1, <1>3, <1>4, InsertLists
<1>7. RequestsHeld'
  BY <1>2, <1>3, <1>5 DEF RequestsHeld
<1> QED  BY <1>2, <1>3, <1>5, <1>6, <1>7 DEF HeapInv

(* HeapInv is inductive.                                                   *)
LEMMA HeapStep == HeapInv /\ [Next]_vars => HeapInv'
<1> SUFFICES ASSUME HeapInv, [Next]_vars PROVE HeapInv'
  OBVIOUS
<1>1. ASSUME NEW n \in Requests, pvPortMalloc(n) PROVE HeapInv'
  <2>1. PICK i \in DOMAIN free :
          Fits(i, WantedSize(n)) /\ (TakeWhole(i, n) \/ TakeSplit(i, n))
    BY <1>1 DEF pvPortMalloc
  <2>2. WantedSize(n) > 0
    BY <1>1 DEF pvPortMalloc
  <2> QED  BY <2>1, <2>2, TakeWholeKeeps, TakeSplitKeeps
<1>2. ASSUME vars' = vars PROVE HeapInv'
  BY <1>2 DEF vars, HeapInv, RequestsHeld, FreeBlocks, Blocks
<1>3. ASSUME NEW n \in Requests, pvPortMallocFails(n) PROVE HeapInv'
  BY <1>2, <1>3 DEF pvPortMallocFails, vars
<1>4. ASSUME NEW b \in DOMAIN requested, vPortFree(b) PROVE HeapInv'
  BY <1>4, FreeKeeps
<1> QED  BY <1>1, <1>2, <1>3, <1>4 DEF Next

(* The state of the heap keeps its shape.                                  *)
LEMMA HeapInvAlways == Spec => []HeapInv
<1> QED  BY HeapInit, HeapStep, PTL DEF Spec

(* The sizes, the free list and the blocks in use keep their shape.        *)
THEOREM HeapTypes == Spec => []TypeOK
<1>1. HeapInv => TypeOK
  BY HeapInvImplies
<1> QED  BY <1>1, HeapInvAlways, PTL

(* However the heap was split, its blocks tile it, and each of them is     *)
(* either in use or once in the free list.                                 *)
THEOREM HeapIsTiled == Spec => []HeapTiled
<1>1. HeapInv => HeapTiled
  BY HeapInvImplies
<1> QED  BY <1>1, HeapInvAlways, PTL

(* The free list is always in the order of block sizes.                    *)
THEOREM FreeListIsSorted == Spec => []FreeListSorted
<1>1. HeapInv => FreeListSorted
  BY HeapInvImplies
<1> QED  BY <1>1, HeapInvAlways, PTL

(* Together: the heap is sound in every state.                             *)
THEOREM HeapStaysSound == Spec => []HeapSound
<1> QED  BY HeapTypes, HeapIsTiled, FreeListIsSorted, PTL DEF HeapSound

(* The block that is handed out is the smallest that is large enough: the  *)
(* first that fits is, as the free list is in the order of sizes.          *)
THEOREM FirstFitIsBest == Spec => BestFit
<1> DEFINE Best == \A b \in DOMAIN requested' \ DOMAIN requested :
                     \A i \in DOMAIN free :
                       xBlockSize[free[i]] >= WantedSize(requested'[b])
                         => xBlockSize[b] <= xBlockSize[free[i]]
<1>1. ASSUME HeapInv, Next PROVE Best
  <2> SUFFICES ASSUME NEW b \in DOMAIN requested' \ DOMAIN requested,
                      NEW i \in DOMAIN free,
                      xBlockSize[free[i]] >= WantedSize(requested'[b])
               PROVE  xBlockSize[b] <= xBlockSize[free[i]]
    OBVIOUS
  <2>1. PICK n \in Requests : pvPortMalloc(n)
    <3>1. ASSUME NEW n \in Requests, pvPortMallocFails(n) PROVE FALSE
      BY <3>1 DEF pvPortMallocFails, vars
    <3>2. ASSUME NEW c \in DOMAIN requested, vPortFree(c) PROVE FALSE
      BY <3>2 DEF vPortFree
    <3> QED  BY <1>1, <3>1, <3>2 DEF Next
  <2>2. PICK k \in DOMAIN free :
          Fits(k, WantedSize(n)) /\ (TakeWhole(k, n) \/ TakeSplit(k, n))
    BY <2>1 DEF pvPortMalloc
  <2>3. Uses(free[k], n)
    BY <2>2 DEF TakeWhole, TakeSplit
  <2>4. b = free[k] /\ requested'[b] = n
    BY <2>3 DEF Uses
  <2>5. /\ free \in Seq(Addresses) /\ i \in 1 .. Len(free) /\ k \in 1 .. Len(free)
        /\ xBlockSize[free[i]] \in Nat /\ xBlockSize[free[k]] \in Nat
    BY <1>1, TakenBlock DEF HeapInv, Lists
  <2>6. WantedSize(n) \in Nat
    <3>1. n \in Nat
      BY HeapAssumption
    <3>2. n > 0
      BY <2>1, <3>1, SMT DEF pvPortMalloc, WantedSize
    <3> QED  BY <3>1, <3>2, WantedSizeFits
  <2>7. ~(i < k)
    <3>1. i < k => i \in 1 .. (k - 1)
      BY <2>5, SMT
    <3>2. \A j \in 1 .. (k - 1) : xBlockSize[free[j]] < WantedSize(n)
      BY <2>2 DEF Fits
    <3>3. xBlockSize[free[i]] >= WantedSize(n)
      BY <2>4
    <3> QED  BY <2>5, <2>6, <3>1, <3>2, <3>3, SMT
  <2>8. CASE i = k
    BY <2>4, <2>5, <2>8, SMT
  <2>9. CASE k < i
    BY <1>1, <2>4, <2>5, <2>9 DEF HeapInv, SortedBy
  <2> QED  BY <2>5, <2>7, <2>8, <2>9, SMT
<1>2. ASSUME HeapInv, [Next]_vars PROVE [Best]_vars
  BY <1>1, <1>2
<1>3. BestFit <=> [][Best]_vars
  BY PTL DEF BestFit
<1> QED  BY <1>2, <1>3, HeapInvAlways, PTL DEF Spec

-----------------------------------------------------------------------------
(* What the callers have: the heap as an Allocator.                        *)
Pointers == {b + heapSTRUCT_SIZE : b \in DOMAIN requested}
Used == [p \in Pointers |-> requested[p - heapSTRUCT_SIZE]]

(* The two steps of an Allocator.                                          *)
LEMMA AllocatorMalloc ==
  ASSUME NEW n \in Requests, n > 0, NEW p \in 0 .. configTOTAL_HEAP_SIZE - n, p % 4 = 0,
         \A q \in DOMAIN Used : p + n <= q \/ q + Used[q] <= p,
         Used' = [q \in DOMAIN Used \cup {p} |-> IF q = p THEN n ELSE Used[q]]
  PROVE  Abstract!Next
BY DEF Abstract!Next, Abstract!Malloc, Abstract!Apart, Used, Pointers, portBYTE_ALIGNMENT

(* The other one.                                                          *)
LEMMA AllocatorFree ==
  ASSUME NEW p \in DOMAIN Used, Used' = [q \in DOMAIN Used \ {p} |-> Used[q]]
  PROVE  Abstract!Next
BY DEF Abstract!Next, Abstract!Free, Used, Pointers

(* The pointers that callers have, and the sizes they asked for.           *)
LEMMA UsedBlocks ==
  ASSUME HeapInv
  PROVE  /\ DOMAIN Used = Pointers
         /\ \A p \in Pointers : \E b \in DOMAIN requested :
              b \in Blocks /\ b \in Nat /\ p = b + 8 /\ Used[p] = requested[b]
         /\ \A b \in DOMAIN requested : b + 8 \in Pointers /\ Used[b + 8] = requested[b]
<1>1. DOMAIN Used = Pointers
  BY DEF Used
<1>2. \A b \in DOMAIN requested : b \in Blocks /\ b \in Nat /\ (b + 8) - 8 = b
  <2>1. \A b \in DOMAIN requested : b \in Blocks /\ b \in Addresses
    BY DEF HeapInv, RequestsHeld, Blocks
  <2>2. \A b \in Addresses : b \in Nat /\ (b + 8) - 8 = b
    BY SMT DEF Addresses
  <2> QED  BY <2>1, <2>2
<1>3. \A b \in DOMAIN requested : b + 8 \in Pointers
  BY DEF Pointers, heapSTRUCT_SIZE
<1>4. \A p \in Pointers : Used[p] = requested[p - 8]
  BY DEF Used, heapSTRUCT_SIZE
<1>5. \A p \in Pointers : \E b \in DOMAIN requested : p = b + 8
  BY DEF Pointers, heapSTRUCT_SIZE
<1> QED  BY <1>1, <1>2, <1>3, <1>4, <1>5

(* What HeapInv says of sizes and requests.                                *)
Held(size, req) ==
  /\ Tiles(size)
  /\ \A b \in DOMAIN req : /\ b \in BlocksOf(size) /\ req[b] \in Requests
                           /\ req[b] > 0 /\ WantedSize(req[b]) <= size[b]

(* Blocks hold what their callers asked for behind the header, and nothing *)
(* that is asked for overlaps.                                             *)
LEMMA BlocksApart ==
  ASSUME NEW size, NEW req, Held(size, req), NEW b \in DOMAIN req
  PROVE  /\ b \in Nat /\ b % 4 = 0 /\ req[b] \in Nat /\ req[b] > 0
         /\ b + 8 + req[b] <= configTOTAL_HEAP_SIZE
         /\ \A c \in DOMAIN req : b < c => b + 8 + req[b] <= c
<1>1. \A c \in DOMAIN req : c \in BlocksOf(size)
  BY DEF Held
<1>2. /\ b \in Nat /\ size[b] \in Nat /\ b % 4 = 0
      /\ b + size[b] <= configTOTAL_HEAP_SIZE
  <2>1. b \in Addresses /\ \A a \in Addresses : a \in Nat
    BY <1>1, SMT DEF BlocksOf, Addresses
  <2> QED  BY <1>1, <2>1 DEF Held, Tiles
<1>3. req[b] \in Nat /\ req[b] > 0 /\ WantedSize(req[b]) <= size[b]
  BY HeapAssumption DEF Held
<1>4. WantedSize(req[b]) \in Nat /\ WantedSize(req[b]) >= req[b] + 8
  BY <1>3, WantedSizeFits DEF heapSTRUCT_SIZE
<1>5. b + 8 + req[b] <= b + size[b]
  BY <1>2, <1>3, <1>4, SMT
<1>6. configTOTAL_HEAP_SIZE \in Nat
  BY HeapAssumption
<1>7. ASSUME NEW c \in DOMAIN req, b < c PROVE b + 8 + req[b] <= c
  <2>1. b + size[b] <= c
    BY <1>1, <1>7 DEF Held, Tiles
  <2>2. c \in Nat
    BY <1>1, SMT DEF BlocksOf, Addresses
  <2> QED  BY <1>2, <1>3, <1>5, <2>1, <2>2, SMT
<1> QED  BY <1>2, <1>3, <1>5, <1>6, <1>7, SMT

(* A call that is given a block takes a step of the Allocator.             *)
LEMMA MallocAllocates ==
  ASSUME HeapInv, HeapInv', NEW n \in Requests, NEW b \in FreeBlocks, n > 0, Uses(b, n)
  PROVE  Abstract!Next
<1> DEFINE p == b + 8
<1>1. Held(xBlockSize', requested')
  BY DEF HeapInv, RequestsHeld, Held, Blocks, BlocksOf
<1>2. /\ DOMAIN requested' = DOMAIN requested \cup {b} /\ requested'[b] = n
      /\ \A c \in DOMAIN requested : c # b => requested'[c] = requested[c]
      /\ b \in DOMAIN requested' /\ b \notin DOMAIN requested
  BY DEF Uses, FreeBlocks
<1>3. /\ b \in Nat /\ b % 4 = 0 /\ n \in Nat
      /\ b + 8 + n <= configTOTAL_HEAP_SIZE
      /\ \A c \in DOMAIN requested' : b < c => b + 8 + n <= c
  BY <1>1, <1>2, BlocksApart
<1>4. ASSUME NEW q \in DOMAIN Used PROVE p + n <= q \/ q + Used[q] <= p
  <2>1. PICK c \in DOMAIN requested : c \in Nat /\ q = c + 8 /\ Used[q] = requested[c]
    BY UsedBlocks
  <2>2. requested[c] \in Nat /\ (c < b => c + 8 + requested[c] <= b)
    <3>1. c \in DOMAIN requested' /\ requested'[c] = requested[c]
      BY <1>2
    <3>2. requested'[c] \in Nat /\ (c < b => c + 8 + requested'[c] <= b)
      BY <1>1, <1>2, <3>1, BlocksApart
    <3> QED  BY <3>1, <3>2
  <2>3. b < c => b + 8 + n <= c
    BY <1>2, <1>3
  <2>4. b # c
    BY <1>2
  <2> QED  BY <1>3, <2>1, <2>2, <2>3, <2>4, SMT
<1>5. p \in 0 .. configTOTAL_HEAP_SIZE - n /\ p % 4 = 0
  BY <1>3, HeapAssumption, SMT
<1>6. Used' = [q \in DOMAIN Used \cup {p} |-> IF q = p THEN n ELSE Used[q]]
  <2>1. Pointers' = DOMAIN Used \cup {p}
    BY <1>2, UsedBlocks DEF Pointers, heapSTRUCT_SIZE
  <2>2. Used' = [q \in Pointers' |-> requested'[q - 8]]
    BY DEF Used, heapSTRUCT_SIZE
  <2>3. ASSUME NEW q \in DOMAIN Used \cup {p}
        PROVE  requested'[q - 8] = IF q = p THEN n ELSE Used[q]
    <3>1. CASE q = p
      BY <1>2, <1>3, <3>1, p - 8 = b
    <3>2. CASE q # p
      <4>1. PICK c \in DOMAIN requested : c \in Nat /\ q = c + 8 /\ Used[q] = requested[c]
        BY <3>2, UsedBlocks
      <4>2. q - 8 = c /\ c # b
        BY <3>2, <4>1
      <4> QED  BY <1>2, <3>2, <4>1, <4>2
    <3> QED  BY <3>1, <3>2
  <2> QED  BY <2>1, <2>2, <2>3
<1> QED  BY <1>3, <1>4, <1>5, <1>6, AllocatorMalloc

(* vPortFree takes a step of the Allocator.                                *)
LEMMA FreeFrees ==
  ASSUME HeapInv, NEW b \in DOMAIN requested, vPortFree(b)
  PROVE  Abstract!Next
<1> DEFINE p == b + 8
<1>1. requested' = [c \in DOMAIN requested \ {b} |-> requested[c]]
  BY DEF vPortFree
<1>2. \A c \in DOMAIN requested : c \in Nat
  <2>1. Held(xBlockSize, requested)
    BY DEF HeapInv, RequestsHeld, Held, Blocks, BlocksOf
  <2> QED  BY <2>1, BlocksApart
<1>3. p \in DOMAIN Used /\ b \in Nat
  BY <1>2, UsedBlocks
<1>4. Pointers' = DOMAIN Used \ {p}
  <2>1. \A c \in DOMAIN requested : c + 8 = b + 8 => c = b
    BY <1>3, <1>2, SMT
  <2>2. Pointers' = {c + 8 : c \in DOMAIN requested \ {b}}
    BY <1>1 DEF Pointers, heapSTRUCT_SIZE
  <2>3. DOMAIN Used = {c + 8 : c \in DOMAIN requested}
    BY DEF Used, Pointers, heapSTRUCT_SIZE
  <2> QED  BY <2>1, <2>2, <2>3
<1>5. Used' = [q \in Pointers' |-> requested'[q - 8]]
  BY DEF Used, heapSTRUCT_SIZE
<1>6. ASSUME NEW q \in DOMAIN Used \ {p} PROVE requested'[q - 8] = Used[q]
  <2>1. PICK c \in DOMAIN requested : c \in Nat /\ q = c + 8 /\ Used[q] = requested[c]
    BY UsedBlocks
  <2>2. q - 8 = c /\ c # b
    BY <2>1, SMT
  <2> QED  BY <1>1, <2>1, <2>2
<1>7. Used' = [q \in DOMAIN Used \ {p} |-> Used[q]]
  BY <1>4, <1>5, <1>6
<1> QED  BY <1>3, <1>7, AllocatorFree

(* Every step of the heap is one of an Allocator or leaves it alone.       *)
LEMMA HeapStepAllocates ==
  HeapInv /\ HeapInv' /\ [Next]_vars => [Abstract!Next]_Used
<1> SUFFICES ASSUME HeapInv, HeapInv', [Next]_vars PROVE [Abstract!Next]_Used
  OBVIOUS
<1>1. ASSUME NEW n \in Requests, pvPortMalloc(n) PROVE Abstract!Next
  <2>1. PICK i \in DOMAIN free :
          Fits(i, WantedSize(n)) /\ (TakeWhole(i, n) \/ TakeSplit(i, n))
    BY <1>1 DEF pvPortMalloc
  <2>2. Uses(free[i], n) /\ free[i] \in FreeBlocks
    BY <2>1, TakenBlock DEF TakeWhole, TakeSplit
  <2>3. n > 0
    <3>1. n \in Nat
      BY HeapAssumption
    <3> QED  BY <1>1, <3>1, SMT DEF pvPortMalloc, WantedSize
  <2> QED  BY <2>2, <2>3, MallocAllocates
<1>2. ASSUME vars' = vars PROVE Used' = Used
  BY <1>2 DEF vars, Used, Pointers
<1>3. ASSUME NEW n \in Requests, pvPortMallocFails(n) PROVE Used' = Used
  BY <1>2, <1>3 DEF pvPortMallocFails
<1>4. ASSUME NEW b \in DOMAIN requested, vPortFree(b) PROVE Abstract!Next
  BY <1>4, FreeFrees
<1> QED  BY <1>1, <1>2, <1>3, <1>4 DEF Next

(* The heap is an Allocator: every caller has the bytes it asked for to    *)
(* itself until it frees them, for any size of the heap and any requests.  *)
THEOREM HeapIsAllocator == Spec => BlocksAreTheirs
<1>1. Init => Abstract!Init
  BY DEF Init, Abstract!Init
<1>2. HeapInv /\ HeapInv' /\ [Next]_vars => [Abstract!Next]_Used
  BY HeapStepAllocates
<1> QED  BY <1>1, <1>2, HeapInvAlways, PTL DEF Spec, BlocksAreTheirs, Abstract!Spec, Used, Pointers

=============================================================================
