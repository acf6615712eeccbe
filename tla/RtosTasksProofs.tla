-------------------------- MODULE RtosTasksProofs ---------------------------
(***************************************************************************)
(* What the operators of the kernel do: the ring of a queue is a sequence, *)
(* and each function of tasks.c moves tasks between the lists of the       *)
(* scheduler so that these still agree, in any state in which they did.    *)
(* The last two parts say more of the functions: whom they take off an     *)
(* event list, and what becomes of priorities and the order of the lists.  *)
(***************************************************************************)
EXTENDS RtosKernel, TLAPS, SequenceTheorems, FiniteSetTheorems, NaturalsInduction,
        WellFoundedInduction

(* A buffer that is in use: its fields, and its pointers agree.            *)
IsBuffer(b) ==
  /\ b.uxLength \in Nat /\ b.uxLength > 0
  /\ b \in Buffers(b.uxLength)
  /\ PointersAgree(b)

Slots(b) == 0 .. (b.uxLength - 1)

-----------------------------------------------------------------------------
(* Slots.                                                                  *)

(* The numbers in a buffer, for the solver.                                *)
LEMMA Numbers ==
  ASSUME NEW b, IsBuffer(b)
  PROVE  /\ b.uxLength \in Nat /\ b.uxLength > 0
         /\ b.pcWriteTo \in Nat /\ b.pcWriteTo < b.uxLength
         /\ b.pcReadFrom \in Nat /\ b.pcReadFrom < b.uxLength
         /\ b.uxMessagesWaiting \in Nat /\ b.uxMessagesWaiting <= b.uxLength
         /\ b.pcWriteTo \in Slots(b) /\ b.pcReadFrom \in Slots(b)
         /\ b.store \in [Slots(b) -> Items \cup {NoItem}]
BY SMT DEF IsBuffer, Buffers, Slots

(* The slots of the items are slots of the buffer, and no two are the same *)
(* up to the length of the buffer.                                         *)
LEMMA SlotsDiffer ==
  ASSUME NEW b, IsBuffer(b)
  PROVE  /\ \A i \in 1 .. b.uxLength : SlotOf(b, i) \in Slots(b)
         /\ \A i, j \in 1 .. b.uxLength : SlotOf(b, i) = SlotOf(b, j) => i = j
<1> DEFINE l == b.uxLength
           r == b.pcReadFrom
<1>1. l \in Nat /\ l > 0 /\ r \in Nat /\ r < l
  BY Numbers
<1>2. \A i \in 1 .. l : SlotOf(b, i) = IF r + i >= l THEN r + i - l ELSE r + i
  BY <1>1, SMT DEF SlotOf
<1> HIDE DEF l, r
<1>3. ASSUME NEW i \in 1 .. l PROVE SlotOf(b, i) \in 0 .. (l - 1)
  BY <1>1, <1>2, SMT
<1>4. ASSUME NEW i \in 1 .. l, NEW j \in 1 .. l, SlotOf(b, i) = SlotOf(b, j)
      PROVE  i = j
  BY <1>1, <1>2, <1>4, SMT
<1> QED  BY <1>3, <1>4 DEF Slots, l

(* The slot that is written next is the one behind the last item; the slot *)
(* that was read last is the one before the first.                         *)
LEMMA FreeSlots ==
  ASSUME NEW b, IsBuffer(b), b.uxMessagesWaiting < b.uxLength
  PROVE  /\ b.pcWriteTo = SlotOf(b, b.uxMessagesWaiting + 1)
         /\ b.pcReadFrom = SlotOf(b, b.uxLength)
<1>1. PointersAgree(b)
  BY DEF IsBuffer
<1> QED  BY <1>1, Numbers, SMT DEF SlotOf, PointersAgree

-----------------------------------------------------------------------------
(* What the operations do to the fields.                                   *)
Has(c, length, store, write, read, waiting) ==
  /\ c \in Buffers(length) /\ c.uxLength = length
  /\ c.store = store /\ c.pcWriteTo = write /\ c.pcReadFrom = read
  /\ c.uxMessagesWaiting = waiting

(* Slots next to a slot are slots.                                         *)
LEMMA NextToSlots ==
  ASSUME NEW b, IsBuffer(b), NEW at \in Slots(b)
  PROVE  NextSlot(b, at) \in Slots(b) /\ PreviousSlot(b, at) \in Slots(b)
BY Numbers, SMT DEF NextSlot, PreviousSlot, Slots

(* CopyToBack.                                                             *)
LEMMA FieldsOfBack ==
  ASSUME NEW b, IsBuffer(b), b.uxMessagesWaiting < b.uxLength, NEW item \in Items,
         NEW c, c = CopyToBack(b, item)
  PROVE  Has(c, b.uxLength, [b.store EXCEPT ![b.pcWriteTo] = item],
             NextSlot(b, b.pcWriteTo), b.pcReadFrom, b.uxMessagesWaiting + 1)
<1> DEFINE store == [b.store EXCEPT ![b.pcWriteTo] = item]
           write == NextSlot(b, b.pcWriteTo)
           read == b.pcReadFrom
<1>1. /\ store \in [0 .. (b.uxLength - 1) -> Items \cup {NoItem}]
      /\ write \in 0 .. (b.uxLength - 1) /\ read \in 0 .. (b.uxLength - 1)
  BY Numbers, NextToSlots DEF Slots
<1>2. b.uxMessagesWaiting + 1 \in 0 .. b.uxLength
  BY Numbers, SMT
<1>3. b \in Buffers(b.uxLength)
  BY DEF IsBuffer
<1>4. /\ c.uxLength = b.uxLength /\ c.store = store /\ c.pcWriteTo = write
      /\ c.pcReadFrom = read /\ c.uxMessagesWaiting = b.uxMessagesWaiting + 1
  BY <1>3 DEF CopyToBack, Buffers
<1> HIDE DEF store, write, read
<1>5. c \in Buffers(b.uxLength)
  BY <1>1, <1>2, <1>3, <1>4 DEF CopyToBack, Buffers
<1> QED  BY <1>4, <1>5 DEF Has, store, write, read

(* CopyToFront.                                                            *)
LEMMA FieldsOfFront ==
  ASSUME NEW b, IsBuffer(b), b.uxMessagesWaiting < b.uxLength, NEW item \in Items,
         NEW c, c = CopyToFront(b, item)
  PROVE  Has(c, b.uxLength, [b.store EXCEPT ![b.pcReadFrom] = item],
             b.pcWriteTo, PreviousSlot(b, b.pcReadFrom), b.uxMessagesWaiting + 1)
<1> DEFINE store == [b.store EXCEPT ![b.pcReadFrom] = item]
           write == b.pcWriteTo
           read == PreviousSlot(b, b.pcReadFrom)
<1>1. /\ store \in [0 .. (b.uxLength - 1) -> Items \cup {NoItem}]
      /\ write \in 0 .. (b.uxLength - 1) /\ read \in 0 .. (b.uxLength - 1)
  BY Numbers, NextToSlots DEF Slots
<1>2. b.uxMessagesWaiting + 1 \in 0 .. b.uxLength
  BY Numbers, SMT
<1>3. b \in Buffers(b.uxLength)
  BY DEF IsBuffer
<1>4. /\ c.uxLength = b.uxLength /\ c.store = store /\ c.pcWriteTo = write
      /\ c.pcReadFrom = read /\ c.uxMessagesWaiting = b.uxMessagesWaiting + 1
  BY <1>3 DEF CopyToFront, Buffers
<1> HIDE DEF store, write, read
<1>5. c \in Buffers(b.uxLength)
  BY <1>1, <1>2, <1>3, <1>4 DEF CopyToFront, Buffers
<1> QED  BY <1>4, <1>5 DEF Has, store, write, read

(* CopyFrom.                                                               *)
LEMMA FieldsOfRead ==
  ASSUME NEW b, IsBuffer(b), b.uxMessagesWaiting > 0,
         NEW c, c = CopyFrom(b)
  PROVE  Has(c, b.uxLength, b.store,
             b.pcWriteTo, NextSlot(b, b.pcReadFrom), b.uxMessagesWaiting - 1)
<1> DEFINE store == b.store
           write == b.pcWriteTo
           read == NextSlot(b, b.pcReadFrom)
<1>1. /\ store \in [0 .. (b.uxLength - 1) -> Items \cup {NoItem}]
      /\ write \in 0 .. (b.uxLength - 1) /\ read \in 0 .. (b.uxLength - 1)
  BY Numbers, NextToSlots DEF Slots
<1>2. b.uxMessagesWaiting - 1 \in 0 .. b.uxLength
  BY Numbers, SMT
<1>3. b \in Buffers(b.uxLength)
  BY DEF IsBuffer
<1>4. /\ c.uxLength = b.uxLength /\ c.store = store /\ c.pcWriteTo = write
      /\ c.pcReadFrom = read /\ c.uxMessagesWaiting = b.uxMessagesWaiting - 1
  BY <1>3 DEF CopyFrom, Buffers
<1> HIDE DEF store, write, read
<1>5. c \in Buffers(b.uxLength)
  BY <1>1, <1>2, <1>3, <1>4 DEF CopyFrom, Buffers
<1> QED  BY <1>4, <1>5 DEF Has, store, write, read

-----------------------------------------------------------------------------
(* What the operations do to the contents.                                 *)
Stored == Items \cup {NoItem}

Holds(s, b, n) ==
  /\ s \in Seq(Stored) /\ Len(s) = n
  /\ \A i \in 1 .. n : s[i] = b.store[SlotOf(b, i)]

(* The contents are a sequence.                                            *)
LEMMA ContentsAre ==
  ASSUME NEW b, IsBuffer(b), NEW n, n = b.uxMessagesWaiting
  PROVE  Holds(Contents(b), b, n)
<1>1. n \in Nat /\ \A i \in 1 .. n : i \in 1 .. b.uxLength
  BY Numbers, SMT
<1>2. \A i \in 1 .. n : b.store[SlotOf(b, i)] \in Stored
  BY <1>1, SlotsDiffer, Numbers DEF Stored
<1>3. Contents(b) = [i \in 1 .. n |-> b.store[SlotOf(b, i)]]
  BY DEF Contents
<1>4. /\ Contents(b) \in Seq(Stored) /\ Len(Contents(b)) = n
      /\ \A i \in 1 .. n : Contents(b)[i] = b.store[SlotOf(b, i)]
  BY <1>1, <1>2, <1>3, SMT
<1> QED  BY <1>4 DEF Holds

(* Two sequences with the same elements are the same.                      *)
LEMMA SameElements ==
  ASSUME NEW S, NEW s \in Seq(S), NEW t \in Seq(S), NEW n \in Nat, Len(s) = n, Len(t) = n,
         \A i \in 1 .. n : s[i] = t[i]
  PROVE  s = t
BY SMT

(* The elements of a sequence with one more at the end.                    *)
LEMMA AppendElements ==
  ASSUME NEW S, NEW s \in Seq(S), NEW x \in S, NEW n \in Nat, Len(s) = n,
         NEW t, t = Append(s, x)
  PROVE  /\ t \in Seq(S) /\ Len(t) = n + 1 /\ t[n + 1] = x
         /\ \A i \in 1 .. n : t[i] = s[i]
BY SMT

(* And at the front.                                                       *)
LEMMA PrependElements ==
  ASSUME NEW S, NEW s \in Seq(S), NEW x \in S, NEW n \in Nat, Len(s) = n,
         NEW t, t = <<x>> \o s
  PROVE  /\ t \in Seq(S) /\ Len(t) = n + 1 /\ t[1] = x
         /\ \A i \in 1 .. n : t[i + 1] = s[i]
BY SMT

(* The elements of a sequence without its first.                           *)
LEMMA TailElements ==
  ASSUME NEW S, NEW s \in Seq(S), NEW n \in Nat, n > 0, Len(s) = n,
         NEW t, t = Tail(s)
  PROVE  /\ t \in Seq(S) /\ Len(t) = n - 1
         /\ \A i \in 1 .. (n - 1) : t[i] = s[i + 1]
BY SMT

(* A queue that was just made is empty.                                    *)
THEOREM NewBufferIsEmpty ==
  ASSUME NEW length \in Nat \ {0}
  PROVE  IsBuffer(NewBuffer(length)) /\ Contents(NewBuffer(length)) = <<>>
<1> DEFINE b == NewBuffer(length)
<1>1. /\ b.uxLength = length /\ b.pcWriteTo = 0 /\ b.pcReadFrom = length - 1
      /\ b.uxMessagesWaiting = 0
  BY DEF NewBuffer
<1>2. b \in Buffers(length)
  <2>1. /\ [i \in 0 .. (length - 1) |-> NoItem] \in [0 .. (length - 1) -> Items \cup {NoItem}]
        /\ 0 \in 0 .. (length - 1) /\ length - 1 \in 0 .. (length - 1) /\ 0 \in 0 .. length
    BY SMT
  <2> QED  BY <2>1 DEF NewBuffer, Buffers
<1> HIDE DEF b
<1>3. PointersAgree(b)
  BY <1>1, SMT DEF PointersAgree
<1>4. IsBuffer(b)
  BY <1>1, <1>2, <1>3 DEF IsBuffer
<1>5. Contents(b) \in Seq(Stored) /\ Len(Contents(b)) = 0
  BY <1>1, <1>4, ContentsAre DEF Holds
<1> QED  BY <1>4, <1>5, SMT DEF b

(* Sending to the back adds the item behind the others.                    *)
THEOREM BackAppends ==
  ASSUME NEW b, IsBuffer(b), b.uxMessagesWaiting < b.uxLength, NEW item \in Items,
         NEW c, c = CopyToBack(b, item)
  PROVE  IsBuffer(c) /\ Contents(c) = Append(Contents(b), item)
<1> DEFINE n == b.uxMessagesWaiting
<1>1. /\ c \in Buffers(b.uxLength) /\ c.uxLength = b.uxLength
      /\ c.store = [b.store EXCEPT ![b.pcWriteTo] = item]
      /\ c.pcWriteTo = NextSlot(b, b.pcWriteTo) /\ c.pcReadFrom = b.pcReadFrom
      /\ c.uxMessagesWaiting = n + 1
  BY FieldsOfBack DEF Has
<1>2. PointersAgree(c)
  <2>1. PointersAgree(b)
    BY DEF IsBuffer
  <2> QED  BY <1>1, <2>1, Numbers, SMT DEF PointersAgree, NextSlot
<1>3. IsBuffer(c)
  BY <1>1, <1>2, Numbers DEF IsBuffer
<1>4. n \in Nat /\ n < b.uxLength /\ b.uxLength \in Nat
  BY Numbers
<1>5. \A i : SlotOf(c, i) = SlotOf(b, i)
  BY <1>1 DEF SlotOf
<1>6. b.pcWriteTo = SlotOf(b, n + 1)
  BY FreeSlots
<1>7. /\ Contents(b) \in Seq(Stored) /\ Len(Contents(b)) = n
      /\ Contents(c) \in Seq(Stored) /\ Len(Contents(c)) = n + 1
      /\ \A i \in 1 .. (n + 1) : Contents(c)[i] = c.store[SlotOf(c, i)]
  <2>1. Holds(Contents(b), b, n)
    BY ContentsAre
  <2>2. Holds(Contents(c), c, n + 1)
    BY <1>1, <1>3, ContentsAre
  <2> QED  BY <2>1, <2>2 DEF Holds
<1>8. ASSUME NEW i \in 1 .. n PROVE Contents(c)[i] = Contents(b)[i]
  <2>1. /\ i \in 1 .. (n + 1) /\ i \in 1 .. b.uxLength /\ n + 1 \in 1 .. b.uxLength
        /\ i # n + 1
    BY <1>4, SMT
  <2>2. SlotOf(b, i) \in Slots(b) /\ SlotOf(b, i) # b.pcWriteTo
    BY <1>6, <2>1, SlotsDiffer
  <2>3. c.store[SlotOf(b, i)] = b.store[SlotOf(b, i)]
    BY <1>1, <2>2, Numbers
  <2>4. Contents(c)[i] = c.store[SlotOf(c, i)]
    BY <1>7, <2>1
  <2>5. Contents(b)[i] = b.store[SlotOf(b, i)]
    BY ContentsAre DEF Holds
  <2> QED  BY <1>5, <2>3, <2>4, <2>5
<1>9. Contents(c)[n + 1] = item
  <2>1. n + 1 \in 1 .. (n + 1)
    BY <1>4, SMT
  <2>2. Contents(c)[n + 1] = c.store[SlotOf(c, n + 1)]
    BY <1>7, <2>1
  <2>3. c.store[b.pcWriteTo] = item
    BY <1>1, Numbers
  <2> QED  BY <1>5, <1>6, <2>2, <2>3
<1>10. PICK t : t = Append(Contents(b), item)
  OBVIOUS
<1> item \in Stored
  BY DEF Stored
<1>11. /\ t \in Seq(Stored) /\ Len(t) = n + 1 /\ t[n + 1] = item
       /\ \A i \in 1 .. n : t[i] = Contents(b)[i]
  BY <1>4, <1>7, <1>10, AppendElements
<1>12. \A i \in 1 .. (n + 1) : Contents(c)[i] = t[i]
  <2>1. \A i \in 1 .. (n + 1) : i \in 1 .. n \/ i = n + 1
    BY <1>4, SMT
  <2> QED  BY <1>8, <1>9, <1>11, <2>1
<1>13. n + 1 \in Nat
  BY <1>4
<1>14. Contents(c) = t
  BY <1>7, <1>11, <1>12, <1>13, SameElements
<1> QED  BY <1>3, <1>10, <1>14

(* Sending to the front adds it before them.                               *)
THEOREM FrontPrepends ==
  ASSUME NEW b, IsBuffer(b), b.uxMessagesWaiting < b.uxLength, NEW item \in Items,
         NEW c, c = CopyToFront(b, item)
  PROVE  IsBuffer(c) /\ Contents(c) = <<item>> \o Contents(b)
<1> DEFINE n == b.uxMessagesWaiting
<1>1. /\ c \in Buffers(b.uxLength) /\ c.uxLength = b.uxLength
      /\ c.store = [b.store EXCEPT ![b.pcReadFrom] = item]
      /\ c.pcWriteTo = b.pcWriteTo /\ c.pcReadFrom = PreviousSlot(b, b.pcReadFrom)
      /\ c.uxMessagesWaiting = n + 1
  BY FieldsOfFront DEF Has
<1>2. PointersAgree(c)
  <2>1. PointersAgree(b)
    BY DEF IsBuffer
  <2> QED  BY <1>1, <2>1, Numbers, SMT DEF PointersAgree, PreviousSlot
<1>3. IsBuffer(c)
  BY <1>1, <1>2, Numbers DEF IsBuffer
<1>4. n \in Nat /\ n < b.uxLength /\ b.uxLength \in Nat
  BY Numbers
<1>5. SlotOf(c, 1) = b.pcReadFrom
  BY <1>1, Numbers, SMT DEF SlotOf, PreviousSlot
<1>6. \A i \in 1 .. n : SlotOf(c, i + 1) = SlotOf(b, i)
  BY <1>1, Numbers, SMT DEF SlotOf, PreviousSlot
<1>7. /\ Contents(b) \in Seq(Stored) /\ Len(Contents(b)) = n
      /\ Contents(c) \in Seq(Stored) /\ Len(Contents(c)) = n + 1
      /\ \A i \in 1 .. (n + 1) : Contents(c)[i] = c.store[SlotOf(c, i)]
  <2>1. Holds(Contents(b), b, n)
    BY ContentsAre
  <2>2. Holds(Contents(c), c, n + 1)
    BY <1>1, <1>3, ContentsAre
  <2> QED  BY <2>1, <2>2 DEF Holds
<1>8. ASSUME NEW i \in 1 .. n PROVE Contents(c)[i + 1] = Contents(b)[i]
  <2>1. /\ i + 1 \in 1 .. (n + 1) /\ i \in 1 .. b.uxLength
        /\ b.uxLength \in 1 .. b.uxLength /\ i # b.uxLength
    BY <1>4, SMT
  <2>2. b.pcReadFrom = SlotOf(b, b.uxLength)
    BY FreeSlots
  <2>3. SlotOf(b, i) \in Slots(b) /\ SlotOf(b, i) # b.pcReadFrom
    BY <2>1, <2>2, SlotsDiffer
  <2>4. c.store[SlotOf(b, i)] = b.store[SlotOf(b, i)]
    BY <1>1, <2>3, Numbers
  <2>5. Contents(c)[i + 1] = c.store[SlotOf(c, i + 1)]
    BY <1>7, <2>1
  <2>6. Contents(b)[i] = b.store[SlotOf(b, i)]
    BY ContentsAre DEF Holds
  <2> QED  BY <1>6, <2>4, <2>5, <2>6
<1>9. Contents(c)[1] = item
  <2>1. 1 \in 1 .. (n + 1)
    BY <1>4, SMT
  <2>2. c.store[b.pcReadFrom] = item
    BY <1>1, Numbers
  <2> QED  BY <1>5, <1>7, <2>1, <2>2
<1>10. PICK t : t = <<item>> \o Contents(b)
  OBVIOUS
<1> item \in Stored
  BY DEF Stored
<1>11. /\ t \in Seq(Stored) /\ Len(t) = n + 1 /\ t[1] = item
       /\ \A i \in 1 .. n : t[i + 1] = Contents(b)[i]
  BY <1>4, <1>7, <1>10, PrependElements
<1>12. ASSUME NEW i \in 1 .. (n + 1) PROVE Contents(c)[i] = t[i]
  <2>1. i = 1 \/ \E j \in 1 .. n : i = j + 1
    BY <1>4, i - 1 \in 0 .. n, i = (i - 1) + 1, SMT
  <2> QED  BY <1>8, <1>9, <1>11, <2>1
<1>13. n + 1 \in Nat
  BY <1>4
<1>14. Contents(c) = t
  BY <1>7, <1>11, <1>12, <1>13, SameElements
<1> QED  BY <1>3, <1>10, <1>14

(* Receiving hands out the first item and leaves the others.               *)
THEOREM ReadTakesFirst ==
  ASSUME NEW b, IsBuffer(b), b.uxMessagesWaiting > 0, NEW c, c = CopyFrom(b)
  PROVE  /\ NextItem(b) = Head(Contents(b))
         /\ IsBuffer(c) /\ Contents(c) = Tail(Contents(b))
<1> DEFINE n == b.uxMessagesWaiting
<1>1. /\ c \in Buffers(b.uxLength) /\ c.uxLength = b.uxLength
      /\ c.store = b.store /\ c.pcWriteTo = b.pcWriteTo
      /\ c.pcReadFrom = NextSlot(b, b.pcReadFrom) /\ c.uxMessagesWaiting = n - 1
  BY FieldsOfRead DEF Has
<1>2. PointersAgree(c)
  <2>1. PointersAgree(b)
    BY DEF IsBuffer
  <2> QED  BY <1>1, <2>1, Numbers, SMT DEF PointersAgree, NextSlot
<1>3. IsBuffer(c)
  BY <1>1, <1>2, Numbers DEF IsBuffer
<1>4. n \in Nat /\ n > 0 /\ n <= b.uxLength /\ b.uxLength \in Nat
  BY Numbers
<1>5. SlotOf(b, 1) = NextSlot(b, b.pcReadFrom)
  BY Numbers, SMT DEF SlotOf, NextSlot
<1>6. ASSUME NEW i \in 1 .. (n - 1) PROVE SlotOf(c, i) = SlotOf(b, i + 1)
  BY <1>1, Numbers, SMT DEF SlotOf, NextSlot
<1>7. /\ Contents(b) \in Seq(Stored) /\ Len(Contents(b)) = n
      /\ \A i \in 1 .. n : Contents(b)[i] = b.store[SlotOf(b, i)]
      /\ Contents(c) \in Seq(Stored) /\ Len(Contents(c)) = n - 1
      /\ \A i \in 1 .. (n - 1) : Contents(c)[i] = c.store[SlotOf(c, i)]
  <2>1. Holds(Contents(b), b, n)
    BY ContentsAre
  <2>2. Holds(Contents(c), c, n - 1)
    BY <1>1, <1>3, ContentsAre
  <2> QED  BY <2>1, <2>2 DEF Holds
<1>8. NextItem(b) = Head(Contents(b))
  <2>1. 1 \in 1 .. n
    BY <1>4, SMT
  <2>2. Head(Contents(b)) = Contents(b)[1]
    BY <1>7
  <2> QED  BY <1>5, <1>7, <2>1, <2>2 DEF NextItem
<1>9. PICK t : t = Tail(Contents(b))
  OBVIOUS
<1>10. /\ t \in Seq(Stored) /\ Len(t) = n - 1
       /\ \A i \in 1 .. (n - 1) : t[i] = Contents(b)[i + 1]
  BY <1>4, <1>7, <1>9, TailElements
<1>11. ASSUME NEW i \in 1 .. (n - 1) PROVE Contents(c)[i] = t[i]
  <2>1. i + 1 \in 1 .. n
    BY <1>4, SMT
  <2> QED  BY <1>1, <1>6, <1>7, <1>10, <2>1
<1>12. n - 1 \in Nat
  BY <1>4
<1>13. Contents(c) = t
  BY <1>7, <1>10, <1>11, <1>12, SameElements
<1> QED  BY <1>3, <1>8, <1>9, <1>13

-----------------------------------------------------------------------------
(* Natural numbers: the least element of a set, and induction over a set.  *)

Below == {x \in Nat \X Nat : x[1] < x[2]}

(* The order of the naturals is well-founded.                              *)
LEMMA BelowWellFounded == IsWellFoundedOn(Below, Nat)
<1>1. IsWellFoundedOn(OpToRel(<, Nat), Nat)
  BY NatLessThanWellFounded
<1>2. OpToRel(<, Nat) = Below
  BY DEF OpToRel, Below
<1> QED BY <1>1, <1>2

(* A set of naturals that is not empty has a least element.                *)
LEMMA HasLeast ==
  ASSUME NEW S \in SUBSET Nat, S # {}
  PROVE  \E n \in S : \A m \in S : n <= m
<1>1. PICK x \in S : \A y \in S : <<y, x>> \notin Below
  BY BelowWellFounded, WFMin
<1>2. \A y \in S : y < x => <<y, x>> \in Below
  BY DEF Below
<1>3. \A y \in S : ~(y < x)
  BY <1>1, <1>2
<1>4. x \in Nat /\ \A y \in S : y \in Nat
  OBVIOUS
<1> QED BY <1>3, <1>4

(* Induction up to n, over the set of the numbers of which something holds. *)
LEMMA Reaches0 ==
  ASSUME NEW n \in Nat, NEW S \in SUBSET (0 .. n),
         0 \in S, \A i \in S : i < n => i + 1 \in S
  PROVE  n \in S
<1> SUFFICES ASSUME n \notin S PROVE FALSE
  OBVIOUS
<1> DEFINE Out == {i \in 0 .. n : i \notin S}
<1>1. Out \in SUBSET Nat /\ n \in Out
  OBVIOUS
<1>2. PICK m \in Out : \A i \in Out : m <= i
  BY <1>1, HasLeast
<1>3. m \in 0 .. n /\ m \notin S /\ m # 0
  OBVIOUS
<1>4. m - 1 \in 0 .. n /\ m - 1 \notin Out
  BY <1>2, <1>3
<1>5. m - 1 \in S /\ m - 1 < n /\ (m - 1) + 1 = m
  BY <1>3, <1>4
<1> QED BY <1>3, <1>5

(* Min and Max of SequencesExt are the least and the greatest.             *)
LEMMA MinIs ==
  ASSUME NEW S \in SUBSET Nat, S # {}
  PROVE  Min(S) \in S /\ \A m \in S : Min(S) <= m
BY HasLeast DEF Min

-----------------------------------------------------------------------------
(* Lists.                                                                  *)

IsList(s) == s \in Seq(Tasks) /\ \A i, j \in 1 .. Len(s) : s[i] = s[j] => i = j

(* A list is in the order of the values of its tasks.                      *)
InOrder(s, value) == \A i, j \in 1 .. Len(s) : i < j => value[s[i]] <= value[s[j]]

(* What is on a list of tasks, place by place.                             *)
LEMMA Members ==
  ASSUME NEW s \in Seq(Tasks)
  PROVE  /\ \A t : t \in ToSet(s) <=> \E i \in 1 .. Len(s) : s[i] = t
         /\ ToSet(s) \subseteq Tasks
         /\ ToSet(s) = {} <=> s = <<>>
         /\ Len(s) \in Nat /\ \A i \in 1 .. Len(s) : s[i] \in Tasks
<1>1. DOMAIN s = 1 .. Len(s) /\ Len(s) \in Nat /\ \A i \in 1 .. Len(s) : s[i] \in Tasks
  OBVIOUS
<1>2. \A t : t \in ToSet(s) <=> \E i \in 1 .. Len(s) : s[i] = t
  BY <1>1 DEF ToSet
<1>3. ToSet(s) = {} <=> s = <<>>
  <2>1. s = <<>> => ToSet(s) = {}
    BY <1>1, <1>2
  <2>2. ASSUME ToSet(s) = {} PROVE s = <<>>
    <3>1. ~(1 \in 1 .. Len(s))
      BY <2>2, <1>2
    <3> QED BY <3>1, <1>1
  <2> QED BY <2>1, <2>2
<1> QED BY <1>1, <1>2, <1>3

(* The first place of a list where a test holds.                           *)
LEMMA FirstPlace ==
  ASSUME NEW s \in Seq(Tasks), NEW I \in SUBSET (1 .. Len(s)), I # {}
  PROVE  /\ Min(I) \in 1 .. Len(s) /\ Min(I) \in I
         /\ \A i \in 1 .. (Min(I) - 1) : i \notin I
<1>1. I \in SUBSET Nat
  OBVIOUS
<1>2. Min(I) \in I /\ \A m \in I : Min(I) <= m
  BY <1>1, MinIs
<1> DEFINE n == Min(I)
<1> HIDE DEF n
<1>a. Len(s) \in Nat
  OBVIOUS
<1>b. n \in I /\ \A m \in I : n <= m
  BY <1>2 DEF n
<1>3. n \in I /\ (\A m \in I : n <= m) /\ n \in 1 .. Len(s)
  BY <1>b
<1>4. \A i \in 1 .. (n - 1) : i \in Nat /\ ~(n <= i)
  BY <1>a, <1>3
<1>5. n \in 1 .. Len(s) /\ n \in I /\ \A i \in 1 .. (n - 1) : i \notin I
  BY <1>3, <1>4
<1> QED BY <1>5 DEF n

(* A list without its i-th task.                                           *)
LEMMA Without ==
  ASSUME NEW s, IsList(s), NEW i \in 1 .. Len(s)
  PROVE  LET r == RemoveAt(s, i)
         IN  /\ r \in Seq(Tasks) /\ Len(r) = Len(s) - 1
             /\ \A j \in 1 .. Len(r) : r[j] = IF j < i THEN s[j] ELSE s[j + 1]
<1> DEFINE a == SubSeq(s, 1, i - 1)
           b == SubSeq(s, i + 1, Len(s))
<1>1. s \in Seq(Tasks) /\ Len(s) \in Nat
  BY DEF IsList
<1>2. /\ a \in Seq(Tasks) /\ Len(a) = i - 1
      /\ \A j \in 1 .. (i - 1) : a[j] = s[j]
  BY <1>1
<1>3. /\ b \in Seq(Tasks) /\ Len(b) = Len(s) - i
      /\ \A j \in 1 .. (Len(s) - i) : b[j] = s[i + j]
  BY <1>1
<1> DEFINE r == a \o b
<1> HIDE DEF a, b
<1>4. /\ r \in Seq(Tasks) /\ Len(r) = Len(s) - 1
      /\ \A j \in 1 .. Len(r) : r[j] = IF j <= Len(a) THEN a[j] ELSE b[j - Len(a)]
  <2>1. /\ r \in Seq(Tasks) /\ Len(r) = Len(a) + Len(b)
        /\ \A j \in 1 .. Len(a) + Len(b) : r[j] = IF j <= Len(a) THEN a[j] ELSE b[j - Len(a)]
    <3>1. a \in Seq(Tasks) /\ b \in Seq(Tasks)
      BY <1>2, <1>3
    <3> QED BY <3>1, ConcatProperties, Zenon
  <2> QED BY <2>1, <1>1, <1>2, <1>3
<1> HIDE DEF r
<1>5. \A j \in 1 .. Len(r) : r[j] = IF j < i THEN s[j] ELSE s[j + 1]
  <2> TAKE j \in 1 .. Len(r)
  <2>1. CASE j < i
    BY <2>1, <1>1, <1>2, <1>4
  <2>2. CASE ~(j < i)
    <3>1. j - (i - 1) \in 1 .. (Len(s) - i) /\ i + (j - (i - 1)) = j + 1
      BY <2>2, <1>1, <1>4
    <3>2. ~(j <= Len(a)) /\ j - Len(a) = j - (i - 1)
      BY <2>2, <1>2
    <3>3. r[j] = b[j - (i - 1)]
      BY <3>2, <1>4
    <3> QED BY <2>2, <3>1, <3>3, <1>3
  <2> QED BY <2>1, <2>2
<1> QED BY <1>4, <1>5 DEF RemoveAt, a, b, r

(* vListRemove: the task leaves the list, and the others keep their order. *)
LEMMA RemovedFrom ==
  ASSUME NEW s, IsList(s), NEW t
  PROVE  /\ IsList(RemoveFirst(s, t))
         /\ ToSet(RemoveFirst(s, t)) = ToSet(s) \ {t}
         /\ t \notin ToSet(s) => RemoveFirst(s, t) = s
         /\ t \in ToSet(s) => Len(RemoveFirst(s, t)) = Len(s) - 1
         /\ \A value : InOrder(s, value) => InOrder(RemoveFirst(s, t), value)
<1>1. s \in Seq(Tasks) /\ Len(s) \in Nat
  BY DEF IsList
<1>2. CASE ~\E i \in 1 .. Len(s) : s[i] = t
  BY <1>1, <1>2, Members DEF RemoveFirst
<1>3. CASE \E i \in 1 .. Len(s) : s[i] = t
  <2> DEFINE I == {i \in 1 .. Len(s) : s[i] = t}
             n == Min(I)
             r == RemoveAt(s, n)
  <2>1. n \in 1 .. Len(s) /\ s[n] = t
    <3>1. I \in SUBSET (1 .. Len(s)) /\ I # {}
      BY <1>3
    <3>2. n \in I
      BY <3>1, <1>1, FirstPlace
    <3> QED BY <3>2
  <2>2. RemoveFirst(s, t) = r
    BY <1>3 DEF RemoveFirst, SelectInSeq
  <2> HIDE DEF n
  <2>3. /\ r \in Seq(Tasks) /\ Len(r) = Len(s) - 1
        /\ \A j \in 1 .. Len(r) : r[j] = IF j < n THEN s[j] ELSE s[j + 1]
    BY <2>1, Without
  <2> HIDE DEF r
  <2>4. \A i \in 1 .. Len(s) : s[i] = t => i = n
    BY <2>1 DEF IsList
  <2>5. IsList(r)
    BY <1>1, <2>1, <2>3 DEF IsList
  <2>6. \A u \in ToSet(r) : u \in ToSet(s) \ {t}
    <3> SUFFICES ASSUME NEW j \in 1 .. Len(r) PROVE r[j] \in ToSet(s) \ {t}
      BY <2>3, Members
    <3>1. j \in 1 .. Len(s) /\ j + 1 \in 1 .. Len(s)
      BY <1>1, <2>3
    <3>2. j < n => s[j] # t
      BY <3>1, <2>4, <2>1
    <3>3. ~(j < n) => s[j + 1] # t
      BY <3>1, <2>4, <2>1
    <3> QED BY <3>1, <3>2, <3>3, <2>3, <1>1, Members
  <2>7. \A u \in ToSet(s) \ {t} : u \in ToSet(r)
    <3> SUFFICES ASSUME NEW i \in 1 .. Len(s), s[i] # t PROVE s[i] \in ToSet(r)
      BY <1>1, Members
    <3>1. CASE i < n
      BY <3>1, <2>1, <2>3, <1>1, Members
    <3>2. CASE i > n
      <4>1. i - 1 \in 1 .. Len(r) /\ ~(i - 1 < n) /\ (i - 1) + 1 = i
        BY <3>2, <2>1, <2>3, <1>1
      <4> QED BY <4>1, <2>3, Members
    <3> QED BY <3>1, <3>2, <2>1, <1>1
  <2>8. ASSUME NEW value, InOrder(s, value) PROVE InOrder(r, value)
    <3> SUFFICES ASSUME NEW i \in 1 .. Len(r), NEW j \in 1 .. Len(r), i < j
                 PROVE  value[r[i]] <= value[r[j]]
      BY DEF InOrder
    <3> DEFINE i1 == IF i < n THEN i ELSE i + 1
               j1 == IF j < n THEN j ELSE j + 1
    <3>1. i1 \in 1 .. Len(s) /\ j1 \in 1 .. Len(s) /\ i1 < j1
      BY <1>1, <2>1, <2>3
    <3>2. r[i] = s[i1] /\ r[j] = s[j1]
      BY <2>3
    <3> HIDE DEF i1, j1
    <3> QED BY <3>1, <3>2, <2>8 DEF InOrder
  <2>9. t \in ToSet(s)
    BY <1>1, <1>3, Members
  <2> QED BY <2>2, <2>3, <2>5, <2>6, <2>7, <2>8, <2>9
<1> QED BY <1>2, <1>3

(* vListInsertEnd.                                                         *)
LEMMA AppendedTo ==
  ASSUME NEW s, IsList(s), NEW t \in Tasks, t \notin ToSet(s)
  PROVE  /\ IsList(Append(s, t))
         /\ ToSet(Append(s, t)) = ToSet(s) \cup {t}
         /\ Len(Append(s, t)) = Len(s) + 1
<1>1. s \in Seq(Tasks) /\ Len(s) \in Nat /\ \A i \in 1 .. Len(s) : s[i] # t
  BY Members DEF IsList
<1> DEFINE r == Append(s, t)
<1>2. /\ r \in Seq(Tasks) /\ Len(r) = Len(s) + 1 /\ r[Len(s) + 1] = t
      /\ \A i \in 1 .. Len(s) : r[i] = s[i]
  BY <1>1
<1> HIDE DEF r
<1>3. IsList(r)
  <2> SUFFICES ASSUME NEW i \in 1 .. Len(r), NEW j \in 1 .. Len(r), r[i] = r[j]
               PROVE  i = j
    BY <1>2 DEF IsList
  <2>1. CASE i = Len(s) + 1
    BY <2>1, <1>1, <1>2
  <2>2. CASE j = Len(s) + 1
    BY <2>2, <1>1, <1>2
  <2>3. CASE i \in 1 .. Len(s) /\ j \in 1 .. Len(s)
    BY <2>3, <1>1, <1>2 DEF IsList
  <2> QED BY <2>1, <2>2, <2>3, <1>1, <1>2
<1>4. \A u \in ToSet(r) : u \in ToSet(s) \cup {t}
  <2> SUFFICES ASSUME NEW i \in 1 .. Len(r) PROVE r[i] \in ToSet(s) \cup {t}
    BY <1>2, Members
  <2>1. i \in 1 .. Len(s) \/ i = Len(s) + 1
    BY <1>1, <1>2
  <2> QED BY <2>1, <1>1, <1>2, Members
<1>5. \A u \in ToSet(s) \cup {t} : u \in ToSet(r)
  <2>1. Len(s) + 1 \in 1 .. Len(r) /\ \A i \in 1 .. Len(s) : i \in 1 .. Len(r)
    BY <1>1, <1>2
  <2> QED BY <2>1, <1>1, <1>2, Members
<1> QED BY <1>2, <1>3, <1>4, <1>5 DEF r

(* A list with a task put at its n-th place.                               *)
LEMMA PutAt ==
  ASSUME NEW s, IsList(s), NEW t \in Tasks, t \notin ToSet(s), NEW r \in Seq(Tasks),
         NEW n \in 1 .. (Len(s) + 1), Len(r) = Len(s) + 1,
         \A j \in 1 .. Len(r) : r[j] = IF j < n THEN s[j] ELSE IF j = n THEN t ELSE s[j - 1]
  PROVE  IsList(r) /\ ToSet(r) = ToSet(s) \cup {t}
<1>1. s \in Seq(Tasks) /\ Len(s) \in Nat /\ \A i \in 1 .. Len(s) : s[i] # t
  BY Members DEF IsList
<1>2. IsList(r)
  <2> SUFFICES ASSUME NEW i \in 1 .. Len(r), NEW j \in 1 .. Len(r), r[i] = r[j]
               PROVE  i = j
    BY DEF IsList
  <2> DEFINE i1 == IF i < n THEN i ELSE i - 1
             j1 == IF j < n THEN j ELSE j - 1
  <2>1. (i # n => i1 \in 1 .. Len(s) /\ r[i] = s[i1]) /\ (i = n => r[i] = t)
    BY <1>1
  <2>2. (j # n => j1 \in 1 .. Len(s) /\ r[j] = s[j1]) /\ (j = n => r[j] = t)
    BY <1>1
  <2>3. i # n /\ j # n /\ i1 = j1 => i = j
    BY <1>1
  <2> HIDE DEF i1, j1
  <2> QED BY <1>1, <2>1, <2>2, <2>3 DEF IsList
<1>3. \A u \in ToSet(r) : u \in ToSet(s) \cup {t}
  <2> SUFFICES ASSUME NEW j \in 1 .. Len(r) PROVE r[j] \in ToSet(s) \cup {t}
    BY Members
  <2>1. CASE j < n
    <3>1. j \in 1 .. Len(s) /\ r[j] = s[j]
      BY <2>1, <1>1
    <3> QED BY <3>1, <1>1, Members
  <2>2. CASE j = n
    BY <2>2
  <2>3. CASE j > n
    <3>1. j - 1 \in 1 .. Len(s) /\ r[j] = s[j - 1]
      BY <2>3, <1>1
    <3> QED BY <3>1, <1>1, Members
  <2> QED BY <2>1, <2>2, <2>3, <1>1
<1>4. \A u \in ToSet(s) \cup {t} : u \in ToSet(r)
  <2>1. t \in ToSet(r)
    BY <1>1, Members
  <2>2. ASSUME NEW i \in 1 .. Len(s) PROVE s[i] \in ToSet(r)
    <3>1. CASE i < n
      BY <3>1, <1>1, Members
    <3>2. CASE i >= n
      <4>1. i + 1 \in 1 .. Len(r) /\ r[i + 1] = s[i]
        BY <3>2, <1>1
      <4> QED BY <4>1, Members
    <3> QED BY <3>1, <3>2, <1>1
  <2> QED BY <2>1, <2>2, <1>1, Members
<1> QED BY <1>2, <1>3, <1>4

(* vListInsert: the task is in the list, behind those that are not greater *)
(* and before the others.                                                  *)
LEMMA InsertedInto ==
  ASSUME NEW s, IsList(s), NEW t \in Tasks, t \notin ToSet(s), NEW value
  PROVE  /\ IsList(vListInsert(s, t, value))
         /\ ToSet(vListInsert(s, t, value)) = ToSet(s) \cup {t}
         /\ value \in [Tasks -> Int] /\ InOrder(s, value)
              => InOrder(vListInsert(s, t, value), value)
<1> DEFINE I == {i \in 1 .. Len(s) : value[s[i]] > value[t]}
           r == vListInsert(s, t, value)
<1>1. s \in Seq(Tasks) /\ Len(s) \in Nat /\ \A i \in 1 .. Len(s) : s[i] \in Tasks
  BY Members DEF IsList
<1>2. r = IF I = {} THEN Append(s, t) ELSE
          IF Min(I) = 0 THEN Append(s, t) ELSE InsertAt(s, Min(I), t)
  BY DEF vListInsert, SelectInSeq
<1> DEFINE n == IF I = {} THEN Len(s) + 1 ELSE Min(I)
<1>3. /\ n \in 1 .. (Len(s) + 1)
      /\ \A i \in 1 .. (n - 1) : i \in 1 .. Len(s) /\ ~(value[s[i]] > value[t])
      /\ n <= Len(s) => value[s[n]] > value[t]
  <2>1. CASE I = {}
    BY <2>1, <1>1
  <2>2. CASE I # {}
    <3>1. I \in SUBSET (1 .. Len(s))
      OBVIOUS
    <3> HIDE DEF I
    <3>2. n \in 1 .. Len(s) /\ n \in I /\ \A i \in 1 .. (n - 1) : i \notin I
      BY <2>2, <3>1, <1>1, FirstPlace
    <3> HIDE DEF n
    <3>3. \A i \in 1 .. (n - 1) : i \in 1 .. Len(s)
      BY <3>2, <1>1
    <3> QED BY <3>2, <3>3, <1>1 DEF I
  <2> QED BY <2>1, <2>2
<1>4. /\ r \in Seq(Tasks) /\ Len(r) = Len(s) + 1
      /\ \A j \in 1 .. Len(r) : r[j] = IF j < n THEN s[j] ELSE IF j = n THEN t ELSE s[j - 1]
  <2>1. CASE I = {}
    <3>1. r = Append(s, t) /\ n = Len(s) + 1
      BY <2>1, <1>2
    <3> HIDE DEF r, n
    <3> QED BY <3>1, <1>1
  <2>2. CASE I # {}
    <3>1. r = InsertAt(s, n, t)
      BY <2>2, <1>2, <1>3
    <3>2. n \in 1 .. Len(s)
      <4>1. I \in SUBSET (1 .. Len(s))
        OBVIOUS
      <4> QED BY <4>1, <2>2, <1>1, FirstPlace
    <3> HIDE DEF r, n, I
    <3> DEFINE a == SubSeq(s, 1, n - 1)
               b == SubSeq(s, n, Len(s))
               ab == a \o <<t>>
    <3>3. /\ a \in Seq(Tasks) /\ Len(a) = n - 1
          /\ \A j \in 1 .. (n - 1) : a[j] = s[j]
      BY <1>1, <3>2
    <3>4. /\ b \in Seq(Tasks) /\ Len(b) = Len(s) - n + 1
          /\ \A j \in 1 .. (Len(s) - n + 1) : b[j] = s[n + j - 1]
      BY <1>1, <3>2
    <3> HIDE DEF a, b
    <3>5. /\ ab \in Seq(Tasks) /\ Len(ab) = n
          /\ \A j \in 1 .. n : ab[j] = IF j < n THEN s[j] ELSE t
      <4>1. <<t>> \in Seq(Tasks) /\ Len(<<t>>) = 1 /\ <<t>>[1] = t
        OBVIOUS
      <4>2. /\ ab \in Seq(Tasks) /\ Len(ab) = Len(a) + Len(<<t>>)
            /\ \A j \in 1 .. Len(a) + Len(<<t>>) :
                 ab[j] = IF j <= Len(a) THEN a[j] ELSE <<t>>[j - Len(a)]
        BY <4>1, <3>3, ConcatProperties, Zenon
      <4> HIDE DEF ab
      <4> QED BY <4>1, <4>2, <3>2, <3>3
    <3> HIDE DEF ab
    <3>6. /\ ab \o b \in Seq(Tasks) /\ Len(ab \o b) = Len(ab) + Len(b)
          /\ \A j \in 1 .. Len(ab) + Len(b) :
               (ab \o b)[j] = IF j <= Len(ab) THEN ab[j] ELSE b[j - Len(ab)]
      <4>1. ab \in Seq(Tasks) /\ b \in Seq(Tasks)
        BY <3>4, <3>5
      <4> QED BY <4>1, ConcatProperties, Zenon
    <3>7. r = ab \o b
      BY <3>1 DEF InsertAt, a, b, ab
    <3>8. Len(ab) + Len(b) = Len(s) + 1 /\ Len(ab) = n
      BY <3>2, <3>4, <3>5, <1>1
    <3>9. r \in Seq(Tasks) /\ Len(r) = Len(s) + 1
      BY <3>6, <3>7, <3>8
    <3>10. ASSUME NEW j \in 1 .. Len(r)
           PROVE  r[j] = IF j < n THEN s[j] ELSE IF j = n THEN t ELSE s[j - 1]
      <4>1. r[j] = IF j <= n THEN ab[j] ELSE b[j - n]
        BY <3>6, <3>7, <3>8, <3>9
      <4>2. CASE j <= n
        BY <4>1, <4>2, <3>5
      <4>3. CASE ~(j <= n)
        <5>1. j - n \in 1 .. (Len(s) - n + 1) /\ n + (j - n) - 1 = j - 1
          BY <4>3, <3>2, <3>9, <1>1
        <5> QED BY <4>1, <4>3, <5>1, <3>2, <3>4
      <4> QED BY <4>2, <4>3
    <3> QED BY <3>9, <3>10
  <2> QED BY <2>1, <2>2
<1> HIDE DEF r, n, I
<1>5. IsList(r) /\ ToSet(r) = ToSet(s) \cup {t}
  <2>1. n \in 1 .. (Len(s) + 1)
    BY <1>3
  <2>2. r \in Seq(Tasks) /\ Len(r) = Len(s) + 1
    BY <1>4
  <2>3. \A j \in 1 .. Len(r) : r[j] = IF j < n THEN s[j] ELSE IF j = n THEN t ELSE s[j - 1]
    BY <1>4
  <2> QED BY <2>1, <2>2, <2>3, PutAt, Zenon
<1>6. ASSUME value \in [Tasks -> Int], InOrder(s, value)
      PROVE  InOrder(r, value)
  <2> SUFFICES ASSUME NEW i \in 1 .. Len(r), NEW j \in 1 .. Len(r), i < j
               PROVE  value[r[i]] <= value[r[j]]
    BY DEF InOrder
  <2> DEFINE i1 == IF i < n THEN i ELSE i - 1
             j1 == IF j < n THEN j ELSE j - 1
  <2>1. (i # n => i1 \in 1 .. Len(s) /\ r[i] = s[i1]) /\ (i = n => r[i] = t)
    BY <1>1, <1>3, <1>4
  <2>2. (j # n => j1 \in 1 .. Len(s) /\ r[j] = s[j1]) /\ (j = n => r[j] = t)
    BY <1>1, <1>3, <1>4
  <2>3. i # n /\ j # n => i1 < j1
    BY <1>3, <1>1
  <2>4. i = n => n <= j1 /\ n \in 1 .. Len(s)
    BY <1>3, <1>1, <1>4
  <2>5. j = n => i1 \in 1 .. (n - 1)
    BY <1>3, <1>1
  <2> HIDE DEF i1, j1
  <2>6. \A u \in Tasks : value[u] \in Int
    BY <1>6
  <2>7. CASE i = n
    <3>1. j # n /\ value[s[n]] > value[t]
      BY <2>7, <2>4, <1>1, <1>3
    <3>2. value[s[n]] <= value[s[j1]]
      <4>1. n \in 1 .. Len(s) /\ j1 \in 1 .. Len(s) /\ n <= j1
        BY <2>7, <3>1, <2>2, <2>4
      <4>2. n < j1 => value[s[n]] <= value[s[j1]]
        BY <4>1, <1>6 DEF InOrder
      <4>3. value[s[n]] \in Int
        BY <4>1, <1>1, <2>6
      <4> QED BY <4>1, <4>2, <4>3, <1>1
    <3>3. value[s[n]] \in Int /\ value[s[j1]] \in Int /\ value[t] \in Int
      BY <2>7, <3>1, <2>2, <2>4, <2>6, <1>1
    <3> QED BY <2>7, <3>1, <3>2, <3>3, <2>1, <2>2
  <2>8. CASE j = n
    <3>1. i # n /\ ~(value[s[i1]] > value[t])
      BY <2>8, <2>5, <1>3
    <3>2. value[s[i1]] \in Int /\ value[t] \in Int
      BY <3>1, <2>1, <2>6, <1>1
    <3> QED BY <2>8, <3>1, <3>2, <2>1, <2>2
  <2>9. CASE i # n /\ j # n
    BY <2>9, <2>1, <2>2, <2>3, <1>6 DEF InOrder
  <2> QED BY <2>7, <2>8, <2>9
<1> QED BY <1>5, <1>6 DEF r

(* listGET_OWNER_OF_NEXT_ENTRY: a walk changes the order, not the members. *)
LEMMA Walked ==
  ASSUME NEW s, IsList(s), s # <<>>
  PROVE  LET r == OwnerOfNextEntry(s)
         IN  IsList(r) /\ ToSet(r) = ToSet(s) /\ r # <<>> /\ Last(r) \in ToSet(s)
<1>1. s \in Seq(Tasks) /\ Len(s) \in Nat /\ Len(s) > 0 /\ 1 \in 1 .. Len(s)
  BY DEF IsList
<1> DEFINE r == OwnerOfNextEntry(s)
<1>2. /\ r \in Seq(Tasks) /\ Len(r) = Len(s) /\ r[Len(r)] = s[1]
      /\ \A i \in 1 .. Len(r) : r[i] = IF i = Len(s) THEN s[1] ELSE s[i + 1]
  <2> DEFINE u == Tail(s)
  <2>1. /\ u \in Seq(Tasks) /\ Len(u) = Len(s) - 1
        /\ \A i \in 1 .. (Len(s) - 1) : u[i] = s[i + 1]
    BY <1>1
  <2>2. Head(s) = s[1] /\ s[1] \in Tasks
    BY <1>1
  <2>3. r = Append(u, s[1])
    BY <2>2 DEF OwnerOfNextEntry
  <2> HIDE DEF u, r
  <2> QED BY <1>1, <2>1, <2>2, <2>3
<1> HIDE DEF r
<1>3. IsList(r)
  <2> SUFFICES ASSUME NEW i \in 1 .. Len(r), NEW j \in 1 .. Len(r), r[i] = r[j]
               PROVE  i = j
    BY <1>2 DEF IsList
  <2> DEFINE i1 == IF i = Len(s) THEN 1 ELSE i + 1
             j1 == IF j = Len(s) THEN 1 ELSE j + 1
  <2>1. i1 \in 1 .. Len(s) /\ j1 \in 1 .. Len(s) /\ r[i] = s[i1] /\ r[j] = s[j1]
    BY <1>1, <1>2
  <2>2. i1 = j1 => i = j
    BY <1>1, <1>2
  <2> HIDE DEF i1, j1
  <2> QED BY <2>1, <2>2 DEF IsList
<1>4. \A t : t \in ToSet(r) => t \in ToSet(s)
  <2> SUFFICES ASSUME NEW i \in 1 .. Len(r) PROVE r[i] \in ToSet(s)
    BY <1>2, Members
  <2>1. i # Len(s) => i + 1 \in 1 .. Len(s)
    BY <1>1, <1>2
  <2> QED BY <1>1, <1>2, <2>1, Members
<1>5. \A t : t \in ToSet(s) => t \in ToSet(r)
  <2> SUFFICES ASSUME NEW i \in 1 .. Len(s) PROVE s[i] \in ToSet(r)
    BY <1>1, Members
  <2>1. CASE i = 1
    BY <2>1, <1>1, <1>2, Members
  <2>2. CASE i # 1
    <3>1. i - 1 \in 1 .. Len(r) /\ i - 1 # Len(s) /\ (i - 1) + 1 = i
      BY <2>2, <1>1, <1>2
    <3> QED BY <3>1, <1>2, Members
  <2> QED BY <2>1, <2>2
<1>6. r # <<>> /\ Last(r) \in ToSet(s)
  BY <1>1, <1>2, Members DEF Last
<1> QED BY <1>3, <1>4, <1>5, <1>6 DEF r

(* The head of a list and the rest.                                        *)
LEMMA HeadAndTail ==
  ASSUME NEW s, IsList(s), s # <<>>
  PROVE  /\ Head(s) \in ToSet(s) /\ Head(s) \in Tasks
         /\ IsList(Tail(s)) /\ ToSet(Tail(s)) = ToSet(s) \ {Head(s)}
         /\ Len(Tail(s)) = Len(s) - 1
<1>1. s \in Seq(Tasks) /\ Len(s) \in Nat /\ Len(s) > 0 /\ 1 \in 1 .. Len(s)
  BY DEF IsList
<1>2. Head(s) = s[1] /\ s[1] \in Tasks /\ s[1] \in ToSet(s)
  BY <1>1, Members
<1> DEFINE u == Tail(s)
<1>3. /\ u \in Seq(Tasks) /\ Len(u) = Len(s) - 1
      /\ \A i \in 1 .. (Len(s) - 1) : u[i] = s[i + 1]
  BY <1>1
<1> HIDE DEF u
<1>4. IsList(u)
  BY <1>1, <1>3 DEF IsList
<1>5. \A t : t \in ToSet(u) => t \in ToSet(s) \ {s[1]}
  <2> SUFFICES ASSUME NEW i \in 1 .. Len(u) PROVE u[i] \in ToSet(s) \ {s[1]}
    BY <1>3, Members
  <2>1. i + 1 \in 1 .. Len(s) /\ i + 1 # 1 /\ u[i] = s[i + 1]
    BY <1>1, <1>3
  <2> QED BY <1>1, <2>1, Members DEF IsList
<1>6. \A t \in ToSet(s) \ {s[1]} : t \in ToSet(u)
  <2> SUFFICES ASSUME NEW i \in 1 .. Len(s), i # 1 PROVE s[i] \in ToSet(u)
    BY <1>1, Members
  <2>1. i - 1 \in 1 .. Len(u) /\ (i - 1) + 1 = i /\ i - 1 \in 1 .. (Len(s) - 1)
    BY <1>1, <1>3
  <2>2. u[i - 1] = s[i]
    BY <2>1, <1>3
  <2> QED BY <2>1, <2>2, <1>3, Members
<1> QED BY <1>2, <1>3, <1>4, <1>5, <1>6 DEF u

(* The first tasks of a list are a list, and so is what is left of it when *)
(* they are gone.                                                          *)
LEMMA FirstTasks ==
  ASSUME NEW s, IsList(s), NEW n \in 0 .. Len(s)
  PROVE  LET r == SubSeq(s, 1, n)
         IN  IsList(r) /\ Len(r) = n /\ \A i \in 1 .. n : r[i] = s[i]
<1>1. s \in Seq(Tasks) /\ Len(s) \in Nat
  BY DEF IsList
<1> DEFINE r == SubSeq(s, 1, n)
<1>2. r \in Seq(Tasks) /\ Len(r) = n /\ \A i \in 1 .. n : r[i] = s[i]
  BY <1>1
<1> HIDE DEF r
<1>3. IsList(r)
  BY <1>1, <1>2 DEF IsList
<1> QED BY <1>2, <1>3 DEF r

-----------------------------------------------------------------------------
(* Loops.  A loop of the scheduler takes the tasks of a list, or counts    *)
(* ticks, one at a time; what it computes is the end of a run, the         *)
(* sequence of the states it goes through.                                 *)

WakeNext(s, l) ==
  LET r == xTaskRemoveFromEventList(s, l)
  IN  IF r.woken THEN [r.k EXCEPT !.xMissedYield = TRUE] ELSE r.k

LateTick(s) == [vTaskIncrementTick(s) EXCEPT !.uxMissedTicks = @ - 1]

(* One round of the loop that is named: over the sleepers that are due,    *)
(* over the tasks that are pending, over the waiters of a list, or over    *)
(* the ticks that were missed.                                             *)
RoundOf(loop, l, s, t) ==
  IF loop = "wake" THEN Wake(s, t)
  ELSE IF loop = "move" THEN MovePending(s, t)
  ELSE IF loop = "next" THEN WakeNext(s, l)
  ELSE LateTick(s)

IsRun(run, loop, l, k0, seq, n) ==
  /\ run[0] = k0
  /\ \A i \in 1 .. n : run[i] = RoundOf(loop, l, run[i - 1], seq[i])

(* The greatest element of a set of numbers up to n.                       *)
LEMMA MaxIs ==
  ASSUME NEW n \in Nat, NEW S \in SUBSET (1 .. n), S # {}
  PROVE  Max(S) \in S /\ \A m \in S : Max(S) >= m
<1> DEFINE D == {n - m : m \in S}
<1>1. D \in SUBSET Nat /\ D # {}
  <2>1. \A m \in S : m \in 1 .. n /\ n - m \in Nat
    OBVIOUS
  <2> QED BY <2>1
<1>2. PICK d \in D : \A e \in D : d <= e
  BY <1>1, HasLeast
<1>3. PICK x \in S : d = n - x
  OBVIOUS
<1>4. ASSUME NEW m \in S PROVE x >= m
  <2>1. n - m \in D
    OBVIOUS
  <2>2. n - x <= n - m /\ x \in 1 .. n /\ m \in 1 .. n
    BY <2>1, <1>2, <1>3
  <2> QED BY <2>2
<1>5. \E y \in S : \A m \in S : y >= m
  BY <1>4
<1> QED BY <1>5 DEF Max

(* FoldLeft of SequencesExt is defined by recursion over the sets of       *)
(* places of the sequence.                                                 *)
OverSets(loop, l, k0, seq, n, iter) ==
  iter = [s \in SUBSET (1 .. n) |->
            IF s = {} THEN k0
            ELSE RoundOf(loop, l, iter[s \ {Max(s)}], seq[Max(s)])]

(* There is such a function over the sets of places of a list.             *)
LEMMA OverSetsExists ==
  ASSUME NEW loop, NEW l, NEW k0, NEW seq, NEW n \in Nat
  PROVE  \E iter : OverSets(loop, l, k0, seq, n, iter)
<1> DEFINE S == {m \in 0 .. n : \E iter : OverSets(loop, l, k0, seq, m, iter)}
<1>1. 0 \in S
  <2>1. \A s \in SUBSET (1 .. 0) : s = {}
    OBVIOUS
  <2>2. OverSets(loop, l, k0, seq, 0, [s \in SUBSET (1 .. 0) |-> k0])
    BY <2>1 DEF OverSets
  <2> QED BY <2>2
<1>2. ASSUME NEW m \in S, m < n PROVE m + 1 \in S
  <2>1. m \in Nat /\ m + 1 \in 0 .. n
    BY <1>2
  <2>2. PICK iter : OverSets(loop, l, k0, seq, m, iter)
    OBVIOUS
  <2> DEFINE g == [s \in SUBSET (1 .. (m + 1)) |->
                     IF m + 1 \in s
                     THEN RoundOf(loop, l, iter[s \ {m + 1}], seq[m + 1]) ELSE iter[s]]
  <2>3. ASSUME NEW s \in SUBSET (1 .. (m + 1)), m + 1 \in s
        PROVE  g[s] = RoundOf(loop, l, g[s \ {Max(s)}], seq[Max(s)])
    <3> DEFINE x == Max(s)
    <3>a. m + 1 \in Nat /\ s # {}
      BY <2>1, <2>3
    <3>1. x \in s /\ \A y \in s : x >= y
      BY <3>a, MaxIs
    <3> HIDE DEF x
    <3>b. x = m + 1
      BY <3>1, <2>1, <2>3
    <3>2. Max(s) = m + 1
      BY <3>b DEF x
    <3>3. s \ {m + 1} \in SUBSET (1 .. (m + 1)) /\ m + 1 \notin s \ {m + 1}
      OBVIOUS
    <3>4. g[s \ {m + 1}] = iter[s \ {m + 1}]
      BY <3>3
    <3>5. g[s] = RoundOf(loop, l, iter[s \ {m + 1}], seq[m + 1])
      BY <2>3
    <3> QED BY <3>2, <3>4, <3>5
  <2>4. ASSUME NEW s \in SUBSET (1 .. (m + 1)), m + 1 \notin s
        PROVE  g[s] = IF s = {} THEN k0 ELSE RoundOf(loop, l, g[s \ {Max(s)}], seq[Max(s)])
    <3>1. s \in SUBSET (1 .. m)
      BY <2>1, <2>4
    <3>2. s \ {Max(s)} \in SUBSET (1 .. (m + 1)) /\ m + 1 \notin s \ {Max(s)}
      BY <2>4
    <3>3. g[s \ {Max(s)}] = iter[s \ {Max(s)}]
      BY <3>2
    <3>4. g[s] = iter[s]
      BY <2>4
    <3>5. iter[s] = IF s = {} THEN k0
                    ELSE RoundOf(loop, l, iter[s \ {Max(s)}], seq[Max(s)])
      BY <3>1, <2>2 DEF OverSets
    <3> QED BY <3>3, <3>4, <3>5
  <2>5. \A s \in SUBSET (1 .. (m + 1)) :
          g[s] = IF s = {} THEN k0 ELSE RoundOf(loop, l, g[s \ {Max(s)}], seq[Max(s)])
    BY <2>3, <2>4
  <2>6. DOMAIN g = SUBSET (1 .. (m + 1)) /\ g = [s \in DOMAIN g |-> g[s]]
    OBVIOUS
  <2> HIDE DEF g
  <2>7. OverSets(loop, l, k0, seq, m + 1, g)
    BY <2>5, <2>6 DEF OverSets
  <2> QED BY <2>1, <2>7
<1> HIDE DEF S
<1>3. S \in SUBSET (0 .. n)
  BY DEF S
<1>4. n \in S
  BY <1>1, <1>2, <1>3, Reaches0
<1> QED BY <1>4 DEF S

(* The end of a recursion over sets of places is the end of a run.         *)
LEMMA RunOverSets ==
  ASSUME NEW loop, NEW l, NEW k0, NEW seq, NEW n \in Nat,
         NEW iter, OverSets(loop, l, k0, seq, n, iter)
  PROVE  \E run : IsRun(run, loop, l, k0, seq, n) /\ run[n] = iter[1 .. n]
<1> DEFINE run == [i \in 0 .. n |-> iter[1 .. i]]
<1>1. run[0] = k0
  <2>1. 1 .. 0 = {} /\ {} \in SUBSET (1 .. n)
    OBVIOUS
  <2>2. iter[{}] = k0
    BY <2>1 DEF OverSets
  <2> QED BY <2>1, <2>2
<1>2. ASSUME NEW i \in 1 .. n PROVE run[i] = RoundOf(loop, l, run[i - 1], seq[i])
  <2> DEFINE s == 1 .. i
  <2>1. s \in SUBSET (1 .. n) /\ s # {} /\ i \in s
    OBVIOUS
  <2>2. Max(s) \in s /\ \A x \in s : Max(s) >= x
    BY <2>1, MaxIs
  <2>3. Max(s) = i
    BY <2>1, <2>2
  <2>4. s \ {i} = 1 .. (i - 1)
    OBVIOUS
  <2>5. iter[s] = RoundOf(loop, l, iter[s \ {Max(s)}], seq[Max(s)])
    BY <2>1 DEF OverSets
  <2>6. i \in 0 .. n /\ i - 1 \in 0 .. n
    OBVIOUS
  <2> QED BY <2>3, <2>4, <2>5, <2>6
<1>3. run[n] = iter[1 .. n]
  OBVIOUS
<1> HIDE DEF run
<1> QED BY <1>1, <1>2, <1>3 DEF IsRun

TheIter(loop, l, k0, seq) ==
  CHOOSE iter : iter = [s \in SUBSET DOMAIN seq |->
     IF s = {} THEN k0 ELSE RoundOf(loop, l, iter[s \ {Max(s)}], seq[Max(s)])]

(* A loop over a list ends where its run ends.                             *)
LEMMA FoldIsRun ==
  ASSUME NEW loop, NEW l, NEW k0, NEW seq \in Seq(Tasks)
  PROVE  \E run : /\ IsRun(run, loop, l, k0, seq, Len(seq))
                  /\ run[Len(seq)] = TheIter(loop, l, k0, seq)[DOMAIN seq]
<1>1. DOMAIN seq = 1 .. Len(seq) /\ Len(seq) \in Nat
  OBVIOUS
<1>2. \E iter : OverSets(loop, l, k0, seq, Len(seq), iter)
  BY <1>1, OverSetsExists
<1>3. OverSets(loop, l, k0, seq, Len(seq), TheIter(loop, l, k0, seq))
  BY <1>1, <1>2 DEF TheIter, OverSets
<1> QED BY <1>1, <1>3, RunOverSets

(* The loops of the scheduler.                                             *)
LEMMA WakeRun ==
  ASSUME NEW k0, NEW seq \in Seq(Tasks)
  PROVE  \E run : /\ IsRun(run, "wake", 0, k0, seq, Len(seq))
                  /\ FoldLeft(Wake, k0, seq) = run[Len(seq)]
<1>1. FoldLeft(Wake, k0, seq) = TheIter("wake", 0, k0, seq)[DOMAIN seq]
  BY DEF FoldLeft, MapThenFoldSet, TheIter, RoundOf
<1> QED BY <1>1, FoldIsRun

(* xTaskResumeAll moves the pending tasks one after the other, as a run    *)
(* does.                                                                   *)
LEMMA MoveRun ==
  ASSUME NEW k0, NEW seq \in Seq(Tasks)
  PROVE  \E run : /\ IsRun(run, "move", 0, k0, seq, Len(seq))
                  /\ FoldLeft(MovePending, k0, seq) = run[Len(seq)]
<1>1. FoldLeft(MovePending, k0, seq) = TheIter("move", 0, k0, seq)[DOMAIN seq]
  BY DEF FoldLeft, MapThenFoldSet, TheIter, RoundOf
<1> QED BY <1>1, FoldIsRun

(* prvUnlockQueue wakes as many waiters as were counted, if there are as   *)
(* many.                                                                   *)
LEMMA NextRun ==
  ASSUME NEW k0, NEW l, NEW lock, IsList(k0.event[l]), lock > queueLOCKED_UNMODIFIED, lock \in Int
  PROVE  LET n == IF lock < Len(k0.event[l]) THEN lock ELSE Len(k0.event[l])
         IN  \E run, seq : /\ IsRun(run, "next", l, k0, seq, n)
                           /\ WakeCounted(k0, l, lock) = run[n]
<1> DEFINE n == IF lock < Len(k0.event[l]) THEN lock ELSE Len(k0.event[l])
           seq == SubSeq(k0.event[l], 1, n)
<1>1. n \in 0 .. Len(k0.event[l])
  BY DEF IsList, queueLOCKED_UNMODIFIED
<1>2. WakeCounted(k0, l, lock) = TheIter("next", l, k0, seq)[DOMAIN seq]
  BY DEF WakeCounted, FoldLeft, MapThenFoldSet, TheIter, RoundOf, WakeNext, queueLOCKED_UNMODIFIED
<1> HIDE DEF n
<1>3. seq \in Seq(Tasks) /\ Len(seq) = n
  BY <1>1, FirstTasks DEF IsList
<1> HIDE DEF seq
<1>4. \E run : IsRun(run, "next", l, k0, seq, n) /\ WakeCounted(k0, l, lock) = run[n]
  BY <1>2, <1>3, FoldIsRun
<1> QED BY <1>4 DEF n

(* The recursion over the ticks that were missed.                          *)
LEMMA TickRun ==
  ASSUME NEW k0, k0.uxMissedTicks \in Nat
  PROVE  LET n == k0.uxMissedTicks
         IN  \E run : IsRun(run, "tick", 0, k0, <<>>, n) /\ ProcessMissedTicks(k0) = run[n]
<1> DEFINE Defined(after, m) ==
             after = [i \in 0 .. m |-> IF i = 0 THEN k0 ELSE LateTick(after[i - 1])]
           N == k0.uxMissedTicks
           S == {m \in 0 .. N : \E after : Defined(after, m)}
<1>1. 0 \in S
  <2>1. Defined([i \in 0 .. 0 |-> k0], 0) /\ 0 \in 0 .. N
    OBVIOUS
  <2> HIDE DEF Defined
  <2> QED BY <2>1
<1>2. ASSUME NEW m \in S, m < N PROVE m + 1 \in S
  <2>1. m \in Nat /\ m + 1 \in 0 .. N
    BY <1>2
  <2>2. PICK after : Defined(after, m)
    OBVIOUS
  <2> DEFINE g == [i \in 0 .. (m + 1) |-> IF i = m + 1 THEN LateTick(after[m]) ELSE after[i]]
  <2>3. ASSUME NEW i \in 0 .. (m + 1)
        PROVE  g[i] = IF i = 0 THEN k0 ELSE LateTick(g[i - 1])
    <3>1. CASE i = m + 1
      <4>1. m \in 0 .. (m + 1) /\ m # m + 1 /\ (m + 1) - 1 = m /\ m + 1 # 0
        BY <2>1
      <4> QED BY <3>1, <4>1
    <3>2. CASE i # m + 1
      <4>1. i \in 0 .. m /\ g[i] = after[i]
        BY <3>2, <2>1
      <4>2. i # 0 => i - 1 \in 0 .. (m + 1) /\ i - 1 # m + 1
        BY <2>1
      <4>3. after[i] = IF i = 0 THEN k0 ELSE LateTick(after[i - 1])
        BY <4>1, <2>2
      <4> QED BY <4>1, <4>2, <4>3
    <3> QED BY <3>1, <3>2
  <2>4. g = [i \in 0 .. (m + 1) |-> g[i]]
    OBVIOUS
  <2> HIDE DEF g
  <2>5. Defined(g, m + 1)
    BY <2>3, <2>4
  <2> QED BY <2>1, <2>5
<1>3. S \in SUBSET (0 .. N)
  OBVIOUS
<1>4. N \in S
  <2> HIDE DEF S
  <2> QED BY <1>1, <1>2, <1>3, Reaches0
<1>5. \E after : Defined(after, N)
  BY <1>4
<1> DEFINE after == CHOOSE after : Defined(after, N)
<1>6. Defined(after, N)
  BY <1>5
<1>7. ProcessMissedTicks(k0) = after[N]
  BY DEF ProcessMissedTicks, LateTick
<1> HIDE DEF after
<1>8. IsRun(after, "tick", 0, k0, <<>>, N)
  BY <1>6 DEF IsRun, RoundOf
<1> QED BY <1>7, <1>8

-----------------------------------------------------------------------------
(* The scheduler's record.                                                 *)

SchedFields == {"live", "uxPriority", "uxBasePriority", "eventValue", "wakeTime", "ready",
  "delayed", "overflow", "suspended", "terminated", "event", "pending", "pxCurrentTCB",
  "uxTopReadyPriority", "xSchedulerRunning", "uxSchedulerSuspended", "xTickCount",
  "xNumOfOverflows", "uxMissedTicks", "xMissedYield", "uxTasksDeleted", "pendsv"}

(* Only the fields of F may differ.                                        *)
AllBut(r, s, F) == DOMAIN r = DOMAIN s /\ \A f \in SchedFields \ F : r[f] = s[f]

GenericFields == {"ready", "delayed", "overflow", "suspended", "terminated"}
EventFields == {"event", "pending"}
ReadyFields == {"ready", "uxTopReadyPriority"}
ListFields == GenericFields \cup EventFields \cup ReadyFields

(* Which list the generic item of a task is in: a number that is a         *)
(* priority names a ready list.                                            *)
Delayed == -1
Overflowed == -2
Suspended == -3
Terminated == -4
Limbo == -5
Absent == -6
PlacesOff == {Delayed, Overflowed, Suspended, Terminated, Limbo, Absent}

(* Which list its event item is in.                                        *)
Pending == <<NoHolder, "pending">>
Nothing == <<NoHolder, "nothing">>
Waits == EventLists \cup {Pending, Nothing}

(* The members of a list are the tasks of which F says that they are.      *)
Lists(s, F, v) == IsList(s) /\ ToSet(s) = {t \in Tasks : F[t] = v}

Somewhere(P) == \A t \in Tasks : P[t] \in Prios \cup PlacesOff

(* A function with the domain D.                                           *)
IsOver(f, D) == DOMAIN f = D /\ f = [x \in D |-> f[x]]

Placed(s, P, E) ==
  /\ P \in [Tasks -> Int] /\ E \in [Tasks -> Waits] /\ Somewhere(P)
  /\ IsOver(s.ready, Prios) /\ \A p \in Prios : Lists(s.ready[p], P, p)
  /\ Lists(s.delayed, P, Delayed) /\ Lists(s.overflow, P, Overflowed)
  /\ Lists(s.terminated, P, Terminated)
  /\ s.suspended = {t \in Tasks : P[t] = Suspended}
  /\ IsOver(s.event, EventLists) /\ \A l \in EventLists : Lists(s.event[l], E, l)
  /\ Lists(s.pending, E, Pending)

Typed(s) ==
  /\ DOMAIN s = SchedFields
  /\ s.live \subseteq Tasks /\ s.pxCurrentTCB \in Tasks
  /\ s.uxPriority \in [Tasks -> Prios] /\ s.uxBasePriority \in [Tasks -> Prios]
  /\ s.eventValue \in [Tasks -> 1 .. configMAX_PRIORITIES]
  /\ s.wakeTime \in [Tasks -> Ticks] /\ s.uxTopReadyPriority \in Prios
  /\ s.xSchedulerRunning \in BOOLEAN /\ s.pendsv \in BOOLEAN
  /\ s.uxSchedulerSuspended \in Nat /\ s.uxMissedTicks \in Nat
  /\ s.xTickCount \in Ticks /\ s.xNumOfOverflows \in 0 .. (OverflowMod - 1)
  /\ s.uxTasksDeleted \in Nat

(* Sleepers are in the order of their wake times, on their side of the wrap. *)
OnTime(s) ==
  /\ InOrder(s.delayed, s.wakeTime) /\ InOrder(s.overflow, s.wakeTime)
  /\ \A t \in ToSet(s.delayed) : s.wakeTime[t] >= s.xTickCount
  /\ \A t \in ToSet(s.overflow) : s.wakeTime[t] < s.xTickCount

(* A task is in the ready list of its priority, and none is above the top. *)
Ranked(s, P) ==
  \A t \in Tasks : P[t] >= 0 => P[t] = s.uxPriority[t] /\ P[t] <= s.uxTopReadyPriority

Sched(s, P, E) == Typed(s) /\ Placed(s, P, E) /\ OnTime(s) /\ Ranked(s, P)

(* Numbers.                                                                *)
LEMMA Constants ==
  /\ configMAX_PRIORITIES \in Nat /\ configMAX_PRIORITIES > 0
  /\ TickMod \in Nat /\ TickMod > 1 /\ OverflowMod \in Nat /\ OverflowMod > 1
  /\ MaxMissed \in 0 .. (TickMod - 1) /\ MaxLock \in Nat
  /\ idle \in Tasks /\ 0 \in Prios /\ 0 \in Ticks
  /\ \A p \in Prios : p \in Int /\ p >= 0
  /\ \A n \in Ticks : n \in Int /\ n >= 0 /\ n < TickMod
BY TasksAssumption, BoundsAssumption DEF Prios, Ticks

(* The places that are no ready list differ from each other and from       *)
(* those.                                                                  *)
LEMMA PlacesDiffer ==
  /\ Delayed \in Int /\ Overflowed \in Int /\ Suspended \in Int /\ Terminated \in Int
  /\ Limbo \in Int /\ Absent \in Int
  /\ \A v \in PlacesOff : ~(v >= 0)
  /\ \A p \in Prios : p \notin PlacesOff
  /\ Limbo \notin {Delayed, Overflowed, Suspended, Terminated, Absent}
  /\ Delayed \notin {Overflowed, Suspended, Terminated, Absent}
  /\ Overflowed \notin {Suspended, Terminated, Absent}
  /\ Suspended \notin {Terminated, Absent} /\ Terminated # Absent
BY Constants DEF PlacesOff, Delayed, Overflowed, Suspended, Terminated, Limbo, Absent

(* A place is put in the place of another.                                 *)
LEMMA StillSomewhere ==
  ASSUME NEW P, DOMAIN P = Tasks, Somewhere(P), NEW t \in Tasks, NEW v \in Prios \cup PlacesOff
  PROVE  Somewhere([P EXCEPT ![t] = v])
BY DEF Somewhere

(* So do the event lists, the pending list and no list at all.             *)
LEMMA WaitsDiffer ==
  /\ Pending # Nothing /\ Pending \notin EventLists /\ Nothing \notin EventLists
  /\ \A p, q \in Queues : ToSend(p) # ToReceive(q)
  /\ \A q \in Queues : ToSend(q) \in EventLists /\ ToReceive(q) \in EventLists
BY QueuesAssumption, SMT DEF Pending, Nothing, EventListsOf, ToSend, ToReceive

(* A task leaves a list, joins one at its end or in its place, or has      *)
(* nothing to do with it.                                                  *)
LEMMA Leaves ==
  ASSUME NEW s, NEW F, NEW v, DOMAIN F = Tasks, Lists(s, F, v), NEW t \in Tasks, NEW w, w # v
  PROVE  Lists(RemoveFirst(s, t), [F EXCEPT ![t] = w], v)
<1>1. IsList(RemoveFirst(s, t)) /\ ToSet(RemoveFirst(s, t)) = ToSet(s) \ {t}
  BY RemovedFrom DEF Lists
<1>2. ToSet(s) \ {t} = {u \in Tasks : [F EXCEPT ![t] = w][u] = v}
  BY DEF Lists
<1> QED BY <1>1, <1>2 DEF Lists

(* A task joins a list at its end.                                         *)
LEMMA Joins ==
  ASSUME NEW s, NEW F, NEW v, DOMAIN F = Tasks, Lists(s, F, v), NEW t \in Tasks, F[t] # v
  PROVE  Lists(Append(s, t), [F EXCEPT ![t] = v], v)
<1>0. t \notin ToSet(s) /\ IsList(s)
  BY DEF Lists
<1>1. IsList(Append(s, t)) /\ ToSet(Append(s, t)) = ToSet(s) \cup {t}
  BY <1>0, AppendedTo
<1>2. ToSet(s) \cup {t} = {u \in Tasks : [F EXCEPT ![t] = v][u] = v}
  BY DEF Lists
<1> QED BY <1>1, <1>2 DEF Lists

(* A task joins a list in its place, by the value it is kept under.        *)
LEMMA JoinsAt ==
  ASSUME NEW s, NEW F, NEW v, DOMAIN F = Tasks, Lists(s, F, v), NEW t \in Tasks, F[t] # v,
         NEW value
  PROVE  Lists(vListInsert(s, t, value), [F EXCEPT ![t] = v], v)
<1>0. t \notin ToSet(s) /\ IsList(s)
  BY DEF Lists
<1>1. /\ IsList(vListInsert(s, t, value))
      /\ ToSet(vListInsert(s, t, value)) = ToSet(s) \cup {t}
  BY <1>0, InsertedInto
<1>2. ToSet(s) \cup {t} = {u \in Tasks : [F EXCEPT ![t] = v][u] = v}
  BY DEF Lists
<1> QED BY <1>1, <1>2 DEF Lists

(* A task that moves between two other lists leaves this one alone.        *)
LEMMA Ignores ==
  ASSUME NEW s, NEW F, NEW v, DOMAIN F = Tasks, Lists(s, F, v), NEW t \in Tasks, F[t] # v,
         NEW w, w # v
  PROVE  Lists(s, [F EXCEPT ![t] = w], v)
<1>1. ToSet(s) = {u \in Tasks : [F EXCEPT ![t] = w][u] = v}
  BY DEF Lists
<1> QED BY <1>1 DEF Lists

(* vListRemove of a task's generic item.                                   *)
LEMMA GenericOut ==
  ASSUME NEW s, NEW P, NEW E, Sched(s, P, E), NEW t \in Tasks
  PROVE  LET r == vListRemoveGeneric(s, t)
         IN  /\ Sched(r, [P EXCEPT ![t] = Limbo], E) /\ AllBut(r, s, GenericFields)
             /\ P[t] # Terminated => r.terminated = s.terminated
             /\ P[t] \notin {Delayed, Overflowed}
                  => r.delayed = s.delayed /\ r.overflow = s.overflow
<1> DEFINE r == vListRemoveGeneric(s, t)
           Q == [P EXCEPT ![t] = Limbo]
<1>0. Typed(s) /\ Placed(s, P, E) /\ OnTime(s) /\ Ranked(s, P) /\ DOMAIN s = SchedFields
  BY DEF Sched, Typed
<1>1. /\ AllBut(r, s, GenericFields) /\ DOMAIN r = SchedFields
      /\ r.ready = [p \in Prios |-> RemoveFirst(s.ready[p], t)]
      /\ r.delayed = RemoveFirst(s.delayed, t)
      /\ r.overflow = RemoveFirst(s.overflow, t)
      /\ r.suspended = s.suspended \ {t}
      /\ r.terminated = RemoveFirst(s.terminated, t)
  BY <1>0 DEF AllBut, SchedFields, vListRemoveGeneric, GenericFields
<1> HIDE DEF r
<1>2. Typed(r)
  BY <1>0, <1>1 DEF AllBut, Typed, SchedFields, GenericFields
<1>3. DOMAIN P = Tasks /\ P \in [Tasks -> Int] /\ Q \in [Tasks -> Int] /\ E \in [Tasks -> Waits]
  BY <1>0 DEF Placed, Limbo
<1>4. Placed(r, Q, E)
  <2>1. ASSUME NEW p \in Prios PROVE Lists(r.ready[p], Q, p)
    <3>1. Lists(s.ready[p], P, p) /\ Limbo # p
      BY <1>0, PlacesDiffer DEF Placed, PlacesOff
    <3>2. Lists(RemoveFirst(s.ready[p], t), Q, p)
      BY <3>1, <1>3, Leaves
    <3> QED BY <3>2, <1>1
  <2>2. Lists(r.delayed, Q, Delayed)
    <3>1. Lists(s.delayed, P, Delayed) /\ Limbo # Delayed
      BY <1>0, PlacesDiffer DEF Placed
    <3>2. Lists(RemoveFirst(s.delayed, t), Q, Delayed)
      BY <3>1, <1>3, Leaves
    <3> QED BY <3>2, <1>1
  <2>3. Lists(r.overflow, Q, Overflowed)
    <3>1. Lists(s.overflow, P, Overflowed) /\ Limbo # Overflowed
      BY <1>0, PlacesDiffer DEF Placed
    <3>2. Lists(RemoveFirst(s.overflow, t), Q, Overflowed)
      BY <3>1, <1>3, Leaves
    <3> QED BY <3>2, <1>1
  <2>4. Lists(r.terminated, Q, Terminated)
    <3>1. Lists(s.terminated, P, Terminated) /\ Limbo # Terminated
      BY <1>0, PlacesDiffer DEF Placed
    <3>2. Lists(RemoveFirst(s.terminated, t), Q, Terminated)
      BY <3>1, <1>3, Leaves
    <3> QED BY <3>2, <1>1
  <2>5. r.suspended = {u \in Tasks : Q[u] = Suspended}
    BY <1>0, <1>1, <1>3 DEF Placed, Limbo, Suspended
  <2>6. r.event = s.event /\ r.pending = s.pending
    BY <1>1 DEF AllBut, SchedFields, GenericFields
  <2>7. IsOver(r.ready, Prios)
    BY <1>1 DEF IsOver
  <2>8. Somewhere(Q)
    <3>1. Limbo \in Prios \cup PlacesOff /\ Somewhere(P)
      BY <1>0 DEF Placed, PlacesOff
    <3> QED BY <3>1, <1>3, StillSomewhere
  <2> HIDE DEF Q
  <2> QED BY <1>0, <1>3, <2>1, <2>2, <2>3, <2>4, <2>5, <2>6, <2>7, <2>8 DEF Placed
<1>5. OnTime(r)
  <2>1. r.wakeTime = s.wakeTime /\ r.xTickCount = s.xTickCount
    BY <1>1 DEF AllBut, SchedFields, GenericFields
  <2>2. IsList(s.delayed) /\ IsList(s.overflow)
    BY <1>0 DEF Placed, Lists
  <2>3. /\ InOrder(r.delayed, s.wakeTime) /\ InOrder(r.overflow, s.wakeTime)
        /\ ToSet(r.delayed) \subseteq ToSet(s.delayed)
        /\ ToSet(r.overflow) \subseteq ToSet(s.overflow)
    BY <1>0, <1>1, <2>2, RemovedFrom DEF OnTime
  <2> QED BY <1>0, <2>1, <2>3 DEF OnTime
<1>6. Ranked(r, Q)
  <2>1. r.uxPriority = s.uxPriority /\ r.uxTopReadyPriority = s.uxTopReadyPriority
    BY <1>1 DEF AllBut, SchedFields, GenericFields
  <2>2. \A u \in Tasks : Q[u] >= 0 => Q[u] = P[u]
    BY <1>3 DEF Limbo
  <2> QED BY <1>0, <2>1, <2>2 DEF Ranked
<1>7. P[t] # Terminated => r.terminated = s.terminated
  <2>1. P[t] # Terminated => t \notin ToSet(s.terminated)
    BY <1>0 DEF Placed, Lists
  <2>2. IsList(s.terminated)
    BY <1>0 DEF Placed, Lists
  <2> QED BY <1>1, <2>1, <2>2, RemovedFrom
<1>8. P[t] \notin {Delayed, Overflowed} => r.delayed = s.delayed /\ r.overflow = s.overflow
  <2>1. P[t] \notin {Delayed, Overflowed} => t \notin ToSet(s.delayed) /\ t \notin ToSet(s.overflow)
    BY <1>0 DEF Placed, Lists
  <2>2. IsList(s.delayed) /\ IsList(s.overflow)
    BY <1>0 DEF Placed, Lists
  <2> QED BY <1>1, <2>1, <2>2, RemovedFrom
<1> QED BY <1>1, <1>2, <1>4, <1>5, <1>6, <1>7, <1>8 DEF Sched, r

(* vListRemove of a task's event item.                                     *)
LEMMA EventOut ==
  ASSUME NEW s, NEW P, NEW E, Sched(s, P, E), NEW t \in Tasks
  PROVE  LET r == vListRemoveEvent(s, t)
         IN  /\ Sched(r, P, [E EXCEPT ![t] = Nothing]) /\ AllBut(r, s, EventFields)
             /\ E[t] # Pending => r.pending = s.pending
             /\ \A l \in EventLists : E[t] # l => r.event[l] = s.event[l]
             /\ \A l \in EventLists : r.event[l] = RemoveFirst(s.event[l], t)
<1> DEFINE r == vListRemoveEvent(s, t)
           F == [E EXCEPT ![t] = Nothing]
<1>0. Typed(s) /\ Placed(s, P, E) /\ OnTime(s) /\ Ranked(s, P) /\ DOMAIN s = SchedFields
  BY DEF Sched, Typed
<1>1. /\ AllBut(r, s, EventFields) /\ DOMAIN r = SchedFields
      /\ r.event = [l \in EventLists |-> RemoveFirst(s.event[l], t)]
      /\ r.pending = RemoveFirst(s.pending, t)
  BY <1>0 DEF AllBut, SchedFields, vListRemoveEvent, EventFields
<1> HIDE DEF r
<1>2. Typed(r)
  BY <1>0, <1>1 DEF AllBut, Typed, SchedFields, EventFields
<1>3. DOMAIN E = Tasks /\ F \in [Tasks -> Waits] /\ E \in [Tasks -> Waits]
  BY <1>0 DEF Placed, Waits
<1>4. Placed(r, P, F)
  <2>1. ASSUME NEW l \in EventLists PROVE Lists(r.event[l], F, l)
    <3>1. Lists(s.event[l], E, l) /\ Nothing # l
      BY <1>0, WaitsDiffer DEF Placed
    <3>2. Lists(RemoveFirst(s.event[l], t), F, l)
      BY <3>1, <1>3, Leaves
    <3> QED BY <3>2, <1>1
  <2>2. Lists(r.pending, F, Pending)
    <3>1. Lists(s.pending, E, Pending) /\ Nothing # Pending
      BY <1>0, WaitsDiffer DEF Placed
    <3>2. Lists(RemoveFirst(s.pending, t), F, Pending)
      BY <3>1, <1>3, Leaves
    <3> QED BY <3>2, <1>1
  <2>3. /\ r.ready = s.ready /\ r.delayed = s.delayed /\ r.overflow = s.overflow
        /\ r.terminated = s.terminated /\ r.suspended = s.suspended
    BY <1>1 DEF AllBut, SchedFields, EventFields
  <2>4. IsOver(r.event, EventLists)
    BY <1>1 DEF IsOver
  <2> HIDE DEF F
  <2> QED BY <1>0, <1>3, <2>1, <2>2, <2>3, <2>4 DEF Placed
<1>5. OnTime(r)
  <2>1. /\ r.wakeTime = s.wakeTime /\ r.xTickCount = s.xTickCount
        /\ r.delayed = s.delayed /\ r.overflow = s.overflow
    BY <1>1 DEF AllBut, SchedFields, EventFields
  <2> QED BY <1>0, <2>1 DEF OnTime
<1>6. Ranked(r, P)
  <2>1. r.uxPriority = s.uxPriority /\ r.uxTopReadyPriority = s.uxTopReadyPriority
    BY <1>1 DEF AllBut, SchedFields, EventFields
  <2> QED BY <1>0, <2>1 DEF Ranked
<1>7. E[t] # Pending => r.pending = s.pending
  <2>1. IsList(s.pending) /\ (E[t] # Pending => t \notin ToSet(s.pending))
    BY <1>0 DEF Placed, Lists
  <2> QED BY <1>1, <2>1, RemovedFrom
<1>8. ASSUME NEW l \in EventLists, E[t] # l PROVE r.event[l] = s.event[l]
  <2>1. IsList(s.event[l]) /\ t \notin ToSet(s.event[l])
    BY <1>0, <1>8 DEF Placed, Lists
  <2> QED BY <1>1, <2>1, RemovedFrom
<1> QED BY <1>1, <1>2, <1>4, <1>5, <1>6, <1>7, <1>8 DEF Sched, r

(* prvAddTaskToReadyQueue of a task that is in no other list.              *)
LEMMA ReadyIn ==
  ASSUME NEW s, NEW P, NEW E, Sched(s, P, E), NEW t \in Tasks, P[t] = Limbo
  PROVE  LET r == prvAddTaskToReadyQueue(s, t)
         IN  /\ Sched(r, [P EXCEPT ![t] = s.uxPriority[t]], E) /\ AllBut(r, s, ReadyFields)
             /\ r.uxTopReadyPriority >= s.uxTopReadyPriority
<1> DEFINE r == prvAddTaskToReadyQueue(s, t)
           p == s.uxPriority[t]
           Q == [P EXCEPT ![t] = p]
<1>0. /\ Typed(s) /\ Placed(s, P, E) /\ OnTime(s) /\ Ranked(s, P) /\ DOMAIN s = SchedFields
      /\ p \in Prios /\ s.uxTopReadyPriority \in Prios
  BY DEF Sched, Typed
<1> HIDE DEF p
<1>1. /\ AllBut(r, s, ReadyFields) /\ DOMAIN r = SchedFields
      /\ r.ready = [s.ready EXCEPT ![p] = Append(s.ready[p], t)]
      /\ r.uxTopReadyPriority = Max2(s.uxTopReadyPriority, p)
  BY <1>0 DEF AllBut, SchedFields, prvAddTaskToReadyQueue, ReadyFields, p
<1>a. /\ Max2(s.uxTopReadyPriority, p) \in Prios /\ Max2(s.uxTopReadyPriority, p) >= p
      /\ Max2(s.uxTopReadyPriority, p) >= s.uxTopReadyPriority
  BY <1>0, Constants DEF Max2
<1> HIDE DEF r
<1>2. Typed(r)
  BY <1>0, <1>1, <1>a DEF AllBut, Typed, SchedFields, ReadyFields
<1>3. DOMAIN P = Tasks /\ P \in [Tasks -> Int] /\ Q \in [Tasks -> Int] /\ E \in [Tasks -> Waits]
  BY <1>0, Constants DEF Placed
<1>b. p \notin PlacesOff /\ \A q \in Prios : q \notin PlacesOff
  BY <1>0, PlacesDiffer
<1>4. Placed(r, Q, E)
  <2>1. ASSUME NEW q \in Prios PROVE Lists(r.ready[q], Q, q)
    <3>1. Lists(s.ready[q], P, q) /\ P[t] # q /\ p \in DOMAIN s.ready
      BY <1>0, <1>b DEF Placed, PlacesOff, IsOver
    <3>2. CASE q = p
      <4>1. Lists(Append(s.ready[p], t), Q, p)
        BY <3>1, <3>2, <1>3, Joins
      <4> QED BY <3>1, <3>2, <4>1, <1>1
    <3>3. CASE q # p
      <4>1. Lists(s.ready[q], Q, q)
        BY <3>1, <3>3, <1>3, Ignores
      <4> QED BY <3>3, <4>1, <1>1
    <3> QED BY <3>2, <3>3
  <2>2. Lists(s.delayed, Q, Delayed)
    <3>1. Lists(s.delayed, P, Delayed) /\ P[t] # Delayed /\ p # Delayed
      BY <1>0, <1>b, PlacesDiffer DEF Placed, PlacesOff
    <3> QED BY <3>1, <1>3, Ignores
  <2>3. Lists(s.overflow, Q, Overflowed)
    <3>1. Lists(s.overflow, P, Overflowed) /\ P[t] # Overflowed /\ p # Overflowed
      BY <1>0, <1>b, PlacesDiffer DEF Placed, PlacesOff
    <3> QED BY <3>1, <1>3, Ignores
  <2>4. Lists(s.terminated, Q, Terminated)
    <3>1. Lists(s.terminated, P, Terminated) /\ P[t] # Terminated /\ p # Terminated
      BY <1>0, <1>b, PlacesDiffer DEF Placed, PlacesOff
    <3> QED BY <3>1, <1>3, Ignores
  <2>5. s.suspended = {u \in Tasks : Q[u] = Suspended}
    <3>1. P[t] # Suspended /\ p # Suspended
      BY <1>b, PlacesDiffer DEF PlacesOff
    <3> QED BY <3>1, <1>0, <1>3 DEF Placed
  <2>6. /\ r.event = s.event /\ r.pending = s.pending /\ r.delayed = s.delayed
        /\ r.overflow = s.overflow /\ r.terminated = s.terminated /\ r.suspended = s.suspended
    BY <1>1 DEF AllBut, SchedFields, ReadyFields
  <2>7. IsOver(r.ready, Prios)
    BY <1>0, <1>1 DEF Placed, IsOver
  <2>8. Somewhere(Q)
    <3>1. p \in Prios \cup PlacesOff /\ Somewhere(P)
      BY <1>0 DEF Placed
    <3> QED BY <3>1, <1>3, StillSomewhere
  <2> HIDE DEF Q
  <2> QED BY <1>0, <1>3, <2>1, <2>2, <2>3, <2>4, <2>5, <2>6, <2>7, <2>8 DEF Placed
<1>5. OnTime(r)
  <2>1. /\ r.wakeTime = s.wakeTime /\ r.xTickCount = s.xTickCount
        /\ r.delayed = s.delayed /\ r.overflow = s.overflow
    BY <1>1 DEF AllBut, SchedFields, ReadyFields
  <2> QED BY <1>0, <2>1 DEF OnTime
<1>6. Ranked(r, Q)
  <2>1. r.uxPriority = s.uxPriority
    BY <1>1 DEF AllBut, SchedFields, ReadyFields
  <2>2. \A u \in Tasks : Q[u] = IF u = t THEN p ELSE P[u]
    BY <1>3
  <2>3. \A u \in Tasks : P[u] \in Int /\ s.uxTopReadyPriority \in Int /\ p \in Int
                         /\ Max2(s.uxTopReadyPriority, p) \in Int
    BY <1>0, <1>3, <1>a, Constants
  <2> HIDE DEF Q
  <2> QED BY <1>0, <1>1, <1>a, <2>1, <2>2, <2>3 DEF Ranked, p
<1> QED BY <1>1, <1>a, <1>2, <1>4, <1>5, <1>6 DEF Sched, r, p

(* A task is taken off all lists and made ready.                           *)
AsReady(r, s, P, E, t) ==
  /\ Sched(r, [P EXCEPT ![t] = s.uxPriority[t]], [E EXCEPT ![t] = Nothing])
  /\ AllBut(r, s, ListFields) /\ r.uxTopReadyPriority >= s.uxTopReadyPriority
  /\ P[t] # Terminated => r.terminated = s.terminated
  /\ E[t] # Pending => r.pending = s.pending

(* The three ways of making a task ready put it on the list of its         *)
(* priority.                                                               *)
LEMMA Readied ==
  ASSUME NEW s, NEW P, NEW E, Sched(s, P, E), NEW t \in Tasks
  PROVE  /\ AsReady(Wake(s, t), s, P, E, t)
         /\ AsReady(MovePending(s, t), s, P, E, t)
         /\ E[t] = Nothing => AsReady(prvAddTaskToReadyQueue(vListRemoveGeneric(s, t), t), s, P, E, t)
<1>0. P \in [Tasks -> Int] /\ E \in [Tasks -> Waits]
  BY DEF Sched, Placed
<1> DEFINE L == [P EXCEPT ![t] = Limbo]
           F == [E EXCEPT ![t] = Nothing]
<1>a. /\ [L EXCEPT ![t] = s.uxPriority[t]] = [P EXCEPT ![t] = s.uxPriority[t]] /\ L[t] = Limbo
      /\ (E[t] = Nothing => F = E)
  BY <1>0
<1> HIDE DEF L, F
<1> USE DEF ListFields, GenericFields, EventFields, ReadyFields
<1>1. AsReady(Wake(s, t), s, P, E, t)
  <2> DEFINE s1 == vListRemoveGeneric(s, t)
             s2 == vListRemoveEvent(s1, t)
             s3 == prvAddTaskToReadyQueue(s2, t)
  <2>0. Wake(s, t) = s3
    BY DEF Wake
  <2>1. /\ Sched(s1, L, E) /\ AllBut(s1, s, GenericFields)
        /\ (P[t] # Terminated => s1.terminated = s.terminated)
    BY GenericOut DEF L
  <2> HIDE DEF s1
  <2>2. /\ Sched(s2, L, F) /\ AllBut(s2, s1, EventFields)
        /\ (E[t] # Pending => s2.pending = s1.pending)
    BY <2>1, EventOut DEF F
  <2> HIDE DEF s2
  <2>3. /\ Sched(s3, [L EXCEPT ![t] = s2.uxPriority[t]], F) /\ AllBut(s3, s2, ReadyFields)
        /\ s3.uxTopReadyPriority >= s2.uxTopReadyPriority
    BY <2>2, <1>a, ReadyIn
  <2> HIDE DEF s3
  <2>4. /\ s2.uxPriority = s.uxPriority /\ s2.uxTopReadyPriority = s.uxTopReadyPriority
        /\ s3.terminated = s1.terminated /\ s3.pending = s2.pending /\ s1.pending = s.pending
        /\ AllBut(s3, s, ListFields)
    BY <2>1, <2>2, <2>3 DEF AllBut, SchedFields
  <2> QED BY <2>0, <2>1, <2>2, <2>3, <2>4, <1>a DEF AsReady, F
<1>2. AsReady(MovePending(s, t), s, P, E, t)
  <2> DEFINE s1 == vListRemoveEvent(s, t)
             s2 == vListRemoveGeneric(s1, t)
             s3 == prvAddTaskToReadyQueue(s2, t)
  <2>0. MovePending(s, t) = s3
    BY DEF MovePending
  <2>1. /\ Sched(s1, P, F) /\ AllBut(s1, s, EventFields)
        /\ (E[t] # Pending => s1.pending = s.pending)
    BY EventOut DEF F
  <2> HIDE DEF s1
  <2>2. /\ Sched(s2, L, F) /\ AllBut(s2, s1, GenericFields)
        /\ (P[t] # Terminated => s2.terminated = s1.terminated)
    BY <2>1, GenericOut DEF L
  <2> HIDE DEF s2
  <2>3. /\ Sched(s3, [L EXCEPT ![t] = s2.uxPriority[t]], F) /\ AllBut(s3, s2, ReadyFields)
        /\ s3.uxTopReadyPriority >= s2.uxTopReadyPriority
    BY <2>2, <1>a, ReadyIn
  <2> HIDE DEF s3
  <2>4. /\ s2.uxPriority = s.uxPriority /\ s2.uxTopReadyPriority = s.uxTopReadyPriority
        /\ s3.terminated = s2.terminated /\ s3.pending = s1.pending /\ s1.terminated = s.terminated
        /\ AllBut(s3, s, ListFields)
    BY <2>1, <2>2, <2>3 DEF AllBut, SchedFields
  <2> QED BY <2>0, <2>1, <2>2, <2>3, <2>4, <1>a DEF AsReady, F
<1>3. ASSUME E[t] = Nothing
      PROVE  AsReady(prvAddTaskToReadyQueue(vListRemoveGeneric(s, t), t), s, P, E, t)
  <2> DEFINE s2 == vListRemoveGeneric(s, t)
             s3 == prvAddTaskToReadyQueue(s2, t)
  <2>2. /\ Sched(s2, L, F) /\ AllBut(s2, s, GenericFields)
        /\ (P[t] # Terminated => s2.terminated = s.terminated)
    BY <1>3, <1>a, GenericOut DEF L
  <2> HIDE DEF s2
  <2>3. /\ Sched(s3, [L EXCEPT ![t] = s2.uxPriority[t]], F) /\ AllBut(s3, s2, ReadyFields)
        /\ s3.uxTopReadyPriority >= s2.uxTopReadyPriority
    BY <2>2, <1>a, ReadyIn
  <2> HIDE DEF s3
  <2>4. /\ s2.uxPriority = s.uxPriority /\ s2.uxTopReadyPriority = s.uxTopReadyPriority
        /\ s3.terminated = s2.terminated /\ s3.pending = s.pending
        /\ AllBut(s3, s, ListFields)
    BY <2>2, <2>3 DEF AllBut, SchedFields
  <2> QED BY <2>2, <2>3, <2>4, <1>a DEF AsReady, F, s2, s3
<1> QED BY <1>1, <1>2, <1>3

-----------------------------------------------------------------------------
(* What the loops do.                                                      *)

(* The tasks of the set T are made ready and wait for nothing.             *)
AllReady(s, P, T) == [t \in Tasks |-> IF t \in T THEN s.uxPriority[t] ELSE P[t]]
NoneWaits(E, T) == [t \in Tasks |-> IF t \in T THEN Nothing ELSE E[t]]

(* The first i tasks of a sequence.                                        *)
Upto(seq, i) == {seq[j] : j \in 1 .. i}

(* A loop that readies the tasks of a list, one at a time, readies them.   *)
LEMMA LoopReadies ==
  ASSUME NEW s, NEW P, NEW E, Sched(s, P, E),
         NEW loop \in {"wake", "move"}, NEW seq \in Seq(Tasks),
         NEW run, IsRun(run, loop, 0, s, seq, Len(seq)),
         \A t \in ToSet(seq) : P[t] # Terminated
  PROVE  LET r == run[Len(seq)]
         IN  /\ Sched(r, AllReady(s, P, ToSet(seq)), NoneWaits(E, ToSet(seq)))
             /\ AllBut(r, s, ListFields) /\ r.terminated = s.terminated
             /\ r.uxTopReadyPriority >= s.uxTopReadyPriority
<1> DEFINE n == Len(seq)
           Good(i) == LET r == run[i]
                      IN  /\ Sched(r, AllReady(s, P, Upto(seq, i)), NoneWaits(E, Upto(seq, i)))
                          /\ AllBut(r, s, ListFields) /\ r.terminated = s.terminated
                          /\ r.uxTopReadyPriority >= s.uxTopReadyPriority
           S == {i \in 0 .. n : Good(i)}
<1>1. n \in Nat /\ \A i \in 1 .. n : seq[i] \in Tasks /\ seq[i] \in ToSet(seq)
  BY Members
<1>2. ToSet(seq) = Upto(seq, n)
  BY Members DEF Upto
<1>3. P \in [Tasks -> Int] /\ E \in [Tasks -> Waits] /\ s.uxPriority \in [Tasks -> Prios]
      /\ s.uxTopReadyPriority \in Prios /\ DOMAIN s = SchedFields
  BY DEF Sched, Placed, Typed
<1>4. 0 \in S
  <2>1. Upto(seq, 0) = {}
    BY DEF Upto
  <2>2. AllReady(s, P, {}) = P /\ NoneWaits(E, {}) = E /\ run[0] = s
    BY <1>3 DEF AllReady, NoneWaits, IsRun
  <2>3. AllBut(s, s, ListFields) /\ s.uxTopReadyPriority >= s.uxTopReadyPriority
    BY <1>3, Constants DEF AllBut
  <2>4. Good(0)
    BY <2>1, <2>2, <2>3
  <2> QED BY <2>4, <1>1
<1>5. ASSUME NEW i \in S, i < n PROVE i + 1 \in S
  <2> DEFINE r == run[i]
             t == seq[i + 1]
             T == Upto(seq, i)
             Q == AllReady(s, P, T)
             F == NoneWaits(E, T)
  <2>1. i + 1 \in 1 .. n /\ i + 1 \in 0 .. n /\ (i + 1) - 1 = i /\ t \in Tasks /\ i \in Nat
    BY <1>1, <1>5
  <2>2. Good(i)
    OBVIOUS
  <2>3. run[i + 1] = RoundOf(loop, 0, r, t)
    BY <2>1 DEF IsRun
  <2>4. AsReady(run[i + 1], r, Q, F, t)
    <3>1. Sched(r, Q, F)
      BY <2>2
    <3> HIDE DEF r, Q, F, t
    <3>2. AsReady(Wake(r, t), r, Q, F, t) /\ AsReady(MovePending(r, t), r, Q, F, t)
      BY <3>1, <2>1, Readied
    <3> QED BY <3>2, <2>3 DEF RoundOf
  <2>5. Upto(seq, i + 1) = T \cup {t}
    BY <2>1 DEF Upto
  <2>6. r.uxPriority = s.uxPriority
    BY <2>2 DEF AllBut, SchedFields, ListFields, GenericFields, EventFields, ReadyFields
  <2>7. /\ [Q EXCEPT ![t] = r.uxPriority[t]] = AllReady(s, P, Upto(seq, i + 1))
        /\ [F EXCEPT ![t] = Nothing] = NoneWaits(E, Upto(seq, i + 1))
    BY <2>5, <2>6, <2>1 DEF AllReady, NoneWaits
  <2>8. Q[t] # Terminated
    BY <1>1, <1>3, <2>1, PlacesDiffer DEF AllReady, PlacesOff
  <2>9. r.uxTopReadyPriority \in Prios /\ run[i + 1].uxTopReadyPriority \in Prios
    BY <2>2, <2>4 DEF AsReady, Sched, Typed
  <2>10. AllBut(run[i + 1], s, ListFields)
    BY <2>2, <2>4 DEF AsReady, AllBut
  <2> HIDE DEF Q, F, T
  <2>11. Good(i + 1)
    <3>1. Sched(run[i + 1], AllReady(s, P, Upto(seq, i + 1)), NoneWaits(E, Upto(seq, i + 1)))
      BY <2>4, <2>7 DEF AsReady
    <3>2. run[i + 1].terminated = s.terminated
      BY <2>2, <2>4, <2>8 DEF AsReady
    <3>3. run[i + 1].uxTopReadyPriority >= s.uxTopReadyPriority
      BY <2>2, <2>4, <2>9, <1>3, Constants DEF AsReady
    <3> QED BY <2>10, <3>1, <3>2, <3>3
  <2> QED BY <2>1, <2>11
<1>6. n \in S
  <2>1. S \in SUBSET (0 .. n)
    OBVIOUS
  <2> HIDE DEF S
  <2> QED BY <1>1, <1>4, <1>5, <2>1, Reaches0
<1>7. Good(n)
  BY <1>6
<1> QED BY <1>2, <1>7

(* The waiters that prvUnlockQueue wakes, with the scheduler suspended,    *)
(* are taken off the event list and become pending.                        *)
NowPending(E, F, l) ==
  \A t \in Tasks : F[t] = E[t] \/ (E[t] = l /\ F[t] = Pending)

(* xTaskRemoveFromEventList makes the first waiter pending.                *)
LEMMA OnePending ==
  ASSUME NEW s, NEW P, NEW E, Sched(s, P, E), NEW l \in EventLists, s.event[l] # <<>>,
         s.uxSchedulerSuspended # 0
  PROVE  LET r == xTaskRemoveFromEventList(s, l).k
             F == [E EXCEPT ![Head(s.event[l])] = Pending]
         IN  /\ Sched(r, P, F) /\ NowPending(E, F, l)
             /\ AllBut(r, s, EventFields)
             /\ Len(r.event[l]) = Len(s.event[l]) - 1
<1> DEFINE t == Head(s.event[l])
           s1 == vListRemoveEvent(s, t)
           r == [s1 EXCEPT !.pending = Append(s1.pending, t)]
           N == [E EXCEPT ![t] = Nothing]
           F == [E EXCEPT ![t] = Pending]
<1>0. /\ E \in [Tasks -> Waits] /\ P \in [Tasks -> Int] /\ Lists(s.event[l], E, l)
  BY DEF Sched, Placed
<1>1. t \in Tasks /\ t \in ToSet(s.event[l]) /\ E[t] = l
  BY <1>0, HeadAndTail DEF Lists
<1> HIDE DEF t
<1>2. /\ Sched(s1, P, N) /\ AllBut(s1, s, EventFields)
      /\ s1.event[l] = RemoveFirst(s.event[l], t)
  BY <1>1, EventOut
<1>3. s1.uxSchedulerSuspended = s.uxSchedulerSuspended
  BY <1>2 DEF AllBut, SchedFields, EventFields
<1>4. xTaskRemoveFromEventList(s, l).k = r
  BY <1>3 DEF xTaskRemoveFromEventList, ReadyOrPend, t
<1> HIDE DEF s1
<1>5. /\ DOMAIN s1 = SchedFields /\ DOMAIN r = SchedFields
      /\ r.pending = Append(s1.pending, t) /\ AllBut(r, s1, {"pending"})
  BY <1>2 DEF Sched, Typed, AllBut, SchedFields
<1> HIDE DEF r
<1>6. /\ Typed(s1) /\ Placed(s1, P, N) /\ OnTime(s1) /\ Ranked(s1, P)
      /\ DOMAIN N = Tasks /\ N[t] = Nothing /\ N[t] # Pending
      /\ [N EXCEPT ![t] = Pending] = F
      /\ F \in [Tasks -> Waits] /\ Lists(s1.pending, N, Pending)
  BY <1>0, <1>1, <1>2, WaitsDiffer DEF Sched, Placed, Waits
<1>7. Lists(r.pending, F, Pending)
  BY <1>1, <1>5, <1>6, Joins
<1>8. ASSUME NEW m \in EventLists PROVE Lists(s1.event[m], F, m)
  <2>1. Lists(s1.event[m], N, m) /\ Pending # m /\ N[t] # m
    BY <1>6, WaitsDiffer DEF Placed
  <2>2. Lists(s1.event[m], [N EXCEPT ![t] = Pending], m)
    BY <2>1, <1>1, <1>6, Ignores
  <2> QED BY <2>2, <1>6
<1> HIDE DEF N, F
<1>9. Placed(r, P, F)
  <2>1. /\ r.ready = s1.ready /\ r.delayed = s1.delayed /\ r.overflow = s1.overflow
        /\ r.terminated = s1.terminated /\ r.suspended = s1.suspended /\ r.event = s1.event
    BY <1>5 DEF AllBut, SchedFields
  <2> QED BY <2>1, <1>6, <1>7, <1>8 DEF Placed
<1>10. Typed(r) /\ OnTime(r) /\ Ranked(r, P)
  <2>1. Typed(r)
    BY <1>5, <1>6 DEF AllBut, Typed, SchedFields
  <2>2. /\ r.wakeTime = s1.wakeTime /\ r.xTickCount = s1.xTickCount
        /\ r.delayed = s1.delayed /\ r.overflow = s1.overflow
        /\ r.uxPriority = s1.uxPriority /\ r.uxTopReadyPriority = s1.uxTopReadyPriority
    BY <1>5 DEF AllBut, SchedFields
  <2> QED BY <2>1, <2>2, <1>6 DEF OnTime, Ranked
<1>11. AllBut(r, s, EventFields)
  BY <1>2, <1>5 DEF AllBut, EventFields
<1>12. Len(r.event[l]) = Len(s.event[l]) - 1
  <2>1. r.event = s1.event
    BY <1>5 DEF AllBut, SchedFields
  <2> QED BY <2>1, <1>0, <1>1, <1>2, RemovedFrom DEF Lists
<1>13. NowPending(E, F, l)
  BY <1>0, <1>1 DEF NowPending, F
<1>14. Sched(r, P, F)
  BY <1>9, <1>10 DEF Sched
<1> QED BY <1>4, <1>11, <1>12, <1>13, <1>14 DEF F, t

(* A field that no list and no time depends on.                            *)
LEMMA YieldMissed ==
  ASSUME NEW s, NEW P, NEW E, Sched(s, P, E), NEW b
  PROVE  LET r == [s EXCEPT !.xMissedYield = b]
         IN  Sched(r, P, E) /\ AllBut(r, s, {"xMissedYield"}) /\ r.event = s.event
<1> DEFINE r == [s EXCEPT !.xMissedYield = b]
<1>1. AllBut(r, s, {"xMissedYield"}) /\ DOMAIN s = SchedFields /\ DOMAIN r = SchedFields
  BY DEF AllBut, Sched, Typed, SchedFields
<1> HIDE DEF r
<1>2. Typed(r)
  BY <1>1 DEF AllBut, Sched, Typed, SchedFields
<1>3. Placed(r, P, E) /\ OnTime(r) /\ Ranked(r, P) /\ r.event = s.event
  BY <1>1 DEF AllBut, Sched, Placed, OnTime, Ranked, SchedFields
<1> QED BY <1>1, <1>2, <1>3 DEF Sched, r

(* n of the waiters on a list have been moved to the pending ones.         *)
Pended(r, F, s, P, E, l, n) ==
  /\ Sched(r, P, F) /\ NowPending(E, F, l)
  /\ AllBut(r, s, EventFields \cup {"xMissedYield"})
  /\ Len(r.event[l]) = Len(s.event[l]) - n
  /\ s.xMissedYield => r.xMissedYield

(* So does every round of the loop of prvUnlockQueue.                      *)
LEMMA LoopPends ==
  ASSUME NEW s, NEW P, NEW E, Sched(s, P, E), NEW l \in EventLists,
         s.uxSchedulerSuspended # 0,
         NEW seq, NEW n \in 0 .. Len(s.event[l]), NEW run, IsRun(run, "next", l, s, seq, n)
  PROVE  \E F : Pended(run[n], F, s, P, E, l, n)
<1> DEFINE Good(i) == \E F : /\ Sched(run[i], P, F) /\ NowPending(E, F, l)
                             /\ AllBut(run[i], s, EventFields \cup {"xMissedYield"})
                             /\ Len(run[i].event[l]) = Len(s.event[l]) - i
                             /\ s.xMissedYield => run[i].xMissedYield
           S == {i \in 0 .. n : Good(i)}
<1>1. n \in Nat /\ Len(s.event[l]) \in Nat
  BY DEF Sched, Placed, Lists, IsList
<1>2. 0 \in S
  <2>1. NowPending(E, E, l) /\ AllBut(s, s, EventFields \cup {"xMissedYield"}) /\ run[0] = s
    BY DEF NowPending, AllBut, IsRun
  <2>2. Good(0)
    BY <2>1, <1>1
  <2> QED BY <2>2, <1>1
<1>5. ASSUME NEW i \in 0 .. n, i < n
      PROVE  i + 1 \in 1 .. n /\ i + 1 \in 0 .. n /\ (i + 1) - 1 = i /\ i \in Nat
  BY <1>1, <1>5
<1>3. ASSUME NEW i \in S, i < n PROVE i + 1 \in S
  <2> DEFINE r == run[i]
  <2>0. i \in 0 .. n
    OBVIOUS
  <2>1. i + 1 \in 1 .. n /\ i + 1 \in 0 .. n /\ (i + 1) - 1 = i /\ i \in Nat
    BY <1>3, <1>5, <2>0
  <2>2. PICK F : /\ Sched(r, P, F) /\ NowPending(E, F, l)
                 /\ AllBut(r, s, EventFields \cup {"xMissedYield"})
                 /\ Len(r.event[l]) = Len(s.event[l]) - i
                 /\ s.xMissedYield => r.xMissedYield
    OBVIOUS
  <2>3. run[i + 1] = WakeNext(r, l)
    BY <2>1 DEF IsRun, RoundOf
  <2> HIDE DEF r
  <2>4. r.event[l] # <<>> /\ r.uxSchedulerSuspended # 0
    <3>1. Len(r.event[l]) > 0
      BY <2>1, <2>2, <1>1, <1>3
    <3>2. r.uxSchedulerSuspended = s.uxSchedulerSuspended
      BY <2>2 DEF AllBut, SchedFields, EventFields
    <3> QED BY <3>1, <3>2
  <2> DEFINE r1 == xTaskRemoveFromEventList(r, l).k
  <2>5. PICK G : /\ Sched(r1, P, G) /\ NowPending(F, G, l)
                 /\ AllBut(r1, r, EventFields) /\ Len(r1.event[l]) = Len(r.event[l]) - 1
    BY <2>2, <2>4, OnePending
  <2> DEFINE r2 == IF xTaskRemoveFromEventList(r, l).woken
                   THEN [r1 EXCEPT !.xMissedYield = TRUE] ELSE r1
  <2>6. run[i + 1] = r2
    BY <2>3 DEF WakeNext
  <2> HIDE DEF r1
  <2>12. r.xMissedYield => r2.xMissedYield
    <3>1. r1.xMissedYield = r.xMissedYield /\ DOMAIN r1 = SchedFields
      BY <2>5 DEF AllBut, Sched, Typed, SchedFields, EventFields
    <3> QED BY <3>1 DEF SchedFields
  <2>7. Sched(r2, P, G) /\ AllBut(r2, r1, {"xMissedYield"}) /\ r2.event = r1.event
    <3>1. AllBut(r1, r1, {"xMissedYield"})
      BY DEF AllBut
    <3> QED BY <2>5, <3>1, YieldMissed
  <2> HIDE DEF r2
  <2>8. NowPending(E, G, l)
    BY <2>2, <2>5 DEF NowPending
  <2>9. AllBut(r2, s, EventFields \cup {"xMissedYield"})
    BY <2>2, <2>5, <2>7 DEF AllBut
  <2>10. Len(r2.event[l]) = Len(s.event[l]) - (i + 1)
    BY <2>1, <2>2, <2>5, <2>7, <1>1
  <2>11. Good(i + 1)
    BY <2>2, <2>6, <2>7, <2>8, <2>9, <2>10, <2>12
  <2> QED BY <2>1, <2>11
<1>4. n \in S
  <2>1. S \in SUBSET (0 .. n)
    OBVIOUS
  <2> HIDE DEF S
  <2> QED BY <1>1, <1>2, <1>3, <2>1, Reaches0
<1> QED BY <1>4 DEF Pended

-----------------------------------------------------------------------------
(* Time.                                                                   *)

(* No sleeper is overdue.                                                  *)
Early(s, P) == \A t \in Tasks : P[t] = Delayed => s.wakeTime[t] > s.xTickCount

Due(s, P) == {t \in Tasks : P[t] = Delayed /\ s.wakeTime[t] = s.xTickCount}

(* The tasks that prvCheckDelayedTasks takes from the front of the list    *)
(* are those that are due.                                                 *)
LEMMA DueTasks ==
  ASSUME NEW s, NEW P, NEW E, Sched(s, P, E)
  PROVE  LET first == SelectInSeq(s.delayed, LAMBDA t : s.xTickCount < s.wakeTime[t])
             due == IF first = 0 THEN s.delayed ELSE SubSeq(s.delayed, 1, first - 1)
         IN  due \in Seq(Tasks) /\ ToSet(due) = Due(s, P)
<1> DEFINE d == s.delayed
           I == {i \in 1 .. Len(d) : s.xTickCount < s.wakeTime[d[i]]}
           first == SelectInSeq(d, LAMBDA t : s.xTickCount < s.wakeTime[t])
           due == IF first = 0 THEN d ELSE SubSeq(d, 1, first - 1)
           n == IF I = {} THEN Len(d) ELSE Min(I) - 1
<1>1. /\ IsList(d) /\ d \in Seq(Tasks) /\ Len(d) \in Nat
      /\ \A t \in Tasks : t \in ToSet(d) <=> P[t] = Delayed
      /\ \A i \in 1 .. Len(d) : d[i] \in Tasks
  BY Members DEF Sched, Placed, Lists, IsList
<1>2. /\ s.wakeTime \in [Tasks -> Ticks] /\ s.xTickCount \in Ticks
      /\ \A i, j \in 1 .. Len(d) : i < j => s.wakeTime[d[i]] <= s.wakeTime[d[j]]
      /\ \A t \in ToSet(d) : s.wakeTime[t] >= s.xTickCount
  BY DEF Sched, Typed, OnTime, InOrder
<1>3. first = IF I = {} THEN 0 ELSE Min(I)
  BY DEF SelectInSeq
<1>4. n \in 0 .. Len(d) /\ (\A i \in 1 .. n : i \notin I) /\ (n < Len(d) => n + 1 \in I)
      /\ due = IF n = Len(d) THEN d ELSE SubSeq(d, 1, n)
  <2>1. CASE I = {}
    BY <2>1, <1>1, <1>3
  <2>2. CASE I # {}
    <3>1. I \in SUBSET (1 .. Len(d))
      OBVIOUS
    <3>2. /\ Min(I) \in 1 .. Len(d) /\ Min(I) \in I
          /\ \A i \in 1 .. (Min(I) - 1) : i \notin I
      <4> HIDE DEF d, I
      <4> QED BY <3>1, <2>2, <1>1, FirstPlace
    <3>3. first = Min(I) /\ n = Min(I) - 1
      BY <1>3, <2>2
    <3> HIDE DEF first, n, I
    <3>4. first # 0 /\ n # Len(d) /\ n \in 0 .. Len(d) /\ n + 1 \in I
      BY <3>2, <3>3, <1>1
    <3> QED BY <3>2, <3>3, <3>4
  <2> QED BY <2>1, <2>2
<1> HIDE DEF first, n
<1>5. due \in Seq(Tasks) /\ Len(due) = n /\ \A i \in 1 .. n : due[i] = d[i]
  <2>1. CASE n = Len(d)
    BY <2>1, <1>1, <1>4
  <2>2. CASE n # Len(d)
    <3>1. due = SubSeq(d, 1, n)
      BY <2>2, <1>4
    <3> HIDE DEF due, d
    <3> QED BY <3>1, <1>1, <1>4, FirstTasks DEF IsList
  <2> QED BY <2>1, <2>2
<1> HIDE DEF due
<1>6. ASSUME NEW t \in Due(s, P) PROVE t \in ToSet(due)
  <2>1. PICK i \in 1 .. Len(d) : d[i] = t
    BY <1>1, Members DEF Due
  <2>2. s.wakeTime[t] = s.xTickCount /\ s.xTickCount \in Int
    BY <1>2, Constants DEF Due
  <2>3. i \notin I
    BY <2>1, <2>2
  <2>4. CASE i <= n
    <3>1. i \in 1 .. n
      BY <2>4, <1>1, <1>4
    <3> QED BY <3>1, <2>1, <1>5, Members
  <2>5. CASE i > n
    <3>1. n < Len(d) /\ n + 1 \in I /\ n + 1 # i /\ n + 1 < i
      BY <2>3, <2>5, <1>1, <1>4
    <3>2. s.xTickCount < s.wakeTime[d[n + 1]] /\ s.wakeTime[d[n + 1]] <= s.wakeTime[t]
      BY <3>1, <2>1, <1>2
    <3>3. s.wakeTime[d[n + 1]] \in Int
      BY <3>1, <1>1, <1>2, Constants
    <3> QED BY <3>2, <3>3, <2>2
  <2> QED BY <2>4, <2>5, <1>1, <1>4
<1>7. ASSUME NEW t \in ToSet(due) PROVE t \in Due(s, P)
  <2>1. PICK i \in 1 .. n : due[i] = t
    BY <1>5, Members
  <2>2. i \in 1 .. Len(d) /\ i \notin I /\ d[i] = t
    BY <2>1, <1>1, <1>4, <1>5
  <2>3. t \in ToSet(d) /\ t \in Tasks /\ ~(s.xTickCount < s.wakeTime[t])
    BY <2>2, <1>1, Members
  <2>4. s.wakeTime[t] \in Int /\ s.xTickCount \in Int
    BY <2>3, <1>2, Constants
  <2> QED BY <2>3, <2>4, <1>1, <1>2 DEF Due
<1>8. ToSet(due) = Due(s, P)
  BY <1>6, <1>7
<1> QED BY <1>5, <1>8 DEF due, first

(* prvCheckDelayedTasks readies the tasks that are due.                    *)
LEMMA CheckedDelays ==
  ASSUME NEW s, NEW P, NEW E, Sched(s, P, E)
  PROVE  LET r == prvCheckDelayedTasks(s)
             Q == AllReady(s, P, Due(s, P))
         IN  /\ Sched(r, Q, NoneWaits(E, Due(s, P))) /\ Early(r, Q)
             /\ AllBut(r, s, ListFields) /\ r.terminated = s.terminated
             /\ r.uxTopReadyPriority >= s.uxTopReadyPriority
<1> DEFINE first == SelectInSeq(s.delayed, LAMBDA t : s.xTickCount < s.wakeTime[t])
           due == IF first = 0 THEN s.delayed ELSE SubSeq(s.delayed, 1, first - 1)
           r == prvCheckDelayedTasks(s)
           Q == AllReady(s, P, Due(s, P))
<1>1. due \in Seq(Tasks) /\ ToSet(due) = Due(s, P)
  BY DueTasks
<1>2. r = FoldLeft(Wake, s, due)
  BY DEF prvCheckDelayedTasks
<1> HIDE DEF due, r
<1>3. PICK run : IsRun(run, "wake", 0, s, due, Len(due)) /\ FoldLeft(Wake, s, due) = run[Len(due)]
  BY <1>1, WakeRun
<1>4. \A t \in ToSet(due) : P[t] # Terminated
  BY <1>1, PlacesDiffer DEF Due
<1>5. /\ Sched(r, Q, NoneWaits(E, Due(s, P)))
      /\ AllBut(r, s, ListFields) /\ r.terminated = s.terminated
      /\ r.uxTopReadyPriority >= s.uxTopReadyPriority
  BY <1>1, <1>2, <1>3, <1>4, LoopReadies
<1>6. Early(r, Q)
  <2> SUFFICES ASSUME NEW t \in Tasks, Q[t] = Delayed PROVE r.wakeTime[t] > r.xTickCount
    BY DEF Early
  <2>1. r.wakeTime = s.wakeTime /\ r.xTickCount = s.xTickCount
    BY <1>5 DEF AllBut, SchedFields, ListFields, GenericFields, EventFields, ReadyFields
  <2>2. s.uxPriority[t] # Delayed
    BY PlacesDiffer DEF Sched, Typed, PlacesOff
  <2>3. t \notin Due(s, P) /\ P[t] = Delayed
    BY <2>2 DEF AllReady
  <2>4. s.wakeTime[t] # s.xTickCount /\ s.wakeTime[t] >= s.xTickCount
    BY <2>3 DEF Due, Sched, Placed, Lists, OnTime
  <2>5. s.wakeTime[t] \in Int /\ s.xTickCount \in Int
    BY Constants DEF Sched, Typed
  <2> QED BY <2>1, <2>4, <2>5
<1> QED BY <1>5, <1>6 DEF r

(* Sums and differences of ticks, in the width of the tick count.          *)
LEMMA TickSums ==
  /\ \A a, b \in Ticks :
       /\ (a + b) % TickMod = IF a + b >= TickMod THEN a + b - TickMod ELSE a + b
       /\ (a - b) % TickMod = IF a >= b THEN a - b ELSE a - b + TickMod
  /\ \A a \in Ticks :
       (a + 1) % TickMod = IF a + 1 = TickMod THEN 0 ELSE a + 1
  /\ \A x \in Int : x % TickMod \in Ticks
  /\ \A o \in 0 .. (OverflowMod - 1) : (o + 1) % OverflowMod \in 0 .. (OverflowMod - 1)
<1> DEFINE M == TickMod
           V == OverflowMod
<1>1. M \in Nat /\ M > 1 /\ V \in Nat /\ V > 1
  BY Constants
<1> HIDE DEF M, V
<1>2. ASSUME NEW a \in 0 .. (M - 1), NEW b \in 0 .. (M - 1)
      PROVE  /\ (a + b) % M = IF a + b >= M THEN a + b - M ELSE a + b
             /\ (a - b) % M = IF a >= b THEN a - b ELSE a - b + M
  BY <1>1
<1>3. \A a \in 0 .. (M - 1) : (a + 1) % M = IF a + 1 = M THEN 0 ELSE a + 1
  BY <1>1
<1>4. \A x \in Int : x % M \in 0 .. (M - 1)
  BY <1>1
<1>5. \A o \in 0 .. (V - 1) : (o + 1) % V \in 0 .. (V - 1)
  BY <1>1
<1> QED BY <1>2, <1>3, <1>4, <1>5 DEF Ticks, M, V

Asleep == {Delayed, Overflowed}

(* The ticks until a sleeper is due.                                       *)
TicksTo(s, t) == (s.wakeTime[t] - s.xTickCount) % TickMod

TimeFields == ListFields \cup {"xTickCount", "xNumOfOverflows", "uxMissedTicks"}

(* n ticks have been processed: the clock has moved on, the sleepers that  *)
(* were due are ready and the others are nearer to their time.             *)
ClockMoved(r, s, n) ==
  IF s.xTickCount + n >= TickMod
  THEN /\ r.xTickCount = s.xTickCount + n - TickMod
       /\ r.xNumOfOverflows = (s.xNumOfOverflows + 1) % OverflowMod
  ELSE r.xTickCount = s.xTickCount + n /\ r.xNumOfOverflows = s.xNumOfOverflows

Woken(r, Q, F, s, P, E, n) ==
  \A t \in Tasks :
    IF P[t] \in Asleep
    THEN IF TicksTo(s, t) <= n
         THEN Q[t] = s.uxPriority[t] /\ F[t] = Nothing
         ELSE Q[t] \in Asleep /\ F[t] = E[t] /\ TicksTo(r, t) = TicksTo(s, t) - n
    ELSE Q[t] = P[t] /\ F[t] = E[t]

Passed(r, Q, F, s, P, E, n) ==
  /\ Sched(r, Q, F) /\ Early(r, Q)
  /\ AllBut(r, s, TimeFields) /\ r.terminated = s.terminated
  /\ r.uxTopReadyPriority >= s.uxTopReadyPriority
  /\ ClockMoved(r, s, n) /\ Woken(r, Q, F, s, P, E, n)

(* A sleeper has some ticks to go, and which list it is in says on which   *)
(* side of the wrap they end.                                              *)
LEMMA StillToSleep ==
  ASSUME NEW s, NEW P, NEW E, Sched(s, P, E), Early(s, P), NEW t \in Tasks, P[t] \in Asleep
  PROVE  /\ s.wakeTime[t] \in Ticks /\ s.xTickCount \in Ticks
         /\ IF P[t] = Delayed
            THEN s.wakeTime[t] > s.xTickCount /\ TicksTo(s, t) = s.wakeTime[t] - s.xTickCount
            ELSE /\ s.wakeTime[t] < s.xTickCount
                 /\ TicksTo(s, t) = s.wakeTime[t] - s.xTickCount + TickMod
         /\ TicksTo(s, t) \in 1 .. (TickMod - 1)
<1>1. s.wakeTime[t] \in Ticks /\ s.xTickCount \in Ticks
  BY DEF Sched, Typed
<1>2. IF P[t] = Delayed THEN s.wakeTime[t] > s.xTickCount ELSE s.wakeTime[t] < s.xTickCount
  BY DEF Early, Asleep, Sched, Placed, Lists, OnTime
<1>3. TicksTo(s, t) = IF s.wakeTime[t] >= s.xTickCount THEN s.wakeTime[t] - s.xTickCount
                      ELSE s.wakeTime[t] - s.xTickCount + TickMod
  BY <1>1, TickSums DEF TicksTo
<1> QED BY <1>1, <1>2, <1>3, Constants

(* The tick count moves and, when it wraps, the two delayed lists change   *)
(* places: the one that is left behind is empty.                           *)
AtWrap(s, P) ==
  [t \in Tasks |-> IF s.xTickCount + 1 = TickMod /\ P[t] = Overflowed THEN Delayed ELSE P[t]]

(* At the wrap of the tick count the overflow list becomes the delayed     *)
(* list.                                                                   *)
LEMMA Swapped ==
  ASSUME NEW s, NEW P, NEW E, Sched(s, P, E), Early(s, P)
  PROVE  LET r == SwapAtWrap([s EXCEPT !.xTickCount = (@ + 1) % TickMod])
         IN  /\ Sched(r, AtWrap(s, P), E) /\ ClockMoved(r, s, 1)
             /\ s.xTickCount + 1 = TickMod => \A t \in Tasks : P[t] # Delayed
             /\ AllBut(r, s, {"xTickCount", "xNumOfOverflows", "delayed", "overflow"})
<1> DEFINE s1 == [s EXCEPT !.xTickCount = (@ + 1) % TickMod]
           r == SwapAtWrap(s1)
           Q == AtWrap(s, P)
<1>0. /\ Typed(s) /\ Placed(s, P, E) /\ OnTime(s) /\ Ranked(s, P) /\ DOMAIN s = SchedFields
      /\ P \in [Tasks -> Int] /\ s.xTickCount \in Ticks /\ s.wakeTime \in [Tasks -> Ticks]
      /\ s.xNumOfOverflows \in 0 .. (OverflowMod - 1)
  BY DEF Sched, Typed, Placed
<1>a. s1.xTickCount = IF s.xTickCount + 1 = TickMod THEN 0 ELSE s.xTickCount + 1
  BY <1>0, TickSums DEF SchedFields
<1>b. s.xTickCount + 1 # 0 /\ s.xTickCount \in Int /\ 0 \in Ticks /\ TickMod \in Int
      /\ (s.xTickCount + 1 # TickMod => s.xTickCount + 1 \in Ticks)
  BY <1>0, Constants DEF Ticks
<1>1. CASE s.xTickCount + 1 # TickMod
  <2>1. r = s1
    BY <1>1, <1>a, <1>b DEF SwapAtWrap
  <2>2. /\ AllBut(r, s, {"xTickCount"}) /\ DOMAIN r = SchedFields
        /\ r.xTickCount = s.xTickCount + 1
    BY <2>1, <1>0, <1>a, <1>1 DEF AllBut, SchedFields
  <2> HIDE DEF r, s1
  <2>3. Q = P
    BY <1>0, <1>1 DEF AtWrap
  <2>4. Typed(r)
    BY <1>0, <1>1, <1>b, <2>2 DEF AllBut, Typed, SchedFields
  <2>5. Placed(r, P, E) /\ Ranked(r, P)
    BY <1>0, <2>2 DEF AllBut, Placed, Ranked, SchedFields
  <2>6. OnTime(r)
    <3>1. /\ r.wakeTime = s.wakeTime /\ r.delayed = s.delayed /\ r.overflow = s.overflow
      BY <2>2 DEF AllBut, SchedFields
    <3>2. /\ \A t \in ToSet(s.delayed) : t \in Tasks /\ P[t] = Delayed
          /\ \A t \in ToSet(s.overflow) : t \in Tasks
      BY <1>0 DEF Placed, Lists
    <3>3. \A t \in Tasks : s.wakeTime[t] \in Int
      BY <1>0, Constants
    <3>4. \A t \in ToSet(s.delayed) : s.wakeTime[t] >= s.xTickCount + 1
      BY <3>2, <3>3, <1>b DEF Early
    <3>5. \A t \in ToSet(s.overflow) : s.wakeTime[t] < s.xTickCount + 1
      BY <3>2, <3>3, <1>b, <1>0 DEF OnTime
    <3> QED BY <3>1, <3>4, <3>5, <2>2, <1>0 DEF OnTime
  <2>7. ClockMoved(r, s, 1)
    <3>1. ~(s.xTickCount + 1 >= TickMod)
      BY <1>0, <1>1, <1>b, Constants
    <3> QED BY <3>1, <2>2 DEF ClockMoved, AllBut, SchedFields
  <2>8. AllBut(r, s, {"xTickCount", "xNumOfOverflows", "delayed", "overflow"})
    BY <2>2 DEF AllBut
  <2> QED BY <1>1, <2>3, <2>4, <2>5, <2>6, <2>7, <2>8 DEF Sched, r, s1
<1>2. CASE s.xTickCount + 1 = TickMod
  <2>1. r = [s1 EXCEPT !.delayed = s1.overflow, !.overflow = s1.delayed,
                       !.xNumOfOverflows = (@ + 1) % OverflowMod]
    BY <1>2, <1>a DEF SwapAtWrap
  <2>2. /\ AllBut(r, s, {"xTickCount", "xNumOfOverflows", "delayed", "overflow"})
        /\ DOMAIN r = SchedFields /\ r.xTickCount = 0
        /\ r.xNumOfOverflows = (s.xNumOfOverflows + 1) % OverflowMod
        /\ r.delayed = s.overflow /\ r.overflow = s.delayed
    BY <2>1, <1>0, <1>a, <1>2 DEF AllBut, SchedFields
  <2> HIDE DEF r, s1
  <2>3. \A t \in Tasks : P[t] # Delayed
    <3> SUFFICES ASSUME NEW t \in Tasks, P[t] = Delayed PROVE FALSE
      OBVIOUS
    <3>1. s.wakeTime[t] > s.xTickCount /\ s.wakeTime[t] \in Ticks
      BY <1>0 DEF Early
    <3> QED BY <3>1, <1>2, <1>0, Constants
  <2>4. \A t \in Tasks : Q[t] = IF P[t] = Overflowed THEN Delayed ELSE P[t]
    BY <1>2 DEF AtWrap
  <2>5. Q \in [Tasks -> Int]
    BY <1>0, PlacesDiffer DEF AtWrap
  <2> HIDE DEF Q
  <2>6. Typed(r)
    <3>1. (s.xNumOfOverflows + 1) % OverflowMod \in 0 .. (OverflowMod - 1)
      BY <1>0, TickSums
    <3> QED BY <3>1, <1>0, <1>b, <2>2 DEF AllBut, Typed, SchedFields
  <2>7. Placed(r, Q, E)
    <3>1. /\ \A v \in {Suspended, Terminated} : \A t \in Tasks : Q[t] = v <=> P[t] = v
          /\ \A v \in Prios : \A t \in Tasks : Q[t] = v <=> P[t] = v
          /\ \A t \in Tasks : Q[t] = Delayed <=> P[t] = Overflowed
          /\ \A t \in Tasks : Q[t] = Overflowed <=> P[t] = Delayed
      BY <2>3, <2>4, PlacesDiffer DEF PlacesOff
    <3>2. /\ r.ready = s.ready /\ r.terminated = s.terminated /\ r.suspended = s.suspended
          /\ r.event = s.event /\ r.pending = s.pending
      BY <2>2 DEF AllBut, SchedFields
    <3>3. \A p \in Prios : Lists(r.ready[p], Q, p)
      BY <3>1, <3>2, <1>0 DEF Placed, Lists
    <3>4. Lists(r.terminated, Q, Terminated)
      BY <3>1, <3>2, <1>0 DEF Placed, Lists
    <3>5. Lists(r.delayed, Q, Delayed) /\ Lists(r.overflow, Q, Overflowed)
      BY <3>1, <2>2, <1>0 DEF Placed, Lists
    <3>6. r.suspended = {t \in Tasks : Q[t] = Suspended}
      BY <3>1, <3>2, <1>0 DEF Placed
    <3>7. Somewhere(Q)
      <4>1. Somewhere(P) /\ Delayed \in PlacesOff
        BY <1>0 DEF Placed, PlacesOff
      <4> QED BY <4>1, <2>4 DEF Somewhere
    <3> QED BY <3>2, <3>3, <3>4, <3>5, <3>6, <3>7, <2>5, <1>0 DEF Placed
  <2>8. Ranked(r, Q)
    <3>1. \A t \in Tasks : Q[t] >= 0 => Q[t] = P[t]
      BY <2>4, PlacesDiffer DEF PlacesOff
    <3> QED BY <3>1, <2>2, <1>0 DEF Ranked, AllBut, SchedFields
  <2>9. OnTime(r)
    <3>1. r.wakeTime = s.wakeTime
      BY <2>2 DEF AllBut, SchedFields
    <3>2. ToSet(s.delayed) = {} /\ ToSet(s.overflow) \subseteq Tasks
      BY <2>3, <1>0 DEF Placed, Lists
    <3>3. \A t \in Tasks : s.wakeTime[t] >= 0
      BY <1>0, Constants
    <3> QED BY <3>1, <3>2, <3>3, <2>2, <1>0 DEF OnTime
  <2>10. ClockMoved(r, s, 1)
    <3>1. s.xTickCount + 1 >= TickMod /\ s.xTickCount + 1 - TickMod = 0
      BY <1>2, <1>b
    <3> QED BY <3>1, <2>2 DEF ClockMoved
  <2> QED BY <1>2, <2>2, <2>3, <2>6, <2>7, <2>8, <2>9, <2>10 DEF Sched, r, s1, Q
<1> QED BY <1>1, <1>2

(* vTaskIncrementTick while the scheduler is not suspended.                *)
LEMMA OneTick ==
  ASSUME NEW s, NEW P, NEW E, Sched(s, P, E), Early(s, P), s.uxSchedulerSuspended = 0
  PROVE  LET r == vTaskIncrementTick(s)
         IN  /\ \E Q, F : Passed(r, Q, F, s, P, E, 1)
             /\ r.uxMissedTicks = s.uxMissedTicks
<1> DEFINE s2 == SwapAtWrap([s EXCEPT !.xTickCount = (@ + 1) % TickMod])
           r == prvCheckDelayedTasks(s2)
           P2 == AtWrap(s, P)
           D == Due(s2, P2)
           Q == AllReady(s2, P2, D)
           F == NoneWaits(E, D)
<1>0. vTaskIncrementTick(s) = r
  BY DEF vTaskIncrementTick
<1>1. /\ Sched(s2, P2, E) /\ ClockMoved(s2, s, 1)
      /\ (s.xTickCount + 1 = TickMod => \A t \in Tasks : P[t] # Delayed)
      /\ AllBut(s2, s, {"xTickCount", "xNumOfOverflows", "delayed", "overflow"})
  BY Swapped
<1> HIDE DEF s2
<1>2. /\ Sched(r, Q, F) /\ Early(r, Q) /\ AllBut(r, s2, ListFields)
      /\ r.terminated = s2.terminated /\ r.uxTopReadyPriority >= s2.uxTopReadyPriority
  BY <1>1, CheckedDelays
<1> HIDE DEF r
<1> USE DEF ListFields, GenericFields, EventFields, ReadyFields
<1>3. /\ s2.wakeTime = s.wakeTime /\ s2.uxPriority = s.uxPriority
      /\ s2.terminated = s.terminated /\ s2.uxTopReadyPriority = s.uxTopReadyPriority
      /\ r.wakeTime = s.wakeTime /\ r.xTickCount = s2.xTickCount
      /\ r.xNumOfOverflows = s2.xNumOfOverflows /\ r.uxMissedTicks = s.uxMissedTicks
  BY <1>1, <1>2 DEF AllBut, SchedFields
<1>4. AllBut(r, s, TimeFields)
  BY <1>1, <1>2 DEF AllBut, TimeFields
<1>5. ClockMoved(r, s, 1)
  BY <1>1, <1>3 DEF ClockMoved
<1>6. Woken(r, Q, F, s, P, E, 1)
  <2> SUFFICES ASSUME NEW t \in Tasks
               PROVE  IF P[t] \in Asleep
                      THEN IF TicksTo(s, t) <= 1
                           THEN Q[t] = s.uxPriority[t] /\ F[t] = Nothing
                           ELSE Q[t] \in Asleep /\ F[t] = E[t] /\ TicksTo(r, t) = TicksTo(s, t) - 1
                      ELSE Q[t] = P[t] /\ F[t] = E[t]
    BY DEF Woken
  <2>1. /\ P2[t] = IF s.xTickCount + 1 = TickMod /\ P[t] = Overflowed THEN Delayed ELSE P[t]
        /\ t \in D <=> P2[t] = Delayed /\ s.wakeTime[t] = s2.xTickCount
        /\ Q[t] = IF t \in D THEN s.uxPriority[t] ELSE P2[t]
        /\ F[t] = IF t \in D THEN Nothing ELSE E[t]
    BY <1>3 DEF AtWrap, Due, AllReady, NoneWaits
  <2> HIDE DEF P2, D, Q, F
  <2>2. CASE P[t] \notin Asleep
    BY <2>1, <2>2, PlacesDiffer DEF Asleep
  <2>3. CASE P[t] \in Asleep
    <3>1. /\ s.wakeTime[t] \in Ticks /\ s.xTickCount \in Ticks
          /\ IF P[t] = Delayed
             THEN s.wakeTime[t] > s.xTickCount /\ TicksTo(s, t) = s.wakeTime[t] - s.xTickCount
             ELSE /\ s.wakeTime[t] < s.xTickCount
                  /\ TicksTo(s, t) = s.wakeTime[t] - s.xTickCount + TickMod
      BY <2>3, StillToSleep
    <3>2. s2.xTickCount = IF s.xTickCount + 1 = TickMod THEN 0 ELSE s.xTickCount + 1
      BY <1>1, <3>1, Constants DEF ClockMoved
    <3>3. TicksTo(r, t) = IF s.wakeTime[t] >= s2.xTickCount THEN s.wakeTime[t] - s2.xTickCount
                          ELSE s.wakeTime[t] - s2.xTickCount + TickMod
      <4>1. r.xTickCount \in Ticks
        BY <1>2 DEF Sched, Typed
      <4> QED BY <4>1, <1>3, <3>1, TickSums DEF TicksTo
    <3>4. s.wakeTime[t] \in Int /\ s.xTickCount \in Int /\ TickMod \in Int
          /\ 0 <= s.wakeTime[t] /\ s.wakeTime[t] < TickMod
          /\ 0 <= s.xTickCount /\ s.xTickCount < TickMod /\ TickMod > 1
      BY <3>1, Constants
    <3>5. CASE P[t] = Delayed
      <4>1. s.xTickCount + 1 # TickMod /\ P2[t] = Delayed
        BY <3>5, <1>1, <2>1, PlacesDiffer
      <4>2. t \in D <=> TicksTo(s, t) <= 1
        BY <4>1, <2>1, <3>1, <3>2, <3>4, <3>5
      <4>3. t \notin D => TicksTo(r, t) = TicksTo(s, t) - 1
        BY <4>1, <3>1, <3>2, <3>3, <3>4, <3>5
      <4> QED BY <4>1, <4>2, <4>3, <2>1, <2>3 DEF Asleep
    <3>6. CASE P[t] = Overflowed /\ s.xTickCount + 1 = TickMod
      <4>1. P2[t] = Delayed /\ P[t] # Delayed
        BY <3>6, <2>1, PlacesDiffer
      <4>2. t \in D <=> TicksTo(s, t) <= 1
        BY <4>1, <2>1, <3>1, <3>2, <3>4, <3>6
      <4>3. t \notin D => TicksTo(r, t) = TicksTo(s, t) - 1
        BY <4>1, <3>1, <3>2, <3>3, <3>4, <3>6
      <4> QED BY <4>1, <4>2, <4>3, <2>1, <2>3 DEF Asleep
    <3>7. CASE P[t] = Overflowed /\ s.xTickCount + 1 # TickMod
      <4>1. P2[t] = Overflowed /\ P[t] # Delayed /\ t \notin D
        BY <3>7, <2>1, PlacesDiffer
      <4>2. ~(TicksTo(s, t) <= 1)
        BY <4>1, <3>1, <3>4, <3>7
      <4>3. TicksTo(r, t) = TicksTo(s, t) - 1
        BY <4>1, <3>1, <3>2, <3>3, <3>4, <3>7
      <4> QED BY <4>1, <4>2, <4>3, <2>1, <2>3 DEF Asleep
    <3> QED BY <2>3, <3>5, <3>6, <3>7 DEF Asleep
  <2> QED BY <2>2, <2>3
<1>7. Passed(r, Q, F, s, P, E, 1)
  BY <1>2, <1>3, <1>4, <1>5, <1>6 DEF Passed
<1> QED BY <1>0, <1>3, <1>7

(* The fields that no list depends on.                                     *)
OtherFields == {"live", "uxBasePriority", "pxCurrentTCB", "xSchedulerRunning",
  "uxSchedulerSuspended", "xNumOfOverflows", "uxMissedTicks", "xMissedYield", "uxTasksDeleted",
  "pendsv"}

(* What changes none of the lists keeps the scheduler as it is.            *)
LEMMA Elsewhere ==
  ASSUME NEW s, NEW P, NEW E, Sched(s, P, E), NEW r, AllBut(r, s, OtherFields), Typed(r)
  PROVE  /\ Sched(r, P, E) /\ (Early(s, P) => Early(r, P))
         /\ r.terminated = s.terminated /\ r.uxTopReadyPriority = s.uxTopReadyPriority
         /\ \A t : TicksTo(r, t) = TicksTo(s, t)
<1>1. /\ r.ready = s.ready /\ r.delayed = s.delayed /\ r.overflow = s.overflow
      /\ r.suspended = s.suspended /\ r.terminated = s.terminated /\ r.event = s.event
      /\ r.pending = s.pending /\ r.wakeTime = s.wakeTime /\ r.xTickCount = s.xTickCount
      /\ r.uxPriority = s.uxPriority /\ r.uxTopReadyPriority = s.uxTopReadyPriority
  BY DEF AllBut, SchedFields, OtherFields
<1>2. Placed(r, P, E)
  BY <1>1 DEF Sched, Placed
<1>3. OnTime(r) /\ Ranked(r, P)
  BY <1>1 DEF Sched, OnTime, Ranked
<1>4. (Early(s, P) => Early(r, P)) /\ \A t : TicksTo(r, t) = TicksTo(s, t)
  BY <1>1 DEF Early, TicksTo
<1> QED BY <1>1, <1>2, <1>3, <1>4 DEF Sched

(* Ticks after ticks.                                                      *)
LEMMA TicksAdd ==
  ASSUME NEW s, NEW P, NEW E, Sched(s, P, E), NEW n \in 0 .. (TickMod - 2),
         NEW a, NEW Q, NEW F, Passed(a, Q, F, s, P, E, n),
         NEW r, NEW R, NEW G, Passed(r, R, G, a, Q, F, 1)
  PROVE  Passed(r, R, G, s, P, E, n + 1)
<1>1. /\ a.uxPriority = s.uxPriority /\ AllBut(r, s, TimeFields) /\ r.terminated = s.terminated
  BY DEF Passed, AllBut, SchedFields, TimeFields, ListFields, GenericFields, EventFields,
         ReadyFields
<1>2. r.uxTopReadyPriority >= s.uxTopReadyPriority
  <2>1. /\ r.uxTopReadyPriority \in Prios /\ a.uxTopReadyPriority \in Prios
        /\ s.uxTopReadyPriority \in Prios
    BY DEF Passed, Sched, Typed
  <2>2. /\ r.uxTopReadyPriority >= a.uxTopReadyPriority
        /\ a.uxTopReadyPriority >= s.uxTopReadyPriority
    BY DEF Passed
  <2> QED BY <2>1, <2>2, Constants
<1>3. ClockMoved(r, s, n + 1)
  <2>1. s.xTickCount \in Ticks /\ a.xTickCount \in Ticks
    BY DEF Passed, Sched, Typed
  <2>2. ClockMoved(a, s, n) /\ ClockMoved(r, a, 1)
    BY DEF Passed
  <2> QED BY <2>1, <2>2, Constants DEF ClockMoved
<1>4. Woken(r, R, G, s, P, E, n + 1)
  <2> SUFFICES ASSUME NEW t \in Tasks
               PROVE  IF P[t] \in Asleep
                      THEN IF TicksTo(s, t) <= n + 1
                           THEN R[t] = s.uxPriority[t] /\ G[t] = Nothing
                           ELSE /\ R[t] \in Asleep /\ G[t] = E[t]
                                /\ TicksTo(r, t) = TicksTo(s, t) - (n + 1)
                      ELSE R[t] = P[t] /\ G[t] = E[t]
    BY DEF Woken
  <2>1. IF P[t] \in Asleep
        THEN IF TicksTo(s, t) <= n
             THEN Q[t] = s.uxPriority[t] /\ F[t] = Nothing
             ELSE Q[t] \in Asleep /\ F[t] = E[t] /\ TicksTo(a, t) = TicksTo(s, t) - n
        ELSE Q[t] = P[t] /\ F[t] = E[t]
    BY DEF Passed, Woken
  <2>2. IF Q[t] \in Asleep
        THEN IF TicksTo(a, t) <= 1
             THEN R[t] = s.uxPriority[t] /\ G[t] = Nothing
             ELSE R[t] \in Asleep /\ G[t] = F[t] /\ TicksTo(r, t) = TicksTo(a, t) - 1
        ELSE R[t] = Q[t] /\ G[t] = F[t]
    BY <1>1 DEF Passed, Woken
  <2>3. s.uxPriority[t] \notin Asleep
    BY PlacesDiffer DEF Asleep, Sched, Typed, PlacesOff
  <2>4. TicksTo(s, t) \in Int
    <3>1. s.wakeTime[t] \in Int /\ s.xTickCount \in Int
      BY Constants DEF Sched, Typed
    <3>2. s.wakeTime[t] - s.xTickCount \in Int
      BY <3>1
    <3>3. TicksTo(s, t) \in Ticks
      BY <3>2, TickSums DEF TicksTo
    <3> QED BY <3>3, Constants
  <2>5. CASE P[t] \notin Asleep
    BY <2>1, <2>2, <2>5
  <2>6. CASE P[t] \in Asleep /\ TicksTo(s, t) <= n
    BY <2>1, <2>2, <2>3, <2>4, <2>6
  <2>7. CASE P[t] \in Asleep /\ ~(TicksTo(s, t) <= n)
    BY <2>1, <2>2, <2>4, <2>7
  <2> QED BY <2>5, <2>6, <2>7
<1> QED BY <1>1, <1>2, <1>3, <1>4 DEF Passed

(* The ticks that were missed while the scheduler was suspended.           *)
LEMMA LateTicks ==
  ASSUME NEW s, NEW P, NEW E, Sched(s, P, E), Early(s, P), s.uxSchedulerSuspended = 0,
         s.uxMissedTicks \in 0 .. (TickMod - 1)
  PROVE  LET r == ProcessMissedTicks(s)
         IN  /\ \E Q, F : Passed(r, Q, F, s, P, E, s.uxMissedTicks)
             /\ r.uxMissedTicks = 0
<1> DEFINE n == s.uxMissedTicks
<1>1. n \in Nat /\ n \in 0 .. (TickMod - 1) /\ TickMod \in Nat
  BY Constants
<1>2. PICK run : IsRun(run, "tick", 0, s, <<>>, n) /\ ProcessMissedTicks(s) = run[n]
  BY <1>1, TickRun
<1> DEFINE Good(i) == /\ \E Q, F : Passed(run[i], Q, F, s, P, E, i)
                      /\ run[i].uxMissedTicks = n - i
           S == {i \in 0 .. n : Good(i)}
<1>3. 0 \in S
  <2>1. run[0] = s
    BY <1>2 DEF IsRun
  <2>2. AllBut(s, s, TimeFields) /\ s.uxTopReadyPriority >= s.uxTopReadyPriority
        /\ s.xTickCount \in Ticks
    BY Constants DEF AllBut, Sched, Typed
  <2>3. ClockMoved(s, s, 0)
    BY <2>2, Constants DEF ClockMoved
  <2>4. Woken(s, P, E, s, P, E, 0)
    <3>1. \A t \in Tasks : P[t] \in Asleep => ~(TicksTo(s, t) <= 0) /\ TicksTo(s, t) = TicksTo(s, t) - 0
      BY StillToSleep
    <3> QED BY <3>1 DEF Woken
  <2>5. Passed(s, P, E, s, P, E, 0)
    BY <2>2, <2>3, <2>4 DEF Passed
  <2>6. Good(0)
    BY <2>1, <2>5, <1>1
  <2> QED BY <2>6, <1>1
<1>4. ASSUME NEW i \in S, i < n PROVE i + 1 \in S
  <2> DEFINE a == run[i]
  <2>1. i + 1 \in 1 .. n /\ i + 1 \in 0 .. n /\ (i + 1) - 1 = i /\ i \in 0 .. (TickMod - 2)
        /\ n - i \in Nat /\ n - i - 1 \in Nat /\ n - (i + 1) = n - i - 1
    BY <1>1, <1>4
  <2>2. PICK Q, F : Passed(a, Q, F, s, P, E, i)
    OBVIOUS
  <2>3. a.uxMissedTicks = n - i
    OBVIOUS
  <2>4. run[i + 1] = LateTick(a)
    BY <1>2, <2>1 DEF IsRun, RoundOf
  <2> HIDE DEF a, n
  <2>5. Sched(a, Q, F) /\ Early(a, Q) /\ a.uxSchedulerSuspended = 0
    BY <2>2 DEF Passed, AllBut, SchedFields, TimeFields, ListFields, GenericFields, EventFields,
                ReadyFields
  <2> DEFINE b == vTaskIncrementTick(a)
             r == [b EXCEPT !.uxMissedTicks = @ - 1]
  <2>6. (\E R, G : Passed(b, R, G, a, Q, F, 1)) /\ b.uxMissedTicks = n - i
    BY <2>3, <2>5, OneTick
  <2>7. PICK R, G : Passed(b, R, G, a, Q, F, 1)
    BY <2>6
  <2>8. run[i + 1] = r
    BY <2>4 DEF LateTick
  <2> HIDE DEF b
  <2>9. AllBut(r, b, {"uxMissedTicks"}) /\ DOMAIN b = SchedFields /\ r.uxMissedTicks = n - i - 1
    BY <2>6, <2>7 DEF Passed, Sched, Typed, AllBut, SchedFields
  <2> HIDE DEF r
  <2>10. Typed(r)
    BY <2>1, <2>7, <2>9 DEF Passed, Sched, Typed, AllBut, SchedFields
  <2>11. AllBut(r, b, OtherFields)
    BY <2>9 DEF AllBut, OtherFields
  <2>12. /\ Sched(r, R, G) /\ Early(r, R) /\ r.terminated = b.terminated
         /\ r.uxTopReadyPriority = b.uxTopReadyPriority
         /\ \A t : TicksTo(r, t) = TicksTo(b, t)
    BY <2>7, <2>10, <2>11, Elsewhere DEF Passed
  <2>13. Passed(r, R, G, a, Q, F, 1)
    <3>1. AllBut(r, a, TimeFields)
      BY <2>7, <2>9 DEF Passed, AllBut, TimeFields
    <3>2. r.xTickCount = b.xTickCount /\ r.xNumOfOverflows = b.xNumOfOverflows
      BY <2>9 DEF AllBut, SchedFields
    <3>3. ClockMoved(r, a, 1)
      BY <2>7, <3>2 DEF Passed, ClockMoved
    <3>4. Woken(r, R, G, a, Q, F, 1)
      BY <2>7, <2>12 DEF Passed, Woken
    <3> QED BY <2>7, <2>12, <3>1, <3>3, <3>4 DEF Passed
  <2>14. Passed(r, R, G, s, P, E, i + 1)
    BY <2>1, <2>2, <2>13, TicksAdd
  <2>15. Good(i + 1)
    BY <2>1, <2>8, <2>9, <2>14
  <2> QED BY <2>1, <2>15 DEF n
<1>5. n \in S
  <2>1. S \in SUBSET (0 .. n)
    OBVIOUS
  <2> HIDE DEF S, n
  <2> QED BY <1>1, <1>3, <1>4, <2>1, Reaches0
<1>6. Good(n) /\ n - n = 0
  BY <1>1, <1>5
<1> QED BY <1>2, <1>6

-----------------------------------------------------------------------------
(* The scheduler between two steps.                                        *)

(* Every task that exists is in one list, and waits for an event only when *)
(* it is not ready; what interrupts leave for later is only left while the *)
(* scheduler is suspended; the idle task is ready once the scheduler runs. *)
Booting(s, P) ==
  /\ s.xTickCount = 0 /\ s.uxSchedulerSuspended = 0 /\ ~s.pendsv /\ P[idle] = Absent
  /\ \A t \in Tasks : P[t] >= 0 \/ P[t] = Absent
  /\ s.live = {} \/ P[s.pxCurrentTCB] >= 0

Settled(s, P, E) ==
  /\ Sched(s, P, E) /\ Early(s, P)
  /\ \A t \in Tasks : P[t] # Limbo /\ (P[t] = Absent <=> t \notin s.live)
  /\ \A t \in Tasks : E[t] # Nothing => P[t] \in Asleep \cup {Suspended}
  /\ s.uxSchedulerSuspended \in {0, 1} /\ s.uxMissedTicks <= MaxMissed
  /\ s.uxSchedulerSuspended = 0 => s.uxMissedTicks = 0 /\ \A t \in Tasks : E[t] # Pending
  /\ s.uxTasksDeleted = Len(s.terminated)
  /\ IF s.xSchedulerRunning THEN P[idle] >= 0 ELSE Booting(s, P)

(* The scheduler's clock, and whose turn it is, are as they were, and no   *)
(* task falls asleep.                                                      *)
SteadyFields == ListFields \cup {"uxPriority", "eventValue", "uxBasePriority", "pendsv",
  "xMissedYield", "live", "uxTasksDeleted"}

Steady(r, Q, F, s, P, E) ==
  /\ Settled(r, Q, F) /\ AllBut(r, s, SteadyFields)
  /\ \A t \in Tasks : Q[t] \in Asleep => P[t] \in Asleep

(* Every ready task but those of T stays ready.                            *)
StayReady(P, Q, T) == \A t \in Tasks \ T : P[t] >= 0 => Q[t] >= 0

(* What the other lemmas need of the numbers of a settled scheduler.       *)
LEMMA SettledNumbers ==
  ASSUME NEW s, NEW P, NEW E, Settled(s, P, E)
  PROVE  /\ Sched(s, P, E) /\ Typed(s) /\ Placed(s, P, E) /\ OnTime(s) /\ Ranked(s, P)
         /\ DOMAIN s = SchedFields /\ P \in [Tasks -> Int] /\ E \in [Tasks -> Waits]
         /\ DOMAIN P = Tasks /\ DOMAIN E = Tasks
BY DEF Settled, Sched, Typed, Placed

(* One steady change after another is steady.                              *)
LEMMA SteadyAgain ==
  ASSUME NEW s, NEW P, NEW E, NEW a, NEW Q, NEW F, Steady(a, Q, F, s, P, E),
         NEW r, NEW R, NEW G, Steady(r, R, G, a, Q, F)
  PROVE  Steady(r, R, G, s, P, E)
BY DEF Steady, AllBut

(* No change at all is steady.                                             *)
LEMMA SteadyStill ==
  ASSUME NEW s, NEW P, NEW E, Settled(s, P, E)
  PROVE  Steady(s, P, E, s, P, E) /\ StayReady(P, P, {})
BY DEF Steady, AllBut, StayReady

(* portYIELD, and the note that one is due.                                *)
LEMMA Yielded ==
  ASSUME NEW s, NEW P, NEW E, Settled(s, P, E), s.xSchedulerRunning,
         NEW r, AllBut(r, s, {"pendsv", "xMissedYield"}), r.pendsv \in BOOLEAN
  PROVE  Steady(r, P, E, s, P, E)
<1>1. DOMAIN s = SchedFields /\ DOMAIN r = SchedFields
  BY SettledNumbers DEF AllBut
<1>2. Typed(r)
  BY <1>1, SettledNumbers DEF AllBut, Typed, SchedFields
<1>3. AllBut(r, s, OtherFields) /\ AllBut(r, s, SteadyFields)
  BY <1>1 DEF AllBut, OtherFields, SteadyFields
<1>4. /\ Sched(r, P, E) /\ Early(r, P) /\ r.terminated = s.terminated
  BY <1>2, <1>3, SettledNumbers, Elsewhere DEF Settled
<1>5. Settled(r, P, E)
  BY <1>4 DEF Settled, AllBut, SchedFields
<1> QED BY <1>3, <1>5 DEF Steady

(* YieldIf.                                                                *)
LEMMA YieldedIf ==
  ASSUME NEW s, NEW P, NEW E, Settled(s, P, E), s.xSchedulerRunning, NEW b
  PROVE  /\ Steady(YieldIf(b, s), P, E, s, P, E) /\ AllBut(YieldIf(b, s), s, {"pendsv"})
         /\ Steady(taskYIELD(s), P, E, s, P, E) /\ AllBut(taskYIELD(s), s, {"pendsv"})
         /\ taskYIELD(s).pendsv = TRUE
<1>1. /\ AllBut(taskYIELD(s), s, {"pendsv"}) /\ taskYIELD(s).pendsv = TRUE
  BY SettledNumbers DEF AllBut, taskYIELD, SchedFields
<1>2. AllBut(taskYIELD(s), s, {"pendsv", "xMissedYield"})
  BY <1>1 DEF AllBut
<1>3. Steady(taskYIELD(s), P, E, s, P, E)
  BY <1>1, <1>2, Yielded
<1>4. Steady(s, P, E, s, P, E) /\ AllBut(s, s, {"pendsv"})
  BY SteadyStill DEF AllBut
<1> QED BY <1>1, <1>3, <1>4 DEF YieldIf

(* A task that exists is made ready.                                       *)
LEMMA ReadySteady ==
  ASSUME NEW s, NEW P, NEW E, Settled(s, P, E), s.xSchedulerRunning,
         NEW t \in Tasks, P[t] \notin {Terminated, Absent},
         NEW r, AsReady(r, s, P, E, t)
  PROVE  LET Q == [P EXCEPT ![t] = s.uxPriority[t]]
             F == [E EXCEPT ![t] = Nothing]
         IN  Steady(r, Q, F, s, P, E) /\ StayReady(P, Q, {})
<1> DEFINE Q == [P EXCEPT ![t] = s.uxPriority[t]]
           F == [E EXCEPT ![t] = Nothing]
<1>1. /\ P \in [Tasks -> Int] /\ E \in [Tasks -> Waits] /\ s.uxPriority[t] \in Prios
  BY SettledNumbers DEF Typed
<1>2. /\ s.uxPriority[t] >= 0 /\ s.uxPriority[t] \notin PlacesOff
  BY <1>1, Constants, PlacesDiffer
<1>3. /\ \A u \in Tasks : Q[u] = IF u = t THEN s.uxPriority[t] ELSE P[u]
      /\ \A u \in Tasks : F[u] = IF u = t THEN Nothing ELSE E[u]
  BY <1>1
<1> HIDE DEF Q, F
<1>4. /\ Sched(r, Q, F) /\ AllBut(r, s, ListFields) /\ r.terminated = s.terminated
  BY DEF AsReady, Q, F
<1>5. /\ r.live = s.live /\ r.xSchedulerRunning = s.xSchedulerRunning
      /\ r.uxSchedulerSuspended = s.uxSchedulerSuspended /\ r.uxMissedTicks = s.uxMissedTicks
      /\ r.uxTasksDeleted = s.uxTasksDeleted /\ r.wakeTime = s.wakeTime
      /\ r.xTickCount = s.xTickCount
  BY <1>4 DEF AllBut, SchedFields, ListFields, GenericFields, EventFields, ReadyFields
<1>6. Early(r, Q)
  BY <1>2, <1>3, <1>5 DEF Settled, Early, PlacesOff
<1>7. \A u \in Tasks : Q[u] # Limbo /\ (Q[u] = Absent <=> u \notin r.live)
  BY <1>2, <1>3, <1>5 DEF Settled, PlacesOff
<1>8. \A u \in Tasks : F[u] # Nothing => Q[u] \in Asleep \cup {Suspended}
  BY <1>3 DEF Settled
<1>9. Settled(r, Q, F)
  <2>1. r.uxSchedulerSuspended = 0 => \A u \in Tasks : F[u] # Pending
    BY <1>3, <1>5, WaitsDiffer DEF Settled
  <2>2. Q[idle] >= 0
    BY <1>2, <1>3, Constants DEF Settled
  <2> QED BY <1>4, <1>5, <1>6, <1>7, <1>8, <2>1, <2>2 DEF Settled
<1>10. AllBut(r, s, SteadyFields)
  BY <1>4 DEF AllBut, SteadyFields
<1>11. \A u \in Tasks : Q[u] \in Asleep => P[u] \in Asleep
  BY <1>2, <1>3 DEF Asleep, PlacesOff
<1>12. StayReady(P, Q, {})
  BY <1>2, <1>3 DEF StayReady
<1> QED BY <1>9, <1>10, <1>11, <1>12 DEF Steady, Q, F

(* A task that waits for nothing becomes pending, or one that waits for an *)
(* event does, while the scheduler is suspended.                           *)
LEMMA PendSteady ==
  ASSUME NEW s, NEW P, NEW E, Settled(s, P, E), s.xSchedulerRunning,
         s.uxSchedulerSuspended # 0,
         NEW r, NEW F, Sched(r, P, F), AllBut(r, s, EventFields \cup {"xMissedYield"}),
         \A t \in Tasks : F[t] = E[t] \/ P[t] \in Asleep \cup {Suspended}
  PROVE  Steady(r, P, F, s, P, E) /\ StayReady(P, P, {})
<1>1. /\ r.live = s.live /\ r.xSchedulerRunning = s.xSchedulerRunning
      /\ r.uxSchedulerSuspended = s.uxSchedulerSuspended /\ r.uxMissedTicks = s.uxMissedTicks
      /\ r.uxTasksDeleted = s.uxTasksDeleted /\ r.wakeTime = s.wakeTime
      /\ r.xTickCount = s.xTickCount /\ r.terminated = s.terminated
  BY DEF AllBut, SchedFields, EventFields
<1>2. Early(r, P)
  BY <1>1 DEF Settled, Early
<1>3. Settled(r, P, F)
  BY <1>1, <1>2 DEF Settled
<1>4. AllBut(r, s, SteadyFields)
  BY DEF AllBut, SteadyFields, ListFields
<1> QED BY <1>3, <1>4 DEF Steady, StayReady

(* How many of the waiters on a list an unlock takes off it.               *)
Counts(lock, waiters) ==
  IF lock <= queueLOCKED_UNMODIFIED THEN 0 ELSE IF lock < waiters THEN lock ELSE waiters

(* What an unlock leaves: as many waiters are pending as were counted.     *)
Unlocks(r, F, s, P, E, l, lock) ==
  /\ Steady(r, P, F, s, P, E)
  /\ AllBut(r, s, EventFields \cup {"xMissedYield"})
  /\ \A t \in Tasks : E[t] = Nothing => F[t] = Nothing
  /\ NowPending(E, F, l)
  /\ Len(r.event[l]) = Len(s.event[l]) - Counts(lock, Len(s.event[l]))
  /\ s.xMissedYield => r.xMissedYield

(* prvUnlockQueue wakes what was counted.                                  *)
LEMMA CountedSteady ==
  ASSUME NEW s, NEW P, NEW E, Settled(s, P, E), s.xSchedulerRunning,
         s.uxSchedulerSuspended # 0, NEW l \in EventLists, NEW lock \in Int
  PROVE  \E F : Unlocks(WakeCounted(s, l, lock), F, s, P, E, l, lock)
<1> DEFINE r == WakeCounted(s, l, lock)
<1>1. CASE lock <= queueLOCKED_UNMODIFIED
  <2>1. r = s
    BY <1>1 DEF WakeCounted
  <2>2. Steady(s, P, E, s, P, E) /\ AllBut(s, s, EventFields \cup {"xMissedYield"})
    BY SteadyStill DEF AllBut
  <2>3. NowPending(E, E, l) /\ Counts(lock, Len(s.event[l])) = 0
    BY <1>1 DEF NowPending, Counts
  <2>4. Len(s.event[l]) \in Nat
    BY SettledNumbers DEF Placed, Lists, IsList
  <2> HIDE DEF r
  <2>5. Len(r.event[l]) = Len(s.event[l]) - Counts(lock, Len(s.event[l]))
    BY <2>1, <2>3, <2>4
  <2>6. Unlocks(r, E, s, P, E, l, lock)
    BY <2>1, <2>2, <2>3, <2>5 DEF Unlocks
  <2> QED BY <2>6 DEF r
<1>2. CASE lock > queueLOCKED_UNMODIFIED
  <2> DEFINE n == IF lock < Len(s.event[l]) THEN lock ELSE Len(s.event[l])
  <2>1. IsList(s.event[l]) /\ Sched(s, P, E)
    BY SettledNumbers DEF Placed, Lists
  <2>2. n \in 0 .. Len(s.event[l])
    BY <2>1, <1>2 DEF IsList, queueLOCKED_UNMODIFIED
  <2>3. PICK run, seq : IsRun(run, "next", l, s, seq, n) /\ r = run[n]
    BY <2>1, <1>2, NextRun
  <2> HIDE DEF n, r
  <2>4. PICK F : Pended(run[n], F, s, P, E, l, n)
    BY <2>1, <2>2, <2>3, LoopPends
  <2>10. /\ Sched(run[n], P, F) /\ NowPending(E, F, l)
         /\ AllBut(run[n], s, EventFields \cup {"xMissedYield"})
         /\ Len(run[n].event[l]) = Len(s.event[l]) - n
         /\ s.xMissedYield => run[n].xMissedYield
    BY <2>4 DEF Pended
  <2>5. \A t \in Tasks : /\ F[t] = E[t] \/ P[t] \in Asleep \cup {Suspended}
                         /\ E[t] = Nothing => F[t] = Nothing
    BY <2>10, WaitsDiffer DEF NowPending, Settled
  <2>6. Steady(r, P, F, s, P, E)
    BY <2>3, <2>10, <2>5, PendSteady
  <2>7. Counts(lock, Len(s.event[l])) = n
    BY <1>2 DEF Counts, queueLOCKED_UNMODIFIED, n
  <2>8. Len(r.event[l]) = Len(s.event[l]) - Counts(lock, Len(s.event[l]))
    BY <2>3, <2>10, <2>7
  <2>9. Unlocks(r, F, s, P, E, l, lock)
    BY <2>3, <2>10, <2>5, <2>6, <2>8 DEF Unlocks
  <2> QED BY <2>9 DEF r
<1> QED BY <1>1, <1>2 DEF queueLOCKED_UNMODIFIED

(* A change of lists that leaves the clock alone.                          *)
LEMMA SteadyChange ==
  ASSUME NEW s, NEW P, NEW E, Settled(s, P, E), s.xSchedulerRunning,
         NEW r, NEW Q, NEW F, Sched(r, Q, F), AllBut(r, s, SteadyFields),
         \A t \in Tasks : Q[t] \in Asleep => Q[t] = P[t],
         \A t \in Tasks : Q[t] # Limbo /\ (Q[t] = Absent <=> t \notin r.live),
         \A t \in Tasks : F[t] # Nothing => Q[t] \in Asleep \cup {Suspended},
         s.uxSchedulerSuspended = 0 => \A t \in Tasks : F[t] # Pending,
         r.uxTasksDeleted = Len(r.terminated), Q[idle] >= 0
  PROVE  Steady(r, Q, F, s, P, E)
<1>1. /\ r.xSchedulerRunning = s.xSchedulerRunning /\ r.wakeTime = s.wakeTime
      /\ r.uxSchedulerSuspended = s.uxSchedulerSuspended /\ r.uxMissedTicks = s.uxMissedTicks
      /\ r.xTickCount = s.xTickCount
  BY DEF AllBut, SchedFields, SteadyFields, ListFields, GenericFields, EventFields, ReadyFields
<1>2. Early(r, Q)
  BY <1>1 DEF Settled, Early, Asleep
<1>3. Settled(r, Q, F)
  BY <1>1, <1>2 DEF Settled
<1> QED BY <1>3 DEF Steady

(* Fields that make room for others.                                       *)
LEMMA MoreFields ==
  ASSUME NEW r, NEW s, NEW A, AllBut(r, s, A),
         A \subseteq ListFields \cup {"uxPriority", "eventValue"}
  PROVE  /\ AllBut(r, s, SteadyFields)
         /\ r.live = s.live /\ r.uxTasksDeleted = s.uxTasksDeleted
         /\ r.uxSchedulerSuspended = s.uxSchedulerSuspended
         /\ r.xSchedulerRunning = s.xSchedulerRunning
BY DEF AllBut, SchedFields, SteadyFields, ListFields, GenericFields, EventFields, ReadyFields

-----------------------------------------------------------------------------
(* Waking a waiter.                                                        *)
LEMMA WaiterWoken ==
  ASSUME NEW s, NEW P, NEW E, Settled(s, P, E), s.xSchedulerRunning, NEW l \in EventLists
  PROVE  LET r == WakeWaiter(s, l)
         IN  \E Q, F : /\ Steady(r, Q, F, s, P, E) /\ StayReady(P, Q, {})
                       /\ s.uxSchedulerSuspended # 0
                            => AllBut(r, s, EventFields \cup {"pendsv"})
<1> DEFINE t == Head(s.event[l])
           a == xTaskRemoveFromEventList(s, l)
<1>0. /\ Sched(s, P, E) /\ Lists(s.event[l], E, l)
  BY SettledNumbers DEF Placed
<1>1. CASE s.event[l] = <<>>
  <2>1. AllBut(s, s, EventFields \cup {"pendsv"})
    BY DEF AllBut
  <2> QED BY <1>1, <2>1, SteadyStill DEF WakeWaiter
<1>2. CASE s.event[l] # <<>>
  <2>1. t \in Tasks /\ E[t] = l /\ P[t] \in Asleep \cup {Suspended}
    <3>1. t \in Tasks /\ E[t] = l
      BY <1>0, <1>2, HeadAndTail DEF Lists
    <3> QED BY <3>1, WaitsDiffer DEF Settled
  <2>2. WakeWaiter(s, l) = YieldIf(a.woken, a.k)
    BY <1>2 DEF WakeWaiter
  <2>3. \E Q, F : /\ Steady(a.k, Q, F, s, P, E) /\ StayReady(P, Q, {})
                  /\ s.uxSchedulerSuspended # 0 => AllBut(a.k, s, EventFields)
    <3>1. CASE s.uxSchedulerSuspended = 0
      <4> DEFINE s1 == vListRemoveEvent(s, t)
      <4>1. AllBut(s1, s, EventFields)
        BY <1>0, <2>1, EventOut
      <4>2. s1.uxSchedulerSuspended = 0
        BY <3>1, <4>1 DEF AllBut, SchedFields, EventFields
      <4>3. a.k = MovePending(s, t)
        BY <4>2 DEF xTaskRemoveFromEventList, ReadyOrPend, MovePending
      <4> HIDE DEF s1, t, a
      <4>4. AsReady(a.k, s, P, E, t)
        BY <4>3, <1>0, <2>1, Readied
      <4>5. P[t] \notin {Terminated, Absent}
        BY <2>1, PlacesDiffer DEF Asleep
      <4> QED BY <3>1, <2>1, <4>4, <4>5, ReadySteady
    <3>2. CASE s.uxSchedulerSuspended # 0
      <4> DEFINE F == [E EXCEPT ![t] = Pending]
      <4>1. /\ Sched(a.k, P, F) /\ NowPending(E, F, l) /\ AllBut(a.k, s, EventFields)
        BY <1>0, <1>2, <3>2, OnePending
      <4> HIDE DEF a, F
      <4>2. AllBut(a.k, s, EventFields \cup {"xMissedYield"})
        BY <4>1 DEF AllBut
      <4>3. \A u \in Tasks : F[u] = E[u] \/ P[u] \in Asleep \cup {Suspended}
        BY <4>1, WaitsDiffer DEF NowPending, Settled
      <4> QED BY <3>2, <4>1, <4>2, <4>3, PendSteady
    <3> QED BY <3>1, <3>2
  <2>4. PICK Q, F : /\ Steady(a.k, Q, F, s, P, E) /\ StayReady(P, Q, {})
                    /\ s.uxSchedulerSuspended # 0 => AllBut(a.k, s, EventFields)
    BY <2>3
  <2> DEFINE r == YieldIf(a.woken, a.k)
  <2>5. Settled(a.k, Q, F) /\ a.k.xSchedulerRunning
    BY <2>4 DEF Steady, AllBut, SchedFields, SteadyFields, ListFields, GenericFields,
                EventFields, ReadyFields
  <2>6. Steady(r, Q, F, a.k, Q, F) /\ AllBut(r, a.k, {"pendsv"})
    BY <2>5, YieldedIf
  <2> HIDE DEF r, a
  <2>7. Steady(r, Q, F, s, P, E)
    BY <2>4, <2>6, SteadyAgain
  <2>8. s.uxSchedulerSuspended # 0 => AllBut(r, s, EventFields \cup {"pendsv"})
    BY <2>4, <2>6 DEF AllBut
  <2> QED BY <2>2, <2>4, <2>7, <2>8 DEF r
<1> QED BY <1>1, <1>2

-----------------------------------------------------------------------------
(* Priorities.                                                             *)

(* The priority of a task that is not ready.                               *)
LEMMA PrioritySet ==
  ASSUME NEW s, NEW P, NEW E, Sched(s, P, E), NEW t \in Tasks, ~(P[t] >= 0), NEW p \in Prios
  PROVE  LET r == SetPriority(s, t, p)
         IN  /\ Sched(r, P, E) /\ AllBut(r, s, {"uxPriority", "eventValue"})
             /\ r.uxPriority[t] = p
<1> DEFINE r == SetPriority(s, t, p)
<1>0. Typed(s) /\ Placed(s, P, E) /\ OnTime(s) /\ Ranked(s, P) /\ DOMAIN s = SchedFields
  BY DEF Sched, Typed
<1>1. /\ AllBut(r, s, {"uxPriority", "eventValue"}) /\ DOMAIN r = SchedFields
      /\ r.uxPriority = [s.uxPriority EXCEPT ![t] = p]
      /\ r.eventValue = [s.eventValue EXCEPT ![t] = configMAX_PRIORITIES - p]
  BY <1>0 DEF AllBut, SchedFields, SetPriority
<1> HIDE DEF r
<1>2. configMAX_PRIORITIES - p \in 1 .. configMAX_PRIORITIES
  BY Constants DEF Prios
<1>3. /\ r.uxPriority \in [Tasks -> Prios] /\ r.eventValue \in [Tasks -> 1 .. configMAX_PRIORITIES]
      /\ r.uxPriority[t] = p /\ \A u \in Tasks : u # t => r.uxPriority[u] = s.uxPriority[u]
  BY <1>0, <1>1, <1>2 DEF Typed
<1>4. Typed(r)
  BY <1>0, <1>1, <1>3 DEF AllBut, Typed, SchedFields
<1>5. Placed(r, P, E) /\ OnTime(r)
  BY <1>0, <1>1 DEF AllBut, Placed, OnTime, SchedFields
<1>6. Ranked(r, P)
  BY <1>0, <1>1, <1>3 DEF Ranked, AllBut, SchedFields
<1> QED BY <1>1, <1>3, <1>4, <1>5, <1>6 DEF Sched, r

(* A ready task is taken out of its list, gets another priority, and goes  *)
(* into the list of that.                                                  *)
LEMMA PriorityMoved ==
  ASSUME NEW s, NEW P, NEW E, Settled(s, P, E), s.xSchedulerRunning,
         NEW t \in Tasks, P[t] >= 0, NEW p \in Prios
  PROVE  LET r == prvAddTaskToReadyQueue(SetPriority(vListRemoveGeneric(s, t), t, p), t)
             Q == [P EXCEPT ![t] = p]
         IN  Steady(r, Q, E, s, P, E) /\ StayReady(P, Q, {})
<1> DEFINE s1 == vListRemoveGeneric(s, t)
           s2 == SetPriority(s1, t, p)
           r == prvAddTaskToReadyQueue(s2, t)
           L == [P EXCEPT ![t] = Limbo]
           Q == [P EXCEPT ![t] = p]
<1>0. /\ Sched(s, P, E) /\ P \in [Tasks -> Int] /\ p >= 0 /\ p \notin PlacesOff
  BY SettledNumbers, Constants, PlacesDiffer
<1>a. /\ L[t] = Limbo /\ ~(L[t] >= 0) /\ [L EXCEPT ![t] = p] = Q /\ P[t] \notin PlacesOff
      /\ \A u \in Tasks : Q[u] = IF u = t THEN p ELSE P[u]
  BY <1>0, PlacesDiffer DEF PlacesOff
<1> HIDE DEF L, Q
<1>1. /\ Sched(s1, L, E) /\ AllBut(s1, s, GenericFields) /\ s1.terminated = s.terminated
  <2>1. P[t] # Terminated
    BY <1>a DEF PlacesOff
  <2> QED BY <1>0, <2>1, GenericOut DEF L
<1> HIDE DEF s1
<1>2. /\ Sched(s2, L, E) /\ AllBut(s2, s1, {"uxPriority", "eventValue"}) /\ s2.uxPriority[t] = p
  BY <1>1, <1>a, PrioritySet
<1> HIDE DEF s2
<1>3. /\ Sched(r, [L EXCEPT ![t] = s2.uxPriority[t]], E) /\ AllBut(r, s2, ReadyFields)
  BY <1>2, <1>a, ReadyIn
<1> HIDE DEF r
<1>4. Sched(r, Q, E)
  BY <1>2, <1>3, <1>a
<1>5. /\ AllBut(r, s, ListFields \cup {"uxPriority", "eventValue"})
      /\ r.terminated = s.terminated
  BY <1>1, <1>2, <1>3 DEF AllBut, SchedFields, ListFields, GenericFields, EventFields, ReadyFields
<1>6. /\ AllBut(r, s, SteadyFields) /\ r.live = s.live /\ r.uxTasksDeleted = s.uxTasksDeleted
  BY <1>5, MoreFields
<1>7. /\ \A u \in Tasks : Q[u] \in Asleep => Q[u] = P[u]
      /\ \A u \in Tasks : Q[u] # Limbo /\ (Q[u] = Absent <=> u \notin r.live)
      /\ \A u \in Tasks : E[u] # Nothing => Q[u] \in Asleep \cup {Suspended}
      /\ Q[idle] >= 0 /\ r.uxTasksDeleted = Len(r.terminated)
  <2>1. p \notin Asleep /\ p # Limbo /\ p # Absent
    BY <1>0 DEF PlacesOff, Asleep
  <2>2. E[t] = Nothing /\ t \in s.live
    BY <1>a DEF Settled, PlacesOff, Asleep
  <2> QED BY <1>0, <1>a, <1>5, <1>6, <2>1, <2>2, Constants DEF Settled
<1>8. Steady(r, Q, E, s, P, E)
  BY <1>4, <1>6, <1>7, SteadyChange DEF Settled
<1>9. StayReady(P, Q, {})
  BY <1>0, <1>a DEF StayReady
<1> QED BY <1>8, <1>9 DEF r, s2, s1, Q

(* vTaskPriorityDisinherit of a task that runs.                            *)
LEMMA Disinherited ==
  ASSUME NEW s, NEW P, NEW E, Settled(s, P, E), s.xSchedulerRunning,
         NEW t, t \in Tasks => P[t] >= 0
  PROVE  LET r == vTaskPriorityDisinherit(s, t)
         IN  \E Q : Steady(r, Q, E, s, P, E) /\ StayReady(P, Q, {})
<1>1. CASE t \notin Tasks \/ s.uxPriority[t] = s.uxBasePriority[t]
  BY <1>1, SteadyStill DEF vTaskPriorityDisinherit
<1>2. CASE ~(t \notin Tasks \/ s.uxPriority[t] = s.uxBasePriority[t])
  <2>1. t \in Tasks /\ P[t] >= 0 /\ s.uxBasePriority[t] \in Prios
    BY <1>2, SettledNumbers DEF Typed
  <2>2. vTaskPriorityDisinherit(s, t)
          = prvAddTaskToReadyQueue(SetPriority(vListRemoveGeneric(s, t), t, s.uxBasePriority[t]), t)
    BY <1>2 DEF vTaskPriorityDisinherit
  <2> DEFINE r == vTaskPriorityDisinherit(s, t)
             Q == [P EXCEPT ![t] = s.uxBasePriority[t]]
  <2>3. Steady(r, Q, E, s, P, E) /\ StayReady(P, Q, {})
    BY <2>1, <2>2, PriorityMoved
  <2> QED BY <2>3
<1> QED BY <1>1, <1>2

(* vTaskPriorityInherit sets the priority before it moves the task.        *)
LEMMA SetThenMove ==
  ASSUME NEW s, DOMAIN s = SchedFields, NEW t, NEW p
  PROVE  vListRemoveGeneric(SetPriority(s, t, p), t) = SetPriority(vListRemoveGeneric(s, t), t, p)
<1> DEFINE a == vListRemoveGeneric(SetPriority(s, t, p), t)
           b == SetPriority(vListRemoveGeneric(s, t), t, p)
<1>1. /\ DOMAIN a = SchedFields /\ DOMAIN b = SchedFields
      /\ a = [f \in SchedFields |-> a[f]] /\ b = [f \in SchedFields |-> b[f]]
  BY DEF vListRemoveGeneric, SetPriority
<1>2. \A f \in SchedFields : a[f] = b[f]
  <2>1. \A f \in SchedFields \ (GenericFields \cup {"uxPriority", "eventValue"}) : a[f] = b[f]
    BY DEF vListRemoveGeneric, SetPriority, SchedFields, GenericFields
  <2>2. /\ a.ready = b.ready /\ a.delayed = b.delayed /\ a.overflow = b.overflow
        /\ a.suspended = b.suspended /\ a.terminated = b.terminated
    BY DEF vListRemoveGeneric, SetPriority, SchedFields
  <2>3. a.uxPriority = b.uxPriority /\ a.eventValue = b.eventValue
    BY DEF vListRemoveGeneric, SetPriority, SchedFields
  <2> HIDE DEF a, b
  <2> QED BY <2>1, <2>2, <2>3 DEF GenericFields
<1> HIDE DEF a, b
<1>3. a = b
  BY <1>1, <1>2
<1> QED BY <1>3 DEF a, b

(* vTaskPriorityInherit moves a ready holder to the list of its new        *)
(* priority.                                                               *)
LEMMA Inherited ==
  ASSUME NEW s, NEW P, NEW E, Settled(s, P, E), s.xSchedulerRunning, NEW t \in Tasks
  PROVE  LET r == vTaskPriorityInherit(s, t)
         IN  \E Q : Steady(r, Q, E, s, P, E) /\ StayReady(P, Q, {})
<1> DEFINE p == s.uxPriority[s.pxCurrentTCB]
           s1 == SetPriority(s, t, p)
<1>0. /\ Sched(s, P, E) /\ DOMAIN s = SchedFields /\ p \in Prios /\ s.uxPriority[t] \in Prios
      /\ P \in [Tasks -> Int]
  BY SettledNumbers DEF Typed
<1>1. t \in ToSet(s.ready[s.uxPriority[t]]) <=> P[t] >= 0
  <2>1. t \in ToSet(s.ready[s.uxPriority[t]]) <=> P[t] = s.uxPriority[t]
    BY <1>0, SettledNumbers DEF Placed, Lists
  <2> QED BY <2>1, <1>0, SettledNumbers, Constants DEF Ranked
<1> HIDE DEF p
<1>2. CASE s.uxPriority[t] >= p
  BY <1>2, SteadyStill DEF vTaskPriorityInherit, p
<1>3. CASE ~(s.uxPriority[t] >= p) /\ P[t] >= 0
  <2>1. vTaskPriorityInherit(s, t) = prvAddTaskToReadyQueue(vListRemoveGeneric(s1, t), t)
    BY <1>1, <1>3 DEF vTaskPriorityInherit, p
  <2>2. vListRemoveGeneric(s1, t) = SetPriority(vListRemoveGeneric(s, t), t, p)
    BY <1>0, SetThenMove
  <2> DEFINE r == vTaskPriorityInherit(s, t)
             Q == [P EXCEPT ![t] = p]
  <2>3. Steady(r, Q, E, s, P, E) /\ StayReady(P, Q, {})
    BY <1>0, <1>3, <2>1, <2>2, PriorityMoved
  <2> QED BY <2>3
<1>4. CASE ~(s.uxPriority[t] >= p) /\ ~(P[t] >= 0)
  <2>1. vTaskPriorityInherit(s, t) = s1
    BY <1>1, <1>4 DEF vTaskPriorityInherit, p
  <2>2. /\ Sched(s1, P, E) /\ AllBut(s1, s, {"uxPriority", "eventValue"})
    BY <1>0, <1>4, PrioritySet
  <2> HIDE DEF s1
  <2>3. /\ AllBut(s1, s, SteadyFields) /\ s1.live = s.live
        /\ s1.uxTasksDeleted = s.uxTasksDeleted /\ s1.terminated = s.terminated
    BY <2>2, MoreFields DEF AllBut, SchedFields
  <2>4. Steady(s1, P, E, s, P, E)
    BY <2>2, <2>3, SteadyChange DEF Settled
  <2>5. StayReady(P, P, {})
    BY DEF StayReady
  <2> QED BY <2>1, <2>4, <2>5
<1> QED BY <1>2, <1>3, <1>4

-----------------------------------------------------------------------------
(* Suspending, deleting, resuming and creating tasks.                      *)

SleepFields == {"delayed", "overflow", "suspended", "terminated"}

(* A task that was in no list is put in one that is not a ready list.      *)
LEMMA PutAway ==
  ASSUME NEW s, NEW P, NEW E, Sched(s, P, E), NEW t \in Tasks, P[t] \in PlacesOff,
         NEW v \in PlacesOff, NEW Q, Q = [P EXCEPT ![t] = v],
         NEW r, Typed(r), AllBut(r, s, SleepFields \cup OtherFields \cup {"wakeTime"}),
         Lists(r.delayed, Q, Delayed), Lists(r.overflow, Q, Overflowed),
         Lists(r.terminated, Q, Terminated), r.suspended = {u \in Tasks : Q[u] = Suspended}
  PROVE  Placed(r, Q, E) /\ Ranked(r, Q)
<1>0. /\ Placed(s, P, E) /\ Ranked(s, P) /\ P \in [Tasks -> Int] /\ DOMAIN P = Tasks
      /\ v \in Int /\ ~(v >= 0)
  BY PlacesDiffer DEF Sched, Placed, PlacesOff
<1>1. /\ r.ready = s.ready /\ r.event = s.event /\ r.pending = s.pending
      /\ r.uxPriority = s.uxPriority /\ r.uxTopReadyPriority = s.uxTopReadyPriority
  BY DEF AllBut, SchedFields, SleepFields, OtherFields
<1>2. ASSUME NEW p \in Prios PROVE Lists(r.ready[p], Q, p)
  <2>1. Lists(s.ready[p], P, p) /\ P[t] # p /\ v # p
    BY <1>0, PlacesDiffer DEF Placed
  <2> QED BY <2>1, <1>0, <1>1, Ignores
<1>3. Q \in [Tasks -> Int]
  BY <1>0
<1>a. Somewhere(Q)
  BY <1>0, StillSomewhere DEF Placed
<1>4. Placed(r, Q, E)
  BY <1>0, <1>1, <1>2, <1>3, <1>a DEF Placed
<1>5. Ranked(r, Q)
  <2>1. \A u \in Tasks : Q[u] >= 0 => Q[u] = P[u]
    BY <1>0
  <2> QED BY <2>1, <1>0, <1>1 DEF Ranked
<1> QED BY <1>4, <1>5

(* A task is taken off whatever lists it is in.                            *)
LEMMA Unlinked ==
  ASSUME NEW s, NEW P, NEW E, Sched(s, P, E), NEW t \in Tasks
  PROVE  LET r == vListRemoveEvent(vListRemoveGeneric(s, t), t)
         IN  /\ Sched(r, [P EXCEPT ![t] = Limbo], [E EXCEPT ![t] = Nothing])
             /\ AllBut(r, s, GenericFields \cup EventFields)
             /\ P[t] # Terminated => r.terminated = s.terminated
<1> DEFINE s1 == vListRemoveGeneric(s, t)
           r == vListRemoveEvent(s1, t)
           L == [P EXCEPT ![t] = Limbo]
<1>1. /\ Sched(s1, L, E) /\ AllBut(s1, s, GenericFields)
      /\ P[t] # Terminated => s1.terminated = s.terminated
  BY GenericOut
<1> HIDE DEF s1, L
<1>2. Sched(r, L, [E EXCEPT ![t] = Nothing]) /\ AllBut(r, s1, EventFields)
  BY <1>1, EventOut
<1> HIDE DEF r
<1>3. /\ AllBut(r, s, GenericFields \cup EventFields) /\ r.terminated = s1.terminated
  BY <1>1, <1>2 DEF AllBut, SchedFields, GenericFields, EventFields
<1> QED BY <1>1, <1>2, <1>3 DEF r, s1, L

(* vTaskSuspend and vTaskDelete.                                           *)
LEMMA SuspendedOrDeleted ==
  ASSUME NEW s, NEW P, NEW E, Settled(s, P, E), s.xSchedulerRunning,
         NEW t \in Tasks \ {idle}, P[t] \notin {Terminated, Absent}
  PROVE  LET F == [E EXCEPT ![t] = Nothing]
             Q == [P EXCEPT ![t] = Suspended]
             R == [P EXCEPT ![t] = Terminated]
         IN  /\ Steady(TaskSuspend(s, t), Q, F, s, P, E) /\ StayReady(P, Q, {t})
             /\ Steady(TaskDelete(s, t), R, F, s, P, E) /\ StayReady(P, R, {t})
<1> DEFINE s1 == vListRemoveEvent(vListRemoveGeneric(s, t), t)
           L == [P EXCEPT ![t] = Limbo]
           F == [E EXCEPT ![t] = Nothing]
           Q == [P EXCEPT ![t] = Suspended]
           R == [P EXCEPT ![t] = Terminated]
           a == TaskSuspend(s, t)
           b == TaskDelete(s, t)
<1>0. /\ Sched(s, P, E) /\ P \in [Tasks -> Int] /\ E \in [Tasks -> Waits]
      /\ s.uxTasksDeleted \in Nat
  BY SettledNumbers DEF Typed
<1>1. /\ Sched(s1, L, F) /\ AllBut(s1, s, GenericFields \cup EventFields)
      /\ s1.terminated = s.terminated /\ DOMAIN s1 = SchedFields
  <2>1. /\ Sched(s1, L, F) /\ AllBut(s1, s, GenericFields \cup EventFields)
        /\ s1.terminated = s.terminated
    BY <1>0, Unlinked
  <2> QED BY <2>1 DEF Sched, Typed
<1>2. /\ AllBut(s1, s, SteadyFields) /\ s1.live = s.live /\ s1.uxTasksDeleted = s.uxTasksDeleted
  <2>1. AllBut(s1, s, ListFields)
    BY <1>1 DEF AllBut, ListFields
  <2> QED BY <2>1, MoreFields
<1>3. a = [s1 EXCEPT !.suspended = @ \cup {t}]
  BY DEF TaskSuspend
<1>4. b = [s1 EXCEPT !.terminated = Append(@, t), !.uxTasksDeleted = @ + 1]
  BY DEF TaskDelete
<1> HIDE DEF s1
<1>5. /\ AllBut(a, s1, {"suspended"}) /\ DOMAIN a = SchedFields
      /\ a.suspended = s1.suspended \cup {t}
  BY <1>1, <1>3 DEF AllBut, SchedFields
<1>6. /\ AllBut(b, s1, {"terminated", "uxTasksDeleted"}) /\ DOMAIN b = SchedFields
      /\ b.terminated = Append(s1.terminated, t) /\ b.uxTasksDeleted = s1.uxTasksDeleted + 1
  BY <1>1, <1>4 DEF AllBut, SchedFields
<1> HIDE DEF a, b
<1>7. /\ L[t] = Limbo /\ DOMAIN L = Tasks /\ Limbo \in PlacesOff
      /\ [L EXCEPT ![t] = Suspended] = Q /\ [L EXCEPT ![t] = Terminated] = R
      /\ \A u \in Tasks : Q[u] = IF u = t THEN Suspended ELSE P[u]
      /\ \A u \in Tasks : R[u] = IF u = t THEN Terminated ELSE P[u]
      /\ \A u \in Tasks : F[u] = IF u = t THEN Nothing ELSE E[u]
  BY <1>0 DEF PlacesOff
<1>8. /\ Lists(s1.delayed, L, Delayed) /\ Lists(s1.overflow, L, Overflowed)
      /\ Lists(s1.terminated, L, Terminated) /\ s1.suspended = {u \in Tasks : L[u] = Suspended}
      /\ Typed(s1) /\ OnTime(s1)
  BY <1>1 DEF Sched, Placed
<1>p. /\ Delayed \notin {Suspended, Terminated, Limbo}
      /\ Overflowed \notin {Suspended, Terminated, Limbo}
      /\ Suspended \notin {Terminated, Limbo} /\ Terminated # Limbo
      /\ Suspended \in PlacesOff /\ Terminated \in PlacesOff
  BY PlacesDiffer DEF PlacesOff
<1>9. Sched(a, Q, F)
  <2>1. Lists(s1.delayed, Q, Delayed) /\ Lists(s1.overflow, Q, Overflowed)
        /\ Lists(s1.terminated, Q, Terminated)
    <3> HIDE DEF L, Q
    <3>1. /\ Lists(s1.delayed, [L EXCEPT ![t] = Suspended], Delayed)
          /\ Lists(s1.overflow, [L EXCEPT ![t] = Suspended], Overflowed)
          /\ Lists(s1.terminated, [L EXCEPT ![t] = Suspended], Terminated)
      BY <1>7, <1>8, <1>p, Ignores
    <3> QED BY <3>1, <1>7
  <2>2. a.suspended = {u \in Tasks : Q[u] = Suspended}
    BY <1>5, <1>7, <1>8
  <2>3. /\ a.delayed = s1.delayed /\ a.overflow = s1.overflow /\ a.terminated = s1.terminated
        /\ a.wakeTime = s1.wakeTime /\ a.xTickCount = s1.xTickCount
    BY <1>5 DEF AllBut, SchedFields
  <2>4. Typed(a) /\ OnTime(a)
    BY <1>5, <1>8, <2>3 DEF Typed, OnTime, AllBut, SchedFields
  <2>5. AllBut(a, s1, SleepFields \cup OtherFields \cup {"wakeTime"})
    BY <1>5 DEF AllBut, SleepFields
  <2> HIDE DEF L, Q, F
  <2>6. Placed(a, Q, F) /\ Ranked(a, Q)
    BY <1>1, <1>7, <1>p, <2>1, <2>2, <2>3, <2>4, <2>5, PutAway
  <2> QED BY <2>4, <2>6 DEF Sched
<1>10. Sched(b, R, F)
  <2>1. Lists(s1.delayed, R, Delayed) /\ Lists(s1.overflow, R, Overflowed)
    <3> HIDE DEF L, R
    <3>1. /\ Lists(s1.delayed, [L EXCEPT ![t] = Terminated], Delayed)
          /\ Lists(s1.overflow, [L EXCEPT ![t] = Terminated], Overflowed)
      BY <1>7, <1>8, <1>p, Ignores
    <3> QED BY <3>1, <1>7
  <2>2. Lists(b.terminated, R, Terminated)
    <3> HIDE DEF L, R
    <3>1. Lists(Append(s1.terminated, t), [L EXCEPT ![t] = Terminated], Terminated)
      BY <1>7, <1>8, <1>p, Joins
    <3> QED BY <3>1, <1>6, <1>7
  <2>3. /\ b.delayed = s1.delayed /\ b.overflow = s1.overflow /\ b.suspended = s1.suspended
        /\ b.wakeTime = s1.wakeTime /\ b.xTickCount = s1.xTickCount
    BY <1>6 DEF AllBut, SchedFields
  <2>4. b.suspended = {u \in Tasks : R[u] = Suspended}
    BY <1>7, <1>8, <1>p, <2>3
  <2>5. Typed(b) /\ OnTime(b)
    <3>1. b.uxTasksDeleted \in Nat
      BY <1>0, <1>2, <1>6
    <3> QED BY <3>1, <1>6, <1>8, <2>3 DEF Typed, OnTime, AllBut, SchedFields
  <2>6. AllBut(b, s1, SleepFields \cup OtherFields \cup {"wakeTime"})
    BY <1>6 DEF AllBut, SleepFields, OtherFields
  <2> HIDE DEF L, R, F
  <2>7. Placed(b, R, F) /\ Ranked(b, R)
    BY <1>1, <1>7, <1>p, <2>1, <2>2, <2>3, <2>4, <2>5, <2>6, PutAway
  <2> QED BY <2>5, <2>7 DEF Sched
<1> HIDE DEF Q, R, F, L
<1>q. /\ Suspended \notin Asleep /\ Terminated \notin Asleep /\ Suspended \notin {Limbo, Absent}
      /\ Terminated \notin {Limbo, Absent}
  BY PlacesDiffer DEF Asleep
<1>r. /\ t # idle /\ t \in s.live /\ idle \in Tasks
      /\ \A u \in Tasks : P[u] # Limbo /\ (P[u] = Absent <=> u \notin s.live)
      /\ \A u \in Tasks : E[u] # Nothing => P[u] \in Asleep \cup {Suspended}
      /\ (s.uxSchedulerSuspended = 0 => \A u \in Tasks : E[u] # Pending)
      /\ s.uxTasksDeleted = Len(s.terminated) /\ P[idle] >= 0 /\ Nothing # Pending
  BY Constants, WaitsDiffer DEF Settled
<1>11. Steady(a, Q, F, s, P, E)
  <2>1. AllBut(a, s, SteadyFields) /\ a.live = s.live
        /\ a.uxTasksDeleted = Len(a.terminated)
    BY <1>1, <1>2, <1>5, <1>r DEF AllBut, SchedFields, SteadyFields, ListFields, GenericFields
  <2>2. \A u \in Tasks : F[u] # Nothing => Q[u] \in Asleep \cup {Suspended}
    BY <1>7, <1>r
  <2>3. \A u \in Tasks : Q[u] # Limbo /\ (Q[u] = Absent <=> u \notin a.live)
    BY <1>7, <1>q, <1>r, <2>1
  <2>4. /\ \A u \in Tasks : Q[u] \in Asleep => Q[u] = P[u]
        /\ (s.uxSchedulerSuspended = 0 => \A u \in Tasks : F[u] # Pending)
        /\ Q[idle] >= 0
    BY <1>7, <1>q, <1>r
  <2> QED BY <1>9, <2>1, <2>2, <2>3, <2>4, SteadyChange
<1>12. Steady(b, R, F, s, P, E)
  <2>1. AllBut(b, s, SteadyFields) /\ b.live = s.live
    BY <1>1, <1>2, <1>6 DEF AllBut, SchedFields, SteadyFields, ListFields, GenericFields
  <2>2. b.uxTasksDeleted = Len(b.terminated)
    <3>1. IsList(s1.terminated) /\ t \notin ToSet(s1.terminated)
      BY <1>7, <1>8, <1>p DEF Lists
    <3>2. Len(Append(s1.terminated, t)) = Len(s1.terminated) + 1
      BY <3>1, AppendedTo
    <3> QED BY <3>2, <1>1, <1>2, <1>6, <1>r
  <2>3. \A u \in Tasks : F[u] # Nothing => R[u] \in Asleep \cup {Suspended}
    BY <1>7, <1>r
  <2> QED BY <1>7, <1>10, <1>q, <1>r, <2>1, <2>2, <2>3, SteadyChange
<1>13. StayReady(P, Q, {t}) /\ StayReady(P, R, {t})
  BY <1>7 DEF StayReady
<1> QED BY <1>11, <1>12, <1>13 DEF a, b, Q, R, F

(* A task that waits for nothing goes to the list of pending tasks.        *)
LEMMA AddedPending ==
  ASSUME NEW s, NEW P, NEW E, Sched(s, P, E), NEW t \in Tasks, E[t] = Nothing
  PROVE  LET r == [s EXCEPT !.pending = Append(@, t)]
         IN  Sched(r, P, [E EXCEPT ![t] = Pending]) /\ AllBut(r, s, {"pending"})
<1> DEFINE r == [s EXCEPT !.pending = Append(@, t)]
           F == [E EXCEPT ![t] = Pending]
<1>0. /\ Typed(s) /\ Placed(s, P, E) /\ OnTime(s) /\ Ranked(s, P) /\ DOMAIN s = SchedFields
      /\ DOMAIN E = Tasks /\ F \in [Tasks -> Waits]
  BY DEF Sched, Typed, Placed, Waits
<1>1. AllBut(r, s, {"pending"}) /\ DOMAIN r = SchedFields /\ r.pending = Append(s.pending, t)
  BY <1>0 DEF AllBut, SchedFields
<1> HIDE DEF r
<1>2. Lists(r.pending, F, Pending)
  <2>1. Lists(s.pending, E, Pending) /\ E[t] # Pending
    BY <1>0, WaitsDiffer DEF Placed
  <2>2. Lists(Append(s.pending, t), F, Pending)
    BY <2>1, <1>0, Joins
  <2> QED BY <2>2, <1>1
<1>3. ASSUME NEW m \in EventLists PROVE Lists(s.event[m], F, m)
  <2>1. Lists(s.event[m], E, m) /\ Pending # m /\ E[t] # m
    BY <1>0, WaitsDiffer DEF Placed
  <2> QED BY <2>1, <1>0, Ignores
<1> HIDE DEF F
<1>4. /\ r.ready = s.ready /\ r.delayed = s.delayed /\ r.overflow = s.overflow
      /\ r.terminated = s.terminated /\ r.suspended = s.suspended /\ r.event = s.event
      /\ r.wakeTime = s.wakeTime /\ r.xTickCount = s.xTickCount
      /\ r.uxPriority = s.uxPriority /\ r.uxTopReadyPriority = s.uxTopReadyPriority
  BY <1>1 DEF AllBut, SchedFields
<1>5. Placed(r, P, F)
  BY <1>0, <1>2, <1>3, <1>4 DEF Placed
<1>6. Typed(r)
  BY <1>0, <1>1 DEF Typed, AllBut, SchedFields
<1>7. OnTime(r) /\ Ranked(r, P)
  BY <1>0, <1>4 DEF OnTime, Ranked
<1> QED BY <1>1, <1>5, <1>6, <1>7 DEF Sched, r, F

(* What xTaskIsTaskSuspended says.                                         *)
LEMMA IsSuspended ==
  ASSUME NEW s, NEW P, NEW E, Settled(s, P, E), NEW t \in Tasks, xTaskIsTaskSuspended(s, t)
  PROVE  P[t] = Suspended /\ E[t] = Nothing /\ P[t] \notin {Terminated, Absent}
<1>1. P[t] = Suspended
  BY SettledNumbers DEF xTaskIsTaskSuspended, Placed
<1>2. E[t] \in Waits /\ E[t] # Pending /\ \A l \in EventLists : E[t] # l
  BY SettledNumbers DEF xTaskIsTaskSuspended, InEventList, Placed, Lists
<1> QED BY <1>1, <1>2, PlacesDiffer DEF Waits

(* vTaskResume and xTaskResumeFromISR.                                     *)
LEMMA Resumed ==
  ASSUME NEW s, NEW P, NEW E, Settled(s, P, E), s.xSchedulerRunning,
         NEW t \in Tasks, xTaskIsTaskSuspended(s, t)
  PROVE  /\ \E Q, F : Steady(vTaskResume(s, t), Q, F, s, P, E) /\ StayReady(P, Q, {})
         /\ \E Q, F : Steady(xTaskResumeFromISR(s, t), Q, F, s, P, E) /\ StayReady(P, Q, {})
         /\ s.uxSchedulerSuspended # 0
              => AllBut(xTaskResumeFromISR(s, t), s, EventFields \cup {"pendsv"})
<1>0. /\ P[t] = Suspended /\ E[t] = Nothing /\ P[t] \notin {Terminated, Absent}
      /\ Sched(s, P, E)
  BY IsSuspended, SettledNumbers
<1> DEFINE a == prvAddTaskToReadyQueue(vListRemoveGeneric(s, t), t)
           Q == [P EXCEPT ![t] = s.uxPriority[t]]
           F == [E EXCEPT ![t] = Nothing]
<1>1. Steady(a, Q, F, s, P, E) /\ StayReady(P, Q, {})
  <2>1. AsReady(a, s, P, E, t)
    BY <1>0, Readied
  <2> HIDE DEF a
  <2> QED BY <1>0, <2>1, ReadySteady
<1> HIDE DEF a, Q, F
<1>r. ASSUME NEW x, NEW R, NEW G, Steady(x, R, G, s, P, E)
      PROVE  Settled(x, R, G) /\ x.xSchedulerRunning
  BY <1>r DEF Steady, AllBut, SchedFields, SteadyFields, ListFields, GenericFields,
              EventFields, ReadyFields
<1>2. ASSUME NEW b PROVE Steady(YieldIf(b, a), Q, F, s, P, E)
  <2>1. Settled(a, Q, F) /\ a.xSchedulerRunning
    BY <1>1, <1>r
  <2>2. Steady(YieldIf(b, a), Q, F, a, Q, F)
    BY <2>1, YieldedIf
  <2> HIDE DEF YieldIf
  <2> QED BY <1>1, <2>2, SteadyAgain
<1>3. Steady(vTaskResume(s, t), Q, F, s, P, E)
  BY <1>2 DEF vTaskResume, a
<1>4. CASE s.uxSchedulerSuspended = 0
  <2>1. ReadyOrPend(s, t) = a
    BY <1>4 DEF ReadyOrPend, a
  <2>2. Steady(xTaskResumeFromISR(s, t), Q, F, s, P, E)
    BY <1>2, <2>1 DEF xTaskResumeFromISR
  <2> QED BY <1>1, <1>3, <1>4, <2>2
<1>5. CASE s.uxSchedulerSuspended # 0
  <2> DEFINE p == [s EXCEPT !.pending = Append(@, t)]
             G == [E EXCEPT ![t] = Pending]
             b == /\ s.uxSchedulerSuspended = 0
                  /\ s.uxPriority[t] >= s.uxPriority[s.pxCurrentTCB]
             r == YieldIf(b, p)
  <2>1. Sched(p, P, G) /\ AllBut(p, s, {"pending"})
    BY <1>0, AddedPending
  <2>2. xTaskResumeFromISR(s, t) = r
    BY <1>5 DEF xTaskResumeFromISR, ReadyOrPend
  <2> HIDE DEF p
  <2>3. AllBut(p, s, EventFields \cup {"xMissedYield"})
    BY <2>1 DEF AllBut, EventFields
  <2>4. \A u \in Tasks : G[u] = E[u] \/ P[u] \in Asleep \cup {Suspended}
    BY <1>0, SettledNumbers
  <2> HIDE DEF G, b
  <2>5. Steady(p, P, G, s, P, E)
    BY <1>5, <2>1, <2>3, <2>4, PendSteady
  <2>6. Steady(r, P, G, p, P, G) /\ AllBut(r, p, {"pendsv"})
    BY <2>5, <1>r, YieldedIf
  <2> HIDE DEF r
  <2>7. Steady(r, P, G, s, P, E)
    BY <2>5, <2>6, SteadyAgain
  <2>8. AllBut(r, s, EventFields \cup {"pendsv"})
    BY <2>1, <2>6 DEF AllBut, EventFields
  <2> QED BY <1>1, <1>3, <2>2, <2>7, <2>8, SteadyStill
<1> QED BY <1>4, <1>5

(* The idle task frees the first task that waits for it.                   *)
LEMMA Freed ==
  ASSUME NEW s, NEW P, NEW E, Settled(s, P, E), s.xSchedulerRunning, s.terminated # <<>>
  PROVE  LET t == Head(s.terminated)
             Q == [P EXCEPT ![t] = Absent]
         IN  /\ Steady(FreeTerminated(s), Q, E, s, P, E) /\ StayReady(P, Q, {})
             /\ t \in Tasks /\ P[t] = Terminated
<1> DEFINE t == Head(s.terminated)
           Q == [P EXCEPT ![t] = Absent]
           r == FreeTerminated(s)
<1>0. /\ Sched(s, P, E) /\ Typed(s) /\ OnTime(s) /\ P \in [Tasks -> Int] /\ DOMAIN P = Tasks
      /\ Lists(s.terminated, P, Terminated) /\ Lists(s.delayed, P, Delayed)
      /\ Lists(s.overflow, P, Overflowed) /\ s.suspended = {u \in Tasks : P[u] = Suspended}
      /\ DOMAIN s = SchedFields
  BY SettledNumbers DEF Placed
<1>1. t \in Tasks /\ P[t] = Terminated
  BY <1>0, HeadAndTail DEF Lists
<1>2. /\ IsList(Tail(s.terminated)) /\ ToSet(Tail(s.terminated)) = ToSet(s.terminated) \ {t}
      /\ Len(Tail(s.terminated)) = Len(s.terminated) - 1 /\ Len(s.terminated) - 1 \in Nat
  <2>1. IsList(s.terminated)
    BY <1>0 DEF Lists
  <2>2. Len(s.terminated) \in Nat /\ Len(s.terminated) > 0
    BY <2>1 DEF IsList
  <2> QED BY <2>1, <2>2, HeadAndTail
<1> HIDE DEF t
<1>3. /\ AllBut(r, s, {"terminated", "live", "uxTasksDeleted"}) /\ DOMAIN r = SchedFields
      /\ r.terminated = Tail(s.terminated) /\ r.live = s.live \ {t}
      /\ r.uxTasksDeleted = s.uxTasksDeleted - 1
  BY <1>0 DEF AllBut, SchedFields, FreeTerminated, t
<1> HIDE DEF r
<1>4. /\ r.delayed = s.delayed /\ r.overflow = s.overflow /\ r.suspended = s.suspended
      /\ r.wakeTime = s.wakeTime /\ r.xTickCount = s.xTickCount
  BY <1>3 DEF AllBut, SchedFields
<1>p. /\ Absent \in PlacesOff /\ Terminated \in PlacesOff /\ Absent \in Int
      /\ Absent \notin {Delayed, Overflowed, Terminated, Suspended}
      /\ Terminated \notin {Delayed, Overflowed, Suspended}
      /\ Absent # Limbo
  BY PlacesDiffer DEF PlacesOff
<1>q. \A u \in Tasks : Q[u] = IF u = t THEN Absent ELSE P[u]
  BY <1>0
<1>5. Lists(r.terminated, Q, Terminated)
  BY <1>0, <1>1, <1>2, <1>3, <1>p, <1>q DEF Lists
<1>6. Lists(r.delayed, Q, Delayed) /\ Lists(r.overflow, Q, Overflowed)
  BY <1>0, <1>1, <1>4, <1>p, Ignores
<1>7. r.suspended = {u \in Tasks : Q[u] = Suspended}
  BY <1>0, <1>1, <1>4, <1>p, <1>q
<1>n. s.uxTasksDeleted = Len(s.terminated) /\ r.uxTasksDeleted = Len(r.terminated)
  BY <1>2, <1>3 DEF Settled
<1>8. Typed(r) /\ OnTime(r)
  <2>1. r.uxTasksDeleted \in Nat /\ r.live \subseteq Tasks
    BY <1>0, <1>2, <1>3, <1>n DEF Typed
  <2> QED BY <1>0, <1>3, <1>4, <2>1 DEF Typed, OnTime, AllBut, SchedFields
<1>9. AllBut(r, s, SleepFields \cup OtherFields \cup {"wakeTime"}) /\ AllBut(r, s, SteadyFields)
  BY <1>3 DEF AllBut, SleepFields, OtherFields, SteadyFields, ListFields, GenericFields
<1> HIDE DEF Q
<1>10. Placed(r, Q, E) /\ Ranked(r, Q)
  BY <1>0, <1>1, <1>5, <1>6, <1>7, <1>8, <1>9, <1>p, PutAway DEF Q
<1>11. Sched(r, Q, E)
  BY <1>8, <1>10 DEF Sched
<1>12. Steady(r, Q, E, s, P, E)
  <2>1. \A u \in Tasks : Q[u] \in Asleep => Q[u] = P[u]
    BY <1>p, <1>q DEF Asleep
  <2>2. \A u \in Tasks : Q[u] # Limbo /\ (Q[u] = Absent <=> u \notin r.live)
    BY <1>3, <1>p, <1>q DEF Settled
  <2>3. \A u \in Tasks : E[u] # Nothing => Q[u] \in Asleep \cup {Suspended}
    BY <1>1, <1>p, <1>q DEF Settled, Asleep
  <2>4. Q[idle] >= 0
    BY <1>1, <1>p, <1>q, Constants, PlacesDiffer DEF Settled
  <2>5. s.uxSchedulerSuspended = 0 => \A u \in Tasks : E[u] # Pending
    BY DEF Settled
  <2> QED BY <1>9, <1>11, <1>n, <2>1, <2>2, <2>3, <2>4, <2>5, SteadyChange
<1>13. StayReady(P, Q, {})
  BY <1>1, <1>p, <1>q, PlacesDiffer DEF StayReady
<1> QED BY <1>1, <1>12, <1>13 DEF r, Q, t

(* A task that does not exist is in no list.                               *)
LEMMA Unlisted ==
  ASSUME NEW s, NEW P, NEW E, Sched(s, P, E), NEW t \in Tasks, P[t] = Absent
  PROVE  Sched(s, [P EXCEPT ![t] = Limbo], E)
<1> DEFINE Q == [P EXCEPT ![t] = Limbo]
<1>0. Typed(s) /\ Placed(s, P, E) /\ OnTime(s) /\ Ranked(s, P) /\ P \in [Tasks -> Int]
  BY DEF Sched, Placed
<1>1. \A u \in Tasks : Q[u] = IF u = t THEN Limbo ELSE P[u]
  BY <1>0
<1>2. Q \in [Tasks -> Int] /\ Somewhere(Q)
  <2>1. Limbo \in Prios \cup PlacesOff /\ Somewhere(P) /\ DOMAIN P = Tasks
    BY <1>0 DEF Placed, PlacesOff
  <2>2. Somewhere(Q)
    BY <2>1, StillSomewhere
  <2> QED BY <1>0, <2>2, PlacesDiffer
<1> HIDE DEF Q
<1>3. \A v \in Prios \cup {Delayed, Overflowed, Suspended, Terminated} :
        \A u \in Tasks : Q[u] = v <=> P[u] = v
  BY <1>1, PlacesDiffer DEF PlacesOff
<1>4. Placed(s, Q, E)
  BY <1>0, <1>2, <1>3 DEF Placed, Lists
<1>5. Ranked(s, Q)
  BY <1>0, <1>1, PlacesDiffer DEF Ranked, PlacesOff
<1> QED BY <1>0, <1>4, <1>5 DEF Sched, Q

CreateFields == ReadyFields \cup {"uxPriority", "eventValue", "uxBasePriority", "live",
  "pxCurrentTCB"}

(* The lists after xTaskCreate, whatever the current task is.              *)
LEMMA CreatedIn ==
  ASSUME NEW s, NEW P, NEW E, Sched(s, P, E), NEW t \in Tasks, P[t] = Absent,
         NEW uxPriority \in Nat
  PROVE  LET r == xTaskCreate(s, t, uxPriority)
         IN  /\ \E p \in Prios : Sched(r, [P EXCEPT ![t] = p], E)
             /\ AllBut(r, s, CreateFields) /\ r.live = s.live \cup {t}
             /\ r.pxCurrentTCB \in {s.pxCurrentTCB, t}
             /\ s.live = {} => r.pxCurrentTCB = t
             /\ s.live # {} /\ s.xSchedulerRunning => r.pxCurrentTCB = s.pxCurrentTCB
<1> DEFINE p == IF uxPriority >= configMAX_PRIORITIES THEN configMAX_PRIORITIES - 1 ELSE uxPriority
           L == [P EXCEPT ![t] = Limbo]
           s1 == [s EXCEPT !.uxBasePriority[t] = p]
           s2 == SetPriority(s1, t, p)
           s3 == [s2 EXCEPT !.live = @ \cup {t}]
           b == \/ s.live = {}
                \/ ~s.xSchedulerRunning /\ s.uxPriority[s.pxCurrentTCB] <= uxPriority
           s4 == IF b THEN [s3 EXCEPT !.pxCurrentTCB = t] ELSE s3
           r == prvAddTaskToReadyQueue(s4, t)
<1>0. xTaskCreate(s, t, uxPriority) = r
  BY DEF xTaskCreate, prvInitialiseTCBVariables
<1>1. p \in Prios
  BY Constants DEF Prios
<1>2. /\ Sched(s, L, E) /\ P \in [Tasks -> Int] /\ L[t] = Limbo /\ ~(L[t] >= 0)
      /\ [L EXCEPT ![t] = p] = [P EXCEPT ![t] = p]
  <2>1. P \in [Tasks -> Int]
    BY DEF Sched, Placed
  <2> QED BY <2>1, Unlisted, PlacesDiffer DEF PlacesOff
<1> HIDE DEF p, L, b
<1>3. Sched(s1, L, E) /\ AllBut(s1, s, {"uxBasePriority"})
  <2>1. /\ AllBut(s1, s, {"uxBasePriority"}) /\ DOMAIN s1 = SchedFields
        /\ s1.uxBasePriority = [s.uxBasePriority EXCEPT ![t] = p]
    BY DEF AllBut, SchedFields, Sched, Typed
  <2> HIDE DEF s1
  <2>2. Typed(s1)
    BY <1>1, <2>1 DEF Sched, Typed, AllBut, SchedFields
  <2>3. AllBut(s1, s, OtherFields)
    BY <2>1 DEF AllBut, OtherFields
  <2> QED BY <1>2, <2>1, <2>2, <2>3, Elsewhere
<1> HIDE DEF s1
<1>4. Sched(s2, L, E) /\ AllBut(s2, s1, {"uxPriority", "eventValue"}) /\ s2.uxPriority[t] = p
  BY <1>1, <1>2, <1>3, PrioritySet
<1> HIDE DEF s2
<1>5. /\ Sched(s4, L, E) /\ AllBut(s4, s2, {"live", "pxCurrentTCB"})
      /\ s4.live = s2.live \cup {t} /\ s4.pxCurrentTCB = IF b THEN t ELSE s2.pxCurrentTCB
  <2>1. /\ AllBut(s4, s2, {"live", "pxCurrentTCB"}) /\ DOMAIN s4 = SchedFields
        /\ s4.live = s2.live \cup {t} /\ s4.pxCurrentTCB = IF b THEN t ELSE s2.pxCurrentTCB
    BY <1>4 DEF AllBut, SchedFields, Sched, Typed
  <2> HIDE DEF s4
  <2>2. Typed(s4)
    BY <1>4, <2>1 DEF Sched, Typed, AllBut, SchedFields
  <2>3. AllBut(s4, s2, OtherFields)
    BY <2>1 DEF AllBut, OtherFields
  <2> QED BY <1>4, <2>1, <2>2, <2>3, Elsewhere
<1> HIDE DEF s4
<1>6. Sched(r, [L EXCEPT ![t] = s4.uxPriority[t]], E) /\ AllBut(r, s4, ReadyFields)
  BY <1>2, <1>5, ReadyIn
<1> HIDE DEF r
<1>7. s4.uxPriority = s2.uxPriority
  BY <1>5 DEF AllBut, SchedFields
<1>8. Sched(r, [P EXCEPT ![t] = p], E)
  BY <1>2, <1>4, <1>6, <1>7
<1>9. AllBut(r, s, CreateFields)
  BY <1>3, <1>4, <1>5, <1>6 DEF AllBut, CreateFields
<1>10. r.live = s.live \cup {t} /\ r.pxCurrentTCB = IF b THEN t ELSE s.pxCurrentTCB
  BY <1>3, <1>4, <1>5, <1>6 DEF AllBut, SchedFields, ReadyFields
<1> QED BY <1>0, <1>1, <1>8, <1>9, <1>10 DEF b

(* xTaskCreate while the scheduler runs.                                   *)
LEMMA CreatedSteady ==
  ASSUME NEW s, NEW P, NEW E, Settled(s, P, E), s.xSchedulerRunning,
         NEW t \in Tasks, t \notin s.live, NEW uxPriority \in Nat
  PROVE  LET r == xTaskCreate(s, t, uxPriority)
         IN  /\ \E Q : Steady(r, Q, E, s, P, E) /\ StayReady(P, Q, {})
             /\ r.live = s.live \cup {t}
<1> DEFINE r == xTaskCreate(s, t, uxPriority)
<1>0. /\ Sched(s, P, E) /\ P[t] = Absent /\ P \in [Tasks -> Int] /\ DOMAIN s = SchedFields
      /\ P[idle] >= 0 /\ idle \in s.live /\ Absent \in PlacesOff /\ idle \in Tasks
  <2>1. P[t] = Absent /\ P[idle] >= 0 /\ idle \in Tasks
    BY Constants DEF Settled
  <2>2. P[idle] # Absent /\ Absent \in PlacesOff
    BY <2>1, PlacesDiffer DEF PlacesOff
  <2> QED BY <2>1, <2>2, SettledNumbers DEF Settled
<1>1. /\ \E p \in Prios : Sched(r, [P EXCEPT ![t] = p], E)
      /\ AllBut(r, s, CreateFields) /\ r.live = s.live \cup {t}
      /\ (s.live # {} /\ s.xSchedulerRunning => r.pxCurrentTCB = s.pxCurrentTCB)
  <2>1. Sched(s, P, E) /\ P[t] = Absent
    BY <1>0
  <2> QED BY <2>1, CreatedIn
<1> HIDE DEF r
<1>2. PICK p \in Prios : Sched(r, [P EXCEPT ![t] = p], E)
  BY <1>1
<1> DEFINE Q == [P EXCEPT ![t] = p]
<1>3. /\ \A u \in Tasks : Q[u] = IF u = t THEN p ELSE P[u]
      /\ p >= 0 /\ p \notin PlacesOff
  BY <1>0, PlacesDiffer, Constants
<1> HIDE DEF Q
<1>4a. r.pxCurrentTCB = s.pxCurrentTCB
  BY <1>0, <1>1
<1>4. /\ AllBut(r, s, SteadyFields) /\ r.terminated = s.terminated
      /\ r.uxTasksDeleted = s.uxTasksDeleted
  BY <1>1, <1>4a DEF AllBut, SchedFields, SteadyFields, ListFields, CreateFields, ReadyFields
<1>5. E[t] = Nothing
  BY <1>0, PlacesDiffer DEF Settled, Asleep
<1>6. Steady(r, Q, E, s, P, E)
  <2>1. \A u \in Tasks : Q[u] \in Asleep => Q[u] = P[u]
    BY <1>3 DEF Asleep, PlacesOff
  <2>2. \A u \in Tasks : Q[u] # Limbo /\ (Q[u] = Absent <=> u \notin r.live)
    BY <1>1, <1>3 DEF Settled, PlacesOff
  <2>3. \A u \in Tasks : E[u] # Nothing => Q[u] \in Asleep \cup {Suspended}
    BY <1>3, <1>5 DEF Settled
  <2>4. Q[idle] >= 0 /\ r.uxTasksDeleted = Len(r.terminated)
    BY <1>0, <1>3, <1>4 DEF Settled
  <2>5. s.uxSchedulerSuspended = 0 => \A u \in Tasks : E[u] # Pending
    BY DEF Settled
  <2>6. Sched(r, Q, E)
    BY <1>2 DEF Q
  <2> QED BY <1>4, <2>1, <2>2, <2>3, <2>4, <2>5, <2>6, SteadyChange
<1>7. StayReady(P, Q, {})
  BY <1>3 DEF StayReady
<1> QED BY <1>1, <1>6, <1>7 DEF r

(* xTaskCreate before it runs, and vTaskStartScheduler.                    *)
LEMMA CreatedBooting ==
  ASSUME NEW s, NEW P, NEW E, Settled(s, P, E), ~s.xSchedulerRunning,
         NEW t \in Tasks, t \notin s.live, NEW uxPriority \in Nat
  PROVE  LET r == xTaskCreate(s, t, uxPriority)
         IN  \E Q : /\ t # idle => Settled(r, Q, E)
                    /\ Sched(r, Q, E) /\ Early(r, Q)
                    /\ \A u \in Tasks : (Q[u] >= 0 <=> u \in r.live) /\ (Q[u] >= 0 \/ Q[u] = Absent)
                    /\ AllBut(r, s, CreateFields) /\ r.live = s.live \cup {t}
                    /\ r.pxCurrentTCB \in r.live
<1> DEFINE r == xTaskCreate(s, t, uxPriority)
<1>0. /\ Sched(s, P, E) /\ P[t] = Absent /\ P \in [Tasks -> Int] /\ DOMAIN s = SchedFields
      /\ Absent \in PlacesOff /\ Booting(s, P)
  BY SettledNumbers, PlacesDiffer DEF Settled, PlacesOff
<1>1. /\ \E p \in Prios : Sched(r, [P EXCEPT ![t] = p], E)
      /\ AllBut(r, s, CreateFields) /\ r.live = s.live \cup {t}
      /\ r.pxCurrentTCB \in {s.pxCurrentTCB, t} /\ (s.live = {} => r.pxCurrentTCB = t)
  BY <1>0, CreatedIn
<1> HIDE DEF r
<1>2. PICK p \in Prios : Sched(r, [P EXCEPT ![t] = p], E)
  BY <1>1
<1> DEFINE Q == [P EXCEPT ![t] = p]
<1>3. /\ \A u \in Tasks : Q[u] = IF u = t THEN p ELSE P[u]
      /\ p >= 0 /\ p \notin PlacesOff /\ ~(Absent >= 0)
  BY <1>0, PlacesDiffer, Constants
<1>4. Sched(r, Q, E)
  BY <1>2
<1> HIDE DEF Q
<1>5. /\ r.terminated = s.terminated /\ r.uxTasksDeleted = s.uxTasksDeleted
      /\ r.wakeTime = s.wakeTime /\ r.xTickCount = s.xTickCount
      /\ r.xSchedulerRunning = s.xSchedulerRunning /\ r.uxMissedTicks = s.uxMissedTicks
      /\ r.uxSchedulerSuspended = s.uxSchedulerSuspended /\ r.pendsv = s.pendsv
  BY <1>1 DEF AllBut, SchedFields, CreateFields, ReadyFields
<1>6. \A u \in Tasks : P[u] \notin Asleep \cup {Suspended, Limbo} /\ (P[u] >= 0 <=> u \in s.live)
  BY <1>0, <1>3, PlacesDiffer DEF Booting, PlacesOff, Settled, Asleep
<1>7. \A u \in Tasks : /\ (Q[u] >= 0 <=> u \in r.live) /\ (Q[u] >= 0 \/ Q[u] = Absent)
                       /\ Q[u] \notin Asleep \cup {Suspended, Limbo}
  BY <1>0, <1>1, <1>3, <1>6 DEF Booting, PlacesOff, Asleep
<1>8. Early(r, Q)
  BY <1>7 DEF Early, Asleep
<1>9. r.pxCurrentTCB \in r.live
  <2>1. s.live = {} \/ s.pxCurrentTCB \in s.live
    BY <1>0, <1>6, SettledNumbers DEF Booting, Typed
  <2> QED BY <1>1, <2>1
<1>10. ASSUME t # idle PROVE Settled(r, Q, E)
  <2>1. Booting(r, Q)
    <3>1. Q[idle] = Absent
      BY <1>0, <1>3, <1>10, Constants DEF Booting
    <3>2. Q[r.pxCurrentTCB] >= 0
      BY <1>4, <1>7, <1>9 DEF Sched, Typed
    <3> QED BY <1>0, <1>5, <1>7, <3>1, <3>2 DEF Booting
  <2>2. \A u \in Tasks : E[u] = Nothing
    BY <1>6 DEF Settled
  <2>3. \A u \in Tasks : Q[u] # Limbo /\ (Q[u] = Absent <=> u \notin r.live)
    BY <1>3, <1>7
  <2> QED BY <1>4, <1>5, <1>8, <2>1, <2>2, <2>3, WaitsDiffer DEF Settled
<1> QED BY <1>1, <1>4, <1>7, <1>8, <1>9, <1>10 DEF r

(* vTaskStartScheduler creates the idle task and lets the kernel run.      *)
LEMMA Started ==
  ASSUME NEW s, NEW P, NEW E, Settled(s, P, E), ~s.xSchedulerRunning
  PROVE  LET r == vTaskStartScheduler(s)
         IN  \E Q : /\ Settled(r, Q, E) /\ r.xSchedulerRunning /\ Q[r.pxCurrentTCB] >= 0
                    /\ r.xTickCount = 0 /\ r.uxMissedTicks = s.uxMissedTicks
                    /\ r.xNumOfOverflows = s.xNumOfOverflows /\ r.pendsv = s.pendsv
                    /\ r.uxSchedulerSuspended = s.uxSchedulerSuspended
                    /\ r.live = s.live \cup {idle}
                    /\ \A t \in Tasks : Q[t] \notin Asleep
<1> DEFINE a == xTaskCreate(s, idle, tskIDLE_PRIORITY)
           r == [a EXCEPT !.xSchedulerRunning = TRUE, !.xTickCount = 0]
<1>0. /\ idle \in Tasks /\ idle \notin s.live /\ tskIDLE_PRIORITY \in Nat /\ s.xTickCount = 0
  BY Constants DEF Settled, Booting, tskIDLE_PRIORITY
<1>1. PICK Q : /\ Sched(a, Q, E) /\ Early(a, Q)
               /\ \A u \in Tasks : (Q[u] >= 0 <=> u \in a.live) /\ (Q[u] >= 0 \/ Q[u] = Absent)
               /\ AllBut(a, s, CreateFields) /\ a.live = s.live \cup {idle}
               /\ a.pxCurrentTCB \in a.live
  BY <1>0, CreatedBooting
<1>2. r = vTaskStartScheduler(s)
  BY DEF vTaskStartScheduler
<1> HIDE DEF a
<1>3. a.xTickCount = 0 /\ DOMAIN a = SchedFields
  BY <1>0, <1>1 DEF AllBut, SchedFields, CreateFields, ReadyFields, Sched, Typed
<1>4. /\ AllBut(r, a, {"xSchedulerRunning"}) /\ r.xSchedulerRunning = TRUE
  BY <1>3 DEF AllBut, SchedFields
<1> HIDE DEF r
<1>5. Typed(r)
  BY <1>1, <1>4 DEF Sched, Typed, AllBut, SchedFields
<1>6. AllBut(r, a, OtherFields)
  BY <1>4 DEF AllBut, OtherFields
<1>7. Sched(r, Q, E) /\ Early(r, Q) /\ r.terminated = a.terminated
  BY <1>1, <1>5, <1>6, Elsewhere
<1>8. /\ r.live = a.live /\ r.pxCurrentTCB = a.pxCurrentTCB /\ r.xTickCount = 0
      /\ r.uxTasksDeleted = s.uxTasksDeleted /\ r.terminated = s.terminated
      /\ r.uxMissedTicks = s.uxMissedTicks /\ r.pendsv = s.pendsv
      /\ r.xNumOfOverflows = s.xNumOfOverflows
      /\ r.uxSchedulerSuspended = s.uxSchedulerSuspended
  BY <1>1, <1>3, <1>4, <1>7 DEF AllBut, SchedFields, CreateFields, ReadyFields
<1>9. /\ \A u \in Tasks : E[u] = Nothing
      /\ Limbo # Absent /\ ~(Limbo >= 0) /\ ~(Absent >= 0)
      /\ \A v \in Asleep : ~(v >= 0) /\ v # Absent
  BY PlacesDiffer, SettledNumbers DEF Settled, Booting, PlacesOff, Asleep
<1>10. Q[idle] >= 0 /\ Q[r.pxCurrentTCB] >= 0
  BY <1>0, <1>1, <1>8 DEF Sched, Typed
<1>11. Settled(r, Q, E)
  BY <1>1, <1>4, <1>7, <1>8, <1>9, <1>10, WaitsDiffer DEF Settled
<1> QED BY <1>1, <1>2, <1>4, <1>8, <1>9, <1>10, <1>11

-----------------------------------------------------------------------------
(* Switching and suspending the scheduler.                                 *)

(* vTaskSuspendAll.                                                        *)
LEMMA AllSuspended ==
  ASSUME NEW s, NEW P, NEW E, Settled(s, P, E), s.xSchedulerRunning,
         s.uxSchedulerSuspended = 0
  PROVE  LET r == vTaskSuspendAll(s)
         IN  /\ Settled(r, P, E) /\ AllBut(r, s, {"uxSchedulerSuspended"})
             /\ r.uxSchedulerSuspended = 1
<1> DEFINE r == vTaskSuspendAll(s)
<1>1. /\ AllBut(r, s, {"uxSchedulerSuspended"}) /\ r.uxSchedulerSuspended = 1
      /\ DOMAIN s = SchedFields
  BY SettledNumbers DEF AllBut, SchedFields, vTaskSuspendAll
<1> HIDE DEF r
<1>2. Typed(r)
  BY <1>1, SettledNumbers DEF Typed, AllBut, SchedFields
<1>3. AllBut(r, s, OtherFields)
  BY <1>1 DEF AllBut, OtherFields
<1>4. Sched(r, P, E) /\ Early(r, P) /\ r.terminated = s.terminated
  BY <1>2, <1>3, SettledNumbers, Elsewhere DEF Settled
<1>5. Settled(r, P, E)
  BY <1>1, <1>4 DEF Settled, AllBut, SchedFields
<1> QED BY <1>1, <1>5 DEF r

(* The highest ready list that is not empty: there is one, as the idle     *)
(* task is ready.                                                          *)
Highest(s, top) ==
  /\ top \in 0 .. s.uxTopReadyPriority /\ s.ready[top] # <<>>
  /\ \A q \in (top + 1) .. s.uxTopReadyPriority : s.ready[q] = <<>>

(* vTaskSwitchContext finds a ready list that is not empty: idle is on     *)
(* one.                                                                    *)
LEMMA HighestExists ==
  ASSUME NEW s, NEW P, NEW E, Settled(s, P, E), s.xSchedulerRunning
  PROVE  \E top : Highest(s, top) /\ top \in Prios
<1> DEFINE n == s.uxTopReadyPriority
           D == {n - p : p \in {p \in 0 .. n : s.ready[p] # <<>>}}
<1>0. /\ n \in Prios /\ idle \in Tasks /\ P[idle] >= 0 /\ P[idle] = s.uxPriority[idle]
      /\ P[idle] <= n /\ P[idle] \in Prios /\ n \in Nat
  <2>1. n \in Prios /\ idle \in Tasks /\ P[idle] >= 0 /\ P[idle] = s.uxPriority[idle]
        /\ P[idle] <= n
    BY SettledNumbers, Constants DEF Settled, Typed, Ranked
  <2> QED BY <2>1, SettledNumbers, Constants DEF Typed
<1>1. s.ready[P[idle]] # <<>>
  <2>1. Lists(s.ready[P[idle]], P, P[idle])
    BY <1>0, SettledNumbers DEF Placed
  <2>2. idle \in ToSet(s.ready[P[idle]])
    BY <1>0, <2>1 DEF Lists
  <2> QED BY <2>1, <2>2, Members DEF Lists, IsList
<1>2. D \in SUBSET Nat /\ D # {}
  <2> HIDE DEF n
  <2>1. \A p \in 0 .. n : n - p \in Nat
    BY <1>0
  <2>2. P[idle] \in 0 .. n
    <3>1. P[idle] \in Int
      BY <1>0, Constants
    <3> QED BY <1>0, <3>1
  <2> QED BY <1>1, <2>1, <2>2
<1>3. PICK d \in D : \A e \in D : d <= e
  BY <1>2, HasLeast
<1>4. PICK top \in 0 .. n : s.ready[top] # <<>> /\ d = n - top
  OBVIOUS
<1>5. ASSUME NEW q \in (top + 1) .. n, s.ready[q] # <<>> PROVE FALSE
  <2> HIDE DEF n
  <2>1. q \in 0 .. n /\ n - q < n - top
    BY <1>0
  <2>2. n - q \in D
    BY <1>5, <2>1 DEF n
  <2> HIDE DEF D
  <2>3. n - top <= n - q
    BY <1>3, <1>4, <2>2
  <2>4. top \in Int /\ q \in Int
    BY <1>0, <1>4, <2>1
  <2> QED BY <1>0, <2>1, <2>3, <2>4
<1>6. top \in Prios
  BY <1>0, Constants DEF Prios
<1> QED BY <1>4, <1>5, <1>6 DEF Highest

(* vTaskSwitchContext: the processor goes to a ready task, unless the      *)
(* scheduler is suspended.                                                 *)
LEMMA Switched ==
  ASSUME NEW s, NEW P, NEW E, Settled(s, P, E), s.xSchedulerRunning
  PROVE  LET r == vTaskSwitchContext(s)
         IN  IF s.uxSchedulerSuspended # 0
             THEN Steady(r, P, E, s, P, E) /\ AllBut(r, s, {"xMissedYield"})
             ELSE /\ Settled(r, P, E) /\ P[r.pxCurrentTCB] >= 0 /\ r.pxCurrentTCB \in Tasks
                  /\ P[r.pxCurrentTCB] = r.uxTopReadyPriority
                  /\ AllBut(r, s, ReadyFields \cup {"pxCurrentTCB"})
<1> DEFINE r == vTaskSwitchContext(s)
<1>1. CASE s.uxSchedulerSuspended # 0
  <2>1. r = [s EXCEPT !.xMissedYield = TRUE]
    BY <1>1 DEF vTaskSwitchContext
  <2>2. AllBut(r, s, {"xMissedYield"}) /\ r.pendsv = s.pendsv
    BY <2>1, SettledNumbers DEF AllBut, SchedFields
  <2> HIDE DEF r
  <2>3. AllBut(r, s, {"pendsv", "xMissedYield"}) /\ r.pendsv \in BOOLEAN
    BY <2>2, SettledNumbers DEF AllBut, Typed
  <2>4. Steady(r, P, E, s, P, E)
    BY <2>3, Yielded
  <2> QED BY <1>1, <2>2, <2>4 DEF r
<1>2. CASE s.uxSchedulerSuspended = 0
  <2> DEFINE top == CHOOSE p \in 0 .. s.uxTopReadyPriority :
                      /\ s.ready[p] # <<>>
                      /\ \A q \in (p + 1) .. s.uxTopReadyPriority : s.ready[q] = <<>>
             list == OwnerOfNextEntry(s.ready[top])
  <2>1. Highest(s, top) /\ top \in Prios
    <3>1. \E p : Highest(s, p)
      BY HighestExists
    <3>2. Highest(s, top)
      BY <3>1 DEF Highest
    <3>3. s.uxTopReadyPriority \in Prios
      BY SettledNumbers DEF Typed
    <3> HIDE DEF top
    <3> QED BY <3>2, <3>3, Constants DEF Highest, Prios
  <2>2. r = [s EXCEPT !.uxTopReadyPriority = top, !.ready[top] = list,
                      !.pxCurrentTCB = Last(list)]
    BY <1>2 DEF vTaskSwitchContext
  <2> HIDE DEF top
  <2>3. Lists(s.ready[top], P, top) /\ s.ready[top] # <<>>
    BY <2>1, SettledNumbers DEF Placed, Highest
  <2>4. IsList(list) /\ ToSet(list) = ToSet(s.ready[top]) /\ Last(list) \in ToSet(list)
    BY <2>3, Walked DEF Lists
  <2> HIDE DEF list
  <2>5. Last(list) \in Tasks /\ P[Last(list)] = top /\ Lists(list, P, top)
    BY <2>3, <2>4 DEF Lists
  <2>6. /\ AllBut(r, s, ReadyFields \cup {"pxCurrentTCB"}) /\ DOMAIN r = SchedFields
        /\ r.uxTopReadyPriority = top /\ r.ready = [s.ready EXCEPT ![top] = list]
        /\ r.pxCurrentTCB = Last(list)
    BY <2>2, SettledNumbers DEF AllBut, SchedFields, ReadyFields
  <2> HIDE DEF r
  <2>7. Typed(r)
    BY <2>1, <2>5, <2>6, SettledNumbers DEF Typed, AllBut, SchedFields, ReadyFields
  <2>8. /\ r.delayed = s.delayed /\ r.overflow = s.overflow /\ r.suspended = s.suspended
        /\ r.terminated = s.terminated /\ r.event = s.event /\ r.pending = s.pending
        /\ r.wakeTime = s.wakeTime /\ r.xTickCount = s.xTickCount
        /\ r.uxPriority = s.uxPriority /\ r.live = s.live
        /\ r.uxSchedulerSuspended = s.uxSchedulerSuspended
        /\ r.uxMissedTicks = s.uxMissedTicks /\ r.uxTasksDeleted = s.uxTasksDeleted
        /\ r.xSchedulerRunning = s.xSchedulerRunning
    BY <2>6 DEF AllBut, SchedFields, ReadyFields
  <2>9. Placed(r, P, E)
    <3>1. IsOver(r.ready, Prios) /\ \A p \in Prios : Lists(r.ready[p], P, p)
      BY <2>5, <2>6, SettledNumbers DEF Placed, IsOver
    <3> QED BY <2>8, <3>1, SettledNumbers DEF Placed
  <2>10. Ranked(r, P)
    <3> SUFFICES ASSUME NEW t \in Tasks, P[t] >= 0
                 PROVE  P[t] = s.uxPriority[t] /\ P[t] <= top
      BY <2>6, <2>8 DEF Ranked
    <3>1. P[t] = s.uxPriority[t] /\ P[t] <= s.uxTopReadyPriority /\ P[t] \in Prios
      BY SettledNumbers DEF Ranked, Typed
    <3>2. ASSUME ~(P[t] <= top) PROVE FALSE
      <4>1. top \in Int /\ P[t] \in Int /\ s.uxTopReadyPriority \in Int
        BY <2>1, <3>1, SettledNumbers, Constants DEF Typed
      <4>2. P[t] \in (top + 1) .. s.uxTopReadyPriority
        BY <3>1, <3>2, <4>1
      <4>3. s.ready[P[t]] = <<>>
        BY <2>1, <4>2 DEF Highest
      <4>4. t \in ToSet(s.ready[P[t]])
        BY <3>1, SettledNumbers DEF Placed, Lists
      <4>5. ToSet(<<>>) = {}
        BY DEF ToSet
      <4> QED BY <4>3, <4>4, <4>5
    <3> QED BY <3>1, <3>2
  <2>11. OnTime(r) /\ Early(r, P)
    BY <2>8, SettledNumbers DEF OnTime, Early, Settled
  <2>12. Settled(r, P, E)
    BY <1>2, <2>7, <2>8, <2>9, <2>10, <2>11 DEF Settled, Sched
  <2>13. P[r.pxCurrentTCB] >= 0 /\ P[r.pxCurrentTCB] = r.uxTopReadyPriority
    BY <2>1, <2>5, <2>6, Constants
  <2> QED BY <1>2, <2>5, <2>6, <2>12, <2>13 DEF r
<1> QED BY <1>1, <1>2

-----------------------------------------------------------------------------
(* The running task stops.                                                 *)

(* It goes to the delayed list of its wake time.                           *)
LEMMA PutToSleep ==
  ASSUME NEW s, NEW P, NEW E, Sched(s, P, E), Early(s, P), P[s.pxCurrentTCB] >= 0,
         NEW w \in Ticks, w # s.xTickCount
  PROVE  LET r == Delay(s, w)
             t == s.pxCurrentTCB
             v == IF w < s.xTickCount THEN Overflowed ELSE Delayed
             Q == [P EXCEPT ![t] = v]
         IN  /\ Sched(r, Q, E) /\ Early(r, Q) /\ v \in Asleep
             /\ AllBut(r, s, GenericFields \cup {"wakeTime"})
             /\ r.wakeTime = [s.wakeTime EXCEPT ![t] = w] /\ r.terminated = s.terminated
<1> DEFINE t == s.pxCurrentTCB
           v == IF w < s.xTickCount THEN Overflowed ELSE Delayed
           Q == [P EXCEPT ![t] = v]
           L == [P EXCEPT ![t] = Limbo]
           at == [s.wakeTime EXCEPT ![t] = w]
           k0 == vListRemoveGeneric(s, t)
           k1 == [k0 EXCEPT !.wakeTime = at]
           r == Delay(s, w)
<1>0. /\ Typed(s) /\ Placed(s, P, E) /\ OnTime(s) /\ Ranked(s, P) /\ DOMAIN s = SchedFields
      /\ t \in Tasks /\ P \in [Tasks -> Int] /\ DOMAIN P = Tasks /\ s.wakeTime \in [Tasks -> Ticks]
      /\ s.xTickCount \in Ticks
  BY DEF Sched, Typed, Placed
<1>p. /\ v \in Asleep /\ v \in PlacesOff /\ v # Limbo /\ v \notin {Suspended, Terminated}
      /\ Limbo \in PlacesOff /\ Limbo \notin {Delayed, Overflowed, Suspended, Terminated}
      /\ Delayed # Overflowed
      /\ P[t] \notin PlacesOff
  BY PlacesDiffer DEF Asleep, PlacesOff
<1>1. /\ Sched(k0, L, E) /\ AllBut(k0, s, GenericFields)
      /\ k0.terminated = s.terminated /\ k0.delayed = s.delayed /\ k0.overflow = s.overflow
  <2>1. P[t] # Terminated /\ P[t] \notin {Delayed, Overflowed}
    BY <1>p DEF PlacesOff
  <2> QED BY <1>0, <2>1, GenericOut
<1>2. r = IF w < s.xTickCount THEN [k1 EXCEPT !.overflow = vListInsert(@, t, at)]
          ELSE [k1 EXCEPT !.delayed = vListInsert(@, t, at)]
  BY DEF Delay
<1> HIDE DEF k0
<1>3. DOMAIN k0 = SchedFields
  BY <1>1 DEF Sched, Typed
<1>a. /\ DOMAIN k1 = SchedFields /\ k1.wakeTime = at
      /\ k1.delayed = s.delayed /\ k1.overflow = s.overflow
      /\ AllBut(k1, k0, {"wakeTime"})
  BY <1>1, <1>3 DEF AllBut, SchedFields
<1> HIDE DEF k1
<1>4. /\ AllBut(r, k0, {"wakeTime", "delayed", "overflow"}) /\ DOMAIN r = SchedFields
      /\ r.wakeTime = at
      /\ r.delayed = IF w < s.xTickCount THEN s.delayed ELSE vListInsert(s.delayed, t, at)
      /\ r.overflow = IF w < s.xTickCount THEN vListInsert(s.overflow, t, at) ELSE s.overflow
  <2>1. CASE w < s.xTickCount
    <3>1. r = [k1 EXCEPT !.overflow = vListInsert(s.overflow, t, at)]
      BY <1>2, <1>a, <2>1
    <3> QED BY <1>3, <1>a, <2>1, <3>1 DEF AllBut, SchedFields
  <2>2. CASE ~(w < s.xTickCount)
    <3>1. r = [k1 EXCEPT !.delayed = vListInsert(s.delayed, t, at)]
      BY <1>2, <1>a, <2>2
    <3> QED BY <1>3, <1>a, <2>2, <3>1 DEF AllBut, SchedFields
  <2> QED BY <2>1, <2>2
<1> HIDE DEF r
<1>5. /\ AllBut(r, s, GenericFields \cup {"wakeTime"}) /\ r.terminated = s.terminated
      /\ r.xTickCount = s.xTickCount
  BY <1>1, <1>4 DEF AllBut, SchedFields, GenericFields
<1>6. /\ at \in [Tasks -> Ticks] /\ at \in [Tasks -> Int] /\ at[t] = w
      /\ \A u \in Tasks : u # t => at[u] = s.wakeTime[u]
  BY <1>0, Constants
<1> HIDE DEF at
<1>7. Typed(r)
  BY <1>1, <1>4, <1>6 DEF Sched, Typed, AllBut, SchedFields
<1>8. /\ Lists(s.delayed, L, Delayed) /\ Lists(s.overflow, L, Overflowed)
      /\ Lists(k0.terminated, L, Terminated) /\ k0.suspended = {u \in Tasks : L[u] = Suspended}
      /\ DOMAIN L = Tasks /\ L[t] = Limbo /\ [L EXCEPT ![t] = v] = Q
      /\ \A u \in Tasks : L[u] = IF u = t THEN Limbo ELSE P[u]
      /\ \A u \in Tasks : Q[u] = IF u = t THEN v ELSE P[u]
  BY <1>0, <1>1 DEF Sched, Placed
<1> HIDE DEF L, Q
<1>9. Lists(r.delayed, Q, Delayed) /\ Lists(r.overflow, Q, Overflowed)
  <2>1. CASE w < s.xTickCount
    <3>1. v = Overflowed
      BY <2>1
    <3> HIDE DEF v
    <3>2. Lists(vListInsert(s.overflow, t, at), [L EXCEPT ![t] = v], v)
      BY <1>8, <1>0, <1>p, <3>1, JoinsAt
    <3>3. Lists(s.delayed, [L EXCEPT ![t] = v], Delayed)
      BY <1>8, <1>0, <1>p, <3>1, Ignores
    <3> QED BY <2>1, <3>1, <3>2, <3>3, <1>4, <1>8
  <2>2. CASE ~(w < s.xTickCount)
    <3>1. v = Delayed
      BY <2>2
    <3> HIDE DEF v
    <3>2. Lists(vListInsert(s.delayed, t, at), [L EXCEPT ![t] = v], v)
      BY <1>8, <1>0, <1>p, <3>1, JoinsAt
    <3>3. Lists(s.overflow, [L EXCEPT ![t] = v], Overflowed)
      BY <1>8, <1>0, <1>p, <3>1, Ignores
    <3> QED BY <2>2, <3>1, <3>2, <3>3, <1>4, <1>8
  <2> QED BY <2>1, <2>2
<1>10. Lists(r.terminated, Q, Terminated) /\ r.suspended = {u \in Tasks : Q[u] = Suspended}
  <2> HIDE DEF v
  <2>1. Lists(k0.terminated, [L EXCEPT ![t] = v], Terminated)
    BY <1>8, <1>0, <1>p, Ignores
  <2>2. r.suspended = k0.suspended /\ r.terminated = k0.terminated
    BY <1>4 DEF AllBut, SchedFields
  <2>3. \A u \in Tasks : Q[u] = Suspended <=> L[u] = Suspended
    BY <1>8, <1>p
  <2>4. r.suspended = {u \in Tasks : Q[u] = Suspended}
    BY <1>8, <2>2, <2>3
  <2>5. Lists(r.terminated, Q, Terminated)
    BY <1>8, <2>1, <2>2
  <2> QED BY <2>4, <2>5
<1>11. Placed(r, Q, E) /\ Ranked(r, Q)
  <2> HIDE DEF v
  <2>1. AllBut(r, k0, SleepFields \cup OtherFields \cup {"wakeTime"})
    BY <1>4 DEF AllBut, SleepFields
  <2>2. Q = [L EXCEPT ![t] = v]
    BY <1>8
  <2>3. L[t] \in PlacesOff /\ v \in PlacesOff
    BY <1>8, <1>p
  <2> QED BY <1>0, <1>1, <1>7, <1>9, <1>10, <2>1, <2>2, <2>3, PutAway
<1>12. OnTime(r)
  <2>1. /\ IsList(s.delayed) /\ t \notin ToSet(s.delayed) /\ InOrder(s.delayed, s.wakeTime)
        /\ IsList(s.overflow) /\ t \notin ToSet(s.overflow) /\ InOrder(s.overflow, s.wakeTime)
    BY <1>8, <1>p, <1>0 DEF Lists, OnTime
  <2>2. /\ \A i \in 1 .. Len(s.delayed) : s.delayed[i] \in ToSet(s.delayed)
        /\ \A i \in 1 .. Len(s.overflow) : s.overflow[i] \in ToSet(s.overflow)
        /\ ToSet(s.delayed) \subseteq Tasks /\ ToSet(s.overflow) \subseteq Tasks
    BY <2>1, Members DEF IsList
  <2>3. InOrder(s.delayed, at)
    BY <2>1, <2>2, <1>6 DEF InOrder
  <2>4. InOrder(s.overflow, at)
    BY <2>1, <2>2, <1>6 DEF InOrder
  <2>5. InOrder(r.delayed, at) /\ InOrder(r.overflow, at)
    BY <1>0, <1>4, <1>6, <2>1, <2>3, <2>4, InsertedInto
  <2>6. /\ \A u \in ToSet(s.delayed) : at[u] >= s.xTickCount
        /\ \A u \in ToSet(s.overflow) : at[u] < s.xTickCount
    BY <1>0, <1>6, <2>1, <2>2 DEF OnTime
  <2>7. /\ \A u \in ToSet(r.delayed) : at[u] >= s.xTickCount
        /\ \A u \in ToSet(r.overflow) : at[u] < s.xTickCount
    <3>1. CASE w < s.xTickCount
      <4>1. ToSet(r.overflow) = ToSet(s.overflow) \cup {t} /\ r.delayed = s.delayed
        BY <1>0, <1>4, <2>1, <3>1, InsertedInto
      <4> QED BY <4>1, <2>6, <1>6, <3>1
    <3>2. CASE ~(w < s.xTickCount)
      <4>1. ToSet(r.delayed) = ToSet(s.delayed) \cup {t} /\ r.overflow = s.overflow
        BY <1>0, <1>4, <2>1, <3>2, InsertedInto
      <4>2. w >= s.xTickCount
        BY <3>2, <1>0, Constants
      <4> QED BY <4>1, <4>2, <2>6, <1>6, <3>2
    <3> QED BY <3>1, <3>2
  <2> QED BY <2>5, <2>7, <1>4, <1>5 DEF OnTime
<1>13. Early(r, Q)
  <2> SUFFICES ASSUME NEW u \in Tasks, Q[u] = Delayed PROVE at[u] > s.xTickCount
    BY <1>4, <1>5 DEF Early
  <2>1. CASE u = t
    <3>1. ~(w < s.xTickCount)
      BY <2>1, <1>8, <1>p
    <3> QED BY <2>1, <3>1, <1>0, <1>6, Constants
  <2>2. CASE u # t
    BY <2>2, <1>6, <1>8 DEF Early
  <2> QED BY <2>1, <2>2
<1> QED BY <1>4, <1>5, <1>7, <1>11, <1>12, <1>13, <1>p DEF Sched, r, Q, at, v

(* The running task is asleep, for n ticks, or suspended, and nothing else *)
(* has changed.                                                            *)
Stopped(r, Q, F, s, P, n) ==
  /\ Settled(r, Q, F) /\ AllBut(r, s, GenericFields \cup EventFields \cup {"wakeTime"})
  /\ Q[s.pxCurrentTCB] \in Asleep \cup {Suspended}
  /\ Q[s.pxCurrentTCB] \in Asleep => TicksTo(r, s.pxCurrentTCB) = n
  /\ \A u \in Tasks \ {s.pxCurrentTCB} : Q[u] = P[u] /\ TicksTo(r, u) = TicksTo(s, u)

(* Whatever the way the lists have got to where they are.                  *)
LEMMA IsStopped ==
  ASSUME NEW s, NEW P, NEW E, Settled(s, P, E), s.xSchedulerRunning,
         s.pxCurrentTCB # idle, P[s.pxCurrentTCB] >= 0,
         NEW r, NEW Q, NEW F, Sched(r, Q, F), Early(r, Q), r.terminated = s.terminated,
         AllBut(r, s, GenericFields \cup EventFields \cup {"wakeTime"}),
         NEW v \in Asleep \cup {Suspended}, Q = [P EXCEPT ![s.pxCurrentTCB] = v],
         NEW e \in EventLists \cup {Nothing}, F = [E EXCEPT ![s.pxCurrentTCB] = e],
         NEW w \in Ticks, r.wakeTime = [s.wakeTime EXCEPT ![s.pxCurrentTCB] = w]
  PROVE  Stopped(r, Q, F, s, P, (w - s.xTickCount) % TickMod)
<1> DEFINE t == s.pxCurrentTCB
<1>0. /\ t \in Tasks /\ DOMAIN P = Tasks /\ DOMAIN E = Tasks /\ s.wakeTime \in [Tasks -> Ticks]
  BY SettledNumbers DEF Typed
<1>1. /\ \A u \in Tasks : Q[u] = IF u = t THEN v ELSE P[u]
      /\ \A u \in Tasks : F[u] = IF u = t THEN e ELSE E[u]
      /\ \A u \in Tasks : r.wakeTime[u] = IF u = t THEN w ELSE s.wakeTime[u]
  BY <1>0
<1>2. /\ r.live = s.live /\ r.xSchedulerRunning = s.xSchedulerRunning
      /\ r.uxSchedulerSuspended = s.uxSchedulerSuspended /\ r.uxMissedTicks = s.uxMissedTicks
      /\ r.uxTasksDeleted = s.uxTasksDeleted /\ r.xTickCount = s.xTickCount
  BY DEF AllBut, SchedFields, GenericFields, EventFields
<1>3. /\ v # Limbo /\ v # Absent /\ P[t] # Absent /\ e # Pending
      /\ \A u \in Tasks : P[u] # Limbo /\ (P[u] = Absent <=> u \notin s.live)
  BY PlacesDiffer, WaitsDiffer, <1>0 DEF Asleep, PlacesOff, Settled
<1>4. \A u \in Tasks : F[u] # Nothing => Q[u] \in Asleep \cup {Suspended}
  BY <1>1 DEF Settled
<1>5. s.uxSchedulerSuspended = 0 => \A u \in Tasks : F[u] # Pending
  BY <1>1, <1>3 DEF Settled
<1>6. \A u \in Tasks : Q[u] # Limbo /\ (Q[u] = Absent <=> u \notin r.live)
  BY <1>0, <1>1, <1>2, <1>3
<1>7. Q[idle] >= 0
  BY <1>1, Constants DEF Settled
<1>8. Settled(r, Q, F)
  BY <1>2, <1>4, <1>5, <1>6, <1>7 DEF Settled
<1>9. /\ \A u \in Tasks \ {t} : Q[u] = P[u] /\ TicksTo(r, u) = TicksTo(s, u)
      /\ Q[t] = v /\ TicksTo(r, t) = (w - s.xTickCount) % TickMod
  BY <1>0, <1>1, <1>2 DEF TicksTo
<1> QED BY <1>8, <1>9 DEF Stopped

(* vTaskDelay and vTaskDelayUntil.                                         *)
LEMMA DelayedFor ==
  ASSUME NEW s, NEW P, NEW E, Settled(s, P, E), s.xSchedulerRunning,
         s.pxCurrentTCB # idle, P[s.pxCurrentTCB] >= 0, NEW w \in Ticks, w # s.xTickCount
  PROVE  \E Q : Stopped(Delay(s, w), Q, E, s, P, (w - s.xTickCount) % TickMod)
<1> DEFINE t == s.pxCurrentTCB
           v == IF w < s.xTickCount THEN Overflowed ELSE Delayed
           Q == [P EXCEPT ![t] = v]
           r == Delay(s, w)
<1>1. /\ Sched(r, Q, E) /\ Early(r, Q) /\ v \in Asleep
      /\ AllBut(r, s, GenericFields \cup {"wakeTime"})
      /\ r.wakeTime = [s.wakeTime EXCEPT ![t] = w] /\ r.terminated = s.terminated
  BY SettledNumbers, PutToSleep DEF Settled
<1> HIDE DEF r
<1>2. E[t] = Nothing /\ t \in Tasks /\ E \in [Tasks -> Waits]
  <2>1. t \in Tasks /\ E \in [Tasks -> Waits]
    BY SettledNumbers DEF Typed
  <2>2. P[t] \notin Asleep \cup {Suspended}
    BY PlacesDiffer DEF Asleep, PlacesOff
  <2> QED BY <2>1, <2>2 DEF Settled
<1>3. E = [E EXCEPT ![t] = Nothing]
  BY <1>2
<1>4. AllBut(r, s, GenericFields \cup EventFields \cup {"wakeTime"})
  BY <1>1 DEF AllBut
<1> HIDE DEF v
<1>5. Stopped(r, Q, E, s, P, (w - s.xTickCount) % TickMod)
  BY <1>1, <1>3, <1>4, IsStopped
<1> HIDE DEF Q
<1> QED BY <1>5 DEF r

(* The running task goes on an event list, in the order of the priorities. *)
LEMMA OnEventList ==
  ASSUME NEW s, NEW P, NEW E, Sched(s, P, E), NEW t \in Tasks, E[t] = Nothing,
         NEW l \in EventLists
  PROVE  LET r == [s EXCEPT !.event[l] = vListInsert(@, t, s.eventValue)]
         IN  /\ Sched(r, P, [E EXCEPT ![t] = l]) /\ AllBut(r, s, {"event"})
             /\ (Early(s, P) => Early(r, P))
<1> DEFINE r == [s EXCEPT !.event[l] = vListInsert(@, t, s.eventValue)]
           F == [E EXCEPT ![t] = l]
<1>0. /\ Typed(s) /\ Placed(s, P, E) /\ OnTime(s) /\ Ranked(s, P) /\ DOMAIN s = SchedFields
  BY DEF Sched, Typed
<1>1. /\ AllBut(r, s, {"event"}) /\ DOMAIN r = SchedFields
      /\ r.event = [s.event EXCEPT ![l] = vListInsert(s.event[l], t, s.eventValue)]
  BY <1>0 DEF AllBut, SchedFields
<1> HIDE DEF r
<1>2. Typed(r)
  BY <1>0, <1>1 DEF AllBut, Typed, SchedFields
<1>3. /\ DOMAIN E = Tasks /\ E \in [Tasks -> Waits] /\ F \in [Tasks -> Waits]
      /\ IsOver(s.event, EventLists)
  BY <1>0 DEF Placed, Waits
<1>4. ASSUME NEW m \in EventLists PROVE Lists(r.event[m], F, m)
  <2>1. Lists(s.event[m], E, m) /\ E[t] # m
    BY <1>0, WaitsDiffer DEF Placed
  <2>2. CASE m = l
    <3>1. Lists(vListInsert(s.event[l], t, s.eventValue), F, l)
      BY <2>1, <2>2, <1>3, JoinsAt
    <3> QED BY <2>2, <3>1, <1>1, <1>3 DEF IsOver
  <2>3. CASE m # l
    <3>1. Lists(s.event[m], F, m)
      BY <2>1, <2>3, <1>3, Ignores
    <3> QED BY <2>3, <3>1, <1>1, <1>3 DEF IsOver
  <2> QED BY <2>2, <2>3
<1>5. Lists(s.pending, F, Pending)
  <2>1. Lists(s.pending, E, Pending) /\ E[t] # Pending /\ l # Pending
    BY <1>0, WaitsDiffer DEF Placed
  <2> QED BY <2>1, <1>3, Ignores
<1>6. /\ r.ready = s.ready /\ r.delayed = s.delayed /\ r.overflow = s.overflow
      /\ r.terminated = s.terminated /\ r.suspended = s.suspended /\ r.pending = s.pending
      /\ r.wakeTime = s.wakeTime /\ r.xTickCount = s.xTickCount
      /\ r.uxPriority = s.uxPriority /\ r.uxTopReadyPriority = s.uxTopReadyPriority
  BY <1>1 DEF AllBut, SchedFields
<1>7. IsOver(r.event, EventLists)
  BY <1>1, <1>3 DEF IsOver
<1> HIDE DEF F
<1>8. Placed(r, P, F)
  BY <1>0, <1>3, <1>4, <1>5, <1>6, <1>7 DEF Placed
<1>9. OnTime(r) /\ Ranked(r, P) /\ (Early(s, P) => Early(r, P))
  BY <1>0, <1>6 DEF OnTime, Ranked, Early
<1> QED BY <1>1, <1>2, <1>8, <1>9 DEF Sched, r, F

(* A task goes to the suspended list from the list it is in.               *)
LEMMA SuspendedIn ==
  ASSUME NEW s, NEW P, NEW E, Sched(s, P, E), Early(s, P), NEW t \in Tasks, P[t] >= 0
  PROVE  LET r == [vListRemoveGeneric(s, t) EXCEPT !.suspended = @ \cup {t}]
             Q == [P EXCEPT ![t] = Suspended]
         IN  /\ Sched(r, Q, E) /\ Early(r, Q) /\ r.terminated = s.terminated
             /\ AllBut(r, s, GenericFields)
<1> DEFINE s1 == vListRemoveGeneric(s, t)
           r == [s1 EXCEPT !.suspended = @ \cup {t}]
           L == [P EXCEPT ![t] = Limbo]
           Q == [P EXCEPT ![t] = Suspended]
<1>p. /\ Delayed \notin {Suspended, Limbo} /\ Overflowed \notin {Suspended, Limbo}
      /\ Terminated \notin {Suspended, Limbo} /\ Suspended # Limbo
      /\ Suspended \in PlacesOff /\ Limbo \in PlacesOff /\ P[t] \notin PlacesOff
      /\ Terminated \in PlacesOff
  BY PlacesDiffer DEF PlacesOff
<1>1. /\ Sched(s1, L, E) /\ AllBut(s1, s, GenericFields) /\ s1.terminated = s.terminated
  BY <1>p, GenericOut
<1> HIDE DEF s1
<1>2. /\ AllBut(r, s1, {"suspended"}) /\ DOMAIN r = SchedFields
      /\ r.suspended = s1.suspended \cup {t}
  BY <1>1 DEF AllBut, SchedFields, Sched, Typed
<1> HIDE DEF r
<1>3. /\ Lists(s1.delayed, L, Delayed) /\ Lists(s1.overflow, L, Overflowed)
      /\ Lists(s1.terminated, L, Terminated) /\ s1.suspended = {u \in Tasks : L[u] = Suspended}
      /\ Typed(s1) /\ OnTime(s1) /\ DOMAIN P = Tasks
  <2>1. Placed(s1, L, E) /\ Typed(s1) /\ OnTime(s1) /\ Placed(s, P, E)
    BY <1>1 DEF Sched
  <2> QED BY <2>1 DEF Placed
<1>4. /\ L[t] = Limbo /\ DOMAIN L = Tasks /\ [L EXCEPT ![t] = Suspended] = Q
      /\ \A u \in Tasks : L[u] = IF u = t THEN Limbo ELSE P[u]
      /\ \A u \in Tasks : Q[u] = IF u = t THEN Suspended ELSE P[u]
  BY <1>3
<1> HIDE DEF L, Q
<1>5. /\ Lists(s1.delayed, Q, Delayed) /\ Lists(s1.overflow, Q, Overflowed)
      /\ Lists(s1.terminated, Q, Terminated)
  <2>1. /\ Lists(s1.delayed, [L EXCEPT ![t] = Suspended], Delayed)
        /\ Lists(s1.overflow, [L EXCEPT ![t] = Suspended], Overflowed)
        /\ Lists(s1.terminated, [L EXCEPT ![t] = Suspended], Terminated)
    BY <1>3, <1>4, <1>p, Ignores
  <2> QED BY <2>1, <1>4
<1>6. /\ r.delayed = s1.delayed /\ r.overflow = s1.overflow /\ r.terminated = s1.terminated
      /\ r.wakeTime = s1.wakeTime /\ r.xTickCount = s1.xTickCount
  BY <1>2 DEF AllBut, SchedFields
<1>7. Typed(r) /\ OnTime(r)
  BY <1>2, <1>3, <1>6 DEF Typed, OnTime, AllBut, SchedFields
<1>8. r.suspended = {u \in Tasks : Q[u] = Suspended}
  BY <1>2, <1>3, <1>4, <1>p
<1>9. Placed(r, Q, E) /\ Ranked(r, Q)
  <2>1. AllBut(r, s1, SleepFields \cup OtherFields \cup {"wakeTime"})
    BY <1>2 DEF AllBut, SleepFields
  <2>2. L[t] \in PlacesOff /\ Q = [L EXCEPT ![t] = Suspended]
    BY <1>4, <1>p
  <2> QED BY <1>1, <1>5, <1>6, <1>7, <1>8, <1>p, <2>1, <2>2, PutAway
<1>10. AllBut(r, s, GenericFields) /\ r.terminated = s.terminated
  BY <1>1, <1>2, <1>6 DEF AllBut, GenericFields
<1>11. Early(r, Q)
  <2>1. r.wakeTime = s.wakeTime /\ r.xTickCount = s.xTickCount
    BY <1>10 DEF AllBut, SchedFields, GenericFields
  <2> QED BY <2>1, <1>4, <1>p DEF Early
<1> QED BY <1>7, <1>9, <1>10, <1>11 DEF Sched, r, Q, s1

(* vTaskPlaceOnEventList.                                                  *)
LEMMA PlacedOnList ==
  ASSUME NEW s, NEW P, NEW E, Settled(s, P, E), s.xSchedulerRunning,
         s.pxCurrentTCB # idle, P[s.pxCurrentTCB] >= 0,
         NEW l \in EventLists, NEW wait \in Ticks, wait # 0
  PROVE  \E Q, F : Stopped(vTaskPlaceOnEventList(s, l, wait), Q, F, s, P, wait)
<1> DEFINE t == s.pxCurrentTCB
           F == [E EXCEPT ![t] = l]
           s1 == [s EXCEPT !.event[l] = vListInsert(@, t, s.eventValue)]
           r == vTaskPlaceOnEventList(s, l, wait)
<1>0. /\ t \in Tasks /\ E \in [Tasks -> Waits] /\ Sched(s, P, E) /\ Early(s, P)
      /\ s.wakeTime \in [Tasks -> Ticks] /\ s.xTickCount \in Ticks
  BY SettledNumbers DEF Typed, Settled
<1>1. E[t] = Nothing
  <2>1. P[t] \notin Asleep \cup {Suspended}
    BY PlacesDiffer DEF Asleep, PlacesOff
  <2> QED BY <1>0, <2>1 DEF Settled
<1>2. Sched(s1, P, F) /\ AllBut(s1, s, {"event"}) /\ Early(s1, P)
  BY <1>0, <1>1, OnEventList
<1>3. r = IF wait = portMAX_DELAY THEN [vListRemoveGeneric(s1, t) EXCEPT !.suspended = @ \cup {t}]
          ELSE Delay(s1, TimeToWake(s, wait))
  BY DEF vTaskPlaceOnEventList
<1> HIDE DEF r, s1, F
<1>4. /\ s1.pxCurrentTCB = t /\ s1.xTickCount = s.xTickCount /\ s1.wakeTime = s.wakeTime
      /\ s1.terminated = s.terminated
  BY <1>2 DEF AllBut, SchedFields
<1>5. CASE wait = portMAX_DELAY
  <2> DEFINE Q == [P EXCEPT ![t] = Suspended]
             w == s.wakeTime[t]
  <2>1. r = [vListRemoveGeneric(s1, t) EXCEPT !.suspended = @ \cup {t}]
    BY <1>3, <1>5
  <2>2. /\ Sched(r, Q, F) /\ Early(r, Q) /\ r.terminated = s.terminated
        /\ AllBut(r, s1, GenericFields)
    <3> DEFINE a == [vListRemoveGeneric(s1, t) EXCEPT !.suspended = @ \cup {t}]
    <3>1. P[t] >= 0
      OBVIOUS
    <3> HIDE DEF t
    <3>2. /\ Sched(a, Q, F) /\ Early(a, Q) /\ a.terminated = s1.terminated
          /\ AllBut(a, s1, GenericFields)
      BY <1>0, <1>2, <3>1, SuspendedIn
    <3> QED BY <1>4, <2>1, <3>2
  <2>3. AllBut(r, s, GenericFields \cup EventFields \cup {"wakeTime"})
    BY <1>2, <2>2 DEF AllBut, EventFields
  <2>4. r.wakeTime = [s.wakeTime EXCEPT ![t] = w] /\ w \in Ticks
    <3>1. r.wakeTime = s.wakeTime
      BY <1>4, <2>2 DEF AllBut, SchedFields, GenericFields
    <3> QED BY <3>1, <1>0
  <2>5. Stopped(r, Q, F, s, P, (w - s.xTickCount) % TickMod)
    BY <2>2, <2>3, <2>4, IsStopped DEF F
  <2>6. Q[t] = Suspended /\ Suspended \notin Asleep
    BY <1>0, SettledNumbers, PlacesDiffer DEF Asleep
  <2>7. Stopped(r, Q, F, s, P, wait)
    BY <2>5, <2>6 DEF Stopped
  <2> QED BY <2>7 DEF r
<1>6. CASE wait # portMAX_DELAY
  <2> DEFINE w == TimeToWake(s, wait)
             v == IF w < s.xTickCount THEN Overflowed ELSE Delayed
             Q == [P EXCEPT ![t] = v]
  <2>0. /\ w \in Ticks /\ w # s.xTickCount /\ (w - s.xTickCount) % TickMod = wait
    <3>1. wait \in Nat /\ wait > 0 /\ wait < TickMod /\ s.xTickCount \in Nat
          /\ s.xTickCount < TickMod /\ TickMod \in Nat
      BY <1>0, Constants
    <3>2. w = IF s.xTickCount + wait >= TickMod THEN s.xTickCount + wait - TickMod
              ELSE s.xTickCount + wait
      BY <1>0, TickSums DEF TimeToWake
    <3> HIDE DEF w
    <3>3. w \in Ticks /\ w # s.xTickCount
      BY <3>1, <3>2 DEF Ticks
    <3>4. (w - s.xTickCount) % TickMod
             = IF w >= s.xTickCount THEN w - s.xTickCount ELSE w - s.xTickCount + TickMod
      BY <1>0, <3>3, TickSums
    <3> QED BY <3>1, <3>2, <3>3, <3>4
  <2> HIDE DEF w
  <2>1. r = Delay(s1, w)
    BY <1>3, <1>6 DEF w
  <2>2. /\ Sched(r, Q, F) /\ Early(r, Q) /\ v \in Asleep /\ r.terminated = s.terminated
        /\ AllBut(r, s1, GenericFields \cup {"wakeTime"})
        /\ r.wakeTime = [s.wakeTime EXCEPT ![t] = w]
    <3> DEFINE a == Delay(s1, w)
               v1 == IF w < s1.xTickCount THEN Overflowed ELSE Delayed
               Q1 == [P EXCEPT ![s1.pxCurrentTCB] = v1]
    <3>1. P[s1.pxCurrentTCB] >= 0 /\ w # s1.xTickCount
      BY <1>4, <2>0
    <3>2. /\ Sched(a, Q1, F) /\ Early(a, Q1) /\ v1 \in Asleep
          /\ AllBut(a, s1, GenericFields \cup {"wakeTime"})
          /\ a.wakeTime = [s1.wakeTime EXCEPT ![s1.pxCurrentTCB] = w]
          /\ a.terminated = s1.terminated
      BY <1>2, <2>0, <3>1, PutToSleep
    <3>3. v1 = v /\ Q1 = Q /\ a = r
      BY <1>4, <2>1
    <3> HIDE DEF a, v1, Q1, v, Q
    <3> QED BY <1>4, <3>2, <3>3
  <2>3. AllBut(r, s, GenericFields \cup EventFields \cup {"wakeTime"})
    BY <1>2, <2>2 DEF AllBut, EventFields
  <2> HIDE DEF v
  <2>4. Stopped(r, Q, F, s, P, (w - s.xTickCount) % TickMod)
    BY <2>0, <2>2, <2>3, IsStopped DEF F
  <2> HIDE DEF Q
  <2> QED BY <2>0, <2>4 DEF r
<1> QED BY <1>5, <1>6

-----------------------------------------------------------------------------
(* Ticks, and what was left for the end of a suspension.                   *)

(* The timer, while the scheduler is suspended and while it is not.        *)
LEMMA TickMissed ==
  ASSUME NEW s, NEW P, NEW E, Settled(s, P, E), s.xSchedulerRunning,
         s.uxSchedulerSuspended # 0, s.uxMissedTicks < MaxMissed
  PROVE  LET r == vTaskIncrementTick(taskYIELD(s))
         IN  /\ Settled(r, P, E) /\ AllBut(r, s, {"pendsv", "uxMissedTicks"})
             /\ r.uxMissedTicks = s.uxMissedTicks + 1 /\ r.pendsv
<1> DEFINE r == vTaskIncrementTick(taskYIELD(s))
<1>0. DOMAIN s = SchedFields /\ s.uxMissedTicks \in Nat
  BY SettledNumbers DEF Typed
<1>1. /\ AllBut(r, s, {"pendsv", "uxMissedTicks"}) /\ r.uxMissedTicks = s.uxMissedTicks + 1
      /\ r.pendsv = TRUE
  BY <1>0 DEF AllBut, SchedFields, vTaskIncrementTick, taskYIELD
<1> HIDE DEF r
<1>a. r.uxMissedTicks \in Nat /\ r.pendsv \in BOOLEAN
  <2>1. r.uxMissedTicks \in Nat
    BY <1>0, <1>1
  <2>2. r.pendsv \in BOOLEAN
    BY <1>1
  <2> QED BY <2>1, <2>2
<1>b. r.uxMissedTicks <= MaxMissed
  BY <1>0, <1>1, Constants
<1>2. Typed(r)
  BY <1>0, <1>1, <1>a, SettledNumbers DEF Typed, AllBut, SchedFields
<1>3. AllBut(r, s, OtherFields)
  BY <1>1 DEF AllBut, OtherFields
<1>4. Sched(r, P, E) /\ Early(r, P) /\ r.terminated = s.terminated
  BY <1>2, <1>3, SettledNumbers, Elsewhere DEF Settled
<1>5. /\ r.live = s.live /\ r.xSchedulerRunning = s.xSchedulerRunning
      /\ r.uxSchedulerSuspended = s.uxSchedulerSuspended
      /\ r.uxTasksDeleted = s.uxTasksDeleted
  BY <1>0, <1>1 DEF AllBut, SchedFields
<1>6. Settled(r, P, E)
  BY <1>4, <1>5, <1>b DEF Settled
<1> QED BY <1>1, <1>6 DEF r

(* n ticks have been processed, and the scheduler is not suspended.        *)
ResumedFields == TimeFields \cup {"uxSchedulerSuspended", "xMissedYield", "pendsv"}

TimePassed(r, Q, F, s, P, n) ==
  /\ Settled(r, Q, F) /\ AllBut(r, s, ResumedFields) /\ ClockMoved(r, s, n)
  /\ r.uxSchedulerSuspended = 0
  /\ StayReady(P, Q, {})
  /\ \A t \in Tasks : Q[t] \in Asleep =>
       P[t] \in Asleep /\ TicksTo(s, t) > n /\ TicksTo(r, t) = TicksTo(s, t) - n
  /\ \A t \in Tasks : P[t] \in Asleep /\ Q[t] \notin Asleep =>
       t \in ToSet(s.pending) \/ TicksTo(s, t) <= n

(* Nobody has begun to wait, or waits for something else.                  *)
LessWaits(F, E) == \A t \in Tasks : F[t] # Nothing => F[t] = E[t]

(* From what the loops over the lists have done.                           *)
LEMMA IsPassed ==
  ASSUME NEW s, NEW P, NEW E, Settled(s, P, E), s.xSchedulerRunning,
         NEW s1, NEW P1, NEW E1, Sched(s1, P1, E1), Early(s1, P1),
         AllBut(s1, s, ListFields \cup {"uxSchedulerSuspended", "pendsv"}),
         s1.terminated = s.terminated, s1.uxSchedulerSuspended = 0,
         \A t \in Tasks : \/ P1[t] = P[t] /\ E1[t] = E[t] /\ t \notin ToSet(s.pending)
                          \/ t \in ToSet(s.pending) /\ P1[t] \in Prios /\ E1[t] = Nothing,
         NEW n \in Nat,
         NEW r, NEW Q, NEW F, Passed(r, Q, F, s1, P1, E1, n), r.uxMissedTicks = 0
  PROVE  TimePassed(r, Q, F, s, P, n) /\ LessWaits(F, E) /\ r.terminated = s.terminated
<1>0. /\ Sched(r, Q, F) /\ Early(r, Q) /\ AllBut(r, s1, TimeFields)
      /\ r.terminated = s1.terminated /\ ClockMoved(r, s1, n) /\ Woken(r, Q, F, s1, P1, E1, n)
  BY DEF Passed
<1>1. /\ Placed(s, P, E) /\ Placed(s1, P1, E1) /\ Typed(s1) /\ Typed(s)
      /\ s1.uxPriority \in [Tasks -> Prios]
  BY SettledNumbers DEF Sched, Typed
<1>2. /\ s1.wakeTime = s.wakeTime /\ s1.xTickCount = s.xTickCount
      /\ s1.xNumOfOverflows = s.xNumOfOverflows /\ s1.uxPriority = s.uxPriority
      /\ s1.uxTasksDeleted = s.uxTasksDeleted /\ s1.live = s.live
      /\ s1.xSchedulerRunning = s.xSchedulerRunning
  BY DEF AllBut, SchedFields, ListFields, GenericFields, EventFields, ReadyFields
<1>3. /\ r.uxTasksDeleted = s.uxTasksDeleted /\ r.live = s.live
      /\ r.xSchedulerRunning = s.xSchedulerRunning /\ r.uxSchedulerSuspended = 0
      /\ AllBut(r, s, ResumedFields)
  <2>1. AllBut(r, s, ResumedFields)
    <3>1. AllBut(r, s1, ResumedFields)
      BY <1>0 DEF AllBut, ResumedFields
    <3>2. AllBut(s1, s, ResumedFields)
      BY DEF AllBut, ResumedFields, TimeFields
    <3> QED BY <3>1, <3>2 DEF AllBut
  <2>2. /\ r.uxTasksDeleted = s1.uxTasksDeleted /\ r.live = s1.live
        /\ r.xSchedulerRunning = s1.xSchedulerRunning
        /\ r.uxSchedulerSuspended = s1.uxSchedulerSuspended
    BY <1>0 DEF AllBut, SchedFields, TimeFields, ListFields, GenericFields, EventFields, ReadyFields
  <2> QED BY <1>2, <2>1, <2>2
<1>4. ClockMoved(r, s, n) /\ \A t : TicksTo(s1, t) = TicksTo(s, t)
  BY <1>0, <1>2 DEF ClockMoved, TicksTo
<1>5. \A p \in Prios : p >= 0 /\ p \notin PlacesOff
  BY PlacesDiffer, Constants
<1>6. \A t \in Tasks : P[t] = Absent => E[t] = Nothing
  BY PlacesDiffer DEF Settled, Asleep
<1>7. \A t \in Tasks : t \in ToSet(s.pending) <=> E[t] = Pending
  BY <1>1 DEF Placed, Lists
<1>8. ASSUME NEW t \in Tasks
      PROVE  /\ Q[t] # Limbo /\ (Q[t] = Absent <=> P[t] = Absent)
             /\ F[t] # Nothing => Q[t] \in Asleep \cup {Suspended}
             /\ F[t] # Pending /\ (F[t] # Nothing => F[t] = E[t])
             /\ P[t] >= 0 => Q[t] >= 0
             /\ Q[t] \in Asleep => /\ P[t] \in Asleep /\ TicksTo(s, t) > n
                                   /\ TicksTo(r, t) = TicksTo(s, t) - n
             /\ P[t] \in Asleep /\ Q[t] \notin Asleep
                  => t \in ToSet(s.pending) \/ TicksTo(s, t) <= n
  <2>1. /\ P[t] # Limbo /\ (E[t] # Nothing => P[t] \in Asleep \cup {Suspended})
        /\ Asleep \subseteq PlacesOff /\ Limbo \in PlacesOff /\ Absent \in PlacesOff
        /\ Limbo \notin Asleep /\ Absent \notin Asleep /\ Absent # Limbo
        /\ Absent # Suspended
    BY PlacesDiffer DEF Settled, Asleep, PlacesOff
  <2>2. IF P1[t] \in Asleep
        THEN IF TicksTo(s, t) <= n
             THEN Q[t] = s.uxPriority[t] /\ F[t] = Nothing
             ELSE Q[t] \in Asleep /\ F[t] = E1[t] /\ TicksTo(r, t) = TicksTo(s, t) - n
        ELSE Q[t] = P1[t] /\ F[t] = E1[t]
    BY <1>0, <1>2, <1>4 DEF Woken
  <2>3. s.uxPriority[t] \in Prios /\ TicksTo(s, t) \in Int /\ Pending # Nothing
    <3>1. s.wakeTime[t] - s.xTickCount \in Int
      BY <1>1, Constants DEF Typed
    <3> QED BY <1>1, <3>1, <1>2, WaitsDiffer, TickSums, Constants DEF TicksTo
  <2>4. CASE P1[t] = P[t] /\ E1[t] = E[t] /\ t \notin ToSet(s.pending)
    <3>1. E[t] # Pending
      BY <2>4, <1>7
    <3>2. CASE P[t] \in Asleep /\ TicksTo(s, t) <= n
      <4>1. Q[t] \in Prios /\ F[t] = Nothing
        BY <2>2, <2>3, <2>4, <3>2
      <4> QED BY <2>1, <2>3, <3>2, <4>1, <1>5
    <3>3. CASE P[t] \in Asleep /\ ~(TicksTo(s, t) <= n)
      <4>1. Q[t] \in Asleep /\ F[t] = E[t] /\ TicksTo(r, t) = TicksTo(s, t) - n
        BY <2>2, <2>4, <3>3
      <4>2. TicksTo(s, t) > n
        BY <2>3, <3>3
      <4> HIDE DEF TicksTo
      <4>3. ~(P[t] >= 0)
        BY <2>1, <3>3, PlacesDiffer
      <4> QED BY <2>1, <3>1, <3>3, <4>1, <4>2, <4>3
    <3>4. CASE P[t] \notin Asleep
      <4>1. Q[t] = P[t] /\ F[t] = E[t]
        BY <2>2, <2>4, <3>4
      <4> QED BY <2>1, <3>1, <3>4, <4>1
    <3> QED BY <3>2, <3>3, <3>4
  <2>5. CASE t \in ToSet(s.pending) /\ P1[t] \in Prios /\ E1[t] = Nothing
    <3>1. Q[t] = P1[t] /\ F[t] = Nothing /\ P1[t] \notin Asleep /\ E[t] = Pending
      BY <2>1, <2>2, <2>5, <1>5, <1>7
    <3>2. P[t] # Absent
      BY <3>1, <2>3, <1>6
    <3> QED BY <2>1, <2>3, <2>5, <3>1, <3>2, <1>5
  <2> QED BY <2>4, <2>5
<1>9. Settled(r, Q, F)
  <2>1. \A t \in Tasks : Q[t] # Limbo /\ (Q[t] = Absent <=> t \notin r.live)
    BY <1>3, <1>8 DEF Settled
  <2>2. \A t \in Tasks : F[t] # Nothing => Q[t] \in Asleep \cup {Suspended}
    BY <1>8
  <2>3. r.uxMissedTicks <= MaxMissed /\ \A t \in Tasks : F[t] # Pending
    BY <1>8, Constants
  <2>4. Q[idle] >= 0 /\ r.uxTasksDeleted = Len(r.terminated)
    BY <1>0, <1>3, <1>8, Constants DEF Settled
  <2> QED BY <1>0, <1>3, <2>1, <2>2, <2>3, <2>4 DEF Settled
<1> QED BY <1>0, <1>3, <1>4, <1>8, <1>9 DEF TimePassed, StayReady, LessWaits
(* The timer while the scheduler is not suspended.                         *)
LEMMA TickProcessed ==
  ASSUME NEW s, NEW P, NEW E, Settled(s, P, E), s.xSchedulerRunning,
         s.uxSchedulerSuspended = 0
  PROVE  LET r == vTaskIncrementTick(taskYIELD(s))
         IN  \E Q, F : /\ TimePassed(r, Q, F, s, P, 1) /\ r.uxMissedTicks = 0 /\ r.pendsv
                       /\ LessWaits(F, E) /\ r.terminated = s.terminated
<1> DEFINE s1 == taskYIELD(s)
           r == vTaskIncrementTick(s1)
<1>1. /\ Settled(s1, P, E) /\ AllBut(s1, s, {"pendsv"}) /\ s1.pendsv = TRUE
  BY YieldedIf DEF Steady
<1> HIDE DEF s1
<1>2. /\ s1.uxSchedulerSuspended = 0 /\ s1.uxMissedTicks = 0
      /\ s1.terminated = s.terminated
  BY <1>1 DEF AllBut, SchedFields, Settled
<1>3. Sched(s1, P, E) /\ Early(s1, P)
  BY <1>1 DEF Settled
<1>4. /\ \E Q, F : Passed(r, Q, F, s1, P, E, 1)
      /\ r.uxMissedTicks = 0
  BY <1>2, <1>3, OneTick
<1> HIDE DEF r
<1>5. PICK Q, F : Passed(r, Q, F, s1, P, E, 1)
  BY <1>4
<1>6. r.pendsv
  BY <1>1, <1>5 DEF Passed, AllBut, SchedFields, TimeFields, ListFields, GenericFields,
                    EventFields, ReadyFields
<1>7. \A t \in Tasks : t \notin ToSet(s.pending)
  <2>1. Lists(s.pending, E, Pending) /\ \A t \in Tasks : E[t] # Pending
    BY SettledNumbers DEF Placed, Settled
  <2> QED BY <2>1 DEF Lists
<1>8. AllBut(s1, s, ListFields \cup {"uxSchedulerSuspended", "pendsv"})
  BY <1>1 DEF AllBut
<1>9. TimePassed(r, Q, F, s, P, 1) /\ LessWaits(F, E) /\ r.terminated = s.terminated
  BY <1>2, <1>3, <1>4, <1>5, <1>7, <1>8, IsPassed
<1> QED BY <1>4, <1>6, <1>9 DEF r, s1

(* xTaskResumeAll.                                                         *)
LEMMA AllResumed ==
  ASSUME NEW s, NEW P, NEW E, Settled(s, P, E), s.xSchedulerRunning,
         s.uxSchedulerSuspended = 1
  PROVE  LET r == xTaskResumeAll(s)
         IN  \E Q, F : /\ TimePassed(r.k, Q, F, s, P, s.uxMissedTicks)
                       /\ r.k.uxMissedTicks = 0
                       /\ r.k.pendsv \/ ~r.yielded
                       /\ s.pendsv => r.k.pendsv
                       /\ LessWaits(F, E) /\ r.k.terminated = s.terminated
<1> DEFINE k1 == [s EXCEPT !.uxSchedulerSuspended = @ - 1]
           k2 == FoldLeft(MovePending, k1, k1.pending)
           k3 == ProcessMissedTicks(k2)
           k4 == taskYIELD([k3 EXCEPT !.xMissedYield = FALSE])
           r == xTaskResumeAll(s)
           n == s.uxMissedTicks
<1>0. /\ Sched(s, P, E) /\ Early(s, P) /\ DOMAIN s = SchedFields
      /\ n \in 0 .. (TickMod - 1) /\ Lists(s.pending, E, Pending) /\ n \in Nat
      /\ P \in [Tasks -> Int] /\ E \in [Tasks -> Waits]
  <2>1. n \in Nat /\ n <= MaxMissed
    BY SettledNumbers DEF Settled, Typed
  <2>2. n \in 0 .. (TickMod - 1)
    BY <2>1, Constants
  <2>3. Lists(s.pending, E, Pending)
    BY SettledNumbers DEF Placed
  <2> QED BY <2>1, <2>2, <2>3, SettledNumbers DEF Settled
<1> HIDE DEF n
<1>1. AllBut(k1, s, {"uxSchedulerSuspended"}) /\ k1.uxSchedulerSuspended = 0
  BY <1>0 DEF AllBut, SchedFields
<1>2. r = IF YieldDue(k1) THEN [k |-> k4, yielded |-> TRUE] ELSE [k |-> k3, yielded |-> FALSE]
  BY <1>1 DEF xTaskResumeAll
<1> HIDE DEF r, k1
<1>3. Sched(k1, P, E) /\ Early(k1, P) /\ k1.pending = s.pending /\ k1.terminated = s.terminated
  <2>0. Typed(s) /\ AllBut(k1, s, OtherFields)
    BY <1>0, <1>1 DEF Sched, AllBut, OtherFields
  <2>1. Typed(k1) /\ AllBut(k1, s, OtherFields)
    <3>1. k1.uxSchedulerSuspended \in Nat
      BY <1>1
    <3> QED BY <1>1, <2>0, <3>1 DEF Typed, AllBut, SchedFields
  <2>2. Sched(k1, P, E) /\ Early(k1, P) /\ k1.terminated = s.terminated
    BY <1>0, <2>1, Elsewhere
  <2> QED BY <1>1, <2>2 DEF AllBut, SchedFields
<1> DEFINE T == ToSet(k1.pending)
           P1 == AllReady(k1, P, T)
           E1 == NoneWaits(E, T)
<1>4. /\ T \subseteq Tasks /\ k1.pending \in Seq(Tasks)
      /\ \A t \in Tasks : t \in T <=> E[t] = Pending
  BY <1>0, <1>3 DEF Lists, IsList
<1>5. \A t \in T : P[t] # Terminated
  <2>1. \A t \in T : P[t] \in Asleep \cup {Suspended}
    BY <1>4, WaitsDiffer DEF Settled
  <2> QED BY <2>1, PlacesDiffer DEF Asleep
<1> HIDE DEF k2
<1>6. /\ Sched(k2, P1, E1) /\ AllBut(k2, k1, ListFields) /\ k2.terminated = k1.terminated
  <2>1. PICK run : /\ IsRun(run, "move", 0, k1, k1.pending, Len(k1.pending))
                   /\ FoldLeft(MovePending, k1, k1.pending) = run[Len(k1.pending)]
    BY <1>4, MoveRun
  <2>2. k2 = run[Len(k1.pending)]
    BY <2>1 DEF k2
  <2>3. /\ Sched(run[Len(k1.pending)], P1, E1) /\ AllBut(run[Len(k1.pending)], k1, ListFields)
        /\ run[Len(k1.pending)].terminated = k1.terminated
    BY <1>3, <1>4, <1>5, <2>1, LoopReadies
  <2> QED BY <2>2, <2>3
<1>7. /\ k2.uxMissedTicks = n /\ k2.uxSchedulerSuspended = 0 /\ k2.wakeTime = k1.wakeTime
      /\ k2.xTickCount = k1.xTickCount
      /\ AllBut(k2, s, ListFields \cup {"uxSchedulerSuspended", "pendsv"})
  <2>1. /\ k2.uxMissedTicks = k1.uxMissedTicks /\ k2.wakeTime = k1.wakeTime
        /\ k2.uxSchedulerSuspended = k1.uxSchedulerSuspended
        /\ k2.xTickCount = k1.xTickCount
    BY <1>6 DEF AllBut, SchedFields, ListFields, GenericFields, EventFields, ReadyFields
  <2>2. k1.uxMissedTicks = n
    BY <1>1 DEF AllBut, SchedFields, n
  <2>3. AllBut(k2, s, ListFields \cup {"uxSchedulerSuspended", "pendsv"})
    BY <1>1, <1>6 DEF AllBut
  <2> QED BY <1>1, <2>1, <2>2, <2>3
<1>8. \A t \in Tasks : IF t \in T THEN P1[t] \in Prios /\ E1[t] = Nothing
                       ELSE P1[t] = P[t] /\ E1[t] = E[t]
  <2>1. k1.uxPriority \in [Tasks -> Prios]
    BY <1>3 DEF Sched, Typed
  <2> QED BY <2>1 DEF AllReady, NoneWaits
<1>9. Early(k2, P1)
  <2>1. \A t \in Tasks : P1[t] = Delayed => P[t] = Delayed
    BY <1>8, PlacesDiffer DEF PlacesOff
  <2> HIDE DEF P1
  <2> QED BY <1>3, <1>7, <2>1 DEF Early
<1> HIDE DEF P1, E1
<1>10. /\ \E Q, F : Passed(k3, Q, F, k2, P1, E1, n)
       /\ k3.uxMissedTicks = 0
  <2>1. k2.uxMissedTicks \in 0 .. (TickMod - 1)
    BY <1>0, <1>7
  <2>2. /\ \E Q, F : Passed(k3, Q, F, k2, P1, E1, k2.uxMissedTicks)
        /\ k3.uxMissedTicks = 0
    BY <1>6, <1>7, <1>9, <2>1, LateTicks
  <2> QED BY <1>7, <2>2
<1> HIDE DEF k3
<1>11. PICK Q, F : Passed(k3, Q, F, k2, P1, E1, n)
  BY <1>10
<1>12. TimePassed(k3, Q, F, s, P, n) /\ LessWaits(F, E) /\ k3.terminated = s.terminated
  <2>1. \A t \in Tasks : \/ P1[t] = P[t] /\ E1[t] = E[t] /\ t \notin ToSet(s.pending)
                         \/ t \in ToSet(s.pending) /\ P1[t] \in Prios /\ E1[t] = Nothing
    BY <1>3, <1>8
  <2>2. k2.terminated = s.terminated
    BY <1>3, <1>6
  <2> HIDE DEF T
  <2> QED BY <1>0, <1>6, <1>7, <1>9, <1>10, <1>11, <2>1, <2>2, IsPassed
<1>13. k3.pendsv = s.pendsv /\ DOMAIN k3 = SchedFields
  <2>1. DOMAIN k3 = SchedFields /\ k3.pendsv = k2.pendsv
    BY <1>11 DEF Passed, Sched, Typed, AllBut, SchedFields, TimeFields, ListFields,
                 GenericFields, EventFields, ReadyFields
  <2>2. k2.pendsv = k1.pendsv
    BY <1>6 DEF AllBut, SchedFields, ListFields, GenericFields, EventFields, ReadyFields
  <2>3. k1.pendsv = s.pendsv
    BY <1>1 DEF AllBut, SchedFields
  <2> QED BY <2>1, <2>2, <2>3
<1>14. CASE ~YieldDue(k1)
  <2>1. r.k = k3 /\ r.yielded = FALSE
    BY <1>2, <1>14
  <2> QED BY <1>10, <1>12, <1>13, <2>1 DEF r, n
<1>15. CASE YieldDue(k1)
  <2>1. r.k = k4
    BY <1>2, <1>15
  <2>2. AllBut(k4, k3, {"pendsv", "xMissedYield"}) /\ k4.pendsv = TRUE
    BY <1>13 DEF AllBut, SchedFields, taskYIELD
  <2> HIDE DEF k4
  <2>3. Settled(k3, Q, F) /\ k3.xSchedulerRunning
    <3>1. Settled(k3, Q, F) /\ AllBut(k3, s, ResumedFields)
      BY <1>12 DEF TimePassed
    <3>2. k3.xSchedulerRunning = s.xSchedulerRunning
      BY <3>1 DEF AllBut, SchedFields, ResumedFields, TimeFields, ListFields, GenericFields,
                  EventFields, ReadyFields
    <3> QED BY <3>1, <3>2
  <2>4. Settled(k4, Q, F)
    <3>1. k4.pendsv \in BOOLEAN
      BY <2>2
    <3>2. Steady(k4, Q, F, k3, Q, F)
      BY <2>2, <2>3, <3>1, Yielded
    <3> QED BY <3>2 DEF Steady
  <2>5. /\ k4.xTickCount = k3.xTickCount /\ k4.xNumOfOverflows = k3.xNumOfOverflows
        /\ k4.wakeTime = k3.wakeTime /\ k4.uxMissedTicks = k3.uxMissedTicks
        /\ k4.uxSchedulerSuspended = k3.uxSchedulerSuspended
        /\ k4.terminated = k3.terminated
    BY <2>2 DEF AllBut, SchedFields
  <2>6. AllBut(k4, s, ResumedFields)
    BY <2>2, <1>12 DEF TimePassed, AllBut, ResumedFields
  <2>7. ClockMoved(k4, s, n) /\ \A t : TicksTo(k4, t) = TicksTo(k3, t)
    BY <1>12, <2>5 DEF TimePassed, ClockMoved, TicksTo
  <2>8. TimePassed(k4, Q, F, s, P, n)
    BY <1>12, <2>4, <2>5, <2>6, <2>7 DEF TimePassed
  <2> QED BY <1>10, <1>12, <2>1, <2>2, <2>5, <2>8 DEF r, n
<1> QED BY <1>14, <1>15

-----------------------------------------------------------------------------
(* Those who wait.                                                         *)

(* What a step of the scheduler may do to the tasks that wait: none joins  *)
(* an event list, and none joins the tasks that wait for termination.      *)
Shaped(s) ==
  /\ DOMAIN s = SchedFields /\ IsOver(s.event, EventLists)
  /\ \A l \in EventLists : IsList(s.event[l])
  /\ IsList(s.terminated)

Trims(r, s) ==
  /\ Shaped(r)
  /\ \A l \in EventLists : ToSet(r.event[l]) \subseteq ToSet(s.event[l])
  /\ ToSet(r.terminated) \subseteq ToSet(s.terminated)

(* t waits on no event list.                                               *)
NotListed(s, t) == \A l \in EventLists : t \notin ToSet(s.event[l])

(* The invariant gives the lists their shape.                              *)
LEMMA SettledIsShaped ==
  ASSUME NEW s, NEW P, NEW E, Settled(s, P, E)
  PROVE  Shaped(s) /\ Trims(s, s)
BY SettledNumbers DEF Shaped, Trims, Placed, Lists

(* What trims what trims, trims.                                           *)
LEMMA TrimsAgain ==
  ASSUME NEW s, NEW a, NEW r, Trims(a, s), Trims(r, a)
  PROVE  Trims(r, s)
BY DEF Trims

(* A step that touches neither trims nothing.                              *)
LEMMA TrimsNothing ==
  ASSUME NEW s, Shaped(s), NEW r, DOMAIN r = SchedFields, r.event = s.event,
         r.terminated = s.terminated
  PROVE  Trims(r, s)
BY DEF Shaped, Trims

(* The operations on lists: only vListRemoveEvent changes the event lists. *)
LEMMA ListsTrim ==
  ASSUME NEW s, Shaped(s), NEW t, NEW p
  PROVE  /\ Trims(vListRemoveGeneric(s, t), s)
         /\ Trims(vListRemoveEvent(s, t), s) /\ NotListed(vListRemoveEvent(s, t), t)
         /\ Trims(prvAddTaskToReadyQueue(s, t), s)
         /\ Trims(SetPriority(s, t, p), s)
         /\ Trims(taskYIELD(s), s)
         /\ vListRemoveGeneric(s, t).event = s.event
         /\ prvAddTaskToReadyQueue(s, t).event = s.event
         /\ SetPriority(s, t, p).event = s.event
         /\ taskYIELD(s).event = s.event
<1>1. /\ DOMAIN s = SchedFields /\ IsOver(s.event, EventLists) /\ IsList(s.terminated)
      /\ \A l \in EventLists : IsList(s.event[l])
  BY DEF Shaped
<1>2. Trims(vListRemoveGeneric(s, t), s) /\ vListRemoveGeneric(s, t).event = s.event
  <2> DEFINE r == vListRemoveGeneric(s, t)
  <2>1. /\ DOMAIN r = SchedFields /\ r.event = s.event
        /\ r.terminated = RemoveFirst(s.terminated, t)
    BY <1>1 DEF vListRemoveGeneric, SchedFields
  <2> HIDE DEF r
  <2>2. IsList(r.terminated) /\ ToSet(r.terminated) \subseteq ToSet(s.terminated)
    BY <1>1, <2>1, RemovedFrom
  <2>3. Trims(r, s)
    BY <1>1, <2>1, <2>2 DEF Trims, Shaped
  <2> QED BY <2>1, <2>3 DEF r
<1>3. Trims(vListRemoveEvent(s, t), s) /\ NotListed(vListRemoveEvent(s, t), t)
  <2> DEFINE r == vListRemoveEvent(s, t)
  <2>1. /\ DOMAIN r = SchedFields /\ r.terminated = s.terminated
        /\ r.event = [l \in EventLists |-> RemoveFirst(s.event[l], t)]
    BY <1>1 DEF vListRemoveEvent, SchedFields
  <2> HIDE DEF r
  <2>2. \A l \in EventLists : /\ IsList(r.event[l])
                              /\ ToSet(r.event[l]) = ToSet(s.event[l]) \ {t}
    BY <1>1, <2>1, RemovedFrom
  <2>3. IsOver(r.event, EventLists)
    BY <2>1 DEF IsOver
  <2>4. Trims(r, s) /\ NotListed(r, t)
    BY <1>1, <2>1, <2>2, <2>3 DEF Trims, Shaped, NotListed
  <2> QED BY <2>4 DEF r
<1>4. /\ Trims(prvAddTaskToReadyQueue(s, t), s)
      /\ prvAddTaskToReadyQueue(s, t).event = s.event
  <2> DEFINE r == prvAddTaskToReadyQueue(s, t)
  <2>1. /\ DOMAIN r = SchedFields /\ r.event = s.event /\ r.terminated = s.terminated
    BY <1>1 DEF prvAddTaskToReadyQueue, SchedFields
  <2> HIDE DEF r
  <2>2. Trims(r, s)
    BY <2>1, TrimsNothing
  <2> QED BY <2>1, <2>2 DEF r
<1>5. /\ Trims(SetPriority(s, t, p), s) /\ SetPriority(s, t, p).event = s.event
  <2> DEFINE r == SetPriority(s, t, p)
  <2>1. /\ DOMAIN r = SchedFields /\ r.event = s.event /\ r.terminated = s.terminated
    BY <1>1 DEF SetPriority, SchedFields
  <2> HIDE DEF r
  <2>2. Trims(r, s)
    BY <2>1, TrimsNothing
  <2> QED BY <2>1, <2>2 DEF r
<1>6. /\ Trims(taskYIELD(s), s) /\ taskYIELD(s).event = s.event
  <2> DEFINE r == taskYIELD(s)
  <2>1. /\ DOMAIN r = SchedFields /\ r.event = s.event /\ r.terminated = s.terminated
    BY <1>1 DEF taskYIELD, SchedFields
  <2> HIDE DEF r
  <2>2. Trims(r, s)
    BY <2>1, TrimsNothing
  <2> QED BY <2>1, <2>2 DEF r
<1> QED BY <1>2, <1>3, <1>4, <1>5, <1>6

(* Making a task ready, or pending, and a yield.                           *)
LEMMA ReadyingTrims ==
  ASSUME NEW s, Shaped(s), NEW t, NEW b
  PROVE  /\ Trims(prvAddTaskToReadyQueue(vListRemoveGeneric(s, t), t), s)
         /\ prvAddTaskToReadyQueue(vListRemoveGeneric(s, t), t).event = s.event
         /\ Trims(ReadyOrPend(s, t), s) /\ ReadyOrPend(s, t).event = s.event
         /\ Trims(YieldIf(b, s), s) /\ YieldIf(b, s).event = s.event
<1> DEFINE g == vListRemoveGeneric(s, t)
           r == prvAddTaskToReadyQueue(g, t)
           w == [s EXCEPT !.pending = Append(@, t)]
<1>1. Trims(g, s) /\ g.event = s.event
  BY ListsTrim
<1>2. ReadyOrPend(s, t) = IF s.uxSchedulerSuspended = 0 THEN r ELSE w
  BY DEF ReadyOrPend
<1>3. Trims(w, s) /\ w.event = s.event
  <2>1. DOMAIN w = SchedFields /\ w.event = s.event /\ w.terminated = s.terminated
    BY DEF Shaped, SchedFields
  <2> HIDE DEF w
  <2> QED BY <2>1, TrimsNothing
<1> HIDE DEF g, w
<1>4. Trims(r, g) /\ r.event = g.event
  BY <1>1, ListsTrim DEF Trims
<1>5. Trims(r, s) /\ r.event = s.event
  BY <1>1, <1>4, TrimsAgain
<1>6. Trims(YieldIf(b, s), s) /\ YieldIf(b, s).event = s.event
  BY ListsTrim, TrimsNothing DEF YieldIf, Shaped
<1> QED BY <1>2, <1>3, <1>5, <1>6 DEF g

(* vTaskResume and xTaskResumeFromISR.                                     *)
LEMMA ResumingTrims ==
  ASSUME NEW s, Shaped(s), NEW t
  PROVE  Trims(vTaskResume(s, t), s) /\ Trims(xTaskResumeFromISR(s, t), s)
<1> DEFINE r == prvAddTaskToReadyQueue(vListRemoveGeneric(s, t), t)
           w == ReadyOrPend(s, t)
<1>1. Trims(r, s) /\ Trims(w, s)
  BY ReadyingTrims
<1>2. /\ vTaskResume(s, t) = YieldIf(s.uxPriority[t] >= s.uxPriority[s.pxCurrentTCB], r)
      /\ xTaskResumeFromISR(s, t)
           = YieldIf(/\ s.uxSchedulerSuspended = 0
                     /\ s.uxPriority[t] >= s.uxPriority[s.pxCurrentTCB], w)
  BY DEF vTaskResume, xTaskResumeFromISR
<1> HIDE DEF r, w
<1>3. \A a : Trims(a, s) => \A b : Trims(YieldIf(b, a), s)
  <2> SUFFICES ASSUME NEW a, Trims(a, s), NEW b PROVE Trims(YieldIf(b, a), s)
    OBVIOUS
  <2>1. Trims(YieldIf(b, a), a)
    BY ReadyingTrims DEF Trims
  <2> QED BY <2>1, TrimsAgain
<1> QED BY <1>1, <1>2, <1>3

(* WakeWaiter takes the head off its list and out of every other.          *)
LEMMA WakingTrims ==
  ASSUME NEW s, Shaped(s), NEW l \in EventLists
  PROVE  LET r == WakeWaiter(s, l)
         IN  /\ Trims(r, s)
             /\ s.event[l] # <<>> => NotListed(r, Head(s.event[l]))
             /\ s.event[l] = <<>> => r = s
<1> DEFINE h == Head(s.event[l])
           e == vListRemoveEvent(s, h)
           p == ReadyOrPend(e, h)
           x == xTaskRemoveFromEventList(s, l)
           r == WakeWaiter(s, l)
<1>1. CASE s.event[l] = <<>>
  <2>1. r = s
    BY <1>1 DEF WakeWaiter
  <2>2. Trims(s, s)
    BY DEF Shaped, Trims
  <2> HIDE DEF r
  <2>3. Trims(r, s)
    BY <2>1, <2>2
  <2> QED BY <1>1, <2>1, <2>3 DEF r
<1>2. CASE s.event[l] # <<>>
  <2>1. Trims(e, s) /\ NotListed(e, h)
    BY ListsTrim
  <2>2. x.k = p
    BY DEF xTaskRemoveFromEventList
  <2>3. r = YieldIf(x.woken, x.k)
    BY <1>2 DEF WakeWaiter
  <2> HIDE DEF e, x, r
  <2>4. Trims(p, e) /\ p.event = e.event
    BY <2>1, ReadyingTrims DEF Trims
  <2>5. Trims(r, p) /\ r.event = p.event
    BY <2>2, <2>3, <2>4, ReadyingTrims DEF Trims
  <2>6. Trims(r, s)
    BY <2>1, <2>4, <2>5, TrimsAgain
  <2>7. NotListed(r, h)
    BY <2>1, <2>4, <2>5 DEF NotListed
  <2> QED BY <1>2, <2>6, <2>7 DEF r
<1> QED BY <1>1, <1>2

(* Priorities, and the tasks that are put to sleep or suspended.           *)
LEMMA PrioritiesTrim ==
  ASSUME NEW s, Shaped(s), NEW t
  PROVE  /\ Trims(vTaskPriorityInherit(s, t), s)
         /\ Trims(vTaskPriorityDisinherit(s, t), s)
         /\ vTaskPriorityDisinherit(s, t).event = s.event
<1>1. Trims(s, s)
  BY DEF Shaped, Trims
<1>2. Trims(vTaskPriorityInherit(s, t), s)
  <2> DEFINE a == SetPriority(s, t, s.uxPriority[s.pxCurrentTCB])
             b == prvAddTaskToReadyQueue(vListRemoveGeneric(a, t), t)
             r == vTaskPriorityInherit(s, t)
  <2>1. Trims(a, s)
    BY ListsTrim
  <2>2. r \in {s, a, b}
    BY DEF vTaskPriorityInherit
  <2> HIDE DEF a, r
  <2>3. Trims(b, a)
    BY <2>1, ReadyingTrims DEF Trims
  <2> HIDE DEF b
  <2>4. Trims(b, s)
    BY <2>1, <2>3, TrimsAgain
  <2>5. Trims(r, s)
    BY <1>1, <2>1, <2>2, <2>4
  <2> QED BY <2>5 DEF r
<1>3. /\ Trims(vTaskPriorityDisinherit(s, t), s)
      /\ vTaskPriorityDisinherit(s, t).event = s.event
  <2> DEFINE g == vListRemoveGeneric(s, t)
             a == SetPriority(g, t, s.uxBasePriority[t])
             b == prvAddTaskToReadyQueue(a, t)
             r == vTaskPriorityDisinherit(s, t)
  <2>1. Trims(g, s) /\ g.event = s.event
    BY ListsTrim
  <2>2. r \in {s, b}
    BY DEF vTaskPriorityDisinherit
  <2> HIDE DEF g, r
  <2>7. Shaped(g)
    BY <2>1 DEF Trims
  <2>3. Trims(a, g) /\ a.event = g.event
    BY <2>7, ListsTrim
  <2> HIDE DEF a
  <2>4. Trims(b, a) /\ b.event = a.event
    BY <2>3, ListsTrim DEF Trims
  <2> HIDE DEF b
  <2>5. Trims(b, s) /\ b.event = s.event
    BY <2>1, <2>3, <2>4, TrimsAgain
  <2>6. Trims(r, s) /\ r.event = s.event
    BY <1>1, <2>2, <2>5
  <2> QED BY <2>6 DEF r
<1> QED BY <1>2, <1>3

(* Tasks go to sleep, or are suspended: nobody joins an event list.        *)
LEMMA SleepingTrims ==
  ASSUME NEW s, Shaped(s), NEW w, NEW t
  PROVE  /\ Trims(Delay(s, w), s) /\ Delay(s, w).event = s.event
         /\ Trims([vListRemoveGeneric(s, t) EXCEPT !.suspended = @ \cup {t}], s)
         /\ [vListRemoveGeneric(s, t) EXCEPT !.suspended = @ \cup {t}].event = s.event
         /\ Trims(TaskSuspend(s, t), s)
<1>1. \A u : Trims(vListRemoveGeneric(s, u), s) /\ vListRemoveGeneric(s, u).event = s.event
  BY ListsTrim
<1>2. Trims(Delay(s, w), s) /\ Delay(s, w).event = s.event
  <2> DEFINE g == vListRemoveGeneric(s, s.pxCurrentTCB)
             r == Delay(s, w)
  <2>1. Shaped(g) /\ DOMAIN g = SchedFields
    BY <1>1 DEF Trims, Shaped
  <2>2. DOMAIN r = SchedFields /\ r.event = g.event /\ r.terminated = g.terminated
    <3> HIDE DEF g
    <3>1. \A a, b, c : LET x == [g EXCEPT !.wakeTime = a]
                           y == [x EXCEPT !.overflow = b]
                           z == [x EXCEPT !.delayed = c]
                       IN  /\ DOMAIN y = SchedFields /\ DOMAIN z = SchedFields
                           /\ y.event = g.event /\ z.event = g.event
                           /\ y.terminated = g.terminated /\ z.terminated = g.terminated
      BY <2>1 DEF SchedFields
    <3> QED BY <3>1, Zenon DEF Delay, g
  <2> HIDE DEF g, r
  <2>3. Trims(r, g)
    BY <2>1, <2>2, TrimsNothing
  <2>4. Trims(g, s) /\ g.event = s.event
    BY <1>1 DEF g
  <2>5. Trims(r, s) /\ r.event = s.event
    BY <2>2, <2>3, <2>4, TrimsAgain
  <2> QED BY <2>5 DEF r
<1>3. \A a : Trims(a, s) =>
        LET r == [a EXCEPT !.suspended = @ \cup {t}] IN Trims(r, s) /\ r.event = a.event
  <2> SUFFICES ASSUME NEW a, Trims(a, s)
               PROVE  LET r == [a EXCEPT !.suspended = @ \cup {t}]
                      IN  Trims(r, s) /\ r.event = a.event
    OBVIOUS
  <2> DEFINE r == [a EXCEPT !.suspended = @ \cup {t}]
  <2>1. Shaped(a) /\ DOMAIN a = SchedFields
    BY DEF Trims, Shaped
  <2>2. DOMAIN r = SchedFields /\ r.event = a.event /\ r.terminated = a.terminated
    BY <2>1 DEF SchedFields
  <2> HIDE DEF r
  <2>3. Trims(r, a)
    BY <2>1, <2>2, TrimsNothing
  <2>4. Trims(r, s) /\ r.event = a.event
    BY <2>2, <2>3, TrimsAgain
  <2> QED BY <2>4 DEF r
<1>4. Trims(TaskSuspend(s, t), s)
  <2> DEFINE g == vListRemoveGeneric(s, t)
             e == vListRemoveEvent(g, t)
  <2>1. Trims(g, s)
    BY <1>1
  <2> HIDE DEF g
  <2>2. Trims(e, g)
    BY <2>1, ListsTrim DEF Trims
  <2> HIDE DEF e
  <2>3. Trims(e, s)
    BY <2>1, <2>2, TrimsAgain
  <2>4. TaskSuspend(s, t) = [e EXCEPT !.suspended = @ \cup {t}]
    BY DEF TaskSuspend, e, g
  <2> QED BY <1>3, <2>3, <2>4
<1> QED BY <1>1, <1>2, <1>3, <1>4

(* A task that is deleted waits for termination, and for nothing else.     *)
LEMMA DeletingTrims ==
  ASSUME NEW s, Shaped(s), NEW t
  PROVE  LET r == TaskDelete(s, t)
         IN  /\ \A l \in EventLists : ToSet(r.event[l]) \subseteq ToSet(s.event[l])
             /\ ToSet(r.terminated) \subseteq ToSet(s.terminated) \cup {t}
             /\ NotListed(r, t)
<1> DEFINE g == vListRemoveGeneric(s, t)
           e == vListRemoveEvent(g, t)
           r == TaskDelete(s, t)
<1>1. Trims(g, s)
  BY ListsTrim
<1> HIDE DEF g
<1>2. Trims(e, g) /\ NotListed(e, t)
  BY <1>1, ListsTrim DEF Trims
<1> HIDE DEF e
<1>3. Trims(e, s) /\ DOMAIN e = SchedFields
  BY <1>1, <1>2, TrimsAgain DEF Trims, Shaped
<1>4. r = [e EXCEPT !.terminated = Append(@, t), !.uxTasksDeleted = @ + 1]
  BY DEF TaskDelete, e, g
<1>5. r.event = e.event /\ r.terminated = Append(e.terminated, t)
  BY <1>3, <1>4 DEF SchedFields
<1> HIDE DEF r
<1>6. ToSet(Append(e.terminated, t)) \subseteq ToSet(e.terminated) \cup {t}
  <2> DEFINE d == e.terminated
  <2>1. d \in Seq(Tasks)
    BY <1>3 DEF Trims, Shaped, IsList
  <2>2. \A i \in 1 .. (Len(d) + 1) : Append(d, t)[i] = IF i = Len(d) + 1 THEN t ELSE d[i]
    BY <2>1
  <2>3. DOMAIN Append(d, t) = 1 .. (Len(d) + 1) /\ DOMAIN d = 1 .. Len(d) /\ Len(d) \in Nat
    BY <2>1
  <2> QED BY <2>2, <2>3 DEF ToSet
<1>7. \A l \in EventLists : ToSet(r.event[l]) \subseteq ToSet(s.event[l])
  BY <1>3, <1>5 DEF Trims
<1>8. ToSet(r.terminated) \subseteq ToSet(s.terminated) \cup {t}
  BY <1>3, <1>5, <1>6 DEF Trims
<1>9. NotListed(r, t)
  BY <1>2, <1>5 DEF NotListed
<1> QED BY <1>7, <1>8, <1>9 DEF r

(* A task is created, or freed.                                            *)
LEMMA LivesTrim ==
  ASSUME NEW s, Shaped(s), NEW t, NEW uxPriority
  PROVE  /\ Trims(xTaskCreate(s, t, uxPriority), s)
         /\ Trims(vTaskStartScheduler(s), s)
         /\ s.terminated # <<>> => Trims(FreeTerminated(s), s)
<1>1. \A u, p : Trims(xTaskCreate(s, u, p), s)
  <2> SUFFICES ASSUME NEW u, NEW p PROVE Trims(xTaskCreate(s, u, p), s)
    OBVIOUS
  <2> DEFINE v == IF p >= configMAX_PRIORITIES THEN configMAX_PRIORITIES - 1 ELSE p
             a == [s EXCEPT !.uxBasePriority[u] = v]
             b == SetPriority(a, u, v)
             c == [b EXCEPT !.live = @ \cup {u}]
             d == [c EXCEPT !.pxCurrentTCB = u]
             r == xTaskCreate(s, u, p)
  <2>1. Trims(a, s)
    <3>1. DOMAIN a = SchedFields /\ a.event = s.event /\ a.terminated = s.terminated
      BY DEF Shaped, SchedFields
    <3> HIDE DEF a
    <3> QED BY <3>1, TrimsNothing
  <2>2. r \in {prvAddTaskToReadyQueue(c, u), prvAddTaskToReadyQueue(d, u)}
    BY DEF xTaskCreate, prvInitialiseTCBVariables
  <2> HIDE DEF a, r, v
  <2>9. Shaped(a)
    BY <2>1 DEF Trims
  <2>3. Trims(b, a)
    BY <2>9, ListsTrim
  <2> HIDE DEF b
  <2>4. Trims(c, b)
    <3>1. DOMAIN c = SchedFields /\ c.event = b.event /\ c.terminated = b.terminated
      BY <2>3 DEF Trims, Shaped, SchedFields
    <3> HIDE DEF c
    <3> QED BY <2>3, <3>1, TrimsNothing DEF Trims
  <2> HIDE DEF c
  <2>5. Trims(d, c)
    <3>1. DOMAIN d = SchedFields /\ d.event = c.event /\ d.terminated = c.terminated
      BY <2>4 DEF Trims, Shaped, SchedFields
    <3> HIDE DEF d
    <3> QED BY <2>4, <3>1, TrimsNothing DEF Trims
  <2> HIDE DEF d
  <2>6. Trims(c, s) /\ Trims(d, s)
    BY <2>1, <2>3, <2>4, <2>5, TrimsAgain
  <2>7. /\ Trims(prvAddTaskToReadyQueue(c, u), c)
        /\ Trims(prvAddTaskToReadyQueue(d, u), d)
    BY <2>6, ListsTrim DEF Trims
  <2>8. Trims(r, s)
    BY <2>2, <2>6, <2>7, TrimsAgain
  <2> QED BY <2>8 DEF r
<1>2. Trims(vTaskStartScheduler(s), s)
  <2> DEFINE a == xTaskCreate(s, idle, tskIDLE_PRIORITY)
             r == vTaskStartScheduler(s)
  <2>1. Trims(a, s)
    BY <1>1
  <2>2. r = [a EXCEPT !.xSchedulerRunning = TRUE, !.xTickCount = 0]
    BY DEF vTaskStartScheduler
  <2> HIDE DEF a
  <2>3. DOMAIN r = SchedFields /\ r.event = a.event /\ r.terminated = a.terminated
    BY <2>1, <2>2 DEF Trims, Shaped, SchedFields
  <2> HIDE DEF r
  <2>4. Trims(r, a)
    BY <2>1, <2>3, TrimsNothing DEF Trims
  <2>5. Trims(r, s)
    BY <2>1, <2>4, TrimsAgain
  <2> QED BY <2>5 DEF r
<1>3. ASSUME s.terminated # <<>> PROVE Trims(FreeTerminated(s), s)
  <2> DEFINE r == FreeTerminated(s)
  <2>1. DOMAIN r = SchedFields /\ r.event = s.event /\ r.terminated = Tail(s.terminated)
    BY DEF FreeTerminated, Shaped, SchedFields
  <2> HIDE DEF r
  <2>2. /\ IsList(Tail(s.terminated))
        /\ ToSet(Tail(s.terminated)) \subseteq ToSet(s.terminated)
    BY <1>3, HeadAndTail DEF Shaped
  <2>3. Trims(r, s)
    BY <2>1, <2>2 DEF Trims, Shaped
  <2> QED BY <2>3 DEF r
<1> QED BY <1>1, <1>2, <1>3

(* The scheduler suspended, and a switch.                                  *)
LEMMA SwitchingTrims ==
  ASSUME NEW s, NEW P, NEW E, Settled(s, P, E), s.xSchedulerRunning
  PROVE  /\ Trims(vTaskSuspendAll(s), s)
         /\ Trims(vTaskSwitchContext([s EXCEPT !.pendsv = FALSE]), s)
<1>1. Shaped(s) /\ DOMAIN s = SchedFields
  BY SettledIsShaped DEF Shaped
<1>2. Trims(vTaskSuspendAll(s), s)
  <2> DEFINE r == vTaskSuspendAll(s)
  <2>1. DOMAIN r = SchedFields /\ r.event = s.event /\ r.terminated = s.terminated
    BY <1>1 DEF vTaskSuspendAll, SchedFields
  <2> HIDE DEF r
  <2>2. Trims(r, s)
    BY <1>1, <2>1, TrimsNothing
  <2> QED BY <2>2 DEF r
<1>3. Trims(vTaskSwitchContext([s EXCEPT !.pendsv = FALSE]), s)
  <2> DEFINE a == [s EXCEPT !.pendsv = FALSE]
             r == vTaskSwitchContext(a)
  <2>1. /\ AllBut(a, s, {"pendsv", "xMissedYield"}) /\ a.pendsv = FALSE
        /\ a.event = s.event /\ a.terminated = s.terminated
        /\ a.xSchedulerRunning = s.xSchedulerRunning
    BY <1>1 DEF AllBut, SchedFields
  <2> HIDE DEF a
  <2>2. Settled(a, P, E)
    BY <2>1, Yielded DEF Steady
  <2>6. AllBut(r, a, {"xMissedYield"}) \/ AllBut(r, a, ReadyFields \cup {"pxCurrentTCB"})
    BY <2>1, <2>2, Switched
  <2>3. AllBut(r, a, ReadyFields \cup {"pxCurrentTCB", "xMissedYield"})
    BY <2>6 DEF AllBut
  <2>4. DOMAIN r = SchedFields /\ r.event = a.event /\ r.terminated = a.terminated
    BY <2>2, <2>3, SettledNumbers DEF AllBut, SchedFields, ReadyFields
  <2> HIDE DEF r
  <2>5. Trims(r, s)
    BY <1>1, <2>1, <2>4, TrimsNothing
  <2> QED BY <2>5 DEF r, a
<1> QED BY <1>2, <1>3

(* Time: who is woken leaves the event lists.                              *)
LEMMA LessTrims ==
  ASSUME NEW s, NEW P, NEW E, Settled(s, P, E), NEW r, NEW Q, NEW F, Settled(r, Q, F),
         LessWaits(F, E), r.terminated = s.terminated
  PROVE  Trims(r, s)
<1>1. Shaped(r)
  BY SettledIsShaped
<1>2. ASSUME NEW l \in EventLists PROVE ToSet(r.event[l]) \subseteq ToSet(s.event[l])
  <2>1. /\ ToSet(r.event[l]) = {t \in Tasks : F[t] = l}
        /\ ToSet(s.event[l]) = {t \in Tasks : E[t] = l} /\ l # Nothing
    BY SettledNumbers, WaitsDiffer DEF Placed, Lists
  <2> QED BY <2>1 DEF LessWaits
<1> QED BY <1>1, <1>2 DEF Trims

(* A tick wakes; it puts nobody on an event list.                          *)
LEMMA TimeTrims ==
  ASSUME NEW s, NEW P, NEW E, Settled(s, P, E), s.xSchedulerRunning
  PROVE  /\ s.uxMissedTicks < MaxMissed => Trims(vTaskIncrementTick(taskYIELD(s)), s)
         /\ s.uxSchedulerSuspended = 1 => Trims(xTaskResumeAll(s).k, s)
<1>1. Shaped(s) /\ DOMAIN s = SchedFields
  BY SettledIsShaped DEF Shaped
<1>2. ASSUME s.uxMissedTicks < MaxMissed PROVE Trims(vTaskIncrementTick(taskYIELD(s)), s)
  <2> DEFINE r == vTaskIncrementTick(taskYIELD(s))
  <2>1. CASE s.uxSchedulerSuspended = 0
    <3>1. PICK Q, F : TimePassed(r, Q, F, s, P, 1) /\ LessWaits(F, E) /\ r.terminated = s.terminated
      BY <2>1, TickProcessed
    <3> QED BY <3>1, LessTrims DEF TimePassed
  <2>2. CASE s.uxSchedulerSuspended # 0
    <3>1. AllBut(r, s, {"pendsv", "uxMissedTicks"})
      BY <2>2, <1>2, TickMissed
    <3> HIDE DEF r
    <3>2. DOMAIN r = SchedFields /\ r.event = s.event /\ r.terminated = s.terminated
      BY <1>1, <3>1 DEF AllBut, SchedFields
    <3>3. Trims(r, s)
      BY <1>1, <3>2, TrimsNothing
    <3> QED BY <3>3 DEF r
  <2> QED BY <2>1, <2>2
<1>3. ASSUME s.uxSchedulerSuspended = 1 PROVE Trims(xTaskResumeAll(s).k, s)
  <2> DEFINE r == xTaskResumeAll(s)
  <2>1. PICK Q, F : /\ TimePassed(r.k, Q, F, s, P, s.uxMissedTicks)
                    /\ LessWaits(F, E) /\ r.k.terminated = s.terminated
    BY <1>3, AllResumed
  <2> QED BY <2>1, LessTrims DEF TimePassed
<1> QED BY <1>2, <1>3

(* The running task joins one list when it is placed on it.                *)
LEMMA PlacingTrims ==
  ASSUME NEW s, Shaped(s), NEW l \in EventLists, NEW wait,
         s.pxCurrentTCB \in Tasks, s.pxCurrentTCB \notin ToSet(s.event[l])
  PROVE  LET r == vTaskPlaceOnEventList(s, l, wait)
         IN  /\ ToSet(r.event[l]) = ToSet(s.event[l]) \cup {s.pxCurrentTCB}
             /\ \A m \in EventLists \ {l} : r.event[m] = s.event[m]
             /\ ToSet(r.terminated) \subseteq ToSet(s.terminated)
<1> DEFINE t == s.pxCurrentTCB
           n == vListInsert(s.event[l], t, s.eventValue)
           a == [s EXCEPT !.event[l] = n]
           r == vTaskPlaceOnEventList(s, l, wait)
<1>1. IsList(n) /\ ToSet(n) = ToSet(s.event[l]) \cup {t}
  BY InsertedInto DEF Shaped
<1>2. /\ r = IF wait = portMAX_DELAY
             THEN [vListRemoveGeneric(a, t) EXCEPT !.suspended = @ \cup {t}]
             ELSE Delay(a, TimeToWake(s, wait))
  BY DEF vTaskPlaceOnEventList
<1> HIDE DEF n, r
<1>3. /\ DOMAIN a = SchedFields /\ a.terminated = s.terminated
      /\ a.event = [s.event EXCEPT ![l] = n]
  BY DEF Shaped, SchedFields
<1> HIDE DEF a
<1>4. /\ a.event[l] = n /\ \A m \in EventLists \ {l} : a.event[m] = s.event[m]
      /\ IsOver(a.event, EventLists)
  BY <1>3 DEF Shaped, IsOver
<1>5. Shaped(a)
  BY <1>1, <1>3, <1>4 DEF Shaped
<1>6. Trims(r, a) /\ r.event = a.event
  BY <1>2, <1>5, SleepingTrims
<1>7. ToSet(r.terminated) \subseteq ToSet(s.terminated)
  BY <1>3, <1>6 DEF Trims
<1> QED BY <1>1, <1>4, <1>6, <1>7 DEF r

(* A list is as long as it has members.                                    *)
LEMMA MembersCounted ==
  ASSUME NEW s, IsList(s)
  PROVE  IsFiniteSet(ToSet(s)) /\ Cardinality(ToSet(s)) = Len(s)
<1> DEFINE n == Len(s)
           D == 1 .. n
<1>1. s \in Seq(Tasks) /\ n \in Nat /\ DOMAIN s = D
  BY DEF IsList
<1>2. s \in Bijection(D, ToSet(s))
  BY <1>1 DEF IsList, Bijection, Injection, Surjection, IsInjective, ToSet
<1> HIDE DEF n
<1>3. IsFiniteSet(D) /\ Cardinality(D) = n
  <2>1. IsFiniteSet(D) /\ Cardinality(D) = IF 1 > n THEN 0 ELSE n - 1 + 1
    BY <1>1, FS_Interval
  <2> QED BY <1>1, <2>1
<1> HIDE DEF D
<1>4. IsFiniteSet(ToSet(s)) /\ Cardinality(ToSet(s)) = n
  BY <1>2, <1>3, FS_Bijection DEF ExistsBijection
<1> QED BY <1>4 DEF n

(* Those an unlock takes off the list: as many as were counted, or all.    *)
LEMMA UnlockingTrims ==
  ASSUME NEW s, NEW P, NEW E, Settled(s, P, E), s.xSchedulerRunning,
         s.uxSchedulerSuspended # 0, NEW l \in EventLists, NEW lock \in Int
  PROVE  LET r == WakeCounted(s, l, lock)
             X == ToSet(s.event[l]) \ ToSet(r.event[l])
         IN  /\ Trims(r, s) /\ \A t \in X : NotListed(r, t)
             /\ IsFiniteSet(X)
             /\ r.event[l] # <<>>
                  => Cardinality(X) = IF lock <= queueLOCKED_UNMODIFIED THEN 0 ELSE lock
<1> DEFINE r == WakeCounted(s, l, lock)
           X == ToSet(s.event[l]) \ ToSet(r.event[l])
<1>1. PICK F : Unlocks(r, F, s, P, E, l, lock)
  BY CountedSteady
<1> HIDE DEF r
<1>2. /\ Settled(r, P, F) /\ NowPending(E, F, l) /\ DOMAIN s = SchedFields
      /\ AllBut(r, s, EventFields \cup {"xMissedYield"})
      /\ Len(r.event[l]) = Len(s.event[l]) - Counts(lock, Len(s.event[l]))
  BY <1>1, SettledNumbers DEF Unlocks, Steady
<1>3. /\ \A m \in EventLists : /\ IsList(r.event[m]) /\ IsList(s.event[m])
                               /\ ToSet(r.event[m]) = {t \in Tasks : F[t] = m}
                               /\ ToSet(s.event[m]) = {t \in Tasks : E[t] = m}
      /\ Shaped(r) /\ Pending \notin EventLists
  BY <1>2, SettledNumbers, SettledIsShaped, WaitsDiffer DEF Placed, Lists
<1>4. r.terminated = s.terminated
  BY <1>2 DEF AllBut, SchedFields, EventFields
<1>5. ASSUME NEW m \in EventLists PROVE ToSet(r.event[m]) \subseteq ToSet(s.event[m])
  <2>1. \A t \in Tasks : F[t] = m => E[t] = m
    BY <1>2, <1>3 DEF NowPending
  <2>2. /\ ToSet(r.event[m]) = {t \in Tasks : F[t] = m}
        /\ ToSet(s.event[m]) = {t \in Tasks : E[t] = m}
    BY <1>3
  <2> QED BY <2>1, <2>2
<1>6. Trims(r, s)
  BY <1>3, <1>4, <1>5 DEF Trims
<1>7. ASSUME NEW t \in X PROVE NotListed(r, t)
  <2>1. t \in Tasks /\ E[t] = l /\ F[t] # l
    BY <1>3
  <2>2. F[t] = Pending
    BY <1>2, <2>1 DEF NowPending
  <2> QED BY <1>3, <2>1, <2>2 DEF NotListed
<1> DEFINE old == s.event[l]
           new == r.event[l]
<1>8. /\ IsFiniteSet(ToSet(old)) /\ Cardinality(ToSet(old)) = Len(old)
      /\ IsFiniteSet(ToSet(new)) /\ Cardinality(ToSet(new)) = Len(new)
      /\ Len(old) \in Nat /\ Len(new) \in Nat
      /\ (new # <<>> => Len(new) > 0)
  BY <1>3, MembersCounted DEF IsList
<1>9. /\ IsFiniteSet(X) /\ X = ToSet(old) \ ToSet(new)
      /\ Cardinality(X) = Len(old) - Len(new)
  <2>1. ToSet(old) \cap ToSet(new) = ToSet(new)
    BY <1>5
  <2>2. /\ IsFiniteSet(ToSet(old) \ ToSet(new))
        /\ Cardinality(ToSet(old) \ ToSet(new))
             = Cardinality(ToSet(old)) - Cardinality(ToSet(old) \cap ToSet(new))
    BY <1>8, FS_Difference
  <2> QED BY <1>8, <2>1, <2>2
<1>10. new # <<>> => Cardinality(X) = IF lock <= queueLOCKED_UNMODIFIED THEN 0 ELSE lock
  <2>1. Len(new) = Len(old) - Counts(lock, Len(old))
    BY <1>2
  <2> HIDE DEF X, old, new
  <2> QED BY <1>8, <1>9, <2>1 DEF Counts, queueLOCKED_UNMODIFIED
<1> QED BY <1>6, <1>7, <1>9, <1>10 DEF r

-----------------------------------------------------------------------------
(* Priorities and the order of the event lists.                            *)

(* Who is not ready: asleep, suspended or deleted.                         *)
Out(s) == Sleeping(s) \cup s.suspended \cup ToSet(s.terminated)

Whole(s) == Shaped(s) /\ IsList(s.delayed) /\ IsList(s.overflow)

SameRanks(r, s) ==
  /\ r.uxPriority = s.uxPriority /\ r.uxBasePriority = s.uxBasePriority
  /\ r.eventValue = s.eventValue

(* A list that only loses tasks keeps the order of the others.             *)
PartOf(a, b) ==
  ToSet(a) \subseteq ToSet(b) /\ \A value : InOrder(b, value) => InOrder(a, value)

(* Nobody but X stops, or joins an event list, and a list that only loses  *)
(* tasks loses only sleepers and tasks of X.                               *)
Orderly(r, s, X) ==
  /\ Whole(r) /\ Sleeping(r) \subseteq Sleeping(s) \cup X /\ Out(r) \subseteq Out(s) \cup X
  /\ \A l \in EventLists : PartOf(r.event[l], s.event[l])
Stay(r, s, X) ==
  \A l \in EventLists : ToSet(s.event[l]) \ (Sleeping(s) \cup X) \subseteq ToSet(r.event[l])
Calm(r, s, X) == Orderly(r, s, X) /\ Stay(r, s, X)

LEMMA SettledIsWhole ==
  ASSUME NEW s, NEW P, NEW E, Settled(s, P, E)
  PROVE  Whole(s)
BY SettledIsShaped, SettledNumbers DEF Whole, Placed, Lists

LEMMA PartIsWhole ==
  /\ \A a : PartOf(a, a)
  /\ \A a, b, c : PartOf(a, b) /\ PartOf(b, c) => PartOf(a, c)
BY DEF PartOf

LEMMA CalmAgain ==
  ASSUME NEW s, NEW a, NEW r, NEW X, NEW Y
  PROVE  /\ Orderly(a, s, X) /\ Orderly(r, a, Y) => Orderly(r, s, X \cup Y)
         /\ Calm(a, s, X) /\ Calm(r, a, Y) => Calm(r, s, X \cup Y)
<1>1. ASSUME Orderly(a, s, X), Orderly(r, a, Y)
      PROVE  Orderly(r, s, X \cup Y)
  BY <1>1, PartIsWhole DEF Orderly
<1>2. ASSUME Calm(a, s, X), Calm(r, a, Y)
      PROVE  Stay(r, s, X \cup Y)
  <2> SUFFICES ASSUME NEW l \in EventLists, NEW t \in ToSet(s.event[l]),
                      t \notin Sleeping(s), t \notin X, t \notin Y
               PROVE  t \in ToSet(r.event[l])
    BY DEF Stay
  <2>1. t \in ToSet(a.event[l]) /\ t \notin Sleeping(a)
    BY <1>2 DEF Calm, Orderly, Stay
  <2> QED BY <1>2, <2>1 DEF Calm, Stay
<1> QED BY <1>1, <1>2 DEF Calm

(* What changes none of these lists is calm.                               *)
LEMMA CalmNothing ==
  ASSUME NEW s, Whole(s), NEW r, DOMAIN r = SchedFields, r.event = s.event,
         r.terminated = s.terminated, r.suspended = s.suspended,
         \/ r.delayed = s.delayed /\ r.overflow = s.overflow
         \/ r.delayed = s.overflow /\ r.overflow = s.delayed
  PROVE  Calm(r, s, {})
<1>1. Whole(r)
  BY DEF Whole, Shaped
<1>2. Sleeping(r) = Sleeping(s)
  BY DEF Sleeping
<1> QED BY <1>1, <1>2, PartIsWhole DEF Calm, Orderly, Stay, Out

LEMMA StillIsCalm ==
  ASSUME NEW s, Whole(s)
  PROVE  Calm(s, s, {}) /\ SameRanks(s, s)
<1>1. DOMAIN s = SchedFields
  BY DEF Whole, Shaped
<1> QED BY <1>1, CalmNothing DEF SameRanks

(* The operations on lists.                                                *)
LEMMA LeavingIsCalm ==
  ASSUME NEW s, Whole(s), NEW t
  PROVE  LET r == vListRemoveGeneric(s, t)
         IN  Calm(r, s, {}) /\ SameRanks(r, s) /\ t \notin Out(r)
<1> DEFINE r == vListRemoveGeneric(s, t)
<1>1. DOMAIN s = SchedFields
  BY DEF Whole, Shaped
<1>2. /\ DOMAIN r = SchedFields /\ r.event = s.event
      /\ r.delayed = RemoveFirst(s.delayed, t) /\ r.overflow = RemoveFirst(s.overflow, t)
      /\ r.terminated = RemoveFirst(s.terminated, t) /\ r.suspended = s.suspended \ {t}
  BY <1>1 DEF vListRemoveGeneric, SchedFields
<1>3. SameRanks(r, s)
  BY <1>1 DEF vListRemoveGeneric, SchedFields, SameRanks
<1> HIDE DEF r
<1>4. /\ IsList(s.delayed) /\ IsList(s.overflow) /\ IsList(s.terminated)
  BY DEF Whole, Shaped
<1>5. /\ IsList(r.delayed) /\ ToSet(r.delayed) = ToSet(s.delayed) \ {t}
      /\ IsList(r.overflow) /\ ToSet(r.overflow) = ToSet(s.overflow) \ {t}
      /\ IsList(r.terminated) /\ ToSet(r.terminated) = ToSet(s.terminated) \ {t}
  BY <1>2, <1>4, RemovedFrom
<1>6. Whole(r)
  BY <1>2, <1>5 DEF Whole, Shaped
<1>7. Sleeping(r) = Sleeping(s) \ {t} /\ Out(r) = Out(s) \ {t}
  BY <1>2, <1>5 DEF Sleeping, Out
<1>8. Calm(r, s, {})
  BY <1>2, <1>6, <1>7, PartIsWhole DEF Calm, Orderly, Stay
<1> QED BY <1>3, <1>7, <1>8 DEF r

LEMMA UnlistingIsCalm ==
  ASSUME NEW s, Whole(s), NEW t
  PROVE  LET r == vListRemoveEvent(s, t)
         IN  /\ Calm(r, s, {t}) /\ Orderly(r, s, {}) /\ SameRanks(r, s)
             /\ t \in Sleeping(s) => Calm(r, s, {})
<1> DEFINE r == vListRemoveEvent(s, t)
<1>1. DOMAIN s = SchedFields
  BY DEF Whole, Shaped
<1>2. /\ DOMAIN r = SchedFields
      /\ r.event = [l \in EventLists |-> RemoveFirst(s.event[l], t)]
      /\ r.delayed = s.delayed /\ r.overflow = s.overflow
      /\ r.terminated = s.terminated /\ r.suspended = s.suspended
  BY <1>1 DEF vListRemoveEvent, SchedFields
<1>3. SameRanks(r, s)
  BY <1>1 DEF vListRemoveEvent, SchedFields, SameRanks
<1> HIDE DEF r
<1>4. \A l \in EventLists : /\ IsList(r.event[l]) /\ PartOf(r.event[l], s.event[l])
                            /\ ToSet(r.event[l]) = ToSet(s.event[l]) \ {t}
  <2> TAKE l \in EventLists
  <2>1. IsList(s.event[l])
    BY DEF Whole, Shaped
  <2> QED BY <1>2, <2>1, RemovedFrom DEF PartOf
<1>5. Whole(r)
  BY <1>2, <1>4 DEF Whole, Shaped, IsOver
<1>6. Sleeping(r) = Sleeping(s) /\ Out(r) = Out(s)
  BY <1>2 DEF Sleeping, Out
<1>7. Calm(r, s, {t}) /\ Orderly(r, s, {}) /\ (t \in Sleeping(s) => Calm(r, s, {}))
  BY <1>4, <1>5, <1>6 DEF Calm, Orderly, Stay
<1> QED BY <1>3, <1>7 DEF r

(* Making ready and yielding.                                              *)
LEMMA YieldingIsCalm ==
  ASSUME NEW s, Whole(s), NEW t, NEW b
  PROVE  /\ Calm(prvAddTaskToReadyQueue(s, t), s, {})
         /\ SameRanks(prvAddTaskToReadyQueue(s, t), s)
         /\ Out(prvAddTaskToReadyQueue(s, t)) = Out(s)
         /\ Calm(YieldIf(b, s), s, {}) /\ SameRanks(YieldIf(b, s), s)
         /\ Out(YieldIf(b, s)) = Out(s)
<1>1. DOMAIN s = SchedFields
  BY DEF Whole, Shaped
<1> DEFINE r == prvAddTaskToReadyQueue(s, t)
           y == taskYIELD(s)
<1>2. /\ DOMAIN r = SchedFields /\ r.event = s.event
      /\ r.delayed = s.delayed /\ r.overflow = s.overflow
      /\ r.terminated = s.terminated /\ r.suspended = s.suspended /\ SameRanks(r, s)
  BY <1>1 DEF prvAddTaskToReadyQueue, SchedFields, SameRanks
<1>3. /\ DOMAIN y = SchedFields /\ y.event = s.event
      /\ y.delayed = s.delayed /\ y.overflow = s.overflow
      /\ y.terminated = s.terminated /\ y.suspended = s.suspended /\ SameRanks(y, s)
  BY <1>1 DEF taskYIELD, SchedFields, SameRanks
<1>4. YieldIf(b, s) = IF b THEN y ELSE s
  BY DEF YieldIf
<1> HIDE DEF r, y
<1>5. Calm(r, s, {}) /\ Calm(y, s, {}) /\ Out(r) = Out(s) /\ Out(y) = Out(s)
  BY <1>2, <1>3, CalmNothing DEF Out, Sleeping
<1> QED BY <1>2, <1>3, <1>4, <1>5, StillIsCalm DEF r

LEMMA SameRanksAgain ==
  ASSUME NEW s, NEW a, NEW r, SameRanks(a, s), SameRanks(r, a)
  PROVE  SameRanks(r, s)
BY DEF SameRanks

(* Both: the lists are left to those who are there, and all priorities.    *)
Rests(r, s, X) == Calm(r, s, X) /\ SameRanks(r, s)

LEMMA RestsAgain ==
  ASSUME NEW s, NEW a, NEW r, NEW X, NEW Y, Rests(a, s, X), Rests(r, a, Y)
  PROVE  Rests(r, s, X \cup Y) /\ Whole(a) /\ Whole(r)
BY CalmAgain, SameRanksAgain DEF Rests, Calm, Orderly

LEMMA RestsMore ==
  ASSUME NEW s, NEW r, NEW X, Rests(r, s, X)
  PROVE  /\ \A Y : X \subseteq Y \cup Sleeping(s) => Rests(r, s, Y)
         /\ Whole(r)
BY DEF Rests, Calm, Orderly, Stay, Out

LEMMA ReadyingRests ==
  ASSUME NEW s, Whole(s), NEW t
  PROVE  /\ LET r == prvAddTaskToReadyQueue(vListRemoveGeneric(s, t), t)
            IN  Rests(r, s, {}) /\ t \notin Out(r)
         /\ LET r == ReadyOrPend(s, t)
            IN  Rests(r, s, {}) /\ (s.uxSchedulerSuspended = 0 => t \notin Out(r))
<1> DEFINE g == vListRemoveGeneric(s, t)
           r == prvAddTaskToReadyQueue(g, t)
           w == [s EXCEPT !.pending = Append(@, t)]
<1>1. Rests(g, s, {}) /\ t \notin Out(g)
  BY LeavingIsCalm DEF Rests
<1>2. ReadyOrPend(s, t) = IF s.uxSchedulerSuspended = 0 THEN r ELSE w
  BY DEF ReadyOrPend
<1>3. Rests(w, s, {})
  <2>1. DOMAIN s = SchedFields
    BY DEF Whole, Shaped
  <2>2. /\ DOMAIN w = SchedFields /\ w.event = s.event
        /\ w.delayed = s.delayed /\ w.overflow = s.overflow
        /\ w.terminated = s.terminated /\ w.suspended = s.suspended /\ SameRanks(w, s)
    BY <2>1 DEF SchedFields, SameRanks
  <2> HIDE DEF w
  <2> QED BY <2>2, CalmNothing DEF Rests
<1> HIDE DEF g, w
<1>4. Rests(r, g, {}) /\ Out(r) = Out(g)
  BY <1>1, RestsMore, YieldingIsCalm DEF Rests
<1>5. Rests(r, s, {} \cup {})
  BY <1>1, <1>4, RestsAgain
<1>6. Rests(r, s, {}) /\ t \notin Out(r)
  BY <1>1, <1>4, <1>5
<1> QED BY <1>2, <1>3, <1>6 DEF g

LEMMA WakingRests ==
  ASSUME NEW s, Whole(s), NEW l \in EventLists
  PROVE  LET r == WakeWaiter(s, l)
             h == Head(s.event[l])
         IN  /\ Rests(r, s, {h})
             /\ s.event[l] # <<>> /\ s.uxSchedulerSuspended = 0 => h \notin Out(r)
<1> DEFINE r == WakeWaiter(s, l)
           h == Head(s.event[l])
           e == vListRemoveEvent(s, h)
           p == ReadyOrPend(e, h)
           x == xTaskRemoveFromEventList(s, l)
<1>1. CASE s.event[l] = <<>>
  <2>1. r = s
    BY <1>1 DEF WakeWaiter
  <2> HIDE DEF r, h
  <2>2. Rests(r, s, {h})
    BY <2>1, StillIsCalm, RestsMore DEF Rests
  <2> QED BY <1>1, <2>2 DEF r, h
<1>2. CASE s.event[l] # <<>>
  <2>1. Rests(e, s, {h})
    BY UnlistingIsCalm DEF Rests
  <2>2. x.k = p
    BY DEF xTaskRemoveFromEventList
  <2>3. r = YieldIf(x.woken, p)
    BY <1>2, <2>2 DEF WakeWaiter
  <2>4. e.uxSchedulerSuspended = s.uxSchedulerSuspended
    BY DEF vListRemoveEvent, Whole, Shaped, SchedFields
  <2> HIDE DEF r, h, e, p, x
  <2>5. Rests(p, e, {}) /\ (s.uxSchedulerSuspended = 0 => h \notin Out(p))
    BY <2>1, <2>4, RestsMore, ReadyingRests DEF p
  <2>6. Rests(r, p, {}) /\ Out(r) = Out(p)
    BY <2>3, <2>5, RestsMore, YieldingIsCalm DEF Rests
  <2>7. Rests(p, s, {h} \cup {})
    BY <2>1, <2>5, RestsAgain
  <2>8. Rests(r, s, ({h} \cup {}) \cup {})
    BY <2>6, <2>7, RestsAgain
  <2> QED BY <2>5, <2>6, <2>8 DEF r, h
<1> QED BY <1>1, <1>2

LEMMA ResumingRests ==
  ASSUME NEW s, Whole(s), NEW t
  PROVE  Rests(vTaskResume(s, t), s, {}) /\ Rests(xTaskResumeFromISR(s, t), s, {})
<1> DEFINE r == prvAddTaskToReadyQueue(vListRemoveGeneric(s, t), t)
           w == ReadyOrPend(s, t)
<1>1. Rests(r, s, {}) /\ Rests(w, s, {})
  BY ReadyingRests
<1>2. /\ vTaskResume(s, t) = YieldIf(s.uxPriority[t] >= s.uxPriority[s.pxCurrentTCB], r)
      /\ xTaskResumeFromISR(s, t)
           = YieldIf(/\ s.uxSchedulerSuspended = 0
                     /\ s.uxPriority[t] >= s.uxPriority[s.pxCurrentTCB], w)
  BY DEF vTaskResume, xTaskResumeFromISR
<1> HIDE DEF r, w
<1>3. ASSUME NEW a, Rests(a, s, {}), NEW b PROVE Rests(YieldIf(b, a), s, {})
  <2>1. Rests(YieldIf(b, a), a, {})
    BY <1>3, RestsMore, YieldingIsCalm DEF Rests
  <2>2. Rests(YieldIf(b, a), s, {} \cup {})
    BY <1>3, <2>1, RestsAgain
  <2> QED BY <2>2
<1> QED BY <1>1, <1>2, <1>3

(* A round of each loop, and the loops.                                    *)
LEMMA RoundRests ==
  ASSUME NEW s, Whole(s), NEW t, NEW l
  PROVE  /\ Rests(Wake(s, t), s, {t}) /\ Rests(MovePending(s, t), s, {t})
         /\ Orderly(WakeNext(s, l), s, {}) /\ SameRanks(WakeNext(s, l), s)
<1>1. Rests(Wake(s, t), s, {t})
  <2> DEFINE g == vListRemoveGeneric(s, t)
             e == vListRemoveEvent(g, t)
             r == prvAddTaskToReadyQueue(e, t)
  <2>1. Rests(g, s, {})
    BY LeavingIsCalm DEF Rests
  <2> HIDE DEF g
  <2>2. Rests(e, g, {t})
    BY <2>1, RestsMore, UnlistingIsCalm DEF Rests
  <2> HIDE DEF e
  <2>3. Rests(r, e, {})
    BY <2>2, RestsMore, YieldingIsCalm DEF Rests
  <2> HIDE DEF r
  <2>4. Rests(e, s, {} \cup {t})
    BY <2>1, <2>2, RestsAgain
  <2>5. Rests(r, s, ({} \cup {t}) \cup {})
    BY <2>3, <2>4, RestsAgain
  <2> QED BY <2>5 DEF Wake, g, e, r
<1>2. Rests(MovePending(s, t), s, {t})
  <2> DEFINE e == vListRemoveEvent(s, t)
             r == prvAddTaskToReadyQueue(vListRemoveGeneric(e, t), t)
  <2>1. Rests(e, s, {t})
    BY UnlistingIsCalm DEF Rests
  <2> HIDE DEF e
  <2>2. Rests(r, e, {})
    BY <2>1, RestsMore, ReadyingRests
  <2> HIDE DEF r
  <2>3. Rests(r, s, {t} \cup {})
    BY <2>1, <2>2, RestsAgain
  <2> QED BY <2>3 DEF MovePending, e, r
<1>3. Orderly(WakeNext(s, l), s, {}) /\ SameRanks(WakeNext(s, l), s)
  <2> DEFINE h == Head(s.event[l])
             e == vListRemoveEvent(s, h)
             x == xTaskRemoveFromEventList(s, l)
             m == [x.k EXCEPT !.xMissedYield = TRUE]
  <2>1. Orderly(e, s, {}) /\ SameRanks(e, s) /\ Whole(e)
    BY UnlistingIsCalm DEF Orderly
  <2>2. x.k = ReadyOrPend(e, h)
    BY DEF xTaskRemoveFromEventList
  <2>3. WakeNext(s, l) = IF x.woken THEN m ELSE x.k
    BY DEF WakeNext
  <2> HIDE DEF e, h
  <2>4. Rests(x.k, e, {}) /\ Whole(x.k)
    BY <2>1, <2>2, ReadyingRests, RestsMore
  <2> DEFINE y == x.k
  <2>5. Orderly(y, s, {} \cup {}) /\ SameRanks(y, s)
    BY <2>1, <2>4, CalmAgain, SameRanksAgain DEF Rests, Calm
  <2> HIDE DEF x
  <2>6. DOMAIN y = SchedFields
    BY <2>4 DEF Whole, Shaped
  <2> HIDE DEF y
  <2>7. Rests([y EXCEPT !.xMissedYield = TRUE], y, {})
    <3> DEFINE z == [y EXCEPT !.xMissedYield = TRUE]
    <3>1. /\ DOMAIN z = SchedFields /\ z.event = y.event
          /\ z.delayed = y.delayed /\ z.overflow = y.overflow
          /\ z.terminated = y.terminated /\ z.suspended = y.suspended /\ SameRanks(z, y)
      BY <2>6 DEF SchedFields, SameRanks
    <3> HIDE DEF z
    <3>2. Rests(z, y, {})
      BY <2>4, <3>1, CalmNothing DEF Rests, y
    <3> QED BY <3>2 DEF z
  <2>8. Orderly([y EXCEPT !.xMissedYield = TRUE], s, ({} \cup {}) \cup {})
    BY <2>5, <2>7, CalmAgain DEF Rests, Calm
  <2>9. SameRanks([y EXCEPT !.xMissedYield = TRUE], s)
    BY <2>5, <2>7, SameRanksAgain DEF Rests
  <2> QED BY <2>3, <2>5, <2>8, <2>9 DEF y
<1> QED BY <1>1, <1>2, <1>3

LEMMA RunRests ==
  ASSUME NEW s, Whole(s), NEW X, NEW n \in Nat, NEW loop, NEW l, NEW seq,
         NEW run, IsRun(run, loop, l, s, seq, n),
         \A i \in 1 .. n : \A a : Whole(a) =>
           /\ Orderly(RoundOf(loop, l, a, seq[i]), a, X)
           /\ SameRanks(RoundOf(loop, l, a, seq[i]), a)
  PROVE  /\ Orderly(run[n], s, X) /\ SameRanks(run[n], s)
         /\ (\A i \in 1 .. n : \A a : Whole(a) => Stay(RoundOf(loop, l, a, seq[i]), a, X))
              => Rests(run[n], s, X)
<1> DEFINE Stays == \A i \in 1 .. n : \A a : Whole(a) => Stay(RoundOf(loop, l, a, seq[i]), a, X)
           Good(i) == /\ Orderly(run[i], s, X) /\ SameRanks(run[i], s)
                      /\ Stays => Stay(run[i], s, X)
           S == {i \in 0 .. n : Good(i)}
<1>1. 0 \in S
  <2>1. run[0] = s
    BY DEF IsRun
  <2>2. Orderly(s, s, X) /\ Stay(s, s, X) /\ SameRanks(s, s)
    BY StillIsCalm DEF Calm, Orderly, Stay
  <2>3. Good(0)
    BY <2>1, <2>2
  <2> QED BY <2>3
<1>2. ASSUME NEW i \in S, i < n PROVE i + 1 \in S
  <2>1. i + 1 \in 1 .. n /\ i + 1 \in 0 .. n /\ (i + 1) - 1 = i
    BY <1>2
  <2> DEFINE a == run[i]
             r == run[i + 1]
  <2>2. r = RoundOf(loop, l, a, seq[i + 1])
    BY <2>1 DEF IsRun
  <2>3. Good(i) /\ Whole(a)
    BY DEF Orderly
  <2> HIDE DEF a, r
  <2>4. Orderly(r, a, X) /\ SameRanks(r, a) /\ (Stays => Stay(r, a, X))
    BY <2>1, <2>2, <2>3
  <2> HIDE DEF Stays
  <2>5. Orderly(r, s, X \cup X) /\ SameRanks(r, s)
    BY <2>3, <2>4, CalmAgain, SameRanksAgain DEF a
  <2>6. Stays => Stay(r, s, X \cup X)
    BY <2>3, <2>4, CalmAgain DEF a, Calm
  <2>7. X \cup X = X
    OBVIOUS
  <2>8. Good(i + 1)
    BY <2>5, <2>6, <2>7 DEF r
  <2> QED BY <2>1, <2>8
<1>3. n \in S
  <2>1. S \in SUBSET (0 .. n)
    OBVIOUS
  <2> HIDE DEF S
  <2> QED BY <1>1, <1>2, <2>1, Reaches0
<1> QED BY <1>3 DEF Rests, Calm

(* The waking loops.                                                       *)
LEMMA LoopRests ==
  ASSUME NEW s, Whole(s), NEW loop \in {"wake", "move"}, NEW seq \in Seq(Tasks),
         NEW run, IsRun(run, loop, 0, s, seq, Len(seq))
  PROVE  Rests(run[Len(seq)], s, ToSet(seq))
<1> DEFINE n == Len(seq)
           X == ToSet(seq)
<1>1. n \in Nat /\ \A i \in 1 .. n : seq[i] \in X
  BY Members
<1>2. ASSUME NEW i \in 1 .. n, NEW a, Whole(a)
      PROVE  Rests(RoundOf(loop, 0, a, seq[i]), a, X)
  <2>1. Rests(RoundOf(loop, 0, a, seq[i]), a, {seq[i]})
    BY <1>2, RoundRests DEF RoundOf
  <2>2. {seq[i]} \subseteq X \cup Sleeping(a)
    BY <1>1
  <2> HIDE DEF X
  <2> QED BY <2>1, <2>2, RestsMore
<1> HIDE DEF n, X
<1>3. Rests(run[n], s, X)
  <2>1. IsRun(run, loop, 0, s, seq, n)
    BY DEF n
  <2> QED BY <1>1, <1>2, <2>1, RunRests DEF Rests, Calm
<1> QED BY <1>3 DEF n, X

(* prvUnlockQueue: who leaves the list leaves it for the pending one.      *)
LEMMA CountedRests ==
  ASSUME NEW s, NEW P, NEW E, Settled(s, P, E), s.xSchedulerRunning,
         s.uxSchedulerSuspended # 0, NEW l \in EventLists, NEW lock \in Int
  PROVE  /\ Rests(WakeCounted(s, l, lock), s, ToSet(s.event[l]))
         /\ lock <= queueLOCKED_UNMODIFIED => WakeCounted(s, l, lock) = s
<1> DEFINE r == WakeCounted(s, l, lock)
           X == ToSet(s.event[l])
<1>1. Whole(s) /\ IsList(s.event[l])
  BY SettledIsWhole DEF Whole, Shaped
<1>2. CASE lock <= queueLOCKED_UNMODIFIED
  <2>1. r = s
    BY <1>2 DEF WakeCounted
  <2> HIDE DEF r, X
  <2>2. Rests(r, s, X)
    BY <1>1, <2>1, StillIsCalm, RestsMore DEF Rests
  <2> QED BY <2>1, <2>2 DEF r, X
<1>3. CASE lock > queueLOCKED_UNMODIFIED
  <2>1. PICK F : Unlocks(r, F, s, P, E, l, lock)
    BY CountedSteady
  <2> DEFINE n == IF lock < Len(s.event[l]) THEN lock ELSE Len(s.event[l])
  <2>2. n \in Nat
    BY <1>1, <1>3 DEF IsList, queueLOCKED_UNMODIFIED
  <2>3. PICK run, seq : IsRun(run, "next", l, s, seq, n) /\ r = run[n]
    BY <1>1, <1>3, NextRun
  <2> HIDE DEF r, n
  <2>4. Orderly(r, s, {}) /\ SameRanks(r, s)
    BY <1>1, <2>2, <2>3, RoundRests, RunRests DEF RoundOf
  <2>5. Settled(r, P, F) /\ NowPending(E, F, l)
    BY <2>1 DEF Unlocks, Steady
  <2>6. Stay(r, s, X)
    <3> SUFFICES ASSUME NEW m \in EventLists, NEW t \in ToSet(s.event[m]), t \notin X
                 PROVE  t \in ToSet(r.event[m])
      BY DEF Stay
    <3>1. t \in Tasks /\ E[t] = m /\ m # l
      BY SettledNumbers DEF Placed, Lists
    <3>2. F[t] = m
      BY <2>5, <3>1 DEF NowPending
    <3> QED BY <2>5, <3>1, <3>2, SettledNumbers DEF Placed, Lists
  <2>7. Rests(r, s, X)
    BY <2>4, <2>6 DEF Rests, Calm, Orderly
  <2> QED BY <1>3, <2>7 DEF r, queueLOCKED_UNMODIFIED
<1> QED BY <1>2, <1>3 DEF queueLOCKED_UNMODIFIED

(* A tick wakes sleepers.                                                  *)
LEMMA DueSleep ==
  ASSUME NEW s, Whole(s)
  PROVE  LET first == SelectInSeq(s.delayed, LAMBDA t : s.xTickCount < s.wakeTime[t])
             due == IF first = 0 THEN s.delayed ELSE SubSeq(s.delayed, 1, first - 1)
         IN  due \in Seq(Tasks) /\ ToSet(due) \subseteq Sleeping(s)
<1> DEFINE d == s.delayed
           I == {i \in 1 .. Len(d) : s.xTickCount < s.wakeTime[d[i]]}
           first == SelectInSeq(d, LAMBDA t : s.xTickCount < s.wakeTime[t])
           due == IF first = 0 THEN d ELSE SubSeq(d, 1, first - 1)
<1>1. IsList(d) /\ d \in Seq(Tasks) /\ Len(d) \in Nat
  BY DEF Whole, IsList
<1>2. first = IF I # {} THEN Min(I) ELSE 0
  BY Zenon DEF SelectInSeq
<1> HIDE DEF first, I
<1>3. I # {} => Min(I) \in 1 .. Len(d)
  BY <1>1, FirstPlace DEF I
<1>4. first = 0 \/ first \in 1 .. Len(d)
  BY <1>2, <1>3
<1> HIDE DEF d
<1>5. due \in Seq(Tasks) /\ ToSet(due) \subseteq ToSet(d)
  <2>1. CASE first = 0
    BY <1>1, <2>1
  <2>2. CASE first # 0
    <3> DEFINE m == first - 1
               r == SubSeq(d, 1, m)
    <3>1. m \in 0 .. Len(d) /\ due = r
      BY <1>1, <1>4, <2>2
    <3> HIDE DEF m
    <3>2. IsList(r) /\ Len(r) = m /\ \A i \in 1 .. m : r[i] = d[i]
      BY <1>1, <3>1, FirstTasks
    <3> HIDE DEF r, due
    <3>3. \A t \in ToSet(r) : \E i \in 1 .. m : d[i] = t
      BY <3>2, Members DEF IsList
    <3>4. \A i \in 1 .. m : i \in 1 .. Len(d)
      BY <1>1, <3>1
    <3>5. ToSet(r) \subseteq ToSet(d)
      BY <1>1, <3>3, <3>4, Members
    <3> QED BY <3>1, <3>2, <3>5 DEF IsList
  <2> QED BY <2>1, <2>2
<1> QED BY <1>5 DEF due, first, d, Sleeping

LEMMA CheckingRests ==
  ASSUME NEW s, Whole(s)
  PROVE  Rests(prvCheckDelayedTasks(s), s, {})
<1> DEFINE first == SelectInSeq(s.delayed, LAMBDA t : s.xTickCount < s.wakeTime[t])
           due == IF first = 0 THEN s.delayed ELSE SubSeq(s.delayed, 1, first - 1)
           r == prvCheckDelayedTasks(s)
<1>1. due \in Seq(Tasks) /\ ToSet(due) \subseteq Sleeping(s)
  BY DueSleep
<1>2. r = FoldLeft(Wake, s, due)
  BY DEF prvCheckDelayedTasks
<1> HIDE DEF due, r
<1>3. PICK run : IsRun(run, "wake", 0, s, due, Len(due)) /\ FoldLeft(Wake, s, due) = run[Len(due)]
  BY <1>1, WakeRun
<1>4. Rests(r, s, ToSet(due))
  BY <1>1, <1>2, <1>3, LoopRests
<1>5. Rests(r, s, {})
  BY <1>1, <1>4, RestsMore
<1> QED BY <1>5 DEF r

LEMMA TickRests ==
  ASSUME NEW s, Whole(s)
  PROVE  Rests(vTaskIncrementTick(s), s, {}) /\ Rests(LateTick(s), s, {})
<1>1. DOMAIN s = SchedFields
  BY DEF Whole, Shaped
<1> DEFINE c == [s EXCEPT !.xTickCount = (@ + 1) % TickMod]
           w == SwapAtWrap(c)
           m == [s EXCEPT !.uxMissedTicks = @ + 1]
           r == vTaskIncrementTick(s)
<1>2. r = IF s.uxSchedulerSuspended = 0 THEN prvCheckDelayedTasks(w) ELSE m
  BY DEF vTaskIncrementTick
<1>3. Rests(m, s, {})
  <2>1. /\ DOMAIN m = SchedFields /\ m.event = s.event
        /\ m.delayed = s.delayed /\ m.overflow = s.overflow
        /\ m.terminated = s.terminated /\ m.suspended = s.suspended /\ SameRanks(m, s)
    BY <1>1 DEF SchedFields, SameRanks
  <2> HIDE DEF m
  <2> QED BY <2>1, CalmNothing DEF Rests
<1>4. Rests(w, s, {})
  <2>1. /\ DOMAIN c = SchedFields /\ c.event = s.event
        /\ c.delayed = s.delayed /\ c.overflow = s.overflow
        /\ c.terminated = s.terminated /\ c.suspended = s.suspended /\ SameRanks(c, s)
    BY <1>1 DEF SchedFields, SameRanks
  <2> HIDE DEF c
  <2>2. /\ DOMAIN w = SchedFields /\ w.event = c.event
        /\ \/ w.delayed = c.delayed /\ w.overflow = c.overflow
           \/ w.delayed = c.overflow /\ w.overflow = c.delayed
        /\ w.terminated = c.terminated /\ w.suspended = c.suspended /\ SameRanks(w, c)
    BY <2>1 DEF SwapAtWrap, SchedFields, SameRanks
  <2> HIDE DEF w
  <2>3. SameRanks(w, s)
    BY <2>1, <2>2, SameRanksAgain
  <2>4. Calm(w, s, {})
    BY <2>1, <2>2, CalmNothing
  <2> QED BY <2>3, <2>4 DEF Rests
<1> HIDE DEF m, w, r
<1>5. Rests(prvCheckDelayedTasks(w), s, {} \cup {})
  BY <1>4, RestsMore, CheckingRests, RestsAgain
<1>6. Rests(r, s, {}) /\ DOMAIN r = SchedFields /\ Whole(r)
  BY <1>2, <1>3, <1>5, RestsMore DEF Whole, Shaped
<1>7. Rests([r EXCEPT !.uxMissedTicks = @ - 1], r, {})
  <2> DEFINE z == [r EXCEPT !.uxMissedTicks = @ - 1]
  <2>1. /\ DOMAIN z = SchedFields /\ z.event = r.event
        /\ z.delayed = r.delayed /\ z.overflow = r.overflow
        /\ z.terminated = r.terminated /\ z.suspended = r.suspended /\ SameRanks(z, r)
    BY <1>6 DEF SchedFields, SameRanks
  <2> HIDE DEF z
  <2>2. Rests(z, r, {})
    BY <1>6, <2>1, CalmNothing DEF Rests
  <2> QED BY <2>2 DEF z
<1>8. Rests([r EXCEPT !.uxMissedTicks = @ - 1], s, {} \cup {})
  BY <1>6, <1>7, RestsAgain
<1> QED BY <1>6, <1>8 DEF r, LateTick

LEMMA LateRests ==
  ASSUME NEW s, Whole(s), s.uxMissedTicks \in Nat
  PROVE  Rests(ProcessMissedTicks(s), s, {})
<1> DEFINE n == s.uxMissedTicks
<1>1. PICK run : IsRun(run, "tick", 0, s, <<>>, n) /\ ProcessMissedTicks(s) = run[n]
  BY TickRun
<1>2. \A i : \A a : Whole(a) => Rests(RoundOf("tick", 0, a, <<>>[i]), a, {})
  BY TickRests DEF RoundOf
<1>3. n \in Nat
  OBVIOUS
<1> HIDE DEF n
<1>4. Rests(run[n], s, {})
  BY <1>1, <1>2, <1>3, RunRests DEF Rests, Calm
<1> QED BY <1>1, <1>4

(* xTaskResumeAll: the pending tasks leave their list.                     *)
LEMMA ResumingAllRests ==
  ASSUME NEW s, NEW P, NEW E, Settled(s, P, E), s.uxSchedulerSuspended = 1
  PROVE  Rests(xTaskResumeAll(s).k, s, ToSet(s.pending))
<1> DEFINE u == [s EXCEPT !.uxSchedulerSuspended = @ - 1]
           m == FoldLeft(MovePending, u, u.pending)
           v == ProcessMissedTicks(m)
           c == [v EXCEPT !.xMissedYield = FALSE]
           r == xTaskResumeAll(s).k
           X == ToSet(s.pending)
<1>1. Whole(s) /\ DOMAIN s = SchedFields /\ s.pending \in Seq(Tasks) /\ s.uxMissedTicks \in Nat
  BY SettledIsWhole, SettledNumbers DEF Placed, Lists, IsList, Typed
<1>2. /\ u.pending = s.pending /\ u.uxMissedTicks = s.uxMissedTicks
      /\ Rests(u, s, {})
  <2>1. /\ DOMAIN u = SchedFields /\ u.event = s.event
        /\ u.delayed = s.delayed /\ u.overflow = s.overflow /\ u.pending = s.pending
        /\ u.terminated = s.terminated /\ u.suspended = s.suspended /\ SameRanks(u, s)
        /\ u.uxMissedTicks = s.uxMissedTicks
    BY <1>1 DEF SchedFields, SameRanks
  <2> HIDE DEF u
  <2> QED BY <1>1, <2>1, CalmNothing DEF Rests
<1>3. r = IF u.uxSchedulerSuspended # 0 THEN u ELSE IF YieldDue(u) THEN taskYIELD(c) ELSE v
  BY DEF xTaskResumeAll
<1> HIDE DEF u, r
<1>4. Rests(m, u, X) /\ m.uxMissedTicks = u.uxMissedTicks
  <2>1. PICK run : IsRun(run, "move", 0, u, u.pending, Len(u.pending)) /\ m = run[Len(u.pending)]
    BY <1>1, <1>2, MoveRun
  <2>2. Rests(m, u, X)
    BY <1>1, <1>2, <2>1, RestsMore, LoopRests
  <2>3. m.uxMissedTicks = u.uxMissedTicks
    <3>1. Sched(s, P, E) /\ Typed(s) /\ AllBut(u, s, {"uxSchedulerSuspended"})
      BY <1>1, SettledNumbers DEF u, AllBut, SchedFields
    <3>2. u.uxSchedulerSuspended \in Nat
      BY <1>1 DEF u, SchedFields
    <3>3. Typed(u) /\ AllBut(u, s, OtherFields)
      BY <3>1, <3>2 DEF Typed, AllBut, SchedFields, OtherFields
    <3>4. Sched(u, P, E)
      BY <3>1, <3>3, Elsewhere
    <3>5. \A t \in ToSet(u.pending) : P[t] # Terminated
      <4>1. \A t \in ToSet(u.pending) : t \in Tasks /\ E[t] = Pending
        BY <1>2, SettledNumbers DEF Placed, Lists
      <4>2. \A t \in ToSet(u.pending) : P[t] \in Asleep \cup {Suspended}
        BY <4>1, WaitsDiffer DEF Settled
      <4> QED BY <4>2, PlacesDiffer DEF Asleep
    <3>6. AllBut(run[Len(u.pending)], u, ListFields)
      BY <1>1, <1>2, <2>1, <3>4, <3>5, LoopReadies
    <3> QED BY <2>1, <3>6 DEF AllBut, SchedFields, ListFields, GenericFields, EventFields, ReadyFields
  <2> QED BY <2>2, <2>3
<1> HIDE DEF m
<1>5. Rests(v, m, {})
  BY <1>1, <1>2, <1>4, RestsMore, LateRests
<1> HIDE DEF v
<1>6. Rests(v, s, ({} \cup X) \cup {})
  BY <1>2, <1>4, <1>5, RestsAgain
<1>7. DOMAIN v = SchedFields /\ Whole(v)
  BY <1>6, RestsMore DEF Whole, Shaped
<1>8. Rests(taskYIELD(c), v, {})
  <2> DEFINE z == taskYIELD(c)
  <2>1. /\ DOMAIN z = SchedFields /\ z.event = v.event
        /\ z.delayed = v.delayed /\ z.overflow = v.overflow
        /\ z.terminated = v.terminated /\ z.suspended = v.suspended /\ SameRanks(z, v)
    BY <1>7 DEF SchedFields, SameRanks, taskYIELD
  <2> HIDE DEF z
  <2>2. Rests(z, v, {})
    BY <1>7, <2>1, CalmNothing DEF Rests
  <2> QED BY <2>2 DEF z
<1>9. Rests(taskYIELD(c), s, (({} \cup X) \cup {}) \cup {})
  BY <1>6, <1>8, RestsAgain
<1>10. Rests(u, s, X) /\ Rests(v, s, X) /\ Rests(taskYIELD(c), s, X)
  BY <1>2, <1>6, <1>9, RestsMore
<1> QED BY <1>3, <1>10 DEF r

(* The current task goes to sleep.                                         *)
LEMMA SleepingRests ==
  ASSUME NEW s, Whole(s), s.pxCurrentTCB \in Tasks, NEW w
  PROVE  Rests(Delay(s, w), s, {s.pxCurrentTCB})
<1> DEFINE t == s.pxCurrentTCB
           g == vListRemoveGeneric(s, t)
           at == [s.wakeTime EXCEPT ![t] = w]
           c == [g EXCEPT !.wakeTime = at]
           r == Delay(s, w)
<1>1. Rests(g, s, {}) /\ t \notin Out(g) /\ Whole(g)
  BY LeavingIsCalm, RestsMore DEF Rests
<1>2. r = IF w < s.xTickCount THEN [c EXCEPT !.overflow = vListInsert(@, t, at)]
          ELSE [c EXCEPT !.delayed = vListInsert(@, t, at)]
  BY Zenon DEF Delay
<1> HIDE DEF g, r, t
<1>3. DOMAIN g = SchedFields
  BY <1>1 DEF Whole, Shaped
<1> HIDE DEF at
<1>4. /\ DOMAIN r = SchedFields /\ r.event = g.event /\ r.terminated = g.terminated
      /\ r.suspended = g.suspended /\ SameRanks(r, g)
      /\ \/ r.delayed = g.delayed /\ r.overflow = vListInsert(g.overflow, t, at)
         \/ r.overflow = g.overflow /\ r.delayed = vListInsert(g.delayed, t, at)
  BY <1>2, <1>3 DEF SchedFields, SameRanks
<1>5. t \in Tasks /\ t \notin ToSet(g.delayed) /\ t \notin ToSet(g.overflow)
  BY <1>1 DEF t, Out, Sleeping
<1>6. /\ IsList(r.delayed) /\ IsList(r.overflow)
      /\ Sleeping(r) = Sleeping(g) \cup {t}
  BY <1>1, <1>4, <1>5, InsertedInto DEF Whole, Sleeping
<1>7. Rests(r, g, {t})
  <2>1. Whole(r)
    BY <1>1, <1>4, <1>6 DEF Whole, Shaped
  <2>2. Orderly(r, g, {t}) /\ Stay(r, g, {t})
    BY <1>4, <1>6, <2>1, PartIsWhole DEF Orderly, Stay, Out
  <2> QED BY <1>4, <2>2 DEF Rests, Calm
<1>8. Rests(r, s, {} \cup {t})
  BY <1>1, <1>7, RestsAgain
<1> QED BY <1>8 DEF r, t

(* What is suspended or deleted leaves every other list.                   *)
LEMMA EndingRests ==
  ASSUME NEW s, Whole(s), NEW t \in Tasks
  PROVE  Rests(TaskSuspend(s, t), s, {t}) /\ Rests(TaskDelete(s, t), s, {t})
<1> DEFINE g == vListRemoveGeneric(s, t)
           e == vListRemoveEvent(g, t)
           r == TaskSuspend(s, t)
           d == TaskDelete(s, t)
<1>1. Rests(g, s, {}) /\ t \notin Out(g) /\ Whole(g)
  BY LeavingIsCalm, RestsMore DEF Rests
<1> HIDE DEF g
<1>2. Rests(e, g, {t}) /\ Orderly(e, g, {}) /\ Whole(e)
  BY <1>1, UnlistingIsCalm, RestsMore DEF Rests
<1>3. /\ r = [e EXCEPT !.suspended = @ \cup {t}]
      /\ d = [e EXCEPT !.terminated = Append(@, t), !.uxTasksDeleted = @ + 1]
  BY Zenon DEF TaskSuspend, TaskDelete, g
<1> HIDE DEF e, r, d
<1>4. DOMAIN e = SchedFields
  BY <1>2 DEF Whole, Shaped
<1>5. /\ DOMAIN r = SchedFields /\ r.event = e.event /\ r.delayed = e.delayed
      /\ r.overflow = e.overflow /\ r.terminated = e.terminated
      /\ r.suspended = e.suspended \cup {t} /\ SameRanks(r, e)
  BY <1>3, <1>4 DEF SchedFields, SameRanks
<1>6. /\ DOMAIN d = SchedFields /\ d.event = e.event /\ d.delayed = e.delayed
      /\ d.overflow = e.overflow /\ d.terminated = Append(e.terminated, t)
      /\ d.suspended = e.suspended /\ SameRanks(d, e)
  BY <1>3, <1>4 DEF SchedFields, SameRanks
<1>7. IsList(e.terminated) /\ t \notin ToSet(e.terminated)
  BY <1>1, <1>2 DEF Orderly, Whole, Shaped, Out
<1>8. IsList(d.terminated) /\ ToSet(d.terminated) = ToSet(e.terminated) \cup {t}
  BY <1>6, <1>7, AppendedTo
<1>9. Rests(r, e, {t})
  <2>1. Whole(r)
    BY <1>2, <1>5 DEF Whole, Shaped
  <2>2. Orderly(r, e, {t}) /\ Stay(r, e, {t})
    BY <1>5, <2>1, PartIsWhole DEF Orderly, Stay, Out, Sleeping
  <2> QED BY <1>5, <2>2 DEF Rests, Calm
<1>10. Rests(d, e, {t})
  <2>1. Whole(d)
    BY <1>2, <1>6, <1>8 DEF Whole, Shaped
  <2>2. Orderly(d, e, {t}) /\ Stay(d, e, {t})
    BY <1>6, <1>8, <2>1, PartIsWhole DEF Orderly, Stay, Out, Sleeping
  <2> QED BY <1>6, <2>2 DEF Rests, Calm
<1>11. Rests(e, s, {} \cup {t})
  BY <1>1, <1>2, RestsAgain
<1>12. Rests(r, s, ({} \cup {t}) \cup {t}) /\ Rests(d, s, ({} \cup {t}) \cup {t})
  BY <1>9, <1>10, <1>11, RestsAgain
<1>13. ({} \cup {t}) \cup {t} = {t}
  OBVIOUS
<1> QED BY <1>12, <1>13 DEF r, d

LEMMA FreeingRests ==
  ASSUME NEW s, Whole(s), s.terminated # <<>>
  PROVE  Rests(FreeTerminated(s), s, {})
<1> DEFINE h == Head(s.terminated)
           r == [s EXCEPT !.terminated = Tail(@), !.live = @ \ {h}, !.uxTasksDeleted = @ - 1]
<1>1. DOMAIN s = SchedFields
  BY DEF Whole, Shaped
<1>2. FreeTerminated(s) = r
  BY Zenon DEF FreeTerminated
<1>3. /\ DOMAIN r = SchedFields /\ r.event = s.event /\ r.delayed = s.delayed
      /\ r.overflow = s.overflow /\ r.terminated = Tail(s.terminated)
      /\ r.suspended = s.suspended /\ SameRanks(r, s)
  BY <1>1 DEF SchedFields, SameRanks
<1> HIDE DEF r
<1>4. IsList(r.terminated) /\ ToSet(r.terminated) \subseteq ToSet(s.terminated)
  BY <1>3, HeadAndTail DEF Whole, Shaped
<1>5. Whole(r)
  BY <1>3, <1>4 DEF Whole, Shaped
<1>6. Orderly(r, s, {}) /\ Stay(r, s, {})
  BY <1>3, <1>4, <1>5, PartIsWhole DEF Orderly, Stay, Out, Sleeping
<1> QED BY <1>2, <1>3, <1>6 DEF Rests, Calm

(* Switching, and suspending the scheduler.                                *)
LEMMA SwitchingRests ==
  ASSUME NEW s, Whole(s)
  PROVE  /\ Rests(vTaskSuspendAll(s), s, {})
         /\ Rests(vTaskSwitchContext([s EXCEPT !.pendsv = FALSE]), s, {})
<1> DEFINE a == vTaskSuspendAll(s)
           c == [s EXCEPT !.pendsv = FALSE]
           r == vTaskSwitchContext(c)
           m == [c EXCEPT !.xMissedYield = TRUE]
           top == CHOOSE p \in 0 .. c.uxTopReadyPriority :
                    /\ c.ready[p] # <<>>
                    /\ \A q \in (p + 1) .. c.uxTopReadyPriority : c.ready[q] = <<>>
           list == OwnerOfNextEntry(c.ready[top])
           n == [c EXCEPT !.uxTopReadyPriority = top, !.ready[top] = list,
                          !.pxCurrentTCB = Last(list)]
<1>1. DOMAIN s = SchedFields
  BY DEF Whole, Shaped
<1>2. r = m \/ r = n
  BY Zenon DEF vTaskSwitchContext
<1> HIDE DEF top, list, r
<1>3. \A x \in {a, m, n} :
        /\ DOMAIN x = SchedFields /\ x.event = s.event
        /\ x.delayed = s.delayed /\ x.overflow = s.overflow
        /\ x.terminated = s.terminated /\ x.suspended = s.suspended /\ SameRanks(x, s)
  <2>1. /\ DOMAIN a = SchedFields /\ a.event = s.event
        /\ a.delayed = s.delayed /\ a.overflow = s.overflow
        /\ a.terminated = s.terminated /\ a.suspended = s.suspended /\ SameRanks(a, s)
    BY <1>1 DEF SchedFields, SameRanks, vTaskSuspendAll
  <2>2. /\ DOMAIN m = SchedFields /\ m.event = s.event
        /\ m.delayed = s.delayed /\ m.overflow = s.overflow
        /\ m.terminated = s.terminated /\ m.suspended = s.suspended /\ SameRanks(m, s)
    BY <1>1 DEF SchedFields, SameRanks
  <2>3. /\ DOMAIN n = SchedFields /\ n.event = s.event
        /\ n.delayed = s.delayed /\ n.overflow = s.overflow
        /\ n.terminated = s.terminated /\ n.suspended = s.suspended /\ SameRanks(n, s)
    BY <1>1 DEF SchedFields, SameRanks
  <2> QED BY <2>1, <2>2, <2>3
<1> HIDE DEF a, m, n
<1>4. \A x \in {a, m, n} : Rests(x, s, {})
  BY <1>3, CalmNothing DEF Rests
<1> QED BY <1>2, <1>4 DEF a, r, c

(* One task is given another priority.                                     *)
WithRanks(s) ==
  DOMAIN s.uxPriority = Tasks /\ DOMAIN s.uxBasePriority = Tasks /\ DOMAIN s.eventValue = Tasks
Shifts(r, s, t) ==
  /\ Calm(r, s, {}) /\ WithRanks(r)
  /\ r.eventValue[t] = configMAX_PRIORITIES - r.uxPriority[t]
  /\ \A u \in Tasks \ {t} : /\ r.uxPriority[u] = s.uxPriority[u]
                            /\ r.uxBasePriority[u] = s.uxBasePriority[u]
                            /\ r.eventValue[u] = s.eventValue[u]

LEMMA SettingShifts ==
  ASSUME NEW s, Whole(s), WithRanks(s), NEW t \in Tasks, NEW p
  PROVE  LET r == SetPriority(s, t, p)
         IN  Shifts(r, s, t) /\ r.uxPriority[t] = p /\ r.uxBasePriority = s.uxBasePriority
<1> DEFINE r == SetPriority(s, t, p)
<1>1. DOMAIN s = SchedFields
  BY DEF Whole, Shaped
<1>2. /\ DOMAIN r = SchedFields /\ r.event = s.event
      /\ r.delayed = s.delayed /\ r.overflow = s.overflow
      /\ r.terminated = s.terminated /\ r.suspended = s.suspended
      /\ r.uxPriority = [s.uxPriority EXCEPT ![t] = p]
      /\ r.eventValue = [s.eventValue EXCEPT ![t] = configMAX_PRIORITIES - p]
      /\ r.uxBasePriority = s.uxBasePriority
  BY <1>1 DEF SetPriority, SchedFields
<1> HIDE DEF r
<1>3. Calm(r, s, {})
  BY <1>2, CalmNothing
<1>4. Shifts(r, s, t) /\ r.uxPriority[t] = p /\ r.uxBasePriority = s.uxBasePriority
  BY <1>2, <1>3 DEF Shifts, WithRanks
<1> QED BY <1>4 DEF r

LEMMA ShiftsOn ==
  ASSUME NEW s, NEW a, NEW r, NEW t, Shifts(a, s, t), Rests(r, a, {})
  PROVE  Shifts(r, s, t) /\ r.uxPriority = a.uxPriority /\ r.uxBasePriority = a.uxBasePriority
<1>1. Calm(r, s, {} \cup {})
  BY CalmAgain DEF Shifts, Rests
<1> QED BY <1>1 DEF Shifts, Rests, SameRanks, WithRanks

LEMMA InheritingShifts ==
  ASSUME NEW s, Whole(s), WithRanks(s), NEW h \in Tasks
  PROVE  LET r == vTaskPriorityInherit(s, h)
             p == s.uxPriority[s.pxCurrentTCB]
         IN  \/ r = s /\ s.uxPriority[h] >= p
             \/ /\ Shifts(r, s, h) /\ ~(s.uxPriority[h] >= p)
                /\ r.uxPriority[h] = p /\ r.uxBasePriority = s.uxBasePriority
<1> DEFINE r == vTaskPriorityInherit(s, h)
           p == s.uxPriority[s.pxCurrentTCB]
           a == SetPriority(s, h, p)
           m == prvAddTaskToReadyQueue(vListRemoveGeneric(a, h), h)
<1>1. \/ r = s /\ s.uxPriority[h] >= p
      \/ ~(s.uxPriority[h] >= p) /\ (r = a \/ r = m)
  BY Zenon DEF vTaskPriorityInherit
<1>2. Shifts(a, s, h) /\ a.uxPriority[h] = p /\ a.uxBasePriority = s.uxBasePriority
  BY SettingShifts
<1> HIDE DEF r, a, p
<1>3. Whole(a)
  BY <1>2 DEF Shifts, Calm, Orderly
<1>4. Rests(m, a, {})
  BY <1>3, ReadyingRests
<1> HIDE DEF m
<1>5. Shifts(m, s, h) /\ m.uxPriority[h] = p /\ m.uxBasePriority = s.uxBasePriority
  BY <1>2, <1>4, ShiftsOn
<1> QED BY <1>1, <1>2, <1>5 DEF r, p

LEMMA DisinheritingShifts ==
  ASSUME NEW s, Whole(s), WithRanks(s), NEW h \in Tasks
  PROVE  LET r == vTaskPriorityDisinherit(s, h)
         IN  \/ r = s /\ s.uxPriority[h] = s.uxBasePriority[h]
             \/ /\ Shifts(r, s, h) /\ r.uxPriority[h] = s.uxBasePriority[h]
                /\ r.uxBasePriority = s.uxBasePriority /\ s.uxPriority[h] # s.uxBasePriority[h]
<1> DEFINE r == vTaskPriorityDisinherit(s, h)
           p == s.uxBasePriority[h]
           g == vListRemoveGeneric(s, h)
           a == SetPriority(g, h, p)
           m == prvAddTaskToReadyQueue(a, h)
<1>1. \/ r = s /\ s.uxPriority[h] = p
      \/ r = m /\ s.uxPriority[h] # p
  BY Zenon DEF vTaskPriorityDisinherit
<1>2. Rests(g, s, {}) /\ Whole(g)
  BY LeavingIsCalm, RestsMore DEF Rests
<1> HIDE DEF r, p, g
<1>3. WithRanks(g)
  BY <1>2 DEF WithRanks, Rests, SameRanks
<1>4. Shifts(a, g, h) /\ a.uxPriority[h] = p /\ a.uxBasePriority = g.uxBasePriority
  BY <1>2, <1>3, SettingShifts
<1> HIDE DEF a
<1>5. Whole(a)
  BY <1>4 DEF Shifts, Calm, Orderly
<1>6. Rests(m, a, {})
  BY <1>5, YieldingIsCalm DEF Rests
<1> HIDE DEF m
<1>7. Shifts(m, g, h) /\ m.uxPriority[h] = p /\ m.uxBasePriority = g.uxBasePriority
  BY <1>4, <1>6, ShiftsOn
<1>8. Calm(m, s, {} \cup {})
  BY <1>2, <1>7, CalmAgain DEF Shifts, Rests
<1>9. Shifts(m, s, h) /\ m.uxPriority[h] = p /\ m.uxBasePriority = s.uxBasePriority
  BY <1>2, <1>7, <1>8 DEF Shifts, Rests, SameRanks
<1> QED BY <1>1, <1>9 DEF r, p

LEMMA CreatingShifts ==
  ASSUME NEW s, Whole(s), WithRanks(s), NEW t \in Tasks, NEW uxPriority
  PROVE  LET r == xTaskCreate(s, t, uxPriority)
         IN  Shifts(r, s, t) /\ r.uxPriority[t] = r.uxBasePriority[t]
<1> DEFINE p == IF uxPriority >= configMAX_PRIORITIES THEN configMAX_PRIORITIES - 1
                ELSE uxPriority
           b == [s EXCEPT !.uxBasePriority[t] = p]
           a == SetPriority(b, t, p)
           c == [a EXCEPT !.live = @ \cup {t}]
           d == [c EXCEPT !.pxCurrentTCB = t]
           r == xTaskCreate(s, t, uxPriority)
<1>1. r = prvAddTaskToReadyQueue(c, t) \/ r = prvAddTaskToReadyQueue(d, t)
  BY Zenon DEF xTaskCreate, prvInitialiseTCBVariables
<1> HIDE DEF p, r
<1>2. DOMAIN s = SchedFields
  BY DEF Whole, Shaped
<1>3. /\ DOMAIN b = SchedFields /\ b.event = s.event
      /\ b.delayed = s.delayed /\ b.overflow = s.overflow
      /\ b.terminated = s.terminated /\ b.suspended = s.suspended
      /\ b.uxPriority = s.uxPriority /\ b.eventValue = s.eventValue
      /\ b.uxBasePriority = [s.uxBasePriority EXCEPT ![t] = p]
  BY <1>2 DEF SchedFields
<1> HIDE DEF b
<1>4. Calm(b, s, {}) /\ Whole(b) /\ WithRanks(b) /\ b.uxBasePriority[t] = p
  BY <1>3, CalmNothing DEF WithRanks, Calm, Orderly
<1>5. Shifts(a, b, t) /\ a.uxPriority[t] = p /\ a.uxBasePriority = b.uxBasePriority
  BY <1>4, SettingShifts
<1> HIDE DEF a
<1>6. Calm(a, s, {} \cup {})
  BY <1>4, <1>5, CalmAgain DEF Shifts
<1>7. Shifts(a, s, t) /\ a.uxPriority[t] = a.uxBasePriority[t]
  BY <1>3, <1>4, <1>5, <1>6 DEF Shifts
<1>8. Whole(a) /\ DOMAIN a = SchedFields
  BY <1>5 DEF Shifts, Calm, Orderly, Whole, Shaped
<1>9. \A x \in {c, d} : Rests(x, a, {}) /\ Whole(x)
  <2>1. /\ DOMAIN c = SchedFields /\ c.event = a.event
        /\ c.delayed = a.delayed /\ c.overflow = a.overflow
        /\ c.terminated = a.terminated /\ c.suspended = a.suspended /\ SameRanks(c, a)
    BY <1>8 DEF SchedFields, SameRanks
  <2>2. /\ DOMAIN d = SchedFields /\ d.event = a.event
        /\ d.delayed = a.delayed /\ d.overflow = a.overflow
        /\ d.terminated = a.terminated /\ d.suspended = a.suspended /\ SameRanks(d, a)
    BY <1>8 DEF SchedFields, SameRanks
  <2> HIDE DEF c, d
  <2>3. Rests(c, a, {}) /\ Rests(d, a, {})
    BY <1>8, <2>1, <2>2, CalmNothing DEF Rests
  <2> QED BY <2>3, RestsMore
<1> HIDE DEF c, d
<1>10. Rests(r, a, {} \cup {})
  <2>1. ASSUME NEW x \in {c, d}
        PROVE  Rests(prvAddTaskToReadyQueue(x, t), a, {} \cup {})
    <3>1. Rests(prvAddTaskToReadyQueue(x, t), x, {})
      BY <1>9, YieldingIsCalm DEF Rests
    <3> QED BY <1>9, <3>1, RestsAgain
  <2> QED BY <1>1, <2>1
<1>11. Shifts(r, s, t) /\ r.uxPriority[t] = r.uxBasePriority[t]
  BY <1>7, <1>10, ShiftsOn
<1> QED BY <1>11 DEF r

LEMMA StartingShifts ==
  ASSUME NEW s, Whole(s), WithRanks(s)
  PROVE  LET r == vTaskStartScheduler(s)
         IN  Shifts(r, s, idle) /\ r.uxPriority[idle] = r.uxBasePriority[idle]
<1> DEFINE a == xTaskCreate(s, idle, tskIDLE_PRIORITY)
           r == [a EXCEPT !.xSchedulerRunning = TRUE, !.xTickCount = 0]
<1>1. Shifts(a, s, idle) /\ a.uxPriority[idle] = a.uxBasePriority[idle]
  BY Constants, CreatingShifts
<1> HIDE DEF a
<1>2. Whole(a) /\ DOMAIN a = SchedFields
  BY <1>1 DEF Shifts, Calm, Orderly, Whole, Shaped
<1>3. /\ DOMAIN r = SchedFields /\ r.event = a.event
      /\ r.delayed = a.delayed /\ r.overflow = a.overflow
      /\ r.terminated = a.terminated /\ r.suspended = a.suspended /\ SameRanks(r, a)
  BY <1>2 DEF SchedFields, SameRanks
<1>4. vTaskStartScheduler(s) = r
  BY Zenon DEF vTaskStartScheduler, a
<1> HIDE DEF r
<1>5. Rests(r, a, {})
  BY <1>2, <1>3, CalmNothing DEF Rests
<1>6. Shifts(r, s, idle) /\ r.uxPriority[idle] = r.uxBasePriority[idle]
  BY <1>1, <1>5, ShiftsOn
<1> QED BY <1>4, <1>6

(* The current task joins an event list, in the order of priorities.       *)
Joined(r, s, l, X) ==
  /\ Whole(r) /\ SameRanks(r, s)
  /\ Out(r) \subseteq Out(s) \cup {s.pxCurrentTCB} /\ Sleeping(r) \subseteq Sleeping(s) \cup X
  /\ \A m \in EventLists \ {l} : r.event[m] = s.event[m]
  /\ ToSet(r.event[l]) = ToSet(s.event[l]) \cup {s.pxCurrentTCB}
  /\ InOrder(s.event[l], s.eventValue) => InOrder(r.event[l], s.eventValue)

LEMMA PlacingJoins ==
  ASSUME NEW s, Whole(s), s.pxCurrentTCB \in Tasks, NEW l \in EventLists, NEW wait,
         s.eventValue \in [Tasks -> Int], s.pxCurrentTCB \notin ToSet(s.event[l])
  PROVE  LET r == vTaskPlaceOnEventList(s, l, wait)
         IN  Joined(r, s, l, IF wait = portMAX_DELAY THEN {} ELSE {s.pxCurrentTCB})
<1> DEFINE t == s.pxCurrentTCB
           X == IF wait = portMAX_DELAY THEN {} ELSE {t}
           list == vListInsert(s.event[l], t, s.eventValue)
           c == [s EXCEPT !.event[l] = list]
           g == vListRemoveGeneric(c, t)
           u == [g EXCEPT !.suspended = @ \cup {t}]
           d == Delay(c, TimeToWake(s, wait))
           r == vTaskPlaceOnEventList(s, l, wait)
<1>1. DOMAIN s = SchedFields /\ IsOver(s.event, EventLists) /\ IsList(s.event[l])
  BY DEF Whole, Shaped
<1>2. r = IF wait = portMAX_DELAY THEN u ELSE d
  BY Zenon DEF vTaskPlaceOnEventList
<1>3. /\ IsList(list) /\ ToSet(list) = ToSet(s.event[l]) \cup {t}
      /\ InOrder(s.event[l], s.eventValue) => InOrder(list, s.eventValue)
  BY <1>1, InsertedInto
<1> HIDE DEF list, r
<1>4. /\ DOMAIN c = SchedFields /\ c.event = [s.event EXCEPT ![l] = list]
      /\ c.delayed = s.delayed /\ c.overflow = s.overflow /\ c.terminated = s.terminated
      /\ c.suspended = s.suspended /\ c.pxCurrentTCB = t /\ SameRanks(c, s)
  BY <1>1 DEF SchedFields, SameRanks
<1> HIDE DEF c
<1>5. /\ IsOver(c.event, EventLists) /\ c.event[l] = list
      /\ \A m \in EventLists \ {l} : c.event[m] = s.event[m]
  BY <1>1, <1>4 DEF IsOver
<1>6. Whole(c)
  BY <1>1, <1>3, <1>4, <1>5 DEF Whole, Shaped
<1>7. Rests(g, c, {}) /\ t \notin Out(g) /\ Whole(g) /\ DOMAIN g = SchedFields
  BY <1>6, LeavingIsCalm, RestsMore DEF Rests, Whole, Shaped
<1>8. d.event = c.event /\ g.event = c.event
  BY <1>6, SleepingTrims, ListsTrim DEF Whole
<1>9. Rests(d, c, {t})
  BY <1>4, <1>6, SleepingRests
<1> HIDE DEF g, d
<1>10. /\ DOMAIN u = SchedFields /\ u.event = g.event /\ u.delayed = g.delayed
       /\ u.overflow = g.overflow /\ u.terminated = g.terminated
       /\ u.suspended = g.suspended \cup {t} /\ SameRanks(u, g)
  BY <1>7 DEF SchedFields, SameRanks
<1> HIDE DEF u
<1>11. Whole(u) /\ Out(u) = Out(g) \cup {t} /\ Sleeping(u) = Sleeping(g) /\ u.event = c.event
  BY <1>7, <1>8, <1>10 DEF Whole, Shaped, Out, Sleeping
<1>12. /\ Out(c) = Out(s) /\ Sleeping(c) = Sleeping(s)
  BY <1>4 DEF Out, Sleeping
<1>13. /\ Whole(u) /\ SameRanks(u, s) /\ Out(u) \subseteq Out(s) \cup {t}
       /\ Sleeping(u) \subseteq Sleeping(s)
  BY <1>4, <1>7, <1>10, <1>11, <1>12, SameRanksAgain DEF Rests, Calm, Orderly
<1>14. /\ Whole(d) /\ SameRanks(d, s) /\ Out(d) \subseteq Out(s) \cup {t}
       /\ Sleeping(d) \subseteq Sleeping(s) \cup {t}
  BY <1>4, <1>9, <1>12, SameRanksAgain DEF Rests, Calm, Orderly
<1>15. /\ Whole(r) /\ SameRanks(r, s) /\ Out(r) \subseteq Out(s) \cup {t}
       /\ Sleeping(r) \subseteq Sleeping(s) \cup X /\ r.event = c.event
  BY <1>2, <1>8, <1>11, <1>13, <1>14
<1> HIDE DEF X, t
<1>16. Joined(r, s, l, X)
  BY <1>3, <1>5, <1>15 DEF Joined, t
<1> QED BY <1>16 DEF r, X, t

=============================================================================
