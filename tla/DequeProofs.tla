------------------------------ MODULE DequeProofs ------------------------------
(***************************************************************************)
(* Proofs about Deque for any elements, any bound on its size and two      *)
(* kinds of client: one that pushes at the front of a deque only while it  *)
(* holds elements and leaves the growing to the pushes; one that keeps to  *)
(* the back, and may put its first element at the front and reserve.  Then *)
(* about Brackets, a client of the second kind: what its stack holds, and  *)
(* that its answer is a shortest one.                                      *)
(***************************************************************************)
EXTENDS Brackets, FiniteSetTheorems, WellFoundedInduction, TLAPS

Careful == Calls \cap {"push_front_empty", "reserve"} = {}

\* A buffer of one slot would never be doubled.
AtTheBack ==
  /\ Calls \subseteq {"push_back", "push_front_empty", "pop_back", "reserve"}
  /\ 1 \notin Sizes

\* What is written at a slot is there, and the rest is as it was.
LEMMA WriteSlot ==
  ASSUME NEW S, NEW T, NEW b \in [S -> T], NEW i \in S, NEW e \in T
  PROVE  /\ [b EXCEPT ![i] = e] \in [S -> T]
         /\ [b EXCEPT ![i] = e][i] = e
         /\ \A j \in S : j # i => [b EXCEPT ![i] = e][j] = b[j]
OBVIOUS

\* The deque before its first push, and after it.
Fresh == dcapacity = 0 /\ dsize = 0 /\ head = 0 /\ end = 0
InUse ==
  /\ dcapacity >= 2 /\ dsize < dcapacity /\ head < dcapacity
  /\ end = IF head + dsize < dcapacity THEN head + dsize ELSE head + dsize - dcapacity

IInv == TypeOK /\ ~ outside /\ (Fresh \/ InUse)

\* Where the i-th element of a deque of capacity n is, counting from 0.
Slot(i, n) == IF head + i < n THEN head + i ELSE head + i - n

\* Room keeps the elements, and leaves a slot free beside the one to write.
LEMMA RoomKeeps ==
  ASSUME IInv
  PROVE  /\ Room.capacity \in Nat /\ Room.capacity >= 2
         /\ dsize + 1 < Room.capacity /\ head < Room.capacity
         /\ Room.buffer \in [Slots(Room.capacity) -> Elements \cup {Junk}]
         /\ Room.end = Slot(dsize, Room.capacity)
         /\ \A i \in Slots(dsize) :
              Room.buffer[Slot(i, Room.capacity)] = buffer[Slot(i, dcapacity)]
<1> USE DEF IInv, TypeOK, Slots
<1>1. CASE Fresh
  <2>1. /\ Room.capacity = 2 /\ Room.end = 0
        /\ Room.buffer = [i \in 0..1 |-> Junk]
    BY <1>1 DEF Fresh, Room, MemSize
  <2> QED BY <1>1, <2>1 DEF Fresh, Slot
<1>2. CASE InUse /\ ~ empty /\ dsize + 1 = dcapacity
  <2>1. Room = Reserved(2 * dcapacity)
    BY <1>2 DEF InUse, Room, MemSize
  <2>2. /\ Room.capacity = 2 * dcapacity
        /\ Room.end = IF head > end THEN dcapacity + end ELSE end
        /\ Room.buffer = Copied(2 * dcapacity)
    BY <2>1 DEF Reserved
  <2>3. Room.buffer \in [0..(2 * dcapacity - 1) -> Elements \cup {Junk}]
    BY <1>2, <2>2 DEF Copied, InUse
  <2>4. Room.end = Slot(dsize, 2 * dcapacity)
    BY <1>2, <2>2 DEF InUse, Slot, empty
  <2>5. ASSUME NEW i \in 0..(dsize - 1)
        PROVE  Room.buffer[Slot(i, 2 * dcapacity)] = buffer[Slot(i, dcapacity)]
    <3>1. Slot(i, 2 * dcapacity) = head + i /\ head + i \in 0..(2 * dcapacity - 1)
      BY <1>2 DEF InUse, Slot
    <3>2. Copied(2 * dcapacity)[head + i] = buffer[Slot(i, dcapacity)]
      BY <1>2, <3>1 DEF Copied, InUse, Slot
    <3> QED BY <2>2, <3>1, <3>2
  <2> QED BY <1>2, <2>2, <2>3, <2>4, <2>5 DEF InUse
<1>3. CASE InUse /\ ~ (~ empty /\ dsize + 1 = dcapacity)
  <2>1. Room.capacity = dcapacity /\ Room.end = end /\ Room.buffer = buffer
    BY <1>3 DEF InUse, Room
  <2>2. dsize + 1 < dcapacity
    BY <1>3 DEF InUse, empty
  <2> QED BY <1>3, <2>1, <2>2 DEF InUse, Slot
<1> QED BY <1>1, <1>2, <1>3

-------------------------------------------------------------------------------
(***************************************************************************)
(* Every operation keeps the ring, and does to Contents what the abstract  *)
(* deque does to its sequence.                                             *)
(***************************************************************************)

\* Contents by slots.
Laid ==
  /\ Contents = [i \in 1..dsize |-> buffer[Slot(i - 1, dcapacity)]]
  /\ Contents \in Seq(Elements \cup {Junk})
  /\ Len(Contents) = dsize

LEMMA ContentsSlots == IInv => Laid
<1> SUFFICES ASSUME IInv PROVE Laid
  OBVIOUS
<1>1. ASSUME NEW i \in 1..dsize
      PROVE  /\ (head + i - 1) % dcapacity = Slot(i - 1, dcapacity)
             /\ Slot(i - 1, dcapacity) \in Slots(dcapacity)
  <2>1. InUse /\ dcapacity \in Nat \ {0} /\ head + i - 1 \in 0..(2 * dcapacity - 1)
    BY <1>1 DEF IInv, TypeOK, InUse, Fresh
  <2>2. PICK a, n : a = head + i - 1 /\ n = dcapacity
    OBVIOUS
  <2>3. a % n = IF a < n THEN a ELSE a - n
    <3>1. CASE a < n
      BY <2>1, <2>2, <3>1, SMT
    <3>2. CASE a >= n
      BY <2>1, <2>2, <3>2, SMT
    <3> QED BY <2>1, <2>2, <3>1, <3>2
  <2> QED BY <1>1, <2>1, <2>2, <2>3 DEF Slot, Slots, IInv, TypeOK, InUse
<1>2. Contents = [i \in 1..dsize |-> buffer[Slot(i - 1, dcapacity)]]
  BY <1>1 DEF Contents
<1>3. \A i \in 1..dsize : buffer[Slot(i - 1, dcapacity)] \in Elements \cup {Junk}
  BY <1>1 DEF IInv, TypeOK
<1>4. dsize \in Nat
  BY DEF IInv, TypeOK
<1> HIDE DEF Slot
<1> QED BY <1>2, <1>3, <1>4 DEF Laid

LEMMA ContentsSlotsNext == IInv' => Laid'
BY ContentsSlots, PTL

LEMMA PushBackStep ==
  ASSUME IInv, NEW e \in Elements, push_back(e)
  PROVE  IInv' /\ Contents' = Append(Contents, e)
<1> DEFINE r == Room
<1>1. /\ r.capacity \in Nat /\ r.capacity >= 2
      /\ dsize + 1 < r.capacity /\ head < r.capacity
      /\ r.buffer \in [Slots(r.capacity) -> Elements \cup {Junk}]
      /\ r.end = Slot(dsize, r.capacity)
      /\ \A i \in Slots(dsize) :
           r.buffer[Slot(i, r.capacity)] = buffer[Slot(i, dcapacity)]
  BY RoomKeeps
<1>2. PICK b, n, x : b = r.buffer /\ n = r.capacity /\ x = r.end
  OBVIOUS
<1> HIDE DEF r
<1>3. /\ buffer' = [b EXCEPT ![x] = e] /\ dcapacity' = n /\ outside' = (x \notin Slots(n))
      /\ dsize' = dsize + 1 /\ answer' = Nothing
      /\ end' = (x + 1) % n /\ head' = head
  BY <1>2 DEF push_back, Store, r
<1>4. /\ n \in Nat \ {0} /\ n >= 2 /\ dsize + 1 < n /\ head < n
      /\ b \in [Slots(n) -> Elements \cup {Junk}] /\ x = Slot(dsize, n)
      /\ \A i \in Slots(dsize) : b[Slot(i, n)] = buffer[Slot(i, dcapacity)]
      /\ head \in Nat /\ dsize \in Nat
  BY <1>1, <1>2 DEF IInv, TypeOK
<1>5. x \in Slots(n) /\ x + 1 \in 0..(2 * n - 1)
  BY <1>4 DEF Slot, Slots
<1>6. end' = IF x + 1 < n THEN x + 1 ELSE 0
  <2>1. n \in Nat \ {0} /\ x \in 0..(n - 1)
    BY <1>4, <1>5 DEF Slots
  <2>2. (x + 1) % n = IF x + 1 < n THEN x + 1 ELSE 0
    BY <2>1, SMT
  <2> QED BY <1>3, <2>2
<1>7. /\ buffer' \in [Slots(n) -> Elements \cup {Junk}] /\ buffer'[x] = e
      /\ \A j \in Slots(n) : j # x => buffer'[j] = b[j]
  BY <1>3, <1>4, <1>5
<1>8. IInv'
  <2>1. TypeOK'
    BY <1>3, <1>4, <1>5, <1>6, <1>7 DEF TypeOK, Slots
  <2>2. InUse'
    BY <1>3, <1>4, <1>6 DEF InUse, Slot
  <2> QED BY <1>3, <1>5, <2>1, <2>2 DEF IInv
<1>9. Laid /\ Laid'
  BY <1>8, ContentsSlots, ContentsSlotsNext
<1>10. ASSUME NEW i \in 1..(dsize + 1)
       PROVE  Contents'[i] = IF i <= dsize THEN Contents[i] ELSE e
  <2>1. Contents'[i] = buffer'[Slot(i - 1, n)]
    BY <1>3, <1>9, <1>10 DEF Laid, Slot
  <2>2. CASE i <= dsize
    <3>1. i - 1 \in Slots(dsize) /\ Slot(i - 1, n) \in Slots(n) /\ Slot(i - 1, n) # x
      BY <1>4, <1>10, <2>2 DEF Slot, Slots
    <3>2. buffer'[Slot(i - 1, n)] = buffer[Slot(i - 1, dcapacity)]
      BY <1>4, <1>7, <3>1
    <3> QED BY <1>9, <1>10, <2>1, <2>2, <3>2, <1>4 DEF Laid
  <2>3. CASE i = dsize + 1
    BY <1>4, <1>7, <2>1, <2>3
  <2> QED BY <1>4, <1>10, <2>2, <2>3
<1>11. /\ Len(Contents) = dsize /\ Len(Contents') = dsize + 1
       /\ Contents \in Seq(Elements \cup {Junk}) /\ Contents' \in Seq(Elements \cup {Junk})
  BY <1>3, <1>9 DEF Laid
<1> QED BY <1>4, <1>8, <1>10, <1>11

LEMMA PushFrontStep ==
  ASSUME IInv, NEW e \in Elements, push_front(e)
  PROVE  IInv' /\ Contents' = <<e>> \o Contents
<1> DEFINE r == Room
<1>1. /\ r.capacity \in Nat /\ r.capacity >= 2
      /\ dsize + 1 < r.capacity /\ head < r.capacity
      /\ r.buffer \in [Slots(r.capacity) -> Elements \cup {Junk}]
      /\ r.end = Slot(dsize, r.capacity)
      /\ \A i \in Slots(dsize) :
           r.buffer[Slot(i, r.capacity)] = buffer[Slot(i, dcapacity)]
  BY RoomKeeps
<1>2. PICK b, n, x, h : /\ b = r.buffer /\ n = r.capacity /\ x = r.end
                        /\ h = IF head = 0 THEN n - 1 ELSE head - 1
  OBVIOUS
<1> HIDE DEF r
<1>3. /\ buffer' = [b EXCEPT ![h] = e] /\ dcapacity' = n /\ outside' = (h \notin Slots(n))
      /\ dsize' = dsize + 1 /\ answer' = Nothing
      /\ end' = x /\ head' = h
  BY <1>2 DEF push_front, Store, r
<1>4. /\ n \in Nat \ {0} /\ n >= 2 /\ dsize + 1 < n /\ head < n
      /\ b \in [Slots(n) -> Elements \cup {Junk}] /\ x = Slot(dsize, n)
      /\ \A i \in Slots(dsize) : b[Slot(i, n)] = buffer[Slot(i, dcapacity)]
      /\ head \in Nat /\ dsize \in Nat
  BY <1>1, <1>2 DEF IInv, TypeOK
<1>5. h \in Slots(n) /\ x \in Slots(n)
  BY <1>2, <1>4 DEF Slot, Slots
<1>6. /\ buffer' \in [Slots(n) -> Elements \cup {Junk}] /\ buffer'[h] = e
      /\ \A j \in Slots(n) : j # h => buffer'[j] = b[j]
  BY <1>3, <1>4, <1>5
<1>7. IInv'
  <2>1. TypeOK'
    BY <1>3, <1>4, <1>5, <1>6 DEF TypeOK, Slots
  <2>2. InUse'
    BY <1>2, <1>3, <1>4 DEF InUse, Slot
  <2> QED BY <1>3, <1>5, <2>1, <2>2 DEF IInv
<1>8. Laid /\ Laid'
  BY <1>7, ContentsSlots, ContentsSlotsNext
<1>9. ASSUME NEW i \in 1..(dsize + 1)
      PROVE  Contents'[i] = IF i = 1 THEN e ELSE Contents[i - 1]
  <2>1. /\ Contents'[i] = buffer'[IF h + (i - 1) < n THEN h + (i - 1) ELSE h + (i - 1) - n]
    BY <1>3, <1>8, <1>9 DEF Laid, Slot
  <2>2. CASE i > 1
    <3>1. /\ i - 2 \in Slots(dsize) /\ Slot(i - 2, n) \in Slots(n) /\ Slot(i - 2, n) # h
          /\ Slot(i - 2, n) = IF h + (i - 1) < n THEN h + (i - 1) ELSE h + (i - 1) - n
      <4>1. i \in Nat /\ i > 1 /\ i <= dsize + 1
        BY <1>4, <1>9, <2>2
      <4>2. CASE head = 0 /\ h = n - 1
        BY <1>4, <4>1, <4>2 DEF Slot, Slots
      <4>3. CASE head > 0 /\ h = head - 1
        BY <1>4, <4>1, <4>3 DEF Slot, Slots
      <4> QED BY <1>2, <1>4, <4>2, <4>3
    <3>2. buffer'[Slot(i - 2, n)] = buffer[Slot(i - 2, dcapacity)]
      BY <1>4, <1>6, <3>1
    <3>3. i - 1 \in 1..dsize /\ (i - 1) - 1 = i - 2
      BY <1>4, <1>9, <2>2
    <3> QED BY <1>8, <2>1, <2>2, <3>1, <3>2, <3>3 DEF Laid
  <2>3. CASE i = 1
    <3>1. (IF h + (i - 1) < n THEN h + (i - 1) ELSE h + (i - 1) - n) = h
      BY <1>4, <1>5, <2>3 DEF Slots
    <3> QED BY <1>6, <2>1, <2>3, <3>1
  <2> QED BY <1>9, <2>2, <2>3
<1>10. /\ Len(Contents) = dsize /\ Len(Contents') = dsize + 1
       /\ Contents \in Seq(Elements \cup {Junk}) /\ Contents' \in Seq(Elements \cup {Junk})
  BY <1>3, <1>8 DEF Laid
<1>11. Contents' = <<e>> \o Contents
  <2>1. PICK s, t : s = Contents /\ t = Contents'
    OBVIOUS
  <2>2. /\ s \in Seq(Elements \cup {Junk}) /\ t \in Seq(Elements \cup {Junk})
        /\ Len(t) = Len(s) + 1 /\ Len(s) \in Nat
        /\ \A i \in 1..(Len(s) + 1) : t[i] = IF i = 1 THEN e ELSE s[i - 1]
    BY <1>4, <1>9, <1>10, <2>1
  <2>3. <<e>> \o s \in Seq(Elements \cup {Junk}) /\ Len(<<e>> \o s) = Len(s) + 1
    BY <2>2
  <2>4. \A i \in 1..(Len(s) + 1) : (<<e>> \o s)[i] = IF i = 1 THEN e ELSE s[i - 1]
    BY <2>2
  <2>5. t = <<e>> \o s
    BY <2>2, <2>3, <2>4
  <2> QED BY <2>1, <2>5
<1> QED BY <1>7, <1>11

LEMMA PopBackStep ==
  ASSUME IInv, pop_back
  PROVE  /\ IInv' /\ Contents # <<>>
         /\ answer' = Contents[Len(Contents)]
         /\ Contents' = SubSeq(Contents, 1, Len(Contents) - 1)
<1>1. /\ InUse /\ dsize \in Nat \ {0} /\ head \in Nat /\ end \in Nat /\ dcapacity \in Nat
      /\ buffer \in [Slots(dcapacity) -> Elements \cup {Junk}]
  BY DEF IInv, TypeOK, Fresh, pop_back, empty
<1>2. back = Slot(dsize - 1, dcapacity) /\ back \in Slots(dcapacity)
  BY <1>1 DEF back, Slot, Slots, InUse
<1>3. /\ outside' = FALSE /\ answer' = buffer[back] /\ dsize' = dsize - 1
      /\ UNCHANGED <<buffer, dcapacity, head>> /\ end' = back
  BY <1>2 DEF pop_back, Take
<1>4. IInv'
  <2>1. TypeOK'
    <3>1. answer' \in Elements \cup {Junk} /\ end' \in Nat /\ dsize' \in Nat
      BY <1>1, <1>2, <1>3 DEF Slots
    <3> QED BY <1>1, <1>3, <3>1 DEF TypeOK
  <2>2. InUse'
    BY <1>1, <1>2, <1>3 DEF InUse, Slot
  <2> QED BY <1>3, <2>1, <2>2 DEF IInv
<1>5. Laid /\ Laid'
  BY <1>4, ContentsSlots, ContentsSlotsNext
<1>6. Contents[dsize] = buffer[back]
  BY <1>1, <1>2, <1>5 DEF Laid
<1>7. \A i \in 1..(dsize - 1) : Contents'[i] = Contents[i]
  BY <1>1, <1>3, <1>5 DEF Laid, Slot
<1>8. /\ Len(Contents) = dsize /\ Len(Contents') = dsize - 1
      /\ Contents \in Seq(Elements \cup {Junk}) /\ Contents' \in Seq(Elements \cup {Junk})
  BY <1>3, <1>5 DEF Laid
<1>9. Contents' = SubSeq(Contents, 1, Len(Contents) - 1)
  BY <1>1, <1>7, <1>8
<1>10. Contents # <<>>
  BY <1>1, <1>8
<1> QED BY <1>3, <1>4, <1>6, <1>8, <1>9, <1>10

\* What top() refers to.
LEMMA TopIsLast ==
  ASSUME IInv, pop_back
  PROVE  buffer'[back] = Contents[Len(Contents)]
<1>1. InUse /\ dsize \in Nat \ {0} /\ head \in Nat /\ end \in Nat /\ dcapacity \in Nat
  BY DEF IInv, TypeOK, Fresh, pop_back, empty
<1>2. back = Slot(dsize - 1, dcapacity) /\ back \in Slots(dcapacity)
  BY <1>1 DEF back, Slot, Slots, InUse
<1>3. answer' = buffer[back] /\ buffer' = buffer
  BY <1>2 DEF pop_back, Take
<1>4. answer' = Contents[Len(Contents)]
  BY PopBackStep
<1>. QED
  BY <1>3, <1>4

LEMMA PopFrontStep ==
  ASSUME IInv, pop_front
  PROVE  /\ IInv' /\ Contents # <<>>
         /\ answer' = Head(Contents)
         /\ Contents' = Tail(Contents)
<1>1. /\ InUse /\ dsize \in Nat \ {0} /\ head \in Nat /\ end \in Nat
      /\ dcapacity \in Nat \ {0} /\ head \in 0..(dcapacity - 1)
      /\ buffer \in [Slots(dcapacity) -> Elements \cup {Junk}]
  BY DEF IInv, TypeOK, Fresh, InUse, pop_front, empty
<1>2. (head + 1) % dcapacity = IF head + 1 < dcapacity THEN head + 1 ELSE 0
  <2>1. PICK h, n : h = head /\ n = dcapacity
    OBVIOUS
  <2>2. n \in Nat \ {0} /\ h \in 0..(n - 1)
    BY <1>1, <2>1
  <2>3. (h + 1) % n = IF h + 1 < n THEN h + 1 ELSE 0
    BY <2>2, SMT
  <2> QED BY <2>1, <2>3
<1>3. /\ outside' = FALSE /\ answer' = buffer[head] /\ dsize' = dsize - 1
      /\ UNCHANGED <<buffer, dcapacity, end>>
      /\ head' = IF head + 1 < dcapacity THEN head + 1 ELSE 0
  BY <1>1, <1>2 DEF pop_front, Take, Slots
<1>4. IInv'
  <2>1. TypeOK'
    <3>1. answer' \in Elements \cup {Junk} /\ head' \in Nat /\ dsize' \in Nat
      BY <1>1, <1>3 DEF Slots
    <3> QED BY <1>1, <1>3, <3>1 DEF TypeOK
  <2>2. InUse'
    BY <1>1, <1>3 DEF InUse
  <2> QED BY <1>3, <2>1, <2>2 DEF IInv
<1>5. Laid /\ Laid'
  BY <1>4, ContentsSlots, ContentsSlotsNext
<1>6. Contents[1] = buffer[head]
  BY <1>1, <1>5 DEF Laid, Slot, InUse
<1>7. ASSUME NEW i \in 1..(dsize - 1) PROVE Contents'[i] = Contents[i + 1]
  <2>1. i \in 1..dsize' /\ i + 1 \in 1..dsize
    BY <1>1, <1>3, <1>7
  <2>2. Slot(i - 1, dcapacity)' = Slot((i + 1) - 1, dcapacity)
    BY <1>1, <1>3, <1>7 DEF Slot, InUse
  <2> QED BY <1>3, <1>5, <2>1, <2>2 DEF Laid
<1>8. /\ Len(Contents) = dsize /\ Len(Contents') = dsize - 1
      /\ Contents \in Seq(Elements \cup {Junk}) /\ Contents' \in Seq(Elements \cup {Junk})
  BY <1>3, <1>5 DEF Laid
<1>9. Contents # <<>> /\ Head(Contents) = Contents[1]
  BY <1>1, <1>8
<1>10. Contents' = Tail(Contents)
  BY <1>1, <1>7, <1>8, <1>9
<1> QED BY <1>3, <1>4, <1>6, <1>9, <1>10

-------------------------------------------------------------------------------
(***************************************************************************)
(* The theorems.                                                           *)
(***************************************************************************)

LEMMA IInvInit == Init => IInv
<1> SUFFICES ASSUME Init PROVE IInv
  OBVIOUS
<1>1. buffer \in [Slots(dcapacity) -> Elements \cup {Junk}]
  BY DEF Init
<1> QED BY <1>1 DEF Init, IInv, TypeOK, Fresh

LEMMA PopEmptyStep ==
  ASSUME IInv, pop_empty
  PROVE  IInv' /\ Contents' = <<>> /\ Contents = <<>> /\ answer' = Nothing
<1>1. IInv' /\ dsize = 0 /\ dsize' = 0 /\ answer' = Nothing
  BY DEF pop_empty, empty, IInv, TypeOK, Fresh, InUse
<1>2. Laid /\ Laid'
  BY <1>1, ContentsSlots, ContentsSlotsNext
<1> QED BY <1>1, <1>2 DEF Laid

LEMMA NextStep ==
  ASSUME Careful, IInv, Next
  PROVE  IInv' /\ Abstract!ANext
<1> USE DEF Abstract!ANext, Abstract!APushBack, Abstract!APushFront,
            Abstract!APopBack, Abstract!APopFront
<1>1. CASE \E e \in Elements : push_back(e)
  <2>1. PICK e \in Elements : push_back(e)
    BY <1>1
  <2> QED BY <2>1, PushBackStep DEF push_back, Store
<1>2. CASE \E e \in Elements : push_front(e)
  <2>1. PICK e \in Elements : push_front(e)
    BY <1>2
  <2> QED BY <2>1, PushFrontStep DEF push_front, Store
<1>3. CASE pop_back
  BY <1>3, PopBackStep
<1>4. CASE pop_front
  BY <1>4, PopFrontStep
<1>5. CASE pop_empty
  BY <1>5, PopEmptyStep
<1>6. ~ Called("push_front_empty") /\ ~ Called("reserve")
  BY DEF Careful, Called
<1> QED BY <1>1, <1>2, <1>3, <1>4, <1>5, <1>6 DEF Next

\* Of a client that keeps to the back, what is not copied is not in the deque.
LEMMA ReserveStep ==
  ASSUME IInv, head = 0, NEW n \in Nat, n # 1, reserve(n)
  PROVE  IInv' /\ head' = 0 /\ Contents' = Contents /\ answer' = answer
<1>1. /\ head = 0 /\ end = dsize /\ dsize \in Nat /\ dcapacity \in Nat /\ n > dcapacity /\ n >= 2
      /\ (dcapacity = 0 /\ dsize = 0) \/ dsize < dcapacity
      /\ buffer \in [Slots(dcapacity) -> Elements \cup {Junk}]
  BY DEF IInv, TypeOK, Fresh, InUse, reserve
<1>2. /\ buffer' = Copied(n) /\ dcapacity' = n /\ end' = dsize /\ outside' = FALSE
      /\ dsize' = dsize /\ head' = 0 /\ answer' = answer
  <2>1. Reserved(n).end = IF head > end THEN dcapacity + end ELSE end
    BY DEF Reserved
  <2>2. ~ (head > end) /\ ~ (head >= end /\ dcapacity + end > n)
    BY <1>1
  <2>3. Reserved(n).end = dsize
    BY <1>1, <2>1, <2>2
  <2>4. outside' = FALSE
    BY <2>2 DEF reserve
  <2> QED BY <1>1, <2>3, <2>4 DEF reserve
<1>3. /\ Copied(n) \in [Slots(n) -> Elements \cup {Junk}]
      /\ \A i \in Slots(dsize) : Copied(n)[i] = buffer[i]
  BY <1>1 DEF Copied, Slots
<1>4. IInv'
  <2>1. TypeOK'
    <3>1. answer \in Elements \cup {Junk, Nothing}
      BY DEF IInv, TypeOK
    <3>2. buffer' \in [Slots(dcapacity') -> Elements \cup {Junk}]
      BY <1>2, <1>3
    <3> QED BY <1>1, <1>2, <3>1, <3>2 DEF TypeOK
  <2>2. InUse'
    BY <1>1, <1>2 DEF InUse
  <2> QED BY <1>2, <2>1, <2>2 DEF IInv
<1>5. Laid /\ Laid'
  BY <1>4, ContentsSlots, ContentsSlotsNext
<1>6. ASSUME NEW i \in 1..dsize PROVE Slot(i - 1, dcapacity)' = i - 1 /\ Slot(i - 1, dcapacity) = i - 1
  BY <1>1, <1>2, <1>6 DEF Slot
<1>7. ASSUME NEW i \in 1..dsize PROVE buffer'[i - 1] = buffer[i - 1]
  <2>1. i - 1 \in Slots(dsize)
    BY <1>1, <1>7 DEF Slots
  <2> QED BY <1>2, <1>3, <2>1
<1>8. Contents' = Contents
  BY <1>2, <1>5, <1>6, <1>7 DEF Laid
<1> QED BY <1>2, <1>4, <1>8

LEMMA PushFrontEmptyStep ==
  ASSUME IInv, head = 0, NEW e \in Elements, push_front_empty(e)
  PROVE  IInv' /\ head' = 0 /\ Contents' = <<e>> \o Contents /\ answer' = Nothing
<1> DEFINE r == Room
<1>1. /\ r.capacity \in Nat /\ r.capacity >= 2
      /\ r.buffer \in [Slots(r.capacity) -> Elements \cup {Junk}]
  BY RoomKeeps
<1>2. PICK b, n : b = r.buffer /\ n = r.capacity
  OBVIOUS
<1> HIDE DEF r
<1>3. dsize = 0 /\ end = 0
  BY DEF push_front_empty, empty, IInv, TypeOK, Fresh, InUse
<1>4. /\ buffer' = [b EXCEPT ![0] = e] /\ dcapacity' = n /\ outside' = (0 \notin Slots(n))
      /\ dsize' = 1 /\ answer' = Nothing /\ end' = 1 /\ head' = 0
  BY <1>2, <1>3 DEF push_front_empty, Store, r
<1>5. n \in Nat /\ n >= 2 /\ 0 \in Slots(n)
  BY <1>1, <1>2 DEF Slots
<1>6. buffer' \in [Slots(n) -> Elements \cup {Junk}] /\ buffer'[0] = e
  BY <1>1, <1>2, <1>4, <1>5
<1>7. IInv'
  <2>1. TypeOK'
    BY <1>4, <1>5, <1>6 DEF TypeOK
  <2>2. InUse'
    BY <1>4, <1>5 DEF InUse
  <2> QED BY <1>4, <1>5, <2>1, <2>2 DEF IInv
<1>8. Laid /\ Laid'
  BY <1>7, ContentsSlots, ContentsSlotsNext
<1>9. Contents = <<>>
  BY <1>3, <1>8 DEF Laid
<1>10. Len(Contents') = 1 /\ Contents'[1] = e /\ Contents' \in Seq(Elements \cup {Junk})
  BY <1>4, <1>5, <1>6, <1>8 DEF Laid, Slot
<1>11. Contents' = <<e>>
  BY <1>10
<1> QED BY <1>4, <1>7, <1>9, <1>11

LEMMA BackStep ==
  ASSUME AtTheBack, IInv, head = 0, Next
  PROVE  IInv' /\ head' = 0 /\ (Abstract!ANext \/ UNCHANGED <<Contents, answer>>)
<1> USE DEF Abstract!ANext, Abstract!APushBack, Abstract!APushFront, Abstract!APopBack
<1>1. CASE \E e \in Elements : push_back(e)
  <2>1. PICK e \in Elements : push_back(e)
    BY <1>1
  <2> QED BY <2>1, PushBackStep DEF push_back, Store
<1>2. CASE \E e \in Elements : push_front_empty(e)
  <2>1. PICK e \in Elements : push_front_empty(e)
    BY <1>2
  <2> QED BY <2>1, PushFrontEmptyStep
<1>3. CASE pop_back
  BY <1>3, PopBackStep DEF pop_back
<1>4. CASE pop_empty
  BY <1>4, PopEmptyStep DEF pop_empty
<1>5. CASE \E n \in Sizes : reserve(n)
  <2>1. PICK n \in Sizes : reserve(n)
    BY <1>5
  <2>2. n \in Nat /\ n # 1
    BY DequeAssumption DEF AtTheBack
  <2> QED BY <2>1, <2>2, ReserveStep
<1>6. ~ Called("push_front") /\ ~ Called("pop_front")
  BY DEF AtTheBack, Called
<1> QED BY <1>1, <1>2, <1>3, <1>4, <1>5, <1>6 DEF Next

LEMMA Stutter == IInv /\ UNCHANGED vars => IInv' /\ Contents' = Contents /\ answer' = answer
<1> SUFFICES ASSUME IInv, UNCHANGED vars
             PROVE  IInv' /\ Contents' = Contents /\ answer' = answer
  OBVIOUS
<1>1. TypeOK'
  BY DEF vars, IInv, TypeOK
<1>2. (~ outside /\ (Fresh \/ InUse))'
  BY DEF vars, IInv, Fresh, InUse
<1> QED BY <1>1, <1>2 DEF vars, IInv, Contents

\* The end of the ring, by the modulus of Ring.
LEMMA RingIsSlots == IInv => Ring
<1> SUFFICES ASSUME IInv, InUse PROVE Ring
  BY DEF IInv, Ring, Fresh
<1>1. PICK a, n : a = head + dsize /\ n = dcapacity
  OBVIOUS
<1>2. n \in Nat \ {0} /\ a \in 0..(2 * n - 1) /\ end = IF a < n THEN a ELSE a - n
  BY <1>1 DEF IInv, TypeOK, InUse
<1>3. CASE a < n
  <2>1. a % n = a
    BY <1>2, <1>3, SMT
  <2> QED BY <1>1, <1>2, <1>3, <2>1 DEF InUse, Ring
<1>4. CASE a >= n
  <2>1. a % n = a - n
    BY <1>2, <1>4, SMT
  <2> QED BY <1>1, <1>2, <1>4, <2>1 DEF InUse, Ring
<1> QED BY <1>2, <1>3, <1>4

\* Both kinds of client: where the second is, head never moves.
ClientInv == IInv /\ (~ Careful => head = 0)

LEMMA ClientStep ==
  ASSUME Careful \/ AtTheBack, ClientInv, [Next]_vars
  PROVE  ClientInv' /\ [Abstract!ANext]_(Abstract!avars)
<1> USE DEF ClientInv, Abstract!avars
<1>1. CASE UNCHANGED vars
  BY <1>1, Stutter DEF vars
<1>2. CASE Next /\ Careful
  BY <1>2, NextStep
<1>3. CASE Next /\ ~ Careful
  BY <1>3, BackStep
<1> QED BY <1>1, <1>2, <1>3

\* A client that does not push at the front of an empty deque and does not
\* call reserve, or one that keeps to the back and reserves more than one slot,
\* never takes the deque outside its buffer, and leaves a slot free between end
\* and head.
THEOREM StaysInside == Careful \/ AtTheBack => (Spec => []RingInv)
<1> SUFFICES ASSUME Careful \/ AtTheBack PROVE Spec => []RingInv
  OBVIOUS
<1>1. Init => ClientInv
  BY IInvInit DEF Init, ClientInv
<1>2. ClientInv /\ [Next]_vars => ClientInv'
  BY ClientStep
<1>3. ClientInv => RingInv
  BY RingIsSlots DEF ClientInv, IInv, RingInv, WithinBuffer
<1> QED BY <1>1, <1>2, <1>3, PTL DEF Spec

\* For such clients the ring buffer is a deque: it implements AbstractDeque.
THEOREM IsADeque == Careful \/ AtTheBack => (Spec => ImplementsDeque)
<1> SUFFICES ASSUME Careful \/ AtTheBack PROVE Spec => ImplementsDeque
  OBVIOUS
<1>1. Init => Abstract!AInit
  <2>1. Init => IInv /\ dsize = 0 /\ answer = Nothing
    BY IInvInit DEF Init
  <2>2. IInv /\ dsize = 0 => Contents = <<>>
    BY ContentsSlots DEF Laid
  <2> QED BY <2>1, <2>2 DEF Abstract!AInit
<1>2. Init => ClientInv
  BY IInvInit DEF Init, ClientInv
<1>3. ClientInv /\ [Next]_vars => ClientInv'
  BY ClientStep
<1>4. ClientInv /\ [Next]_vars => [Abstract!ANext]_(Abstract!avars)
  BY ClientStep
<1> QED
  BY <1>1, <1>2, <1>3, <1>4, PTL DEF Spec, ImplementsDeque, Abstract!ASpec

-------------------------------------------------------------------------------
(***************************************************************************)
(* The brackets: check_brackets on top of the deque, for any elements,     *)
(* input and bound on its length.                                          *)
(***************************************************************************)

\* Every set of naturals that is not empty has a least one.
LEMMA LeastNatural ==
  ASSUME NEW M \in SUBSET Nat, M # {}
  PROVE  \E m \in M : \A k \in M : m <= k
<1>. DEFINE T == {0..m : m \in M}
            R == StrictSubsetOrdering(Nat)
<1>1. IsWellFoundedOn(R, FiniteSubsetsOf(Nat))
  BY FS_StrictSubsetOrderingWellFounded
<1>2. T \subseteq FiniteSubsetsOf(Nat)
  <2>1. \A m \in M : IsFiniteSet(0..m) /\ 0..m \in SUBSET Nat
    BY FS_Interval
  <2>. QED
    BY <2>1 DEF FiniteSubsetsOf
<1>3. T # {}
  OBVIOUS
<1>. HIDE DEF R
<1>4. PICK X \in T : \A Y \in T : <<Y, X>> \notin R
  <2>. HIDE DEF T
  <2>. QED
    BY <1>1, <1>2, <1>3, WFMin
<1>5. PICK m \in M : X = 0..m
  BY <1>4
<1>6. ASSUME NEW k \in M, k < m PROVE FALSE
  <2>1. 0..k \in T /\ 0..k \in SUBSET Nat /\ 0..m \in SUBSET Nat
    BY <1>6
  <2>2. 0..k \subseteq 0..m /\ 0..k # 0..m
    <3>1. m \in 0..m /\ m \notin 0..k
      BY <1>6
    <3>2. 0..k \subseteq 0..m
      BY <1>6
    <3>. QED
      BY <3>1, <3>2
  <2>3. <<0..k, 0..m>> \in R
    BY <2>1, <2>2 DEF R, StrictSubsetOrdering
  <2>. QED
    BY <1>4, <1>5, <2>1, <2>3
<1>. QED
  BY <1>5, <1>6

-------------------------------------------------------------------------------
(***************************************************************************)
(* The brackets and their grammar.                                         *)
(***************************************************************************)

Brks == Opening \cup Closing

LEMMA BracketsMatch ==
  /\ Opening \subseteq Elements
  /\ \A b \in Opening : brackets[b] \in Closing /\ b \notin Closing
  /\ \A c \in Closing : opening[c] \in Opening /\ brackets[opening[c]] = c /\ c \notin Opening
  /\ \A b \in Opening, c \in Closing : is_appropriate_brackets(b, c) <=> brackets[b] = c
<1>1. Opening \subseteq Elements /\ Opening \subseteq {"(", "[", "{"}
  BY DEF Opening
<1>2. /\ "(" \in Opening => brackets["("] = ")"
      /\ "[" \in Opening => brackets["["] = "]"
      /\ "{" \in Opening => brackets["{"] = "}"
  BY DEF brackets
<1>3. Closing \subseteq {")", "]", "}"}
  BY <1>1, <1>2 DEF Closing
<1>4. /\ Code["("] = 40 /\ Code["["] = 91 /\ Code["{"] = 123
      /\ Code[")"] = 41 /\ Code["]"] = 93 /\ Code["}"] = 125
  BY DEF Code
<1>. DEFINE Names(o1, o2, o3, c1, c2, c3) ==
       /\ \A b \in Opening : b = o1 \/ b = o2 \/ b = o3
       /\ \A c \in Closing : c = c1 \/ c = c2 \/ c = c3
       /\ o1 \in Opening => brackets[o1] = c1
       /\ o2 \in Opening => brackets[o2] = c2
       /\ o3 \in Opening => brackets[o3] = c3
       /\ Code[o1] = 40 /\ Code[o2] = 91 /\ Code[o3] = 123
       /\ Code[c1] = 41 /\ Code[c2] = 93 /\ Code[c3] = 125
<1>5. PICK o1, o2, o3, c1, c2, c3 : Names(o1, o2, o3, c1, c2, c3)
  <2>1. Names("(", "[", "{", ")", "]", "}")
    BY <1>1, <1>2, <1>3, <1>4, Zenon
  <2>. HIDE DEF Names
  <2>. QED
    BY <2>1, Zenon
<1>6. \A b \in Opening : brackets[b] \in Closing /\ b \notin Closing
  BY <1>5 DEF Closing
<1>7. ASSUME NEW c \in Closing
      PROVE  opening[c] \in Opening /\ brackets[opening[c]] = c /\ c \notin Opening
  <2>1. \E b \in Opening : brackets[b] = c
    BY DEF Closing
  <2>2. opening[c] = CHOOSE b \in Opening : brackets[b] = c
    BY DEF opening
  <2>. QED
    BY <1>6, <2>1, <2>2
<1>8. ASSUME NEW b \in Opening, NEW c \in Closing
      PROVE  is_appropriate_brackets(b, c) <=> brackets[b] = c
  <2>1. is_appropriate_brackets(b, c) <=> Code[c] - Code[b] = 1 \/ Code[c] - Code[b] = 2
    BY DEF is_appropriate_brackets
  <2>. QED
    BY <1>5, <2>1
<1>. QED
  BY <1>1, <1>6, <1>7, <1>8

\* ( x ) y, and the words of n pairs made of those of fewer.
Pair(b, x, y) == <<b>> \o x \o <<brackets[b]>> \o y
Grown(g, n) ==
  UNION {{Pair(b, x, y) : b \in Opening, x \in g[k], y \in g[n - 1 - k]} : k \in 0..(n - 1)}
Grammar(g, n) == IF n = 0 THEN {<<>>} ELSE Grown(g, n)

\* w is a pair of a word of k pairs and one of the rest.
PairOf(g, n, w, k) ==
  \E b \in Opening, x \in g[k], y \in g[n - 1 - k] : w = Pair(b, x, y)

LEMMA GrownIs ==
  ASSUME NEW g, NEW n, NEW w
  PROVE  w \in Grown(g, n) <=> \E k \in 0..(n - 1) : PairOf(g, n, w, k)
BY DEF Grown, PairOf

\* The words of n pairs depend on those of fewer.
Below(g, h, n) == \A k \in 0..(n - 1) : g[k] = h[k]

LEMMA GrammarFromBelow ==
  ASSUME NEW g, NEW h, NEW n \in Nat, Below(g, h, n)
  PROVE  Grammar(g, n) = Grammar(h, n)
<1>1. CASE n = 0
  BY <1>1 DEF Grammar
<1>2. CASE n # 0
  <2>1. ASSUME NEW k \in 0..(n - 1) PROVE g[k] = h[k] /\ g[n - 1 - k] = h[n - 1 - k]
    <3>1. n - 1 - k \in 0..(n - 1)
      BY <1>2
    <3>. QED
      BY <3>1 DEF Below
  <2>2. Grown(g, n) = Grown(h, n)
    BY <2>1 DEF Grown
  <2>. QED
    BY <1>2, <2>2 DEF Grammar
<1>. QED
  BY <1>1, <1>2

\* Every word has a length of its own: the functions on 0..MaxLength that solve
\* the grammar's equation are built from the shorter words on.
LEMMA GrammarSolved ==
  \E g : g = [n \in 0..MaxLength |-> Grammar(g, n)]
<1>. DEFINE U == SUBSET Seq(Brks)
            Fun == [0..MaxLength -> U]
            M == {m \in Nat : m <= MaxLength /\ ~ \E g \in Fun : \A n \in 0..m : g[n] = Grammar(g, n)}
<1>0. MaxLength \in Nat
  BY BracketsAssumption
<1>1. ASSUME NEW g \in Fun, NEW n \in 0..MaxLength
      PROVE  Grammar(g, n) \in U
  <2>1. CASE n = 0
    BY <2>1 DEF Grammar
  <2>2. CASE n # 0
    <3>1. ASSUME NEW w \in Grown(g, n) PROVE w \in Seq(Brks)
      <4>1. PICK k \in 0..(n - 1) : PairOf(g, n, w, k)
        BY <3>1, GrownIs
      <4>2. k \in 0..MaxLength /\ n - 1 - k \in 0..MaxLength
        BY <1>0, <2>2
      <4>3. PICK b \in Opening, x \in Seq(Brks), y \in Seq(Brks) : w = Pair(b, x, y)
        BY <4>1, <4>2 DEF PairOf
      <4>4. b \in Brks /\ brackets[b] \in Brks
        BY BracketsMatch DEF Brks
      <4>. QED
        BY <4>3, <4>4 DEF Pair
    <3>. QED
      BY <2>2, <3>1 DEF Grammar
  <2>. QED
    BY <2>1, <2>2
<1>. HIDE DEF U
<1>2. M = {}
  <2>. SUFFICES ASSUME M # {} PROVE FALSE
    OBVIOUS
  <2>1. PICK m \in M : \A k \in M : m <= k
    <3>1. M \in SUBSET Nat
      OBVIOUS
    <3>. HIDE DEF M
    <3>. QED
      BY <3>1, LeastNatural
  <2>2. m \in Nat /\ m <= MaxLength /\ ~ \E g \in Fun : \A n \in 0..m : g[n] = Grammar(g, n)
    BY <2>1
  <2>3. \E g \in Fun : \A n \in 0..(m - 1) : g[n] = Grammar(g, n)
    <3>1. CASE m = 0
      <4>. DEFINE c == [n \in 0..MaxLength |-> {}]
      <4>1. c \in Fun /\ \A n \in 0..(m - 1) : FALSE
        BY <3>1 DEF U
      <4>. HIDE DEF c
      <4>. QED
        BY <4>1
    <3>2. CASE m # 0
      <4>1. m - 1 \in Nat /\ m - 1 <= MaxLength /\ m - 1 < m
        BY <1>0, <2>2, <3>2
      <4>2. m - 1 \notin M
        <5>. HIDE DEF M
        <5>. QED
          BY <2>1, <2>2, <4>1
      <4>. QED
        BY <4>1, <4>2
    <3>. QED
      BY <3>1, <3>2
  <2>4. PICK g \in Fun : \A n \in 0..(m - 1) : g[n] = Grammar(g, n)
    BY <2>3
  <2>. DEFINE h == [g EXCEPT ![m] = Grammar(g, m)]
  <2>5. m \in 0..MaxLength
    BY <1>0, <2>2
  <2>6. h \in Fun /\ h[m] = Grammar(g, m) /\ \A n \in 0..MaxLength : n # m => h[n] = g[n]
    BY <1>1, <2>4, <2>5
  <2>. HIDE DEF h
  <2>7. ASSUME NEW n \in 0..m PROVE h[n] = Grammar(h, n)
    <3>1. n \in Nat /\ Below(g, h, n)
      BY <1>0, <2>2, <2>6 DEF Below
    <3>2. Grammar(g, n) = Grammar(h, n)
      BY <3>1, GrammarFromBelow
    <3>3. CASE n = m
      BY <2>6, <3>2, <3>3
    <3>4. CASE n # m
      <4>1. n \in 0..(m - 1) /\ n \in 0..MaxLength
        BY <1>0, <2>2, <3>4
      <4>. QED
        BY <2>4, <2>6, <3>2, <3>4, <4>1
    <3>. QED
      BY <3>3, <3>4
  <2>. QED
    BY <2>2, <2>6, <2>7
<1>3. PICK g \in Fun : \A n \in 0..MaxLength : g[n] = Grammar(g, n)
  <2>1. MaxLength \notin M
    BY <1>2
  <2>. QED
    BY <1>0, <2>1
<1>4. g = [n \in 0..MaxLength |-> Grammar(g, n)]
  BY <1>3
<1>. QED
  BY <1>4

LEMMA BalancedIs == \A n \in 0..MaxLength : Balanced[n] = Grammar(Balanced, n)
<1>. DEFINE Eq(g) == g = [n \in 0..MaxLength |-> Grammar(g, n)]
<1>1. Balanced = CHOOSE g : Eq(g)
  BY DEF Balanced, Grammar, Grown, Pair
<1>2. \E g : Eq(g)
  BY GrammarSolved
<1>3. Eq(Balanced)
  <2>. HIDE DEF Eq
  <2>. QED
    BY <1>1, <1>2
<1>. QED
  BY <1>3

LEMMA BalancedParts ==
  ASSUME NEW n \in 0..MaxLength, NEW w
  PROVE  w \in Balanced[n] <=>
           \/ n = 0 /\ w = <<>>
           \/ \E k \in 0..(n - 1) : PairOf(Balanced, n, w, k)
<1>0. n \in Nat
  BY BracketsAssumption
<1>1. Balanced[n] = Grammar(Balanced, n)
  BY BalancedIs
<1>2. CASE n = 0
  <2>1. ~ \E k \in 0..(n - 1) : TRUE
    BY <1>2
  <2>. QED
    BY <1>1, <1>2, <2>1 DEF Grammar
<1>3. CASE n # 0
  BY <1>1, <1>3, GrownIs DEF Grammar
<1>. QED
  BY <1>2, <1>3

LEMMA SameSequence ==
  ASSUME NEW S, NEW s \in Seq(S), NEW t \in Seq(S), Len(s) = Len(t),
         \A i \in 1..Len(s) : s[i] = t[i]
  PROVE  s = t
OBVIOUS

\* A pair, bracket by bracket.
IsPair(w, b, x, y) ==
  /\ w \in Seq(Brks) /\ Len(w) = Len(x) + Len(y) + 2
  /\ \A i \in 1..(Len(x) + Len(y) + 2) :
       w[i] = IF i = 1 THEN b
              ELSE IF i <= Len(x) + 1 THEN x[i - 1]
              ELSE IF i = Len(x) + 2 THEN brackets[b]
              ELSE y[i - Len(x) - 2]

LEMMA PairAt ==
  ASSUME NEW b \in Opening, NEW x \in Seq(Brks), NEW y \in Seq(Brks)
  PROVE  /\ IsPair(Pair(b, x, y), b, x, y)
         /\ Pair(b, x, y) \in Seq(Brks) /\ Len(Pair(b, x, y)) = Len(x) + Len(y) + 2
<1>1. b \in Brks /\ brackets[b] \in Brks
  BY BracketsMatch DEF Brks
<1>2. PICK c : c = brackets[b]
  OBVIOUS
<1>3. PICK u : u = <<b>> \o x
  OBVIOUS
<1>4. u \in Seq(Brks) /\ Len(u) = Len(x) + 1 /\ \A i \in 1..Len(u) : u[i] = IF i = 1 THEN b ELSE x[i - 1]
  BY <1>1, <1>3
<1>5. PICK v : v = u \o <<c>>
  OBVIOUS
<1>6. /\ v \in Seq(Brks) /\ Len(v) = Len(u) + 1
      /\ \A i \in 1..Len(v) : v[i] = IF i <= Len(u) THEN u[i] ELSE c
  BY <1>1, <1>2, <1>4, <1>5
<1>7. PICK w : w = v \o y
  OBVIOUS
<1>8. /\ w \in Seq(Brks) /\ Len(w) = Len(v) + Len(y)
      /\ \A i \in 1..Len(w) : w[i] = IF i <= Len(v) THEN v[i] ELSE y[i - Len(v)]
  <2>0. v \in Seq(Brks)
    BY <1>6
  <2>1. w \in Seq(Brks) /\ Len(w) = Len(v) + Len(y)
    BY <1>7, <2>0
  <2>2. ASSUME NEW i \in 1..Len(w) PROVE w[i] = IF i <= Len(v) THEN v[i] ELSE y[i - Len(v)]
    BY <1>7, <2>0, <2>1
  <2>. QED
    BY <2>1, <2>2
<1>9. Pair(b, x, y) = w
  BY <1>2, <1>3, <1>5, <1>7 DEF Pair
<1>10. Len(x) \in Nat /\ Len(y) \in Nat
  OBVIOUS
<1>11. ASSUME NEW i \in 1..(Len(x) + Len(y) + 2)
       PROVE  w[i] = IF i = 1 THEN b ELSE IF i <= Len(x) + 1 THEN x[i - 1]
                     ELSE IF i = Len(x) + 2 THEN c ELSE y[i - Len(x) - 2]
  <2>1. i \in 1..Len(w) /\ Len(v) = Len(x) + 2 /\ i \in Nat
    BY <1>4, <1>6, <1>8, <1>10
  <2>2. w[i] = IF i <= Len(x) + 2 THEN v[i] ELSE y[i - (Len(x) + 2)]
    BY <1>8, <2>1
  <2>3. i <= Len(x) + 2 => v[i] = IF i <= Len(x) + 1 THEN u[i] ELSE c
    BY <1>4, <1>6, <1>10, <2>1
  <2>4. i <= Len(x) + 1 => u[i] = IF i = 1 THEN b ELSE x[i - 1]
    BY <1>4, <1>10, <2>1
  <2>5. i - (Len(x) + 2) = i - Len(x) - 2
    BY <1>10, <2>1
  <2>. QED
    BY <1>10, <2>1, <2>2, <2>3, <2>4, <2>5
<1>. QED
  BY <1>2, <1>4, <1>6, <1>8, <1>9, <1>10, <1>11 DEF IsPair

\* A word of n pairs has 2 n brackets.
LEMMA BalancedWord ==
  ASSUME NEW n \in 0..MaxLength, NEW w \in Balanced[n]
  PROVE  w \in Seq(Brks) /\ Len(w) = 2 * n
<1>. DEFINE Word(v, m) == v \in Seq(Brks) /\ Len(v) = 2 * m
            M == {m \in 0..MaxLength : \E v \in Balanced[m] : ~ Word(v, m)}
<1>0. MaxLength \in Nat
  BY BracketsAssumption
<1>1. M = {}
  <2>. SUFFICES ASSUME M # {} PROVE FALSE
    OBVIOUS
  <2>1. PICK m \in M : \A k \in M : m <= k
    <3>1. M \in SUBSET Nat
      BY <1>0
    <3>. HIDE DEF M
    <3>. QED
      BY <3>1, LeastNatural
  <2>2. m \in 0..MaxLength /\ m \in Nat
    BY <1>0
  <2>3. PICK v \in Balanced[m] : ~ Word(v, m)
    OBVIOUS
  <2>4. ASSUME NEW k \in Nat, k < m, NEW u \in Balanced[k] PROVE Word(u, k)
    <3>1. k \in 0..MaxLength /\ k \notin M
      <4>. HIDE DEF M
      <4>. QED
        BY <1>0, <2>1, <2>2, <2>4
    <3>. HIDE DEF Word
    <3>. QED
      BY <2>4, <3>1
  <2>5. CASE v = <<>> /\ m = 0
    BY <2>3, <2>5
  <2>6. CASE \E k \in 0..(m - 1) : PairOf(Balanced, m, v, k)
    <3>1. PICK k \in 0..(m - 1) : PairOf(Balanced, m, v, k)
      BY <2>6
    <3>2. PICK b \in Opening, x \in Balanced[k], y \in Balanced[m - 1 - k] : v = Pair(b, x, y)
      BY <3>1 DEF PairOf
    <3>3. k \in Nat /\ k < m /\ m - 1 - k \in Nat /\ m - 1 - k < m
      BY <2>2
    <3>4. Word(x, k) /\ Word(y, m - 1 - k)
      <4>. HIDE DEF Word
      <4>. QED
        BY <2>4, <3>3
    <3>5. v \in Seq(Brks) /\ Len(v) = Len(x) + Len(y) + 2
      <4>1. x \in Seq(Brks) /\ y \in Seq(Brks)
        BY <3>4
      <4>2. IsPair(v, b, x, y)
        BY <3>2, <4>1, PairAt
      <4>. QED
        BY <4>2 DEF IsPair
    <3>. QED
      BY <2>2, <2>3, <3>3, <3>4, <3>5
  <2>. QED
    BY <2>2, <2>5, <2>6, BalancedParts
<1>2. n \notin M
  BY <1>1
<1>. QED
  BY <1>2

\* A pair put behind the first i brackets of a word.
Inserted(w, i, b) ==
  [j \in 1..(Len(w) + 2) |->
     IF j <= i THEN w[j] ELSE IF j = i + 1 THEN b
     ELSE IF j = i + 2 THEN brackets[b] ELSE w[j - 2]]

IsInserted(v, w, i, b) ==
  /\ v \in Seq(Brks) /\ Len(v) = Len(w) + 2
  /\ \A j \in 1..(Len(w) + 2) :
       v[j] = IF j <= i THEN w[j] ELSE IF j = i + 1 THEN b
              ELSE IF j = i + 2 THEN brackets[b] ELSE w[j - 2]

LEMMA InsertedAt ==
  ASSUME NEW w \in Seq(Brks), NEW i \in 0..Len(w), NEW b \in Opening
  PROVE  /\ IsInserted(Inserted(w, i, b), w, i, b)
         /\ Inserted(w, i, b) \in Seq(Brks) /\ Len(Inserted(w, i, b)) = Len(w) + 2
<1>1. b \in Brks /\ brackets[b] \in Brks
  BY BracketsMatch DEF Brks
<1>2. Len(w) \in Nat /\ \A j \in 1..Len(w) : w[j] \in Brks
  OBVIOUS
<1>3. \A j \in 1..(Len(w) + 2) :
        (IF j <= i THEN w[j] ELSE IF j = i + 1 THEN b
         ELSE IF j = i + 2 THEN brackets[b] ELSE w[j - 2]) \in Brks
  BY <1>1, <1>2
<1>4. Inserted(w, i, b) \in [1..(Len(w) + 2) -> Brks]
  BY <1>3 DEF Inserted
<1>5. Inserted(w, i, b) \in Seq(Brks) /\ Len(Inserted(w, i, b)) = Len(w) + 2
  BY <1>2, <1>4
<1>. QED
  BY <1>5 DEF Inserted, IsInserted

\* Where the pair goes: in front of ( x ) y, into x, or into y.
LEMMA InsertFront ==
  ASSUME NEW w \in Seq(Brks), NEW b \in Opening
  PROVE  Inserted(w, 0, b) = Pair(b, <<>>, w)
<1>1. PICK x : x = <<>>
  OBVIOUS
<1>2. x \in Seq(Brks) /\ Len(x) = 0 /\ Len(w) \in Nat /\ 0 \in 0..Len(w)
  BY <1>1
<1>3. PICK s, t : s = Inserted(w, 0, b) /\ t = Pair(b, x, w)
  OBVIOUS
<1>4. IsInserted(s, w, 0, b) /\ IsPair(t, b, x, w)
  BY <1>2, <1>3, InsertedAt, PairAt
<1>5. Len(s) = Len(w) + 2 /\ Len(t) = Len(w) + 2 /\ s \in Seq(Brks) /\ t \in Seq(Brks)
  BY <1>2, <1>4 DEF IsInserted, IsPair
<1>6. ASSUME NEW j \in 1..(Len(w) + 2) PROVE s[j] = t[j]
  <2>1. j \in Nat /\ j >= 1 /\ j \in 1..(Len(x) + Len(w) + 2)
    BY <1>2
  <2>2. s[j] = IF j = 1 THEN b ELSE IF j = 2 THEN brackets[b] ELSE w[j - 2]
    BY <1>4, <2>1 DEF IsInserted
  <2>3. t[j] = IF j = 1 THEN b ELSE IF j = 2 THEN brackets[b] ELSE w[j - 2]
    BY <1>2, <1>4, <2>1 DEF IsPair
  <2>. QED
    BY <2>2, <2>3
<1>7. s = t
  BY <1>5, <1>6, SameSequence
<1>. QED
  BY <1>1, <1>3, <1>7

LEMMA InsertFirst ==
  ASSUME NEW x \in Seq(Brks), NEW y \in Seq(Brks), NEW o \in Opening, NEW b \in Opening,
         NEW i \in Nat, i >= 1, i <= Len(x) + 1
  PROVE  Inserted(Pair(o, x, y), i, b) = Pair(o, Inserted(x, i - 1, b), y)
<1>0. Len(x) \in Nat /\ Len(y) \in Nat
  OBVIOUS
<1>1. PICK w : w = Pair(o, x, y)
  OBVIOUS
<1>2. w \in Seq(Brks) /\ Len(w) = Len(x) + Len(y) + 2 /\ IsPair(w, o, x, y)
  BY <1>1, PairAt
<1>3. PICK s : s = Inserted(w, i, b)
  OBVIOUS
<1>4. /\ s \in Seq(Brks) /\ Len(s) = Len(w) + 2
      /\ IsInserted(s, w, i, b)
  <2>1. i \in 0..Len(w)
    BY <1>0, <1>2
  <2>. QED
    BY <1>2, <1>3, <2>1, InsertedAt
<1>5. PICK z : z = Inserted(x, i - 1, b)
  OBVIOUS
<1>6. /\ z \in Seq(Brks) /\ Len(z) = Len(x) + 2
      /\ IsInserted(z, x, i - 1, b)
  <2>1. i - 1 \in 0..Len(x)
    BY <1>0
  <2>. QED
    BY <1>5, <2>1, InsertedAt
<1>7. PICK t : t = Pair(o, z, y)
  OBVIOUS
<1>8. /\ t \in Seq(Brks) /\ Len(t) = Len(z) + Len(y) + 2
      /\ IsPair(t, o, z, y)
  BY <1>6, <1>7, PairAt
<1>9. ASSUME NEW j \in 1..(Len(x) + Len(y) + 4) PROVE s[j] = t[j]
  <2>0. j \in Nat /\ j >= 1 /\ j \in 1..(Len(w) + 2) /\ j \in 1..(Len(z) + Len(y) + 2)
    BY <1>0, <1>2, <1>6 DEF IsPair, IsInserted
  <2>1. CASE j = 1
    BY <1>0, <1>2, <1>4, <1>8, <2>0, <2>1 DEF IsPair, IsInserted
  <2>2. CASE 1 < j /\ j <= i
    <3>1. s[j] = w[j] /\ w[j] = x[j - 1]
      BY <1>0, <1>2, <1>4, <2>0, <2>2 DEF IsPair, IsInserted
    <3>2. t[j] = z[j - 1] /\ z[j - 1] = x[j - 1]
      BY <1>0, <1>6, <1>8, <2>0, <2>2 DEF IsPair, IsInserted
    <3>. QED
      BY <3>1, <3>2
  <2>3. CASE j = i + 1 \/ j = i + 2
    <3>1. s[j] = IF j = i + 1 THEN b ELSE brackets[b]
      BY <1>0, <1>4, <2>0, <2>3 DEF IsInserted
    <3>2. t[j] = z[j - 1] /\ z[j - 1] = IF j = i + 1 THEN b ELSE brackets[b]
      BY <1>0, <1>6, <1>8, <2>0, <2>3 DEF IsPair, IsInserted
    <3>. QED
      BY <3>1, <3>2
  <2>4. CASE i + 2 < j
    <3>1. s[j] = w[j - 2]
      BY <1>0, <1>4, <2>0, <2>4, SMTT(20) DEF IsInserted
    <3>2. j - 2 \in 1..(Len(x) + Len(y) + 2) /\ j - 2 # 1
      BY <1>0, <2>0, <2>4
    <3>3. CASE j - 2 <= Len(x) + 1
      <4>1. w[j - 2] = x[j - 2 - 1]
        BY <1>0, <1>2, <3>2, <3>3 DEF IsPair
      <4>2. t[j] = z[j - 1] /\ z[j - 1] = x[j - 1 - 2]
        BY <1>0, <1>6, <1>8, <2>0, <2>4, <3>3 DEF IsPair, IsInserted
      <4>3. j - 2 - 1 = j - 1 - 2
        BY <2>0
      <4>. QED
        BY <3>1, <4>1, <4>2, <4>3
    <3>4. CASE j - 2 = Len(x) + 2
      <4>1. w[j - 2] = brackets[o]
        BY <1>0, <1>2, <3>2, <3>4, SMTT(20) DEF IsPair
      <4>2. t[j] = brackets[o]
        BY <1>0, <1>6, <1>8, <2>0, <3>4 DEF IsPair, IsInserted
      <4>. QED
        BY <3>1, <4>1, <4>2
    <3>5. CASE j - 2 > Len(x) + 2
      <4>1. w[j - 2] = y[j - 2 - Len(x) - 2]
        BY <1>0, <1>2, <3>2, <3>5, SMTT(20) DEF IsPair
      <4>2. t[j] = y[j - (Len(x) + 2) - 2]
        BY <1>0, <1>6, <1>8, <2>0, <3>5 DEF IsPair, IsInserted
      <4>3. j - 2 - Len(x) - 2 = j - (Len(x) + 2) - 2
        BY <1>0, <2>0
      <4>. QED
        BY <3>1, <4>1, <4>2, <4>3
    <3>. QED
      BY <1>0, <2>0, <3>3, <3>4, <3>5
  <2>. QED
    BY <2>0, <2>1, <2>2, <2>3, <2>4
<1>10. Len(s) = Len(x) + Len(y) + 4 /\ Len(t) = Len(x) + Len(y) + 4
  BY <1>0, <1>2, <1>4, <1>6, <1>8
<1>11. s = t
  BY <1>4, <1>8, <1>9, <1>10, SameSequence
<1>. QED
  BY <1>1, <1>3, <1>5, <1>7, <1>11

LEMMA InsertSecond ==
  ASSUME NEW x \in Seq(Brks), NEW y \in Seq(Brks), NEW o \in Opening, NEW b \in Opening,
         NEW i \in Nat, i <= Len(y), NEW p \in Nat
  PROVE  p = Len(x) + 2 + i =>
           Inserted(Pair(o, x, y), p, b) = Pair(o, x, Inserted(y, i, b))
<1>12. SUFFICES ASSUME p = Len(x) + 2 + i
                PROVE  Inserted(Pair(o, x, y), p, b) = Pair(o, x, Inserted(y, i, b))
  OBVIOUS
<1>0. Len(x) \in Nat /\ Len(y) \in Nat /\ i \in Nat /\ i <= Len(y) /\ p \in Nat
  OBVIOUS
<1>1. PICK w : w = Pair(o, x, y)
  OBVIOUS
<1>2. w \in Seq(Brks) /\ Len(w) = Len(x) + Len(y) + 2 /\ IsPair(w, o, x, y)
  BY <1>1, PairAt
<1>3. PICK s : s = Inserted(w, p, b)
  OBVIOUS
<1>4. /\ s \in Seq(Brks) /\ Len(s) = Len(w) + 2
      /\ IsInserted(s, w, p, b)
  <2>1. p \in 0..Len(w)
    BY <1>0, <1>2, <1>12
  <2>. QED
    BY <1>2, <1>3, <2>1, InsertedAt
<1>5. PICK z : z = Inserted(y, i, b)
  OBVIOUS
<1>6. /\ z \in Seq(Brks) /\ Len(z) = Len(y) + 2
      /\ IsInserted(z, y, i, b)
  <2>1. i \in 0..Len(y)
    BY <1>0
  <2>. QED
    BY <1>5, <2>1, InsertedAt
<1>7. PICK t : t = Pair(o, x, z)
  OBVIOUS
<1>8. /\ t \in Seq(Brks) /\ Len(t) = Len(x) + Len(z) + 2
      /\ IsPair(t, o, x, z)
  BY <1>6, <1>7, PairAt
<1>9. ASSUME NEW j \in 1..(Len(x) + Len(y) + 4) PROVE s[j] = t[j]
  <2>1. j \in 1..(Len(w) + 2) /\ j \in 1..(Len(x) + Len(z) + 2) /\ j \in Nat
    BY <1>0, <1>2, <1>6
  <2>2. j = 1 \/ (j # 1 /\ j <= Len(x) + 1) \/ j = Len(x) + 2 \/ j > Len(x) + 2
    BY <1>0, <2>1
  <2>3. CASE j <= Len(x) + 2
    <3>1. j <= p /\ j \in 1..(Len(x) + Len(y) + 2)
      BY <1>0, <1>12, <2>1, <2>3
    <3>2. s[j] = w[j]
      BY <1>0, <1>2, <1>4, <2>1, <3>1 DEF IsInserted
    <3>3. /\ j = 1 => w[j] = o /\ t[j] = o
          /\ j # 1 /\ j <= Len(x) + 1 => w[j] = x[j - 1] /\ t[j] = x[j - 1]
          /\ j = Len(x) + 2 => w[j] = brackets[o] /\ t[j] = brackets[o]
      BY <1>0, <1>2, <1>6, <1>8, <2>1, <3>1 DEF IsPair
    <3>4. ~ j > Len(x) + 2
      BY <1>0, <2>1, <2>3
    <3>. QED
      BY <2>2, <3>2, <3>3, <3>4
  <2>4. CASE j > Len(x) + 2
    <3>1. PICK q \in Nat : q = j - Len(x) - 2
      <4>1. j - Len(x) - 2 \in Nat
        BY <1>0, <2>1, <2>4
      <4>. QED
        BY <4>1
    <3>2. t[j] = z[q]
      BY <1>0, <1>6, <1>8, <2>1, <2>4, <3>1 DEF IsPair
    <3>3. q \in 1..(Len(y) + 2)
      BY <1>0, <2>1, <2>4, <3>1
    <3>4. /\ j <= p \/ j = p + 1 \/ j = p + 2 \/ j > p + 2
          /\ j <= p => q <= i /\ j \in 1..(Len(x) + Len(y) + 2)
          /\ j = p + 1 => q = i + 1
          /\ j = p + 2 => q = i + 2
          /\ j > p + 2 => /\ q > i + 2 /\ q - 2 = j - 2 - Len(x) - 2 /\ j - 2 > Len(x) + 2
                          /\ j - 2 \in 1..(Len(x) + Len(y) + 2)
      <4>1. PICK l \in Nat, n \in Nat : l = Len(x) /\ n = Len(y)
        BY <1>0
      <4>2. j \in Nat /\ j <= l + n + 4 /\ j > l + 2 /\ q = j - l - 2 /\ p = l + 2 + i
        BY <1>0, <1>12, <2>1, <2>4, <3>1, <4>1
      <4>3. j <= p \/ j = p + 1 \/ j = p + 2 \/ j > p + 2
        BY <4>2
      <4>4. j <= p => q <= i /\ j <= l + n + 2 /\ j >= 1
        BY <1>0, <4>1, <4>2
      <4>5. (j = p + 1 => q = i + 1) /\ (j = p + 2 => q = i + 2)
        BY <4>2
      <4>6. j > p + 2 => q > i + 2 /\ q - 2 = j - 2 - l - 2 /\ j - 2 > l + 2
        BY <4>2
      <4>7. j - 2 >= 1 /\ j - 2 <= l + n + 2 /\ j - 2 \in Int
        BY <4>1, <4>2
      <4>. QED
        BY <4>1, <4>2, <4>3, <4>4, <4>5, <4>6, <4>7
    <3>5. /\ j <= p => s[j] = w[j]
          /\ j = p + 1 => s[j] = b
          /\ j = p + 2 => s[j] = brackets[b]
          /\ j > p + 2 => s[j] = w[j - 2]
      BY <1>0, <1>2, <1>4, <2>1 DEF IsInserted
    <3>6. /\ q <= i => z[q] = y[q]
          /\ q = i + 1 => z[q] = b
          /\ q = i + 2 => z[q] = brackets[b]
          /\ q > i + 2 => z[q] = y[q - 2]
      BY <1>0, <1>6, <3>3 DEF IsInserted
    <3>7. j <= p => w[j] = y[q]
      BY <1>0, <1>2, <2>1, <2>4, <3>1, <3>4 DEF IsPair
    <3>8. j > p + 2 => w[j - 2] = y[q - 2]
      <4>. SUFFICES ASSUME j > p + 2 PROVE w[j - 2] = y[q - 2]
        OBVIOUS
      <4>1. PICK r : r = j - 2
        OBVIOUS
      <4>2. r \in 1..(Len(x) + Len(y) + 2) /\ r > Len(x) + 2 /\ r - Len(x) - 2 = q - 2
        BY <3>4, <4>1
      <4>3. w[r] = y[r - Len(x) - 2]
        BY <1>0, <1>2, <4>2, SMTT(20) DEF IsPair
      <4>. QED
        BY <4>1, <4>2, <4>3
    <3>9. CASE j <= p
      BY <3>2, <3>4, <3>5, <3>6, <3>7, <3>9
    <3>10. CASE j = p + 1
      BY <3>2, <3>4, <3>5, <3>6, <3>10
    <3>11. CASE j = p + 2
      BY <3>2, <3>4, <3>5, <3>6, <3>11
    <3>12. CASE j > p + 2
      BY <3>2, <3>4, <3>5, <3>6, <3>8, <3>12
    <3>. QED
      BY <3>4, <3>9, <3>10, <3>11, <3>12
  <2>. QED
    BY <1>0, <2>1, <2>3, <2>4
<1>10. Len(s) = Len(x) + Len(y) + 4 /\ Len(t) = Len(x) + Len(y) + 4
  BY <1>0, <1>2, <1>4, <1>6, <1>8
<1>11. s = t
  BY <1>4, <1>8, <1>9, <1>10, SameSequence
<1>. QED
  BY <1>1, <1>3, <1>5, <1>7, <1>11

LEMMA PairBalanced ==
  ASSUME NEW n \in Nat, NEW k \in Nat, k < n, n <= MaxLength,
         NEW b \in Opening, NEW x \in Balanced[k], NEW y \in Balanced[n - 1 - k]
  PROVE  Pair(b, x, y) \in Balanced[n]
<1>1. n \in 0..MaxLength /\ k \in 0..(n - 1)
  BY BracketsAssumption
<1>2. PairOf(Balanced, n, Pair(b, x, y), k)
  BY DEF PairOf
<1>. QED
  BY <1>1, <1>2, BalancedParts

\* A pair put anywhere into a balanced word leaves it balanced.
InsertKeeps(n) ==
  \A w \in Balanced[n] : \A i \in 0..Len(w), b \in Opening : Inserted(w, i, b) \in Balanced[n + 1]

LEMMA InsertBalanced ==
  ASSUME NEW n \in Nat, n < MaxLength
  PROVE  InsertKeeps(n)
<1>. DEFINE M == {m \in Nat : m < MaxLength /\ ~ InsertKeeps(m)}
<1>0. MaxLength \in Nat
  BY BracketsAssumption
<1>1. M = {}
  <2>. SUFFICES ASSUME M # {} PROVE FALSE
    OBVIOUS
  <2>1. PICK m \in M : \A k \in M : m <= k
    <3>1. M \in SUBSET Nat
      OBVIOUS
    <3>. HIDE DEF M
    <3>. QED
      BY <3>1, LeastNatural
  <2>2. m \in Nat /\ m < MaxLength /\ ~ InsertKeeps(m)
    BY <2>1
  <2>3. PICK w \in Balanced[m] :
          \E i \in 0..Len(w), b \in Opening : Inserted(w, i, b) \notin Balanced[m + 1]
    BY <2>2 DEF InsertKeeps
  <2>4. PICK i \in 0..Len(w), b \in Opening : Inserted(w, i, b) \notin Balanced[m + 1]
    BY <2>3
  <2>5. ASSUME NEW k \in Nat, k < m PROVE InsertKeeps(k)
    <3>1. k \notin M
      <4>. HIDE DEF M
      <4>. QED
        BY <2>1, <2>2, <2>5
    <3>. QED
      BY <1>0, <2>2, <2>5, <3>1
  <2>6. /\ m \in 0..MaxLength /\ m + 1 \in 0..MaxLength /\ 0 \in 0..MaxLength
        /\ m + 1 \in Nat /\ m + 1 <= MaxLength /\ 0 < m + 1 /\ 0 \in Nat
    BY <1>0, <2>2
  <2>7. w \in Seq(Brks) /\ Len(w) = 2 * m /\ i \in Nat
    BY <2>3, <2>6, BalancedWord
  <2>8. CASE i = 0
    <3>1. <<>> \in Balanced[0]
      BY <2>6, BalancedParts
    <3>2. w \in Balanced[m + 1 - 1 - 0]
      <4>1. m + 1 - 1 - 0 = m
        BY <2>2
      <4>. QED
        BY <2>3, <4>1
    <3>3. Pair(b, <<>>, w) \in Balanced[m + 1]
      BY <2>4, <2>6, <3>1, <3>2, PairBalanced
    <3>4. Inserted(w, 0, b) = Pair(b, <<>>, w)
      BY <2>4, <2>7, InsertFront
    <3>. QED
      BY <2>4, <2>8, <3>3, <3>4
  <2>9. CASE i # 0
    <3>1. m # 0 /\ i >= 1 /\ i <= 2 * m
      BY <2>2, <2>4, <2>7, <2>9
    <3>2. PICK k \in 0..(m - 1) : PairOf(Balanced, m, w, k)
      BY <2>3, <2>6, <3>1, BalancedParts
    <3>3. PICK o \in Opening, x \in Balanced[k], y \in Balanced[m - 1 - k] : w = Pair(o, x, y)
      BY <3>2 DEF PairOf
    <3>4. /\ k \in Nat /\ k < m /\ k \in 0..MaxLength /\ k < MaxLength
          /\ m - 1 - k \in Nat /\ m - 1 - k < m /\ m - 1 - k \in 0..MaxLength
      BY <1>0, <2>2
    <3>5. /\ x \in Seq(Brks) /\ Len(x) = 2 * k /\ y \in Seq(Brks) /\ Len(y) = 2 * (m - 1 - k)
      BY <3>3, <3>4, BalancedWord
    <3>6. CASE i <= Len(x) + 1
      <4>1. i - 1 \in 0..Len(x)
        BY <2>7, <3>1, <3>4, <3>5, <3>6
      <4>2. Inserted(x, i - 1, b) \in Balanced[k + 1]
        <5>1. InsertKeeps(k)
          BY <2>5, <3>4
        <5>. QED
          BY <2>4, <3>3, <4>1, <5>1 DEF InsertKeeps
      <4>3. m + 1 - 1 - (k + 1) = m - 1 - k /\ k + 1 \in Nat /\ k + 1 < m + 1
        BY <2>2, <3>4
      <4>4. Pair(o, Inserted(x, i - 1, b), y) \in Balanced[m + 1]
        <5>1. y \in Balanced[m + 1 - 1 - (k + 1)]
          BY <3>3, <4>3
        <5>. QED
          BY <2>6, <3>3, <4>2, <4>3, <5>1, PairBalanced
      <4>5. Inserted(Pair(o, x, y), i, b) = Pair(o, Inserted(x, i - 1, b), y)
        BY <2>4, <2>7, <3>1, <3>3, <3>5, <3>6, InsertFirst
      <4>. QED
        BY <2>4, <3>3, <4>4, <4>5
    <3>7. CASE i > Len(x) + 1
      <4>1. PICK j \in Nat : j = i - Len(x) - 2
        <5>1. PICK l \in Nat : l = Len(x)
          BY <3>4, <3>5
        <5>2. i - l - 2 \in Nat
          BY <2>7, <3>7, <5>1
        <5>. QED
          BY <5>1, <5>2
      <4>2. i = Len(x) + 2 + j /\ j <= Len(y) /\ j \in 0..Len(y)
        <5>1. PICK l \in Nat, r \in Nat : l = Len(x) /\ r = Len(y) /\ l = 2 * k /\ r = 2 * (m - 1 - k)
          BY <3>4, <3>5
        <5>2. i = l + 2 + j
          BY <2>7, <4>1, <5>1
        <5>3. i <= l + r + 2
          BY <2>2, <2>7, <3>1, <3>4, <5>1
        <5>. QED
          BY <5>1, <5>2, <5>3
      <4>3. Inserted(y, j, b) \in Balanced[m - 1 - k + 1]
        <5>1. InsertKeeps(m - 1 - k)
          BY <2>5, <3>4
        <5>. QED
          BY <2>4, <3>3, <4>2, <5>1 DEF InsertKeeps
      <4>4. m + 1 - 1 - k = m - 1 - k + 1 /\ k < m + 1
        BY <2>2, <3>4
      <4>5. Pair(o, x, Inserted(y, j, b)) \in Balanced[m + 1]
        <5>1. Inserted(y, j, b) \in Balanced[m + 1 - 1 - k]
          BY <4>3, <4>4
        <5>. QED
          BY <2>6, <3>3, <3>4, <4>4, <5>1, PairBalanced, SMTT(20)
      <4>6. Inserted(Pair(o, x, y), i, b) = Pair(o, x, Inserted(y, j, b))
        <5>1. i \in Nat /\ j \in Nat /\ j <= Len(y) /\ i = Len(x) + 2 + j
          BY <2>7, <4>2
        <5>2. x \in Seq(Brks) /\ y \in Seq(Brks) /\ o \in Opening /\ b \in Opening
          BY <2>4, <3>3, <3>5
        <5>. QED
          BY <5>1, <5>2, InsertSecond
      <4>. QED
        BY <2>4, <3>3, <4>5, <4>6
    <3>. QED
      BY <2>7, <3>4, <3>5, <3>6, <3>7
  <2>. QED
    BY <2>8, <2>9
<1>2. n \notin M
  BY <1>1
<1>. QED
  BY <1>2

-------------------------------------------------------------------------------
(***************************************************************************)
(* How deep a bracket is.                                                  *)
(***************************************************************************)

\* d[i] is how many more brackets of the first i open than close.
IsDepth(w, d) ==
  /\ d \in [0..Len(w) -> Int]
  /\ d[0] = 0
  /\ \A i \in 1..Len(w) : d[i] = IF w[i] \in Opening THEN d[i - 1] + 1 ELSE d[i - 1] - 1

\* The i-th bracket is the one that the j-th closes.
Matches(w, d, i, j) ==
  /\ i \in 1..(j - 1)
  /\ d[i - 1] = d[j]
  /\ \A m \in i..(j - 1) : d[m] > d[j]
  /\ brackets[w[i]] = w[j]

Matched(w, d) == \A j \in 1..Len(w) : w[j] \in Closing => \E i \in 1..(j - 1) : Matches(w, d, i, j)

IsBalance(w, d) ==
  /\ IsDepth(w, d)
  /\ d[Len(w)] = 0
  /\ \A i \in 0..Len(w) : d[i] >= 0
  /\ Matched(w, d)

\* The depths of ( x ) y.
PairDepth(x, y, dx, dy) ==
  [i \in 0..(Len(x) + Len(y) + 2) |->
     IF i = 0 THEN 0 ELSE IF i <= Len(x) + 1 THEN dx[i - 1] + 1 ELSE dy[i - Len(x) - 2]]

LEMMA PairBalance ==
  ASSUME NEW b \in Opening, NEW x \in Seq(Brks), NEW y \in Seq(Brks), NEW dx, NEW dy,
         IsBalance(x, dx), IsBalance(y, dy)
  PROVE  IsBalance(Pair(b, x, y), PairDepth(x, y, dx, dy))
<1>1. PICK w, d : w = Pair(b, x, y) /\ d = PairDepth(x, y, dx, dy)
  OBVIOUS
<1>2. PICK lx \in Nat, ly \in Nat : lx = Len(x) /\ ly = Len(y)
  OBVIOUS
<1>3. /\ w \in Seq(Brks) /\ Len(w) = lx + ly + 2
      /\ \A i \in 1..(lx + ly + 2) :
           w[i] = IF i = 1 THEN b ELSE IF i <= lx + 1 THEN x[i - 1]
                  ELSE IF i = lx + 2 THEN brackets[b] ELSE y[i - lx - 2]
  <2>1. IsPair(w, b, x, y)
    BY <1>1, PairAt
  <2>. QED
    BY <1>2, <2>1 DEF IsPair
<1>4. /\ dx \in [0..lx -> Int] /\ dx[0] = 0 /\ dx[lx] = 0
      /\ dy \in [0..ly -> Int] /\ dy[0] = 0 /\ dy[ly] = 0
  BY <1>2 DEF IsBalance, IsDepth
<1>5. (\A i \in 0..lx : dx[i] \in Int /\ dx[i] >= 0) /\ (\A i \in 0..ly : dy[i] \in Int /\ dy[i] >= 0)
  BY <1>2, <1>4 DEF IsBalance
<1>6. /\ \A i \in 1..lx : dx[i] = IF x[i] \in Opening THEN dx[i - 1] + 1 ELSE dx[i - 1] - 1
      /\ \A i \in 1..ly : dy[i] = IF y[i] \in Opening THEN dy[i - 1] + 1 ELSE dy[i - 1] - 1
  BY <1>2 DEF IsBalance, IsDepth
<1>7. d = [i \in 0..(lx + ly + 2) |->
             IF i = 0 THEN 0 ELSE IF i <= lx + 1 THEN dx[i - 1] + 1 ELSE dy[i - lx - 2]]
  BY <1>1, <1>2 DEF PairDepth
<1>8. \A i \in 0..(lx + ly + 2) :
        (IF i = 0 THEN 0 ELSE IF i <= lx + 1 THEN dx[i - 1] + 1 ELSE dy[i - lx - 2]) \in Int
  <2>. TAKE i \in 0..(lx + ly + 2)
  <2>1. CASE i = 0
    BY <2>1
  <2>2. CASE i # 0 /\ i <= lx + 1
    <3>1. i - 1 \in 0..lx
      BY <2>2
    <3>. QED
      BY <1>5, <2>2, <3>1
  <2>3. CASE i # 0 /\ ~ i <= lx + 1
    <3>1. i - lx - 2 \in 0..ly
      BY <2>3
    <3>. QED
      BY <1>5, <2>3, <3>1
  <2>. QED
    BY <2>1, <2>2, <2>3
<1>9. d \in [0..(lx + ly + 2) -> Int]
  BY <1>7, <1>8
<1>10. /\ d[0] = 0
       /\ \A i \in 1..(lx + 1) : d[i] = dx[i - 1] + 1
       /\ \A i \in (lx + 2)..(lx + ly + 2) : d[i] = dy[i - lx - 2]
  <2>1. d[0] = 0
    BY <1>7
  <2>2. ASSUME NEW i \in 1..(lx + 1) PROVE d[i] = dx[i - 1] + 1
    BY <1>7
  <2>3. ASSUME NEW i \in (lx + 2)..(lx + ly + 2) PROVE d[i] = dy[i - lx - 2]
    BY <1>7
  <2>. QED
    BY <2>1, <2>2, <2>3
<1>11. \A i \in 0..(lx + ly + 2) : d[i] >= 0
  <2>. TAKE i \in 0..(lx + ly + 2)
  <2>1. CASE i = 0
    BY <1>10, <2>1
  <2>2. CASE i # 0 /\ i <= lx + 1
    <3>1. i - 1 \in 0..lx /\ i \in 1..(lx + 1)
      BY <2>2
    <3>. QED
      BY <1>5, <1>10, <3>1
  <2>3. CASE i # 0 /\ ~ i <= lx + 1
    <3>1. i - lx - 2 \in 0..ly /\ i \in (lx + 2)..(lx + ly + 2)
      BY <2>3
    <3>. QED
      BY <1>5, <1>10, <3>1
  <2>. QED
    BY <2>1, <2>2, <2>3
<1>12. d[lx + ly + 2] = 0
  <2>1. lx + ly + 2 \in (lx + 2)..(lx + ly + 2) /\ lx + ly + 2 - lx - 2 = ly
    OBVIOUS
  <2>2. d[lx + ly + 2] = dy[lx + ly + 2 - lx - 2]
    BY <1>10, <2>1
  <2>. QED
    BY <1>4, <2>1, <2>2
<1>13. b \in Opening /\ b \notin Closing /\ brackets[b] \notin Opening
  BY BracketsMatch
<1>14. ASSUME NEW i \in 1..(lx + ly + 2)
       PROVE  d[i] = IF w[i] \in Opening THEN d[i - 1] + 1 ELSE d[i - 1] - 1
  <2>1. CASE i = 1
    <3>1. w[i] = b /\ d[i] = dx[0] + 1 /\ d[i - 1] = 0
      <4>1. 1 \in 1..(lx + 1) /\ 1 - 1 = 0
        OBVIOUS
      <4>2. d[1] = dx[1 - 1] + 1
        BY <1>10, <4>1
      <4>. QED
        BY <1>3, <1>10, <2>1, <4>1, <4>2
    <3>. QED
      BY <1>4, <1>13, <3>1
  <2>2. CASE i # 1 /\ i <= lx + 1
    <3>1. i \in 1..(lx + 1) /\ i - 1 \in 1..(lx + 1) /\ i - 1 \in 1..lx /\ i - 1 - 1 \in 0..lx
      BY <2>2
    <3>2. w[i] = x[i - 1] /\ d[i] = dx[i - 1] + 1 /\ d[i - 1] = dx[i - 1 - 1] + 1
      BY <1>3, <1>10, <2>2, <3>1
    <3>3. dx[i - 1] = IF x[i - 1] \in Opening THEN dx[i - 1 - 1] + 1 ELSE dx[i - 1 - 1] - 1
      BY <1>6, <3>1
    <3>4. dx[i - 1 - 1] \in Int
      BY <1>5, <3>1
    <3>. QED
      BY <3>2, <3>3, <3>4
  <2>3. CASE i = lx + 2
    <3>1. i \in (lx + 2)..(lx + ly + 2) /\ i - lx - 2 = 0 /\ i - 1 \in 1..(lx + 1) /\ i - 1 - 1 = lx /\ i # 1 /\ ~ i <= lx + 1
      BY <2>3
    <3>2. d[i] = dy[i - lx - 2] /\ d[i - 1] = dx[i - 1 - 1] + 1
      BY <1>10, <3>1
    <3>3. d[i] = 0 /\ d[i - 1] = 1
      BY <1>4, <3>1, <3>2
    <3>4. w[i] = brackets[b]
      BY <1>3, <2>3, <3>1
    <3>. QED
      BY <1>13, <3>3, <3>4
  <2>4. CASE i > lx + 2
    <3>1. i \in (lx + 2)..(lx + ly + 2) /\ i - 1 \in (lx + 2)..(lx + ly + 2) /\ i - lx - 2 \in 1..ly
          /\ i - 1 - lx - 2 = i - lx - 2 - 1 /\ i - lx - 2 - 1 \in 0..ly
          /\ i # 1 /\ ~ i <= lx + 1 /\ i # lx + 2
      BY <2>4
    <3>2. w[i] = y[i - lx - 2] /\ d[i] = dy[i - lx - 2] /\ d[i - 1] = dy[i - lx - 2 - 1]
      <4>1. d[i - 1] = dy[i - 1 - lx - 2]
        BY <1>10, <3>1
      <4>2. d[i] = dy[i - lx - 2]
        BY <1>10, <3>1
      <4>3. w[i] = y[i - lx - 2]
        BY <1>3, <3>1
      <4>. QED
        BY <3>1, <4>1, <4>2, <4>3
    <3>3. PICK j : j = i - lx - 2
      OBVIOUS
    <3>4. dy[j] = IF y[j] \in Opening THEN dy[j - 1] + 1 ELSE dy[j - 1] - 1
      BY <1>6, <3>1, <3>3
    <3>. QED
      BY <3>2, <3>3, <3>4
  <2>. QED
    BY <2>1, <2>2, <2>3, <2>4
<1>15. ASSUME NEW j \in 1..(lx + ly + 2), w[j] \in Closing
       PROVE  \E i \in 1..(j - 1) : Matches(w, d, i, j)
  <2>1. j # 1
    BY <1>3, <1>13, <1>15
  <2>2. CASE j <= lx + 1
    <3>1. PICK q \in Nat : q = j - 1
      BY <2>1
    <3>2. q \in 1..lx /\ j = q + 1 /\ w[j] = x[q] /\ d[j] = dx[q] + 1
      <4>1. q \in 1..lx /\ j = q + 1 /\ j \in 1..(lx + 1)
        BY <2>1, <2>2, <3>1
      <4>. QED
        BY <1>3, <1>10, <2>1, <2>2, <3>1, <4>1
    <3>3. PICK i \in 1..(q - 1) : Matches(x, dx, i, q)
      <4>1. Matched(x, dx) /\ q \in 1..Len(x) /\ x[q] \in Closing
        BY <1>2, <1>15, <3>2 DEF IsBalance
      <4>. QED
        BY <4>1 DEF Matched
    <3>4. /\ i \in Nat /\ i >= 1 /\ i <= q - 1 /\ dx[i - 1] = dx[q] /\ brackets[x[i]] = x[q]
          /\ \A m \in i..(q - 1) : dx[m] > dx[q]
      BY <3>3 DEF Matches
    <3>5. i + 1 \in 1..(j - 1)
      BY <3>2, <3>4
    <3>6. d[i + 1 - 1] = d[j]
      <4>1. i + 1 - 1 = i /\ i \in 1..(lx + 1)
        BY <3>2, <3>4
      <4>2. d[i] = dx[i - 1] + 1
        BY <1>10, <4>1
      <4>. QED
        BY <3>2, <3>4, <4>1, <4>2
    <3>7. brackets[w[i + 1]] = w[j]
      <4>1. i + 1 \in 1..(lx + ly + 2) /\ i + 1 # 1 /\ i + 1 <= lx + 1 /\ i + 1 - 1 = i
        BY <3>2, <3>4
      <4>2. w[i + 1] = x[i]
        BY <1>3, <4>1
      <4>. QED
        BY <3>2, <3>4, <4>2
    <3>8. ASSUME NEW m \in (i + 1)..(j - 1) PROVE d[m] > d[j]
      <4>1. m \in 1..(lx + 1) /\ m - 1 \in i..(q - 1) /\ m - 1 \in 0..lx /\ q \in 0..lx
        BY <3>2, <3>4
      <4>2. d[m] = dx[m - 1] + 1 /\ dx[m - 1] > dx[q] /\ dx[m - 1] \in Int /\ dx[q] \in Int
        BY <1>5, <1>10, <3>4, <4>1
      <4>. QED
        BY <3>2, <4>2
    <3>. QED
      BY <3>5, <3>6, <3>7, <3>8 DEF Matches
  <2>3. CASE j = lx + 2
    <3>1. 1 \in 1..(j - 1) /\ 1 - 1 = 0 /\ j # 1 /\ ~ j <= lx + 1
      BY <2>3
    <3>2. d[j] = 0
      <4>1. j \in (lx + 2)..(lx + ly + 2) /\ j - lx - 2 = 0
        BY <2>3
      <4>2. d[j] = dy[j - lx - 2]
        BY <1>10, <4>1
      <4>. QED
        BY <1>4, <4>1, <4>2
    <3>3. w[1] = b /\ w[j] = brackets[b]
      BY <1>3, <2>3, <3>1
    <3>4. ASSUME NEW m \in 1..(j - 1) PROVE d[m] > d[j]
      <4>1. m \in 1..(lx + 1) /\ m - 1 \in 0..lx
        BY <2>3
      <4>2. d[m] = dx[m - 1] + 1 /\ dx[m - 1] \in Int /\ dx[m - 1] >= 0
        BY <1>5, <1>10, <4>1
      <4>. QED
        BY <3>2, <4>2
    <3>5. Matches(w, d, 1, j)
      BY <1>10, <3>1, <3>2, <3>3, <3>4 DEF Matches
    <3>. QED
      BY <3>1, <3>5
  <2>4. CASE j > lx + 2
    <3>1. PICK q \in Nat : q = j - lx - 2
      <4>1. j - lx - 2 \in Nat
        BY <2>4
      <4>. QED
        BY <4>1
    <3>2. q \in 1..ly /\ j = q + lx + 2 /\ j \in (lx + 2)..(lx + ly + 2) /\ ~ j <= lx + 1 /\ j # lx + 2
      BY <2>4, <3>1
    <3>3. w[j] = y[q] /\ d[j] = dy[q]
      <4>1. w[j] = y[j - lx - 2]
        BY <1>3, <2>1, <3>2
      <4>2. d[j] = dy[j - lx - 2]
        BY <1>10, <3>2
      <4>. QED
        BY <3>1, <4>1, <4>2
    <3>4. PICK i \in 1..(q - 1) : Matches(y, dy, i, q)
      <4>1. Matched(y, dy) /\ q \in 1..Len(y) /\ y[q] \in Closing
        BY <1>2, <1>15, <3>2, <3>3 DEF IsBalance
      <4>. QED
        BY <4>1 DEF Matched
    <3>5. /\ i \in Nat /\ i >= 1 /\ i <= q - 1 /\ dy[i - 1] = dy[q] /\ brackets[y[i]] = y[q]
          /\ \A m \in i..(q - 1) : dy[m] > dy[q]
      BY <3>4 DEF Matches
    <3>6. PICK p \in Nat : p = i + lx + 2
      BY <3>5
    <3>7. /\ p \in 1..(j - 1) /\ p \in 1..(lx + ly + 2) /\ p # 1 /\ ~ p <= lx + 1 /\ p # lx + 2
          /\ p - lx - 2 = i /\ p - 1 \in (lx + 2)..(lx + ly + 2) /\ p - 1 - lx - 2 = i - 1
      BY <3>2, <3>5, <3>6
    <3>8. d[p - 1] = d[j]
      <4>1. d[p - 1] = dy[p - 1 - lx - 2]
        BY <1>10, <3>7
      <4>. QED
        BY <3>3, <3>5, <3>7, <4>1
    <3>9. brackets[w[p]] = w[j]
      <4>1. w[p] = y[p - lx - 2]
        BY <1>3, <3>7
      <4>. QED
        BY <3>3, <3>5, <3>7, <4>1
    <3>10. ASSUME NEW m \in p..(j - 1) PROVE d[m] > d[j]
      <4>1. m \in (lx + 2)..(lx + ly + 2) /\ m - lx - 2 \in i..(q - 1)
        <5>1. m \in Int /\ m >= i + lx + 2 /\ m <= q + lx + 1 /\ q <= ly
          <6>1. m \in Int /\ m >= p /\ m <= j - 1
            OBVIOUS
          <6>2. j - 1 = q + lx + 1 /\ q <= ly
            BY <3>2
          <6>. QED
            BY <3>6, <6>1, <6>2
        <5>2. m - lx - 2 >= i /\ m - lx - 2 <= q - 1
          BY <3>5, <5>1
        <5>3. m >= lx + 2 /\ m <= lx + ly + 2
          BY <3>5, <5>1
        <5>. QED
          BY <3>5, <5>1, <5>2, <5>3, SMTT(20)
      <4>2. d[m] = dy[m - lx - 2] /\ dy[m - lx - 2] > dy[q]
        BY <1>10, <3>5, <4>1
      <4>. QED
        BY <3>3, <4>2
    <3>11. Matches(w, d, p, j)
      BY <3>7, <3>8, <3>9, <3>10 DEF Matches
    <3>. QED
      BY <3>7, <3>11
  <2>. QED
    BY <2>1, <2>2, <2>3, <2>4
<1>16. IsDepth(w, d)
  BY <1>3, <1>9, <1>10, <1>14 DEF IsDepth
<1>17. Matched(w, d)
  BY <1>3, <1>15 DEF Matched
<1>18. IsBalance(w, d)
  BY <1>3, <1>11, <1>12, <1>16, <1>17 DEF IsBalance
<1>. QED
  BY <1>1, <1>18

\* A balanced word never closes more than it has opened, in the end it has closed
\* all, and each closing bracket closes one of its kind.
LEMMA BalancedDepth ==
  ASSUME NEW n \in 0..MaxLength, NEW w \in Balanced[n]
  PROVE  \E d : IsBalance(w, d)
<1>. DEFINE M == {m \in Nat : m <= MaxLength /\ \E v \in Balanced[m] : ~ \E d : IsBalance(v, d)}
<1>0. MaxLength \in Nat
  BY BracketsAssumption
<1>1. M = {}
  <2>. SUFFICES ASSUME M # {} PROVE FALSE
    OBVIOUS
  <2>1. PICK m \in M : \A k \in M : m <= k
    <3>1. M \in SUBSET Nat
      OBVIOUS
    <3>. HIDE DEF M
    <3>. QED
      BY <3>1, LeastNatural
  <2>2. m \in Nat /\ m <= MaxLength /\ m \in 0..MaxLength
    BY <1>0, <2>1
  <2>3. PICK v \in Balanced[m] : ~ \E d : IsBalance(v, d)
    BY <2>1
  <2>4. ASSUME NEW k \in Nat, k < m, NEW u \in Balanced[k] PROVE \E d : IsBalance(u, d)
    <3>1. k \notin M
      <4>. HIDE DEF M
      <4>. QED
        BY <2>1, <2>2, <2>4
    <3>2. k <= MaxLength
      BY <1>0, <2>2, <2>4
    <3>. QED
      BY <2>4, <3>1, <3>2
  <2>5. CASE m = 0 /\ v = <<>>
    <3>. DEFINE z == [i \in 0..0 |-> 0]
    <3>1. Len(v) = 0 /\ z \in [0..0 -> Int] /\ z[0] = 0 /\ \A i \in 0..0 : z[i] >= 0
      BY <2>5
    <3>. HIDE DEF z
    <3>2. IsBalance(v, z)
      BY <3>1 DEF IsBalance, IsDepth, Matched
    <3>. QED
      BY <2>3, <3>2
  <2>6. CASE \E k \in 0..(m - 1) : PairOf(Balanced, m, v, k)
    <3>1. PICK k \in 0..(m - 1) : PairOf(Balanced, m, v, k)
      BY <2>6
    <3>2. PICK b \in Opening, x \in Balanced[k], y \in Balanced[m - 1 - k] : v = Pair(b, x, y)
      BY <3>1 DEF PairOf
    <3>3. /\ k \in Nat /\ k < m /\ k \in 0..MaxLength
          /\ m - 1 - k \in Nat /\ m - 1 - k < m /\ m - 1 - k \in 0..MaxLength
      BY <1>0, <2>2
    <3>4. x \in Seq(Brks) /\ y \in Seq(Brks)
      BY <3>2, <3>3, BalancedWord
    <3>5. PICK dx : IsBalance(x, dx)
      BY <2>4, <3>2, <3>3
    <3>6. PICK dy : IsBalance(y, dy)
      BY <2>4, <3>2, <3>3
    <3>7. IsBalance(v, PairDepth(x, y, dx, dy))
      BY <3>2, <3>4, <3>5, <3>6, PairBalance
    <3>. QED
      BY <2>3, <3>7
  <2>. QED
    BY <2>2, <2>3, <2>5, <2>6, BalancedParts
<1>2. n \notin M /\ n \in Nat /\ n <= MaxLength
  BY <1>0, <1>1
<1>. QED
  BY <1>2

\* Along opening brackets the depth is the number of them, along closing ones it
\* falls by theirs.
OpensUpTo(w, k) == \A j \in 1..k : w[j] \in Opening
ClosesFrom(w, k) == \A j \in (k + 1)..Len(w) : w[j] \in Closing

LEMMA Rises ==
  ASSUME NEW w \in Seq(Brks), NEW d, IsDepth(w, d), NEW k \in 0..Len(w),
         OpensUpTo(w, k)
  PROVE  \A i \in 0..k : d[i] = i
<1>. DEFINE M == {m \in Nat : m <= k /\ d[m] # m}
<1>0. k \in Nat /\ k <= Len(w) /\ Len(w) \in Nat
  OBVIOUS
<1>1. M = {}
  <2>. SUFFICES ASSUME M # {} PROVE FALSE
    OBVIOUS
  <2>1. PICK m \in M : \A i \in M : m <= i
    <3>1. M \in SUBSET Nat
      OBVIOUS
    <3>. HIDE DEF M
    <3>. QED
      BY <3>1, LeastNatural
  <2>2. m \in Nat /\ m <= k /\ d[m] # m
    BY <2>1
  <2>3. m # 0
    BY <2>2 DEF IsDepth
  <2>4. m - 1 \in Nat /\ m - 1 <= k /\ m - 1 < m /\ m \in 1..k /\ m \in 1..Len(w)
    BY <1>0, <2>2, <2>3
  <2>5. m - 1 \notin M
    <3>. HIDE DEF M
    <3>. QED
      BY <2>1, <2>2, <2>4
  <2>6. d[m - 1] = m - 1
    BY <2>4, <2>5
  <2>7. d[m] = d[m - 1] + 1
    BY <2>4 DEF IsDepth, OpensUpTo
  <2>. QED
    BY <2>2, <2>6, <2>7
<1>2. ASSUME NEW i \in 0..k PROVE d[i] = i
  <2>1. i \in Nat /\ i <= k /\ i \notin M
    BY <1>0, <1>1
  <2>. QED
    BY <2>1
<1>. QED
  BY <1>2

LEMMA Falls ==
  ASSUME NEW w \in Seq(Brks), NEW d, IsDepth(w, d), NEW k \in 0..Len(w),
         ClosesFrom(w, k)
  PROVE  d[Len(w)] = d[k] - (Len(w) - k)
<1>. DEFINE M == {m \in Nat : k + m <= Len(w) /\ d[k + m] # d[k] - m}
<1>0. /\ k \in Nat /\ k <= Len(w) /\ Len(w) \in Nat
      /\ \A i \in 0..Len(w) : d[i] \in Int
  BY DEF IsDepth
<1>1. M = {}
  <2>. SUFFICES ASSUME M # {} PROVE FALSE
    OBVIOUS
  <2>1. PICK m \in M : \A i \in M : m <= i
    <3>1. M \in SUBSET Nat
      OBVIOUS
    <3>. HIDE DEF M
    <3>. QED
      BY <3>1, LeastNatural
  <2>2. m \in Nat /\ k + m <= Len(w) /\ d[k + m] # d[k] - m
    BY <2>1
  <2>3. m # 0
    <3>1. d[k] \in Int
      BY <1>0
    <3>. QED
      BY <1>0, <2>2, <3>1
  <2>4. PICK l \in Nat : l = m - 1
    <3>1. m - 1 \in Nat
      BY <2>2, <2>3
    <3>. QED
      BY <3>1
  <2>5. l < m /\ k + l <= Len(w) /\ k + l = k + m - 1 /\ k + m \in (k + 1)..Len(w) /\ k + m \in 1..Len(w)
    BY <1>0, <2>2, <2>3, <2>4
  <2>6. l \notin M
    <3>. HIDE DEF M
    <3>. QED
      BY <2>1, <2>2, <2>4, <2>5
  <2>7. d[k + l] = d[k] - l
    BY <2>4, <2>5, <2>6
  <2>8. d[k + m] = d[k + m - 1] - 1
    <3>1. w[k + m] \notin Opening
      BY <2>5, BracketsMatch DEF ClosesFrom
    <3>. QED
      BY <2>5, <3>1 DEF IsDepth
  <2>9. d[k] \in Int
    BY <1>0
  <2>10. d[k + m] = d[k] - l - 1
    BY <2>5, <2>7, <2>8
  <2>11. d[k] - l - 1 = d[k] - m
    BY <2>2, <2>4, <2>9
  <2>. QED
    BY <2>2, <2>10, <2>11
<1>2. PICK m \in Nat : m = Len(w) - k
  <2>1. Len(w) - k \in Nat
    BY <1>0
  <2>. QED
    BY <2>1
<1>3. k + m = Len(w) /\ m \notin M
  <2>. HIDE DEF M
  <2>. QED
    BY <1>0, <1>1, <1>2
<1>4. d[k + m] = d[k] - m
  BY <1>0, <1>2, <1>3
<1>. QED
  BY <1>2, <1>3, <1>4

\* What a balanced t that completes s, with k brackets in front, says of s.
Around(t, s, k, d) ==
  /\ IsDepth(s, d)
  /\ Len(t) = 2 * k + Len(s) + d[Len(s)]
  /\ \A i \in 0..Len(s) : k + d[i] >= 0
  /\ \A j \in 1..Len(s) :
       s[j] \in Closing => \/ \E i \in 1..(j - 1) : Matches(s, d, i, j)
                           \/ \A m \in 0..(j - 1) : d[m] > d[j]

LEMMA CompletionDepth ==
  ASSUME NEW s \in Seq(Brks), NEW n \in 0..MaxLength, NEW t \in Balanced[n], Completes(t, s)
  PROVE  \E k \in Nat : \E d : Around(t, s, k, d)
<1>1. t \in Seq(Brks) /\ Len(t) \in Nat /\ Len(s) \in Nat
  BY BalancedWord
<1>2. PICK e : IsBalance(t, e)
  BY BalancedDepth
<1>3. PICK k \in 0..(Len(t) - Len(s)) :
        /\ SubSeq(t, k + 1, k + Len(s)) = s
        /\ \A j \in 1..k : t[j] \in Opening
        /\ \A j \in (k + Len(s) + 1)..Len(t) : t[j] \in Closing
  BY DEF Completes
<1>4. PICK l \in Nat : l = Len(s)
  BY <1>1
<1>5. k \in Nat /\ k + l <= Len(t) /\ k \in 0..Len(t) /\ k + l \in 0..Len(t)
  BY <1>1, <1>3, <1>4
<1>6. ASSUME NEW j \in 1..l PROVE s[j] = t[k + j]
  <2>1. SubSeq(t, k + 1, k + l)[j] = t[k + 1 + j - 1]
    BY <1>1, <1>5
  <2>2. k + 1 + j - 1 = k + j
    BY <1>5
  <2>. QED
    BY <1>3, <1>4, <2>1, <2>2
<1>7. /\ e \in [0..Len(t) -> Int] /\ e[Len(t)] = 0 /\ IsDepth(t, e) /\ Matched(t, e)
      /\ \A i \in 0..Len(t) : e[i] \in Int /\ e[i] >= 0
      /\ \A i \in 1..Len(t) : e[i] = IF t[i] \in Opening THEN e[i - 1] + 1 ELSE e[i - 1] - 1
  BY <1>2 DEF IsBalance, IsDepth
<1>20. OpensUpTo(t, k) /\ ClosesFrom(t, k + l)
  BY <1>3, <1>4 DEF OpensUpTo, ClosesFrom
<1>21. t \in Seq(Brks) /\ IsDepth(t, e) /\ k \in 0..Len(t) /\ k + l \in 0..Len(t)
  BY <1>1, <1>5, <1>7
<1>8. \A i \in 0..k : e[i] = i
  BY <1>20, <1>21, Rises
<1>9. e[Len(t)] = e[k + l] - (Len(t) - (k + l))
  BY <1>20, <1>21, Falls
<1>. DEFINE d == [i \in 0..l |-> e[k + i] - k]
<1>10. \A i \in 0..l : k + i \in 0..Len(t) /\ e[k + i] \in Int
  <2>. TAKE i \in 0..l
  <2>1. k + i \in 0..Len(t)
    BY <1>1, <1>5
  <2>. QED
    BY <1>7, <2>1
<1>11. d \in [0..l -> Int] /\ \A i \in 0..l : d[i] = e[k + i] - k /\ d[i] \in Int
  <2>1. ASSUME NEW i \in 0..l PROVE e[k + i] - k \in Int
    <3>1. e[k + i] \in Int
      BY <1>10
    <3>2. k \in Int
      BY <1>5
    <3>. QED
      BY <3>1, <3>2
  <2>. QED
    BY <2>1
<1>. HIDE DEF d
<1>12. e[k] = k /\ k \in Int
  BY <1>5, <1>8
<1>13. d[0] = 0
  <2>1. 0 \in 0..l /\ k + 0 = k
    BY <1>5
  <2>2. d[0] = e[k + 0] - k
    BY <1>11, <2>1
  <2>. QED
    BY <1>12, <2>1, <2>2
<1>14. ASSUME NEW i \in 1..l PROVE d[i] = IF s[i] \in Opening THEN d[i - 1] + 1 ELSE d[i - 1] - 1
  <2>1. i \in 0..l /\ i - 1 \in 0..l /\ k + i \in 1..Len(t) /\ k + (i - 1) = k + i - 1
    BY <1>1, <1>5
  <2>2. e[k + i] = IF t[k + i] \in Opening THEN e[k + i - 1] + 1 ELSE e[k + i - 1] - 1
    BY <1>7, <2>1
  <2>3. d[i] = e[k + i] - k /\ d[i - 1] = e[k + i - 1] - k /\ e[k + i - 1] \in Int /\ e[k + i] \in Int
    <3>1. d[i - 1] = e[k + (i - 1)] - k /\ e[k + (i - 1)] \in Int
      BY <1>10, <1>11, <2>1
    <3>. QED
      BY <1>10, <1>11, <2>1, <3>1
  <2>4. s[i] = t[k + i]
    BY <1>6
  <2>. QED
    BY <1>5, <2>2, <2>3, <2>4
<1>15. IsDepth(s, d)
  BY <1>4, <1>11, <1>13, <1>14 DEF IsDepth
<1>16. Len(t) = 2 * k + l + d[l]
  <2>1. d[l] = e[k + l] - k /\ e[k + l] \in Int
    BY <1>10, <1>11
  <2>2. 0 = e[k + l] - (Len(t) - (k + l))
    BY <1>7, <1>9
  <2>. QED
    BY <1>1, <1>5, <2>1, <2>2, SMTT(20)
<1>17. ASSUME NEW i \in 0..l PROVE k + d[i] >= 0
  <2>1. e[k + i] \in Int /\ e[k + i] >= 0 /\ d[i] = e[k + i] - k
    BY <1>7, <1>10, <1>11
  <2>. QED
    BY <1>5, <2>1
<1>18. ASSUME NEW j \in 1..l, s[j] \in Closing
       PROVE  \/ \E i \in 1..(j - 1) : Matches(s, d, i, j)
              \/ \A m \in 0..(j - 1) : d[m] > d[j]
  <2>1. k + j \in 1..Len(t) /\ t[k + j] \in Closing /\ j \in 0..l
    BY <1>1, <1>5, <1>6, <1>18
  <2>2. PICK q \in 1..(k + j - 1) : Matches(t, e, q, k + j)
    BY <1>7, <2>1 DEF Matched
  <2>3. /\ q \in Nat /\ q >= 1 /\ q <= k + j - 1 /\ e[q - 1] = e[k + j]
        /\ \A m \in q..(k + j - 1) : e[m] > e[k + j]
        /\ brackets[t[q]] = t[k + j]
    BY <2>2 DEF Matches
  <2>4. d[j] = e[k + j] - k /\ e[k + j] \in Int
    BY <1>10, <1>11, <2>1
  <2>5. CASE q <= k
    <3>1. ASSUME NEW m \in 0..(j - 1) PROVE d[m] > d[j]
      <4>1. CASE k + m >= q
        <5>1. k + m \in q..(k + j - 1) /\ m \in 0..l
          BY <1>5, <2>3, <4>1
        <5>2. e[k + m] > e[k + j] /\ d[m] = e[k + m] - k /\ e[k + m] \in Int
          BY <1>10, <1>11, <2>3, <5>1
        <5>. QED
          BY <1>5, <2>4, <5>2, SMTT(20)
      <4>2. CASE k + m < q
        BY <1>5, <2>3, <2>5, <4>2
      <4>. QED
        BY <1>5, <2>3, <4>1, <4>2
    <3>. QED
      BY <3>1
  <2>6. CASE q > k
    <3>1. PICK i \in Nat : i = q - k
      <4>1. q - k \in Nat
        BY <1>5, <2>3, <2>6
      <4>. QED
        BY <4>1
    <3>2. /\ i \in 1..(j - 1) /\ k + i = q /\ i - 1 \in 0..l /\ i \in 1..l /\ k + (i - 1) = q - 1
      BY <1>5, <2>3, <2>6, <3>1
    <3>3. d[i - 1] = d[j]
      <4>1. d[i - 1] = e[k + (i - 1)] - k
        BY <1>11, <3>2
      <4>. QED
        BY <2>3, <2>4, <3>2, <4>1
    <3>4. ASSUME NEW m \in i..(j - 1) PROVE d[m] > d[j]
      <4>1. k + m \in q..(k + j - 1) /\ m \in 0..l
        <5>1. m \in Int /\ m >= i /\ m <= j - 1 /\ j <= l /\ i >= 1
          BY <3>2
        <5>2. k + m >= q /\ k + m <= k + j - 1 /\ m >= 0 /\ m <= l
          BY <1>5, <3>2, <5>1
        <5>. QED
          BY <1>5, <2>3, <5>1, <5>2
      <4>2. e[k + m] > e[k + j] /\ d[m] = e[k + m] - k /\ e[k + m] \in Int
        BY <1>10, <1>11, <2>3, <4>1
      <4>3. PICK x \in Int, y \in Int : x = e[k + m] /\ y = e[k + j]
        BY <2>4, <4>2
      <4>4. x > y /\ d[m] = x - k /\ d[j] = y - k /\ k \in Int
        BY <1>5, <2>4, <4>2, <4>3
      <4>. QED
        BY <4>4
    <3>5. brackets[s[i]] = s[j]
      BY <1>6, <2>3, <3>2
    <3>6. Matches(s, d, i, j)
      BY <3>2, <3>3, <3>4, <3>5 DEF Matches
    <3>. QED
      BY <3>2, <3>6
  <2>. QED
    BY <1>5, <2>3, <2>5, <2>6
<1>19. Around(t, s, k, d)
  BY <1>4, <1>15, <1>16, <1>17, <1>18 DEF Around
<1>. QED
  BY <1>5, <1>19

-------------------------------------------------------------------------------
(***************************************************************************)
(* What has been read of s, and what it leaves on the stack st.            *)
(***************************************************************************)

\* Each bracket on the stack is one that has been read and is open still.
StillOpen(s, st, a, k, d) ==
  \A i \in 1..Len(st) :
    \E p \in 1..a : s[p] = st[i] /\ d[p] = i - k /\ \A m \in p..a : d[m] >= i - k

\* The brackets put in front are needed.
Lowest(a, k, d) == k = 0 \/ \E p \in 0..a : d[p] = -k

WhileRead(s, st, a, k, d) == d[a] = Len(st) - k /\ StillOpen(s, st, a, k, d) /\ Lowest(a, k, d)

\* lt is how much has been written.
AfterRead(s, lt, st, k, d) == Lowest(Len(s), k, d) /\ lt + Len(st) = 2 * k + Len(s) + d[Len(s)]

LEMMA ReadOpens ==
  ASSUME NEW s \in Seq(Brks), NEW a \in Nat, a < Len(s), s[a + 1] \in Opening,
         NEW st \in Seq(Opening), NEW k \in Nat, NEW d, IsDepth(s, d), WhileRead(s, st, a, k, d)
  PROVE  WhileRead(s, Append(st, s[a + 1]), a + 1, k, d)
<1>1. PICK n \in Nat : n = Len(st)
  OBVIOUS
<1>2. PICK u : u = Append(st, s[a + 1])
  OBVIOUS
<1>3. Len(u) = n + 1 /\ u[n + 1] = s[a + 1] /\ \A i \in 1..n : u[i] = st[i]
  BY <1>1, <1>2
<1>4. d[a + 1] = d[a] + 1 /\ d[a] = n - k
  BY <1>1 DEF IsDepth, WhileRead
<1>5. StillOpen(s, st, a, k, d) /\ Lowest(a, k, d)
  BY DEF WhileRead
<1>6. Lowest(a + 1, k, d)
  BY <1>5 DEF Lowest
<1>7. d[a + 1] = n + 1 - k
  BY <1>4
<1>8. ASSUME NEW i \in 1..(n + 1)
      PROVE  \E p \in 1..(a + 1) : s[p] = u[i] /\ d[p] = i - k /\ \A m \in p..(a + 1) : d[m] >= i - k
  <2>1. CASE i = n + 1
    <3>1. a + 1 \in 1..(a + 1) /\ s[a + 1] = u[i] /\ d[a + 1] = i - k /\ i - k \in Int
      BY <1>3, <1>7, <2>1
    <3>2. ASSUME NEW m \in (a + 1)..(a + 1) PROVE d[m] >= i - k
      <4>1. m = a + 1
        OBVIOUS
      <4>. QED
        BY <3>1, <4>1
    <3>. QED
      BY <3>1, <3>2
  <2>2. CASE i # n + 1
    <3>1. i \in 1..n /\ i \in 1..Len(st) /\ i <= n /\ i \in Int
      BY <1>1, <2>2
    <3>2. PICK p \in 1..a : s[p] = st[i] /\ d[p] = i - k /\ \A m \in p..a : d[m] >= i - k
      BY <1>5, <3>1 DEF StillOpen
    <3>3. ASSUME NEW m \in p..(a + 1) PROVE d[m] >= i - k
      <4>1. CASE m = a + 1
        BY <1>7, <3>1, <4>1
      <4>2. CASE m # a + 1
        <5>1. m \in p..a
          BY <4>2
        <5>. QED
          BY <3>2, <5>1
      <4>. QED
        BY <4>1, <4>2
    <3>4. p \in 1..(a + 1) /\ s[p] = u[i]
      BY <1>3, <3>1, <3>2
    <3>. QED
      BY <3>2, <3>3, <3>4
  <2>. QED
    BY <2>1, <2>2
<1>9. StillOpen(s, u, a + 1, k, d)
  BY <1>3, <1>8 DEF StillOpen
<1>. QED
  BY <1>1, <1>3, <1>6, <1>7, <1>9, <1>2 DEF WhileRead

LEMMA ReadCloses ==
  ASSUME NEW s \in Seq(Brks), NEW a \in Nat, a < Len(s), s[a + 1] \in Closing,
         NEW st \in Seq(Opening), st # <<>>, NEW k \in Nat, NEW d, IsDepth(s, d),
         WhileRead(s, st, a, k, d)
  PROVE  WhileRead(s, SubSeq(st, 1, Len(st) - 1), a + 1, k, d)
<1>1. PICK n \in Nat : n = Len(st) - 1
  <2>1. Len(st) - 1 \in Nat
    OBVIOUS
  <2>. QED
    BY <2>1
<1>2. PICK u : u = SubSeq(st, 1, n)
  OBVIOUS
<1>3. Len(st) = n + 1 /\ Len(u) = n /\ \A i \in 1..n : u[i] = st[i]
  BY <1>1, <1>2
<1>4. s[a + 1] \notin Opening /\ a + 1 \in 1..Len(s)
  BY BracketsMatch
<1>5. d[a + 1] = d[a] - 1 /\ d[a] = n + 1 - k
  BY <1>3, <1>4 DEF IsDepth, WhileRead
<1>6. StillOpen(s, st, a, k, d) /\ Lowest(a, k, d)
  BY DEF WhileRead
<1>7. Lowest(a + 1, k, d)
  BY <1>6 DEF Lowest
<1>8. d[a + 1] = n - k
  BY <1>5
<1>9. ASSUME NEW i \in 1..n
      PROVE  \E p \in 1..(a + 1) : s[p] = u[i] /\ d[p] = i - k /\ \A m \in p..(a + 1) : d[m] >= i - k
  <2>1. i \in 1..Len(st) /\ i <= n /\ i \in Int
    BY <1>3
  <2>2. PICK p \in 1..a : s[p] = st[i] /\ d[p] = i - k /\ \A m \in p..a : d[m] >= i - k
    BY <1>6, <2>1 DEF StillOpen
  <2>3. ASSUME NEW m \in p..(a + 1) PROVE d[m] >= i - k
    <3>1. CASE m = a + 1
      BY <1>8, <2>1, <3>1
    <3>2. CASE m # a + 1
      <4>1. m \in p..a
        BY <3>2
      <4>. QED
        BY <2>2, <4>1
    <3>. QED
      BY <3>1, <3>2
  <2>4. p \in 1..(a + 1) /\ s[p] = u[i]
    BY <1>3, <2>1, <2>2
  <2>. QED
    BY <2>2, <2>3, <2>4
<1>10. StillOpen(s, u, a + 1, k, d)
  BY <1>3, <1>9 DEF StillOpen
<1>. QED
  BY <1>1, <1>3, <1>7, <1>8, <1>10, <1>2 DEF WhileRead

LEMMA ReadAlone ==
  ASSUME NEW s \in Seq(Brks), NEW a \in Nat, a < Len(s), s[a + 1] \in Closing,
         NEW k \in Nat, NEW d, IsDepth(s, d), NEW st, Len(st) = 0, WhileRead(s, st, a, k, d)
  PROVE  WhileRead(s, st, a + 1, k + 1, d)
<1>1. s[a + 1] \notin Opening /\ a + 1 \in 1..Len(s)
  BY BracketsMatch
<1>2. d[a + 1] = d[a] - 1 /\ d[a] = 0 - k
  BY <1>1 DEF IsDepth, WhileRead
<1>3. d[a + 1] = 0 - (k + 1) /\ d[a + 1] = -(k + 1)
  BY <1>2
<1>4. Lowest(a + 1, k + 1, d)
  BY <1>3 DEF Lowest
<1>5. StillOpen(s, st, a + 1, k + 1, d)
  BY DEF StillOpen
<1>. QED
  BY <1>3, <1>4, <1>5 DEF WhileRead

\* When the stack's top and the bracket that has been read do not fit, nothing
\* completes s.
LEMMA MismatchIsFinal ==
  ASSUME NEW s \in Seq(Brks), NEW a \in Nat, a < Len(s), s[a + 1] \in Closing,
         NEW st \in Seq(Opening), st # <<>>, NEW k \in Nat,
         brackets[st[Len(st)]] # s[a + 1],
         NEW d, WhileRead(s, st, a, k, d), NEW t, NEW l \in Nat, Around(t, s, l, d)
  PROVE  FALSE
<1>0. PICK n \in Nat : n = Len(st) /\ n \in 1..Len(st)
  <2>1. Len(st) \in 1..Len(st) /\ Len(st) \in Nat
    OBVIOUS
  <2>. QED
    BY <2>1
<1>1. IsDepth(s, d)
  BY DEF Around
<1>2. PICK j \in Nat : j = a + 1
  OBVIOUS
<1>3. j \in 1..Len(s) /\ s[j] \in Closing /\ s[j] \notin Opening /\ j - 1 = a
  BY <1>2, BracketsMatch
<1>4. d[j] = d[a] - 1 /\ d[a] = n - k
  BY <1>0, <1>1, <1>3 DEF IsDepth, WhileRead
<1>5. PICK p \in 1..a : s[p] = st[n] /\ d[p] = n - k /\ \A m \in p..a : d[m] >= n - k
  BY <1>0 DEF WhileRead, StillOpen
<1>6. p \in Nat /\ p >= 1 /\ p <= a /\ p \in 1..Len(s) /\ s[p] \in Opening
  BY <1>0, <1>5
<1>7. d[p - 1] = d[j] /\ p - 1 \in 0..a /\ d[j] = n - k - 1
  <2>1. d[p] = d[p - 1] + 1 /\ d[p - 1] \in Int
    <3>1. /\ d \in [0..Len(s) -> Int]
          /\ \A m \in 1..Len(s) : d[m] = IF s[m] \in Opening THEN d[m - 1] + 1 ELSE d[m - 1] - 1
      BY <1>1 DEF IsDepth
    <3>2. p - 1 \in 0..Len(s)
      BY <1>6
    <3>. QED
      BY <1>6, <3>1, <3>2
  <2>. QED
    BY <1>0, <1>4, <1>5, <1>6, <2>1
<1>8. ~ \A m \in 0..(j - 1) : d[m] > d[j]
  BY <1>3, <1>7
<1>9. PICK i \in 1..(j - 1) : Matches(s, d, i, j)
  BY <1>3, <1>8 DEF Around
<1>10. /\ i \in Nat /\ i >= 1 /\ i <= a /\ d[i - 1] = d[j] /\ brackets[s[i]] = s[j]
       /\ \A m \in i..a : d[m] > d[j]
  BY <1>3, <1>9 DEF Matches
<1>11. p - 1 < i
  <2>. SUFFICES ASSUME p - 1 >= i PROVE FALSE
    BY <1>6, <1>10
  <2>1. p - 1 \in i..a
    BY <1>6, <1>10
  <2>2. d[p - 1] > d[j]
    BY <1>10, <2>1
  <2>. QED
    BY <1>7, <2>2
<1>12. ~ i > p
  <2>. SUFFICES ASSUME i > p PROVE FALSE
    OBVIOUS
  <2>1. i - 1 \in p..a
    BY <1>6, <1>10
  <2>2. d[i - 1] >= n - k
    BY <1>5, <2>1
  <2>. QED
    BY <1>7, <1>10, <2>2
<1>13. i = p
  BY <1>6, <1>10, <1>11, <1>12
<1>. QED
  BY <1>0, <1>2, <1>5, <1>10, <1>13

\* What has been written, when all has been read and closed, is no longer than
\* any completion.
LEMMA NoneShorter ==
  ASSUME NEW s \in Seq(Brks), NEW lt \in Nat, NEW st, Len(st) = 0, NEW k \in Nat, NEW d,
         AfterRead(s, lt, st, k, d), NEW t, NEW l \in Nat, Around(t, s, l, d)
  PROVE  lt <= Len(t)
<1>1. /\ d[Len(s)] \in Int /\ Len(s) \in Nat /\ d[0] = 0
      /\ lt = 2 * k + Len(s) + d[Len(s)] /\ Len(t) = 2 * l + Len(s) + d[Len(s)]
  BY DEF AfterRead, Around, IsDepth
<1>2. k <= l
  <2>1. CASE k = 0
    BY <2>1
  <2>2. CASE k # 0
    <3>1. PICK p \in 0..Len(s) : d[p] = -k
      BY <2>2 DEF AfterRead, Lowest
    <3>2. l + d[p] >= 0
      BY DEF Around
    <3>. QED
      BY <3>1, <3>2
  <2>. QED
    BY <2>1, <2>2
<1>. QED
  BY <1>1, <1>2

\* What closes the brackets of a stack, from its top.
Closers(st) == [i \in 1..Len(st) |-> brackets[st[Len(st) + 1 - i]]]
Whole(t, st) == t \o Closers(st)

IsWhole(w, t, st) ==
  /\ w \in Seq(Brks) /\ Len(w) = Len(t) + Len(st)
  /\ \A i \in 1..(Len(t) + Len(st)) :
       w[i] = IF i <= Len(t) THEN t[i] ELSE brackets[st[Len(t) + Len(st) + 1 - i]]

LEMMA WholeAt ==
  ASSUME NEW t \in Seq(Brks), NEW st \in Seq(Opening)
  PROVE  /\ IsWhole(Whole(t, st), t, st)
         /\ Whole(t, st) \in Seq(Brks) /\ Len(Whole(t, st)) = Len(t) + Len(st)
         /\ Closers(st) \in Seq(Brks) /\ Len(Closers(st)) = Len(st)
         /\ \A i \in 1..Len(st) : Closers(st)[i] \in Closing
<1>1. PICK l \in Nat, n \in Nat : l = Len(t) /\ n = Len(st)
  OBVIOUS
<1>2. PICK c : c = Closers(st)
  OBVIOUS
<1>3. \A i \in 1..n : n + 1 - i \in 1..n /\ st[n + 1 - i] \in Opening
  <2>. TAKE i \in 1..n
  <2>1. n + 1 - i \in 1..n
    OBVIOUS
  <2>. QED
    BY <1>1, <2>1
<1>4. \A i \in 1..n : brackets[st[n + 1 - i]] \in Brks /\ brackets[st[n + 1 - i]] \in Closing
  BY <1>3, BracketsMatch DEF Brks
<1>5. c = [i \in 1..n |-> brackets[st[n + 1 - i]]]
  BY <1>1, <1>2 DEF Closers
<1>6. c \in Seq(Brks) /\ Len(c) = n /\ \A i \in 1..n : c[i] = brackets[st[n + 1 - i]]
  <2>1. c \in [1..n -> Brks]
    BY <1>4, <1>5
  <2>2. c \in Seq(Brks) /\ Len(c) = n
    BY <1>1, <2>1
  <2>3. ASSUME NEW i \in 1..n PROVE c[i] = brackets[st[n + 1 - i]]
    BY <1>5
  <2>. QED
    BY <2>2, <2>3
<1>7. PICK w : w = t \o c
  OBVIOUS
<1>8. c \in Seq(Brks) /\ Len(c) = n
  BY <1>6
<1>9. w \in Seq(Brks) /\ Len(w) = l + n /\ \A i \in 1..(l + n) : w[i] = IF i <= l THEN t[i] ELSE c[i - l]
  <2>0. c \in Seq(Brks) /\ t \in Seq(Brks)
    BY <1>8
  <2>1. w \in Seq(Brks)
    BY <1>7, <2>0
  <2>2. Len(w) = Len(t) + Len(c)
    BY <1>7, <2>0
  <2>3. Len(w) = l + n
    BY <1>1, <1>8, <2>2
  <2>4. ASSUME NEW i \in 1..(l + n) PROVE w[i] = IF i <= l THEN t[i] ELSE c[i - l]
    BY <1>1, <1>7, <1>8
  <2>. QED
    BY <2>1, <2>3, <2>4
<1>10. ASSUME NEW i \in 1..(l + n)
       PROVE  w[i] = IF i <= l THEN t[i] ELSE brackets[st[l + n + 1 - i]]
  <2>1. CASE i <= l
    BY <1>9, <2>1
  <2>2. CASE i > l
    <3>1. i - l \in 1..n /\ n + 1 - (i - l) = l + n + 1 - i /\ ~ i <= l
      BY <2>2
    <3>2. c[i - l] = brackets[st[n + 1 - (i - l)]]
      BY <1>6, <3>1
    <3>. QED
      BY <1>9, <3>1, <3>2
  <2>. QED
    BY <2>1, <2>2
<1>11. Whole(t, st) = w
  BY <1>2, <1>7 DEF Whole
<1>12. IsWhole(w, t, st)
  BY <1>1, <1>9, <1>10 DEF IsWhole
<1>13. \A i \in 1..Len(st) : c[i] \in Closing
  BY <1>1, <1>4, <1>6
<1>. QED
  BY <1>1, <1>2, <1>8, <1>9, <1>11, <1>12, <1>13

\* An opening bracket that is written and pushed puts a pair into the whole.
LEMMA WholeOpens ==
  ASSUME NEW t \in Seq(Brks), NEW st \in Seq(Opening), NEW b \in Opening
  PROVE  Whole(Append(t, b), Append(st, b)) = Inserted(Whole(t, st), Len(t), b)
<1>1. PICK l \in Nat, n \in Nat : l = Len(t) /\ n = Len(st)
  OBVIOUS
<1>2. PICK t1, st1 : t1 = Append(t, b) /\ st1 = Append(st, b)
  OBVIOUS
<1>3. b \in Brks
  BY DEF Brks
<1>4. /\ t1 \in Seq(Brks) /\ Len(t1) = l + 1 /\ t1[l + 1] = b /\ \A i \in 1..l : t1[i] = t[i]
  BY <1>1, <1>2, <1>3
<1>5. /\ st1 \in Seq(Opening) /\ Len(st1) = n + 1 /\ st1[n + 1] = b /\ \A i \in 1..n : st1[i] = st[i]
  BY <1>1, <1>2
<1>6. PICK w, v, u : w = Whole(t, st) /\ v = Whole(t1, st1) /\ u = Inserted(w, l, b)
  OBVIOUS
<1>7. /\ w \in Seq(Brks) /\ Len(w) = l + n
      /\ \A i \in 1..(l + n) : w[i] = IF i <= l THEN t[i] ELSE brackets[st[l + n + 1 - i]]
  <2>1. IsWhole(w, t, st)
    BY <1>6, WholeAt
  <2>. QED
    BY <1>1, <2>1 DEF IsWhole
<1>8. /\ v \in Seq(Brks) /\ Len(v) = l + 1 + (n + 1)
      /\ \A i \in 1..(l + 1 + (n + 1)) :
           v[i] = IF i <= l + 1 THEN t1[i] ELSE brackets[st1[l + 1 + (n + 1) + 1 - i]]
  <2>1. t1 \in Seq(Brks) /\ st1 \in Seq(Opening)
    BY <1>4, <1>5
  <2>2. IsWhole(v, t1, st1)
    BY <1>6, <2>1, WholeAt
  <2>3. Len(t1) = l + 1 /\ Len(st1) = n + 1
    BY <1>4, <1>5
  <2>. QED
    BY <2>2, <2>3 DEF IsWhole
<1>9. /\ u \in Seq(Brks) /\ Len(u) = l + n + 2
      /\ \A j \in 1..(l + n + 2) : u[j] = IF j <= l THEN w[j] ELSE IF j = l + 1 THEN b
                                   ELSE IF j = l + 2 THEN brackets[b] ELSE w[j - 2]
  <2>1. w \in Seq(Brks) /\ l \in 0..Len(w) /\ Len(w) = l + n
    BY <1>7
  <2>2. IsInserted(u, w, l, b)
    BY <1>6, <2>1, InsertedAt
  <2>. QED
    BY <2>1, <2>2 DEF IsInserted
<1>10. ASSUME NEW i \in 1..(l + n + 2) PROVE u[i] = v[i]
  <2>0. i \in 1..(l + 1 + (n + 1)) /\ i \in Nat
    OBVIOUS
  <2>1. CASE i <= l
    <3>1. i \in 1..l /\ i \in 1..(l + n) /\ i <= l + 1
      BY <2>1
    <3>2. u[i] = w[i] /\ w[i] = t[i]
      BY <1>7, <1>9, <2>1, <3>1
    <3>3. v[i] = t1[i] /\ t1[i] = t[i]
      BY <1>4, <1>8, <2>0, <3>1
    <3>. QED
      BY <3>2, <3>3
  <2>2. CASE i = l + 1
    <3>1. u[i] = b
      BY <1>9, <2>2
    <3>2. v[i] = t1[i] /\ t1[i] = b
      BY <1>4, <1>8, <2>0, <2>2
    <3>. QED
      BY <3>1, <3>2
  <2>3. CASE i = l + 2
    <3>1. u[i] = brackets[b]
      BY <1>9, <2>3
    <3>2. l + 1 + (n + 1) + 1 - i = n + 1 /\ ~ i <= l + 1
      BY <2>3
    <3>3. v[i] = brackets[st1[l + 1 + (n + 1) + 1 - i]]
      BY <1>8, <2>0, <3>2
    <3>. QED
      BY <1>5, <3>1, <3>2, <3>3
  <2>4. CASE i > l + 2
    <3>1. /\ ~ i <= l /\ i # l + 1 /\ i # l + 2 /\ ~ i <= l + 1
          /\ i - 2 \in 1..(l + n) /\ ~ i - 2 <= l
      BY <2>0, <2>4
    <3>2. u[i] = w[i - 2]
      BY <1>9, <3>1
    <3>3. w[i - 2] = brackets[st[l + n + 1 - (i - 2)]]
      BY <1>7, <3>1
    <3>4. v[i] = brackets[st1[l + 1 + (n + 1) + 1 - i]]
      BY <1>8, <2>0, <3>1
    <3>5. PICK q : q = l + n + 3 - i
      OBVIOUS
    <3>6. q = l + n + 1 - (i - 2) /\ q = l + 1 + (n + 1) + 1 - i /\ q \in 1..n
      BY <2>0, <2>4, <3>5
    <3>7. st1[q] = st[q]
      BY <1>5, <3>6
    <3>. QED
      BY <3>2, <3>3, <3>4, <3>6, <3>7
  <2>. QED
    BY <2>0, <2>1, <2>2, <2>3, <2>4
<1>11. u = v
  <2>1. Len(u) = l + n + 2 /\ Len(v) = l + n + 2 /\ u \in Seq(Brks) /\ v \in Seq(Brks)
    BY <1>8, <1>9
  <2>. QED
    BY <1>10, <2>1, SameSequence
<1>. QED
  BY <1>1, <1>2, <1>6, <1>11

\* What closes the stack's top is written, and the top popped: the whole stays.
LEMMA WholeCloses ==
  ASSUME NEW t \in Seq(Brks), NEW st \in Seq(Opening), st # <<>>
  PROVE  Whole(Append(t, brackets[st[Len(st)]]), SubSeq(st, 1, Len(st) - 1)) = Whole(t, st)
<1>1. PICK l \in Nat, n \in Nat : l = Len(t) /\ n = Len(st) - 1
  <2>1. Len(st) - 1 \in Nat /\ Len(t) \in Nat
    OBVIOUS
  <2>. QED
    BY <2>1
<1>2. Len(st) = n + 1 /\ st[n + 1] \in Opening /\ Len(st) - 1 = n
  BY <1>1
<1>3. PICK c : c = brackets[st[n + 1]]
  OBVIOUS
<1>4. c \in Brks
  BY <1>2, <1>3, BracketsMatch DEF Brks
<1>5. PICK t1, st1 : t1 = Append(t, c) /\ st1 = SubSeq(st, 1, n)
  OBVIOUS
<1>6. /\ t1 \in Seq(Brks) /\ Len(t1) = l + 1 /\ t1[l + 1] = c /\ \A i \in 1..l : t1[i] = t[i]
  BY <1>1, <1>4, <1>5
<1>7. /\ st1 \in Seq(Opening) /\ Len(st1) = n /\ \A i \in 1..n : st1[i] = st[i]
  BY <1>2, <1>5
<1>8. PICK w, v : w = Whole(t, st) /\ v = Whole(t1, st1)
  OBVIOUS
<1>9. /\ w \in Seq(Brks) /\ Len(w) = l + (n + 1)
      /\ \A i \in 1..(l + (n + 1)) : w[i] = IF i <= l THEN t[i] ELSE brackets[st[l + (n + 1) + 1 - i]]
  <2>1. IsWhole(w, t, st)
    BY <1>8, WholeAt
  <2>. QED
    BY <1>1, <1>2, <2>1 DEF IsWhole
<1>10. /\ v \in Seq(Brks) /\ Len(v) = l + 1 + n
       /\ \A i \in 1..(l + 1 + n) :
            v[i] = IF i <= l + 1 THEN t1[i] ELSE brackets[st1[l + 1 + n + 1 - i]]
  <2>1. t1 \in Seq(Brks) /\ st1 \in Seq(Opening)
    BY <1>6, <1>7
  <2>2. IsWhole(v, t1, st1)
    BY <1>8, <2>1, WholeAt
  <2>3. Len(t1) = l + 1 /\ Len(st1) = n
    BY <1>6, <1>7
  <2>. QED
    BY <2>2, <2>3 DEF IsWhole
<1>11. ASSUME NEW i \in 1..(l + 1 + n) PROVE w[i] = v[i]
  <2>0. i \in 1..(l + (n + 1)) /\ i \in Nat
    OBVIOUS
  <2>1. CASE i <= l
    <3>1. i \in 1..l /\ i <= l + 1
      BY <2>1
    <3>2. w[i] = t[i]
      BY <1>9, <2>0, <2>1
    <3>3. v[i] = t1[i] /\ t1[i] = t[i]
      BY <1>6, <1>10, <3>1
    <3>. QED
      BY <3>2, <3>3
  <2>2. CASE i = l + 1
    <3>1. ~ i <= l /\ l + (n + 1) + 1 - i = n + 1
      BY <2>2
    <3>2. w[i] = brackets[st[l + (n + 1) + 1 - i]]
      BY <1>9, <2>0, <3>1
    <3>3. v[i] = c
      BY <1>6, <1>10, <2>2
    <3>. QED
      BY <1>3, <3>1, <3>2, <3>3
  <2>3. CASE i > l + 1
    <3>1. ~ i <= l /\ ~ i <= l + 1
      BY <2>0, <2>3
    <3>2. w[i] = brackets[st[l + (n + 1) + 1 - i]]
      BY <1>9, <2>0, <3>1
    <3>3. v[i] = brackets[st1[l + 1 + n + 1 - i]]
      BY <1>10, <3>1
    <3>4. PICK q : q = l + n + 2 - i
      OBVIOUS
    <3>5. q = l + (n + 1) + 1 - i /\ q = l + 1 + n + 1 - i /\ q \in 1..n
      BY <2>0, <2>3, <3>4
    <3>6. st1[q] = st[q]
      BY <1>7, <3>5
    <3>. QED
      BY <3>2, <3>3, <3>5, <3>6
  <2>. QED
    BY <2>0, <2>1, <2>2, <2>3
<1>12. w = v
  <2>1. Len(w) = l + 1 + n /\ Len(v) = l + 1 + n /\ w \in Seq(Brks) /\ v \in Seq(Brks)
    BY <1>9, <1>10
  <2>. QED
    BY <1>11, <2>1, SameSequence
<1>. QED
  BY <1>2, <1>3, <1>5, <1>8, <1>12

\* t is k opening brackets, the first a ones of s, and closing ones.
Written(s, a, t, k) ==
  /\ k + a <= Len(t)
  /\ \A j \in 1..k : t[j] \in Opening
  /\ \A j \in 1..a : t[k + j] = s[j]
  /\ \A j \in (k + a + 1)..Len(t) : t[j] \in Closing

LEMMA WrittenRead ==
  ASSUME NEW s, NEW a \in Nat, NEW t \in Seq(Brks), NEW k \in Nat,
         Written(s, a, t, k), Len(t) = k + a, NEW b \in Brks, b = s[a + 1]
  PROVE  Written(s, a + 1, Append(t, b), k) /\ Len(Append(t, b)) = k + (a + 1)
<1>1. PICK u : u = Append(t, b)
  OBVIOUS
<1>2. Len(u) = k + a + 1 /\ u[k + a + 1] = b /\ \A j \in 1..(k + a) : u[j] = t[j]
  BY <1>1
<1>3. ASSUME NEW j \in 1..k PROVE u[j] \in Opening
  BY <1>2 DEF Written
<1>4. ASSUME NEW j \in 1..(a + 1) PROVE u[k + j] = s[j]
  <2>1. CASE j = a + 1
    BY <1>2, <2>1
  <2>2. CASE j # a + 1
    <3>1. j \in 1..a /\ k + j \in 1..(k + a)
      BY <2>2
    <3>. QED
      BY <1>2, <3>1 DEF Written
  <2>. QED
    BY <2>1, <2>2
<1>5. Written(s, a + 1, u, k)
  BY <1>2, <1>3, <1>4 DEF Written
<1>. QED
  BY <1>1, <1>2, <1>5

LEMMA WrittenRest ==
  ASSUME NEW s, NEW a \in Nat, NEW t \in Seq(Brks), NEW k \in Nat,
         Written(s, a, t, k), NEW c \in Closing
  PROVE  Written(s, a, Append(t, c), k) /\ Len(Append(t, c)) = Len(t) + 1
<1>1. PICK l \in Nat : l = Len(t)
  OBVIOUS
<1>2. c \in Brks
  BY DEF Brks
<1>3. PICK u : u = Append(t, c)
  OBVIOUS
<1>4. Len(u) = l + 1 /\ u[l + 1] = c /\ \A j \in 1..l : u[j] = t[j]
  BY <1>1, <1>2, <1>3
<1>5. k + a <= l
  BY <1>1 DEF Written
<1>6. ASSUME NEW j \in 1..k PROVE u[j] \in Opening
  BY <1>4, <1>5, SMTT(20) DEF Written
<1>7. ASSUME NEW j \in 1..a PROVE u[k + j] = s[j]
  BY <1>4, <1>5 DEF Written
<1>8. ASSUME NEW j \in (k + a + 1)..(l + 1) PROVE u[j] \in Closing
  <2>1. CASE j = l + 1
    BY <1>4, <2>1
  <2>2. CASE j # l + 1
    <3>1. j \in 1..l /\ j \in (k + a + 1)..l
      BY <2>2
    <3>. QED
      BY <1>1, <1>4, <3>1 DEF Written
  <2>. QED
    BY <2>1, <2>2
<1>9. Written(s, a, u, k)
  BY <1>4, <1>5, <1>6, <1>7, <1>8 DEF Written
<1>. QED
  BY <1>1, <1>4, <1>9, <1>3

LEMMA WrittenAlone ==
  ASSUME NEW s, NEW a \in Nat, NEW t \in Seq(Brks), NEW k \in Nat, NEW b \in Opening,
         Written(s, a, t, k), Len(t) = k + a, brackets[b] = s[a + 1]
  PROVE  /\ Written(s, a + 1, Pair(b, t, <<>>), k + 1)
         /\ Len(Pair(b, t, <<>>)) = k + 1 + (a + 1)
<1>1. PICK e : e = <<>>
  OBVIOUS
<1>2. e \in Seq(Brks) /\ Len(e) = 0
  BY <1>1
<1>3. PICK u : u = Pair(b, t, e)
  OBVIOUS
<1>4. /\ Len(u) = k + a + 2
      /\ \A i \in 1..(k + a + 2) :
           u[i] = IF i = 1 THEN b ELSE IF i <= k + a + 1 THEN t[i - 1]
                  ELSE IF i = k + a + 2 THEN brackets[b] ELSE e[i - (k + a) - 2]
  <2>1. IsPair(u, b, t, e)
    BY <1>2, <1>3, PairAt
  <2>. QED
    BY <1>2, <2>1 DEF IsPair
<1>5. ASSUME NEW j \in 1..(k + 1) PROVE u[j] \in Opening
  <2>1. CASE j = 1
    BY <1>4, <2>1
  <2>2. CASE j # 1
    <3>1. j - 1 \in 1..k /\ j \in 1..(k + a + 2) /\ j <= k + a + 1
      BY <2>2
    <3>2. u[j] = t[j - 1]
      BY <1>4, <2>2, <3>1
    <3>. QED
      BY <3>1, <3>2 DEF Written
  <2>. QED
    BY <2>1, <2>2
<1>6. ASSUME NEW j \in 1..(a + 1) PROVE u[k + 1 + j] = s[j]
  <2>1. CASE j = a + 1
    <3>1. k + 1 + j = k + a + 2 /\ k + a + 2 \in 1..(k + a + 2) /\ k + a + 2 # 1 /\ ~ k + a + 2 <= k + a + 1
      BY <2>1
    <3>2. u[k + a + 2] = brackets[b]
      BY <1>4, <3>1
    <3>. QED
      BY <2>1, <3>1, <3>2
  <2>2. CASE j # a + 1
    <3>1. /\ j \in 1..a /\ k + 1 + j \in 1..(k + a + 2) /\ k + 1 + j # 1
          /\ k + 1 + j <= k + a + 1 /\ k + 1 + j - 1 = k + j
      BY <2>2
    <3>2. u[k + 1 + j] = t[k + 1 + j - 1]
      BY <1>4, <3>1
    <3>. QED
      BY <3>1, <3>2 DEF Written
  <2>. QED
    BY <2>1, <2>2
<1>7. Written(s, a + 1, u, k + 1)
  BY <1>4, <1>5, <1>6 DEF Written
<1>. QED
  BY <1>1, <1>3, <1>4, <1>7

LEMMA WholeEmpty ==
  ASSUME NEW t \in Seq(Brks), NEW st \in Seq(Opening), Len(st) = 0
  PROVE  Whole(t, st) = t
<1>1. PICK w : w = Whole(t, st)
  OBVIOUS
<1>2. IsWhole(w, t, st)
  BY <1>1, WholeAt
<1>3. w \in Seq(Brks) /\ Len(w) = Len(t) /\ \A i \in 1..Len(w) : w[i] = t[i]
  <2>1. Len(t) \in Nat /\ Len(t) + Len(st) = Len(t)
    OBVIOUS
  <2>2. w \in Seq(Brks) /\ Len(w) = Len(t)
    BY <1>2, <2>1 DEF IsWhole
  <2>3. ASSUME NEW i \in 1..Len(t) PROVE w[i] = t[i]
    BY <1>2, <2>1 DEF IsWhole
  <2>. QED
    BY <2>2, <2>3
<1>4. w = t
  BY <1>3, SameSequence
<1>. QED
  BY <1>1, <1>4

\* What has been written, closed from the stack, completes what has been read.
LEMMA WrittenCompletes ==
  ASSUME NEW s \in Seq(Brks), NEW a \in 0..Len(s), NEW t \in Seq(Brks),
         NEW st \in Seq(Opening), NEW k \in Nat, Written(s, a, t, k)
  PROVE  Completes(Whole(t, st), SubSeq(s, 1, a))
<1>1. PICK l \in Nat, n \in Nat : l = Len(t) /\ n = Len(st)
  OBVIOUS
<1>2. PICK u : u = SubSeq(s, 1, a)
  OBVIOUS
<1>3. a \in Nat /\ Len(u) = a /\ u \in Seq(Brks) /\ \A j \in 1..a : u[j] = s[j]
  BY <1>2
<1>4. PICK w : w = Whole(t, st)
  OBVIOUS
<1>5. /\ w \in Seq(Brks) /\ Len(w) = l + n
      /\ \A i \in 1..(l + n) : w[i] = IF i <= l THEN t[i] ELSE brackets[st[l + n + 1 - i]]
  <2>1. IsWhole(w, t, st)
    BY <1>4, WholeAt
  <2>. QED
    BY <1>1, <2>1 DEF IsWhole
<1>6. /\ k + a <= l
      /\ \A j \in 1..k : t[j] \in Opening
      /\ \A j \in 1..a : t[k + j] = s[j]
      /\ \A j \in (k + a + 1)..l : t[j] \in Closing
  BY <1>1 DEF Written
<1>7. SubSeq(w, k + 1, k + a) = u
  <2>1. PICK v : v = SubSeq(w, k + 1, k + a)
    OBVIOUS
  <2>2. k + 1 \in 1..(Len(w) + 1) /\ k + a \in 0..Len(w)
    BY <1>3, <1>5, <1>6
  <2>3. v \in Seq(Brks) /\ Len(v) = a
    BY <1>3, <1>5, <2>1, <2>2
  <2>4. ASSUME NEW j \in 1..a PROVE v[j] = u[j]
    <3>1. v[j] = w[k + j]
      BY <1>3, <1>5, <2>1, <2>2
    <3>2. k + j \in 1..(l + n) /\ k + j <= l
      BY <1>3, <1>6
    <3>3. w[k + j] = t[k + j]
      BY <1>5, <3>2
    <3>. QED
      BY <1>3, <1>6, <3>1, <3>3
  <2>5. v = u
    BY <1>3, <2>3, <2>4, SameSequence
  <2>. QED
    BY <2>1, <2>5
<1>8. ASSUME NEW j \in 1..k PROVE w[j] \in Opening
  <2>1. j \in 1..(l + n) /\ j <= l
    BY <1>3, <1>6
  <2>. QED
    BY <1>5, <1>6, <2>1
<1>9. ASSUME NEW j \in (k + a + 1)..(l + n) PROVE w[j] \in Closing
  <2>1. j \in 1..(l + n) /\ j \in Int
    BY <1>3
  <2>2. CASE j <= l
    <3>1. j \in (k + a + 1)..l
      BY <1>3, <2>2
    <3>. QED
      BY <1>5, <1>6, <2>1, <2>2, <3>1
  <2>3. CASE j > l
    <3>1. l + n + 1 - j \in 1..n /\ ~ j <= l
      BY <2>1, <2>3
    <3>2. st[l + n + 1 - j] \in Opening
      BY <1>1, <3>1
    <3>. QED
      BY <1>5, <2>1, <3>1, <3>2, BracketsMatch
  <2>. QED
    BY <2>1, <2>2, <2>3
<1>10. Completes(w, u)
  <2>1. k \in 0..(Len(w) - Len(u))
    BY <1>3, <1>5, <1>6
  <2>. QED
    BY <1>3, <1>5, <1>7, <1>8, <1>9, <2>1 DEF Completes
<1>. QED
  BY <1>2, <1>4, <1>10

-------------------------------------------------------------------------------
(***************************************************************************)
(* What each step of check_brackets keeps: s is the input, a how much of   *)
(* it has been read, t what has been written, st the stack.                *)
(***************************************************************************)

OpenSoFar(a, t, st) == \E n \in 0..a : Whole(t, st) \in Balanced[n]

Reading(s, a, t, st) ==
  \E k \in Nat :
    Written(s, a, t, k) /\ Len(t) = k + a /\ \A d : IsDepth(s, d) => WhileRead(s, st, a, k, d)

Finishing(s, t, st) ==
  \E k \in Nat :
    Written(s, Len(s), t, k) /\ \A d : IsDepth(s, d) => AfterRead(s, Len(t), st, k, d)

NoCompletion(s) == \A n \in 0..MaxLength : \A t \in Balanced[n] : ~ Completes(t, s)

LEMMA OpenKeeps ==
  ASSUME NEW s \in Seq(Brks), NEW a \in Nat, a < Len(s), Len(s) <= MaxLength,
         s[a + 1] \in Opening, NEW t \in Seq(Brks), NEW st \in Seq(Opening),
         OpenSoFar(a, t, st), Reading(s, a, t, st)
  PROVE  /\ OpenSoFar(a + 1, Append(t, s[a + 1]), Append(st, s[a + 1]))
         /\ Reading(s, a + 1, Append(t, s[a + 1]), Append(st, s[a + 1]))
<1>0. PICK b \in Opening : b = s[a + 1]
  OBVIOUS
<1>1. PICK u, v : u = Append(t, b) /\ v = Append(st, b)
  OBVIOUS
<1>2. OpenSoFar(a + 1, u, v)
  <2>1. PICK n \in 0..a : Whole(t, st) \in Balanced[n]
    BY DEF OpenSoFar
  <2>2. n \in Nat /\ n < MaxLength /\ n + 1 \in 0..(a + 1)
    BY BracketsAssumption
  <2>3. InsertKeeps(n)
    BY <2>2, InsertBalanced
  <2>4. Len(t) \in 0..Len(Whole(t, st))
    <3>1. Len(Whole(t, st)) = Len(t) + Len(st)
      BY WholeAt
    <3>2. Len(t) \in Nat /\ Len(st) \in Nat
      OBVIOUS
    <3>. QED
      BY <3>1, <3>2
  <2>5. Inserted(Whole(t, st), Len(t), b) \in Balanced[n + 1]
    BY <2>1, <2>3, <2>4 DEF InsertKeeps
  <2>6. Whole(u, v) \in Balanced[n + 1]
    BY <1>1, <2>5, WholeOpens
  <2>. QED
    BY <2>2, <2>6 DEF OpenSoFar
<1>3. Reading(s, a + 1, u, v)
  <2>1. PICK k \in Nat :
          Written(s, a, t, k) /\ Len(t) = k + a /\ \A d : IsDepth(s, d) => WhileRead(s, st, a, k, d)
    BY DEF Reading
  <2>2. Written(s, a + 1, u, k) /\ Len(u) = k + (a + 1)
    <3>1. b \in Brks
      BY DEF Brks
    <3>. QED
      BY <1>0, <1>1, <2>1, <3>1, WrittenRead
  <2>3. ASSUME NEW d, IsDepth(s, d) PROVE WhileRead(s, v, a + 1, k, d)
    <3>1. WhileRead(s, st, a, k, d)
      BY <2>1, <2>3
    <3>. QED
      BY <1>0, <1>1, <2>3, <3>1, ReadOpens
  <2>. QED
    BY <2>2, <2>3 DEF Reading
<1>. QED
  BY <1>0, <1>1, <1>2, <1>3

LEMMA CloseKeeps ==
  ASSUME NEW s \in Seq(Brks), NEW a \in Nat, a < Len(s), s[a + 1] \in Closing,
         NEW t \in Seq(Brks), NEW st \in Seq(Opening), st # <<>>,
         brackets[st[Len(st)]] = s[a + 1], OpenSoFar(a, t, st), Reading(s, a, t, st)
  PROVE  /\ OpenSoFar(a + 1, Append(t, s[a + 1]), SubSeq(st, 1, Len(st) - 1))
         /\ Reading(s, a + 1, Append(t, s[a + 1]), SubSeq(st, 1, Len(st) - 1))
<1>1. PICK b \in Brks : b = s[a + 1]
  BY DEF Brks
<1>2. PICK u, v : u = Append(t, b) /\ v = SubSeq(st, 1, Len(st) - 1)
  OBVIOUS
<1>3. OpenSoFar(a + 1, u, v)
  <2>1. PICK n \in 0..a : Whole(t, st) \in Balanced[n]
    BY DEF OpenSoFar
  <2>2. Whole(u, v) = Whole(t, st)
    BY <1>1, <1>2, WholeCloses
  <2>3. n \in 0..(a + 1)
    OBVIOUS
  <2>. QED
    BY <2>1, <2>2, <2>3 DEF OpenSoFar
<1>4. Reading(s, a + 1, u, v)
  <2>1. PICK k \in Nat :
          Written(s, a, t, k) /\ Len(t) = k + a /\ \A d : IsDepth(s, d) => WhileRead(s, st, a, k, d)
    BY DEF Reading
  <2>2. Written(s, a + 1, u, k) /\ Len(u) = k + (a + 1)
    BY <1>1, <1>2, <2>1, WrittenRead
  <2>3. ASSUME NEW d, IsDepth(s, d) PROVE WhileRead(s, v, a + 1, k, d)
    <3>1. WhileRead(s, st, a, k, d)
      BY <2>1, <2>3
    <3>. QED
      BY <1>2, <2>3, <3>1, ReadCloses
  <2>. QED
    BY <2>2, <2>3 DEF Reading
<1>. QED
  BY <1>1, <1>2, <1>3, <1>4

LEMMA AloneKeeps ==
  ASSUME NEW s \in Seq(Brks), NEW a \in Nat, a < Len(s), Len(s) <= MaxLength,
         NEW c \in Closing, c = s[a + 1], NEW t \in Seq(Brks), NEW st \in Seq(Opening),
         Len(st) = 0, OpenSoFar(a, t, st), Reading(s, a, t, st)
  PROVE  /\ <<opening[c]>> \o t \o <<c>> \in Seq(Brks)
         /\ OpenSoFar(a + 1, <<opening[c]>> \o t \o <<c>>, st)
         /\ Reading(s, a + 1, <<opening[c]>> \o t \o <<c>>, st)
<1>0. PICK b \in Opening : b = opening[c] /\ brackets[b] = c
  BY BracketsMatch
<1>1. b \in Brks /\ c \in Brks
  BY DEF Brks
<1>2. PICK e : e = <<>>
  OBVIOUS
<1>3. e \in Seq(Brks) /\ Len(e) = 0
  BY <1>2
<1>4. PICK u : u = Pair(b, t, e)
  OBVIOUS
<1>5. u \in Seq(Brks)
  BY <1>3, <1>4, PairAt
<1>6. <<opening[c]>> \o t \o <<c>> = u
  <2>1. PICK v : v = <<b>> \o t \o <<c>>
    OBVIOUS
  <2>2. v \in Seq(Brks)
    BY <1>1, <2>1
  <2>3. v \o <<>> = v
    BY <2>2
  <2>. QED
    BY <1>0, <1>2, <1>4, <2>1, <2>3 DEF Pair
<1>7. OpenSoFar(a + 1, u, st)
  <2>1. PICK n \in 0..a : Whole(t, st) \in Balanced[n]
    BY DEF OpenSoFar
  <2>2. n \in Nat /\ n < n + 1 /\ n + 1 <= MaxLength /\ n + 1 \in Nat /\ n + 1 \in 0..(a + 1)
        /\ n + 1 - 1 - n = 0 /\ 0 \in 0..MaxLength
    BY BracketsAssumption
  <2>3. t \in Balanced[n]
    BY <2>1, WholeEmpty
  <2>4. e \in Balanced[n + 1 - 1 - n]
    BY <1>2, <2>2, BalancedParts
  <2>5. u \in Balanced[n + 1]
    BY <1>4, <2>2, <2>3, <2>4, PairBalanced
  <2>6. Whole(u, st) = u
    BY <1>5, WholeEmpty
  <2>. QED
    BY <2>2, <2>5, <2>6 DEF OpenSoFar
<1>8. Reading(s, a + 1, u, st)
  <2>1. PICK k \in Nat :
          Written(s, a, t, k) /\ Len(t) = k + a /\ \A d : IsDepth(s, d) => WhileRead(s, st, a, k, d)
    BY DEF Reading
  <2>2. Written(s, a + 1, u, k + 1) /\ Len(u) = k + 1 + (a + 1)
    BY <1>0, <1>2, <1>4, <2>1, WrittenAlone
  <2>3. ASSUME NEW d, IsDepth(s, d) PROVE WhileRead(s, st, a + 1, k + 1, d)
    <3>1. WhileRead(s, st, a, k, d)
      BY <2>1, <2>3
    <3>. QED
      BY <2>3, <3>1, ReadAlone
  <2>4. k + 1 \in Nat
    OBVIOUS
  <2>. QED
    BY <2>2, <2>3, <2>4 DEF Reading
<1>. QED
  BY <1>5, <1>6, <1>7, <1>8

LEMMA AllReadKeeps ==
  ASSUME NEW s \in Seq(Brks), NEW t \in Seq(Brks), NEW st \in Seq(Opening),
         Reading(s, Len(s), t, st)
  PROVE  Finishing(s, t, st)
<1>1. PICK k \in Nat :
        /\ Written(s, Len(s), t, k) /\ Len(t) = k + Len(s)
        /\ \A d : IsDepth(s, d) => WhileRead(s, st, Len(s), k, d)
  BY DEF Reading
<1>2. ASSUME NEW d, IsDepth(s, d) PROVE AfterRead(s, Len(t), st, k, d)
  <2>1. d[Len(s)] = Len(st) - k /\ Lowest(Len(s), k, d)
    BY <1>1, <1>2 DEF WhileRead
  <2>2. Len(s) \in Nat /\ Len(st) \in Nat /\ Len(t) \in Nat
    OBVIOUS
  <2>. QED
    BY <1>1, <2>1, <2>2 DEF AfterRead
<1>. QED
  BY <1>1, <1>2 DEF Finishing

LEMMA RestKeeps ==
  ASSUME NEW s \in Seq(Brks), NEW a \in Nat, NEW t \in Seq(Brks), NEW st \in Seq(Opening),
         st # <<>>, OpenSoFar(a, t, st), Finishing(s, t, st)
  PROVE  /\ brackets[st[Len(st)]] \in Brks
         /\ OpenSoFar(a, Append(t, brackets[st[Len(st)]]), SubSeq(st, 1, Len(st) - 1))
         /\ Finishing(s, Append(t, brackets[st[Len(st)]]), SubSeq(st, 1, Len(st) - 1))
<1>1. st[Len(st)] \in Opening
  OBVIOUS
<1>2. PICK c \in Closing : c = brackets[st[Len(st)]]
  BY <1>1, BracketsMatch
<1>3. c \in Brks
  BY DEF Brks
<1>4. PICK v : v = SubSeq(st, 1, Len(st) - 1)
  OBVIOUS
<1>5. PICK u : u = Append(t, c)
  OBVIOUS
<1>6. OpenSoFar(a, u, v)
  BY <1>2, <1>4, <1>5, WholeCloses DEF OpenSoFar
<1>7. Finishing(s, u, v)
  <2>1. PICK k \in Nat :
          Written(s, Len(s), t, k) /\ \A d : IsDepth(s, d) => AfterRead(s, Len(t), st, k, d)
    BY DEF Finishing
  <2>2. Len(s) \in Nat /\ Len(st) \in Nat /\ Len(t) \in Nat /\ Len(v) = Len(st) - 1
    <3>1. Len(s) \in Nat /\ Len(t) \in Nat /\ Len(st) \in Nat /\ Len(st) # 0
      OBVIOUS
    <3>2. Len(v) = Len(st) - 1
      <4>1. PICK n \in Nat : n = Len(st) - 1
        <5>1. Len(st) - 1 \in Nat
          BY <3>1
        <5>. QED
          BY <5>1
      <4>2. v = SubSeq(st, 1, n) /\ n + 1 = Len(st)
        BY <1>4, <3>1, <4>1
      <4>3. Len(v) = n
        BY <4>2
      <4>. QED
        BY <4>1, <4>3
    <3>. QED
      BY <3>1, <3>2
  <2>3. Written(s, Len(s), u, k) /\ Len(u) = Len(t) + 1
    BY <1>5, <2>1, <2>2, WrittenRest
  <2>4. ASSUME NEW d, IsDepth(s, d) PROVE AfterRead(s, Len(u), v, k, d)
    <3>1. AfterRead(s, Len(t), st, k, d)
      BY <2>1, <2>4
    <3>2. Len(u) + Len(v) = Len(t) + Len(st)
      BY <2>2, <2>3
    <3>. QED
      BY <3>1, <3>2 DEF AfterRead
  <2>. QED
    BY <2>3, <2>4 DEF Finishing
<1>. QED
  BY <1>2, <1>3, <1>4, <1>5, <1>6, <1>7

LEMMA MismatchKeeps ==
  ASSUME NEW s \in Seq(Brks), NEW a \in Nat, a < Len(s), s[a + 1] \in Closing,
         NEW t, NEW st \in Seq(Opening), st # <<>>, brackets[st[Len(st)]] # s[a + 1],
         Reading(s, a, t, st)
  PROVE  NoCompletion(s)
<1>. SUFFICES ASSUME NEW n \in 0..MaxLength, NEW w \in Balanced[n], Completes(w, s)
              PROVE  FALSE
  BY DEF NoCompletion
<1>1. PICK k \in Nat : \A d : IsDepth(s, d) => WhileRead(s, st, a, k, d)
  BY DEF Reading
<1>2. PICK l \in Nat : \E d : Around(w, s, l, d)
  BY CompletionDepth
<1>3. PICK d : Around(w, s, l, d)
  BY <1>2
<1>4. IsDepth(s, d)
  BY <1>3 DEF Around
<1>5. WhileRead(s, st, a, k, d)
  BY <1>1, <1>4
<1>. QED
  BY <1>3, <1>5, MismatchIsFinal

\* What is written when the stack is empty is a shortest completion.
LEMMA FinishedIsShortest ==
  ASSUME NEW s \in Seq(Brks), NEW t \in Seq(Brks), NEW st \in Seq(Opening), Len(st) = 0,
         Len(s) <= MaxLength, OpenSoFar(Len(s), t, st), Finishing(s, t, st)
  PROVE  /\ \E n \in 0..MaxLength : t \in Balanced[n]
         /\ Completes(t, s)
         /\ \A n \in 0..MaxLength : \A w \in Balanced[n] : Completes(w, s) => Len(t) <= Len(w)
<1>0. Len(s) \in Nat /\ Len(t) \in Nat
  OBVIOUS
<1>1. Whole(t, st) = t
  BY WholeEmpty
<1>2. PICK k \in Nat :
        Written(s, Len(s), t, k) /\ \A d : IsDepth(s, d) => AfterRead(s, Len(t), st, k, d)
  BY DEF Finishing
<1>3. \E n \in 0..MaxLength : t \in Balanced[n]
  <2>1. PICK n \in 0..Len(s) : Whole(t, st) \in Balanced[n]
    BY DEF OpenSoFar
  <2>2. n \in 0..MaxLength
    BY <1>0, BracketsAssumption
  <2>. QED
    BY <1>1, <2>1, <2>2
<1>4. Completes(t, s)
  <2>1. SubSeq(s, 1, Len(s)) = s /\ Len(s) \in 0..Len(s)
    BY <1>0
  <2>2. Completes(Whole(t, st), SubSeq(s, 1, Len(s)))
    BY <1>2, <2>1, WrittenCompletes
  <2>. QED
    BY <1>1, <2>1, <2>2
<1>5. ASSUME NEW n \in 0..MaxLength, NEW w \in Balanced[n], Completes(w, s)
      PROVE  Len(t) <= Len(w)
  <2>1. PICK l \in Nat : \E d : Around(w, s, l, d)
    BY <1>5, CompletionDepth
  <2>2. PICK d : Around(w, s, l, d)
    BY <2>1
  <2>3. IsDepth(s, d)
    BY <2>2 DEF Around
  <2>4. AfterRead(s, Len(t), st, k, d)
    BY <1>2, <2>3
  <2>. QED
    BY <1>0, <2>2, <2>4, NoneShorter
<1>. QED
  BY <1>3, <1>4, <1>5

-------------------------------------------------------------------------------
(***************************************************************************)
(* The invariant of check_brackets: the deque is sound, what is written    *)
(* and closed from it is balanced, and the depths of what has been read    *)
(* say what is on the stack.                                               *)
(***************************************************************************)

BTypes ==
  /\ IInv
  /\ bracket_seq \in Seq(Brks) /\ Len(bracket_seq) <= MaxLength
  /\ at \in 0..Len(bracket_seq)
  /\ text \in Seq(Brks)
  /\ Contents \in Seq(Opening)
  /\ state \in {"read", "close", "return", "done", "impossible"}

\* In the two loops, and when they are done.
InLoop ==
  /\ OpenSoFar(at, text, Contents)
  /\ state = "read" => Reading(bracket_seq, at, text, Contents)
  /\ state # "read" => at = Len(bracket_seq) /\ Finishing(bracket_seq, text, Contents)

\* What check_brackets returns: the whole answer, or nothing for a mismatch.
Completed == InLoop /\ Contents = <<>>
Mismatch  == text = <<>> /\ NoCompletion(bracket_seq)

Kept ==
  /\ state \in {"read", "close"} => InLoop
  /\ state \in {"return", "done", "impossible"} => Completed \/ Mismatch
  /\ state = "done" => text # <<>>
  /\ state = "impossible" => text = <<>>

BInv == BTypes /\ Kept

LEMMA ContentsLength ==
  IInv => Len(Contents) = dsize /\ (empty <=> Contents = <<>>)
<1>. SUFFICES ASSUME IInv PROVE Len(Contents) = dsize /\ (empty <=> Contents = <<>>)
  OBVIOUS
<1>1. Len(Contents) = dsize /\ Contents \in Seq(Elements \cup {Junk})
  BY ContentsSlots DEF Laid
<1>. QED
  BY <1>1 DEF empty

LEMMA BInvInit == BInit => BInv
<1>. SUFFICES ASSUME BInit PROVE BInv
  OBVIOUS
<1>1. IInv /\ dsize = 0
  BY IInvInit DEF BInit, Init
<1>2. PICK st : st = Contents /\ st = <<>>
  BY <1>1, ContentsLength DEF empty
<1>3. PICK e : e = <<>>
  OBVIOUS
<1>4. e \in Seq(Brks) /\ e \in Seq(Opening) /\ Len(e) = 0
  BY <1>3
<1>5. PICK n \in 0..MaxLength : bracket_seq \in [1..n -> Brks]
  BY DEF BInit, Brks
<1>6. bracket_seq \in Seq(Brks) /\ Len(bracket_seq) = n /\ n \in Nat /\ n <= MaxLength
  BY <1>5, BracketsAssumption
<1>7. at = 0 /\ text = e /\ state = "read" /\ st = e
  BY <1>2, <1>3 DEF BInit
<1>8. OpenSoFar(0, e, e)
  <2>1. Whole(e, e) = e
    BY <1>4, WholeEmpty
  <2>2. 0 \in 0..MaxLength
    BY BracketsAssumption
  <2>3. e \in Balanced[0]
    BY <1>3, <2>2, BalancedParts
  <2>. QED
    BY <2>1, <2>3 DEF OpenSoFar
<1>9. Reading(bracket_seq, 0, e, e)
  <2>1. Written(bracket_seq, 0, e, 0)
    BY <1>4 DEF Written
  <2>2. ASSUME NEW d, IsDepth(bracket_seq, d) PROVE WhileRead(bracket_seq, e, 0, 0, d)
    <3>1. d[0] = 0
      BY <2>2 DEF IsDepth
    <3>2. StillOpen(bracket_seq, e, 0, 0, d)
      BY <1>4 DEF StillOpen
    <3>. QED
      BY <1>4, <3>1, <3>2 DEF WhileRead, Lowest
  <2>. QED
    BY <1>4, <2>1, <2>2 DEF Reading
<1>10. BTypes
  BY <1>1, <1>2, <1>4, <1>6, <1>7 DEF BTypes
<1>. QED
  BY <1>2, <1>7, <1>8, <1>9, <1>10 DEF BInv, InLoop, Kept

LEMMA BOpen == BInv /\ Open => BInv'
<1>. SUFFICES ASSUME BInv, Open PROVE BInv'
  OBVIOUS
<1>1. BTypes /\ state = "read" /\ at < Len(bracket_seq) /\ at' = at + 1
  BY DEF BInv, Open, Reads
<1>2. PICK s, a, t, st : s = bracket_seq /\ a = at /\ t = text /\ st = Contents /\ a \in Nat
  <2>1. at \in Nat
    BY <1>1 DEF BTypes
  <2>. QED
    BY <2>1
<1>3. /\ a \in Nat /\ s \in Seq(Brks) /\ Len(s) <= MaxLength /\ a < Len(s) /\ t \in Seq(Brks)
      /\ st \in Seq(Opening) /\ OpenSoFar(a, t, st) /\ Reading(s, a, t, st)
  BY <1>1, <1>2 DEF BInv, BTypes, Kept, InLoop
<1>4. PICK b : b = s[a + 1]
  OBVIOUS
<1>5. /\ b \in Opening /\ b \in Brks /\ push_back(b) /\ text' = Append(t, b)
      /\ bracket_seq' = s /\ state' = "read" /\ at' = a + 1
  BY <1>1, <1>2, <1>4 DEF Open, bracket, Brks
<1>6. IInv' /\ Contents' = Append(st, b)
  <2>1. b \in Elements /\ IInv
    BY <1>1, <1>5, BracketsMatch DEF BTypes
  <2>. QED
    BY <1>2, <1>5, <2>1, PushBackStep
<1>7. OpenSoFar(a + 1, Append(t, b), Append(st, b)) /\ Reading(s, a + 1, Append(t, b), Append(st, b))
  BY <1>3, <1>4, <1>5, OpenKeeps
<1>8. BTypes'
  <2>1. Append(t, b) \in Seq(Brks) /\ Append(st, b) \in Seq(Opening)
    BY <1>3, <1>5
  <2>2. a + 1 \in 0..Len(s)
    BY <1>3
  <2>. QED
    BY <1>3, <1>5, <1>6, <2>1, <2>2 DEF BTypes
<1>9. Kept'
  BY <1>5, <1>6, <1>7 DEF Kept, InLoop
<1>. QED
  BY <1>8, <1>9 DEF BInv

LEMMA BClose == BInv /\ Close => BInv'
<1>. SUFFICES ASSUME BInv, Close PROVE BInv'
  OBVIOUS
<1>1. BTypes /\ state = "read" /\ at < Len(bracket_seq) /\ at' = at + 1 /\ pop_back
  BY DEF BInv, Close, Reads
<1>2. PICK s, a, t, st : s = bracket_seq /\ a = at /\ t = text /\ st = Contents /\ a \in Nat
  <2>1. at \in Nat
    BY <1>1 DEF BTypes
  <2>. QED
    BY <2>1
<1>3. /\ a \in Nat /\ s \in Seq(Brks) /\ Len(s) <= MaxLength /\ a < Len(s) /\ t \in Seq(Brks)
      /\ st \in Seq(Opening) /\ OpenSoFar(a, t, st) /\ Reading(s, a, t, st)
  BY <1>1, <1>2 DEF BInv, BTypes, Kept, InLoop
<1>4. IInv' /\ st # <<>> /\ answer' = st[Len(st)] /\ Contents' = SubSeq(st, 1, Len(st) - 1)
  BY <1>1, <1>2, PopBackStep DEF BTypes
<1>5. PICK o, c : o = st[Len(st)] /\ c = s[a + 1]
  OBVIOUS
<1>6. buffer'[back] = o
  BY <1>1, <1>2, <1>5, TopIsLast DEF BTypes
<1>7. /\ o \in Opening /\ c \in Closing /\ c \in Brks
      /\ bracket = c /\ bracket_seq' = s /\ at' = a + 1
  <2>1. o \in Opening
    BY <1>3, <1>4, <1>5
  <2>. QED
    BY <1>1, <1>2, <1>5, <2>1 DEF Close, bracket, Brks
<1>8. is_appropriate_brackets(o, c) <=> brackets[o] = c
  BY <1>7, BracketsMatch
<1>9. PICK v : v = SubSeq(st, 1, Len(st) - 1)
  OBVIOUS
<1>10. v \in Seq(Opening)
  BY <1>3, <1>9
<1>11. a + 1 \in 0..Len(s)
  BY <1>3
<1>12. CASE brackets[o] = c
  <2>1. text' = Append(t, c) /\ state' = "read"
    BY <1>1, <1>2, <1>6, <1>7, <1>8, <1>12 DEF Close
  <2>2. OpenSoFar(a + 1, Append(t, c), v) /\ Reading(s, a + 1, Append(t, c), v)
    BY <1>3, <1>4, <1>5, <1>7, <1>9, <1>12, CloseKeeps
  <2>3. BTypes'
    <3>1. Append(t, c) \in Seq(Brks)
      BY <1>3, <1>7
    <3>. QED
      BY <1>3, <1>4, <1>7, <1>9, <1>10, <1>11, <2>1, <3>1 DEF BTypes
  <2>4. Kept'
    BY <1>4, <1>7, <1>9, <2>1, <2>2 DEF Kept, InLoop
  <2>. QED
    BY <2>3, <2>4 DEF BInv
<1>13. CASE brackets[o] # c
  <2>1. text' = <<>> /\ state' = "return"
    BY <1>6, <1>7, <1>8, <1>13 DEF Close
  <2>2. NoCompletion(s)
    BY <1>3, <1>4, <1>5, <1>7, <1>13, MismatchKeeps
  <2>3. BTypes'
    BY <1>3, <1>4, <1>7, <1>9, <1>10, <1>11, <2>1 DEF BTypes
  <2>4. Kept'
    BY <1>7, <2>1, <2>2 DEF Kept, Mismatch
  <2>. QED
    BY <2>3, <2>4 DEF BInv
<1>. QED
  BY <1>12, <1>13

LEMMA BCloseAlone == BInv /\ CloseAlone => BInv'
<1>. SUFFICES ASSUME BInv, CloseAlone PROVE BInv'
  OBVIOUS
<1>1. /\ BTypes /\ state = "read" /\ at < Len(bracket_seq) /\ at' = at + 1
      /\ empty /\ UNCHANGED vars
  BY DEF BInv, CloseAlone, Reads
<1>2. PICK s, a, t, st : s = bracket_seq /\ a = at /\ t = text /\ st = Contents /\ a \in Nat
  <2>1. at \in Nat
    BY <1>1 DEF BTypes
  <2>. QED
    BY <2>1
<1>3. /\ a \in Nat /\ s \in Seq(Brks) /\ Len(s) <= MaxLength /\ a < Len(s) /\ t \in Seq(Brks)
      /\ st \in Seq(Opening) /\ OpenSoFar(a, t, st) /\ Reading(s, a, t, st)
  BY <1>1, <1>2 DEF BInv, BTypes, Kept, InLoop
<1>4. IInv' /\ Contents' = st
  BY <1>1, <1>2, Stutter DEF BTypes
<1>5. Len(st) = 0
  BY <1>1, <1>2, ContentsLength DEF BTypes
<1>6. PICK c, u : c = s[a + 1] /\ u = <<opening[c]>> \o t \o <<c>>
  OBVIOUS
<1>7. c \in Closing /\ text' = u /\ bracket_seq' = s /\ at' = a + 1 /\ state' = "read"
  BY <1>1, <1>2, <1>6 DEF CloseAlone, bracket
<1>8. u \in Seq(Brks) /\ OpenSoFar(a + 1, u, st) /\ Reading(s, a + 1, u, st)
  BY <1>3, <1>5, <1>6, <1>7, AloneKeeps
<1>9. BTypes'
  <2>1. a + 1 \in 0..Len(s)
    BY <1>3
  <2>. QED
    BY <1>3, <1>4, <1>7, <1>8, <2>1 DEF BTypes
<1>10. Kept'
  BY <1>4, <1>7, <1>8 DEF Kept, InLoop
<1>. QED
  BY <1>9, <1>10 DEF BInv

LEMMA BReadAll == BInv /\ ReadAll => BInv'
<1>. SUFFICES ASSUME BInv, ReadAll PROVE BInv'
  OBVIOUS
<1>1. /\ BTypes /\ state = "read" /\ at = Len(bracket_seq) /\ state' = "close"
      /\ UNCHANGED <<vars, bracket_seq, at, text>>
  BY DEF BInv, ReadAll
<1>2. IInv' /\ Contents' = Contents
  BY <1>1, Stutter DEF BTypes
<1>3. OpenSoFar(at, text, Contents) /\ Finishing(bracket_seq, text, Contents)
  BY <1>1, AllReadKeeps DEF BInv, BTypes, Kept, InLoop
<1>4. BTypes'
  BY <1>1, <1>2 DEF BTypes
<1>5. Kept'
  BY <1>1, <1>2, <1>3 DEF Kept, InLoop
<1>. QED
  BY <1>4, <1>5 DEF BInv

LEMMA BCloseRest == BInv /\ CloseRest => BInv'
<1>. SUFFICES ASSUME BInv, CloseRest PROVE BInv'
  OBVIOUS
<1>1. BTypes /\ state = "close" /\ pop_back /\ UNCHANGED <<bracket_seq, at, state>>
  BY DEF BInv, CloseRest
<1>2. PICK s, a, t, st : s = bracket_seq /\ a = at /\ t = text /\ st = Contents /\ a \in Nat
  <2>1. at \in Nat
    BY <1>1 DEF BTypes
  <2>. QED
    BY <2>1
<1>3. /\ a \in Nat /\ s \in Seq(Brks) /\ a = Len(s) /\ t \in Seq(Brks)
      /\ st \in Seq(Opening) /\ OpenSoFar(a, t, st) /\ Finishing(s, t, st)
  BY <1>1, <1>2 DEF BInv, BTypes, Kept, InLoop
<1>4. IInv' /\ st # <<>> /\ Contents' = SubSeq(st, 1, Len(st) - 1)
  BY <1>1, <1>2, PopBackStep DEF BTypes
<1>5. PICK c, v : c = brackets[st[Len(st)]] /\ v = SubSeq(st, 1, Len(st) - 1)
  OBVIOUS
<1>6. text' = Append(t, c)
  BY <1>1, <1>2, <1>5, TopIsLast DEF CloseRest, BTypes
<1>7. c \in Brks /\ OpenSoFar(a, Append(t, c), v) /\ Finishing(s, Append(t, c), v)
  BY <1>3, <1>4, <1>5, RestKeeps
<1>8. Append(t, c) \in Seq(Brks) /\ v \in Seq(Opening)
  BY <1>3, <1>5, <1>7
<1>9. BTypes'
  BY <1>1, <1>4, <1>5, <1>6, <1>8 DEF BTypes
<1>10. Kept'
  BY <1>1, <1>2, <1>3, <1>4, <1>5, <1>6, <1>7 DEF Kept, InLoop
<1>. QED
  BY <1>9, <1>10 DEF BInv

LEMMA BReturn == BInv /\ Return => BInv'
<1>. SUFFICES ASSUME BInv, Return PROVE BInv'
  OBVIOUS
<1>1. /\ BTypes /\ state = "close" /\ state' = "return" /\ empty
      /\ UNCHANGED <<vars, bracket_seq, at, text>>
  BY DEF BInv, Return
<1>2. IInv' /\ Contents' = Contents /\ Contents = <<>>
  BY <1>1, Stutter, ContentsLength DEF BTypes
<1>3. InLoop
  BY <1>1 DEF BInv, Kept
<1>4. BTypes'
  BY <1>1, <1>2 DEF BTypes
<1>5. Kept'
  BY <1>1, <1>2, <1>3 DEF Kept, Completed, InLoop
<1>. QED
  BY <1>4, <1>5 DEF BInv

LEMMA BReport == BInv /\ Report => BInv'
<1>. SUFFICES ASSUME BInv, Report PROVE BInv'
  OBVIOUS
<1>1. /\ BTypes /\ state = "return" /\ UNCHANGED <<vars, bracket_seq, at, text>>
      /\ \/ text = <<>> /\ state' = "impossible"
         \/ text # <<>> /\ state' = "done"
  BY DEF BInv, Report
<1>2. IInv' /\ Contents' = Contents
  BY <1>1, Stutter DEF BTypes
<1>3. Completed \/ Mismatch
  BY <1>1 DEF BInv, Kept
<1>4. BTypes'
  BY <1>1, <1>2 DEF BTypes
<1>5. Kept'
  BY <1>1, <1>2, <1>3 DEF Kept, Completed, Mismatch, InLoop
<1>. QED
  BY <1>4, <1>5 DEF BInv

LEMMA BStutter == BInv /\ UNCHANGED svars => BInv'
<1>. SUFFICES ASSUME BInv, UNCHANGED svars PROVE BInv'
  OBVIOUS
<1>1. UNCHANGED <<vars, bracket_seq, at, text, state>> /\ IInv
  BY DEF svars, BInv, BTypes
<1>2. IInv' /\ Contents' = Contents
  BY <1>1, Stutter
<1>. QED
  BY <1>1, <1>2 DEF BInv, BTypes, Kept, Completed, Mismatch, InLoop

LEMMA BInvStep == BInv /\ [BNext]_svars => BInv'
BY BOpen, BClose, BCloseAlone, BReadAll, BCloseRest, BReturn, BReport, BStutter
DEF BNext

LEMMA BInvHolds == BSpec => []BInv
BY BInvInit, BInvStep, PTL DEF BSpec

LEMMA StackedIsContents == Stacked = Contents
BY DEF Stacked, Contents

LEMMA ReversedIsClosers ==
  ASSUME NEW st \in Seq(Opening)
  PROVE  Reverse([k \in DOMAIN st |-> brackets[st[k]]]) = Closers(st)
<1>1. PICK n \in Nat : n = Len(st) /\ DOMAIN st = 1..n
  OBVIOUS
<1>2. PICK c : c = [k \in DOMAIN st |-> brackets[st[k]]]
  OBVIOUS
<1>3. ASSUME NEW k \in 1..n PROVE brackets[st[k]] \in Brks
  BY <1>1, BracketsMatch DEF Brks
<1>4. c \in [1..n -> Brks]
  BY <1>1, <1>2, <1>3
<1>5. Len(c) = n
  BY <1>4
<1>6. ASSUME NEW i \in 1..n PROVE c[n - i + 1] = brackets[st[n + 1 - i]]
  <2>1. n - i + 1 = n + 1 - i /\ n + 1 - i \in 1..n
    OBVIOUS
  <2>. QED
    BY <1>1, <1>2, <2>1
<1>7. Reverse(c) = [i \in 1..n |-> c[n - i + 1]]
  BY <1>5 DEF Reverse
<1>8. Closers(st) = [i \in 1..n |-> brackets[st[n + 1 - i]]]
  BY <1>1 DEF Closers
<1>9. Reverse(c) = Closers(st)
  BY <1>6, <1>7, <1>8, Zenon
<1>. QED
  BY <1>2, <1>9

\* The grammar tells the words' numbers of pairs apart by their lengths.
LEMMA OpenIsBalanced ==
  ASSUME NEW a \in Nat, a <= MaxLength, NEW t, NEW st, OpenSoFar(a, t, st)
  PROVE  /\ Len(Whole(t, st)) % 2 = 0
         /\ Whole(t, st) \in Balanced[Len(Whole(t, st)) \div 2]
<1>1. PICK n \in 0..a : Whole(t, st) \in Balanced[n]
  BY DEF OpenSoFar
<1>2. n \in 0..MaxLength /\ n \in Nat
  BY BracketsAssumption
<1>3. Len(Whole(t, st)) = 2 * n
  BY <1>1, <1>2, BalancedWord
<1>4. (2 * n) % 2 = 0 /\ (2 * n) \div 2 = n
  BY <1>2
<1>. QED
  BY <1>1, <1>3, <1>4

LEMMA OpenFromBInv == BInv => StackIsOpen
<1>. SUFFICES ASSUME BInv, state \in {"read", "close"} PROVE StackIsOpen
  BY DEF StackIsOpen
<1>1. PICK s, a, t, st : s = bracket_seq /\ a = at /\ t = text /\ st = Contents
  OBVIOUS
<1>2. /\ s \in Seq(Brks) /\ Len(s) <= MaxLength /\ a \in 0..Len(s) /\ t \in Seq(Brks)
      /\ st \in Seq(Opening) /\ OpenSoFar(a, t, st)
  BY <1>1 DEF BInv, BTypes, Kept, InLoop
<1>3. \E k \in Nat : Written(s, a, t, k)
  <2>1. CASE state = "read"
    BY <1>1, <2>1 DEF BInv, Kept, InLoop, Reading
  <2>2. CASE state = "close"
    BY <1>1, <2>2 DEF BInv, Kept, InLoop, Finishing
  <2>. QED
    BY <2>1, <2>2
<1>4. Completes(Whole(t, st), SubSeq(s, 1, a))
  BY <1>2, <1>3, WrittenCompletes
<1>5. Len(Whole(t, st)) % 2 = 0 /\ Whole(t, st) \in Balanced[Len(Whole(t, st)) \div 2]
  <2>1. a \in Nat /\ a <= MaxLength
    BY <1>2, BracketsAssumption
  <2>. QED
    BY <1>2, <2>1, OpenIsBalanced
<1>6. text \o Reverse([k \in DOMAIN Stacked |-> brackets[Stacked[k]]]) = Whole(t, st)
  <2>1. Stacked = st
    BY <1>1, StackedIsContents
  <2>2. Reverse([k \in DOMAIN st |-> brackets[st[k]]]) = Closers(st)
    BY <1>2, ReversedIsClosers
  <2>. QED
    BY <1>1, <2>1, <2>2 DEF Whole
<1>. QED
  BY <1>1, <1>4, <1>5, <1>6 DEF StackIsOpen

LEMMA ShortestFromBInv == BInv => CompletesShortest
<1>. SUFFICES ASSUME BInv PROVE CompletesShortest
  OBVIOUS
<1>1. PICK s, t, st : s = bracket_seq /\ t = text /\ st = Contents
  OBVIOUS
<1>2. s \in Seq(Brks) /\ Len(s) <= MaxLength /\ t \in Seq(Brks) /\ st \in Seq(Opening)
  BY <1>1 DEF BInv, BTypes
<1>3. \A w : w \in Completions <=> \E n \in 0..MaxLength : w \in Balanced[n] /\ Completes(w, s)
  BY <1>1 DEF Completions
<1>4. state \in {"return", "done", "impossible"} => Completed \/ Mismatch
  BY DEF BInv, Kept
<1>5. ASSUME Completed, state # "read"
      PROVE  t \in Completions /\ \A w \in Completions : Len(t) <= Len(w)
  <2>1. Len(st) = 0 /\ OpenSoFar(Len(s), t, st) /\ Finishing(s, t, st)
    BY <1>1, <1>5 DEF Completed, InLoop
  <2>2. /\ \E n \in 0..MaxLength : t \in Balanced[n]
        /\ Completes(t, s)
        /\ \A n \in 0..MaxLength : \A w \in Balanced[n] : Completes(w, s) => Len(t) <= Len(w)
    BY <1>2, <2>1, FinishedIsShortest
  <2>. QED
    BY <1>3, <2>2
<1>6. ASSUME state = "done"
      PROVE  t \in Completions /\ \A w \in Completions : Len(t) <= Len(w)
  <2>1. text # <<>>
    BY <1>6 DEF BInv, Kept
  <2>. QED
    BY <1>4, <1>5, <1>6, <2>1 DEF Mismatch
<1>7. ASSUME state = "impossible" PROVE Completions = {} \/ s = <<>>
  <2>1. CASE Mismatch
    <3>1. \A w : w \notin Completions
      BY <1>1, <1>3, <2>1 DEF Mismatch, NoCompletion
    <3>. QED
      BY <3>1
  <2>2. CASE Completed
    <3>1. Completes(t, s) /\ t = <<>>
      BY <1>1, <1>3, <1>5, <1>7, <2>2 DEF BInv, Kept
    <3>2. Len(t) = 0 /\ Len(s) \in Nat
      BY <1>2, <3>1
    <3>3. Len(s) = 0
      BY <3>1, <3>2 DEF Completes
    <3>. QED
      BY <1>2, <3>3
  <2>. QED
    BY <1>4, <1>7, <2>1, <2>2
<1>. QED
  BY <1>1, <1>6, <1>7 DEF CompletesShortest

(***************************************************************************)
(* check_brackets over the ring buffer, for any elements, input and bound: *)
(* in both loops what has been written, closed from the stack's top down,  *)
(* is a balanced word that completes what has been read.                   *)
(***************************************************************************)
THEOREM StackStaysOpen == BSpec => []StackIsOpen
BY BInvHolds, OpenFromBInv, PTL

(***************************************************************************)
(* What bracket.cpp prints is balanced, completes the line, and no         *)
(* balanced word that completes it is shorter; where it prints IMPOSSIBLE  *)
(* there is none, or the line is empty.                                    *)
(***************************************************************************)
THEOREM AnswerIsShortest == BSpec => []CompletesShortest
BY BInvHolds, ShortestFromBInv, PTL
===============================================================================
