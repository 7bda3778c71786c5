---------------------------- MODULE AlgorithmsProofs ----------------------------
(***************************************************************************)
(* Proofs about Heap, for heaps of any size and any elements: the tree is  *)
(* out of order only where a loop is at work, and the heap is a priority   *)
(* queue.  Behind them, what the programs of ArraySearch find, in arrays   *)
(* of any length, and what PaintedSegments measures, of any segments.      *)
(***************************************************************************)
EXTENDS MCAlgorithms, FiniteSetTheorems, WellFoundedInduction, TLAPS

(***************************************************************************)
(* The invariant.  Slot j has an edge to its parent, and the edge is in    *)
(* order where it is Due.                                                  *)
(***************************************************************************)

\* heapify has sifted slot k, or is not at work.
Built(k) ==
  pc \in {"heapify", "heapify_down"} => k > non_leaf_index \/ non_leaf_index = SizeT - 1

Due(j) ==
  /\ Built(Parent(j))
  /\ pc = "up" => j # elem_index
  /\ pc \in {"down", "heapify_down"} => Parent(j) # elem_index

TreeOrdered == \A j \in Slots \ {0} : Due(j) => Ordered(Parent(j), j)

\* A swap at elem_index leaves its parent in order with its children.
Bridged ==
  pc \in {"up", "down", "heapify_down"} /\ elem_index # 0 /\ Built(Parent(elem_index)) =>
    \A j \in Slots \ {0} : Parent(j) = elem_index => Ordered(Parent(elem_index), j)

\* heapify sifts a slot above its index, and its index is a slot's or has wrapped.
Building ==
  pc = "heapify_down" =>
    /\ elem_index > non_leaf_index \/ non_leaf_index = SizeT - 1
    /\ non_leaf_index < size \/ non_leaf_index = SizeT - 1

IInv == TypeOK /\ TreeOrdered /\ Bridged /\ Building

-------------------------------------------------------------------------------
(***************************************************************************)
(* The tree.                                                               *)
(***************************************************************************)

LEMMA ParentBelow ==
  ASSUME NEW j \in Nat \ {0}
  PROVE  /\ Parent(j) \in Nat /\ Parent(j) < j
         /\ j = 2 * Parent(j) + 1 \/ j = 2 * Parent(j) + 2
BY DEF Parent

LEMMA ChildrenOf ==
  ASSUME NEW k \in Nat
  PROVE  /\ 2 * k + 1 \in Nat \ {0} /\ Parent(2 * k + 1) = k
         /\ 2 * k + 2 \in Nat \ {0} /\ Parent(2 * k + 2) = k
BY DEF Parent

LEMMA SlotTypes ==
  ASSUME TypeOK
  PROVE  /\ MaxSize \in Nat /\ SizeT \in Nat
         /\ Len(heap) \in Nat /\ size = Len(heap) /\ size <= MaxSize /\ size < SizeT - 1
         /\ Slots = 0..(size - 1)
         /\ \A j \in Slots : j \in Nat /\ j < size /\ At(j) \in Elements /\ At(j) \in Int
<1>1. heap \in Seq(Elements) /\ size = Len(heap) /\ size <= MaxSize
  BY DEF TypeOK
<1>2. Len(heap) \in Nat
  BY <1>1
<1>3. \A j \in Slots : j \in Nat /\ j < size /\ j + 1 \in 1..Len(heap)
  BY <1>1, <1>2 DEF Slots
<1>4. \A j \in Slots : At(j) \in Elements
  BY <1>1, <1>3 DEF At
<1>8. Elements \subseteq Int
  BY HeapAssumption
<1>5. MaxSize \in Nat /\ SizeT \in Nat /\ 2 * MaxSize + 2 < SizeT
  BY HeapAssumption
<1>6. size < SizeT - 1
  BY <1>1, <1>2, <1>5
<1>7. Slots = 0..(size - 1)
  BY <1>1 DEF Slots
<1>. QED
  BY <1>1, <1>2, <1>3, <1>4, <1>5, <1>6, <1>7, <1>8

\* What a swap of two slots does.
LEMMA SwapTypes ==
  ASSUME TypeOK, NEW a \in Slots, NEW b \in Slots
  PROVE  /\ Swapped(heap, a, b) \in Seq(Elements)
         /\ Len(Swapped(heap, a, b)) = Len(heap)
         /\ Swapped(heap, a, b)[a + 1] = At(b)
         /\ Swapped(heap, a, b)[b + 1] = At(a)
         /\ \A j \in Slots : j # a /\ j # b => Swapped(heap, a, b)[j + 1] = At(j)
<1>1. heap \in Seq(Elements) /\ Len(heap) \in Nat
  BY SlotTypes DEF TypeOK
<1>2. \A j \in Slots : j \in Nat /\ j + 1 \in 1..Len(heap) /\ At(j) \in Elements
  BY SlotTypes DEF Slots
<1>3. DOMAIN heap = 1..Len(heap)
  BY <1>1
<1>. DEFINE h == Swapped(heap, a, b)
<1>4. /\ \A k \in 1..Len(heap) : h[k] \in Elements
      /\ h = [k \in 1..Len(heap) |-> h[k]]
  <2>1. h = [[heap EXCEPT ![a + 1] = heap[b + 1]] EXCEPT ![b + 1] = heap[a + 1]]
    BY DEF Swapped
  <2>2. heap[a + 1] \in Elements /\ heap[b + 1] \in Elements
    BY <1>2 DEF At
  <2>3. \A k \in 1..Len(heap) : heap[k] \in Elements
    BY <1>1
  <2>. QED
    BY <1>3, <2>1, <2>2, <2>3
<1>5. h \in [1..Len(heap) -> Elements]
  BY <1>4
<1>6. h \in Seq(Elements) /\ Len(h) = Len(heap)
  BY <1>1, <1>5
<1>7. /\ h[a + 1] = At(b) /\ h[b + 1] = At(a)
      /\ \A j \in Slots : j # a /\ j # b => h[j + 1] = At(j)
  BY <1>2, <1>3 DEF Swapped, At
<1>. QED
  BY <1>6, <1>7

-------------------------------------------------------------------------------
(***************************************************************************)
(* Sifting down.                                                           *)
(***************************************************************************)

\* The child index_to_swap picks, when it picks one.
LEMMA Picked ==
  ASSUME TypeOK, left_child_index < size
  PROVE  /\ elem_index \in Slots /\ left_child_index \in Slots
         /\ index_to_swap # elem_index =>
              /\ index_to_swap \in Slots \ {0} /\ Parent(index_to_swap) = elem_index
              /\ At(index_to_swap) < At(elem_index)
              /\ \A j \in Slots \ {0} :
                   Parent(j) = elem_index => At(index_to_swap) <= At(j)
         /\ index_to_swap = elem_index =>
              \A j \in Slots \ {0} : Parent(j) = elem_index => At(elem_index) <= At(j)
<1>. DEFINE k == elem_index
            l == left_child_index
            r == right_child_index
            c == index_to_swap
<1>1. k \in Nat /\ l = 2 * k + 1 /\ r = 2 * k + 2 /\ Slots = 0..(size - 1) /\ size \in Nat
  <2>1. elem_index \in 0..MaxSize /\ MaxSize \in Nat
    BY HeapAssumption DEF TypeOK
  <2>2. elem_index \in Nat
    BY <2>1
  <2>. QED
    BY <2>2, SlotTypes DEF left_child_index, right_child_index
<1>2. k \in Slots /\ l \in Slots \ {0} /\ (r < size => r \in Slots \ {0})
  BY <1>1
<1>3. Parent(l) = k /\ Parent(r) = k
  BY <1>1, ChildrenOf
<1>4. \A j \in Slots \ {0} : Parent(j) = k => j = l \/ (j = r /\ r < size)
  <2>1. \A j \in Slots \ {0} : j \in Nat \ {0} /\ j < size
    BY <1>1
  <2>. QED
    BY <1>1, <2>1, ParentBelow
<1>5. /\ At(k) \in Int /\ At(l) \in Int /\ (r < size => At(r) \in Int)
  BY <1>2, SlotTypes
<1>6. k # l /\ k # r /\ l # r
  BY <1>1
<1>7. \/ c = r /\ r < size /\ At(r) < At(k) /\ At(r) < At(l)
      \/ c = l /\ At(l) < At(k) /\ (r < size => At(l) <= At(r))
      \/ c = k /\ At(k) <= At(l) /\ (r < size => At(k) <= At(r))
  BY <1>2, <1>5 DEF index_to_swap
<1>. HIDE DEF k, l, r, c
<1>8. c # k => /\ c \in Slots \ {0} /\ Parent(c) = k /\ At(c) < At(k)
               /\ \A j \in Slots \ {0} : Parent(j) = k => At(c) <= At(j)
  BY <1>2, <1>3, <1>4, <1>5, <1>6, <1>7
<1>9. c = k => \A j \in Slots \ {0} : Parent(j) = k => At(k) <= At(j)
  BY <1>4, <1>5, <1>6, <1>7
<1>. QED
  BY <1>2, <1>8, <1>9 DEF k, l, r, c

\* A swap of slot k with its child c that is least: the edges that are due
\* stay in order, and the edge below c becomes the one that is not.
LEMMA DownStep ==
  ASSUME IInv, pc \in {"down", "heapify_down"},
         left_child_index < size, index_to_swap # elem_index,
         heap' = Swapped(heap, elem_index, index_to_swap),
         elem_index' = index_to_swap, UNCHANGED <<size, pc, non_leaf_index, got>>
  PROVE  IInv'
<1>. DEFINE k == elem_index
            c == index_to_swap
<1>. USE DEF IInv
<1>1. /\ k \in Slots /\ c \in Slots \ {0} /\ Parent(c) = k /\ At(c) < At(k)
      /\ \A j \in Slots \ {0} : Parent(j) = k => At(c) <= At(j)
  BY Picked
<1>2. /\ Slots = 0..(size - 1) /\ size \in Nat /\ size <= MaxSize /\ size = Len(heap)
      /\ MaxSize \in Nat
      /\ \A j \in Slots : j \in Nat /\ j < size /\ At(j) \in Int
  BY SlotTypes
<1>3. /\ heap' \in Seq(Elements) /\ Len(heap') = Len(heap)
      /\ heap'[k + 1] = At(c) /\ heap'[c + 1] = At(k)
      /\ \A j \in Slots : j # k /\ j # c => heap'[j + 1] = At(j)
  <2>1. k \in Slots /\ c \in Slots /\ heap' = Swapped(heap, k, c)
    BY <1>1
  <2>. HIDE DEF k, c
  <2>. QED
    BY <2>1, SwapTypes
<1>4. Slots' = Slots
  BY <1>3 DEF Slots
<1>5. k < c /\ k \in Nat /\ c \in Nat
  BY <1>1, <1>2, ParentBelow
<1>6. TypeOK'
  <2>1. c \in Nat /\ c < size
    BY <1>1, <1>2
  <2>2. c \in 0..MaxSize
    BY <1>2, <2>1
  <2>. QED
    BY <1>2, <1>3, <2>1, <2>2 DEF TypeOK
<1>7. /\ non_leaf_index \in Nat /\ SizeT \in Nat
      /\ \A j \in Nat \ {0} : Parent(j) \in Nat /\ Parent(j) < j
  BY SlotTypes, ParentBelow DEF TypeOK
<1>8. Building'
  BY <1>5, <1>7 DEF Building
<1>9. \A j \in Slots \ {0} : Due(j)' <=> Built(Parent(j)) /\ Parent(j) # c
  BY DEF Due, Built
\* Slot c and all below it have been built.
<1>10. Built(c)
  BY <1>5, <1>7 DEF Building, Built
<1>11. TreeOrdered'
  <2>. SUFFICES ASSUME NEW j \in Slots \ {0}, Built(Parent(j)), Parent(j) # c
                PROVE  heap'[Parent(j) + 1] <= heap'[j + 1]
    BY <1>4, <1>9 DEF TreeOrdered, Ordered, At
  <2>1. j \in Nat \ {0} /\ Parent(j) < j /\ Parent(j) \in Slots
    BY <1>2, <1>7
  <2>2. At(j) \in Int /\ At(k) \in Int /\ At(c) \in Int /\ At(Parent(j)) \in Int
    BY <1>1, <1>2, <2>1
  <2>3. CASE j = c
    BY <1>1, <1>3, <2>2, <2>3
  <2>4. CASE j # c /\ Parent(j) = k
    BY <1>1, <1>3, <2>1, <2>4
  <2>5. CASE j = k
    <3>1. Ordered(Parent(k), c)
      BY <1>1, <2>5 DEF Bridged
    <3>2. heap'[Parent(j) + 1] = At(Parent(j))
      <4>1. Parent(j) # k /\ Parent(j) # c
        BY <1>2, <1>5, <2>1, <2>5
      <4>. QED
        BY <1>3, <2>1, <4>1
    <3>. QED
      BY <1>3, <2>5, <3>1, <3>2 DEF Ordered
  <2>6. CASE j # c /\ j # k /\ Parent(j) # k
    <3>1. Due(j)
      BY <2>6 DEF Due
    <3>. QED
      BY <1>3, <2>1, <2>6, <3>1 DEF TreeOrdered, Ordered
  <2>. QED
    BY <2>3, <2>4, <2>5, <2>6
<1>12. Bridged'
  <2>. SUFFICES ASSUME NEW j \in Slots \ {0}, Parent(j) = c
                PROVE  heap'[k + 1] <= heap'[j + 1]
    BY <1>1, <1>4 DEF Bridged, Ordered, At
  <2>1. j \in Nat \ {0} /\ c < j
    BY <1>2, <1>7
  <2>2. j # c /\ j # k /\ Due(j)
    BY <1>5, <1>10, <2>1 DEF Due
  <2>3. At(c) <= At(j)
    BY <2>2 DEF TreeOrdered, Ordered
  <2>. QED
    BY <1>3, <2>2, <2>3
<1>. QED
  BY <1>6, <1>8, <1>11, <1>12

\* The end of sifting down: the slot is in order with its children.
LEMMA DownEnds ==
  ASSUME IInv, pc \in {"down", "heapify_down"},
         left_child_index < size => index_to_swap = elem_index,
         pc' = Caller, UNCHANGED <<heap, elem_index, size, non_leaf_index, got>>
  PROVE  IInv'
<1>. USE DEF IInv
<1>1. /\ Slots = 0..(size - 1) /\ size \in Nat /\ elem_index \in Nat
      /\ \A j \in Slots \ {0} : j \in Nat \ {0} /\ j < size
      /\ \A j \in Nat \ {0} : Parent(j) \in Nat /\ Parent(j) < j
                              /\ (j = 2 * Parent(j) + 1 \/ j = 2 * Parent(j) + 2)
  BY SlotTypes, ParentBelow DEF TypeOK
<1>2. pc' = IF pc = "down" THEN "idle" ELSE "heapify"
  BY DEF Caller
<1>3. TypeOK'
  BY <1>2 DEF TypeOK, Building
<1>4. ASSUME NEW j \in Slots \ {0}, Parent(j) = elem_index
      PROVE  Ordered(elem_index, j)
  <2>1. left_child_index < size
    BY <1>1, <1>4, SMTT(30) DEF left_child_index
  <2>. QED
    BY <1>4, <2>1, Picked DEF Ordered
<1>5. \A j \in Slots \ {0} : Due(j)' => Built(Parent(j))
  BY <1>2 DEF Due, Built
<1>6. TreeOrdered'
  <2>. SUFFICES ASSUME NEW j \in Slots \ {0}, Built(Parent(j)) PROVE Ordered(Parent(j), j)
    BY <1>5 DEF TreeOrdered, Slots, Ordered, At
  <2>1. Parent(j) # elem_index => Due(j)
    BY DEF Due
  <2>. QED
    BY <1>4, <2>1 DEF TreeOrdered
<1>7. Bridged' /\ Building'
  BY <1>2 DEF Bridged, Building
<1>. QED
  BY <1>3, <1>6, <1>7

-------------------------------------------------------------------------------
(***************************************************************************)
(* The other steps.                                                        *)
(***************************************************************************)

LEMMA UpStep ==
  ASSUME IInv, pc = "up", elem_index # 0, At(elem_index) < At(parent_index),
         heap' = Swapped(heap, elem_index, parent_index),
         elem_index' = parent_index, UNCHANGED <<size, pc, non_leaf_index, got>>
  PROVE  IInv'
<1>. USE DEF IInv
<1>. DEFINE k == elem_index
            q == Parent(elem_index)
<1>1. /\ Slots = 0..(size - 1) /\ size \in Nat /\ size <= MaxSize /\ size = Len(heap)
      /\ MaxSize \in Nat
      /\ \A j \in Slots : j \in Nat /\ j < size /\ At(j) \in Int
  BY SlotTypes
<1>2. \A j \in Nat \ {0} : Parent(j) \in Nat /\ Parent(j) < j
  BY ParentBelow
<1>3. k \in Nat \ {0} /\ k < size /\ q \in Nat /\ q < k /\ q = parent_index
  <2>1. k \in Nat \ {0} /\ k < size
    BY <1>1 DEF TypeOK
  <2>. QED
    BY <1>2, <2>1 DEF parent_index, Parent
<1>4. k \in Slots /\ q \in Slots
  BY <1>1, <1>3
<1>5. /\ heap' \in Seq(Elements) /\ Len(heap') = Len(heap)
      /\ heap'[k + 1] = At(q) /\ heap'[q + 1] = At(k) /\ At(k) < At(q)
      /\ \A j \in Slots : j # k /\ j # q => heap'[j + 1] = At(j)
  BY <1>3, <1>4, SwapTypes
<1>6. Slots' = Slots
  BY <1>5 DEF Slots
<1>7. TypeOK'
  <2>1. q \in 0..MaxSize /\ q < size
    BY <1>1, <1>3
  <2>. QED
    BY <1>1, <1>3, <1>5, <2>1 DEF TypeOK
<1>8. \A j \in Slots \ {0} : (Due(j)' <=> j # q) /\ (Due(j) <=> j # k)
  BY <1>3 DEF Due, Built
<1>9. \A j \in Slots \ {0} : Parent(j) = k => Ordered(q, j)
  BY <1>3 DEF Bridged, Built
<1>10. TreeOrdered'
  <2>. SUFFICES ASSUME NEW j \in Slots \ {0}, j # q
                PROVE  heap'[Parent(j) + 1] <= heap'[j + 1]
    BY <1>6, <1>8 DEF TreeOrdered, Ordered, At
  <2>1. j \in Nat \ {0} /\ Parent(j) < j /\ Parent(j) \in Slots
    BY <1>1, <1>2
  <2>2. At(j) \in Int /\ At(k) \in Int /\ At(q) \in Int
    BY <1>1, <1>4, <2>1
  <2>3. CASE j = k
    BY <1>5, <2>2, <2>3
  <2>4. CASE j # k /\ Parent(j) = q
    <3>1. At(q) <= At(j)
      BY <1>8, <2>4 DEF TreeOrdered, Ordered
    <3>. QED
      BY <1>5, <2>2, <2>4, <3>1
  <2>5. CASE j # k /\ Parent(j) = k
    <3>1. At(q) <= At(j)
      BY <1>9, <2>5 DEF Ordered
    <3>. QED
      BY <1>5, <2>5, <3>1
  <2>6. CASE j # k /\ Parent(j) # q /\ Parent(j) # k
    <3>1. At(Parent(j)) <= At(j)
      BY <1>8, <2>6 DEF TreeOrdered, Ordered
    <3>. QED
      BY <1>5, <2>1, <2>6, <3>1
  <2>. QED
    BY <2>3, <2>4, <2>5, <2>6
<1>11. Bridged'
  <2>. SUFFICES ASSUME q # 0, NEW j \in Slots \ {0}, Parent(j) = q
                PROVE  heap'[Parent(q) + 1] <= heap'[j + 1]
    BY <1>3, <1>6 DEF Bridged, Ordered, At
  <2>1. j \in Nat \ {0} /\ q < j /\ Parent(q) \in Nat /\ Parent(q) < q /\ Parent(q) \in Slots
    BY <1>1, <1>2, <1>3
  <2>2. heap'[Parent(q) + 1] = At(Parent(q))
    BY <1>3, <1>5, <2>1
  <2>3. At(Parent(q)) <= At(q)
    BY <1>3, <1>4, <1>8 DEF TreeOrdered, Ordered
  <2>4. At(j) \in Int /\ At(q) \in Int /\ At(Parent(q)) \in Int
    BY <1>1, <1>4, <2>1
  <2>5. CASE j = k
    BY <1>5, <2>2, <2>3, <2>5
  <2>6. CASE j # k
    <3>1. At(q) <= At(j)
      BY <1>8, <2>1, <2>6 DEF TreeOrdered, Ordered
    <3>2. heap'[j + 1] = At(j)
      BY <1>5, <2>1, <2>6
    <3>. QED
      BY <2>2, <2>3, <2>4, <3>1, <3>2
  <2>. QED
    BY <2>5, <2>6
<1>12. Building'
  BY DEF Building
<1>. QED
  BY <1>7, <1>10, <1>11, <1>12

LEMMA InitHolds ==
  ASSUME Init
  PROVE  IInv
<1>1. PICK n \in 0..MaxSize : heap \in [1..n -> Elements]
  BY DEF Init
<1>2. MaxSize \in Nat /\ SizeT \in Nat /\ 2 * MaxSize + 2 < SizeT
  BY HeapAssumption
<1>3. heap \in Seq(Elements) /\ Len(heap) = n /\ size = n /\ n \in Nat /\ n <= MaxSize
  BY <1>1, <1>2 DEF Init
<1>4. non_leaf_index = (n \div 2 - 1) % SizeT
  BY <1>3 DEF Init
<1>5. \/ n \in {0, 1} /\ non_leaf_index = SizeT - 1
      \/ n >= 2 /\ non_leaf_index = n \div 2 - 1 /\ non_leaf_index < n
  <2>1. CASE n < 2
    <3>1. n \div 2 = 0 /\ n \in {0, 1}
      BY <1>3, <2>1
    <3>2. (-1) % SizeT = SizeT - 1
      BY <1>2
    <3>. QED
      BY <1>4, <3>1, <3>2
  <2>2. CASE n >= 2
    <3>1. n \div 2 - 1 \in 0..(SizeT - 1) /\ n \div 2 - 1 < n
      BY <1>2, <1>3, <2>2
    <3>2. \A m \in 0..(SizeT - 1) : m % SizeT = m
      BY <1>2
    <3>. QED
      BY <1>4, <2>2, <3>1, <3>2
  <2>. QED
    BY <1>3, <2>1, <2>2
<1>6. TypeOK
  <2>1. non_leaf_index \in 0..(SizeT - 1)
    BY <1>2, <1>3, <1>5
  <2>2. elem_index \in 0..MaxSize /\ got \in SUBSET Elements /\ pc = "heapify"
    BY <1>2 DEF Init
  <2>. QED
    BY <1>3, <1>5, <2>1, <2>2 DEF TypeOK
<1>7. ASSUME NEW j \in Slots \ {0} PROVE ~ Built(Parent(j))
  <2>1. j \in Nat \ {0} /\ j < n
    BY <1>3 DEF Slots
  <2>2. Parent(j) \in Nat /\ (j = 2 * Parent(j) + 1 \/ j = 2 * Parent(j) + 2)
    BY <2>1, ParentBelow
  <2>3. n >= 2 /\ Parent(j) <= n \div 2 - 1
    BY <1>3, <2>1, <2>2
  <2>4. Parent(j) <= non_leaf_index /\ non_leaf_index < SizeT - 1 /\ non_leaf_index \in Nat
    BY <1>2, <1>3, <1>5, <2>3
  <2>. QED
    BY <1>2, <2>2, <2>4 DEF Built, Init
<1>. QED
  BY <1>6, <1>7 DEF IInv, TreeOrdered, Due, Bridged, Building, Init

LEMMA HeapifyStep ==
  ASSUME IInv, Heapify
  PROVE  IInv'
<1>. USE DEF IInv
<1>1. /\ pc = "heapify" /\ UNCHANGED <<heap, size, got>>
      /\ non_leaf_index < size \/ non_leaf_index = SizeT - 1
      /\ non_leaf_index \in 0..(SizeT - 1)
  BY DEF Heapify, TypeOK
<1>2. /\ MaxSize \in Nat /\ SizeT \in Nat /\ size \in Nat /\ size <= MaxSize /\ size < SizeT - 1
      /\ \A j \in Slots : j \in Nat
      /\ \A j \in Nat \ {0} : Parent(j) \in Nat
  BY SlotTypes, ParentBelow
<1>3. Slots' = Slots /\ \A j, l : Ordered(j, l)' <=> Ordered(j, l)
  BY <1>1 DEF Slots, Ordered, At
<1>4. CASE non_leaf_index < size
  <2>1. /\ pc' = "heapify_down" /\ elem_index' = non_leaf_index
        /\ non_leaf_index' = (non_leaf_index - 1) % SizeT
    BY <1>4 DEF Heapify
  <2>2. \/ non_leaf_index > 0 /\ non_leaf_index' = non_leaf_index - 1
        \/ non_leaf_index = 0 /\ non_leaf_index' = SizeT - 1
    <3>1. (-1) % SizeT = SizeT - 1 /\ \A m \in 0..(SizeT - 1) : m % SizeT = m
      BY <1>2
    <3>2. non_leaf_index > 0 => non_leaf_index - 1 \in 0..(SizeT - 1)
      BY <1>1, <1>2
    <3>. QED
      BY <1>1, <2>1, <3>1, <3>2
  <2>3. TypeOK'
    <3>1. non_leaf_index' \in 0..(SizeT - 1) /\ non_leaf_index \in 0..MaxSize
      BY <1>1, <1>2, <1>4, <2>2
    <3>. QED
      BY <1>1, <1>4, <2>1, <3>1 DEF TypeOK
  <2>4. Building'
    BY <1>1, <1>2, <1>4, <2>1, <2>2 DEF Building
  <2>5. ASSUME NEW j \in Slots \ {0}
        PROVE  Due(j)' => Due(j)
    <3>1. Parent(j) \in Nat
      BY <1>2
    <3>2. Due(j)' => /\ Parent(j) > non_leaf_index' \/ non_leaf_index' = SizeT - 1
                     /\ Parent(j) # non_leaf_index
      BY <2>1 DEF Due, Built
    <3>3. Due(j)' => Parent(j) > non_leaf_index
      BY <1>1, <1>2, <1>4, <2>2, <3>1, <3>2
    <3>. QED
      BY <1>1, <3>3 DEF Due, Built
  <2>6. TreeOrdered'
    BY <1>3, <2>5 DEF TreeOrdered
  <2>7. Bridged'
    <3>1. non_leaf_index # 0 => Parent(non_leaf_index) <= non_leaf_index - 1
                                /\ Parent(non_leaf_index) \in Nat
      BY <1>1, <1>2, ParentBelow
    <3>2. elem_index' # 0 => ~ Built(Parent(elem_index))'
      BY <1>1, <1>2, <1>4, <2>1, <2>2, <3>1 DEF Built, Parent
    <3>. QED
      BY <3>2 DEF Bridged
  <2>. QED
    BY <2>3, <2>4, <2>6, <2>7
<1>5. CASE ~ (non_leaf_index < size)
  <2>1. /\ pc' = "idle" /\ UNCHANGED <<elem_index, non_leaf_index>>
        /\ non_leaf_index = SizeT - 1
    BY <1>1, <1>5 DEF Heapify
  <2>2. TypeOK'
    BY <1>1, <2>1 DEF TypeOK
  <2>3. \A j : Due(j)
    BY <1>1, <2>1 DEF Due, Built
  <2>4. TreeOrdered'
    BY <1>3, <2>3 DEF TreeOrdered
  <2>. QED
    BY <2>1, <2>2, <2>4 DEF Bridged, Building
<1>. QED
  BY <1>4, <1>5

LEMMA PushStep ==
  ASSUME IInv, NEW e \in Elements, Push(e)
  PROVE  /\ IInv'
         /\ Len(heap') = Len(heap) + 1 /\ heap'[Len(heap) + 1] = e
         /\ \A j \in Slots : heap'[j + 1] = At(j)
<1>. USE DEF IInv
<1>1. /\ MaxSize \in Nat /\ size \in Nat /\ size = Len(heap) /\ heap \in Seq(Elements)
      /\ Slots = 0..(size - 1)
      /\ \A j \in Slots : j \in Nat /\ j < size
      /\ \A j \in Nat \ {0} : Parent(j) \in Nat /\ Parent(j) < j
  BY SlotTypes, ParentBelow DEF TypeOK
<1>2. /\ pc = "idle" /\ size < MaxSize /\ heap' = Append(heap, e) /\ size' = size + 1
      /\ UNCHANGED <<non_leaf_index, got>>
  BY DEF Push
<1>3. /\ heap' \in Seq(Elements) /\ Len(heap') = size + 1 /\ heap'[size + 1] = e
      /\ \A k \in 1..size : heap'[k] = heap[k]
  BY <1>1, <1>2
<1>4. \A j \in Slots : heap'[j + 1] = At(j)
  BY <1>1, <1>3 DEF At
<1>5. Slots' = 0..size
  BY <1>1, <1>3 DEF Slots
<1>6. \A j \in Slots \ {0} : Ordered(Parent(j), j)
  BY <1>2 DEF TreeOrdered, Due, Built
<1>7. CASE size > 0
  <2>1. pc' = "up" /\ elem_index' = size
    BY <1>1, <1>2, <1>7 DEF Push
  <2>2. TypeOK'
    BY <1>1, <1>2, <1>3, <2>1 DEF TypeOK
  <2>3. \A j \in Slots' \ {0} : j \in Nat \ {0} /\ Parent(j) < size /\ (j # size => j \in Slots)
    BY <1>1, <1>5
  <2>4. TreeOrdered'
    <3>. SUFFICES ASSUME NEW j \in Slots' \ {0}, j # size
                  PROVE  heap'[Parent(j) + 1] <= heap'[j + 1]
      BY <2>1 DEF TreeOrdered, Due, Ordered, At
    <3>1. j \in Slots \ {0} /\ Parent(j) \in Slots
      BY <1>1, <2>3
    <3>. QED
      BY <1>4, <1>6, <3>1 DEF Ordered
  <2>5. Bridged' /\ Building'
    BY <1>1, <2>1, <2>3 DEF Bridged, Building
  <2>. QED
    BY <1>1, <1>3, <1>4, <2>2, <2>4, <2>5
<1>8. CASE size = 0
  <2>1. UNCHANGED <<pc, elem_index>>
    BY <1>2, <1>8 DEF Push
  <2>2. TypeOK'
    BY <1>1, <1>2, <1>3, <2>1 DEF TypeOK
  <2>3. Slots' \ {0} = {}
    BY <1>5, <1>8
  <2>. QED
    BY <1>1, <1>2, <1>3, <1>4, <2>1, <2>2, <2>3 DEF TreeOrdered, Bridged, Building
<1>. QED
  BY <1>1, <1>7, <1>8

LEMMA PopStep ==
  ASSUME IInv, Pop
  PROVE  /\ IInv'
         /\ Len(heap) > 0 /\ Len(heap') = Len(heap) - 1
         /\ 0 \in Slots /\ Len(heap) - 1 \in Slots
         /\ \A j \in 0..(Len(heap) - 2) : heap'[j + 1] = Swapped(heap, 0, Len(heap) - 1)[j + 1]
<1>. USE DEF IInv
<1>. DEFINE n == Len(heap)
            h == Swapped(heap, 0, n - 1)
<1>1. /\ MaxSize \in Nat /\ size = n /\ n \in Nat /\ size <= MaxSize /\ Slots = 0..(size - 1)
      /\ \A j \in Slots : j \in Nat /\ j < size
      /\ \A j \in Nat \ {0} : Parent(j) \in Nat /\ Parent(j) < j
  BY SlotTypes, ParentBelow
<1>2. /\ pc = "idle" /\ size > 0 /\ heap' = SubSeq(h, 1, n - 1) /\ size' = size - 1
      /\ pc' = "down" /\ elem_index' = 0 /\ UNCHANGED <<non_leaf_index, got>>
  BY DEF Pop
<1>3. 0 \in Slots /\ n - 1 \in Slots
  BY <1>1, <1>2
<1>4. /\ h \in Seq(Elements) /\ Len(h) = n
      /\ \A j \in Slots : j # 0 /\ j # n - 1 => h[j + 1] = At(j)
  BY <1>3, SwapTypes
<1>. HIDE DEF h
<1>5. /\ heap' \in Seq(Elements) /\ Len(heap') = n - 1
      /\ \A k \in 1..(n - 1) : heap'[k] = h[k]
  BY <1>1, <1>2, <1>4
<1>6. ASSUME NEW j \in 0..(n - 2) PROVE heap'[j + 1] = h[j + 1]
  <2>1. j + 1 \in 1..(n - 1)
    BY <1>1
  <2>. QED
    BY <1>5, <2>1
<1>7. Slots' = 0..(n - 2)
  BY <1>1, <1>5 DEF Slots
<1>8. TypeOK'
  BY <1>1, <1>2, <1>5 DEF TypeOK
<1>9. TreeOrdered'
  <2>. SUFFICES ASSUME NEW j \in Slots' \ {0}, Parent(j) # 0
                PROVE  heap'[Parent(j) + 1] <= heap'[j + 1]
    BY <1>2 DEF TreeOrdered, Due, Ordered, At
  <2>1. /\ j \in Slots \ {0} /\ Parent(j) \in Slots \ {0}
        /\ j \in 0..(n - 2) /\ Parent(j) \in 0..(n - 2) /\ j # n - 1 /\ Parent(j) # n - 1
    BY <1>1, <1>7
  <2>2. Ordered(Parent(j), j)
    BY <1>2, <2>1 DEF TreeOrdered, Due, Built
  <2>. QED
    BY <1>4, <1>6, <2>1, <2>2 DEF Ordered
<1>10. Bridged' /\ Building'
  BY <1>2 DEF Bridged, Building
<1>. QED
  BY <1>1, <1>2, <1>3, <1>5, <1>6, <1>8, <1>9, <1>10 DEF h

LEMMA NextHolds ==
  ASSUME IInv, [Next]_vars
  PROVE  IInv'
<1>1. CASE UNCHANGED vars
  BY <1>1 DEF IInv, TypeOK, TreeOrdered, Due, Built, Bridged, Building, Ordered, At, Slots, vars
<1>2. CASE Heapify
  BY <1>2, HeapifyStep
<1>3. CASE SiftDown
  <2>1. CASE left_child_index < size /\ index_to_swap # elem_index
    BY <1>3, <2>1, DownStep DEF SiftDown
  <2>2. CASE ~ (left_child_index < size /\ index_to_swap # elem_index)
    BY <1>3, <2>2, DownEnds DEF SiftDown
  <2>. QED
    BY <2>1, <2>2
<1>4. CASE SiftUp
  <2>1. CASE elem_index # 0 /\ At(elem_index) < At(parent_index)
    BY <1>4, <2>1, UpStep DEF SiftUp
  <2>2. CASE ~ (elem_index # 0 /\ At(elem_index) < At(parent_index))
    <3>1. /\ pc = "up" /\ pc' = "idle"
          /\ UNCHANGED <<heap, elem_index, size, non_leaf_index, got>>
      BY <1>4, <2>2 DEF SiftUp
    <3>2. elem_index \in Slots \ {0} => Ordered(Parent(elem_index), elem_index)
      <4>. SUFFICES ASSUME elem_index \in Slots \ {0}
                    PROVE  At(Parent(elem_index)) <= At(elem_index)
        BY DEF Ordered
      <4>1. elem_index \in Nat \ {0} /\ Slots = 0..(size - 1) /\ size \in Nat /\ elem_index < size
        BY SlotTypes DEF IInv
      <4>2. Parent(elem_index) \in Slots /\ parent_index = Parent(elem_index)
        BY <4>1, ParentBelow DEF parent_index, Parent
      <4>3. At(Parent(elem_index)) \in Int /\ At(elem_index) \in Int
        BY <4>2, SlotTypes DEF IInv
      <4>. QED
        BY <2>2, <4>1, <4>2, <4>3
    <3>3. \A j \in Slots \ {0} : Ordered(Parent(j), j)
      BY <3>1, <3>2 DEF IInv, TreeOrdered, Due, Built
    <3>4. TypeOK' /\ TreeOrdered' /\ Bridged' /\ Building'
      BY <3>1, <3>3 DEF IInv, TypeOK, TreeOrdered, Bridged, Building, Slots, Ordered, At
    <3>. QED
      BY <3>4 DEF IInv
  <2>. QED
    BY <2>1, <2>2
<1>5. CASE \E e \in Elements : Push(e)
  BY <1>5, PushStep
<1>6. CASE GetMax
  <2>1. got' \in SUBSET Elements /\ UNCHANGED <<heap, size, pc, elem_index, non_leaf_index>>
    <3>1. 0 \in Slots
      BY <1>6, SlotTypes DEF GetMax, IInv
    <3>. QED
      BY <1>6, <3>1, SlotTypes DEF GetMax, IInv
  <2>. QED
    BY <2>1 DEF IInv, TypeOK, TreeOrdered, Due, Built, Bridged, Building, Ordered, At, Slots
<1>7. CASE Pop
  BY <1>7, PopStep
<1>. QED
  BY <1>1, <1>2, <1>3, <1>4, <1>5, <1>6, <1>7 DEF Next, Inside

LEMMA IInvHolds == Spec => []IInv
<1>1. Init => IInv
  BY InitHolds
<1>2. IInv /\ [Next]_vars => IInv'
  BY NextHolds
<1>. QED
  BY <1>1, <1>2, PTL DEF Spec

(***************************************************************************)
(* However many elements the heap holds and whatever calls are made, the   *)
(* counter is the vector's size, no loop's index leaves it but heapify's   *)
(* last, which wraps, and the tree is out of order only at that index.     *)
(***************************************************************************)
THEOREM OutOfOrderOnlyHere == Spec => []HeapInv
<1>1. IInv => HeapInv
  <2>. SUFFICES ASSUME IInv PROVE HeapInv
    OBVIOUS
  <2>1. OutOfOrderHere
    <3>1. /\ SizeT \in Nat /\ non_leaf_index \in Nat
          /\ \A j \in Slots \ {0} : Parent(j) \in Nat
      BY SlotTypes, ParentBelow DEF IInv, TypeOK
    <3>. QED
      BY <3>1 DEF IInv, TypeOK, OutOfOrderHere, TreeOrdered, Bridged, Due, Built
  <2>. QED
    BY <2>1 DEF HeapInv, IInv
<1>. QED
  BY <1>1, IInvHolds, PTL

-------------------------------------------------------------------------------
(***************************************************************************)
(* The priority queue.                                                     *)
(***************************************************************************)

\* A set of naturals has a least one: of the intervals from 0 to its
\* elements, one has none of the others strictly inside.
LEMMA LeastNatural ==
  ASSUME NEW M \in SUBSET Nat, M # {}
  PROVE  \E m \in M : \A k \in M : m <= k
<1>. DEFINE T == {0..m : m \in M}
            R == StrictSubsetOrdering(Nat)
<1>1. IsWellFoundedOn(R, FiniteSubsetsOf(Nat))
  BY FS_StrictSubsetOrderingWellFounded
<1>2. T \subseteq FiniteSubsetsOf(Nat)
  <2>1. \A m \in M : IsFiniteSet(0..m) /\ 0..m \in SUBSET Nat
    BY FS_Interval
  <2>. QED
    BY <2>1 DEF FiniteSubsetsOf
<1>3. T # {}
  OBVIOUS
<1>. HIDE DEF R
<1>4. PICK X \in T : \A Y \in T : <<Y, X>> \notin R
  <2>. HIDE DEF T
  <2>. QED
    BY <1>1, <1>2, <1>3, WFMin
<1>5. PICK m \in M : X = 0..m
  BY <1>4
<1>6. ASSUME NEW k \in M, k < m PROVE FALSE
  <2>1. 0..k \in T /\ 0..k \in SUBSET Nat /\ 0..m \in SUBSET Nat
    BY <1>6
  <2>2. 0..k \subseteq 0..m /\ 0..k # 0..m
    <3>1. m \in 0..m /\ m \notin 0..k
      BY <1>6
    <3>2. 0..k \subseteq 0..m
      BY <1>6
    <3>. QED
      BY <3>1, <3>2
  <2>3. <<0..k, 0..m>> \in R
    BY <2>1, <2>2 DEF R, StrictSubsetOrdering
  <2>. QED
    BY <1>4, <1>5, <2>1, <2>3
<1>. QED
  BY <1>5, <1>6

\* Between calls the root is the least element: an edge to the first smaller
\* one would be out of order.
LEMMA RootIsLeast ==
  ASSUME IInv, pc = "idle", size > 0
  PROVE  \A j \in Slots : At(0) <= At(j)
<1>1. /\ Slots = 0..(size - 1) /\ size \in Nat
      /\ \A j \in Slots : j \in Nat /\ j < size /\ At(j) \in Int
  BY SlotTypes DEF IInv
<1>. DEFINE M == {j \in Slots : At(j) < At(0)}
<1>2. SUFFICES ASSUME M # {} PROVE FALSE
  <2>1. M = {} /\ 0 \in Slots
    BY <1>1, <1>2
  <2>. QED
    BY <1>1, <2>1
<1>3. M \in SUBSET Nat
  BY <1>1
<1>4. PICK m \in M : \A k \in M : m <= k
  <2>. HIDE DEF M
  <2>. QED
    BY <1>2, <1>3, LeastNatural
<1>5. m \in Slots /\ m # 0 /\ m \in Nat \ {0} /\ At(m) < At(0) /\ 0 \in Slots
  BY <1>1, <1>4
<1>6. Parent(m) \in Nat /\ Parent(m) < m /\ Parent(m) \in Slots
  BY <1>1, <1>5, ParentBelow
<1>7. At(Parent(m)) <= At(m)
  BY <1>5 DEF IInv, TreeOrdered, Due, Built, Ordered
<1>8. Parent(m) \in M
  BY <1>1, <1>5, <1>6, <1>7
<1>. QED
  BY <1>1, <1>4, <1>5, <1>6, <1>8

Where(h, e) == {j \in 0..(Len(h) - 1) : h[j + 1] = e}

LEMMA WaitingIs ==
  ASSUME TypeOK, NEW e \in Elements
  PROVE  /\ Waiting[e] = Cardinality(Where(heap, e))
         /\ IsFiniteSet(Where(heap, e)) /\ Waiting[e] \in Nat
         /\ Waiting[e] > 0 <=> \E j \in Slots : At(j) = e
<1>1. Waiting[e] = Cardinality(Where(heap, e))
  BY DEF Waiting, Where, Slots, At
<1>2. IsFiniteSet(0..(Len(heap) - 1)) /\ Where(heap, e) \subseteq 0..(Len(heap) - 1)
  <2>1. 0 \in Int /\ Len(heap) - 1 \in Int
    BY SlotTypes
  <2>. QED
    BY <2>1, FS_Interval DEF Where
<1>3. IsFiniteSet(Where(heap, e))
  BY <1>2, FS_Subset
<1>4. Waiting[e] \in Nat /\ (Waiting[e] = 0 <=> Where(heap, e) = {})
  BY <1>1, <1>3, FS_CardinalityType, FS_EmptySet
<1>5. Where(heap, e) # {} <=> \E j \in Slots : At(j) = e
  BY DEF Where, Slots, At
<1>6. Waiting[e] > 0 <=> Where(heap, e) # {}
  BY <1>4
<1>. QED
  BY <1>1, <1>3, <1>4, <1>5, <1>6

\* A swap leaves as many of each element.
LEMMA SwapKeepsCount ==
  ASSUME TypeOK, NEW a \in Slots, NEW b \in Slots, NEW e
  PROVE  /\ IsFiniteSet(Where(Swapped(heap, a, b), e))
         /\ Cardinality(Where(Swapped(heap, a, b), e)) = Cardinality(Where(heap, e))
<1>. DEFINE h == Swapped(heap, a, b)
            S == Where(heap, e)
            T == Where(h, e)
            f == [j \in S |-> IF j = a THEN b ELSE IF j = b THEN a ELSE j]
<1>1. /\ Slots = 0..(Len(heap) - 1) /\ Len(h) = Len(heap)
      /\ h[a + 1] = heap[b + 1] /\ h[b + 1] = heap[a + 1]
      /\ \A j \in Slots : j # a /\ j # b => h[j + 1] = heap[j + 1]
  BY SwapTypes DEF Slots, At
<1>. HIDE DEF h
<1>2. /\ S = {j \in Slots : heap[j + 1] = e} /\ T = {j \in Slots : h[j + 1] = e}
  BY <1>1 DEF Where
<1>3. IsFiniteSet(S)
  <2>1. IsFiniteSet(Slots)
    BY SlotTypes, FS_Interval
  <2>2. S \subseteq Slots
    BY <1>2
  <2>. QED
    BY <2>1, <2>2, FS_Subset
<1>4. f \in [S -> T]
  BY <1>1, <1>2
<1>5. \A x, y \in S : x # y => f[x] # f[y]
  OBVIOUS
<1>6. \A y \in T : \E x \in S : f[x] = y
  <2>. SUFFICES ASSUME NEW y \in T PROVE \E x \in S : f[x] = y
    OBVIOUS
  <2>1. CASE y = a
    <3>1. b \in S /\ f[b] = y
      BY <1>1, <1>2, <2>1
    <3>. QED
      BY <3>1
  <2>2. CASE y # a /\ y = b
    <3>1. a \in S /\ f[a] = y
      BY <1>1, <1>2, <2>2
    <3>. QED
      BY <3>1
  <2>3. CASE y # a /\ y # b
    <3>1. y \in S /\ f[y] = y
      BY <1>1, <1>2, <2>3
    <3>. QED
      BY <3>1
  <2>. QED
    BY <2>1, <2>2, <2>3
<1>. HIDE DEF f, S, T
<1>7. ExistsBijection(S, T)
  BY <1>4, <1>5, <1>6
     DEF ExistsBijection, Bijection, Injection, Surjection, IsInjective
<1>8. IsFiniteSet(T) /\ Cardinality(T) = Cardinality(S)
  BY <1>3, <1>7, FS_Bijection
<1>. QED
  BY <1>8 DEF S, T, h

\* The abstract queue's choice is the root.
LEMMA LeastIsRoot ==
  ASSUME IInv, pc = "idle", size > 0
  PROVE  /\ At(0) \in Elements /\ Queue!Held # {} /\ Queue!Least = At(0)
<1>1. /\ 0 \in Slots /\ At(0) \in Elements
      /\ \A j \in Slots : At(0) <= At(j) /\ At(j) \in Int
  BY SlotTypes, RootIsLeast DEF IInv
<1>2. \A e \in Elements : e \in Queue!Held <=> \E j \in Slots : At(j) = e
  BY WaitingIs DEF Queue!Held, IInv
<1>3. At(0) \in Queue!Held /\ \A f \in Queue!Held : At(0) <= f
  BY <1>1, <1>2 DEF Queue!Held
<1>4. ASSUME NEW e \in Queue!Held, \A f \in Queue!Held : e <= f
      PROVE  e = At(0)
  <2>1. e \in Elements /\ At(0) <= e /\ e <= At(0)
    BY <1>3, <1>4 DEF Queue!Held
  <2>2. e \in Int /\ At(0) \in Int
    BY <1>1, <2>1, HeapAssumption
  <2>. QED
    BY <2>1, <2>2
<1>5. Queue!Least = At(0)
  BY <1>3, <1>4 DEF Queue!Least
<1>. QED
  BY <1>1, <1>3, <1>5

LEMMA PushIsQPush ==
  ASSUME IInv, NEW e \in Elements, Push(e)
  PROVE  Queue!QPush(e)
<1>1. /\ Len(heap') = Len(heap) + 1 /\ heap'[Len(heap) + 1] = e
      /\ (\A j \in Slots : heap'[j + 1] = At(j)) /\ TypeOK' /\ TypeOK /\ UNCHANGED got
  BY PushStep DEF IInv, Push
<1>2. Len(heap) \in Nat /\ Slots = 0..(Len(heap) - 1)
  BY <1>1, SlotTypes
<1>3. ASSUME NEW v \in Elements
      PROVE  Where(heap', v) = IF v = e THEN Where(heap, v) \cup {Len(heap)}
                                        ELSE Where(heap, v)
  <2>1. 0..(Len(heap') - 1) = Slots \cup {Len(heap)}
    BY <1>1, <1>2
  <2>2. \A j \in Slots : heap'[j + 1] = heap[j + 1]
    BY <1>1 DEF At
  <2>3. Where(heap, v) = {j \in Slots : heap[j + 1] = v}
    BY <1>2 DEF Where
  <2>4. Where(heap', v) = {j \in Slots \cup {Len(heap)} : heap'[j + 1] = v}
    BY <2>1 DEF Where
  <2>. QED
    BY <1>1, <2>2, <2>3, <2>4
<1>4. ASSUME NEW v \in Elements
      PROVE  Waiting'[v] = IF v = e THEN Waiting[v] + 1 ELSE Waiting[v]
  <2>1. Waiting'[v] = Cardinality(Where(heap', v))
    BY <1>1 DEF Waiting, Where, Slots, At
  <2>2. Waiting[v] = Cardinality(Where(heap, v)) /\ IsFiniteSet(Where(heap, v))
    BY <1>1, WaitingIs
  <2>3. Len(heap) \notin Where(heap, v)
    BY <1>2 DEF Where
  <2>. QED
    BY <1>3, <2>1, <2>2, <2>3, FS_AddElement
<1>5. Waiting' = [Waiting EXCEPT ![e] = @ + 1]
  BY <1>4 DEF Waiting
<1>. QED
  BY <1>1, <1>5 DEF Queue!QPush

LEMMA PopIsQPop ==
  ASSUME IInv, Pop
  PROVE  Queue!QPop
<1>. DEFINE n == Len(heap)
            h == Swapped(heap, 0, n - 1)
<1>1. /\ n > 0 /\ Len(heap') = n - 1 /\ 0 \in Slots /\ n - 1 \in Slots
      /\ \A j \in 0..(n - 2) : heap'[j + 1] = h[j + 1]
  BY PopStep
<1>2. n \in Nat /\ size = n /\ TypeOK
  BY SlotTypes DEF IInv
<1>3. Queue!Held # {} /\ Queue!Least = At(0) /\ At(0) \in Elements /\ UNCHANGED got
  BY <1>1, <1>2, LeastIsRoot DEF Pop
<1>4. Len(h) = n /\ h[n] = At(0)
  <2>1. h[(n - 1) + 1] = At(0) /\ Len(h) = n
    BY <1>1, <1>2, SwapTypes
  <2>2. (n - 1) + 1 = n
    BY <1>2
  <2>. QED
    BY <2>1, <2>2
<1>5. ASSUME NEW v \in Elements
      PROVE  /\ IsFiniteSet(Where(h, v)) /\ Cardinality(Where(h, v)) = Waiting[v]
             /\ Waiting[v] \in Nat
  BY <1>1, <1>2, SwapKeepsCount, WaitingIs
<1>. HIDE DEF h
<1>6. ASSUME NEW v \in Elements
      PROVE  /\ Where(heap', v) = Where(h, v) \ {n - 1}
             /\ n - 1 \in Where(h, v) <=> v = At(0)
  <2>1. Where(heap', v) = {j \in 0..(n - 2) : h[j + 1] = v}
    <3>1. 0..(Len(heap') - 1) = 0..(n - 2)
      BY <1>1, <1>2
    <3>. QED
      BY <1>1, <3>1 DEF Where
  <2>2. 0..(n - 2) = (0..(n - 1)) \ {n - 1}
    BY <1>2
  <2>3. Where(h, v) = {j \in 0..(n - 1) : h[j + 1] = v}
    BY <1>4 DEF Where
  <2>4. n - 1 \in 0..(n - 1) /\ (n - 1) + 1 = n
    BY <1>1, <1>2
  <2>. QED
    BY <1>4, <2>1, <2>2, <2>3, <2>4
<1>7. ASSUME NEW v \in Elements
      PROVE  Waiting'[v] = IF v = At(0) THEN Waiting[v] - 1 ELSE Waiting[v]
  <2>1. Waiting'[v] = Cardinality(Where(heap', v))
    BY DEF Waiting, Where, Slots, At
  <2>. QED
    BY <1>5, <1>6, <2>1, FS_RemoveElement
<1>8. Waiting' = [Waiting EXCEPT ![At(0)] = @ - 1]
  BY <1>3, <1>7 DEF Waiting
<1>. QED
  BY <1>3, <1>8 DEF Queue!QPop

LEMMA SwapIsStutter ==
  ASSUME IInv, NEW a \in Slots, NEW b \in Slots, heap' = Swapped(heap, a, b), got' = got
  PROVE  UNCHANGED Queue!qvars
<1>1. TypeOK
  BY DEF IInv
<1>2. ASSUME NEW e \in Elements PROVE Waiting'[e] = Waiting[e]
  <2>1. Waiting'[e] = Cardinality(Where(heap', e))
    BY DEF Waiting, Where, Slots, At
  <2>. QED
    BY <1>1, <2>1, SwapKeepsCount, WaitingIs
<1>3. Waiting' = Waiting
  BY <1>2 DEF Waiting
<1>. QED
  BY <1>3 DEF Queue!qvars

\* Inside a call the heap moves elements, or nothing.
LEMMA InsideIsStutter ==
  ASSUME IInv, Inside
  PROVE  UNCHANGED Queue!qvars
<1>1. CASE UNCHANGED <<heap, got>>
  BY <1>1 DEF Queue!qvars, Waiting, Slots, At
<1>2. CASE SiftDown /\ left_child_index < size /\ index_to_swap # elem_index
  <2>1. elem_index \in Slots /\ index_to_swap \in Slots
    BY <1>2, Picked DEF IInv
  <2>. QED
    BY <1>2, <2>1, SwapIsStutter DEF SiftDown
<1>3. CASE SiftUp /\ elem_index # 0 /\ At(elem_index) < At(parent_index)
  <2>1. elem_index \in Nat \ {0} /\ elem_index < size /\ Slots = 0..(size - 1) /\ size \in Nat
    BY <1>3, SlotTypes DEF SiftUp, IInv, TypeOK
  <2>2. elem_index \in Slots /\ parent_index \in Slots
    BY <2>1, ParentBelow DEF parent_index, Parent
  <2>. QED
    BY <1>3, <2>2, SwapIsStutter DEF SiftUp
<1>. QED
  BY <1>1, <1>2, <1>3 DEF Inside, Heapify, SiftDown, SiftUp

(***************************************************************************)
(* The heap implements the priority queue: whatever is pushed and popped,  *)
(* get_max gives, and pop removes, the least element of those pushed and   *)
(* not popped, each as many times; the sifting between loses none.         *)
(***************************************************************************)
THEOREM HeapIsAQueue == Spec => ImplementsQueue
<1>1. Init => Queue!QInit
  <2>. SUFFICES ASSUME Init PROVE Queue!QInit
    OBVIOUS
  <2>1. TypeOK /\ got = {}
    BY InitHolds DEF Init, IInv
  <2>2. \A e \in Elements : Waiting[e] \in Nat
    BY <2>1, WaitingIs
  <2>3. Waiting \in [Elements -> Nat]
    BY <2>2 DEF Waiting
  <2>. QED
    BY <2>1, <2>3 DEF Queue!QInit
<1>2. IInv /\ [Next]_vars => [Queue!QNext]_(Queue!qvars)
  <2>. SUFFICES ASSUME IInv, [Next]_vars PROVE [Queue!QNext]_(Queue!qvars)
    OBVIOUS
  <2>1. CASE UNCHANGED vars
    BY <2>1 DEF vars, Queue!qvars, Waiting, Slots, At
  <2>2. CASE Inside
    BY <2>2, InsideIsStutter
  <2>3. CASE \E e \in Elements : Push(e)
    BY <2>3, PushIsQPush DEF Queue!QNext
  <2>4. CASE GetMax
    <3>1. pc = "idle" /\ size > 0 /\ got' = {At(0)} /\ heap' = heap
      BY <2>4 DEF GetMax
    <3>2. Queue!Held # {} /\ Queue!Least = At(0)
      BY <3>1, LeastIsRoot
    <3>3. Waiting' = Waiting
      BY <3>1 DEF Waiting, Slots, At
    <3>. QED
      BY <3>1, <3>2, <3>3 DEF Queue!QNext, Queue!QGetMax
  <2>5. CASE Pop
    BY <2>5, PopIsQPop DEF Queue!QNext
  <2>. QED
    BY <2>1, <2>2, <2>3, <2>4, <2>5 DEF Next
<1>. QED
  BY <1>1, <1>2, IInvHolds, PTL DEF Spec, ImplementsQueue, Queue!QSpec

-------------------------------------------------------------------------------
(***************************************************************************)
(* bin_search and max_array: what their loops compute, for arrays of any   *)
(* length.                                                                 *)
(***************************************************************************)

\* The loop of find_interval, as the equation that its function solves.
Smaller(a, elem, r) == r < Len(a) /\ Arrays!At(a, r) < elem

Widens(a, elem, g) ==
  g = [r \in Nat \ {0} |-> IF Smaller(a, elem, r) THEN g[2 * r] ELSE r]

WidenedUpTo(a, elem, n, g) ==
  \A r \in Nat \ {0} :
    r + n >= Len(a) => g[r] = IF Smaller(a, elem, r) THEN g[2 * r] ELSE r

LEMMA WidenExists ==
  ASSUME NEW a \in Seq(Int), NEW elem \in Int
  PROVE  \E g : Widens(a, elem, g)
<1>. DEFINE Fun == [Nat \ {0} -> Int]
            M == {n \in Nat : ~ \E g \in Fun : WidenedUpTo(a, elem, n, g)}
<1>1. Len(a) \in Nat
  OBVIOUS
<1>2. 0 \notin M
  <2>1. [r \in Nat \ {0} |-> r] \in Fun
    OBVIOUS
  <2>2. WidenedUpTo(a, elem, 0, [r \in Nat \ {0} |-> r])
    BY <1>1 DEF WidenedUpTo, Smaller
  <2>. QED
    BY <2>1, <2>2
<1>3. ASSUME NEW n \in Nat \ {0}, n - 1 \notin M
      PROVE  n \notin M
  <2>1. PICK g \in Fun : WidenedUpTo(a, elem, n - 1, g)
    BY <1>3
  <2>2. CASE Len(a) - n < 1
    <3>1. WidenedUpTo(a, elem, n, g)
      BY <1>1, <2>1, <2>2 DEF WidenedUpTo
    <3>. QED
      BY <2>1, <3>1
  <2>3. CASE Len(a) - n >= 1
    <3>. DEFINE p == Len(a) - n
                v == IF Smaller(a, elem, p) THEN g[2 * p] ELSE p
                h == [g EXCEPT ![p] = v]
    <3>1. p \in Nat \ {0} /\ 2 * p \in Nat \ {0} /\ 2 * p # p
      BY <1>1, <2>3
    <3>2. v \in Int /\ h \in Fun
      BY <2>1, <3>1
    <3>3. h[p] = v /\ \A r \in Nat \ {0} : r # p => h[r] = g[r]
      BY <2>1, <3>1, <3>2
    <3>. HIDE DEF h
    <3>4. ASSUME NEW r \in Nat \ {0}, r + n >= Len(a)
          PROVE  h[r] = IF Smaller(a, elem, r) THEN h[2 * r] ELSE r
      <4>1. 2 * r \in Nat \ {0} /\ 2 * r # p
        BY <1>1, <3>1, <3>4
      <4>2. h[2 * r] = g[2 * r]
        BY <3>3, <4>1
      <4>3. CASE r = p
        BY <3>3, <4>2, <4>3
      <4>4. CASE r # p
        <5>1. r + (n - 1) >= Len(a)
          BY <1>1, <3>4, <4>4
        <5>. QED
          BY <2>1, <3>3, <4>2, <4>4, <5>1 DEF WidenedUpTo
      <4>. QED
        BY <4>3, <4>4
    <3>5. WidenedUpTo(a, elem, n, h)
      BY <3>4 DEF WidenedUpTo
    <3>. QED
      BY <3>2, <3>5
  <2>. QED
    BY <1>1, <2>2, <2>3
<1>4. M = {}
  <2>. SUFFICES ASSUME M # {} PROVE FALSE
    OBVIOUS
  <2>1. PICK m \in M : \A k \in M : m <= k
    <3>. HIDE DEF M
    <3>1. M \in SUBSET Nat
      BY DEF M
    <3>. QED
      BY <3>1, LeastNatural
  <2>2. m \in Nat \ {0} /\ m - 1 \notin M
    <3>1. m \in Nat /\ m # 0
      BY <1>2, <2>1
    <3>. HIDE DEF M
    <3>. QED
      BY <2>1, <3>1
  <2>. HIDE DEF M
  <2>. QED
    BY <1>3, <2>1, <2>2
<1>5. PICK g \in Fun : WidenedUpTo(a, elem, Len(a), g)
  BY <1>1, <1>4
<1>6. \A r \in Nat \ {0} : g[r] = IF Smaller(a, elem, r) THEN g[2 * r] ELSE r
  BY <1>1, <1>5 DEF WidenedUpTo
<1>7. Widens(a, elem, g)
  BY <1>5, <1>6 DEF Widens
<1>. QED
  BY <1>7

\* Where the loop stops from r on: at r, or at twice a place that is too small.
StopsAt(a, elem, r, w) ==
  /\ w \in Nat \ {0} /\ ~ Smaller(a, elem, w)
  /\ w = r \/ \E q \in Nat \ {0} : w = 2 * q /\ Smaller(a, elem, q)

LEMMA WidenStops ==
  ASSUME NEW a \in Seq(Int), NEW elem \in Int, NEW g, Widens(a, elem, g),
         NEW start \in Nat \ {0}
  PROVE  StopsAt(a, elem, start, g[start])
<1>. DEFINE Bad(r) == ~ StopsAt(a, elem, r, g[r])
            M == {n \in Nat : \E r \in Nat \ {0} : n + r >= Len(a) /\ Bad(r)}
<1>1. Len(a) \in Nat
  OBVIOUS
<1>2. \A r \in Nat \ {0} : g[r] = IF Smaller(a, elem, r) THEN g[2 * r] ELSE r
  BY DEF Widens
<1>. SUFFICES ASSUME Bad(start) PROVE FALSE
  OBVIOUS
<1>3. M # {} /\ M \in SUBSET Nat
  BY <1>1
<1>4. PICK m \in M : \A k \in M : m <= k
  <2>. HIDE DEF M
  <2>. QED
    BY <1>3, LeastNatural
<1>5. PICK r \in Nat \ {0} : m + r >= Len(a) /\ Bad(r)
  BY <1>4
<1>6. CASE ~ Smaller(a, elem, r)
  BY <1>2, <1>5, <1>6 DEF StopsAt
<1>7. CASE Smaller(a, elem, r)
  <2>1. m \in Nat \ {0} /\ 2 * r \in Nat \ {0} /\ (m - 1) + 2 * r >= Len(a)
    BY <1>1, <1>4, <1>5, <1>7 DEF Smaller
  <2>2. m - 1 \notin M /\ m - 1 \in Nat
    <3>. HIDE DEF M
    <3>. QED
      BY <1>4, <2>1
  <2>3. StopsAt(a, elem, 2 * r, g[2 * r])
    BY <2>1, <2>2
  <2>4. g[r] = g[2 * r]
    BY <1>2, <1>7
  <2>. QED
    BY <1>5, <1>7, <2>3, <2>4 DEF StopsAt
<1>. QED
  BY <1>6, <1>7

\* What find_interval returns: the left end is the front or too small, the
\* right one is the end or not too small.
LEMMA IntervalIs ==
  ASSUME NEW a \in Seq(Int), Len(a) # 0, NEW elem \in Int
  PROVE  \E l \in Nat, r \in Nat \ {0} :
           /\ Arrays!find_interval(a, elem) = <<l, r>>
           /\ l <= r /\ r <= Len(a)
           /\ l = 0 \/ (l < Len(a) /\ Arrays!At(a, l) < elem)
           /\ r = Len(a) \/ Arrays!At(a, r) >= elem
<1>. DEFINE W == CHOOSE g : Widens(a, elem, g)
            w == W[1]
            R == IF w > Len(a) THEN Len(a) ELSE w
<1>1. Arrays!find_interval(a, elem) = <<w \div 2, R>>
  BY DEF Arrays!find_interval, Widens, Smaller
<1>2. Widens(a, elem, W)
  <2>1. \E g : Widens(a, elem, g)
    BY WidenExists
  <2>. QED
    BY <2>1
<1>. HIDE DEF W
<1>3. StopsAt(a, elem, 1, w)
  BY <1>2, WidenStops
<1>4. w \in Nat \ {0} /\ Len(a) \in Nat \ {0}
  BY <1>3 DEF StopsAt
<1>. HIDE DEF w
<1>5. R \in Nat \ {0} /\ R <= Len(a) /\ (R = Len(a) \/ Arrays!At(a, R) >= elem)
  <2>1. CASE w >= Len(a)
    BY <1>4, <2>1
  <2>2. CASE w < Len(a)
    <3>1. Arrays!At(a, w) \in Int
      BY <1>4, <2>2 DEF Arrays!At
    <3>2. ~ (Arrays!At(a, w) < elem)
      BY <1>3, <2>2 DEF StopsAt, Smaller
    <3>. QED
      BY <1>4, <2>2, <3>1, <3>2
  <2>. QED
    BY <1>4, <2>1, <2>2
<1>6. /\ w \div 2 \in Nat /\ w \div 2 <= R
      /\ w \div 2 = 0 \/ (w \div 2 < Len(a) /\ Arrays!At(a, w \div 2) < elem)
  <2>1. CASE w = 1
    BY <1>4, <2>1
  <2>2. ASSUME NEW q \in Nat \ {0}, w = 2 * q, Smaller(a, elem, q)
        PROVE  <1>6
    <3>1. w \div 2 = q
      BY <2>2
    <3>. QED
      BY <1>4, <2>2, <3>1 DEF Smaller
  <2>. QED
    BY <1>3, <2>1, <2>2 DEF StopsAt
<1>. HIDE DEF R
<1>. QED
  BY <1>1, <1>5, <1>6

\* The lower bound is the first place in the whole array, or its end.
LEMMA LowerBoundIs ==
  ASSUME NEW a \in Seq(Int), Len(a) # 0, Arrays!Sorted(a), NEW elem \in Int
  PROVE  LET low == Arrays!lower_bound(a, Arrays!find_interval(a, elem), elem)
         IN /\ low \in 0..Len(a)
            /\ \A k \in 0..(Len(a) - 1) :
                 /\ k < low => Arrays!At(a, k) < elem
                 /\ k >= low => Arrays!At(a, k) >= elem
<1>1. PICK l \in Nat, r \in Nat \ {0} :
           /\ Arrays!find_interval(a, elem) = <<l, r>>
           /\ l <= r /\ r <= Len(a)
           /\ l = 0 \/ (l < Len(a) /\ Arrays!At(a, l) < elem)
           /\ r = Len(a) \/ Arrays!At(a, r) >= elem
  BY IntervalIs
<1>. DEFINE M == {r} \cup {k \in l..(r - 1) : Arrays!At(a, k) >= elem}
            low == CHOOSE m \in M : \A k \in M : m <= k
<1>2. Arrays!lower_bound(a, Arrays!find_interval(a, elem), elem) = low
  BY <1>1 DEF Arrays!lower_bound, Arrays!Min
<1>3. M # {} /\ M \in SUBSET Nat
  OBVIOUS
<1>4. low \in M /\ \A k \in M : low <= k
  <2>. HIDE DEF M
  <2>1. \E m \in M : \A k \in M : m <= k
    BY <1>3, LeastNatural
  <2>. QED
    BY <2>1
<1>. HIDE DEF low
<1>5. low \in Nat /\ l <= low /\ low <= r /\ (low = r \/ Arrays!At(a, low) >= elem)
  BY <1>1, <1>4
<1>6. Len(a) \in Nat /\ \A k \in 0..(Len(a) - 1) : Arrays!At(a, k) \in Int
  BY DEF Arrays!At
<1>7. \A j, k \in 0..(Len(a) - 1) : j <= k => Arrays!At(a, j) <= Arrays!At(a, k)
  <2>. SUFFICES ASSUME NEW j \in 0..(Len(a) - 1), NEW k \in 0..(Len(a) - 1), j <= k
                PROVE  Arrays!At(a, j) <= Arrays!At(a, k)
    OBVIOUS
  <2>1. j + 1 \in DOMAIN a /\ k + 1 \in DOMAIN a
    BY <1>6
  <2>. QED
    BY <1>6, <2>1 DEF Arrays!Sorted, Arrays!At
<1>8. ASSUME NEW k \in 0..(Len(a) - 1), k < low
      PROVE  Arrays!At(a, k) < elem
  <2>1. CASE k < l
    <3>1. l \in 0..(Len(a) - 1) /\ Arrays!At(a, l) < elem
      BY <1>1, <1>6, <2>1
    <3>2. Arrays!At(a, k) <= Arrays!At(a, l)
      BY <1>7, <2>1, <3>1
    <3>. QED
      BY <1>6, <3>1, <3>2
  <2>2. CASE k >= l
    <3>1. k \notin M
      BY <1>4, <1>5, <1>8
    <3>. QED
      BY <1>1, <1>5, <1>6, <1>8, <2>2, <3>1
  <2>. QED
    BY <1>1, <2>1, <2>2
<1>9. ASSUME NEW k \in 0..(Len(a) - 1), k >= low
      PROVE  Arrays!At(a, k) >= elem
  <2>1. low \in 0..(Len(a) - 1) /\ Arrays!At(a, low) >= elem
    BY <1>1, <1>5, <1>6, <1>9
  <2>. QED
    BY <1>6, <1>7, <1>9, <2>1
<1>10. low \in 0..Len(a)
  BY <1>1, <1>5, <1>6
<1>. QED
  BY <1>2, <1>8, <1>9, <1>10

\* Of two numbers on both sides of e, and of others farther on each side.
LEMMA AboveIsNearer ==
  ASSUME NEW e \in Int, NEW x \in Int, NEW y \in Int, NEW z \in Int,
         x >= e, z <= y, y < e, x - e = 0 \/ x - e < e - y
  PROVE  Arrays!Distance(x, e) < Arrays!Distance(z, e)
BY DEF Arrays!Distance

LEMMA BelowIsNearer ==
  ASSUME NEW e \in Int, NEW x \in Int, NEW y \in Int, NEW z \in Int,
         y < e, x <= z, x >= e, x - e >= e - y
  PROVE  /\ y <= z
         /\ \/ Arrays!Distance(y, e) < Arrays!Distance(z, e)
            \/ Arrays!Distance(y, e) = Arrays!Distance(z, e)
BY DEF Arrays!Distance

\* bin_search prints the place of an element that none is nearer than.
LEMMA NearestIsFound ==
  ASSUME NEW a \in Seq(Int), Len(a) # 0, Arrays!Sorted(a), NEW elem \in Int
  PROVE  Arrays!Nearest(Arrays!find_elem(a, elem), a, elem)
<1>. DEFINE low == Arrays!lower_bound(a, Arrays!find_interval(a, elem), elem)
            v(k) == Arrays!At(a, k)
            dr == v(low) - elem
            dl == elem - v(low - 1)
            res == IF low = 0 THEN 0
                   ELSE IF low = Len(a) \/ (dr # 0 /\ dr >= dl) THEN low - 1 ELSE low
<1>1. Arrays!find_elem(a, elem) = res
  BY DEF Arrays!find_elem
<1>2. /\ low \in 0..Len(a)
      /\ \A k \in 0..(Len(a) - 1) : (k < low => v(k) < elem) /\ (k >= low => v(k) >= elem)
  BY LowerBoundIs
<1>. HIDE DEF low
<1>3. Len(a) \in Nat \ {0} /\ \A k \in 0..(Len(a) - 1) : v(k) \in Int
  BY DEF Arrays!At
<1>4. \A j, k \in 0..(Len(a) - 1) : j <= k => v(j) <= v(k)
  <2>. SUFFICES ASSUME NEW j \in 0..(Len(a) - 1), NEW k \in 0..(Len(a) - 1), j <= k
                PROVE  v(j) <= v(k)
    OBVIOUS
  <2>1. j + 1 \in DOMAIN a /\ k + 1 \in DOMAIN a
    BY <1>3
  <2>. QED
    BY <1>3, <2>1 DEF Arrays!Sorted, Arrays!At
<1>5. \A k \in DOMAIN a : k - 1 \in 0..(Len(a) - 1) /\ a[k] = v(k - 1)
  BY <1>3 DEF Arrays!At
<1>. HIDE DEF v
<1>6. res \in 0..(Len(a) - 1)
  BY <1>2, <1>3
<1>7. ASSUME NEW k \in 0..(Len(a) - 1)
      PROVE  \/ Arrays!Distance(v(res), elem) < Arrays!Distance(v(k), elem)
             \/ Arrays!Distance(v(res), elem) = Arrays!Distance(v(k), elem) /\ v(res) <= v(k)
  <2>1. CASE res = low
    <3>1. low \in 0..(Len(a) - 1) /\ v(low) \in Int /\ v(low) >= elem /\ v(k) \in Int
      BY <1>2, <1>3, <1>6, <2>1
    <3>2. CASE k >= low
      <4>1. v(low) <= v(k)
        BY <1>4, <3>1, <3>2
      <4>. QED
        BY <2>1, <3>1, <4>1 DEF Arrays!Distance
    <3>3. CASE k < low
      <4>1. low - 1 \in 0..(Len(a) - 1) /\ v(low - 1) \in Int /\ v(low - 1) < elem
        BY <1>2, <1>3, <3>1, <3>3
      <4>2. v(k) <= v(low - 1) /\ v(k) < elem
        BY <1>2, <1>4, <3>3, <4>1
      <4>3. dr = 0 \/ dr < dl
        BY <1>3, <2>1, <3>1, <3>3, <4>1
      <4>. QED
        BY <2>1, <3>1, <4>1, <4>2, <4>3, AboveIsNearer
    <3>. QED
      BY <1>2, <3>2, <3>3
  <2>2. CASE low # 0 /\ res = low - 1
    <3>1. low - 1 \in 0..(Len(a) - 1) /\ v(low - 1) \in Int /\ v(low - 1) < elem /\ v(k) \in Int
      BY <1>2, <1>3, <1>6, <2>2
    <3>2. CASE k < low
      <4>1. v(k) <= v(low - 1) /\ v(k) < elem
        BY <1>2, <1>4, <3>1, <3>2
      <4>. QED
        BY <2>2, <3>1, <4>1 DEF Arrays!Distance
    <3>3. CASE k >= low
      <4>1. low \in 0..(Len(a) - 1) /\ v(low) \in Int /\ v(low) >= elem /\ v(low) <= v(k)
        BY <1>2, <1>3, <1>4, <3>3
      <4>2. dr >= dl
        <5>1. low # Len(a) /\ low # low - 1
          BY <1>3, <4>1
        <5>. QED
          BY <2>2, <5>1
      <4>. QED
        <5>1. /\ v(low - 1) <= v(k)
              /\ \/ Arrays!Distance(v(low - 1), elem) < Arrays!Distance(v(k), elem)
                 \/ Arrays!Distance(v(low - 1), elem) = Arrays!Distance(v(k), elem)
          <6>1. PICK x \in Int, y \in Int, z \in Int : x = v(low) /\ y = v(low - 1) /\ z = v(k)
            BY <3>1, <4>1
          <6>2. y < elem /\ x <= z /\ x >= elem /\ x - elem >= elem - y
            BY <3>1, <4>1, <4>2, <6>1
          <6>3. y <= z /\ (\/ Arrays!Distance(y, elem) < Arrays!Distance(z, elem)
                          \/ Arrays!Distance(y, elem) = Arrays!Distance(z, elem))
            BY <6>2, BelowIsNearer
          <6>. QED
            BY <6>1, <6>3
        <5>. QED
          BY <2>2, <5>1
    <3>. QED
      BY <1>2, <3>2, <3>3
  <2>. QED
    BY <1>2, <2>1, <2>2
<1>. HIDE DEF res
<1>8. ASSUME NEW k \in DOMAIN a
      PROVE  \/ Arrays!Distance(v(res), elem) < Arrays!Distance(a[k], elem)
             \/ Arrays!Distance(v(res), elem) = Arrays!Distance(a[k], elem) /\ v(res) <= a[k]
  BY <1>5, <1>7
<1>. QED
  BY <1>1, <1>6, <1>8 DEF Arrays!Nearest, v

\* A function on 0..(n - 1) may be defined by what it makes of its value before.
Steps(S, n) == [(0..(n - 1)) \X S -> S]
Unrolls(g, S, n, first, step) ==
  /\ g \in [0..(n - 1) -> S]
  /\ \A k \in 0..(n - 1) : g[k] = IF k = 0 THEN first ELSE step[<<k, g[k - 1]>>]

LEMMA DefinedStepByStep ==
  ASSUME NEW S, NEW n \in Nat, NEW first \in S, NEW step \in Steps(S, n)
  PROVE  \E g : Unrolls(g, S, n, first, step)
<1>. DEFINE Fun == [0..(n - 1) -> S]
            Solves(g, k) == g[k] = IF k = 0 THEN first ELSE step[<<k, g[k - 1]>>]
            M == {m \in Nat : m < n /\ ~ \E g \in Fun : \A k \in 0..m : Solves(g, k)}
<1>. SUFFICES \E g \in Fun : \A k \in 0..(n - 1) : Solves(g, k)
  BY DEF Unrolls
<1>0. step \in [(0..(n - 1)) \X S -> S]
  BY DEF Steps
<1>1. CASE n = 0
  <2>. DEFINE c == [k \in 0..(n - 1) |-> first]
  <2>1. c \in Fun /\ \A k \in 0..(n - 1) : FALSE
    BY <1>1
  <2>. HIDE DEF c, Solves
  <2>. QED
    BY <2>1
<1>2. CASE n # 0
  <2>1. M = {}
    <3>. SUFFICES ASSUME M # {} PROVE FALSE
      OBVIOUS
    <3>1. PICK m \in M : \A k \in M : m <= k
      <4>. HIDE DEF M
      <4>1. M \in SUBSET Nat
        BY DEF M
      <4>. QED
        BY <4>1, LeastNatural
    <3>2. m \in Nat /\ m < n /\ ~ \E g \in Fun : \A k \in 0..m : Solves(g, k)
      BY <3>1
    <3>3. m # 0
      <4>. SUFFICES ASSUME m = 0 PROVE FALSE
        OBVIOUS
      <4>. DEFINE c == [k \in 0..(n - 1) |-> first]
      <4>1. c \in Fun /\ c[0] = first
        BY <1>2
      <4>. HIDE DEF c
      <4>2. \A k \in 0..m : Solves(c, k)
        BY <4>1
      <4>. HIDE DEF Solves
      <4>. QED
        BY <3>2, <4>1, <4>2
    <3>4. m - 1 \in Nat /\ m - 1 < n /\ m - 1 \notin M
      <4>. HIDE DEF M
      <4>. QED
        BY <3>1, <3>2, <3>3
    <3>5. PICK g \in Fun : \A k \in 0..(m - 1) : Solves(g, k)
      BY <3>4
    <3>. DEFINE v == step[<<m, g[m - 1]>>]
                h == [g EXCEPT ![m] = v]
    <3>6. m \in 0..(n - 1) /\ m - 1 \in 0..(n - 1)
      BY <3>2, <3>3, <3>4
    <3>7. g[m - 1] \in S /\ v \in S
      BY <1>0, <3>5, <3>6
    <3>8. h \in Fun /\ h[m] = v /\ \A k \in 0..(n - 1) : k # m => h[k] = g[k]
      BY <3>5, <3>6, <3>7
    <3>. HIDE DEF h
    <3>9. ASSUME NEW k \in 0..m PROVE Solves(h, k)
      <4>1. CASE k = m
        <5>1. h[m - 1] = g[m - 1]
          BY <3>2, <3>6, <3>8
        <5>. QED
          BY <3>3, <3>8, <4>1, <5>1
      <4>2. CASE k # m
        <5>1. k \in 0..(m - 1) /\ k \in 0..(n - 1)
          BY <3>2, <3>9, <4>2
        <5>2. h[k] = g[k] /\ Solves(g, k)
          BY <3>5, <3>8, <4>2, <5>1
        <5>3. CASE k = 0
          BY <5>2, <5>3
        <5>4. CASE k # 0
          <6>1. k - 1 \in 0..(n - 1) /\ k - 1 # m
            BY <3>2, <5>1, <5>4
          <6>. QED
            BY <3>8, <5>2, <5>4, <6>1
        <5>. QED
          BY <5>3, <5>4
      <4>. QED
        BY <4>1, <4>2
    <3>. QED
      BY <3>2, <3>8, <3>9
  <2>2. n - 1 \in Nat /\ n - 1 < n /\ n - 1 \notin M
    <3>. HIDE DEF M
    <3>. QED
      BY <1>2, <2>1
  <2>3. PICK g \in Fun : \A k \in 0..(n - 1) : Solves(g, k)
    BY <2>2
  <2>. QED
    BY <2>3
<1>. QED
  BY <1>1, <1>2

\* The first place of the largest element up to k, with that element.
IsMax(a, k, m) ==
  /\ m \in Int \X Int /\ m[2] \in 0..k /\ m[1] = Arrays!At(a, m[2])
  /\ \A j \in 0..k : Arrays!At(a, j) <= m[1]

LEMMA MaxIsFilled ==
  ASSUME NEW a \in Seq(Int)
  PROVE  \A k \in 0..(Len(a) - 1) : IsMax(a, k, Arrays!fill_max(a)[k])
<1>. DEFINE n == Len(a)
            S == Int \X Int
            next(k, before) ==
              IF before[1] < Arrays!At(a, k) THEN <<Arrays!At(a, k), k>> ELSE before
            Fills(g) == g = [k \in 0..(n - 1) |-> IF k = 0 THEN <<Arrays!At(a, 0), 0>>
                                                 ELSE next(k, g[k - 1])]
            F == CHOOSE g : Fills(g)
            step == [x \in (0..(n - 1)) \X S |-> next(x[1], x[2])]
<1>1. Arrays!fill_max(a) = F
  BY DEF Arrays!fill_max
<1>2. n \in Nat /\ \A k \in 0..(n - 1) : Arrays!At(a, k) \in Int
  BY DEF Arrays!At
<1>. SUFFICES ASSUME n # 0 PROVE \A k \in 0..(n - 1) : IsMax(a, k, F[k])
  BY <1>1, <1>2
<1>3. Fills(F)
  <2>1. \A k \in 0..(n - 1), before \in S : next(k, before) \in S
    BY <1>2
  <2>2. step \in Steps(S, n)
    <3>. HIDE DEF next
    <3>. QED
      BY <2>1 DEF Steps
  <2>. DEFINE first == <<Arrays!At(a, 0), 0>>
  <2>3. first \in S
    BY <1>2
  <2>4. PICK g : /\ g \in [0..(n - 1) -> S]
                 /\ \A k \in 0..(n - 1) :
                      g[k] = IF k = 0 THEN first ELSE step[<<k, g[k - 1]>>]
    <3>. HIDE DEF step, S, n, first
    <3>1. PICK g : Unrolls(g, S, n, first, step)
      BY <1>2, <2>2, <2>3, DefinedStepByStep
    <3>. QED
      BY <3>1 DEF Unrolls
  <2>5. \A k \in 0..(n - 1) : g[k] = IF k = 0 THEN first ELSE next(k, g[k - 1])
    <3>. SUFFICES ASSUME NEW k \in 0..(n - 1)
                  PROVE  g[k] = IF k = 0 THEN first ELSE next(k, g[k - 1])
      OBVIOUS
    <3>. HIDE DEF next, step, first
    <3>0. CASE k = 0
      BY <2>4, <3>0
    <3>. SUFFICES ASSUME k # 0 PROVE g[k] = next(k, g[k - 1])
      BY <3>0
    <3>1. k - 1 \in 0..(n - 1) /\ g[k - 1] \in S
      <4>1. k - 1 \in 0..(n - 1)
        BY <1>2
      <4>. HIDE DEF S
      <4>. QED
        BY <2>4, <4>1
    <3>2. <<k, g[k - 1]>> \in (0..(n - 1)) \X S
      BY <3>1
    <3>3. step[<<k, g[k - 1]>>] = next(k, g[k - 1])
      <4>. USE DEF step
      <4>. QED
        BY <3>2
    <3>. QED
      BY <2>4, <3>3
  <2>6. Fills(g)
    <3>. HIDE DEF next
    <3>. QED
      BY <2>4, <2>5
  <2>. HIDE DEF Fills
  <2>. QED
    BY <2>6
<1>. HIDE DEF F
<1>4. F[0] = <<Arrays!At(a, 0), 0>> /\ \A k \in 1..(n - 1) : F[k] = next(k, F[k - 1])
  <2>1. 0 \in 0..(n - 1) /\ \A k \in 1..(n - 1) : k \in 0..(n - 1) /\ k # 0
    BY <1>2
  <2>. HIDE DEF next
  <2>. QED
    BY <1>3, <2>1
<1>. DEFINE M == {k \in 0..(n - 1) : ~ IsMax(a, k, F[k])}
<1>. SUFFICES ASSUME M # {} PROVE FALSE
  OBVIOUS
<1>5. PICK m \in M : \A k \in M : m <= k
  <2>1. M \in SUBSET Nat
    OBVIOUS
  <2>. HIDE DEF M
  <2>. QED
    BY <2>1, LeastNatural
<1>6. m \in 0..(n - 1) /\ ~ IsMax(a, m, F[m])
  BY <1>5
<1>7. m # 0
  <2>1. 0 \in 0..(n - 1) /\ Arrays!At(a, 0) \in Int /\ \A j \in 0..0 : j = 0
    BY <1>2
  <2>2. IsMax(a, 0, F[0])
    BY <1>4, <2>1 DEF IsMax
  <2>. QED
    BY <1>6, <2>2
<1>8. m - 1 \in 0..(n - 1) /\ IsMax(a, m - 1, F[m - 1])
  BY <1>2, <1>5, <1>6, <1>7
<1>9. F[m] = next(m, F[m - 1])
  BY <1>2, <1>4, <1>6, <1>7
<1>10. IsMax(a, m, F[m])
  <2>1. /\ Arrays!At(a, m) \in Int
        /\ \A j \in 0..m : Arrays!At(a, j) \in Int /\ (j \in 0..(m - 1) \/ j = m)
    BY <1>2, <1>6
  <2>. DEFINE x == F[m - 1][1]
              p == F[m - 1][2]
  <2>2. x \in Int /\ p \in Int /\ F[m - 1] = <<x, p>>
    <3>1. F[m - 1] \in Int \X Int
      BY <1>8 DEF IsMax
    <3>2. \A t \in Int \X Int : t[1] \in Int /\ t[2] \in Int /\ t = <<t[1], t[2]>>
      OBVIOUS
    <3>. QED
      BY <3>1, <3>2
  <2>3. p \in 0..(m - 1) /\ x = Arrays!At(a, p) /\ \A j \in 0..(m - 1) : Arrays!At(a, j) <= x
    BY <1>8, <2>2 DEF IsMax
  <2>. HIDE DEF x, p
  <2>4. CASE x < Arrays!At(a, m)
    <3>1. F[m] = <<Arrays!At(a, m), m>>
      BY <1>9, <2>2, <2>4
    <3>2. F[m] \in Int \X Int /\ F[m][1] = Arrays!At(a, m) /\ F[m][2] = m /\ m \in 0..m
      BY <1>6, <2>1, <3>1
    <3>3. ASSUME NEW j \in 0..m PROVE Arrays!At(a, j) <= Arrays!At(a, m)
      <4>1. CASE j = m
        BY <2>1, <4>1
      <4>2. CASE j \in 0..(m - 1)
        BY <2>1, <2>2, <2>3, <2>4, <4>2
      <4>. QED
        BY <2>1, <4>1, <4>2
    <3>. QED
      BY <3>2, <3>3 DEF IsMax
  <2>5. CASE ~ (x < Arrays!At(a, m))
    <3>1. F[m] = <<x, p>>
      BY <1>9, <2>2, <2>5
    <3>2. F[m] \in Int \X Int /\ F[m][1] = x /\ F[m][2] = p
      BY <2>2, <3>1
    <3>3. p \in 0..m
      BY <1>6, <2>1, <2>3
    <3>4. \A j \in 0..m : Arrays!At(a, j) <= x
      <4>1. Arrays!At(a, m) <= x
        BY <2>1, <2>2, <2>5
      <4>. QED
        BY <2>1, <2>3, <4>1
    <3>. QED
      BY <2>3, <3>2, <3>3, <3>4 DEF IsMax
  <2>. QED
    BY <2>4, <2>5
<1>. QED
  BY <1>6, <1>10

\* The pair with the largest sum up to k, with its sum.
IsBest(a, b, k, t) ==
  /\ t \in Int \X Int \X Int
  /\ t[1] \in 0..t[2] /\ t[2] \in 0..k /\ t[3] = Arrays!At(a, t[1]) + Arrays!At(b, t[2])
  /\ \A l \in 0..k : \A j \in 0..l : Arrays!At(a, j) + Arrays!At(b, l) <= t[3]

\* max_array prints a pair of places that none exceeds.
LEMMA LargestSumIsFound ==
  ASSUME NEW a \in Seq(Int), NEW b \in Seq(Int), Len(a) = Len(b), Len(b) # 0
  PROVE  Arrays!LargestSum(Arrays!max_ind(a, b)[1], Arrays!max_ind(a, b)[2], a, b)
<1>. DEFINE n == Len(b)
            S == Int \X Int \X Int
            mx == Arrays!fill_max(a)
            sum(k) == mx[k][1] + Arrays!At(b, k)
            first == <<0, 0, mx[0][1] + Arrays!At(b, 0)>>
            next(k, before) == IF mx[k][2] <= k /\ before[3] < sum(k)
                               THEN <<mx[k][2], k, sum(k)>> ELSE before
            Fills(g) == g = [k \in 0..(n - 1) |-> IF k = 0 THEN first ELSE next(k, g[k - 1])]
            F == CHOOSE g : Fills(g)
            step == [x \in (0..(n - 1)) \X S |-> next(x[1], x[2])]
<1>1. Arrays!max_ind(a, b) = F[n - 1]
  BY DEF Arrays!max_ind
<1>2. /\ n \in Nat \ {0} /\ \A k \in 0..(n - 1) : k \in Nat
      /\ \A k \in 0..(n - 1) : Arrays!At(a, k) \in Int /\ Arrays!At(b, k) \in Int
  BY DEF Arrays!At
<1>3. \A k \in 0..(n - 1) : IsMax(a, k, mx[k])
  BY MaxIsFilled
<1>. HIDE DEF mx
<1>4. \A k \in 0..(n - 1) :
        /\ mx[k][1] \in Int /\ mx[k][2] \in 0..k /\ mx[k][1] = Arrays!At(a, mx[k][2])
        /\ \A j \in 0..k : Arrays!At(a, j) <= mx[k][1]
        /\ sum(k) \in Int
  <2>. SUFFICES ASSUME NEW k \in 0..(n - 1)
                PROVE  /\ mx[k][1] \in Int /\ mx[k][2] \in 0..k
                       /\ mx[k][1] = Arrays!At(a, mx[k][2])
                       /\ \A j \in 0..k : Arrays!At(a, j) <= mx[k][1]
                       /\ sum(k) \in Int
    OBVIOUS
  <2>1. IsMax(a, k, mx[k])
    BY <1>3
  <2>2. mx[k][1] \in Int
    BY <2>1 DEF IsMax
  <2>3. sum(k) \in Int
    BY <1>2, <2>2
  <2>. QED
    BY <2>1, <2>2, <2>3 DEF IsMax
<1>. HIDE DEF sum
<1>5. Fills(F)
  <2>1. \A k \in 0..(n - 1), before \in S : next(k, before) \in S
    <3>. SUFFICES ASSUME NEW k \in 0..(n - 1), NEW before \in S PROVE next(k, before) \in S
      OBVIOUS
    <3>1. mx[k][2] \in 0..k /\ sum(k) \in Int /\ k \in Nat
      BY <1>2, <1>4
    <3>2. <<mx[k][2], k, sum(k)>> \in S
      <4>1. mx[k][2] \in Int /\ k \in Int /\ sum(k) \in Int
        BY <3>1
      <4>. QED
        BY <4>1
    <3>. QED
      BY <3>2
  <2>2. step \in Steps(S, n)
    <3>. HIDE DEF next
    <3>. QED
      BY <2>1 DEF Steps
  <2>3. first \in S
    <3>1. 0 \in 0..(n - 1)
      BY <1>2
    <3>2. mx[0][1] \in Int /\ Arrays!At(b, 0) \in Int
      BY <1>2, <1>4, <3>1
    <3>. QED
      BY <3>2
  <2>4. PICK g : /\ g \in [0..(n - 1) -> S]
                 /\ \A k \in 0..(n - 1) :
                      g[k] = IF k = 0 THEN first ELSE step[<<k, g[k - 1]>>]
    <3>. HIDE DEF step, S, n, first
    <3>1. PICK g : Unrolls(g, S, n, first, step)
      BY <1>2, <2>2, <2>3, DefinedStepByStep
    <3>. QED
      BY <3>1 DEF Unrolls
  <2>5. \A k \in 0..(n - 1) : g[k] = IF k = 0 THEN first ELSE next(k, g[k - 1])
    <3>. SUFFICES ASSUME NEW k \in 0..(n - 1)
                  PROVE  g[k] = IF k = 0 THEN first ELSE next(k, g[k - 1])
      OBVIOUS
    <3>. HIDE DEF next, step, first
    <3>0. CASE k = 0
      BY <2>4, <3>0
    <3>. SUFFICES ASSUME k # 0 PROVE g[k] = next(k, g[k - 1])
      BY <3>0
    <3>1. k - 1 \in 0..(n - 1) /\ g[k - 1] \in S
      <4>1. k - 1 \in 0..(n - 1)
        BY <1>2
      <4>. HIDE DEF S
      <4>. QED
        BY <2>4, <4>1
    <3>2. <<k, g[k - 1]>> \in (0..(n - 1)) \X S
      BY <3>1
    <3>3. step[<<k, g[k - 1]>>] = next(k, g[k - 1])
      <4>. USE DEF step
      <4>. QED
        BY <3>2
    <3>. QED
      BY <2>4, <3>3
  <2>6. Fills(g)
    <3>. HIDE DEF next, first
    <3>. QED
      BY <2>4, <2>5
  <2>. HIDE DEF Fills
  <2>. QED
    BY <2>6
<1>. HIDE DEF F
<1>6. F[0] = first /\ \A k \in 1..(n - 1) : F[k] = next(k, F[k - 1])
  <2>1. 0 \in 0..(n - 1) /\ \A k \in 1..(n - 1) : k \in 0..(n - 1) /\ k # 0
    BY <1>2
  <2>. HIDE DEF next, first
  <2>. QED
    BY <1>5, <2>1
<1>7. \A k \in 0..(n - 1) : IsBest(a, b, k, F[k])
  <2>. DEFINE M == {k \in 0..(n - 1) : ~ IsBest(a, b, k, F[k])}
  <2>. SUFFICES ASSUME M # {} PROVE FALSE
    OBVIOUS
  <2>1. PICK m \in M : \A k \in M : m <= k
    <3>1. M \in SUBSET Nat
      OBVIOUS
    <3>. HIDE DEF M
    <3>. QED
      BY <3>1, LeastNatural
  <2>2. m \in 0..(n - 1) /\ ~ IsBest(a, b, m, F[m]) /\ m \in Nat
    BY <1>2, <2>1
  <2>3. m # 0
    <3>1. 0 \in 0..(n - 1) /\ \A j \in 0..0 : j = 0
      BY <1>2
    <3>2. /\ mx[0][2] = 0 /\ mx[0][1] = Arrays!At(a, 0)
          /\ Arrays!At(a, 0) \in Int /\ Arrays!At(b, 0) \in Int
      BY <1>2, <1>4, <3>1
    <3>3. F[0] = <<0, 0, Arrays!At(a, 0) + Arrays!At(b, 0)>>
      <4>1. F[0] = first
        <5>. HIDE DEF next, first
        <5>. QED
          BY <1>6
      <4>. QED
        BY <3>2, <4>1
    <3>4. IsBest(a, b, 0, F[0])
      <4>1. /\ F[0] \in Int \X Int \X Int /\ F[0][1] = 0 /\ F[0][2] = 0
            /\ F[0][3] = Arrays!At(a, 0) + Arrays!At(b, 0) /\ F[0][3] \in Int
        <5>1. PICK v \in Int : v = Arrays!At(a, 0) + Arrays!At(b, 0)
          BY <3>2
        <5>2. F[0] = <<0, 0, v>>
          BY <3>3, <5>1
        <5>. QED
          BY <5>1, <5>2
      <4>2. \A l \in 0..0 : \A j \in 0..l : j = 0 /\ l = 0
        OBVIOUS
      <4>. QED
        BY <3>1, <4>1, <4>2 DEF IsBest
    <3>. QED
      BY <2>2, <3>4
  <2>4. m - 1 \in 0..(n - 1) /\ m \in 1..(n - 1) /\ IsBest(a, b, m - 1, F[m - 1])
    <3>1. m - 1 \in 0..(n - 1) /\ m \in 1..(n - 1) /\ m - 1 < m
      BY <1>2, <2>2, <2>3
    <3>2. m - 1 \notin M
      <4>. HIDE DEF M
      <4>. QED
        BY <2>1, <2>2, <3>1
    <3>. QED
      BY <3>1, <3>2
  <2>5. F[m] = next(m, F[m - 1])
    <3>. HIDE DEF next
    <3>. QED
      BY <1>6, <2>4
  <2>. DEFINE p == F[m - 1][1]
              q == F[m - 1][2]
              best == F[m - 1][3]
  <2>6. /\ p \in Int /\ q \in Int /\ best \in Int /\ F[m - 1] = <<p, q, best>>
        /\ p \in 0..q /\ q \in 0..(m - 1) /\ best = Arrays!At(a, p) + Arrays!At(b, q)
        /\ \A l \in 0..(m - 1) : \A j \in 0..l : Arrays!At(a, j) + Arrays!At(b, l) <= best
    <3>1. F[m - 1] \in Int \X Int \X Int
      BY <2>4 DEF IsBest
    <3>2. /\ p \in 0..q /\ q \in 0..(m - 1) /\ best = Arrays!At(a, p) + Arrays!At(b, q)
          /\ \A l \in 0..(m - 1) : \A j \in 0..l : Arrays!At(a, j) + Arrays!At(b, l) <= best
      BY <2>4 DEF IsBest
    <3>3. \A t \in Int \X Int \X Int :
            t[1] \in Int /\ t[2] \in Int /\ t[3] \in Int /\ t = <<t[1], t[2], t[3]>>
      OBVIOUS
    <3>. QED
      BY <3>1, <3>2, <3>3
  <2>61. F[m - 1][3] = best
    OBVIOUS
  <2>. HIDE DEF p, q, best
  <2>62. best \in Int
    BY <2>6
  <2>7. /\ mx[m][1] \in Int /\ mx[m][2] \in 0..m /\ mx[m][1] = Arrays!At(a, mx[m][2])
        /\ \A j \in 0..m : Arrays!At(a, j) <= mx[m][1]
        /\ sum(m) = mx[m][1] + Arrays!At(b, m) /\ sum(m) \in Int /\ Arrays!At(b, m) \in Int
    BY <1>2, <1>4, <2>2 DEF sum
  <2>71. sum(m) \in Int
    BY <2>7
  <2>8. \A j \in 0..m : Arrays!At(a, j) + Arrays!At(b, m) <= sum(m)
    <3>. SUFFICES ASSUME NEW j \in 0..m PROVE Arrays!At(a, j) + Arrays!At(b, m) <= sum(m)
      OBVIOUS
    <3>1. j \in 0..(n - 1)
      BY <1>2, <2>2
    <3>2. Arrays!At(a, j) \in Int /\ Arrays!At(a, j) <= mx[m][1]
      BY <1>2, <2>7, <3>1
    <3>. QED
      BY <2>7, <3>2
  <2>9. CASE best < sum(m)
    <3>1. F[m] = <<mx[m][2], m, sum(m)>>
      <4>1. mx[m][2] <= m
        <5>1. mx[m][2] \in 0..m
          BY <2>7
        <5>. QED
          BY <2>2, <5>1
      <4>. QED
        BY <2>5, <2>61, <2>9, <4>1
    <3>2. ASSUME NEW l \in 0..m, NEW j \in 0..l
          PROVE  Arrays!At(a, j) + Arrays!At(b, l) <= sum(m)
      <4>1. CASE l = m
        BY <2>8, <4>1
      <4>2. CASE l # m
        <5>1. l \in 0..(m - 1) /\ l \in 0..(n - 1) /\ j \in 0..(n - 1)
          <6>1. l \in 0..(m - 1)
            BY <2>2, <4>2
          <6>2. l \in 0..(n - 1)
            BY <1>2, <2>2
          <6>. QED
            BY <1>2, <6>1, <6>2
        <5>2. Arrays!At(a, j) \in Int /\ Arrays!At(b, l) \in Int
          BY <1>2, <5>1
        <5>3. Arrays!At(a, j) + Arrays!At(b, l) <= best
          BY <2>6, <5>1
        <5>. QED
          BY <2>62, <2>71, <2>9, <5>2, <5>3
      <4>. QED
        BY <4>1, <4>2
    <3>3. /\ F[m] \in Int \X Int \X Int /\ F[m][1] \in 0..F[m][2] /\ F[m][2] \in 0..m
          /\ F[m][3] = Arrays!At(a, F[m][1]) + Arrays!At(b, F[m][2]) /\ F[m][3] = sum(m)
      <4>1. F[m][1] = mx[m][2] /\ F[m][2] = m /\ F[m][3] = sum(m)
        BY <3>1
      <4>2. mx[m][2] \in 0..m /\ mx[m][2] \in Int /\ m \in 0..m /\ m \in Int
        BY <2>2, <2>7
      <4>3. F[m] \in Int \X Int \X Int
        BY <2>71, <3>1, <4>2
      <4>4. sum(m) = Arrays!At(a, mx[m][2]) + Arrays!At(b, m)
        BY <2>7
      <4>. QED
        BY <4>1, <4>2, <4>3, <4>4
    <3>. QED
      BY <2>2, <3>2, <3>3 DEF IsBest
  <2>10. CASE ~ (best < sum(m))
    <3>1. F[m] = <<p, q, best>>
      <4>1. F[m] = F[m - 1]
        BY <2>5, <2>61, <2>10
      <4>. QED
        BY <2>6, <4>1
    <3>2. ASSUME NEW l \in 0..m, NEW j \in 0..l
          PROVE  Arrays!At(a, j) + Arrays!At(b, l) <= best
      <4>1. CASE l = m
        <5>1. j \in 0..m /\ j \in 0..(n - 1)
          BY <1>2, <2>2, <4>1
        <5>2. Arrays!At(a, j) \in Int /\ Arrays!At(a, j) + Arrays!At(b, m) <= sum(m)
          BY <1>2, <2>8, <5>1
        <5>3. Arrays!At(b, m) \in Int
          BY <2>7
        <5>. QED
          BY <2>62, <2>71, <2>10, <4>1, <5>2, <5>3
      <4>2. CASE l # m
        <5>1. l \in 0..(m - 1)
          BY <2>2, <4>2
        <5>. QED
          BY <2>6, <5>1
      <4>. QED
        BY <4>1, <4>2
    <3>3. /\ F[m] \in Int \X Int \X Int /\ F[m][1] \in 0..F[m][2] /\ F[m][2] \in 0..m
          /\ F[m][3] = Arrays!At(a, F[m][1]) + Arrays!At(b, F[m][2]) /\ F[m][3] = best
      <4>1. p \in Int /\ q \in Int /\ p \in 0..q /\ q \in 0..m
        BY <2>2, <2>6
      <4>2. best = Arrays!At(a, p) + Arrays!At(b, q)
        BY <2>6
      <4>. QED
        <5>1. F[m][1] = p /\ F[m][2] = q /\ F[m][3] = best
          BY <3>1
        <5>2. F[m] \in Int \X Int \X Int
          <6>1. p \in Int /\ q \in Int /\ best \in Int
            BY <2>62, <4>1
          <6>2. <<p, q, best>> \in Int \X Int \X Int
            BY <6>1
          <6>. QED
            BY <3>1, <6>2
        <5>. QED
          BY <4>1, <4>2, <5>1, <5>2
    <3>. QED
      BY <2>2, <3>2, <3>3 DEF IsBest
  <2>. QED
    BY <2>9, <2>10
<1>8. IsBest(a, b, n - 1, F[n - 1])
  BY <1>2, <1>7
<1>. DEFINE t == F[n - 1]
<1>9. /\ t[1] \in Int /\ t[2] \in Int /\ 0 <= t[1] /\ t[1] <= t[2] /\ t[2] < n
      /\ t[3] = Arrays!At(a, t[1]) + Arrays!At(b, t[2])
      /\ \A l \in 0..(n - 1) : \A j \in 0..l : Arrays!At(a, j) + Arrays!At(b, l) <= t[3]
  BY <1>2, <1>8 DEF IsBest
<1>. HIDE DEF t
<1>10. ASSUME NEW k \in DOMAIN a, NEW l \in DOMAIN a, k <= l
       PROVE  a[k] + b[l] <= Arrays!At(a, t[1]) + Arrays!At(b, t[2])
  <2>1. /\ l - 1 \in 0..(n - 1) /\ k - 1 \in 0..(l - 1)
        /\ a[k] = Arrays!At(a, k - 1) /\ b[l] = Arrays!At(b, l - 1)
    <3>1. k \in Nat \ {0} /\ l \in Nat \ {0} /\ l <= n
      BY <1>2
    <3>2. l - 1 \in 0..(n - 1)
      BY <1>2, <3>1
    <3>4. k - 1 \in 0..(l - 1)
      BY <1>10, <3>1
    <3>3. (k - 1) + 1 = k /\ (l - 1) + 1 = l
      BY <3>1
    <3>. QED
      BY <3>2, <3>3, <3>4 DEF Arrays!At
  <2>. QED
    BY <1>9, <2>1
<1>11. Arrays!LargestSum(t[1], t[2], a, b)
  BY <1>9, <1>10 DEF Arrays!LargestSum
<1>. QED
  BY <1>1, <1>11 DEF t

LEMMA IntegersInOrder ==
  ASSUME NEW n \in Nat \ {0}, NEW f \in [1..n -> Int]
  PROVE  f \in Seq(Int) /\ Len(f) = n /\ Len(f) # 0
OBVIOUS

LEMMA IntegersWiden ==
  ASSUME NEW V, V \subseteq Int, NEW n, NEW f \in [1..n -> V]
  PROVE  f \in [1..n -> Int]
OBVIOUS

\* What the programs of one step print, once they have printed.
PrintsInv ==
  /\ program \in OneStep => input \in Inputs(program)
  /\ output # None => program \in OneStep /\ output = <<Prints(program, input[1], input[2])>>

(***************************************************************************)
(* PlacesAreBest of MCAlgorithms: bin_search finds an element nearest to   *)
(* the number in every sorted array of integers, and max_array a pair with *)
(* the largest sum in every two arrays.                                    *)
(***************************************************************************)
THEOREM PlacesAreFound == MCSpec => []PlacesAreBest
<1>1. MCInit => PrintsInv
  BY DEF MCInit, PrintsInv
<1>2. PrintsInv /\ [MCNext]_all_vars => PrintsInv'
  <2>. SUFFICES ASSUME PrintsInv, [MCNext]_all_vars PROVE PrintsInv'
    OBVIOUS
  <2>1. CASE Compute
    BY <2>1 DEF PrintsInv, Compute, MCNext, all_vars
  <2>2. CASE ~ Compute
    BY <2>2 DEF PrintsInv, MCNext, all_vars
  <2>. QED
    BY <2>1, <2>2
<1>3. PrintsInv => PlacesAreBest
  <2>. SUFFICES ASSUME PrintsInv, output # None PROVE PlacesAreBest
    BY DEF PlacesAreBest
  <2>1. output[1] = Prints(program, input[1], input[2]) /\ input \in Inputs(program)
    BY DEF PrintsInv
  <2>2. Values \subseteq Int /\ MaxLength \in Nat
    BY AlgorithmsAssumption DEF AlgorithmsAssumption
  <2>3. ASSUME program = "bin_search"
        PROVE  Arrays!Nearest(output[1], input[1], input[2])
    <3>1. input \in SortedArrays \X Values
      BY <2>1, <2>3 DEF Inputs
    <3>2. output[1] = Arrays!find_elem(input[1], input[2])
      BY <2>1, <2>3 DEF Prints
    <3>3. PICK n \in 1..MaxLength : input[1] \in [1..n -> Values] /\ Arrays!Sorted(input[1])
      BY <3>1 DEF SortedArrays, ArraysOf
    <3>4. input[1] \in Seq(Int) /\ Len(input[1]) # 0 /\ input[2] \in Int
      <4>1. n \in Nat \ {0} /\ input[1] \in [1..n -> Int] /\ input[2] \in Int
        <5>1. n \in Nat \ {0}
          BY <2>2, <3>3
        <5>. QED
          BY <2>2, <3>1, <3>3, <5>1, IntegersWiden
      <4>. QED
        BY <4>1, IntegersInOrder
    <3>. QED
      BY <3>2, <3>3, <3>4, NearestIsFound
  <2>4. ASSUME program = "max_array"
        PROVE  Arrays!LargestSum(output[1][1], output[1][2], input[1], input[2])
    <3>1. PICK n \in 1..(MaxLength - 2) : input \in ArraysOf(n) \X ArraysOf(n)
      BY <2>1, <2>4 DEF Inputs
    <3>2. output[1] = Arrays!max_ind(input[1], input[2])
      BY <2>1, <2>4 DEF Prints
    <3>3. /\ input[1] \in Seq(Int) /\ input[2] \in Seq(Int)
          /\ Len(input[1]) = Len(input[2]) /\ Len(input[2]) # 0
      <4>1. n \in Nat \ {0} /\ input[1] \in [1..n -> Int] /\ input[2] \in [1..n -> Int]
        <5>1. n \in Nat \ {0}
          BY <2>2
        <5>2. input[1] \in [1..n -> Values] /\ input[2] \in [1..n -> Values]
          BY <3>1 DEF ArraysOf
        <5>. QED
          BY <2>2, <5>1, <5>2, IntegersWiden
      <4>. QED
        BY <4>1, IntegersInOrder
    <3>. QED
      BY <3>2, <3>3, LargestSumIsFound
  <2>. QED
    BY <2>3, <2>4 DEF PlacesAreBest
<1>. QED
  BY <1>1, <1>2, <1>3, PTL DEF MCSpec

-------------------------------------------------------------------------------
(***************************************************************************)
(* Functions that are defined by recursion over a measure.                 *)
(***************************************************************************)

\* g solves the equation f = B[f] where the measure m is below n.
SolvesBelow(g, B, D, m, n) == \A p \in D : m[p] < n => g[p] = B[g][p]
SameBelow(g, h, D, m, n) == \A p \in D : m[p] < n => g[p] = h[p]

\* The right-hand side looks at places of a smaller measure only.
LooksBelow(B, D, V, m) ==
  \A g, h \in [D -> V] : \A p \in D : SameBelow(g, h, D, m, m[p]) => B[g][p] = B[h][p]

Recursion(B, D, V, m) ==
  /\ m \in [D -> Nat] /\ B \in [[D -> V] -> [D -> V]] /\ [D -> V] # {}
  /\ LooksBelow(B, D, V, m)

LEMMA RecursionIsSound ==
  ASSUME NEW B, NEW D, NEW V, NEW m, Recursion(B, D, V, m)
  PROVE  \E f \in [D -> V] : f = B[f]
<1>. m \in [D -> Nat] /\ B \in [[D -> V] -> [D -> V]] /\ LooksBelow(B, D, V, m)
  BY DEF Recursion
<1>0. PICK c \in [D -> V] : TRUE
  BY DEF Recursion
<1>. DEFINE Fun == [D -> V]
<1>1. ASSUME NEW g \in Fun, NEW n \in Nat, SolvesBelow(g, B, D, m, n)
      PROVE  B[g] \in Fun /\ SolvesBelow(B[g], B, D, m, n + 1)
  <2>1. B[g] \in Fun
    OBVIOUS
  <2>2. ASSUME NEW p \in D, m[p] < n + 1 PROVE B[g][p] = B[B[g]][p]
    <3>1. m[p] \in Nat
      OBVIOUS
    <3>2. SameBelow(g, B[g], D, m, m[p])
      <4>. SUFFICES ASSUME NEW q \in D, m[q] < m[p] PROVE g[q] = B[g][q]
        BY DEF SameBelow
      <4>1. m[q] \in Nat /\ m[q] < n
        BY <2>2, <3>1
      <4>. QED
        BY <1>1, <4>1 DEF SolvesBelow
    <3>. QED
      BY <2>1, <3>2 DEF LooksBelow
  <2>. QED
    BY <2>1, <2>2 DEF SolvesBelow
<1>2. ASSUME NEW n \in Nat PROVE \E g \in Fun : SolvesBelow(g, B, D, m, n)
  <2>. DEFINE M == {k \in Nat : ~ \E g \in Fun : SolvesBelow(g, B, D, m, k)}
  <2>1. M = {}
    <3>. SUFFICES ASSUME M # {} PROVE FALSE
      OBVIOUS
    <3>1. PICK k \in M : \A j \in M : k <= j
      <4>1. M \in SUBSET Nat
        OBVIOUS
      <4>. HIDE DEF M
      <4>. QED
        BY <4>1, LeastNatural
    <3>2. k \in Nat /\ ~ \E g \in Fun : SolvesBelow(g, B, D, m, k)
      OBVIOUS
    <3>3. k # 0
      <4>1. SolvesBelow(c, B, D, m, 0)
        BY DEF SolvesBelow
      <4>. QED
        BY <3>2, <4>1
    <3>4. k - 1 \in Nat /\ k - 1 \notin M
      <4>. HIDE DEF M
      <4>. QED
        BY <3>1, <3>2, <3>3
    <3>5. PICK g \in Fun : SolvesBelow(g, B, D, m, k - 1)
      BY <3>4
    <3>6. B[g] \in Fun /\ SolvesBelow(B[g], B, D, m, k - 1 + 1)
      BY <1>1, <3>4, <3>5
    <3>7. k - 1 + 1 = k
      BY <3>2
    <3>. QED
      BY <3>2, <3>6, <3>7
  <2>. QED
    BY <2>1
<1>3. ASSUME NEW g \in Fun, NEW h \in Fun, NEW n \in Nat,
             SolvesBelow(g, B, D, m, n), SolvesBelow(h, B, D, m, n)
      PROVE  SameBelow(g, h, D, m, n)
  <2>. DEFINE M == {k \in Nat : k < n /\ \E p \in D : m[p] = k /\ g[p] # h[p]}
  <2>1. M = {}
    <3>. SUFFICES ASSUME M # {} PROVE FALSE
      OBVIOUS
    <3>1. PICK k \in M : \A j \in M : k <= j
      <4>1. M \in SUBSET Nat
        OBVIOUS
      <4>. HIDE DEF M
      <4>. QED
        BY <4>1, LeastNatural
    <3>2. PICK p \in D : m[p] = k /\ k < n /\ g[p] # h[p]
      OBVIOUS
    <3>3. SameBelow(g, h, D, m, m[p])
      <4>. SUFFICES ASSUME NEW q \in D, m[q] < m[p], g[q] # h[q] PROVE FALSE
        BY DEF SameBelow
      <4>1. m[q] \in Nat /\ m[p] \in Nat /\ m[q] < n
        BY <3>2
      <4>2. m[q] \in M
        BY <4>1
      <4>. HIDE DEF M
      <4>. QED
        BY <3>1, <3>2, <4>1, <4>2
    <3>4. B[g][p] = B[h][p]
      BY <3>3 DEF LooksBelow
    <3>. QED
      BY <1>3, <3>2, <3>4 DEF SolvesBelow
  <2>2. ASSUME NEW p \in D, m[p] < n PROVE g[p] = h[p]
    <3>1. m[p] \in Nat /\ m[p] \notin M
      BY <2>1
    <3>. QED
      BY <2>2, <3>1
  <2>. QED
    BY <2>2 DEF SameBelow
<1>. DEFINE Of(n) == CHOOSE g \in Fun : SolvesBelow(g, B, D, m, n)
            f == [p \in D |-> Of(m[p] + 1)[p]]
<1>4. ASSUME NEW n \in Nat PROVE Of(n) \in Fun /\ SolvesBelow(Of(n), B, D, m, n)
  BY <1>2
<1>. HIDE DEF Of
<1>5. ASSUME NEW p \in D PROVE m[p] + 1 \in Nat /\ m[p] < m[p] + 1 /\ m[p] \in Nat
  OBVIOUS
<1>6. f \in Fun
  BY <1>4, <1>5
<1>7. ASSUME NEW p \in D PROVE f[p] = B[f][p]
  <2>1. PICK g : g = Of(m[p] + 1)
    OBVIOUS
  <2>2. g \in Fun /\ SolvesBelow(g, B, D, m, m[p] + 1)
    BY <1>4, <1>5, <2>1
  <2>3. f[p] = g[p] /\ g[p] = B[g][p]
    BY <1>5, <2>1, <2>2 DEF SolvesBelow
  <2>4. SameBelow(g, f, D, m, m[p])
    <3>. SUFFICES ASSUME NEW q \in D, m[q] < m[p] PROVE g[q] = f[q]
      BY DEF SameBelow
    <3>1. PICK h : h = Of(m[q] + 1)
      OBVIOUS
    <3>2. h \in Fun /\ SolvesBelow(h, B, D, m, m[q] + 1)
      BY <1>4, <1>5, <3>1
    <3>3. SolvesBelow(g, B, D, m, m[q] + 1)
      <4>1. \A r \in D : m[r] < m[q] + 1 => m[r] < m[p] + 1
        BY <1>5
      <4>. QED
        BY <2>2, <4>1 DEF SolvesBelow
    <3>4. SameBelow(g, h, D, m, m[q] + 1)
      BY <1>3, <1>5, <2>2, <3>2, <3>3
    <3>5. g[q] = h[q]
      BY <1>5, <3>4 DEF SameBelow
    <3>6. f[q] = h[q]
      BY <3>1
    <3>. QED
      BY <3>5, <3>6
  <2>5. B[g][p] = B[f][p]
    BY <1>6, <2>2, <2>4 DEF LooksBelow
  <2>. QED
    BY <2>3, <2>5
<1>. HIDE DEF f
<1>8. f = B[f]
  <2>1. B[f] \in Fun
    BY <1>6
  <2>. QED
    BY <1>6, <1>7, <2>1
<1>. QED
  BY <1>6, <1>8

-------------------------------------------------------------------------------
(***************************************************************************)
(* PaintedSegments: the merge sort.                                        *)
(***************************************************************************)

\* How many elements of w are in S.
PlacesOf(w, S) == {k \in 1..Len(w) : w[k] \in S}
CountOf(w, S) == Cardinality(PlacesOf(w, S))

LEMMA MovedCount ==
  ASSUME NEW A, NEW C, NEW f \in [A -> C], IsFiniteSet(A),
         \A x, y \in A : x # y => f[x] # f[y],
         \A y \in C : \E x \in A : f[x] = y
  PROVE  IsFiniteSet(C) /\ Cardinality(C) = Cardinality(A)
<1>1. ExistsBijection(A, C)
  BY DEF ExistsBijection, Bijection, Injection, Surjection, IsInjective
<1>. QED
  BY <1>1, FS_Bijection

LEMMA ApartCount ==
  ASSUME NEW A, NEW C, IsFiniteSet(A), IsFiniteSet(C), A \cap C = {}
  PROVE  /\ IsFiniteSet(A \cup C)
         /\ Cardinality(A \cup C) = Cardinality(A) + Cardinality(C)
         /\ Cardinality(A) \in Nat /\ Cardinality(C) \in Nat
<1>1. Cardinality(A) \in Nat /\ Cardinality(C) \in Nat
  BY FS_CardinalityType
<1>2. /\ IsFiniteSet(A \cup C)
      /\ Cardinality(A \cup C) = Cardinality(A) + Cardinality(C) - Cardinality(A \cap C)
  BY FS_Union
<1>3. Cardinality(A \cap C) = 0
  BY FS_EmptySet
<1>. QED
  BY <1>1, <1>2, <1>3

LEMMA CountType ==
  ASSUME NEW w, Len(w) \in Nat, NEW S
  PROVE  /\ IsFiniteSet(PlacesOf(w, S)) /\ CountOf(w, S) \in Nat
         /\ CountOf(w, S) = 0 <=> \A k \in 1..Len(w) : w[k] \notin S
<1>1. IsFiniteSet(1..Len(w)) /\ PlacesOf(w, S) \subseteq 1..Len(w)
  BY FS_Interval DEF PlacesOf
<1>2. IsFiniteSet(PlacesOf(w, S))
  BY <1>1, FS_Subset
<1>3. CountOf(w, S) \in Nat /\ (CountOf(w, S) = 0 <=> PlacesOf(w, S) = {})
  BY <1>2, FS_CardinalityType, FS_EmptySet DEF CountOf
<1>4. PlacesOf(w, S) = {} <=> \A k \in 1..Len(w) : w[k] \notin S
  BY DEF PlacesOf
<1>. QED
  BY <1>2, <1>3, <1>4

\* v is u with w behind it.
Joins(v, u, w) ==
  /\ Len(u) \in Nat /\ Len(w) \in Nat /\ Len(v) = Len(u) + Len(w)
  /\ \A k \in 1..Len(u) : v[k] = u[k]
  /\ \A k \in 1..Len(w) : v[Len(u) + k] = w[k]

LEMMA CountJoined ==
  ASSUME NEW v, NEW u, NEW w, Joins(v, u, w), NEW S
  PROVE  CountOf(v, S) = CountOf(u, S) + CountOf(w, S)
<1>. DEFINE A == PlacesOf(u, S)
            C == PlacesOf(w, S)
            D == {k \in (Len(u) + 1)..Len(v) : v[k] \in S}
            f == [k \in C |-> Len(u) + k]
<1>1. PICK m \in Nat : m = Len(u)
  BY DEF Joins
<1>2. PICK n \in Nat : n = Len(w)
  BY DEF Joins
<1>3. IsFiniteSet(A) /\ IsFiniteSet(C)
  BY <1>1, <1>2, CountType
<1>4. f \in [C -> D]
  <2>. SUFFICES ASSUME NEW k \in C PROVE m + k \in D
    BY <1>1
  <2>1. k \in 1..n /\ w[k] \in S
    BY <1>2 DEF PlacesOf
  <2>2. m + k \in (m + 1)..(m + n)
    BY <2>1
  <2>3. v[m + k] = w[k] /\ Len(v) = m + n
    BY <1>1, <1>2, <2>1 DEF Joins
  <2>. QED
    BY <1>1, <2>1, <2>2, <2>3
<1>5. \A x, y \in C : x # y => f[x] # f[y]
  BY <1>1 DEF PlacesOf
<1>6. \A y \in D : \E x \in C : f[x] = y
  <2>. SUFFICES ASSUME NEW y \in D PROVE \E x \in C : f[x] = y
    OBVIOUS
  <2>1. Len(v) = m + n
    BY <1>1, <1>2 DEF Joins
  <2>2. y - m \in 1..n /\ m + (y - m) = y
    BY <1>1, <2>1
  <2>3. v[m + (y - m)] = w[y - m]
    BY <1>1, <1>2, <2>2 DEF Joins
  <2>4. y - m \in C
    BY <1>2, <2>2, <2>3 DEF PlacesOf
  <2>. QED
    BY <1>1, <2>2, <2>4
<1>7. PlacesOf(v, S) = A \cup D
  <2>1. Len(v) = m + n
    BY <1>1, <1>2 DEF Joins
  <2>2. 1..(m + n) = (1..m) \cup ((m + 1)..(m + n))
    OBVIOUS
  <2>3. \A k \in 1..m : v[k] = u[k]
    BY <1>1 DEF Joins
  <2>. QED
    BY <1>1, <2>1, <2>2, <2>3 DEF PlacesOf
<1>8. A \cap D = {}
  BY <1>1 DEF PlacesOf
<1>. HIDE DEF A, C, D, f
<1>9. IsFiniteSet(D) /\ Cardinality(D) = Cardinality(C)
  BY <1>3, <1>4, <1>5, <1>6, MovedCount
<1>10. Cardinality(PlacesOf(v, S)) = Cardinality(A) + Cardinality(D)
  BY <1>3, <1>7, <1>8, <1>9, ApartCount
<1>. QED
  BY <1>9, <1>10 DEF CountOf, A, C

\* An element before a sequence.
LEMMA ConsCount ==
  ASSUME NEW E, NEW x \in E, NEW w \in Seq(E)
  PROVE  /\ <<x>> \o w \in Seq(E)
         /\ Joins(<<x>> \o w, <<x>>, w)
         /\ \A S : CountOf(<<x>>, S) = IF x \in S THEN 1 ELSE 0
         /\ \A S : CountOf(<<x>> \o w, S) = CountOf(<<x>>, S) + CountOf(w, S)
<1>1. <<x>> \o w \in Seq(E) /\ Len(w) \in Nat /\ Len(<<x>>) = 1 /\ <<x>>[1] = x
  OBVIOUS
<1>2. Len(<<x>> \o w) = 1 + Len(w)
  OBVIOUS
<1>3. ASSUME NEW k \in 1..Len(w) PROVE (<<x>> \o w)[1 + k] = w[k]
  OBVIOUS
<1>4. (<<x>> \o w)[1] = x
  OBVIOUS
<1>5. Joins(<<x>> \o w, <<x>>, w)
  BY <1>1, <1>2, <1>3, <1>4 DEF Joins
<1>6. ASSUME NEW S PROVE CountOf(<<x>>, S) = IF x \in S THEN 1 ELSE 0
  <2>1. PlacesOf(<<x>>, S) = IF x \in S THEN {1} ELSE {}
    BY <1>1 DEF PlacesOf
  <2>. QED
    BY <2>1, FS_Singleton, FS_EmptySet DEF CountOf
<1>. QED
  BY <1>1, <1>5, <1>6, CountJoined

LEMMA HeadCount ==
  ASSUME NEW E, NEW w \in Seq(E), w # <<>>
  PROVE  /\ Head(w) \in E /\ Tail(w) \in Seq(E) /\ Len(Tail(w)) = Len(w) - 1
         /\ Joins(w, <<Head(w)>>, Tail(w))
         /\ \A S : CountOf(w, S) = CountOf(<<Head(w)>>, S) + CountOf(Tail(w), S)
<1>1. /\ Head(w) \in E /\ Tail(w) \in Seq(E) /\ Len(w) \in Nat \ {0}
      /\ Len(Tail(w)) = Len(w) - 1 /\ Head(w) = w[1]
  OBVIOUS
<1>2. ASSUME NEW k \in 1..Len(Tail(w)) PROVE Tail(w)[k] = w[k + 1]
  OBVIOUS
<1>3. Len(<<Head(w)>>) = 1 /\ <<Head(w)>>[1] = w[1]
  BY <1>1
<1>4. Joins(w, <<Head(w)>>, Tail(w))
  BY <1>1, <1>2, <1>3 DEF Joins
<1>. QED
  BY <1>1, <1>4, CountJoined

\* merge, as the equation that its function solves.
MergeEnds == Seq(Painted!Ends) \X Seq(Painted!Ends)

MergeBy(g) ==
  [parts \in MergeEnds |->
     IF parts[1] = <<>> THEN parts[2]
     ELSE IF parts[2] = <<>> THEN parts[1]
     ELSE IF Painted!NotLarger(Head(parts[1]), Head(parts[2]))
          THEN <<Head(parts[1])>> \o g[<<Tail(parts[1]), parts[2]>>]
          ELSE <<Head(parts[2])>> \o g[<<parts[1], Tail(parts[2])>>]]

LEMMA MergeSolves == (\E g : g = MergeBy(g)) => Painted!merge = MergeBy(Painted!merge)
BY DEF Painted!merge, MergeBy, MergeEnds

LEMMA MergeExists == \E g \in [MergeEnds -> Seq(Painted!Ends)] : g = MergeBy(g)
<1>. DEFINE D == MergeEnds
            V == Seq(Painted!Ends)
            m == [p \in D |-> Len(p[1]) + Len(p[2])]
            B == [g \in [D -> V] |-> MergeBy(g)]
            c == [p \in D |-> p[1]]
<1>0. ASSUME NEW p \in D
      PROVE  p[1] \in V /\ p[2] \in V /\ Len(p[1]) \in Nat /\ Len(p[2]) \in Nat
  <2>1. p[1] \in V /\ p[2] \in V
    BY DEF MergeEnds
  <2>. QED
    BY <2>1
<1>1. m \in [D -> Nat] /\ c \in [D -> V]
  <2>1. ASSUME NEW p \in D PROVE Len(p[1]) + Len(p[2]) \in Nat
    <3>1. PICK k \in Nat : k = Len(p[1])
      BY <1>0
    <3>2. PICK n \in Nat : n = Len(p[2])
      BY <1>0
    <3>3. k + n \in Nat
      OBVIOUS
    <3>. QED
      BY <3>1, <3>2, <3>3, Zenon
  <2>2. m \in [D -> Nat]
    BY <2>1, Zenon
  <2>3. c \in [D -> V]
    BY <1>0, Zenon
  <2>. QED
    BY <2>2, <2>3
<1>m. \A p \in D : m[p] = Len(p[1]) + Len(p[2])
  OBVIOUS
<1>. HIDE DEF m
<1>2. ASSUME NEW p \in D, p[1] # <<>>, p[2] # <<>>
      PROVE  /\ <<Tail(p[1]), p[2]>> \in D /\ m[<<Tail(p[1]), p[2]>>] < m[p]
             /\ <<p[1], Tail(p[2])>> \in D /\ m[<<p[1], Tail(p[2])>>] < m[p]
             /\ Head(p[1]) \in Painted!Ends /\ Head(p[2]) \in Painted!Ends
  <2>1. PICK a \in V : a = p[1]
    BY DEF MergeEnds
  <2>2. PICK b \in V : b = p[2]
    BY DEF MergeEnds
  <2>3. /\ Tail(a) \in V /\ Head(a) \in Painted!Ends /\ Len(Tail(a)) = Len(a) - 1
        /\ Tail(b) \in V /\ Head(b) \in Painted!Ends /\ Len(Tail(b)) = Len(b) - 1
    BY <1>2, <2>1, <2>2
  <2>4. <<Tail(a), b>> \in D /\ <<a, Tail(b)>> \in D
    BY <2>3 DEF MergeEnds
  <2>5. Len(a) \in Nat /\ Len(b) \in Nat
    OBVIOUS
  <2>8. m[p] = Len(a) + Len(b)
    BY <1>m, <2>1, <2>2
  <2>6. /\ m[<<Tail(a), b>>] = Len(Tail(a)) + Len(b)
        /\ m[<<a, Tail(b)>>] = Len(a) + Len(Tail(b))
    BY <1>m, <2>4
  <2>7. m[<<Tail(a), b>>] < m[p] /\ m[<<a, Tail(b)>>] < m[p]
    BY <2>3, <2>5, <2>6, <2>8
  <2>. QED
    BY <2>1, <2>2, <2>3, <2>4, <2>7
<1>3. ASSUME NEW g \in [D -> V], NEW p \in D PROVE MergeBy(g)[p] \in V
  <2>1. p[1] \in V /\ p[2] \in V
    BY DEF MergeEnds
  <2>2. CASE p[1] = <<>> \/ p[2] = <<>>
    BY <2>1, <2>2 DEF MergeBy
  <2>3. CASE p[1] # <<>> /\ p[2] # <<>>
    <3>1. PICK u \in V : u = g[<<Tail(p[1]), p[2]>>]
      BY <1>2, <2>3
    <3>2. PICK w \in V : w = g[<<p[1], Tail(p[2])>>]
      BY <1>2, <2>3
    <3>3. PICK x \in Painted!Ends : x = Head(p[1])
      BY <1>2, <2>3
    <3>4. PICK y \in Painted!Ends : y = Head(p[2])
      BY <1>2, <2>3
    <3>5. <<x>> \o u \in V /\ <<y>> \o w \in V
      BY ConsCount
    <3>. QED
      BY <2>3, <3>1, <3>2, <3>3, <3>4, <3>5 DEF MergeBy
  <2>. QED
    BY <2>2, <2>3
<1>4. B \in [[D -> V] -> [D -> V]]
  <2>. SUFFICES ASSUME NEW g \in [D -> V] PROVE MergeBy(g) \in [D -> V]
    OBVIOUS
  <2>1. MergeBy(g) = [p \in D |-> MergeBy(g)[p]]
    BY DEF MergeBy
  <2>. QED
    BY <1>3, <2>1
<1>5. LooksBelow(B, D, V, m)
  <2>. SUFFICES ASSUME NEW g \in [D -> V], NEW h \in [D -> V], NEW p \in D,
                       SameBelow(g, h, D, m, m[p])
                PROVE  MergeBy(g)[p] = MergeBy(h)[p]
    BY DEF LooksBelow
  <2>1. CASE p[1] = <<>> \/ p[2] = <<>>
    BY <2>1 DEF MergeBy
  <2>2. CASE p[1] # <<>> /\ p[2] # <<>>
    <3>1. /\ g[<<Tail(p[1]), p[2]>>] = h[<<Tail(p[1]), p[2]>>]
          /\ g[<<p[1], Tail(p[2])>>] = h[<<p[1], Tail(p[2])>>]
      BY <1>2, <2>2 DEF SameBelow
    <3>. QED
      BY <2>2, <3>1 DEF MergeBy
  <2>. QED
    BY <2>1, <2>2
<1>. HIDE DEF m, c, D, V
<1>6. \E f \in [D -> V] : f = B[f]
  <2>. HIDE DEF B
  <2>1. Recursion(B, D, V, m)
    BY <1>1, <1>4, <1>5 DEF Recursion
  <2>. QED
    BY <2>1, RecursionIsSound
<1>7. PICK f \in [D -> V] : f = B[f]
  BY <1>6
<1>. QED
  BY <1>7 DEF D, V

LEMMA MergeIs ==
  ASSUME NEW a \in Seq(Painted!Ends), NEW b \in Seq(Painted!Ends)
  PROVE  /\ a = <<>> => Painted!merge[<<a, b>>] = b
         /\ b = <<>> => Painted!merge[<<a, b>>] = a
         /\ a # <<>> /\ b # <<>> =>
              Painted!merge[<<a, b>>]
                = IF Painted!NotLarger(Head(a), Head(b))
                  THEN <<Head(a)>> \o Painted!merge[<<Tail(a), b>>]
                  ELSE <<Head(b)>> \o Painted!merge[<<a, Tail(b)>>]
<1>1. PICK g : g = Painted!merge
  OBVIOUS
<1>2. g = MergeBy(g)
  BY <1>1, MergeExists, MergeSolves
<1>3. <<a, b>> \in MergeEnds /\ <<a, b>>[1] = a /\ <<a, b>>[2] = b
  BY DEF MergeEnds
<1>4. g[<<a, b>>] = MergeBy(g)[<<a, b>>]
  BY <1>2
<1>. QED
  BY <1>1, <1>3, <1>4 DEF MergeBy

\* The order of the ends is total.
LEMMA EndsOrder ==
  ASSUME NEW x \in Painted!Ends, NEW y \in Painted!Ends, NEW z \in Painted!Ends
  PROVE  /\ Painted!NotLarger(x, x)
         /\ Painted!NotLarger(x, y) \/ Painted!NotLarger(y, x)
         /\ Painted!NotLarger(x, y) /\ Painted!NotLarger(y, z) => Painted!NotLarger(x, z)
<1>1. Coordinates \subseteq Int
  BY AlgorithmsAssumption DEF AlgorithmsAssumption, Painted!SegmentsAssumption
<1>2. ASSUME NEW e \in Painted!Ends PROVE e[1] \in Int /\ e[2] \in Int
  <2>1. e[1] \in Coordinates /\ e[2] \in {Painted!begin_segment, Painted!end_segment}
    BY DEF Painted!Ends
  <2>2. Painted!begin_segment \in Int /\ Painted!end_segment \in Int
    BY DEF Painted!begin_segment, Painted!end_segment
  <2>. QED
    BY <1>1, <2>1, <2>2
<1>3. /\ x[1] \in Int /\ x[2] \in Int /\ y[1] \in Int /\ y[2] \in Int
      /\ z[1] \in Int /\ z[2] \in Int
  BY <1>2
<1>. QED
  BY <1>3 DEF Painted!NotLarger

\* merge_sort's order.
EndsInOrder(w) == \A j, k \in 1..Len(w) : j < k => Painted!NotLarger(w[j], w[k])
NoneBelow(x, w) == \A k \in 1..Len(w) : Painted!NotLarger(x, w[k])

LEMMA OrderJoined ==
  ASSUME NEW v, NEW x, NEW w, Len(w) \in Nat, Joins(v, <<x>>, w),
         EndsInOrder(w), NoneBelow(x, w)
  PROVE  EndsInOrder(v)
<1>1. PICK n \in Nat : n = Len(w)
  OBVIOUS
<1>2. Len(v) = n + 1 /\ v[1] = x /\ \A k \in 1..n : v[k + 1] = w[k]
  BY <1>1 DEF Joins
<1>. SUFFICES ASSUME NEW j \in 1..(n + 1), NEW k \in 1..(n + 1), j < k
              PROVE  Painted!NotLarger(v[j], v[k])
  BY <1>2 DEF EndsInOrder
<1>3. k - 1 \in 1..n /\ v[k] = w[k - 1]
  <2>1. k - 1 \in 1..n
    OBVIOUS
  <2>2. v[(k - 1) + 1] = w[k - 1] /\ (k - 1) + 1 = k
    BY <1>2, <2>1
  <2>. QED
    BY <2>1, <2>2
<1>4. CASE j = 1
  BY <1>1, <1>2, <1>3, <1>4 DEF NoneBelow
<1>5. CASE j # 1
  <2>1. j - 1 \in 1..n /\ j - 1 < k - 1
    BY <1>5
  <2>2. v[(j - 1) + 1] = w[j - 1] /\ (j - 1) + 1 = j
    BY <1>2, <2>1
  <2>. QED
    BY <1>1, <1>3, <2>1, <2>2 DEF EndsInOrder
<1>. QED
  BY <1>4, <1>5

LEMMA OrderFromHead ==
  ASSUME NEW w \in Seq(Painted!Ends), w # <<>>, EndsInOrder(w)
  PROVE  EndsInOrder(Tail(w)) /\ NoneBelow(Head(w), w)
<1>1. PICK n \in Nat : n = Len(w)
  OBVIOUS
<1>2. /\ n # 0 /\ Len(Tail(w)) = n - 1 /\ Head(w) = w[1] /\ w[1] \in Painted!Ends
      /\ \A k \in 1..(n - 1) : Tail(w)[k] = w[k + 1]
  BY <1>1
<1>3. EndsInOrder(Tail(w))
  <2>. SUFFICES ASSUME NEW j \in 1..(n - 1), NEW k \in 1..(n - 1), j < k
                PROVE  Painted!NotLarger(Tail(w)[j], Tail(w)[k])
    BY <1>2 DEF EndsInOrder
  <2>1. j + 1 \in 1..n /\ k + 1 \in 1..n /\ j + 1 < k + 1
    OBVIOUS
  <2>2. Painted!NotLarger(w[j + 1], w[k + 1])
    BY <1>1, <2>1 DEF EndsInOrder
  <2>. QED
    BY <1>2, <2>2
<1>4. NoneBelow(Head(w), w)
  <2>. SUFFICES ASSUME NEW k \in 1..n PROVE Painted!NotLarger(w[1], w[k])
    BY <1>1, <1>2 DEF NoneBelow
  <2>1. CASE k = 1
    BY <1>2, <2>1, EndsOrder
  <2>2. CASE k # 1
    <3>1. 1 \in 1..n /\ 1 < k
      BY <2>2
    <3>. QED
      BY <1>1, <3>1 DEF EndsInOrder
  <2>. QED
    BY <2>1, <2>2
<1>. QED
  BY <1>3, <1>4

LEMMA NoneBelowTrans ==
  ASSUME NEW x \in Painted!Ends, NEW y \in Painted!Ends, NEW w \in Seq(Painted!Ends),
         Painted!NotLarger(x, y), NoneBelow(y, w)
  PROVE  NoneBelow(x, w)
<1>. SUFFICES ASSUME NEW k \in 1..Len(w) PROVE Painted!NotLarger(x, w[k])
  BY DEF NoneBelow
<1>1. w[k] \in Painted!Ends /\ Painted!NotLarger(y, w[k])
  BY DEF NoneBelow
<1>. QED
  BY <1>1, EndsOrder

\* The elements that are smaller than x, by their number.
Below(x) == {y \in Painted!Ends : ~ Painted!NotLarger(x, y)}

LEMMA NoneBelowCount ==
  ASSUME NEW x, NEW w \in Seq(Painted!Ends)
  PROVE  NoneBelow(x, w) <=> CountOf(w, Below(x)) = 0
<1>1. Len(w) \in Nat /\ \A k \in 1..Len(w) : w[k] \in Painted!Ends
  OBVIOUS
<1>2. CountOf(w, Below(x)) = 0 <=> \A k \in 1..Len(w) : w[k] \notin Below(x)
  BY <1>1, CountType
<1>. QED
  BY <1>1, <1>2 DEF NoneBelow, Below

\* What merge promises.
SameCounts(a, b, w) == \A S : CountOf(w, S) = CountOf(a, S) + CountOf(b, S)
Merged(a, b, w) ==
  /\ w \in Seq(Painted!Ends) /\ SameCounts(a, b, w)
  /\ EndsInOrder(a) /\ EndsInOrder(b) => EndsInOrder(w)

LEMMA MergedStep ==
  ASSUME NEW a \in Seq(Painted!Ends), NEW b \in Seq(Painted!Ends), NEW w, a # <<>>,
         Merged(Tail(a), b, w), EndsInOrder(b) => NoneBelow(Head(a), b)
  PROVE  Merged(a, b, <<Head(a)>> \o w)
<1>1. PICK x \in Painted!Ends : x = Head(a)
  OBVIOUS
<1>2. PICK t \in Seq(Painted!Ends) : t = Tail(a)
  BY HeadCount
<1>3. w \in Seq(Painted!Ends)
  BY DEF Merged
<1>4. PICK v : v = <<x>> \o w
  OBVIOUS
<1>5. /\ v \in Seq(Painted!Ends) /\ Joins(v, <<x>>, w)
      /\ \A S : CountOf(v, S) = CountOf(<<x>>, S) + CountOf(w, S)
  BY <1>3, <1>4, ConsCount
<1>6. SameCounts(a, b, v)
  <2>. SUFFICES ASSUME NEW S PROVE CountOf(v, S) = CountOf(a, S) + CountOf(b, S)
    BY DEF SameCounts
  <2>1. CountOf(w, S) = CountOf(t, S) + CountOf(b, S)
    BY <1>2 DEF Merged, SameCounts
  <2>2. CountOf(a, S) = CountOf(<<x>>, S) + CountOf(t, S)
    BY <1>1, <1>2, HeadCount
  <2>3. CountOf(t, S) \in Nat /\ CountOf(b, S) \in Nat /\ CountOf(<<x>>, S) \in Nat
    <3>1. Len(t) \in Nat /\ Len(b) \in Nat /\ Len(<<x>>) \in Nat
      OBVIOUS
    <3>. QED
      BY <3>1, CountType
  <2>4. CountOf(v, S) = CountOf(<<x>>, S) + CountOf(w, S)
    BY <1>5
  <2>. QED
    BY <2>1, <2>2, <2>3, <2>4
<1>7. ASSUME EndsInOrder(a), EndsInOrder(b) PROVE EndsInOrder(v)
  <2>1. EndsInOrder(t) /\ NoneBelow(x, a)
    BY <1>1, <1>2, <1>7, OrderFromHead
  <2>2. NoneBelow(x, b)
    BY <1>1, <1>7
  <2>3. CountOf(a, Below(x)) = 0 /\ CountOf(b, Below(x)) = 0
    BY <2>1, <2>2, NoneBelowCount
  <2>4. /\ CountOf(a, Below(x)) = CountOf(<<x>>, Below(x)) + CountOf(t, Below(x))
        /\ CountOf(w, Below(x)) = CountOf(t, Below(x)) + CountOf(b, Below(x))
    <3>1. CountOf(a, Below(x)) = CountOf(<<x>>, Below(x)) + CountOf(t, Below(x))
      BY <1>1, <1>2, HeadCount
    <3>2. CountOf(w, Below(x)) = CountOf(t, Below(x)) + CountOf(b, Below(x))
      BY <1>2 DEF Merged, SameCounts
    <3>. QED
      BY <3>1, <3>2
  <2>5. CountOf(<<x>>, Below(x)) \in Nat /\ CountOf(t, Below(x)) \in Nat
    <3>1. Len(t) \in Nat /\ Len(<<x>>) \in Nat
      OBVIOUS
    <3>. QED
      BY <3>1, CountType
  <2>6. CountOf(w, Below(x)) = 0
    BY <2>3, <2>4, <2>5
  <2>7. NoneBelow(x, w)
    BY <1>3, <2>6, NoneBelowCount
  <2>8. EndsInOrder(w)
    BY <1>2, <1>7, <2>1 DEF Merged
  <2>9. Len(w) \in Nat
    BY <1>3
  <2>. QED
    BY <1>5, <2>7, <2>8, <2>9, OrderJoined
<1>. QED
  BY <1>1, <1>4, <1>5, <1>6, <1>7 DEF Merged

LEMMA MergedSwaps ==
  ASSUME NEW a \in Seq(Painted!Ends), NEW b \in Seq(Painted!Ends), NEW w, Merged(a, b, w)
  PROVE  Merged(b, a, w)
<1>1. ASSUME NEW S PROVE CountOf(w, S) = CountOf(b, S) + CountOf(a, S)
  <2>1. CountOf(a, S) \in Nat /\ CountOf(b, S) \in Nat
    <3>1. Len(a) \in Nat /\ Len(b) \in Nat
      OBVIOUS
    <3>. QED
      BY <3>1, CountType
  <2>2. CountOf(w, S) = CountOf(a, S) + CountOf(b, S)
    BY DEF Merged, SameCounts
  <2>. QED
    BY <2>1, <2>2
<1>2. SameCounts(b, a, w)
  BY <1>1 DEF SameCounts
<1>. QED
  BY <1>2 DEF Merged

LEMMA MergedEmpty ==
  ASSUME NEW b \in Seq(Painted!Ends)
  PROVE  Merged(<<>>, b, b) /\ Merged(b, <<>>, b)
<1>1. <<>> \in Seq(Painted!Ends) /\ Len(<<>>) = 0 /\ Len(b) \in Nat
  OBVIOUS
<1>2. ASSUME NEW S PROVE CountOf(b, S) = CountOf(<<>>, S) + CountOf(b, S)
  <2>1. CountOf(<<>>, S) = 0
    BY <1>1, CountType
  <2>2. CountOf(b, S) \in Nat
    BY <1>1, CountType
  <2>. QED
    BY <2>1, <2>2
<1>3. Merged(<<>>, b, b)
  BY <1>2 DEF Merged, SameCounts
<1>. QED
  BY <1>1, <1>3, MergedSwaps

\* merge keeps the ends of both parts, and their order.
LEMMA MergeMerges ==
  ASSUME NEW a \in Seq(Painted!Ends), NEW b \in Seq(Painted!Ends)
  PROVE  Merged(a, b, Painted!merge[<<a, b>>])
<1>. DEFINE Fails(u, v) == ~ Merged(u, v, Painted!merge[<<u, v>>])
            M == {n \in Nat : \E u, v \in Seq(Painted!Ends) :
                                n = Len(u) + Len(v) /\ Fails(u, v)}
<1>. SUFFICES ASSUME Fails(a, b) PROVE FALSE
  OBVIOUS
<1>1. M # {} /\ M \in SUBSET Nat
  <2>1. Len(a) + Len(b) \in Nat
    OBVIOUS
  <2>. QED
    BY <2>1
<1>2. PICK n \in M : \A k \in M : n <= k
  <2>. HIDE DEF M
  <2>. QED
    BY <1>1, LeastNatural
<1>3. PICK u \in Seq(Painted!Ends), v \in Seq(Painted!Ends) :
        n = Len(u) + Len(v) /\ Fails(u, v)
  BY <1>2
<1>4. CASE u = <<>> \/ v = <<>>
  BY <1>3, <1>4, MergeIs, MergedEmpty
<1>5. CASE u # <<>> /\ v # <<>>
  <2>1. PICK x \in Painted!Ends : x = Head(u)
    BY <1>5
  <2>2. PICK y \in Painted!Ends : y = Head(v)
    BY <1>5
  <2>3. /\ Tail(u) \in Seq(Painted!Ends) /\ Len(Tail(u)) = Len(u) - 1
        /\ Tail(v) \in Seq(Painted!Ends) /\ Len(Tail(v)) = Len(v) - 1
        /\ Len(u) \in Nat /\ Len(v) \in Nat /\ Len(u) # 0 /\ Len(v) # 0
    BY <1>5
  <2>4. n - 1 \in Nat /\ n - 1 \notin M
    <3>1. n \in Nat /\ n - 1 \in Nat
      BY <1>3, <2>3
    <3>. HIDE DEF M
    <3>. QED
      BY <1>2, <3>1
  <2>5. n - 1 = Len(Tail(u)) + Len(v) /\ n - 1 = Len(u) + Len(Tail(v))
    BY <1>3, <2>3
  <2>6. ~ Fails(Tail(u), v) /\ ~ Fails(u, Tail(v))
    BY <2>3, <2>4, <2>5
  <2>7. CASE Painted!NotLarger(x, y)
    <3>1. ASSUME EndsInOrder(v) PROVE NoneBelow(x, v)
      BY <1>5, <2>2, <2>7, <3>1, OrderFromHead, NoneBelowTrans
    <3>2. Merged(u, v, <<Head(u)>> \o Painted!merge[<<Tail(u), v>>])
      BY <1>5, <2>1, <2>6, <3>1, MergedStep
    <3>3. Painted!merge[<<u, v>>] = <<Head(u)>> \o Painted!merge[<<Tail(u), v>>]
      BY <1>5, <2>1, <2>2, <2>7, MergeIs
    <3>. QED
      BY <1>3, <3>2, <3>3
  <2>8. CASE ~ Painted!NotLarger(x, y)
    <3>1. Painted!NotLarger(y, x)
      BY <2>8, EndsOrder
    <3>2. ASSUME EndsInOrder(u) PROVE NoneBelow(y, u)
      BY <1>5, <2>1, <3>1, <3>2, OrderFromHead, NoneBelowTrans
    <3>3. Merged(Tail(v), u, Painted!merge[<<u, Tail(v)>>])
      BY <2>3, <2>6, MergedSwaps
    <3>4. Merged(v, u, <<Head(v)>> \o Painted!merge[<<u, Tail(v)>>])
      BY <1>5, <2>2, <3>2, <3>3, MergedStep
    <3>5. Painted!merge[<<u, v>>] = <<Head(v)>> \o Painted!merge[<<u, Tail(v)>>]
      BY <1>5, <2>1, <2>2, <2>8, MergeIs
    <3>. QED
      BY <1>3, <3>4, <3>5, MergedSwaps
  <2>. QED
    BY <2>7, <2>8
<1>. QED
  BY <1>4, <1>5

\* The halves that merge_sort sorts.
FrontHalf(v) == SubSeq(v, 1, Len(v) \div 2)
BackHalf(v) == SubSeq(v, Len(v) \div 2 + 1, Len(v))

LEMMA HalvesOf ==
  ASSUME NEW E, NEW v \in Seq(E), Len(v) > 1
  PROVE  /\ FrontHalf(v) \in Seq(E) /\ Len(FrontHalf(v)) \in 1..(Len(v) - 1)
         /\ BackHalf(v) \in Seq(E) /\ Len(BackHalf(v)) \in 1..(Len(v) - 1)
         /\ Joins(v, FrontHalf(v), BackHalf(v))
<1>1. PICK n \in Nat : n = Len(v)
  OBVIOUS
<1>2. PICK k \in Nat : k = n \div 2
  BY <1>1
<1>3. k \in 1..(n - 1)
  BY <1>1, <1>2
<1>4. FrontHalf(v) = SubSeq(v, 1, k) /\ BackHalf(v) = SubSeq(v, k + 1, n)
  BY <1>1, <1>2 DEF FrontHalf, BackHalf
<1>5. \A j \in 1..n : v[j] \in E
  BY <1>1
<1>6. /\ FrontHalf(v) \in Seq(E) /\ Len(FrontHalf(v)) = k
      /\ \A j \in 1..k : FrontHalf(v)[j] = v[j]
  BY <1>1, <1>3, <1>4, <1>5
<1>7. /\ BackHalf(v) \in Seq(E) /\ Len(BackHalf(v)) = n - k
      /\ \A j \in 1..(n - k) : BackHalf(v)[j] = v[k + j]
  BY <1>1, <1>3, <1>4, <1>5
<1>8. Joins(v, FrontHalf(v), BackHalf(v))
  BY <1>1, <1>3, <1>6, <1>7 DEF Joins
<1>. QED
  BY <1>1, <1>3, <1>6, <1>7, <1>8

\* merge_sort, as the equation that its function solves.
SortBy(g) ==
  [v \in Seq(Painted!Ends) |->
     IF Len(v) = 1 THEN v ELSE Painted!merge[<<g[FrontHalf(v)], g[BackHalf(v)]>>]]

LEMMA SortSolves == (\E g : g = SortBy(g)) => Painted!merge_sort = SortBy(Painted!merge_sort)
BY DEF Painted!merge_sort, SortBy, FrontHalf, BackHalf

\* Of no ends at all the equation says nothing: here they are in order.
SortExists == \E g : g = SortBy(g)

LEMMA SortIsDefined == SortExists
<1>. DEFINE V == Seq(Painted!Ends)
            m == [v \in V |-> Len(v)]
            S(g) == [v \in V |-> IF Len(v) = 0 THEN <<>>
                                 ELSE IF Len(v) = 1 THEN v
                                 ELSE Painted!merge[<<g[FrontHalf(v)], g[BackHalf(v)]>>]]
            B == [g \in [V -> V] |-> S(g)]
<1>1. m \in [V -> Nat] /\ [V -> V] # {}
  <2>1. m \in [V -> Nat]
    OBVIOUS
  <2>2. [v \in V |-> v] \in [V -> V]
    BY Zenon
  <2>. QED
    BY <2>1, <2>2
<1>2. ASSUME NEW v \in V PROVE m[v] = Len(v) /\ Len(v) \in Nat
  OBVIOUS
<1>. HIDE DEF m
<1>3. ASSUME NEW v \in V, Len(v) # 0, Len(v) # 1
      PROVE  /\ FrontHalf(v) \in V /\ m[FrontHalf(v)] < m[v]
             /\ BackHalf(v) \in V /\ m[BackHalf(v)] < m[v]
  <2>0. PICK n \in Nat : n = Len(v)
    BY <1>2
  <2>1. Len(v) > 1
    BY <1>3, <2>0
  <2>2. /\ FrontHalf(v) \in V /\ Len(FrontHalf(v)) \in 1..(Len(v) - 1)
        /\ BackHalf(v) \in V /\ Len(BackHalf(v)) \in 1..(Len(v) - 1)
    BY <2>1, HalvesOf
  <2>. HIDE DEF V
  <2>3. m[FrontHalf(v)] = Len(FrontHalf(v)) /\ m[BackHalf(v)] = Len(BackHalf(v))
    BY <1>2, <2>2
  <2>. QED
    BY <1>2, <2>2, <2>3
<1>4. ASSUME NEW g \in [V -> V], NEW v \in V PROVE S(g)[v] \in V
  <2>1. CASE Len(v) = 0 \/ Len(v) = 1
    BY <2>1
  <2>2. CASE Len(v) # 0 /\ Len(v) # 1
    <3>1. PICK a \in V : a = g[FrontHalf(v)]
      BY <1>3, <2>2
    <3>2. PICK b \in V : b = g[BackHalf(v)]
      BY <1>3, <2>2
    <3>3. Painted!merge[<<a, b>>] \in V
      BY MergeMerges DEF Merged
    <3>. QED
      BY <2>2, <3>1, <3>2, <3>3
  <2>. QED
    BY <2>1, <2>2
<1>5. B \in [[V -> V] -> [V -> V]]
  <2>. SUFFICES ASSUME NEW g \in [V -> V] PROVE S(g) \in [V -> V]
    BY Zenon
  <2>1. S(g) = [v \in V |-> S(g)[v]]
    BY Zenon
  <2>. HIDE DEF S
  <2>. QED
    BY <1>4, <2>1
<1>6. LooksBelow(B, V, V, m)
  <2>1. \A g \in [V -> V] : B[g] = S(g)
    OBVIOUS
  <2>. SUFFICES ASSUME NEW g \in [V -> V], NEW h \in [V -> V], NEW v \in V,
                       SameBelow(g, h, V, m, m[v])
                PROVE  S(g)[v] = S(h)[v]
    <3>. HIDE DEF B, S, V
    <3>. QED
      BY <2>1 DEF LooksBelow
  <2>2. CASE Len(v) = 0 \/ Len(v) = 1
    BY <2>2
  <2>3. CASE Len(v) # 0 /\ Len(v) # 1
    <3>1. g[FrontHalf(v)] = h[FrontHalf(v)] /\ g[BackHalf(v)] = h[BackHalf(v)]
      BY <1>3, <2>3 DEF SameBelow
    <3>. QED
      BY <2>3, <3>1
  <2>. QED
    BY <2>2, <2>3
<1>7. Recursion(B, V, V, m)
  <2>. HIDE DEF B, V, S
  <2>. QED
    BY <1>1, <1>5, <1>6 DEF Recursion
<1>8. PICK f \in [V -> V] : f = B[f]
  <2>. HIDE DEF B, V, S
  <2>. QED
    BY <1>7, RecursionIsSound
<1>9. f = S(f)
  BY <1>8
<1>10. ASSUME NEW v \in V PROVE f[v] = SortBy(f)[v]
  <2>1. CASE Len(v) # 0
    BY <1>9, <2>1 DEF SortBy
  <2>2. CASE Len(v) = 0
    <3>1. v = <<>> /\ <<>> \in V /\ Len(<<>>) = 0
      BY <2>2
    <3>2. f[<<>>] = <<>>
      BY <1>9, <3>1
    <3>3. FrontHalf(v) = <<>> /\ BackHalf(v) = <<>>
      <4>1. FrontHalf(v) = SubSeq(<<>>, 1, 0) /\ BackHalf(v) = SubSeq(<<>>, 1, 0)
        BY <3>1 DEF FrontHalf, BackHalf
      <4>. QED
        BY <4>1
    <3>4. Painted!merge[<<<<>>, <<>>>>] = <<>>
      BY <3>1, MergeIs
    <3>5. SortBy(f)[v] = Painted!merge[<<f[FrontHalf(v)], f[BackHalf(v)]>>]
      BY <2>2 DEF SortBy
    <3>. QED
      BY <3>1, <3>2, <3>3, <3>4, <3>5
  <2>. QED
    BY <2>1, <2>2
<1>11. f = SortBy(f)
  <2>1. f = [v \in V |-> f[v]] /\ SortBy(f) = [v \in V |-> SortBy(f)[v]]
    BY <1>8 DEF SortBy
  <2>. HIDE DEF V
  <2>. QED
    BY <1>10, <2>1, Zenon
<1>. QED
  BY <1>11 DEF SortExists

\* merge_sort puts the ends in order and keeps them all.
Sorts(v, w) ==
  w \in Seq(Painted!Ends) /\ EndsInOrder(w) /\ \A S : CountOf(w, S) = CountOf(v, S)

LEMMA SortSorts ==
  ASSUME NEW v \in Seq(Painted!Ends), Len(v) # 0
  PROVE  Sorts(v, Painted!merge_sort[v])
<1>. DEFINE Fails(u) == Len(u) # 0 /\ ~ Sorts(u, Painted!merge_sort[u])
            M == {n \in Nat : \E u \in Seq(Painted!Ends) : n = Len(u) /\ Fails(u)}
<1>1. PICK g : g = Painted!merge_sort
  OBVIOUS
<1>2. g = SortBy(g)
  BY <1>1, SortIsDefined, SortSolves DEF SortExists
<1>. SUFFICES ASSUME Fails(v) PROVE FALSE
  OBVIOUS
<1>3. M # {} /\ M \in SUBSET Nat
  <2>1. Len(v) \in Nat
    OBVIOUS
  <2>. QED
    BY <2>1
<1>4. PICK n \in M : \A k \in M : n <= k
  <2>. HIDE DEF M
  <2>. QED
    BY <1>3, LeastNatural
<1>5. PICK u \in Seq(Painted!Ends) : n = Len(u) /\ Fails(u)
  BY <1>4
<1>6. g[u] = SortBy(g)[u] /\ n \in Nat /\ n # 0
  BY <1>2, <1>5
<1>7. CASE n = 1
  <2>1. g[u] = u
    BY <1>5, <1>6, <1>7 DEF SortBy
  <2>2. EndsInOrder(u)
    BY <1>5, <1>7 DEF EndsInOrder
  <2>. QED
    BY <1>1, <1>5, <2>1, <2>2 DEF Sorts
<1>8. CASE n # 1
  <2>0. Len(u) > 1
    BY <1>5, <1>6, <1>8
  <2>1. PICK a \in Seq(Painted!Ends) : a = FrontHalf(u) /\ Len(a) \in 1..(n - 1)
    BY <1>5, <2>0, HalvesOf
  <2>2. PICK b \in Seq(Painted!Ends) : b = BackHalf(u) /\ Len(b) \in 1..(n - 1)
    BY <1>5, <2>0, HalvesOf
  <2>3. Joins(u, a, b)
    BY <2>0, <2>1, <2>2, HalvesOf
  <2>4. g[u] = Painted!merge[<<g[a], g[b]>>]
    BY <1>5, <1>6, <1>8, <2>1, <2>2 DEF SortBy
  <2>5. Sorts(a, g[a]) /\ Sorts(b, g[b])
    <3>1. /\ Len(a) \in Nat /\ Len(a) # 0 /\ ~ (n <= Len(a))
          /\ Len(b) \in Nat /\ Len(b) # 0 /\ ~ (n <= Len(b))
      BY <1>6, <2>1, <2>2
    <3>2. Len(a) \notin M /\ Len(b) \notin M
      <4>. HIDE DEF M
      <4>. QED
        BY <1>4, <3>1
    <3>3. ~ Fails(a) /\ ~ Fails(b)
      BY <3>1, <3>2
    <3>. QED
      BY <1>1, <3>1, <3>3
  <2>6. PICK s \in Seq(Painted!Ends) : s = g[a]
    BY <2>5 DEF Sorts
  <2>7. PICK t \in Seq(Painted!Ends) : t = g[b]
    BY <2>5 DEF Sorts
  <2>8. Merged(s, t, g[u])
    BY <2>4, <2>6, <2>7, MergeMerges
  <2>9. ASSUME NEW S PROVE CountOf(g[u], S) = CountOf(u, S)
    <3>1. CountOf(g[u], S) = CountOf(s, S) + CountOf(t, S)
      BY <2>8 DEF Merged, SameCounts
    <3>2. CountOf(s, S) = CountOf(a, S) /\ CountOf(t, S) = CountOf(b, S)
      BY <2>5, <2>6, <2>7 DEF Sorts
    <3>3. CountOf(u, S) = CountOf(a, S) + CountOf(b, S)
      BY <2>3, CountJoined
    <3>. QED
      BY <3>1, <3>2, <3>3
  <2>10. g[u] \in Seq(Painted!Ends) /\ EndsInOrder(g[u])
    BY <2>5, <2>6, <2>7, <2>8 DEF Merged, Sorts
  <2>11. Sorts(u, g[u])
    BY <2>9, <2>10 DEF Sorts
  <2>. QED
    BY <1>1, <1>5, <2>11
<1>. QED
  BY <1>7, <1>8

-------------------------------------------------------------------------------
(***************************************************************************)
(* PaintedSegments: the sweep, with the segments sg and the ends w.        *)
(***************************************************************************)

LeftEnd(s)  == <<s[1], Painted!begin_segment>>
RightEnd(s) == <<s[2], Painted!end_segment>>

IsSegments(sg) ==
  /\ Len(sg) \in Nat \ {0} /\ DOMAIN sg = 1..Len(sg)
  /\ \A s \in 1..Len(sg) :
       sg[s][1] \in Coordinates /\ sg[s][2] \in Coordinates /\ sg[s][1] <= sg[s][2]

LeftsIn(sg, S)  == {s \in 1..Len(sg) : LeftEnd(sg[s]) \in S}
RightsIn(sg, S) == {s \in 1..Len(sg) : RightEnd(sg[s]) \in S}

\* The ends are those of the segments, each as often.
KeepsSegments(w, sg) ==
  \A S : CountOf(w, S) = Cardinality(LeftsIn(sg, S)) + Cardinality(RightsIn(sg, S))

EndsOf(w, sg) ==
  IsSegments(sg) /\ w \in Seq(Painted!Ends) /\ KeepsSegments(w, sg) /\ EndsInOrder(w)

LayersAt(sg, x) == Cardinality({s \in DOMAIN sg : sg[s][1] <= x /\ x < sg[s][2]})
OnceBefore(sg, p) == {x \in Coordinates : x < p /\ LayersAt(sg, x) = 1}

\* The beginnings, or the ends, up to x; those among the first n ends.
KindTo(x, kind) == {e \in Painted!Ends : e[2] = kind /\ e[1] <= x}
Met(w, n, kind) == {k \in 1..n : w[k][2] = kind}
LayerAfter(w, n) ==
  Cardinality(Met(w, n, Painted!begin_segment)) - Cardinality(Met(w, n, Painted!end_segment))

LEMMA KindsDiffer ==
  /\ Painted!begin_segment = -1 /\ Painted!end_segment = 1
  /\ Coordinates \subseteq Int
  /\ \A e \in Painted!Ends : /\ e[1] \in Coordinates /\ e[1] \in Int
                             /\ e[2] = -1 \/ e[2] = 1
<1>1. Painted!begin_segment = -1 /\ Painted!end_segment = 1
  BY DEF Painted!begin_segment, Painted!end_segment
<1>2. Coordinates \subseteq Int
  BY AlgorithmsAssumption DEF AlgorithmsAssumption, Painted!SegmentsAssumption
<1>3. ASSUME NEW e \in Painted!Ends
      PROVE  e[1] \in Coordinates /\ e[2] \in {Painted!begin_segment, Painted!end_segment}
  BY DEF Painted!Ends
<1>. QED
  BY <1>1, <1>2, <1>3

LEMMA EndsAreEnds ==
  ASSUME NEW sg, IsSegments(sg), NEW s \in 1..Len(sg)
  PROVE  /\ LeftEnd(sg[s]) \in Painted!Ends /\ RightEnd(sg[s]) \in Painted!Ends
         /\ LeftEnd(sg[s])[1] = sg[s][1] /\ LeftEnd(sg[s])[2] = -1
         /\ RightEnd(sg[s])[1] = sg[s][2] /\ RightEnd(sg[s])[2] = 1
         /\ sg[s][1] \in Int /\ sg[s][2] \in Int /\ sg[s][1] <= sg[s][2]
<1>1. sg[s][1] \in Coordinates /\ sg[s][2] \in Coordinates /\ sg[s][1] <= sg[s][2]
  BY DEF IsSegments
<1>2. LeftEnd(sg[s]) \in Painted!Ends /\ RightEnd(sg[s]) \in Painted!Ends
  BY <1>1 DEF Painted!Ends, LeftEnd, RightEnd
<1>. QED
  BY <1>1, <1>2, KindsDiffer DEF LeftEnd, RightEnd

LEMMA PartIsFinite ==
  ASSUME NEW n \in Nat, NEW A \in SUBSET (1..n)
  PROVE  IsFiniteSet(A) /\ Cardinality(A) \in Nat
<1>1. IsFiniteSet(1..n)
  BY FS_Interval
<1>2. IsFiniteSet(A)
  BY <1>1, FS_Subset
<1>. QED
  BY <1>2, FS_CardinalityType

\* Over x lie the segments that have begun and have not ended.
LEMMA LayersCounted ==
  ASSUME NEW w, NEW sg, EndsOf(w, sg), NEW x \in Int
  PROVE  LayersAt(sg, x) = CountOf(w, KindTo(x, -1)) - CountOf(w, KindTo(x, 1))
<1>. DEFINE n == Len(sg)
            L == {s \in 1..n : sg[s][1] <= x}
            R == {s \in 1..n : sg[s][2] <= x}
            O == {s \in 1..n : sg[s][1] <= x /\ x < sg[s][2]}
<1>1. IsSegments(sg) /\ n \in Nat /\ DOMAIN sg = 1..n
  BY DEF EndsOf, IsSegments
<1>2. ASSUME NEW s \in 1..n
      PROVE  /\ LeftEnd(sg[s]) \in Painted!Ends /\ RightEnd(sg[s]) \in Painted!Ends
             /\ LeftEnd(sg[s])[1] = sg[s][1] /\ LeftEnd(sg[s])[2] = -1
             /\ RightEnd(sg[s])[1] = sg[s][2] /\ RightEnd(sg[s])[2] = 1
             /\ sg[s][1] \in Int /\ sg[s][2] \in Int /\ sg[s][1] <= sg[s][2]
  BY <1>1, EndsAreEnds
<1>3. /\ L = LeftsIn(sg, KindTo(x, -1)) /\ {} = RightsIn(sg, KindTo(x, -1))
      /\ {} = LeftsIn(sg, KindTo(x, 1)) /\ R = RightsIn(sg, KindTo(x, 1))
  <2>1. L = LeftsIn(sg, KindTo(x, -1))
    BY <1>2 DEF LeftsIn, KindTo
  <2>2. {} = RightsIn(sg, KindTo(x, -1))
    BY <1>2 DEF RightsIn, KindTo
  <2>3. {} = LeftsIn(sg, KindTo(x, 1))
    BY <1>2 DEF LeftsIn, KindTo
  <2>4. R = RightsIn(sg, KindTo(x, 1))
    BY <1>2 DEF RightsIn, KindTo
  <2>. QED
    BY <2>1, <2>2, <2>3, <2>4
<1>4. /\ L \in SUBSET (1..n) /\ R \in SUBSET (1..n) /\ O \in SUBSET (1..n)
      /\ L = R \cup O /\ R \cap O = {}
  BY <1>2
<1>5. LayersAt(sg, x) = Cardinality(O)
  BY <1>1 DEF LayersAt
<1>. HIDE DEF L, R, O, n
<1>6. IsFiniteSet(L) /\ IsFiniteSet(R) /\ IsFiniteSet(O)
  BY <1>1, <1>4, PartIsFinite
<1>7. /\ Cardinality(L) = Cardinality(R) + Cardinality(O)
      /\ Cardinality(R) \in Nat /\ Cardinality(O) \in Nat
  BY <1>4, <1>6, ApartCount
<1>8. Cardinality({}) = 0
  BY FS_EmptySet
<1>9. CountOf(w, KindTo(x, -1)) = Cardinality(L) + 0
  BY <1>3, <1>8 DEF EndsOf, KeepsSegments
<1>10. CountOf(w, KindTo(x, 1)) = 0 + Cardinality(R)
  BY <1>3, <1>8 DEF EndsOf, KeepsSegments
<1>. QED
  BY <1>5, <1>7, <1>9, <1>10

\* Between two ends the layers are those that the sweep has counted.
Between(w, n, x) ==
  (n > 0 => w[n][1] <= x) /\ (n < Len(w) => x < w[n + 1][1])

LEMMA LayersBetween ==
  ASSUME NEW w, NEW sg, EndsOf(w, sg), NEW n \in 0..Len(w), NEW x \in Int, Between(w, n, x)
  PROVE  LayersAt(sg, x) = LayerAfter(w, n)
<1>1. PICK m \in Nat : m = Len(w)
  BY DEF EndsOf
<1>2. ASSUME NEW k \in 1..m
      PROVE  w[k] \in Painted!Ends /\ w[k][1] \in Int
  <2>1. w[k] \in Painted!Ends
    BY <1>1 DEF EndsOf
  <2>. QED
    BY <2>1, KindsDiffer
<1>3. ASSUME NEW k \in 1..m PROVE w[k][1] <= x <=> k <= n
  <2>1. CASE k <= n
    <3>1. n \in 1..m /\ n > 0 /\ w[n][1] <= x
      BY <1>1, <2>1 DEF Between
    <3>2. k = n \/ Painted!NotLarger(w[k], w[n])
      BY <1>1, <2>1, <3>1 DEF EndsOf, EndsInOrder
    <3>3. w[k][1] <= w[n][1]
      BY <1>2, <3>1, <3>2 DEF Painted!NotLarger
    <3>. QED
      BY <1>2, <2>1, <3>1, <3>3
  <2>2. CASE k > n
    <3>1. n + 1 \in 1..m /\ x < w[n + 1][1]
      BY <1>1, <2>2 DEF Between
    <3>2. k = n + 1 \/ Painted!NotLarger(w[n + 1], w[k])
      BY <1>1, <2>2, <3>1 DEF EndsOf, EndsInOrder
    <3>3. w[n + 1][1] <= w[k][1]
      BY <1>2, <3>1, <3>2 DEF Painted!NotLarger
    <3>. QED
      BY <1>2, <2>2, <3>1, <3>3
  <2>. QED
    BY <1>1, <2>1, <2>2
<1>4. ASSUME NEW kind PROVE PlacesOf(w, KindTo(x, kind)) = Met(w, n, kind)
  <2>1. \A k \in 1..m : w[k] \in KindTo(x, kind) <=> w[k][2] = kind /\ k <= n
    BY <1>2, <1>3 DEF KindTo
  <2>2. \A k : k \in 1..n <=> k \in 1..m /\ k <= n
    BY <1>1
  <2>3. \A k : k \in PlacesOf(w, KindTo(x, kind)) <=> k \in Met(w, n, kind)
    BY <1>1, <2>1, <2>2 DEF PlacesOf, Met
  <2>. QED
    BY <2>3
<1>5. LayersAt(sg, x) = CountOf(w, KindTo(x, -1)) - CountOf(w, KindTo(x, 1))
  BY LayersCounted
<1>. QED
  BY <1>4, <1>5, KindsDiffer DEF LayerAfter, CountOf

\* What one end more makes of the layers.
LEMMA LayerStep ==
  ASSUME NEW w \in Seq(Painted!Ends), NEW n \in Nat, n < Len(w)
  PROVE  /\ LayerAfter(w, n) \in Int
         /\ LayerAfter(w, n + 1) = LayerAfter(w, n) + (IF w[n + 1][2] = -1 THEN 1 ELSE -1)
<1>1. w[n + 1][2] = -1 \/ w[n + 1][2] = 1
  <2>1. w[n + 1] \in Painted!Ends
    <3>1. n + 1 \in 1..Len(w)
      OBVIOUS
    <3>. QED
      BY <3>1
  <2>. QED
    BY <2>1, KindsDiffer
<1>2. ASSUME NEW kind
      PROVE  /\ Cardinality(Met(w, n, kind)) \in Nat
             /\ Cardinality(Met(w, n + 1, kind))
                  = IF w[n + 1][2] = kind THEN Cardinality(Met(w, n, kind)) + 1
                                          ELSE Cardinality(Met(w, n, kind))
  <2>1. Met(w, n, kind) \in SUBSET (1..n) /\ n + 1 \notin Met(w, n, kind)
    BY DEF Met
  <2>2. IsFiniteSet(Met(w, n, kind)) /\ Cardinality(Met(w, n, kind)) \in Nat
    BY <2>1, PartIsFinite
  <2>3. 1..(n + 1) = (1..n) \cup {n + 1}
    OBVIOUS
  <2>4. CASE w[n + 1][2] = kind
    <3>1. Met(w, n + 1, kind) = Met(w, n, kind) \cup {n + 1}
      BY <2>3, <2>4 DEF Met
    <3>2. Cardinality(Met(w, n, kind) \cup {n + 1}) = Cardinality(Met(w, n, kind)) + 1
      BY <2>1, <2>2, FS_AddElement
    <3>. QED
      BY <2>2, <2>4, <3>1, <3>2
  <2>5. CASE w[n + 1][2] # kind
    <3>1. Met(w, n + 1, kind) = Met(w, n, kind)
      BY <2>3, <2>5 DEF Met
    <3>. QED
      BY <2>2, <2>5, <3>1
  <2>. QED
    BY <2>4, <2>5
<1>3. PICK a \in Nat : a = Cardinality(Met(w, n, -1))
  BY <1>2
<1>4. PICK b \in Nat : b = Cardinality(Met(w, n, 1))
  BY <1>2
<1>5. LayerAfter(w, n) = a - b
  BY <1>3, <1>4, KindsDiffer DEF LayerAfter
<1>6. LayerAfter(w, n + 1) = Cardinality(Met(w, n + 1, -1)) - Cardinality(Met(w, n + 1, 1))
  BY KindsDiffer DEF LayerAfter
<1>7. CASE w[n + 1][2] = -1
  <2>1. Cardinality(Met(w, n + 1, -1)) = a + 1 /\ Cardinality(Met(w, n + 1, 1)) = b
    BY <1>2, <1>3, <1>4, <1>7
  <2>. QED
    BY <1>5, <1>6, <1>7, <2>1
<1>8. CASE w[n + 1][2] = 1
  <2>1. Cardinality(Met(w, n + 1, -1)) = a /\ Cardinality(Met(w, n + 1, 1)) = b + 1
    BY <1>2, <1>3, <1>4, <1>8
  <2>. QED
    BY <1>5, <1>6, <1>8, <2>1
<1>. QED
  BY <1>1, <1>7, <1>8

LEMMA NoLayersYet ==
  ASSUME NEW w
  PROVE  LayerAfter(w, 0) = 0
<1>1. Met(w, 0, -1) = {} /\ Met(w, 0, 1) = {}
  BY DEF Met
<1>2. LayerAfter(w, 0) = Cardinality(Met(w, 0, -1)) - Cardinality(Met(w, 0, 1))
  BY KindsDiffer DEF LayerAfter
<1>3. Cardinality(Met(w, 0, -1)) = 0 /\ Cardinality(Met(w, 0, 1)) = 0
  BY <1>1, FS_EmptySet
<1>. QED
  BY <1>2, <1>3

\* A segment's beginning is met before its end.
LEMMA NoLayerBelow ==
  ASSUME NEW w, NEW sg, EndsOf(w, sg), NEW n \in 0..Len(w)
  PROVE  LayerAfter(w, n) >= 0
<1>1. PICK m \in Nat : m = Len(w)
  BY DEF EndsOf
<1>2. CASE n = 0
  BY <1>2, NoLayersYet
<1>3. CASE n # 0
  <2>1. n \in 1..m
    BY <1>1, <1>3
  <2>2. ASSUME NEW k \in 1..m PROVE w[k] \in Painted!Ends
    BY <1>1 DEF EndsOf
  <2>3. PICK e \in Painted!Ends : e = w[n]
    BY <2>1, <2>2
  <2>. DEFINE ES == {f \in Painted!Ends : f[2] = 1 /\ Painted!NotLarger(f, e)}
              BS == {f \in Painted!Ends : f[2] = -1 /\ ~ Painted!NotLarger(e, f)}
  <2>4. Met(w, n, 1) \subseteq PlacesOf(w, ES)
    <3>. SUFFICES ASSUME NEW k \in 1..n, w[k][2] = 1 PROVE k \in PlacesOf(w, ES)
      BY DEF Met
    <3>1. k \in 1..m
      BY <2>1
    <3>2. Painted!NotLarger(w[k], e)
      <4>1. CASE k = n
        BY <2>3, <4>1, EndsOrder
      <4>2. CASE k # n
        BY <1>1, <2>1, <2>3, <3>1, <4>2 DEF EndsOf, EndsInOrder
      <4>. QED
        BY <4>1, <4>2
    <3>. QED
      BY <1>1, <2>2, <3>1, <3>2 DEF PlacesOf
  <2>5. PlacesOf(w, BS) \subseteq Met(w, n, -1)
    <3>. SUFFICES ASSUME NEW k \in 1..m, w[k] \in BS PROVE k \in Met(w, n, -1)
      BY <1>1 DEF PlacesOf
    <3>1. k <= n
      <4>. SUFFICES ASSUME k > n PROVE FALSE
        BY <2>1
      <4>1. Painted!NotLarger(e, w[k])
        BY <1>1, <2>1, <2>3 DEF EndsOf, EndsInOrder
      <4>. QED
        BY <4>1
    <3>. QED
      BY <3>1, <2>1 DEF Met
  <2>6. LeftsIn(sg, ES) = {} /\ RightsIn(sg, BS) = {}
    <3>1. \A s \in 1..Len(sg) : LeftEnd(sg[s])[2] = -1 /\ RightEnd(sg[s])[2] = 1
      BY EndsAreEnds DEF EndsOf
    <3>2. LeftsIn(sg, ES) = {}
      BY <3>1 DEF LeftsIn
    <3>3. RightsIn(sg, BS) = {}
      BY <3>1 DEF RightsIn
    <3>. QED
      BY <3>2, <3>3
  <2>7. RightsIn(sg, ES) \subseteq LeftsIn(sg, BS)
    <3>. SUFFICES ASSUME NEW s \in 1..Len(sg), Painted!NotLarger(RightEnd(sg[s]), e)
                  PROVE  LeftEnd(sg[s]) \in BS
      BY DEF LeftsIn, RightsIn
    <3>1. PICK l \in Painted!Ends : l = LeftEnd(sg[s])
      BY EndsAreEnds DEF EndsOf
    <3>2. PICK r \in Painted!Ends : r = RightEnd(sg[s])
      BY EndsAreEnds DEF EndsOf
    <3>3. l[2] = -1 /\ r[2] = 1 /\ l[1] \in Int /\ r[1] \in Int /\ l[1] <= r[1]
      <4>1. /\ LeftEnd(sg[s])[1] = sg[s][1] /\ LeftEnd(sg[s])[2] = -1
            /\ RightEnd(sg[s])[1] = sg[s][2] /\ RightEnd(sg[s])[2] = 1
            /\ sg[s][1] \in Int /\ sg[s][2] \in Int /\ sg[s][1] <= sg[s][2]
        BY EndsAreEnds DEF EndsOf
      <4>. QED
        BY <3>1, <3>2, <4>1
    <3>4. ~ Painted!NotLarger(r, l)
      BY <3>3 DEF Painted!NotLarger
    <3>5. Painted!NotLarger(e, l) => Painted!NotLarger(r, l)
      BY <3>2, EndsOrder
    <3>. QED
      BY <3>1, <3>3, <3>4, <3>5
  <2>. HIDE DEF ES, BS
  <2>8. /\ CountOf(w, ES) = 0 + Cardinality(RightsIn(sg, ES))
        /\ CountOf(w, BS) = Cardinality(LeftsIn(sg, BS)) + 0
    BY <2>6, FS_EmptySet DEF EndsOf, KeepsSegments
  <2>9. /\ Cardinality(RightsIn(sg, ES)) <= Cardinality(LeftsIn(sg, BS))
        /\ Cardinality(RightsIn(sg, ES)) \in Nat /\ Cardinality(LeftsIn(sg, BS)) \in Nat
    <3>1. /\ Len(sg) \in Nat /\ LeftsIn(sg, BS) \in SUBSET (1..Len(sg))
          /\ RightsIn(sg, ES) \in SUBSET (1..Len(sg))
      BY DEF EndsOf, IsSegments, LeftsIn, RightsIn
    <3>2. /\ IsFiniteSet(LeftsIn(sg, BS)) /\ Cardinality(LeftsIn(sg, BS)) \in Nat
          /\ Cardinality(RightsIn(sg, ES)) \in Nat
      BY <3>1, PartIsFinite
    <3>. QED
      BY <2>7, <3>2, FS_Subset
  <2>10. /\ Cardinality(Met(w, n, 1)) <= CountOf(w, ES)
         /\ CountOf(w, BS) <= Cardinality(Met(w, n, -1))
         /\ Cardinality(Met(w, n, 1)) \in Nat /\ Cardinality(Met(w, n, -1)) \in Nat
    <3>1. IsFiniteSet(PlacesOf(w, ES))
      BY <1>1, CountType
    <3>2. Met(w, n, -1) \in SUBSET (1..n) /\ Met(w, n, 1) \in SUBSET (1..n) /\ n \in Nat
      BY <2>1 DEF Met
    <3>3. /\ IsFiniteSet(Met(w, n, -1)) /\ Cardinality(Met(w, n, -1)) \in Nat
          /\ Cardinality(Met(w, n, 1)) \in Nat
      BY <3>2, PartIsFinite
    <3>. QED
      BY <2>4, <2>5, <3>1, <3>3, FS_Subset DEF CountOf
  <2>11. LayerAfter(w, n) = Cardinality(Met(w, n, -1)) - Cardinality(Met(w, n, 1))
    BY KindsDiffer DEF LayerAfter
  <2>. QED
    BY <2>8, <2>9, <2>10, <2>11
<1>. QED
  BY <1>2, <1>3

\* Nothing is painted before the first end.
LEMMA OnceAtFirst ==
  ASSUME NEW w, NEW sg, EndsOf(w, sg), Len(w) # 0
  PROVE  OnceBefore(sg, w[1][1]) = {}
<1>. SUFFICES ASSUME NEW x \in Coordinates, x < w[1][1] PROVE LayersAt(sg, x) # 1
  BY DEF OnceBefore
<1>1. Len(w) \in Nat /\ 0 \in 0..Len(w) /\ x \in Int
  BY KindsDiffer DEF EndsOf
<1>2. Between(w, 0, x)
  BY DEF Between
<1>3. LayersAt(sg, x) = LayerAfter(w, 0)
  BY <1>1, <1>2, LayersBetween
<1>. QED
  BY <1>3, NoLayersYet

\* From one end to the next, all is painted once or nothing is.
LEMMA OnceStep ==
  ASSUME NEW w, NEW sg, EndsOf(w, sg), NEW n \in Nat \ {0}, n < Len(w),
         IsFiniteSet(OnceBefore(sg, w[n][1]))
  PROVE  /\ IsFiniteSet(OnceBefore(sg, w[n + 1][1]))
         /\ Cardinality(OnceBefore(sg, w[n][1])) \in Nat
         /\ w[n][1] \in Int /\ w[n + 1][1] \in Int
         /\ Cardinality(OnceBefore(sg, w[n + 1][1]))
              = Cardinality(OnceBefore(sg, w[n][1]))
                  + (IF LayerAfter(w, n) = 1 THEN w[n + 1][1] - w[n][1] ELSE 0)
<1>1. PICK m \in Nat : m = Len(w)
  BY DEF EndsOf
<1>2. n \in 1..m /\ n + 1 \in 1..m /\ n < n + 1 /\ n \in 0..m
  BY <1>1
<1>3. w[n] \in Painted!Ends /\ w[n + 1] \in Painted!Ends
  BY <1>1, <1>2 DEF EndsOf
<1>4. PICK c \in Coordinates : c = w[n][1]
  BY <1>3, KindsDiffer
<1>5. PICK d \in Coordinates : d = w[n + 1][1]
  BY <1>3, KindsDiffer
<1>6. c \in Int /\ d \in Int /\ c <= d
  <2>1. Painted!NotLarger(w[n], w[n + 1])
    BY <1>1, <1>2 DEF EndsOf, EndsInOrder
  <2>2. c \in Int /\ d \in Int
    BY KindsDiffer
  <2>. QED
    BY <1>4, <1>5, <2>1, <2>2 DEF Painted!NotLarger
<1>7. c..d \subseteq Coordinates /\ Coordinates \subseteq Int
  BY AlgorithmsAssumption DEF AlgorithmsAssumption, Painted!SegmentsAssumption
<1>8. ASSUME NEW x \in c..(d - 1) PROVE x \in Coordinates /\ LayersAt(sg, x) = LayerAfter(w, n)
  <2>1. x \in c..d /\ x \in Int /\ c <= x /\ x < d
    BY <1>6
  <2>2. Between(w, n, x)
    BY <1>1, <1>4, <1>5, <2>1 DEF Between
  <2>3. LayersAt(sg, x) = LayerAfter(w, n)
    BY <1>1, <1>2, <2>1, <2>2, LayersBetween
  <2>. QED
    BY <1>7, <2>1, <2>3
<1>. DEFINE A == OnceBefore(sg, c)
            D == c..(d - 1)
<1>9. \A x \in Coordinates : x < d <=> x < c \/ x \in D
  BY <1>6, <1>7
<1>10. IsFiniteSet(A) /\ Cardinality(A) \in Nat
  BY <1>4, FS_CardinalityType
<1>11. CASE LayerAfter(w, n) = 1
  <2>1. OnceBefore(sg, d) = A \cup D
    <3>1. \A x \in D : x \in Coordinates /\ LayersAt(sg, x) = 1
      BY <1>8, <1>11
    <3>. QED
      BY <1>9, <3>1 DEF OnceBefore
  <2>2. A \cap D = {}
    BY <1>6, <1>7 DEF OnceBefore
  <2>3. IsFiniteSet(D) /\ Cardinality(D) = d - c
    <3>1. PICK b \in Int : b = d - 1
      BY <1>6
    <3>2. IsFiniteSet(c..b) /\ Cardinality(c..b) = IF c > b THEN 0 ELSE b - c + 1
      BY <1>6, FS_Interval
    <3>. QED
      BY <1>6, <3>1, <3>2
  <2>. HIDE DEF A, D
  <2>4. IsFiniteSet(A \cup D) /\ Cardinality(A \cup D) = Cardinality(A) + Cardinality(D)
    BY <1>10, <2>2, <2>3, ApartCount
  <2>5. Cardinality(OnceBefore(sg, d)) = Cardinality(A) + (d - c)
    BY <2>1, <2>3, <2>4
  <2>. QED
    BY <1>4, <1>5, <1>6, <1>10, <1>11, <2>1, <2>4, <2>5 DEF A
<1>12. CASE LayerAfter(w, n) # 1
  <2>1. OnceBefore(sg, d) = A
    <3>1. \A x \in D : LayersAt(sg, x) # 1
      BY <1>8, <1>12
    <3>2. \A x \in Coordinates : x < c => x < d
      BY <1>6, <1>7
    <3>. QED
      BY <1>9, <3>1, <3>2 DEF OnceBefore
  <2>. QED
    BY <1>4, <1>5, <1>6, <1>10, <1>12, <2>1
<1>. QED
  BY <1>11, <1>12

\* Nothing is painted behind the last end.
LEMMA OnceAtLast ==
  ASSUME NEW w, NEW sg, EndsOf(w, sg), Len(w) # 0
  PROVE  {x \in Coordinates : LayersAt(sg, x) = 1} = OnceBefore(sg, w[Len(w)][1])
<1>1. PICK m \in Nat : m = Len(w)
  BY DEF EndsOf
<1>2. m \in 1..m
  BY <1>1
<1>3. ASSUME NEW k \in 1..m PROVE w[k] \in Painted!Ends /\ w[k][1] \in Int
  <2>1. w[k] \in Painted!Ends
    BY <1>1 DEF EndsOf
  <2>. QED
    BY <2>1, KindsDiffer
<1>. SUFFICES ASSUME NEW x \in Coordinates, LayersAt(sg, x) = 1, ~ (x < w[m][1]) PROVE FALSE
  BY <1>1 DEF OnceBefore
<1>. DEFINE O == {s \in DOMAIN sg : sg[s][1] <= x /\ x < sg[s][2]}
<1>4. O # {}
  <2>. SUFFICES ASSUME O = {} PROVE FALSE
    OBVIOUS
  <2>1. LayersAt(sg, x) = Cardinality(O)
    BY DEF LayersAt
  <2>. HIDE DEF O
  <2>. QED
    BY <2>1, FS_EmptySet
<1>5. PICK s \in 1..Len(sg) : x < sg[s][2]
  BY <1>4 DEF EndsOf, IsSegments
<1>6. /\ IsSegments(sg) /\ Len(sg) \in Nat
      /\ RightEnd(sg[s])[1] = sg[s][2] /\ sg[s][2] \in Int /\ x \in Int
  BY EndsAreEnds, KindsDiffer DEF EndsOf, IsSegments
<1>. DEFINE S == {RightEnd(sg[s])}
<1>7. CountOf(w, S) # 0
  <2>1. RightsIn(sg, S) # {}
    BY DEF RightsIn
  <2>. HIDE DEF S
  <2>2. LeftsIn(sg, S) \in SUBSET (1..Len(sg)) /\ RightsIn(sg, S) \in SUBSET (1..Len(sg))
    BY DEF LeftsIn, RightsIn
  <2>3. /\ Cardinality(LeftsIn(sg, S)) \in Nat
        /\ IsFiniteSet(RightsIn(sg, S)) /\ Cardinality(RightsIn(sg, S)) \in Nat
    BY <1>6, <2>2, PartIsFinite
  <2>4. Cardinality(RightsIn(sg, S)) # 0
    BY <2>1, <2>3, FS_EmptySet
  <2>5. CountOf(w, S) = Cardinality(LeftsIn(sg, S)) + Cardinality(RightsIn(sg, S))
    BY DEF EndsOf, KeepsSegments
  <2>. QED
    BY <2>3, <2>4, <2>5
<1>8. PICK k \in 1..m : w[k] \in S
  <2>. HIDE DEF S
  <2>. QED
    BY <1>1, <1>7, CountType
<1>9. w[k][1] = sg[s][2]
  BY <1>6, <1>8
<1>10. w[k][1] <= w[m][1]
  <2>1. k = m \/ Painted!NotLarger(w[k], w[m])
    BY <1>1, <1>2 DEF EndsOf, EndsInOrder
  <2>. QED
    BY <1>2, <1>3, <2>1 DEF Painted!NotLarger
<1>11. w[m][1] \in Int
  BY <1>2, <1>3
<1>. QED
  BY <1>5, <1>6, <1>9, <1>10, <1>11

\* The ends as main reads them.
LEMMA EndsAreRead ==
  ASSUME NEW sg, IsSegments(sg), NEW w,
         w = [k \in 1..(2 * Len(sg)) |->
                IF k % 2 = 1 THEN <<sg[(k + 1) \div 2][1], Painted!begin_segment>>
                             ELSE <<sg[k \div 2][2], Painted!end_segment>>]
  PROVE  w \in Seq(Painted!Ends) /\ Len(w) # 0 /\ KeepsSegments(w, sg)
<1>1. PICK n \in Nat \ {0} : n = Len(sg)
  BY DEF IsSegments
<1>2. ASSUME NEW s \in 1..n
      PROVE  /\ 2 * s - 1 \in 1..(2 * n) /\ w[2 * s - 1] = LeftEnd(sg[s])
             /\ 2 * s \in 1..(2 * n) /\ w[2 * s] = RightEnd(sg[s])
  <2>1. 2 * s - 1 \in 1..(2 * n) /\ (2 * s - 1) % 2 = 1 /\ ((2 * s - 1) + 1) \div 2 = s
    OBVIOUS
  <2>2. 2 * s \in 1..(2 * n) /\ (2 * s) % 2 # 1 /\ (2 * s) \div 2 = s
    OBVIOUS
  <2>3. w[2 * s - 1] = <<sg[s][1], Painted!begin_segment>>
    BY <1>1, <2>1
  <2>4. w[2 * s] = <<sg[s][2], Painted!end_segment>>
    BY <1>1, <2>2
  <2>. QED
    BY <2>1, <2>2, <2>3, <2>4 DEF LeftEnd, RightEnd
<1>3. ASSUME NEW k \in 1..(2 * n) PROVE \E s \in 1..n : k = 2 * s - 1 \/ k = 2 * s
  <2>1. CASE k % 2 = 1
    <3>1. (k + 1) \div 2 \in 1..n /\ k = 2 * ((k + 1) \div 2) - 1
      BY <2>1
    <3>. QED
      BY <3>1
  <2>2. CASE k % 2 # 1
    <3>1. k \div 2 \in 1..n /\ k = 2 * (k \div 2)
      BY <2>2
    <3>. QED
      BY <3>1
  <2>. QED
    BY <2>1, <2>2
<1>4. ASSUME NEW k \in 1..(2 * n) PROVE w[k] \in Painted!Ends
  <2>1. PICK s \in 1..n : k = 2 * s - 1 \/ k = 2 * s
    BY <1>3
  <2>2. LeftEnd(sg[s]) \in Painted!Ends /\ RightEnd(sg[s]) \in Painted!Ends
    BY <1>1, EndsAreEnds
  <2>. QED
    BY <1>2, <2>1, <2>2
<1>5. w \in Seq(Painted!Ends) /\ Len(w) = 2 * n
  <2>1. w = [k \in 1..(2 * n) |-> w[k]] /\ 2 * n \in Nat
    BY <1>1
  <2>2. w \in [1..(2 * n) -> Painted!Ends]
    BY <1>4, <2>1, Zenon
  <2>. QED
    BY <2>1, <2>2
<1>6. ASSUME NEW S
      PROVE  CountOf(w, S) = Cardinality(LeftsIn(sg, S)) + Cardinality(RightsIn(sg, S))
  <2>. DEFINE L == LeftsIn(sg, S)
              R == RightsIn(sg, S)
              A == {k \in 1..(2 * n) : k % 2 = 1 /\ w[k] \in S}
              C == {k \in 1..(2 * n) : k % 2 # 1 /\ w[k] \in S}
              f == [s \in L |-> 2 * s - 1]
              g == [s \in R |-> 2 * s]
  <2>1. L \in SUBSET (1..n) /\ R \in SUBSET (1..n)
    BY <1>1 DEF LeftsIn, RightsIn
  <2>2. IsFiniteSet(L) /\ IsFiniteSet(R)
    <3>. HIDE DEF L, R
    <3>. QED
      BY <2>1, PartIsFinite
  <2>3. ASSUME NEW s \in 1..n
        PROVE  /\ s \in L <=> w[2 * s - 1] \in S
               /\ s \in R <=> w[2 * s] \in S
    BY <1>1, <1>2 DEF LeftsIn, RightsIn
  <2>4. ASSUME NEW s \in 1..n PROVE (2 * s - 1) % 2 = 1 /\ (2 * s) % 2 # 1
    OBVIOUS
  <2>5. f \in [L -> A] /\ \A y \in A : \E s \in L : f[s] = y
    <3>1. ASSUME NEW s \in L PROVE 2 * s - 1 \in A
      <4>1. s \in 1..n
        BY <2>1
      <4>2. w[2 * s - 1] \in S
        BY <2>3, <4>1
      <4>3. 2 * s - 1 \in 1..(2 * n) /\ (2 * s - 1) % 2 = 1
        BY <4>1
      <4>. QED
        BY <4>2, <4>3
    <3>2. ASSUME NEW y \in A PROVE \E s \in L : 2 * s - 1 = y
      <4>1. PICK s \in 1..n : y = 2 * s - 1 \/ y = 2 * s
        BY <1>3
      <4>2. y = 2 * s - 1
        BY <2>4, <4>1
      <4>3. s \in L
        BY <2>3, <4>2
      <4>. QED
        BY <4>2, <4>3
    <3>. HIDE DEF L, A
    <3>. QED
      BY <3>1, <3>2
  <2>6. g \in [R -> C] /\ \A y \in C : \E s \in R : g[s] = y
    <3>1. ASSUME NEW s \in R PROVE 2 * s \in C
      <4>1. s \in 1..n
        BY <2>1
      <4>2. w[2 * s] \in S
        BY <2>3, <4>1
      <4>3. 2 * s \in 1..(2 * n) /\ (2 * s) % 2 # 1
        BY <4>1
      <4>. QED
        BY <4>2, <4>3
    <3>2. ASSUME NEW y \in C PROVE \E s \in R : 2 * s = y
      <4>1. PICK s \in 1..n : y = 2 * s - 1 \/ y = 2 * s
        BY <1>3
      <4>2. y = 2 * s
        BY <2>4, <4>1
      <4>3. s \in R
        BY <2>3, <4>2
      <4>. QED
        BY <4>2, <4>3
    <3>. HIDE DEF R, C
    <3>. QED
      BY <3>1, <3>2
  <2>7. \A x, y \in L : x # y => f[x] # f[y]
    <3>. HIDE DEF L
    <3>1. \A x \in L : x \in Int
      BY <2>1
    <3>. QED
      BY <3>1
  <2>8. \A x, y \in R : x # y => g[x] # g[y]
    <3>. HIDE DEF R
    <3>1. \A x \in R : x \in Int
      BY <2>1
    <3>. QED
      BY <3>1
  <2>9. PlacesOf(w, S) = A \cup C /\ A \cap C = {}
    BY <1>5 DEF PlacesOf
  <2>. HIDE DEF A, C, L, R, f, g
  <2>10. IsFiniteSet(A) /\ Cardinality(A) = Cardinality(L)
    BY <2>2, <2>5, <2>7, MovedCount
  <2>11. IsFiniteSet(C) /\ Cardinality(C) = Cardinality(R)
    BY <2>2, <2>6, <2>8, MovedCount
  <2>12. Cardinality(PlacesOf(w, S)) = Cardinality(A) + Cardinality(C)
    BY <2>9, <2>10, <2>11, ApartCount
  <2>. QED
    BY <2>10, <2>11, <2>12 DEF CountOf, L, R
<1>. QED
  BY <1>1, <1>5, <1>6 DEF KeepsSegments

\* The sweep, at every step.
SweepState ==
  /\ IsSegments(segments) /\ KeepsSegments(inp, segments)
  /\ inp \in Seq(Painted!Ends) /\ Len(inp) # 0
  /\ phase \in {"sort", "check", "done"}
  /\ phase = "sort" => i = 0
  /\ phase # "sort" => EndsInOrder(inp)
  /\ phase = "done" => i = Len(inp)
  /\ i \in 0..Len(inp) /\ prev_layer = LayerAfter(inp, i)

SweepMeasure ==
  /\ i = 0 => dist = 0
  /\ i > 0 => /\ IsFiniteSet(OnceBefore(segments, inp[i][1]))
              /\ dist = Cardinality(OnceBefore(segments, inp[i][1]))

Sweeping == program = "painted" => SweepState /\ SweepMeasure

LEMMA SweepInit == MCInit => Sweeping
<1>. SUFFICES ASSUME MCInit, program = "painted" PROVE SweepState /\ SweepMeasure
  BY DEF Sweeping
<1>1. Painted!Init
  BY DEF MCInit
<1>2. IsSegments(segments)
  <2>1. PICK n \in 1..MaxSegments :
          segments \in [1..n -> {s \in Coordinates \X Coordinates : s[1] <= s[2]}]
    BY <1>1 DEF Painted!Init
  <2>2. n \in Nat \ {0}
    BY <2>1, AlgorithmsAssumption DEF AlgorithmsAssumption, Painted!SegmentsAssumption
  <2>3. Len(segments) = n /\ DOMAIN segments = 1..n
    BY <2>1, <2>2
  <2>4. ASSUME NEW s \in 1..n
        PROVE  segments[s][1] \in Coordinates /\ segments[s][2] \in Coordinates
                 /\ segments[s][1] <= segments[s][2]
    BY <2>1
  <2>. QED
    BY <2>2, <2>3, <2>4 DEF IsSegments
<1>3. inp \in Seq(Painted!Ends) /\ Len(inp) # 0 /\ KeepsSegments(inp, segments)
  <2>1. inp = [k \in 1..(2 * Len(segments)) |->
                 IF k % 2 = 1 THEN <<segments[(k + 1) \div 2][1], Painted!begin_segment>>
                              ELSE <<segments[k \div 2][2], Painted!end_segment>>]
    BY <1>1 DEF Painted!Init
  <2>. QED
    BY <1>2, <2>1, EndsAreRead
<1>4. i = 0 /\ prev_layer = 0 /\ dist = 0 /\ phase = "sort"
  BY <1>1 DEF Painted!Init
<1>5. i \in 0..Len(inp) /\ prev_layer = LayerAfter(inp, i)
  <2>1. Len(inp) \in Nat
    BY <1>3
  <2>. QED
    BY <1>4, <2>1, NoLayersYet
<1>. QED
  BY <1>2, <1>3, <1>4, <1>5 DEF SweepState, SweepMeasure

LEMMA SweepNext ==
  ASSUME SweepState, SweepMeasure, Painted!Next
  PROVE  SweepState' /\ SweepMeasure'
<1>0. PICK n \in Nat : n = Len(inp)
  BY DEF SweepState
<1>1. CASE Painted!Sort
  <2>1. /\ phase = "sort" /\ inp' = Painted!merge_sort[inp] /\ phase' = "check"
        /\ segments' = segments /\ i' = i /\ prev_layer' = prev_layer /\ dist' = dist
    BY <1>1 DEF Painted!Sort
  <2>2. Sorts(inp, inp')
    BY <2>1, SortSorts DEF SweepState
  <2>3. inp' \in Seq(Painted!Ends) /\ EndsInOrder(inp')
    BY <2>2 DEF Sorts
  <2>4. KeepsSegments(inp', segments)
    BY <2>2 DEF Sorts, KeepsSegments, SweepState
  <2>5. Len(inp') # 0
    <3>1. Len(inp') \in Nat /\ 1 \in 1..n /\ inp[1] = inp[1]
      BY <1>0, <2>3 DEF SweepState
    <3>2. CountOf(inp, Painted!Ends) # 0
      <4>1. inp[1] \in Painted!Ends
        BY <1>0, <3>1 DEF SweepState
      <4>. QED
        BY <1>0, <3>1, <4>1, CountType
    <3>3. CountOf(inp', Painted!Ends) # 0
      BY <2>2, <3>2 DEF Sorts
    <3>4. PICK k \in 1..Len(inp') : inp'[k] \in Painted!Ends
      BY <3>1, <3>3, CountType
    <3>. QED
      BY <3>1, <3>4
  <2>6. i = 0 /\ prev_layer = 0
    BY <2>1, NoLayersYet DEF SweepState
  <2>7. i' \in 0..Len(inp') /\ prev_layer' = LayerAfter(inp', i')
    <3>1. Len(inp') \in Nat
      BY <2>3
    <3>. QED
      BY <2>1, <2>6, <3>1, NoLayersYet
  <2>8. SweepState'
    BY <2>1, <2>3, <2>4, <2>5, <2>7 DEF SweepState
  <2>9. SweepMeasure'
    BY <2>1, <2>6 DEF SweepMeasure
  <2>. QED
    BY <2>8, <2>9
<1>2. CASE Painted!CheckEnd
  <2>1. /\ phase = "check" /\ i < n /\ i' = i + 1 /\ prev_layer' = Painted!cur_layer
        /\ segments' = segments /\ inp' = inp /\ phase' = phase
        /\ dist' = IF Painted!Counts THEN dist + inp[i + 1][1] - inp[i][1] ELSE dist
    BY <1>0, <1>2 DEF Painted!CheckEnd
  <2>2. EndsOf(inp, segments) /\ i \in 0..n /\ i + 1 \in 0..n /\ i \in Nat
    BY <1>0, <2>1 DEF SweepState, EndsOf
  <2>3. LayerAfter(inp, i) \in Int /\ Painted!cur_layer = LayerAfter(inp, i + 1)
    <3>1. /\ LayerAfter(inp, i) \in Int
          /\ LayerAfter(inp, i + 1) = LayerAfter(inp, i) + (IF inp[i + 1][2] = -1 THEN 1 ELSE -1)
      BY <1>0, <2>1, <2>2, LayerStep DEF EndsOf
    <3>. QED
      BY <3>1, KindsDiffer DEF Painted!cur_layer, SweepState
  <2>4. Painted!Counts <=> LayerAfter(inp, i) = 1
    <3>1. prev_layer = LayerAfter(inp, i)
      BY DEF SweepState
    <3>2. Painted!cur_layer = prev_layer + 1 \/ Painted!cur_layer = prev_layer + (-1)
      BY DEF Painted!cur_layer
    <3>. QED
      BY <2>3, <3>1, <3>2 DEF Painted!Counts
  <2>5. SweepState'
    <3>1. phase' # "sort" /\ phase' # "done"
      BY <2>1
    <3>2. i' \in 0..Len(inp') /\ prev_layer' = LayerAfter(inp', i')
      BY <1>0, <2>1, <2>2, <2>3
    <3>. QED
      BY <2>1, <3>1, <3>2 DEF SweepState
  <2>6. CASE i = 0
    <3>1. LayerAfter(inp, i) = 0 /\ dist' = 0
      BY <2>1, <2>4, <2>6, NoLayersYet DEF SweepMeasure
    <3>2. OnceBefore(segments, inp[1][1]) = {}
      BY <2>2, OnceAtFirst DEF SweepState
    <3>3. /\ IsFiniteSet(OnceBefore(segments, inp[1][1]))
          /\ Cardinality(OnceBefore(segments, inp[1][1])) = 0
      BY <3>2, FS_EmptySet
    <3>4. i' = 1
      BY <2>1, <2>6
    <3>. QED
      BY <2>1, <2>5, <3>1, <3>3, <3>4 DEF SweepMeasure
  <2>7. CASE i # 0
    <3>1. i > 0 /\ i \in Nat \ {0} /\ i < Len(inp)
      BY <1>0, <2>1, <2>2, <2>7
    <3>2. /\ IsFiniteSet(OnceBefore(segments, inp[i][1]))
          /\ dist = Cardinality(OnceBefore(segments, inp[i][1]))
      BY <3>1 DEF SweepMeasure
    <3>3. /\ IsFiniteSet(OnceBefore(segments, inp[i + 1][1]))
          /\ Cardinality(OnceBefore(segments, inp[i][1])) \in Nat
          /\ inp[i][1] \in Int /\ inp[i + 1][1] \in Int
          /\ Cardinality(OnceBefore(segments, inp[i + 1][1]))
               = Cardinality(OnceBefore(segments, inp[i][1]))
                   + (IF LayerAfter(inp, i) = 1 THEN inp[i + 1][1] - inp[i][1] ELSE 0)
      BY <2>2, <3>1, <3>2, OnceStep
    <3>4. dist' = Cardinality(OnceBefore(segments, inp[i + 1][1]))
      <4>1. PICK a \in Nat : a = dist
        BY <3>2, <3>3
      <4>2. PICK b \in Int : b = inp[i][1]
        BY <3>3
      <4>3. PICK c \in Int : c = inp[i + 1][1]
        BY <3>3
      <4>4. CASE LayerAfter(inp, i) = 1
        <5>1. dist' = a + c - b
          BY <2>1, <2>4, <4>1, <4>2, <4>3, <4>4
        <5>2. Cardinality(OnceBefore(segments, inp[i + 1][1])) = a + (c - b)
          BY <3>2, <3>3, <4>1, <4>2, <4>3, <4>4
        <5>. QED
          BY <5>1, <5>2
      <4>5. CASE LayerAfter(inp, i) # 1
        <5>1. dist' = a
          BY <2>1, <2>4, <4>1, <4>5
        <5>2. Cardinality(OnceBefore(segments, inp[i + 1][1])) = a + 0
          BY <3>2, <3>3, <4>1, <4>5
        <5>. QED
          BY <5>1, <5>2
      <4>. QED
        BY <4>4, <4>5
    <3>5. i' # 0
      BY <2>1, <3>1
    <3>. QED
      BY <2>1, <2>5, <3>3, <3>4, <3>5 DEF SweepMeasure
  <2>. QED
    BY <2>6, <2>7
<1>3. CASE Painted!Return
  BY <1>3 DEF Painted!Return, SweepState, SweepMeasure
<1>. QED
  BY <1>1, <1>2, <1>3 DEF Painted!Next

LEMMA SweepHolds == MCSpec => []Sweeping
<1>1. Sweeping /\ [MCNext]_all_vars => Sweeping'
  <2>. SUFFICES ASSUME Sweeping, [MCNext]_all_vars, program' = "painted"
                PROVE  SweepState' /\ SweepMeasure'
    BY DEF Sweeping
  <2>1. program = "painted" /\ SweepState /\ SweepMeasure
    BY DEF Sweeping, MCNext, all_vars
  <2>2. CASE Painted!Next
    BY <2>1, <2>2, SweepNext
  <2>3. CASE ~ Painted!Next
    <3>1. UNCHANGED sweep_vars
      BY <2>1, <2>3 DEF MCNext, all_vars, Compute
    <3>. QED
      BY <2>1, <3>1 DEF sweep_vars, SweepState, SweepMeasure
  <2>. QED
    BY <2>2, <2>3
<1>. QED
  BY <1>1, SweepInit, PTL DEF MCSpec

\* Each end stands in the sequence as often as segments have it.
EndIsKept(e) ==
  Cardinality({k \in DOMAIN inp : inp[k] = e})
    = Cardinality({s \in DOMAIN segments :
        e = IF e[2] = Painted!begin_segment
            THEN <<segments[s][1], Painted!begin_segment>>
            ELSE <<segments[s][2], Painted!end_segment>>})

LEMMA EachEndIsKept ==
  ASSUME SweepState, NEW e \in Painted!Ends
  PROVE  EndIsKept(e)
<1>. DEFINE T == {s \in DOMAIN segments :
                    e = IF e[2] = Painted!begin_segment
                        THEN <<segments[s][1], Painted!begin_segment>>
                        ELSE <<segments[s][2], Painted!end_segment>>}
            S == {e}
<1>1. {k \in DOMAIN inp : inp[k] = e} = PlacesOf(inp, S)
  <2>1. DOMAIN inp = 1..Len(inp)
    BY DEF SweepState
  <2>. QED
    BY <2>1 DEF PlacesOf
<1>2. CountOf(inp, S) = Cardinality(LeftsIn(segments, S)) + Cardinality(RightsIn(segments, S))
  BY DEF SweepState, KeepsSegments
<1>3. DOMAIN segments = 1..Len(segments) /\ Len(segments) \in Nat
  BY DEF SweepState, IsSegments
<1>4. ASSUME NEW s \in 1..Len(segments)
      PROVE  /\ LeftEnd(segments[s])[2] = -1 /\ RightEnd(segments[s])[2] = 1
             /\ LeftEnd(segments[s]) = <<segments[s][1], Painted!begin_segment>>
             /\ RightEnd(segments[s]) = <<segments[s][2], Painted!end_segment>>
  BY EndsAreEnds DEF SweepState, LeftEnd, RightEnd
<1>5. /\ LeftsIn(segments, S) \in SUBSET (1..Len(segments))
      /\ RightsIn(segments, S) \in SUBSET (1..Len(segments))
  BY DEF LeftsIn, RightsIn
<1>6. CASE e[2] = -1
  <2>1. T = LeftsIn(segments, S) /\ {} = RightsIn(segments, S)
    BY <1>3, <1>4, <1>6, KindsDiffer DEF LeftsIn, RightsIn
  <2>. HIDE DEF T, S
  <2>2. Cardinality(RightsIn(segments, S)) = 0
    BY <2>1, FS_EmptySet
  <2>3. Cardinality(LeftsIn(segments, S)) \in Nat
    BY <1>3, <1>5, PartIsFinite
  <2>4. CountOf(inp, S) = Cardinality(T)
    BY <1>2, <2>1, <2>2, <2>3
  <2>. QED
    BY <1>1, <2>4 DEF CountOf, T, EndIsKept
<1>7. CASE e[2] # -1
  <2>1. T = RightsIn(segments, S) /\ {} = LeftsIn(segments, S)
    BY <1>3, <1>4, <1>7, KindsDiffer DEF LeftsIn, RightsIn
  <2>. HIDE DEF T, S
  <2>2. Cardinality(LeftsIn(segments, S)) = 0
    BY <2>1, FS_EmptySet
  <2>3. Cardinality(RightsIn(segments, S)) \in Nat
    BY <1>3, <1>5, PartIsFinite
  <2>4. CountOf(inp, S) = Cardinality(T)
    BY <1>2, <2>1, <2>2, <2>3
  <2>. QED
    BY <1>1, <2>4 DEF CountOf, T, EndIsKept
<1>. QED
  BY <1>6, <1>7

\* PaintedSegments counts with the same operator.
LEMMA PaintedCardinality == \A S : Painted!Cardinality(S) = Cardinality(S)
BY Zenon DEF Painted!Cardinality, Cardinality

(***************************************************************************)
(* MeasuresPaint of MCAlgorithms: merge_sort orders the ends of any number *)
(* of segments and loses none, the layers are never fewer than none, and   *)
(* what check_segments has counted is the length painted once.             *)
(***************************************************************************)
THEOREM PaintIsMeasured == MCSpec => []MeasuresPaint
<1>1. Sweeping => MeasuresPaint
  <2>. SUFFICES ASSUME SweepState, SweepMeasure PROVE Painted!SweepInv
    BY DEF Sweeping, MeasuresPaint
  <2>1. ASSUME phase # "sort" PROVE EndsOf(inp, segments)
    BY <2>1 DEF SweepState, EndsOf
  <2>2. PICK n \in Nat : n = Len(inp)
    BY DEF SweepState
  <2>3. DOMAIN inp = 1..n /\ \A k \in 1..n : inp[k] \in Painted!Ends
    BY <2>2 DEF SweepState
  <2>4. Painted!SweepsInOrder
    <3>. SUFFICES ASSUME phase # "sort"
                  PROVE  /\ prev_layer >= 0
                         /\ \A j, k \in DOMAIN inp : j < k => inp[j][1] <= inp[k][1]
                         /\ \A e \in Painted!Ends : EndIsKept(e)
      BY PaintedCardinality DEF Painted!SweepsInOrder, EndIsKept
    <3>1. prev_layer >= 0 /\ \A e \in Painted!Ends : EndIsKept(e)
      BY <2>1, NoLayerBelow, EachEndIsKept DEF SweepState
    <3>2. ASSUME NEW j \in 1..n, NEW k \in 1..n, j < k PROVE inp[j][1] <= inp[k][1]
      <4>1. Painted!NotLarger(inp[j], inp[k])
        BY <2>1, <2>2, <3>2 DEF EndsOf, EndsInOrder
      <4>2. inp[j][1] \in Int /\ inp[k][1] \in Int
        BY <2>3, KindsDiffer
      <4>. QED
        BY <4>1, <4>2 DEF Painted!NotLarger
    <3>. QED
      BY <2>3, <3>1, <3>2
  <2>5. Painted!MeasuresOnce
    <3>0. \A x : Painted!Layers(x) = LayersAt(segments, x)
      BY PaintedCardinality DEF Painted!Layers, LayersAt
    <3>1. \A p : Painted!PaintedOnce(p) = Cardinality(OnceBefore(segments, p))
      <4>. SUFFICES ASSUME NEW p
                    PROVE  {x \in Coordinates : x < p /\ Painted!Layers(x) = 1}
                             = OnceBefore(segments, p)
        BY PaintedCardinality DEF Painted!PaintedOnce
      <4>. QED
        BY <3>0 DEF OnceBefore
    <3>2. ASSUME phase = "check", i > 0 PROVE dist = Painted!PaintedOnce(inp[i][1])
      BY <3>1, <3>2 DEF SweepMeasure
    <3>3. ASSUME phase = "done"
          PROVE  dist = Cardinality({x \in Coordinates : Painted!Layers(x) = 1})
      <4>1. i = Len(inp) /\ i > 0
        BY <2>2, <3>3 DEF SweepState
      <4>2. dist = Cardinality(OnceBefore(segments, inp[Len(inp)][1]))
        BY <4>1 DEF SweepMeasure
      <4>3. {x \in Coordinates : LayersAt(segments, x) = 1}
              = OnceBefore(segments, inp[Len(inp)][1])
        BY <2>1, <3>3, OnceAtLast DEF SweepState
      <4>4. {x \in Coordinates : Painted!Layers(x) = 1}
              = {x \in Coordinates : LayersAt(segments, x) = 1}
        BY <3>0
      <4>. QED
        BY <4>2, <4>3, <4>4
    <3>. QED
      BY <3>2, <3>3, PaintedCardinality DEF Painted!MeasuresOnce
  <2>. QED
    BY <2>4, <2>5 DEF Painted!SweepInv
<1>. QED
  BY <1>1, SweepHolds, PTL

===============================================================================
