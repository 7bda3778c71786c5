--------------------------------- MODULE Heap ---------------------------------
(***************************************************************************)
(* The binary heap of Algo/week3/heap.cpp, with its default comparison     *)
(* std::less.  The sift loops run one pass of their body per step; a call  *)
(* begins where the one before has returned (pc = "idle").  Elements stand *)
(* for the points the program sorts, in their lexicographic order.         *)
(***************************************************************************)
EXTENDS Integers, Sequences, FiniteSets

CONSTANTS
  Elements,   \* the values, in their order
  SizeT,      \* the number of values of size_t
  MaxSize     \* bound: the elements a heap may hold

ASSUME HeapAssumption ==
  /\ Elements \subseteq Int
  /\ MaxSize \in Nat /\ SizeT \in Nat /\ 2 * MaxSize + 2 < SizeT

VARIABLES
  heap, size,       \* the vector (heap[i] of the code is At(i)), the counter
  pc,               \* what the heap is doing
  elem_index,       \* the local of sift_up or sift_down
  non_leaf_index,   \* the local of heapify
  got               \* what get_max has last returned: none or one element

vars == <<heap, size, pc, elem_index, non_leaf_index, got>>

At(i) == heap[i + 1]
Slots == 0..(Len(heap) - 1)

Swapped(h, i, j) == [h EXCEPT ![i + 1] = h[j + 1], ![j + 1] = h[i + 1]]

\* Heap(lst), of any list; Heap() is Heap({}).
Init ==
  /\ heap \in UNION {[1..n -> Elements] : n \in 0..MaxSize}
  /\ size = Len(heap)
  /\ pc = "heapify"
  /\ non_leaf_index = (Len(heap) \div 2 - 1) % SizeT
  /\ elem_index = 0
  /\ got = {}

-------------------------------------------------------------------------------
\* Mutant of Heapify: the root is not sifted.
HeapifySkipsRoot ==
  /\ pc = "heapify"
  /\ IF non_leaf_index \in 1..(size - 1)
     THEN /\ elem_index' = non_leaf_index
          /\ non_leaf_index' = (non_leaf_index - 1) % SizeT
          /\ pc' = "heapify_down"
     ELSE /\ pc' = "idle"
          /\ UNCHANGED <<elem_index, non_leaf_index>>
  /\ UNCHANGED <<heap, size, got>>

\* The loop of heapify ends when its index wraps below zero.
Heapify ==
  /\ pc = "heapify"
  /\ IF non_leaf_index < size
     THEN /\ elem_index' = non_leaf_index
          /\ non_leaf_index' = (non_leaf_index - 1) % SizeT
          /\ pc' = "heapify_down"
     ELSE /\ pc' = "idle"
          /\ UNCHANGED <<elem_index, non_leaf_index>>
  /\ UNCHANGED <<heap, size, got>>

Push(e) ==
  /\ pc = "idle" /\ size < MaxSize
  /\ heap' = Append(heap, e)
  /\ size' = size + 1
  /\ IF size' > 1 THEN pc' = "up" /\ elem_index' = size' - 1
                  ELSE UNCHANGED <<pc, elem_index>>
  /\ UNCHANGED <<non_leaf_index, got>>

\* The caller's duty: heap.front() of an empty vector is undefined.
GetMax ==
  /\ pc = "idle" /\ size > 0
  /\ got' = {At(0)}
  /\ UNCHANGED <<heap, size, pc, elem_index, non_leaf_index>>

\* Of an empty heap, pop returns at once.
Pop ==
  /\ pc = "idle" /\ size > 0
  /\ heap' = SubSeq(Swapped(heap, 0, Len(heap) - 1), 1, Len(heap) - 1)
  /\ size' = size - 1
  /\ pc' = "down" /\ elem_index' = 0
  /\ UNCHANGED <<non_leaf_index, got>>

-------------------------------------------------------------------------------
left_child_index  == 2 * elem_index + 1
right_child_index == 2 * elem_index + 2
parent_index      == (elem_index - 1) \div 2

\* The element itself, or the child that goes before it and its sibling.
index_to_swap ==
  LET left == IF At(left_child_index) < At(elem_index) THEN left_child_index
                                                       ELSE elem_index
  IN IF right_child_index < size /\ At(right_child_index) < At(left)
     THEN right_child_index ELSE left

\* sift_down returns to pop, or to the loop of heapify.
Caller == IF pc = "down" THEN "idle" ELSE "heapify"

\* Mutant of SiftDown: the break is missing.
SiftDownUnbroken ==
  /\ pc \in {"down", "heapify_down"}
  /\ IF left_child_index < size
     THEN /\ heap' = Swapped(heap, elem_index, index_to_swap)
          /\ elem_index' = index_to_swap
          /\ UNCHANGED pc
     ELSE /\ pc' = Caller
          /\ UNCHANGED <<heap, elem_index>>
  /\ UNCHANGED <<size, non_leaf_index, got>>

SiftDown ==
  /\ pc \in {"down", "heapify_down"}
  /\ IF left_child_index < size /\ index_to_swap # elem_index
     THEN /\ heap' = Swapped(heap, elem_index, index_to_swap)
          /\ elem_index' = index_to_swap
          /\ UNCHANGED pc
     ELSE /\ pc' = Caller
          /\ UNCHANGED <<heap, elem_index>>
  /\ UNCHANGED <<size, non_leaf_index, got>>

\* Mutant of SiftUp: it makes one pass.
SiftUpOnce ==
  /\ pc = "up"
  /\ heap' = IF At(elem_index) < At(parent_index)
             THEN Swapped(heap, elem_index, parent_index) ELSE heap
  /\ pc' = "idle"
  /\ UNCHANGED <<size, elem_index, non_leaf_index, got>>

SiftUp ==
  /\ pc = "up"
  /\ IF elem_index # 0 /\ At(elem_index) < At(parent_index)
     THEN /\ heap' = Swapped(heap, elem_index, parent_index)
          /\ elem_index' = parent_index
          /\ UNCHANGED pc
     ELSE /\ pc' = "idle"
          /\ UNCHANGED <<heap, elem_index>>
  /\ UNCHANGED <<size, non_leaf_index, got>>

Inside == Heapify \/ SiftDown \/ SiftUp
Next   == Inside \/ (\E e \in Elements : Push(e)) \/ GetMax \/ Pop

Spec == Init /\ [][Next]_vars

\* A call, once begun, runs on.
FairSpec == Spec /\ WF_vars(Inside)

-------------------------------------------------------------------------------
(***************************************************************************)
(* The properties.                                                         *)
(***************************************************************************)

(***************************************************************************)
(* Types; the counter is the vector's size, and the loops' indices stay    *)
(* inside it, but for heapify's last, which has wrapped.                   *)
(***************************************************************************)
TypeOK ==
  /\ heap \in Seq(Elements) /\ size = Len(heap) /\ size <= MaxSize
  /\ pc \in {"idle", "heapify", "heapify_down", "down", "up"}
  /\ elem_index \in 0..MaxSize
  /\ pc \in {"up", "heapify_down"} => elem_index < size
  /\ non_leaf_index < size \/ non_leaf_index = SizeT - 1 \/ pc # "heapify"
  /\ non_leaf_index \in 0..(SizeT - 1)
  /\ got \in SUBSET Elements

Parent(i) == (i - 1) \div 2
Ordered(i, j) == At(i) <= At(j)

(***************************************************************************)
(* Where the tree may be out of order: pushing, only between the element   *)
(* that rises and its parent; popping, only below the element that sinks;  *)
(* building, only below that element and above the subtrees done.  Its     *)
(* parent and its children stay in order, so a swap repairs what it meets. *)
(***************************************************************************)
OutOfOrderHere ==
  /\ \A i \in Slots \ {0} :
       CASE pc = "idle" -> Ordered(Parent(i), i)
         [] pc = "up"   -> i # elem_index => Ordered(Parent(i), i)
         [] pc = "down" -> Parent(i) # elem_index => Ordered(Parent(i), i)
         [] OTHER       ->
              Parent(i) > non_leaf_index \/ non_leaf_index = SizeT - 1 =>
                (pc = "heapify" \/ Parent(i) # elem_index => Ordered(Parent(i), i))
  /\ pc \in {"up", "down"} /\ elem_index # 0 =>
       \A i \in Slots \ {0} :
         Parent(i) = elem_index => Ordered(Parent(elem_index), i)

(***************************************************************************)
(* The tree's order with its types and indices, by parts.                  *)
(***************************************************************************)
HeapInv == TypeOK /\ OutOfOrderHere

(***************************************************************************)
(* The heap implements the priority queue.                                 *)
(***************************************************************************)
Waiting == [e \in Elements |-> Cardinality({i \in Slots : At(i) = e})]
Queue == INSTANCE PriorityQueue WITH waiting <- Waiting
ImplementsQueue == Queue!QSpec

(***************************************************************************)
(* Every call returns.                                                     *)
(***************************************************************************)
CallReturns == []<>(pc = "idle")
===============================================================================
