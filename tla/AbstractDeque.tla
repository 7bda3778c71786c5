----------------------------- MODULE AbstractDeque -----------------------------
(***************************************************************************)
(* What Algo/week2/Deque.hpp promises: a sequence that grows and shrinks   *)
(* at both of its ends.  answer is what the last command of deque.cpp's    *)
(* main reads: the element a pop takes, or Nothing.                        *)
(***************************************************************************)
EXTENDS Naturals, Sequences

CONSTANTS Elements, Nothing

VARIABLES items, answer

avars == <<items, answer>>

AInit == items = <<>> /\ answer = Nothing

APushBack(e) == items' = Append(items, e) /\ answer' = Nothing

APushFront(e) == items' = <<e>> \o items /\ answer' = Nothing

APopBack ==
  \/ items = <<>> /\ answer' = Nothing /\ UNCHANGED items
  \/ /\ items # <<>>
     /\ answer' = items[Len(items)]
     /\ items' = SubSeq(items, 1, Len(items) - 1)

APopFront ==
  \/ items = <<>> /\ answer' = Nothing /\ UNCHANGED items
  \/ items # <<>> /\ answer' = Head(items) /\ items' = Tail(items)

ANext ==
  \/ \E e \in Elements : APushBack(e) \/ APushFront(e)
  \/ APopBack
  \/ APopFront

ASpec == AInit /\ [][ANext]_avars
===============================================================================
