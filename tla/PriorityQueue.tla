---------------------------- MODULE PriorityQueue ----------------------------
(***************************************************************************)
(* What class Heap of Algo/week3/heap.cpp promises: it keeps a collection  *)
(* of elements, get_max gives the element that no other goes before, and   *)
(* pop removes one such.  With the class's default comparison, std::less,  *)
(* that is the least element.                                              *)
(***************************************************************************)
EXTENDS Integers, FiniteSets

CONSTANT Elements

VARIABLES
  waiting,   \* how many times the queue holds each element
  got        \* the elements get_max has last returned: none or one

qvars == <<waiting, got>>

Held   == {e \in Elements : waiting[e] > 0}
Least  == CHOOSE e \in Held : \A f \in Held : e <= f

QInit == waiting \in [Elements -> Nat] /\ got = {}

QPush(e) ==
  /\ waiting' = [waiting EXCEPT ![e] = @ + 1]
  /\ UNCHANGED got

QGetMax ==
  /\ Held # {}
  /\ got' = {Least}
  /\ UNCHANGED waiting

QPop ==
  /\ Held # {}
  /\ waiting' = [waiting EXCEPT ![Least] = @ - 1]
  /\ UNCHANGED got

QNext == (\E e \in Elements : QPush(e)) \/ QGetMax \/ QPop

QSpec == QInit /\ [][QNext]_qvars
==============================================================================
