--------------------------------- MODULE Deque ---------------------------------
(***************************************************************************)
(* The deque of Algo/week2/Deque.hpp (deque.cpp holds a copy of it), under *)
(* the commands of deque.cpp's main: a ring buffer that doubles when one   *)
(* slot is left.  Calls says which operations its client makes, so that    *)
(* bracket.cpp, which uses it as a stack, is a client as well.             *)
(***************************************************************************)
EXTENDS Integers, Sequences

CONSTANTS
  Elements,     \* T
  Calls,        \* the operations the client makes
  Sizes,        \* the arguments it gives to reserve
  MaxSize,      \* bound: elements the client keeps in the deque
  Junk,         \* what a slot holds before it is written
  Nothing       \* main has read no element

AllCalls == {"push_back", "push_front", "push_front_empty", "pop_back",
             "pop_front", "reserve"}

ASSUME DequeAssumption ==
  /\ Calls \subseteq AllCalls
  /\ Sizes \subseteq Nat
  /\ MaxSize \in Nat

MemSize == 2

VARIABLES
  buffer, dsize, dcapacity, head, end,
  answer,      \* main: what the last pop found at its end of the deque
  outside      \* an access was outside the buffer: undefined from there on

vars == <<buffer, dsize, dcapacity, head, end, answer, outside>>

Slots(n) == 0..(n - 1)

TypeOK ==
  /\ dsize \in Nat /\ dcapacity \in Nat /\ head \in Nat /\ end \in Nat
  /\ buffer \in [Slots(dcapacity) -> Elements \cup {Junk}]
  /\ answer \in Elements \cup {Junk, Nothing}
  /\ outside \in BOOLEAN

Init ==
  /\ buffer = [i \in Slots(0) |-> Junk]
  /\ dsize = 0 /\ dcapacity = 0 /\ head = 0 /\ end = 0
  /\ answer = Nothing
  /\ outside = FALSE

empty == dsize = 0

\* copy_to_new_buffer: a ring that wraps is laid out straight.
Copied(n) ==
  [i \in Slots(n) |->
     IF head < end
     THEN IF head <= i /\ i < end THEN buffer[i] ELSE Junk
     ELSE IF head <= i /\ i < dcapacity THEN buffer[i]
          ELSE IF dcapacity <= i /\ i < dcapacity + end THEN buffer[i - dcapacity]
               ELSE Junk]

\* Mutant of Reserved: end moves though the ring does not wrap.
ReservedMovesEnd(n) ==
  [ buffer |-> Copied(n), capacity |-> n, end |-> dcapacity + end ]

\* reserve(n), for an n that is more than the capacity.
Reserved(n) ==
  [ buffer |-> Copied(n),
    capacity |-> n,
    end |-> IF head > end THEN dcapacity + end ELSE end ]

\* Mutant of Room: it doubles when no slot is left.
RoomLate ==
  IF dcapacity = 0
  THEN [buffer |-> [i \in Slots(MemSize) |-> Junk], capacity |-> MemSize, end |-> end]
  ELSE IF ~ empty /\ dsize = dcapacity
       THEN Reserved(MemSize * dcapacity)
       ELSE [buffer |-> buffer, capacity |-> dcapacity, end |-> end]

\* What both pushes do first: init_buffer, or double when one slot is left.
Room ==
  IF dcapacity = 0
  THEN [buffer |-> [i \in Slots(MemSize) |-> Junk], capacity |-> MemSize, end |-> end]
  ELSE IF ~ empty /\ dsize + 1 = dcapacity
       THEN Reserved(MemSize * dcapacity)
       ELSE [buffer |-> buffer, capacity |-> dcapacity, end |-> end]

\* The room r becomes the deque's, with e written at i.
Store(r, i, e) ==
  /\ buffer' = [r.buffer EXCEPT ![i] = e]
  /\ dcapacity' = r.capacity
  /\ outside' = (i \notin Slots(r.capacity))
  /\ dsize' = dsize + 1
  /\ answer' = Nothing

\* Mutant of push_back: end is not taken modulo the capacity.
push_backNoWrap(e) ==
  LET r == Room
  IN /\ Store(r, r.end, e)
     /\ end' = r.end + 1
     /\ UNCHANGED head

push_back(e) ==
  LET r == Room
  IN /\ Store(r, r.end, e)
     /\ end' = (r.end + 1) % r.capacity
     /\ UNCHANGED head

\* push_front of a deque that holds elements.
push_front(e) ==
  LET r == Room
      h == IF head = 0 THEN r.capacity - 1 ELSE head - 1
  IN /\ ~ empty
     /\ Store(r, h, e)
     /\ head' = h
     /\ end' = r.end

\* push_front of a deque that holds none: end is not taken modulo anything.
push_front_empty(e) ==
  LET r == Room
  IN /\ empty
     /\ Store(r, head, e)
     /\ end' = end + 1
     /\ UNCHANGED head

\* main reads the element at i, then pops it.
Take(i) ==
  /\ outside' = (i \notin Slots(dcapacity))
  /\ answer' = IF i \in Slots(dcapacity) THEN buffer[i] ELSE Junk
  /\ dsize' = dsize - 1
  /\ UNCHANGED <<buffer, dcapacity>>

back == IF end = 0 THEN dcapacity - 1 ELSE end - 1

pop_back ==
  /\ ~ empty
  /\ Take(back)
  /\ end' = back
  /\ UNCHANGED head

pop_front ==
  /\ ~ empty
  /\ Take(head)
  /\ head' = (head + 1) % dcapacity
  /\ UNCHANGED end

\* A pop of an empty deque: main finds it empty and leaves it alone.
pop_empty ==
  /\ empty
  /\ answer' = Nothing
  /\ UNCHANGED <<buffer, dsize, dcapacity, head, end, outside>>

\* reserve as a client may call it; what it copies past n is outside.
reserve(n) ==
  /\ n > dcapacity
  /\ buffer' = Copied(n)
  /\ dcapacity' = n
  /\ end' = Reserved(n).end
  /\ outside' = (head >= end /\ dcapacity + end > n)
  /\ UNCHANGED <<dsize, head, answer>>

Called(c) == c \in Calls

Next ==
  /\ ~ outside
  /\ \/ \E e \in Elements :
          /\ dsize < MaxSize
          /\ \/ Called("push_back") /\ push_back(e)
             \/ Called("push_front") /\ push_front(e)
             \/ Called("push_front_empty") /\ push_front_empty(e)
     \/ Called("pop_back") /\ pop_back
     \/ Called("pop_front") /\ pop_front
     \/ (Called("pop_back") \/ Called("pop_front")) /\ pop_empty
     \/ \E n \in Sizes : Called("reserve") /\ reserve(n)

Spec == Init /\ [][Next]_vars

-------------------------------------------------------------------------------
(***************************************************************************)
(* The properties.                                                         *)
(***************************************************************************)

(***************************************************************************)
(* Every access is inside the buffer: what is written to the deque is in   *)
(* the deque (deque.cpp:4 asks for a deque on a buffer that goes round).   *)
(***************************************************************************)
WithinBuffer == ~ outside

\* Head, end, size and capacity tell one story.
Ring ==
  dcapacity > 0 =>
    /\ dsize < dcapacity
    /\ head < dcapacity
    /\ end = (head + dsize) % dcapacity

(***************************************************************************)
(* Every access is inside the buffer and a slot stays free, so that        *)
(* head = end means empty and push never writes over an element; going     *)
(* round from head by size comes to end, through growth and wrap.          *)
(***************************************************************************)
RingInv == TypeOK /\ WithinBuffer /\ Ring

(***************************************************************************)
(* The deque is the sequence of what is between head and end: growth, the  *)
(* wrap at both ends and the pops lose, repeat and reorder no element, and *)
(* each pop finds what the sequence has at that end (deque.cpp:16).        *)
(***************************************************************************)
Contents == [i \in 1..dsize |-> buffer[(head + i - 1) % dcapacity]]

Abstract == INSTANCE AbstractDeque WITH items <- Contents

ImplementsDeque == Abstract!ASpec
===============================================================================
