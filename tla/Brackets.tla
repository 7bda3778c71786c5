-------------------------------- MODULE Brackets --------------------------------
(***************************************************************************)
(* Algo/week2/bracket.cpp: check_brackets completes a sequence of brackets *)
(* to a balanced one, with opening brackets in front and closing ones      *)
(* behind, or finds that it cannot and returns an empty string; main       *)
(* prints IMPOSSIBLE for whatever empty string it gets.  The stack is      *)
(* std::stack over the Deque of Deque.hpp: top() refers to the slot of the *)
(* deque's back, and that slot is read after pop().  One pass of a loop is *)
(* one step.                                                               *)
(***************************************************************************)
EXTENDS Deque, FiniteSets, SequencesExt

CONSTANT MaxLength   \* bound: the brackets of the sequence

ASSUME BracketsAssumption == MaxLength \in Nat

Code == [b \in {"(", ")", "[", "]", "{", "}"} |->
           CASE b = "(" -> 40 [] b = ")" -> 41 [] b = "[" -> 91 [] b = "]" -> 93
             [] b = "{" -> 123 [] b = "}" -> 125]
Opening  == {"(", "[", "{"} \cap Elements
brackets == [b \in Opening |-> CASE b = "(" -> ")" [] b = "[" -> "]" [] b = "{" -> "}"]
Closing  == {brackets[b] : b \in Opening}
opening  == [c \in Closing |-> CHOOSE b \in Opening : brackets[b] = c]

VARIABLES
  bracket_seq,   \* the input
  at,            \* how many of its brackets have been read
  text,          \* answer, the string
  state          \* where check_brackets is, "read" or "close", then main: "return"
                 \* before it prints, and after that "done" or "impossible"

svars == <<vars, bracket_seq, at, text, state>>

BInit ==
  /\ Init
  /\ bracket_seq \in UNION {[1..n -> Opening \cup Closing] : n \in 0..MaxLength}
  /\ at = 0 /\ text = <<>> /\ state = "read"

bracket == bracket_seq[at + 1]
Reads   == state = "read" /\ at < Len(bracket_seq) /\ at' = at + 1

\* Mutant of is_appropriate_brackets: any two brackets that differ.
is_appropriate_bracketsAny(l, r) == Code[r] - Code[l] > 0

is_appropriate_brackets(l, r) == Code[r] - Code[l] \in {1, 2}

\* Mutant of CloseAlone: the opening bracket is put where the closing one is.
CloseAloneHere ==
  /\ Reads /\ bracket \in Closing /\ empty
  /\ text' = text \o <<opening[bracket], bracket>>
  /\ UNCHANGED <<vars, bracket_seq, state>>

CloseAlone ==
  /\ Reads /\ bracket \in Closing /\ empty
  /\ text' = <<opening[bracket]>> \o text \o <<bracket>>
  /\ UNCHANGED <<vars, bracket_seq, state>>

Close ==
  /\ Reads /\ bracket \in Closing /\ pop_back
  /\ IF is_appropriate_brackets(buffer'[back], bracket)
     THEN text' = Append(text, bracket) /\ UNCHANGED state
     ELSE text' = <<>> /\ state' = "return"
  /\ UNCHANGED bracket_seq

Open ==
  /\ Reads /\ bracket \in Opening /\ push_back(bracket)
  /\ text' = Append(text, bracket)
  /\ UNCHANGED <<bracket_seq, state>>

ReadAll ==
  /\ state = "read" /\ at = Len(bracket_seq)
  /\ state' = "close"
  /\ UNCHANGED <<vars, bracket_seq, at, text>>

\* The brackets that are left on the stack are closed.
CloseRest ==
  /\ state = "close" /\ pop_back
  /\ text' = Append(text, brackets[buffer'[back]])
  /\ UNCHANGED <<bracket_seq, at, state>>

Return ==
  /\ state = "close" /\ empty
  /\ state' = "return"
  /\ UNCHANGED <<vars, bracket_seq, at, text>>

\* main: the empty string is taken for "it cannot be done".
Report ==
  /\ state = "return"
  /\ state' = IF text = <<>> THEN "impossible" ELSE "done"
  /\ UNCHANGED <<vars, bracket_seq, at, text>>

BNext == CloseAlone \/ Close \/ Open \/ ReadAll \/ CloseRest \/ Return \/ Report

BSpec == BInit /\ [][BNext]_svars

-------------------------------------------------------------------------------
(***************************************************************************)
(* The properties.                                                         *)
(***************************************************************************)

\* The balanced sequences of n pairs, by their grammar: ( B ) B.
Balanced[n \in 0..MaxLength] ==
  IF n = 0 THEN {<<>>}
  ELSE UNION {{<<b>> \o x \o <<brackets[b]>> \o y :
                 b \in Opening, x \in Balanced[k], y \in Balanced[n - 1 - k]} : k \in 0..(n - 1)}

\* t is s with opening brackets in front and closing ones behind.
Completes(t, s) ==
  \E k \in 0..(Len(t) - Len(s)) :
    /\ SubSeq(t, k + 1, k + Len(s)) = s
    /\ \A j \in 1..k : t[j] \in Opening
    /\ \A j \in (k + Len(s) + 1)..Len(t) : t[j] \in Closing

Completions == {t \in UNION {Balanced[n] : n \in 0..MaxLength} : Completes(t, bracket_seq)}

\* What the ring of the deque holds, from its front to its back.
Stacked == [k \in 1..dsize |-> buffer[(head + k - 1) % dcapacity]]

(***************************************************************************)
(* In the loops: what has been written completes what has been read, and   *)
(* is balanced when the stack, from its top, is closed behind it: the ring *)
(* holds the brackets still open, those and in that order.                 *)
(***************************************************************************)
StackIsOpen ==
  state \in {"read", "close"} =>
    LET whole == text \o Reverse([k \in DOMAIN Stacked |-> brackets[Stacked[k]]])
    IN /\ Len(whole) % 2 = 0
       /\ whole \in Balanced[Len(whole) \div 2]
       /\ Completes(whole, SubSeq(bracket_seq, 1, at))

(***************************************************************************)
(* What is printed is a shortest completion of the line, and IMPOSSIBLE is *)
(* printed for no line that has one, but for the empty line: its shortest  *)
(* completion is empty itself, which main cannot tell from a failure.      *)
(***************************************************************************)
CompletesShortest ==
  /\ state = "done" =>
       text \in Completions /\ \A t \in Completions : Len(text) <= Len(t)
  /\ state = "impossible" => Completions = {} \/ bracket_seq = <<>>

===============================================================================
