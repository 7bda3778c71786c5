--------------------------- MODULE ParallelMergeSort ---------------------------
(***************************************************************************)
(* The parallel merge sort of Multithread/week8/tbb_merge.cpp.  A call     *)
(* MergeSort(data, left, right) is named by its segment <<left, right>>;   *)
(* tbb::parallel_invoke runs the calls for both halves, on any threads,    *)
(* and returns when both have returned.  Merge reads and writes the shared *)
(* array element by element, while other calls run.                        *)
(***************************************************************************)
EXTENDS Integers, Sequences, FiniteSets

CONSTANTS
  Values,      \* the integers the data set may hold
  MaxLength    \* bound: the length of the data set; the code's is 1e5

ASSUME SortAssumption == Values \subseteq Int /\ MaxLength \in Nat

Indices  == 0..(MaxLength - 1)
Segments == {s \in Indices \X Indices : s[1] <= s[2]}

VARIABLES
  elem_q, data,     \* the array, and how many elements of it are in use
  input,            \* history: what main read into it
  at,               \* where each call is
  first_begin, second_begin, sorted_data,   \* the locals of its Merge
  copied            \* how many of sorted_data it has written back

vars == <<elem_q, data, input, at, first_begin, second_begin, sorted_data, copied>>
locals == <<first_begin, second_begin, sorted_data, copied>>

Places == {"none", "begin", "invoke", "merge", "copy", "done"}

left(s)   == s[1]
right(s)  == s[2]
\* Mutant of mid: of two elements the first half is both.
midUp(s)  == left(s) + (right(s) - left(s) + 1) \div 2
mid(s)    == left(s) + (right(s) - left(s)) \div 2
Halves(s) == {<<left(s), mid(s)>>, <<mid(s) + 1, right(s)>>}
Length(s) == right(s) - left(s) + 1

(***************************************************************************)
(* Types.  Merge reads inside the halves and writes inside sorted_data.    *)
(***************************************************************************)
TypeOK ==
  /\ elem_q \in 0..MaxLength
  /\ data \in [Indices -> Values] /\ input \in [Indices -> Values]
  /\ at \in [Segments -> Places]
  /\ \A s \in Segments : /\ first_begin[s] \in left(s)..(mid(s) + 1)
                         /\ second_begin[s] \in (mid(s) + 1)..(right(s) + 1)
  /\ \A s \in Segments : sorted_data[s] \in Seq(Values) /\ Len(sorted_data[s]) <= Length(s)
  /\ copied \in [Segments -> Nat]

\* main's call; of an empty data set there is none to speak of: left > right.
Whole == <<0, elem_q - 1>>

\* main has read the data set; what follows it in the array is not used.
Init ==
  /\ elem_q \in 0..MaxLength
  /\ input \in [Indices -> Values]
  /\ \A i, j \in Indices : elem_q <= i /\ elem_q <= j => input[i] = input[j]
  /\ data = input
  /\ at = [s \in Segments |-> IF s = Whole THEN "begin" ELSE "none"]
  /\ first_begin = [s \in Segments |-> left(s)]
  /\ second_begin = [s \in Segments |-> mid(s) + 1]
  /\ sorted_data = [s \in Segments |-> <<>>]
  /\ copied = [s \in Segments |-> 0]

\* MergeSort of one element returns; of more, it invokes itself on the halves.
MergeSort(s) ==
  /\ at[s] = "begin"
  /\ IF left(s) < right(s)
     THEN at' = [t \in Segments |-> IF t = s THEN "invoke"
                                    ELSE IF t \in Halves(s) THEN "begin" ELSE at[t]]
     ELSE at' = [at EXCEPT ![s] = "done"]
  /\ UNCHANGED <<elem_q, data, input, locals>>

\* Mutant of Join: it returns when the first half has.
JoinFirst(s) ==
  /\ at[s] = "invoke"
  /\ at[<<left(s), mid(s)>>] = "done"
  /\ at' = [at EXCEPT ![s] = "merge"]
  /\ UNCHANGED <<elem_q, data, input, locals>>

\* parallel_invoke returns, and Merge begins.
Join(s) ==
  /\ at[s] = "invoke"
  /\ \A t \in Halves(s) : at[t] = "done"
  /\ at' = [at EXCEPT ![s] = "merge"]
  /\ UNCHANGED <<elem_q, data, input, locals>>

HasFirst(s)  == first_begin[s] <= mid(s)
HasSecond(s) == second_begin[s] <= right(s)

\* Merge's three loops: the first half gives the next element while it has
\* one that is not larger, or the second has none.
FirstIsNext(s) ==
  HasFirst(s) /\ (HasSecond(s) => data[first_begin[s]] <= data[second_begin[s]])

TakeFirst(s) ==
  /\ at[s] = "merge" /\ FirstIsNext(s)
  /\ sorted_data' = [sorted_data EXCEPT ![s] = Append(@, data[first_begin[s]])]
  /\ first_begin' = [first_begin EXCEPT ![s] = @ + 1]
  /\ UNCHANGED <<elem_q, data, input, at, second_begin, copied>>

TakeSecond(s) ==
  /\ at[s] = "merge" /\ HasSecond(s) /\ ~ FirstIsNext(s)
  /\ sorted_data' = [sorted_data EXCEPT ![s] = Append(@, data[second_begin[s]])]
  /\ second_begin' = [second_begin EXCEPT ![s] = @ + 1]
  /\ UNCHANGED <<elem_q, data, input, at, first_begin, copied>>

Merged(s) ==
  /\ at[s] = "merge" /\ ~ HasSecond(s) /\ ~ FirstIsNext(s)
  /\ at' = [at EXCEPT ![s] = "copy"]
  /\ UNCHANGED <<elem_q, data, input, locals>>

\* Mutant of Copy: it writes from the start of the array.
CopyToStart(s) ==
  /\ at[s] = "copy" /\ copied[s] < Len(sorted_data[s])
  /\ data' = [data EXCEPT ![copied[s]] = sorted_data[s][copied[s] + 1]]
  /\ copied' = [copied EXCEPT ![s] = @ + 1]
  /\ UNCHANGED <<elem_q, input, at, first_begin, second_begin, sorted_data>>

\* The last loop writes the merged elements back.
Copy(s) ==
  /\ at[s] = "copy" /\ copied[s] < Len(sorted_data[s])
  /\ data' = [data EXCEPT ![left(s) + copied[s]] = sorted_data[s][copied[s] + 1]]
  /\ copied' = [copied EXCEPT ![s] = @ + 1]
  /\ UNCHANGED <<elem_q, input, at, first_begin, second_begin, sorted_data>>

Return(s) ==
  /\ at[s] = "copy" /\ copied[s] = Len(sorted_data[s])
  /\ at' = [at EXCEPT ![s] = "done"]
  /\ UNCHANGED <<elem_q, data, input, locals>>

Step(s) ==
  \/ MergeSort(s) \/ Join(s)
  \/ TakeFirst(s) \/ TakeSecond(s) \/ Merged(s)
  \/ Copy(s) \/ Return(s)

Next == \E s \in Segments : Step(s)

Spec == Init /\ [][Next]_vars

\* A thread of the pool runs each call that can go on.
FairSpec == Spec /\ \A s \in Segments : WF_vars(Step(s))

-------------------------------------------------------------------------------
(***************************************************************************)
(* The properties.                                                         *)
(***************************************************************************)

Active(s) == at[s] \in {"merge", "copy"}
Of(s)     == left(s)..right(s)
Around(s) == {t \in Segments \ {s} : Of(s) \subseteq Of(t)}

(***************************************************************************)
(* No race: while a call merges, every call whose segment meets its own    *)
(* has returned, if inside it, or waits in parallel_invoke, if around it;  *)
(* what Merge reads and writes element by element is its own (lines 50-51).*)
(***************************************************************************)
MergesApart ==
  \A s, t \in Segments :
    Active(s) /\ s # t /\ Of(s) \cap Of(t) # {} /\ at[t] # "none" =>
      IF t \in Around(s) THEN at[t] = "invoke" ELSE at[t] = "done"

(***************************************************************************)
(* The merges keep their types, indices inside the array among them, and   *)
(* stay apart, by parts.                                                   *)
(***************************************************************************)
MergeInv == TypeOK /\ MergesApart

IsSorted(d, s) == \A i, j \in Of(s) : i <= j => d[i] <= d[j]
Count(d, s, v) == {i \in Of(s) : d[i] = v}

(***************************************************************************)
(* A call that has returned has sorted its segment: until a call around it *)
(* writes there, the segment is in order and holds, each as many times,    *)
(* the elements main read there.                                           *)
(***************************************************************************)
ReturnsSorted ==
  \A s \in Segments :
    at[s] = "done" /\ (\A t \in Around(s) : at[t] \notin {"copy", "done"}) =>
      /\ IsSorted(data, s)
      /\ \A v \in Values :
           Cardinality(Count(data, s, v)) = Cardinality(Count(input, s, v))

(***************************************************************************)
(* The sort ends.                                                          *)
(***************************************************************************)
Sorts == <>(elem_q > 0 => at[Whole] = "done")
===============================================================================
