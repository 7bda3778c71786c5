----------------------------- MODULE PaintedSegments -----------------------------
(***************************************************************************)
(* Algo/week3/mergesort.cpp: the length of the line that is painted once.  *)
(* main reads the segments' ends, merge_sort orders them, check_segments   *)
(* sweeps over them, one end a step.                                       *)
(***************************************************************************)
EXTENDS Integers, Sequences, FiniteSets

CONSTANTS
  Coordinates,   \* where segments may begin and end: all integers of a range
  MaxSegments    \* bound: the segments there may be

SegmentsAssumption ==
  /\ Coordinates \subseteq Int /\ \A x, y \in Coordinates : x..y \subseteq Coordinates
  /\ MaxSegments \in Nat

begin_segment == -1
end_segment   == 1

VARIABLES
  segments,   \* history: what main read, <<left, right>> each
  inp,        \* the ends: <<coordinate, begin_segment or end_segment>>
  i, prev_layer, dist,   \* the locals of check_segments
  pc          \* "sort", "check" or "done"

vars == <<segments, inp, i, prev_layer, dist, pc>>

Ends == Coordinates \X {begin_segment, end_segment}

\* merge_sort of no ends at all calls itself for ever: main needs a segment.
Init ==
  /\ segments \in UNION {[1..n -> {s \in Coordinates \X Coordinates : s[1] <= s[2]}] :
                           n \in 1..MaxSegments}
  /\ inp = [k \in 1..(2 * Len(segments)) |->
              IF k % 2 = 1 THEN <<segments[(k + 1) \div 2][1], begin_segment>>
                           ELSE <<segments[k \div 2][2], end_segment>>]
  /\ i = 0 /\ prev_layer = 0 /\ dist = 0
  /\ pc = "sort"

\* std::pair's <=
NotLarger(x, y) == x[1] < y[1] \/ (x[1] = y[1] /\ x[2] <= y[2])

\* merge: the first part gives the next while it has one that is not larger.
merge[parts \in Seq(Ends) \X Seq(Ends)] ==
  LET first == parts[1]  second == parts[2]
  IN IF first = <<>> THEN second
     ELSE IF second = <<>> THEN first
     ELSE IF NotLarger(Head(first), Head(second))
          THEN <<Head(first)>> \o merge[<<Tail(first), second>>]
          ELSE <<Head(second)>> \o merge[<<first, Tail(second)>>]

merge_sort[v \in Seq(Ends)] ==
  LET size == Len(v)  mid == size \div 2
  IN IF size = 1 THEN v
     ELSE merge[<<merge_sort[SubSeq(v, 1, mid)], merge_sort[SubSeq(v, mid + 1, size)]>>]

Sort ==
  /\ pc = "sort"
  /\ inp' = merge_sort[inp]
  /\ pc' = "check"
  /\ UNCHANGED <<segments, i, prev_layer, dist>>

cur_layer == prev_layer + (IF inp[i + 1][2] = begin_segment THEN 1 ELSE -1)

\* Mutant of Counts: only at the end of a segment.
CountsEnds == prev_layer = 1 /\ cur_layer = 0

\* A stretch painted once ends here.
Counts == prev_layer = 1 /\ cur_layer \in {0, 2}

CheckEnd ==
  /\ pc = "check" /\ i < Len(inp)
  /\ dist' = IF Counts THEN dist + inp[i + 1][1] - inp[i][1] ELSE dist
  /\ prev_layer' = cur_layer
  /\ i' = i + 1
  /\ UNCHANGED <<segments, inp, pc>>

Return ==
  /\ pc = "check" /\ i = Len(inp)
  /\ pc' = "done"
  /\ UNCHANGED <<segments, inp, i, prev_layer, dist>>

Next == Sort \/ CheckEnd \/ Return

Spec == Init /\ [][Next]_vars

-------------------------------------------------------------------------------
(***************************************************************************)
(* The properties.                                                         *)
(***************************************************************************)

\* How many segments lie over the stretch from x to x + 1; the Coordinates
\* are consecutive.
Layers(x) == Cardinality({s \in DOMAIN segments : segments[s][1] <= x /\ x < segments[s][2]})

\* The length painted once up to the place p.
PaintedOnce(p) == Cardinality({x \in Coordinates : x < p /\ Layers(x) = 1})

(***************************************************************************)
(* merge_sort orders the ends and keeps each as often as it was read, and  *)
(* the sweep never counts fewer than no layers: a segment's beginning is   *)
(* met before its end, also where it has no length.                        *)
(***************************************************************************)
SweepsInOrder ==
  pc # "sort" =>
    /\ prev_layer >= 0
    /\ \A j, k \in DOMAIN inp : j < k => inp[j][1] <= inp[k][1]
    /\ \A e \in Ends :
         Cardinality({k \in DOMAIN inp : inp[k] = e})
           = Cardinality({s \in DOMAIN segments :
               e = IF e[2] = begin_segment THEN <<segments[s][1], begin_segment>>
                                           ELSE <<segments[s][2], end_segment>>})

(***************************************************************************)
(* At every step dist is the length painted once up to the last end met;   *)
(* at the end, all of it.                                                  *)
(***************************************************************************)
MeasuresOnce ==
  /\ pc = "check" /\ i > 0 =>
       dist = PaintedOnce(inp[i][1])
  /\ pc = "done" =>
       dist = Cardinality({x \in Coordinates : Layers(x) = 1})

(***************************************************************************)
(* The ends are met in order, each once, and what the sweep has counted is *)
(* the length painted once so far.                                         *)
(***************************************************************************)
SweepInv == SweepsInOrder /\ MeasuresOnce

===============================================================================
