------------------------------ MODULE MCAlgorithms ------------------------------
(***************************************************************************)
(* The sequential programs, for TLC: a behaviour is one program's.  The    *)
(* heap, the derivative and the painted segments go through the loops of   *)
(* their modules; the programs of ArraySearch and IntegerBags read, compute *)
(* and print in one step.                                                  *)
(***************************************************************************)
EXTENDS Heap

CONSTANTS
  Programs,                    \* the programs that run
  Coefs, Exps, MaxTerms,       \* of Derivative
  Coordinates, MaxSegments,    \* of PaintedSegments
  Values, MaxLength,           \* the arrays of ArraySearch
  MaxNumber,                   \* the numbers find_div takes apart
  BagValues, BagSize           \* the multisets of multiset.cpp

VARIABLES
  program,
  terms, polynomial, stack, ans, done,            \* of Derivative
  segments, inp, i, prev_layer, dist, phase,      \* of PaintedSegments
  input, output                                   \* of the others

heap_vars  == vars
term_vars  == <<terms, polynomial, stack, ans, done>>
sweep_vars == <<segments, inp, i, prev_layer, dist, phase>>
all_vars   == <<heap_vars, program, term_vars, sweep_vars, input, output>>

Poly    == INSTANCE Derivative
Painted == INSTANCE PaintedSegments WITH pc <- phase
Arrays  == INSTANCE ArraySearch
Bags    == INSTANCE IntegerBags

ASSUME AlgorithmsAssumption ==
  /\ Poly!DerivativeAssumption /\ Painted!SegmentsAssumption
  /\ Values \subseteq Int /\ MaxLength \in Nat

\* The numbers in the arrays, apart by different distances.
SmallIntegers == {-5, -2, 0, 1, 4}

OneStep == {"bin_search", "max_array", "find_div", "multiset"}

ArraysOf(n) == [1..n -> Values]
SortedArrays == {a \in UNION {ArraysOf(n) : n \in 1..MaxLength} : Arrays!Sorted(a)}

Inputs(p) ==
  CASE p = "bin_search" -> SortedArrays \X Values
    [] p = "max_array"  -> UNION {ArraysOf(n) \X ArraysOf(n) : n \in 1..(MaxLength - 2)}
    [] p = "find_div"   -> (1..MaxNumber) \X {0}
    [] p = "multiset"   -> [1..BagSize -> BagValues] \X [1..BagSize -> BagValues]

Prints(p, x, y) ==
  CASE p = "bin_search" -> Arrays!find_elem(x, y)
    [] p = "max_array"  -> Arrays!max_ind(x, y)
    [] p = "find_div"   -> Bags!find_div[x]
    [] p = "multiset"   -> Bags!OnlyInOne(x, y)

None == <<>>

MCInit ==
  /\ program \in Programs
  /\ IF program = "heap" THEN Init
     ELSE /\ heap = <<>> /\ size = 0 /\ pc = "idle" /\ elem_index = 0
          /\ non_leaf_index = 0 /\ got = {}
  /\ IF program = "derivative" THEN Poly!Init
     ELSE terms = <<>> /\ polynomial = <<>> /\ stack = <<>> /\ ans = <<>> /\ done = TRUE
  /\ IF program = "painted" THEN Painted!Init
     ELSE /\ segments = <<>> /\ inp = <<>> /\ i = 0 /\ prev_layer = 0 /\ dist = 0
          /\ phase = "done"
  /\ output = None
  /\ IF program \in OneStep THEN input \in Inputs(program) ELSE input = None

Compute ==
  /\ program \in OneStep /\ output = None
  /\ output' = <<Prints(program, input[1], input[2])>>
  /\ UNCHANGED <<heap_vars, term_vars, sweep_vars, input>>

Inside_heap == /\ program = "heap" /\ Inside
               /\ UNCHANGED <<program, term_vars, sweep_vars, input, output>>

MCNext ==
  /\ UNCHANGED program
  /\ \/ /\ program = "heap" /\ Next
        /\ UNCHANGED <<term_vars, sweep_vars, input, output>>
     \/ /\ program = "derivative" /\ Poly!Next
        /\ UNCHANGED <<heap_vars, sweep_vars, input, output>>
     \/ /\ program = "painted" /\ Painted!Next
        /\ UNCHANGED <<heap_vars, term_vars, input, output>>
     \/ Compute

\* A call of the heap, once begun, runs on.
MCSpec == MCInit /\ [][MCNext]_all_vars /\ WF_all_vars(Inside_heap)

(***************************************************************************)
(* At every step the sums are the derivative of the terms read so far, and *)
(* the text of the answer means the derivative (Derivative).               *)
(***************************************************************************)
DerivesTerms == program = "derivative" => Poly!DerivativeInv

(***************************************************************************)
(* The ends are met in order, each once, and what the sweep has counted is *)
(* the length painted once so far (PaintedSegments).                       *)
(***************************************************************************)
MeasuresPaint == program = "painted" => Painted!SweepInv

(***************************************************************************)
(* The places that are printed are the best there are: bin_search finds an *)
(* element that none is nearer than, although it looks between two powers  *)
(* of two only, and max_array a pair that none exceeds, in one pass.       *)
(***************************************************************************)
PlacesAreBest ==
  output # None =>
    /\ program = "bin_search" => Arrays!Nearest(output[1], input[1], input[2])
    /\ program = "max_array" =>
         Arrays!LargestSum(output[1][1], output[1][2], input[1], input[2])

(***************************************************************************)
(* The collections that are printed are exact: find_div's primes multiply  *)
(* to the number, which its own loop makes smaller meanwhile, and multiset *)
(* keeps each copy of what is in one of its two, also where they are not   *)
(* sorted and operator+ merges them as if they were.                       *)
(***************************************************************************)
CollectionsAreExact ==
  output # None =>
    /\ program = "find_div" => Bags!PrimesOf(output[1], input[1])
    /\ program = "multiset" => Bags!SymmetricDifference(output[1], input[1], input[2])
===============================================================================
