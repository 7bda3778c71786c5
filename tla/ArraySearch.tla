------------------------------ MODULE ArraySearch ------------------------------
(***************************************************************************)
(* Two programs that print places in arrays, as operators on what they     *)
(* read: Algo/week1/bin_search.cpp finds the element nearest to a number   *)
(* in a sorted array, by an interval whose ends double; max_array.cpp      *)
(* finds i <= j with the largest A[i] + B[j] in one pass.  Places count    *)
(* from 0, as the code's do.                                               *)
(***************************************************************************)
EXTENDS Integers, Sequences, FiniteSetsExt

At(v, i) == v[i + 1]

\* Mutant of find_interval: the left end keeps up with the right one.
find_intervalClosed(a, elem) ==
  LET widen[r \in Nat \ {0}] == IF r < Len(a) /\ At(a, r) < elem THEN widen[2 * r] ELSE r
      idx_right == widen[1]
  IN IF idx_right > Len(a) THEN <<Len(a), Len(a)>> ELSE <<idx_right, idx_right>>

\* The right end goes 1, 2, 4, ... while the element there is too small, and
\* back to the end of the array; the left end is one turn behind, at the half.
find_interval(a, elem) ==
  LET widen[r \in Nat \ {0}] == IF r < Len(a) /\ At(a, r) < elem THEN widen[2 * r] ELSE r
      idx_right == widen[1]
  IN <<idx_right \div 2, IF idx_right > Len(a) THEN Len(a) ELSE idx_right>>

\* std::lower_bound: the first place of the interval that is not below elem.
lower_bound(a, interval, elem) ==
  Min({interval[2]} \cup {i \in interval[1]..(interval[2] - 1) : At(a, i) >= elem})

\* The lower bound or the element before it, whichever is nearer.
find_elem(a, elem) ==
  LET low == lower_bound(a, find_interval(a, elem), elem)
      diff_r == At(a, low) - elem
      diff_l == elem - At(a, low - 1)
  IN IF low = 0 THEN 0
     ELSE IF low = Len(a) \/ (diff_r # 0 /\ diff_r >= diff_l) THEN low - 1 ELSE low

-------------------------------------------------------------------------------
\* max_a[i]: the largest of A up to place i, and the first place that has it.
fill_max(a) ==
  LET max_a[i \in 0..(Len(a) - 1)] ==
        IF i = 0 THEN <<At(a, 0), 0>>
        ELSE LET before == max_a[i - 1]
             IN IF before[1] < At(a, i) THEN <<At(a, i), i>> ELSE before
  IN max_a

\* Mutant of max_ind: the sum to beat begins at zero.
max_indFromZero(a, b) ==
  LET max_a == fill_max(a)
      best[i \in 0..(Len(b) - 1)] ==
        IF i = 0 THEN <<0, 0, 0>>
        ELSE LET before == best[i - 1]
                 cur_sum == max_a[i][1] + At(b, i)
             IN IF before[3] < cur_sum THEN <<max_a[i][2], i, cur_sum>> ELSE before
  IN best[Len(b) - 1]

\* The two places and their sum; max_a[i] is never of a place behind i.
max_ind(a, b) ==
  LET max_a == fill_max(a)
      best[i \in 0..(Len(b) - 1)] ==
        IF i = 0 THEN <<0, 0, max_a[0][1] + At(b, 0)>>
        ELSE LET before == best[i - 1]
                 cur_sum == max_a[i][1] + At(b, i)
             IN IF max_a[i][2] <= i /\ before[3] < cur_sum
                THEN <<max_a[i][2], i, cur_sum>> ELSE before
  IN best[Len(b) - 1]

-------------------------------------------------------------------------------
(***************************************************************************)
(* What the programs should print.                                         *)
(***************************************************************************)

Distance(x, y) == IF x < y THEN y - x ELSE x - y
Sorted(v) == \A j, k \in DOMAIN v : j < k => v[j] <= v[k]

\* r is the place of an element nearest to elem, of the smaller of two.
Nearest(r, a, elem) ==
  /\ r \in 0..(Len(a) - 1)
  /\ \A k \in DOMAIN a :
       \/ Distance(At(a, r), elem) < Distance(a[k], elem)
       \/ Distance(At(a, r), elem) = Distance(a[k], elem) /\ At(a, r) <= a[k]

\* i <= j, and no other such pair has a larger sum.
LargestSum(i, j, a, b) ==
  /\ 0 <= i /\ i <= j /\ j < Len(b)
  /\ \A k, l \in DOMAIN a : k <= l => a[k] + b[l] <= At(a, i) + At(b, j)
===============================================================================
