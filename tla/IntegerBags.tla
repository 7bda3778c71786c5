------------------------------ MODULE IntegerBags ------------------------------
(***************************************************************************)
(* Two programs that build collections of integers, as operators on what   *)
(* they read: Algo/week1/find_div.cpp takes a number apart into primes, by *)
(* a loop that shrinks the number it tests; Cpp-course/week4/multiset.cpp  *)
(* builds what is in one of two multisets only, from operators that merge, *)
(* intersect and subtract.                                                 *)
(***************************************************************************)
EXTENDS Integers, Sequences, Functions, FiniteSets

\* Mutant of is_prime: the square root itself is not tried.
is_primeBelowRoot(num) == \A i \in 2..num : i * i < num => num % i # 0

\* 1 passes for a prime.
is_prime(num) == \A i \in 2..num : i * i <= num => num % i # 0

\* The for loop of find_div from i on: the primes it takes out of number, and
\* what is left; its bound is the root of what is left.
TakeOut[i \in Nat, number \in Nat] ==
  IF i * i > number THEN [taken |-> <<>>, left |-> number]
  ELSE LET takes == is_prime(i) /\ number % i = 0
           rest  == TakeOut[i + 1, IF takes THEN number \div i ELSE number]
       IN [rest EXCEPT !.taken = (IF takes THEN <<i>> ELSE <<>>) \o @]

find_div[number \in Nat] ==
  IF number = 0 THEN <<>>
  ELSE IF is_prime(number) THEN <<number>>
  ELSE LET pass == TakeOut[2, number] IN pass.taken \o find_div[pass.left]

-------------------------------------------------------------------------------
\* Mutant of plus: what is left of the second multiset is not inserted.
plusFirst(m1, m2) ==
  LET merge[a, b \in Seq(Int)] ==
        IF a = <<>> \/ b = <<>> THEN a
        ELSE IF Head(a) < Head(b) THEN <<Head(a)>> \o merge[Tail(a), b]
             ELSE <<Head(b)>> \o merge[a, Tail(b)]
  IN merge[m1, m2]

\* operator+ merges, as if both were sorted; the constructor main uses does
\* not sort.
plus(m1, m2) ==
  LET merge[a, b \in Seq(Int)] ==
        IF a = <<>> \/ b = <<>> THEN a \o b
        ELSE IF Head(a) < Head(b) THEN <<Head(a)>> \o merge[Tail(a), b]
             ELSE <<Head(b)>> \o merge[a, Tail(b)]
  IN merge[m1, m2]

\* operator- is the intersection, with the elements of m1.
minus(m1, m2) == SelectSeq(m1, LAMBDA e : e \in Range(m2))

diff(m1, m2) == SelectSeq(m1, LAMBDA e : e \notin Range(m2))

\* What main prints.
OnlyInOne(m1, m2) == diff(plus(m1, m2), minus(m1, m2))

-------------------------------------------------------------------------------
(***************************************************************************)
(* What the programs should print.                                         *)
(***************************************************************************)

Product[s \in Seq(Int)] == IF s = <<>> THEN 1 ELSE Head(s) * Product[Tail(s)]
Times(s, e) == Cardinality({k \in DOMAIN s : s[k] = e})

\* The primes whose product is the number; 1 has itself.
PrimesOf(s, number) ==
  /\ Product[s] = number
  /\ number > 1 => \A k \in DOMAIN s : s[k] > 1 /\ \A d \in 2..(s[k] - 1) : s[k] % d # 0

\* Each element of one multiset only as often as it is there, and none of
\* both; in order when both were.
SymmetricDifference(s, m1, m2) ==
  /\ \A e \in Range(m1) \cup Range(m2) \cup Range(s) :
       Times(s, e) = IF e \in Range(m1) \cap Range(m2) THEN 0 ELSE Times(m1, e) + Times(m2, e)
  /\ (\A m \in {m1, m2} : \A j, k \in DOMAIN m : j < k => m[j] <= m[k])
       => \A j, k \in DOMAIN s : j < k => s[j] <= s[k]
===============================================================================
