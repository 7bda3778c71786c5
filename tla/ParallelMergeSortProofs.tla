----------------------- MODULE ParallelMergeSortProofs -----------------------
(***************************************************************************)
(* Proofs about ParallelMergeSort, for data sets of any length and any     *)
(* integers: merges never meet, and each call sorts its segment.           *)
(***************************************************************************)
EXTENDS ParallelMergeSort, FiniteSetTheorems, TLAPS

USE SortAssumption

(***************************************************************************)
(* The invariant.  Segments are compared by their ends.                    *)
(***************************************************************************)

Within(s, t) == left(t) <= left(s) /\ right(s) <= right(t)
Apart(s, t)  == right(s) < left(t) \/ right(t) < left(s)

Started(s) == at[s] # "none"

\* Of two calls that have started, one is inside the other or they are apart.
Nested ==
  \A s, t \in Segments :
    Started(s) /\ Started(t) => Apart(s, t) \/ Within(s, t) \/ Within(t, s)

\* What has started inside a call is inside one of its halves, and the call
\* waits for it, or it is done.
Descends ==
  \A s, t \in Segments :
    Started(s) /\ Started(t) /\ Within(s, t) /\ s # t =>
      /\ \E h \in Halves(t) : Within(s, h)
      /\ \/ at[t] = "invoke"
         \/ at[t] \in {"merge", "copy", "done"} /\ at[s] = "done"

Divided ==
  \A s \in Segments :
    /\ at[s] \in {"invoke", "merge", "copy"} => left(s) < right(s)
    /\ at[s] = "merge" => \A h \in Halves(s) : at[h] = "done"

Tree == Nested /\ Descends /\ Divided

\* The locals of a Merge, and how far it is.
Locals ==
  /\ first_begin \in [Segments -> Int] /\ second_begin \in [Segments -> Int]
  /\ sorted_data \in [Segments -> Seq(Values)]
  /\ \A s \in Segments :
       /\ Len(sorted_data[s]) = (first_begin[s] - left(s)) + (second_begin[s] - (mid(s) + 1))
       /\ copied[s] <= Len(sorted_data[s])
       /\ at[s] \notin {"copy", "done"} => copied[s] = 0
       /\ at[s] \notin {"merge", "copy", "done"} => sorted_data[s] = <<>>
       /\ at[s] = "copy" => Len(sorted_data[s]) = Length(s)

\* How many of d[a], ..., d[b] are v.
N(d, a, b, v) == Cardinality({i \in a..b : d[i] = v})

\* The elements that Merge of s has yet to take.
Rest(s) == (first_begin[s]..mid(s)) \cup (second_begin[s]..right(s))

InOrder(q) == \A i, j \in 1..Len(q) : i <= j => q[i] <= q[j]

\* What a call that begins finds, what Merge has taken and copied back.
ContentOf(s) ==
  /\ at[s] = "begin" => \A i \in Of(s) : data[i] = input[i]
  /\ at[s] \in {"merge", "copy"} => InOrder(sorted_data[s])
  /\ at[s] = "merge" =>
       /\ \A k \in 1..Len(sorted_data[s]), i \in Rest(s) : sorted_data[s][k] <= data[i]
       /\ \A v \in Values :
            N(sorted_data[s], 1, Len(sorted_data[s]), v) =
              N(data, left(s), first_begin[s] - 1, v)
                + N(data, mid(s) + 1, second_begin[s] - 1, v)
  /\ at[s] = "copy" =>
       /\ \A k \in 1..copied[s] : data[left(s) + k - 1] = sorted_data[s][k]
       /\ \A v \in Values :
            /\ N(sorted_data[s], 1, Len(sorted_data[s]), v) = N(input, left(s), right(s), v)
            /\ N(data, left(s), left(s) + copied[s] - 1, v) = N(sorted_data[s], 1, copied[s], v)

Content == \A s \in Segments : ContentOf(s)

IInv == TypeOK /\ Tree /\ Locals /\ Content /\ ReturnsSorted

-------------------------------------------------------------------------------
(***************************************************************************)
(* Segments.                                                               *)
(***************************************************************************)

LEMMA SegmentEnds ==
  ASSUME NEW s \in Segments
  PROVE  /\ left(s) \in Nat /\ right(s) \in Nat /\ mid(s) \in Nat
         /\ left(s) <= mid(s) /\ mid(s) <= right(s) /\ right(s) < MaxLength
         /\ left(s) < right(s) => mid(s) < right(s)
         /\ s = <<left(s), right(s)>>
         /\ Length(s) = right(s) - left(s) + 1
BY DEF Segments, Indices, left, right, mid, Length

LEMMA SameEnds ==
  ASSUME NEW s \in Segments, NEW t \in Segments, Within(s, t), Within(t, s)
  PROVE  s = t
<1>1. left(s) = left(t) /\ right(s) = right(t)
  BY SegmentEnds DEF Within
<1>. QED
  BY <1>1, SegmentEnds

\* The halves of s: their ends, and that they make up s.
LEMMA HalfEnds ==
  ASSUME NEW s \in Segments, left(s) < right(s)
  PROVE  \E f, g \in Segments :
           /\ Halves(s) = {f, g} /\ f # g /\ f # s /\ g # s
           /\ f = <<left(s), mid(s)>> /\ g = <<mid(s) + 1, right(s)>>
           /\ left(f) = left(s) /\ right(f) = mid(s)
           /\ left(g) = mid(s) + 1 /\ right(g) = right(s)
<1>. DEFINE f == <<left(s), mid(s)>>
            g == <<mid(s) + 1, right(s)>>
<1>1. f \in Segments /\ g \in Segments
  BY SegmentEnds DEF Segments, Indices
<1>2. /\ left(f) = left(s) /\ right(f) = mid(s)
      /\ left(g) = mid(s) + 1 /\ right(g) = right(s)
  BY DEF left, right
<1>3. f # g /\ f # s /\ g # s
  BY <1>2, SegmentEnds
<1>. HIDE DEF f, g
<1>4. Halves(s) = {f, g}
  BY DEF Halves, f, g
<1>. QED
  BY <1>1, <1>2, <1>3, <1>4 DEF f, g

\* The sets of indices the properties speak of.
LEMMA OfSegments ==
  ASSUME NEW s \in Segments, NEW t \in Segments
  PROVE  /\ Of(s) \cap Of(t) = {} <=> Apart(s, t)
         /\ Of(s) \subseteq Of(t) <=> Within(s, t)
         /\ t \in Around(s) <=> Within(s, t) /\ s # t
<1>1. /\ left(s) \in Int /\ right(s) \in Int /\ left(t) \in Int /\ right(t) \in Int
      /\ left(s) <= right(s) /\ left(t) <= right(t)
  BY SegmentEnds
<1>2. Of(s) \cap Of(t) = {} <=> Apart(s, t)
  <2>1. ASSUME Apart(s, t) PROVE Of(s) \cap Of(t) = {}
    BY <1>1, <2>1 DEF Of, Apart
  <2>2. ASSUME ~ Apart(s, t) PROVE Of(s) \cap Of(t) # {}
    <3>1. CASE left(s) <= left(t)
      <4>1. left(t) \in Of(s) \cap Of(t)
        BY <1>1, <2>2, <3>1 DEF Of, Apart
      <4>. QED
        BY <4>1
    <3>2. CASE left(t) <= left(s)
      <4>1. left(s) \in Of(s) \cap Of(t)
        BY <1>1, <2>2, <3>2 DEF Of, Apart
      <4>. QED
        BY <4>1
    <3>. QED
      BY <1>1, <3>1, <3>2
  <2>. QED
    BY <2>1, <2>2
<1>3. Of(s) \subseteq Of(t) <=> Within(s, t)
  <2>1. ASSUME Within(s, t) PROVE Of(s) \subseteq Of(t)
    BY <1>1, <2>1 DEF Of, Within
  <2>2. ASSUME Of(s) \subseteq Of(t) PROVE Within(s, t)
    <3>1. left(s) \in Of(t) /\ right(s) \in Of(t)
      BY <1>1, <2>2 DEF Of
    <3>. QED
      BY <1>1, <3>1 DEF Of, Within
  <2>. QED
    BY <2>1, <2>2
<1>. QED
  BY <1>2, <1>3 DEF Around

\* What is inside a segment is inside, or apart from, what the segment is.
LEMMA WithinTrans ==
  ASSUME NEW s \in Segments, NEW t \in Segments, NEW u \in Segments,
         Within(s, t), Within(t, u)
  PROVE  Within(s, u)
BY SegmentEnds DEF Within

LEMMA WithinApart ==
  ASSUME NEW s \in Segments, NEW t \in Segments, NEW u \in Segments,
         Within(s, t), Apart(t, u)
  PROVE  Apart(s, u) /\ ~ Within(s, u) /\ ~ Within(u, s)
BY SegmentEnds DEF Within, Apart

-------------------------------------------------------------------------------
(***************************************************************************)
(* The tree of calls keeps merges apart.                                   *)
(***************************************************************************)

LEMMA MergesMeetNot ==
  ASSUME Tree
  PROVE  MergesApart
<1>. SUFFICES ASSUME NEW s \in Segments, NEW t \in Segments,
                     Active(s), s # t, Of(s) \cap Of(t) # {}, at[t] # "none"
              PROVE  IF t \in Around(s) THEN at[t] = "invoke" ELSE at[t] = "done"
  BY DEF MergesApart
<1>1. ~ Apart(s, t) /\ (t \in Around(s) <=> Within(s, t))
  BY OfSegments
<1>2. Started(s) /\ Started(t) /\ at[s] \in {"merge", "copy"}
  BY DEF Active, Started
<1>3. CASE Within(s, t)
  BY <1>1, <1>2, <1>3 DEF Tree, Descends
<1>4. CASE ~ Within(s, t)
  <2>1. Within(t, s)
    BY <1>1, <1>2, <1>4 DEF Tree, Nested
  <2>2. at[t] = "done"
    BY <1>2, <2>1 DEF Tree, Descends
  <2>. QED
    BY <1>1, <1>4, <2>2
<1>. QED
  BY <1>3, <1>4

\* When a call begins, nothing has started inside it.
LEMMA NothingInside ==
  ASSUME Tree, NEW s \in Segments, at[s] = "begin", NEW t \in Segments, Started(t), t # s
  PROVE  /\ ~ Within(t, s)
         /\ Apart(s, t) \/ (Within(s, t) /\ at[t] = "invoke")
<1>1. Started(s)
  BY DEF Started
<1>2. ~ Within(t, s)
  BY <1>1 DEF Tree, Descends
<1>3. Apart(s, t) \/ Within(s, t)
  BY <1>1, <1>2 DEF Tree, Nested
<1>4. Within(s, t) => at[t] = "invoke"
  BY <1>1 DEF Tree, Descends
<1>. QED
  BY <1>2, <1>3, <1>4

\* One call moves on, when all that has started inside it is done.
LEMMA OneMoves ==
  ASSUME TypeOK, Tree, NEW s \in Segments, NEW p \in {"merge", "copy", "done"},
         at' = [at EXCEPT ![s] = p], at[s] \in {"begin", "invoke", "merge", "copy"},
         \A t \in Segments : Started(t) /\ Within(t, s) /\ t # s => at[t] = "done",
         p # "done" => left(s) < right(s),
         p = "merge" => \A h \in Halves(s) : at[h] = "done"
  PROVE  Tree'
<1>1. /\ at'[s] = p /\ \A t \in Segments : t # s => at'[t] = at[t]
      /\ \A t : at[t] = "done" /\ t # s => at'[t] = at[t]
  BY DEF TypeOK
<1>2. \A t \in Segments : Started(t)' <=> Started(t)
  BY <1>1 DEF Started
<1>3. Nested'
  BY <1>2 DEF Tree, Nested
<1>4. Descends'
  <2>. SUFFICES ASSUME NEW x \in Segments, NEW y \in Segments,
                       Started(x)', Started(y)', Within(x, y), x # y
                PROVE  /\ \E h \in Halves(y) : Within(x, h)
                       /\ \/ at'[y] = "invoke"
                          \/ at'[y] \in {"merge", "copy", "done"} /\ at'[x] = "done"
    BY DEF Descends
  <2>1. /\ \E h \in Halves(y) : Within(x, h)
        /\ \/ at[y] = "invoke"
           \/ at[y] \in {"merge", "copy", "done"} /\ at[x] = "done"
    BY <1>2 DEF Tree, Descends
  <2>2. CASE y = s
    BY <1>1, <1>2, <2>1, <2>2
  <2>3. CASE x = s
    BY <1>1, <2>1, <2>3
  <2>4. CASE x # s /\ y # s
    BY <1>1, <2>1, <2>4
  <2>. QED
    BY <2>2, <2>3, <2>4
<1>5. Divided'
  <2>. SUFFICES ASSUME NEW t \in Segments
                PROVE  /\ at'[t] \in {"invoke", "merge", "copy"} => left(t) < right(t)
                       /\ at'[t] = "merge" => \A h \in Halves(t) : at'[h] = "done"
    BY DEF Divided
  <2>1. CASE t = s
    <3>1. ASSUME p = "merge", NEW h \in Halves(s) PROVE at'[h] = "done"
      <4>1. h # s
        BY <3>1
      <4>. QED
        BY <1>1, <3>1, <4>1
    <3>. QED
      BY <1>1, <2>1, <3>1
  <2>2. CASE t # s
    BY <1>1, <2>2 DEF Tree, Divided
  <2>. QED
    BY <2>1, <2>2
<1>. QED
  BY <1>3, <1>4, <1>5 DEF Tree

\* A call of two elements or more starts its halves.
LEMMA HalvesStart ==
  ASSUME TypeOK, Tree, NEW s \in Segments, MergeSort(s), left(s) < right(s)
  PROVE  /\ Tree'
         /\ at'[s] = "invoke"
         /\ \A h \in Halves(s) : h \in Segments /\ at[h] = "none" /\ at'[h] = "begin"
                                /\ Within(h, s)
         /\ \A t \in Segments : t # s /\ t \notin Halves(s) => at'[t] = at[t]
<1>1. PICK f, g \in Segments :
        /\ Halves(s) = {f, g} /\ f # g /\ f # s /\ g # s
        /\ left(f) = left(s) /\ right(f) = mid(s)
        /\ left(g) = mid(s) + 1 /\ right(g) = right(s)
  BY HalfEnds
<1>2. Within(f, s) /\ Within(g, s) /\ Apart(f, g) /\ Apart(g, f)
  BY <1>1, SegmentEnds DEF Within, Apart
<1>3. at[s] = "begin" /\ Started(s)
  BY DEF MergeSort, Started
<1>4. at[f] = "none" /\ at[g] = "none"
  BY <1>1, <1>2, <1>3, NothingInside DEF Started
<1>5. /\ at'[s] = "invoke" /\ at'[f] = "begin" /\ at'[g] = "begin"
      /\ \A t \in Segments : t \notin {s, f, g} => at'[t] = at[t]
  BY <1>1 DEF MergeSort
<1>6. \A t \in Segments : Started(t)' <=> Started(t) \/ t \in {f, g}
  BY <1>3, <1>5 DEF Started
<1>7. ASSUME NEW h \in {f, g}, NEW t \in Segments, Started(t), t # s
      PROVE  /\ ~ Within(t, h)
             /\ Apart(h, t) \/ (Within(s, t) /\ Within(h, t) /\ at[t] = "invoke")
  <2>1. h \in Segments /\ Within(h, s)
    BY <1>1, <1>2
  <2>2. ~ Within(t, s) /\ (Apart(s, t) \/ (Within(s, t) /\ at[t] = "invoke"))
    BY <1>3, <1>7, NothingInside
  <2>3. ~ Within(t, h)
    BY <2>1, <2>2, WithinTrans
  <2>4. Apart(s, t) => Apart(h, t)
    BY <2>1, WithinApart
  <2>5. Within(s, t) => Within(h, t)
    BY <2>1, WithinTrans
  <2>. QED
    BY <2>2, <2>3, <2>4, <2>5
<1>8. Nested'
  <2>. SUFFICES ASSUME NEW x \in Segments, NEW y \in Segments, Started(x)', Started(y)'
                PROVE  Apart(x, y) \/ Within(x, y) \/ Within(y, x)
    BY DEF Nested
  <2>1. CASE Started(x) /\ Started(y)
    BY <2>1 DEF Tree, Nested
  <2>2. CASE x \in {f, g} /\ y \in {f, g}
    <3>1. CASE x = y
      BY <3>1, SegmentEnds DEF Within
    <3>2. CASE x # y
      BY <1>2, <2>2, <3>2
    <3>. QED
      BY <3>1, <3>2
  <2>3. CASE x \in {f, g} /\ Started(y)
    BY <1>2, <1>7, <2>3
  <2>4. CASE Started(x) /\ y \in {f, g}
    <3>1. x # s => Apart(y, x) \/ Within(y, x)
      BY <1>7, <2>4
    <3>. QED
      BY <1>2, <2>4, <3>1 DEF Apart
  <2>. QED
    BY <1>6, <2>1, <2>2, <2>3, <2>4
<1>9. Descends'
  <2>. SUFFICES ASSUME NEW x \in Segments, NEW y \in Segments,
                       Started(x)', Started(y)', Within(x, y), x # y
                PROVE  /\ \E h \in Halves(y) : Within(x, h)
                       /\ \/ at'[y] = "invoke"
                          \/ at'[y] \in {"merge", "copy", "done"} /\ at'[x] = "done"
    BY DEF Descends
  <2>1. CASE y \in {f, g}
    <3>1. x \notin {f, g}
      BY <1>1, <1>2, <2>1, SegmentEnds DEF Within, Apart
    <3>2. Started(x)
      BY <1>6, <3>1
    <3>3. x = s
      BY <1>7, <2>1, <3>2
    <3>. QED
      BY <1>1, <2>1, <3>3, SegmentEnds DEF Within
  <2>2. CASE y = s
    <3>1. x \in {f, g}
      <4>1. Started(x) => ~ Within(x, s)
        BY <1>3, <2>2, NothingInside
      <4>. QED
        BY <1>6, <2>2, <4>1
    <3>2. Within(x, x)
      BY SegmentEnds DEF Within
    <3>. QED
      BY <1>1, <1>5, <2>2, <3>1, <3>2
  <2>3. CASE y \notin {s, f, g} /\ x \in {f, g}
    <3>1. Started(y) /\ at'[y] = at[y]
      BY <1>5, <1>6, <2>3
    <3>2. ~ Apart(x, y)
      BY <1>1, <2>3, SegmentEnds DEF Within, Apart
    <3>3. Within(s, y) /\ at[y] = "invoke"
      BY <1>7, <2>3, <3>1, <3>2
    <3>4. PICK h \in Halves(y) : Within(s, h)
      BY <1>3, <2>3, <3>1, <3>3 DEF Tree, Descends
    <3>5. h \in Segments
      <4>1. left(y) < right(y)
        BY <3>3 DEF Tree, Divided
      <4>. QED
        BY <4>1, HalfEnds
    <3>6. Within(x, h)
      BY <1>2, <2>3, <3>4, <3>5, WithinTrans
    <3>. QED
      BY <3>1, <3>3, <3>4, <3>6
  <2>4. CASE y \notin {s, f, g} /\ x \notin {f, g}
    <3>1. Started(y) /\ Started(x) /\ at'[y] = at[y]
      BY <1>5, <1>6, <2>4
    <3>2. /\ \E h \in Halves(y) : Within(x, h)
          /\ \/ at[y] = "invoke"
             \/ at[y] \in {"merge", "copy", "done"} /\ at[x] = "done"
      BY <3>1 DEF Tree, Descends
    <3>3. at[x] = "done" => at'[x] = "done"
      BY <1>3, <1>5, <2>4
    <3>. QED
      BY <3>1, <3>2, <3>3
  <2>. QED
    BY <2>1, <2>2, <2>3, <2>4
<1>10. Divided'
  <2>. SUFFICES ASSUME NEW t \in Segments
                PROVE  /\ at'[t] \in {"invoke", "merge", "copy"} => left(t) < right(t)
                       /\ at'[t] = "merge" => \A h \in Halves(t) : at'[h] = "done"
    BY DEF Divided
  <2>1. CASE t \in {s, f, g}
    BY <1>5, <2>1
  <2>2. CASE t \notin {s, f, g}
    <3>1. at'[t] = at[t]
      BY <1>5, <2>2
    <3>2. ASSUME at[t] = "merge", NEW h \in Halves(t) PROVE at'[h] = "done"
      <4>1. left(t) < right(t) /\ at[h] = "done"
        BY <3>2 DEF Tree, Divided
      <4>2. h \in Segments
        BY <4>1, HalfEnds
      <4>3. h \notin {s, f, g}
        BY <1>3, <1>4, <4>1
      <4>. QED
        BY <1>5, <4>1, <4>2, <4>3
    <3>. QED
      BY <3>1, <3>2 DEF Tree, Divided
  <2>. QED
    BY <2>1, <2>2
<1>. QED
  BY <1>1, <1>2, <1>4, <1>5, <1>8, <1>9, <1>10 DEF Tree

\* Every step keeps the tree.
LEMMA TreeKept ==
  ASSUME TypeOK, Tree, [Next]_vars
  PROVE  Tree'
<1>1. CASE UNCHANGED at
  BY <1>1 DEF Tree, Nested, Descends, Divided, Started
<1>2. ASSUME NEW s \in Segments, Step(s)
      PROVE  Tree'
  <2>0. /\ left(s) \in Nat /\ right(s) \in Nat /\ left(s) <= right(s)
    BY SegmentEnds
  <2>1. CASE MergeSort(s)
    <3>1. CASE left(s) < right(s)
      BY <2>1, <3>1, HalvesStart
    <3>2. CASE ~ (left(s) < right(s))
      <4>1. at[s] = "begin" /\ at' = [at EXCEPT ![s] = "done"]
        BY <2>1, <3>2 DEF MergeSort
      <4>2. \A t \in Segments : Started(t) /\ Within(t, s) /\ t # s => at[t] = "done"
        BY <4>1, NothingInside
      <4>. QED
        BY <4>1, <4>2, OneMoves
    <3>. QED
      BY <3>1, <3>2
  <2>2. CASE Join(s)
    <3>1. /\ at[s] = "invoke" /\ at' = [at EXCEPT ![s] = "merge"]
          /\ \A h \in Halves(s) : at[h] = "done"
          /\ left(s) < right(s)
      BY <2>2 DEF Join, Tree, Divided
    <3>2. ASSUME NEW t \in Segments, Started(t), Within(t, s), t # s PROVE at[t] = "done"
      <4>1. Started(s)
        BY <3>1 DEF Started
      <4>2. PICK h \in Halves(s) : Within(t, h)
        BY <3>2, <4>1 DEF Tree, Descends
      <4>3. h \in Segments /\ at[h] = "done" /\ Started(h)
        BY <3>1, HalfEnds DEF Started
      <4>. QED
        BY <3>2, <4>2, <4>3 DEF Tree, Descends
    <3>. QED
      BY <3>1, <3>2, OneMoves
  <2>3. CASE Merged(s) \/ Return(s)
    <3>1. PICK p \in {"copy", "done"} : at' = [at EXCEPT ![s] = p]
      BY <2>3 DEF Merged, Return
    <3>2. at[s] \in {"merge", "copy"} /\ Started(s) /\ left(s) < right(s)
      BY <2>3 DEF Merged, Return, Started, Tree, Divided
    <3>3. \A t \in Segments : Started(t) /\ Within(t, s) /\ t # s => at[t] = "done"
      BY <3>2 DEF Tree, Descends
    <3>. QED
      BY <3>1, <3>2, <3>3, OneMoves
  <2>4. CASE TakeFirst(s) \/ TakeSecond(s) \/ Copy(s)
    BY <1>1, <2>4 DEF TakeFirst, TakeSecond, Copy
  <2>. QED
    BY <1>2, <2>1, <2>2, <2>3, <2>4 DEF Step
<1>. QED
  BY <1>1, <1>2 DEF Next, vars

-------------------------------------------------------------------------------
(***************************************************************************)
(* Types, and how far each Merge is.                                       *)
(***************************************************************************)

LEMMA Begins ==
  ASSUME Init
  PROVE  TypeOK /\ Tree /\ Locals
<1>1. \A s \in Segments : at[s] = IF s = Whole THEN "begin" ELSE "none"
  BY DEF Init
<1>2. Tree
  <2>1. \A s \in Segments : Started(s) => s = Whole
    BY <1>1 DEF Started
  <2>2. \A s \in Segments : Within(s, s)
    BY SegmentEnds DEF Within
  <2>. QED
    BY <1>1, <2>1, <2>2 DEF Tree, Nested, Descends, Divided
<1>3. at \in [Segments -> Places]
  BY DEF Init, Places
<1>4. /\ first_begin \in [Segments -> Int] /\ second_begin \in [Segments -> Int]
      /\ copied \in [Segments -> Nat]
  BY SegmentEnds DEF Init
<1>5. <<>> \in Seq(Values) /\ Len(<<>>) = 0
  OBVIOUS
<1>6. sorted_data \in [Segments -> Seq(Values)]
  BY <1>5 DEF Init
<1>7. \A s \in Segments :
        /\ first_begin[s] = left(s) /\ second_begin[s] = mid(s) + 1
        /\ sorted_data[s] = <<>> /\ copied[s] = 0
  BY DEF Init
<1>8. TypeOK
  BY <1>3, <1>4, <1>5, <1>7, SegmentEnds DEF TypeOK, Init
<1>9. \A s \in Segments :
        /\ Len(sorted_data[s]) = (first_begin[s] - left(s)) + (second_begin[s] - (mid(s) + 1))
        /\ copied[s] <= Len(sorted_data[s])
  BY <1>5, <1>7, SegmentEnds
<1>10. \A s \in Segments : at[s] # "copy"
  BY <1>1
<1>11. Locals
  BY <1>4, <1>6, <1>7, <1>9, <1>10 DEF Locals
<1>. QED
  BY <1>2, <1>8, <1>11

LEMMA TypesKept ==
  ASSUME TypeOK, Tree, Locals, [Next]_vars
  PROVE  TypeOK' /\ Locals'
<1>1. CASE UNCHANGED vars
  BY <1>1 DEF TypeOK, Locals, vars
<1>2. ASSUME NEW s \in Segments, Step(s)
      PROVE  TypeOK' /\ Locals'
  <2>0. /\ left(s) \in Nat /\ right(s) \in Nat /\ mid(s) \in Nat
        /\ left(s) <= mid(s) /\ mid(s) <= right(s) /\ right(s) < MaxLength
        /\ Length(s) = right(s) - left(s) + 1
        /\ first_begin[s] \in left(s)..(mid(s) + 1)
        /\ second_begin[s] \in (mid(s) + 1)..(right(s) + 1)
        /\ sorted_data[s] \in Seq(Values) /\ Len(sorted_data[s]) \in Nat
        /\ copied[s] \in Nat
    BY SegmentEnds DEF TypeOK
  \* The calls whose place alone changes, and the sequences left as they are.
  <2>1. ASSUME UNCHANGED <<elem_q, data, input, locals>>, at' \in [Segments -> Places],
               \A t \in Segments :
                 /\ at'[t] \notin {"copy", "done"} => at[t] \notin {"copy", "done"}
                 /\ at'[t] \notin {"merge", "copy", "done"}
                      => at[t] \notin {"merge", "copy", "done"}
                 /\ at'[t] = "copy" => Len(sorted_data[t]) = Length(t)
        PROVE  TypeOK' /\ Locals'
    <3>1. TypeOK'
      BY <2>1 DEF TypeOK, locals
    <3>2. Locals'
      BY <2>1 DEF Locals, locals
    <3>. QED
      BY <3>1, <3>2
  <2>2. \A t \in Segments : at[t] = "copy" => Len(sorted_data[t]) = Length(t)
    BY DEF Locals
  <2>3. CASE MergeSort(s)
    <3>1. at' \in [Segments -> Places]
      BY <2>3 DEF MergeSort, TypeOK, Places
    <3>2. \A t \in Segments : left(s) < right(s) /\ t \in Halves(s) => at[t] = "none"
      BY <2>3, HalvesStart
    <3>3. \A t \in Segments :
            \/ t = s /\ at'[t] \in {"invoke", "done"}
            \/ at[t] = "none" /\ at'[t] = "begin"
            \/ at'[t] = at[t]
      BY <2>3, <3>2 DEF MergeSort, TypeOK
    <3>4. at[s] = "begin" /\ UNCHANGED <<elem_q, data, input, locals>>
      BY <2>3 DEF MergeSort
    <3>. QED
      BY <2>1, <2>2, <3>1, <3>3, <3>4
  <2>4. CASE Join(s)
    <3>1. at' \in [Segments -> Places]
      BY <2>4 DEF Join, TypeOK, Places
    <3>2. \A t \in Segments : \/ t = s /\ at'[t] = "merge" /\ at[t] = "invoke"
                              \/ at'[t] = at[t]
      BY <2>4 DEF Join, TypeOK
    <3>3. UNCHANGED <<elem_q, data, input, locals>>
      BY <2>4 DEF Join
    <3>. QED
      BY <2>1, <2>2, <3>1, <3>2, <3>3
  <2>5. CASE Merged(s)
    <3>1. at' \in [Segments -> Places]
      BY <2>5 DEF Merged, TypeOK, Places
    <3>2. \A t \in Segments : \/ t = s /\ at'[t] = "copy" /\ at[t] = "merge"
                              \/ at'[t] = at[t]
      BY <2>5 DEF Merged, TypeOK
    <3>3. UNCHANGED <<elem_q, data, input, locals>>
      BY <2>5 DEF Merged
    <3>4. Len(sorted_data[s]) = Length(s)
      <4>1. first_begin[s] = mid(s) + 1 /\ second_begin[s] = right(s) + 1
        BY <2>0, <2>5 DEF Merged, FirstIsNext, HasFirst, HasSecond
      <4>2. Len(sorted_data[s])
              = (first_begin[s] - left(s)) + (second_begin[s] - (mid(s) + 1))
        BY DEF Locals
      <4>. QED
        BY <2>0, <4>1, <4>2, SMTT(30)
    <3>. QED
      BY <2>1, <2>2, <3>1, <3>2, <3>3, <3>4
  <2>6. CASE Return(s)
    <3>1. at' \in [Segments -> Places]
      BY <2>6 DEF Return, TypeOK, Places
    <3>2. \A t \in Segments : \/ t = s /\ at'[t] = "done" /\ at[t] = "copy"
                              \/ at'[t] = at[t]
      BY <2>6 DEF Return, TypeOK
    <3>3. UNCHANGED <<elem_q, data, input, locals>>
      BY <2>6 DEF Return
    <3>. QED
      BY <2>1, <2>2, <3>1, <3>2, <3>3
  <2>7. CASE Copy(s)
    <3>1. /\ left(s) + copied[s] \in Indices
          /\ sorted_data[s][copied[s] + 1] \in Values
      <4>1. copied[s] < Len(sorted_data[s]) /\ Len(sorted_data[s]) <= Length(s)
        BY <2>7 DEF Copy, TypeOK
      <4>2. copied[s] + 1 \in 1..Len(sorted_data[s])
        BY <2>0, <4>1, SMTT(30)
      <4>3. left(s) + copied[s] \in Indices
        <5>1. copied[s] < right(s) - left(s) + 1
          BY <2>0, <4>1
        <5>. QED
          BY <2>0, <5>1, SMTT(30) DEF Indices
      <4>. QED
        BY <2>0, <4>2, <4>3
    <3>2. data' \in [Indices -> Values] /\ copied' \in [Segments -> Nat]
      BY <2>0, <2>7, <3>1, SMTT(30) DEF Copy, TypeOK
    <3>3. UNCHANGED <<elem_q, input, at, first_begin, second_begin, sorted_data>>
      BY <2>7 DEF Copy
    <3>4. TypeOK'
      BY <3>2, <3>3 DEF TypeOK
    <3>5. /\ copied'[s] = copied[s] + 1 /\ copied'[s] <= Len(sorted_data[s])
          /\ at[s] = "copy"
          /\ \A t \in Segments : t # s => copied'[t] = copied[t]
      BY <2>0, <2>7 DEF Copy, TypeOK
    <3>6. Locals'
      BY <3>3, <3>5 DEF Locals
    <3>. QED
      BY <3>4, <3>6
  <2>8. CASE TakeFirst(s) \/ TakeSecond(s)
    <3>1. PICK x \in Values :
            /\ at[s] = "merge"
            /\ sorted_data' = [sorted_data EXCEPT ![s] = Append(@, x)]
            /\ \/ /\ first_begin[s] <= mid(s)
                  /\ first_begin' = [first_begin EXCEPT ![s] = @ + 1]
                  /\ second_begin' = second_begin
               \/ /\ second_begin[s] <= right(s)
                  /\ second_begin' = [second_begin EXCEPT ![s] = @ + 1]
                  /\ first_begin' = first_begin
            /\ UNCHANGED <<elem_q, data, input, at, copied>>
      <4>1. CASE TakeFirst(s)
        <5>1. first_begin[s] \in Indices
          BY <2>0, <4>1 DEF TakeFirst, FirstIsNext, HasFirst, Indices
        <5>2. data[first_begin[s]] \in Values
          BY <5>1 DEF TypeOK
        <5>. QED
          BY <4>1, <5>2 DEF TakeFirst, FirstIsNext, HasFirst
      <4>2. CASE TakeSecond(s)
        <5>1. second_begin[s] \in Indices
          BY <2>0, <4>2 DEF TakeSecond, HasSecond, Indices
        <5>2. data[second_begin[s]] \in Values
          BY <5>1 DEF TypeOK
        <5>. QED
          BY <4>2, <5>2 DEF TakeSecond, HasSecond
      <4>. QED
        BY <2>8, <4>1, <4>2
    <3>2. /\ Append(sorted_data[s], x) \in Seq(Values)
          /\ Len(Append(sorted_data[s], x)) = Len(sorted_data[s]) + 1
      BY <2>0
    <3>3. /\ sorted_data' \in [Segments -> Seq(Values)]
          /\ sorted_data'[s] = Append(sorted_data[s], x)
          /\ \A t \in Segments : t # s => sorted_data'[t] = sorted_data[t]
      BY <3>1, <3>2 DEF Locals
    <3>4. /\ first_begin' \in [Segments -> Int] /\ second_begin' \in [Segments -> Int]
          /\ first_begin'[s] \in left(s)..(mid(s) + 1)
          /\ second_begin'[s] \in (mid(s) + 1)..(right(s) + 1)
          /\ first_begin'[s] + second_begin'[s] = first_begin[s] + second_begin[s] + 1
          /\ \A t \in Segments : t # s => /\ first_begin'[t] = first_begin[t]
                                          /\ second_begin'[t] = second_begin[t]
      <4>0. first_begin \in [Segments -> Int] /\ second_begin \in [Segments -> Int]
        BY DEF Locals
      <4>1. CASE /\ first_begin[s] <= mid(s)
                 /\ first_begin' = [first_begin EXCEPT ![s] = @ + 1]
                 /\ second_begin' = second_begin
        <5>1. first_begin'[s] = first_begin[s] + 1 /\ first_begin[s] + 1 \in Int
          BY <2>0, <4>0, <4>1
        <5>2. first_begin' \in [Segments -> Int] /\ second_begin' \in [Segments -> Int]
          BY <4>0, <4>1, <5>1
        <5>3. /\ first_begin'[s] \in left(s)..(mid(s) + 1)
              /\ second_begin'[s] \in (mid(s) + 1)..(right(s) + 1)
              /\ first_begin'[s] + second_begin'[s] = first_begin[s] + second_begin[s] + 1
          <6>1. first_begin[s] \in Int /\ second_begin[s] \in Int
            BY <4>0
          <6>2. second_begin'[s] = second_begin[s] /\ first_begin[s] <= mid(s)
            BY <4>1
          <6>. QED
            BY <2>0, <5>1, <6>1, <6>2, SMTT(60)
        <5>. QED
          BY <4>0, <4>1, <5>2, <5>3
      <4>2. CASE /\ second_begin[s] <= right(s)
                 /\ second_begin' = [second_begin EXCEPT ![s] = @ + 1]
                 /\ first_begin' = first_begin
        <5>1. second_begin'[s] = second_begin[s] + 1 /\ second_begin[s] + 1 \in Int
          BY <2>0, <4>0, <4>2
        <5>. QED
          BY <2>0, <4>0, <4>2, <5>1, SMTT(30)
      <4>. QED
        BY <3>1, <4>1, <4>2
    <3>5. Len(sorted_data[s]) = (first_begin[s] - left(s)) + (second_begin[s] - (mid(s) + 1))
      BY DEF Locals
    <3>6. Len(sorted_data'[s])
            = (first_begin'[s] - left(s)) + (second_begin'[s] - (mid(s) + 1))
      <4>1. Len(sorted_data'[s]) = Len(sorted_data[s]) + 1
        BY <3>2, <3>3
      <4>2. /\ first_begin'[s] \in Int /\ second_begin'[s] \in Int
            /\ first_begin[s] \in Int /\ second_begin[s] \in Int
            /\ left(s) \in Int /\ mid(s) \in Int /\ Len(sorted_data[s]) \in Int
            /\ first_begin'[s] + second_begin'[s] = first_begin[s] + second_begin[s] + 1
        BY <2>0, <3>4
      <4>. DEFINE n == Len(sorted_data[s])
                  m == Len(sorted_data'[s])
                  f == first_begin[s]
                  g == second_begin[s]
                  p == first_begin'[s]
                  q == second_begin'[s]
                  l == left(s)
                  c == mid(s)
      <4>3. /\ n \in Int /\ f \in Int /\ g \in Int /\ p \in Int /\ q \in Int
            /\ l \in Int /\ c \in Int
            /\ n = (f - l) + (g - (c + 1)) /\ m = n + 1 /\ p + q = f + g + 1
        BY <3>5, <4>1, <4>2
      <4>. HIDE DEF n, m, f, g, p, q, l, c
      <4>4. m = (p - l) + (q - (c + 1))
        BY <4>3
      <4>. QED
        BY <4>4 DEF m, p, q, l, c
    <3>7. Len(sorted_data'[s]) <= Length(s)
      BY <2>0, <3>4, <3>6
    <3>8. TypeOK'
      BY <3>1, <3>2, <3>3, <3>4, <3>7 DEF TypeOK
    <3>9. copied[s] <= Len(sorted_data'[s])
      BY <2>0, <3>2, <3>3, SMTT(30) DEF Locals
    <3>10. Locals'
      BY <3>1, <3>3, <3>4, <3>6, <3>9 DEF Locals
    <3>. QED
      BY <3>8, <3>10
  <2>. QED
    BY <1>2, <2>3, <2>4, <2>5, <2>6, <2>7, <2>8 DEF Step
<1>. QED
  BY <1>1, <1>2 DEF Next

-------------------------------------------------------------------------------
(***************************************************************************)
(* Counting the elements that are v.                                       *)
(***************************************************************************)

Where(d, a, b, v) == {i \in a..b : d[i] = v}

LEMMA NType ==
  ASSUME NEW d, NEW a \in Int, NEW b \in Int, NEW v
  PROVE  IsFiniteSet(Where(d, a, b, v)) /\ N(d, a, b, v) \in Nat
<1>1. IsFiniteSet(a..b)
  BY FS_Interval
<1>2. Where(d, a, b, v) \subseteq a..b
  BY DEF Where
<1>3. IsFiniteSet(Where(d, a, b, v))
  BY <1>1, <1>2, FS_Subset
<1>4. N(d, a, b, v) = Cardinality(Where(d, a, b, v))
  BY DEF N, Where
<1>. QED
  BY <1>3, <1>4, FS_CardinalityType

\* Between two ends that have crossed there is nothing.
LEMMA NNone ==
  ASSUME NEW d, NEW a \in Int, NEW b \in Int, NEW v, b < a
  PROVE  N(d, a, b, v) = 0
<1>1. {i \in a..b : d[i] = v} = {}
  OBVIOUS
<1>. QED
  BY <1>1, FS_EmptySet DEF N

LEMMA NSame ==
  ASSUME NEW d, NEW e, NEW a \in Int, NEW b \in Int, NEW v,
         \A i \in a..b : d[i] = e[i]
  PROVE  N(d, a, b, v) = N(e, a, b, v)
<1>1. {i \in a..b : d[i] = v} = {i \in a..b : e[i] = v}
  OBVIOUS
<1>. QED
  BY <1>1 DEF N

LEMMA NSplit ==
  ASSUME NEW d, NEW a \in Int, NEW b \in Int, NEW c \in Int, NEW v,
         a <= b + 1, b <= c
  PROVE  N(d, a, c, v) = N(d, a, b, v) + N(d, b + 1, c, v)
<1>. DEFINE A == Where(d, a, b, v)
            B == Where(d, b + 1, c, v)
<1>1. IsFiniteSet(A) /\ IsFiniteSet(B)
  BY NType
<1>2. Where(d, a, c, v) = A \cup B
  <2>1. a..c = (a..b) \cup ((b + 1)..c)
    OBVIOUS
  <2>. QED
    BY <2>1 DEF Where
<1>3. A \cap B = {}
  BY DEF Where
<1>4. Cardinality(A) = N(d, a, b, v) /\ Cardinality(B) = N(d, b + 1, c, v)
  BY DEF N, Where
<1>5. Cardinality(A \cup B) = N(d, a, c, v)
  BY <1>2 DEF N, Where
<1>. HIDE DEF A, B
<1>6. Cardinality(A \cap B) = 0
  BY <1>3, FS_EmptySet
<1>7. Cardinality(A \cup B) = Cardinality(A) + Cardinality(B) - Cardinality(A \cap B)
  BY <1>1, FS_Union
<1>8. N(d, a, b, v) \in Int /\ N(d, b + 1, c, v) \in Int
  BY NType
<1>. QED
  BY <1>4, <1>5, <1>6, <1>7, <1>8

LEMMA NOne ==
  ASSUME NEW d, NEW a \in Int, NEW v
  PROVE  N(d, a, a, v) = IF d[a] = v THEN 1 ELSE 0
<1>1. CASE d[a] = v
  <2>1. {i \in a..a : d[i] = v} = {a}
    BY <1>1
  <2>. QED
    BY <1>1, <2>1, FS_Singleton DEF N
<1>2. CASE d[a] # v
  <2>1. {i \in a..a : d[i] = v} = {}
    BY <1>2
  <2>. QED
    BY <1>2, <2>1, FS_EmptySet DEF N
<1>. QED
  BY <1>1, <1>2

LEMMA NNext ==
  ASSUME NEW d, NEW a \in Int, NEW b \in Int, NEW v, a <= b + 1
  PROVE  N(d, a, b + 1, v) = N(d, a, b, v) + (IF d[b + 1] = v THEN 1 ELSE 0)
<1>1. N(d, a, b + 1, v) = N(d, a, b, v) + N(d, b + 1, b + 1, v)
  BY NSplit
<1>2. N(d, b + 1, b + 1, v) = IF d[b + 1] = v THEN 1 ELSE 0
  BY NOne
<1>. QED
  BY <1>1, <1>2

\* The counts ReturnsSorted speaks of.
LEMMA NCount ==
  ASSUME NEW d, NEW s, NEW v
  PROVE  Cardinality(Count(d, s, v)) = N(d, left(s), right(s), v)
BY DEF Count, Of, N

\* Taking x, which is d[c], moves one from d[a], ..., d[c] to q.
Counted(q, x, d, a, c) ==
  \A v \in Values :
    N(Append(q, x), 1, Len(q) + 1, v)
      = N(q, 1, Len(q), v) + N(d, a, c, v) - N(d, a, c - 1, v)

\* An element that is not smaller than any comes last, and is counted.
LEMMA OneTaken ==
  ASSUME NEW q \in Seq(Values), NEW x \in Values, InOrder(q),
         \A k \in 1..Len(q) : q[k] <= x,
         NEW d, NEW a \in Int, NEW c \in Int, a <= c, d[c] = x
  PROVE  InOrder(Append(q, x)) /\ Counted(q, x, d, a, c)
<1>0. Len(q) \in Nat /\ x \in Int
  OBVIOUS
<1>1. /\ Len(Append(q, x)) = Len(q) + 1
      /\ \A k \in 1..Len(q) : Append(q, x)[k] = q[k]
      /\ Append(q, x)[Len(q) + 1] = x
  OBVIOUS
<1>2. InOrder(Append(q, x))
  <2>. SUFFICES ASSUME NEW i \in 1..(Len(q) + 1), NEW j \in 1..(Len(q) + 1), i <= j
                PROVE  Append(q, x)[i] <= Append(q, x)[j]
    BY <1>1 DEF InOrder
  <2>1. CASE j = Len(q) + 1
    <3>1. CASE i = Len(q) + 1
      BY <1>0, <1>1, <2>1, <3>1
    <3>2. CASE i # Len(q) + 1
      <4>1. i \in 1..Len(q)
        BY <1>0, <3>2
      <4>. QED
        BY <1>1, <2>1, <4>1
    <3>. QED
      BY <3>1, <3>2
  <2>2. CASE j # Len(q) + 1
    <3>1. i \in 1..Len(q) /\ j \in 1..Len(q)
      BY <1>0, <2>2
    <3>. QED
      BY <1>1, <3>1 DEF InOrder
  <2>. QED
    BY <2>1, <2>2
<1>3. ASSUME NEW v \in Values
      PROVE  N(Append(q, x), 1, Len(q) + 1, v)
               = N(q, 1, Len(q), v) + N(d, a, c, v) - N(d, a, c - 1, v)
  <2>. DEFINE e == Append(q, x)
              n == Len(q)
              b == c - 1
  <2>1. n \in Nat /\ (\A k \in 1..n : e[k] = q[k]) /\ d[c] = e[n + 1]
    BY <1>0, <1>1
  <2>2. b \in Int /\ a <= b + 1 /\ b + 1 = c
    OBVIOUS
  <2>. HIDE DEF e, n, b
  <2>3. N(e, 1, n, v) = N(q, 1, n, v)
    BY <2>1, NSame
  <2>4. N(d, a, b + 1, v) = N(d, a, b, v) + (IF d[b + 1] = v THEN 1 ELSE 0)
    BY <2>2, NNext
  <2>5. 1 \in Int /\ n \in Int /\ 1 <= n + 1
    BY <2>1
  <2>6. N(e, 1, n + 1, v) = N(e, 1, n, v) + (IF e[n + 1] = v THEN 1 ELSE 0)
    BY <2>5, NNext
  <2>7. /\ N(d, a, b + 1, v) \in Nat /\ N(d, a, b, v) \in Nat
        /\ N(e, 1, n + 1, v) \in Nat /\ N(e, 1, n, v) \in Nat
    BY <2>1, <2>2, NType
  <2>8. N(e, 1, n + 1, v) = N(q, 1, n, v) + N(d, a, c, v) - N(d, a, b, v)
    BY <2>1, <2>2, <2>3, <2>4, <2>6, <2>7, SMTT(30)
  <2>. QED
    BY <2>8 DEF e, n, b
<1>. QED
  BY <1>2, <1>3 DEF Counted

-------------------------------------------------------------------------------
(***************************************************************************)
(* What the calls find and leave in the array.                             *)
(***************************************************************************)

Sorted(s) ==
  /\ IsSorted(data, s)
  /\ \A v \in Values : N(data, left(s), right(s), v) = N(input, left(s), right(s), v)

LEMMA ReturnsSortedIsSorted ==
  ReturnsSorted <=>
    \A s \in Segments :
      at[s] = "done" /\ (\A t \in Around(s) : at[t] \notin {"copy", "done"}) => Sorted(s)
BY NCount DEF ReturnsSorted, Sorted

\* While a call merges, its halves are sorted: none around them is at work.
LEMMA DoneHalves ==
  ASSUME Tree, ReturnsSorted, NEW s \in Segments, at[s] = "merge", NEW h \in Halves(s)
  PROVE  h \in Segments /\ Sorted(h)
<1>1. left(s) < right(s) /\ at[h] = "done" /\ Started(s)
  BY DEF Tree, Divided, Started
<1>2. PICK f, g \in Segments :
        /\ Halves(s) = {f, g} /\ f # g
        /\ left(f) = left(s) /\ right(f) = mid(s)
        /\ left(g) = mid(s) + 1 /\ right(g) = right(s)
  BY <1>1, HalfEnds
<1>3. h \in Segments /\ Within(h, s) /\ Apart(f, g) /\ Apart(g, f)
  BY <1>2, SegmentEnds DEF Within, Apart
<1>4. ASSUME NEW t \in Around(h) PROVE at[t] \notin {"copy", "done"}
  <2>1. t \in Segments /\ Within(h, t) /\ h # t
    BY <1>3, <1>4, OfSegments DEF Around
  <2>2. SUFFICES ASSUME at[t] \in {"copy", "done"} PROVE FALSE
    OBVIOUS
  <2>3. Started(t)
    BY <2>2 DEF Started
  <2>4. ~ Apart(s, t)
    BY <1>3, <2>1, SegmentEnds DEF Within, Apart
  <2>5. s # t /\ ~ Within(s, t)
    BY <1>1, <2>1, <2>2, <2>3 DEF Tree, Descends
  <2>6. Within(t, s)
    BY <1>1, <2>1, <2>3, <2>4, <2>5 DEF Tree, Nested
  <2>7. PICK k \in Halves(s) : Within(t, k)
    BY <1>1, <2>1, <2>3, <2>5, <2>6 DEF Tree, Descends
  <2>8. CASE k = h
    BY <1>3, <2>1, <2>7, <2>8, SameEnds
  <2>9. CASE k # h
    <3>1. k \in Segments /\ Apart(k, h)
      BY <1>2, <1>3, <2>9
    <3>. QED
      BY <1>3, <2>1, <2>7, <3>1, WithinApart
  <2>. QED
    BY <2>8, <2>9
<1>. QED
  BY <1>1, <1>3, <1>4, ReturnsSortedIsSorted

\* Where a call writes back, no other is at work.
LEMMA CopyApart ==
  ASSUME Tree, NEW u \in Segments, at[u] = "copy", NEW t \in Segments, t # u,
         at[t] \in {"begin", "merge", "copy", "done"}, at[t] = "done" => u \notin Around(t)
  PROVE  Apart(u, t)
<1>1. Started(u) /\ Started(t)
  BY DEF Started
<1>2. ~ Within(u, t)
  BY <1>1 DEF Tree, Descends
<1>3. Within(t, u) => at[t] = "done"
  BY <1>1 DEF Tree, Descends
<1>4. ~ Within(t, u)
  BY <1>3, OfSegments
<1>. QED
  BY <1>1, <1>2, <1>4 DEF Tree, Nested

\* What Copy(u) writes.
LEMMA CopyWrites ==
  ASSUME TypeOK, Tree, Locals, NEW u \in Segments, Copy(u)
  PROVE  /\ left(u) + copied[u] \in Of(u) /\ Of(u) \subseteq Indices
         /\ copied[u] + 1 \in 1..Len(sorted_data[u])
         /\ data'[left(u) + copied[u]] = sorted_data[u][copied[u] + 1]
         /\ \A i \in Indices : i # left(u) + copied[u] => data'[i] = data[i]
<1>1. /\ at[u] = "copy" /\ copied[u] < Len(sorted_data[u])
      /\ data' = [data EXCEPT ![left(u) + copied[u]] = sorted_data[u][copied[u] + 1]]
  BY DEF Copy
<1>2. /\ left(u) \in Nat /\ right(u) \in Nat /\ right(u) < MaxLength
      /\ Length(u) = right(u) - left(u) + 1
      /\ copied[u] \in Nat /\ sorted_data[u] \in Seq(Values)
  BY SegmentEnds DEF TypeOK
<1>3. Len(sorted_data[u]) = right(u) - left(u) + 1
  BY <1>1, <1>2 DEF Locals
<1>4. left(u) + copied[u] \in Of(u)
  BY <1>1, <1>2, <1>3 DEF Of
<1>5. Of(u) \subseteq Indices
  BY <1>2 DEF Of, Indices
<1>6. copied[u] + 1 \in 1..Len(sorted_data[u])
  BY <1>1, <1>2, <1>3
<1>7. data \in [Indices -> Values]
  BY DEF TypeOK
<1>. QED
  BY <1>1, <1>4, <1>5, <1>6, <1>7

\* ReturnsSorted when the array stays and what has written back has.
LEMMA ReturnsKept ==
  ASSUME ReturnsSorted, UNCHANGED <<data, input>>,
         \A t \in Segments : at[t] \in {"copy", "done"} => at'[t] \in {"copy", "done"},
         \A t \in Segments : at'[t] = "done" => at[t] = "done" \/ Sorted(t)
  PROVE  ReturnsSorted'
<1>. SUFFICES ASSUME NEW t \in Segments, at'[t] = "done",
                     \A u \in Around(t) : at'[u] \notin {"copy", "done"}
              PROVE  /\ IsSorted(data, t)
                     /\ \A v \in Values :
                          Cardinality(Count(data, t, v)) = Cardinality(Count(input, t, v))
  BY DEF ReturnsSorted
<1>1. \A u \in Around(t) : at[u] \notin {"copy", "done"}
  BY DEF Around
<1>2. CASE at[t] = "done"
  BY <1>1, <1>2 DEF ReturnsSorted
<1>3. CASE Sorted(t)
  BY <1>3, NCount DEF Sorted
<1>. QED
  BY <1>2, <1>3

LEMMA SortedKept ==
  ASSUME TypeOK, Tree, Locals, Content, ReturnsSorted, NEW s \in Segments, Step(s)
  PROVE  ReturnsSorted'
<1>0. /\ left(s) \in Nat /\ right(s) \in Nat /\ left(s) <= right(s)
      /\ Length(s) = right(s) - left(s) + 1 /\ Of(s) = left(s)..right(s)
  BY SegmentEnds DEF Of
<1>1. CASE MergeSort(s)
  <2>1. at[s] = "begin" /\ UNCHANGED <<data, input>>
    BY <1>1 DEF MergeSort
  <2>2. CASE left(s) < right(s)
    <3>1. /\ \A h \in Halves(s) : at[h] = "none" /\ at'[h] = "begin"
          /\ \A t \in Segments : t # s /\ t \notin Halves(s) => at'[t] = at[t]
          /\ at'[s] = "invoke"
      BY <1>1, <2>2, HalvesStart
    <3>2. \A t \in Segments : at[t] \in {"copy", "done"} => at'[t] = at[t]
      BY <2>1, <3>1
    <3>3. \A t \in Segments : at'[t] = "done" => at[t] = "done"
      BY <3>1
    <3>. QED
      BY <2>1, <3>2, <3>3, ReturnsKept
  <2>3. CASE ~ (left(s) < right(s))
    <3>1. at' = [at EXCEPT ![s] = "done"]
      BY <1>1, <2>3 DEF MergeSort
    <3>2. at'[s] = "done" /\ \A t \in Segments : t # s => at'[t] = at[t]
      BY <3>1 DEF TypeOK
    <3>3. left(s) = right(s)
      BY <1>0, <2>3
    <3>4. \A i \in left(s)..right(s) : data[i] = input[i]
      BY <1>0, <2>1 DEF Content, ContentOf
    <3>5. \A v \in Values : N(data, left(s), right(s), v) = N(input, left(s), right(s), v)
      BY <1>0, <3>4, NSame
    <3>6. IsSorted(data, s)
      <4>1. SUFFICES ASSUME NEW i \in Of(s), NEW j \in Of(s) PROVE data[i] <= data[j]
        BY DEF IsSorted
      <4>2. i = j /\ i \in Indices
        BY <1>0, <3>3, SegmentEnds DEF Indices
      <4>3. data[i] \in Int
        BY <4>2 DEF TypeOK
      <4>. QED
        BY <4>2, <4>3
    <3>. QED
      BY <2>1, <3>2, <3>5, <3>6, ReturnsKept DEF Sorted
  <2>. QED
    BY <2>2, <2>3
<1>2. CASE Join(s) \/ Merged(s)
  <2>1. PICK p \in {"merge", "copy"} : at' = [at EXCEPT ![s] = p]
    BY <1>2 DEF Join, Merged
  <2>2. UNCHANGED <<data, input>> /\ at[s] \in {"invoke", "merge"}
    BY <1>2 DEF Join, Merged
  <2>3. at'[s] = p /\ \A t \in Segments : t # s => at'[t] = at[t]
    BY <2>1 DEF TypeOK
  <2>4. \A t \in Segments : at[t] \in {"copy", "done"} => at'[t] \in {"copy", "done"}
    BY <2>2, <2>3
  <2>5. \A t \in Segments : at'[t] = "done" => at[t] = "done"
    BY <2>3
  <2>. QED
    BY <2>2, <2>4, <2>5, ReturnsKept
<1>3. CASE Return(s)
  <2>1. /\ at[s] = "copy" /\ copied[s] = Len(sorted_data[s])
        /\ at' = [at EXCEPT ![s] = "done"] /\ UNCHANGED <<data, input>>
    BY <1>3 DEF Return
  <2>2. at'[s] = "done" /\ \A t \in Segments : t # s => at'[t] = at[t]
    BY <2>1 DEF TypeOK
  <2>3. copied[s] = Length(s) /\ Len(sorted_data[s]) = Length(s)
    BY <2>1 DEF Locals
  <2>4. /\ InOrder(sorted_data[s])
        /\ \A k \in 1..Length(s) : data[left(s) + k - 1] = sorted_data[s][k]
        /\ \A v \in Values :
             /\ N(sorted_data[s], 1, Length(s), v) = N(input, left(s), right(s), v)
             /\ N(data, left(s), left(s) + Length(s) - 1, v) = N(sorted_data[s], 1, Length(s), v)
    BY <2>1, <2>3 DEF Content, ContentOf
  <2>5. left(s) + Length(s) - 1 = right(s)
    BY <1>0
  <2>6. IsSorted(data, s)
    <3>1. SUFFICES ASSUME NEW i \in Of(s), NEW j \in Of(s), i <= j PROVE data[i] <= data[j]
      BY DEF IsSorted
    <3>. DEFINE k == i - left(s) + 1
                l == j - left(s) + 1
    <3>2. /\ k \in 1..Length(s) /\ l \in 1..Length(s) /\ k <= l
          /\ left(s) + k - 1 = i /\ left(s) + l - 1 = j
      BY <1>0, <3>1
    <3>. HIDE DEF k, l
    <3>3. data[i] = sorted_data[s][k] /\ data[j] = sorted_data[s][l]
      BY <2>4, <3>2
    <3>4. sorted_data[s][k] <= sorted_data[s][l]
      BY <2>3, <2>4, <3>2 DEF InOrder
    <3>. QED
      BY <3>3, <3>4
  <2>7. Sorted(s)
    BY <2>4, <2>5, <2>6 DEF Sorted
  <2>. QED
    BY <2>1, <2>2, <2>7, ReturnsKept
<1>4. CASE TakeFirst(s) \/ TakeSecond(s)
  <2>1. UNCHANGED <<data, input, at>>
    BY <1>4 DEF TakeFirst, TakeSecond
  <2>. QED
    BY <2>1 DEF ReturnsSorted
<1>5. CASE Copy(s)
  <2>1. UNCHANGED <<input, at>> /\ at[s] = "copy"
    BY <1>5 DEF Copy
  <2>. SUFFICES ASSUME NEW t \in Segments, at[t] = "done",
                       \A u \in Around(t) : at[u] \notin {"copy", "done"}
                PROVE  /\ IsSorted(data', t)
                       /\ \A v \in Values :
                            Cardinality(Count(data', t, v)) = Cardinality(Count(input, t, v))
    BY <2>1 DEF ReturnsSorted
  <2>2. Apart(s, t)
    BY <2>1, CopyApart
  <2>3. \A i \in Of(t) : data'[i] = data[i]
    <3>1. Of(t) \cap Of(s) = {} /\ Of(t) \subseteq Indices
      <4>1. Of(s) \cap Of(t) = {}
        BY <2>2, OfSegments
      <4>2. Of(t) \subseteq Indices
        BY SegmentEnds DEF Of, Indices
      <4>. QED
        BY <4>1, <4>2
    <3>. QED
      BY <1>5, <3>1, CopyWrites
  <2>4. Sorted(t)
    BY ReturnsSortedIsSorted
  <2>5. \A v \in Values : Count(data', t, v) = Count(data, t, v)
    BY <2>3 DEF Count
  <2>. QED
    BY <2>3, <2>4, <2>5, NCount DEF Sorted, IsSorted
<1>. QED
  BY <1>1, <1>2, <1>3, <1>4, <1>5 DEF Step

\* A call that stays where it is, on elements and with locals that stay.
LEMMA ContentSame ==
  ASSUME TypeOK, Locals, NEW t \in Segments, ContentOf(t), at'[t] = at[t], input' = input,
         /\ first_begin'[t] = first_begin[t] /\ second_begin'[t] = second_begin[t]
         /\ sorted_data'[t] = sorted_data[t] /\ copied'[t] = copied[t],
         at[t] \in {"begin", "merge", "copy"} => \A i \in Of(t) : data'[i] = data[i]
  PROVE  ContentOf(t)'
<1>0. /\ left(t) \in Nat /\ right(t) \in Nat /\ mid(t) \in Nat
      /\ left(t) <= mid(t) /\ mid(t) <= right(t)
      /\ Length(t) = right(t) - left(t) + 1 /\ Of(t) = left(t)..right(t)
      /\ first_begin[t] \in left(t)..(mid(t) + 1)
      /\ second_begin[t] \in (mid(t) + 1)..(right(t) + 1)
      /\ copied[t] \in Nat /\ copied[t] <= Len(sorted_data[t])
      /\ sorted_data[t] \in Seq(Values) /\ Len(sorted_data[t]) <= Length(t)
      /\ Len(sorted_data[t]) \in Nat
  BY SegmentEnds DEF Of, TypeOK, Locals
<1>1. ASSUME at[t] = "merge"
      PROVE  /\ \A i \in Rest(t) : data'[i] = data[i]
             /\ \A v : /\ N(data', left(t), first_begin[t] - 1, v)
                            = N(data, left(t), first_begin[t] - 1, v)
                       /\ N(data', mid(t) + 1, second_begin[t] - 1, v)
                            = N(data, mid(t) + 1, second_begin[t] - 1, v)
  <2>1. \A i \in left(t)..right(t) : data'[i] = data[i]
    BY <1>0, <1>1
  <2>2. /\ Rest(t) \subseteq left(t)..right(t)
        /\ left(t)..(first_begin[t] - 1) \subseteq left(t)..right(t)
        /\ (mid(t) + 1)..(second_begin[t] - 1) \subseteq left(t)..right(t)
    BY <1>0, SMTT(30) DEF Rest
  <2>3. left(t) \in Int /\ first_begin[t] - 1 \in Int /\ mid(t) + 1 \in Int /\ second_begin[t] - 1 \in Int
    BY <1>0
  <2>4. /\ \A i \in left(t)..(first_begin[t] - 1) : data'[i] = data[i]
        /\ \A i \in (mid(t) + 1)..(second_begin[t] - 1) : data'[i] = data[i]
    BY <2>1, <2>2
  <2>5. ASSUME NEW v
        PROVE  /\ N(data', left(t), first_begin[t] - 1, v)
                     = N(data, left(t), first_begin[t] - 1, v)
               /\ N(data', mid(t) + 1, second_begin[t] - 1, v)
                     = N(data, mid(t) + 1, second_begin[t] - 1, v)
    BY <2>3, <2>4, NSame
  <2>. QED
    BY <2>1, <2>2, <2>5
<1>2. ASSUME at[t] = "copy"
      PROVE  /\ \A k \in 1..copied[t] : data'[left(t) + k - 1] = data[left(t) + k - 1]
             /\ \A v : N(data', left(t), left(t) + copied[t] - 1, v)
                            = N(data, left(t), left(t) + copied[t] - 1, v)
  <2>1. \A i \in left(t)..right(t) : data'[i] = data[i]
    BY <1>0, <1>2
  <2>2. left(t)..(left(t) + copied[t] - 1) \subseteq left(t)..right(t)
    BY <1>0
  <2>3. left(t) \in Int /\ left(t) + copied[t] - 1 \in Int
    BY <1>0
  <2>4. \A k \in 1..copied[t] : left(t) + k - 1 \in left(t)..right(t)
    BY <1>0, SMTT(30)
  <2>5. \A i \in left(t)..(left(t) + copied[t] - 1) : data'[i] = data[i]
    BY <2>1, <2>2
  <2>6. ASSUME NEW v
        PROVE  N(data', left(t), left(t) + copied[t] - 1, v)
                 = N(data, left(t), left(t) + copied[t] - 1, v)
    <3>. DEFINE b == left(t) + copied[t] - 1
    <3>1. b \in Int /\ left(t) \in Int /\ \A i \in left(t)..b : data'[i] = data[i]
      BY <2>3, <2>5
    <3>. HIDE DEF b
    <3>2. N(data', left(t), b, v) = N(data, left(t), b, v)
      BY <3>1, NSame
    <3>. QED
      BY <3>2 DEF b
  <2>. QED
    BY <2>1, <2>4, <2>6
<1>3. Rest(t)' = Rest(t)
  BY DEF Rest
<1>4. at[t] = "begin" => \A i \in Of(t) : data'[i] = input'[i]
  BY DEF ContentOf
<1>5. at[t] = "merge" =>
        /\ \A k \in 1..Len(sorted_data[t]), i \in Rest(t) : sorted_data[t][k] <= data'[i]
        /\ \A v \in Values :
             N(sorted_data[t], 1, Len(sorted_data[t]), v) =
               N(data', left(t), first_begin[t] - 1, v)
                 + N(data', mid(t) + 1, second_begin[t] - 1, v)
  BY <1>1 DEF ContentOf
<1>6. at[t] = "copy" =>
        /\ \A k \in 1..copied[t] : data'[left(t) + k - 1] = sorted_data[t][k]
        /\ \A v \in Values :
             /\ N(sorted_data[t], 1, Len(sorted_data[t]), v) = N(input', left(t), right(t), v)
             /\ N(data', left(t), left(t) + copied[t] - 1, v) = N(sorted_data[t], 1, copied[t], v)
  BY <1>2 DEF ContentOf
<1>7. at[t] \in {"merge", "copy"} => InOrder(sorted_data[t])
  BY DEF ContentOf
<1>. QED
  BY <1>3, <1>4, <1>5, <1>6, <1>7 DEF ContentOf

\* Merge takes the next element of a half: no element left is smaller.
LEMMA TakesNext ==
  ASSUME TypeOK, Tree, Locals, ReturnsSorted, NEW s \in Segments, at[s] = "merge"
  PROVE  /\ FirstIsNext(s) =>
              \A i \in Rest(s) : data[first_begin[s]] <= data[i]
         /\ HasSecond(s) /\ ~ FirstIsNext(s) =>
              \A i \in Rest(s) : data[second_begin[s]] <= data[i]
<1>0. /\ left(s) \in Nat /\ right(s) \in Nat /\ mid(s) \in Nat
      /\ left(s) <= mid(s) /\ mid(s) <= right(s) /\ right(s) < MaxLength
      /\ first_begin[s] \in left(s)..(mid(s) + 1)
      /\ second_begin[s] \in (mid(s) + 1)..(right(s) + 1)
      /\ first_begin[s] \in Int /\ second_begin[s] \in Int
  BY SegmentEnds DEF TypeOK
<1>1. PICK f, g \in Segments :
        /\ Halves(s) = {f, g}
        /\ left(f) = left(s) /\ right(f) = mid(s)
        /\ left(g) = mid(s) + 1 /\ right(g) = right(s)
  BY HalfEnds DEF Tree, Divided
<1>2. IsSorted(data, f) /\ IsSorted(data, g)
  BY <1>1, DoneHalves DEF Sorted
<1>3. /\ \A i \in first_begin[s]..mid(s) : HasFirst(s) => data[first_begin[s]] <= data[i]
      /\ \A i \in second_begin[s]..right(s) : HasSecond(s) => data[second_begin[s]] <= data[i]
  <2>1. /\ first_begin[s]..mid(s) \subseteq Of(f)
        /\ second_begin[s]..right(s) \subseteq Of(g)
    BY <1>0, <1>1 DEF Of
  <2>2. /\ HasFirst(s) => first_begin[s] \in Of(f)
        /\ HasSecond(s) => second_begin[s] \in Of(g)
    BY <1>0, <1>1 DEF Of, HasFirst, HasSecond
  <2>3. /\ \A i \in first_begin[s]..mid(s) : first_begin[s] <= i
        /\ \A i \in second_begin[s]..right(s) : second_begin[s] <= i
    BY <1>0
  <2>. QED
    BY <1>2, <2>1, <2>2, <2>3 DEF IsSorted
<1>4. \A i \in left(s)..right(s) : data[i] \in Int
  <2>1. left(s)..right(s) \subseteq Indices
    BY <1>0 DEF Indices
  <2>. QED
    BY <2>1 DEF TypeOK
<1>5. /\ first_begin[s]..mid(s) \subseteq left(s)..right(s)
      /\ second_begin[s]..right(s) \subseteq left(s)..right(s)
  BY <1>0
<1>6. ASSUME FirstIsNext(s), NEW i \in Rest(s) PROVE data[first_begin[s]] <= data[i]
  <2>1. CASE i \in first_begin[s]..mid(s)
    BY <1>3, <1>6, <2>1 DEF FirstIsNext
  <2>2. CASE i \in second_begin[s]..right(s)
    <3>1. HasFirst(s) /\ HasSecond(s)
      BY <1>0, <1>6, <2>2 DEF FirstIsNext, HasSecond
    <3>2. data[first_begin[s]] <= data[second_begin[s]] /\ data[second_begin[s]] <= data[i]
      BY <1>3, <1>6, <2>2, <3>1 DEF FirstIsNext
    <3>3. first_begin[s] \in left(s)..right(s) /\ second_begin[s] \in left(s)..right(s)
      BY <1>0, <3>1 DEF HasFirst, HasSecond
    <3>. QED
      BY <1>4, <1>5, <2>2, <3>2, <3>3
  <2>. QED
    BY <1>6, <2>1, <2>2 DEF Rest
<1>7. ASSUME HasSecond(s), ~ FirstIsNext(s), NEW i \in Rest(s)
      PROVE  data[second_begin[s]] <= data[i]
  <2>1. CASE i \in second_begin[s]..right(s)
    BY <1>3, <1>7, <2>1
  <2>2. CASE i \in first_begin[s]..mid(s)
    <3>1. HasFirst(s)
      BY <1>0, <2>2 DEF HasFirst
    <3>2. first_begin[s] \in left(s)..right(s) /\ second_begin[s] \in left(s)..right(s)
      BY <1>0, <1>7, <3>1 DEF HasFirst, HasSecond
    <3>3. ~ (data[first_begin[s]] <= data[second_begin[s]]) /\ data[first_begin[s]] <= data[i]
      BY <1>3, <1>7, <2>2, <3>1 DEF FirstIsNext
    <3>. QED
      BY <1>4, <1>5, <2>2, <3>2, <3>3
  <2>. QED
    BY <1>7, <2>1, <2>2 DEF Rest
<1>. QED
  BY <1>6, <1>7

LEMMA TakeKeepsContent ==
  ASSUME TypeOK, Tree, Locals, Content, ReturnsSorted, TypeOK',
         NEW s \in Segments, TakeFirst(s) \/ TakeSecond(s)
  PROVE  ContentOf(s)'
<1>0. /\ left(s) \in Nat /\ right(s) \in Nat /\ mid(s) \in Nat
      /\ left(s) \in Int /\ mid(s) + 1 \in Int
      /\ left(s) <= mid(s) /\ mid(s) <= right(s) /\ right(s) < MaxLength
      /\ first_begin[s] \in left(s)..(mid(s) + 1)
      /\ second_begin[s] \in (mid(s) + 1)..(right(s) + 1)
      /\ sorted_data[s] \in Seq(Values) /\ Len(sorted_data[s]) \in Nat
  BY SegmentEnds, SMTT(30) DEF TypeOK
<1>1. at[s] = "merge" /\ UNCHANGED <<data, input, at, copied>>
  BY DEF TakeFirst, TakeSecond
\* What is taken, from the first half or the second.
<1>2. PICK c \in Int :
        /\ c \in Indices /\ c \in Rest(s)
        /\ \A i \in Rest(s) : data[c] <= data[i]
        /\ sorted_data'[s] = Append(sorted_data[s], data[c])
        /\ \/ /\ c = first_begin[s] /\ left(s) <= c
              /\ first_begin'[s] = c + 1 /\ second_begin'[s] = second_begin[s]
           \/ /\ c = second_begin[s] /\ mid(s) + 1 <= c
              /\ second_begin'[s] = c + 1 /\ first_begin'[s] = first_begin[s]
  <2>1. CASE TakeFirst(s)
    <3>1. FirstIsNext(s) /\ first_begin[s] <= mid(s)
      BY <2>1 DEF TakeFirst, FirstIsNext, HasFirst
    <3>2. first_begin[s] \in Indices /\ first_begin[s] \in Rest(s) /\ left(s) <= first_begin[s]
      BY <1>0, <3>1 DEF Indices, Rest
    <3>3. \A i \in Rest(s) : data[first_begin[s]] <= data[i]
      BY <1>1, <3>1, TakesNext
    <3>4. /\ sorted_data'[s] = Append(sorted_data[s], data[first_begin[s]])
          /\ first_begin'[s] = first_begin[s] + 1 /\ second_begin'[s] = second_begin[s]
      BY <2>1 DEF TakeFirst, Locals
    <3>5. first_begin[s] \in Int
      BY <1>0
    <3>. QED
      BY <3>2, <3>3, <3>4, <3>5
  <2>2. CASE TakeSecond(s)
    <3>1. HasSecond(s) /\ ~ FirstIsNext(s) /\ second_begin[s] <= right(s)
      BY <2>2 DEF TakeSecond, HasSecond
    <3>2. /\ second_begin[s] \in Indices /\ second_begin[s] \in Rest(s)
          /\ mid(s) + 1 <= second_begin[s]
      BY <1>0, <3>1 DEF Indices, Rest
    <3>3. \A i \in Rest(s) : data[second_begin[s]] <= data[i]
      BY <1>1, <3>1, TakesNext
    <3>4. /\ sorted_data'[s] = Append(sorted_data[s], data[second_begin[s]])
          /\ second_begin'[s] = second_begin[s] + 1 /\ first_begin'[s] = first_begin[s]
      BY <2>2 DEF TakeSecond, Locals
    <3>5. second_begin[s] \in Int
      BY <1>0
    <3>. QED
      BY <3>2, <3>3, <3>4, <3>5
  <2>. QED
    BY <2>1, <2>2
<1>. DEFINE q == sorted_data[s]
            x == data[c]
            n == Len(sorted_data[s])
<1>3. x \in Values /\ q \in Seq(Values) /\ n \in Nat
  BY <1>0, <1>2 DEF TypeOK
<1>4. /\ InOrder(q) /\ \A k \in 1..Len(q), i \in Rest(s) : q[k] <= data[i]
      /\ \A v \in Values : N(q, 1, n, v) = N(data, left(s), first_begin[s] - 1, v)
                                             + N(data, mid(s) + 1, second_begin[s] - 1, v)
  BY <1>1 DEF Content, ContentOf
<1>5. \A k \in 1..Len(q) : q[k] <= x
  BY <1>2, <1>4
<1>6. Len(sorted_data'[s]) = n + 1
  BY <1>2, <1>3
<1>7. InOrder(Append(q, x))
  <2>1. c <= c /\ data[c] = x
    BY <1>2
  <2>. HIDE DEF q, x, n
  <2>. QED
    BY <1>3, <1>4, <1>5, <2>1, OneTaken
<1>8. \A k \in 1..(n + 1), i \in Rest(s)' : Append(q, x)[k] <= data[i]
  <2>1. Rest(s)' \subseteq Rest(s)
    BY <1>0, <1>2 DEF Rest
  <2>2. \A k \in 1..(n + 1) : (k \in 1..n /\ Append(q, x)[k] = q[k]) \/ Append(q, x)[k] = x
    BY <1>3
  <2>. QED
    BY <1>2, <1>4, <2>1, <2>2
<1>9. ASSUME NEW v \in Values
      PROVE  N(Append(q, x), 1, n + 1, v) = N(data, left(s), first_begin'[s] - 1, v)
                                              + N(data, mid(s) + 1, second_begin'[s] - 1, v)
  <2>1. PICK a \in {left(s), mid(s) + 1} :
          /\ a <= c
          /\ \/ /\ a = left(s) /\ first_begin[s] - 1 = c - 1 /\ first_begin'[s] - 1 = c
                /\ second_begin'[s] = second_begin[s]
             \/ /\ a = mid(s) + 1 /\ second_begin[s] - 1 = c - 1 /\ second_begin'[s] - 1 = c
                /\ first_begin'[s] = first_begin[s]
    BY <1>2
  <2>2. a \in Int /\ a <= c /\ data[c] = x /\ InOrder(q)
    BY <1>0, <1>4, <2>1
  <2>. HIDE DEF q, x
  <2>3. Counted(q, x, data, a, c)
    BY <1>3, <1>5, <2>2, OneTaken
  <2>4. Len(q) = n
    BY DEF q
  <2>5. N(Append(q, x), 1, n + 1, v) = N(q, 1, n, v) + N(data, a, c, v) - N(data, a, c - 1, v)
    BY <2>3, <2>4 DEF Counted
  <2>6. /\ N(q, 1, n, v) \in Int /\ N(data, a, c, v) \in Int /\ N(data, a, c - 1, v) \in Int
        /\ N(data, left(s), first_begin[s] - 1, v) \in Int
        /\ N(data, mid(s) + 1, second_begin[s] - 1, v) \in Int
    <3>1. /\ 1 \in Int /\ n \in Int /\ c - 1 \in Int
          /\ first_begin[s] - 1 \in Int /\ second_begin[s] - 1 \in Int
      BY <1>0, <1>3, SMTT(30)
    <3>2. \A d, b, e, w : b \in Int /\ e \in Int => N(d, b, e, w) \in Int
      BY NType
    <3>. QED
      BY <1>0, <2>2, <3>1, <3>2
  <2>7. N(q, 1, n, v) = N(data, left(s), first_begin[s] - 1, v)
                          + N(data, mid(s) + 1, second_begin[s] - 1, v)
    BY <1>4
  <2>8. CASE /\ a = left(s) /\ first_begin[s] - 1 = c - 1 /\ first_begin'[s] - 1 = c
             /\ second_begin'[s] = second_begin[s]
    <3>1. /\ N(data, left(s), first_begin[s] - 1, v) = N(data, a, c - 1, v)
          /\ N(data, left(s), first_begin'[s] - 1, v) = N(data, a, c, v)
          /\ N(data, mid(s) + 1, second_begin'[s] - 1, v)
               = N(data, mid(s) + 1, second_begin[s] - 1, v)
      BY <2>8
    <3>. QED
      BY <2>5, <2>6, <2>7, <3>1
  <2>9. CASE /\ a = mid(s) + 1 /\ second_begin[s] - 1 = c - 1 /\ second_begin'[s] - 1 = c
             /\ first_begin'[s] = first_begin[s]
    <3>1. /\ N(data, mid(s) + 1, second_begin[s] - 1, v) = N(data, a, c - 1, v)
          /\ N(data, mid(s) + 1, second_begin'[s] - 1, v) = N(data, a, c, v)
          /\ N(data, left(s), first_begin'[s] - 1, v)
               = N(data, left(s), first_begin[s] - 1, v)
      BY <2>9
    <3>. QED
      BY <2>5, <2>6, <2>7, <3>1
  <2>. QED
    BY <2>1, <2>8, <2>9
<1>10. sorted_data'[s] = Append(q, x) /\ at'[s] = "merge" /\ data' = data
  BY <1>1, <1>2
<1>. HIDE DEF q, x, n
<1>. QED
  BY <1>6, <1>7, <1>8, <1>9, <1>10 DEF ContentOf

\* When Merge has taken all, it holds what main read, in order.
LEMMA MergedContent ==
  ASSUME TypeOK, Tree, Locals, Content, ReturnsSorted,
         NEW s \in Segments, Merged(s)
  PROVE  ContentOf(s)'
<1>0. /\ left(s) \in Int /\ right(s) \in Int /\ mid(s) \in Int /\ mid(s) + 1 \in Int
      /\ left(s) <= mid(s) + 1 /\ mid(s) <= right(s)
      /\ first_begin[s] \in left(s)..(mid(s) + 1)
      /\ second_begin[s] \in (mid(s) + 1)..(right(s) + 1)
  BY SegmentEnds DEF TypeOK
<1>1. /\ at[s] = "merge" /\ at' = [at EXCEPT ![s] = "copy"]
      /\ UNCHANGED <<data, input, locals>>
  BY DEF Merged
<1>2. at'[s] = "copy" /\ copied[s] = 0 /\ UNCHANGED <<sorted_data, copied>>
  BY <1>1 DEF TypeOK, Locals, locals
<1>3. first_begin[s] - 1 = mid(s) /\ second_begin[s] - 1 = right(s)
  BY <1>0 DEF Merged, FirstIsNext, HasFirst, HasSecond
<1>4. PICK f, g \in Segments :
        /\ Halves(s) = {f, g}
        /\ left(f) = left(s) /\ right(f) = mid(s)
        /\ left(g) = mid(s) + 1 /\ right(g) = right(s)
  BY <1>1, HalfEnds DEF Tree, Divided
<1>5. ASSUME NEW v \in Values
      PROVE  N(sorted_data[s], 1, Len(sorted_data[s]), v) = N(input, left(s), right(s), v)
  <2>1. N(sorted_data[s], 1, Len(sorted_data[s]), v)
          = N(data, left(s), mid(s), v) + N(data, mid(s) + 1, right(s), v)
    BY <1>1, <1>3 DEF Content, ContentOf
  <2>2. /\ N(data, left(s), mid(s), v) = N(input, left(s), mid(s), v)
        /\ N(data, mid(s) + 1, right(s), v) = N(input, mid(s) + 1, right(s), v)
    BY <1>1, <1>4, DoneHalves DEF Sorted
  <2>3. N(input, left(s), right(s), v)
          = N(input, left(s), mid(s), v) + N(input, mid(s) + 1, right(s), v)
    BY <1>0, NSplit
  <2>. QED
    BY <2>1, <2>2, <2>3
<1>6. \A v \in Values : N(data, left(s), left(s) + 0 - 1, v) = N(sorted_data[s], 1, 0, v)
  <2>1. left(s) + 0 - 1 \in Int /\ left(s) + 0 - 1 < left(s) /\ 0 \in Int /\ 1 \in Int /\ 0 < 1
    BY <1>0
  <2>2. \A d, b, e, v : b \in Int /\ e \in Int /\ e < b => N(d, b, e, v) = 0
    BY NNone
  <2>. QED
    BY <1>0, <2>1, <2>2
<1>7. InOrder(sorted_data[s])
  BY <1>1 DEF Content, ContentOf
<1>. QED
  BY <1>1, <1>2, <1>5, <1>6, <1>7 DEF ContentOf

LEMMA CopyKeepsContent ==
  ASSUME TypeOK, Tree, Locals, Content, NEW s \in Segments, Copy(s)
  PROVE  ContentOf(s)'
<1>0. /\ left(s) \in Int /\ copied[s] \in Nat
      /\ sorted_data[s] \in Seq(Values) /\ Len(sorted_data[s]) = Length(s)
      /\ Of(s) \subseteq Indices /\ Of(s) = left(s)..right(s)
      /\ Length(s) = right(s) - left(s) + 1 /\ right(s) \in Int
  <2>1. /\ left(s) \in Int /\ right(s) \in Int /\ Length(s) = right(s) - left(s) + 1
        /\ Of(s) \subseteq Indices
    BY SegmentEnds, CopyWrites
  <2>2. at[s] = "copy"
    BY DEF Copy
  <2>3. Len(sorted_data[s]) = Length(s)
    BY <2>2 DEF Locals
  <2>. QED
    BY <2>1, <2>3 DEF TypeOK, Of
<1>1. /\ at[s] = "copy" /\ UNCHANGED <<input, at, sorted_data>>
      /\ copied'[s] = copied[s] + 1
  BY DEF Copy, TypeOK
<1>. DEFINE q == sorted_data[s]
            p == left(s) + copied[s]
            n == copied[s]
<1>2. /\ p \in Of(s) /\ data'[p] = q[n + 1] /\ n + 1 \in 1..Len(q)
      /\ \A i \in Indices : i # p => data'[i] = data[i]
  BY CopyWrites
<1>3. /\ InOrder(q) /\ \A k \in 1..n : data[left(s) + k - 1] = q[k]
      /\ \A v \in Values : N(q, 1, Len(q), v) = N(input, left(s), right(s), v)
      /\ \A v \in Values : N(data, left(s), p - 1, v) = N(q, 1, n, v)
  <2>1. ContentOf(s)
    BY DEF Content
  <2>2. /\ InOrder(q) /\ \A k \in 1..n : data[left(s) + k - 1] = q[k]
        /\ \A v \in Values : N(q, 1, Len(q), v) = N(input, left(s), right(s), v)
        /\ \A v \in Values : N(data, left(s), left(s) + n - 1, v) = N(q, 1, n, v)
    BY <1>1, <2>1, Zenon DEF ContentOf
  <2>3. left(s) + n - 1 = p - 1
    BY <1>0
  <2>. QED
    BY <2>2, <2>3, Zenon
<1>4. \A k \in 1..n : left(s) + k - 1 \in Indices /\ left(s) + k - 1 # p
  <2>1. n <= Length(s)
    BY <1>0, <1>2
  <2>2. \A k \in 1..n : left(s) + k - 1 \in Of(s) /\ left(s) + k - 1 # p
    BY <1>0, <2>1
  <2>. QED
    BY <1>0, <2>2
<1>5. \A k \in 1..(n + 1) : data'[left(s) + k - 1] = q[k]
  <2>. SUFFICES ASSUME NEW k \in 1..(n + 1) PROVE data'[left(s) + k - 1] = q[k]
    OBVIOUS
  <2>1. CASE k = n + 1
    <3>1. left(s) + k - 1 = p
      BY <1>0, <2>1
    <3>. QED
      BY <1>2, <2>1, <3>1
  <2>2. CASE k # n + 1
    <3>1. k \in 1..n
      BY <1>0, <2>2
    <3>. QED
      BY <1>2, <1>3, <1>4, <3>1
  <2>. QED
    BY <2>1, <2>2
<1>6. ASSUME NEW v \in Values PROVE N(data', left(s), p, v) = N(q, 1, n + 1, v)
  <2>. DEFINE b == p - 1
  <2>1. b \in Int /\ left(s) <= b + 1 /\ b + 1 = p /\ n \in Int /\ 1 \in Int /\ 1 <= n + 1
    BY <1>0
  <2>2. \A i \in left(s)..b : data'[i] = data[i]
    <3>1. \A i \in left(s)..b : i \in Of(s) /\ i # p
      BY <1>0, <1>2, SMTT(30)
    <3>. QED
      BY <1>0, <1>2, <3>1
  <2>3. N(data, left(s), b, v) = N(q, 1, n, v)
    BY <1>3
  <2>. HIDE DEF b, p, n, q
  <2>4. N(data', left(s), b, v) = N(data, left(s), b, v)
    BY <1>0, <2>1, <2>2, NSame
  <2>5. N(data', left(s), b + 1, v) = N(data', left(s), b, v) + (IF data'[b + 1] = v THEN 1 ELSE 0)
    BY <1>0, <2>1, NNext
  <2>6. N(q, 1, n + 1, v) = N(q, 1, n, v) + (IF q[n + 1] = v THEN 1 ELSE 0)
    BY <2>1, NNext
  <2>. QED
    BY <1>2, <2>1, <2>3, <2>4, <2>5, <2>6
<1>7. left(s) + (n + 1) - 1 = p
  BY <1>0
<1>. HIDE DEF p, n, q
<1>8. /\ sorted_data'[s] = q /\ copied'[s] = n + 1 /\ at'[s] = "copy" /\ input' = input
  BY <1>1 DEF q, n
<1>. QED
  BY <1>3, <1>5, <1>6, <1>7, <1>8 DEF ContentOf

LEMMA ContentKept ==
  ASSUME TypeOK, Tree, Locals, Content, ReturnsSorted, TypeOK', NEW s \in Segments, Step(s)
  PROVE  Content'
<1>1. \A t \in Segments : ContentOf(t)
  BY DEF Content
\* Where a call is that has no claim on the elements.
<1>2. \A t \in Segments : at'[t] \in {"none", "invoke", "done"} => ContentOf(t)'
  BY DEF ContentOf
<1>3. CASE UNCHANGED <<data, input, locals>>
  <2>1. \A t \in Segments : at'[t] = at[t] => ContentOf(t)'
    BY <1>1, <1>3, ContentSame DEF locals
  <2>2. CASE MergeSort(s)
    <3>1. at[s] = "begin"
      BY <2>2 DEF MergeSort
    <3>2. CASE left(s) < right(s)
      <4>1. /\ at'[s] = "invoke"
            /\ \A h \in Halves(s) : h \in Segments /\ at'[h] = "begin" /\ Within(h, s)
            /\ \A t \in Segments : t # s /\ t \notin Halves(s) => at'[t] = at[t]
        BY <2>2, <3>2, HalvesStart
      <4>2. ASSUME NEW h \in Halves(s) PROVE ContentOf(h)'
        <5>1. Of(h) \subseteq Of(s)
          BY <4>1, OfSegments
        <5>2. \A i \in Of(h) : data'[i] = input'[i]
          BY <1>1, <1>3, <3>1, <5>1 DEF ContentOf
        <5>. QED
          BY <4>1, <5>2 DEF ContentOf
      <4>. QED
        BY <1>2, <2>1, <4>1, <4>2 DEF Content
    <3>3. CASE ~ (left(s) < right(s))
      <4>1. at'[s] = "done" /\ \A t \in Segments : t # s => at'[t] = at[t]
        BY <2>2, <3>3 DEF MergeSort, TypeOK
      <4>. QED
        BY <1>2, <2>1, <4>1 DEF Content
    <3>. QED
      BY <3>2, <3>3
  <2>3. CASE Join(s)
    <3>1. /\ at'[s] = "merge" /\ at[s] = "invoke"
          /\ \A t \in Segments : t # s => at'[t] = at[t]
      BY <2>3 DEF Join, TypeOK
    <3>2. /\ sorted_data[s] = <<>> /\ Len(sorted_data[s]) = 0
          /\ Len(sorted_data[s]) = (first_begin[s] - left(s)) + (second_begin[s] - (mid(s) + 1))
      BY <3>1 DEF Locals
    <3>3. /\ left(s) \in Int /\ mid(s) + 1 \in Int
          /\ first_begin[s] \in Int /\ left(s) <= first_begin[s]
          /\ second_begin[s] \in Int /\ mid(s) + 1 <= second_begin[s]
      BY SegmentEnds DEF TypeOK
    <3>4. first_begin[s] = left(s) /\ second_begin[s] = mid(s) + 1
      BY <3>2, <3>3
    <3>5. \A d, b, e, v : b \in Int /\ e \in Int /\ e < b => N(d, b, e, v) = 0
      BY NNone
    <3>6. \A v : /\ N(data, left(s), first_begin[s] - 1, v) = 0
                 /\ N(data, mid(s) + 1, second_begin[s] - 1, v) = 0
                 /\ N(sorted_data[s], 1, 0, v) = 0
      <4>1. /\ first_begin[s] - 1 \in Int /\ first_begin[s] - 1 < left(s)
            /\ second_begin[s] - 1 \in Int /\ second_begin[s] - 1 < mid(s) + 1
            /\ 0 \in Int /\ 1 \in Int /\ 0 < 1
        BY <3>3, <3>4
      <4>. QED
        BY <3>3, <3>5, <4>1
    <3>7. InOrder(sorted_data[s])
      BY <3>2 DEF InOrder
    <3>8. \A k \in 1..Len(sorted_data[s]), i \in Rest(s) : sorted_data[s][k] <= data[i]
      BY <3>2
    <3>9. UNCHANGED <<sorted_data, first_begin, second_begin>> /\ Rest(s)' = Rest(s)
      BY <1>3 DEF locals, Rest
    <3>10. ContentOf(s)'
      BY <1>3, <3>1, <3>2, <3>6, <3>7, <3>8, <3>9 DEF ContentOf
    <3>. QED
      BY <2>1, <3>1, <3>10 DEF Content
  <2>4. CASE Merged(s)
    <3>1. \A t \in Segments : t # s => at'[t] = at[t]
      BY <2>4 DEF Merged, TypeOK
    <3>. QED
      BY <2>1, <2>4, <3>1, MergedContent DEF Content
  <2>5. CASE Return(s)
    <3>1. at'[s] = "done" /\ \A t \in Segments : t # s => at'[t] = at[t]
      BY <2>5 DEF Return, TypeOK
    <3>. QED
      BY <1>2, <2>1, <3>1 DEF Content
  <2>6. CASE TakeFirst(s) \/ TakeSecond(s) \/ Copy(s)
    <3>1. UNCHANGED at
      BY <2>6 DEF TakeFirst, TakeSecond, Copy
    <3>. QED
      BY <2>1, <3>1 DEF Content
  <2>. QED
    BY <2>2, <2>3, <2>4, <2>5, <2>6 DEF Step
<1>4. CASE TakeFirst(s) \/ TakeSecond(s)
  <2>1. /\ UNCHANGED <<data, input, at, copied>>
        /\ \A t \in Segments : t # s => /\ first_begin'[t] = first_begin[t]
                                        /\ second_begin'[t] = second_begin[t]
                                        /\ sorted_data'[t] = sorted_data[t]
    BY <1>4 DEF TakeFirst, TakeSecond, Locals
  <2>2. \A t \in Segments : t # s => ContentOf(t)'
    BY <1>1, <2>1, ContentSame
  <2>. QED
    BY <1>4, <2>2, TakeKeepsContent DEF Content
<1>5. CASE Copy(s)
  <2>1. /\ UNCHANGED <<input, at, first_begin, second_begin, sorted_data>> /\ at[s] = "copy"
        /\ \A t \in Segments : t # s => copied'[t] = copied[t]
    BY <1>5 DEF Copy, TypeOK
  <2>2. ASSUME NEW t \in Segments, t # s, at[t] \in {"begin", "merge", "copy"}
        PROVE  \A i \in Of(t) : data'[i] = data[i]
    <3>1. Apart(s, t)
      BY <2>1, <2>2, CopyApart
    <3>2. Of(s) \cap Of(t) = {}
      BY <3>1, OfSegments
    <3>3. Of(t) \subseteq Indices
      BY SegmentEnds DEF Of, Indices
    <3>. QED
      BY <1>5, <3>2, <3>3, CopyWrites
  <2>3. \A t \in Segments : t # s => ContentOf(t)'
    BY <1>1, <2>1, <2>2, ContentSame
  <2>. QED
    BY <1>5, <2>3, CopyKeepsContent DEF Content
<1>. QED
  BY <1>3, <1>4, <1>5 DEF Step, MergeSort, Join, Merged, Return

-------------------------------------------------------------------------------
(***************************************************************************)
(* The theorems.                                                           *)
(***************************************************************************)

LEMMA IInvHolds == Spec => []IInv
<1>1. Init => IInv
  <2>. SUFFICES ASSUME Init PROVE IInv
    OBVIOUS
  <2>1. TypeOK /\ Tree /\ Locals
    BY Begins
  <2>2. \A s \in Segments : at[s] \in {"none", "begin"} /\ data = input
    BY DEF Init
  <2>3. Content
    BY <2>2 DEF Content, ContentOf
  <2>4. ReturnsSorted
    BY <2>2 DEF ReturnsSorted
  <2>. QED
    BY <2>1, <2>3, <2>4 DEF IInv
<1>2. IInv /\ [Next]_vars => IInv'
  <2>. SUFFICES ASSUME IInv, [Next]_vars PROVE IInv'
    OBVIOUS
  <2>. USE DEF IInv
  <2>1. TypeOK' /\ Tree' /\ Locals'
    BY TypesKept, TreeKept
  <2>2. CASE UNCHANGED vars
    <3>1. ReturnsSorted'
      BY <2>2 DEF vars, ReturnsSorted
    <3>2. \A t \in Segments : ContentOf(t)'
      BY <2>2, ContentSame DEF vars, Content
    <3>. QED
      BY <2>1, <3>1, <3>2 DEF Content
  <2>3. CASE Next
    BY <2>1, <2>3, ContentKept, SortedKept DEF Next
  <2>. QED
    BY <2>2, <2>3
<1>. QED
  BY <1>1, <1>2, PTL DEF Spec

(***************************************************************************)
(* However long the data set and whatever it holds, the calls that         *)
(* parallel_invoke runs at once never merge where another is at work, and  *)
(* Merge's indices stay in its halves.                                     *)
(***************************************************************************)
THEOREM MergesStayApart == Spec => []MergeInv
<1>1. IInv => MergeInv
  BY MergesMeetNot DEF IInv, MergeInv
<1>. QED
  BY <1>1, IInvHolds, PTL

(***************************************************************************)
(* Every call that returns has sorted its segment, main's the whole data   *)
(* set: the elements are those main read, each as many times, in order.    *)
(***************************************************************************)
THEOREM SortsItsSegment == Spec => []ReturnsSorted
<1>1. IInv => ReturnsSorted
  BY DEF IInv
<1>. QED
  BY <1>1, IInvHolds, PTL

===============================================================================
