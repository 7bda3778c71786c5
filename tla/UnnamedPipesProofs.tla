--------------------------- MODULE UnnamedPipesProofs --------------------------
(***************************************************************************)
(* Proofs about UnnamedPipes, for the lines of any length and any words:   *)
(* what get_argv and count_commands allocate holds what they write.        *)
(***************************************************************************)
EXTENDS UnnamedPipes, FiniteSetTheorems, WellFoundedInduction, TLAPS

-------------------------------------------------------------------------------
(***************************************************************************)
(* The line, and what the scans of it find.                                *)
(***************************************************************************)

Typed == Letters \cup {Space, Bar, Newline}
Chars == Typed \cup {Nul}
L     == Len(line)

\* What fgets may leave, whatever is typed.
Shape == line \in Seq(Typed) /\ L \in Nat

LEMMA Distinct ==
  /\ Bar # Nul /\ Space # Nul /\ Newline # Nul /\ Bar # Space /\ Bar # Newline
  /\ \A x \in Letters : x \notin Blank \cup {Bar, Nul}
<1>1. Bar # Nul /\ Space # Nul /\ Newline # Nul /\ Bar # Space /\ Bar # Newline
  BY Zenon DEF Bar, Nul, Space, Newline
<1>2. \A x \in Letters : x \notin {Space, Bar, Newline, Nul}
  BY LineAssumption
<1> QED BY <1>1, <1>2 DEF Blank

\* Inside the line is what was typed, behind it the null.
LEMMA CharsOf ==
  ASSUME Shape
  PROVE  /\ \A k \in 0..(L - 1) : Char(k) \in Typed /\ Char(k) # Nul
         /\ \A k \in Nat : k >= L => Char(k) = Nul
         /\ \A k \in Nat : Char(k) \in Chars
         /\ Char(L) = Nul
<1>1. ASSUME NEW k \in 0..(L - 1) PROVE Char(k) \in Typed
  <2>1. k + 1 \in 1..L /\ Char(k) = line[k + 1]
    BY <1>1 DEF Shape, Char, L
  <2> QED BY <2>1 DEF Shape, L
<1>2. Nul \notin Typed
  BY Distinct DEF Typed
<1>3. ASSUME NEW k \in Nat, k >= L PROVE Char(k) = Nul
  BY <1>3 DEF Shape, Char, L
<1>4. ASSUME NEW k \in Nat PROVE Char(k) \in Chars
  BY <1>1, <1>3, <1>4 DEF Chars, Shape
<1>5. Char(L) = Nul
  BY <1>3 DEF Shape
<1> QED BY <1>1, <1>2, <1>3, <1>4, <1>5

\* A set of naturals has a least one: of the intervals from 0 to its
\* elements, one has none of the others strictly inside.
LEMMA LeastNatural ==
  ASSUME NEW M \in SUBSET Nat, M # {}
  PROVE  \E m \in M : \A k \in M : m <= k
PROOF
  <1> DEFINE T == {0..m : m \in M}
              R == StrictSubsetOrdering(Nat)
  <1>1. IsWellFoundedOn(R, FiniteSubsetsOf(Nat))
    BY FS_StrictSubsetOrderingWellFounded
  <1>2. T \subseteq FiniteSubsetsOf(Nat)
    <2>1. \A m \in M : IsFiniteSet(0..m) /\ 0..m \in SUBSET Nat
      BY FS_Interval
    <2> QED
      BY <2>1 DEF FiniteSubsetsOf
  <1>3. T # {}
    OBVIOUS
  <1> HIDE DEF R
  <1>4. PICK X \in T : \A Y \in T : <<Y, X>> \notin R
    <2> HIDE DEF T
    <2> QED
      BY <1>1, <1>2, <1>3, WFMin
  <1>5. PICK m \in M : X = 0..m
    BY <1>4
  <1>6. ASSUME NEW k \in M, k < m PROVE FALSE
    <2>1. 0..k \in T /\ 0..k \in SUBSET Nat /\ 0..m \in SUBSET Nat
      BY <1>6
    <2>2. 0..k \subseteq 0..m /\ 0..k # 0..m
      <3>1. m \in 0..m /\ m \notin 0..k
        BY <1>6
      <3>2. 0..k \subseteq 0..m
        BY <1>6
      <3> QED
        BY <3>1, <3>2
    <2>3. <<0..k, 0..m>> \in R
      BY <2>1, <2>2 DEF R, StrictSubsetOrdering
    <2> QED
      BY <1>4, <1>5, <2>1, <2>3
  <1> QED
    BY <1>5, <1>6

\* strpbrk, skip_char and skip_whitespace find the first character of C, or the null.
LEMMA FirstIs ==
  ASSUME Shape, NEW k \in 0..L, NEW C
  PROVE  /\ First(k, C) \in k..L
         /\ Char(First(k, C)) \in C \cup {Nul}
         /\ \A j \in k..(First(k, C) - 1) : Char(j) \notin C
<1> DEFINE M == {m \in k..L : Char(m) \in C \cup {Nul}}
           P(m) == Char(m) \in C \cup {Nul} /\ \A j \in k..(m - 1) : Char(j) \notin C
<1>1. L \in Nat /\ L \in M /\ M \in SUBSET Nat
  BY CharsOf DEF Shape
<1>2. PICK m \in M : \A j \in M : m <= j
  <2> HIDE DEF M
  <2> QED BY <1>1, LeastNatural
<1>3. ASSUME NEW j \in k..(m - 1) PROVE Char(j) \notin C
  BY <1>1, <1>2, <1>3
<1>4. \E x \in k..L : P(x)
  BY <1>2, <1>3
<1>5. First(k, C) = CHOOSE x \in k..L : P(x)
  BY DEF First, L
<1> HIDE DEF P
<1>6. First(k, C) \in k..L /\ P(First(k, C))
  BY <1>4, <1>5
<1> QED BY <1>6 DEF P

\* They go no further than a place where there is one.
LEMMA FirstUpTo ==
  ASSUME Shape, NEW k \in 0..L, NEW C, NEW d \in k..L, Char(d) \in C \cup {Nul}
  PROVE  First(k, C) <= d
<1>1. First(k, C) \in k..L /\ \A j \in k..(First(k, C) - 1) : Char(j) \notin C
  BY FirstIs
<1>2. CASE Char(d) = Nul
  BY <1>1, <1>2, CharsOf DEF Shape
<1>3. CASE Char(d) \in C
  BY <1>1, <1>3 DEF Shape
<1> QED BY <1>2, <1>3

-------------------------------------------------------------------------------
(***************************************************************************)
(* The invariant, of every line and of those that are well formed.         *)
(***************************************************************************)

Types ==
  /\ pc \in {"count", "argv", "words", "done", "outside"}
  /\ delim_positions \in Seq(Nat) /\ Len(delim_positions) \in Nat \ {0}
  /\ i \in Nat /\ begin \in 0..L /\ ptr \in begin..L /\ prev_pos \in 0..ptr
  /\ argv \in Seq(Seq(Chars)) /\ cmds \in Seq(Seq(Seq(Chars))) /\ i = Len(cmds)

\* Where a command ends there is a bar, or the null.
Delimits(d) == d \in 1..L /\ Char(d) \in {Bar, Nul}

\* The commands follow each other; while symbols are looked for, the last
\* position is a symbol's.
Delims ==
  /\ delim_positions[1] = 0
  /\ \A k \in 2..Len(delim_positions) :
       Delimits(delim_positions[k]) /\ delim_positions[k - 1] < delim_positions[k]
  /\ pc = "count" => Last(delim_positions) < L

\* get_argv is in a command, at a word or at an end.
InWords ==
  pc = "words" =>
    i + 2 <= Len(delim_positions) /\ Char(ptr) \in Letters \cup {Bar, Nul}

\* Of a well-formed line: a command ends behind a blank, and the last position
\* leaves a place for the length of the line.
Spaced ==
  /\ \A k \in 2..Len(delim_positions) : Char(delim_positions[k] - 1) \in Blank
  /\ \A k \in 1..Len(delim_positions) : k - 1 <= delim_positions[k]
  /\ pc = "count" => Last(delim_positions) <= L - 2

\* And a word and the blank behind it take two characters of the command at least.
InCommand ==
  pc = "words" =>
    /\ ptr <= delim_positions[i + 2]
    /\ delim_positions[i + 1] + 2 * Len(argv) <= ptr

Inside == pc # "outside" /\ Spaced /\ InCommand

LineIInv == Shape /\ Types /\ Delims /\ InWords /\ (WellFormed => Inside)

\* A well-formed line, in positions that count from 0.
LEMMA FormOf ==
  ASSUME Shape, WellFormed
  PROVE  /\ L \in Nat \ {0, 1} /\ Char(L - 1) \in Blank
         /\ \A k \in 0..(L - 1) : Char(k) = Bar => k > 0 /\ Char(k - 1) = Space
<1>1. L \in Nat \ {0, 1} /\ DOMAIN line = 1..L /\ Last(line) = line[L] /\ Last(line) \in Blank
  BY DEF Shape, WellFormed, L, Last
<1>2. ASSUME NEW k \in 0..(L - 1) PROVE Char(k) = line[k + 1] /\ k + 1 \in 1..L
  BY <1>1, <1>2 DEF Char, L
<1>3. Char(L - 1) = line[L]
  BY <1>1, <1>2
<1>4. ASSUME NEW k \in 0..(L - 1), Char(k) = Bar PROVE k > 0 /\ Char(k - 1) = Space
  <2>1. k + 1 \in DOMAIN line /\ line[k + 1] = Bar
    BY <1>1, <1>2, <1>4
  <2>2. k + 1 > 1 /\ line[(k + 1) - 1] = Space
    BY <2>1 DEF WellFormed
  <2>3. k - 1 \in 0..(L - 1) /\ (k - 1) + 1 = (k + 1) - 1
    BY <1>1, <1>4, <2>2
  <2> QED BY <1>1, <1>2, <1>4, <2>2, <2>3
<1> QED BY <1>1, <1>3, <1>4

\* What the invariant says where it is used: the command that get_argv is in.
LEMMA LastPosition ==
  ASSUME Types
  PROVE  /\ Len(delim_positions) \in 1..Len(delim_positions)
         /\ Last(delim_positions) = delim_positions[Len(delim_positions)]
         /\ Last(delim_positions) \in Nat
         /\ \A k \in 1..Len(delim_positions) : delim_positions[k] \in Nat
BY DEF Types, Last

LEMMA CommandIs ==
  ASSUME Shape, Types, Delims, i + 2 <= Len(delim_positions)
  PROVE  /\ delim_positions[i + 1] \in Nat /\ delim_positions[i + 2] \in 1..L
         /\ Len_i = delim_positions[i + 2] - delim_positions[i + 1] /\ Len_i \in Nat \ {0}
         /\ Char(delim_positions[i + 2]) \in {Bar, Nul}
         /\ delim_positions[i + 1] < delim_positions[i + 2]
         /\ i + 2 \in 2..Len(delim_positions)
<1>1. i + 1 \in 1..Len(delim_positions) /\ i + 2 \in 2..Len(delim_positions)
  BY DEF Types
<1>2. /\ Delimits(delim_positions[i + 2])
      /\ delim_positions[i + 1] < delim_positions[i + 2]
  <2>1. delim_positions[(i + 2) - 1] < delim_positions[i + 2]
    BY <1>1 DEF Delims
  <2>2. (i + 2) - 1 = i + 1
    BY DEF Types
  <2> QED BY <1>1, <2>1, <2>2 DEF Delims
<1>3. /\ delim_positions[i + 1] \in Nat /\ delim_positions[i + 2] \in 1..L
      /\ Char(delim_positions[i + 2]) \in {Bar, Nul}
  BY <1>1, <1>2, LastPosition DEF Delimits
<1> QED BY <1>1, <1>2, <1>3 DEF Len_i, Shape

LEMMA TextIs ==
  ASSUME Shape, NEW from \in Nat, NEW cnt \in Nat
  PROVE  Text(from, cnt) \in Seq(Chars) /\ Len(Text(from, cnt)) = cnt
<1>1. \A k \in 1..cnt : Char(from + k - 1) \in Chars
  <2> TAKE k \in 1..cnt
  <2>1. from + k - 1 \in Nat
    OBVIOUS
  <2> QED BY <2>1, CharsOf
<1>2. Text(from, cnt) \in [1..cnt -> Chars]
  BY <1>1 DEF Text
<1> HIDE DEF Text
<1> QED BY <1>2

-------------------------------------------------------------------------------
(***************************************************************************)
(* Every step keeps it.                                                    *)
(***************************************************************************)

LEMMA LineInit == Init => LineIInv
<1> SUFFICES ASSUME Init PROVE LineIInv
  OBVIOUS
<1>1. PICK t \in Inputs : line = fgets(t)
  BY DEF Init
<1> DEFINE m == IF Len(t) < LineSize THEN Len(t) ELSE LineSize - 1
<1>2. t \in Seq(Typed) /\ Len(t) \in Nat /\ m \in 0..Len(t)
  BY LineAssumption DEF Typed
<1>3. line = SubSeq(t, 1, m)
  BY <1>1 DEF fgets
<1> HIDE DEF m
<1>4. Shape
  BY <1>2, <1>3 DEF Shape, L
<1>5. L = 0 => pc = "outside" /\ ~ WellFormed
  BY <1>4 DEF Init, Shape, L, WellFormed
<1>6. L # 0 => pc = "count"
  BY <1>4 DEF Init, Shape, L
<1>7. Types /\ InWords
  BY <1>4, <1>5, <1>6 DEF Init, Types, InWords, Shape
<1>8. Len(<<0>>) = 1 /\ <<0>>[1] = 0 /\ Last(<<0>>) = 0
  BY DEF Last
<1>9. Delims
  BY <1>4, <1>5, <1>6, <1>8 DEF Init, Delims, Shape
<1>10. ASSUME WellFormed PROVE Inside
  <2>1. L \in Nat \ {0, 1}
    BY <1>4, <1>10, FormOf
  <2> QED BY <1>6, <1>8, <2>1 DEF Init, Inside, Spaced, InCommand
<1> QED BY <1>4, <1>7, <1>9, <1>10 DEF LineIInv

LEMMA CountStep == LineIInv /\ CountCommands => LineIInv'
<1> SUFFICES ASSUME LineIInv, CountCommands PROVE LineIInv'
  OBVIOUS
<1> DEFINE n == Len(delim_positions)
           d == First(FromHere, {Bar})
<1>1. Shape /\ Types /\ Delims /\ L \in Nat /\ (WellFormed => Inside) /\ pc = "count"
  BY DEF LineIInv, Shape, CountCommands
<1>2. /\ n \in Nat \ {0} /\ delim_positions[n] \in Nat /\ delim_positions[n] < L
      /\ FromHere = delim_positions[n] + 1
  BY <1>1, LastPosition DEF Types, Delims, FromHere
<1>3. UNCHANGED <<line, i, begin, ptr, prev_pos, argv, cmds>>
  BY DEF CountCommands
<1>4. Shape' /\ L' = L /\ (WellFormed' <=> WellFormed) /\ \A k : Char(k)' = Char(k)
  BY <1>1, <1>3 DEF Shape, Char, L, WellFormed
<1>5. WellFormed => n < L
  <2> SUFFICES ASSUME WellFormed PROVE n < L
    OBVIOUS
  <2>1. n - 1 <= delim_positions[n] /\ delim_positions[n] <= L - 2
    BY <1>1, <1>2, LastPosition DEF Inside, Spaced
  <2> QED BY <1>1, <1>2, <2>1
<1>6. CASE ~ (n < L)
  <2>1. pc' = "outside" /\ UNCHANGED delim_positions
    BY <1>6 DEF CountCommands, L
  <2>2. Types' /\ InWords'
    BY <1>1, <1>3, <1>4, <2>1 DEF Types, InWords, Chars, Typed
  <2>3. \A x : Delimits(x)' <=> Delimits(x)
    BY <1>3 DEF Delimits, Char, L
  <2>4. Delims'
    BY <1>1, <1>4, <2>1, <2>3 DEF Delims
  <2> QED BY <1>4, <1>5, <1>6, <2>2, <2>4 DEF LineIInv
<1>7. CASE n < L
  <2>1. FromHere \in 0..L
    BY <1>1, <1>2
  <2>2. d \in FromHere..L /\ Char(d) \in {Bar} \cup {Nul}
    BY <1>1, <2>1, FirstIs
  <2>3. d \in 1..L /\ delim_positions[n] < d
    BY <1>1, <1>2, <2>2
  <2>4. Delimits(d)
    BY <2>2, <2>3 DEF Delimits
  <2>5. Char(d) = Bar => d < L
    BY <1>1, <2>3, CharsOf, Distinct
  <2>6. /\ delim_positions' = Append(delim_positions, d)
        /\ pc' = IF Char(d) = Bar THEN "count" ELSE "argv"
    BY <1>7 DEF CountCommands, L
  <2> HIDE DEF d
  <2>7. /\ delim_positions' \in Seq(Nat) /\ Len(delim_positions') = n + 1
        /\ \A k \in 1..n : delim_positions'[k] = delim_positions[k]
        /\ delim_positions'[n + 1] = d
    BY <1>1, <2>3, <2>6 DEF Types
  <2>8. Types' /\ InWords'
    BY <1>1, <1>2, <1>3, <1>4, <2>6, <2>7 DEF Types, InWords, Chars, Typed
  <2>9. Last(delim_positions') = d
    BY <2>7 DEF Last
  <2>10. \A k \in 1..(n + 1) : k = n + 1 \/ k \in 1..n
    BY <1>2
  <2>11. Delims'
    <3>1. ASSUME NEW k \in 2..(n + 1)
          PROVE  Delimits(delim_positions'[k]) /\ delim_positions'[k - 1] < delim_positions'[k]
      <4>2. CASE k = n + 1
        BY <1>2, <2>3, <2>4, <2>7, <4>2
      <4>3. CASE k # n + 1
        <5>1. k \in 2..n /\ k \in 1..n /\ k - 1 \in 1..n
          BY <1>2, <4>3
        <5>2. Delimits(delim_positions[k]) /\ delim_positions[k - 1] < delim_positions[k]
          BY <1>1, <5>1 DEF Delims
        <5> QED BY <2>7, <5>1, <5>2
      <4> QED BY <4>2, <4>3
    <3>2. \A x : Delimits(x)' <=> Delimits(x)
      BY <1>3 DEF Delimits, Char, L
    <3>4. pc' = "count" => d < L'
      BY <1>4, <2>5, <2>6
    <3>3. delim_positions'[1] = 0
      BY <1>1, <1>2, <2>7 DEF Delims
    <3> QED BY <2>7, <2>9, <3>1, <3>2, <3>3, <3>4 DEF Delims
  <2>12. ASSUME WellFormed PROVE Inside'
    <3>1. Spaced /\ L \in Nat \ {0, 1} /\ Char(L - 1) \in Blank
      BY <1>1, <2>12, FormOf DEF Inside
    <3>2. Char(d) = Bar => d <= L - 2 /\ Char(d - 1) \in Blank
      <4> SUFFICES ASSUME Char(d) = Bar PROVE d <= L - 2 /\ Char(d - 1) \in Blank
        OBVIOUS
      <4>1. d \in 0..(L - 1) /\ d # L - 1
        BY <2>3, <2>5, <3>1, Distinct DEF Blank
      <4>2. Char(d - 1) = Space
        BY <1>1, <2>12, <4>1, FormOf
      <4> QED BY <3>1, <4>1, <4>2 DEF Blank
    <3>3. Char(d) # Bar => Char(d - 1) \in Blank
      <4> SUFFICES ASSUME Char(d) # Bar PROVE d = L
        BY <3>1
      <4>1. Char(d) = Nul
        BY <2>2
      <4> QED BY <1>1, <2>3, <4>1, CharsOf
    <3>4. ASSUME NEW k \in 2..(n + 1) PROVE Char(delim_positions'[k] - 1) \in Blank
      <4>1. CASE k = n + 1
        BY <2>7, <3>2, <3>3, <4>1
      <4>2. CASE k # n + 1
        <5>1. k \in 2..n /\ k \in 1..n
          BY <1>2, <4>2
        <5> QED BY <2>7, <3>1, <5>1 DEF Spaced
      <4> QED BY <4>1, <4>2
    <3>5. ASSUME NEW k \in 1..(n + 1) PROVE k - 1 <= delim_positions'[k]
      <4>1. CASE k = n + 1
        <5>1. n - 1 <= delim_positions[n]
          BY <1>2, <3>1 DEF Spaced
        <5> QED BY <1>2, <2>3, <2>7, <4>1, <5>1
      <4>2. CASE k # n + 1
        BY <2>7, <2>10, <3>1, <4>2 DEF Spaced
      <4> QED BY <4>1, <4>2
    <3>6. pc' = "count" => d <= L' - 2
      BY <1>4, <2>6, <3>2
    <3>7. pc' # "outside" /\ pc' # "words"
      BY <2>6
    <3>8. Spaced'
      BY <1>4, <2>7, <2>9, <3>4, <3>5, <3>6 DEF Spaced
    <3> QED BY <3>7, <3>8 DEF Inside, InCommand
  <2> QED BY <1>4, <2>8, <2>11, <2>12 DEF LineIInv
<1> QED BY <1>6, <1>7

\* A step that leaves the line and its positions alone.
LEMMA SameLine ==
  ASSUME Shape, Delims, UNCHANGED <<line, delim_positions>>, pc' # "count"
  PROVE  /\ Shape' /\ Delims' /\ L' = L /\ (WellFormed' <=> WellFormed)
         /\ \A k : Char(k)' = Char(k)
         /\ Spaced => Spaced'
<1>1. L' = L /\ \A k : Char(k)' = Char(k)
  BY DEF L, Char
<1>2. Shape' /\ (WellFormed' <=> WellFormed)
  BY DEF Shape, L, WellFormed
<1>3. \A x : Delimits(x)' <=> Delimits(x)
  BY DEF Delimits, Char, L
<1>4. Delims'
  BY <1>1, <1>3 DEF Delims
<1>5. Spaced => Spaced'
  BY <1>1 DEF Spaced
<1> QED BY <1>1, <1>2, <1>4, <1>5

LEMMA ArgvStep == LineIInv /\ GetArgv => LineIInv'
<1> SUFFICES ASSUME LineIInv, GetArgv PROVE LineIInv'
  OBVIOUS
<1>1. Shape /\ Types /\ Delims /\ L \in Nat /\ pc = "argv" /\ (WellFormed => Inside)
  BY DEF LineIInv, Shape, GetArgv
<1>2. pc' \in {"words", "done"} /\ UNCHANGED <<line, delim_positions, i, cmds>>
  BY DEF GetArgv
<1>3. /\ Shape' /\ Delims' /\ L' = L /\ (WellFormed' <=> WellFormed)
      /\ \A k : Char(k)' = Char(k)
      /\ Spaced => Spaced'
  BY <1>1, <1>2, SameLine
<1>4. CASE ~ (i < q_cmd)
  <2>1. pc' = "done" /\ UNCHANGED <<begin, ptr, prev_pos, argv>>
    BY <1>4 DEF GetArgv
  <2>2. Types'
    BY <1>1, <1>2, <1>3, <2>1 DEF Types, Chars, Typed
  <2>3. InWords' /\ (WellFormed' => Inside')
    BY <1>1, <1>3, <2>1 DEF InWords, Inside, InCommand
  <2> QED BY <1>3, <2>2, <2>3 DEF LineIInv
<1>5. CASE i < q_cmd
  <2> DEFINE start == delim_positions[i + 1] + (IF i # 0 THEN 1 ELSE 0)
             d == delim_positions[i + 2]
             f == First(start, Letters \cup {Bar})
  <2>1. i \in Nat /\ i + 2 <= Len(delim_positions)
    BY <1>1, <1>5 DEF Types, q_cmd
  <2>2. /\ d \in 1..L /\ Char(d) \in {Bar, Nul}
        /\ delim_positions[i + 1] < d /\ delim_positions[i + 1] \in Nat
    BY <1>1, <2>1, CommandIs
  <2>3. start \in 0..L /\ start <= d /\ delim_positions[i + 1] <= start
    BY <1>1, <2>2
  <2> HIDE DEF start, d
  <2>4. /\ f \in start..L /\ f <= d
        /\ Char(f) \in Letters \cup {Bar, Nul}
    <3>1. d \in start..L
      BY <2>2, <2>3
    <3> QED BY <1>1, <2>2, <2>3, <3>1, FirstIs, FirstUpTo
  <2>5. /\ begin' = start + skip_whitespace(start) /\ ptr' = begin' /\ prev_pos' = 0
        /\ argv' = <<>> /\ pc' = "words"
    BY <1>5 DEF GetArgv, start
  <2>6. begin' = f
    <3>1. begin' = start + (f - start)
      BY <2>5 DEF skip_whitespace
    <3> HIDE DEF f
    <3> QED BY <1>1, <2>3, <2>4, <3>1
  <2> HIDE DEF f
  <2>7. Types'
    <3>1. begin' \in 0..L /\ ptr' \in begin'..L /\ prev_pos' \in 0..ptr'
      BY <1>1, <2>3, <2>4, <2>5, <2>6
    <3>2. argv' \in Seq(Seq(Chars))
      BY <2>5
    <3> QED BY <1>1, <1>2, <1>3, <2>5, <3>1, <3>2 DEF Types, Chars, Typed
  <2>8. InWords'
    <3>1. Char(ptr)' = Char(f)
      BY <1>2, <2>5, <2>6 DEF Char
    <3> QED BY <1>2, <2>1, <2>4, <3>1 DEF InWords
  <2>9. InCommand'
    <3>1. Len(argv') = 0
      BY <2>5
    <3>2. delim_positions'[i' + 1] + 2 * Len(argv') <= ptr'
      BY <1>2, <2>2, <2>3, <2>4, <2>5, <2>6, <3>1
    <3> QED BY <1>2, <2>4, <2>5, <2>6, <3>2 DEF InCommand, d
  <2>10. WellFormed' => Inside'
    BY <1>1, <1>3, <2>5, <2>9 DEF Inside
  <2> QED BY <1>3, <2>7, <2>8, <2>10 DEF LineIInv
<1> QED BY <1>4, <1>5

\* A word that ends in the line does at a blank, and the next word, a bar or
\* the end of the line is behind that blank.
LEMMA WordEnds ==
  ASSUME LineIInv, pc = "words", ~ WordEnd, EndsInLine(ptr),
         NEW e, e = First(ptr, Blank), NEW f, f = First(e, Letters \cup {Bar})
  PROVE  /\ e \in (ptr + 1)..(L - 1) /\ f \in (e + 1)..L
         /\ Char(f) \in Letters \cup {Bar, Nul}
<1>1. Shape /\ Types /\ InWords /\ L \in Nat
  BY DEF LineIInv, Shape
<1>2. ptr \in 0..L /\ Char(ptr) \in Letters
  BY <1>1 DEF Types, InWords, WordEnd
<1>3. PICK j \in ptr..(L - 1) : Char(j) \in Blank
  BY DEF EndsInLine, L
<1>4. e \in ptr..L /\ e <= j /\ Char(e) \in Blank \cup {Nul}
  <2>1. j \in ptr..L
    BY <1>1, <1>2, <1>3
  <2> QED BY <1>1, <1>2, <1>3, <2>1, FirstIs, FirstUpTo
<1>5. e # ptr
  BY <1>2, <1>4, Distinct
<1>6. e \in (ptr + 1)..(L - 1) /\ e \in 0..L /\ e \in 0..(L - 1)
  BY <1>1, <1>2, <1>3, <1>4, <1>5
<1>7. Char(e) # Nul
  BY <1>1, <1>6, CharsOf
<1>8. Char(e) \notin Letters \cup {Bar, Nul}
  BY <1>4, <1>7, Distinct DEF Blank
<1>9. f \in e..L /\ Char(f) \in Letters \cup {Bar, Nul}
  BY <1>1, <1>6, FirstIs
<1>10. f # e
  BY <1>8, <1>9
<1> QED BY <1>1, <1>6, <1>9, <1>10

\* Of a well-formed line it ends in its command, and there is a slot for it.
LEMMA WordFits ==
  ASSUME LineIInv, WellFormed, pc = "words", ~ WordEnd,
         NEW e, e = First(ptr, Blank), NEW f, f = First(e, Letters \cup {Bar})
  PROVE  /\ EndsInLine(ptr) /\ FitsSlot(e - ptr)
         /\ f <= delim_positions[i + 2]
<1> DEFINE d == delim_positions[i + 2]
           a == delim_positions[i + 1]
<1>1. Shape /\ Types /\ Delims /\ InWords /\ Spaced /\ InCommand /\ L \in Nat
  BY DEF LineIInv, Shape, Inside
<1>2. /\ d \in 1..L /\ Char(d) \in {Bar, Nul} /\ a \in Nat /\ Len_i = d - a
      /\ i + 2 \in 2..Len(delim_positions)
  BY <1>1, CommandIs DEF InWords
<1>3. Char(d - 1) \in Blank /\ ptr <= d /\ a + 2 * Len(argv) <= ptr /\ Len(argv) \in Nat
  BY <1>1, <1>2 DEF Spaced, InCommand, Types
<1>4. ptr \in 0..L /\ Char(ptr) \in Letters /\ Char(ptr) \notin {Bar, Nul}
  BY <1>1 DEF Types, InWords, WordEnd
<1> HIDE DEF a, d
<1>5. d - 1 \in ptr..(L - 1) /\ ptr # d
  BY <1>1, <1>2, <1>3, <1>4
<1>6. EndsInLine(ptr)
  BY <1>3, <1>5 DEF EndsInLine, L
<1>7. e \in (ptr + 1)..(L - 1) /\ f \in (e + 1)..L
  BY <1>6, WordEnds
<1>8. e <= d - 1
  <2>1. d - 1 \in ptr..L
    BY <1>1, <1>5
  <2> QED BY <1>1, <1>3, <1>4, <2>1, FirstUpTo
<1>9. f <= d
  <2>1. e \in 0..L /\ d \in e..L
    BY <1>1, <1>2, <1>4, <1>7, <1>8
  <2> QED BY <1>1, <1>2, <2>1, FirstUpTo
<1>10. FitsSlot(e - ptr)
  BY <1>2, <1>3, <1>4, <1>5, <1>7, <1>8 DEF FitsSlot
<1> QED BY <1>6, <1>9, <1>10 DEF d

LEMMA WordStep == LineIInv /\ CopyWord => LineIInv'
<1> SUFFICES ASSUME LineIInv, CopyWord PROVE LineIInv'
  OBVIOUS
<1> DEFINE e == First(ptr, Blank)
           f == First(e, Letters \cup {Bar})
           t == Text(begin + prev_pos, e - ptr)
<1>1. /\ Shape /\ Types /\ Delims /\ InWords /\ L \in Nat /\ pc = "words" /\ ~ WordEnd
      /\ WellFormed => Inside
  BY DEF LineIInv, Shape, CopyWord
<1>2. UNCHANGED <<line, delim_positions, i, begin, cmds>>
  BY DEF CopyWord
<1>3. pc' \in {"words", "outside"} /\ skip_char(ptr) = e - ptr
  BY <1>1 DEF CopyWord, skip_char
<1>4. /\ Shape' /\ Delims' /\ L' = L /\ (WellFormed' <=> WellFormed)
      /\ \A k : Char(k)' = Char(k)
      /\ Spaced => Spaced'
  BY <1>1, <1>2, <1>3, SameLine
<1>5. WellFormed => EndsInLine(ptr) /\ FitsSlot(e - ptr) /\ f <= delim_positions[i + 2]
  BY <1>1, WordFits
<1>6. CASE ~ (EndsInLine(ptr) /\ FitsSlot(e - ptr))
  <2>1. pc' = "outside" /\ UNCHANGED <<argv, prev_pos, ptr>>
    BY <1>3, <1>6 DEF CopyWord
  <2>2. Types' /\ InWords'
    BY <1>1, <1>2, <1>4, <2>1 DEF Types, InWords, Chars, Typed
  <2> QED BY <1>4, <1>5, <1>6, <2>2 DEF LineIInv
<1>7. CASE EndsInLine(ptr) /\ FitsSlot(e - ptr)
  <2>1. e \in (ptr + 1)..(L - 1) /\ f \in (e + 1)..L /\ Char(f) \in Letters \cup {Bar, Nul}
    BY <1>1, <1>7, WordEnds
  <2>2. begin \in Nat /\ ptr \in Nat /\ prev_pos \in Nat /\ begin <= ptr /\ argv \in Seq(Seq(Chars))
    BY <1>1 DEF Types
  <2>3. ptr + (e - ptr) = e /\ e - ptr \in Nat
    <3> HIDE DEF e
    <3> QED BY <1>1, <2>1, <2>2
  <2>4. skip_whitespace(ptr + skip_char(ptr)) = f - e
    BY <1>3, <2>3 DEF skip_whitespace
  <2>5. /\ argv' = Append(argv, t)
        /\ prev_pos' = (e - ptr) + (f - e)
        /\ ptr' = ptr + ((e - ptr) + (f - e))
        /\ pc' = pc
    BY <1>3, <1>7, <2>4 DEF CopyWord
  <2>6. t \in Seq(Chars)
    <3>1. begin + prev_pos \in Nat
      BY <2>2
    <3> QED BY <1>1, <2>3, <3>1, TextIs
  <2> HIDE DEF e, f, t
  <2>7. ptr' = f /\ prev_pos' \in 0..ptr' /\ ptr' \in begin..L
    BY <1>1, <2>1, <2>2, <2>5
  <2>8. argv' \in Seq(Seq(Chars)) /\ Len(argv') = Len(argv) + 1 /\ Len(argv) \in Nat
    BY <2>2, <2>5, <2>6
  <2>9. Types'
    BY <1>1, <1>2, <1>4, <2>5, <2>7, <2>8 DEF Types, Chars, Typed
  <2>10. InWords'
    <3>1. Char(ptr)' = Char(f)
      BY <1>2, <2>7 DEF Char
    <3> QED BY <1>1, <1>2, <2>1, <3>1 DEF InWords
  <2>11. ASSUME WellFormed PROVE Inside'
    <3>1. Spaced /\ InCommand /\ f <= delim_positions[i + 2]
      BY <1>1, <1>5, <2>11 DEF Inside
    <3>2. delim_positions[i + 1] \in Nat
      BY <1>1, CommandIs DEF InWords
    <3>3. delim_positions[i + 1] + 2 * Len(argv) <= ptr
      BY <1>1, <3>1 DEF InCommand
    <3>4. delim_positions[i + 1] + 2 * Len(argv') <= ptr'
      BY <1>1, <2>1, <2>2, <2>7, <2>8, <3>2, <3>3
    <3>5. InCommand'
      BY <1>2, <2>7, <3>1, <3>4 DEF InCommand
    <3> QED BY <1>1, <1>4, <2>5, <3>1, <3>5 DEF Inside
  <2> QED BY <1>4, <2>9, <2>10, <2>11 DEF LineIInv
<1> QED BY <1>6, <1>7

LEMMA EndStep == LineIInv /\ EndCommand => LineIInv'
<1> SUFFICES ASSUME LineIInv, EndCommand PROVE LineIInv'
  OBVIOUS
<1>1. /\ Shape /\ Types /\ Delims /\ InWords /\ L \in Nat /\ pc = "words"
      /\ WellFormed => Inside
      /\ UNCHANGED <<line, delim_positions, begin, ptr, prev_pos, argv>>
  BY DEF LineIInv, EndCommand, Shape
<1>2. pc' \in {"argv", "outside"}
  BY DEF EndCommand
<1>3. /\ Shape' /\ Delims' /\ L' = L /\ (WellFormed' <=> WellFormed)
      /\ Spaced => Spaced'
  BY <1>1, <1>2, SameLine
<1>4. WellFormed => Len(argv) < Len_i
  <2> SUFFICES ASSUME WellFormed PROVE Len(argv) < Len_i
    OBVIOUS
  <2>1. /\ delim_positions[i + 1] \in Nat /\ delim_positions[i + 2] \in 1..L
        /\ Len_i = delim_positions[i + 2] - delim_positions[i + 1] /\ Len_i \in Nat \ {0}
    BY <1>1, CommandIs DEF InWords
  <2>2. /\ delim_positions[i + 1] + 2 * Len(argv) <= ptr /\ ptr <= delim_positions[i + 2]
        /\ ptr \in Nat /\ Len(argv) \in Nat
    BY <1>1 DEF Inside, InCommand, Types
  <2> QED BY <2>1, <2>2
<1>5. CASE Len(argv) < Len_i
  <2>1. cmds' = Append(cmds, argv) /\ i' = i + 1 /\ pc' = "argv"
    BY <1>5 DEF EndCommand
  <2>2. Types'
    BY <1>1, <1>3, <2>1 DEF Types, Chars, Typed
  <2> QED BY <1>1, <1>3, <2>1, <2>2 DEF LineIInv, InWords, Inside, InCommand
<1>6. CASE ~ (Len(argv) < Len_i)
  <2>1. pc' = "outside" /\ UNCHANGED <<cmds, i>>
    BY <1>6 DEF EndCommand
  <2>2. Types'
    BY <1>1, <1>3, <2>1 DEF Types, Chars, Typed
  <2> QED BY <1>1, <1>3, <1>4, <1>6, <2>1, <2>2 DEF LineIInv, InWords
<1> QED BY <1>5, <1>6

LEMMA LineStep == LineIInv /\ [Next]_vars => LineIInv'
<1>1. LineIInv /\ UNCHANGED vars => LineIInv'
  <2> SUFFICES ASSUME LineIInv, UNCHANGED vars PROVE LineIInv'
    OBVIOUS
  <2>1. Shape' /\ Types' /\ (WellFormed' <=> WellFormed)
    BY DEF LineIInv, vars, Shape, Types, L, Char, Chars, Typed, WellFormed
  <2>2. \A x : Delimits(x)' <=> Delimits(x)
    BY DEF vars, Delimits, Char, L
  <2>3. Delims'
    BY <2>2 DEF LineIInv, vars, Delims, L
  <2>4. InWords' /\ (Inside => Inside')
    BY DEF LineIInv, vars, InWords, Inside, Spaced, InCommand, Char, L
  <2> QED BY <2>1, <2>3, <2>4 DEF LineIInv
<1> QED BY <1>1, CountStep, ArgvStep, WordStep, EndStep DEF Next

(***************************************************************************)
(* Whatever is typed, with a newline or without, longer than LINE_SIZE or  *)
(* not, and however many commands and words it has: positions stay in the  *)
(* line; and of a well-formed line nothing is read behind the null, no     *)
(* word is read behind its command's end, count_commands has room for its  *)
(* positions, and get_argv for its words and the null behind each.         *)
(***************************************************************************)
THEOREM WordsFit == MainSpec => []LineInv
<1>1. MainInit => LineIInv
  BY LineInit DEF MainInit
<1>2. LineIInv /\ [MainNext]_all_vars => LineIInv'
  <2>1. [MainNext]_all_vars => [Next]_vars
    BY DEF MainNext, Parse, Stages, all_vars
  <2> QED BY <2>1, LineStep
<1>3. LineIInv => LineInv
  <2> SUFFICES ASSUME LineIInv PROVE TypeOK /\ StaysInside
    BY DEF LineInv
  <2>1. Shape /\ Types /\ Delims /\ L \in Nat
    BY DEF LineIInv, Shape
  <2>2. ASSUME NEW k \in DOMAIN delim_positions PROVE delim_positions[k] \in 0..L
    <3>1. k \in 1..Len(delim_positions)
      BY <2>1 DEF Types
    <3>2. CASE k = 1
      BY <2>1, <3>2 DEF Delims
    <3>3. CASE k # 1
      <4>1. k \in 2..Len(delim_positions)
        BY <2>1, <3>1, <3>3 DEF Types
      <4> QED BY <2>1, <4>1 DEF Delims, Delimits
    <3> QED BY <3>2, <3>3
  <2>3. TypeOK
    BY <2>1, <2>2 DEF TypeOK, Types, L
  <2>4. StaysInside
    BY DEF LineIInv, Inside, InCommand, StaysInside
  <2> QED BY <2>3, <2>4
<1> QED BY <1>1, <1>2, <1>3, PTL DEF MainSpec

-------------------------------------------------------------------------------
(***************************************************************************)
(* A pipeline of any length, whose programs and forks may end early or     *)
(* fail, and whose commands can be executed.                               *)
(***************************************************************************)
\* main has the terminal's three descriptors, a read end for each pipe it has
\* made, and one more for a write end or for the result file.
Sizes(s) ==
  /\ s.cmds \in Nat \ {0} /\ s.items \in Nat
  /\ s.max_fd \in Nat /\ s.max_fd >= s.cmds + 2 /\ s.failing = {}

Main        == 1
Pids(s)     == Run(s)!Pids
Fds(s)      == Run(s)!Fds
Children(s) == Pids(s) \ {Main}

\* There are processes and pipes enough for a pipeline that no stage repeats.
LEMMA Enough ==
  ASSUME NEW s, Sizes(s)
  PROVE  /\ Pids(s) \subseteq Nat \ {0} /\ Main = 1 /\ Main \in Pids(s)
         /\ Run(s)!Pipes = Pids(s) /\ \A k \in 1..(s.cmds - 1) : k \in Run(s)!Pipes
         /\ Fds(s) = 0..s.max_fd
<1> DEFINE S == 1..(s.cmds - 1)
           T == {{j \in S : j < k} : k \in 1..s.cmds}
<1>0. s.cmds \in Nat \ {0} /\ s.cmds \in Int /\ s.cmds - 1 \in Int /\ 1 \in Int
  BY DEF Sizes
<1>1. IsFiniteSet(S) /\ Cardinality(S) = s.cmds - 1
  <2>1. IsFiniteSet(S) /\ Cardinality(S) = IF 1 > s.cmds - 1 THEN 0 ELSE (s.cmds - 1) - 1 + 1
    BY <1>0, FS_Interval
  <2> QED BY <1>0, <2>1
<1>2. IsFiniteSet(SUBSET S) /\ Cardinality(SUBSET S) = 2 ^ (s.cmds - 1)
  BY <1>1, FS_SUBSET
<1>3. Cardinality(1..s.cmds) = s.cmds /\ IsFiniteSet(1..s.cmds)
  <2>1. IsFiniteSet(1..s.cmds) /\ Cardinality(1..s.cmds) = IF 1 > s.cmds THEN 0 ELSE s.cmds - 1 + 1
    BY <1>0, FS_Interval
  <2> QED BY <1>0, <2>1
<1>4. Cardinality(1..s.cmds) <= Cardinality(SUBSET S)
  <2> DEFINE f == [k \in 1..s.cmds |-> {j \in S : j < k}]
  <2>1. f \in [1..s.cmds -> SUBSET S]
    OBVIOUS
  <2>2. ASSUME NEW j \in 1..s.cmds, NEW k \in 1..s.cmds, j < k PROVE f[j] # f[k]
    <3>1. j \in S /\ j \in f[k] /\ j \notin f[j]
      BY <2>2 DEF Sizes
    <3> QED BY <3>1
  <2>3. \A j, k \in 1..s.cmds : f[j] = f[k] => j = k
    <3> SUFFICES ASSUME NEW j \in 1..s.cmds, NEW k \in 1..s.cmds, j # k
                 PROVE  f[j] # f[k]
      OBVIOUS
    <3>1. j < k \/ k < j
      BY DEF Sizes
    <3> HIDE DEF f
    <3> QED BY <2>2, <3>1
  <2> HIDE DEF f
  <2>4. f \in Injection(1..s.cmds, SUBSET S)
    BY <2>1, <2>3 DEF Injection, IsInjective
  <2> QED BY <1>2, <1>3, <2>4, FS_Injection
<1>5. 2 ^ (s.cmds - 1) \in Nat /\ s.cmds <= 2 ^ (s.cmds - 1)
  BY <1>2, <1>3, <1>4, FS_CardinalityType
<1> QED BY <1>5 DEF Sizes, Main, Pids, Fds, Run!Main, Run!Pids, Run!Pipes, Run!Fds

LEMMA StageNumbers ==
  ASSUME NEW s, Sizes(s)
  PROVE  /\ s.cmds \in Nat \ {0} /\ 0 \in 0..s.cmds /\ s.cmds \in 0..s.cmds
         /\ \A m \in 0..(s.cmds - 1) :
              m \in Nat /\ m < s.cmds /\ m \in 0..s.cmds /\ m + 1 \in 0..s.cmds
         /\ \A m \in 1..(s.cmds - 1) : m \in 0..s.cmds
BY DEF Sizes

(***************************************************************************)
(* Tables of descriptors.                                                  *)
(***************************************************************************)
Entries == {"closed", "tty", "file", "r", "w"} \X Nat
Tables(s)  == [Fds(s) -> Entries]

R(k)   == <<"r", k>>
W(k)   == <<"w", k>>
Closed == <<"closed", 0>>
Tty    == <<"tty", 0>>
File   == <<"file", 0>>

\* main's table at the top of the k-th turn of the loop, and with the ends of
\* the pipe that this turn makes; the descriptor and the end that stage k reads.
Table(s, k) == [f \in Fds(s) |-> IF f <= 2 THEN Tty ELSE IF f <= k + 2 THEN R(f - 2) ELSE Closed]
Piped(s, k) == [Table(s, k + 1) EXCEPT ![k + 4] = W(k + 1)]
Input(k) == IF k = 0 THEN 0 ELSE k + 2
In(k)    == IF k = 0 THEN Tty ELSE R(k)

NoWriteEnd(t, S) == \A f \in S : t[f][1] # "w"

LEMMA EntriesAre ==
  /\ Closed \in Entries /\ Tty \in Entries /\ File \in Entries
  /\ Closed[1] = "closed" /\ Tty[1] = "tty" /\ File[1] = "file"
  /\ \A k \in Nat : /\ R(k) \in Entries /\ R(k)[1] = "r" /\ R(k)[2] = k
                    /\ W(k) \in Entries /\ W(k)[1] = "w" /\ W(k)[2] = k
BY DEF Entries, Closed, Tty, File, R, W, Run!Closed, Run!R, Run!W

LEMMA LowestIs ==
  ASSUME NEW s, Sizes(s), NEW t, NEW m \in Fds(s), t[m] = Closed, \A f \in 0..(m - 1) : t[f] # Closed
  PROVE  Run(s)!Lowest(t) = m
<1> DEFINE S == {f \in Fds(s) : t[f] = Closed}
<1>1. m \in S /\ S \subseteq Nat /\ \A f \in S : m <= f
  BY Enough DEF Sizes
<1>2. Run(s)!Free(t) = S
  BY DEF Run!Free, Fds, Closed, Run!Closed
<1>3. Run(s)!Lowest(t) = CHOOSE x \in S : \A y \in S : x <= y
  BY <1>2 DEF Run!Lowest, Run!Min
<1> HIDE DEF S
<1>4. \A x \in S : (\A y \in S : x <= y) => x = m
  BY <1>1
<1> QED BY <1>1, <1>3, <1>4

LEMMA TableIs ==
  ASSUME NEW s, Sizes(s), NEW k \in 0..(s.cmds - 1)
  PROVE  /\ Table(s, k) \in Tables(s) /\ NoWriteEnd(Table(s, k), Fds(s))
         /\ \A f \in Fds(s) : /\ f <= 2 => Table(s, k)[f] = Tty
                              /\ f \in 3..(k + 2) => Table(s, k)[f] = R(f - 2)
                              /\ f > k + 2 => Table(s, k)[f] = Closed
         /\ Run(s)!Lowest(Table(s, k)) = k + 3 /\ k + 3 \in Fds(s) /\ 0 \in Fds(s) /\ 1 \in Fds(s)
<1>1. ASSUME NEW f \in Fds(s)
      PROVE  /\ f <= 2 => Table(s, k)[f] = Tty
             /\ f \in 3..(k + 2) => Table(s, k)[f] = R(f - 2)
             /\ f > k + 2 => Table(s, k)[f] = Closed
             /\ Table(s, k)[f] \in Entries /\ Table(s, k)[f][1] # "w"
             /\ f < k + 3 => Table(s, k)[f] # Closed
  <2>1. f \in Nat
    BY Enough DEF Sizes
  <2>2. CASE f <= 2
    BY <2>1, <2>2, EntriesAre DEF Table
  <2>3. CASE f \in 3..(k + 2)
    BY <2>1, <2>3, EntriesAre DEF Table
  <2>4. CASE f > k + 2
    BY <2>1, <2>4, EntriesAre DEF Table
  <2> QED BY <2>1, <2>2, <2>3, <2>4
<1>2. 0..(k + 2) \subseteq Fds(s) /\ k + 3 \in Fds(s) /\ 0 \in Fds(s) /\ 1 \in Fds(s)
  BY Enough DEF Sizes
<1>3. Run(s)!Lowest(Table(s, k)) = k + 3
  <2>1. \A f \in 0..((k + 3) - 1) : f \in Fds(s) /\ f < k + 3
    BY <1>2
  <2> QED BY <1>1, <1>2, <2>1, LowestIs
<1>4. Table(s, k) \in Tables(s)
  BY <1>1 DEF Table, Tables
<1> QED BY <1>1, <1>2, <1>3, <1>4 DEF NoWriteEnd

\* Two tables are one when they agree everywhere.
LEMMA TableEqual ==
  ASSUME NEW s, NEW t \in Tables(s), NEW u \in Tables(s), \A f \in Fds(s) : t[f] = u[f]
  PROVE  t = u
BY DEF Tables

LEMMA PipedIs ==
  ASSUME NEW s, Sizes(s), NEW k \in 0..(s.cmds - 2)
  PROVE  /\ Piped(s, k) \in Tables(s) /\ k + 3 \in Fds(s) /\ k + 4 \in Fds(s)
         /\ \A f \in Fds(s) : Piped(s, k)[f] = IF f = k + 4 THEN W(k + 1) ELSE Table(s, k + 1)[f]
         /\ Run(s)!Opened(Table(s, k), R(k + 1)) = Table(s, k + 1)
         /\ Run(s)!Lowest(Table(s, k + 1)) = k + 4
         /\ Run(s)!Opened(Table(s, k + 1), W(k + 1)) = Piped(s, k)
         /\ Run(s)!Close(Piped(s, k), k + 4) = Table(s, k + 1)
<1>1. k \in 0..(s.cmds - 1) /\ k + 1 \in 0..(s.cmds - 1) /\ k + 1 \in Nat /\ (k + 1) + 3 = k + 4
  BY DEF Sizes
<1>2. /\ Table(s, k) \in Tables(s) /\ Table(s, k + 1) \in Tables(s)
      /\ Run(s)!Lowest(Table(s, k)) = k + 3 /\ Run(s)!Lowest(Table(s, k + 1)) = k + 4
      /\ k + 3 \in Fds(s) /\ k + 4 \in Fds(s)
  BY <1>1, TableIs
<1>3. Piped(s, k) \in Tables(s)
  BY <1>1, <1>2, EntriesAre DEF Piped, Tables
<1>4. ASSUME NEW f \in Fds(s)
      PROVE  Piped(s, k)[f] = IF f = k + 4 THEN W(k + 1) ELSE Table(s, k + 1)[f]
  BY <1>2 DEF Piped, Tables
<1>5. Run(s)!Opened(Table(s, k), R(k + 1)) = Table(s, k + 1)
  <2> DEFINE t == [Table(s, k) EXCEPT ![k + 3] = R(k + 1)]
  <2>1. t \in Tables(s)
    BY <1>1, <1>2, EntriesAre DEF Tables
  <2>2. ASSUME NEW f \in Fds(s) PROVE t[f] = Table(s, k + 1)[f]
    <3>0. f \in 0..s.max_fd /\ s.max_fd \in Nat
      BY Enough DEF Sizes
    <3>1. f \in Nat /\ t[f] = IF f = k + 3 THEN R(k + 1) ELSE Table(s, k)[f]
      BY <1>2, <3>0 DEF Tables
    <3>2. CASE f <= 2
      BY <1>1, <3>1, <3>2, TableIs
    <3>3. CASE f \in 3..(k + 2)
      BY <1>1, <3>1, <3>3, TableIs
    <3>4. CASE f = k + 3
      <4>1. Table(s, k + 1)[f] = R(f - 2) /\ f - 2 = k + 1
        BY <1>1, <3>1, <3>4, TableIs
      <4> QED BY <3>1, <3>4, <4>1
    <3>5. CASE f > k + 3
      BY <1>1, <3>1, <3>5, TableIs
    <3> QED BY <1>1, <3>1, <3>2, <3>3, <3>4, <3>5
  <2>3. t = Table(s, k + 1)
    <3> HIDE DEF t
    <3> QED BY <1>2, <2>1, <2>2, TableEqual
  <2> QED BY <1>2, <2>3 DEF Run!Opened
<1>6. Run(s)!Opened(Table(s, k + 1), W(k + 1)) = Piped(s, k)
  BY <1>2 DEF Run!Opened, Piped
<1>7. Run(s)!Close(Piped(s, k), k + 4) = Table(s, k + 1)
  <2> DEFINE t == [Piped(s, k) EXCEPT ![k + 4] = Closed]
  <2>1. t \in Tables(s)
    BY <1>2, <1>3, EntriesAre DEF Tables
  <2>2. ASSUME NEW f \in Fds(s) PROVE t[f] = Table(s, k + 1)[f]
    <3>1. t[f] = IF f = k + 4 THEN Closed ELSE Piped(s, k)[f]
      BY <1>3 DEF Tables
    <3>2. f = k + 4 => Table(s, k + 1)[f] = Closed
      BY <1>1, <1>2, TableIs
    <3> QED BY <1>4, <3>1, <3>2
  <2>3. t = Table(s, k + 1)
    <3> HIDE DEF t
    <3> QED BY <1>2, <2>1, <2>2, TableEqual
  <2> QED BY <2>3 DEF Run!Close, Closed, Run!Closed
<1> QED BY <1>2, <1>3, <1>4, <1>5, <1>6, <1>7

\* What the last stage makes of main's table.
LEMMA LastTable ==
  ASSUME NEW s, Sizes(s), NEW t, NEW k, k = s.cmds - 1,
         t = IF Input(k) # 0 THEN Run(s)!Dup2(Table(s, k), Input(k), 0) ELSE Table(s, k),
         NEW u, u = Run(s)!Dup2(Run(s)!Opened(t, File), Run(s)!Lowest(t), 1)
  PROVE  /\ t \in Tables(s) /\ t[0] = In(k) /\ t[1] = Tty /\ NoWriteEnd(t, Fds(s))
         /\ u \in Tables(s) /\ u[0] = In(k) /\ u[1] = File /\ NoWriteEnd(u, Fds(s))
<1>1. k \in 0..(s.cmds - 1) /\ k \in Nat /\ k + 3 \in Fds(s) /\ 0 \in Fds(s) /\ 1 \in Fds(s) /\ k + 3 # 0 /\ k + 3 # 1
  BY TableIs DEF Sizes
<1>2. Table(s, k) \in Tables(s) /\ Run(s)!Lowest(Table(s, k)) = k + 3 /\ NoWriteEnd(Table(s, k), Fds(s))
      /\ Table(s, k)[0] = Tty /\ Table(s, k)[1] = Tty
  BY <1>1, TableIs
<1>3. k # 0 => k + 2 \in Fds(s) /\ k + 2 # 0 /\ Table(s, k)[k + 2] = R(k)
  <2> SUFFICES ASSUME k # 0 PROVE k + 2 \in Fds(s) /\ k + 2 # 0 /\ Table(s, k)[k + 2] = R(k)
    OBVIOUS
  <2>1. k + 2 \in Fds(s) /\ k + 2 \in 3..(k + 2) /\ (k + 2) - 2 = k
    <3>1. k \in Nat \ {0} /\ s.cmds \in Nat /\ k <= s.cmds - 1 /\ s.max_fd \in Nat /\ s.cmds + 2 <= s.max_fd
      BY <1>1 DEF Sizes
    <3>2. k + 2 \in 0..s.max_fd /\ k + 2 \in 3..(k + 2) /\ (k + 2) - 2 = k
      BY <3>1
    <3> QED BY <3>2, Enough
  <2> QED BY <1>1, <2>1, TableIs
<1>4. t \in Tables(s) /\ \A f \in Fds(s) : t[f] = IF f = 0 THEN In(k) ELSE Table(s, k)[f]
  <2>1. CASE k = 0
    BY <1>2, <2>1 DEF Input, In
  <2>2. CASE k # 0
    <3>1. t = [Table(s, k) EXCEPT ![0] = R(k)]
      BY <1>1, <1>3, <2>2 DEF Input, Run!Dup2
    <3> QED BY <1>1, <1>2, <2>2, <3>1, EntriesAre DEF In, Tables
  <2> QED BY <2>1, <2>2
<1>5. In(k)[1] # "w" /\ In(k) # Closed
  BY <1>1, EntriesAre DEF In
<1>6. NoWriteEnd(t, Fds(s)) /\ t[0] = In(k) /\ t[1] = Tty
  BY <1>1, <1>2, <1>4, <1>5 DEF NoWriteEnd
<1>7. Run(s)!Lowest(t) = k + 3
  <2>1. t[k + 3] = Closed
    BY <1>1, <1>4, TableIs
  <2>2. ASSUME NEW f \in 0..((k + 3) - 1) PROVE t[f] # Closed
    <3>1. f \in Fds(s) /\ f \in Nat /\ (f <= 2 \/ f \in 3..(k + 2))
      <4>1. k + 3 \in 0..s.max_fd /\ s.max_fd \in Nat
        BY <1>1, Enough DEF Sizes
      <4>2. f \in 0..s.max_fd /\ f \in Nat /\ (f <= 2 \/ f \in 3..(k + 2))
        BY <1>1, <4>1
      <4> QED BY <4>2, Enough
    <3>2. f \in 3..(k + 2) => f - 2 \in Nat
      OBVIOUS
    <3>3. Table(s, k)[f] # Closed
      BY <1>1, <3>1, <3>2, TableIs, EntriesAre
    <3> QED BY <1>4, <1>5, <3>1, <3>3
  <2> QED BY <1>1, <2>1, <2>2, LowestIs
<1>8. u = [[t EXCEPT ![k + 3] = File] EXCEPT ![1] = File]
  <2>1. [t EXCEPT ![k + 3] = File][k + 3] = File
    BY <1>1, <1>4 DEF Tables
  <2> QED BY <1>7, <2>1 DEF Run!Dup2, Run!Opened
<1>9. u \in Tables(s) /\ \A f \in Fds(s) : u[f] = IF f = 1 \/ f = k + 3 THEN File ELSE t[f]
  BY <1>1, <1>4, <1>8, EntriesAre DEF Tables
<1> QED BY <1>1, <1>4, <1>6, <1>9, EntriesAre DEF NoWriteEnd

\* What a child makes of the table it has from main.
LEMMA RedirectTable ==
  ASSUME NEW s, Sizes(s), NEW k \in 0..(s.cmds - 2), NEW u,
         u = Run(s)!Moved(Run(s)!Moved(Piped(s, k), Input(k), 0), k + 4, 1)
  PROVE  /\ u \in Tables(s) /\ u[0] = In(k) /\ u[1] = W(k + 1) /\ u[k + 3] = R(k + 1)
         /\ NoWriteEnd(u, Fds(s) \ {1})
<1> DEFINE t == Run(s)!Moved(Piped(s, k), Input(k), 0)
<1>1. /\ k \in Nat /\ k + 1 \in 0..(s.cmds - 1) /\ k + 3 \in Fds(s) /\ k + 4 \in Fds(s)
      /\ 0 \in Fds(s) /\ 1 \in Fds(s) /\ k + 2 \in Fds(s)
  <2>1. k \in Nat /\ s.cmds \in Nat \ {0} /\ k <= s.cmds - 2 /\ s.max_fd \in Nat /\ s.cmds + 2 <= s.max_fd
    BY DEF Sizes
  <2>2. /\ k + 1 \in 0..(s.cmds - 1) /\ k + 3 \in 0..s.max_fd /\ k + 4 \in 0..s.max_fd
        /\ 0 \in 0..s.max_fd /\ 1 \in 0..s.max_fd /\ k + 2 \in 0..s.max_fd
    BY <2>1
  <2> QED BY <2>1, <2>2, Enough
<1>2. /\ Piped(s, k) \in Tables(s)
      /\ \A f \in Fds(s) : Piped(s, k)[f] = IF f = k + 4 THEN W(k + 1) ELSE Table(s, k + 1)[f]
  BY PipedIs
<1>3. NoWriteEnd(Table(s, k + 1), Fds(s)) /\ Table(s, k + 1)[0] = Tty /\ Table(s, k + 1)[k + 3] = R(k + 1)
  <2>1. 0 <= 2 /\ k + 3 \in 3..((k + 1) + 2) /\ (k + 3) - 2 = k + 1
    BY <1>1
  <2> QED BY <1>1, <2>1, TableIs
<1>4. k # 0 => Table(s, k + 1)[k + 2] = R(k)
  <2>1. k # 0 => k + 2 \in 3..((k + 1) + 2) /\ (k + 2) - 2 = k
    BY <1>1
  <2> QED BY <1>1, <2>1, TableIs
<1>5. t \in Tables(s) /\ t[0] = In(k) /\ t[k + 3] = R(k + 1) /\ t[k + 4] = W(k + 1)
      /\ NoWriteEnd(t, Fds(s) \ {k + 4})
  <2>1. CASE k = 0
    <3>1. t = Piped(s, k)
      BY <2>1 DEF Run!Moved, Input
    <3> QED BY <1>1, <1>2, <1>3, <2>1, <3>1 DEF In, NoWriteEnd
  <2>2. CASE k # 0
    <3>1. t = [[Piped(s, k) EXCEPT ![0] = R(k)] EXCEPT ![k + 2] = Closed]
      <4>1. Piped(s, k)[k + 2] = R(k)
        BY <1>1, <1>2, <1>4, <2>2
      <4>2. Run(s)!Dup2(Piped(s, k), k + 2, 0) = [Piped(s, k) EXCEPT ![0] = R(k)]
        BY <4>1 DEF Run!Dup2
      <4>3. Input(k) = k + 2 /\ k + 2 # 0
        BY <1>1, <2>2 DEF Input
      <4>4. t = Run(s)!Close(Run(s)!Dup2(Piped(s, k), k + 2, 0), k + 2)
        BY <4>3 DEF Run!Moved
      <4> QED BY <4>2, <4>4 DEF Run!Close, Closed, Run!Closed
    <3>2. t \in Tables(s) /\ \A f \in Fds(s) : t[f] = IF f = k + 2 THEN Closed ELSE IF f = 0 THEN R(k) ELSE Piped(s, k)[f]
      BY <1>1, <1>2, <3>1, EntriesAre DEF Tables
    <3> HIDE DEF t
    <3> QED BY <1>1, <1>2, <1>3, <2>2, <3>2, EntriesAre DEF In, NoWriteEnd
  <2> QED BY <2>1, <2>2
<1>6. u = [[t EXCEPT ![1] = W(k + 1)] EXCEPT ![k + 4] = Closed]
  <2> HIDE DEF t
  <2>1. u = Run(s)!Moved(t, k + 4, 1)
    BY DEF t
  <2>2. Run(s)!Dup2(t, k + 4, 1) = [t EXCEPT ![1] = W(k + 1)]
    BY <1>5 DEF Run!Dup2
  <2>3. u = Run(s)!Close(Run(s)!Dup2(t, k + 4, 1), k + 4)
    BY <1>1, <2>1 DEF Run!Moved
  <2> QED BY <2>2, <2>3 DEF Run!Close, Closed, Run!Closed
<1> HIDE DEF t
<1>7. u \in Tables(s) /\ \A f \in Fds(s) : u[f] = IF f = k + 4 THEN Closed ELSE IF f = 1 THEN W(k + 1) ELSE t[f]
  BY <1>1, <1>5, <1>6, EntriesAre DEF Tables
<1> QED BY <1>1, <1>5, <1>7, EntriesAre DEF NoWriteEnd

(***************************************************************************)
(* Where main and its children are, and what each has open there.          *)
(***************************************************************************)
TableTypes(s) ==
  /\ procs \in Nat /\ at \in [Pids(s) -> {"none", "pipe", "fork", "redirect", "exec",
                                       "parent", "running", "exited"}]
  /\ stage \in [Pids(s) -> Nat] /\ in \in [Pids(s) -> Nat] /\ fd \in [Pids(s) -> Nat \X Nat]
  /\ fds \in [Pids(s) -> Tables(s)]

MainPlace(s) ==
  /\ at[Main] \notin {"none", "redirect"}
  /\ stage[Main] \in 0..(s.cmds - 1) /\ procs >= 1
  /\ at[Main] = "pipe" =>
       pipes = stage[Main] /\ fds[Main] = Table(s, stage[Main]) /\ in[Main] = Input(stage[Main])
  /\ at[Main] \in {"fork", "parent"} =>
       /\ stage[Main] < s.cmds - 1
       /\ pipes = stage[Main] + 1 /\ in[Main] = Input(stage[Main])
       /\ fd[Main] = <<stage[Main] + 3, stage[Main] + 4>> /\ fds[Main] = Piped(s, stage[Main])
  /\ at[Main] \in {"exec", "running", "exited"} => stage[Main] = s.cmds - 1
  /\ at[Main] \in {"exec", "running"} =>
       /\ fds[Main][0] = In(s.cmds - 1) /\ fds[Main][1] \in {File, Tty}
       /\ ~ s.open_fails => fds[Main][1] = File
       /\ NoWriteEnd(fds[Main], Fds(s))

ChildPlace(s, p) ==
  /\ at[p] \in {"none", "redirect", "exec", "running", "exited"}
  /\ p > procs => at[p] = "none"
  /\ at[p] # "none" =>
       /\ stage[p] \in 0..(s.cmds - 2) /\ stage[p] <= stage[Main]
       /\ at[Main] \in {"pipe", "fork"} => stage[p] < stage[Main]
  /\ at[p] = "redirect" =>
       /\ in[p] = Input(stage[p]) /\ fd[p] = <<stage[p] + 3, stage[p] + 4>>
       /\ fds[p] = Piped(s, stage[p])
  /\ at[p] \in {"exec", "running"} =>
       /\ fds[p][0] = In(stage[p]) /\ fds[p][1] = W(stage[p] + 1)
       /\ fds[p][stage[p] + 3] = R(stage[p] + 1)
       /\ NoWriteEnd(fds[p], Fds(s) \ {1})

\* No two children run one stage.
OneEach(s) ==
  \A p, q \in Children(s) : at[p] # "none" /\ at[q] # "none" /\ stage[p] = stage[q] => p = q

Placed(s) == TableTypes(s) /\ MainPlace(s) /\ (\A p \in Children(s) : ChildPlace(s, p)) /\ OneEach(s)

place_vars == <<procs, pipes, at, stage, in, fd, fds>>

LEMMA InitPlaces ==
  ASSUME NEW s
  PROVE  Sizes(s) /\ Run(s)!Init => Placed(s)
<1> SUFFICES ASSUME Sizes(s), Run(s)!Init PROVE Placed(s)
  OBVIOUS
<1> USE Enough
<1>1. fds[Main] = Table(s, 0)
  <2>1. fds[Main] = [f \in Fds(s) |-> IF f <= 2 THEN Tty ELSE Closed]
    BY DEF Run!Init, Tty, Closed, Run!Closed, Fds, Main, Run!Main, Pids
  <2>2. \A f \in Fds(s) : f \in Nat /\ (f <= 2 \/ f > 0 + 2)
    BY DEF Sizes
  <2> QED BY <2>1, <2>2 DEF Table
<1>2. TableTypes(s)
  <2>1. \A p \in Pids(s) : fds[p] \in Tables(s)
    <3> SUFFICES ASSUME NEW p \in Pids(s) PROVE fds[p] \in Tables(s)
      OBVIOUS
    <3>1. fds[p] = [f \in Fds(s) |-> IF p = Main /\ f <= 2 THEN Tty ELSE Closed]
      BY DEF Run!Init, Tty, Closed, Run!Closed, Fds, Main, Run!Main, Pids
    <3> QED BY <3>1, EntriesAre DEF Tables
  <2>2. fds \in [Pids(s) -> Tables(s)]
    <3>1. fds = [p \in Pids(s) |-> fds[p]]
      BY DEF Run!Init, Pids
    <3> QED BY <2>1, <3>1
  <2> QED BY <2>2 DEF TableTypes, Run!Init, Pids, Main
<1>3. at[Main] = "pipe" /\ stage[Main] = 0 /\ in[Main] = 0 /\ procs = 1 /\ pipes = 0
  BY DEF Run!Init, Pids, Main, Run!Main
<1>4. MainPlace(s)
  BY <1>1, <1>3 DEF MainPlace, Input, Sizes
<1>5. \A p \in Children(s) : at[p] = "none"
  BY DEF Run!Init, Pids, Main, Run!Main, Children
<1> QED BY <1>2, <1>4, <1>5 DEF Placed, ChildPlace, OneEach

LEMMA SamePlaces ==
  ASSUME NEW s
  PROVE  Placed(s) /\ UNCHANGED place_vars => Placed(s)'
BY DEF place_vars, Placed, TableTypes, MainPlace, ChildPlace, OneEach, NoWriteEnd

\* A step of main that leaves the children where they are.
LEMMA MainMoves ==
  ASSUME NEW s, Sizes(s), Placed(s), TableTypes(s)', MainPlace(s)', procs' = procs,
         \A p \in Children(s) : at'[p] = at[p] /\ stage'[p] = stage[p] /\ in'[p] = in[p]
                             /\ fd'[p] = fd[p] /\ fds'[p] = fds[p],
         \/ stage'[Main] = stage[Main] /\ (at'[Main] \in {"pipe", "fork"} => at[Main] \in {"pipe", "fork"})
         \/ stage'[Main] = stage[Main] + 1
  PROVE  Placed(s)'
<1>1. stage[Main] \in Nat
  BY Enough DEF Placed, TableTypes
<1>2. ASSUME NEW p \in Children(s) PROVE ChildPlace(s, p)'
  <2>1. ChildPlace(s, p) /\ stage[p] \in Nat /\ p \in Nat /\ procs \in Nat
    BY Enough DEF Placed, TableTypes, Children
  <2> QED BY <1>1, <2>1 DEF ChildPlace, NoWriteEnd
<1>3. OneEach(s)'
  BY DEF Placed, OneEach
<1> QED BY <1>2, <1>3 DEF Placed

\* A step of a child that leaves everyone else where they are.
LEMMA ChildMoves ==
  ASSUME NEW s, Sizes(s), Placed(s), NEW p \in Children(s), at[p] # "none",
         NEW place, at' = [at EXCEPT ![p] = place], place \in {"exec", "running", "exited"},
         NEW t \in Tables(s), fds' = [fds EXCEPT ![p] = t],
         UNCHANGED <<procs, pipes, stage, in, fd>>,
         place \in {"exec", "running"} =>
           /\ t[0] = In(stage[p]) /\ t[1] = W(stage[p] + 1)
           /\ t[stage[p] + 3] = R(stage[p] + 1) /\ NoWriteEnd(t, Fds(s) \ {1})
  PROVE  Placed(s)'
<1>1. TableTypes(s) /\ p \in Pids(s) /\ p # Main /\ Main \in Pids(s)
  BY Enough DEF Placed, Children
<1>2. TableTypes(s)'
  BY <1>1 DEF TableTypes
<1>3. at'[Main] = at[Main] /\ fds'[Main] = fds[Main]
  BY <1>1 DEF TableTypes
<1>4. MainPlace(s)'
  BY <1>3 DEF Placed, MainPlace, NoWriteEnd
<1>5. \A q \in Children(s) : q # p => at'[q] = at[q] /\ fds'[q] = fds[q]
  BY <1>1 DEF TableTypes, Children
<1>6. at'[p] = place /\ fds'[p] = t
  BY <1>1 DEF TableTypes
<1>7. ASSUME NEW q \in Children(s) PROVE ChildPlace(s, q)'
  <2>1. CASE q = p
    BY <1>3, <1>6, <2>1 DEF Placed, ChildPlace, NoWriteEnd
  <2>2. CASE q # p
    BY <1>3, <1>5, <2>2 DEF Placed, ChildPlace, NoWriteEnd
  <2> QED BY <2>1, <2>2
<1>8. OneEach(s)'
  BY <1>5, <1>6 DEF Placed, OneEach
<1> QED BY <1>2, <1>4, <1>7, <1>8 DEF Placed

LEMMA PipePlaces ==
  ASSUME NEW s, Sizes(s), Placed(s), NEW p \in Pids(s), Run(s)!Pipe(p)
  PROVE  Placed(s)'
<1> DEFINE k == stage[Main]
<1>1. p = Main /\ TableTypes(s) /\ MainPlace(s) /\ Main \in Pids(s)
  BY Enough DEF Run!Pipe, Placed, ChildPlace, Children
<1>2. k \in 0..(s.cmds - 2) /\ k \in Nat /\ pipes = k /\ fds[Main] = Table(s, k) /\ in[Main] = Input(k)
  BY <1>1 DEF Run!Pipe, MainPlace, Sizes
<1>3. pipes' = k + 1
  BY <1>2 DEF Run!Pipe
<1>4. fds' = [fds EXCEPT ![Main] = Piped(s, k)] /\ fd' = [fd EXCEPT ![Main] = <<k + 3, k + 4>>]
  <2>1. Run(s)!R(pipes') = R(k + 1) /\ Run(s)!W(pipes') = W(k + 1)
    BY <1>3 DEF R, W, Run!R, Run!W
  <2>2. Run(s)!Lowest(fds[Main]) = k + 3
    <3>1. k \in 0..(s.cmds - 1)
      BY <1>2 DEF Sizes
    <3> QED BY <1>2, <3>1, TableIs
  <2>3. Run(s)!Opened(fds[Main], Run(s)!R(pipes')) = Table(s, k + 1)
    BY <1>2, <2>1, PipedIs
  <2>4. Run(s)!Opened(Table(s, k + 1), Run(s)!W(pipes')) = Piped(s, k) /\ Run(s)!Lowest(Table(s, k + 1)) = k + 4
    BY <1>2, <2>1, PipedIs
  <2> HIDE DEF k
  <2> QED BY <1>1, <2>2, <2>3, <2>4 DEF Run!Pipe
<1>5. at' = [at EXCEPT ![Main] = "fork"] /\ UNCHANGED <<procs, stage, in>> /\ at[Main] = "pipe"
  BY <1>1 DEF Run!Pipe, Run!Goes
<1>6. Piped(s, k) \in Tables(s) /\ k + 3 \in Nat /\ k + 4 \in Nat
  BY <1>2, PipedIs
<1>7. TableTypes(s)'
  BY <1>1, <1>4, <1>5, <1>6 DEF TableTypes
<1>8. at'[Main] = "fork" /\ fds'[Main] = Piped(s, k) /\ fd'[Main] = <<k + 3, k + 4>>
  BY <1>1, <1>4, <1>5 DEF TableTypes
<1>9. MainPlace(s)'
  <2>1. stage'[Main] = k /\ in'[Main] = Input(k) /\ procs' = procs /\ k < s.cmds - 1
    BY <1>2, <1>5 DEF Sizes
  <2> HIDE DEF k
  <2> QED BY <1>1, <1>2, <1>3, <1>8, <2>1 DEF MainPlace, Sizes, k
<1>10. \A q \in Children(s) : at'[q] = at[q] /\ fds'[q] = fds[q] /\ fd'[q] = fd[q]
  BY <1>1, <1>4, <1>5 DEF TableTypes, Children
<1> QED BY <1>5, <1>7, <1>9, <1>10, MainMoves

LEMMA ForkPlaces ==
  ASSUME NEW s, Sizes(s), Placed(s), NEW p \in Pids(s), Run(s)!Fork(p)
  PROVE  Placed(s)'
<1> DEFINE k == stage[Main]
           c == procs + 1
<1>1. p = Main /\ TableTypes(s) /\ MainPlace(s) /\ Main \in Pids(s) /\ Main = 1
  BY Enough DEF Run!Fork, Placed, ChildPlace, Children
<1>2. /\ k \in 0..(s.cmds - 2) /\ k \in Nat /\ procs \in Nat /\ c # Main
      /\ at[Main] = "fork" /\ fds[Main] = Piped(s, k) /\ in[Main] = Input(k) /\ fd[Main] = <<k + 3, k + 4>>
  BY <1>1 DEF Run!Fork, MainPlace, TableTypes, Sizes
<1>3. /\ procs' = c /\ UNCHANGED pipes
      /\ at' = [at EXCEPT ![Main] = "parent", ![c] = "redirect"]
      /\ stage' = [stage EXCEPT ![c] = k] /\ in' = [in EXCEPT ![c] = in[Main]]
      /\ fd' = [fd EXCEPT ![c] = fd[Main]] /\ fds' = [fds EXCEPT ![c] = fds[Main]]
  BY <1>1 DEF Run!Fork
<1>4. fds[Main] \in Tables(s) /\ fd[Main] \in Nat \X Nat /\ in[Main] \in Nat
  BY <1>1 DEF TableTypes
<1>5. TableTypes(s)'
  <2> HIDE DEF k, c
  <2>1. at' \in [Pids(s) -> {"none", "pipe", "fork", "redirect", "exec", "parent", "running", "exited"}]
    BY <1>1, <1>3 DEF TableTypes
  <2>2. stage' \in [Pids(s) -> Nat]
    BY <1>1, <1>2, <1>3 DEF TableTypes
  <2>3. in' \in [Pids(s) -> Nat]
    BY <1>1, <1>3, <1>4 DEF TableTypes
  <2>4. fd' \in [Pids(s) -> Nat \X Nat]
    BY <1>1, <1>3, <1>4 DEF TableTypes
  <2>5. fds' \in [Pids(s) -> Tables(s)]
    BY <1>1, <1>3, <1>4 DEF TableTypes
  <2>6. procs' \in Nat
    BY <1>2, <1>3 DEF c
  <2> QED BY <2>1, <2>2, <2>3, <2>4, <2>5, <2>6 DEF TableTypes
<1>6. /\ at'[Main] = "parent" /\ stage'[Main] = k /\ in'[Main] = in[Main]
      /\ fd'[Main] = fd[Main] /\ fds'[Main] = fds[Main]
  BY <1>1, <1>2, <1>3 DEF TableTypes
<1>7. MainPlace(s)'
  BY <1>1, <1>2, <1>3, <1>6 DEF MainPlace
<1>8. ASSUME NEW q \in Children(s), q # c
      PROVE  at'[q] = at[q] /\ stage'[q] = stage[q] /\ in'[q] = in[q] /\ fd'[q] = fd[q] /\ fds'[q] = fds[q]
  BY <1>1, <1>3, <1>8 DEF TableTypes, Children
<1>9. ASSUME c \in Children(s)
      PROVE  /\ at'[c] = "redirect" /\ stage'[c] = k /\ in'[c] = in[Main]
             /\ fd'[c] = fd[Main] /\ fds'[c] = fds[Main] /\ at[c] = "none"
  <2>1. c \in Pids(s) /\ c > procs
    BY <1>2, <1>9 DEF Children
  <2>2. at[c] = "none"
    BY <1>9, <2>1 DEF Placed, ChildPlace
  <2> QED BY <1>1, <1>3, <2>1, <2>2 DEF TableTypes
<1> HIDE DEF k, c
<1>10. ASSUME NEW q \in Children(s) PROVE ChildPlace(s, q)'
  <2>1. CASE q = c
    <3>1. c > c => FALSE
      BY <1>2 DEF c
    <3> QED BY <1>2, <1>3, <1>6, <1>9, <2>1, <3>1 DEF ChildPlace
  <2>2. CASE q # c
    <3>1. ChildPlace(s, q) /\ q \in Nat /\ stage[q] \in Nat /\ (q > c => q > procs)
      BY <1>1, <1>2, Enough DEF Placed, Children, TableTypes, c
    <3>2. at[q] # "none" => stage[q] < k
      BY <1>2, <3>1 DEF ChildPlace, k
    <3>3. /\ at'[q] = at[q] /\ stage'[q] = stage[q] /\ in'[q] = in[q] /\ fd'[q] = fd[q] /\ fds'[q] = fds[q]
          /\ at'[Main] = "parent" /\ stage'[Main] = k /\ procs' = c
      BY <1>3, <1>6, <1>8, <2>2
    <3>4. at[q] # "none" => stage[q] <= k
      BY <1>2, <3>1, <3>2
    <3> QED BY <3>1, <3>3, <3>4 DEF ChildPlace, NoWriteEnd
  <2> QED BY <2>1, <2>2
<1>11. OneEach(s)'
  <2>1. ASSUME NEW q \in Children(s), at[q] # "none" PROVE stage[q] # k
    <3>1. stage[q] < k /\ stage[q] \in Nat
      BY <1>1, <1>2, <2>1 DEF Placed, ChildPlace, Children, TableTypes, k
    <3> QED BY <1>2, <3>1
  <2> QED BY <1>8, <1>9, <2>1 DEF Placed, OneEach
<1> QED BY <1>5, <1>7, <1>10, <1>11 DEF Placed

LEMMA ForkFailPlaces ==
  ASSUME NEW s, Sizes(s), Placed(s), NEW p \in Pids(s), Run(s)!ForkFail(p)
  PROVE  Placed(s)'
<1>1. p = Main /\ TableTypes(s) /\ MainPlace(s) /\ Main \in Pids(s)
  BY Enough DEF Run!ForkFail, Placed, ChildPlace, Children
<1>2. /\ at[Main] = "fork" /\ at' = [at EXCEPT ![Main] = "parent"]
      /\ UNCHANGED <<procs, pipes, stage, in, fd, fds>>
  BY <1>1 DEF Run!ForkFail, Run!Goes, Run!locals
<1>3. TableTypes(s)' /\ at'[Main] = "parent"
  BY <1>1, <1>2 DEF TableTypes
<1>4. MainPlace(s)'
  BY <1>1, <1>2, <1>3 DEF MainPlace
<1>5. \A q \in Children(s) : at'[q] = at[q]
  BY <1>1, <1>2 DEF TableTypes, Children
<1> QED BY <1>2, <1>3, <1>4, <1>5, MainMoves

LEMMA ParentPlaces ==
  ASSUME NEW s, Sizes(s), Placed(s), NEW p \in Pids(s), Run(s)!Parent(p)
  PROVE  Placed(s)'
<1> DEFINE k == stage[Main]
<1>1. p = Main /\ TableTypes(s) /\ MainPlace(s) /\ Main \in Pids(s)
  BY Enough DEF Run!Parent, Placed, ChildPlace, Children
<1>2. /\ k \in 0..(s.cmds - 2) /\ k \in Nat /\ pipes = k + 1 /\ k + 1 \in 0..(s.cmds - 1)
      /\ fds[Main] = Piped(s, k) /\ fd[Main] = <<k + 3, k + 4>> /\ at[Main] = "parent"
  BY <1>1 DEF Run!Parent, MainPlace, Sizes
<1>3. /\ fds' = [fds EXCEPT ![Main] = Run(s)!Close(fds[Main], fd[Main][2])]
      /\ in' = [in EXCEPT ![Main] = fd[Main][1]]
      /\ stage' = [stage EXCEPT ![Main] = stage[Main] + 1]
      /\ at' = [at EXCEPT ![Main] = "pipe"] /\ UNCHANGED <<procs, pipes, fd>>
  BY <1>1 DEF Run!Parent, Run!Goes
<1>4. /\ fds' = [fds EXCEPT ![Main] = Table(s, k + 1)] /\ in' = [in EXCEPT ![Main] = k + 3]
      /\ stage' = [stage EXCEPT ![Main] = k + 1]
  <2>1. Run(s)!Close(Piped(s, k), k + 4) = Table(s, k + 1)
    BY <1>2, PipedIs
  <2> HIDE DEF k
  <2>2. stage[Main] = k
    BY DEF k
  <2>3. fd[Main][1] = k + 3 /\ fd[Main][2] = k + 4
    BY <1>2
  <2>4. Run(s)!Close(fds[Main], fd[Main][2]) = Table(s, k + 1)
    BY <1>2, <2>1, <2>3
  <2> QED BY <1>3, <2>2, <2>3, <2>4
<1>5. Table(s, k + 1) \in Tables(s) /\ k + 3 \in Nat /\ k + 1 \in Nat /\ Input(k + 1) = k + 3
  <2> HIDE DEF k
  <2>1. k + 1 # 0 /\ (k + 1) + 2 = k + 3
    BY <1>2
  <2> QED BY <1>2, <2>1, TableIs DEF Input
<1> HIDE DEF k
<1>6. TableTypes(s)'
  BY <1>1, <1>3, <1>4, <1>5 DEF TableTypes
<1>7. /\ at'[Main] = "pipe" /\ stage'[Main] = k + 1 /\ in'[Main] = k + 3
      /\ fds'[Main] = Table(s, k + 1) /\ pipes' = k + 1
  BY <1>1, <1>2, <1>3, <1>4 DEF TableTypes
<1>8. MainPlace(s)'
  BY <1>1, <1>2, <1>3, <1>5, <1>7 DEF MainPlace
<1>9. \A q \in Children(s) : /\ at'[q] = at[q] /\ fds'[q] = fds[q] /\ in'[q] = in[q]
                             /\ stage'[q] = stage[q] /\ fd'[q] = fd[q]
  BY <1>1, <1>3, <1>4 DEF TableTypes, Children
<1>10. stage'[Main] = stage[Main] + 1
  BY <1>7 DEF k
<1> QED BY <1>3, <1>6, <1>8, <1>9, <1>10, MainMoves

LEMMA LastStagePlaces ==
  ASSUME NEW s, Sizes(s), Placed(s), NEW p \in Pids(s), Run(s)!LastStage(p)
  PROVE  Placed(s)'
<1> DEFINE k == stage[Main]
           t == IF Input(k) # 0 THEN Run(s)!Dup2(Table(s, k), Input(k), 0) ELSE Table(s, k)
           u == Run(s)!Dup2(Run(s)!Opened(t, File), Run(s)!Lowest(t), 1)
<1>1. p = Main /\ TableTypes(s) /\ MainPlace(s) /\ Main \in Pids(s)
  BY Enough DEF Run!LastStage, Placed, ChildPlace, Children
<1>2. k = s.cmds - 1 /\ fds[Main] = Table(s, k) /\ in[Main] = Input(k) /\ at[Main] = "pipe"
  BY <1>1 DEF Run!LastStage, MainPlace
<1>3. PICK v \in {t, u} : fds' = [fds EXCEPT ![Main] = v] /\ (v = u \/ s.open_fails)
  <2>1. t = IF in[Main] # 0 THEN Run(s)!Dup2(fds[Main], in[Main], 0) ELSE fds[Main]
    BY <1>2
  <2> HIDE DEF t, k
  <2> QED BY <1>1, <2>1 DEF Run!LastStage, File
<1>4. at' = [at EXCEPT ![Main] = "exec"] /\ UNCHANGED <<procs, pipes, stage, in, fd>>
  BY <1>1 DEF Run!LastStage, Run!Goes, Run!locals
<1>5. /\ v \in Tables(s) /\ v[0] = In(k) /\ v[1] \in {File, Tty} /\ NoWriteEnd(v, Fds(s))
      /\ ~ s.open_fails => v[1] = File
  <2>1. /\ t \in Tables(s) /\ t[0] = In(k) /\ t[1] = Tty /\ NoWriteEnd(t, Fds(s))
        /\ u \in Tables(s) /\ u[0] = In(k) /\ u[1] = File /\ NoWriteEnd(u, Fds(s))
    <3>1. t = IF Input(k) # 0 THEN Run(s)!Dup2(Table(s, k), Input(k), 0) ELSE Table(s, k)
      OBVIOUS
    <3>2. u = Run(s)!Dup2(Run(s)!Opened(t, File), Run(s)!Lowest(t), 1)
      OBVIOUS
    <3> HIDE DEF t, u, k
    <3> QED BY <1>2, <3>1, <3>2, LastTable
  <2> HIDE DEF t, u
  <2> QED BY <1>3, <2>1
<1> HIDE DEF t, u
<1>6. TableTypes(s)'
  BY <1>1, <1>3, <1>4, <1>5 DEF TableTypes
<1>7. at'[Main] = "exec" /\ fds'[Main] = v
  BY <1>1, <1>3, <1>4 DEF TableTypes
<1>8. MainPlace(s)'
  BY <1>1, <1>2, <1>4, <1>5, <1>7 DEF MainPlace
<1>9. \A q \in Children(s) : at'[q] = at[q] /\ fds'[q] = fds[q]
  BY <1>1, <1>3, <1>4 DEF TableTypes, Children
<1> QED BY <1>4, <1>6, <1>7, <1>8, <1>9, MainMoves

LEMMA RedirectPlaces ==
  ASSUME NEW s, Sizes(s), Placed(s), NEW p \in Pids(s), Run(s)!Redirect(p)
  PROVE  Placed(s)'
<1> DEFINE k == stage[p]
           u == Run(s)!Moved(Run(s)!Moved(Piped(s, k), Input(k), 0), k + 4, 1)
<1>1. at[p] = "redirect" /\ TableTypes(s) /\ MainPlace(s)
  BY DEF Run!Redirect, Placed
<1>2. p \in Children(s)
  BY <1>1 DEF MainPlace, Children
<1>3. k \in 0..(s.cmds - 2) /\ in[p] = Input(k) /\ fd[p] = <<k + 3, k + 4>> /\ fds[p] = Piped(s, k)
  BY <1>1, <1>2 DEF Placed, ChildPlace
<1>4. /\ fds' = [fds EXCEPT ![p] = Run(s)!Moved(Run(s)!Moved(fds[p], in[p], 0), fd[p][2], 1)]
      /\ at' = [at EXCEPT ![p] = "exec"] /\ UNCHANGED <<procs, pipes, stage, in, fd>>
  BY DEF Run!Redirect, Run!Goes, Run!locals
<1>5. fds' = [fds EXCEPT ![p] = u]
  BY <1>3, <1>4
<1>6. /\ u \in Tables(s) /\ u[0] = In(k) /\ u[1] = W(k + 1) /\ u[k + 3] = R(k + 1)
      /\ NoWriteEnd(u, Fds(s) \ {1})
  <2>1. u = Run(s)!Moved(Run(s)!Moved(Piped(s, k), Input(k), 0), k + 4, 1)
    OBVIOUS
  <2> HIDE DEF u, k
  <2> QED BY <1>3, <2>1, RedirectTable
<1> HIDE DEF u
<1> QED BY <1>1, <1>2, <1>4, <1>5, <1>6, ChildMoves

\* The program of the command begins with the descriptors it finds.
LEMMA ExecPlaces ==
  ASSUME NEW s, Sizes(s), Placed(s), NEW p \in Pids(s), Run(s)!Exec(p)
  PROVE  Placed(s)'
<1>1. /\ at[p] = "exec" /\ at' = [at EXCEPT ![p] = "running"]
      /\ UNCHANGED <<procs, pipes, stage, in, fd, fds>> /\ TableTypes(s) /\ MainPlace(s)
  BY DEF Run!Exec, Run!Goes, Run!locals, Placed
<1>2. CASE p = Main
  <2>1. TableTypes(s)' /\ at'[Main] = "running"
    BY <1>1, <1>2 DEF TableTypes
  <2>2. MainPlace(s)'
    BY <1>1, <1>2, <2>1 DEF MainPlace
  <2>3. \A q \in Children(s) : at'[q] = at[q]
    BY <1>1, <1>2 DEF TableTypes, Children
  <2> QED BY <1>1, <2>1, <2>2, <2>3, MainMoves
<1>3. CASE p # Main
  <2>1. p \in Children(s) /\ fds[p] \in Tables(s) /\ fds' = [fds EXCEPT ![p] = fds[p]]
    BY <1>1, <1>3 DEF Children, TableTypes
  <2>2. ChildPlace(s, p)
    BY <2>1 DEF Placed
  <2> QED BY <1>1, <2>1, <2>2, ChildMoves DEF ChildPlace
<1> QED BY <1>2, <1>3

LEMMA EndPlaces ==
  ASSUME NEW s, Sizes(s), Placed(s), NEW p \in Pids(s), Run(s)!End(p)
  PROVE  Placed(s)'
<1>1. /\ at[p] = "running" /\ at' = [at EXCEPT ![p] = "exited"]
      /\ fds' = [fds EXCEPT ![p] = Run(s)!AllClosed]
      /\ UNCHANGED <<procs, pipes, stage, in, fd>> /\ TableTypes(s) /\ MainPlace(s)
  BY DEF Run!End, Run!Exits, Run!Goes, Run!locals, Placed
<1>2. Run(s)!AllClosed \in Tables(s)
  BY EntriesAre DEF Run!AllClosed, Tables, Closed, Run!Closed, Fds
<1>3. CASE p = Main
  <2>1. TableTypes(s)' /\ at'[Main] = "exited"
    BY <1>1, <1>2, <1>3 DEF TableTypes
  <2>2. MainPlace(s)'
    BY <1>1, <1>3, <2>1 DEF MainPlace
  <2>3. \A q \in Children(s) : at'[q] = at[q] /\ fds'[q] = fds[q]
    BY <1>1, <1>3 DEF TableTypes, Children
  <2> QED BY <1>1, <2>1, <2>2, <2>3, MainMoves
<1>4. CASE p # Main
  <2>1. p \in Children(s) /\ at[p] # "none"
    BY <1>1, <1>4 DEF Children
  <2>2. "exited" \in {"exec", "running", "exited"} /\ "exited" \notin {"exec", "running"}
    OBVIOUS
  <2> DEFINE t == Run(s)!AllClosed
  <2>3. t \in Tables(s) /\ fds' = [fds EXCEPT ![p] = t]
    BY <1>1, <1>2
  <2> HIDE DEF t
  <2> QED BY <1>1, <2>1, <2>2, <2>3, ChildMoves
<1> QED BY <1>3, <1>4

LEMMA StepPlaces ==
  ASSUME NEW s
  PROVE  Sizes(s) /\ Placed(s) /\ [Run(s)!Next]_(Run(s)!vars) => Placed(s)'
<1> SUFFICES ASSUME Sizes(s), Placed(s), [Run(s)!Next]_(Run(s)!vars) PROVE Placed(s)'
  OBVIOUS
<1>1. CASE UNCHANGED Run(s)!vars
  BY <1>1, SamePlaces DEF Run!vars, Run!locals, place_vars
<1>2. CASE Run(s)!Next
  <2>1. PICK p \in Pids(s) : Run(s)!Spawns(p) \/ Run(s)!Works(p)
    BY <1>2 DEF Run!Next, Pids
  <2>2. ~ Run(s)!ExecFail(p)
    BY DEF Run!ExecFail, Sizes
  <2>3. CASE Run(s)!ReadItem(p) \/ Run(s)!WriteItem(p)
    <3>1. UNCHANGED place_vars
      BY <2>3 DEF Run!ReadItem, Run!WriteItem, Run!locals, place_vars
    <3> QED BY <3>1, SamePlaces
  <2> QED BY <2>1, <2>2, <2>3, PipePlaces, ForkPlaces, ForkFailPlaces, ParentPlaces,
             LastStagePlaces, RedirectPlaces, ExecPlaces, EndPlaces
          DEF Run!Spawns, Run!Works
<1> QED BY <1>1, <1>2

LEMMA PlacedKeepEnds ==
  ASSUME NEW s
  PROVE  Sizes(s) /\ Placed(s) => Run(s)!WriteEndsKept
<1> SUFFICES ASSUME Sizes(s), Placed(s), NEW p \in Pids(s)
             PROVE  /\ at[p] = "running" =>
                       /\ Run(s)!WriteEnds(p) = IF stage[p] < s.cmds - 1 THEN {1} ELSE {}
                       /\ stage[p] < s.cmds - 1 => Run(s)!Holds(p, Run(s)!R(fds[p][1][2]))
                       /\ stage[p] > 0 => fds[p][0] = Run(s)!R(fds[p][0][2])
                       /\ stage[p] \in 1..(s.cmds - 2) => fds[p][0][2] # fds[p][1][2]
                    /\ at[p] = "pipe" /\ p = Main => Run(s)!WriteEnds(p) = {}
  BY DEF Run!WriteEndsKept, Pids, Main, Run!Main
<1>1. Run(s)!WriteEnds(p) = {f \in Fds(s) : fds[p][f][1] = "w"}
  BY DEF Run!WriteEnds, Fds
<1>2. TableTypes(s) /\ MainPlace(s) /\ stage[p] \in Nat
  BY DEF Placed, TableTypes
<1>3. CASE p = Main /\ at[p] = "running"
  <2>1. stage[p] = s.cmds - 1 /\ fds[p][0] = In(stage[p]) /\ Run(s)!WriteEnds(p) = {}
    BY <1>1, <1>2, <1>3 DEF MainPlace, NoWriteEnd
  <2>2. stage[p] > 0 => fds[p][0] = Run(s)!R(stage[p])
    BY <2>1 DEF In, R, Run!R
  <2>3. ~ (stage[p] < s.cmds - 1) /\ stage[p] \notin 1..(s.cmds - 2)
    BY <2>1 DEF Sizes
  <2> QED BY <1>2, <1>3, <2>1, <2>2, <2>3, EntriesAre DEF R, Run!R
<1>4. CASE p = Main /\ at[p] = "pipe"
  <2>1. fds[p] = Table(s, stage[p]) /\ stage[p] \in 0..(s.cmds - 1)
    BY <1>2, <1>4 DEF MainPlace
  <2>2. NoWriteEnd(fds[p], Fds(s))
    BY <2>1, TableIs
  <2> QED BY <1>1, <1>4, <2>2 DEF NoWriteEnd
<1>5. CASE p # Main /\ at[p] = "running"
  <2>1. /\ stage[p] \in 0..(s.cmds - 2) /\ fds[p][0] = In(stage[p])
        /\ fds[p][1] = W(stage[p] + 1) /\ fds[p][stage[p] + 3] = R(stage[p] + 1)
        /\ NoWriteEnd(fds[p], Fds(s) \ {1})
    BY <1>5 DEF Placed, ChildPlace, Children
  <2>2. /\ stage[p] < s.cmds - 1 /\ stage[p] + 3 \in Fds(s) /\ 1 \in Fds(s) /\ stage[p] + 1 \in Nat
        /\ stage[p] + 1 # stage[p]
    <3>1. stage[p] < s.cmds - 1 /\ stage[p] + 3 \in 0..s.max_fd /\ 1 \in 0..s.max_fd
      BY <2>1 DEF Sizes
    <3>2. stage[p] + 3 \in Fds(s) /\ 1 \in Fds(s)
      BY <3>1, Enough
    <3> QED BY <1>2, <3>1, <3>2
  <2>3. Run(s)!WriteEnds(p) = {1}
    BY <1>1, <2>1, <2>2, EntriesAre DEF NoWriteEnd
  <2>4. Run(s)!Holds(p, Run(s)!R(fds[p][1][2]))
    BY <2>1, <2>2, EntriesAre DEF Run!Holds, R, Run!R, Fds
  <2>5. stage[p] > 0 => fds[p][0] = R(stage[p])
    BY <1>2, <2>1 DEF In
  <2>6. stage[p] > 0 => fds[p][0] = Run(s)!R(fds[p][0][2]) /\ fds[p][0][2] # fds[p][1][2]
    BY <1>2, <2>1, <2>2, <2>5, EntriesAre DEF R, Run!R
  <2> QED BY <1>5, <2>2, <2>3, <2>4, <2>6
<1> QED BY <1>3, <1>4, <1>5

(***************************************************************************)
(* However long the pipeline is, whichever programs end early and whether  *)
(* forks fail or not, each stage has the ends it should and no write end   *)
(* that would keep its reader waiting (fork_pipes, lines 135-169), as long *)
(* as every command can be executed.                                       *)
(***************************************************************************)
THEOREM EndsFitAnyLength ==
  ASSUME NEW s, Sizes(s)
  PROVE  Run(s)!Init /\ [][Run(s)!Next]_(Run(s)!vars) => []Run(s)!WriteEndsKept
<1>1. Run(s)!Init => Placed(s)
  BY InitPlaces
<1>2. Placed(s) /\ [Run(s)!Next]_(Run(s)!vars) => Placed(s)'
  BY StepPlaces
<1>3. Placed(s) => Run(s)!WriteEndsKept
  BY PlacedKeepEnds
<1> QED BY <1>1, <1>2, <1>3, PTL

-------------------------------------------------------------------------------
(***************************************************************************)
(* The items on their way.  Of the items that reached stage k's input,     *)
(* e[k] many, the last ones wait in it, in order; the stage has taken the  *)
(* others, and passed on what it has no longer in hand.                    *)
(***************************************************************************)
Hold(k)     == IF k = 0 THEN tty ELSE pipe[k]
Begun(s, k)    == \E p \in Pids(s) : at[p] \in {"running", "exited"} /\ stage[p] = k
Taken(e, k) == e[k] - Len(Hold(k))

DataTypes(s) ==
  /\ hand \in [Pids(s) -> Nat] /\ offset \in [Pids(s) -> Nat]
  /\ tty \in Seq(Nat) /\ file \in Seq(Nat) /\ pipe \in [Run(s)!Pipes -> Seq(Nat)]

HoldIs(s, e, k) ==
  /\ Len(Hold(k)) <= e[k]
  /\ \A j \in 1..Len(Hold(k)) : Hold(k)[j] = Taken(e, k) + j
  /\ ~ Begun(s, k) => Taken(e, k) = 0 /\ e[k + 1] = 0

\* Programs that run to the end of their input, and a file to write to.
Keeps(s) == s.quitters = {} /\ ~ s.open_fails

HandIs(s, e, p) ==
  /\ at[p] \notin {"running", "exited"} => hand[p] = 0
  /\ at[p] = "running" /\ fds[p][1] # Tty =>
       \/ hand[p] = 0 /\ Taken(e, stage[p]) = e[stage[p] + 1]
       \/ hand[p] = Taken(e, stage[p]) /\ hand[p] = e[stage[p] + 1] + 1
  /\ at[p] = "exited" /\ Keeps(s) =>
       hand[p] = 0 /\ Taken(e, stage[p]) = e[stage[p] + 1]

Flow(s, e) ==
  /\ e[0] = s.items /\ e[s.cmds] = Len(file)
  /\ \A k \in 0..(s.cmds - 1) : HoldIs(s, e, k)
  /\ \A p \in Pids(s) : HandIs(s, e, p)
  /\ offset[Main] = Len(file) /\ \A j \in 1..Len(file) : file[j] = j

Counts(s) == [0..s.cmds -> Nat]
Flows(s)  == DataTypes(s) /\ \E e \in Counts(s) : Flow(s, e)

LEMMA InitFlows ==
  ASSUME NEW s
  PROVE  Sizes(s) /\ Run(s)!Init => Flows(s)
<1> SUFFICES ASSUME Sizes(s), Run(s)!Init PROVE Flows(s)
  OBVIOUS
<1> DEFINE e == [k \in 0..s.cmds |-> IF k = 0 THEN s.items ELSE 0]
<1>1. e \in Counts(s) /\ e[0] = s.items /\ \A k \in 1..s.cmds : e[k] = 0
  BY DEF Counts, Sizes
<1> HIDE DEF e
<1>2. /\ tty = [j \in 1..s.items |-> j] /\ file = <<>>
      /\ pipe = [k \in Run(s)!Pipes |-> <<>>]
      /\ hand = [p \in Pids(s) |-> 0] /\ offset = [p \in Pids(s) |-> 0]
  BY DEF Run!Init, Run!Nothing, Pids
<1>3. DataTypes(s) /\ Len(tty) = s.items /\ Len(file) = 0
  BY <1>2 DEF DataTypes, Sizes
<1>4. \A p \in Pids(s) : hand[p] = 0 /\ at[p] # "running" /\ at[p] # "exited"
  BY <1>2 DEF Run!Init, Pids
<1>5. ASSUME NEW k \in 0..(s.cmds - 1) PROVE HoldIs(s, e, k)
  <2>1. e[k + 1] = 0
    BY <1>1 DEF Sizes
  <2>2. CASE k = 0
    BY <1>1, <1>2, <1>3, <2>1, <2>2 DEF HoldIs, Hold, Taken, Sizes
  <2>3. CASE k # 0
    <3>1. k \in 1..(s.cmds - 1) /\ k \in 1..s.cmds
      BY <2>3, StageNumbers
    <3>2. k \in Run(s)!Pipes
      BY <3>1, Enough
    <3>3. Hold(k) = <<>> /\ e[k] = 0
      BY <1>1, <1>2, <2>3, <3>1, <3>2 DEF Hold
    <3>4. Len(Hold(k)) = 0
      BY <3>3
    <3>5. Taken(e, k) = e[k] - Len(Hold(k)) /\ e[k] = 0
      BY <3>3 DEF Taken
    <3>6. Taken(e, k) = 0 /\ Len(Hold(k)) <= e[k]
      BY <3>4, <3>5
    <3> QED BY <2>1, <3>4, <3>6 DEF HoldIs
  <2> QED BY <2>2, <2>3
<1>6. \A p \in Pids(s) : HandIs(s, e, p)
  BY <1>4 DEF HandIs
<1>7. Flow(s, e)
  <2>1. s.cmds \in 1..s.cmds /\ Main \in Pids(s)
    BY StageNumbers, Enough
  <2>2. e[s.cmds] = Len(file) /\ offset[Main] = Len(file)
    BY <1>1, <1>2, <1>3, <2>1
  <2> QED BY <1>1, <1>2, <1>5, <1>6, <2>2 DEF Flow
<1> QED BY <1>1, <1>3, <1>7 DEF Flows

\* What a stage reads is what stage and pipe say; no other process reads it.
LEMMA StageAlone ==
  ASSUME NEW s, Sizes(s), Placed(s), NEW p \in Pids(s), at[p] \in {"exec", "running"}
  PROVE  /\ stage[p] \in 0..(s.cmds - 1) /\ stage[p] \in Nat /\ fds[p][0] = In(stage[p])
         /\ p = Main => stage[p] = s.cmds - 1 /\ fds[p][1] \in {File, Tty}
         /\ p # Main => stage[p] + 1 < s.cmds /\ fds[p][1] = W(stage[p] + 1)
         /\ \A q \in Pids(s) : q # p /\ at[q] \in {"exec", "running", "exited"} => stage[q] # stage[p]
<1>1. CASE p = Main
  <2>1. \A q \in Pids(s) : q # p /\ at[q] # "none" => stage[q] \in 0..(s.cmds - 2)
    BY <1>1 DEF Placed, ChildPlace, Children
  <2> QED BY <1>1, <2>1 DEF Placed, MainPlace, Sizes
<1>2. CASE p # Main
  <2>1. p \in Children(s) /\ ChildPlace(s, p)
    BY <1>2 DEF Placed, Children
  <2>2. at[Main] \in {"exec", "running", "exited"} => stage[Main] = s.cmds - 1
    BY DEF Placed, MainPlace
  <2>3. stage[p] \in 0..(s.cmds - 2)
    BY <2>1 DEF ChildPlace
  <2>4. ASSUME NEW q \in Pids(s), q # p, at[q] \in {"exec", "running", "exited"}
        PROVE  stage[q] # stage[p]
    <3>1. CASE q = Main
      BY <2>2, <2>3, <2>4, <3>1 DEF Sizes
    <3>2. CASE q # Main
      BY <2>1, <2>4, <3>2 DEF Placed, OneEach, Children
    <3> QED BY <3>1, <3>2
  <2> QED BY <1>2, <2>1, <2>3, <2>4 DEF ChildPlace, Sizes
<1> QED BY <1>1, <1>2

\* A step that moves no item and begins no program.
LEMMA StageIn ==
  ASSUME NEW s, Sizes(s), Placed(s), NEW p \in Pids(s), at[p] # "none"
  PROVE  stage[p] \in 0..(s.cmds - 1)
<1>1. CASE p = Main
  BY <1>1 DEF Placed, MainPlace
<1>2. CASE p # Main
  <2>1. stage[p] \in 0..(s.cmds - 2)
    BY <1>2 DEF Placed, ChildPlace, Children
  <2> QED BY <2>1 DEF Sizes
<1> QED BY <1>1, <1>2

LEMMA QuietFlows ==
  ASSUME NEW s, Sizes(s), Placed(s), Flows(s), UNCHANGED <<hand, offset, tty, pipe, file>>,
         \A p \in Pids(s) :
           /\ at'[p] = "running" => at[p] = "running" /\ fds'[p] = fds[p]
           /\ at[p] \in {"running", "exited"} =>
                at'[p] \in {"running", "exited"} /\ stage'[p] = stage[p]
           /\ at'[p] \in {"running", "exited"} => at[p] \in {"running", "exited"}
           /\ at'[p] = "exited" /\ at[p] = "running" /\ Keeps(s) =>
                hand[p] = 0 /\ fds[p][1] # Tty
  PROVE  Flows(s)'
<1>1. PICK e \in Counts(s) : Flow(s, e)
  BY DEF Flows
<1>2. \A k \in 0..(s.cmds - 1) : HoldIs(s, e, k)'
  <2> SUFFICES ASSUME NEW k \in 0..(s.cmds - 1) PROVE HoldIs(s, e, k)'
    OBVIOUS
  <2>1. Begun(s, k) => Begun(s, k)'
    BY DEF Begun
  <2>2. Hold(k)' = Hold(k) /\ Taken(e, k)' = Taken(e, k)
    BY DEF Hold, Taken
  <2> QED BY <1>1, <2>1, <2>2 DEF Flow, HoldIs
<1>3. \A p \in Pids(s) : HandIs(s, e, p)'
  <2> SUFFICES ASSUME NEW p \in Pids(s) PROVE HandIs(s, e, p)'
    OBVIOUS
  <2>1. \A k : Taken(e, k)' = Taken(e, k)
    BY DEF Taken, Hold
  <2>2. HandIs(s, e, p)
    BY <1>1 DEF Flow
  <2>3. CASE at'[p] = "exited" /\ at[p] = "running"
    <3>1. hand[p] = 0 \/ ~ Keeps(s)
      BY <2>3
    <3>2. Keeps(s) => Taken(e, stage[p]) = e[stage[p] + 1]
      <4>1. e[stage[p] + 1] \in Nat
        BY <2>3, StageIn, StageNumbers DEF Counts
      <4> QED BY <2>2, <2>3, <4>1 DEF HandIs
    <3> QED BY <2>1, <2>3, <3>1, <3>2 DEF HandIs
  <2>4. CASE ~ (at'[p] = "exited" /\ at[p] = "running")
    BY <2>1, <2>2, <2>4 DEF HandIs
  <2> QED BY <2>3, <2>4
<1>4. Flow(s, e)'
  BY <1>1, <1>2, <1>3 DEF Flow
<1> QED BY <1>1, <1>4 DEF Flows, DataTypes

LEMMA BeginFlows ==
  ASSUME NEW s, Sizes(s), Placed(s), Flows(s), NEW p \in Pids(s), Run(s)!Exec(p)
  PROVE  Flows(s)'
<1>1. PICK e \in Counts(s) : Flow(s, e)
  BY DEF Flows
<1>2. PICK k \in Nat : k = stage[p]
  BY DEF Placed, TableTypes
<1>3. /\ at[p] = "exec" /\ at' = [at EXCEPT ![p] = "running"]
      /\ UNCHANGED <<stage, fds, hand, offset, tty, pipe, file>> /\ TableTypes(s)
  BY DEF Run!Exec, Run!Goes, Run!locals, Run!data, Placed
<1>4. at'[p] = "running" /\ \A q \in Pids(s) : q # p => at'[q] = at[q]
  BY <1>3 DEF TableTypes
<1>5. k \in 0..(s.cmds - 1) /\ ~ Begun(s, k)
  BY <1>2, <1>3, StageAlone DEF Begun
<1>6. \A m \in 0..(s.cmds - 1) : HoldIs(s, e, m)'
  <2> SUFFICES ASSUME NEW m \in 0..(s.cmds - 1) PROVE HoldIs(s, e, m)'
    OBVIOUS
  <2>1. Begun(s, m) => Begun(s, m)'
    BY <1>3, <1>4 DEF Begun
  <2>2. Hold(m)' = Hold(m) /\ Taken(e, m)' = Taken(e, m)
    BY <1>3 DEF Hold, Taken
  <2> QED BY <1>1, <2>1, <2>2 DEF Flow, HoldIs
<1>7. ASSUME NEW q \in Pids(s) PROVE HandIs(s, e, q)'
  <2>1. \A m : Taken(e, m)' = Taken(e, m)
    BY <1>3 DEF Taken, Hold
  <2>2. HandIs(s, e, q)
    BY <1>1 DEF Flow
  <2>3. CASE q = p
    <3>1. hand[p] = 0
      BY <1>3, <2>2, <2>3 DEF HandIs
    <3>2. Taken(e, k) = 0 /\ e[k + 1] = 0
      BY <1>1, <1>5 DEF Flow, HoldIs
    <3> QED BY <1>2, <1>3, <1>4, <2>1, <2>3, <3>1, <3>2 DEF HandIs
  <2>4. CASE q # p
    BY <1>3, <1>4, <2>1, <2>2, <2>4 DEF HandIs
  <2> QED BY <2>3, <2>4
<1>8. Flow(s, e)'
  BY <1>1, <1>3, <1>6, <1>7 DEF Flow
<1> QED BY <1>1, <1>3, <1>8 DEF Flows, DataTypes

LEMMA ReadFlows ==
  ASSUME NEW s, Sizes(s), Placed(s), Flows(s), NEW p \in Pids(s), Run(s)!ReadItem(p)
  PROVE  Flows(s)'
<1>1. PICK e \in Counts(s) : Flow(s, e)
  BY DEF Flows
<1>2. PICK k \in Nat : k = stage[p]
  BY DEF Placed, TableTypes
<1>3. /\ at[p] = "running" /\ hand[p] = 0
      /\ UNCHANGED <<procs, pipes, at, stage, in, fd, fds, offset, file>>
  BY DEF Run!ReadItem, Run!Nothing, Run!locals
<1>4. /\ k \in 0..(s.cmds - 1) /\ fds[p][0] = In(k)
      /\ \A q \in Pids(s) : q # p /\ at[q] \in {"running", "exited"} => stage[q] # k
  BY <1>2, <1>3, StageAlone
<1>5. DataTypes(s) /\ (k # 0 => k \in Run(s)!Pipes) /\ \A m \in 0..(s.cmds - 1) : Hold(m) \in Seq(Nat)
  <2>1. DataTypes(s)
    BY DEF Flows
  <2>2. \A m \in 0..(s.cmds - 1) : m # 0 => m \in Run(s)!Pipes
    BY Enough DEF Sizes
  <2> QED BY <1>4, <2>1, <2>2 DEF DataTypes, Hold
<1>6. /\ Hold(k) # <<>> /\ hand' = [hand EXCEPT ![p] = Head(Hold(k))]
      /\ Hold(k)' = Tail(Hold(k)) /\ tty' \in Seq(Nat) /\ pipe' \in [Run(s)!Pipes -> Seq(Nat)]
      /\ \A m \in 0..(s.cmds - 1) : m # k => Hold(m)' = Hold(m)
  <2>1. CASE k = 0
    <3>1. fds[p][0][1] = "tty"
      BY <1>4, <2>1, EntriesAre DEF In
    <3>2. tty # <<>> /\ hand' = [hand EXCEPT ![p] = Head(tty)] /\ tty' = Tail(tty) /\ UNCHANGED pipe
      BY <3>1 DEF Run!ReadItem
    <3> QED BY <1>5, <2>1, <3>2 DEF Hold, DataTypes
  <2>2. CASE k # 0
    <3>1. fds[p][0][1] = "r" /\ fds[p][0][2] = k
      BY <1>4, <2>2, EntriesAre DEF In
    <3>2. /\ pipe[k] # <<>> /\ hand' = [hand EXCEPT ![p] = Head(pipe[k])]
          /\ pipe' = [pipe EXCEPT ![k] = Tail(pipe[k])] /\ UNCHANGED tty
      BY <3>1 DEF Run!ReadItem
    <3>3. Tail(pipe[k]) \in Seq(Nat) /\ k \in Run(s)!Pipes
      BY <1>5, <2>2, <3>2 DEF DataTypes
    <3>4. pipe'[k] = Tail(pipe[k]) /\ (\A m \in Run(s)!Pipes : m # k => pipe'[m] = pipe[m])
          /\ pipe' \in [Run(s)!Pipes -> Seq(Nat)]
      BY <1>5, <3>2, <3>3 DEF DataTypes
    <3>5. \A m \in 0..(s.cmds - 1) : m # 0 => m \in Run(s)!Pipes
      BY Enough DEF Sizes
    <3> QED BY <1>5, <2>2, <3>2, <3>4, <3>5 DEF Hold, DataTypes
  <2> QED BY <2>1, <2>2
<1>7. PICK h \in Seq(Nat) : h = Hold(k)
  BY <1>4, <1>5
<1>8. /\ Len(h) \in Nat /\ Len(h) >= 1 /\ e[k] \in Nat /\ e[k + 1] \in Nat /\ Len(h) <= e[k]
      /\ \A j \in 1..Len(h) : h[j] = (e[k] - Len(h)) + j
  <2>1. HoldIs(s, e, k) /\ h # <<>>
    BY <1>1, <1>4, <1>6, <1>7 DEF Flow
  <2>2. e[k] \in Nat /\ e[k + 1] \in Nat
    BY <1>4 DEF Counts, Sizes
  <2> QED BY <1>7, <2>1, <2>2 DEF HoldIs, Taken
<1>9. /\ Len(Tail(h)) = Len(h) - 1
      /\ \A j \in 1..(Len(h) - 1) : Tail(h)[j] = h[j + 1] /\ j + 1 \in 1..Len(h)
  BY <1>8
<1>10. Begun(s, k)
  BY <1>2, <1>3 DEF Begun
<1>11. Taken(e, k) = e[k] - Len(h) /\ Taken(e, k)' = (e[k] - Len(h)) + 1
  BY <1>6, <1>7, <1>8, <1>9 DEF Taken
<1>12. ASSUME NEW m \in 0..(s.cmds - 1) PROVE HoldIs(s, e, m)'
  <2>1. Begun(s, m)' <=> Begun(s, m)
    BY <1>3 DEF Begun
  <2>2. HoldIs(s, e, m)
    BY <1>1 DEF Flow
  <2>3. CASE m = k
    <3>1. Hold(k)' = Tail(h) /\ Len(Tail(h)) <= e[k]
      BY <1>6, <1>7, <1>8, <1>9
    <3>2. ASSUME NEW j \in 1..Len(Tail(h)) PROVE Tail(h)[j] = ((e[k] - Len(h)) + 1) + j
      <4>1. j \in 1..(Len(h) - 1)
        BY <1>9
      <4>2. Tail(h)[j] = h[j + 1] /\ j + 1 \in 1..Len(h)
        BY <1>9, <4>1
      <4>3. Tail(h)[j] = (e[k] - Len(h)) + (j + 1)
        BY <1>8, <4>2
      <4>4. (e[k] - Len(h)) + (j + 1) = ((e[k] - Len(h)) + 1) + j
        <5>1. \A a, b \in Int : a + (b + 1) = (a + 1) + b
          OBVIOUS
        <5>2. e[k] - Len(h) \in Int /\ j \in Int
          BY <1>8, <4>1
        <5> QED BY <5>1, <5>2
      <4> QED BY <4>3, <4>4
    <3> QED BY <1>10, <1>11, <2>1, <2>3, <3>1, <3>2 DEF HoldIs
  <2>4. CASE m # k
    BY <1>6, <2>1, <2>2, <2>4 DEF HoldIs, Taken
  <2> QED BY <2>3, <2>4
<1>13. hand'[p] = h[1] /\ h[1] = (e[k] - Len(h)) + 1 /\ \A q \in Pids(s) : q # p => hand'[q] = hand[q]
  BY <1>5, <1>6, <1>7, <1>8 DEF DataTypes
<1>14. ASSUME NEW q \in Pids(s) PROVE HandIs(s, e, q)'
  <2>1. HandIs(s, e, q)
    BY <1>1 DEF Flow
  <2>2. CASE q = p
    <3>1. fds[p][1] # Tty => Taken(e, k) = e[k + 1]
      BY <1>2, <1>3, <1>8, <2>1, <2>2 DEF HandIs
    <3>2. fds[p][1] # Tty => hand'[p] = Taken(e, k)' /\ hand'[p] = e[k + 1] + 1
      BY <1>11, <1>13, <3>1
    <3> QED BY <1>2, <1>3, <2>2, <3>2 DEF HandIs
  <2>3. CASE q # p /\ at[q] \in {"running", "exited"}
    <3>1. stage[q] # k /\ stage[q] \in 0..(s.cmds - 1)
      BY <1>4, <2>3, StageIn
    <3>2. Taken(e, stage[q])' = Taken(e, stage[q])
      BY <1>3, <1>6, <3>1 DEF Taken
    <3> QED BY <1>3, <1>13, <2>1, <2>3, <3>2 DEF HandIs
  <2>4. CASE q # p /\ at[q] \notin {"running", "exited"}
    BY <1>3, <1>13, <2>1, <2>4 DEF HandIs
  <2> QED BY <2>2, <2>3, <2>4
<1>15. Flow(s, e)'
  BY <1>1, <1>3, <1>12, <1>14 DEF Flow
<1>16. hand' \in [Pids(s) -> Nat]
  <2>1. Head(Hold(k)) \in Nat
    BY <1>6, <1>7
  <2> QED BY <1>5, <1>6, <2>1 DEF DataTypes
<1>17. DataTypes(s)'
  BY <1>3, <1>5, <1>6, <1>16 DEF DataTypes
<1> QED BY <1>1, <1>15, <1>17 DEF Flows

LEMMA WriteFlows ==
  ASSUME NEW s, Sizes(s), Placed(s), Flows(s), NEW p \in Pids(s), Run(s)!WriteItem(p)
  PROVE  Flows(s)'
<1>1. PICK e \in Counts(s) : Flow(s, e)
  BY DEF Flows
<1>2. PICK k \in Nat : k = stage[p]
  BY DEF Placed, TableTypes
<1>3. /\ at[p] = "running" /\ hand[p] # 0 /\ hand' = [hand EXCEPT ![p] = 0]
      /\ UNCHANGED <<procs, pipes, at, stage, in, fd, fds, tty>>
  BY DEF Run!WriteItem, Run!Nothing, Run!locals
<1>4. /\ k \in 0..(s.cmds - 1)
      /\ p = Main => k = s.cmds - 1 /\ fds[p][1] \in {File, Tty}
      /\ p # Main => k + 1 < s.cmds /\ fds[p][1] = W(k + 1)
      /\ \A q \in Pids(s) : q # p /\ at[q] \in {"running", "exited"} => stage[q] # k
  BY <1>2, <1>3, StageAlone
<1>5. DataTypes(s) /\ e[k] \in Nat /\ e[k + 1] \in Nat /\ k + 1 \in 0..s.cmds
  BY <1>4 DEF Flows, Counts, Sizes
<1>6. hand'[p] = 0 /\ hand' \in [Pids(s) -> Nat] /\ \A q \in Pids(s) : q # p => hand'[q] = hand[q]
  BY <1>3, <1>5 DEF DataTypes
<1>7. \A m : Begun(s, m)' <=> Begun(s, m)
  BY <1>3 DEF Begun
<1>8. HandIs(s, e, p) /\ HoldIs(s, e, k)
  BY <1>1, <1>4 DEF Flow
<1>9. fds[p][1] # Tty =>
        hand[p] = Taken(e, k) /\ hand[p] = e[k + 1] + 1 /\ hand[p] \in Nat
  BY <1>2, <1>3, <1>5, <1>8 DEF HandIs
<1>10. PICK d \in Counts(s) : /\ d[k + 1] = e[k + 1] + 1
                              /\ \A m \in 0..s.cmds : m # k + 1 => d[m] = e[m]
  <2> DEFINE d == [e EXCEPT ![k + 1] = e[k + 1] + 1]
  <2>1. d \in Counts(s) /\ d[k + 1] = e[k + 1] + 1 /\ \A m \in 0..s.cmds : m # k + 1 => d[m] = e[m]
    BY <1>5 DEF Counts
  <2> HIDE DEF d
  <2> QED BY <2>1
<1>11. d[0] = s.items
  BY <1>1, <1>5, <1>10 DEF Flow, Sizes
<1>12. Begun(s, k)
  BY <1>2, <1>3 DEF Begun
\* With the output to a pipe or the file: what the stages have in hand.
<1>13. ASSUME \A m \in 0..(s.cmds - 1) : Taken(d, m)' = Taken(e, m),
              fds[p][1] # Tty, NEW q \in Pids(s)
       PROVE  HandIs(s, d, q)'
  <2>1. HandIs(s, e, q)
    BY <1>1 DEF Flow
  <2>2. CASE q = p
    <3>1. Taken(d, k)' = d[k + 1]
      BY <1>4, <1>9, <1>10, <1>13
    <3> QED BY <1>2, <1>3, <1>6, <2>2, <3>1 DEF HandIs
  <2>3. CASE q # p /\ at[q] \in {"running", "exited"}
    <3>1. stage[q] # k /\ stage[q] \in 0..(s.cmds - 1)
      BY <1>4, <2>3, StageIn
    <3>2. d[stage[q] + 1] = e[stage[q] + 1]
      BY <1>5, <1>10, <3>1 DEF Sizes
    <3>3. Taken(d, stage[q])' = Taken(e, stage[q])
      BY <1>3, <1>13, <3>1
    <3> QED BY <1>3, <1>6, <2>1, <2>3, <3>2, <3>3 DEF HandIs
  <2>4. CASE q # p /\ at[q] \notin {"running", "exited"}
    BY <1>3, <1>6, <2>1, <2>4 DEF HandIs
  <2> QED BY <2>2, <2>3, <2>4
\* A stage behind p has its input as it was but for the item.
<1>14. ASSUME NEW m \in 0..(s.cmds - 1), m # k + 1, Hold(m)' = Hold(m) PROVE HoldIs(s, d, m)'
  <2>1. HoldIs(s, e, m) /\ d[m] = e[m]
    <3>1. m \in 0..s.cmds
      BY StageNumbers
    <3> QED BY <1>1, <1>10, <1>14, <3>1 DEF Flow
  <2>2. m # k => d[m + 1] = e[m + 1]
    BY <1>10, <1>14 DEF Sizes
  <2>3. Begun(s, m)' <=> Begun(s, m)
    BY <1>7
  <2>4. Taken(d, m)' = Taken(e, m)
    BY <1>14, <2>1 DEF Taken
  <2> QED BY <1>12, <1>14, <2>1, <2>2, <2>3, <2>4 DEF HoldIs
<1>15. CASE p # Main
  <2>1. k + 1 \in Run(s)!Pipes /\ k + 1 \in 0..(s.cmds - 1) /\ k + 1 # s.cmds /\ k + 1 # 0
    BY <1>4, <1>15, Enough DEF Sizes
  <2>2. fds[p][1][1] = "w" /\ fds[p][1][2] = k + 1 /\ fds[p][1] # Tty
    BY <1>4, <1>15, <2>1, EntriesAre
  <2>3. pipe' = [pipe EXCEPT ![k + 1] = Append(pipe[k + 1], hand[p])] /\ UNCHANGED <<offset, file>>
    BY <2>2 DEF Run!WriteItem
  <2>4. PICK h \in Seq(Nat) : h = pipe[k + 1]
    BY <1>5, <2>1 DEF DataTypes
  <2>5. PICK n \in Nat : n = hand[p]
    BY <1>9, <2>2
  <2>6. /\ pipe'[k + 1] = Append(h, n) /\ pipe' \in [Run(s)!Pipes -> Seq(Nat)]
        /\ \A m \in Run(s)!Pipes : m # k + 1 => pipe'[m] = pipe[m]
    <3>1. Append(h, n) \in Seq(Nat)
      BY <2>4, <2>5
    <3> QED BY <1>5, <2>1, <2>3, <2>4, <2>5, <3>1 DEF DataTypes
  <2>7. Hold(k + 1) = h /\ Hold(k + 1)' = Append(h, n)
    BY <2>1, <2>4, <2>6 DEF Hold
  <2>8. ASSUME NEW m \in 0..(s.cmds - 1), m # k + 1 PROVE Hold(m)' = Hold(m)
    <3>1. m # 0 => m \in Run(s)!Pipes
      BY Enough DEF Sizes
    <3> QED BY <1>3, <2>6, <2>8, <3>1 DEF Hold
  <2>9. Len(h) \in Nat /\ Len(Append(h, n)) = Len(h) + 1
    OBVIOUS
  <2>10. /\ Len(h) <= e[k + 1] /\ n = e[k + 1] + 1
         /\ \A j \in 1..Len(h) : h[j] = (e[k + 1] - Len(h)) + j
    <3>1. HoldIs(s, e, k + 1)
      BY <1>1, <2>1 DEF Flow
    <3> QED BY <1>9, <2>2, <2>5, <2>7, <3>1 DEF HoldIs, Taken
  <2>11. Taken(d, k + 1)' = e[k + 1] - Len(h)
    <3>1. Taken(d, k + 1)' = d[k + 1] - Len(Append(h, n))
      BY <2>7 DEF Taken
    <3>2. d[k + 1] = e[k + 1] + 1 /\ e[k + 1] \in Nat
      BY <1>5, <1>10
    <3> QED BY <2>9, <3>1, <3>2
  <2>12. HoldIs(s, d, k + 1)'
    <3>1. Len(Append(h, n)) <= d[k + 1]
      BY <1>5, <1>10, <2>9, <2>10
    <3>2. ASSUME NEW j \in 1..Len(Append(h, n)) PROVE Append(h, n)[j] = (e[k + 1] - Len(h)) + j
      <4>1. CASE j = Len(h) + 1
        BY <1>5, <2>9, <2>10, <4>1
      <4>2. CASE j # Len(h) + 1
        <5>1. j \in 1..Len(h)
          BY <2>9, <4>2
        <5>2. Append(h, n)[j] = h[j]
          BY <5>1
        <5> QED BY <2>10, <5>1, <5>2
      <4> QED BY <4>1, <4>2
    <3>3. ~ Begun(s, k + 1)' => Taken(d, k + 1)' = 0 /\ d[(k + 1) + 1] = 0
      <4>1. HoldIs(s, e, k + 1)
        BY <1>1, <2>1 DEF Flow
      <4>2. d[(k + 1) + 1] = e[(k + 1) + 1]
        BY <1>10, <2>1 DEF Sizes
      <4>3. Taken(e, k + 1) = e[k + 1] - Len(h)
        BY <2>7 DEF Taken
      <4> QED BY <1>7, <2>11, <4>1, <4>2, <4>3 DEF HoldIs
    <3> QED BY <2>7, <2>11, <3>1, <3>2, <3>3 DEF HoldIs
  <2>13. \A m \in 0..(s.cmds - 1) : HoldIs(s, d, m)'
    BY <1>14, <2>8, <2>12
  <2>14. ASSUME NEW m \in 0..(s.cmds - 1) PROVE Taken(d, m)' = Taken(e, m)
    <3>1. CASE m = k + 1
      BY <2>7, <2>11, <3>1 DEF Taken
    <3>2. CASE m # k + 1
      BY <1>10, <2>8, <3>2, StageNumbers DEF Taken
    <3> QED BY <3>1, <3>2
  <2>15. \A q \in Pids(s) : HandIs(s, d, q)'
    BY <1>13, <2>2, <2>14
  <2>16. d[s.cmds] = Len(file)
    BY <1>1, <1>10, <2>1, StageNumbers DEF Flow
  <2>17. Flow(s, d)'
    BY <1>1, <1>11, <2>3, <2>13, <2>15, <2>16 DEF Flow
  <2>18. DataTypes(s)'
    BY <1>3, <1>5, <1>6, <2>3, <2>6 DEF DataTypes
  <2> QED BY <2>17, <2>18 DEF Flows
<1>16. CASE p = Main /\ fds[p][1] = File
  <2>1. fds[p][1][1] = "file" /\ fds[p][1] # Tty
    BY <1>16, EntriesAre
  <2>2. offset[p] = Len(file) /\ Len(file) \in Nat
    BY <1>1, <1>5, <1>16 DEF Flow, DataTypes
  <2>3. PICK n \in Nat : n = hand[p]
    BY <1>9, <2>1
  <2>4. /\ offset' = [offset EXCEPT ![p] = offset[p] + 1] /\ UNCHANGED pipe
        /\ file' = Append(file, n)
    BY <2>1, <2>2, <2>3 DEF Run!WriteItem
  <2>5. k + 1 = s.cmds /\ e[s.cmds] = Len(file) /\ n = Len(file) + 1
    <3>1. e[s.cmds] = Len(file)
      BY <1>1 DEF Flow
    <3>2. n = e[k + 1] + 1
      BY <1>9, <1>16, <2>1, <2>3
    <3>3. k + 1 = s.cmds
      BY <1>4, <1>16, StageNumbers
    <3> QED BY <3>1, <3>2, <3>3
  <2>6. file' \in Seq(Nat) /\ Len(file') = Len(file) + 1 /\ d[s.cmds] = Len(file')
    <3>1. PICK f \in Seq(Nat) : f = file
      BY <1>5 DEF DataTypes
    <3>2. Append(f, n) \in Seq(Nat) /\ Len(Append(f, n)) = Len(f) + 1
      OBVIOUS
    <3>3. d[s.cmds] = e[s.cmds] + 1
      BY <1>10, <2>5
    <3> QED BY <2>4, <2>5, <3>1, <3>2, <3>3
  <2>7. offset'[Main] = Len(file') /\ offset' \in [Pids(s) -> Nat]
    BY <1>5, <1>16, <2>2, <2>4, <2>6 DEF DataTypes
  <2>8. ASSUME NEW j \in 1..Len(file') PROVE file'[j] = j
    <3>1. CASE j = Len(file) + 1
      BY <1>5, <2>4, <2>5, <3>1 DEF DataTypes
    <3>2. CASE j # Len(file) + 1
      <4>1. j \in 1..Len(file)
        BY <2>2, <2>6, <3>2
      <4>2. file'[j] = file[j]
        BY <1>5, <2>4, <4>1 DEF DataTypes
      <4> QED BY <1>1, <4>1, <4>2 DEF Flow
    <3> QED BY <3>1, <3>2
  <2>9. \A m \in 0..(s.cmds - 1) : Hold(m)' = Hold(m)
    BY <1>3, <2>4 DEF Hold
  <2>10. \A m \in 0..(s.cmds - 1) : m # k + 1 /\ d[m] = e[m]
    BY <1>10, <2>5 DEF Sizes
  <2>11. \A m \in 0..(s.cmds - 1) : HoldIs(s, d, m)' /\ Taken(d, m)' = Taken(e, m)
    BY <1>14, <2>9, <2>10 DEF Taken
  <2>12. \A q \in Pids(s) : HandIs(s, d, q)'
    BY <1>13, <2>1, <2>11
  <2>13. Flow(s, d)'
    BY <1>11, <2>6, <2>7, <2>8, <2>11, <2>12 DEF Flow
  <2>14. DataTypes(s)'
    BY <1>3, <1>5, <1>6, <2>4, <2>6, <2>7 DEF DataTypes
  <2> QED BY <2>13, <2>14 DEF Flows
<1>17. CASE p = Main /\ fds[p][1] = Tty
  <2>1. fds[p][1][1] = "tty"
    BY <1>17, EntriesAre
  <2>2. UNCHANGED <<offset, file, pipe>>
    BY <2>1 DEF Run!WriteItem
  <2>3. \A m : Hold(m)' = Hold(m) /\ Taken(e, m)' = Taken(e, m)
    BY <1>3, <2>2 DEF Hold, Taken
  <2>4. \A m \in 0..(s.cmds - 1) : HoldIs(s, e, m)'
    BY <1>1, <1>7, <2>3 DEF Flow, HoldIs
  <2>5. ASSUME NEW q \in Pids(s) PROVE HandIs(s, e, q)'
    <3>1. HandIs(s, e, q)
      BY <1>1 DEF Flow
    <3> QED BY <1>3, <1>6, <1>17, <2>3, <3>1 DEF HandIs
  <2>6. Flow(s, e)'
    BY <1>1, <2>2, <2>4, <2>5 DEF Flow
  <2> QED BY <1>3, <1>5, <1>6, <2>2, <2>6 DEF Flows, DataTypes
<1> QED BY <1>4, <1>15, <1>16, <1>17

\* The steps that move one process and no item.
LEMMA SpawnsFlow ==
  ASSUME NEW s, Sizes(s), Placed(s), Flows(s), NEW p \in Pids(s), Run(s)!Spawns(p) \/ Run(s)!End(p), ~ Run(s)!Exec(p)
  PROVE  Flows(s)'
<1>1. UNCHANGED <<hand, offset, tty, pipe, file>>
  BY DEF Run!Spawns, Run!Pipe, Run!Fork, Run!ForkFail, Run!Parent, Run!LastStage,
         Run!Redirect, Run!ExecFail, Run!End, Run!data
<1>2. TableTypes(s) /\ MainPlace(s) /\ ~ Run(s)!ExecFail(p)
  BY DEF Placed, Run!ExecFail, Sizes
<1>3. CASE Run(s)!Fork(p)
  <2>1. p = Main /\ Main = 1 /\ procs \in Nat
    BY <1>2, <1>3, Enough DEF Run!Fork, Placed, ChildPlace, Children, TableTypes
  <2>2. PICK c \in Nat : c = procs + 1
    BY <2>1
  <2>3. /\ at[p] = "fork" /\ at' = [at EXCEPT ![p] = "parent", ![c] = "redirect"]
        /\ stage' = [stage EXCEPT ![c] = stage[p]] /\ fds' = [fds EXCEPT ![c] = fds[p]]
    BY <1>3, <2>2 DEF Run!Fork
  <2>4. c > procs /\ procs >= 1
    BY <1>2, <2>1, <2>2 DEF MainPlace
  <2>5. c \in Pids(s) => c \in Children(s) /\ at[c] = "none"
    BY <2>1, <2>2, <2>4 DEF Placed, ChildPlace, Children
  <2>6. ASSUME NEW q \in Pids(s)
        PROVE  /\ q # p /\ q # c => at'[q] = at[q] /\ stage'[q] = stage[q] /\ fds'[q] = fds[q]
               /\ q = p \/ q = c => at[q] \in {"fork", "none"} /\ at'[q] \in {"parent", "redirect"}
    BY <1>2, <2>3, <2>5 DEF TableTypes
  <2> QED BY <1>1, <2>6, QuietFlows
<1>4. CASE ~ Run(s)!Fork(p)
  <2>1. PICK place \in {"pipe", "fork", "parent", "exec", "exited"} :
          /\ at' = [at EXCEPT ![p] = place]
          /\ (at[p] = "running" /\ place = "exited") \/ (at[p] \notin {"running", "exited"} /\ place # "exited")
    BY <1>2, <1>4 DEF Run!Spawns, Run!Pipe, Run!ForkFail, Run!Parent, Run!LastStage,
                      Run!Redirect, Run!End, Run!Exits, Run!Goes
  <2>2. /\ (\E t : fds' = [fds EXCEPT ![p] = t]) \/ UNCHANGED fds
        /\ UNCHANGED stage \/ (at[p] = "parent" /\ stage' = [stage EXCEPT ![p] = stage[p] + 1])
    BY <1>2, <1>4 DEF Run!Spawns, Run!Pipe, Run!ForkFail, Run!Parent, Run!LastStage,
                      Run!Redirect, Run!End, Run!Exits, Run!locals
  <2>3. at'[p] = place
    BY <1>2, <2>1 DEF TableTypes
  <2>4. at[p] = "running" => stage'[p] = stage[p]
    BY <2>2
  <2>5. \A q \in Pids(s) : q # p => at'[q] = at[q] /\ stage'[q] = stage[q] /\ fds'[q] = fds[q]
    BY <1>2, <2>1, <2>2 DEF TableTypes
  <2>6. ASSUME at'[p] = "exited", at[p] = "running", Keeps(s) PROVE hand[p] = 0 /\ fds[p][1] # Tty
    <3>1. Run(s)!End(p) /\ stage[p] \notin s.quitters
      BY <2>6 DEF Keeps, Run!Spawns, Run!Pipe, Run!Fork, Run!ForkFail, Run!Parent,
                  Run!LastStage, Run!Redirect, Run!ExecFail
    <3>2. hand[p] = 0
      BY <3>1 DEF Run!End, Run!Nothing
    <3>3. fds[p][1] = File \/ (\E k \in Nat : fds[p][1] = W(k))
      <4>1. CASE p = Main
        BY <1>2, <2>6, <4>1 DEF MainPlace, Keeps
      <4>2. CASE p # Main
        <5>1. stage[p] \in Nat /\ fds[p][1] = W(stage[p] + 1)
          BY <2>6, <4>2, StageAlone
        <5> QED BY <5>1
      <4> QED BY <4>1, <4>2
    <3> QED BY <3>2, <3>3, EntriesAre
  <2>7. \A q \in Pids(s) : q # p => at'[q] = at[q]
    BY <2>5
  <2> QED BY <1>1, <2>1, <2>3, <2>4, <2>5, <2>6, <2>7, QuietFlows
<1> QED BY <1>3, <1>4

LEMMA StepFlows ==
  ASSUME NEW s
  PROVE  Sizes(s) /\ Placed(s) /\ Flows(s) /\ [Run(s)!Next]_(Run(s)!vars) => Flows(s)'
<1> SUFFICES ASSUME Sizes(s), Placed(s), Flows(s), [Run(s)!Next]_(Run(s)!vars) PROVE Flows(s)'
  OBVIOUS
<1>1. CASE UNCHANGED Run(s)!vars
  <2>1. UNCHANGED <<at, stage, fds, hand, offset, tty, pipe, file>>
    BY <1>1 DEF Run!vars, Run!locals, Run!data
  <2> QED BY <2>1, QuietFlows
<1>2. CASE Run(s)!Next
  <2>1. PICK p \in Pids(s) : Run(s)!Spawns(p) \/ Run(s)!Works(p)
    BY <1>2 DEF Run!Next, Pids
  <2>2. CASE Run(s)!Exec(p)
    BY <2>2, BeginFlows
  <2>3. CASE (Run(s)!Spawns(p) \/ Run(s)!End(p)) /\ ~ Run(s)!Exec(p)
    BY <2>3, SpawnsFlow
  <2>4. CASE Run(s)!ReadItem(p)
    BY <2>4, ReadFlows
  <2>5. CASE Run(s)!WriteItem(p)
    BY <2>5, WriteFlows
  <2> QED BY <2>1, <2>2, <2>3, <2>4, <2>5 DEF Run!Works
<1> QED BY <1>1, <1>2

LEMMA FlowsAreWritten ==
  ASSUME NEW s, Flows(s)
  PROVE  Run(s)!WritesPrefix
<1> SUFFICES ASSUME NEW k \in DOMAIN file PROVE file[k] = k
  BY DEF Run!WritesPrefix
<1>1. k \in 1..Len(file)
  BY DEF Flows, DataTypes
<1> QED BY <1>1 DEF Flows, Flow

(***************************************************************************)
(* However long the pipeline is and whatever ends early, the result file   *)
(* has the input's first items, in order: no stage loses, repeats or mixes *)
(* what fork_pipes has connected it to (lines 135-169).                    *)
(***************************************************************************)
THEOREM FileIsPrefix ==
  ASSUME NEW s, Sizes(s)
  PROVE  Run(s)!Init /\ [][Run(s)!Next]_(Run(s)!vars) => []Run(s)!WritesPrefix
<1>1. Run(s)!Init => Placed(s) /\ Flows(s)
  BY InitPlaces, InitFlows
<1>2. (Placed(s) /\ Flows(s)) /\ [Run(s)!Next]_(Run(s)!vars) => (Placed(s) /\ Flows(s))'
  BY StepPlaces, StepFlows
<1>3. Placed(s) /\ Flows(s) => Run(s)!WritesPrefix
  BY FlowsAreWritten
<1> QED BY <1>1, <1>2, <1>3, PTL

-------------------------------------------------------------------------------
(***************************************************************************)
(* With programs that run to the end of their input, and a file to write   *)
(* to, what the stages hold are spans of the input that follow each other. *)
(***************************************************************************)
Span(a, b) == [j \in 1..(b - a) |-> a + j]

LEMMA SpanIs ==
  ASSUME NEW a \in Nat, NEW b \in Nat, a <= b
  PROVE  /\ Span(a, b) \in Seq(Nat) /\ Len(Span(a, b)) = b - a
         /\ \A j \in 1..(b - a) : Span(a, b)[j] = a + j
<1>1. b - a \in Nat /\ \A j \in 1..(b - a) : a + j \in Nat
  OBVIOUS
<1>2. Span(a, b) \in [1..(b - a) -> Nat]
  BY <1>1 DEF Span
<1> QED BY <1>1, <1>2 DEF Span

\* A sequence is a span when it has its items.
LEMMA IsSpan ==
  ASSUME NEW a \in Nat, NEW b \in Nat, a <= b, NEW q \in Seq(Nat),
         Len(q) = b - a, \A j \in 1..(b - a) : q[j] = a + j
  PROVE  q = Span(a, b)
<1>1. q = [j \in 1..Len(q) |-> q[j]]
  OBVIOUS
<1> QED BY <1>1 DEF Span

LEMMA Joined ==
  ASSUME NEW x \in Seq(Nat), NEW y \in Seq(Nat)
  PROVE  /\ x \o y \in Seq(Nat) /\ Len(x \o y) = Len(x) + Len(y)
         /\ \A j \in 1..Len(x) : (x \o y)[j] = x[j]
         /\ \A j \in 1..Len(y) : (x \o y)[Len(x) + j] = y[j]
OBVIOUS

LEMMA SpansJoin ==
  ASSUME NEW a \in Nat, NEW b \in Nat, NEW c \in Nat, a <= b, b <= c
  PROVE  Span(a, b) \o Span(b, c) = Span(a, c)
<1> DEFINE x == Span(a, b)
           y == Span(b, c)
<1>1. /\ x \in Seq(Nat) /\ Len(x) = b - a /\ \A j \in 1..(b - a) : x[j] = a + j
      /\ y \in Seq(Nat) /\ Len(y) = c - b /\ \A j \in 1..(c - b) : y[j] = b + j
  BY SpanIs
<1> HIDE DEF x, y
<1>6. /\ x \o y \in Seq(Nat) /\ Len(x \o y) = (b - a) + (c - b)
      /\ \A j \in 1..(b - a) : (x \o y)[j] = x[j]
      /\ \A j \in 1..(c - b) : (x \o y)[(b - a) + j] = y[j]
  <2>1. x \in Seq(Nat) /\ y \in Seq(Nat) /\ Len(x) = b - a /\ Len(y) = c - b
    BY <1>1
  <2>2. /\ x \o y \in Seq(Nat) /\ Len(x \o y) = Len(x) + Len(y)
        /\ \A j \in 1..Len(x) : (x \o y)[j] = x[j]
        /\ \A j \in 1..Len(y) : (x \o y)[Len(x) + j] = y[j]
    BY <2>1, Joined
  <2> QED BY <2>1, <2>2
<1>2. x \o y \in Seq(Nat) /\ Len(x \o y) = c - a
  BY <1>6
<1> HIDE DEF x, y
<1>3. ASSUME NEW j \in 1..(c - a) PROVE (x \o y)[j] = a + j
  <2>1. CASE j <= b - a
    <3>1. j \in 1..(b - a)
      BY <2>1
    <3> QED BY <1>1, <1>6, <3>1
  <2>2. CASE j > b - a
    <3>4. j - (b - a) \in 1..(c - b) /\ (b - a) + (j - (b - a)) = j
      BY <2>2
    <3>1. (x \o y)[j] = y[j - (b - a)] /\ j - (b - a) \in 1..(c - b)
      BY <1>6, <3>4
    <3>2. y[j - (b - a)] = b + (j - (b - a))
      BY <1>1, <3>1
    <3>3. b + (j - (b - a)) = a + j
      OBVIOUS
    <3> QED BY <3>1, <3>2, <3>3
  <2>3. j <= b - a \/ j > b - a
    OBVIOUS
  <2> QED BY <2>1, <2>2, <2>3
<1>4. a <= c
  OBVIOUS
<1>5. x \o y = Span(a, c)
  BY <1>2, <1>3, <1>4, IsSpan
<1> QED BY <1>5 DEF x, y

\* What stage k has in hand lies between what it passed on and what it took.
LEMMA StageHolds ==
  ASSUME NEW s, Sizes(s), Placed(s), Keeps(s), DataTypes(s), NEW e \in Counts(s), Flow(s, e),
         NEW k \in 0..(s.cmds - 1)
  PROVE  /\ e[k] \in Nat /\ e[k + 1] \in Nat /\ Taken(e, k) \in Nat
         /\ e[k + 1] <= Taken(e, k) /\ Taken(e, k) <= e[k]
         /\ Run(s)!InHand(k) = Span(e[k + 1], Taken(e, k))
         /\ Hold(k) = Span(Taken(e, k), e[k])
<1> DEFINE S == Run(s)!Stage(k)
<1>1. S = {p \in Pids(s) : at[p] = "running" /\ stage[p] = k}
  BY DEF Run!Stage, Pids
<1>2. e[k] \in Nat /\ e[k + 1] \in Nat
  BY StageNumbers DEF Counts
<1>3. Hold(k) \in Seq(Nat) /\ HoldIs(s, e, k)
  <2>1. k # 0 => k \in Run(s)!Pipes
    BY Enough, StageNumbers
  <2> QED BY <2>1 DEF DataTypes, Hold, Flow
<1>4. Taken(e, k) \in Nat /\ Taken(e, k) <= e[k] /\ Hold(k) = Span(Taken(e, k), e[k])
  <2>1. PICK h \in Seq(Nat) : h = Hold(k)
    BY <1>3
  <2>2. Taken(e, k) = e[k] - Len(h) /\ Len(h) \in Nat /\ Len(h) <= e[k]
    BY <1>3, <2>1 DEF HoldIs, Taken
  <2>3. PICK a \in Nat : a = Taken(e, k)
    BY <1>2, <2>2
  <2>4. a <= e[k] /\ Len(h) = e[k] - a /\ \A j \in 1..(e[k] - a) : h[j] = a + j
    BY <1>2, <1>3, <2>1, <2>2, <2>3 DEF HoldIs
  <2>5. h = Span(a, e[k])
    BY <1>2, <2>4, IsSpan
  <2> QED BY <2>1, <2>3, <2>4, <2>5
<1>5. Run(s)!InHand(k) = IF \E p \in S : hand[p] # 0
                         THEN <<hand[CHOOSE p \in S : hand[p] # 0]>> ELSE <<>>
  BY DEF Run!InHand, Run!Nothing
<1> HIDE DEF S
<1>6. CASE \E p \in S : hand[p] # 0
  <2>1. PICK p : p \in S /\ hand[p] # 0 /\ p = CHOOSE q \in S : hand[q] # 0
    BY <1>6
  <2>2. p \in Pids(s) /\ at[p] = "running" /\ stage[p] = k
    BY <1>1, <2>1
  <2>3. fds[p][1] # Tty
    BY <2>2, StageAlone, EntriesAre DEF Placed, MainPlace, Keeps
  <2>4. hand[p] = Taken(e, k) /\ hand[p] = e[k + 1] + 1
    BY <2>1, <2>2, <2>3 DEF Flow, HandIs
  <2>5. Run(s)!InHand(k) = <<e[k + 1] + 1>> /\ Taken(e, k) = e[k + 1] + 1
    BY <1>5, <1>6, <2>1, <2>4
  <2>6. <<e[k + 1] + 1>> = Span(e[k + 1], e[k + 1] + 1)
    <3>1. PICK n \in Nat : n = e[k + 1]
      BY <1>2
    <3>2. (n + 1) - n = 1 /\ n <= n + 1 /\ n + 1 \in Nat /\ <<n + 1>> \in Seq(Nat)
          /\ Len(<<n + 1>>) = 1 /\ \A j \in 1..1 : <<n + 1>>[j] = n + j
      OBVIOUS
    <3>3. <<n + 1>> = Span(n, n + 1)
      BY <3>2, IsSpan
    <3> QED BY <3>1, <3>3
  <2> QED BY <1>2, <1>4, <2>5, <2>6
<1>7. CASE \A p \in S : hand[p] = 0
  <2>1. Taken(e, k) = e[k + 1]
    <3>1. CASE ~ Begun(s, k)
      BY <1>3, <3>1 DEF HoldIs
    <3>2. CASE Begun(s, k)
      <4>1. PICK p \in Pids(s) : at[p] \in {"running", "exited"} /\ stage[p] = k
        BY <3>2 DEF Begun
      <4>2. HandIs(s, e, p)
        BY DEF Flow
      <4>3. CASE at[p] = "exited"
        BY <4>1, <4>2, <4>3 DEF HandIs
      <4>4. CASE at[p] = "running"
        <5>1. hand[p] = 0
          BY <1>1, <1>7, <4>1, <4>4
        <5>2. fds[p][1] # Tty
          BY <4>4, StageAlone, EntriesAre DEF Placed, MainPlace, Keeps
        <5> QED BY <1>2, <4>1, <4>2, <4>4, <5>1, <5>2 DEF HandIs
      <4> QED BY <4>1, <4>3, <4>4
    <3> QED BY <3>1, <3>2
  <2>2. Run(s)!InHand(k) = <<>>
    BY <1>5, <1>7
  <2>3. <<>> = Span(e[k + 1], e[k + 1])
    <3>1. PICK n \in Nat : n = e[k + 1]
      BY <1>2
    <3>2. <<>> \in Seq(Nat) /\ Len(<<>>) = n - n /\ n <= n /\ 1..(n - n) = {}
      OBVIOUS
    <3>3. <<>> = Span(n, n)
      BY <3>2, IsSpan
    <3> QED BY <3>1, <3>3
  <2> QED BY <1>2, <1>4, <2>1, <2>2, <2>3
<1> QED BY <1>6, <1>7

\* What has yet to pass the first k stages.
LEMMA BeforeIs ==
  ASSUME NEW s, Sizes(s), Placed(s), Keeps(s), DataTypes(s), NEW e \in Counts(s), Flow(s, e)
  PROVE  /\ e[s.cmds] \in Nat /\ e[s.cmds] <= s.items
         /\ Run(s)!Before[s.cmds] = Span(e[s.cmds], s.items)
<1> DEFINE n == s.cmds
           Seen(k) == IF k = 0 THEN Taken(e, 0) ELSE e[k]
           g == [k \in 0..n |-> Span(Seen(k), s.items)]
           Eq(f) == f = [k \in 0..n |-> IF k = 0 THEN tty ELSE Run(s)!Behind(k - 1) \o f[k - 1]]
<1>1. n \in Nat \ {0} /\ n \in Int /\ s.items \in Nat /\ e[0] = s.items
  BY DEF Sizes, Flow
<1>2. \A k \in 0..(n - 1) :
        /\ e[k] \in Nat /\ e[k + 1] \in Nat /\ Taken(e, k) \in Nat
        /\ e[k + 1] <= Taken(e, k) /\ Taken(e, k) <= e[k]
        /\ Run(s)!InHand(k) = Span(e[k + 1], Taken(e, k))
        /\ Hold(k) = Span(Taken(e, k), e[k])
  BY StageHolds
\* The counts go down from stage to stage.
<1>3. \A k \in 0..n : e[k] \in Nat /\ e[k] <= s.items
  <2> DEFINE M == {k \in 0..n : ~ (e[k] \in Nat /\ e[k] <= s.items)}
  <2> SUFFICES ASSUME M # {} PROVE FALSE
    OBVIOUS
  <2>1. M \in SUBSET Nat
    BY <1>1
  <2>2. PICK m \in M : \A k \in M : m <= k
    <3> HIDE DEF M
    <3> QED BY <2>1, LeastNatural
  <2>3. m # 0 /\ m \in 0..n
    BY <1>1
  <2>4. m - 1 \in 0..(n - 1) /\ m - 1 \in 0..n /\ (m - 1) + 1 = m /\ ~ (m <= m - 1)
    BY <1>1, <2>3
  <2>5. e[m - 1] \in Nat /\ e[m - 1] <= s.items
    BY <2>2, <2>4
  <2>6. /\ e[(m - 1) + 1] \in Nat /\ e[(m - 1) + 1] <= Taken(e, m - 1)
        /\ Taken(e, m - 1) \in Nat /\ Taken(e, m - 1) <= e[m - 1]
    BY <1>2, <2>4
  <2>7. e[m] \in Nat /\ e[m] <= s.items
    BY <1>1, <2>4, <2>5, <2>6
  <2> QED BY <2>2, <2>7
<1>4. 0 \in 0..(n - 1) /\ Taken(e, 0) \in Nat /\ Taken(e, 0) <= s.items /\ tty = Span(Seen(0), s.items)
  <2>1. 0 \in 0..(n - 1)
    BY <1>1
  <2> QED BY <1>1, <1>2, <2>1 DEF Hold
<1>5. ASSUME NEW k \in 0..n, k # 0
      PROVE  k - 1 \in 0..n /\ Run(s)!Behind(k - 1) \o Span(Seen(k - 1), s.items) = Span(Seen(k), s.items)
  <2>1. k - 1 \in 0..(n - 1) /\ k - 1 \in 0..n /\ (k - 1) + 1 = k /\ k - 1 \in Nat
    BY <1>1, <1>5
  <2>2. PICK h \in 0..(n - 1) : h = k - 1
    BY <2>1
  <2>3. PICK a \in Nat, b \in Nat, c \in Nat, d \in Nat :
          /\ a = e[k] /\ b = Taken(e, h) /\ c = e[h] /\ d = s.items
          /\ a <= b /\ b <= c /\ c <= d
          /\ Run(s)!InHand(h) = Span(a, b) /\ Hold(h) = Span(b, c)
    <3>1. h + 1 = k /\ h \in 0..n
      BY <2>1, <2>2
    <3> QED BY <1>1, <1>2, <1>3, <3>1
  <2>4. CASE h = 0
    <3>1. Run(s)!Behind(h) = Span(a, b) \o <<>>
      BY <2>3, <2>4 DEF Run!Behind
    <3>2. Span(a, b) \in Seq(Nat)
      BY <2>3, SpanIs
    <3>3. Run(s)!Behind(h) = Span(a, b)
      BY <3>1, <3>2
    <3>4. a <= b /\ b <= d
      BY <2>3
    <3>5. Span(a, b) \o Span(b, d) = Span(a, d)
      BY <3>4, SpansJoin
    <3>6. Seen(k - 1) = b /\ Seen(k) = a
      BY <1>5, <2>2, <2>3, <2>4
    <3> QED BY <2>1, <2>2, <2>3, <3>3, <3>5, <3>6
  <2>5. CASE h # 0
    <3>1. Run(s)!Behind(h) = Span(a, b) \o Span(b, c)
      <4>1. h > 0
        BY <1>1, <2>2, <2>5
      <4>2. Run(s)!Behind(h) = Run(s)!InHand(h) \o pipe[h]
        BY <4>1 DEF Run!Behind
      <4>3. pipe[h] = Hold(h)
        BY <2>5 DEF Hold
      <4> QED BY <2>3, <4>2, <4>3
    <3>6. a <= b /\ b <= c /\ a <= c /\ c <= d
      BY <2>3
    <3>2. Span(a, b) \o Span(b, c) = Span(a, c)
      BY <3>6, SpansJoin
    <3>4. Span(a, c) \o Span(c, d) = Span(a, d)
      BY <3>6, SpansJoin
    <3>5. Seen(k - 1) = c /\ Seen(k) = a
      BY <1>5, <2>2, <2>3, <2>5
    <3> QED BY <2>1, <2>2, <2>3, <3>1, <3>2, <3>4, <3>5
  <2> QED BY <2>4, <2>5
<1>6. Eq(g)
  <2>1. ASSUME NEW k \in 0..n
        PROVE  g[k] = IF k = 0 THEN tty ELSE Run(s)!Behind(k - 1) \o g[k - 1]
    <3>1. CASE k = 0
      BY <1>4, <3>1
    <3>2. CASE k # 0
      <4>1. k - 1 \in 0..n /\ Run(s)!Behind(k - 1) \o Span(Seen(k - 1), s.items) = Span(Seen(k), s.items)
        BY <1>5, <3>2
      <4> HIDE DEF Seen
      <4> QED BY <3>2, <4>1
    <3> QED BY <3>1, <3>2
  <2>2. g = [k \in 0..n |-> g[k]]
    OBVIOUS
  <2> HIDE DEF g
  <2> QED BY <2>1, <2>2
<1>7. Run(s)!Before = CHOOSE f : Eq(f)
  BY DEF Run!Before
<1> DEFINE b == Run(s)!Before
<1>8. Eq(b)
  <2> HIDE DEF Eq, g
  <2> QED BY <1>6, <1>7
<1>9. b[0] = tty /\ \A k \in 0..n : k # 0 => b[k] = Run(s)!Behind(k - 1) \o b[k - 1]
  <2> HIDE DEF b
  <2>1. \A k \in 0..n : b[k] = IF k = 0 THEN tty ELSE Run(s)!Behind(k - 1) \o b[k - 1]
    BY <1>8
  <2>2. 0 \in 0..n
    BY <1>1
  <2> HIDE DEF n
  <2> QED BY <2>1, <2>2
<1> HIDE DEF b, Eq, g
<1>10. \A k \in 0..n : b[k] = Span(Seen(k), s.items)
  <2> DEFINE M == {k \in 0..n : b[k] # Span(Seen(k), s.items)}
  <2> HIDE DEF Seen
  <2> SUFFICES ASSUME M # {} PROVE FALSE
    OBVIOUS
  <2>1. M \in SUBSET Nat
    BY <1>1
  <2>2. PICK m \in M : \A k \in M : m <= k
    <3> HIDE DEF M
    <3> QED BY <2>1, LeastNatural
  <2>3. m # 0 /\ m \in 0..n
    BY <1>4, <1>9
  <2>4. m - 1 \in 0..n /\ ~ (m <= m - 1)
    BY <1>1, <2>3
  <2>5. b[m - 1] = Span(Seen(m - 1), s.items)
    BY <2>2, <2>4
  <2>6. b[m] = Span(Seen(m), s.items)
    BY <1>5, <1>9, <2>3, <2>5
  <2> QED BY <2>2, <2>6
<1>11. n \in 0..n /\ n # 0
  BY <1>1
<1> QED BY <1>3, <1>10, <1>11 DEF b

LEMMA FlowsLoseNothing ==
  ASSUME NEW s, Sizes(s), Placed(s), Keeps(s), Flows(s)
  PROVE  Run(s)!NothingLost
<1>1. PICK e \in Counts(s) : Flow(s, e)
  BY DEF Flows
<1>2. DataTypes(s) /\ s.items \in Nat
  BY DEF Flows, Sizes
<1>3. PICK a \in Nat : a = e[s.cmds] /\ a <= s.items /\ Run(s)!Before[s.cmds] = Span(a, s.items)
  BY <1>1, <1>2, BeforeIs
<1>4. file = Span(0, a)
  <2>1. PICK f \in Seq(Nat) : f = file
    BY <1>2 DEF DataTypes
  <2>2. Len(f) = a /\ \A j \in 1..Len(f) : f[j] = j
    BY <1>1, <1>3, <2>1 DEF Flow
  <2>3. 0 <= a /\ Len(f) = a - 0 /\ \A j \in 1..(a - 0) : f[j] = 0 + j
    BY <2>2
  <2> QED BY <2>1, <2>3, IsSpan
<1>5. file \o Run(s)!Before[s.cmds] = Span(0, s.items)
  <2>1. 0 \in Nat /\ 0 <= a
    OBVIOUS
  <2>2. Span(0, a) \o Span(a, s.items) = Span(0, s.items)
    BY <1>2, <1>3, <2>1, SpansJoin
  <2> QED BY <1>3, <1>4, <2>2
<1>6. Span(0, s.items) = [k \in 1..s.items |-> k]
  <2>1. s.items - 0 = s.items /\ \A k \in 1..s.items : 0 + k = k
    BY <1>2
  <2> QED BY <2>1 DEF Span
<1> QED BY <1>5, <1>6 DEF Run!NothingLost

(***************************************************************************)
(* However long the pipeline is, when its programs run to the end of their *)
(* input, no item is lost, repeated or out of order between the terminal,  *)
(* the pipes, the stages' hands and the file, even where a fork failed     *)
(* (fork_pipes, lines 135-172).                                            *)
(***************************************************************************)
THEOREM NothingLostAnyLength ==
  ASSUME NEW s, Sizes(s), Keeps(s)
  PROVE  Run(s)!Init /\ [][Run(s)!Next]_(Run(s)!vars) => []Run(s)!NothingLost
<1>1. Run(s)!Init => Placed(s) /\ Flows(s)
  BY InitPlaces, InitFlows
<1>2. (Placed(s) /\ Flows(s)) /\ [Run(s)!Next]_(Run(s)!vars) => (Placed(s) /\ Flows(s))'
  BY StepPlaces, StepFlows
<1>3. Placed(s) /\ Flows(s) => Run(s)!NothingLost
  BY FlowsLoseNothing
<1> QED BY <1>1, <1>2, <1>3, PTL

-------------------------------------------------------------------------------
(***************************************************************************)
(* What the stages have, in types, whatever fails: with a command that     *)
(* cannot be executed the child goes on with the loop, and forks the       *)
(* stages behind it once more (lines 142-163).                             *)
(***************************************************************************)
Bounds(s) ==
  /\ s.cmds \in Nat \ {0} /\ s.items \in Nat /\ s.room \in Nat
  /\ s.max_fd \in Nat /\ s.max_fd >= s.cmds + 2

Most(s)   == 2 ^ (s.cmds - 1)
Turns(s)  == 0..(s.cmds - 2)
Labels(s) == SUBSET Turns(s)

LEMMA MostIs ==
  ASSUME NEW s, Bounds(s)
  PROVE  /\ Most(s) \in Nat \ {0} /\ Pids(s) = 1..Most(s) /\ Run(s)!Pipes = 1..Most(s)
         /\ Main = 1 /\ Main \in Pids(s) /\ Fds(s) = 0..s.max_fd
         /\ Cardinality(1..Most(s)) = Most(s)
         /\ IsFiniteSet(Labels(s)) /\ Cardinality(Labels(s)) = Most(s)
<1>1. s.cmds \in Nat \ {0} /\ s.cmds - 2 \in Int /\ 0 \in Int
  BY DEF Bounds
<1>2. IsFiniteSet(Turns(s)) /\ Cardinality(Turns(s)) = s.cmds - 1
  <2>1. /\ IsFiniteSet(Turns(s))
        /\ Cardinality(Turns(s)) = IF 0 > s.cmds - 2 THEN 0 ELSE (s.cmds - 2) - 0 + 1
    BY <1>1, FS_Interval DEF Turns
  <2> QED BY <1>1, <2>1
<1>3. IsFiniteSet(Labels(s)) /\ Cardinality(Labels(s)) = Most(s)
  BY <1>2, FS_SUBSET DEF Labels, Most
<1>4. Most(s) \in Nat
  BY <1>3, FS_CardinalityType
<1>5. Most(s) # 0
  <2>1. Labels(s) # {}
    BY DEF Labels
  <2> QED BY <1>3, <2>1, FS_EmptySet
<1>6. Cardinality(1..Most(s)) = Most(s)
  <2>1. Most(s) \in Int /\ 1 \in Int
    BY <1>4
  <2>2. Cardinality(1..Most(s)) = IF 1 > Most(s) THEN 0 ELSE Most(s) - 1 + 1
    BY <2>1, FS_Interval
  <2> QED BY <1>4, <1>5, <2>2
<1>7. /\ Pids(s) = 1..Most(s) /\ Run(s)!Pipes = 1..Most(s)
      /\ Main = 1 /\ Fds(s) = 0..s.max_fd
  BY DEF Pids, Fds, Main, Most, Run!Pids, Run!Pipes, Run!Fds
<1>8. 1 \in 1..Most(s)
  BY <1>4, <1>5
<1> QED BY <1>3, <1>4, <1>5, <1>6, <1>7, <1>8

(***************************************************************************)
(* Each process has forked its way here: its label is the turns of the     *)
(* loop in which it, or the process it is a copy of, was the child.  A     *)
(* process forks once in a turn, so no two have one label; and there are   *)
(* no more labels than sets of turns.  It is the same with the pipes.      *)
(***************************************************************************)
Below(l, k)    == \A j \in l : j < k
PastFork(p, k) == stage[p] > k \/ (stage[p] = k /\ at[p] \notin {"pipe", "fork"})
PastPipe(p, k) == stage[p] > k \/ (stage[p] = k /\ at[p] # "pipe")

Forked(s, lab) ==
  /\ \A p \in Pids(s) : p > procs => at[p] = "none"
  /\ \A p \in 1..procs : \A k \in lab[p] : PastFork(p, k)
  /\ \A p, q \in 1..procs : lab[p] = lab[q] => p = q
  /\ \A q \in 1..procs :
       \/ lab[q] = {}
       \/ \E p \in 1..procs, k \in Turns(s) :
            lab[q] = lab[p] \cup {k} /\ Below(lab[p], k) /\ PastFork(p, k)

Made(s, lab, plab) ==
  /\ \A m, n \in 1..pipes : plab[m] = plab[n] => m = n
  /\ \A m \in 1..pipes :
       \E p \in 1..procs, k \in Turns(s) :
         plab[m] = lab[p] \cup {k} /\ Below(lab[p], k) /\ PastPipe(p, k)

Ghosts(s)  == [Pids(s) -> Labels(s)]
Counted(s) == \E lab, plab \in Ghosts(s) : Forked(s, lab) /\ Made(s, lab, plab)

\* The last turn of a label, and what comes before it.
LEMMA LastTurn ==
  ASSUME NEW l \in SUBSET Int, NEW m \in SUBSET Int, NEW j \in Int, NEW k \in Int,
         Below(l, j), Below(m, k), l \cup {j} = m \cup {k}
  PROVE  j = k /\ l = m
<1>1. j = k
  <2>1. \A x \in l \cup {j} : x <= j
    BY DEF Below
  <2>2. \A x \in m \cup {k} : x <= k
    BY DEF Below
  <2>3. j <= k /\ k <= j
    BY <2>1, <2>2
  <2> QED BY <2>3
<1>2. j \notin l /\ k \notin m
  BY DEF Below
<1> QED BY <1>1, <1>2

\* There are no more of them than labels.
LEMMA FewLabels ==
  ASSUME NEW s, Bounds(s), NEW n \in Nat, NEW f \in [1..n -> Labels(s)],
         \A p, q \in 1..n : f[p] = f[q] => p = q
  PROVE  n <= Most(s)
<1>1. f \in Injection(1..n, Labels(s))
  BY DEF Injection, IsInjective
<1>2. IsFiniteSet(1..n) /\ Cardinality(1..n) = n
  <2>1. n \in Int /\ 1 \in Int
    OBVIOUS
  <2>2. IsFiniteSet(1..n) /\ Cardinality(1..n) = IF 1 > n THEN 0 ELSE n - 1 + 1
    BY <2>1, FS_Interval
  <2> QED BY <2>2
<1>3. Cardinality(1..n) <= Cardinality(Labels(s))
  BY <1>1, MostIs, FS_Injection
<1> QED BY <1>2, <1>3, MostIs

\* The tables: what is open lies low.
Files(s) == Run(s)!Files
Tabs(s)  == [Fds(s) -> Files(s)]
OpenTo(s, t, m) == \A f \in Fds(s) : t[f] # Closed => f <= m

LEMMA FilesAre ==
  ASSUME NEW s, Bounds(s)
  PROVE  /\ Closed \in Files(s) /\ Tty \in Files(s) /\ File \in Files(s)
         /\ \A k \in 1..Most(s) : R(k) \in Files(s) /\ W(k) \in Files(s)
         /\ \A e \in Files(s) : e[1] \in {"r", "w"} => e[2] \in 1..Most(s)
<1>1. Files(s) = {Closed, Tty, File} \cup {R(k) : k \in 1..Most(s)} \cup {W(k) : k \in 1..Most(s)}
  BY MostIs DEF Files, Run!Files, Run!Ends, Closed, Tty, File, R, W, Run!R, Run!W
<1>2. \A k \in 1..Most(s) : R(k)[2] = k /\ W(k)[2] = k
  BY DEF R, W
<1>3. Closed[1] = "closed" /\ Tty[1] = "tty" /\ File[1] = "file"
  BY DEF Closed, Tty, File
<1> QED BY <1>1, <1>2, <1>3

LEMMA LowestFree ==
  ASSUME NEW s, Bounds(s), NEW t, NEW m \in Fds(s), t[m] = Closed
  PROVE  Run(s)!Lowest(t) \in Fds(s) /\ Run(s)!Lowest(t) <= m
<1> DEFINE S == {f \in Fds(s) : t[f] = Closed}
<1>1. m \in S /\ S \in SUBSET Nat /\ S # {}
  BY MostIs DEF Bounds
<1>2. Run(s)!Lowest(t) = CHOOSE x \in S : \A y \in S : x <= y
  BY DEF Run!Lowest, Run!Min, Run!Free, Fds, Closed, Run!Closed
<1>3. S \subseteq Fds(s)
  OBVIOUS
<1> HIDE DEF S
<1>4. \E x \in S : \A y \in S : x <= y
  BY <1>1, LeastNatural
<1> QED BY <1>1, <1>2, <1>3, <1>4

LEMMA OpenedIs ==
  ASSUME NEW s, Bounds(s), NEW t \in Tabs(s), NEW m \in Fds(s), t[m] = Closed, NEW e \in Files(s)
  PROVE  /\ Run(s)!Lowest(t) \in Fds(s) /\ Run(s)!Lowest(t) <= m
         /\ Run(s)!Opened(t, e) \in Tabs(s)
         /\ \A f \in Fds(s) : f # Run(s)!Lowest(t) => Run(s)!Opened(t, e)[f] = t[f]
<1>1. PICK n \in Fds(s) : n = Run(s)!Lowest(t) /\ n <= m
  BY LowestFree
<1>2. Run(s)!Opened(t, e) = [t EXCEPT ![n] = e]
  BY <1>1 DEF Run!Opened
<1> QED BY <1>1, <1>2 DEF Tabs

\* Both ends of a pipe, opened on what is open to m.
LEMMA PipeTables ==
  ASSUME NEW s, Bounds(s), NEW t \in Tabs(s), NEW m \in Nat, m + 2 <= s.max_fd, OpenTo(s, t, m),
         NEW e \in Files(s), NEW g \in Files(s),
         NEW u, u = Run(s)!Opened(t, e)
  PROVE  /\ Run(s)!Lowest(t) \in Fds(s) /\ u \in Tabs(s)
         /\ Run(s)!Lowest(u) \in Fds(s) /\ Run(s)!Opened(u, g) \in Tabs(s)
         /\ \A f \in Fds(s) : Run(s)!Opened(u, g)[f] # Closed => f <= m + 1 \/ f = Run(s)!Lowest(u)
<1>1. Fds(s) = 0..s.max_fd /\ s.max_fd \in Nat /\ m + 1 \in Fds(s) /\ m + 2 \in Fds(s)
  BY MostIs DEF Bounds
<1>2. t[m + 1] = Closed /\ t[m + 2] = Closed
  BY <1>1 DEF OpenTo
<1>3. /\ Run(s)!Lowest(t) \in Fds(s) /\ Run(s)!Lowest(t) <= m + 1 /\ u \in Tabs(s)
      /\ \A f \in Fds(s) : f # Run(s)!Lowest(t) => u[f] = t[f]
  BY <1>1, <1>2, OpenedIs
<1>4. m + 2 # Run(s)!Lowest(t)
  BY <1>1, <1>3
<1>5. u[m + 2] = Closed
  BY <1>1, <1>2, <1>3, <1>4
<1>6. /\ Run(s)!Lowest(u) \in Fds(s) /\ Run(s)!Opened(u, g) \in Tabs(s)
      /\ \A f \in Fds(s) : f # Run(s)!Lowest(u) => Run(s)!Opened(u, g)[f] = u[f]
  BY <1>1, <1>3, <1>5, OpenedIs
<1>7. ASSUME NEW f \in Fds(s), Run(s)!Opened(u, g)[f] # Closed, f # Run(s)!Lowest(u)
      PROVE  f <= m + 1
  <2>1. u[f] # Closed
    BY <1>6, <1>7
  <2>2. CASE f = Run(s)!Lowest(t)
    BY <1>3, <2>2
  <2>3. CASE f # Run(s)!Lowest(t)
    <3>1. f <= m
      BY <1>3, <2>1, <2>3 DEF OpenTo
    <3> QED BY <1>1, <3>1
  <2> QED BY <2>2, <2>3
<1> QED BY <1>3, <1>6, <1>7

LEMMA ChangedTables ==
  ASSUME NEW s, Bounds(s), NEW t \in Tabs(s), NEW f \in Fds(s), NEW g \in Fds(s)
  PROVE  /\ Run(s)!Close(t, f) \in Tabs(s) /\ Run(s)!Dup2(t, f, g) \in Tabs(s)
         /\ Run(s)!Moved(t, f, g) \in Tabs(s)
         /\ \A h \in Fds(s) : Run(s)!Close(t, f)[h] = IF h = f THEN Closed ELSE t[h]
         /\ \A h \in Fds(s) : h # g => Run(s)!Dup2(t, f, g)[h] = t[h]
         /\ \A h \in Fds(s) : h # g /\ Run(s)!Moved(t, f, g)[h] # Closed => t[h] # Closed
<1>1. /\ Run(s)!Close(t, f) = [t EXCEPT ![f] = Closed]
      /\ Run(s)!Dup2(t, f, g) = [t EXCEPT ![g] = t[f]]
  BY DEF Run!Close, Run!Dup2, Closed, Run!Closed
<1>2. /\ Run(s)!Close(t, f) \in Tabs(s) /\ Run(s)!Dup2(t, f, g) \in Tabs(s)
      /\ \A h \in Fds(s) : Run(s)!Close(t, f)[h] = IF h = f THEN Closed ELSE t[h]
      /\ \A h \in Fds(s) : h # g => Run(s)!Dup2(t, f, g)[h] = t[h]
  BY <1>1, FilesAre DEF Tabs
<1>3. CASE f = g
  BY <1>2, <1>3 DEF Run!Moved
<1>4. CASE f # g
  <2>1. PICK u \in Tabs(s) : u = Run(s)!Dup2(t, f, g)
    BY <1>2
  <2>2. Run(s)!Moved(t, f, g) = [u EXCEPT ![f] = Closed]
    BY <1>4, <2>1 DEF Run!Moved, Run!Close, Closed, Run!Closed
  <2> QED BY <1>2, <2>1, <2>2, FilesAre DEF Tabs
<1> QED BY <1>2, <1>3, <1>4

(***************************************************************************)
(* Where the processes are, and the counts of processes and pipes.         *)
(***************************************************************************)
Places == {"none", "pipe", "fork", "redirect", "exec", "parent", "running", "exited"}

Shaped(s) ==
  /\ procs \in Pids(s) /\ pipes \in 0..Most(s)
  /\ at \in [Pids(s) -> Places]
  /\ stage \in [Pids(s) -> 0..(s.cmds - 1)] /\ in \in [Pids(s) -> Fds(s)]
  /\ fd \in [Pids(s) -> Fds(s) \X Fds(s)] /\ fds \in [Pids(s) -> Tabs(s)]

Between(s, p) ==
  at[p] \in {"fork", "parent", "redirect"} \/ (at[p] = "exec" /\ stage[p] # s.cmds - 1)

Roomy(s, p) ==
  /\ at[p] = "pipe" => OpenTo(s, fds[p], stage[p] + 2)
  /\ Between(s, p) =>
       /\ stage[p] < s.cmds - 1
       /\ \A f \in Fds(s) : fds[p][f] # Closed => f <= stage[p] + 3 \/ f = fd[p][2]

Settled(s) == Shaped(s) /\ (\A p \in Pids(s) : Roomy(s, p)) /\ Counted(s)

LEMMA ProcsAre ==
  ASSUME NEW s, Bounds(s), Shaped(s)
  PROVE  /\ procs \in Nat \ {0} /\ pipes \in Nat /\ 1..procs \subseteq Pids(s) /\ procs + 1 \in Nat
         /\ \A p \in Pids(s) : /\ p \in Nat /\ (p > procs \/ p \in 1..procs)
                               /\ stage[p] \in Nat /\ stage[p] \in Int /\ stage[p] <= s.cmds - 1
<1>1. Pids(s) = 1..Most(s) /\ Most(s) \in Nat /\ s.cmds \in Nat
  BY MostIs DEF Bounds
<1> QED BY <1>1 DEF Shaped

\* A process that has forked, or made its pipe, in a turn has done so from then on.
PastKept(p) ==
  \A k \in Int : (PastFork(p, k) => PastFork(p, k)') /\ (PastPipe(p, k) => PastPipe(p, k)')

LEMMA PastStays ==
  ASSUME NEW p, stage[p] \in Int, stage'[p] \in Int,
         \/ stage'[p] = stage[p] /\ at'[p] = at[p]
         \/ stage'[p] = stage[p] /\ at'[p] \notin {"pipe", "fork"}
         \/ stage'[p] = stage[p] /\ at[p] = "pipe" /\ at'[p] = "fork"
         \/ stage'[p] = stage[p] + 1
  PROVE  PastKept(p)
BY DEF PastKept, PastFork, PastPipe

LEMMA StillForked ==
  ASSUME NEW s, Bounds(s), Shaped(s), NEW lab \in Ghosts(s), Forked(s, lab), procs' = procs,
         \A p \in 1..procs : PastKept(p), \A p \in Pids(s) : p > procs => at'[p] = "none"
  PROVE  Forked(s, lab)'
<1>1. ASSUME NEW p \in 1..procs, NEW k \in lab[p] PROVE PastFork(p, k)'
  <2>1. k \in Int /\ PastFork(p, k)
    BY ProcsAre DEF Forked, Ghosts, Labels, Turns
  <2> QED BY <2>1 DEF PastKept
<1>2. ASSUME NEW q \in 1..procs, lab[q] # {}
      PROVE  \E p \in 1..procs, k \in Turns(s) :
               lab[q] = lab[p] \cup {k} /\ Below(lab[p], k) /\ PastFork(p, k)'
  <2>1. PICK p \in 1..procs, k \in Turns(s) :
          lab[q] = lab[p] \cup {k} /\ Below(lab[p], k) /\ PastFork(p, k)
    BY <1>2 DEF Forked
  <2>2. k \in Int
    BY DEF Turns
  <2> QED BY <2>1, <2>2 DEF PastKept
<1> QED BY <1>1, <1>2 DEF Forked, Below

LEMMA StillMade ==
  ASSUME NEW s, Bounds(s), Shaped(s), NEW lab \in Ghosts(s), NEW plab \in Ghosts(s),
         Made(s, lab, plab), procs' = procs, pipes' = pipes, \A p \in 1..procs : PastKept(p)
  PROVE  Made(s, lab, plab)'
<1>1. ASSUME NEW m \in 1..pipes
      PROVE  \E p \in 1..procs, k \in Turns(s) :
               plab[m] = lab[p] \cup {k} /\ Below(lab[p], k) /\ PastPipe(p, k)'
  <2>1. PICK p \in 1..procs, k \in Turns(s) :
          plab[m] = lab[p] \cup {k} /\ Below(lab[p], k) /\ PastPipe(p, k)
    BY DEF Made
  <2>2. k \in Int
    BY DEF Turns
  <2> QED BY <2>1, <2>2 DEF PastKept
<1> QED BY <1>1 DEF Made, Below

LEMMA StillCounted ==
  ASSUME NEW s, Bounds(s), Shaped(s), Counted(s), procs' = procs, pipes' = pipes,
         \A p \in 1..procs : PastKept(p), \A p \in Pids(s) : p > procs => at'[p] = "none"
  PROVE  Counted(s)'
<1>1. PICK lab \in Ghosts(s), plab \in Ghosts(s) : Forked(s, lab) /\ Made(s, lab, plab)
  BY DEF Counted
<1>2. Forked(s, lab)' /\ Made(s, lab, plab)'
  BY <1>1, StillForked, StillMade
<1> QED BY <1>2 DEF Counted

\* At the pipe and the fork of a turn, a process has neither behind it.
LEMMA AtTurn ==
  ASSUME NEW s, Bounds(s), Shaped(s), NEW lab \in Ghosts(s), Forked(s, lab),
         NEW p \in 1..procs, NEW k, k = stage[p], k # s.cmds - 1
  PROVE  /\ k \in Turns(s) /\ k \in Int /\ lab[p] \cup {k} \in Labels(s)
         /\ at[p] \in {"pipe", "fork"} => Below(lab[p], k) /\ ~ PastFork(p, k)
         /\ at[p] = "pipe" => ~ PastPipe(p, k)
         /\ \A q \in 1..procs : lab[q] \in SUBSET Int
<1>1. k \in Turns(s) /\ k \in Int /\ p \in Pids(s)
  <2>1. p \in Pids(s) /\ k \in Nat /\ k <= s.cmds - 1 /\ s.cmds \in Nat
    BY ProcsAre DEF Bounds
  <2> QED BY <2>1 DEF Turns
<1>2. \A q \in 1..procs : lab[q] \in Labels(s)
  BY ProcsAre DEF Ghosts
<1>3. \A q \in 1..procs : lab[q] \in SUBSET Int
  BY <1>2 DEF Labels, Turns
<1>4. ASSUME at[p] \in {"pipe", "fork"} PROVE Below(lab[p], k) /\ ~ PastFork(p, k)
  <2>1. \A j \in lab[p] : j \in Int /\ PastFork(p, j)
    BY <1>3 DEF Forked
  <2> QED BY <1>1, <1>4, <2>1 DEF Below, PastFork
<1>5. at[p] = "pipe" => ~ PastPipe(p, k)
  BY <1>1 DEF PastPipe
<1>6. lab[p] \cup {k} \in Labels(s)
  BY <1>1, <1>2 DEF Labels
<1> QED BY <1>1, <1>3, <1>4, <1>5, <1>6

\* A new pipe has a label of its own, and its number is one of Pipes.
LEMMA PipeCounts ==
  ASSUME NEW s, Bounds(s), Shaped(s), Counted(s), NEW p \in 1..procs, at[p] = "pipe",
         stage[p] # s.cmds - 1, at' = [at EXCEPT ![p] = "fork"], stage' = stage,
         procs' = procs, pipes' = pipes + 1
  PROVE  Counted(s)' /\ pipes + 1 \in 1..Most(s)
<1>1. PICK lab \in Ghosts(s), plab \in Ghosts(s) : Forked(s, lab) /\ Made(s, lab, plab)
  BY DEF Counted
<1>2. PICK k \in Turns(s) : k = stage[p] /\ k \in Int /\ lab[p] \cup {k} \in Labels(s)
  BY <1>1, AtTurn
<1>3. /\ Below(lab[p], k) /\ ~ PastFork(p, k) /\ ~ PastPipe(p, k)
      /\ \A q \in 1..procs : lab[q] \in SUBSET Int
  BY <1>1, <1>2, AtTurn
<1>4. \A m \in 1..pipes : plab[m] # lab[p] \cup {k}
  <2> SUFFICES ASSUME NEW m \in 1..pipes, plab[m] = lab[p] \cup {k} PROVE FALSE
    OBVIOUS
  <2>1. PICK q \in 1..procs, j \in Turns(s) :
          plab[m] = lab[q] \cup {j} /\ Below(lab[q], j) /\ PastPipe(q, j)
    BY <1>1 DEF Made
  <2>2. j \in Int
    BY DEF Turns
  <2>3. j = k /\ lab[q] = lab[p]
    BY <1>2, <1>3, <2>1, <2>2, LastTurn
  <2> QED BY <1>1, <1>3, <2>1, <2>3 DEF Forked
<1>5. pipes + 1 \in 1..Most(s)
  <2> DEFINE f == [m \in 1..(pipes + 1) |-> IF m = pipes + 1 THEN lab[p] \cup {k} ELSE plab[m]]
  <2>0. pipes \in 0..Most(s)
    BY DEF Shaped
  <2>1. pipes \in Nat /\ pipes <= Most(s) /\ Pids(s) = 1..Most(s) /\ Most(s) \in Nat
    BY <2>0, MostIs
  <2>2. \A m \in 1..pipes : m \in Pids(s) /\ plab[m] \in Labels(s)
    BY <2>1 DEF Ghosts
  <2>3. \A m \in 1..(pipes + 1) : m = pipes + 1 \/ m \in 1..pipes
    BY <2>1
  <2>4. f \in [1..(pipes + 1) -> Labels(s)]
    BY <1>2, <2>2, <2>3
  <2>5. ASSUME NEW m \in 1..(pipes + 1), NEW n \in 1..(pipes + 1), f[m] = f[n] PROVE m = n
    BY <1>1, <1>4, <2>3, <2>5 DEF Made
  <2> HIDE DEF f
  <2>6. pipes + 1 <= Most(s)
    <3>1. pipes + 1 \in Nat
      BY <2>1
    <3> QED BY <2>4, <2>5, <3>1, FewLabels
  <2> QED BY <2>1, <2>6
<1>6. \A q \in 1..procs : PastKept(q)
  <2> SUFFICES ASSUME NEW q \in 1..procs PROVE PastKept(q)
    OBVIOUS
  <2>1. q \in Pids(s) /\ p \in Pids(s) /\ stage[q] \in Int
    BY ProcsAre
  <2>2. at'[q] = IF q = p THEN "fork" ELSE at[q]
    BY <2>1 DEF Shaped
  <2> QED BY <2>1, <2>2, PastStays
<1>7. Forked(s, lab)'
  <2>1. \A q \in Pids(s) : q > procs => at'[q] = "none"
    <3>1. \A q \in Pids(s) : q > procs => q # p /\ at[q] = "none"
      BY <1>1, ProcsAre DEF Forked
    <3> QED BY <3>1 DEF Shaped
  <2> QED BY <1>1, <1>6, <2>1, StillForked
<1>8. PICK glab \in Ghosts(s) : /\ glab[pipes + 1] = lab[p] \cup {k}
                                /\ \A m \in 1..pipes : glab[m] = plab[m]
  <2> DEFINE g == [plab EXCEPT ![pipes + 1] = lab[p] \cup {k}]
  <2>1. pipes + 1 \in Pids(s) /\ \A m \in 1..pipes : m \in Pids(s) /\ m # pipes + 1
    BY <1>5, ProcsAre, MostIs
  <2>2. g \in Ghosts(s) /\ g[pipes + 1] = lab[p] \cup {k} /\ \A m \in 1..pipes : g[m] = plab[m]
    BY <1>2, <2>1 DEF Ghosts
  <2> HIDE DEF g
  <2> QED BY <2>2
<1>9. Made(s, lab, glab)'
  <2>1. \A m \in 1..(pipes + 1) : m = pipes + 1 \/ m \in 1..pipes
    BY ProcsAre
  <2>2. PastPipe(p, k)'
    <3>1. p \in Pids(s)
      BY ProcsAre
    <3> QED BY <1>2, <3>1 DEF PastPipe, Shaped
  <2>3. ASSUME NEW m \in 1..(pipes + 1)
        PROVE  \E q \in 1..procs, j \in Turns(s) :
                 glab[m] = lab[q] \cup {j} /\ Below(lab[q], j) /\ PastPipe(q, j)'
    <3>1. CASE m = pipes + 1
      BY <1>2, <1>3, <1>8, <2>2, <3>1
    <3>2. CASE m \in 1..pipes
      <4>1. PICK q \in 1..procs, j \in Turns(s) :
              plab[m] = lab[q] \cup {j} /\ Below(lab[q], j) /\ PastPipe(q, j)
        BY <1>1, <3>2 DEF Made
      <4>2. j \in Int
        BY DEF Turns
      <4> QED BY <1>6, <1>8, <3>2, <4>1, <4>2 DEF PastKept
    <3> QED BY <2>1, <3>1, <3>2
  <2>4. ASSUME NEW m \in 1..(pipes + 1), NEW n \in 1..(pipes + 1), glab[m] = glab[n] PROVE m = n
    BY <1>1, <1>4, <1>8, <2>1, <2>4 DEF Made
  <2> QED BY <2>3, <2>4 DEF Made, Below
<1> QED BY <1>5, <1>7, <1>9 DEF Counted

\* So has a new process.
LEMMA ForkCounts ==
  ASSUME NEW s, Bounds(s), Shaped(s), Counted(s), NEW p \in 1..procs, at[p] = "fork",
         stage[p] # s.cmds - 1,
         at' = [at EXCEPT ![p] = "parent", ![procs + 1] = "redirect"],
         stage' = [stage EXCEPT ![procs + 1] = stage[p]],
         procs' = procs + 1, pipes' = pipes
  PROVE  Counted(s)' /\ procs + 1 \in 1..Most(s)
<1>1. PICK lab \in Ghosts(s), plab \in Ghosts(s) : Forked(s, lab) /\ Made(s, lab, plab)
  BY DEF Counted
<1>2. PICK k \in Turns(s) : k = stage[p] /\ k \in Int /\ lab[p] \cup {k} \in Labels(s)
  BY <1>1, AtTurn
<1>3. /\ Below(lab[p], k) /\ ~ PastFork(p, k) /\ \A q \in 1..procs : lab[q] \in SUBSET Int
  BY <1>1, <1>2, AtTurn
<1>4. \A m \in 1..procs : lab[m] # lab[p] \cup {k}
  <2> SUFFICES ASSUME NEW m \in 1..procs, lab[m] = lab[p] \cup {k} PROVE FALSE
    OBVIOUS
  <2>1. PICK q \in 1..procs, j \in Turns(s) :
          lab[m] = lab[q] \cup {j} /\ Below(lab[q], j) /\ PastFork(q, j)
    BY <1>1 DEF Forked
  <2>2. j \in Int
    BY DEF Turns
  <2>3. j = k /\ lab[q] = lab[p]
    BY <1>2, <1>3, <2>1, <2>2, LastTurn
  <2> QED BY <1>1, <1>3, <2>1, <2>3 DEF Forked
<1>5. procs + 1 \in 1..Most(s)
  <2> DEFINE f == [m \in 1..(procs + 1) |-> IF m = procs + 1 THEN lab[p] \cup {k} ELSE lab[m]]
  <2>1. procs \in Nat /\ Most(s) \in Nat
    BY ProcsAre, MostIs
  <2>2. \A m \in 1..procs : m \in Pids(s) /\ lab[m] \in Labels(s)
    BY ProcsAre DEF Ghosts
  <2>3. \A m \in 1..(procs + 1) : m = procs + 1 \/ m \in 1..procs
    BY <2>1
  <2>4. f \in [1..(procs + 1) -> Labels(s)]
    BY <1>2, <2>2, <2>3
  <2>5. ASSUME NEW m \in 1..(procs + 1), NEW n \in 1..(procs + 1), f[m] = f[n] PROVE m = n
    BY <1>1, <1>4, <2>3, <2>5 DEF Forked
  <2> HIDE DEF f
  <2>6. procs + 1 <= Most(s)
    <3>1. procs + 1 \in Nat
      BY <2>1
    <3> QED BY <2>4, <2>5, <3>1, FewLabels
  <2> QED BY <2>1, <2>6
<1>6. /\ p \in Pids(s) /\ procs + 1 \in Pids(s) /\ procs \in Nat
      /\ \A q \in 1..procs : q \in Pids(s) /\ q # procs + 1 /\ stage[q] \in Int
      /\ \A q \in 1..(procs + 1) : q = procs + 1 \/ q \in 1..procs
  BY <1>5, ProcsAre, MostIs
<1>7. \A q \in Pids(s) : /\ at'[q] = IF q = procs + 1 THEN "redirect" ELSE IF q = p THEN "parent" ELSE at[q]
                         /\ stage'[q] = IF q = procs + 1 THEN stage[p] ELSE stage[q]
  BY <1>6 DEF Shaped
<1>8. \A q \in 1..procs : PastKept(q)
  <2> SUFFICES ASSUME NEW q \in 1..procs PROVE PastKept(q)
    OBVIOUS
  <2>1. stage[q] \in Int /\ stage'[q] = stage[q] /\ at'[q] = IF q = p THEN "parent" ELSE at[q]
    BY <1>6, <1>7
  <2>2. stage'[q] = stage[q] /\ stage'[q] \in Int /\ (at'[q] = at[q] \/ at'[q] \notin {"pipe", "fork"})
    BY <2>1
  <2> QED BY <2>1, <2>2, PastStays
<1>9. PICK g \in Ghosts(s) : /\ g[procs + 1] = lab[p] \cup {k}
                             /\ \A q \in 1..procs : g[q] = lab[q]
  <2> DEFINE g == [lab EXCEPT ![procs + 1] = lab[p] \cup {k}]
  <2>1. g \in Ghosts(s) /\ g[procs + 1] = lab[p] \cup {k} /\ \A q \in 1..procs : g[q] = lab[q]
    BY <1>2, <1>6 DEF Ghosts
  <2> HIDE DEF g
  <2> QED BY <2>1
<1>10. /\ PastFork(p, k)'
       /\ \A q \in Pids(s) : q = procs + 1 => PastFork(q, k)' /\ stage'[q] = k /\ at'[q] = "redirect"
  <2>1. p # procs + 1 /\ stage'[p] = k /\ at'[p] = "parent"
    BY <1>2, <1>6, <1>7
  <2>2. PastFork(p, k)'
    BY <1>2, <2>1 DEF PastFork
  <2>3. ASSUME NEW q \in Pids(s), q = procs + 1 PROVE PastFork(q, k)' /\ stage'[q] = k /\ at'[q] = "redirect"
    <3>1. stage'[q] = k /\ at'[q] = "redirect"
      BY <1>2, <1>7, <2>3
    <3> QED BY <1>2, <3>1 DEF PastFork
  <2> QED BY <2>2, <2>3
<1>11. Forked(s, g)'
  <2>1. \A q \in Pids(s) : q > procs + 1 => at'[q] = "none"
    <3>1. \A q \in Pids(s) : q > procs + 1 => q # procs + 1 /\ q # p /\ q > procs
      BY <1>6, ProcsAre
    <3> QED BY <1>1, <1>7, <3>1 DEF Forked
  <2>2. ASSUME NEW q \in 1..(procs + 1), NEW j \in g[q] PROVE PastFork(q, j)'
    <3>1. CASE q = procs + 1
      <4>1. j = k \/ (j \in lab[p] /\ j \in Int /\ j < k)
        BY <1>3, <1>9, <2>2, <3>1 DEF Below
      <4>2. CASE j = k
        BY <1>6, <1>10, <3>1, <4>2
      <4>3. CASE j \in Int /\ j < k
        BY <1>2, <1>6, <1>10, <3>1, <4>3 DEF PastFork
      <4> QED BY <4>1, <4>2, <4>3
    <3>2. CASE q \in 1..procs
      <4>1. j \in Int /\ PastFork(q, j)
        BY <1>1, <1>3, <1>9, <2>2, <3>2 DEF Forked
      <4> QED BY <1>8, <3>2, <4>1 DEF PastKept
    <3> QED BY <1>6, <3>1, <3>2
  <2>3. ASSUME NEW q \in 1..(procs + 1), NEW r \in 1..(procs + 1), g[q] = g[r] PROVE q = r
    BY <1>1, <1>4, <1>6, <1>9, <2>3 DEF Forked
  <2>4. ASSUME NEW q \in 1..(procs + 1), g[q] # {}
        PROVE  \E r \in 1..(procs + 1), j \in Turns(s) :
                 g[q] = g[r] \cup {j} /\ Below(g[r], j) /\ PastFork(r, j)'
    <3>1. \A r \in 1..procs : r \in 1..(procs + 1)
      BY <1>6
    <3>2. CASE q = procs + 1
      BY <1>2, <1>3, <1>9, <1>10, <3>1, <3>2
    <3>3. CASE q \in 1..procs
      <4>1. PICK r \in 1..procs, j \in Turns(s) :
              lab[q] = lab[r] \cup {j} /\ Below(lab[r], j) /\ PastFork(r, j)
        BY <1>1, <1>9, <2>4, <3>3 DEF Forked
      <4>2. j \in Int
        BY DEF Turns
      <4> QED BY <1>8, <1>9, <3>1, <3>3, <4>1, <4>2 DEF PastKept
    <3> QED BY <1>6, <3>2, <3>3
  <2> QED BY <2>1, <2>2, <2>3, <2>4 DEF Forked, Below
<1>12. Made(s, g, plab)'
  <2>1. ASSUME NEW m \in 1..pipes
        PROVE  \E q \in 1..(procs + 1), j \in Turns(s) :
                 plab[m] = g[q] \cup {j} /\ Below(g[q], j) /\ PastPipe(q, j)'
    <3>1. PICK q \in 1..procs, j \in Turns(s) :
            plab[m] = lab[q] \cup {j} /\ Below(lab[q], j) /\ PastPipe(q, j)
      BY <1>1 DEF Made
    <3>2. j \in Int /\ q \in 1..(procs + 1)
      BY <1>6 DEF Turns
    <3> QED BY <1>8, <1>9, <3>1, <3>2 DEF PastKept
  <2> QED BY <1>1, <2>1 DEF Made, Below
<1> QED BY <1>5, <1>11, <1>12 DEF Counted

\* A step of one process that makes neither a process nor a pipe.
LEMMA MoveSettles ==
  ASSUME NEW s, Bounds(s), Settled(s), NEW p \in Pids(s), at[p] # "none",
         procs' = procs, pipes' = pipes, fd' = fd,
         at' \in [Pids(s) -> Places], stage' \in [Pids(s) -> 0..(s.cmds - 1)],
         in' \in [Pids(s) -> Fds(s)], fds' \in [Pids(s) -> Tabs(s)],
         \A q \in Pids(s) : q # p => at'[q] = at[q] /\ stage'[q] = stage[q] /\ fds'[q] = fds[q],
         \/ stage'[p] = stage[p] /\ at'[p] \notin {"pipe", "fork"}
         \/ stage'[p] = stage[p] + 1,
         Roomy(s, p)'
  PROVE  Settled(s)'
<1>1. Shaped(s)'
  BY DEF Settled, Shaped
<1>2. \A q \in Pids(s) : Roomy(s, q)'
  BY DEF Settled, Roomy, Between, OpenTo
<1>3. Counted(s)'
  <2>1. Shaped(s) /\ Counted(s)
    BY DEF Settled
  <2>2. \A q \in 1..procs : PastKept(q)
    <3> SUFFICES ASSUME NEW q \in 1..procs PROVE PastKept(q)
      OBVIOUS
    <3>1. q \in Pids(s) /\ stage[q] \in Int
      BY <2>1, ProcsAre
    <3>2. CASE q = p
      <4>1. stage'[q] \in Int
        BY <3>1, <3>2
      <4> QED BY <3>1, <3>2, <4>1, PastStays
    <3>3. CASE q # p
      <4>1. stage'[q] = stage[q] /\ at'[q] = at[q]
        BY <3>1, <3>3
      <4> QED BY <3>1, <4>1, PastStays
    <3> QED BY <3>2, <3>3
  <2>3. \A q \in Pids(s) : q > procs => at[q] = "none"
    BY <2>1 DEF Counted, Forked
  <2>4. \A q \in Pids(s) : q > procs => at'[q] = "none"
    BY <2>3
  <2> QED BY <2>1, <2>2, <2>4, StillCounted
<1> QED BY <1>1, <1>2, <1>3 DEF Settled

LEMMA Alive ==
  ASSUME NEW s, Bounds(s), Settled(s), NEW p \in Pids(s), at[p] # "none"
  PROVE  p \in 1..procs
<1>1. \A q \in Pids(s) : q > procs => at[q] = "none"
  BY DEF Settled, Counted, Forked
<1> QED BY <1>1, ProcsAre DEF Settled

LEMMA PipeSettles ==
  ASSUME NEW s, Bounds(s), Settled(s), NEW p \in Pids(s), Run(s)!Pipe(p)
  PROVE  Settled(s)'
<1>1. /\ at[p] = "pipe" /\ stage[p] < s.cmds - 1 /\ at' = [at EXCEPT ![p] = "fork"]
      /\ pipes' = pipes + 1 /\ procs' = procs /\ stage' = stage /\ in' = in
  BY DEF Run!Pipe, Run!Goes
<1>2. p \in 1..procs /\ Shaped(s) /\ Counted(s) /\ stage[p] # s.cmds - 1
  BY <1>1, Alive, ProcsAre DEF Settled, Bounds
<1>3. Counted(s)' /\ pipes + 1 \in 1..Most(s)
  BY <1>1, <1>2, PipeCounts
<1>4. PICK n \in 1..Most(s) : n = pipes + 1
  BY <1>3
<1>5. PICK t \in Tabs(s) : t = fds[p]
  BY <1>2 DEF Shaped
<1>6. PICK m \in Nat : m = stage[p] + 2 /\ m + 2 <= s.max_fd
  <2>1. stage[p] \in Nat /\ s.cmds \in Nat /\ s.max_fd \in Nat /\ s.cmds + 2 <= s.max_fd
    BY <1>2, ProcsAre DEF Bounds
  <2> QED BY <1>1, <2>1
<1>7. OpenTo(s, t, m)
  BY <1>1, <1>5, <1>6 DEF Settled, Roomy
<1>8. R(n) \in Files(s) /\ W(n) \in Files(s)
  BY FilesAre
<1>9. PICK u : u = Run(s)!Opened(t, R(n))
  OBVIOUS
<1>10. /\ Run(s)!Lowest(t) \in Fds(s) /\ u \in Tabs(s)
       /\ Run(s)!Lowest(u) \in Fds(s) /\ Run(s)!Opened(u, W(n)) \in Tabs(s)
       /\ \A f \in Fds(s) : Run(s)!Opened(u, W(n))[f] # Closed => f <= m + 1 \/ f = Run(s)!Lowest(u)
  BY <1>6, <1>7, <1>8, <1>9, PipeTables
<1>11. PICK a \in Fds(s), b \in Fds(s), v \in Tabs(s) :
         /\ a = Run(s)!Lowest(t) /\ b = Run(s)!Lowest(u) /\ v = Run(s)!Opened(u, W(n))
         /\ \A f \in Fds(s) : v[f] # Closed => f <= m + 1 \/ f = b
  BY <1>10
<1>12. fds' = [fds EXCEPT ![p] = v] /\ fd' = [fd EXCEPT ![p] = <<a, b>>]
  BY <1>1, <1>4, <1>5, <1>9, <1>11 DEF Run!Pipe, R, W, Run!R, Run!W
<1>13. Shaped(s)'
  <2>1. n \in 0..Most(s)
    BY MostIs
  <2> QED BY <1>1, <1>2, <1>4, <1>12, <2>1 DEF Shaped, Places
<1>14. Roomy(s, p)'
  <2>1. at'[p] = "fork" /\ stage'[p] = stage[p] /\ fds'[p] = v /\ fd'[p][2] = b
    BY <1>1, <1>2, <1>12 DEF Shaped
  <2>2. stage[p] + 3 = m + 1
    BY <1>2, <1>6, ProcsAre
  <2> QED BY <1>1, <1>11, <2>1, <2>2 DEF Roomy
<1>15. ASSUME NEW q \in Pids(s), q # p PROVE Roomy(s, q)'
  <2>1. at'[q] = at[q] /\ stage'[q] = stage[q] /\ fds'[q] = fds[q] /\ fd'[q] = fd[q]
    BY <1>1, <1>2, <1>12, <1>15 DEF Shaped
  <2> QED BY <2>1 DEF Settled, Roomy, Between, OpenTo
<1> QED BY <1>3, <1>13, <1>14, <1>15 DEF Settled

LEMMA ForkSettles ==
  ASSUME NEW s, Bounds(s), Settled(s), NEW p \in Pids(s), Run(s)!Fork(p)
  PROVE  Settled(s)'
<1>1. /\ at[p] = "fork" /\ procs' = procs + 1 /\ pipes' = pipes
      /\ at' = [at EXCEPT ![p] = "parent", ![procs + 1] = "redirect"]
      /\ stage' = [stage EXCEPT ![procs + 1] = stage[p]]
      /\ in' = [in EXCEPT ![procs + 1] = in[p]] /\ fd' = [fd EXCEPT ![procs + 1] = fd[p]]
      /\ fds' = [fds EXCEPT ![procs + 1] = fds[p]]
  BY DEF Run!Fork
<1>2. Shaped(s) /\ Counted(s) /\ Roomy(s, p)
  BY DEF Settled
<1>3. stage[p] < s.cmds - 1 /\ stage[p] # s.cmds - 1
  <2>1. stage[p] < s.cmds - 1
    BY <1>1, <1>2 DEF Roomy, Between
  <2> QED BY <1>2, <2>1, ProcsAre
<1>4. p \in 1..procs
  BY <1>1, Alive
<1>5. Counted(s)' /\ procs + 1 \in 1..Most(s)
  BY <1>1, <1>2, <1>3, <1>4, ForkCounts
<1>6. PICK c \in Pids(s) : c = procs + 1 /\ c # p
  BY <1>2, <1>4, <1>5, ProcsAre, MostIs
<1>7. \A q \in Pids(s) :
        /\ at'[q] = IF q = c THEN "redirect" ELSE IF q = p THEN "parent" ELSE at[q]
        /\ stage'[q] = stage[IF q = c THEN p ELSE q] /\ fds'[q] = fds[IF q = c THEN p ELSE q]
        /\ fd'[q] = fd[IF q = c THEN p ELSE q]
  BY <1>1, <1>2, <1>6 DEF Shaped
<1>8. Shaped(s)'
  BY <1>1, <1>2, <1>6 DEF Shaped, Places
<1>9. ASSUME NEW q \in Pids(s), q \in {c, p} PROVE Roomy(s, q)'
  <2>1. /\ stage'[q] = stage[p] /\ fds'[q] = fds[p] /\ fd'[q] = fd[p]
        /\ at'[q] \in {"redirect", "parent"}
    BY <1>6, <1>7, <1>9
  <2> QED BY <1>1, <1>2, <2>1 DEF Roomy, Between
<1>10. ASSUME NEW q \in Pids(s), q \notin {c, p} PROVE Roomy(s, q)'
  <2>1. stage'[q] = stage[q] /\ fds'[q] = fds[q] /\ fd'[q] = fd[q] /\ at'[q] = at[q]
    BY <1>7, <1>10
  <2> QED BY <2>1 DEF Settled, Roomy, Between, OpenTo
<1> QED BY <1>5, <1>8, <1>9, <1>10 DEF Settled

LEMMA OtherStepsSettle ==
  ASSUME NEW s, Bounds(s), Settled(s), NEW p \in Pids(s),
         \/ Run(s)!ForkFail(p) \/ Run(s)!Parent(p) \/ Run(s)!LastStage(p) \/ Run(s)!Redirect(p)
         \/ Run(s)!Exec(p) \/ Run(s)!ExecFail(p) \/ Run(s)!End(p)
  PROVE  Settled(s)'
<1>1. Shaped(s) /\ Roomy(s, p) /\ stage[p] \in Nat /\ stage[p] \in 0..(s.cmds - 1) /\ s.cmds \in Nat
  BY ProcsAre DEF Settled, Shaped, Bounds
<1>2. /\ at \in [Pids(s) -> Places] /\ stage \in [Pids(s) -> 0..(s.cmds - 1)]
      /\ in \in [Pids(s) -> Fds(s)] /\ fds \in [Pids(s) -> Tabs(s)]
      /\ fd[p][1] \in Fds(s) /\ fd[p][2] \in Fds(s) /\ in[p] \in Fds(s) /\ fds[p] \in Tabs(s)
  BY <1>1 DEF Shaped
<1>3. /\ 0 \in Fds(s) /\ 1 \in Fds(s) /\ s.max_fd \in Nat /\ \A f \in Fds(s) : f \in Nat
      /\ s.cmds + 2 <= s.max_fd
  BY MostIs DEF Bounds
<1>12. PICK T \in Tabs(s), B \in Fds(s), I \in Fds(s) : T = fds[p] /\ B = fd[p][2] /\ I = in[p]
  BY <1>2
<1>13. 0 \in Fds(s) /\ 1 \in Fds(s)
  BY <1>3
<1>4. CASE Run(s)!ForkFail(p)
  <2>1. /\ at[p] = "fork" /\ at' = [at EXCEPT ![p] = "parent"]
        /\ UNCHANGED <<procs, pipes, stage, in, fd, fds>>
    BY <1>4 DEF Run!ForkFail, Run!Goes, Run!locals
  <2>2. Roomy(s, p)'
    BY <1>1, <1>2, <2>1 DEF Roomy, Between
  <2> QED BY <1>2, <2>1, <2>2, MoveSettles DEF Places
<1>5. CASE Run(s)!Parent(p)
  <2> DEFINE t == Run(s)!Close(T, B)
  <2>1. /\ at[p] = "parent" /\ at' = [at EXCEPT ![p] = "pipe"] /\ fds' = [fds EXCEPT ![p] = t]
        /\ in' = [in EXCEPT ![p] = fd[p][1]] /\ stage' = [stage EXCEPT ![p] = stage[p] + 1]
        /\ UNCHANGED <<procs, pipes, fd>>
    BY <1>5, <1>12 DEF Run!Parent, Run!Goes
  <2>2. t \in Tabs(s) /\ \A h \in Fds(s) : t[h] = IF h = B THEN Closed ELSE T[h]
    BY ChangedTables
  <2> HIDE DEF t
  <2>3. /\ stage[p] < s.cmds - 1
        /\ \A f \in Fds(s) : fds[p][f] # Closed => f <= stage[p] + 3 \/ f = fd[p][2]
    BY <1>1, <2>1 DEF Roomy, Between
  <2>4. stage[p] + 1 \in 0..(s.cmds - 1) /\ stage'[p] = stage[p] + 1
    BY <1>1, <1>2, <2>1, <2>3
  <2>5. Roomy(s, p)'
    <3>1. \A f \in Fds(s) : t[f] # Closed => f <= (stage[p] + 1) + 2
      BY <1>1, <1>3, <1>12, <2>2, <2>3
    <3>2. fds'[p] = t /\ at'[p] = "pipe"
      BY <1>2, <2>1
    <3> QED BY <2>4, <3>1, <3>2 DEF Roomy, Between, OpenTo
  <2>6. stage' \in [Pids(s) -> 0..(s.cmds - 1)]
    BY <1>2, <2>1, <2>4
  <2>7. /\ at' \in [Pids(s) -> Places] /\ in' \in [Pids(s) -> Fds(s)] /\ fds' \in [Pids(s) -> Tabs(s)]
        /\ \A q \in Pids(s) : q # p => at'[q] = at[q] /\ stage'[q] = stage[q] /\ fds'[q] = fds[q]
        /\ at[p] # "none"
    BY <1>2, <2>1, <2>2 DEF Places
  <2> QED BY <2>1, <2>4, <2>5, <2>6, <2>7, MoveSettles
<1>6. CASE Run(s)!LastStage(p)
  <2> DEFINE input == IF I # 0 THEN Run(s)!Dup2(T, I, 0) ELSE T
             opened == Run(s)!Opened(input, File)
             t == Run(s)!Dup2(opened, Run(s)!Lowest(input), 1)
  <2>1. /\ at[p] = "pipe" /\ stage[p] = s.cmds - 1 /\ at' = [at EXCEPT ![p] = "exec"]
        /\ UNCHANGED <<procs, pipes, stage, in, fd>>
        /\ fds' = [fds EXCEPT ![p] = t] \/ fds' = [fds EXCEPT ![p] = input]
    BY <1>6, <1>12 DEF Run!LastStage, Run!Goes, Run!locals, File
  <2>2. input \in Tabs(s) /\ \A h \in Fds(s) : h # 0 => input[h] = T[h]
    <3>1. /\ Run(s)!Dup2(T, I, 0) \in Tabs(s)
          /\ \A h \in Fds(s) : h # 0 => Run(s)!Dup2(T, I, 0)[h] = T[h]
      BY <1>13, ChangedTables
    <3> QED BY <3>1
  <2> HIDE DEF input
  <2>3. s.cmds + 2 \in Fds(s) /\ s.cmds + 2 # 0 /\ ~ (s.cmds + 2 <= stage[p] + 2)
    <3>1. PICK n \in Nat \ {0}, m \in Nat : n = s.cmds /\ m = s.max_fd /\ n + 2 <= m
      BY <1>3 DEF Bounds
    <3>2. n + 2 \in 0..m /\ n + 2 # 0 /\ ~ (n + 2 <= (n - 1) + 2)
      BY <3>1
    <3> QED BY <2>1, <3>1, <3>2, MostIs
  <2>4. fds[p][s.cmds + 2] = Closed
    BY <1>1, <2>1, <2>3 DEF Roomy, OpenTo
  <2>5. input[s.cmds + 2] = Closed
    BY <1>12, <2>2, <2>3, <2>4
  <2>6. opened \in Tabs(s) /\ Run(s)!Lowest(input) \in Fds(s)
    BY <2>2, <2>3, <2>5, FilesAre, OpenedIs
  <2> HIDE DEF opened
  <2>7. t \in Tabs(s)
    BY <1>3, <2>6, ChangedTables
  <2> HIDE DEF t
  <2>8. at'[p] = "exec" /\ stage'[p] = s.cmds - 1
    BY <1>2, <2>1
  <2>9. Roomy(s, p)'
    BY <2>8 DEF Roomy, Between
  <2>10. /\ at' \in [Pids(s) -> Places] /\ fds' \in [Pids(s) -> Tabs(s)]
         /\ \A q \in Pids(s) : q # p => at'[q] = at[q] /\ fds'[q] = fds[q]
    BY <1>2, <2>1, <2>2, <2>7 DEF Places
  <2> QED BY <1>2, <2>1, <2>8, <2>9, <2>10, MoveSettles
<1>7. CASE Run(s)!Redirect(p)
  <2> DEFINE u == Run(s)!Moved(T, I, 0)
             t == Run(s)!Moved(u, B, 1)
  <2>1. /\ at[p] = "redirect" /\ at' = [at EXCEPT ![p] = "exec"] /\ fds' = [fds EXCEPT ![p] = t]
        /\ UNCHANGED <<procs, pipes, stage, in, fd>>
    BY <1>7, <1>12 DEF Run!Redirect, Run!Goes, Run!locals
  <2>2. u \in Tabs(s) /\ \A h \in Fds(s) : h # 0 /\ u[h] # Closed => T[h] # Closed
    BY <1>13, ChangedTables
  <2> HIDE DEF u
  <2>3. t \in Tabs(s) /\ \A h \in Fds(s) : h # 1 /\ t[h] # Closed => u[h] # Closed
    BY <1>13, <2>2, ChangedTables
  <2> HIDE DEF t
  <2>4. /\ stage[p] < s.cmds - 1
        /\ \A f \in Fds(s) : fds[p][f] # Closed => f <= stage[p] + 3 \/ f = fd[p][2]
    BY <1>1, <2>1 DEF Roomy, Between
  <2>5. ASSUME NEW f \in Fds(s), t[f] # Closed PROVE f <= stage[p] + 3 \/ f = fd[p][2]
    <3>1. CASE f \in {0, 1}
      BY <1>1, <3>1
    <3>2. CASE f \notin {0, 1}
      BY <1>12, <2>2, <2>3, <2>4, <2>5, <3>2
    <3> QED BY <3>1, <3>2
  <2>6. at'[p] = "exec" /\ fds'[p] = t /\ stage'[p] = stage[p] /\ fd'[p] = fd[p]
    BY <1>2, <2>1
  <2>7. Roomy(s, p)'
    BY <2>4, <2>5, <2>6 DEF Roomy
  <2>8. /\ at' \in [Pids(s) -> Places] /\ fds' \in [Pids(s) -> Tabs(s)]
        /\ \A q \in Pids(s) : q # p => at'[q] = at[q] /\ fds'[q] = fds[q]
    BY <1>2, <2>1, <2>3 DEF Places
  <2> QED BY <1>2, <2>1, <2>6, <2>7, <2>8, MoveSettles
<1>8. CASE Run(s)!Exec(p)
  <2>1. /\ at[p] = "exec" /\ at' = [at EXCEPT ![p] = "running"]
        /\ UNCHANGED <<procs, pipes, stage, in, fd, fds>>
    BY <1>8 DEF Run!Exec, Run!Goes, Run!locals
  <2>2. at'[p] = "running"
    BY <1>2, <2>1
  <2>3. Roomy(s, p)'
    BY <2>2 DEF Roomy, Between
  <2> QED BY <1>2, <2>1, <2>2, <2>3, MoveSettles DEF Places
\* A process that ends.
<1>9. ASSUME at[p] # "none", Run(s)!Exits(p), UNCHANGED <<procs, pipes, stage, in, fd>>
      PROVE  Settled(s)'
  <2> DEFINE t == [f \in Fds(s) |-> Closed]
  <2>1. at' = [at EXCEPT ![p] = "exited"] /\ fds' = [fds EXCEPT ![p] = t]
    BY <1>9 DEF Run!Exits, Run!Goes, Run!AllClosed, Fds, Closed, Run!Closed
  <2>2. t \in Tabs(s)
    BY FilesAre DEF Tabs
  <2> HIDE DEF t
  <2>3. at'[p] = "exited"
    BY <1>2, <2>1
  <2>4. Roomy(s, p)'
    BY <2>3 DEF Roomy, Between
  <2>5. /\ at' \in [Pids(s) -> Places] /\ fds' \in [Pids(s) -> Tabs(s)]
        /\ \A q \in Pids(s) : q # p => at'[q] = at[q] /\ fds'[q] = fds[q]
    BY <1>2, <2>1, <2>2 DEF Places
  <2> QED BY <1>2, <1>9, <2>3, <2>4, <2>5, MoveSettles
<1>10. CASE Run(s)!ExecFail(p)
  <2>1. at[p] = "exec" /\ UNCHANGED <<procs, pipes, stage, in, fd>>
    BY <1>10 DEF Run!ExecFail, Run!locals
  <2>2. CASE stage[p] = s.cmds - 1
    <3>1. Run(s)!Exits(p)
      BY <1>10, <2>2 DEF Run!ExecFail
    <3> QED BY <1>9, <2>1, <3>1
  <2>3. CASE stage[p] # s.cmds - 1
    <3>1. at' = [at EXCEPT ![p] = "parent"] /\ fds' = fds
      BY <1>10, <2>3 DEF Run!ExecFail, Run!Goes
    <3>2. Roomy(s, p)'
      BY <1>1, <1>2, <2>1, <2>3, <3>1 DEF Roomy, Between
    <3> QED BY <1>2, <2>1, <3>1, <3>2, MoveSettles DEF Places
  <2> QED BY <2>2, <2>3
<1>11. CASE Run(s)!End(p)
  <2>1. at[p] = "running" /\ Run(s)!Exits(p) /\ UNCHANGED <<procs, pipes, stage, in, fd>>
    BY <1>11 DEF Run!End, Run!locals
  <2> QED BY <1>9, <2>1
<1> QED BY <1>4, <1>5, <1>6, <1>7, <1>8, <1>10, <1>11

LEMMA SameSettled ==
  ASSUME NEW s
  PROVE  Settled(s) /\ UNCHANGED place_vars => Settled(s)'
<1> SUFFICES ASSUME Settled(s), UNCHANGED place_vars PROVE Settled(s)'
  OBVIOUS
<1>1. UNCHANGED <<procs, pipes, at, stage, in, fd, fds>>
  BY DEF place_vars
<1>2. Shaped(s)' /\ \A p \in Pids(s) : Roomy(s, p)'
  BY <1>1 DEF Settled, Shaped, Roomy, Between, OpenTo
<1>3. PICK lab \in Ghosts(s), plab \in Ghosts(s) : Forked(s, lab) /\ Made(s, lab, plab)
  BY DEF Settled, Counted
<1>4. Forked(s, lab)' /\ Made(s, lab, plab)'
  <2>1. \A p, k : (PastFork(p, k) <=> PastFork(p, k)') /\ (PastPipe(p, k) <=> PastPipe(p, k)')
    BY <1>1 DEF PastFork, PastPipe
  <2>2. Forked(s, lab)'
    BY <1>1, <1>3, <2>1 DEF Forked, Below
  <2>3. Made(s, lab, plab)'
    BY <1>1, <1>3, <2>1 DEF Made, Below
  <2> QED BY <2>2, <2>3
<1> QED BY <1>2, <1>4 DEF Settled, Counted

LEMMA StepSettles ==
  ASSUME NEW s, Bounds(s), Settled(s), [Run(s)!Next]_(Run(s)!vars)
  PROVE  Settled(s)'
<1>1. CASE UNCHANGED Run(s)!vars
  BY <1>1, SameSettled DEF Run!vars, Run!locals, place_vars
<1>2. ASSUME NEW p \in Pids(s), Run(s)!Spawns(p) \/ Run(s)!Works(p)
      PROVE  Settled(s)'
  <2>1. CASE Run(s)!Pipe(p)
    BY <2>1, PipeSettles
  <2>2. CASE Run(s)!Fork(p)
    BY <2>2, ForkSettles
  <2>3. CASE \/ Run(s)!ForkFail(p) \/ Run(s)!Parent(p) \/ Run(s)!LastStage(p) \/ Run(s)!Redirect(p)
             \/ Run(s)!Exec(p) \/ Run(s)!ExecFail(p) \/ Run(s)!End(p)
    BY <2>3, OtherStepsSettle
  <2>4. CASE Run(s)!ReadItem(p) \/ Run(s)!WriteItem(p)
    <3>1. UNCHANGED place_vars
      BY <2>4 DEF Run!ReadItem, Run!WriteItem, Run!locals, place_vars
    <3> QED BY <3>1, SameSettled
  <2> QED BY <1>2, <2>1, <2>2, <2>3, <2>4 DEF Run!Spawns, Run!Works
<1>3. CASE Run(s)!Next
  <2>1. PICK p \in Pids(s) : Run(s)!Spawns(p) \/ Run(s)!Works(p)
    BY <1>3 DEF Run!Next, Pids
  <2> QED BY <1>2, <2>1
<1> QED BY <1>1, <1>3

LEMMA InitSettles ==
  ASSUME NEW s, Bounds(s), Run(s)!Init
  PROVE  Settled(s)
<1>1. /\ procs = 1 /\ pipes = 0 /\ at = [p \in Pids(s) |-> IF p = Main THEN "pipe" ELSE "none"]
      /\ stage = [p \in Pids(s) |-> 0] /\ in = [p \in Pids(s) |-> 0]
      /\ fd = [p \in Pids(s) |-> <<0, 0>>]
      /\ fds = [p \in Pids(s) |-> [f \in Fds(s) |-> IF p = Main /\ f <= 2 THEN Tty ELSE Closed]]
  BY DEF Run!Init, Pids, Fds, Main, Run!Main, Tty, Closed, Run!Closed
<1>2. Main = 1 /\ Main \in Pids(s) /\ \A p \in Pids(s) : p \in Nat /\ (p > 1 => p # Main)
  BY MostIs
<1>3. Shaped(s)
  <2>1. 0 \in Fds(s) /\ 0 \in 0..(s.cmds - 1) /\ 0 \in 0..Most(s)
    BY MostIs DEF Bounds
  <2>2. \A p \in Pids(s) : [f \in Fds(s) |-> IF p = Main /\ f <= 2 THEN Tty ELSE Closed] \in Tabs(s)
    BY FilesAre DEF Tabs
  <2> QED BY <1>1, <1>2, <2>1, <2>2 DEF Shaped, Places
<1>4. ASSUME NEW p \in Pids(s) PROVE Roomy(s, p)
  <2>1. at[p] \in {"pipe", "none"} /\ stage[p] = 0
    BY <1>1
  <2>2. \A f \in Fds(s) : fds[p][f] # Closed => f <= 2
    BY <1>1
  <2> QED BY <2>1, <2>2 DEF Roomy, Between, OpenTo
<1>5. Counted(s)
  <2> DEFINE lab == [p \in Pids(s) |-> {}]
  <2>1. lab \in Ghosts(s) /\ 1..procs = {Main} /\ lab[Main] = {} /\ 1..pipes = {}
    BY <1>1, <1>2 DEF Ghosts, Labels
  <2> HIDE DEF lab
  <2>2. \A p \in Pids(s) : p > procs => at[p] = "none"
    BY <1>1, <1>2
  <2>3. Forked(s, lab)
    BY <2>1, <2>2 DEF Forked
  <2>4. Made(s, lab, lab)
    BY <2>1 DEF Made
  <2> QED BY <2>1, <2>3, <2>4 DEF Counted
<1> QED BY <1>3, <1>4, <1>5 DEF Settled

(***************************************************************************)
(* Where the items are: each in one place, the input, a pipe, a hand, or   *)
(* with the process that wrote it last.  So no process writes more items   *)
(* than there are, even when one stage runs more than once.                *)
(***************************************************************************)
AtTty     == <<"tty", 0>>
AtPipe(k) == <<"pipe", k>>
AtHand(p) == <<"hand", p>>
Done(p)   == <<"done", p>>
Spots     == {"tty", "pipe", "hand", "done"} \X Nat

Where(s)   == [1..s.items -> Spots]
Lists(s)   == Seq(1..s.items)

Lies(q, spot, loc) ==
  /\ \A j \in 1..Len(q) : loc[q[j]] = spot
  /\ \A j, k \in 1..Len(q) : q[j] = q[k] => j = k

DoneBy(s, loc, p) == {x \in 1..s.items : loc[x] = Done(p)}

Stored(s) ==
  /\ hand \in [Pids(s) -> 0..s.items] /\ offset \in [Pids(s) -> 0..s.items]
  /\ tty \in Lists(s) /\ file \in Lists(s)
  /\ pipe \in [Pids(s) -> Lists(s)] /\ \A k \in Pids(s) : Len(pipe[k]) <= s.room

Located(s, loc) ==
  /\ Lies(tty, AtTty, loc)
  /\ \A k \in Pids(s) : Lies(pipe[k], AtPipe(k), loc)
  /\ \A p \in Pids(s) : hand[p] # 0 => loc[hand[p]] = AtHand(p)
  /\ \A p \in Pids(s) : offset[p] <= Cardinality(DoneBy(s, loc, p))

Stocked(s) == Stored(s) /\ \E loc \in Where(s) : Located(s, loc)

LEMMA SpotsAre ==
  /\ AtTty \in Spots
  /\ \A p \in Nat : /\ AtPipe(p) \in Spots /\ AtHand(p) \in Spots /\ Done(p) \in Spots
                    /\ \A q \in Nat : /\ AtTty # AtPipe(q) /\ AtTty # AtHand(q) /\ AtTty # Done(q)
                                      /\ AtPipe(p) # AtHand(q) /\ AtPipe(p) # Done(q)
                                      /\ AtHand(p) # Done(q)
                                      /\ (AtPipe(p) = AtPipe(q) => p = q)
                                      /\ (AtHand(p) = AtHand(q) => p = q)
                                      /\ (Done(p) = Done(q) => p = q)
BY DEF AtTty, AtPipe, AtHand, Done, Spots

\* Only x goes elsewhere; x is the first of q, and r the rest.
OnlyAt(s, loc, new, x) == \A y \in 1..s.items : y # x => new[y] = loc[y]
Splits(q, x, r) ==
  x = q[1] /\ Len(q) >= 1 /\ Len(r) = Len(q) - 1 /\ \A j \in 1..Len(r) : r[j] = q[j + 1]

\* The first of a sequence goes elsewhere; an item joins one; neither is in it.
LEMMA LiesTail ==
  ASSUME NEW s, Bounds(s), NEW q \in Lists(s), NEW spot, NEW loc \in Where(s),
         Lies(q, spot, loc), NEW new \in Where(s),
         NEW x \in 1..s.items, OnlyAt(s, loc, new, x), NEW r \in Lists(s), Splits(q, x, r)
  PROVE  Lies(r, spot, new) /\ loc[x] = spot
<1>1. Len(q) \in Nat /\ 1 \in 1..Len(q) /\ \A j \in 1..Len(q) : q[j] \in 1..s.items
  <2>1. PICK n \in Nat : n = s.items
    BY DEF Bounds
  <2>2. q \in Seq(1..n) /\ Len(q) >= 1
    BY <2>1 DEF Lists, Splits
  <2>3. \A j \in 1..Len(q) : q[j] \in 1..n
    BY <2>2
  <2>4. Len(q) \in Nat /\ 1 \in 1..Len(q)
    BY <2>2
  <2> QED BY <2>1, <2>3, <2>4
<1> USE DEF OnlyAt, Splits, Where, Lists
<1>2. \A j \in 1..Len(r) : j + 1 \in 1..Len(q) /\ j + 1 # 1
  BY <1>1
<1>3. ASSUME NEW j \in 1..Len(r) PROVE new[r[j]] = spot
  <2>1. j + 1 \in 1..Len(q) /\ j + 1 # 1 /\ r[j] = q[j + 1]
    BY <1>2
  <2>2. q[j + 1] # q[1]
    BY <1>1, <2>1 DEF Lies
  <2>3. new[q[j + 1]] = loc[q[j + 1]]
    BY <1>1, <2>1, <2>2
  <2> QED BY <2>1, <2>3 DEF Lies
<1>4. ASSUME NEW j \in 1..Len(r), NEW k \in 1..Len(r), r[j] = r[k] PROVE j = k
  <2>1. q[j + 1] = q[k + 1]
    BY <1>4
  <2>2. j + 1 = k + 1
    BY <1>2, <2>1 DEF Lies
  <2> QED BY <2>2
<1> QED BY <1>1, <1>3, <1>4 DEF Lies

LEMMA HeadTail ==
  ASSUME NEW s, Bounds(s), NEW q \in Lists(s), q # <<>>
  PROVE  \E x \in 1..s.items, r \in Lists(s) :
           x = Head(q) /\ r = Tail(q) /\ Splits(q, x, r)
<1> USE DEF Bounds, Lists
<1> DEFINE r == Tail(q)
<1>1. Head(q) = q[1] /\ Len(q) >= 1 /\ q[1] \in 1..s.items
  OBVIOUS
<1>2. r \in Lists(s) /\ Len(r) = Len(q) - 1 /\ \A j \in 1..(Len(q) - 1) : r[j] = q[j + 1]
  OBVIOUS
<1>3. r = Tail(q)
  OBVIOUS
<1> HIDE DEF r
<1> QED BY <1>1, <1>2, <1>3 DEF Splits

LEMMA LiesAppend ==
  ASSUME NEW s, Bounds(s), NEW q \in Lists(s), NEW spot, NEW loc \in Where(s),
         Lies(q, spot, loc), NEW x \in 1..s.items, loc[x] # spot, NEW new \in Where(s),
         new[x] = spot, OnlyAt(s, loc, new, x)
  PROVE  Lies(Append(q, x), spot, new) /\ Append(q, x) \in Lists(s)
         /\ Len(Append(q, x)) = Len(q) + 1
<1>1. /\ Len(q) \in Nat /\ Append(q, x) \in Lists(s) /\ Len(Append(q, x)) = Len(q) + 1
      /\ \A j \in 1..Len(q) : Append(q, x)[j] = q[j] /\ q[j] \in 1..s.items
      /\ Append(q, x)[Len(q) + 1] = x
  <2>1. PICK n \in Nat : n = s.items
    BY DEF Bounds
  <2>2. q \in Seq(1..n) /\ x \in 1..n
    BY <2>1 DEF Lists
  <2>3. Len(q) \in Nat /\ Append(q, x) \in Seq(1..n) /\ Len(Append(q, x)) = Len(q) + 1
    BY <2>2
  <2>4. \A j \in 1..Len(q) : Append(q, x)[j] = q[j] /\ q[j] \in 1..n
    BY <2>2
  <2>5. Append(q, x)[Len(q) + 1] = x
    BY <2>2
  <2> QED BY <2>1, <2>3, <2>4, <2>5 DEF Lists
<1> USE DEF OnlyAt, Bounds, Where, Lists
<1>2. \A j \in 1..(Len(q) + 1) : j = Len(q) + 1 \/ j \in 1..Len(q)
  BY <1>1
<1>3. \A j \in 1..Len(q) : q[j] # x /\ new[q[j]] = spot
  BY <1>1 DEF Lies
<1>4. ASSUME NEW j \in 1..(Len(q) + 1) PROVE new[Append(q, x)[j]] = spot
  BY <1>1, <1>2, <1>3
<1>5. ASSUME NEW j \in 1..(Len(q) + 1), NEW k \in 1..(Len(q) + 1), Append(q, x)[j] = Append(q, x)[k]
      PROVE  j = k
  BY <1>1, <1>2, <1>3, <1>5 DEF Lies
<1> QED BY <1>1, <1>4, <1>5 DEF Lies

LEMMA LiesOn ==
  ASSUME NEW s, Bounds(s), NEW q \in Lists(s), NEW spot, NEW loc \in Where(s),
         Lies(q, spot, loc), NEW x \in 1..s.items, loc[x] # spot, NEW new \in Where(s),
         OnlyAt(s, loc, new, x)
  PROVE  Lies(q, spot, new)
<1> USE DEF OnlyAt, Bounds, Where, Lists
<1>1. \A j \in 1..Len(q) : q[j] \in 1..s.items
  OBVIOUS
<1>2. \A j \in 1..Len(q) : new[q[j]] = spot
  BY <1>1 DEF Lies
<1> QED BY <1>2 DEF Lies

\* What a process has done grows, by an item it had not.
LEMMA DoneGrows ==
  ASSUME NEW s, Bounds(s), NEW loc \in Where(s), NEW new \in Where(s), NEW x \in 1..s.items,
         NEW p, loc[x] # Done(p), OnlyAt(s, loc, new, x)
  PROVE  /\ Cardinality(DoneBy(s, loc, p)) \in Nat
         /\ Cardinality(DoneBy(s, loc, p)) <= s.items
         /\ new[x] # Done(p) => DoneBy(s, new, p) = DoneBy(s, loc, p)
         /\ new[x] = Done(p) =>
              /\ Cardinality(DoneBy(s, new, p)) = Cardinality(DoneBy(s, loc, p)) + 1
              /\ Cardinality(DoneBy(s, new, p)) <= s.items
<1> DEFINE D == DoneBy(s, loc, p)
           N == DoneBy(s, new, p)
<1>1. IsFiniteSet(1..s.items) /\ Cardinality(1..s.items) = s.items
  <2>1. s.items \in Nat /\ s.items \in Int /\ 1 \in Int
    BY DEF Bounds
  <2>2. IsFiniteSet(1..s.items) /\ Cardinality(1..s.items) = IF 1 > s.items THEN 0 ELSE s.items - 1 + 1
    BY <2>1, FS_Interval
  <2> QED BY <2>1, <2>2
<1>2. D \subseteq 1..s.items /\ N \subseteq 1..s.items
  BY DEF DoneBy
<1>3. x \notin D
  BY DEF DoneBy
<1>9. \A y \in 1..s.items : y # x => new[y] = loc[y]
  BY DEF OnlyAt
<1>4. new[x] # Done(p) => N = D
  BY <1>9 DEF DoneBy
<1>5. new[x] = Done(p) => N = D \cup {x}
  BY <1>9 DEF DoneBy
<1> HIDE DEF D, N
<1>6. IsFiniteSet(D) /\ Cardinality(D) \in Nat /\ Cardinality(D) <= s.items
  BY <1>1, <1>2, FS_Subset, FS_CardinalityType
<1>7. Cardinality(N) <= s.items
  BY <1>1, <1>2, FS_Subset
<1>8. new[x] = Done(p) => Cardinality(N) = Cardinality(D) + 1
  BY <1>3, <1>5, <1>6, FS_AddElement
<1> QED BY <1>4, <1>6, <1>7, <1>8 DEF D, N

\* An item has moved: who holds it no more, and who holds what they held.
Moves(s, loc, new, x, spot) ==
  new[x] = spot /\ OnlyAt(s, loc, new, x)

LEMMA MovesTo ==
  ASSUME NEW s, NEW loc \in Where(s), NEW x \in 1..s.items, NEW spot \in Spots
  PROVE  \E new \in Where(s) : Moves(s, loc, new, x, spot)
<1> DEFINE new == [loc EXCEPT ![x] = spot]
<1>1. new \in Where(s) /\ Moves(s, loc, new, x, spot)
  BY DEF Where, Moves, OnlyAt
<1> QED BY <1>1

LEMMA OthersKeep ==
  ASSUME NEW s, Bounds(s), Stored(s), NEW loc \in Where(s), Located(s, loc),
         NEW x \in 1..s.items, NEW spot \in Spots, NEW new \in Where(s), Moves(s, loc, new, x, spot)
  PROVE  /\ loc[x] # AtTty => Lies(tty, AtTty, new)
         /\ \A k \in Pids(s) : loc[x] # AtPipe(k) => Lies(pipe[k], AtPipe(k), new)
         /\ \A p \in Pids(s) : hand[p] # 0 /\ hand[p] # x => new[hand[p]] = AtHand(p)
         /\ \A p \in Pids(s) : loc[x] # Done(p) /\ spot # Done(p) =>
              offset[p] <= Cardinality(DoneBy(s, new, p))
<1>1. s.items \in Nat
  BY DEF Bounds
<1>2. /\ tty \in Lists(s) /\ Lies(tty, AtTty, loc)
      /\ \A k \in Pids(s) : pipe[k] \in Lists(s) /\ Lies(pipe[k], AtPipe(k), loc)
  BY DEF Stored, Located
<1>3. loc[x] # AtTty => Lies(tty, AtTty, new)
  BY <1>1, <1>2, LiesOn DEF Moves
<1>4. ASSUME NEW k \in Pids(s), loc[x] # AtPipe(k) PROVE Lies(pipe[k], AtPipe(k), new)
  BY <1>1, <1>2, <1>4, LiesOn DEF Moves
<1>5. ASSUME NEW p \in Pids(s), hand[p] # 0, hand[p] # x PROVE new[hand[p]] = AtHand(p)
  <2>1. hand[p] \in 1..s.items /\ loc[hand[p]] = AtHand(p)
    BY <1>1, <1>5 DEF Stored, Located
  <2> QED BY <1>5, <2>1 DEF Moves, OnlyAt
<1>6. ASSUME NEW p \in Pids(s), loc[x] # Done(p), spot # Done(p)
      PROVE  offset[p] <= Cardinality(DoneBy(s, new, p))
  <2>1. new[x] # Done(p) /\ OnlyAt(s, loc, new, x)
    BY <1>6 DEF Moves
  <2>2. DoneBy(s, new, p) = DoneBy(s, loc, p)
    BY <1>6, <2>1, DoneGrows
  <2> QED BY <2>2 DEF Located
<1> QED BY <1>3, <1>4, <1>5, <1>6

LEMMA ReadStocks ==
  ASSUME NEW s, Bounds(s), Settled(s), Stocked(s), NEW p \in Pids(s), Run(s)!ReadItem(p)
  PROVE  Stocked(s)'
<1>1. PICK loc \in Where(s) : Located(s, loc)
  BY DEF Stocked
<1>2. /\ Stored(s) /\ hand[p] = 0 /\ UNCHANGED <<offset, file>> /\ s.items \in Nat
      /\ \A q \in Pids(s) : q \in Nat
  BY MostIs DEF Stocked, Run!ReadItem, Run!Nothing, Bounds
<1>3. CASE tty # <<>> /\ hand' = [hand EXCEPT ![p] = Head(tty)] /\ tty' = Tail(tty) /\ pipe' = pipe
  <2>1. PICK q \in Lists(s) : q = tty /\ q # <<>> /\ Lies(q, AtTty, loc)
    BY <1>1, <1>2, <1>3 DEF Stored, Located
  <2>2. PICK x \in 1..s.items, r \in Lists(s) :
          x = Head(q) /\ r = Tail(q) /\ Splits(q, x, r)
    BY <1>2, <2>1, HeadTail
  <2>3. PICK new \in Where(s) : Moves(s, loc, new, x, AtHand(p))
    <3>1. AtHand(p) \in Spots
      BY <1>2, SpotsAre
    <3> QED BY <3>1, MovesTo
  <2>16. /\ AtHand(p) \in Spots
         /\ OnlyAt(s, loc, new, x)
    BY <1>2, <2>2, <2>3, SpotsAre DEF Moves
  <2>4. Lies(r, AtTty, new) /\ loc[x] = AtTty
    BY <1>2, <2>1, <2>2, <2>16, LiesTail
  <2>5. \A k \in Pids(s) : /\ loc[x] # AtPipe(k) /\ loc[x] # AtHand(k)
                           /\ loc[x] # Done(k) /\ AtHand(p) # Done(k)
    BY <1>2, <2>4, SpotsAre
  <2>6. /\ \A k \in Pids(s) : Lies(pipe[k], AtPipe(k), new)
        /\ \A k \in Pids(s) : offset[k] <= Cardinality(DoneBy(s, new, k))
        /\ \A k \in Pids(s) : hand[k] # 0 /\ hand[k] # x => new[hand[k]] = AtHand(k)
    BY <1>1, <1>2, <2>3, <2>5, <2>16, OthersKeep
  <2>7. \A k \in Pids(s) : hand[k] # 0 => hand[k] # x
    BY <1>1, <2>5 DEF Located
  <2>8. hand' \in [Pids(s) -> 0..s.items] /\ \A k \in Pids(s) : hand'[k] = IF k = p THEN x ELSE hand[k]
    BY <1>2, <1>3, <2>1, <2>2 DEF Stored
  <2>9. \A k \in Pids(s) : hand'[k] # 0 => new[hand'[k]] = AtHand(k)
    BY <2>3, <2>6, <2>7, <2>8 DEF Moves
  <2>10. tty' = r
    BY <1>3, <2>1, <2>2
  <2>11. Located(s, new)'
    BY <1>2, <1>3, <2>4, <2>6, <2>9, <2>10 DEF Located
  <2>12. Stored(s)'
    BY <1>2, <1>3, <2>4, <2>8, <2>10 DEF Stored
  <2> QED BY <2>11, <2>12 DEF Stocked
<1>4. ASSUME NEW k \in Pids(s), pipe[k] # <<>>, hand' = [hand EXCEPT ![p] = Head(pipe[k])],
             pipe' = [pipe EXCEPT ![k] = Tail(pipe[k])], tty' = tty
      PROVE  Stocked(s)'
  <2>1. PICK q \in Lists(s) : q = pipe[k] /\ q # <<>> /\ Lies(q, AtPipe(k), loc)
    BY <1>1, <1>2, <1>4 DEF Stored, Located
  <2>2. PICK x \in 1..s.items, r \in Lists(s) :
          x = Head(q) /\ r = Tail(q) /\ Splits(q, x, r)
    BY <1>2, <2>1, HeadTail
  <2>3. PICK new \in Where(s) : Moves(s, loc, new, x, AtHand(p))
    <3>1. AtHand(p) \in Spots
      BY <1>2, SpotsAre
    <3> QED BY <3>1, MovesTo
  <2>16. /\ AtHand(p) \in Spots
         /\ OnlyAt(s, loc, new, x)
    BY <1>2, <2>2, <2>3, SpotsAre DEF Moves
  <2>4. Lies(r, AtPipe(k), new) /\ loc[x] = AtPipe(k)
    BY <1>2, <2>1, <2>2, <2>16, LiesTail
  <2>5. \A m \in Pids(s) : /\ loc[x] = AtPipe(m) => m = k
                           /\ loc[x] # AtHand(m) /\ loc[x] # Done(m) /\ AtHand(p) # Done(m)
    BY <1>2, <2>4, SpotsAre
  <2>6. loc[x] # AtTty
    BY <1>2, <2>4, SpotsAre
  <2>7. /\ Lies(tty, AtTty, new)
        /\ \A m \in Pids(s) : m # k => Lies(pipe[m], AtPipe(m), new)
        /\ \A m \in Pids(s) : offset[m] <= Cardinality(DoneBy(s, new, m))
        /\ \A m \in Pids(s) : hand[m] # 0 /\ hand[m] # x => new[hand[m]] = AtHand(m)
    <3>1. /\ Lies(tty, AtTty, new)
          /\ \A m \in Pids(s) : loc[x] # AtPipe(m) => Lies(pipe[m], AtPipe(m), new)
          /\ \A m \in Pids(s) : loc[x] # Done(m) /\ AtHand(p) # Done(m) =>
               offset[m] <= Cardinality(DoneBy(s, new, m))
          /\ \A m \in Pids(s) : hand[m] # 0 /\ hand[m] # x => new[hand[m]] = AtHand(m)
      BY <1>1, <1>2, <2>3, <2>6, <2>16, OthersKeep
    <3> QED BY <2>5, <3>1
  <2>8. \A m \in Pids(s) : hand[m] # 0 => hand[m] # x
    BY <1>1, <2>5 DEF Located
  <2>9. hand' \in [Pids(s) -> 0..s.items] /\ \A m \in Pids(s) : hand'[m] = IF m = p THEN x ELSE hand[m]
    BY <1>2, <1>4, <2>1, <2>2 DEF Stored
  <2>10. \A m \in Pids(s) : hand'[m] # 0 => new[hand'[m]] = AtHand(m)
    BY <2>3, <2>7, <2>8, <2>9 DEF Moves
  <2>11. /\ pipe' \in [Pids(s) -> Lists(s)]
         /\ \A m \in Pids(s) : pipe'[m] = IF m = k THEN r ELSE pipe[m]
    BY <1>2, <1>4, <2>1, <2>2 DEF Stored
  <2>12. \A m \in Pids(s) : Lies(pipe'[m], AtPipe(m), new)
    BY <2>4, <2>7, <2>11
  <2>13. Located(s, new)'
    BY <1>2, <1>4, <2>7, <2>10, <2>12 DEF Located
  <2>14. \A m \in Pids(s) : Len(pipe'[m]) <= s.room
    <3>1. Len(q) <= s.room /\ Len(q) \in Nat /\ s.room \in Nat
      BY <1>2, <2>1 DEF Stored, Bounds
    <3>2. Len(r) <= s.room
      BY <2>2, <3>1 DEF Splits
    <3> QED BY <1>2, <2>11, <3>2 DEF Stored
  <2>15. Stored(s)'
    BY <1>2, <1>4, <2>9, <2>11, <2>14 DEF Stored
  <2> QED BY <2>13, <2>15 DEF Stocked
<1>5. fds[p][0][1] = "r" => fds[p][0][2] \in Pids(s)
  <2>1. fds[p][0] \in Files(s)
    <3>1. 0 \in Fds(s) /\ fds[p] \in Tabs(s)
      BY MostIs DEF Settled, Shaped, Bounds
    <3> QED BY <3>1 DEF Tabs
  <2> QED BY <2>1, FilesAre, MostIs
<1>6. CASE fds[p][0][1] = "r" /\ pipe[fds[p][0][2]] # <<>>
           /\ hand' = [hand EXCEPT ![p] = Head(pipe[fds[p][0][2]])]
           /\ pipe' = [pipe EXCEPT ![fds[p][0][2]] = Tail(pipe[fds[p][0][2]])] /\ tty' = tty
  <2>1. PICK k \in Pids(s) : k = fds[p][0][2]
    BY <1>5, <1>6
  <2> QED BY <1>4, <1>6, <2>1
<1> QED BY <1>3, <1>6 DEF Run!ReadItem

LEMMA WriteStocks ==
  ASSUME NEW s, Bounds(s), Settled(s), Stocked(s), NEW p \in Pids(s), Run(s)!WriteItem(p)
  PROVE  Stocked(s)'
<1>1. PICK loc \in Where(s) : Located(s, loc)
  BY DEF Stocked
<1>2. /\ Stored(s) /\ hand[p] # 0 /\ UNCHANGED tty /\ s.items \in Nat /\ s.room \in Nat
      /\ \A q \in Pids(s) : q \in Nat
  BY MostIs DEF Stocked, Run!WriteItem, Run!Nothing, Bounds
<1>3. hand' = [hand EXCEPT ![p] = 0]
  BY DEF Run!WriteItem, Run!Nothing
<1>4. PICK x \in 1..s.items : x = hand[p] /\ loc[x] = AtHand(p)
  <2>1. hand[p] \in 0..s.items
    BY <1>2 DEF Stored
  <2>2. hand[p] \in 1..s.items
    BY <1>2, <2>1
  <2> QED BY <1>1, <1>2, <2>2 DEF Located
<1>5. \A q \in Pids(s) : /\ loc[x] = AtHand(q) => q = p
                         /\ loc[x] # AtPipe(q) /\ loc[x] # Done(q) /\ AtPipe(q) # Done(p)
                         /\ (Done(q) = Done(p) => q = p)
                         /\ AtPipe(q) \in Spots /\ Done(q) \in Spots
  BY <1>2, <1>4, SpotsAre
<1>6. loc[x] # AtTty
  BY <1>2, <1>4, SpotsAre
<1>7. \A q \in Pids(s) : q # p /\ hand[q] # 0 => hand[q] # x
  BY <1>1, <1>5 DEF Located
<1>8. hand' \in [Pids(s) -> 0..s.items] /\ \A q \in Pids(s) : hand'[q] = IF q = p THEN 0 ELSE hand[q]
  <2>1. 0 \in 0..s.items
    BY <1>2
  <2> QED BY <1>2, <1>3, <2>1 DEF Stored
\* Into a pipe.
<1>9. ASSUME NEW k \in Pids(s), Len(pipe[k]) < s.room,
             pipe' = [pipe EXCEPT ![k] = Append(pipe[k], hand[p])], UNCHANGED <<offset, file>>
      PROVE  Stocked(s)'
  <2>1. PICK q \in Lists(s) : q = pipe[k] /\ Lies(q, AtPipe(k), loc)
    BY <1>1, <1>2 DEF Stored, Located
  <2>2. PICK new \in Where(s) : Moves(s, loc, new, x, AtPipe(k))
    BY <1>5, MovesTo
  <2>3. new[x] = AtPipe(k) /\ OnlyAt(s, loc, new, x)
    BY <2>2 DEF Moves
  <2>4. PICK r : r = Append(q, x)
    OBVIOUS
  <2>5. Lies(r, AtPipe(k), new) /\ r \in Lists(s) /\ Len(r) = Len(q) + 1
    <3>1. loc[x] # AtPipe(k)
      BY <1>5
    <3> QED BY <2>1, <2>3, <2>4, <3>1, LiesAppend
  <2>6. /\ Lies(tty, AtTty, new)
        /\ \A m \in Pids(s) : Lies(pipe[m], AtPipe(m), new)
        /\ \A m \in Pids(s) : hand[m] # 0 /\ hand[m] # x => new[hand[m]] = AtHand(m)
        /\ \A m \in Pids(s) : offset[m] <= Cardinality(DoneBy(s, new, m))
    <3>1. /\ loc[x] # AtTty => Lies(tty, AtTty, new)
          /\ \A m \in Pids(s) : loc[x] # AtPipe(m) => Lies(pipe[m], AtPipe(m), new)
          /\ \A m \in Pids(s) : hand[m] # 0 /\ hand[m] # x => new[hand[m]] = AtHand(m)
          /\ \A m \in Pids(s) : loc[x] # Done(m) /\ AtPipe(k) # Done(m) =>
               offset[m] <= Cardinality(DoneBy(s, new, m))
      BY <1>1, <1>2, <1>5, <2>2, OthersKeep
    <3>2. \A m \in Pids(s) : AtPipe(k) # Done(m)
      BY <1>2, SpotsAre
    <3> QED BY <1>5, <1>6, <3>1, <3>2
  <2>7. \A m \in Pids(s) : hand'[m] # 0 => new[hand'[m]] = AtHand(m)
    BY <1>7, <1>8, <2>6
  <2>8. /\ pipe' \in [Pids(s) -> Lists(s)]
        /\ \A m \in Pids(s) : pipe'[m] = IF m = k THEN r ELSE pipe[m]
    BY <1>2, <1>4, <1>9, <2>1, <2>4, <2>5 DEF Stored
  <2>9. \A m \in Pids(s) : Lies(pipe'[m], AtPipe(m), new)
    BY <2>5, <2>6, <2>8
  <2>10. Located(s, new)'
    BY <1>2, <1>9, <2>6, <2>7, <2>9 DEF Located
  <2>11. \A m \in Pids(s) : Len(pipe'[m]) <= s.room
    <3>1. Len(q) < s.room /\ Len(q) \in Nat
      BY <1>9, <2>1 DEF Lists
    <3>2. Len(r) <= s.room
      BY <1>2, <2>5, <3>1
    <3> QED BY <1>2, <2>8, <3>2 DEF Stored
  <2>12. Stored(s)'
    BY <1>2, <1>8, <1>9, <2>8, <2>11 DEF Stored
  <2> QED BY <2>10, <2>12 DEF Stocked
\* Into the file, at the process's own offset.
<1>10. ASSUME offset' = [offset EXCEPT ![p] = offset[p] + 1], UNCHANGED pipe,
              file' = IF offset[p] < Len(file) THEN [file EXCEPT ![offset'[p]] = hand[p]]
                                               ELSE Append(file, hand[p])
       PROVE  Stocked(s)'
  <2>1. PICK new \in Where(s) : Moves(s, loc, new, x, Done(p))
    BY <1>5, MovesTo
  <2>2. new[x] = Done(p) /\ OnlyAt(s, loc, new, x)
    BY <2>1 DEF Moves
  <2>3. PICK a \in 0..s.items : a = offset[p] /\ a <= Cardinality(DoneBy(s, loc, p))
    BY <1>1, <1>2 DEF Stored, Located
  <2>4. /\ Cardinality(DoneBy(s, loc, p)) \in Nat
        /\ Cardinality(DoneBy(s, new, p)) = Cardinality(DoneBy(s, loc, p)) + 1
        /\ Cardinality(DoneBy(s, new, p)) <= s.items
    BY <1>5, <2>2, DoneGrows
  <2>5. a + 1 <= Cardinality(DoneBy(s, new, p)) /\ a + 1 \in 0..s.items /\ a + 1 \in 1..s.items
    BY <1>2, <2>3, <2>4
  <2>6. /\ offset' \in [Pids(s) -> 0..s.items]
        /\ \A m \in Pids(s) : offset'[m] = IF m = p THEN a + 1 ELSE offset[m]
    BY <1>2, <1>10, <2>3, <2>5 DEF Stored
  <2>7. /\ Lies(tty, AtTty, new)
        /\ \A m \in Pids(s) : Lies(pipe[m], AtPipe(m), new)
        /\ \A m \in Pids(s) : hand[m] # 0 /\ hand[m] # x => new[hand[m]] = AtHand(m)
        /\ \A m \in Pids(s) : m # p => offset[m] <= Cardinality(DoneBy(s, new, m))
    <3>1. /\ loc[x] # AtTty => Lies(tty, AtTty, new)
          /\ \A m \in Pids(s) : loc[x] # AtPipe(m) => Lies(pipe[m], AtPipe(m), new)
          /\ \A m \in Pids(s) : hand[m] # 0 /\ hand[m] # x => new[hand[m]] = AtHand(m)
          /\ \A m \in Pids(s) : loc[x] # Done(m) /\ Done(p) # Done(m) =>
               offset[m] <= Cardinality(DoneBy(s, new, m))
      BY <1>1, <1>2, <1>5, <2>1, OthersKeep
    <3>2. \A m \in Pids(s) : m # p => Done(p) # Done(m)
      BY <1>5
    <3> QED BY <1>5, <1>6, <3>1, <3>2
  <2>8. \A m \in Pids(s) : hand'[m] # 0 => new[hand'[m]] = AtHand(m)
    BY <1>7, <1>8, <2>7
  <2>9. \A m \in Pids(s) : offset'[m] <= Cardinality(DoneBy(s, new, m))
    BY <2>5, <2>6, <2>7
  <2>10. Located(s, new)'
    BY <1>2, <1>10, <2>7, <2>8, <2>9 DEF Located
  <2>11. file' \in Lists(s)
    <3>1. PICK f \in Seq(1..s.items) : f = file
      BY <1>2 DEF Stored, Lists
    <3>2. offset'[p] = a + 1
      BY <2>6
    <3>3. file' = IF a < Len(f) THEN [f EXCEPT ![a + 1] = x] ELSE Append(f, x)
      BY <1>4, <1>10, <2>3, <3>1, <3>2
    <3>4. Append(f, x) \in Seq(1..s.items)
      OBVIOUS
    <3>5. [f EXCEPT ![a + 1] = x] \in Seq(1..s.items)
      <4>3. Len(f) \in Nat /\ f = [j \in 1..Len(f) |-> f[j]]
        OBVIOUS
      <4>4. \A j \in 1..Len(f) : f[j] \in 1..s.items
        BY <1>2
      <4>1. PICK n \in Nat : n = Len(f) /\ f \in [1..n -> 1..s.items]
        BY <4>3, <4>4
      <4>2. [f EXCEPT ![a + 1] = x] \in [1..n -> 1..s.items]
        BY <4>1
      <4> QED BY <4>2
    <3> QED BY <3>3, <3>4, <3>5 DEF Lists
  <2>12. Stored(s)'
    BY <1>2, <1>8, <1>10, <2>6, <2>11 DEF Stored
  <2> QED BY <2>10, <2>12 DEF Stocked
\* To the terminal.
<1>11. CASE UNCHANGED <<offset, file, pipe>>
  <2>1. \A m \in Pids(s) : hand'[m] # 0 => loc[hand'[m]] = AtHand(m)
    BY <1>1, <1>8 DEF Located
  <2>2. Located(s, loc)'
    BY <1>1, <1>2, <1>11, <2>1 DEF Located
  <2>3. Stored(s)'
    BY <1>2, <1>8, <1>11 DEF Stored
  <2> QED BY <2>2, <2>3 DEF Stocked
<1>12. fds[p][1][1] = "w" => fds[p][1][2] \in Pids(s)
  <2>0. 1 \in Fds(s)
    BY MostIs DEF Bounds
  <2>1. 1 \in Fds(s) /\ fds[p] \in Tabs(s)
    BY <2>0 DEF Settled, Shaped
  <2>2. fds[p][1] \in Files(s)
    BY <2>1 DEF Tabs
  <2> QED BY <2>2, FilesAre, MostIs
<1>13. CASE /\ fds[p][1][1] = "w" /\ Len(pipe[fds[p][1][2]]) < s.room
            /\ pipe' = [pipe EXCEPT ![fds[p][1][2]] = Append(pipe[fds[p][1][2]], hand[p])]
            /\ UNCHANGED <<offset, file>>
  <2>1. PICK k \in Pids(s) : k = fds[p][1][2]
    BY <1>12, <1>13
  <2> QED BY <1>9, <1>13, <2>1
<1> QED BY <1>10, <1>11, <1>13 DEF Run!WriteItem

LEMMA InitStocks ==
  ASSUME NEW s, Bounds(s), Run(s)!Init
  PROVE  Stocked(s)
<1>1. /\ hand = [p \in Pids(s) |-> 0] /\ offset = [p \in Pids(s) |-> 0]
      /\ tty = [k \in 1..s.items |-> k] /\ pipe = [k \in Pids(s) |-> <<>>] /\ file = <<>>
  BY MostIs DEF Run!Init, Pids, Run!Nothing
<1>2. PICK n \in Nat : n = s.items /\ s.room \in Nat
  BY DEF Bounds
<1>3. Stored(s)
  <2>1. [k \in 1..n |-> k] \in Seq(1..n) /\ <<>> \in Seq(1..n) /\ 0 \in 0..n /\ Len(<<>>) = 0
    OBVIOUS
  <2>2. \A k \in Pids(s) : Len(pipe[k]) <= s.room
    BY <1>1, <1>2
  <2> QED BY <1>1, <1>2, <2>1, <2>2 DEF Stored, Lists
<1> DEFINE loc == [x \in 1..s.items |-> AtTty]
<1>4. loc \in Where(s) /\ \A x \in 1..s.items : loc[x] = AtTty
  BY SpotsAre DEF Where
<1> HIDE DEF loc
<1>5. Lies(tty, AtTty, loc)
  <2>1. PICK q \in Seq(1..n) : q = tty /\ Len(q) = n /\ \A k \in 1..n : q[k] = k
    <3>1. [k \in 1..n |-> k] \in Seq(1..n) /\ Len([k \in 1..n |-> k]) = n
      OBVIOUS
    <3> QED BY <1>1, <1>2, <3>1
  <2> QED BY <1>2, <1>4, <2>1 DEF Lies
<1>6. ASSUME NEW k \in Pids(s) PROVE Lies(pipe[k], AtPipe(k), loc)
  <2>1. 1..Len(pipe[k]) = {}
    BY <1>1
  <2> QED BY <2>1 DEF Lies
<1>7. ASSUME NEW p \in Pids(s) PROVE offset[p] <= Cardinality(DoneBy(s, loc, p))
  <2>1. DoneBy(s, loc, p) \subseteq 1..s.items
    BY DEF DoneBy
  <2>2. IsFiniteSet(1..s.items)
    BY <1>2, FS_Interval
  <2>3. Cardinality(DoneBy(s, loc, p)) \in Nat
    BY <2>1, <2>2, FS_Subset, FS_CardinalityType
  <2> QED BY <1>1, <2>3
<1>8. \A p \in Pids(s) : hand[p] = 0
  BY <1>1
<1> QED BY <1>3, <1>4, <1>5, <1>6, <1>7, <1>8 DEF Stocked, Located

LEMMA SameStocks ==
  ASSUME NEW s, Stocked(s), UNCHANGED <<hand, offset, tty, pipe, file>>
  PROVE  Stocked(s)'
<1>1. PICK loc \in Where(s) : Located(s, loc)
  BY DEF Stocked
<1>2. Located(s, loc)'
  BY <1>1 DEF Located
<1>3. Stored(s)'
  BY DEF Stocked, Stored
<1> QED BY <1>2, <1>3 DEF Stocked

LEMMA StepStocks ==
  ASSUME NEW s, Bounds(s), Settled(s), Stocked(s), [Run(s)!Next]_(Run(s)!vars)
  PROVE  Stocked(s)'
<1>1. CASE UNCHANGED Run(s)!vars
  BY <1>1, SameStocks DEF Run!vars, Run!data
<1>2. ASSUME NEW p \in Pids(s), Run(s)!Spawns(p) \/ Run(s)!Works(p)
      PROVE  Stocked(s)'
  <2>1. CASE Run(s)!ReadItem(p)
    BY <2>1, ReadStocks
  <2>2. CASE Run(s)!WriteItem(p)
    BY <2>2, WriteStocks
  <2>3. CASE Run(s)!Spawns(p) \/ Run(s)!End(p)
    <3>1. UNCHANGED Run(s)!data
      BY <2>3 DEF Run!Spawns, Run!Pipe, Run!Fork, Run!ForkFail, Run!Parent, Run!LastStage,
                  Run!Redirect, Run!Exec, Run!ExecFail, Run!End
    <3> QED BY <3>1, SameStocks DEF Run!data
  <2> QED BY <1>2, <2>1, <2>2, <2>3 DEF Run!Works
<1>3. CASE Run(s)!Next
  <2>1. PICK p \in Pids(s) : Run(s)!Spawns(p) \/ Run(s)!Works(p)
    BY <1>3 DEF Run!Next, Pids
  <2> QED BY <1>2, <2>1
<1> QED BY <1>1, <1>3

LEMMA TypesFollow ==
  ASSUME NEW s, Bounds(s), Settled(s), Stocked(s)
  PROVE  Run(s)!TypeOK
<1>1. Run(s)!Pids = Pids(s) /\ Run(s)!Fds = Fds(s) /\ Run(s)!Files = Files(s)
  BY DEF Pids, Fds, Files
<1>2. Run(s)!Pipes = Pids(s) /\ Most(s) = 2 ^ (s.cmds - 1)
  BY MostIs DEF Most
<1>3. Shaped(s) /\ Stored(s)
  BY DEF Settled, Stocked
<1>4. /\ procs \in Run(s)!Pids /\ pipes \in 0..2 ^ (s.cmds - 1)
      /\ at \in [Run(s)!Pids -> {"none", "pipe", "fork", "redirect", "exec", "parent", "running", "exited"}]
      /\ stage \in [Run(s)!Pids -> 0..(s.cmds - 1)] /\ in \in [Run(s)!Pids -> Run(s)!Fds]
      /\ fd \in [Run(s)!Pids -> Run(s)!Fds \X Run(s)!Fds]
      /\ fds \in [Run(s)!Pids -> [Run(s)!Fds -> Run(s)!Files]]
  BY <1>1, <1>2, <1>3 DEF Shaped, Places, Tabs
<1>5. /\ hand \in [Run(s)!Pids -> 0..s.items] /\ offset \in [Run(s)!Pids -> 0..s.items]
      /\ tty \in Seq(1..s.items) /\ file \in Seq(1..s.items)
  BY <1>1, <1>3 DEF Stored, Lists
<1>6. \A k \in Run(s)!Pipes : pipe[k] \in Seq(1..s.items) /\ Len(pipe[k]) <= s.room
  BY <1>2, <1>3 DEF Stored, Lists
<1> QED BY <1>4, <1>5, <1>6 DEF Run!TypeOK

(***************************************************************************)
(* Whatever fails, and however often a child goes on with the loop because *)
(* its command could not be executed, there are no more processes and      *)
(* pipes than the sets of turns (2 to the number of stages less one), no   *)
(* process needs a descriptor beyond the number of stages and two, and     *)
(* none writes more items than there are (fork_pipes, lines 135-172).      *)
(***************************************************************************)
THEOREM TypesAnyLength ==
  ASSUME NEW s, Bounds(s)
  PROVE  Run(s)!Init /\ [][Run(s)!Next]_(Run(s)!vars) => []Run(s)!TypeOK
<1>1. Run(s)!Init => Settled(s) /\ Stocked(s)
  BY InitSettles, InitStocks
<1>2. (Settled(s) /\ Stocked(s)) /\ [Run(s)!Next]_(Run(s)!vars) => (Settled(s) /\ Stocked(s))'
  BY StepSettles, StepStocks
<1>3. Settled(s) /\ Stocked(s) => Run(s)!TypeOK
  BY TypesFollow
<1> QED BY <1>1, <1>2, <1>3, PTL

-------------------------------------------------------------------------------
(***************************************************************************)
(* main's pipelines are of these lengths, and sizes.                       *)
(***************************************************************************)
LEMMA Settings ==
  /\ Sizes(plain) /\ Sizes(quit) /\ Keeps(plain)
  /\ Bounds(plain) /\ Bounds(quit) /\ Bounds(exec)
<1>1. /\ plain.cmds = 4 /\ plain.items = 5 /\ plain.room = 2 /\ plain.max_fd = 9 /\ plain.failing = {}
      /\ plain.quitters = {} /\ plain.open_fails = FALSE
  BY DEF plain
<1>2. quit.cmds = 4 /\ quit.items = 3 /\ quit.room = 1 /\ quit.max_fd = 9 /\ quit.failing = {}
  BY DEF quit
<1>3. exec.cmds = 3 /\ exec.items = 3 /\ exec.room = 1 /\ exec.max_fd = 9
  BY DEF exec
<1>4. Sizes(plain) /\ Sizes(quit) /\ Keeps(plain)
  BY <1>1, <1>2 DEF Sizes, Keeps
<1>5. Bounds(plain) /\ Bounds(quit) /\ Bounds(exec)
  BY <1>1, <1>2, <1>3 DEF Bounds
<1> QED BY <1>4, <1>5

\* A step of main's is one of the stages', which are of its kind.
LEMMA StagesStep ==
  ASSUME [MainNext]_all_vars
  PROVE  /\ kind' = kind
         /\ kind = "plain" => [Run(plain)!Next]_(Run(plain)!vars)
         /\ kind = "quit"  => [Run(quit)!Next]_(Run(quit)!vars)
         /\ kind = "exec"  => [Run(exec)!Next]_(Run(exec)!vars)
<1>1. CASE UNCHANGED all_vars \/ Parse
  <2>1. UNCHANGED <<kind, procs, pipes, at, stage, in, fd, fds, hand, offset, tty, pipe, file>>
    BY <1>1 DEF all_vars, stage_vars, Parse
  <2>2. UNCHANGED Run(plain)!vars /\ UNCHANGED Run(quit)!vars /\ UNCHANGED Run(exec)!vars
    BY <2>1 DEF Run!vars, Run!locals, Run!data
  <2> QED BY <2>1, <2>2
<1>2. ASSUME NEW p, Stages(p)
      PROVE  /\ kind' = kind
             /\ kind = "plain" => Run(plain)!Next
             /\ kind = "quit"  => Run(quit)!Next
             /\ kind = "exec"  => Run(exec)!Next
  BY <1>2 DEF Stages, Run!Next
<1> QED BY <1>1, <1>2 DEF MainNext

StagesFlow ==
  /\ kind = "plain" => Placed(plain) /\ Flows(plain)
  /\ kind = "quit"  => Placed(quit) /\ Flows(quit)

LEMMA StagesFlowAlways == MainSpec => []StagesFlow
<1>1. MainInit => StagesFlow
  BY Settings, InitPlaces, InitFlows DEF MainInit, StagesFlow
<1>2. StagesFlow /\ [MainNext]_all_vars => StagesFlow'
  <2> SUFFICES ASSUME StagesFlow, [MainNext]_all_vars PROVE StagesFlow'
    OBVIOUS
  <2>1. kind' = kind
    BY StagesStep
  <2>2. ASSUME kind = "plain" PROVE Placed(plain)' /\ Flows(plain)'
    BY <2>2, Settings, StagesStep, StepPlaces, StepFlows DEF StagesFlow
  <2>3. ASSUME kind = "quit" PROVE Placed(quit)' /\ Flows(quit)'
    BY <2>3, Settings, StagesStep, StepPlaces, StepFlows DEF StagesFlow
  <2> QED BY <2>1, <2>2, <2>3 DEF StagesFlow
<1> QED BY <1>1, <1>2, PTL DEF MainSpec

(***************************************************************************)
(* In main's pipelines no item is lost, repeated or out of order where the *)
(* programs run to the end of their input, and the result file has the     *)
(* input's first items where some end early, a fork fails or the file      *)
(* cannot be opened.                                                       *)
(***************************************************************************)
THEOREM MainKeepsItems == MainSpec => []ItemsKept
<1>1. StagesFlow => ItemsKept
  BY Settings, FlowsLoseNothing, FlowsAreWritten DEF StagesFlow, ItemsKept
<1> QED BY <1>1, StagesFlowAlways, PTL
StagesHold ==
  /\ kind = "plain" => Settled(plain) /\ Stocked(plain)
  /\ kind = "quit"  => Settled(quit) /\ Stocked(quit)
  /\ kind = "exec"  => Settled(exec) /\ Stocked(exec)

LEMMA StagesHoldAlways == MainSpec => []StagesHold
<1>1. MainInit => StagesHold
  BY Settings, InitSettles, InitStocks DEF MainInit, StagesHold
<1>2. StagesHold /\ [MainNext]_all_vars => StagesHold'
  <2> SUFFICES ASSUME StagesHold, [MainNext]_all_vars PROVE StagesHold'
    OBVIOUS
  <2>1. kind' = kind
    BY StagesStep
  <2>2. ASSUME kind = "plain" PROVE Settled(plain)' /\ Stocked(plain)'
    BY <2>2, Settings, StagesStep, StepSettles, StepStocks DEF StagesHold
  <2>3. ASSUME kind = "quit" PROVE Settled(quit)' /\ Stocked(quit)'
    BY <2>3, Settings, StagesStep, StepSettles, StepStocks DEF StagesHold
  <2>4. ASSUME kind = "exec" PROVE Settled(exec)' /\ Stocked(exec)'
    BY <2>4, Settings, StagesStep, StepSettles, StepStocks DEF StagesHold
  <2> QED BY <2>1, <2>2, <2>3, <2>4 DEF StagesHold
<1> QED BY <1>1, <1>2, PTL DEF MainSpec

(***************************************************************************)
(* In main's pipelines the processes, the pipes, the descriptors and the   *)
(* items stay within their bounds, with stages that run twice because a    *)
(* command could not be executed as well (line 142); and where every       *)
(* command can be, no stage holds a write end that would keep its reader   *)
(* waiting (159-160).                                                      *)
(***************************************************************************)
THEOREM MainKeepsStages == MainSpec => []StagesInv
<1>1. StagesHold => StagesTypeOK
  BY Settings, TypesFollow DEF StagesHold, StagesTypeOK
<1>2. StagesFlow => WriteEndsKept
  BY Settings, PlacedKeepEnds DEF StagesFlow, WriteEndsKept
<1> QED BY <1>1, <1>2, StagesHoldAlways, StagesFlowAlways, PTL DEF StagesInv
===============================================================================
