------------------------------- MODULE Derivative -------------------------------
(***************************************************************************)
(* Multithread/week1/derivative.cpp: the derivative of a polynomial, read  *)
(* from its text with a stack of tokens.  One pass of the loop of          *)
(* derivative(), which takes one token, is one step.                       *)
(***************************************************************************)
EXTENDS Integers, Sequences, FiniteSets, SequencesExt, FiniteSetsExt

CONSTANTS
  Coefs,      \* the coefficients that are written; a term may have none
  Exps,       \* the exponents that are written behind ^
  MaxTerms    \* bound: the terms of the polynomial

DerivativeAssumption ==
  Coefs \subseteq Nat \ {0} /\ Exps \subseteq Nat \ {0} /\ MaxTerms \in Nat

Token(kind, val) == [kind |-> kind, val |-> val]
Plus  == Token("OPERATOR", 1)
Minus == Token("OPERATOR", -1)
Var   == Token("VARIABLE", 1)
Times == Token("TIMES", 1)
Tokens == {Plus, Minus, Var} \cup [kind : {"COEF"}, val : Coefs] \cup [kind : {"EXP"}, val : Exps]

(***************************************************************************)
(* What the polynomial says: terms as they are written.                    *)
(***************************************************************************)
Bodies ==
  {<<Token("COEF", c)>> : c \in Coefs} \cup {<<Var>>}
    \cup {<<Token("COEF", c), Times, Var>> : c \in Coefs}
    \cup {<<Var, Token("EXP", e)>> : e \in Exps}
    \cup {<<Token("COEF", c), Times, Var, Token("EXP", e)>> : c \in Coefs, e \in Exps}
Terms  == {<<s>> \o b : s \in {Plus, Minus}, b \in Bodies}
Polynomials ==
  UNION {[1..n -> Terms] : n \in 1..MaxTerms}
    \cup UNION {{<<b>> \o p : b \in Bodies, p \in [1..n -> Terms]} : n \in 0..(MaxTerms - 1)}

VARIABLES
  terms,         \* history: the polynomial, term by term
  polynomial,    \* the tokens that are left of its text
  stack,         \* the tokens of the term being read
  ans,           \* the coefficient of each power in the answer
  done           \* whether derivative() has returned

vars == <<terms, polynomial, stack, ans, done>>

Init ==
  /\ terms \in Polynomials
  /\ polynomial = FlattenSeq(terms)
  /\ stack = <<>>
  /\ ans = <<>>
  /\ done = FALSE

Kinds(s) == {s[k].kind : k \in DOMAIN s}
Value(s, kind) == IF kind \in Kinds(s) THEN s[CHOOSE k \in DOMAIN s : s[k].kind = kind].val ELSE 1
IsMinus(t) == t.kind = "OPERATOR" /\ t.val = -1

\* Mutant of pop_function: the sign of a term with an exponent is lost.
pop_functionUnsigned(st) ==
  CASE Last(st).kind = "EXP" -> <<Last(st).val - 1, Last(st).val * Value(st, "COEF")>>
    [] Last(st).kind = "VARIABLE" ->
         <<0, (IF IsMinus(Head(st)) THEN -1 ELSE 1) * Value(st, "COEF")>>
    [] OTHER -> <<-1, 0>>

\* The power and coefficient of the term's derivative; power -1 stands for the
\* key "0".  With an exponent and nothing before x, the code reads the front
\* of an empty vector; the storage still has x there, which is no operator.
pop_function(st) ==
  CASE Last(st).kind = "EXP" ->
         <<Last(st).val - 1,
           (IF IsMinus(Head(st)) THEN -1 ELSE 1) * Last(st).val * Value(st, "COEF")>>
    [] Last(st).kind = "VARIABLE" ->
         <<0, (IF IsMinus(Head(st)) THEN -1 ELSE 1) * Value(st, "COEF")>>
    [] OTHER -> <<-1, 0>>

\* ans[power] += coef, an entry made for a new power.
add_to_ans(a, power, coef) ==
  [q \in DOMAIN a \cup {power} |->
     (IF q \in DOMAIN a THEN a[q] ELSE 0) + (IF q = power THEN coef ELSE 0)]

\* The term on the stack goes into the answer, unless it is a constant.
Popped(a, st) ==
  IF st = <<>> \/ pop_function(st)[1] = -1 THEN a
  ELSE add_to_ans(a, pop_function(st)[1], pop_function(st)[2])

Operator ==
  /\ polynomial # <<>> /\ Head(polynomial) \in {Plus, Minus}
  /\ ans' = Popped(ans, stack)
  /\ stack' = <<Head(polynomial)>>
  /\ polynomial' = Tail(polynomial)
  /\ UNCHANGED <<terms, done>>

\* Numbers, x and the power are pushed, * is not.
Push ==
  /\ polynomial # <<>> /\ Head(polynomial) \notin {Plus, Minus}
  /\ stack' = IF Head(polynomial) = Times THEN stack ELSE Append(stack, Head(polynomial))
  /\ polynomial' = Tail(polynomial)
  /\ UNCHANGED <<terms, ans, done>>

Return ==
  /\ polynomial = <<>> /\ ~ done
  /\ ans' = Popped(ans, stack)
  /\ stack' = <<>> /\ done' = TRUE
  /\ UNCHANGED <<terms, polynomial>>

Next == Operator \/ Push \/ Return

Spec == Init /\ [][Next]_vars

-------------------------------------------------------------------------------
(***************************************************************************)
(* answer(): the keys "1", "x", "x^2"... in the map's order, which is that *)
(* of std::greater on their text, and the tokens written for each.         *)
(***************************************************************************)
Abs(n) == IF n < 0 THEN -n ELSE n

Digits[n \in Nat] == IF n < 10 THEN <<n>> ELSE Append(Digits[n \div 10], n % 10)

\* The characters of a key, as numbers in their order: "1" before "x" before
\* a longer text with the same beginning.
Key(q) == CASE q = 0 -> <<1>>
            [] q = 1 -> <<100>>
            [] OTHER -> <<100, 50>> \o Digits[q]

TextLess(s, t) ==
  \/ Len(s) < Len(t) /\ s = SubSeq(t, 1, Len(s))
  \/ \E k \in DOMAIN s \cap DOMAIN t :
       s[k] < t[k] /\ \A j \in 1..(k - 1) : s[j] = t[j]

Powers == SetToSortSeq(DOMAIN ans, LAMBDA p, q : TextLess(Key(q), Key(p)))

\* Mutant of Coefficient: only those above one are written.
CoefficientAboveOne(q) ==
  IF ans[q] > 1 THEN <<Token("COEF", ans[q]), Times>> ELSE <<>>

\* A coefficient is written unless it is one; a negative one brings its sign.
Coefficient(q) ==
  IF ans[q] = 1 THEN <<>>
  ELSE (IF ans[q] < 0 THEN <<Minus>> ELSE <<>>) \o <<Token("COEF", Abs(ans[q])), Times>>

\* What answer() writes for power q, which is the first or not.
Written(q, first) ==
  (IF ans[q] > 0 /\ ~ first THEN <<Plus>> ELSE <<>>)
    \o (IF q = 0
        THEN (IF ans[q] < 0 THEN <<Minus>> ELSE <<>>) \o <<Token("COEF", Abs(ans[q]))>>
        ELSE Coefficient(q) \o <<Var>> \o IF q = 1 THEN <<>> ELSE <<Token("EXP", q)>>)

answer == FlattenSeq([k \in DOMAIN Powers |-> Written(Powers[k], k = 1)])

-------------------------------------------------------------------------------
(***************************************************************************)
(* The properties.                                                         *)
(***************************************************************************)

(***************************************************************************)
(* Types; the stack holds one term: a sign, a number, x, a power, in that  *)
(* order, and no two of a kind.                                            *)
(***************************************************************************)
Rank(t) == CASE t.kind = "OPERATOR" -> 1 [] t.kind = "COEF" -> 2
             [] t.kind = "VARIABLE" -> 3 [] t.kind = "EXP" -> 4
TypeOK ==
  /\ terms \in Seq(Seq(Tokens \cup {Times})) /\ polynomial \in Seq(Tokens \cup {Times})
  /\ stack \in Seq(Tokens)
  /\ \A j, k \in DOMAIN stack : j < k => Rank(stack[j]) < Rank(stack[k])
  /\ DOMAIN ans \subseteq Nat /\ done \in BOOLEAN

(***************************************************************************)
(* By the calculus: term m's power and coefficient from its text.          *)
(***************************************************************************)
Power(m) == IF Var \notin Range(terms[m]) THEN 0 ELSE Value(terms[m], "EXP")
Slope(m) == Value(terms[m], "OPERATOR") * Value(terms[m], "COEF") * Power(m)

\* The terms that have been read to their end and popped.
Read == {m \in DOMAIN terms :
           done \/ Len(FlattenSeq(SubSeq(terms, m + 1, Len(terms)))) > Len(polynomial)}

(***************************************************************************)
(* At every step the answer is the derivative of the terms popped so far:  *)
(* each power once, with the sum of its terms, unreduced ones too.         *)
(***************************************************************************)
DerivesRead ==
  /\ DOMAIN ans = {Power(m) - 1 : m \in {m \in Read : Power(m) > 0}}
  /\ \A q \in DOMAIN ans :
       ans[q] = MapThenSumSet(Slope, {m \in Read : Power(m) = q + 1})

(***************************************************************************)
(* The term on the stack and the sums, by parts.                           *)
(***************************************************************************)
SumsInv == TypeOK /\ DerivesRead

\* The terms of a text: each begins at a sign, or with the text.
Begin(t)    == {k \in DOMAIN t : k = 1 \/ t[k] \in {Plus, Minus}}
TermsOf(t)  == LET begins == SetToSortSeq(Begin(t), <) \o <<Len(t) + 1>>
               IN [m \in 1..(Len(begins) - 1) |-> SubSeq(t, begins[m], begins[m + 1] - 1)]
Meaning(s)  == <<IF Var \notin Range(s) THEN 0 ELSE Value(s, "EXP"),
                 Value(s, "OPERATOR") * Value(s, "COEF")>>

(***************************************************************************)
(* The answer's text means the derivative: read back, its terms are the    *)
(* powers and their sums, in descending order (lines 4-6), of polynomials  *)
(* with unreduced terms too.  It holds where no sum is zero and powers are *)
(* of one digit: zero terms are written without a sign before them, and    *)
(* the map's order, of texts, has x^9 before x^10.                         *)
(***************************************************************************)
AnswerReadsBack ==
  done /\ (\A q \in DOMAIN ans : ans[q] # 0 /\ q < 10) =>
    LET descending == SetToSortSeq(DOMAIN ans, >)
    IN [m \in DOMAIN TermsOf(answer) |-> Meaning(TermsOf(answer)[m])]
         = [k \in DOMAIN descending |-> <<descending[k], ans[descending[k]]>>]

(***************************************************************************)
(* The stack, the sums and the text, by parts.                             *)
(***************************************************************************)
DerivativeInv == SumsInv /\ AnswerReadsBack
===============================================================================
