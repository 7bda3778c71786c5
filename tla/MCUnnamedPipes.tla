----------------------------- MODULE MCUnnamedPipes -----------------------------
(***************************************************************************)
(* What is typed where TLC checks UnnamedPipes: everything of less than    *)
(* MaxLength characters, with a newline behind it or at the end of the     *)
(* input; lines of three and of four commands; and one that is too long.   *)
(***************************************************************************)
EXTENDS UnnamedPipes

CONSTANT MaxLength   \* bound: the length of a line with its newline

Three == {<<"x", " ", "|", "y", " ", "|", "x", Newline>>}
Four  == {<<"x", " ", "|", "x", " ", "|", "y", " ", "|", "x", Newline>>}
Long  == {<<"x", " ", "|", "x", " ", "|", "y", " ", "|", "x", "y", Newline>>}

AtTheEnd   == UNION {[1..n -> Letters \cup {Space, Bar}] : n \in 0..(MaxLength - 1)}
ShortLines == AtTheEnd \cup {Append(l, Newline) : l \in AtTheEnd}
AllInputs  == ShortLines \cup Three \cup Four \cup Long
===============================================================================
