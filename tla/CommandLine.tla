------------------------------ MODULE CommandLine ------------------------------
(***************************************************************************)
(* How Multithread/week5/unnamed_pipes.c takes a line of commands apart:   *)
(* count_commands finds the pipe symbols and get_argv copies the words of  *)
(* each command.  One pass of a loop is one step.  Positions count from 0. *)
(* Where the code would read behind the line's null or write outside what  *)
(* it set aside, the model goes "outside" and ends.                        *)
(***************************************************************************)
EXTENDS Integers, Sequences, FiniteSets, SequencesExt

CONSTANTS
  Letters,     \* the characters of words
  Inputs,      \* what is typed, up to the newline or to the end of the input
  LineSize     \* LINE_SIZE: what fgets has room for, the null included

Space == " "
Bar   == "|"
Nul   == "nul"
Newline == "\n"
Blank == {Space, Newline}

VARIABLES
  line,                       \* what fgets read
  pc,                         \* "count", "argv", "words", "done", "outside"
  delim_positions,            \* count_commands' result
  i, begin, ptr, prev_pos,    \* the locals of parse_commands and get_argv
  argv,                       \* the words get_argv has copied
  cmds                        \* the commands parse_commands has finished

vars == <<line, pc, delim_positions, i, begin, ptr, prev_pos, argv, cmds>>

Char(k) == IF k < Len(line) THEN line[k + 1] ELSE Nul

ASSUME LineAssumption ==
  /\ Letters \cap {Space, Bar, Newline, Nul} = {}
  /\ LineSize \in Nat \ {0, 1}
  /\ \A t \in Inputs : /\ t \in Seq(Letters \cup {Space, Bar, Newline})
                       /\ \A k \in 1..(Len(t) - 1) : t[k] # Newline

\* fgets stops behind the newline, at the end of the input, or when the line
\* is full: the line may lack its newline.
fgets(t) == SubSeq(t, 1, IF Len(t) < LineSize THEN Len(t) ELSE LineSize - 1)

\* With nothing to read, fgets leaves the line as it was: nobody set it.
Init ==
  /\ line \in {fgets(t) : t \in Inputs}
  /\ pc = IF line = <<>> THEN "outside" ELSE "count"
  /\ delim_positions = <<0>>
  /\ i = 0 /\ begin = 0 /\ ptr = 0 /\ prev_pos = 0
  /\ argv = <<>> /\ cmds = <<>>

\* The first position from k on whose character is in C; strings end with Nul.
First(k, C) == CHOOSE m \in k..Len(line) :
                 Char(m) \in C \cup {Nul} /\ \A j \in k..(m - 1) : Char(j) \notin C

\* skip_char knows blanks only: without one it runs on behind the null (26).
\* Of bars it takes no notice.
EndsInLine(k)      == \E j \in k..(Len(line) - 1) : Char(j) \in Blank
skip_char(k)       == First(k, Blank) - k
skip_whitespace(k) == First(k, Letters \cup {Bar}) - k

\* Mutant of FromHere: the search begins at the symbol found.
FromHereAgain == IF Len(delim_positions) = 1 THEN 1 ELSE Last(delim_positions)

\* count_commands looks for the next symbol from here.
FromHere == Last(delim_positions) + 1

\* delim_positions has an entry for each character of the line (187).
CountCommands ==
  /\ pc = "count"
  /\ IF Len(delim_positions) < Len(line)
     THEN LET delim_pos == First(FromHere, {Bar})
          IN /\ delim_positions' = Append(delim_positions, delim_pos)
             /\ pc' = IF Char(delim_pos) = Bar THEN "count" ELSE "argv"
     ELSE pc' = "outside" /\ UNCHANGED delim_positions
  /\ UNCHANGED <<line, i, begin, ptr, prev_pos, argv, cmds>>

q_cmd == Len(delim_positions) - 1
Len_i == delim_positions[i + 2] - delim_positions[i + 1]

\* parse_commands calls get_argv with the text behind the symbol, while it
\* has commands; get_argv goes to the first word.
GetArgv ==
  /\ pc = "argv"
  /\ IF i < q_cmd
     THEN LET start == delim_positions[i + 1] + (IF i # 0 THEN 1 ELSE 0)
          IN /\ begin' = start + skip_whitespace(start)
             /\ ptr' = begin' /\ prev_pos' = 0 /\ argv' = <<>>
             /\ pc' = "words"
     ELSE pc' = "done" /\ UNCHANGED <<begin, ptr, prev_pos, argv>>
  /\ UNCHANGED <<line, delim_positions, i, cmds>>

Text(from, cnt) == [k \in 1..cnt |-> Char(from + k - 1)]

\* Mutant of WordEnd: get_argv does not see the pipe symbol.
WordEndLate == Char(ptr) = Nul

WordEnd == Char(ptr) \in {Nul, Bar}

\* A command of len characters has len slots for words, and each of them len
\* characters, the null that ends the word included (82-87).
FitsSlot(len) == Len(argv) < Len_i /\ len < Len_i

CopyWord ==
  /\ pc = "words" /\ ~ WordEnd
  /\ LET len == skip_char(ptr)
         cnt == len + skip_whitespace(ptr + len)
     IN IF EndsInLine(ptr) /\ FitsSlot(len)
        THEN /\ argv' = Append(argv, Text(begin + prev_pos, len))
             /\ prev_pos' = cnt
             /\ ptr' = ptr + cnt
             /\ UNCHANGED pc
        ELSE pc' = "outside" /\ UNCHANGED <<argv, prev_pos, ptr>>
  /\ UNCHANGED <<line, delim_positions, i, begin, cmds>>

\* set_null leaves the words copied and ends them with a null, if a slot is
\* left for it; the command is finished.
EndCommand ==
  /\ pc = "words" /\ WordEnd
  /\ IF Len(argv) < Len_i
     THEN cmds' = Append(cmds, argv) /\ i' = i + 1 /\ pc' = "argv"
     ELSE pc' = "outside" /\ UNCHANGED <<cmds, i>>
  /\ UNCHANGED <<line, delim_positions, begin, ptr, prev_pos, argv>>

Next == CountCommands \/ GetArgv \/ CopyWord \/ EndCommand

-------------------------------------------------------------------------------
(***************************************************************************)
(* The properties, against a reading of the line that knows no positions:  *)
(* its commands are what the bars part, their words what the blanks part.  *)
(***************************************************************************)
Bars == {k \in DOMAIN line : line[k] = Bar}

\* The places of the line that belong to command c, counted from 1.
Part(c) == {k \in DOMAIN line : line[k] # Bar /\ Cardinality({b \in Bars : b < k}) = c - 1}
Starts(c) == {k \in Part(c) : line[k] \in Letters /\ (k = 1 \/ line[k - 1] \notin Letters)}
WordAt(k) == SelectSeq(SubSeq(line, k, CHOOSE e \in k..Len(line) :
                 line[e] \notin Letters /\ \A j \in k..(e - 1) : line[j] \in Letters),
               LAMBDA x : x \in Letters)
Words(c) == [w \in 1..Cardinality(Starts(c)) |->
               WordAt(CHOOSE k \in Starts(c) : Cardinality({j \in Starts(c) : j < k}) = w - 1)]

(***************************************************************************)
(* The lines the program is right for: of two characters or more, the last *)
(* a blank, as the newline is, and with a space before each bar.  It is    *)
(* not for "x|y", nor for a line that ends with the input behind a letter  *)
(* or that LINE_SIZE cuts, nor for one that is empty but for its newline.  *)
(***************************************************************************)
WellFormed ==
  /\ Len(line) > 1 /\ Last(line) \in Blank
  /\ \A k \in DOMAIN line : line[k] = Bar => k > 1 /\ line[k - 1] = Space

(***************************************************************************)
(* Types, whatever is typed: positions that were set are in the line.      *)
(***************************************************************************)
TypeOK ==
  /\ pc \in {"count", "argv", "words", "done", "outside"}
  /\ \A k \in DOMAIN delim_positions : delim_positions[k] \in 0..Len(line)
  /\ i \in 0..Len(cmds)
  /\ begin \in 0..Len(line) /\ ptr \in begin..Len(line) /\ prev_pos \in 0..ptr

(***************************************************************************)
(* Of a well-formed line nothing is read behind its null, delim_positions  *)
(* has the entries and get_argv the slots and the characters for what they *)
(* write, and get_argv reads its own command only: no further than the     *)
(* symbol or the null that ends it.                                        *)
(***************************************************************************)
StaysInside ==
  WellFormed => /\ pc # "outside"
                /\ pc = "words" => ptr <= delim_positions[i + 2]

(***************************************************************************)
(* Positions in the line, and well-formed lines in bounds, by parts.       *)
(***************************************************************************)
LineInv == TypeOK /\ StaysInside

(***************************************************************************)
(* At the end the commands are those of the line, when it is well formed,  *)
(* each with as many words of the same lengths, and the first two of each  *)
(* are its own.                                                            *)
(***************************************************************************)
FindsCommands ==
  WellFormed /\ pc = "done" =>
    /\ Len(cmds) = Cardinality(Bars) + 1
    /\ \A c \in DOMAIN cmds :
         /\ Len(cmds[c]) = Len(Words(c))
         /\ \A w \in DOMAIN cmds[c] :
              /\ Len(cmds[c][w]) = Len(Words(c)[w])
              /\ w <= 2 => cmds[c][w] = Words(c)[w]
===============================================================================
