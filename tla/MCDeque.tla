-------------------------------- MODULE MCDeque --------------------------------
(***************************************************************************)
(* The deque under the programs that use it, for TLC: main of deque.cpp    *)
(* ("main"), check_brackets of bracket.cpp ("brackets"), and a client that *)
(* keeps to one end, as check_brackets does, but may reserve and may put   *)
(* its first element at the front ("stack").  A behaviour is one program's. *)
(***************************************************************************)
EXTENDS Brackets

CONSTANTS
  Programs,     \* the programs that run
  StackSizes    \* the arguments the stack client gives to reserve

VARIABLE program

text_vars == <<bracket_seq, at, text, state>>

Stack == INSTANCE Deque
           WITH Calls <- {"push_back", "push_front_empty", "pop_back", "reserve"},
                Sizes <- StackSizes

MCInit ==
  /\ program \in Programs
  /\ \/ program = "brackets" /\ BInit
     \/ /\ program # "brackets" /\ Init
        /\ bracket_seq = <<>> /\ at = 0 /\ text = <<>> /\ state = "idle"

MCNext ==
  /\ UNCHANGED program
  /\ \/ program = "main"     /\ Next       /\ UNCHANGED text_vars
     \/ program = "stack"    /\ Stack!Next /\ UNCHANGED text_vars
     \/ program = "brackets" /\ BNext

MCSpec == MCInit /\ [][MCNext]_<<svars, program>>
===============================================================================
