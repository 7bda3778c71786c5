------------------------------ MODULE UnnamedPipes ------------------------------
(***************************************************************************)
(* main of Multithread/week5/unnamed_pipes.c: CommandLine takes the line   *)
(* apart, then Pipeline forks one stage for each of its commands.  What    *)
(* can go wrong while the stages run is chosen with the line: a kind.      *)
(* Lines whose stages are of no interest are followed to their commands    *)
(* only.                                                                   *)
(***************************************************************************)
EXTENDS CommandLine

CONSTANTS
  FourStages, ThreeStages   \* the lines whose stages run, by their commands

VARIABLES
  kind,                     \* "plain", "quit", "exec" or, of other lines, "parse"
  procs, pipes, at, stage, in, fd, fds, hand, offset, tty, pipe, file

stage_vars == <<procs, pipes, at, stage, in, fd, fds, hand, offset, tty, pipe, file>>
all_vars   == <<vars, kind, stage_vars>>

\* A pipeline, by its settings.
Run(s) == INSTANCE Pipeline
  WITH num_of_cmds <- s.cmds, Items <- s.items, Capacity <- s.room, MaxFd <- s.max_fd,
       Failing <- s.failing, Quitters <- s.quitters,
       ForkFails <- s.fork_fails, OpenFails <- s.open_fails,
       pc <- at, i <- stage

\* Programs that run to the end of their input.
plain == [cmds |-> 4, items |-> 5, room |-> 2, max_fd |-> 9, failing |-> {}, quitters |-> {},
          fork_fails |-> FALSE, open_fails |-> FALSE]

\* Programs that end early, forks that fail, a file that cannot be opened.
quit  == [cmds |-> 4, items |-> 3, room |-> 1, max_fd |-> 9, failing |-> {},
          quitters |-> {0, 1, 2}, fork_fails |-> TRUE, open_fails |-> TRUE]

\* Commands that cannot be executed, and an input that is more than a pipe and
\* the program that writes to it hold.
exec  == [cmds |-> 3, items |-> 3, room |-> 1, max_fd |-> 9, failing |-> {0, 1, 2},
          quitters |-> {}, fork_fails |-> FALSE, open_fails |-> FALSE]

MainInit ==
  /\ Init
  /\ \/ line \in FourStages  /\ kind = "plain" /\ Run(plain)!Init
     \/ line \in FourStages  /\ kind = "quit"  /\ Run(quit)!Init
     \/ line \in ThreeStages /\ kind = "exec"  /\ Run(exec)!Init
     \/ /\ line \notin FourStages \cup ThreeStages
        /\ kind = "parse" /\ Run(plain)!Init

Parse == Next /\ UNCHANGED <<kind, stage_vars>>

\* fork_pipes and what it starts, a step of process p.
Stages(p) ==
  /\ pc = "done"
  /\ \/ kind = "plain" /\ p \in Run(plain)!Pids /\ (Run(plain)!Spawns(p) \/ Run(plain)!Works(p))
     \/ kind = "quit"  /\ p \in Run(quit)!Pids  /\ (Run(quit)!Spawns(p)  \/ Run(quit)!Works(p))
     \/ kind = "exec"  /\ p \in Run(exec)!Pids  /\ (Run(exec)!Spawns(p)  \/ Run(exec)!Works(p))
  /\ UNCHANGED <<vars, kind>>

MainNext == Parse \/ \E p \in Run(plain)!Pids : Stages(p)

\* A process goes on, but for a program that chooses to end early.
GoesOn(p) == Stages(p) /\ (kind = "quit" => ~ Run(quit)!EndsEarly(p))

\* The program runs on, and the system runs every process that can go on.
MainSpec ==
  /\ MainInit /\ [][MainNext]_all_vars
  /\ WF_all_vars(Parse)
  /\ \A p \in Run(plain)!Pids : WF_all_vars(GoesOn(p))

-------------------------------------------------------------------------------
(***************************************************************************)
(* The properties of the stages, where they hold; Pipeline says what each  *)
(* of them means.  Those of the line are CommandLine's.                    *)
(***************************************************************************)
StagesTypeOK ==
  /\ kind = "plain" => Run(plain)!TypeOK
  /\ kind = "quit"  => Run(quit)!TypeOK
  /\ kind = "exec"  => Run(exec)!TypeOK

(***************************************************************************)
(* No stage holds a write end that would keep its reader waiting (159-160) *)
(* unless a command could not be executed: line 142 then forks on.         *)
(***************************************************************************)
WriteEndsKept ==
  /\ kind = "plain" => Run(plain)!WriteEndsKept
  /\ kind = "quit"  => Run(quit)!WriteEndsKept

(***************************************************************************)
(* What the stages have, in types and in descriptors, by parts.            *)
(***************************************************************************)
StagesInv == StagesTypeOK /\ WriteEndsKept

(***************************************************************************)
(* With programs that run to the end of their input, no item is lost,      *)
(* repeated or out of order between the terminal, the stages and the file; *)
(* whatever ends early, the file has the input's first items, in order.    *)
(***************************************************************************)
ItemsKept ==
  /\ kind = "plain" => Run(plain)!NothingLost /\ Run(plain)!WritesPrefix
  /\ kind = "quit"  => Run(quit)!WritesPrefix

(***************************************************************************)
(* From the line to the end of the last process the pipeline finishes,     *)
(* when every stage reads to its end.  Where stages end early, forks fail  *)
(* or an execvp does and its stage forks on, main's stage, the last, ends, *)
(* and no process is left waiting to read; who is left has more to write   *)
(* than a pipe holds: in "cat | nonexistent | wc" cat, which has the read  *)
(* end of its own pipe open, may wait for ever.                            *)
(***************************************************************************)
AllStagesEnd ==
  /\ kind = "plain" => Run(plain)!Finishes
  /\ kind = "quit"  => Run(quit)!MainEnds /\ Run(quit)!OnlyWritersLeft
  /\ kind = "exec"  => Run(exec)!MainEnds /\ Run(exec)!OnlyWritersLeft
===============================================================================
