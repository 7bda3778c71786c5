-------------------------------- MODULE Pipeline --------------------------------
(***************************************************************************)
(* fork_pipes and spawn_proc of Multithread/week5/unnamed_pipes.c: the     *)
(* processes of a pipeline, their descriptors and the pipes between them.  *)
(* A command, once executed, is a program this repository does not have:   *)
(* it copies its input to its output, item by item, until its input ends;  *)
(* some may end before.  Stages count from 0, as cmds does.                *)
(***************************************************************************)
EXTENDS Integers, Sequences, FiniteSetsExt

CONSTANTS
  num_of_cmds,   \* how many stages the pipeline has
  Items,         \* bound: the number of items on the first stage's input
  Capacity,      \* bound: the items a pipe holds
  MaxFd,         \* bound: the largest descriptor in use
  Failing,       \* the stages whose execvp may fail
  Quitters,      \* the stages whose program may end before its input
  ForkFails,     \* whether fork may fail
  OpenFails      \* whether the result file may be one main cannot open

\* A child whose execvp failed goes on as fork_pipes does: each may double.
Pids  == 1..2 ^ (num_of_cmds - 1)
Main  == 1
Fds   == 0..MaxFd
Pipes == 1..2 ^ (num_of_cmds - 1)

R(k) == <<"r", k>>
W(k) == <<"w", k>>
Ends == {R(k) : k \in Pipes} \cup {W(k) : k \in Pipes}
Files == {<<"closed", 0>>, <<"tty", 0>>, <<"file", 0>>} \cup Ends
Closed == <<"closed", 0>>

VARIABLES
  procs, pipes,   \* how many processes have been forked, pipes created
  pc, i, in, fd,  \* where a process is, and its locals of fork_pipes
  fds,            \* its descriptors
  hand, offset,   \* the item its program has read; its offset in the file
  tty, pipe, file \* what the input still has, what pipes and the file hold

locals == <<i, in, fd>>
data   == <<hand, offset, tty, pipe, file>>
vars   == <<procs, pipes, pc, locals, fds, data>>

Nothing == 0

TypeOK ==
  /\ procs \in Pids /\ pipes \in 0..2 ^ (num_of_cmds - 1)
  /\ pc \in [Pids -> {"none", "pipe", "fork", "redirect", "exec", "parent", "running", "exited"}]
  /\ i \in [Pids -> 0..(num_of_cmds - 1)] /\ in \in [Pids -> Fds]
  /\ fd \in [Pids -> Fds \X Fds]
  /\ fds \in [Pids -> [Fds -> Files]]
  /\ hand \in [Pids -> 0..Items] /\ offset \in [Pids -> 0..Items]
  /\ tty \in Seq(1..Items) /\ file \in Seq(1..Items)
  /\ \A k \in Pipes : pipe[k] \in Seq(1..Items) /\ Len(pipe[k]) <= Capacity

Init ==
  /\ procs = 1 /\ pipes = 0
  /\ pc = [p \in Pids |-> IF p = Main THEN "pipe" ELSE "none"]
  /\ i = [p \in Pids |-> 0] /\ in = [p \in Pids |-> 0] /\ fd = [p \in Pids |-> <<0, 0>>]
  /\ fds = [p \in Pids |-> [f \in Fds |-> IF p = Main /\ f <= 2 THEN <<"tty", 0>> ELSE Closed]]
  /\ hand = [p \in Pids |-> Nothing] /\ offset = [p \in Pids |-> 0]
  /\ tty = [k \in 1..Items |-> k]
  /\ pipe = [k \in Pipes |-> <<>>]
  /\ file = <<>>

\* The lowest descriptors that are free, and what the system calls make of a table.
Free(t)         == {f \in Fds : t[f] = Closed}
Lowest(t)       == Min(Free(t))
Close(t, f)     == [t EXCEPT ![f] = Closed]
Dup2(t, f, g)   == [t EXCEPT ![g] = t[f]]
Opened(t, e)    == [t EXCEPT ![Lowest(t)] = e]

Goes(p, place) == pc' = [pc EXCEPT ![p] = place]

-------------------------------------------------------------------------------
(***************************************************************************)
(* The loop of fork_pipes.                                                 *)
(***************************************************************************)

Pipe(p) ==
  /\ pc[p] = "pipe" /\ i[p] < num_of_cmds - 1
  /\ pipes' = pipes + 1
  /\ LET with_r == Opened(fds[p], R(pipes'))
     IN /\ fds' = [fds EXCEPT ![p] = Opened(with_r, W(pipes'))]
        /\ fd' = [fd EXCEPT ![p] = <<Lowest(fds[p]), Lowest(with_r)>>]
  /\ Goes(p, "fork")
  /\ UNCHANGED <<procs, i, in, data>>

\* spawn_proc; the child has a copy of everything.
Fork(p) ==
  /\ pc[p] = "fork"
  /\ procs' = procs + 1
  /\ LET child == procs'
     IN /\ pc' = [pc EXCEPT ![p] = "parent", ![child] = "redirect"]
        /\ i' = [i EXCEPT ![child] = i[p]]
        /\ in' = [in EXCEPT ![child] = in[p]]
        /\ fd' = [fd EXCEPT ![child] = fd[p]]
        /\ fds' = [fds EXCEPT ![child] = fds[p]]
  /\ UNCHANGED <<pipes, data>>

\* fork's -1 is returned, and looked at by nobody.
ForkFail(p) ==
  /\ ForkFails
  /\ pc[p] = "fork"
  /\ Goes(p, "parent")
  /\ UNCHANGED <<procs, pipes, locals, fds, data>>

\* Mutant of Parent: the write end stays open.
ParentKeepsEnd(p) ==
  /\ pc[p] = "parent"
  /\ in' = [in EXCEPT ![p] = fd[p][1]]
  /\ i' = [i EXCEPT ![p] = @ + 1]
  /\ Goes(p, "pipe")
  /\ UNCHANGED <<procs, pipes, fd, fds, data>>

\* Mutant of Parent: the read end is not carried on.
ParentForgets(p) ==
  /\ pc[p] = "parent"
  /\ fds' = [fds EXCEPT ![p] = Close(@, fd[p][2])]
  /\ i' = [i EXCEPT ![p] = @ + 1]
  /\ Goes(p, "pipe")
  /\ UNCHANGED <<procs, pipes, in, fd, data>>

\* Behind spawn_proc: the write end is closed, the read end carried on.
Parent(p) ==
  /\ pc[p] = "parent"
  /\ fds' = [fds EXCEPT ![p] = Close(@, fd[p][2])]
  /\ in' = [in EXCEPT ![p] = fd[p][1]]
  /\ i' = [i EXCEPT ![p] = @ + 1]
  /\ Goes(p, "pipe")
  /\ UNCHANGED <<procs, pipes, fd, data>>

\* The end of fork_pipes: the result file becomes the output.
LastStage(p) ==
  /\ pc[p] = "pipe" /\ i[p] = num_of_cmds - 1
  /\ LET input  == IF in[p] # 0 THEN Dup2(fds[p], in[p], 0) ELSE fds[p]
         opened == Opened(input, <<"file", 0>>)
     IN \/ fds' = [fds EXCEPT ![p] = Dup2(opened, Lowest(input), 1)]
        \/ OpenFails /\ fds' = [fds EXCEPT ![p] = input]
  /\ Goes(p, "exec")
  /\ UNCHANGED <<procs, pipes, locals, data>>

\* dup2 and close, unless the descriptor is in its place.
Moved(t, f, g) == IF f # g THEN Close(Dup2(t, f, g), f) ELSE t

Redirect(p) ==
  /\ pc[p] = "redirect"
  /\ fds' = [fds EXCEPT ![p] = Moved(Moved(@, in[p], 0), fd[p][2], 1)]
  /\ Goes(p, "exec")
  /\ UNCHANGED <<procs, pipes, locals, data>>

Exec(p) ==
  /\ pc[p] = "exec"
  /\ Goes(p, "running")
  /\ UNCHANGED <<procs, pipes, locals, fds, data>>

AllClosed == [f \in Fds |-> Closed]

Exits(p) ==
  /\ Goes(p, "exited")
  /\ fds' = [fds EXCEPT ![p] = AllClosed]

\* execvp returns: of the last stage to main, which ends; of another to the
\* loop, which the child goes on with as if it were the parent.
ExecFail(p) ==
  /\ pc[p] = "exec" /\ i[p] \in Failing
  /\ IF i[p] = num_of_cmds - 1 THEN Exits(p)
                               ELSE Goes(p, "parent") /\ UNCHANGED fds
  /\ UNCHANGED <<procs, pipes, locals, data>>

-------------------------------------------------------------------------------
(***************************************************************************)
(* The program of a stage, and the pipes: external.                        *)
(***************************************************************************)
Holds(p, e) == \E f \in Fds : fds[p][f] = e
Held(e)     == \E p \in Pids : Holds(p, e)

\* A read takes the first item there is.
ReadItem(p) ==
  /\ pc[p] = "running" /\ hand[p] = Nothing
  /\ \/ /\ fds[p][0][1] = "tty" /\ tty # <<>>
        /\ hand' = [hand EXCEPT ![p] = Head(tty)]
        /\ tty' = Tail(tty)
        /\ UNCHANGED pipe
     \/ /\ fds[p][0][1] = "r"
        /\ LET k == fds[p][0][2]
           IN /\ pipe[k] # <<>>
              /\ hand' = [hand EXCEPT ![p] = Head(pipe[k])]
              /\ pipe' = [pipe EXCEPT ![k] = Tail(@)]
        /\ UNCHANGED tty
  /\ UNCHANGED <<procs, pipes, pc, locals, fds, offset, file>>

\* Its end: nothing is left and nobody can write.
AtEnd(p) ==
  \/ fds[p][0][1] = "tty" /\ tty = <<>>
  \/ fds[p][0][1] = "r" /\ pipe[fds[p][0][2]] = <<>> /\ ~ Held(W(fds[p][0][2]))

\* The program ends: with its input, or before it.  It has no SIGPIPE to end
\* of: WriteEndsKept says why.
End(p) ==
  /\ pc[p] = "running"
  /\ \/ hand[p] = Nothing /\ AtEnd(p)
     \/ i[p] \in Quitters
  /\ Exits(p)
  /\ UNCHANGED <<procs, pipes, locals, data>>

\* A write waits for room in a pipe; in the file it writes at the process's offset.
WriteItem(p) ==
  /\ pc[p] = "running" /\ hand[p] # Nothing
  /\ \/ /\ fds[p][1][1] = "w"
        /\ LET k == fds[p][1][2]
           IN /\ Len(pipe[k]) < Capacity
              /\ pipe' = [pipe EXCEPT ![k] = Append(@, hand[p])]
        /\ UNCHANGED <<offset, file>>
     \/ /\ fds[p][1][1] = "file"
        /\ offset' = [offset EXCEPT ![p] = @ + 1]
        /\ file' = IF offset[p] < Len(file) THEN [file EXCEPT ![offset'[p]] = hand[p]]
                                            ELSE Append(file, hand[p])
        /\ UNCHANGED pipe
     \/ fds[p][1][1] = "tty" /\ UNCHANGED <<offset, file, pipe>>
  /\ hand' = [hand EXCEPT ![p] = Nothing]
  /\ UNCHANGED <<procs, pipes, pc, locals, fds, tty>>

\* It ends before its input does: nothing makes it.
EndsEarly(p) == pc[p] = "running" /\ ~ (hand[p] = Nothing /\ AtEnd(p)) /\ pc'[p] = "exited"

Spawns(p) ==
  \/ Pipe(p) \/ Fork(p) \/ ForkFail(p) \/ Parent(p)
  \/ LastStage(p) \/ Redirect(p) \/ Exec(p) \/ ExecFail(p)
Works(p) == ReadItem(p) \/ WriteItem(p) \/ End(p)

Next == \E p \in Pids : Spawns(p) \/ Works(p)

-------------------------------------------------------------------------------
(***************************************************************************)
(* The properties.                                                         *)
(***************************************************************************)

(***************************************************************************)
(* A stage has the pipes it should, and no other's write end, or its       *)
(* reader would wait for ever: of a program that runs, the only write end  *)
(* is its output, to a pipe that it does not read; and fork_pipes begins   *)
(* no stage with a write end in hand (line 159).  The read end of that     *)
(* pipe it has as well, unused: no write of its ever fails for want of a   *)
(* reader, and a stage whose reader has ended waits for ever.              *)
(***************************************************************************)
WriteEnds(p) == {f \in Fds : fds[p][f][1] = "w"}
WriteEndsKept ==
  \A p \in Pids :
    /\ pc[p] = "running" =>
         /\ WriteEnds(p) = IF i[p] < num_of_cmds - 1 THEN {1} ELSE {}
         /\ i[p] < num_of_cmds - 1 => Holds(p, R(fds[p][1][2]))
         /\ i[p] > 0 => fds[p][0] = R(fds[p][0][2])
         /\ i[p] \in 1..(num_of_cmds - 2) => fds[p][0][2] # fds[p][1][2]
    /\ pc[p] = "pipe" /\ p = Main => WriteEnds(p) = {}

(***************************************************************************)
(* With programs that run to the end of their input, nothing is lost,      *)
(* repeated or out of order: what the file has, then, from the last stage  *)
(* to the first, what each has in hand and its pipe in store, then what    *)
(* the input still has, is the input.                                      *)
(***************************************************************************)
Stage(k) == {p \in Pids : pc[p] = "running" /\ i[p] = k}
InHand(k) == IF \E p \in Stage(k) : hand[p] # Nothing
             THEN <<hand[CHOOSE p \in Stage(k) : hand[p] # Nothing]>> ELSE <<>>
Behind(k) == InHand(k) \o (IF k > 0 THEN pipe[k] ELSE <<>>)
\* What has yet to pass the first k stages.
Before[k \in 0..num_of_cmds] == IF k = 0 THEN tty ELSE Behind(k - 1) \o Before[k - 1]
NothingLost == file \o Before[num_of_cmds] = [k \in 1..Items |-> k]

(***************************************************************************)
(* Whatever ends early, the file has the input's first items, in order.    *)
(***************************************************************************)
WritesPrefix == \A k \in DOMAIN file : file[k] = k

(***************************************************************************)
(* The pipeline ends.                                                      *)
(***************************************************************************)
Finishes == <>(\A p \in 1..procs : pc[p] = "exited")

(***************************************************************************)
(* Whatever becomes of the stages before it, main, the last one, ends; and *)
(* of the others none waits for ever to read, because of a write end that  *)
(* another has open: those that are left have an item that their pipe has  *)
(* no room for.                                                            *)
(***************************************************************************)
WaitsToWrite(p) == pc[p] = "running" /\ fds[p][1][1] = "w" /\ hand[p] # Nothing
MainEnds == <>(pc[Main] = "exited")
OnlyWritersLeft == <>[](\A p \in 1..procs : pc[p] = "exited" \/ WaitsToWrite(p))
===============================================================================
