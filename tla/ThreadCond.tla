------------------------------- MODULE ThreadCond -------------------------------
(***************************************************************************)
(* Multithread/week7/thread_cond.cpp: a thread that computes and signals,  *)
(* one that sleeps on the condition variable until the result is there,    *)
(* one that waits at the barrier for both, and main, which joins only the  *)
(* third and then destroys the barrier and ends the process.               *)
(***************************************************************************)
EXTENDS Naturals, Sequences, FiniteSets

CONSTANT Spurious     \* bound: wake-ups of pthread_cond_wait without a signal

ASSUME SpuriousAssumption == Spurious \in Nat

\* The threads by what they run: thread1_fib_calc, thread2_print_fib and
\* thread3_print_end.
Threads == {"calc", "print", "end"}
thread_q == 3

Fib == "fib"       \* what fib(5000000) returns
Nobody == "nobody"

VARIABLES
  pc,             \* where each thread and main is: the call it makes next
  mutex,          \* who holds it
  waiting,        \* the threads asleep in pthread_cond_wait
  barrier,        \* the threads that came to pthread_barrier_wait
  result, calculated,
  output,         \* the lines printed, without "I'm asleep"
  alive,          \* Data exists: ~Data has not run
  woken           \* spurious wake-ups so far

vars == <<pc, mutex, waiting, barrier, result, calculated, output, alive, woken>>

Places ==
  [ main  : {"create1", "create2", "create3", "join", "destroy", "return", "ended"},
    calc  : {"none", "lock", "compute", "mark", "unlock", "signal", "barrier",
             "leave", "ended"},
    print : {"none", "lock", "test", "sleep", "wait", "unlock", "show", "barrier",
             "leave", "ended"},
    end   : {"none", "barrier", "leave", "show", "ended"} ]

TypeOK ==
  /\ pc \in Places
  /\ mutex \in {"calc", "print", Nobody}
  /\ waiting \subseteq {"print"}
  /\ barrier \subseteq Threads
  /\ result \in {"unset", Fib} /\ calculated \in BOOLEAN
  /\ output \in Seq({"number", "nothing", "finished"})
  /\ alive \in BOOLEAN
  /\ woken \in 0..Spurious

Init ==
  /\ pc = [main |-> "create1", calc |-> "none", print |-> "none", end |-> "none"]
  /\ mutex = Nobody /\ waiting = {} /\ barrier = {}
  /\ result = "unset" /\ calculated = FALSE
  /\ output = <<>> /\ alive = TRUE /\ woken = 0

\* The process runs until main returns, which ends every thread.
Running == pc["main"] # "ended"

At(t, from) == Running /\ pc[t] = from
Go(t, to) == pc' = [pc EXCEPT ![t] = to]

-------------------------------------------------------------------------------
(***************************************************************************)
(* The calls of POSIX threads.                                             *)
(***************************************************************************)

\* Mutant of Lock: it does not wait for the mutex.
LockUnguarded(t, to) ==
  /\ At(t, "lock")
  /\ mutex' = t
  /\ Go(t, to)
  /\ UNCHANGED <<waiting, barrier, result, calculated, output, alive, woken>>

Lock(t, to) ==
  /\ At(t, "lock") /\ mutex = Nobody
  /\ mutex' = t
  /\ Go(t, to)
  /\ UNCHANGED <<waiting, barrier, result, calculated, output, alive, woken>>

Unlock(t, to) ==
  /\ At(t, "unlock")
  /\ mutex' = Nobody
  /\ Go(t, to)
  /\ UNCHANGED <<waiting, barrier, result, calculated, output, alive, woken>>

\* pthread_barrier_wait: a thread comes, and leaves once all have come.
Arrive(t) ==
  /\ At(t, "barrier")
  /\ barrier' = barrier \cup {t}
  /\ Go(t, "leave")
  /\ UNCHANGED <<mutex, waiting, result, calculated, output, alive, woken>>

\* Mutant of Leave: the barrier is for one thread less.
LeaveEarly(t, to) ==
  /\ At(t, "leave") /\ Cardinality(barrier) >= thread_q - 1
  /\ Go(t, to)
  /\ UNCHANGED <<mutex, waiting, barrier, result, calculated, output, alive, woken>>

Leave(t, to) ==
  /\ At(t, "leave") /\ Cardinality(barrier) = thread_q
  /\ Go(t, to)
  /\ UNCHANGED <<mutex, waiting, barrier, result, calculated, output, alive, woken>>

\* A line of output.
Show(t, line, to) ==
  /\ At(t, "show")
  /\ output' = Append(output, line)
  /\ Go(t, to)
  /\ UNCHANGED <<mutex, waiting, barrier, result, calculated, alive, woken>>

-------------------------------------------------------------------------------
(***************************************************************************)
(* thread1_fib_calc                                                        *)
(***************************************************************************)

Compute ==
  /\ At("calc", "compute")
  /\ result' = Fib
  /\ Go("calc", "mark")
  /\ UNCHANGED <<mutex, waiting, barrier, calculated, output, alive, woken>>

Mark ==
  /\ At("calc", "mark")
  /\ calculated' = TRUE
  /\ Go("calc", "unlock")
  /\ UNCHANGED <<mutex, waiting, barrier, result, output, alive, woken>>

\* Mutant of Signal: nobody is signalled.
SignalNobody ==
  /\ At("calc", "signal")
  /\ Go("calc", "barrier")
  /\ UNCHANGED <<mutex, waiting, barrier, result, calculated, output, alive, woken>>

Signal ==
  /\ At("calc", "signal")
  /\ waiting' = {}
  /\ Go("calc", "barrier")
  /\ UNCHANGED <<mutex, barrier, result, calculated, output, alive, woken>>

thread1_fib_calc ==
  \/ Lock("calc", "compute") \/ Compute \/ Mark \/ Unlock("calc", "signal")
  \/ Signal \/ Arrive("calc") \/ Leave("calc", "ended")

-------------------------------------------------------------------------------
(***************************************************************************)
(* thread2_print_fib                                                       *)
(***************************************************************************)

\* The loop's test, under the mutex.
Test ==
  /\ At("print", "test")
  /\ Go("print", IF calculated THEN "unlock" ELSE "sleep")
  /\ UNCHANGED <<mutex, waiting, barrier, result, calculated, output, alive, woken>>

\* pthread_cond_wait: release the mutex and sleep, in one step.
Sleep ==
  /\ At("print", "sleep")
  /\ mutex' = Nobody
  /\ waiting' = waiting \cup {"print"}
  /\ Go("print", "wait")
  /\ UNCHANGED <<barrier, result, calculated, output, alive, woken>>

\* pthread_cond_wait returns, with the mutex, once it is signalled.
Wake ==
  /\ At("print", "wait") /\ "print" \notin waiting /\ mutex = Nobody
  /\ mutex' = "print"
  /\ Go("print", "test")
  /\ UNCHANGED <<waiting, barrier, result, calculated, output, alive, woken>>

\* POSIX lets it wake with no signal.
WakeSpuriously ==
  /\ At("print", "wait") /\ "print" \in waiting /\ woken < Spurious
  /\ waiting' = waiting \ {"print"}
  /\ woken' = woken + 1
  /\ UNCHANGED <<pc, mutex, barrier, result, calculated, output, alive>>

thread2_print_fib ==
  \/ Lock("print", "test") \/ Test \/ Sleep \/ Wake \/ Unlock("print", "show")
  \/ Show("print", IF result = Fib THEN "number" ELSE "nothing", "barrier")
  \/ Arrive("print") \/ Leave("print", "ended")

-------------------------------------------------------------------------------
(***************************************************************************)
(* thread3_print_end and main                                              *)
(***************************************************************************)

thread3_print_end ==
  \/ Arrive("end") \/ Leave("end", "show") \/ Show("end", "finished", "ended")

\* Mutant of Create: every thread starts at the mutex.
CreateAlike(t, from, to) ==
  /\ At("main", from)
  /\ pc' = [pc EXCEPT !["main"] = to, ![t] = "lock"]
  /\ UNCHANGED <<mutex, waiting, barrier, result, calculated, output, alive, woken>>

\* pthread_create of thread t.
Create(t, from, to) ==
  /\ At("main", from)
  /\ pc' = [pc EXCEPT !["main"] = to, ![t] = IF t = "end" THEN "barrier" ELSE "lock"]
  /\ UNCHANGED <<mutex, waiting, barrier, result, calculated, output, alive, woken>>

\* Mutant of Join: main does not wait.
JoinNobody ==
  /\ At("main", "join")
  /\ Go("main", "destroy")
  /\ UNCHANGED <<mutex, waiting, barrier, result, calculated, output, alive, woken>>

\* pthread_join of the third thread, and of no other.
Join ==
  /\ At("main", "join") /\ pc["end"] = "ended"
  /\ Go("main", "destroy")
  /\ UNCHANGED <<mutex, waiting, barrier, result, calculated, output, alive, woken>>

\* ~Data as main returns: the barrier is destroyed, then the process ends.
Destroy ==
  /\ At("main", "destroy")
  /\ alive' = FALSE
  /\ Go("main", "return")
  /\ UNCHANGED <<mutex, waiting, barrier, result, calculated, output, woken>>

Return ==
  /\ At("main", "return")
  /\ Go("main", "ended")
  /\ UNCHANGED <<mutex, waiting, barrier, result, calculated, output, alive, woken>>

main ==
  \/ Create("calc", "create1", "create2")
  \/ Create("print", "create2", "create3")
  \/ Create("end", "create3", "join")
  \/ Join \/ Destroy \/ Return

Next ==
  \/ main
  \/ thread1_fib_calc
  \/ thread2_print_fib
  \/ thread3_print_end
  \/ WakeSpuriously

Spec == Init /\ [][Next]_vars

\* The scheduler runs each thread that can go on.
Fairness ==
  /\ WF_vars(main)
  /\ WF_vars(thread1_fib_calc)
  /\ WF_vars(thread2_print_fib)
  /\ WF_vars(thread3_print_end)

FairSpec == Spec /\ Fairness

-------------------------------------------------------------------------------
(***************************************************************************)
(* The properties.                                                         *)
(***************************************************************************)

(***************************************************************************)
(* No wake-up is lost: while the printing thread sleeps on the condition,  *)
(* the computing thread has still to signal it (lines 59-61 and 71-75).    *)
(***************************************************************************)
NoLostSignal ==
  "print" \in waiting =>
    pc["calc"] \in {"none", "lock", "compute", "mark", "unlock", "signal"}
SignalInv == TypeOK /\ NoLostSignal

(***************************************************************************)
(* The number is printed before the line that says the work is finished,   *)
(* and it is the computed one, though line 77 reads it with no mutex held. *)
(***************************************************************************)
ReportsInOrder ==
  output \in {<<>>, <<"number">>, <<"number", "finished">>}

(***************************************************************************)
(* main joins only the third thread, yet the barrier is destroyed, and the *)
(* process ends, after every thread has made its last use of Data and both *)
(* lines are out.                                                          *)
(***************************************************************************)
OutlivesUse ==
  ~ alive =>
    /\ \A t \in Threads : pc[t] \in {"leave", "ended"}
    /\ barrier = Threads
    /\ output = <<"number", "finished">>

(***************************************************************************)
(* The process ends: nobody waits for ever for the mutex, the condition or *)
(* the barrier.                                                            *)
(***************************************************************************)
Finishes == <>(~ Running)
===============================================================================
