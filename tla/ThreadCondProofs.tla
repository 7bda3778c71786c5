---------------------------- MODULE ThreadCondProofs ---------------------------
(***************************************************************************)
(* Proofs of ThreadCond's safety properties, for any number of wake-ups    *)
(* without a signal.  The invariant says, for each piece of shared state,  *)
(* at which places of the threads it has which value.                      *)
(***************************************************************************)
EXTENDS ThreadCond, TLAPS, FiniteSetTheorems

\* Who is in its critical section holds the mutex.
Holds ==
  /\ pc["calc"] \in {"compute", "mark", "unlock"} <=> mutex = "calc"
  /\ pc["print"] \in {"test", "sleep", "unlock"} <=> mutex = "print"

\* The result is there from where it is computed and marked.
Results ==
  /\ pc["calc"] \notin {"none", "lock", "compute"} => result = Fib
  /\ calculated <=> pc["calc"] \notin {"none", "lock", "compute", "mark"}
  /\ pc["print"] \in {"unlock", "show", "barrier", "leave", "ended"} => calculated
  /\ pc["print"] = "sleep" => ~ calculated

\* The sleeper sleeps before the signal.
Sleeps ==
  /\ "print" \in waiting => pc["print"] = "wait"
  /\ NoLostSignal

\* Who has come to the barrier, and that all have when one has left.
Came ==
  /\ \A t \in Threads : t \in barrier <=>
       pc[t] \in {"leave", "ended"} \/ (t = "end" /\ pc[t] = "show")
  /\ ((\E t \in Threads : pc[t] = "ended") \/ pc["end"] = "show") => barrier = Threads

\* The lines are out in the order of the barrier.
Lines ==
  output = IF pc["print"] \notin {"barrier", "leave", "ended"} THEN <<>>
           ELSE IF pc["end"] # "ended" THEN <<"number">>
           ELSE <<"number", "finished">>

\* main is past the join only after the third thread.
Joined ==
  /\ pc["main"] \in {"destroy", "return", "ended"} => pc["end"] = "ended"
  /\ ~ alive => pc["main"] \in {"return", "ended"}

\* The threads main has not created yet.
Created ==
  /\ pc["main"] = "create1" => pc["calc"] = "none"
  /\ pc["main"] \in {"create1", "create2"} => pc["print"] = "none"
  /\ pc["main"] \in {"create1", "create2", "create3"} => pc["end"] = "none"

IInv ==
  /\ TypeOK /\ Holds /\ Results /\ Sleeps /\ Came /\ Lines /\ Joined /\ Created

-------------------------------------------------------------------------------

LEMMA InitIInv == Init => IInv
<1> SUFFICES ASSUME Init PROVE IInv
  OBVIOUS
<1>1. TypeOK
  <2>1. woken \in 0..Spurious /\ output \in Seq({"number", "nothing", "finished"})
    BY SpuriousAssumption DEF Init
  <2> QED BY <2>1 DEF Init, TypeOK, Places, Threads, Nobody, Fib
<1>2. Holds /\ Results /\ Sleeps
  BY DEF Init, Holds, Results, Sleeps, NoLostSignal, Nobody
<1>3. Came
  BY DEF Init, Came, Threads
<1>4. Lines /\ Joined /\ Created
  BY DEF Init, Lines, Joined, Created
<1> QED BY <1>1, <1>2, <1>3, <1>4 DEF IInv

\* Taking the mutex.
LEMMA LockStep ==
  ASSUME IInv, Lock("calc", "compute") \/ Lock("print", "test")
  PROVE  IInv'
<1> USE DEF Lock, Go, At, IInv, TypeOK, Places
<1>1. TypeOK'
  BY DEF Nobody, Fib, Threads
<1>2. Holds'
  BY DEF Holds, Nobody
<1>3. Results'
  BY DEF Holds, Results
<1>4. Sleeps'
  BY DEF Sleeps, NoLostSignal, Results, Holds
<1>5. Came'
  BY DEF Came, Threads
<1>6. Lines'
  BY DEF Lines, Results, Came, Threads
<1>7. Joined' /\ Created'
  BY DEF Joined, Created
<1> QED BY <1>1, <1>2, <1>3, <1>4, <1>5, <1>6, <1>7

\* Giving it back: the printing thread has found the result.
LEMMA UnlockStep ==
  ASSUME IInv, Unlock("calc", "signal") \/ Unlock("print", "show")
  PROVE  IInv'
<1> USE DEF Unlock, Go, At, IInv, TypeOK, Places
<1>1. TypeOK'
  BY DEF Nobody, Fib, Threads
<1>2. Holds'
  BY DEF Holds, Nobody
<1>3. Results'
  BY DEF Holds, Results
<1>4. Sleeps'
  BY DEF Sleeps, NoLostSignal, Results, Holds
<1>5. Came'
  BY DEF Came, Threads
<1>6. Lines'
  BY DEF Lines, Results, Came, Threads
<1>7. Joined' /\ Created'
  BY DEF Joined, Created
<1> QED BY <1>1, <1>2, <1>3, <1>4, <1>5, <1>6, <1>7

\* The computing thread computes, marks and signals.
LEMMA CalcStep ==
  ASSUME IInv, Compute \/ Mark \/ Signal
  PROVE  IInv'
<1> USE DEF Compute, Mark, Signal, Go, At, IInv, TypeOK, Places
<1>1. TypeOK'
  BY DEF Nobody, Fib, Threads
<1>2. Holds'
  BY DEF Holds, Nobody
<1>3. Results'
  BY DEF Holds, Results
<1>4. Sleeps'
  BY DEF Sleeps, NoLostSignal, Results, Holds
<1>5. Came'
  BY DEF Came, Threads
<1>6. Lines'
  BY DEF Lines, Results, Came, Threads
<1>7. Joined' /\ Created'
  BY DEF Joined, Created
<1> QED BY <1>1, <1>2, <1>3, <1>4, <1>5, <1>6, <1>7

\* The printing thread tests, sleeps and wakes.
LEMMA PrintStep ==
  ASSUME IInv, Test \/ Sleep \/ Wake \/ WakeSpuriously
  PROVE  IInv'
<1> USE DEF Test, Sleep, Wake, WakeSpuriously, Go, At, IInv, TypeOK, Places
<1>1. TypeOK'
  <2>1. woken' \in 0..Spurious
    BY SpuriousAssumption
  <2> QED BY <2>1 DEF Nobody, Fib, Threads
<1>2. Holds'
  BY DEF Holds, Nobody
<1>3. Results'
  BY DEF Holds, Results
<1>4. Sleeps'
  BY DEF Sleeps, NoLostSignal, Results, Holds
<1>5. Came'
  BY DEF Came, Threads
<1>6. Lines'
  BY DEF Lines, Results, Came, Threads
<1>7. Joined' /\ Created'
  BY DEF Joined, Created
<1> QED BY <1>1, <1>2, <1>3, <1>4, <1>5, <1>6, <1>7

\* A thread comes to the barrier.
LEMMA ArriveStep ==
  ASSUME IInv, Arrive("calc") \/ Arrive("print") \/ Arrive("end")
  PROVE  IInv'
<1> USE DEF Arrive, Go, At, IInv, TypeOK, Places
<1>1. TypeOK'
  BY DEF Nobody, Fib, Threads
<1>2. Holds'
  BY DEF Holds, Nobody
<1>3. Results'
  BY DEF Holds, Results
<1>4. Sleeps'
  BY DEF Sleeps, NoLostSignal, Results, Holds
<1>5. Came'
  BY DEF Came, Threads
<1>6. Lines'
  BY DEF Lines, Results, Came, Threads
<1>7. Joined' /\ Created'
  BY DEF Joined, Created
<1> QED BY <1>1, <1>2, <1>3, <1>4, <1>5, <1>6, <1>7

\* Three threads at the barrier are all of them.
LEMMA AllCame ==
  ASSUME NEW S \in SUBSET Threads, Cardinality(S) = 3
  PROVE  S = Threads
<1>1. IsFiniteSet(Threads) /\ Cardinality(Threads) = 3
  <2>1. IsFiniteSet({"calc"}) /\ Cardinality({"calc"}) = 1
    BY FS_Singleton
  <2>2. IsFiniteSet({"calc", "print"}) /\ Cardinality({"calc", "print"}) = 2
    BY <2>1, FS_AddElement, {"calc", "print"} = {"calc"} \cup {"print"}
  <2>3. Threads = {"calc", "print"} \cup {"end"}
    BY DEF Threads
  <2> QED BY <2>2, <2>3, FS_AddElement
<1> QED BY <1>1, FS_Subset

\* A thread leaves the barrier: all have come.
LEMMA LeaveStep ==
  ASSUME IInv,
         Leave("calc", "ended") \/ Leave("print", "ended") \/ Leave("end", "show")
  PROVE  IInv'
<1> USE DEF Leave, Go, At, IInv, TypeOK, Places
<1> barrier = Threads
  <2>1. Cardinality(barrier) = 3
    BY DEF thread_q
  <2> QED BY <2>1, AllCame DEF Threads
<1>1. TypeOK'
  BY DEF Nobody, Fib, Threads
<1>2. Holds'
  BY DEF Holds, Nobody
<1>3. Results'
  BY DEF Holds, Results
<1>4. Sleeps'
  BY DEF Sleeps, NoLostSignal, Results, Holds
<1>5. Came'
  BY DEF Came, Threads
<1>6. Lines'
  BY DEF Lines, Results, Came, Threads
<1>7. Joined' /\ Created'
  BY DEF Joined, Created
<1> QED BY <1>1, <1>2, <1>3, <1>4, <1>5, <1>6, <1>7

\* A line is printed.
LEMMA ShowStep ==
  ASSUME IInv,
         \/ Show("print", IF result = Fib THEN "number" ELSE "nothing", "barrier")
         \/ Show("end", "finished", "ended")
  PROVE  IInv'
<1> USE DEF Show, Go, At, IInv, TypeOK, Places
<1>1. TypeOK'
  <2>1. output' \in Seq({"number", "nothing", "finished"})
    OBVIOUS
  <2> QED BY <2>1 DEF Nobody, Fib, Threads
<1>2. Holds'
  BY DEF Holds, Nobody
<1>3. Results'
  BY DEF Holds, Results
<1>4. Sleeps'
  BY DEF Sleeps, NoLostSignal, Results, Holds
<1>5. Came'
  BY DEF Came, Threads
<1>6. Lines'
  BY DEF Lines, Results, Came, Threads
<1>7. Joined' /\ Created'
  BY DEF Joined, Created
<1> QED BY <1>1, <1>2, <1>3, <1>4, <1>5, <1>6, <1>7

\* main creates a thread.
LEMMA CreateStep ==
  ASSUME IInv,
         NEW t \in Threads, NEW from, NEW to,
         \/ t = "calc" /\ from = "create1" /\ to = "create2"
         \/ t = "print" /\ from = "create2" /\ to = "create3"
         \/ t = "end" /\ from = "create3" /\ to = "join",
         Create(t, from, to)
  PROVE  IInv'
<1> USE DEF At, IInv
<1>1. pc["main"] = from /\ pc[t] = "none"
  BY DEF Create, Created
<1>2. /\ pc' \in Places
      /\ pc'["main"] = to /\ pc'[t] = IF t = "end" THEN "barrier" ELSE "lock"
      /\ \A u \in Threads : u # t => pc'[u] = pc[u]
  BY DEF TypeOK, Places, Create, Threads
<1>3. UNCHANGED <<mutex, waiting, barrier, result, calculated, output, alive, woken>>
  BY DEF Create
<1> HIDE DEF At
<1>4. TypeOK'
  BY <1>2, <1>3 DEF TypeOK
<1>5. Holds'
  BY <1>1, <1>2, <1>3 DEF Holds, Threads
<1>6. Results'
  BY <1>1, <1>2, <1>3 DEF Results, Threads
<1>7. Sleeps'
  BY <1>1, <1>2, <1>3 DEF Sleeps, NoLostSignal, Threads
<1>8. Came'
  BY <1>1, <1>2, <1>3 DEF Came, Threads
<1>9. Lines'
  BY <1>1, <1>2, <1>3 DEF Lines, Threads
<1>10. Joined' /\ Created'
  BY <1>1, <1>2, <1>3 DEF Joined, Created, Threads
<1> QED BY <1>4, <1>5, <1>6, <1>7, <1>8, <1>9, <1>10

\* main joins the third and returns.
LEMMA ReturnStep ==
  ASSUME IInv, Join \/ Destroy \/ Return
  PROVE  IInv'
<1> USE DEF Join, Destroy, Return, Go, At, IInv, TypeOK, Places
<1>1. TypeOK'
  BY DEF Nobody, Fib, Threads
<1>2. Holds'
  BY DEF Holds, Nobody
<1>3. Results'
  BY DEF Holds, Results
<1>4. Sleeps'
  BY DEF Sleeps, NoLostSignal, Results, Holds
<1>5. Came'
  BY DEF Came, Threads
<1>6. Lines'
  BY DEF Lines, Results, Came, Threads
<1>7. Joined' /\ Created'
  BY DEF Joined, Created
<1> QED BY <1>1, <1>2, <1>3, <1>4, <1>5, <1>6, <1>7

LEMMA NextStep == IInv /\ [Next]_vars => IInv'
<1> SUFFICES ASSUME IInv, [Next]_vars PROVE IInv'
  OBVIOUS
<1>1. CASE thread1_fib_calc
  BY <1>1, LockStep, CalcStep, UnlockStep, ArriveStep, LeaveStep DEF thread1_fib_calc
<1>2. CASE thread2_print_fib \/ WakeSpuriously
  BY <1>2, LockStep, PrintStep, UnlockStep, ShowStep, ArriveStep, LeaveStep
     DEF thread2_print_fib
<1>3. CASE thread3_print_end
  BY <1>3, ArriveStep, LeaveStep, ShowStep DEF thread3_print_end
<1>4. CASE main
  BY <1>4, CreateStep, ReturnStep DEF main, Threads
<1>5. CASE UNCHANGED vars
  BY <1>5 DEF vars, IInv, TypeOK, Holds, Results, Sleeps, NoLostSignal, Came, Lines,
              Joined, Created
<1> QED BY <1>1, <1>2, <1>3, <1>4, <1>5 DEF Next

THEOREM Inductive == Spec => []IInv
BY InitIInv, NextStep, PTL DEF Spec

-------------------------------------------------------------------------------
(***************************************************************************)
(* The theorems.                                                           *)
(***************************************************************************)

\* Every variable keeps its type, and the printing thread never sleeps past
\* the signal.
THEOREM SignalIsHeard == Spec => []SignalInv
<1>1. IInv => SignalInv
  BY DEF IInv, Sleeps, SignalInv
<1> QED BY <1>1, Inductive, PTL

\* The computed number is printed, and only then the last line.
THEOREM PrintsInOrder == Spec => []ReportsInOrder
<1>1. IInv => ReportsInOrder
  BY DEF IInv, Lines, ReportsInOrder
<1> QED BY <1>1, Inductive, PTL

\* Data is destroyed only when every thread is done with it.
THEOREM DataOutlivesUse == Spec => []OutlivesUse
<1>1. ASSUME IInv, ~ alive PROVE pc["end"] = "ended"
  BY <1>1 DEF IInv, Joined
<1>2. ASSUME IInv, ~ alive PROVE barrier = Threads
  BY <1>1, <1>2 DEF IInv, Came, Threads
<1>3. ASSUME IInv, ~ alive
      PROVE  \A t \in Threads : pc[t] \in {"leave", "ended"}
  BY <1>1, <1>2, <1>3 DEF IInv, Came, Threads
<1>4. ASSUME IInv, ~ alive PROVE output = <<"number", "finished">>
  <2>1. pc["print"] \in {"leave", "ended"}
    BY <1>3, <1>4 DEF Threads
  <2> QED BY <1>1, <1>4, <2>1 DEF IInv, Lines
<1>5. IInv => OutlivesUse
  BY <1>2, <1>3, <1>4 DEF OutlivesUse
<1> QED BY <1>5, Inductive, PTL
===============================================================================
