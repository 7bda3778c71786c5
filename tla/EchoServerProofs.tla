--------------------------- MODULE EchoServerProofs ---------------------------
(***************************************************************************)
(* Proofs about EchoServer, for any finite sets of peers and threads and   *)
(* any environments.  A work item moves from the queue to a thread and on  *)
(* to the finished ones: what counts is how many of them there are.        *)
(***************************************************************************)
EXTENDS EchoServer, FiniteSetTheorems, TLAPS

USE EchoAssumption

(***************************************************************************)
(* Counting work items.                                                    *)
(***************************************************************************)

LEMMA TimesNat ==
  ASSUME NEW S, NEW s \in Seq(S), NEW j
  PROVE  /\ IsFiniteSet({i \in DOMAIN s : s[i] = j})
         /\ Times(s, j) \in Nat
<1>1. IsFiniteSet(1..Len(s))
  BY FS_Interval
<1>2. {i \in DOMAIN s : s[i] = j} \in SUBSET (1..Len(s))
  OBVIOUS
<1>3. IsFiniteSet({i \in DOMAIN s : s[i] = j})
  BY <1>1, <1>2, FS_Subset
<1>. QED
  BY <1>3, FS_CardinalityType DEF Times

\* An empty sequence has none.
LEMMA TimesEmpty ==
  ASSUME NEW j
  PROVE  Times(<<>>, j) = 0
<1>1. {i \in DOMAIN <<>> : <<>>[i] = j} = {}
  OBVIOUS
<1>. QED
  BY <1>1, FS_EmptySet DEF Times

\* Joining a sequence adds one.
LEMMA TimesAppend ==
  ASSUME NEW S, NEW s \in Seq(S), NEW e \in S, NEW j
  PROVE  Times(Append(s, e), j) = Times(s, j) + (IF e = j THEN 1 ELSE 0)
<1>. DEFINE At(t) == {i \in DOMAIN t : t[i] = j}
<1>0. \A t : Times(t, j) = Cardinality(At(t))
  BY DEF Times
<1>1. IsFiniteSet(At(s)) /\ Cardinality(At(s)) \in Nat
  BY TimesNat DEF Times
<1>2. Len(s) + 1 \notin At(s)
  OBVIOUS
<1>. HIDE DEF At
<1>3. CASE e = j
  <2>1. At(Append(s, e)) = At(s) \cup {Len(s) + 1}
    BY <1>3 DEF At
  <2>2. Cardinality(At(s) \cup {Len(s) + 1}) = Cardinality(At(s)) + 1
    BY <1>1, <1>2, FS_AddElement
  <2>. QED
    BY <1>0, <1>1, <1>3, <2>1, <2>2
<1>4. CASE e # j
  <2>1. At(Append(s, e)) = At(s)
    BY <1>4 DEF At
  <2>. QED
    BY <1>0, <1>1, <1>4, <2>1
<1>. QED
  BY <1>3, <1>4

\* The rest of a sequence lacks its head.
LEMMA TimesTail ==
  ASSUME NEW S, NEW s \in Seq(S), s # <<>>, NEW j
  PROVE  Times(s, j) = Times(Tail(s), j) + (IF Head(s) = j THEN 1 ELSE 0)
<1>. DEFINE At(t) == {i \in DOMAIN t : t[i] = j}
            Behind == At(s) \ {1}
            next == [i \in At(Tail(s)) |-> i + 1]
<1>0. \A t : Times(t, j) = Cardinality(At(t))
  BY DEF Times
<1>1. /\ Tail(s) \in Seq(S) /\ Len(s) \in Nat \ {0}
      /\ DOMAIN s = 1..Len(s) /\ DOMAIN Tail(s) = 1..(Len(s) - 1)
      /\ \A i \in 1..(Len(s) - 1) : Tail(s)[i] = s[i + 1]
      /\ Head(s) = s[1]
  OBVIOUS
<1>2. IsFiniteSet(At(s)) /\ Cardinality(At(s)) \in Nat
  BY TimesNat DEF Times
<1>3. IsFiniteSet(At(Tail(s))) /\ Cardinality(At(Tail(s))) \in Nat
  BY <1>1, TimesNat DEF Times
<1>4. Cardinality(Behind) = Cardinality(At(Tail(s)))
  <2>1. next \in [At(Tail(s)) -> Behind]
    BY <1>1
  <2>2. \A a, b \in At(Tail(s)) : next[a] = next[b] => a = b
    BY <1>1
  <2>3. ASSUME NEW i \in Behind PROVE \E a \in At(Tail(s)) : next[a] = i
    <3>1. i - 1 \in At(Tail(s)) /\ i = (i - 1) + 1
      BY <1>1
    <3>. QED
      BY <3>1
  <2>4. next \in Bijection(At(Tail(s)), Behind)
    BY <2>1, <2>2, <2>3 DEF Bijection, Injection, Surjection, IsInjective
  <2>5. ExistsBijection(At(Tail(s)), Behind)
    BY <2>4 DEF ExistsBijection
  <2>. HIDE DEF At, Behind
  <2>. QED
    BY <1>3, <2>5, FS_Bijection
<1>5. CASE Head(s) = j
  <2>1. 1 \in At(s)
    BY <1>1, <1>5
  <2>2. Cardinality(Behind) = Cardinality(At(s)) - 1
    BY <1>2, <2>1, FS_RemoveElement
  <2>. HIDE DEF At, Behind
  <2>. QED
    BY <1>0, <1>2, <1>4, <1>5, <2>2
<1>6. CASE Head(s) # j
  <2>1. Behind = At(s)
    BY <1>1, <1>6
  <2>. HIDE DEF At, Behind
  <2>. QED
    BY <1>0, <1>3, <1>4, <1>6, <2>1
<1>. QED
  BY <1>5, <1>6

LEMMA ThreadsNat ==
  ASSUME NEW f, NEW j
  PROVE  /\ IsFiniteSet({w \in Workers : f[w] = j})
         /\ Threads(f, j) \in Nat
<1>1. IsFiniteSet({w \in Workers : f[w] = j})
  BY FS_Subset
<1>. QED
  BY <1>1, FS_CardinalityType DEF Threads

\* A thread leaves its work item and takes another one.
LEMMA ThreadMoves ==
  ASSUME NEW f, NEW g, NEW w \in Workers, NEW j,
         f[w] # g[w], \A v \in Workers \ {w} : f[v] = g[v]
  PROVE  Threads(g, j) =
           Threads(f, j) + (IF g[w] = j THEN 1 ELSE 0) - (IF f[w] = j THEN 1 ELSE 0)
<1>. DEFINE By(h) == {v \in Workers : h[v] = j}
<1>0. \A h : Threads(h, j) = Cardinality(By(h))
  BY DEF Threads
<1>1. IsFiniteSet(By(f)) /\ Cardinality(By(f)) \in Nat
  BY ThreadsNat DEF Threads
<1>2. CASE g[w] = j
  <2>1. By(g) = By(f) \cup {w} /\ w \notin By(f)
    BY <1>2
  <2>. HIDE DEF By
  <2>2. Cardinality(By(f) \cup {w}) = Cardinality(By(f)) + 1
    BY <1>1, <2>1, FS_AddElement
  <2>3. Threads(g, j) = Threads(f, j) + 1
    BY <1>0, <2>1, <2>2
  <2>. QED
    BY <1>0, <1>2, <2>3, ThreadsNat
<1>3. CASE f[w] = j
  <2>1. By(g) = By(f) \ {w} /\ w \in By(f)
    BY <1>3
  <2>. HIDE DEF By
  <2>2. Cardinality(By(f) \ {w}) = Cardinality(By(f)) - 1
    BY <1>1, <2>1, FS_RemoveElement
  <2>3. Threads(g, j) = Threads(f, j) - 1
    BY <1>0, <2>1, <2>2
  <2>4. g[w] # j /\ Threads(f, j) \in Nat
    BY <1>3, ThreadsNat
  <2>. QED
    BY <1>0, <1>3, <2>3, <2>4
<1>4. CASE g[w] # j /\ f[w] # j
  <2>1. By(g) = By(f)
    BY <1>4
  <2>. HIDE DEF By
  <2>. QED
    BY <1>0, <1>1, <1>4, <2>1
<1>. QED
  BY <1>2, <1>3, <1>4

(***************************************************************************)
(* What the steps do to the work items.                                    *)
(***************************************************************************)

LEMMA PendingNat ==
  ASSUME TypeOK
  PROVE  AcceptJobs \in Nat /\ \A c \in Peers : Pending(c) \in Nat
<1>1. \A j : /\ Times(queue, j) \in Nat /\ Times(finished, j) \in Nat
             /\ Threads(doing, j) \in Nat
  BY TimesNat, ThreadsNat DEF TypeOK
<1>. QED
  BY <1>1 DEF AcceptJobs, Pending

LEMMA PendingNatNext ==
  ASSUME queue' \in Seq(Jobs), finished' \in Seq(Jobs)
  PROVE  \A c \in Peers : Pending(c)' \in Nat
<1>1. \A j : /\ Times(queue', j) \in Nat /\ Times(finished', j) \in Nat
             /\ Threads(doing', j) \in Nat
  BY TimesNat, ThreadsNat
<1>. QED
  BY <1>1 DEF Pending

\* Nothing moves in the pool.
LEMMA PoolSame ==
  ASSUME UNCHANGED pool
  PROVE  /\ AcceptJobs' = AcceptJobs
         /\ \A c \in Peers : Pending(c)' = Pending(c)
BY DEF pool, AcceptJobs, Pending

\* A callback queues work for e, a peer or an accept.
LEMMA JobIsQueued ==
  ASSUME TypeOK, NEW e \in Jobs, queue' = Append(queue, e),
         UNCHANGED <<doing, finished>>
  PROVE  /\ queue' \in Seq(Jobs)
         /\ AcceptJobs' = AcceptJobs + (IF e = Accept THEN 1 ELSE 0)
         /\ \A c \in Peers : Pending(c)' = Pending(c) + (IF e = c THEN 1 ELSE 0)
<1>1. queue \in Seq(Jobs)
  BY DEF TypeOK
<1>2. \A j : Times(queue', j) = Times(queue, j) + (IF e = j THEN 1 ELSE 0)
  BY <1>1, TimesAppend
<1>3. \A j : /\ Times(queue, j) \in Nat /\ Times(finished, j) \in Nat
             /\ Threads(doing, j) \in Nat
  BY TimesNat, ThreadsNat DEF TypeOK
<1>4. AcceptJobs' = AcceptJobs + (IF e = Accept THEN 1 ELSE 0)
  BY <1>2, <1>3 DEF AcceptJobs
<1>5. ASSUME NEW c \in Peers
      PROVE  Pending(c)' = Pending(c) + (IF e = c THEN 1 ELSE 0)
  BY <1>2, <1>3 DEF Pending
<1>. QED
  BY <1>1, <1>4, <1>5

\* A thread takes the first work item: it is done instead of waiting.
LEMMA JobIsTaken ==
  ASSUME TypeOK, NEW w \in Workers, Take(w)
  PROVE  /\ queue' \in Seq(Jobs) /\ doing' \in [Workers -> Jobs \cup {Idle}]
         /\ AcceptJobs' = AcceptJobs
         /\ \A c \in Peers : Pending(c)' = Pending(c)
<1>1. /\ queue \in Seq(Jobs) /\ queue # <<>> /\ queue' = Tail(queue)
      /\ doing \in [Workers -> Jobs \cup {Idle}] /\ doing[w] = Idle
      /\ doing' = [doing EXCEPT ![w] = Head(queue)] /\ finished' = finished
  BY DEF TypeOK, Take
<1>2. Head(queue) \in Jobs /\ queue' \in Seq(Jobs) /\ Idle \notin Jobs
  BY <1>1 DEF Jobs, Accept, Idle
<1>3. \A j \in Jobs : Times(queue, j) = Times(queue', j) + (IF Head(queue) = j THEN 1 ELSE 0)
  BY <1>1, TimesTail
<1>4. \A j \in Jobs : Threads(doing', j) = Threads(doing, j) + (IF Head(queue) = j THEN 1 ELSE 0)
  <2>1. /\ doing'[w] = Head(queue) /\ doing[w] # doing'[w]
        /\ \A v \in Workers \ {w} : doing[v] = doing'[v]
    BY <1>1, <1>2
  <2>2. \A j : Threads(doing', j) = Threads(doing, j)
                  + (IF Head(queue) = j THEN 1 ELSE 0) - (IF doing[w] = j THEN 1 ELSE 0)
    BY <2>1, ThreadMoves
  <2>3. TAKE j \in Jobs
  <2>4. doing[w] # j /\ Threads(doing, j) \in Nat
    BY <1>1, <1>2, ThreadsNat
  <2>. QED
    BY <2>2, <2>4
<1>5. \A j : /\ Times(queue, j) \in Nat /\ Times(queue', j) \in Nat
             /\ Threads(doing, j) \in Nat /\ Times(finished, j) \in Nat
  BY <1>2, TimesNat, ThreadsNat DEF TypeOK
<1>6. AcceptJobs' = AcceptJobs
  BY <1>3, <1>4, <1>5 DEF AcceptJobs, Jobs
<1>7. finished' = finished
  BY <1>1
<1>8. ASSUME NEW c \in Peers PROVE Pending(c)' = Pending(c)
  BY <1>3, <1>4, <1>5, <1>7 DEF Pending, Jobs
<1>. QED
  BY <1>1, <1>2, <1>6, <1>8

\* A work function returns: a peer's work item is finished instead of done.
LEMMA JobReturns ==
  ASSUME TypeOK, NEW w \in Workers, doing[w] \in Jobs, Returns(w)
  PROVE  /\ finished' \in Seq(Jobs) /\ doing' \in [Workers -> Jobs \cup {Idle}]
         /\ AcceptJobs' = AcceptJobs - (IF doing[w] = Accept THEN 1 ELSE 0)
         /\ \A c \in Peers : Pending(c)' = Pending(c)
<1>1. /\ doing \in [Workers -> Jobs \cup {Idle}]
      /\ doing' = [doing EXCEPT ![w] = Idle] /\ queue' = queue
      /\ finished \in Seq(Jobs) /\ finished' = Append(finished, doing[w])
  BY DEF TypeOK, Returns
<1>2. Idle \notin Jobs /\ finished' \in Seq(Jobs)
  BY <1>1 DEF Jobs, Accept, Idle
<1>3. \A j \in Jobs : Times(finished', j) = Times(finished, j) + (IF doing[w] = j THEN 1 ELSE 0)
  BY <1>1, TimesAppend
<1>4. \A j \in Jobs : Threads(doing', j) = Threads(doing, j) - (IF doing[w] = j THEN 1 ELSE 0)
  <2>1. /\ doing[w] # doing'[w]
        /\ \A v \in Workers \ {w} : doing[v] = doing'[v]
    BY <1>1, <1>2
  <2>2. \A j : Threads(doing', j) = Threads(doing, j)
                  + (IF doing'[w] = j THEN 1 ELSE 0) - (IF doing[w] = j THEN 1 ELSE 0)
    BY <2>1, ThreadMoves
  <2>3. TAKE j \in Jobs
  <2>4. doing'[w] # j /\ Threads(doing, j) \in Nat
    BY <1>1, <1>2, ThreadsNat
  <2>. QED
    BY <2>2, <2>4
<1>5. \A j : /\ Times(queue, j) \in Nat /\ Threads(doing, j) \in Nat
             /\ Times(finished, j) \in Nat
  BY TimesNat, ThreadsNat DEF TypeOK
<1>6. queue' = queue
  BY <1>1
<1>7. AcceptJobs' = AcceptJobs - (IF doing[w] = Accept THEN 1 ELSE 0)
  <2>1. Accept \in Jobs
    BY DEF Jobs
  <2>. QED
    BY <1>4, <1>5, <1>6, <2>1 DEF AcceptJobs
<1>8. ASSUME NEW c \in Peers PROVE Pending(c)' = Pending(c)
  <2>1. c \in Jobs
    BY DEF Jobs
  <2>. QED
    BY <1>3, <1>4, <1>5, <1>6, <2>1 DEF Pending
<1>. QED
  BY <1>1, <1>2, <1>7, <1>8

\* An after-callback takes a finished work item.
LEMMA JobIsAnswered ==
  ASSUME TypeOK, finished # <<>>, finished' = Tail(finished),
         UNCHANGED <<queue, doing>>
  PROVE  /\ finished' \in Seq(Jobs)
         /\ AcceptJobs' = AcceptJobs
         /\ \A c \in Peers :
              Pending(c) = Pending(c)' + (IF Head(finished) = c THEN 1 ELSE 0)
<1>1. finished \in Seq(Jobs) /\ finished' \in Seq(Jobs)
  BY DEF TypeOK
<1>2. \A j : Times(finished, j) = Times(finished', j) + (IF Head(finished) = j THEN 1 ELSE 0)
  BY <1>1, TimesTail
<1>3. \A j : /\ Times(queue, j) \in Nat /\ Times(finished, j) \in Nat
             /\ Times(finished', j) \in Nat /\ Threads(doing, j) \in Nat
  BY <1>1, TimesNat, ThreadsNat DEF TypeOK
<1>4. AcceptJobs' = AcceptJobs
  BY DEF AcceptJobs
<1>5. ASSUME NEW c \in Peers
      PROVE  Pending(c) = Pending(c)' + (IF Head(finished) = c THEN 1 ELSE 0)
  BY <1>2, <1>3 DEF Pending
<1>. QED
  BY <1>1, <1>4, <1>5

(***************************************************************************)
(* The invariant.                                                          *)
(***************************************************************************)

\* Work is for peers whose connection was accepted.
PendingIsMet ==
  \A c \in Peers : Pending(c) > 0 => stream[c] \notin {"away", "held", "refused"}

\* Only a signal closes the server handle.
SignalCloses == server # "listening" => Allowed("signal")

IInv ==
  /\ TypeOK /\ SignalCloses /\ StopsForCause /\ OneAccept
  /\ PendingIsMet /\ ReadsAnsweredOnce

LEMMA IInvInit == Init => IInv
<1>. SUFFICES ASSUME Init PROVE IInv
  OBVIOUS
<1>1. TypeOK
  BY DEF Init, TypeOK, Jobs
<1>2. \A j : Threads(doing, j) = IF j = Idle THEN Threads(doing, Idle) ELSE 0
  <2>1. TAKE j
  <2>2. CASE j # Idle
    <3>1. {w \in Workers : doing[w] = j} = {}
      BY <2>2 DEF Init
    <3>. QED
      BY <2>2, <3>1, FS_EmptySet DEF Threads
  <2>. QED
    BY <2>2
<1>3. AcceptJobs = 0 /\ \A c \in Peers : Pending(c) = 0
  BY <1>2, TimesEmpty DEF Init, AcceptJobs, Pending, Accept, Idle
<1>4. Cardinality(Held) = 0
  <2>1. Held = {}
    BY DEF Init, Held
  <2>. QED
    BY <2>1, FS_EmptySet
<1>5. PendingIsMet /\ ReadsAnsweredOnce
  BY <1>3 DEF Init, PendingIsMet, ReadsAnsweredOnce
<1>6. OneAccept
  BY <1>3, <1>4 DEF OneAccept
<1>7. SignalCloses /\ StopsForCause
  BY DEF Init, SignalCloses, StopsForCause
<1>. QED
  BY <1>1, <1>5, <1>6, <1>7 DEF IInv

\* A step that ends the process for its cause.
LEMMA EndsKeeps ==
  ASSUME IInv, NEW how, Ends(how), StopsForCause',
         how \in {"stopped", "abort", "freed_stream", "freed_server", "stale_request"}
  PROVE  IInv'
<1>1. /\ process' = how
      /\ UNCHANGED <<environment, server, stream, write, asked, answered,
                     queue, doing, finished, signals>>
  BY DEF Ends, talk, pool
<1>2. AcceptJobs' = AcceptJobs /\ \A c \in Peers : Pending(c)' = Pending(c)
  BY <1>1, PoolSame DEF pool
<1>3. TypeOK'
  BY <1>1 DEF IInv, TypeOK
<1>4. SignalCloses' /\ OneAccept'
  BY <1>1, <1>2 DEF IInv, SignalCloses, OneAccept, Held, Allowed
<1>5. PendingIsMet' /\ ReadsAnsweredOnce'
  BY <1>1, <1>2 DEF IInv, PendingIsMet, ReadsAnsweredOnce, Allowed
<1>. QED
  BY <1>3, <1>4, <1>5 DEF IInv

\* Neither the pool nor the server handle takes part in a step of a stream
\* that has been accepted.
LEMMA StreamKeeps ==
  ASSUME IInv, NEW c \in Peers, NEW state \in {"shutting", "closing", "freed"},
         Becomes(c, state), stream[c] \notin {"away", "held", "refused"},
         state # "shutting" => write[c] = "none",
         ~ Allowed("hangup") => Pending(c) = 0,
         UNCHANGED <<environment, process, server, talk, pool, signals>>
  PROVE  IInv'
<1>1. UNCHANGED <<environment, process, server, write, asked, answered,
                  queue, doing, finished, signals>>
  BY DEF talk, pool
<1>2. AcceptJobs' = AcceptJobs /\ \A d \in Peers : Pending(d)' = Pending(d)
  BY PoolSame
<1>3. stream \in [Peers -> {"away", "held", "refused", "open", "shutting", "closing", "freed"}]
  BY DEF IInv, TypeOK
<1>4. /\ stream' \in [Peers -> {"away", "held", "refused", "open", "shutting", "closing", "freed"}]
      /\ stream'[c] = state
      /\ \A d \in Peers : d # c => stream'[d] = stream[d]
  BY <1>3 DEF Becomes
<1>5. Held' = Held
  BY <1>4 DEF Held
<1>6. TypeOK'
  BY <1>1, <1>4 DEF IInv, TypeOK
<1>7. SignalCloses' /\ StopsForCause' /\ OneAccept'
  BY <1>1, <1>2, <1>5 DEF IInv, SignalCloses, StopsForCause, OneAccept, Allowed
<1>8. PendingIsMet'
  BY <1>2, <1>4 DEF IInv, PendingIsMet
<1>9. ReadsAnsweredOnce'
  <2>1. ~ Allowed("hangup") => ~ Pending(c)' > 0
    BY <1>2, PendingNat DEF IInv
  <2>2. write[c] = "dangling" => stream'[c] = "shutting"
    BY <1>4
  <2>. QED
    BY <1>1, <1>2, <1>4, <2>1, <2>2 DEF IInv, ReadsAnsweredOnce, Allowed
<1>. QED
  BY <1>6, <1>7, <1>8, <1>9 DEF IInv

(***************************************************************************)
(* The loop's steps.                                                       *)
(***************************************************************************)

LEMMA NewConnectionKeeps ==
  ASSUME IInv, NEW c \in Peers, new_connection_handler(c)
  PROVE  IInv'
<1>1. /\ server = "listening" /\ Held = {} /\ stream[c] = "away"
      /\ stream' = [stream EXCEPT ![c] = "held"]
      /\ UNCHANGED <<environment, process, server, write, asked, answered,
                     doing, finished, signals>>
  BY DEF new_connection_handler, Becomes, talk
<1>2. /\ stream \in [Peers -> {"away", "held", "refused", "open", "shutting", "closing", "freed"}]
      /\ AcceptJobs \in Nat
      /\ \A d \in Peers : Pending(d) \in Nat
  BY PendingNat DEF IInv, TypeOK
<1>3. /\ queue' \in Seq(Jobs) /\ AcceptJobs' = AcceptJobs + 1
      /\ \A d \in Peers : Pending(d)' = Pending(d)
  <2>1. Accept \in Jobs /\ Accept \notin Peers
    BY DEF Jobs
  <2>2. /\ queue' \in Seq(Jobs)
        /\ AcceptJobs' = AcceptJobs + (IF Accept = Accept THEN 1 ELSE 0)
        /\ \A d \in Peers : Pending(d)' = Pending(d) + (IF Accept = d THEN 1 ELSE 0)
    BY <1>1, <2>1, JobIsQueued DEF IInv, new_connection_handler
  <2>. QED
    BY <1>2, <2>1, <2>2
<1>4. Held' = {c}
  BY <1>1, <1>2 DEF Held
<1>5. TypeOK'
  BY <1>1, <1>2, <1>3 DEF IInv, TypeOK
<1>6. OneAccept'
  <2>1. Cardinality(Held) = 0 /\ Cardinality(Held') = 1
    BY <1>1, <1>4, FS_EmptySet, FS_Singleton
  <2>. QED
    BY <1>1, <1>2, <1>3, <2>1 DEF IInv, OneAccept, Allowed
<1>7. SignalCloses' /\ StopsForCause'
  BY <1>1 DEF IInv, SignalCloses, StopsForCause, Allowed
<1>8. PendingIsMet' /\ ReadsAnsweredOnce'
  <2>1. Pending(c) = 0 /\ write[c] # "dangling"
    BY <1>1, <1>2 DEF IInv, PendingIsMet, ReadsAnsweredOnce
  <2>2. \A d \in Peers : d # c => stream'[d] = stream[d]
    BY <1>1, <1>2
  <2>. QED
    BY <1>1, <1>3, <2>1, <2>2 DEF IInv, PendingIsMet, ReadsAnsweredOnce, Allowed
<1>. QED
  BY <1>5, <1>6, <1>7, <1>8 DEF IInv

LEMMA NewConnectionErrorKeeps ==
  ASSUME IInv, new_connection_error
  PROVE  IInv'
<1>1. /\ Allowed("accept_error")
      /\ UNCHANGED <<environment, process, server, stream, write, asked, answered,
                     doing, finished, signals>>
  BY DEF new_connection_error, talk
<1>2. /\ queue' \in Seq(Jobs)
      /\ \A d \in Peers : Pending(d)' = Pending(d)
  <2>1. Accept \in Jobs /\ Accept \notin Peers
    BY DEF Jobs
  <2>2. /\ queue' \in Seq(Jobs)
        /\ \A d \in Peers : Pending(d)' = Pending(d) + (IF Accept = d THEN 1 ELSE 0)
    BY <1>1, <2>1, JobIsQueued DEF IInv, new_connection_error
  <2>. QED
    BY <2>1, <2>2, PendingNat DEF IInv
<1>3. TypeOK'
  BY <1>1, <1>2 DEF IInv, TypeOK
<1>4. SignalCloses' /\ StopsForCause' /\ OneAccept'
  BY <1>1 DEF IInv, SignalCloses, StopsForCause, OneAccept, Allowed
<1>5. PendingIsMet' /\ ReadsAnsweredOnce'
  BY <1>1, <1>2 DEF IInv, PendingIsMet, ReadsAnsweredOnce, Allowed
<1>. QED
  BY <1>3, <1>4, <1>5 DEF IInv

\* A signal lets go of the connection that is held.
LEMMA TerminationKeeps ==
  ASSUME IInv, termination_handler
  PROVE  IInv'
<1>1. CASE server = "closing" /\ Ends("abort")
  <2>1. StopsForCause'
    BY <1>1 DEF Ends, StopsForCause, termination_handler, Allowed
  <2>. QED
    BY <1>1, <2>1, EndsKeeps
<1>2. CASE server = "listening" /\ server' = "closing"
  <2>1. /\ Allowed("signal") /\ signals' = signals + 1
        /\ stream' = [c \in Peers |-> IF c \in Held THEN "refused" ELSE stream[c]]
        /\ UNCHANGED <<environment, process, write, asked, answered,
                       queue, doing, finished>>
    BY <1>2 DEF termination_handler, Ends, talk, pool
  <2>2. \A c \in Peers : Pending(c)' = Pending(c)
    BY <2>1, PoolSame DEF pool
  <2>3. /\ stream' \in [Peers -> {"away", "held", "refused", "open", "shutting", "closing", "freed"}]
        /\ \A c \in Peers :
             stream'[c] = stream[c] \/ (stream[c] = "held" /\ stream'[c] = "refused")
    <3>1. stream \in [Peers -> {"away", "held", "refused", "open", "shutting", "closing", "freed"}]
      BY DEF IInv, TypeOK
    <3>2. stream' = [c \in Peers |-> IF stream[c] = "held" THEN "refused" ELSE stream[c]]
      BY <2>1 DEF Held
    <3>3. \A c \in Peers : stream'[c] = IF stream[c] = "held" THEN "refused" ELSE stream[c]
      BY <3>2
    <3>4. \A c \in Peers : stream[c] \in {"away", "held", "refused", "open", "shutting", "closing", "freed"}
      BY <3>1
    <3>5. \A c \in Peers : stream'[c] \in {"away", "held", "refused", "open", "shutting", "closing", "freed"}
      BY <3>3, <3>4
    <3>6. stream' \in [Peers -> {"away", "held", "refused", "open", "shutting", "closing", "freed"}]
      BY <3>2, <3>5
    <3>7. ASSUME NEW c \in Peers
          PROVE  stream'[c] = stream[c] \/ (stream[c] = "held" /\ stream'[c] = "refused")
      BY <3>3
    <3>. QED
      BY <3>6, <3>7
  <2>4. TypeOK'
    BY <1>2, <2>1, <2>3 DEF IInv, TypeOK
  <2>5. SignalCloses' /\ StopsForCause' /\ OneAccept'
    BY <1>2, <2>1 DEF IInv, SignalCloses, StopsForCause, OneAccept, Allowed
  <2>6. PendingIsMet'
    BY <2>2, <2>3 DEF IInv, PendingIsMet
  <2>7. ReadsAnsweredOnce'
    BY <2>1, <2>2, <2>3 DEF IInv, ReadsAnsweredOnce, Allowed
  <2>. QED
    BY <2>4, <2>5, <2>6, <2>7 DEF IInv
<1>. QED
  BY <1>1, <1>2 DEF termination_handler

LEMMA ServerCloseKeeps ==
  ASSUME IInv, on_server_close
  PROVE  IInv'
<1>1. /\ server = "closing" /\ server' = "freed" /\ process' = "stopping"
      /\ UNCHANGED <<environment, stream, write, asked, answered,
                     queue, doing, finished, signals>>
  BY DEF on_server_close, talk, pool
<1>2. AcceptJobs' = AcceptJobs /\ \A c \in Peers : Pending(c)' = Pending(c)
  BY <1>1, PoolSame DEF pool
<1>3. TypeOK'
  BY <1>1 DEF IInv, TypeOK
<1>4. SignalCloses' /\ StopsForCause' /\ OneAccept'
  BY <1>1 DEF IInv, SignalCloses, StopsForCause, OneAccept, Allowed
<1>5. PendingIsMet' /\ ReadsAnsweredOnce'
  BY <1>1, <1>2 DEF IInv, PendingIsMet, ReadsAnsweredOnce, Allowed
<1>. QED
  BY <1>3, <1>4, <1>5 DEF IInv

LEMMA ReadKeeps ==
  ASSUME IInv, NEW c \in Peers, after_read(c)
  PROVE  IInv'
<1>1. /\ stream[c] = "open" /\ asked' = [asked EXCEPT ![c] = @ + 1]
      /\ UNCHANGED <<environment, process, server, stream, write, answered,
                     doing, finished, signals>>
  BY DEF after_read
<1>2. /\ asked \in [Peers -> Nat] /\ answered \in [Peers -> Nat]
      /\ AcceptJobs \in Nat
      /\ \A d \in Peers : Pending(d) \in Nat
  BY PendingNat DEF IInv, TypeOK
<1>3. /\ queue' \in Seq(Jobs) /\ AcceptJobs' = AcceptJobs
      /\ \A d \in Peers : Pending(d)' = Pending(d) + (IF c = d THEN 1 ELSE 0)
  <2>1. c \in Jobs /\ c # Accept
    BY DEF Jobs
  <2>2. /\ queue' \in Seq(Jobs)
        /\ AcceptJobs' = AcceptJobs + (IF c = Accept THEN 1 ELSE 0)
        /\ \A d \in Peers : Pending(d)' = Pending(d) + (IF c = d THEN 1 ELSE 0)
    BY <1>1, <2>1, JobIsQueued DEF IInv, after_read
  <2>. QED
    BY <1>2, <2>1, <2>2
<1>4. Held' = Held
  BY <1>1 DEF Held
<1>5. TypeOK'
  BY <1>1, <1>2, <1>3 DEF IInv, TypeOK
<1>6. SignalCloses' /\ StopsForCause' /\ OneAccept'
  BY <1>1, <1>3, <1>4 DEF IInv, SignalCloses, StopsForCause, OneAccept, Allowed
<1>7. PendingIsMet'
  BY <1>1, <1>2, <1>3 DEF IInv, PendingIsMet
<1>8. ReadsAnsweredOnce'
  <2>1. /\ asked'[c] = asked[c] + 1 /\ Pending(c)' = Pending(c) + 1
        /\ \A d \in Peers : d # c => asked'[d] = asked[d] /\ Pending(d)' = Pending(d)
    BY <1>1, <1>2, <1>3
  <2>2. ~ Allowed("hangup") => \A d \in Peers :
          asked[d] = answered[d] + Pending(d) /\ (Pending(d) > 0 => stream[d] = "open")
    BY DEF IInv, ReadsAnsweredOnce
  <2>3. ~ Allowed("hangup") => asked'[c] = answered[c] + Pending(c)'
    BY <1>2, <2>1, <2>2
  <2>4. \A d \in Peers : write[d] = "dangling" => stream[d] \in {"open", "shutting"}
    BY DEF IInv, ReadsAnsweredOnce
  <2>. QED
    BY <1>1, <2>1, <2>2, <2>3, <2>4 DEF ReadsAnsweredOnce, Allowed
<1>. QED
  BY <1>5, <1>6, <1>7, <1>8 DEF IInv

\* A peer that waits ends its side when nothing is pending.
LEMMA ReadEndKeeps ==
  ASSUME IInv, NEW c \in Peers, after_read_end(c)
  PROVE  IInv'
<1>1. ~ Allowed("hangup") => Pending(c) = 0
  BY PendingNat DEF IInv, TypeOK, ReadsAnsweredOnce, after_read_end, MayEnd
<1>. QED
  BY <1>1, StreamKeeps DEF after_read_end

LEMMA WriteCallbacksKeeps ==
  ASSUME IInv, NEW c \in Peers, WriteCallbacks(c)
  PROVE  IInv'
<1>1. CASE Allowed("frame_reused") /\ Ends("stale_request")
  <2>1. StopsForCause'
    BY <1>1 DEF Ends, StopsForCause, Allowed
  <2>. QED
    BY <1>1, <2>1, EndsKeeps
<1>2. CASE write' = [write EXCEPT ![c] = "none"]
           /\ UNCHANGED <<environment, process, server, stream, asked, answered,
                          pool, signals>>
  <2>1. AcceptJobs' = AcceptJobs /\ \A d \in Peers : Pending(d)' = Pending(d)
    BY <1>2, PoolSame
  <2>2. TypeOK'
    BY <1>2 DEF IInv, TypeOK, pool
  <2>3. SignalCloses' /\ StopsForCause' /\ OneAccept'
    BY <1>2, <2>1 DEF IInv, SignalCloses, StopsForCause, OneAccept, Held, Allowed
  <2>4. PendingIsMet'
    BY <1>2, <2>1 DEF IInv, PendingIsMet
  <2>5. \A d \in Peers : write'[d] = "dangling" => write[d] = "dangling"
    BY <1>2 DEF IInv, TypeOK
  <2>6. ReadsAnsweredOnce'
    BY <1>2, <2>1, <2>5 DEF IInv, ReadsAnsweredOnce, Allowed
  <2>. QED
    BY <2>2, <2>3, <2>4, <2>6 DEF IInv
<1>. QED
  BY <1>1, <1>2 DEF WriteCallbacks

\* Where a stream is shut down or closed, no peer that waits has work pending.
LEMMA ShutdownKeeps ==
  ASSUME IInv, NEW c \in Peers, after_shutdown(c)
  PROVE  IInv'
<1>1. ~ Allowed("hangup") => Pending(c) = 0
  BY PendingNat DEF IInv, ReadsAnsweredOnce, after_shutdown
<1>. QED
  BY <1>1, StreamKeeps DEF after_shutdown

LEMMA CloseKeeps ==
  ASSUME IInv, NEW c \in Peers, on_close(c)
  PROVE  IInv'
<1>1. ~ Allowed("hangup") => Pending(c) = 0
  BY PendingNat DEF IInv, ReadsAnsweredOnce, on_close
<1>2. write[c] = "none"
  <2>1. write[c] \in {"none", "dangling"}
    BY DEF IInv, TypeOK
  <2>2. write[c] # "dangling"
    BY DEF IInv, ReadsAnsweredOnce, on_close
  <2>. QED
    BY <2>1, <2>2
<1>. QED
  BY <1>1, <1>2, StreamKeeps DEF on_close

(***************************************************************************)
(* The steps of the threads, and the after-callbacks.                      *)
(***************************************************************************)

LEMMA TakeKeeps ==
  ASSUME IInv, NEW w \in Workers, Take(w)
  PROVE  IInv'
<1>1. UNCHANGED <<environment, process, server, stream, write, asked, answered,
                  finished, signals>>
  BY DEF Take, talk
<1>2. /\ queue' \in Seq(Jobs) /\ doing' \in [Workers -> Jobs \cup {Idle}]
      /\ AcceptJobs' = AcceptJobs
      /\ \A c \in Peers : Pending(c)' = Pending(c)
  BY JobIsTaken DEF IInv
<1>3. TypeOK'
  BY <1>1, <1>2 DEF IInv, TypeOK
<1>4. SignalCloses' /\ StopsForCause' /\ OneAccept'
  BY <1>1, <1>2 DEF IInv, SignalCloses, StopsForCause, OneAccept, Held, Allowed
<1>5. PendingIsMet' /\ ReadsAnsweredOnce'
  BY <1>1, <1>2 DEF IInv, PendingIsMet, ReadsAnsweredOnce, Allowed
<1>. QED
  BY <1>3, <1>4, <1>5 DEF IInv

\* There is one connection to accept, unless a signal or an error is to blame.
LEMMA AcceptKeeps ==
  ASSUME IInv, NEW w \in Workers, accept_conn(w)
  PROVE  IInv'
<1>1. doing[w] = Accept /\ Accept \in Jobs /\ Accept # Idle
  BY DEF accept_conn, Jobs, Accept, Idle
<1>2. CASE server = "freed" /\ Ends("freed_server")
  <2>1. StopsForCause'
    BY <1>2 DEF IInv, SignalCloses, Ends, StopsForCause, Allowed
  <2>. QED
    BY <1>2, <2>1, EndsKeeps
<1>3. Threads(doing, Accept) > 0 /\ AcceptJobs > 0
  <2>1. /\ {v \in Workers : doing[v] = Accept} # {}
        /\ IsFiniteSet({v \in Workers : doing[v] = Accept})
    BY <1>1, ThreadsNat
  <2>2. Threads(doing, Accept) # 0
    BY <2>1, FS_EmptySet DEF Threads
  <2>3. Threads(doing, Accept) \in Nat /\ Times(queue, Accept) \in Nat
    BY ThreadsNat, TimesNat DEF IInv, TypeOK
  <2>. QED
    BY <2>2, <2>3 DEF AcceptJobs
<1>4. CASE server # "freed" /\ Held = {} /\ Ends("abort")
  <2>1. Cardinality(Held) = 0
    BY <1>4, FS_EmptySet
  <2>2. Allowed("accept_error") \/ Allowed("signal")
    BY <1>3, <2>1 DEF IInv, OneAccept, SignalCloses
  <2>3. StopsForCause'
    BY <1>4, <2>2 DEF Ends, StopsForCause, Allowed
  <2>. QED
    BY <1>4, <2>3, EndsKeeps
<1>5. ASSUME NEW c \in Held, server # "freed", Becomes(c, "open"), Returns(w)
      PROVE  IInv'
  <2>1. /\ stream \in [Peers -> {"away", "held", "refused", "open", "shutting", "closing", "freed"}]
        /\ AcceptJobs \in Nat
        /\ \A d \in Peers : Pending(d) \in Nat
    BY PendingNat DEF IInv, TypeOK
  <2>2. /\ c \in Peers /\ stream[c] = "held" /\ stream'[c] = "open"
        /\ stream' \in [Peers -> {"away", "held", "refused", "open", "shutting", "closing", "freed"}]
        /\ \A d \in Peers : d # c => stream'[d] = stream[d]
    BY <1>5, <2>1 DEF Held, Becomes
  <2>3. UNCHANGED <<environment, process, server, write, asked, answered, queue, signals>>
    BY <1>5 DEF Returns, talk
  <2>4. /\ finished' \in Seq(Jobs) /\ doing' \in [Workers -> Jobs \cup {Idle}]
        /\ AcceptJobs' = AcceptJobs - (IF doing[w] = Accept THEN 1 ELSE 0)
        /\ \A d \in Peers : Pending(d)' = Pending(d)
    BY <1>1, <1>5, JobReturns DEF IInv
  <2>5. AcceptJobs' = AcceptJobs - 1
    BY <1>1, <2>4
  <2>6. TypeOK'
    BY <2>2, <2>3, <2>4 DEF IInv, TypeOK
  <2>7. SignalCloses' /\ StopsForCause'
    BY <2>3 DEF IInv, SignalCloses, StopsForCause, Allowed
  <2>8. OneAccept'
    <3>1. IsFiniteSet(Held)
      BY FS_Subset DEF Held
    <3>2. Held' = Held \ {c}
      BY <1>5, <2>2 DEF Held
    <3>3. Cardinality(Held') = Cardinality(Held) - 1 /\ Cardinality(Held) \in Nat
      BY <1>5, <3>1, <3>2, FS_RemoveElement, FS_CardinalityType
    <3>. QED
      BY <2>1, <2>3, <2>5, <3>3 DEF IInv, OneAccept, Allowed
  <2>9. PendingIsMet' /\ ReadsAnsweredOnce'
    <3>1. Pending(c) = 0 /\ write[c] # "dangling"
      BY <2>1, <2>2 DEF IInv, PendingIsMet, ReadsAnsweredOnce
    <3>. QED
      BY <2>2, <2>3, <2>4, <3>1 DEF IInv, PendingIsMet, ReadsAnsweredOnce, Allowed
  <2>. QED
    BY <2>6, <2>7, <2>8, <2>9 DEF IInv
<1>. QED
  BY <1>2, <1>4, <1>5 DEF accept_conn

LEMMA RequestKeeps ==
  ASSUME IInv, NEW w \in Workers, http_req(w)
  PROVE  IInv'
<1>1. doing[w] \in Peers /\ doing[w] \in Jobs /\ doing[w] # Accept
  BY DEF http_req, Jobs
<1>2. UNCHANGED <<environment, process, server, stream, write, asked, answered,
                  queue, signals>>
  BY DEF http_req, Returns, talk
<1>3. /\ finished' \in Seq(Jobs) /\ doing' \in [Workers -> Jobs \cup {Idle}]
      /\ AcceptJobs' = AcceptJobs
      /\ \A c \in Peers : Pending(c)' = Pending(c)
  <2>1. /\ finished' \in Seq(Jobs) /\ doing' \in [Workers -> Jobs \cup {Idle}]
        /\ AcceptJobs' = AcceptJobs - (IF doing[w] = Accept THEN 1 ELSE 0)
        /\ \A c \in Peers : Pending(c)' = Pending(c)
    BY <1>1, JobReturns DEF IInv, http_req
  <2>. QED
    BY <1>1, <2>1, PendingNat DEF IInv
<1>4. TypeOK'
  BY <1>2, <1>3 DEF IInv, TypeOK
<1>5. SignalCloses' /\ StopsForCause' /\ OneAccept'
  BY <1>2, <1>3 DEF IInv, SignalCloses, StopsForCause, OneAccept, Held, Allowed
<1>6. PendingIsMet' /\ ReadsAnsweredOnce'
  BY <1>2, <1>3 DEF IInv, PendingIsMet, ReadsAnsweredOnce, Allowed
<1>. QED
  BY <1>4, <1>5, <1>6 DEF IInv

LEMMA AfterAcceptKeeps ==
  ASSUME IInv, after_accept
  PROVE  IInv'
<1>1. /\ finished # <<>> /\ Head(finished) = Accept /\ finished' = Tail(finished)
      /\ UNCHANGED <<environment, process, server, stream, write, asked, answered,
                     queue, doing, signals>>
  BY DEF after_accept, talk
<1>2. /\ finished' \in Seq(Jobs) /\ AcceptJobs' = AcceptJobs
      /\ \A c \in Peers : Pending(c)' = Pending(c)
  <2>1. /\ finished' \in Seq(Jobs) /\ AcceptJobs' = AcceptJobs
        /\ \A c \in Peers :
             Pending(c) = Pending(c)' + (IF Head(finished) = c THEN 1 ELSE 0)
    BY <1>1, JobIsAnswered DEF IInv
  <2>2. \A c \in Peers : Pending(c)' \in Nat
    BY <1>1, <2>1, PendingNatNext DEF IInv, TypeOK
  <2>. QED
    BY <1>1, <2>1, <2>2
<1>3. TypeOK'
  BY <1>1, <1>2 DEF IInv, TypeOK
<1>4. SignalCloses' /\ StopsForCause' /\ OneAccept'
  BY <1>1, <1>2 DEF IInv, SignalCloses, StopsForCause, OneAccept, Held, Allowed
<1>5. PendingIsMet' /\ ReadsAnsweredOnce'
  BY <1>1, <1>2 DEF IInv, PendingIsMet, ReadsAnsweredOnce, Allowed
<1>. QED
  BY <1>3, <1>4, <1>5 DEF IInv

\* What was finished for c was pending, so its stream is there if c waits.
LEMMA ResponseKeeps ==
  ASSUME IInv, NEW c \in Peers, http_resp(c)
  PROVE  IInv'
<1>1. finished # <<>> /\ Head(finished) = c
  BY DEF http_resp
<1>2. /\ Pending(c) \in Nat /\ Pending(c) > 0
      /\ asked \in [Peers -> Nat] /\ answered \in [Peers -> Nat]
      /\ write \in [Peers -> {"none", "dangling"}]
  <2>1. finished \in Seq(Jobs)
    BY DEF IInv, TypeOK
  <2>2. Times(finished, c) = Times(Tail(finished), c) + 1
    <3>1. Times(finished, c) = Times(Tail(finished), c) + (IF Head(finished) = c THEN 1 ELSE 0)
      BY <1>1, <2>1, TimesTail
    <3>. QED
      BY <1>1, <3>1
  <2>3. Tail(finished) \in Seq(Jobs) /\ queue \in Seq(Jobs)
    BY <1>1, <2>1 DEF IInv, TypeOK
  <2>4. /\ Times(Tail(finished), c) \in Nat /\ Times(queue, c) \in Nat
        /\ Threads(doing, c) \in Nat
    BY <2>3, TimesNat, ThreadsNat
  <2>5. Pending(c) \in Nat /\ Pending(c) > 0
    BY <2>2, <2>4 DEF Pending
  <2>. QED
    BY <2>5 DEF IInv, TypeOK
<1>3. CASE stream[c] = "freed" /\ Ends("freed_stream")
  <2>1. Allowed("hangup")
    BY <1>2, <1>3 DEF IInv, ReadsAnsweredOnce
  <2>2. StopsForCause'
    BY <1>3, <2>1 DEF Ends, StopsForCause, Allowed
  <2>. QED
    BY <1>3, <2>2, EndsKeeps
<1>4. CASE Allowed("frame_reused") /\ Ends("stale_request")
  <2>1. StopsForCause'
    BY <1>4 DEF Ends, StopsForCause, Allowed
  <2>. QED
    BY <1>4, <2>1, EndsKeeps
<1>5. ASSUME finished' = Tail(finished), stream[c] # "freed",
             UNCHANGED <<environment, process, server, stream, asked, queue, doing, signals>>,
             \/ stream[c] = "closing" /\ UNCHANGED <<answered, write>>
             \/ /\ stream[c] # "closing"
                /\ answered' = [answered EXCEPT ![c] = @ + 1]
                /\ write' = [write EXCEPT ![c] = "dangling"]
      PROVE  IInv'
  <2>1. /\ finished' \in Seq(Jobs) /\ AcceptJobs' = AcceptJobs
        /\ \A d \in Peers : Pending(d) = Pending(d)' + (IF Head(finished) = d THEN 1 ELSE 0)
    BY <1>1, <1>5, JobIsAnswered DEF IInv
  <2>2. \A d \in Peers : Pending(d)' \in Nat
    BY <1>5, <2>1, PendingNatNext DEF IInv, TypeOK
  <2>3. /\ Pending(c)' = Pending(c) - 1
        /\ \A d \in Peers : d # c => Pending(d)' = Pending(d)
    BY <1>1, <2>1, <2>2
  <2>4. TypeOK'
    <3>1. /\ answered' \in [Peers -> Nat]
          /\ write' \in [Peers -> {"none", "dangling"}]
      BY <1>2, <1>5
    <3>. QED
      BY <1>5, <2>1, <3>1 DEF IInv, TypeOK
  <2>5. SignalCloses' /\ StopsForCause' /\ OneAccept'
    BY <1>5, <2>1 DEF IInv, SignalCloses, StopsForCause, OneAccept, Held, Allowed
  <2>6. PendingIsMet'
    BY <1>2, <1>5, <2>3 DEF IInv, PendingIsMet
  <2>7. ASSUME ~ Allowed("hangup"), NEW d \in Peers
        PROVE  /\ asked'[d] = answered'[d] + Pending(d)'
               /\ Pending(d)' > 0 => stream'[d] = "open"
    <3>1. /\ asked[d] = answered[d] + Pending(d)
          /\ Pending(d) > 0 => stream[d] = "open"
          /\ stream[c] = "open"
      BY <1>2, <2>7 DEF IInv, ReadsAnsweredOnce
    <3>2. CASE d = c
      BY <1>2, <1>5, <2>2, <2>3, <3>1, <3>2
    <3>3. CASE d # c
      BY <1>2, <1>5, <2>3, <3>1, <3>3
    <3>. QED
      BY <3>2, <3>3
  <2>8. ASSUME NEW d \in Peers, write'[d] = "dangling"
        PROVE  stream'[d] \in {"open", "shutting"}
    <3>1. write[d] = "dangling" => stream[d] \in {"open", "shutting"}
      BY DEF IInv, ReadsAnsweredOnce
    <3>2. stream[c] \in {"open", "shutting", "closing"}
      BY <1>2, <1>5 DEF IInv, TypeOK, PendingIsMet
    <3>. QED
      BY <1>2, <1>5, <2>8, <3>1, <3>2
  <2>9. ReadsAnsweredOnce'
    BY <1>5, <2>7, <2>8 DEF ReadsAnsweredOnce, Allowed
  <2>. QED
    BY <2>4, <2>5, <2>6, <2>9 DEF IInv
<1>. QED
  BY <1>3, <1>4, <1>5 DEF http_resp

LEMMA ReturnKeeps ==
  ASSUME IInv, Return
  PROVE  IInv'
<1>1. StopsForCause'
  BY DEF IInv, Return, Ends, StopsForCause, Allowed
<1>. QED
  BY <1>1, EndsKeeps DEF Return

LEMMA StutterKeeps ==
  ASSUME IInv, UNCHANGED vars
  PROVE  IInv'
<1>1. UNCHANGED <<environment, process, server, stream, write, asked, answered,
                  queue, doing, finished, signals>>
  BY DEF vars
<1>2. AcceptJobs' = AcceptJobs /\ \A c \in Peers : Pending(c)' = Pending(c)
  BY <1>1, PoolSame DEF pool
<1>. QED
  BY <1>1, <1>2 DEF IInv, TypeOK, SignalCloses, StopsForCause, OneAccept, Held,
                    PendingIsMet, ReadsAnsweredOnce, Allowed

(***************************************************************************)
(* The theorems.                                                           *)
(***************************************************************************)

LEMMA IInvNext == IInv /\ [Next]_vars => IInv'
<1>. SUFFICES ASSUME IInv, [Next]_vars PROVE IInv'
  OBVIOUS
<1>1. CASE new_connection_error \/ termination_handler \/ on_server_close \/ Return
  BY <1>1, NewConnectionErrorKeeps, TerminationKeeps, ServerCloseKeeps, ReturnKeeps
<1>2. CASE AfterWork
  BY <1>2, AfterAcceptKeeps, ResponseKeeps DEF AfterWork
<1>3. ASSUME NEW c \in Peers, Peer(c) \/ Ready(c) \/ on_close(c) PROVE IInv'
  BY <1>3, NewConnectionKeeps, ReadKeeps, ReadEndKeeps, WriteCallbacksKeeps,
     ShutdownKeeps, CloseKeeps DEF Peer, Ready
<1>4. ASSUME NEW w \in Workers, Work(w) PROVE IInv'
  BY <1>4, TakeKeeps, AcceptKeeps, RequestKeeps DEF Work
<1>5. CASE UNCHANGED vars
  BY <1>5, StutterKeeps
<1>. QED
  BY <1>1, <1>2, <1>3, <1>4, <1>5 DEF Next

LEMMA Invariance == Spec => []IInv
BY IInvInit, IInvNext, PTL DEF Spec

(***************************************************************************)
(* Whatever ends the echo server has its cause in the environment: the     *)
(* order in which the loop, the accepts and the answers run never does it. *)
(***************************************************************************)
THEOREM EchoStopsForCause == Spec => []StopsForCause
<1>1. IInv => StopsForCause
  BY DEF IInv
<1>. QED
  BY <1>1, Invariance, PTL

(***************************************************************************)
(* While the server listens and accepts do not fail, a work item to accept *)
(* is there exactly while the server handle holds a connection.            *)
(***************************************************************************)
THEOREM AcceptsMatch == Spec => []AcceptInv
<1>1. IInv => AcceptInv
  BY DEF IInv, AcceptInv
<1>. QED
  BY <1>1, Invariance, PTL

(***************************************************************************)
(* Each read of a peer that waits is pending once or answered once, its    *)
(* stream open meanwhile; a write is held for streams that are not closed. *)
(***************************************************************************)
THEOREM AnswersOnce == Spec => []ReadsAnsweredOnce
<1>1. IInv => ReadsAnsweredOnce
  BY DEF IInv
<1>. QED
  BY <1>1, Invariance, PTL
===============================================================================
