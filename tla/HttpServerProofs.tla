--------------------------- MODULE HttpServerProofs ---------------------------
(***************************************************************************)
(* Proofs about HttpServer, for any set of connections, threads, paths and *)
(* any set of deviations.  IInv of HttpServerProperties is inductive.      *)
(***************************************************************************)
EXTENDS HttpServerProperties, TLAPS

USE HttpAssumption

\* A step that ends the process changes nothing else.
LEMMA EndsKeeps ==
  ASSUME NEW how, Ends(how)
  PROVE  UNCHANGED <<stream, parser, path, write, buffer, asked, replies,
                     queue, pc, serving, filepath, finished>>
BY DEF Ends, connection, pool

\* So does the start of the process, which ends only for its own cause.
LEMMA StartKeeps ==
  ASSUME Start
  PROVE  /\ UNCHANGED <<stream, parser, path, write, buffer, asked, replies,
                         queue, pc, serving, filepath, finished>>
         /\ \/ process' = "running"
            \/ process' \in {"exit", "throw"} /\ Allowed("setup_error")
BY DEF Start, ParseArgsFails, ListenFails, Ends, connection, pool

\* Changing a function at one place keeps it in its set.
LEMMA UpdateType ==
  ASSUME NEW A, NEW B, NEW f \in [A -> B], NEW a, NEW b \in B
  PROVE  [f EXCEPT ![a] = b] \in [A -> B]
OBVIOUS

\* The elements of a queue that a client joins at its end, or leaves at its head.
LEMMA AppendElements ==
  ASSUME NEW s \in Seq(Clients), NEW c \in Clients
  PROVE  /\ Len(Append(s, c)) = Len(s) + 1
         /\ \A i \in 1..Len(s) : Append(s, c)[i] = s[i]
         /\ Append(s, c)[Len(s) + 1] = c
OBVIOUS

LEMMA TailElements ==
  ASSUME NEW s \in Seq(Clients), s # <<>>
  PROVE  /\ Len(s) \in Nat \ {0} /\ Len(Tail(s)) = Len(s) - 1
         /\ \A i \in 1..Len(Tail(s)) : Tail(s)[i] = s[i + 1]
         /\ Head(s) = s[1] /\ Head(s) \in Clients
OBVIOUS

LEMMA QueuedAppend ==
  ASSUME TypeOK, NEW c \in Clients, queue' = Append(queue, c), NEW d
  PROVE  Queued(d)' <=> Queued(d) \/ d = c
<1>1. queue \in Seq(Clients) /\ Len(queue) \in Nat
  BY DEF TypeOK
<1>2. ASSUME Queued(d) PROVE Queued(d)'
  BY <1>1, <1>2, AppendElements DEF Queued
<1>3. ASSUME d = c PROVE Queued(d)'
  BY <1>1, <1>3, AppendElements DEF Queued
<1>4. ASSUME Queued(d)', d # c PROVE Queued(d)
  <2>1. PICK i \in 1..Len(queue') : queue'[i] = d
    BY <1>4 DEF Queued
  <2>2. i \in 1..Len(queue)
    BY <1>1, <1>4, <2>1, AppendElements
  <2> QED BY <1>1, <2>1, <2>2, AppendElements DEF Queued
<1> QED BY <1>2, <1>3, <1>4

LEMMA QueuedTail ==
  ASSUME TypeOK, queue # <<>>, queue' = Tail(queue), NEW d
  PROVE  /\ Queued(d)' => Queued(d)
         /\ Queued(d) => Queued(d)' \/ d = Head(queue)
         /\ Queued(Head(queue)) /\ Head(queue) \in Clients
<1>1. queue \in Seq(Clients) /\ Len(queue) \in Nat \ {0}
  BY TailElements DEF TypeOK
<1>2. ASSUME Queued(d)' PROVE Queued(d)
  <2>1. PICK i \in 1..Len(Tail(queue)) : Tail(queue)[i] = d
    BY <1>2 DEF Queued
  <2>2. queue[i + 1] = d /\ i + 1 \in 1..Len(queue)
    BY <1>1, <2>1, TailElements
  <2> QED BY <2>2 DEF Queued
<1>3. ASSUME Queued(d), d # Head(queue) PROVE Queued(d)'
  <2>1. PICK i \in 1..Len(queue) : queue[i] = d
    BY <1>3 DEF Queued
  <2>2. i # 1
    BY <1>1, <1>3, <2>1, TailElements
  <2>3. i - 1 \in 1..Len(Tail(queue)) /\ (i - 1) + 1 = i
    BY <1>1, <2>1, <2>2, TailElements
  <2>4. Tail(queue)[i - 1] = d
    BY <1>1, <2>1, <2>3, TailElements
  <2> QED BY <2>3, <2>4 DEF Queued
<1>4. Queued(Head(queue)) /\ Head(queue) \in Clients
  BY <1>1, TailElements DEF Queued
<1> QED BY <1>2, <1>3, <1>4

LEMMA TypeStep == TypeOK /\ Serve => TypeOK'
<1> SUFFICES ASSUME TypeOK, Serve PROVE TypeOK'
  OBVIOUS
<1>0. ASSUME NEW how \in {"exit", "throw", "use_after_free",
                          "request_reused", "freed_buffer"}, Ends(how)
      PROVE  TypeOK'
  BY <1>0 DEF TypeOK, Ends, connection, pool
<1>1. CASE OnConnectError
  BY <1>0, <1>1 DEF OnConnectError
<1>2. CASE AfterRender
  BY <1>2 DEF TypeOK, AfterRender, connection
<1>3. ASSUME NEW c \in Clients, OnConnect(c) PROVE TypeOK'
  BY <1>3 DEF TypeOK, OnConnect, pool
<1>4. ASSUME NEW c \in Clients, Read(c) PROVE TypeOK'
  <2>0. ASSUME NEW p \in Paths, NEW q \in Paths, NEW seen \in {"url", "headers"},
               Begin(c, seen, p, q)
        PROVE  TypeOK'
    BY <2>0 DEF TypeOK, Begin, pool
  <2>1. ASSUME NEW p \in Paths, OnReadUrl(c, p) PROVE TypeOK'
    BY <1>0, <2>0, <2>1 DEF OnReadUrl
  <2>2. ASSUME NEW p \in Paths, NEW q \in Paths, OnReadUrlPart(c, p, q) PROVE TypeOK'
    BY <1>0, <2>0, <2>2 DEF OnReadUrlPart
  <2>3. ASSUME NEW q \in Paths, OnReadUrlRest(c, q) PROVE TypeOK'
    <3>1. CASE Ends("exit")
      BY <3>1, <1>0
    <3>2. CASE ~ Ends("exit")
      BY <3>2, <2>3 DEF TypeOK, OnReadUrlRest, pool
    <3> QED BY <3>1, <3>2
  <2>4. CASE OnReadComplete(c)
    BY <2>4 DEF TypeOK, OnReadComplete
  <2>5. CASE OnReadBad(c)
    BY <2>5, <1>0 DEF OnReadBad
  <2>6. CASE OnReadEnd(c)
    BY <2>6 DEF TypeOK, OnReadEnd, pool
  <2> QED BY <1>4, <2>1, <2>2, <2>3, <2>4, <2>5, <2>6 DEF Read
<1>5. ASSUME NEW c \in Clients, Writable(c) PROVE TypeOK'
  <2>1. CASE Flush(c)
    <3>1. CASE Ends("freed_buffer")
      BY <3>1, <1>0
    <3>2. CASE ~ Ends("freed_buffer")
      BY <3>2, <2>1, ZenonT(40) DEF TypeOK, Flush, pool
    <3> QED BY <3>1, <3>2
  <2>2. CASE OnWrite(c)
    BY <2>2 DEF TypeOK, OnWrite, pool
  <2>3. CASE Drain(c)
    <3>1. CASE Ends("exit")
      BY <3>1, <1>0
    <3>2. CASE ~ Ends("exit")
      BY <3>2, <2>3 DEF TypeOK, Drain, pool
    <3> QED BY <3>1, <3>2
  <2> QED BY <1>5, <2>1, <2>2, <2>3 DEF Writable
<1>6. ASSUME NEW c \in Clients, OnClose(c) PROVE TypeOK'
  BY <1>6 DEF TypeOK, OnClose, pool
<1>7. ASSUME NEW w \in Workers, Render(w) PROVE TypeOK'
  <2>1. CASE \/ Ends("exit") \/ Ends("throw") \/ Ends("use_after_free")
             \/ Ends("request_reused")
    BY <2>1, <1>0
  <2>2. CASE RenderStart(w)
    BY <2>2 DEF TypeOK, RenderStart, connection
  <2>3. CASE RenderLookup(w) /\ ~ Ends("throw")
    BY <2>3, ZenonT(40) DEF TypeOK, RenderLookup, connection
  <2>4. CASE pc[w] = "write" /\ Send(w, serving[w])
    <3>1. serving[w] \in Clients /\ filepath[w] \in Paths \cup {NoPath}
      BY <2>4 DEF TypeOK
    <3>2. replies' \in [Clients -> Seq(Paths \cup {NoPath})]
      BY <2>4, <3>1, UpdateType DEF TypeOK, Send
    <3> QED BY <2>4, <3>2, ZenonT(40) DEF TypeOK, Send
  <2>5. CASE RenderRelease(w)
    <3>1. serving[w] \in Clients
      BY <2>5 DEF TypeOK, RenderRelease
    <3>2. buffer' \in [Clients -> Workers \cup {"static", "freed"}]
      BY <2>5 DEF TypeOK, RenderRelease
    <3> QED BY <2>5, <3>1, <3>2 DEF TypeOK, RenderRelease
  <2>6. CASE UseAfterFree(w)
    BY <2>1, <2>6 DEF UseAfterFree
  <2> QED BY <1>7, <2>1, <2>2, <2>3, <2>4, <2>5, <2>6 DEF Render, RenderWrite, TypeOK
<1> QED BY <1>1, <1>2, <1>3, <1>4, <1>5, <1>6, <1>7 DEF Serve

\* Type correctness of HttpServer: every variable stays in its set.
THEOREM TypeCorrect == Spec => []TypeOK
<1>1. Init => TypeOK
  BY DEF Init, TypeOK
<1>2. TypeOK /\ [Next]_vars => TypeOK'
  <2>1. TypeOK /\ UNCHANGED vars => TypeOK'
    BY DEF TypeOK, vars
  <2>2. TypeOK /\ Start => TypeOK'
    BY StartKeeps DEF TypeOK
  <2> QED BY <2>1, <2>2, TypeStep DEF Next
<1> QED BY <1>1, <1>2, PTL DEF Spec

-------------------------------------------------------------------------------
(***************************************************************************)
(* A write in flight has its request.                                      *)
(***************************************************************************)

LEMMA BasicInit == Init => Basic
BY DEF Init, Basic, Queued, WorkHasClient, PartialWriteIsSlow, WriteHasClient

LEMMA BasicStep == TypeOK /\ Basic /\ Serve => Basic'
<1> SUFFICES ASSUME TypeOK, Basic, Serve PROVE Basic'
  OBVIOUS
<1> USE DEF Basic
<1>0. ASSUME UNCHANGED <<stream, write, queue, pc, serving>> PROVE Basic'
  BY <1>0 DEF Queued, WorkHasClient, PartialWriteIsSlow, WriteHasClient
<1>e. ASSUME NEW how, Ends(how) PROVE Basic'
  BY <1>0, <1>e, EndsKeeps
<1>k. ASSUME UNCHANGED <<queue, pc, serving>>,
             \A c \in Clients : stream[c] # "none" => stream'[c] # "none"
      PROVE  WorkHasClient'
  BY <1>k DEF TypeOK, Queued, WorkHasClient
<1>1. CASE OnConnectError
  BY <1>e, <1>1 DEF OnConnectError
<1>2. CASE AfterRender
  BY <1>0, <1>2 DEF AfterRender, connection
<1>3. ASSUME NEW c \in Clients, OnConnect(c) PROVE Basic'
  BY <1>3, <1>k DEF TypeOK, OnConnect, pool, PartialWriteIsSlow, WriteHasClient
<1>4. ASSUME NEW c \in Clients, Read(c) PROVE Basic'
  <2>1. CASE \E p \in Paths : OnReadUrl(c, p)
    BY <2>1, <1>0, <1>e DEF OnReadUrl, Begin, pool
  <2>2. CASE \E p, q \in Paths : OnReadUrlPart(c, p, q)
    BY <2>2, <1>0, <1>e DEF OnReadUrlPart, Begin, pool
  <2>3. CASE \E q \in Paths : OnReadUrlRest(c, q)
    BY <2>3, <1>0, <1>e DEF OnReadUrlRest, pool
  <2>4. CASE OnReadComplete(c)
    <3>1. \A d \in Clients : Queued(d)' => stream[d] # "none"
      BY <2>4, QueuedAppend DEF OnReadComplete, WorkHasClient
    <3> QED
      BY <2>4, <3>1 DEF OnReadComplete, WorkHasClient, PartialWriteIsSlow, WriteHasClient
  <2>5. CASE OnReadBad(c)
    BY <2>5, <1>e DEF OnReadBad
  <2>6. CASE OnReadEnd(c)
    BY <2>6, <1>k DEF TypeOK, OnReadEnd, pool, PartialWriteIsSlow, WriteHasClient
  <2> QED BY <1>4, <2>1, <2>2, <2>3, <2>4, <2>5, <2>6 DEF Read
<1>5. ASSUME NEW c \in Clients, Writable(c) PROVE Basic'
  <2>1. CASE Flush(c)
    <3>1. CASE Ends("freed_buffer")
      BY <3>1, <1>e
    <3>2. CASE ~ Ends("freed_buffer")
      BY <3>2, <2>1, <1>k DEF TypeOK, Flush, pool, PartialWriteIsSlow, WriteHasClient
    <3> QED BY <3>1, <3>2
  <2>2. CASE OnWrite(c)
    BY <2>2, <1>k DEF TypeOK, OnWrite, pool, PartialWriteIsSlow, WriteHasClient
  <2>3. CASE Drain(c)
    <3>1. CASE Ends("exit")
      BY <3>1, <1>e
    <3>2. CASE ~ Ends("exit")
      BY <3>2, <2>3, <1>k, ZenonT(40) DEF TypeOK, Drain, pool, PartialWriteIsSlow, WriteHasClient
    <3> QED BY <3>1, <3>2
  <2> QED BY <1>5, <2>1, <2>2, <2>3 DEF Writable
<1>6. ASSUME NEW c \in Clients, OnClose(c) PROVE Basic'
  BY <1>6, <1>k DEF TypeOK, OnClose, pool, PartialWriteIsSlow, WriteHasClient
<1>7. ASSUME NEW w \in Workers, Render(w) PROVE Basic'
  <2>1. CASE \/ Ends("exit") \/ Ends("throw") \/ Ends("use_after_free")
             \/ Ends("request_reused")
    BY <2>1, <1>e
  <2>2. CASE RenderStart(w)
    BY <2>2, QueuedTail DEF TypeOK, RenderStart, connection, WorkHasClient, PartialWriteIsSlow, WriteHasClient
  <2>3. CASE RenderLookup(w) /\ ~ Ends("throw")
    BY <2>3 DEF TypeOK, RenderLookup, connection, Queued, WorkHasClient, PartialWriteIsSlow, WriteHasClient
  <2>4. CASE /\ pc[w] = "write" /\ Send(w, serving[w])
             /\ stream[serving[w]] \notin {"closing", "closed"}
    BY <2>4 DEF TypeOK, Send, Queued, WorkHasClient, PartialWriteIsSlow, WriteHasClient
  <2>5. CASE RenderRelease(w)
    BY <2>5 DEF TypeOK, RenderRelease, Queued, WorkHasClient, PartialWriteIsSlow, WriteHasClient
  <2>6. CASE UseAfterFree(w)
    BY <2>1, <2>6 DEF UseAfterFree
  <2> QED BY <1>7, <2>1, <2>2, <2>3, <2>4, <2>5, <2>6 DEF Render, RenderWrite
<1> QED BY <1>1, <1>2, <1>3, <1>4, <1>5, <1>6, <1>7 DEF Serve

\* Every variable stays in its set, and while a write of a client is in flight
\* its Client_Impl, which holds the request libuv works on, is neither closing
\* nor deleted.
THEOREM WriteKeepsClient == Spec => []WriteInv
<1>1. TypeOK /\ Basic /\ [Next]_vars => Basic'
  <2>1. Basic /\ UNCHANGED vars => Basic'
    BY DEF Basic, vars, Queued, WorkHasClient, PartialWriteIsSlow, WriteHasClient
  <2>2. Basic /\ Start => Basic'
    BY StartKeeps DEF Basic, Queued, WorkHasClient, PartialWriteIsSlow, WriteHasClient
  <2> QED BY <2>1, <2>2, BasicStep DEF Next
<1>2. TypeOK /\ Basic => WriteInv
  BY DEF Basic, WriteInv
<1> QED BY <1>1, <1>2, BasicInit, TypeCorrect, PTL DEF Spec

-------------------------------------------------------------------------------
(***************************************************************************)
(* How the pending work of a client changes.                               *)
(***************************************************************************)

LEMMA PendingSame ==
  ASSUME UNCHANGED <<queue, pc, serving>>, NEW d \in Clients
  PROVE  /\ Pending(d)' <=> Pending(d)
         /\ PendingOnce(d) => PendingOnce(d)'
BY DEF Pending, Queued, ServedBy, PendingOnce

\* OnReadComplete: the client's work is pending, once if it was not before.
LEMMA PendingJoins ==
  ASSUME TypeOK, NEW c \in Clients, OnReadComplete(c), NEW d \in Clients
  PROVE  /\ Pending(d)' <=> Pending(d) \/ d = c
         /\ PendingOnce(d) /\ (d = c => ~ Pending(c)) => PendingOnce(d)'
<1>1. /\ queue \in Seq(Clients) /\ Len(queue) \in Nat
      /\ queue' = Append(queue, c) /\ UNCHANGED <<pc, serving>>
  BY DEF TypeOK, OnReadComplete
<1>2. \A w \in Workers : ServedBy(w, d)' <=> ServedBy(w, d)
  BY <1>1 DEF ServedBy
<1>3. Queued(d)' <=> Queued(d) \/ d = c
  BY <1>1, QueuedAppend
<1>4. Pending(d)' <=> Pending(d) \/ d = c
  BY <1>2, <1>3 DEF Pending
<1>5. ASSUME PendingOnce(d), d = c => ~ Pending(c) PROVE PendingOnce(d)'
  <2>1. \A i \in 1..Len(queue') : i = Len(queue) + 1 \/ i \in 1..Len(queue)
    BY <1>1, AppendElements
  <2>2. d = c => \A i \in 1..Len(queue) : queue[i] # c
    BY <1>5 DEF Pending, Queued
  <2>3. \A i, j \in 1..Len(queue') : queue'[i] = d /\ queue'[j] = d => i = j
    <3> TAKE i, j \in 1..Len(queue')
    <3> HAVE queue'[i] = d /\ queue'[j] = d
    <3>1. CASE d = c
      BY <1>1, <2>1, <2>2, <3>1, AppendElements
    <3>2. CASE d # c
      <4>1. /\ i \in 1..Len(queue) /\ j \in 1..Len(queue)
            /\ queue[i] = d /\ queue[j] = d
        BY <1>1, <2>1, <3>2, AppendElements
      <4> QED BY <1>5, <4>1 DEF PendingOnce
    <3> QED BY <3>1, <3>2
  <2>4. \A w \in Workers : ServedBy(w, d)' => ~ Queued(d)'
    BY <1>2, <1>3, <1>5 DEF Pending, PendingOnce
  <2>5. \A w, v \in Workers : ServedBy(w, d)' /\ ServedBy(v, d)' => w = v
    BY <1>2, <1>5 DEF PendingOnce
  <2> QED BY <2>3, <2>4, <2>5 DEF PendingOnce
<1> QED BY <1>4, <1>5

\* RenderStart: the work goes from the queue to one thread.
LEMMA PendingMoves ==
  ASSUME TypeOK, NEW w \in Workers, RenderStart(w), NEW d \in Clients
  PROVE  /\ Pending(d)' <=> Pending(d)
         /\ PendingOnce(d) => PendingOnce(d)'
<1>1. /\ queue \in Seq(Clients) /\ queue # <<>> /\ queue' = Tail(queue)
      /\ Len(queue) \in Nat \ {0}
  BY TailElements DEF TypeOK, RenderStart
<1>c. PICK c \in Clients : c = Head(queue) /\ c = queue[1] /\ Queued(c)
  BY <1>1, QueuedTail, TailElements
<1>2. /\ Queued(d)' => Queued(d)
      /\ Queued(d) => Queued(d)' \/ d = c
  BY <1>1, <1>c, QueuedTail
<1>3. \A v \in Workers : ServedBy(v, d)' <=> ServedBy(v, d) \/ (v = w /\ d = c)
  <2> TAKE v \in Workers
  <2>1. /\ pc[w] = "idle" /\ pc'[w] = "lookup" /\ serving'[w] = c
        /\ v # w => pc'[v] = pc[v] /\ serving'[v] = serving[v]
    BY <1>c DEF TypeOK, RenderStart
  <2> QED BY <2>1 DEF ServedBy
<1>4. Pending(d)' <=> Pending(d)
  BY <1>c, <1>2, <1>3 DEF Pending
<1>5. ASSUME PendingOnce(d) PROVE PendingOnce(d)'
  <2>1. \A i \in 1..Len(queue') : i + 1 \in 1..Len(queue) /\ i \in Nat /\ queue'[i] = queue[i + 1]
    BY <1>1, TailElements
  <2>2. \A i, j \in 1..Len(queue') : queue'[i] = d /\ queue'[j] = d => i = j
    <3> TAKE i, j \in 1..Len(queue')
    <3> HAVE queue'[i] = d /\ queue'[j] = d
    <3>1. i + 1 = j + 1
      BY <1>5, <2>1 DEF PendingOnce
    <3> QED BY <2>1, <3>1
  <2>3. d = c => ~ Queued(d)'
    <3> SUFFICES ASSUME d = c, Queued(d)' PROVE FALSE
      OBVIOUS
    <3>1. PICK i \in 1..Len(queue') : queue'[i] = d
      BY DEF Queued
    <3>2. 1 \in 1..Len(queue) /\ queue[1] = d /\ queue[i + 1] = d /\ i + 1 # 1
      BY <1>1, <1>c, <2>1, <3>1
    <3> QED BY <1>5, <2>1, <3>1, <3>2 DEF PendingOnce
  <2>4. d = c => \A v \in Workers : ~ ServedBy(v, d)
    BY <1>c, <1>5 DEF PendingOnce
  <2>5. \A v \in Workers : ServedBy(v, d)' => ~ Queued(d)'
    BY <1>2, <1>3, <1>5, <2>3 DEF PendingOnce
  <2>6. \A u, v \in Workers : ServedBy(u, d)' /\ ServedBy(v, d)' => u = v
    BY <1>3, <1>5, <2>4 DEF PendingOnce
  <2> QED BY <2>2, <2>5, <2>6 DEF PendingOnce
<1> QED BY <1>4, <1>5

\* RenderLookup, RenderRelease: nothing joins and nothing leaves.
LEMMA PendingStays ==
  ASSUME UNCHANGED queue, NEW d \in Clients,
         \A v \in Workers : ServedBy(v, d)' <=> ServedBy(v, d)
  PROVE  /\ Pending(d)' <=> Pending(d)
         /\ PendingOnce(d) => PendingOnce(d)'
<1>1. Queued(d)' <=> Queued(d)
  BY DEF Queued
<1> QED BY <1>1 DEF Pending, PendingOnce

\* RenderWrite: the client's work is done.
LEMMA PendingLeaves ==
  ASSUME TypeOK, NEW w \in Workers, NEW c \in Clients, ServedBy(w, c), Send(w, c),
         NEW d \in Clients
  PROVE  /\ Pending(d)' => Pending(d)
         /\ d # c => (Pending(d)' <=> Pending(d))
         /\ PendingOnce(d) => PendingOnce(d)' /\ (d = c => ~ Pending(d)')
<1>1. Queued(d)' <=> Queued(d)
  BY DEF Queued, Send
<1>2. \A v \in Workers : ServedBy(v, d)' <=> ServedBy(v, d) /\ v # w
  BY DEF TypeOK, Send, ServedBy
<1>3. d # c => ~ ServedBy(w, d)
  BY DEF ServedBy
<1>4. PendingOnce(d) => PendingOnce(d)'
  BY <1>1, <1>2 DEF PendingOnce, Send
<1>5. PendingOnce(d) /\ d = c => ~ Pending(d)'
  BY <1>1, <1>2 DEF PendingOnce, Pending
<1> QED BY <1>1, <1>2, <1>3, <1>4, <1>5 DEF Pending

-------------------------------------------------------------------------------
(***************************************************************************)
(* The one request of a connection is in one place.                        *)
(***************************************************************************)

One(c) == Len(asked[c]) <= 1 => PendingOnce(c) /\ OnePlace(c)

LEMMA OneAll == OneAtATime <=> \A c \in Clients : One(c)
BY DEF OneAtATime, One

LEMMA OneInit == Init => OneAtATime /\ MoreIsDeviation
<1> SUFFICES ASSUME Init PROVE OneAtATime /\ MoreIsDeviation
  OBVIOUS
<1>1. ASSUME NEW c \in Clients PROVE PendingOnce(c) /\ Unasked(c) /\ Len(asked[c]) = 0
  BY <1>1 DEF Init, PendingOnce, Unasked, Pending, Queued, ServedBy
<1> QED BY <1>1 DEF OneAtATime, OnePlace, MoreIsDeviation

LEMMA MaySendMore ==
  ASSUME TypeOK, NEW c \in Clients, MaySend(c)
  PROVE  asked[c] = <<>> \/ AllowedAny(MoreRequests)
BY DEF MaySend, AllowedAny, MoreRequests, Allowed

LEMMA OneElement ==
  ASSUME NEW S, NEW e
  PROVE  Append(<<>>, e) = <<e>> /\ Len(<<e>>) = 1 /\ <<e>> # <<>>
OBVIOUS

\* A path that joins the requests of a connection.
LEMMA AskedAppend ==
  ASSUME NEW s \in Seq(Paths), NEW p \in Paths
  PROVE  /\ Len(s) \in Nat /\ Len(Append(s, p)) = Len(s) + 1
         /\ \A i \in 1..Len(s) : Append(s, p)[i] = s[i]
         /\ Append(s, p)[Len(s) + 1] = p
         /\ s = <<>> <=> Len(s) = 0
OBVIOUS

\* A client to which a step does nothing but, it may be, end a write.
LEMMA OneSame ==
  ASSUME NEW d \in Clients, One(d),
         asked'[d] = asked[d], replies'[d] = replies[d], parser'[d] = parser[d],
         write[d] = "none" => write'[d] = "none",
         Pending(d)' <=> Pending(d), PendingOnce(d) => PendingOnce(d)'
  PROVE  One(d)'
BY DEF One, OnePlace, Unasked, Reading, Rendered, Answered

\* on_url: the request that is begun is the first one, or a deviation.
LEMMA OneBegins ==
  ASSUME TypeOK, OneAtATime, MoreIsDeviation,
         NEW c \in Clients, MaySend(c), NEW s \in {"url", "headers"},
         NEW p \in Paths, NEW q \in Paths, Begin(c, s, p, q)
  PROVE  OneAtATime' /\ MoreIsDeviation'
<1>0. /\ asked \in [Clients -> Seq(Paths)] /\ asked[c] \in Seq(Paths)
      /\ Len(asked[c]) \in Nat
      /\ asked' = [asked EXCEPT ![c] = Append(asked[c], p)]
      /\ parser' = [parser EXCEPT ![c] = s]
      /\ UNCHANGED <<replies, write, queue, pc, serving>>
  BY DEF TypeOK, Begin, pool
<1>1. /\ Len(asked'[c]) = Len(asked[c]) + 1 /\ parser'[c] = s
      /\ \A d \in Clients : d # c => parser'[d] = parser[d] /\ asked'[d] = asked[d]
  BY <1>0, AskedAppend DEF TypeOK
<1>2. One(c)'
  <2> SUFFICES ASSUME Len(asked'[c]) <= 1 PROVE PendingOnce(c)' /\ Reading(c)'
    BY DEF One, OnePlace
  <2>1. Len(asked[c]) = 0 /\ asked[c] = <<>>
    BY <1>0, <1>1, AskedAppend
  <2>2. PendingOnce(c) /\ Unasked(c)
    BY <2>1 DEF OneAtATime, OnePlace, Reading, Rendered, Answered
  <2> QED BY <1>0, <1>1, <2>1, <2>2, PendingSame DEF Unasked, Reading
<1>3. ASSUME NEW d \in Clients, d # c PROVE One(d)'
  BY <1>0, <1>1, <1>3, PendingSame, OneSame, OneAll
<1>4. MoreIsDeviation'
  <2> SUFFICES ASSUME NEW d \in Clients, Len(asked'[d]) > 1
               PROVE  AllowedAny(MoreRequests)
    BY DEF MoreIsDeviation, AllowedAny
  <2>1. CASE d = c
    <3>1. asked[c] # <<>>
      BY <1>0, <1>1, <2>1, AskedAppend
    <3> QED BY <3>1, MaySendMore
  <2>2. CASE d # c
    BY <1>1, <2>2 DEF MoreIsDeviation
  <2> QED BY <2>1, <2>2
<1> QED BY <1>2, <1>3, <1>4 DEF OneAtATime, One

LEMMA OneStep ==
  ASSUME TypeOK, OneAtATime, MoreIsDeviation, Serve
  PROVE  OneAtATime' /\ MoreIsDeviation'
<1> DEFINE Goal == OneAtATime' /\ MoreIsDeviation'
<1>a. ASSUME UNCHANGED asked, \A d \in Clients : One(d)' PROVE Goal
  <2>1. OneAtATime'
    BY <1>a DEF OneAtATime, One
  <2>2. MoreIsDeviation'
    BY <1>a DEF MoreIsDeviation, AllowedAny
  <2> QED BY <2>1, <2>2
<1>0. ASSUME UNCHANGED <<asked, replies, parser, queue, pc, serving>>,
             \A d \in Clients : write[d] = "none" => write'[d] = "none"
      PROVE  Goal
  BY <1>0, <1>a, OneSame, OneAll, PendingSame
<1>e. ASSUME NEW how, Ends(how) PROVE Goal
  BY <1>0, <1>e, EndsKeeps
<1>1. CASE OnConnectError
  BY <1>e, <1>1 DEF OnConnectError
<1>2. CASE AfterRender
  BY <1>0, <1>2 DEF AfterRender, connection
<1>3. ASSUME NEW c \in Clients, OnConnect(c) PROVE Goal
  BY <1>0, <1>3 DEF OnConnect, pool
<1>4. ASSUME NEW c \in Clients, Read(c) PROVE Goal
  <2>1. ASSUME NEW p \in Paths, OnReadUrl(c, p) PROVE Goal
    BY <1>e, <2>1, OneBegins DEF OnReadUrl
  <2>2. ASSUME NEW p \in Paths, NEW q \in Paths, OnReadUrlPart(c, p, q) PROVE Goal
    BY <1>e, <2>2, OneBegins DEF OnReadUrlPart
  <2>3. ASSUME NEW q \in Paths, OnReadUrlRest(c, q), ~ Ends("exit") PROVE Goal
    <3>1. /\ parser[c] = "url" /\ parser' = [parser EXCEPT ![c] = "headers"]
          /\ UNCHANGED <<asked, replies, queue, pc, serving, write>>
      BY <2>3 DEF OnReadUrlRest, pool
    <3>2. One(c)'
      <4> SUFFICES ASSUME Len(asked[c]) <= 1 PROVE PendingOnce(c)' /\ Reading(c)'
        BY <3>1 DEF One, OnePlace
      <4>1. PendingOnce(c) /\ Reading(c)
        BY <3>1 DEF OneAtATime, OnePlace, Unasked, Rendered, Answered
      <4> QED BY <3>1, <4>1, PendingSame DEF TypeOK, Reading
    <3>3. ASSUME NEW d \in Clients, d # c PROVE One(d)'
      <4>1. parser'[d] = parser[d]
        BY <3>1, <3>3 DEF TypeOK
      <4> QED BY <3>1, <4>1, PendingSame, OneSame, OneAll
    <3> QED BY <1>a, <3>1, <3>2, <3>3
  <2>4. CASE OnReadComplete(c)
    <3>1. /\ parser[c] = "headers" /\ parser' = [parser EXCEPT ![c] = "start"]
          /\ UNCHANGED <<asked, replies, write>>
      BY <2>4 DEF OnReadComplete
    <3>2. One(c)'
      <4> SUFFICES ASSUME Len(asked[c]) <= 1 PROVE PendingOnce(c)' /\ Rendered(c)'
        BY <3>1 DEF One, OnePlace
      <4>1. PendingOnce(c) /\ Reading(c)
        BY <3>1 DEF OneAtATime, OnePlace, Unasked, Rendered, Answered
      <4>2. PendingOnce(c)' /\ Pending(c)'
        BY <2>4, <4>1, PendingJoins DEF Reading
      <4> QED BY <3>1, <4>1, <4>2 DEF TypeOK, Reading, Rendered
    <3>3. ASSUME NEW d \in Clients, d # c PROVE One(d)'
      <4>1. parser'[d] = parser[d]
        BY <3>1, <3>3 DEF TypeOK
      <4>2. (Pending(d)' <=> Pending(d)) /\ (PendingOnce(d) => PendingOnce(d)')
        BY <2>4, <3>3, PendingJoins
      <4> QED BY <3>1, <4>1, <4>2, OneSame, OneAll
    <3> QED BY <1>a, <3>1, <3>2, <3>3
  <2>5. CASE OnReadBad(c)
    BY <2>5, <1>e DEF OnReadBad
  <2>6. CASE OnReadEnd(c)
    BY <2>6, <1>0 DEF OnReadEnd, pool
  <2> QED BY <1>4, <1>e, <2>1, <2>2, <2>3, <2>4, <2>5, <2>6 DEF Read
<1>5. ASSUME NEW c \in Clients, Writable(c) PROVE Goal
  <2>1. CASE Flush(c) /\ ~ Ends("freed_buffer")
    BY <2>1, <1>0 DEF TypeOK, Flush, pool
  <2>2. CASE OnWrite(c)
    BY <2>2, <1>0 DEF TypeOK, OnWrite, pool
  <2>3. CASE Drain(c) /\ ~ Ends("exit")
    BY <2>3, <1>0 DEF Drain, pool
  <2> QED BY <1>5, <1>e, <2>1, <2>2, <2>3 DEF Writable
<1>6. ASSUME NEW c \in Clients, OnClose(c) PROVE Goal
  BY <1>0, <1>6 DEF OnClose, pool
<1>7. ASSUME NEW w \in Workers, Render(w) PROVE Goal
  <2>0. ASSUME UNCHANGED <<asked, replies, parser, write>>,
               \A d \in Clients : /\ Pending(d)' <=> Pending(d)
                                  /\ PendingOnce(d) => PendingOnce(d)'
        PROVE  Goal
    BY <2>0, <1>a, OneSame, OneAll
  <2>1. CASE \/ Ends("exit") \/ Ends("throw") \/ Ends("use_after_free")
             \/ Ends("request_reused")
    BY <2>1, <1>e
  <2>2. CASE RenderStart(w)
    BY <2>0, <2>2, PendingMoves DEF RenderStart, connection
  <2>3. CASE RenderLookup(w) /\ ~ Ends("throw")
    <3>1. \A d \in Clients, v \in Workers : ServedBy(v, d)' <=> ServedBy(v, d)
      BY <2>3 DEF TypeOK, RenderLookup, ServedBy
    <3> QED
      BY <2>0, <2>3, <3>1, PendingStays DEF RenderLookup, connection
  <2>4. CASE pc[w] = "write" /\ Send(w, serving[w])
    <3>1. PICK c \in Clients : c = serving[w]
      BY <2>4 DEF TypeOK
    <3>2. ServedBy(w, c) /\ Send(w, c)
      BY <2>4, <3>1 DEF ServedBy
    <3>3. UNCHANGED <<asked, parser>>
      BY <3>2 DEF Send
    <3>4. One(c)'
      <4> SUFFICES ASSUME Len(asked[c]) <= 1 PROVE PendingOnce(c)' /\ Answered(c)'
        BY <3>3 DEF One, OnePlace
      <4>1. PendingOnce(c) /\ Rendered(c)
        BY <3>2 DEF OneAtATime, OnePlace, Unasked, Reading, Answered, Pending
      <4>2. PendingOnce(c)' /\ ~ Pending(c)'
        BY <3>2, <4>1, PendingLeaves
      <4>3. replies'[c] = <<filepath[w]>>
        BY <3>2, <4>1, OneElement DEF TypeOK, Send, Rendered
      <4> QED BY <3>3, <4>1, <4>2, <4>3, OneElement DEF Rendered, Answered
    <3>5. ASSUME NEW d \in Clients, d # c PROVE One(d)'
      <4>1. replies'[d] = replies[d] /\ write'[d] = write[d]
        BY <3>2, <3>5 DEF TypeOK, Send
      <4>2. (Pending(d)' <=> Pending(d)) /\ (PendingOnce(d) => PendingOnce(d)')
        BY <3>2, <3>5, PendingLeaves
      <4> QED BY <3>3, <4>1, <4>2, OneSame, OneAll
    <3> QED BY <1>a, <3>3, <3>4, <3>5
  <2>5. CASE RenderRelease(w)
    <3>1. \A d \in Clients, v \in Workers : ServedBy(v, d)' <=> ServedBy(v, d)
      BY <2>5 DEF TypeOK, RenderRelease, ServedBy
    <3> QED BY <2>0, <2>5, <3>1, PendingStays DEF RenderRelease
  <2>6. CASE UseAfterFree(w)
    BY <2>1, <2>6 DEF UseAfterFree
  <2> QED BY <1>7, <2>1, <2>2, <2>3, <2>4, <2>5, <2>6 DEF Render, RenderWrite
<1> QED BY <1>1, <1>2, <1>3, <1>4, <1>5, <1>6, <1>7 DEF Serve

-------------------------------------------------------------------------------
(***************************************************************************)
(* Work that is pending keeps its connection, and the server stops running *)
(* only for a cause.                                                       *)
(***************************************************************************)

\* PendingIsOpen for one connection.
Kept(c) == Len(asked[c]) <= 1 /\ Pending(c) => stream[c] = "open"

LEMMA KeptAll == PendingIsOpen <=> (~ AllowedAny(EarlyEnd) => \A c \in Clients : Kept(c))
BY DEF PendingIsOpen, Kept

\* A step that brings no work and moves no stream that has work.
LEMMA KeptSame ==
  ASSUME TypeOK, NEW d \in Clients, Kept(d),
         Len(asked'[d]) <= 1 => Len(asked[d]) <= 1,
         Pending(d)' => Pending(d),
         Len(asked[d]) <= 1 /\ stream[d] = "open" /\ Pending(d) => stream'[d] = "open"
  PROVE  Kept(d)'
BY DEF Kept

LEMMA KeptStep ==
  ASSUME TypeOK, OneAtATime, \A c \in Clients : Kept(c), Serve, ~ AllowedAny(EarlyEnd)
  PROVE  \A c \in Clients : Kept(c)'
<1> DEFINE Goal == \A c \in Clients : Kept(c)'
<1>0. ASSUME UNCHANGED <<asked, stream, queue, pc, serving>> PROVE Goal
  BY <1>0, PendingSame, KeptSame
<1>e. ASSUME NEW how, Ends(how) PROVE Goal
  BY <1>0, <1>e, EndsKeeps
<1>s. ASSUME NEW c \in Clients, NEW s, Len(asked[c]) <= 1 => ~ Pending(c) \/ s = "open",
             stream' = [stream EXCEPT ![c] = s], UNCHANGED <<asked, queue, pc, serving>>
      PROVE  Goal
  <2> SUFFICES ASSUME NEW d \in Clients PROVE Kept(d)'
    OBVIOUS
  <2>1. Len(asked[d]) <= 1 /\ stream[d] = "open" /\ Pending(d) => stream'[d] = "open"
    BY <1>s DEF TypeOK
  <2> QED BY <1>s, <2>1, PendingSame, KeptSame
<1>1. CASE OnConnectError
  BY <1>e, <1>1 DEF OnConnectError
<1>2. CASE AfterRender
  BY <1>0, <1>2 DEF AfterRender, connection
<1>3. ASSUME NEW c \in Clients, OnConnect(c) PROVE Goal
  BY <1>s, <1>3 DEF OnConnect, pool
<1>4. ASSUME NEW c \in Clients, Read(c) PROVE Goal
  <2>0. ASSUME NEW s, NEW p \in Paths, NEW q, Begin(c, s, p, q) PROVE Goal
    <3> SUFFICES ASSUME NEW d \in Clients PROVE Kept(d)'
      OBVIOUS
    <3>1. Len(asked'[d]) <= 1 => Len(asked[d]) <= 1
      <4>1. asked[d] \in Seq(Paths)
        BY DEF TypeOK
      <4>2. asked'[d] = asked[d] \/ asked'[d] = Append(asked[d], p)
        BY <2>0 DEF TypeOK, Begin
      <4> QED BY <4>1, <4>2, AskedAppend
    <3> QED BY <2>0, <3>1, PendingSame, KeptSame DEF Begin, pool
  <2>1. CASE \E p \in Paths : OnReadUrl(c, p)
    BY <1>e, <2>0, <2>1 DEF OnReadUrl
  <2>2. CASE \E p, q \in Paths : OnReadUrlPart(c, p, q)
    BY <1>e, <2>0, <2>2 DEF OnReadUrlPart
  <2>3. CASE \E q \in Paths : OnReadUrlRest(c, q)
    BY <2>3, <1>0, <1>e DEF OnReadUrlRest, pool
  <2>4. CASE OnReadComplete(c)
    BY <2>4, PendingJoins DEF OnReadComplete, Kept
  <2>5. CASE OnReadBad(c)
    BY <2>5, <1>e DEF OnReadBad
  <2>6. CASE OnReadEnd(c)
    <3>1. parser[c] = "start" /\ Len(replies[c]) = Len(asked[c])
      BY <2>6 DEF OnReadEnd, MayEnd, Allowed, AllowedAny, EarlyEnd
    <3>2. ~ Rendered(c)
      <4>1. SUFFICES ASSUME Rendered(c) PROVE FALSE
        OBVIOUS
      <4>2. Len(replies[c]) = 1 /\ replies[c] = <<>>
        BY <3>1, <4>1 DEF Rendered
      <4> QED BY <4>2
    <3>3. Len(asked[c]) <= 1 => ~ Pending(c)
      BY <3>2 DEF OneAtATime, OnePlace, Unasked, Reading, Answered
    <3> QED BY <2>6, <3>3, <1>s DEF OnReadEnd, pool
  <2> QED BY <1>4, <2>1, <2>2, <2>3, <2>4, <2>5, <2>6 DEF Read
<1>5. ASSUME NEW c \in Clients, Writable(c) PROVE Goal
  <2>1. CASE Flush(c) /\ ~ Ends("freed_buffer")
    BY <2>1, <1>0 DEF Flush, pool
  <2>2. CASE OnWrite(c)
    <3>1. Len(asked[c]) <= 1 => ~ Pending(c)
      BY <2>2 DEF OneAtATime, OnePlace, OnWrite, Unasked, Reading, Rendered, Answered
    <3> QED BY <2>2, <3>1, <1>s DEF OnWrite, pool
  <2>3. CASE Drain(c) /\ ~ Ends("exit")
    <3>1. Len(asked[c]) <= 1 => ~ Pending(c)
      BY <2>3 DEF Kept, Drain
    <3> QED BY <2>3, <3>1, <1>s DEF Drain, pool
  <2> QED BY <1>5, <1>e, <2>1, <2>2, <2>3 DEF Writable
<1>6. ASSUME NEW c \in Clients, OnClose(c) PROVE Goal
  <2>1. Len(asked[c]) <= 1 => ~ Pending(c)
    BY <1>6 DEF OnClose, Kept
  <2> QED BY <1>s, <1>6, <2>1 DEF OnClose, pool
<1>7. ASSUME NEW w \in Workers, Render(w) PROVE Goal
  <2>0. ASSUME UNCHANGED <<asked, stream>>, \A d \in Clients : Pending(d)' => Pending(d)
        PROVE  Goal
    BY <2>0, KeptSame
  <2>1. CASE \/ Ends("exit") \/ Ends("throw") \/ Ends("use_after_free")
             \/ Ends("request_reused")
    BY <2>1, <1>e
  <2>2. CASE RenderStart(w)
    BY <2>0, <2>2, PendingMoves DEF RenderStart, connection
  <2>3. CASE RenderLookup(w) /\ ~ Ends("throw")
    <3>1. \A d \in Clients, v \in Workers : ServedBy(v, d)' <=> ServedBy(v, d)
      BY <2>3 DEF TypeOK, RenderLookup, ServedBy
    <3> QED
      BY <2>0, <2>3, <3>1, PendingStays DEF RenderLookup, connection
  <2>4. CASE pc[w] = "write" /\ Send(w, serving[w])
    <3>1. PICK c \in Clients : c = serving[w]
      BY <2>4 DEF TypeOK
    <3>2. ServedBy(w, c) /\ Send(w, c)
      BY <2>4, <3>1 DEF ServedBy
    <3> QED BY <2>0, <3>2, PendingLeaves DEF Send
  <2>5. CASE RenderRelease(w)
    <3>1. \A d \in Clients, v \in Workers : ServedBy(v, d)' <=> ServedBy(v, d)
      BY <2>5 DEF TypeOK, RenderRelease, ServedBy
    <3> QED BY <2>0, <2>5, <3>1, PendingStays DEF RenderRelease
  <2>6. CASE UseAfterFree(w)
    BY <2>1, <2>6 DEF UseAfterFree
  <2> QED BY <1>7, <2>1, <2>2, <2>3, <2>4, <2>5, <2>6 DEF Render, RenderWrite
<1> QED BY <1>1, <1>2, <1>3, <1>4, <1>5, <1>6, <1>7 DEF Serve

LEMMA OpenStep ==
  ASSUME TypeOK, OneAtATime, PendingIsOpen, Serve
  PROVE  PendingIsOpen'
BY KeptAll, KeptStep DEF PendingIsOpen, Kept, AllowedAny

\* Half a URL is left only where a URL may come in two reads.
LEMMA HalfUrlStep == TypeOK /\ HalfUrlIsSplit /\ Serve => HalfUrlIsSplit'
<1> SUFFICES ASSUME TypeOK, HalfUrlIsSplit, Serve PROVE HalfUrlIsSplit'
  OBVIOUS
<1>0. ASSUME UNCHANGED parser PROVE HalfUrlIsSplit'
  BY <1>0 DEF HalfUrlIsSplit
<1>1. ASSUME NEW c \in Clients, Read(c) PROVE HalfUrlIsSplit'
  BY <1>1 DEF TypeOK, HalfUrlIsSplit, Read, OnReadUrl, OnReadUrlPart, Begin, OnReadUrlRest,
              OnReadComplete, OnReadBad, OnReadEnd, Ends, connection
<1>2. ASSUME NEW c \in Clients, OnConnect(c) \/ Writable(c) \/ OnClose(c)
      PROVE  HalfUrlIsSplit'
  BY <1>0, <1>2 DEF OnConnect, Writable, Flush, OnWrite, Drain, OnClose, Ends, connection
<1>3. ASSUME NEW w \in Workers, Render(w) PROVE HalfUrlIsSplit'
  BY <1>0, <1>3 DEF Render, RenderStart, RenderLookup, RenderWrite, Send, RenderRelease,
                    UseAfterFree, Ends, connection
<1> QED
  BY <1>0, <1>1, <1>2, <1>3
  DEF Serve, OnConnectError, AfterRender, Ends, connection

LEMMA AllowedIn ==
  ASSUME NEW D, NEW d \in D, Allowed(d)
  PROVE  AllowedAny(D)
BY DEF Allowed, AllowedAny

\* A step that ends the process leaves what the causes are read from.
LEMMA BlameKeeps ==
  ASSUME NEW how, Ends(how)
  PROVE  /\ process' = how
         /\ UNCHANGED <<stream, asked, replies>>
         /\ \A c \in Clients : ToBlame(c) => ToBlame(c)'
<1>1. process' = how /\ UNCHANGED <<stream, asked, replies>>
  BY EndsKeeps DEF Ends
<1> QED BY <1>1 DEF ToBlame, AllowedAny

\* What holds before a step tells why the step may end the process.
LEMMA EndsStep ==
  ASSUME TypeOK, Basic, HalfUrlIsSplit, MoreIsDeviation, OneAtATime, PendingIsOpen, Serve
  PROVE  EndsForCause'
<1>r. process = "running"
  BY DEF Serve
<1>0. ASSUME process' = "running" PROVE EndsForCause'
  BY <1>0 DEF EndsForCause
<1>x. ASSUME Ends("exit"),
             \/ Allowed("accept_error") \/ Allowed("bad_url") \/ Allowed("split_url")
             \/ Allowed("reset") /\ \E c \in Clients : stream[c] = "shutting"
             \/ \E c \in Clients : stream[c] = "closing" /\ ToBlame(c)
      PROVE  EndsForCause'
  <2>1. ExitHasCause'
    <3>1. CASE Allowed("accept_error") \/ Allowed("bad_url") \/ Allowed("split_url")
      <4>1. AllowedAny({"setup_error", "accept_error", "bad_url", "split_url"})
        BY <3>1, AllowedIn
      <4> QED BY <4>1 DEF ExitHasCause, AllowedAny
    <3>2. CASE Allowed("reset") /\ \E c \in Clients : stream[c] = "shutting"
      BY <1>x, <3>2, BlameKeeps DEF ExitHasCause, Allowed
    <3>3. CASE \E c \in Clients : stream[c] = "closing" /\ ToBlame(c)
      BY <1>x, <3>3, BlameKeeps DEF ExitHasCause
    <3> QED BY <1>x, <3>1, <3>2, <3>3
  <2> QED BY <1>x, <2>1 DEF Ends, EndsForCause
<1>t. ASSUME Ends("throw"), \/ Allowed("malformed") \/ Allowed("empty_read")
                            \/ Allowed("unlink")
      PROVE  EndsForCause'
  <2>1. AllowedAny({"setup_error", "malformed", "empty_read", "unlink"})
    BY <1>t, AllowedIn
  <2> QED BY <1>t, <2>1 DEF Ends, EndsForCause, AllowedAny
<1>1. CASE OnConnectError
  BY <1>1, <1>x DEF OnConnectError
<1>2. CASE AfterRender
  BY <1>0, <1>2, <1>r DEF AfterRender
<1>3. ASSUME NEW c \in Clients, OnConnect(c) PROVE EndsForCause'
  BY <1>0, <1>3, <1>r DEF OnConnect
<1>4. ASSUME NEW c \in Clients, Read(c) PROVE EndsForCause'
  <2>1. CASE OnReadBad(c)
    BY <2>1, <1>t DEF OnReadBad
  <2>2. ASSUME NEW q \in Paths, OnReadUrlRest(c, q) PROVE EndsForCause'
    <3>1. Allowed("split_url")
      BY <2>2 DEF OnReadUrlRest, HalfUrlIsSplit
    <3> QED BY <1>0, <1>r, <1>x, <2>2, <3>1 DEF OnReadUrlRest
  <2>3. CASE \/ \E p \in Paths : OnReadUrl(c, p)
             \/ \E p, q \in Paths : OnReadUrlPart(c, p, q)
    BY <1>0, <1>r, <1>x, <2>3 DEF OnReadUrl, OnReadUrlPart, Begin
  <2>4. CASE OnReadComplete(c) \/ OnReadEnd(c)
    BY <1>0, <2>4, <1>r DEF OnReadComplete, OnReadEnd
  <2> QED BY <1>4, <2>1, <2>2, <2>3, <2>4 DEF Read
<1>5. ASSUME NEW c \in Clients, Writable(c) PROVE EndsForCause'
  <2>1. CASE Flush(c) /\ Ends("freed_buffer")
    <3>1. Allowed("slow")
      BY <2>1, <1>r DEF Flush, Ends, Basic, PartialWriteIsSlow
    <3> QED BY <2>1, <3>1 DEF Ends, EndsForCause, Allowed
  <2>2. CASE Drain(c) /\ Ends("exit")
    <3>1. Allowed("reset") /\ stream[c] = "shutting"
      BY <2>2, <1>r DEF Drain, Ends
    <3> QED BY <2>2, <3>1, <1>x
  <2>3. CASE ~ Ends("freed_buffer") /\ ~ Ends("exit")
    BY <1>0, <1>5, <2>3, <1>r DEF Writable, Flush, OnWrite, Drain
  <2> QED BY <1>5, <1>0, <1>r, <2>1, <2>2, <2>3 DEF Writable, Flush, OnWrite, Drain
<1>6. ASSUME NEW c \in Clients, OnClose(c) PROVE EndsForCause'
  BY <1>0, <1>6, <1>r DEF OnClose
<1>7. ASSUME NEW w \in Workers, Render(w) PROVE EndsForCause'
  <2>0. ASSUME NEW c \in Clients, Pending(c), stream[c] # "open" PROVE ToBlame(c)
    <3>1. CASE Len(asked[c]) > 1
      BY <3>1 DEF MoreIsDeviation, ToBlame
    <3>2. CASE ~ Len(asked[c]) > 1
      <4>1. asked[c] \in Seq(Paths) /\ Len(asked[c]) \in Nat
        BY DEF TypeOK
      <4>2. Len(asked[c]) <= 1
        BY <3>2, <4>1
      <4>3. AllowedAny(EarlyEnd)
        BY <2>0, <4>2 DEF PendingIsOpen
      <4>4. Rendered(c)
        BY <2>0, <4>2 DEF OneAtATime, OnePlace, Unasked, Reading, Answered
      <4> QED BY <4>3, <4>4 DEF ToBlame, Rendered
    <3> QED BY <3>1, <3>2
  <2>1. CASE RenderStart(w) \/ Send(w, serving[w]) \/ RenderRelease(w)
    BY <2>1, <1>0, <1>r DEF RenderStart, Send, RenderRelease
  <2>2. CASE RenderLookup(w)
    BY <2>2, <1>0, <1>r, <1>t DEF RenderLookup
  <2>3. ASSUME pc[w] = "write", stream[serving[w]] = "closing", Ends("exit")
        PROVE  EndsForCause'
    <3>1. serving[w] \in Clients /\ Pending(serving[w])
      BY <2>3 DEF TypeOK, Pending, ServedBy
    <3> QED BY <2>0, <2>3, <3>1, <1>x
  <2>4. ASSUME pc[w] = "write", write[serving[w]] # "none", Ends("request_reused")
        PROVE  EndsForCause'
    <3>1. PICK c \in Clients : c = serving[w] /\ Pending(c)
      BY <2>4 DEF TypeOK, Pending, ServedBy
    <3>2. asked[c] \in Seq(Paths) /\ Len(asked[c]) \in Nat
      BY DEF TypeOK
    <3>3. ~ Len(asked[c]) <= 1
      BY <2>4, <3>1 DEF OneAtATime, OnePlace, Unasked, Reading, Rendered, Answered
    <3>4. Len(asked[c]) > 1
      BY <3>2, <3>3
    <3>5. AllowedAny(MoreRequests)
      BY <3>4 DEF MoreIsDeviation
    <3>6. asked' = asked /\ process' = "request_reused"
      BY <2>4, BlameKeeps
    <3> QED BY <3>4, <3>5, <3>6 DEF EndsForCause, AllowedAny
  <2>5. CASE UseAfterFree(w)
    <3>1. PICK c \in Clients : Pending(c) /\ stream[c] = "closed"
      <4>1. CASE pc[w] = "idle" /\ queue # <<>> /\ stream[Head(queue)] = "closed"
        <5>1. Head(queue) \in Clients /\ Queued(Head(queue))
          BY <4>1, TailElements DEF TypeOK, Queued
        <5> QED BY <4>1, <5>1 DEF Pending
      <4>2. CASE pc[w] \in {"lookup", "write"} /\ stream[serving[w]] = "closed"
        BY <4>2 DEF TypeOK, Pending, ServedBy
      <4> QED BY <2>5, <4>1, <4>2 DEF UseAfterFree
    <3>2. Ends("use_after_free") /\ ToBlame(c)
      BY <2>0, <2>5, <3>1 DEF UseAfterFree
    <3>3. process' = "use_after_free" /\ stream'[c] = "closed" /\ ToBlame(c)'
      BY <3>1, <3>2, BlameKeeps
    <3> QED BY <3>3 DEF EndsForCause
  <2> QED BY <1>7, <2>1, <2>2, <2>3, <2>4, <2>5 DEF Render, RenderWrite
<1> QED BY <1>1, <1>2, <1>3, <1>4, <1>5, <1>6, <1>7 DEF Serve

-------------------------------------------------------------------------------
(***************************************************************************)
(* A response answers a request of its connection.                         *)
(***************************************************************************)

PathOf(c) ==
  /\ parser[c] # "start" \/ Queued(c) => Asks(c, path[c])
  /\ \A w \in Workers : ServedBy(w, c) => Asks(c, filepath[w])
  /\ \A i \in 1..Len(replies[c]) : Asks(c, replies[c][i])

LEMMA PathOfAll == PathIsAsked <=> \A c \in Clients : PathOf(c)
BY DEF PathIsAsked, PathOf

\* A client to which a step brings no path.
LEMMA PathSame ==
  ASSUME NEW d \in Clients, PathOf(d),
         asked'[d] = asked[d], path'[d] = path[d], replies'[d] = replies[d],
         parser'[d] # "start" \/ Queued(d)' => parser[d] # "start" \/ Queued(d),
         \A w \in Workers : ServedBy(w, d)' => ServedBy(w, d) /\ filepath'[w] = filepath[w]
  PROVE  PathOf(d)'
BY DEF PathOf, Asks

\* What a connection has asked for it has asked for after on_url as well.
LEMMA AsksMore ==
  ASSUME TypeOK, NEW c \in Clients, NEW s, NEW p \in Paths, NEW q, Begin(c, s, p, q)
  PROVE  Asks(c, p)' /\ \A r : Asks(c, r) => Asks(c, r)'
<1>1. asked[c] \in Seq(Paths) /\ asked'[c] = Append(asked[c], p)
  BY DEF TypeOK, Begin
<1>2. /\ Len(asked[c]) \in Nat /\ Len(asked'[c]) = Len(asked[c]) + 1
      /\ \A i \in 1..Len(asked[c]) : asked'[c][i] = asked[c][i]
      /\ asked'[c][Len(asked[c]) + 1] = p
  BY <1>1, AskedAppend
<1>3. Len(asked[c]) + 1 \in 1..Len(asked'[c]) /\ 1..Len(asked[c]) \subseteq 1..Len(asked'[c])
  BY <1>2
<1> QED BY <1>2, <1>3 DEF Asks

LEMMA PathStep ==
  ASSUME TypeOK, HalfUrlIsSplit, PathIsAsked, Serve, ~ AllowedAny({"split_url"})
  PROVE  PathIsAsked'
<1> DEFINE Goal == \A d \in Clients : PathOf(d)'
<1> SUFFICES Goal
  BY DEF PathIsAsked, PathOf
<1>s. ~ Allowed("split_url")
  BY AllowedIn
<1>0. ASSUME UNCHANGED <<parser, path, asked, replies, queue, pc, serving, filepath>>
      PROVE  Goal
  BY <1>0, PathOfAll, PathSame DEF Queued, ServedBy
<1>e. ASSUME NEW how, Ends(how) PROVE Goal
  BY <1>0, <1>e, EndsKeeps
<1>1. ASSUME NEW c \in Clients, Read(c) PROVE Goal
  <2>1. ASSUME NEW p \in Paths, Begin(c, "headers", p, p) PROVE Goal
    <3>1. /\ path'[c] = p
          /\ UNCHANGED <<replies, queue, pc, serving, filepath>>
          /\ \A d \in Clients : d # c => /\ asked'[d] = asked[d] /\ path'[d] = path[d]
                                         /\ parser'[d] = parser[d]
      BY <2>1 DEF TypeOK, Begin, pool
    <3>2. PathOf(c)'
      <4>1. Asks(c, p)' /\ \A r : Asks(c, r) => Asks(c, r)'
        BY <2>1, AsksMore
      <4>2. PathOf(c)
        BY PathOfAll
      <4> QED BY <3>1, <4>1, <4>2 DEF PathOf, ServedBy
    <3>3. ASSUME NEW d \in Clients, d # c PROVE PathOf(d)'
      BY <3>1, <3>3, PathOfAll, PathSame DEF Queued, ServedBy
    <3> QED BY <3>2, <3>3
  <2>2. ~ (\E p, q \in Paths : OnReadUrlPart(c, p, q)) /\ ~ (\E q \in Paths : OnReadUrlRest(c, q))
    BY <1>s DEF OnReadUrlPart, OnReadUrlRest, HalfUrlIsSplit
  <2>3. CASE OnReadComplete(c)
    <3>1. /\ UNCHANGED <<path, asked, replies, pc, serving, filepath>>
          /\ parser[c] # "start"
          /\ \A d \in Clients : d # c => parser'[d] = parser[d]
          /\ \A d \in Clients : Queued(d)' <=> Queued(d) \/ d = c
      BY <2>3, QueuedAppend DEF TypeOK, OnReadComplete
    <3> QED BY <3>1, PathOfAll, PathSame DEF ServedBy
  <2>4. CASE OnReadBad(c)
    BY <2>4, <1>e DEF OnReadBad
  <2>5. CASE OnReadEnd(c)
    BY <2>5, <1>0 DEF OnReadEnd, pool
  <2> QED BY <1>1, <1>e, <2>1, <2>2, <2>3, <2>4, <2>5 DEF Read, OnReadUrl
<1>2. ASSUME NEW c \in Clients, OnConnect(c) \/ Writable(c) \/ OnClose(c) PROVE Goal
  BY <1>2, <1>e, <1>0 DEF OnConnect, Writable, Flush, OnWrite, Drain, OnClose, pool
<1>3. ASSUME NEW w \in Workers, Render(w) PROVE Goal
  <2>1. CASE \/ Ends("exit") \/ Ends("throw") \/ Ends("use_after_free")
             \/ Ends("request_reused")
    BY <2>1, <1>e
  <2>2. CASE RenderStart(w)
    <3>1. PICK c \in Clients : c = Head(queue) /\ Queued(c)
      BY <2>2, QueuedTail DEF RenderStart
    <3>2. /\ UNCHANGED <<parser, path, asked, replies>>
          /\ pc'[w] = "lookup" /\ serving'[w] = c /\ filepath'[w] = path[c]
          /\ \A v \in Workers : v # w => /\ pc'[v] = pc[v] /\ serving'[v] = serving[v]
                                         /\ filepath'[v] = filepath[v]
          /\ \A d \in Clients : Queued(d)' => Queued(d)
      BY <2>2, <3>1, QueuedTail DEF TypeOK, RenderStart, connection
    <3>3. ASSUME NEW d \in Clients PROVE PathOf(d)'
      <4>1. PathOf(d)
        BY PathOfAll
      <4>2. ASSUME NEW v \in Workers, ServedBy(v, d)' PROVE Asks(d, filepath'[v])
        <5>1. CASE v = w
          BY <3>1, <3>2, <4>1, <4>2, <5>1 DEF PathOf, ServedBy
        <5>2. CASE v # w
          BY <3>2, <4>1, <4>2, <5>2 DEF PathOf, ServedBy
        <5> QED BY <5>1, <5>2
      <4> QED BY <3>2, <4>1, <4>2 DEF PathOf, Asks
    <3> QED BY <3>3
  <2>3. ASSUME UNCHANGED <<parser, path, asked, replies, queue>>,
               \A d \in Clients, v \in Workers :
                 ServedBy(v, d)' => ServedBy(v, d) /\ filepath'[v] = filepath[v]
        PROVE  Goal
    BY <2>3, PathOfAll, PathSame DEF Queued
  <2>4. CASE RenderLookup(w) /\ ~ Ends("throw")
    <3>1. \A d \in Clients, v \in Workers : ServedBy(v, d)' => ServedBy(v, d)
      BY <2>4 DEF TypeOK, RenderLookup, ServedBy
    <3> QED BY <2>3, <2>4, <3>1 DEF RenderLookup, connection
  <2>5. CASE pc[w] = "write" /\ Send(w, serving[w])
    <3>1. PICK c \in Clients : c = serving[w] /\ ServedBy(w, c)
      BY <2>5 DEF TypeOK, ServedBy
    <3>2. /\ UNCHANGED <<parser, path, asked, queue, filepath>>
          /\ \A d \in Clients, v \in Workers : ServedBy(v, d)' => ServedBy(v, d)
          /\ \A d \in Clients : d # c => replies'[d] = replies[d]
      BY <2>5, <3>1 DEF TypeOK, Send, ServedBy
    <3>3. ASSUME NEW d \in Clients, d # c PROVE PathOf(d)'
      BY <3>2, <3>3, PathOfAll, PathSame DEF Queued
    <3>4. PathOf(c)'
      <4>1. PathOf(c) /\ Asks(c, filepath[w])
        BY <3>1, PathOfAll DEF PathOf
      <4>2. PICK r : r = replies[c]
        OBVIOUS
      <4>3. /\ r \in Seq(Paths \cup {NoPath})
            /\ replies'[c] = Append(r, filepath[w]) /\ filepath[w] \in Paths \cup {NoPath}
        BY <2>5, <3>1, <4>2 DEF TypeOK, Send
      <4>4. \A i \in 1..Len(replies'[c]) : replies'[c][i] = filepath[w]
                                             \/ (i \in 1..Len(r) /\ replies'[c][i] = r[i])
        BY <4>3
      <4>5. \A i \in 1..Len(replies'[c]) : Asks(c, replies'[c][i])
        BY <4>1, <4>2, <4>4 DEF PathOf
      <4>6. \A p : Asks(c, p)' <=> Asks(c, p)
        BY <3>2 DEF Asks
      <4>7. Queued(c)' <=> Queued(c)
        BY <3>2 DEF Queued
      <4> QED BY <3>2, <4>1, <4>5, <4>6, <4>7 DEF PathOf, Asks
    <3> QED BY <3>3, <3>4
  <2>6. CASE RenderRelease(w)
    <3>1. \A d \in Clients, v \in Workers :
            ServedBy(v, d)' => ServedBy(v, d) /\ filepath'[v] = filepath[v]
      BY <2>6 DEF TypeOK, RenderRelease, ServedBy
    <3> QED BY <2>3, <2>6, <3>1 DEF RenderRelease
  <2>7. CASE UseAfterFree(w)
    BY <2>1, <2>7 DEF UseAfterFree
  <2> QED BY <1>3, <2>1, <2>2, <2>4, <2>5, <2>6, <2>7 DEF Render, RenderWrite
<1> QED
  BY <1>0, <1>1, <1>2, <1>3, <1>e DEF Serve, OnConnectError, AfterRender, connection

-------------------------------------------------------------------------------
(***************************************************************************)
(* IInv is inductive, and what follows from it.                            *)
(***************************************************************************)

LEMMA IInvInit == Init => IInv
<1> SUFFICES ASSUME Init PROVE IInv
  OBVIOUS
<1>1. TypeOK
  BY DEF Init, TypeOK
<1>2. HalfUrlIsSplit /\ EndsForCause
  BY DEF Init, HalfUrlIsSplit, EndsForCause
<1>3. PathIsAsked /\ PendingIsOpen
  <2>1. ASSUME NEW c \in Clients PROVE Unasked(c) /\ replies[c] = <<>> /\ Len(<<>>) = 0
    <3>1. asked[c] = <<>> /\ Len(<<>>) = 0 /\ parser[c] = "start"
      BY DEF Init
    <3> QED
      BY <3>1, OneInit DEF OneAtATime, OnePlace, Unasked, Reading, Rendered, Answered
  <2>2. \A c \in Clients, w \in Workers : ~ ServedBy(w, c)
    BY DEF Init, ServedBy
  <2> QED BY <2>1, <2>2 DEF PathIsAsked, PendingIsOpen, Unasked, Pending
<1> QED BY <1>1, <1>2, <1>3, BasicInit, OneInit DEF IInv

LEMMA IInvStep == IInv /\ Serve => IInv'
<1> SUFFICES ASSUME IInv, Serve PROVE IInv'
  OBVIOUS
<1>1. /\ TypeOK /\ Basic /\ HalfUrlIsSplit /\ MoreIsDeviation /\ OneAtATime
      /\ EndsForCause /\ PendingIsOpen
  BY DEF IInv
<1>2. TypeOK' /\ Basic' /\ HalfUrlIsSplit' /\ EndsForCause'
  BY <1>1, TypeStep, BasicStep, HalfUrlStep, EndsStep
<1>3. MoreIsDeviation' /\ OneAtATime' /\ PendingIsOpen'
  BY <1>1, OneStep, OpenStep
<1>4. ~ AllowedAny({"split_url"}) => PathIsAsked'
  BY <1>1, PathStep DEF IInv
<1> QED BY <1>2, <1>3, <1>4 DEF IInv, AllowedAny

\* The start of the process and a stuttering step leave all but process alone.
LEMMA IInvSame ==
  ASSUME IInv,
         UNCHANGED <<stream, parser, path, write, buffer, asked, replies,
                     queue, pc, serving, filepath, finished>>,
         TypeOK', EndsForCause'
  PROVE  IInv'
<1>1. HalfUrlIsSplit' /\ MoreIsDeviation'
  BY DEF IInv, HalfUrlIsSplit, MoreIsDeviation, AllowedAny, Allowed
<1>2. Basic'
  BY DEF IInv, Basic, WorkHasClient, Queued, PartialWriteIsSlow, WriteHasClient, Allowed
<1>3. OneAtATime'
  <2>1. \A d \in Clients : One(d)'
    BY OneAll, OneSame, PendingSame DEF IInv
  <2> QED BY <2>1 DEF OneAtATime, One
<1>4. PendingIsOpen'
  BY PendingSame DEF IInv, PendingIsOpen, AllowedAny
<1>5. PathIsAsked => PathIsAsked'
  BY DEF PathIsAsked, Asks, Queued, ServedBy
<1> QED BY <1>1, <1>2, <1>3, <1>4, <1>5 DEF IInv, AllowedAny

LEMMA IInvStutter == IInv /\ UNCHANGED vars => IInv'
<1> SUFFICES ASSUME IInv, UNCHANGED vars PROVE IInv'
  OBVIOUS
<1>1. TypeOK'
  BY DEF IInv, vars, TypeOK
<1>2. EndsForCause'
  BY DEF IInv, vars, EndsForCause, ExitHasCause, ToBlame, AllowedAny, Allowed
<1> QED BY <1>1, <1>2, IInvSame DEF vars

LEMMA IInvStart == IInv /\ Start => IInv'
<1> SUFFICES ASSUME IInv, Start PROVE IInv'
  OBVIOUS
<1>1. TypeOK'
  BY StartKeeps DEF IInv, TypeOK
<1>2. EndsForCause'
  <2>1. CASE process' = "running"
    BY <2>1 DEF EndsForCause
  <2>2. CASE process' \in {"exit", "throw"} /\ Allowed("setup_error")
    <3>1. /\ AllowedAny({"setup_error", "accept_error", "bad_url", "split_url"})
          /\ AllowedAny({"setup_error", "malformed", "empty_read", "unlink"})
      BY <2>2, AllowedIn
    <3> QED BY <2>2, <3>1 DEF EndsForCause, ExitHasCause, AllowedAny
  <2> QED BY <2>1, <2>2, StartKeeps
<1> QED BY <1>1, <1>2, IInvSame, StartKeeps

LEMMA Invariance == Spec => []IInv
<1>1. IInv /\ [Next]_vars => IInv'
  BY IInvStep, IInvStart, IInvStutter DEF Next
<1> QED BY <1>1, IInvInit, PTL DEF Spec

\* The server ends, or leaves defined behaviour, only where a peer, the kernel
\* or the disk does what can bring it about, and where a connection is to blame
\* the state has it: one with a second request, or one its peer ended before the
\* answer.  With Deviations = {} the server runs for ever, however the loop and
\* the threads interleave.
THEOREM StopsForCause == Spec => []EndsForCause
<1>1. IInv => EndsForCause
  BY DEF IInv
<1> QED BY <1>1, Invariance, PTL

\* A Client_Impl that a thread is still to use stays connected, as long as its
\* connection carries one request and its peer waits for the answer: whatever
\* the other connections carry.
THEOREM WorkStaysConnected == Spec => []PendingIsOpen
<1>1. IInv => PendingIsOpen
  BY DEF IInv
<1> QED BY <1>1, Invariance, PTL

\* Where URLs come whole a connection is answered with paths it asked for, never
\* with that of another connection, and with the path of its one request.
THEOREM AnswersTheRequest == Spec => []RepliesMatch
<1>1. IInv => RepliesMatch
  <2> SUFFICES ASSUME IInv, ~ AllowedAny({"split_url"}), NEW c \in Clients
               PROVE  /\ \A i \in 1..Len(replies[c]) : Asks(c, replies[c][i])
                      /\ Len(asked[c]) <= 1 => IsPrefix(replies[c], asked[c])
    BY DEF RepliesMatch
  <2>1. PathIsAsked /\ TypeOK /\ OneAtATime
    BY DEF IInv
  <2>2. \A i \in 1..Len(replies[c]) : Asks(c, replies[c][i])
    BY <2>1 DEF PathIsAsked
  <2>3. asked[c] \in Seq(Paths) /\ replies[c] \in Seq(Paths \cup {NoPath})
    BY <2>1 DEF TypeOK
  <2>4. ASSUME Len(asked[c]) <= 1 PROVE IsPrefix(replies[c], asked[c])
    <3>0. OnePlace(c)
      BY <2>1, <2>4 DEF OneAtATime
    <3>1. CASE replies[c] = <<>>
      <4>1. Len(<<>>) = 0 /\ Len(asked[c]) \in Nat
        BY <2>3
      <4>2. SubSeq(<<>>, 1, 0) = SubSeq(asked[c], 1, 0)
        BY <2>3, <4>1
      <4> QED BY <3>1, <4>1, <4>2 DEF IsPrefix
    <3>2. CASE Answered(c)
      <4>1. Len(replies[c]) = 1 /\ Len(asked[c]) = 1
        BY <3>2 DEF Answered
      <4>2. PICK j \in 1..Len(asked[c]) : asked[c][j] = replies[c][1]
        BY <2>2, <4>1 DEF Asks
      <4>3. replies[c] = asked[c]
        BY <2>3, <4>1, <4>2
      <4> QED BY <2>3, <4>1, <4>3 DEF IsPrefix
    <3> QED BY <3>0, <3>1, <3>2 DEF OnePlace, Unasked, Reading, Rendered
  <2> QED BY <2>2, <2>4
<1> QED BY <1>1, Invariance, PTL

-------------------------------------------------------------------------------
(***************************************************************************)
(* With peers that behave the server implements HttpExchange, step by      *)
(* step: what a peer has been told is where its exchange is.               *)
(***************************************************************************)

\* Nothing is asked before the connection, and none ends before its answer.
Settled ==
  \A c \in Clients :
    /\ stream[c] = "none" => asked[c] = <<>>
    /\ stream[c] \in {"shutting", "closing"} => Len(replies[c]) = Len(asked[c])

\* What IInv says of peers that behave.
LEMMA Behaved ==
  ASSUME Deviations = {}, IInv
  PROVE  /\ TypeOK /\ Basic
         /\ \A c \in Clients : /\ Len(asked[c]) <= 1 /\ OnePlace(c)
                               /\ Pending(c) => stream[c] = "open"
                               /\ \A p : Asks(c, p) => asked[c] = <<p>>
                               /\ write[c] # "queued" /\ parser[c] # "url"
         /\ \A c \in Clients, w \in Workers : ServedBy(w, c) => asked[c] = <<filepath[w]>>
         /\ \A d : ~ Allowed(d)
<1>1. \A d : ~ Allowed(d)
  BY DEF Allowed
<1>2. \A ds : ~ AllowedAny(ds)
  BY DEF AllowedAny
<1>3. TypeOK /\ Basic /\ PathIsAsked
  BY <1>2 DEF IInv
<1>4. \A c \in Clients : write[c] # "queued" /\ parser[c] # "url"
  BY <1>1 DEF IInv, Basic, PartialWriteIsSlow, HalfUrlIsSplit
<1>5. ASSUME NEW c \in Clients
      PROVE  /\ asked[c] \in Seq(Paths) /\ Len(asked[c]) <= 1 /\ OnePlace(c)
             /\ Pending(c) => stream[c] = "open"
  <2>1. asked[c] \in Seq(Paths) /\ Len(asked[c]) \in Nat
    BY <1>3 DEF TypeOK
  <2>2. ~ Len(asked[c]) > 1
    BY <1>2 DEF IInv, MoreIsDeviation
  <2>3. Len(asked[c]) <= 1
    BY <2>1, <2>2
  <2> QED BY <1>2, <2>1, <2>3 DEF IInv, OneAtATime, PendingIsOpen
<1>6. ASSUME NEW c \in Clients, NEW p, Asks(c, p) PROVE asked[c] = <<p>>
  <2>1. PICK i \in 1..Len(asked[c]) : asked[c][i] = p
    BY <1>6 DEF Asks
  <2>2. asked[c] \in Seq(Paths) /\ Len(asked[c]) <= 1
    BY <1>5
  <2> QED BY <2>1, <2>2
<1>7. \A c \in Clients, w \in Workers : ServedBy(w, c) => asked[c] = <<filepath[w]>>
  BY <1>3, <1>6 DEF PathIsAsked
<1> QED BY <1>1, <1>3, <1>4, <1>5, <1>6, <1>7

\* The places of an exchange that is under way, for the handle, are one.
UnderWay == {"open", "shutting", "closing"}

LEMMA SameExchange ==
  ASSUME TypeOK, TypeOK', UNCHANGED <<asked, replies>>,
         \A c \in Clients :
           stream'[c] = stream[c] \/ (stream[c] \in UnderWay /\ stream'[c] \in UnderWay)
  PROVE  UNCHANGED Exchange!xvars
<1>1. ASSUME NEW c \in Clients PROVE statusOf'[c] = statusOf[c]
  BY <1>1 DEF statusOf, UnderWay
<1>2. statusOf' = statusOf
  BY <1>1 DEF statusOf
<1> QED BY <1>2 DEF Exchange!xvars, lastOf

\* The connection of one exchange goes a step on.
LEMMA OneExchange ==
  ASSUME TypeOK, TypeOK', NEW c \in Clients, NEW st,
         \A d \in Clients : d # c => /\ stream'[d] = stream[d] /\ asked'[d] = asked[d]
                                     /\ replies'[d] = replies[d],
         statusOf'[c] = st
  PROVE  statusOf' = [statusOf EXCEPT ![c] = st]
<1>1. ASSUME NEW d \in Clients, d # c PROVE statusOf'[d] = statusOf[d]
  BY <1>1 DEF statusOf
<1>2. statusOf' = [d \in Clients |-> statusOf'[d]]
  BY DEF statusOf
<1>3. statusOf = [d \in Clients |-> statusOf[d]]
  BY DEF statusOf
<1> HIDE DEF statusOf
<1> QED BY <1>1, <1>2, <1>3

LEMMA ConnectStep ==
  ASSUME Deviations = {}, IInv, Settled, TypeOK', NEW c \in Clients, OnConnect(c)
  PROVE  Settled' /\ Exchange!Connect(c)
<1>1. TypeOK /\ OnePlace(c)
  BY Behaved
<1>2. asked[c] = <<>>
  BY DEF OnConnect, Settled
<1>3. replies[c] = <<>>
  BY <1>1, <1>2 DEF OnePlace, Unasked, Reading, Rendered, Answered
<1>4. /\ stream' = [stream EXCEPT ![c] = "open"] /\ stream[c] = "none"
      /\ UNCHANGED <<asked, replies>>
  BY DEF OnConnect
<1>5. statusOf[c] = "away" /\ statusOf'[c] = "connected"
  BY <1>1, <1>2, <1>3, <1>4 DEF statusOf, TypeOK
<1>6. statusOf' = [statusOf EXCEPT ![c] = "connected"]
  BY <1>1, <1>4, <1>5, OneExchange DEF TypeOK
<1>7. Settled'
  BY <1>1, <1>4 DEF Settled, TypeOK
<1> QED BY <1>4, <1>5, <1>6, <1>7 DEF Exchange!Connect, lastOf

LEMMA AskStep ==
  ASSUME Deviations = {}, IInv, Settled, TypeOK', NEW c \in Clients, NEW p \in Paths,
         OnReadUrl(c, p)
  PROVE  Settled' /\ Exchange!Ask(c, p)
<1>1. TypeOK /\ OnePlace(c) /\ \A d : ~ Allowed(d)
  BY Behaved
<1>2. asked[c] = <<>>
  BY <1>1 DEF OnReadUrl, MaySend
<1>3. replies[c] = <<>>
  BY <1>1, <1>2 DEF OnePlace, Unasked, Reading, Rendered, Answered
<1>4. /\ asked' = [asked EXCEPT ![c] = <<p>>] /\ stream[c] = "open"
      /\ UNCHANGED <<stream, replies>>
  BY <1>1, <1>2, OneElement DEF OnReadUrl, Begin
<1>5. statusOf[c] = "connected" /\ statusOf'[c] = "asked"
  BY <1>1, <1>2, <1>3, <1>4 DEF statusOf, TypeOK
<1>6. statusOf' = [statusOf EXCEPT ![c] = "asked"]
  BY <1>1, <1>4, <1>5, OneExchange DEF TypeOK
<1>7. Settled'
  BY <1>1, <1>4 DEF Settled, TypeOK
<1>8. lastOf(<<p>>) = p
  BY DEF lastOf, Last
<1>9. [d \in Clients |-> lastOf(asked'[d])]
        = [[d \in Clients |-> lastOf(asked[d])] EXCEPT ![c] = p]
  BY <1>1, <1>4, <1>8 DEF TypeOK
<1> QED BY <1>4, <1>5, <1>6, <1>7, <1>9 DEF Exchange!Ask

LEMMA AnswerStep ==
  ASSUME Deviations = {}, IInv, Settled, TypeOK', NEW w \in Workers,
         pc[w] = "write", Send(w, serving[w])
  PROVE  Settled' /\ \E c \in Clients : Exchange!Answer(c)
<1>1. TypeOK
  BY Behaved
<1>2. PICK c \in Clients : c = serving[w] /\ ServedBy(w, c)
  BY <1>1 DEF TypeOK, ServedBy
<1>3. asked[c] = <<filepath[w]>> /\ stream[c] = "open" /\ OnePlace(c)
  BY <1>2, Behaved DEF Pending
<1>4. replies[c] = <<>>
  BY <1>2, <1>3 DEF OnePlace, Unasked, Reading, Rendered, Answered, Pending
<1>5. /\ replies' = [replies EXCEPT ![c] = <<filepath[w]>>]
      /\ UNCHANGED <<stream, asked>>
  BY <1>2, <1>4, OneElement DEF Send
<1>6. statusOf[c] = "asked" /\ statusOf'[c] = "answered"
  <2>1. asked[c] # <<>>
    BY <1>3, OneElement
  <2>2. replies'[c] # <<>>
    <3>1. replies'[c] = <<filepath[w]>>
      BY <1>1, <1>5 DEF TypeOK
    <3> QED BY <3>1, OneElement
  <2>3. statusOf[c] = "asked"
    BY <1>3, <1>4, <2>1 DEF statusOf
  <2>4. statusOf'[c] = "answered"
    BY <1>3, <1>5, <2>2 DEF statusOf
  <2> QED BY <2>3, <2>4
<1>7. statusOf' = [statusOf EXCEPT ![c] = "answered"]
  BY <1>1, <1>5, <1>6, OneExchange DEF TypeOK
<1>8. Settled'
  BY <1>1, <1>3, <1>5 DEF Settled, TypeOK
<1>9. [d \in Clients |-> lastOf(replies'[d])]
        = [[d \in Clients |-> lastOf(replies[d])] EXCEPT ![c] = lastOf(asked[c])]
  BY <1>1, <1>3, <1>5 DEF TypeOK
<1> QED BY <1>5, <1>6, <1>7, <1>8, <1>9 DEF Exchange!Answer

LEMMA LeaveStep ==
  ASSUME Deviations = {}, IInv, Settled, TypeOK', NEW c \in Clients, OnClose(c)
  PROVE  Settled' /\ Exchange!Leave(c)
<1>1. TypeOK
  BY Behaved
<1>2. /\ stream' = [stream EXCEPT ![c] = "closed"] /\ stream[c] = "closing"
      /\ UNCHANGED <<asked, replies>>
  BY DEF OnClose
<1>3. replies[c] = <<>> => asked[c] = <<>>
  <2>1. Len(replies[c]) = Len(asked[c]) /\ asked[c] \in Seq(Paths)
    BY <1>1, <1>2 DEF Settled, TypeOK
  <2> QED BY <2>1
<1>4. statusOf[c] \in {"connected", "answered"} /\ statusOf'[c] = "gone"
  BY <1>1, <1>2, <1>3 DEF statusOf, TypeOK
<1>5. statusOf' = [statusOf EXCEPT ![c] = "gone"]
  BY <1>1, <1>2, <1>4, OneExchange DEF TypeOK
<1>6. Settled'
  BY <1>1, <1>2 DEF Settled, TypeOK
<1> QED BY <1>2, <1>4, <1>5, <1>6 DEF Exchange!Leave, lastOf

\* Every step of the loop and of the threads is a step of one exchange or of none.
LEMMA ExchangeStep ==
  ASSUME Deviations = {}, IInv, Settled, Serve, TypeOK'
  PROVE  Settled' /\ [Exchange!XNext]_(Exchange!xvars)
<1>1. /\ TypeOK
      /\ \A c \in Clients : /\ OnePlace(c)
                            /\ Pending(c) => stream[c] = "open"
                            /\ write[c] # "queued" /\ parser[c] # "url"
      /\ \A d : ~ Allowed(d)
  BY Behaved
<1>2. ASSUME UNCHANGED <<stream, asked, replies>>
      PROVE  Settled' /\ UNCHANGED Exchange!xvars
  BY <1>1, <1>2, SameExchange DEF Settled
<1>3. ASSUME NEW c \in Clients, NEW s \in UnderWay, stream[c] \in UnderWay,
             stream' = [stream EXCEPT ![c] = s], UNCHANGED <<asked, replies>>,
             s = "open" \/ Len(replies[c]) = Len(asked[c])
      PROVE  Settled' /\ UNCHANGED Exchange!xvars
  <2>1. \A d \in Clients :
          stream'[d] = stream[d] \/ (stream[d] \in UnderWay /\ stream'[d] \in UnderWay)
    BY <1>1, <1>3 DEF TypeOK
  <2>2. Settled'
    BY <1>1, <1>3 DEF Settled, TypeOK, UnderWay
  <2> QED BY <1>1, <1>3, <2>1, <2>2, SameExchange
<1>4. ASSUME NEW c \in Clients, Read(c)
      PROVE  Settled' /\ [Exchange!XNext]_(Exchange!xvars)
  <2>1. ASSUME NEW p \in Paths, OnReadUrl(c, p)
        PROVE  Settled' /\ Exchange!XNext
    BY <2>1, AskStep DEF Exchange!XNext
  <2>2. CASE OnReadComplete(c)
    BY <1>2, <2>2 DEF OnReadComplete
  <2>3. CASE OnReadEnd(c)
    <3>1. Len(replies[c]) = Len(asked[c])
      BY <1>1, <2>3 DEF OnReadEnd, MayEnd
    <3> QED BY <1>3, <2>3, <3>1 DEF OnReadEnd, UnderWay
  <2> QED BY <1>1, <1>4, <2>1, <2>2, <2>3 DEF Read, OnReadUrlPart, OnReadUrlRest, OnReadBad
<1>5. ASSUME NEW c \in Clients, Writable(c)
      PROVE  Settled' /\ UNCHANGED Exchange!xvars
  <2>1. CASE OnWrite(c)
    <3>1. CASE stream[c] = "open"
      <4>1. Len(replies[c]) = Len(asked[c])
        BY <1>1, <2>1 DEF OnWrite, OnePlace, Unasked, Reading, Rendered, Answered
      <4>2. stream' = [stream EXCEPT ![c] = "closing"]
        BY <2>1, <3>1 DEF OnWrite
      <4> QED BY <1>3, <2>1, <3>1, <4>1, <4>2 DEF OnWrite, UnderWay
    <3>2. CASE stream[c] # "open"
      <4>1. stream' = stream
        BY <1>1, <2>1, <3>2 DEF OnWrite, TypeOK
      <4> QED BY <1>2, <2>1, <4>1 DEF OnWrite
    <3> QED BY <3>1, <3>2
  <2>2. CASE Drain(c)
    <3>1. Len(replies[c]) = Len(asked[c])
      BY <2>2 DEF Drain, Settled
    <3> QED BY <1>1, <1>3, <2>2, <3>1 DEF Drain, UnderWay
  <2> QED BY <1>1, <1>5, <2>1, <2>2 DEF Writable, Flush
<1>6. ASSUME NEW c \in Clients, OnConnect(c) PROVE Settled' /\ Exchange!XNext
  BY <1>6, ConnectStep DEF Exchange!XNext
<1>7. ASSUME NEW c \in Clients, OnClose(c) PROVE Settled' /\ Exchange!XNext
  BY <1>7, LeaveStep DEF Exchange!XNext
<1>8. ASSUME NEW w \in Workers, Render(w)
      PROVE  Settled' /\ [Exchange!XNext]_(Exchange!xvars)
  <2>1. pc[w] \in {"lookup", "write"} => stream[serving[w]] = "open" /\ write[serving[w]] = "none"
    <3>1. ASSUME pc[w] \in {"lookup", "write"}
          PROVE  serving[w] \in Clients /\ Pending(serving[w])
      BY <1>1, <3>1 DEF TypeOK, Pending, ServedBy
    <3>2. \A c \in Clients : Pending(c) => write[c] = "none"
      BY <1>1 DEF OnePlace, Unasked, Reading, Rendered, Answered
    <3> QED BY <1>1, <3>1, <3>2
  <2>2. queue # <<>> => stream[Head(queue)] = "open"
    BY <1>1, TailElements DEF Pending, Queued, TypeOK
  <2>3. CASE RenderStart(w)
    BY <1>2, <2>3 DEF RenderStart, connection
  <2>4. CASE RenderLookup(w)
    BY <1>1, <1>2, <2>4 DEF RenderLookup, connection
  <2>5. CASE RenderRelease(w)
    BY <1>2, <2>5 DEF RenderRelease
  <2>6. CASE RenderWrite(w)
    <3>1. pc[w] = "write" /\ Send(w, serving[w])
      BY <2>1, <2>6 DEF RenderWrite
    <3> QED BY <3>1, AnswerStep DEF Exchange!XNext
  <2>7. ~ UseAfterFree(w)
    BY <2>1, <2>2 DEF UseAfterFree
  <2> QED BY <1>8, <2>3, <2>4, <2>5, <2>6, <2>7 DEF Render
<1>9. CASE AfterRender
  BY <1>2, <1>9 DEF AfterRender, connection
<1> QED BY <1>1, <1>4, <1>5, <1>6, <1>7, <1>8, <1>9 DEF Serve, OnConnectError

LEMMA ExchangeInit == Init => Settled /\ Exchange!XInit
<1> SUFFICES ASSUME Init PROVE Settled /\ Exchange!XInit
  OBVIOUS
<1>1. ASSUME NEW c \in Clients
      PROVE  /\ statusOf[c] = "away" /\ lastOf(asked[c]) = NoPath
             /\ lastOf(replies[c]) = NoPath
  BY <1>1 DEF Init, statusOf, lastOf
<1>2. statusOf = [c \in Clients |-> statusOf[c]]
  BY DEF statusOf
<1>3. statusOf = [c \in Clients |-> "away"]
  BY <1>1, <1>2
<1>4. Settled
  BY DEF Init, Settled
<1> QED BY <1>1, <1>3, <1>4 DEF Exchange!XInit, Exchange!NoRequest, NoPath

\* With peers, a kernel and a disk that behave, whatever the loop and the
\* threads do is what HttpExchange allows: one request, the response to that
\* very request, and only then the end of the connection.
THEOREM AnswersAreExchanges ==
  ASSUME Deviations = {}
  PROVE  Spec => Exchange!XInit /\ [][Exchange!XNext]_(Exchange!xvars)
<1>1. Init => IInv /\ Settled /\ Exchange!XInit
  BY IInvInit, ExchangeInit
<1>2. (IInv /\ Settled) /\ [Next]_vars
        => (IInv /\ Settled)' /\ [Exchange!XNext]_(Exchange!xvars)
  <2> SUFFICES ASSUME IInv, Settled, [Next]_vars
               PROVE  IInv' /\ Settled' /\ [Exchange!XNext]_(Exchange!xvars)
    OBVIOUS
  <2>1. IInv'
    BY IInvStep, IInvStart, IInvStutter DEF Next
  <2>2. TypeOK /\ TypeOK'
    BY <2>1 DEF IInv
  <2>3. CASE Serve
    BY <2>2, <2>3, <2>1, ExchangeStep
  <2>4. ASSUME UNCHANGED <<stream, asked, replies>>
        PROVE  Settled' /\ UNCHANGED Exchange!xvars
    BY <2>2, <2>4, SameExchange DEF Settled
  <2>5. Start \/ UNCHANGED vars => UNCHANGED <<stream, asked, replies>>
    BY StartKeeps DEF vars
  <2> QED BY <2>1, <2>3, <2>4, <2>5 DEF Next
<1> QED BY <1>1, <1>2, PTL DEF Spec
===============================================================================
