------------------------------ MODULE EchoServer ------------------------------
(***************************************************************************)
(* The server of Multithread/week9/server.cpp, which answers "got it" to   *)
(* whatever it reads.  One libuv loop thread runs the callbacks; the pool's *)
(* threads accept the connections (accept_conn) and print what was read    *)
(* (http_req).  A work item does not name the connection it is to accept:  *)
(* uv_accept takes the one that the server handle holds.                   *)
(*                                                                         *)
(* A callback is one step, a work function is one step on its thread.  The *)
(* calls into libuv are atomic: what they do is modelled from how the code *)
(* uses them (libuv 1.x of 2015, built with its assertions).               *)
(***************************************************************************)
EXTENDS Naturals, Sequences, FiniteSets

CONSTANTS
  Peers,         \* those who connect, each of them once
  Workers,       \* the threads of libuv's pool
  Environments,  \* what may happen from outside: sets of deviations, see below
  MaxReads,      \* bound: the reads of one connection
  MaxSignals,    \* bound: the signals the process gets
  MaxAccepts     \* bound: the accepts that wait when an accept fails

AllDeviations ==
  { "hangup",         \* a peer ends its side before it has its answers
    "accept_error",   \* new_connection_handler is called with an error
    "signal",         \* SIGINT or SIGTERM arrives
    "frame_reused" }  \* the stack where http_resp was is written again

Accept == "accept"   \* a work item of new_connection_handler
Idle   == "idle"     \* a thread without a work item

ASSUME EchoAssumption ==
  /\ IsFiniteSet(Peers) /\ IsFiniteSet(Workers)
  /\ Accept \notin Peers /\ Idle \notin Peers
  /\ Environments \subseteq SUBSET AllDeviations
  /\ MaxReads \in Nat /\ MaxSignals \in Nat /\ MaxAccepts \in Nat

VARIABLES
  environment,  \* the deviations of this behaviour
  process,      \* "running", "stopping" when uv_run is left, or its end
  server,       \* the server handle
  stream,       \* of each peer: "held" in the server handle, then its handle
  write,        \* whether libuv holds the dead write request of http_resp
  asked,        \* history: the reads of each peer
  answered,     \* history: the answers of each peer handed to uv_write
  queue,        \* the work items that wait: Accept, or whose request it is
  doing,        \* the work item of each thread
  finished,     \* the work items whose after-callback waits for the loop
  signals       \* history: the signals handled

vars == <<environment, process, server, stream, write, asked, answered,
          queue, doing, finished, signals>>
pool   == <<queue, doing, finished>>
talk   == <<write, asked, answered>>

Jobs == Peers \cup {Accept}
Allowed(d) == d \in environment

\* The peer whose descriptor the server handle holds (accepted_fd).
Held == {c \in Peers : stream[c] = "held"}

Init ==
  /\ environment \in Environments
  /\ process = "running" /\ server = "listening"
  /\ stream = [c \in Peers |-> "away"]
  /\ write = [c \in Peers |-> "none"]
  /\ asked = [c \in Peers |-> 0]
  /\ answered = [c \in Peers |-> 0]
  /\ queue = <<>>
  /\ doing = [w \in Workers |-> Idle]
  /\ finished = <<>>
  /\ signals = 0

\* The process ends, or steps outside what C++ defines, in this step.
Ends(how) ==
  /\ process' = how
  /\ UNCHANGED <<environment, server, stream, talk, pool, signals>>

Becomes(c, state) == stream' = [stream EXCEPT ![c] = state]

(***************************************************************************)
(* The loop: the server handle.                                            *)
(***************************************************************************)

\* new_connection_handler.  libuv does not accept while it holds a connection.
new_connection_handler(c) ==
  /\ server = "listening" /\ Held = {} /\ stream[c] = "away"
  /\ Becomes(c, "held")
  /\ queue' = Append(queue, Accept)
  /\ UNCHANGED <<environment, process, server, talk, doing, finished, signals>>

\* How often the work item j is in the sequence s, and how many threads do it.
Times(s, j)   == Cardinality({i \in DOMAIN s : s[i] = j})
Threads(f, j) == Cardinality({w \in Workers : f[w] = j})

AcceptJobs == Times(queue, Accept) + Threads(doing, Accept)

\* The same with an error as its status, which it does not read.
new_connection_error ==
  /\ Allowed("accept_error") /\ AcceptJobs < MaxAccepts
  /\ server = "listening" /\ Held = {}
  /\ queue' = Append(queue, Accept)
  /\ UNCHANGED <<environment, process, server, stream, talk, doing, finished, signals>>

\* The server handle is closed, and with it the descriptor it holds; for a
\* handle that is closing already uv_close asserts.  tcp_server is never null.
termination_handler ==
  /\ Allowed("signal") /\ signals < MaxSignals
  /\ \/ server = "closing" /\ Ends("abort")
     \/ /\ server = "listening"
        /\ server' = "closing"
        /\ stream' = [c \in Peers |-> IF c \in Held THEN "refused" ELSE stream[c]]
        /\ signals' = signals + 1
        /\ UNCHANGED <<environment, process, talk, pool>>

\* Mutant of on_server_close: without uv_stop.
on_server_closeRuns ==
  /\ server = "closing"
  /\ server' = "freed"
  /\ UNCHANGED <<environment, process, stream, talk, pool, signals>>

\* on_server_close: the handle is deleted and uv_stop leaves the loop.
on_server_close ==
  /\ server = "closing"
  /\ server' = "freed" /\ process' = "stopping"
  /\ UNCHANGED <<environment, stream, talk, pool, signals>>

(***************************************************************************)
(* The loop: the peers' handles.                                           *)
(***************************************************************************)

\* Mutant of after_read: the work is queued twice.
after_readTwice(c) ==
  /\ stream[c] = "open" /\ asked[c] < MaxReads
  /\ asked' = [asked EXCEPT ![c] = @ + 1]
  /\ queue' = queue \o <<c, c>>
  /\ UNCHANGED <<environment, process, server, stream, write, answered, doing,
                 finished, signals>>

\* after_read with data: a request, of the text's own buffer.  A read of
\* nothing changes nothing.
after_read(c) ==
  /\ stream[c] = "open" /\ asked[c] < MaxReads
  /\ asked' = [asked EXCEPT ![c] = @ + 1]
  /\ queue' = Append(queue, c)
  /\ UNCHANGED <<environment, process, server, stream, write, answered, doing,
                 finished, signals>>

MayEnd(c) == answered[c] = asked[c] \/ Allowed("hangup")

\* after_read at the end or with an error: uv_shutdown waits for the writes.
after_read_end(c) ==
  /\ stream[c] = "open" /\ MayEnd(c)
  /\ Becomes(c, "shutting")
  /\ UNCHANGED <<environment, process, server, talk, pool, signals>>

\* libuv takes the written request off its queue.  The request was a local of
\* http_resp: what is there now may be something else.
WriteCallbacks(c) ==
  /\ write[c] = "dangling"
  /\ \/ Allowed("frame_reused") /\ Ends("stale_request")
     \/ /\ write' = [write EXCEPT ![c] = "none"]
        /\ UNCHANGED <<environment, process, server, stream, asked, answered,
                       pool, signals>>

\* Mutant of after_shutdown: only an orderly end is closed.
after_shutdownAnswered(c) ==
  /\ stream[c] = "shutting" /\ write[c] = "none" /\ asked[c] > 0
  /\ Becomes(c, "closing")
  /\ UNCHANGED <<environment, process, server, talk, pool, signals>>

\* The writes are done: after_shutdown, whatever its status, closes.
after_shutdown(c) ==
  /\ stream[c] = "shutting" /\ write[c] = "none"
  /\ Becomes(c, "closing")
  /\ UNCHANGED <<environment, process, server, talk, pool, signals>>

on_close(c) ==
  /\ stream[c] = "closing"
  /\ Becomes(c, "freed")
  /\ UNCHANGED <<environment, process, server, talk, pool, signals>>

(***************************************************************************)
(* The pool's threads, and the after-callbacks on the loop.                *)
(***************************************************************************)

Take(w) ==
  /\ doing[w] = Idle /\ queue # <<>>
  /\ doing' = [doing EXCEPT ![w] = Head(queue)]
  /\ queue' = Tail(queue)
  /\ UNCHANGED <<environment, process, server, stream, talk, finished, signals>>

\* The work function of w returns.
Returns(w) ==
  /\ doing' = [doing EXCEPT ![w] = Idle]
  /\ finished' = Append(finished, doing[w])
  /\ UNCHANGED <<environment, process, server, talk, queue, signals>>

\* Mutant of accept_conn: it queues the next accept, as a blocking server would.
accept_connAgain(w) ==
  /\ doing[w] = Accept
  /\ \/ server = "freed" /\ Ends("freed_server")
     \/ server # "freed" /\ Held = {} /\ Ends("abort")
     \/ \E c \in Held :
          /\ server # "freed" /\ Becomes(c, "open")
          /\ doing' = [doing EXCEPT ![w] = Idle]
          /\ queue' = Append(queue, Accept)
          /\ UNCHANGED <<environment, process, server, talk, finished, signals>>

\* accept_conn: what uv_accept finds in the server handle begins to be read.
\* With nothing there the new handle has no descriptor and uv_read_start asserts.
accept_conn(w) ==
  /\ doing[w] = Accept
  /\ \/ server = "freed" /\ Ends("freed_server")
     \/ server # "freed" /\ Held = {} /\ Ends("abort")
     \/ \E c \in Held : server # "freed" /\ Becomes(c, "open") /\ Returns(w)

http_req(w) == doing[w] \in Peers /\ UNCHANGED stream /\ Returns(w)

after_accept ==
  /\ finished # <<>> /\ Head(finished) = Accept
  /\ finished' = Tail(finished)
  /\ UNCHANGED <<environment, process, server, stream, talk, queue, doing, signals>>

\* Mutant of http_resp: it shuts the connection down behind the answer.
http_respShuts(c) ==
  /\ finished # <<>> /\ Head(finished) = c
  /\ \/ stream[c] = "freed" /\ Ends("freed_stream")
     \/ /\ stream[c] # "freed"
        /\ finished' = Tail(finished)
        /\ Becomes(c, IF stream[c] = "open" THEN "shutting" ELSE stream[c])
        /\ answered' = [answered EXCEPT ![c] = @ + 1]
        /\ write' = [write EXCEPT ![c] = "dangling"]
        /\ UNCHANGED <<environment, process, server, asked, queue, doing, signals>>

\* http_resp: uv_write with a request that dies with the callback.  A handle
\* that is closing has no descriptor and refuses; a dead request that libuv
\* still holds is before the new one in its queue.
http_resp(c) ==
  /\ finished # <<>> /\ Head(finished) = c
  /\ \/ stream[c] = "freed" /\ Ends("freed_stream")
     \/ write[c] = "dangling" /\ Allowed("frame_reused") /\ Ends("stale_request")
     \/ /\ stream[c] # "freed"
        /\ finished' = Tail(finished)
        /\ IF stream[c] = "closing" THEN UNCHANGED <<answered, write>>
           ELSE /\ answered' = [answered EXCEPT ![c] = @ + 1]
                /\ write' = [write EXCEPT ![c] = "dangling"]
        /\ UNCHANGED <<environment, process, server, stream, asked, queue, doing, signals>>

\* main returns; the pool's threads finish what waits before the process ends.
Return ==
  /\ process = "stopping"
  /\ queue = <<>> /\ \A w \in Workers : doing[w] = Idle
  /\ Ends("stopped")

(***************************************************************************)
(* The specification.                                                      *)
(***************************************************************************)

AfterWork == after_accept \/ \E c \in Peers : http_resp(c)
Work(w)   == Take(w) \/ accept_conn(w) \/ http_req(w)
Peer(c)   == new_connection_handler(c) \/ after_read(c) \/ after_read_end(c)
Ready(c)  == WriteCallbacks(c) \/ after_shutdown(c)

Next ==
  \/ /\ process = "running"
     /\ \/ new_connection_error \/ termination_handler \/ on_server_close \/ AfterWork
        \/ \E c \in Peers : Peer(c) \/ Ready(c) \/ on_close(c)
  \/ process \in {"running", "stopping"} /\ \E w \in Workers : Work(w)
  \/ Return

\* uv_run serves every ready descriptor, finished work item and closing
\* handle, and the pool's threads run; peers and signals come as they like.
Fairness ==
  /\ \A c \in Peers :
       /\ WF_vars(process = "running" /\ Ready(c))
       /\ WF_vars(process = "running" /\ on_close(c))
  /\ WF_vars(process = "running" /\ AfterWork)
  /\ WF_vars(process = "running" /\ on_server_close)
  /\ \A w \in Workers : WF_vars(process \in {"running", "stopping"} /\ Work(w))
  /\ WF_vars(Return)

Spec == Init /\ [][Next]_vars
FairSpec == Spec /\ Fairness

-------------------------------------------------------------------------------
(***************************************************************************)
(* The properties.                                                         *)
(***************************************************************************)

TypeOK ==
  /\ environment \in Environments
  /\ process \in {"running", "stopping", "stopped", "abort", "freed_stream",
                  "freed_server", "stale_request"}
  /\ server \in {"listening", "closing", "freed"}
  /\ stream \in [Peers -> {"away", "held", "refused", "open", "shutting", "closing", "freed"}]
  /\ write \in [Peers -> {"none", "dangling"}]
  /\ asked \in [Peers -> Nat] /\ answered \in [Peers -> Nat]
  /\ queue \in Seq(Jobs) /\ finished \in Seq(Jobs)
  /\ doing \in [Workers -> Jobs \cup {Idle}]
  /\ signals \in Nat

\* The requests of c between after_read and http_resp.
Pending(c) == Times(queue, c) + Threads(doing, c) + Times(finished, c)

(***************************************************************************)
(* Each way in which the process can end has its cause outside: no          *)
(* interleaving of the loop, the accepts and the prints brings it about    *)
(* with peers that wait for their answers, accepts that succeed, no signal *)
(* and a stack that is left alone.                                         *)
(***************************************************************************)
StopsForCause ==
  /\ process = "freed_stream" => Allowed("hangup")
  /\ process = "abort" => Allowed("accept_error") \/ Allowed("signal")
  /\ process \in {"freed_server", "stopping", "stopped"} => Allowed("signal")
  /\ process = "stale_request" => Allowed("frame_reused")

(***************************************************************************)
(* A work item to accept waits or runs exactly while the server handle     *)
(* holds a connection: accept_conn, which does not look at what uv_accept  *)
(* returns, finds one, and no connection is held without one.              *)
(***************************************************************************)
OneAccept ==
  ~ Allowed("accept_error") /\ server = "listening" =>
    AcceptJobs = Cardinality(Held) /\ AcceptJobs <= 1

\* Types, and the accepts.
AcceptInv == TypeOK /\ OneAccept

(***************************************************************************)
(* Peers that wait: each read has one work item or its answer, and their   *)
(* handle stays open while a work item points to it.  And whoever hangs    *)
(* up, libuv never holds a write of a handle that is closing.              *)
(***************************************************************************)
ReadsAnsweredOnce ==
  \A c \in Peers :
    /\ ~ Allowed("hangup") =>
         /\ asked[c] = answered[c] + Pending(c)
         /\ Pending(c) > 0 => stream[c] = "open"
    /\ write[c] = "dangling" => stream[c] \in {"open", "shutting"}

(***************************************************************************)
(* While the server runs: who has connected is accepted, who was read is   *)
(* answered or has gone, and the handle of who has gone is deleted.        *)
(***************************************************************************)
PeersAreServed ==
  \A c \in Peers :
    /\ stream[c] = "held" ~> (stream[c] # "held" \/ process # "running")
    /\ asked[c] > answered[c] ~>
         (asked[c] = answered[c] \/ stream[c] = "freed" \/ process # "running")
    /\ stream[c] = "shutting" ~> (stream[c] = "freed" \/ process # "running")

\* A signal ends the process, in whatever way.
SignalEnds == signals > 0 ~> process \notin {"running", "stopping"}

(***************************************************************************)
(* The handlers are there "for correct server shutdown" (line 147): after a *)
(* signal the process does not end in an assertion or on a deleted handle. *)
(***************************************************************************)
CorrectShutdown == process \notin {"abort", "freed_server"}
===============================================================================
