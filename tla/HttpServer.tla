------------------------------ MODULE HttpServer ------------------------------
(***************************************************************************)
(* The HTTP server of Multithread/week9/http_server.cpp: one libuv loop    *)
(* thread that runs the callbacks of every connection, and the threads of  *)
(* libuv's pool that run render_resp.  A connection is a Client_Impl,      *)
(* which embeds the stream handle, the one write request and the parser,   *)
(* so that deleting it frees all three.                                    *)
(*                                                                         *)
(* A callback runs to its end on the loop thread and is one step.          *)
(* render_resp is four steps, because the loop runs between them.  The     *)
(* calls into libuv are atomic: what uv_write, uv_shutdown and uv_close    *)
(* do is modelled from how the code uses them (libuv 1.x of 2015).         *)
(***************************************************************************)
EXTENDS Naturals, Sequences

CONSTANTS
  Clients,      \* the connections that may arrive, each of them once
  Workers,      \* the threads of libuv's pool
  Paths,        \* the paths a request may name
  Files,        \* the paths that name a readable file, answered from the heap
  MaxRequests,  \* bound: requests one connection may carry
  Deviations    \* what the peers, the kernel and the disk may do, see below

AllDeviations ==
  { "pipeline",      \* a peer sends a request before the last one is answered
    "keep_alive",    \* a peer sends a request after the last one is answered
    "hangup",        \* a peer ends its side before it has its answer
    "reset",         \* a peer resets the connection
    "slow",          \* the kernel takes a part of a response only
    "malformed",     \* a peer sends bytes that http_parser does not take
    "bad_url",       \* http_parser_parse_url refuses a URL that http_parser took,
                     \* as that of CONNECT host:80, or one with a port above 65535
    "split_url",     \* a request's URL arrives in two reads
    "empty_read",    \* on_read is called with nread = 0
    "unlink",        \* a file disappears between access() and ifstream
    "accept_error",  \* on_connect is called with an error
    "setup_error" }  \* an argument, fork, setsid or the listening socket fails

ASSUME HttpAssumption ==
  /\ Files \subseteq Paths
  /\ MaxRequests \in Nat
  /\ Deviations \subseteq AllDeviations

NoClient == "no client"
NoPath   == ""

VARIABLES
  process,   \* "starting", "running", or how it ended or lost its meaning
  stream,    \* Client_Impl::handle; "closed" also means the object is deleted
  parser,    \* what http_parser has seen of the current request
  path,      \* Client_Impl::path
  write,     \* Client_Impl::write_req: in flight ("queued", "done") or not
  buffer,    \* whose memory a queued write still points to
  asked,     \* history: the paths of the requests begun on the connection
  replies,   \* history: the paths whose responses were handed to uv_write
  queue,     \* the clients whose uv_work_t waits for a thread of the pool
  pc,        \* of every thread of the pool: where it is in render_resp
  serving,   \* cptr of render_resp
  filepath,  \* filepath of render_resp
  finished   \* the uv_work_t that wait for after_render

vars == <<process, stream, parser, path, write, buffer, asked, replies,
          queue, pc, serving, filepath, finished>>
connection == <<stream, parser, path, write, buffer, asked, replies>>
pool == <<queue, pc, serving, filepath, finished>>

Allowed(d) == d \in Deviations

TypeOK ==
  /\ process \in {"starting", "running", "exit", "throw", "use_after_free",
                  "request_reused", "freed_buffer"}
  /\ stream \in [Clients -> {"none", "open", "shutting", "closing", "closed"}]
  /\ parser \in [Clients -> {"start", "url", "headers"}]
  /\ path \in [Clients -> Paths \cup {NoPath}]
  /\ write \in [Clients -> {"none", "queued", "done"}]
  /\ buffer \in [Clients -> Workers \cup {"static", "freed"}]
  /\ asked \in [Clients -> Seq(Paths)]
  /\ replies \in [Clients -> Seq(Paths \cup {NoPath})]
  /\ queue \in Seq(Clients)
  /\ pc \in [Workers -> {"idle", "lookup", "write", "release"}]
  /\ serving \in [Workers -> Clients \cup {NoClient}]
  /\ \A w \in Workers : pc[w] # "idle" => serving[w] \in Clients
  /\ filepath \in [Workers -> Paths \cup {NoPath}]
  /\ finished \in Nat

Init ==
  /\ process = "starting"
  /\ stream = [c \in Clients |-> "none"]
  /\ parser = [c \in Clients |-> "start"]
  /\ path = [c \in Clients |-> NoPath]
  /\ write = [c \in Clients |-> "none"]
  /\ buffer = [c \in Clients |-> "static"]
  /\ asked = [c \in Clients |-> <<>>]
  /\ replies = [c \in Clients |-> <<>>]
  /\ queue = <<>>
  /\ pc = [w \in Workers |-> "idle"]
  /\ serving = [w \in Workers |-> NoClient]
  /\ filepath = [w \in Workers |-> NoPath]
  /\ finished = 0

\* The process ends, or steps outside what C++ defines, in this step.
Ends(how) ==
  /\ process' = how
  /\ UNCHANGED <<connection, pool>>

(***************************************************************************)
(* main, up to uv_run.                                                     *)
(***************************************************************************)

\* parse_args: getopt meets an option it does not know, or stoi a port that is
\* no number.
ParseArgsFails == Allowed("setup_error") /\ (Ends("exit") \/ Ends("throw"))

\* A CHECK of Server_Impl: the address, the socket, its bind or its listen.
ListenFails == Allowed("setup_error") /\ Ends("exit")

\* main, of the child that fork leaves: fork and setsid may fail as well.
Start ==
  /\ process = "starting"
  /\ \/ ParseArgsFails
     \/ ListenFails
     \/ /\ process' = "running"
        /\ UNCHANGED <<connection, pool>>

(***************************************************************************)
(* The loop thread: connections and what is read from them.                *)
(***************************************************************************)

\* on_connect: a new Client_Impl, accepted and reading.
OnConnect(c) ==
  /\ stream[c] = "none"
  /\ stream' = [stream EXCEPT ![c] = "open"]
  /\ UNCHANGED <<process, parser, path, write, buffer, asked, replies, pool>>

\* on_connect with a status other than 0: CHECK calls exit(1).
OnConnectError == Allowed("accept_error") /\ Ends("exit")

\* When a peer that behaves as Deviations says may begin a request.
MaySend(c) ==
  /\ Len(asked[c]) < MaxRequests
  /\ \/ asked[c] = <<>>
     \/ Allowed("pipeline")
     \/ Allowed("keep_alive") /\ Len(replies[c]) = Len(asked[c])

\* A request for p is begun and on_url stores q as its path.
Begin(c, seen, p, q) ==
  /\ parser' = [parser EXCEPT ![c] = seen]
  /\ path' = [path EXCEPT ![c] = q]
  /\ asked' = [asked EXCEPT ![c] = Append(@, p)]
  /\ UNCHANGED <<process, stream, write, buffer, replies, pool>>

\* on_read, which libuv calls only while the stream reads: on_url is called
\* with a URL that this read completes.  CHECK exits if it does not parse.
OnReadUrl(c, p) ==
  /\ stream[c] = "open" /\ parser[c] = "start" /\ MaySend(c)
  /\ \/ Allowed("bad_url") /\ Ends("exit")
     \/ Begin(c, "headers", p, p)

\* on_url with the first part of the URL p: CHECK exits if it does not parse,
\* and otherwise what parses of it, q, is stored.
OnReadUrlPart(c, p, q) ==
  /\ Allowed("split_url")
  /\ stream[c] = "open" /\ parser[c] = "start" /\ MaySend(c)
  /\ Ends("exit") \/ Begin(c, "url", p, q)

\* on_url again, with the rest of the URL as if it were a URL: CHECK exits
\* when it does not parse, and otherwise the rest alone becomes the path.
OnReadUrlRest(c, q) ==
  /\ stream[c] = "open" /\ parser[c] = "url"
  /\ \/ Ends("exit")
     \/ /\ parser' = [parser EXCEPT ![c] = "headers"]
        /\ path' = [path EXCEPT ![c] = q]
        /\ UNCHANGED <<process, stream, write, buffer, asked, replies, pool>>

\* Mutant of OnReadComplete: the stream is shut down with the request read.
OnReadCompleteShuts(c) ==
  /\ stream[c] = "open" /\ parser[c] = "headers"
  /\ parser' = [parser EXCEPT ![c] = "start"]
  /\ stream' = [stream EXCEPT ![c] = "shutting"]
  /\ queue' = Append(queue, c)
  /\ UNCHANGED <<process, path, write, buffer, asked, replies,
                 pc, serving, filepath, finished>>

\* on_read, on_message_complete: the request is whole, a thread will render.
OnReadComplete(c) ==
  /\ stream[c] = "open" /\ parser[c] = "headers"
  /\ parser' = [parser EXCEPT ![c] = "start"]
  /\ queue' = Append(queue, c)
  /\ UNCHANGED <<process, stream, path, write, buffer, asked, replies,
                 pc, serving, filepath, finished>>

\* Client_Impl::parse throws through libuv when http_parser stops early: at
\* bytes it does not take, and at a read of no bytes inside a request.
OnReadBad(c) ==
  /\ stream[c] = "open"
  /\ \/ Allowed("malformed")
     \/ Allowed("empty_read") /\ parser[c] # "start"
  /\ Ends("throw")

\* When a peer may end its side: once it asks for nothing more, has what it
\* asked for and the kernel has the whole response; any time if it deviates.
MayEnd(c) ==
  \/ /\ parser[c] = "start"
     /\ Len(replies[c]) = Len(asked[c])
     /\ write[c] # "queued"
  \/ Allowed("hangup")
  \/ Allowed("reset")

\* Mutant of OnReadEnd: uv_close at once, where uv_shutdown waits.
OnReadEndCloses(c) ==
  /\ stream[c] = "open" /\ MayEnd(c)
  /\ stream' = [stream EXCEPT ![c] = "closing"]
  /\ UNCHANGED <<process, parser, path, write, buffer, asked, replies, pool>>

\* on_read with UV_EOF or an error: uv_shutdown waits for the write queue.
OnReadEnd(c) ==
  /\ stream[c] = "open" /\ MayEnd(c)
  /\ stream' = [stream EXCEPT ![c] = "shutting"]
  /\ UNCHANGED <<process, parser, path, write, buffer, asked, replies, pool>>

(***************************************************************************)
(* The loop thread: what libuv runs when the stream is writable.           *)
(***************************************************************************)

\* The kernel takes the rest of a response it first took a part of.
Flush(c) ==
  /\ write[c] = "queued"
  /\ IF buffer[c] = "freed"
     THEN Ends("freed_buffer")
     ELSE /\ write' = [write EXCEPT ![c] = "done"]
          /\ UNCHANGED <<process, stream, parser, path, buffer, asked, replies,
                         pool>>

\* Mutant of OnWrite: the stream stays open.
OnWriteStaysOpen(c) ==
  /\ write[c] = "done"
  /\ write' = [write EXCEPT ![c] = "none"]
  /\ UNCHANGED <<process, stream, parser, path, buffer, asked, replies, pool>>

\* on_write.  uv_shutdown is accepted on an open stream only; the write queue
\* being empty, libuv shuts down at once and shutdown_after_wr closes.  If
\* it is refused, the uv_shutdown_t leaks and nothing else happens.
OnWrite(c) ==
  /\ write[c] = "done"
  /\ write' = [write EXCEPT ![c] = "none"]
  /\ stream' = [stream EXCEPT ![c] = IF @ = "open" THEN "closing" ELSE @]
  /\ UNCHANGED <<process, parser, path, buffer, asked, replies, pool>>

\* The write queue is empty, its callbacks have run: on_shutdown, whose CHECK
\* exits when shutdown(2) fails because the peer has reset the connection.
Drain(c) ==
  /\ stream[c] = "shutting" /\ write[c] = "none"
  /\ \/ Allowed("reset") /\ Ends("exit")
     \/ /\ stream' = [stream EXCEPT ![c] = "closing"]
        /\ UNCHANGED <<process, parser, path, write, buffer, asked, replies,
                       pool>>

\* on_close or close_after_wr: the Client_Impl is deleted.
OnClose(c) ==
  /\ stream[c] = "closing"
  /\ stream' = [stream EXCEPT ![c] = "closed"]
  /\ UNCHANGED <<process, parser, path, write, buffer, asked, replies, pool>>

(***************************************************************************)
(* The threads of the pool: render_resp, and after_render on the loop.     *)
(***************************************************************************)

\* Mutant of RenderStart: the path of the client that asked last.
RenderStartNewest(w) ==
  /\ pc[w] = "idle" /\ queue # <<>>
  /\ stream[Head(queue)] # "closed"
  /\ queue' = Tail(queue)
  /\ pc' = [pc EXCEPT ![w] = "lookup"]
  /\ serving' = [serving EXCEPT ![w] = Head(queue)]
  /\ filepath' = [filepath EXCEPT ![w] = path[queue[Len(queue)]]]
  /\ UNCHANGED <<process, connection, finished>>

\* A thread takes the next uv_work_t and reads the path.
RenderStart(w) ==
  /\ pc[w] = "idle" /\ queue # <<>>
  /\ stream[Head(queue)] # "closed"
  /\ queue' = Tail(queue)
  /\ pc' = [pc EXCEPT ![w] = "lookup"]
  /\ serving' = [serving EXCEPT ![w] = Head(queue)]
  /\ filepath' = [filepath EXCEPT ![w] = path[Head(queue)]]
  /\ UNCHANGED <<process, connection, finished>>

\* access, stat and the read of the file.  A file that is gone by the time it
\* is opened has tellg() = -1, and the string of that size throws.
RenderLookup(w) ==
  /\ pc[w] = "lookup" /\ stream[serving[w]] # "closed"
  /\ \/ /\ Allowed("unlink") /\ filepath[w] \in Files
        /\ Ends("throw")
     \/ /\ pc' = [pc EXCEPT ![w] = "write"]
        /\ UNCHANGED <<process, connection, queue, serving, filepath, finished>>

\* The kernel takes the response, or the first part of it.
Send(w, c) ==
  /\ \/ write' = [write EXCEPT ![c] = "done"]
     \/ Allowed("slow") /\ write' = [write EXCEPT ![c] = "queued"]
  /\ buffer' = [buffer EXCEPT ![c] = IF filepath[w] \in Files THEN w ELSE "static"]
  /\ replies' = [replies EXCEPT ![c] = Append(@, filepath[w])]
  /\ pc' = [pc EXCEPT ![w] = "release"]
  /\ UNCHANGED <<process, stream, parser, path, asked, queue, serving, filepath,
                 finished>>

\* uv_write on the client's one request.  A handle that is closing has no
\* descriptor, and CHECK exits.  The request is good for one write at a time.
RenderWrite(w) ==
  /\ pc[w] = "write"
  /\ \/ stream[serving[w]] = "closing" /\ Ends("exit")
     \/ /\ stream[serving[w]] \notin {"closing", "closed"}
        /\ \/ write[serving[w]] # "none" /\ Ends("request_reused")
           \/ write[serving[w]] = "none" /\ Send(w, serving[w])

\* render_resp uses cptr at each of these steps: after its Client_Impl is
\* deleted, what the use does is undefined.
UseAfterFree(w) ==
  /\ \/ pc[w] = "idle" /\ queue # <<>> /\ stream[Head(queue)] = "closed"
     \/ pc[w] \in {"lookup", "write"} /\ stream[serving[w]] = "closed"
  /\ Ends("use_after_free")

\* The heap response is deleted, whether or not the kernel has all of it.
RenderRelease(w) ==
  LET c == serving[w]
  IN /\ pc[w] = "release"
     /\ buffer' = [buffer EXCEPT ![c] = IF @ = w THEN "freed" ELSE @]
     /\ pc' = [pc EXCEPT ![w] = "idle"]
     /\ serving' = [serving EXCEPT ![w] = NoClient]
     /\ filepath' = [filepath EXCEPT ![w] = NoPath]
     /\ finished' = finished + 1
     /\ UNCHANGED <<process, stream, parser, path, write, asked, replies, queue>>

\* Mutant of AfterRender: it misses the last.
AfterRenderMissesOne ==
  /\ finished > 1
  /\ finished' = finished - 1
  /\ UNCHANGED <<process, connection, queue, pc, serving, filepath>>

\* after_render: the loop deletes the uv_work_t.
AfterRender ==
  /\ finished > 0
  /\ finished' = finished - 1
  /\ UNCHANGED <<process, connection, queue, pc, serving, filepath>>

(***************************************************************************)
(* The specification.                                                      *)
(***************************************************************************)

Read(c) ==
  \/ \E p \in Paths : OnReadUrl(c, p)
  \/ \E p, q \in Paths : OnReadUrlPart(c, p, q)
  \/ \E q \in Paths : OnReadUrlRest(c, q)
  \/ OnReadComplete(c)
  \/ OnReadBad(c)
  \/ OnReadEnd(c)

Writable(c) == Flush(c) \/ OnWrite(c) \/ Drain(c)

Render(w) ==
  \/ RenderStart(w) \/ RenderLookup(w) \/ RenderWrite(w) \/ RenderRelease(w)
  \/ UseAfterFree(w)

\* uv_run.
Serve ==
  /\ process = "running"
  /\ \/ OnConnectError
     \/ AfterRender
     \/ \E c \in Clients : OnConnect(c) \/ Read(c) \/ Writable(c) \/ OnClose(c)
     \/ \E w \in Workers : Render(w)

Next == Start \/ Serve

\* uv_run serves every ready descriptor and closing handle, the pool's threads
\* run, and a peer that began a request sends the rest of it.
Fairness ==
  /\ \A c \in Clients :
       /\ WF_vars(process = "running" /\ OnReadComplete(c))
       /\ WF_vars(process = "running" /\ Writable(c))
       /\ WF_vars(process = "running" /\ OnClose(c))
  /\ \A w \in Workers : WF_vars(process = "running" /\ Render(w))
  /\ WF_vars(process = "running" /\ AfterRender)

Spec == Init /\ [][Next]_vars
FairSpec == Spec /\ Fairness
===============================================================================
