------------------------- MODULE HttpServerProperties -------------------------
(***************************************************************************)
(* The properties of HttpServer, named so that TLC checks them and the     *)
(* theorems of HttpServerProofs state them.                                *)
(***************************************************************************)
EXTENDS HttpServer, SequencesExt

\* A client's work is pending while it is in the queue or in render_resp up
\* to its uv_write: from then on render_resp does not use cptr.
Queued(c)      == \E i \in 1..Len(queue) : queue[i] = c
ServedBy(w, c) == pc[w] \in {"lookup", "write"} /\ serving[w] = c
Pending(c)     == Queued(c) \/ \E w \in Workers : ServedBy(w, c)

AllowedAny(ds) == Deviations \cap ds # {}

\* What can put a second request on a connection, and what can end the
\* connection before its request is answered.
MoreRequests == {"pipeline", "keep_alive"}
EarlyEnd     == {"hangup", "reset"}

(***************************************************************************)
(* A write in flight has its request: the Client_Impl that embeds the      *)
(* write_req is neither closing nor deleted while libuv may still use it,  *)
(* on whatever peer and in whatever order the callbacks run (the deletes   *)
(* of on_close and close_after_wr against uv_write in render_resp).        *)
(***************************************************************************)
WriteHasClient == \A c \in Clients : write[c] # "none" => stream[c] \in {"open", "shutting"}
WriteInv       == TypeOK /\ WriteHasClient

(***************************************************************************)
(* The server stops running only for a cause, and the state shows it.  A   *)
(* thread finds its client's stream closing, or its Client_Impl deleted,   *)
(* only on a connection that carries more than one request, or whose peer  *)
(* has ended it before any answer; the write request is used twice only    *)
(* where there is more than one request.  A connection of one request      *)
(* whose peer waits brings none of this about, whatever other connections  *)
(* do and however the loop interleaves with the threads that render; with  *)
(* no deviation the server runs for ever.                                  *)
(***************************************************************************)
ToBlame(c) ==
  \/ AllowedAny(MoreRequests) /\ Len(asked[c]) > 1
  \/ AllowedAny(EarlyEnd) /\ Len(asked[c]) = 1 /\ replies[c] = <<>>

\* A setup, an accept or a URL fails a CHECK; so does shutdown(2) after a reset,
\* and uv_write on a stream that is closing.
ExitHasCause ==
  \/ AllowedAny({"setup_error", "accept_error", "bad_url", "split_url"})
  \/ Allowed("reset") /\ \E c \in Clients : stream[c] = "shutting"
  \/ \E c \in Clients : stream[c] = "closing" /\ ToBlame(c)

EndsForCause ==
  /\ process = "exit" => ExitHasCause
  /\ process = "throw" => AllowedAny({"setup_error", "malformed", "empty_read", "unlink"})
  /\ process = "use_after_free" => \E c \in Clients : stream[c] = "closed" /\ ToBlame(c)
  /\ process = "request_reused" =>
       AllowedAny(MoreRequests) /\ \E c \in Clients : Len(asked[c]) > 1
  /\ process = "freed_buffer" => Allowed("slow")

(***************************************************************************)
(* While URLs come whole, what is handed to uv_write answers a request of  *)
(* that very connection: no thread renders the path of another client.  On *)
(* a connection of one request it is the path of that request; on one that *)
(* carries more it may be the path of another of them, which on_url has    *)
(* stored over the one a thread has yet to read.                           *)
(***************************************************************************)
Asks(c, p) == \E i \in 1..Len(asked[c]) : asked[c][i] = p

RepliesMatch ==
  ~ AllowedAny({"split_url"}) =>
    \A c \in Clients :
      /\ \A i \in 1..Len(replies[c]) : Asks(c, replies[c][i])
      /\ Len(asked[c]) <= 1 => IsPrefix(replies[c], asked[c])

(***************************************************************************)
(* A connection that carries one request and whose peer waits for the      *)
(* answer stays open while a thread may still use its Client_Impl.         *)
(***************************************************************************)
PendingIsOpen ==
  ~ AllowedAny(EarlyEnd) =>
    \A c \in Clients : Len(asked[c]) <= 1 /\ Pending(c) => stream[c] = "open"

(***************************************************************************)
(* After a request its connection is closed and its Client_Impl deleted,   *)
(* and every uv_work_t that on_message_complete allocates is deleted.      *)
(***************************************************************************)
AllIsFreed ==
  /\ \A c \in Clients : asked[c] # <<>> ~> stream[c] = "closed"
  /\ (queue # <<>> \/ finished > 0) ~> (queue = <<>> /\ finished = 0)

(***************************************************************************)
(* The inductive invariant of HttpServerProofs, by parts.                  *)
(***************************************************************************)

\* Work is only ever begun for a client that has connected.
WorkHasClient ==
  /\ \A c \in Clients : Queued(c) => stream[c] # "none"
  /\ \A w \in Workers : pc[w] # "idle" => stream[serving[w]] # "none"

\* Only a kernel that takes a part of a response leaves a write queued.
PartialWriteIsSlow == \A c \in Clients : write[c] = "queued" => Allowed("slow")

\* Only a peer whose URL comes in two reads leaves half a URL parsed.
HalfUrlIsSplit == \A c \in Clients : parser[c] = "url" => Allowed("split_url")

\* Only a peer that asks again has more than one request.
MoreIsDeviation == \A c \in Clients : Len(asked[c]) > 1 => AllowedAny(MoreRequests)

\* One uv_work_t at most stands for the client, in the queue or in a thread.
PendingOnce(c) ==
  /\ \A i, j \in 1..Len(queue) : queue[i] = c /\ queue[j] = c => i = j
  /\ \A w \in Workers : ServedBy(w, c) => ~ Queued(c)
  /\ \A w, v \in Workers : ServedBy(w, c) /\ ServedBy(v, c) => w = v

\* The one request of a connection is not begun, being read, pending or answered.
Unasked(c)  == /\ asked[c] = <<>> /\ parser[c] = "start" /\ ~ Pending(c)
               /\ write[c] = "none" /\ replies[c] = <<>>
Reading(c)  == /\ Len(asked[c]) = 1 /\ parser[c] # "start" /\ ~ Pending(c)
               /\ write[c] = "none" /\ replies[c] = <<>>
Rendered(c) == /\ Len(asked[c]) = 1 /\ parser[c] = "start" /\ Pending(c)
               /\ write[c] = "none" /\ replies[c] = <<>>
Answered(c) == /\ Len(asked[c]) = 1 /\ parser[c] = "start" /\ ~ Pending(c)
               /\ Len(replies[c]) = 1
OnePlace(c) == Unasked(c) \/ Reading(c) \/ Rendered(c) \/ Answered(c)
OneAtATime  == \A c \in Clients : Len(asked[c]) <= 1 => PendingOnce(c) /\ OnePlace(c)

\* A path goes from a request through Client_Impl to render_resp unchanged.
PathIsAsked ==
  \A c \in Clients :
    /\ parser[c] # "start" \/ Queued(c) => Asks(c, path[c])
    /\ \A w \in Workers : ServedBy(w, c) => Asks(c, filepath[w])
    /\ \A i \in 1..Len(replies[c]) : Asks(c, replies[c][i])

Basic == WorkHasClient /\ PartialWriteIsSlow /\ WriteHasClient

IInv ==
  /\ TypeOK /\ Basic /\ HalfUrlIsSplit /\ MoreIsDeviation /\ OneAtATime
  /\ EndsForCause /\ PendingIsOpen
  /\ ~ AllowedAny({"split_url"}) => PathIsAsked

(***************************************************************************)
(* With peers that behave the server implements HttpExchange.              *)
(***************************************************************************)
statusOf == [c \in Clients |->
  CASE stream[c] = "none"    -> "away"
    [] stream[c] = "closed"  -> "gone"
    [] stream[c] \notin {"none", "closed"} /\ replies[c] # <<>> -> "answered"
    [] stream[c] \notin {"none", "closed"} /\ replies[c] = <<>> ->
         IF asked[c] = <<>> THEN "connected" ELSE "asked"]
lastOf(s) == IF s = <<>> THEN NoPath ELSE Last(s)

Exchange == INSTANCE HttpExchange WITH
  status <- statusOf,
  request <- [c \in Clients |-> lastOf(asked[c])],
  answer <- [c \in Clients |-> lastOf(replies[c])]

ImplementsExchange == Exchange!XSpec
===============================================================================
