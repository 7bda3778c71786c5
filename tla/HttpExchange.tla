----------------------------- MODULE HttpExchange -----------------------------
(***************************************************************************)
(* What Multithread/week9/http_server.cpp promises a peer that behaves:    *)
(* one request, the response to that very request, and then the end of the *)
(* connection.  There is no step in which the server dies, none that drops *)
(* a request, and none that answers another one.                           *)
(***************************************************************************)
EXTENDS Naturals, Sequences

CONSTANTS Clients, Paths

NoRequest == ""

VARIABLES status, request, answer

xvars == <<status, request, answer>>

XInit ==
  /\ status = [c \in Clients |-> "away"]
  /\ request = [c \in Clients |-> NoRequest]
  /\ answer = [c \in Clients |-> NoRequest]

Connect(c) ==
  /\ status[c] = "away"
  /\ status' = [status EXCEPT ![c] = "connected"]
  /\ UNCHANGED <<request, answer>>

Ask(c, p) ==
  /\ status[c] = "connected"
  /\ status' = [status EXCEPT ![c] = "asked"]
  /\ request' = [request EXCEPT ![c] = p]
  /\ UNCHANGED answer

Answer(c) ==
  /\ status[c] = "asked"
  /\ status' = [status EXCEPT ![c] = "answered"]
  /\ answer' = [answer EXCEPT ![c] = request[c]]
  /\ UNCHANGED request

\* The connection ends, with nothing asked or with the request answered.
Leave(c) ==
  /\ status[c] \in {"connected", "answered"}
  /\ status' = [status EXCEPT ![c] = "gone"]
  /\ UNCHANGED <<request, answer>>

XNext ==
  \E c \in Clients :
    Connect(c) \/ Answer(c) \/ Leave(c) \/ \E p \in Paths : Ask(c, p)

\* A request is answered, and what is answered ends.
XFairness ==
  \A c \in Clients :
    /\ WF_xvars(Answer(c))
    /\ WF_xvars(status[c] = "answered" /\ Leave(c))

XSpec == XInit /\ [][XNext]_xvars /\ XFairness
===============================================================================
