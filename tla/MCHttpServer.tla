----------------------------- MODULE MCHttpServer -----------------------------
(***************************************************************************)
(* HttpServer with peers that deviate, for TLC: a behaviour is one kind of *)
(* peers'.  HttpServerProperties itself is what TLC checks with peers that *)
(* do not.                                                                 *)
(***************************************************************************)
EXTENDS HttpServerProperties, TLC

VARIABLE peers   \* "rude", "busy", "faulty" or "failing"

Rude    == INSTANCE HttpServerProperties
             WITH Deviations <- {"hangup", "reset", "slow"}
Busy    == INSTANCE HttpServerProperties
             WITH Deviations <- {"pipeline", "keep_alive", "slow"}
Faulty  == INSTANCE HttpServerProperties
             WITH Deviations <- {"malformed", "empty_read", "unlink"}
Failing == INSTANCE HttpServerProperties
             WITH Deviations <- {"bad_url", "split_url", "accept_error", "setup_error"}

MCInit == Init /\ peers \in {"rude", "busy", "faulty", "failing"}

MCNext ==
  /\ UNCHANGED peers
  /\ \/ peers = "rude"    /\ Rude!Next
     \/ peers = "busy"    /\ Busy!Next
     \/ peers = "faulty"  /\ Faulty!Next
     \/ peers = "failing" /\ Failing!Next

MCSpec == MCInit /\ [][MCNext]_<<vars, peers>>

(***************************************************************************)
(* EndsForCause of HttpServerProperties, for each kind of peers: rude ones *)
(* make it exit, or use a deleted Client_Impl, by a connection they ended  *)
(* unanswered; busy ones by a connection with a second request; faulty     *)
(* ones can only make it throw; and where a URL does not parse, an accept  *)
(* or the setup fails, it ends, and no memory is misused.                  *)
(***************************************************************************)
EachForCause ==
  /\ peers = "rude"    => Rude!EndsForCause
  /\ peers = "busy"    => Busy!EndsForCause
  /\ peers = "faulty"  => Faulty!EndsForCause
  /\ peers = "failing" => Failing!EndsForCause

(***************************************************************************)
(* RepliesMatch for the peers that hang up or ask again: whoever does so,  *)
(* or reads slowly, nobody is answered with what another asked for.        *)
(***************************************************************************)
EachRepliesMatch ==
  /\ peers = "rude" => Rude!RepliesMatch
  /\ peers = "busy" => Busy!RepliesMatch

\* Connections and threads are interchangeable.
Symmetry == Permutations(Clients) \cup Permutations(Workers)
===============================================================================
