---------------------------- MODULE WatchRegistry ----------------------------
(***************************************************************************)
(* What the watch endpoint promises its clients, with the goroutines, the  *)
(* send channel and the Kubernetes API left out: every key (a connection   *)
(* and a path it asked for) has at most one feed, a feed is served from    *)
(* the REQUEST that opened it until its CLOSE or the end of the            *)
(* connection, a feed the server cannot serve is refused while it stays    *)
(* registered, and there are never more than MaxSubs registered keys.      *)
(* Multiplexer implements this specification.                              *)
(***************************************************************************)
EXTENDS Naturals, FiniteSets

CONSTANTS
    Conn,      \* WebSocket connections
    Path,      \* the (cluster, path, query) triples a client may ask for
    MaxSubs    \* const maxSubscriptions of multiplexer.go

VARIABLE feed  \* feed[k]: "none", "served" or "refused"

Key == Conn \X Path

Registered == {k \in Key : feed[k] # "none"}

Init == feed = [k \in Key |-> "none"]

Subscribe(k) ==
    /\ feed[k] = "none"
    /\ Cardinality(Registered) < MaxSubs
    /\ feed' = [feed EXCEPT ![k] = "served"]

\* Only a served feed is refused: a cancelled one is gone already.
Refuse(k) ==
    /\ feed[k] = "served"
    /\ feed' = [feed EXCEPT ![k] = "refused"]

Unsubscribe(k) ==
    /\ feed[k] # "none"
    /\ feed' = [feed EXCEPT ![k] = "none"]

\* A connection takes all its feeds with it, in one step.
Disconnect(c) ==
    feed' = [k \in Key |-> IF k[1] = c THEN "none" ELSE feed[k]]

Next ==
    \/ \E k \in Key : Subscribe(k) \/ Refuse(k) \/ Unsubscribe(k)
    \/ \E c \in Conn : Disconnect(c)

Spec == Init /\ [][Next]_feed

TypeOK == feed \in [Key -> {"none", "served", "refused"}]
=============================================================================
