----------------------------- MODULE Multiplexer -----------------------------
(***************************************************************************)
(* The server side of the watch pipeline:                                  *)
(* services/k8s-service-go/internal/ws/multiplexer.go.                     *)
(*                                                                         *)
(* Every WebSocket connection has a reader (the HandleWebSocket loop), a   *)
(* writer goroutine draining a bounded channel, and one runWatch goroutine *)
(* for every REQUEST it registered.  The map of subscriptions is shared by *)
(* all connections; its critical sections do not block, so each is one     *)
(* step here.  A goroutine is named by its key and by how many goroutines  *)
(* that key has had: goroutine n of key k.                                 *)
(*                                                                         *)
(* Frames keep their kind, their path and the goroutine that produced      *)
(* them.  A resource version is the bundle (the cluster) it was read from, *)
(* 0 for the empty string, with a flag saying the API server has compacted *)
(* it.  Events that are not Unstructured change nothing and are left out.  *)
(***************************************************************************)
EXTENDS Naturals, Sequences, FiniteSets

CONSTANTS
    Conn,        \* WebSocket connections
    Path,        \* the (cluster, path, query) triples a client may ask for
    BadPath,     \* those parsePath or resourceToGVR rejects
    MaxSubs,     \* const maxSubscriptions (200 in the code)
    BufSize,     \* capacity of sendCh (256 in the code)
    MaxSpawn,    \* bound: goroutines one key may have in a behaviour
    MaxBundle,   \* bound: kubeconfig bundles installed in a behaviour
    Compaction   \* whether the API server compacts resource versions

ASSUME MuxAssumption ==
    /\ Path # {} /\ BadPath \subseteq Path
    /\ IsFiniteSet(Conn) /\ IsFiniteSet(Path)
    /\ MaxSubs \in Nat \ {0}
    /\ BufSize \in Nat \ {0}
    /\ MaxSpawn \in Nat \ {0}
    /\ MaxBundle \in Nat \ {0}
    /\ Compaction \in BOOLEAN

Key == Conn \X Path
Nth == 1..MaxSpawn

VARIABLES
    bundle,      \* the kubeconfig bundle the provider holds, 0 while none is loaded
    peer,        \* peer[c]: the client still has its end of c open
    reader,      \* reader[c]: where the HandleWebSocket loop of c is
    rejected,    \* rejected[c]: the path whose ERROR frame a full map owes c
    writer,      \* writer[c]: "off", "running" or "dead"
    ctxDone,     \* ctxDone[c]: the context of the connection is cancelled
    sendCh,      \* sendCh[c]: the frames queued for the writer
    subs,        \* subs[k]: the goroutine whose cancel function the map holds, 0 if absent
    wsSubKeys,   \* wsSubKeys[c]: the paths the reader of c registered
    spawned,     \* spawned[k]: how many goroutines key k has had
    closed,      \* closed[k][n]: the cancel function of goroutine n of k was called
    stage,       \* stage[k][n]: where goroutine n of k is
    origin,      \* origin[k][n]: the bundle its open watch was made with
    rv,          \* rv[k][n]: the bundle lastResourceVersion comes from, 0 if empty
    expired,     \* expired[k][n]: lastResourceVersion has been compacted
    late         \* late[k][n]: frames goroutine n of k queued after its cancellation

connVars  == <<peer, reader, rejected, writer, ctxDone, wsSubKeys>>
watchVars == <<origin, rv, expired, late>>
vars == <<bundle, connVars, sendCh, subs, spawned, closed, stage, watchVars>>

-----------------------------------------------------------------------------
ReaderState == {"off", "reading", "rejecting", "leaving", "done"}
Stage == {"unborn", "check", "open", "failing", "refusing", "watching",
          "sending", "sleep", "refused", "gone"}
Frame == [type : {"DATA", "ERROR"}, path : Path]

\* ctx.Err() # nil in runWatch: its own cancel, or that of its connection.
Cancelled(k, n) == closed[k][n] \/ ctxDone[k[1]]

\* runWatch has not returned.
Running(k, n) == stage[k][n] \notin {"unborn", "refused", "gone"}

Live(k, n) == Running(k, n) /\ ~Cancelled(k, n)

Registered == {k \in Key : subs[k] # 0}

Room(c) == Len(sendCh[c]) < BufSize

\* Goroutine n of k moves on; every other one stays where it is.
Goto(k, n, s) == stage' = [stage EXCEPT ![k][n] = s]

\* A frame enters the channel: only when there is room, the send blocks otherwise.
Send(c, type, p) ==
    /\ Room(c)
    /\ sendCh' = [sendCh EXCEPT ![c] = Append(@, [type |-> type, path |-> p])]

\* The same from a goroutine, which counts a frame sent after its cancellation.
SendFrom(k, n, type) ==
    /\ Send(k[1], type, k[2])
    /\ late' = [late EXCEPT ![k][n] = IF Cancelled(k, n) THEN @ + 1 ELSE @]
-----------------------------------------------------------------------------
Init ==
    /\ bundle \in {0, 1}
    /\ peer      = [c \in Conn |-> FALSE]
    /\ reader    = [c \in Conn |-> "off"]
    /\ rejected  = [c \in Conn |-> CHOOSE p \in Path : TRUE]
    /\ writer    = [c \in Conn |-> "off"]
    /\ ctxDone   = [c \in Conn |-> FALSE]
    /\ sendCh    = [c \in Conn |-> <<>>]
    /\ subs      = [k \in Key |-> 0]
    /\ wsSubKeys = [c \in Conn |-> {}]
    /\ spawned   = [k \in Key |-> 0]
    /\ closed    = [k \in Key |-> [n \in Nth |-> FALSE]]
    /\ stage     = [k \in Key |-> [n \in Nth |-> "unborn"]]
    /\ origin    = [k \in Key |-> [n \in Nth |-> 0]]
    /\ rv        = [k \in Key |-> [n \in Nth |-> 0]]
    /\ expired   = [k \in Key |-> [n \in Nth |-> FALSE]]
    /\ late      = [k \in Key |-> [n \in Nth |-> 0]]

-----------------------------------------------------------------------------
(* The provider, the client and the API server. *)

\* A new kubeconfig is installed (installBundle); no code path removes one.
Reload ==
    /\ bundle < MaxBundle
    /\ bundle' = bundle + 1
    /\ UNCHANGED <<connVars, sendCh, subs, spawned, closed, stage, watchVars>>

\* The client is gone: reads and writes on the connection begin to fail.
PeerLeaves(c) ==
    /\ peer[c]
    /\ peer' = [peer EXCEPT ![c] = FALSE]
    /\ UNCHANGED <<bundle, reader, rejected, writer, ctxDone, wsSubKeys, sendCh,
                   subs, spawned, closed, stage, watchVars>>

\* etcd compaction passes the version a goroutine would resume from.  An open
\* stream does not notice, so the step is taken between two streams.
Compact(k, n) ==
    /\ Compaction
    /\ stage[k][n] \in {"sleep", "check", "open"}
    /\ rv[k][n] # 0 /\ ~expired[k][n]
    /\ expired' = [expired EXCEPT ![k][n] = TRUE]
    /\ UNCHANGED <<bundle, connVars, sendCh, subs, spawned, closed, stage,
                   origin, rv, late>>

-----------------------------------------------------------------------------
(* The reader of a connection. *)

\* The upgrade succeeded: the writer is started and the loop begins.
Connect(c) ==
    /\ reader[c] = "off"
    /\ peer'   = [peer EXCEPT ![c] = TRUE]
    /\ reader' = [reader EXCEPT ![c] = "reading"]
    /\ writer' = [writer EXCEPT ![c] = "running"]
    /\ UNCHANGED <<bundle, rejected, ctxDone, wsSubKeys, sendCh, subs, spawned,
                   closed, stage, watchVars>>

\* REQUEST of a key the map knows already: the frame is dropped.
SkipRequest(k) ==
    /\ reader[k[1]] = "reading"
    /\ subs[k] # 0
    /\ UNCHANGED vars

\* REQUEST when the map is full: the reader owes the client an ERROR frame.
RejectRequest(k) ==
    /\ reader[k[1]] = "reading"
    /\ subs[k] = 0
    /\ Cardinality(Registered) >= MaxSubs
    /\ reader'   = [reader EXCEPT ![k[1]] = "rejecting"]
    /\ rejected' = [rejected EXCEPT ![k[1]] = k[2]]
    /\ UNCHANGED <<bundle, peer, writer, ctxDone, wsSubKeys, sendCh, subs,
                   spawned, closed, stage, watchVars>>

\* The send of that frame: it blocks the reader while the channel is full.
SendReject(c) ==
    /\ reader[c] = "rejecting"
    /\ Send(c, "ERROR", rejected[c])
    /\ reader' = [reader EXCEPT ![c] = "reading"]
    /\ UNCHANGED <<bundle, peer, rejected, writer, ctxDone, wsSubKeys, subs,
                   spawned, closed, stage, watchVars>>

\* Mutant: the key is not noted for the cleanup.
AcceptUntracked(k) ==
    /\ reader[k[1]] = "reading"
    /\ subs[k] = 0
    /\ Cardinality(Registered) < MaxSubs
    /\ spawned[k] < MaxSpawn
    /\ spawned' = [spawned EXCEPT ![k] = @ + 1]
    /\ subs'    = [subs EXCEPT ![k] = spawned[k] + 1]
    /\ Goto(k, spawned[k] + 1, IF k[2] \in BadPath THEN "refusing" ELSE "check")
    /\ UNCHANGED <<bundle, connVars, sendCh, closed, watchVars>>

\* Mutant: a key that is registered already is accepted again.
AcceptAgain(k) ==
    /\ reader[k[1]] = "reading"
    /\ Cardinality(Registered \ {k}) < MaxSubs
    /\ spawned[k] < MaxSpawn
    /\ spawned'   = [spawned EXCEPT ![k] = @ + 1]
    /\ subs'      = [subs EXCEPT ![k] = spawned[k] + 1]
    /\ wsSubKeys' = [wsSubKeys EXCEPT ![k[1]] = @ \cup {k[2]}]
    /\ Goto(k, spawned[k] + 1, IF k[2] \in BadPath THEN "refusing" ELSE "check")
    /\ UNCHANGED <<bundle, peer, reader, rejected, writer, ctxDone, sendCh,
                   closed, watchVars>>

\* REQUEST of a new key: it is registered and its goroutine starts.  What
\* parsePath and resourceToGVR reject goes straight to its ERROR frame.
AcceptRequest(k) ==
    /\ reader[k[1]] = "reading"
    /\ subs[k] = 0
    /\ Cardinality(Registered) < MaxSubs
    /\ spawned[k] < MaxSpawn
    /\ spawned'   = [spawned EXCEPT ![k] = @ + 1]
    /\ subs'      = [subs EXCEPT ![k] = spawned[k] + 1]
    /\ wsSubKeys' = [wsSubKeys EXCEPT ![k[1]] = @ \cup {k[2]}]
    /\ Goto(k, spawned[k] + 1, IF k[2] \in BadPath THEN "refusing" ELSE "check")
    /\ UNCHANGED <<bundle, peer, reader, rejected, writer, ctxDone, sendCh,
                   closed, watchVars>>

\* CLOSE of a registered key; the CLOSE of any other key changes nothing.
CloseRequest(k) ==
    /\ reader[k[1]] = "reading"
    /\ subs[k] # 0
    /\ closed' = [closed EXCEPT ![k][subs[k]] = TRUE]
    /\ subs'   = [subs EXCEPT ![k] = 0]
    /\ UNCHANGED <<bundle, connVars, sendCh, spawned, stage, watchVars>>

\* Mutant: the cleanup waits until the writer has drained the channel.
CleanupAfterDrain(c) ==
    LET mine == {k \in Key : k[1] = c /\ k[2] \in wsSubKeys[c] /\ subs[k] # 0}
    IN  /\ reader[c] = "reading"
        /\ ~peer[c] /\ sendCh[c] = <<>>
        /\ closed' = [k \in Key |-> IF k \in mine
                                    THEN [closed[k] EXCEPT ![subs[k]] = TRUE]
                                    ELSE closed[k]]
        /\ subs'   = [k \in Key |-> IF k \in mine THEN 0 ELSE subs[k]]
        /\ reader' = [reader EXCEPT ![c] = "leaving"]
        /\ UNCHANGED <<bundle, peer, rejected, writer, ctxDone, wsSubKeys, sendCh,
                       spawned, stage, watchVars>>

\* ReadMessage fails: the deferred cleanup cancels and removes, under the
\* lock, every entry whose key this reader registered.
Cleanup(c) ==
    LET mine == {k \in Key : k[1] = c /\ k[2] \in wsSubKeys[c] /\ subs[k] # 0}
    IN  /\ reader[c] = "reading"
        /\ ~peer[c]
        /\ closed' = [k \in Key |-> IF k \in mine
                                    THEN [closed[k] EXCEPT ![subs[k]] = TRUE]
                                    ELSE closed[k]]
        /\ subs'   = [k \in Key |-> IF k \in mine THEN 0 ELSE subs[k]]
        /\ reader' = [reader EXCEPT ![c] = "leaving"]
        /\ UNCHANGED <<bundle, peer, rejected, writer, ctxDone, wsSubKeys, sendCh,
                       spawned, stage, watchVars>>

\* The other deferred calls: cancel the connection's context, close it.
Leave(c) ==
    /\ reader[c] = "leaving"
    /\ reader'  = [reader EXCEPT ![c] = "done"]
    /\ ctxDone' = [ctxDone EXCEPT ![c] = TRUE]
    /\ UNCHANGED <<bundle, peer, rejected, writer, wsSubKeys, sendCh, subs,
                   spawned, closed, stage, watchVars>>

-----------------------------------------------------------------------------
(* The writer of a connection. *)

\* The select takes a frame and the write succeeds.
WriteFrame(c) ==
    /\ writer[c] = "running"
    /\ sendCh[c] # <<>>
    /\ sendCh' = [sendCh EXCEPT ![c] = Tail(@)]
    /\ UNCHANGED <<bundle, connVars, subs, spawned, closed, stage, watchVars>>

\* The select takes a frame and the write fails: the goroutine returns, and
\* neither the context nor the connection learns of it.
WriteFails(c) ==
    /\ writer[c] = "running"
    /\ sendCh[c] # <<>>
    /\ ~peer[c]
    /\ sendCh' = [sendCh EXCEPT ![c] = Tail(@)]
    /\ writer' = [writer EXCEPT ![c] = "dead"]
    /\ UNCHANGED <<bundle, peer, reader, rejected, ctxDone, wsSubKeys, subs,
                   spawned, closed, stage, watchVars>>

\* The select takes ctx.Done().
WriterStops(c) ==
    /\ writer[c] = "running"
    /\ ctxDone[c]
    /\ writer' = [writer EXCEPT ![c] = "dead"]
    /\ UNCHANGED <<bundle, peer, reader, rejected, ctxDone, wsSubKeys, sendCh,
                   subs, spawned, closed, stage, watchVars>>

-----------------------------------------------------------------------------
(* runWatch. *)

\* The head of the loop.
Check(k, n) ==
    /\ stage[k][n] = "check"
    /\ Goto(k, n, IF Cancelled(k, n) THEN "gone" ELSE "open")
    /\ UNCHANGED <<bundle, connVars, sendCh, subs, spawned, closed, watchVars>>

\* Mutant: the goroutine returns without telling the client.
OpenUnloadedSilently(k, n) ==
    /\ stage[k][n] = "open"
    /\ bundle = 0
    /\ Goto(k, n, "gone")
    /\ UNCHANGED <<bundle, connVars, sendCh, subs, spawned, closed, watchVars>>

\* provider.Dynamic() is nil: the goroutine will send an ERROR and return.
OpenUnloaded(k, n) ==
    /\ stage[k][n] = "open"
    /\ bundle = 0
    /\ Goto(k, n, "refusing")
    /\ UNCHANGED <<bundle, connVars, sendCh, subs, spawned, closed, watchVars>>

\* Watch() succeeds: the stream is open on the bundle just read.
OpenWatch(k, n) ==
    /\ stage[k][n] = "open"
    /\ bundle # 0
    /\ ~Cancelled(k, n)
    /\ Goto(k, n, "watching")
    /\ origin' = [origin EXCEPT ![k][n] = bundle]
    /\ UNCHANGED <<bundle, connVars, sendCh, subs, spawned, closed, rv, expired,
                   late>>

\* Watch() fails: API error, compacted version, or cancelled context.
OpenFails(k, n) ==
    /\ stage[k][n] = "open"
    /\ bundle # 0
    /\ Goto(k, n, "failing")
    /\ UNCHANGED <<bundle, connVars, sendCh, subs, spawned, closed, watchVars>>

\* The ERROR frame of a failed Watch(), then five seconds of sleep.
SendFailure(k, n) ==
    /\ stage[k][n] = "failing"
    /\ SendFrom(k, n, "ERROR")
    /\ Goto(k, n, "sleep")
    /\ UNCHANGED <<bundle, connVars, subs, spawned, closed, origin, rv, expired>>

\* The ERROR frame of a watch that cannot be served: runWatch returns, and
\* the entry of the key stays in the map.
SendRefusal(k, n) ==
    /\ stage[k][n] = "refusing"
    /\ SendFrom(k, n, "ERROR")
    /\ Goto(k, n, "refused")
    /\ UNCHANGED <<bundle, connVars, subs, spawned, closed, origin, rv, expired>>

\* Mutant: the context is not checked before an event is handled.
EventUnchecked(k, n) ==
    /\ stage[k][n] = "watching"
    /\ ~(expired[k][n] /\ rv[k][n] = origin[k][n])
    /\ Goto(k, n, "sending")
    /\ rv'      = [rv EXCEPT ![k][n] = origin[k][n]]
    /\ expired' = [expired EXCEPT ![k][n] = FALSE]
    /\ UNCHANGED <<bundle, connVars, sendCh, subs, spawned, closed, origin, late>>

\* An event: lastResourceVersion moves and a frame is due.  A watch resumed
\* from a compacted version never delivers one.
Event(k, n) ==
    /\ stage[k][n] = "watching"
    /\ ~Cancelled(k, n)
    /\ ~(expired[k][n] /\ rv[k][n] = origin[k][n])
    /\ Goto(k, n, "sending")
    /\ rv'      = [rv EXCEPT ![k][n] = origin[k][n]]
    /\ expired' = [expired EXCEPT ![k][n] = FALSE]
    /\ UNCHANGED <<bundle, connVars, sendCh, subs, spawned, closed, origin, late>>

\* The DATA frame of the event; it is not withdrawn when a CLOSE comes first.
SendData(k, n) ==
    /\ stage[k][n] = "sending"
    /\ SendFrom(k, n, "DATA")
    /\ Goto(k, n, "watching")
    /\ UNCHANGED <<bundle, connVars, subs, spawned, closed, origin, rv, expired>>

\* Mutant: the watch is not made with the context of the subscription.
StreamOutlivesCancel(k, n) ==
    /\ stage[k][n] = "watching"
    /\ ~Cancelled(k, n)
    /\ Goto(k, n, "sleep")
    /\ UNCHANGED <<bundle, connVars, sendCh, subs, spawned, closed, watchVars>>

\* The stream ends (timeout, API server restart, compacted version): one
\* second of sleep, unless the context is cancelled.  An event that finds
\* the context cancelled ends the goroutine as well.
StreamEnds(k, n) ==
    /\ stage[k][n] = "watching"
    /\ Goto(k, n, IF Cancelled(k, n) THEN "gone" ELSE "sleep")
    /\ UNCHANGED <<bundle, connVars, sendCh, subs, spawned, closed, watchVars>>

\* Mutant: the goroutine returns instead of going round its loop.
WakeReturns(k, n) ==
    /\ stage[k][n] = "sleep"
    /\ Goto(k, n, "gone")
    /\ UNCHANGED <<bundle, connVars, sendCh, subs, spawned, closed, watchVars>>

\* The sleep is over.
Wake(k, n) ==
    /\ stage[k][n] = "sleep"
    /\ Goto(k, n, "check")
    /\ UNCHANGED <<bundle, connVars, sendCh, subs, spawned, closed, watchVars>>

-----------------------------------------------------------------------------
ReaderStep(c) ==
    \/ Connect(c) \/ SendReject(c) \/ Cleanup(c) \/ Leave(c)
    \/ \E p \in Path : \/ SkipRequest(<<c, p>>) \/ RejectRequest(<<c, p>>)
                       \/ AcceptRequest(<<c, p>>) \/ CloseRequest(<<c, p>>)

WriterStep(c) == WriteFrame(c) \/ WriteFails(c) \/ WriterStops(c)

WatchStep(k, n) ==
    \/ Check(k, n) \/ OpenUnloaded(k, n) \/ OpenWatch(k, n) \/ OpenFails(k, n)
    \/ SendFailure(k, n) \/ SendRefusal(k, n) \/ Event(k, n) \/ SendData(k, n)
    \/ StreamEnds(k, n) \/ Wake(k, n)

Next ==
    \/ Reload
    \/ \E c \in Conn : PeerLeaves(c) \/ ReaderStep(c) \/ WriterStep(c)
    \/ \E k \in Key, n \in Nth : Compact(k, n) \/ WatchStep(k, n)

Spec == Init /\ [][Next]_vars

(***************************************************************************)
(* Fairness: a goroutine that can run does run; Go serves the senders that *)
(* block on a channel in the order they came, so a send that is possible   *)
(* again and again happens (strong fairness); a stream ends at the latest  *)
(* with its TimeoutSeconds; an API server that is asked again and again    *)
(* accepts the watch at some point.  A client that is gone has left a      *)
(* finite number of requests, so its reader gets to the failing read       *)
(* (strong fairness of Cleanup).  A connected client keeps reading: the    *)
(* code sets no write deadline, so a client that stays and stops reading   *)
(* would block the writer.  Requests, departures, Reload and Compact are   *)
(* not fair.                                                               *)
(***************************************************************************)
SendStep(k, n) == SendFailure(k, n) \/ SendRefusal(k, n) \/ SendData(k, n)

Fairness ==
    /\ \A c \in Conn :
          /\ SF_vars(Cleanup(c)) /\ WF_vars(Leave(c))
          /\ WF_vars(WriteFrame(c)) /\ WF_vars(WriterStops(c))
          /\ SF_vars(SendReject(c))
    /\ \A k \in Key, n \in Nth :
          /\ WF_vars(WatchStep(k, n))
          /\ SF_vars(SendStep(k, n))
          /\ SF_vars(OpenWatch(k, n))

FairSpec == Spec /\ Fairness

-----------------------------------------------------------------------------
(* Properties. *)

TypeOK ==
    /\ bundle \in 0..MaxBundle
    /\ peer \in [Conn -> BOOLEAN]
    /\ reader \in [Conn -> ReaderState]
    /\ rejected \in [Conn -> Path]
    /\ writer \in [Conn -> {"off", "running", "dead"}]
    /\ ctxDone \in [Conn -> BOOLEAN]
    /\ sendCh \in [Conn -> Seq(Frame)]
    /\ \A c \in Conn : Len(sendCh[c]) <= BufSize
    /\ subs \in [Key -> 0..MaxSpawn]
    /\ wsSubKeys \in [Conn -> SUBSET Path]
    /\ spawned \in [Key -> 0..MaxSpawn]
    /\ closed \in [Key -> [Nth -> BOOLEAN]]
    /\ stage \in [Key -> [Nth -> Stage]]
    /\ origin \in [Key -> [Nth -> 0..MaxBundle]]
    /\ rv \in [Key -> [Nth -> 0..MaxBundle]]
    /\ expired \in [Key -> [Nth -> BOOLEAN]]
    /\ late \in [Key -> [Nth -> Nat]]

\* Every watch that still runs uncancelled is the one its key is registered
\* with: a CLOSE or the cleanup reaches it, and no key has two of them.
LiveWatchIsRegistered ==
    \A k \in Key, n \in Nth : Live(k, n) => subs[k] = n

\* The goroutine of a registered key either runs uncancelled or returned
\* after telling the client so: it never ends silently.
RegisteredIsServedOrRefused ==
    \A k \in Registered :
        \/ Live(k, subs[k])
        \/ stage[k][subs[k]] = "refused" /\ ~Cancelled(k, subs[k])

\* The deferred cleanup leaves no entry and no uncancelled goroutine of its
\* connection behind: the shared map does not fill up with dead connections.
NothingOutlivesConnection ==
    \A c \in Conn : reader[c] \in {"leaving", "done"} =>
        \A k \in Key, n \in Nth : k[1] = c => subs[k] = 0 /\ ~Live(k, n)

\* The limit holds across all connections.
SubscriptionLimit == Cardinality(Registered) <= MaxSubs

\* A goroutine queues at most one frame after its CLOSE: the one it was
\* about to send.  A client may meet one stale frame of a watch, not two.
AtMostOneLateFrame == \A k \in Key, n \in Nth : late[k][n] <= 1

\* The inductive invariant behind the five above.  The map holds the newest
\* goroutine of a key and every older one is cancelled; an entry is covered by
\* the key list of its reader, which is what makes the cleanup complete; and
\* a goroutine that sent a frame too late is on its way out.
RegistryInv ==
    /\ \A k \in Key :
          /\ subs[k] \in {0, spawned[k]}
          /\ subs[k] # 0 => /\ ~closed[k][subs[k]]
                            /\ k[2] \in wsSubKeys[k[1]]
                            /\ reader[k[1]] \notin {"leaving", "done"}
    /\ \A k \in Key, n \in Nth :
          /\ stage[k][n] = "unborn" <=> n > spawned[k]
          /\ n <= spawned[k] /\ n # subs[k] => closed[k][n]
          /\ n > spawned[k] => ~closed[k][n] /\ late[k][n] = 0
          /\ stage[k][n] = "gone" => Cancelled(k, n)
    /\ \A c \in Conn : ctxDone[c] <=> reader[c] = "done"

LateInv ==
    \A k \in Key, n \in Nth :
        late[k][n] # 0 => /\ late[k][n] = 1
                          /\ Cancelled(k, n)
                          /\ stage[k][n] \notin {"open", "failing", "refusing", "sending"}

IInv == TypeOK /\ RegistryInv /\ LateInv /\ SubscriptionLimit

\* The map of subscriptions implements the registry: one feed per key.
feed == [k \in Key |-> IF subs[k] = 0 THEN "none"
                       ELSE IF stage[k][subs[k]] = "refused" THEN "refused"
                       ELSE "served"]

Registry == INSTANCE WatchRegistry WITH Conn <- Conn, Path <- Path, MaxSubs <- MaxSubs,
                                        feed <- feed

ImplementsRegistry == Registry!Spec

\* Nobody drains the channel any more and it is full.
Stuck(c) == writer[c] = "dead" /\ ~Room(c)

\* When the client is gone the connection is cleaned up, unless its reader
\* is blocked on the ERROR frame of a rejected REQUEST.
DepartedConnectionIsCleanedUp ==
    \A c \in Conn : (reader[c] # "off" /\ ~peer[c])
        ~> (reader[c] = "done" \/ (reader[c] = "rejecting" /\ Stuck(c)))

\* A cancelled goroutine returns, unless it is blocked on the channel of a
\* connection whose writer has returned.
CancelledWatchReturns ==
    \A k \in Key, n \in Nth : (Cancelled(k, n) /\ Running(k, n))
        ~> (~Running(k, n) \/ Stuck(k[1]))

\* A served subscription of a connected client keeps getting an open watch,
\* through failures, ended streams and reloads, until it is closed.
ServedWatchReopens ==
    \A k \in Key, n \in Nth : (Live(k, n) /\ peer[k[1]])
        ~> (stage[k][n] \in {"watching", "sending", "refused"} \/ Cancelled(k, n) \/ ~peer[k[1]])

\* "Hot-reload of the underlying clientBundle is transparent to long-lived
\* subscriptions" (comment of ClientProvider): once a bundle is loaded, a
\* registered subscription that can be served has a goroutine serving it.
ReloadIsTransparent ==
    \A k \in Key : (bundle # 0 /\ subs[k] # 0 /\ k[2] \notin BadPath)
        ~> (subs[k] = 0 \/ (stage[k][subs[k]] \in {"watching", "sending"}) \/ ~peer[k[1]])

=============================================================================
