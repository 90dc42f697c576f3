---------------------------- MODULE ClusterClients ----------------------------
(***************************************************************************)
(* The Kubernetes clients of k8s-service and what is cached about their    *)
(* cluster: services/k8s-service-go/internal/k8s/client.go, watcher.go,    *)
(* the API version probe of gateway.go (gpu.go and resources.go have the   *)
(* same one) and the read-through cache of cache/redis.go, in the mode     *)
(* where the kubeconfig file is watched.                                   *)
(*                                                                         *)
(* A kubeconfig, the bundle of clients built from it and the cluster it    *)
(* leads to are one number: the number of the write that made the file.    *)
(* The cache has one key, its entry is the bundle the value came from.     *)
(* The three caches behind a mutex are represented by the one of           *)
(* gateway.go; its mutex is held exactly while a request probes.           *)
(***************************************************************************)
EXTENDS Naturals, FiniteSets

CONSTANTS
    YamlReq,      \* requests that read through the cache (GetResourceYAML)
    GatewayReq,   \* requests that need the detected API version (GetGateways)
    Reload,       \* debounce callbacks that can run at the same time
    MaxWrite,     \* bound: kubeconfigs written in a behaviour
    BadConfig,    \* those that cannot be parsed
    RedisFails,   \* whether Redis may fail to flush
    WriteAtBoot   \* whether the file can change while the watcher is starting

ASSUME ClientsAssumption ==
    /\ YamlReq \cap GatewayReq = {}
    /\ MaxWrite \in Nat
    /\ BadConfig \subseteq 1..MaxWrite
    /\ RedisFails \in BOOLEAN
    /\ WriteAtBoot \in BOOLEAN

Req == YamlReq \cup GatewayReq
Bundle == 1..MaxWrite

VARIABLES
    file,         \* the kubeconfig on disk, 0 when there is none
    written,      \* how many have been written
    boot,         \* "down", "starting" (no watch on the directory yet) or "up"
    event,        \* an event of the file waits in w.Events
    debounce,     \* the debounce timer is armed
    reload,       \* reload[r]: where a run of the debounce callback is
    config,       \* config[r]: the kubeconfig it has read
    active,       \* s.active, 0 for nil
    version,      \* gatewayAPIVersionCache: the bundles it was probed on, {} if empty
    cached,       \* the cache entry: the bundle it came from, 0 if absent
    stage,        \* stage[q]: where the handler of a request is
    seen          \* seen[q]: the bundles behind what the handler of q may store

diskVars   == <<file, written>>
reloadVars == <<boot, event, debounce, reload, config>>
reqVars    == <<stage, seen>>
vars == <<diskVars, reloadVars, active, version, cached, reqVars>>

-----------------------------------------------------------------------------
Good(f) == f # 0 /\ f \notin BadConfig

\* The handler of q holds gatewayAPIVersionMu.
Probing(q) == stage[q] \in {"probeV1", "probeBeta"}

\* gatewayAPIVersionMu is free.
LockFree == \A q \in GatewayReq : ~Probing(q)

\* What the cache may hold after FlushAll, whose error is ignored.
Flushed == IF RedisFails THEN {0, cached} ELSE {0}

At(q, from) == boot # "down" /\ stage[q] = from

\* The handler goes on with what it has seen of the bundles in bs.
Go(q, to, bs) ==
    /\ stage' = [stage EXCEPT ![q] = to]
    /\ seen'  = [seen EXCEPT ![q] = bs]

\* The request is answered, and its slot takes the next one.
Finish(q) == Go(q, "new", {})

-----------------------------------------------------------------------------
Init ==
    /\ file = 0
    /\ written = 0
    /\ boot = "down"
    /\ event = FALSE
    /\ debounce = FALSE
    /\ reload = [r \in Reload |-> "off"]
    /\ config = [r \in Reload |-> 0]
    /\ active = 0
    /\ version = {}
    /\ cached = 0
    /\ stage = [q \in Req |-> "new"]
    /\ seen = [q \in Req |-> {}]

\* The setup page of auth-service renames a new kubeconfig into place.
WriteFile ==
    /\ written < MaxWrite
    /\ boot = "starting" => WriteAtBoot
    /\ written' = written + 1
    /\ file' = written + 1
    /\ event' = (event \/ boot = "up")
    /\ UNCHANGED <<boot, debounce, reload, config, active, version, cached, reqVars>>

\* The file is moved away; the watcher hears of it.
MoveFile ==
    /\ file # 0
    /\ boot = "starting" => WriteAtBoot
    /\ file' = 0
    /\ event' = (event \/ boot = "up")
    /\ UNCHANGED <<written, boot, debounce, reload, config, active, version, cached,
                   reqVars>>

\* NewService: a missing file is waited for, one that cannot be parsed ends
\* the process; a loaded one invalidates what an earlier process cached.
Boot ==
    /\ boot = "down"
    /\ file = 0 \/ Good(file)
    /\ boot' = "starting"
    /\ active' = file
    /\ IF file = 0 THEN UNCHANGED cached ELSE cached' \in Flushed
    /\ UNCHANGED <<diskVars, event, debounce, reload, config, version, reqVars>>

\* WatchKubeconfig, a goroutine, has added the directory.
AddWatch ==
    /\ boot = "starting"
    /\ boot' = "up"
    /\ UNCHANGED <<diskVars, event, debounce, reload, config, active, version, cached,
                   reqVars>>

\* The process ends; what it had in memory is gone, the Redis cache is not.
Crash ==
    /\ boot # "down"
    /\ boot' = "down"
    /\ event' = FALSE
    /\ debounce' = FALSE
    /\ reload' = [r \in Reload |-> "off"]
    /\ config' = [r \in Reload |-> 0]
    /\ active' = 0
    /\ version' = {}
    /\ stage' = [q \in Req |-> "new"]
    /\ seen' = [q \in Req |-> {}]
    /\ UNCHANGED <<diskVars, cached>>

-----------------------------------------------------------------------------
(* The watcher. *)

\* Mutant: an event is dropped while a reload runs.
DebounceDrops ==
    /\ event
    /\ event' = FALSE
    /\ debounce' = (debounce \/ \A r \in Reload : reload[r] = "off")
    /\ UNCHANGED <<diskVars, boot, reload, config, active, version, cached, reqVars>>

\* An event arms the timer, or arms it anew.
Debounce ==
    /\ event
    /\ event' = FALSE
    /\ debounce' = TRUE
    /\ UNCHANGED <<diskVars, boot, reload, config, active, version, cached, reqVars>>

\* The timer fires in a goroutine of its own; Stop() does not stop one that
\* runs.  An earlier run has installed its bundle by then (300 ms, no I/O
\* between its read and its Store), but may still wait for a mutex or Redis.
Fire(r) ==
    /\ debounce
    /\ reload[r] = "off"
    /\ \A x \in Reload : reload[x] \notin {"reading", "installing"}
    /\ debounce' = FALSE
    /\ reload' = [reload EXCEPT ![r] = "reading"]
    /\ UNCHANGED <<diskVars, boot, event, config, active, version, cached, reqVars>>

\* The file is read; one that is missing or cannot be parsed ends the run.
Read(r) ==
    /\ reload[r] = "reading"
    /\ IF Good(file)
       THEN /\ reload' = [reload EXCEPT ![r] = "installing"]
            /\ config' = [config EXCEPT ![r] = file]
       ELSE reload' = [reload EXCEPT ![r] = "off"] /\ UNCHANGED config
    /\ UNCHANGED <<diskVars, boot, event, debounce, active, version, cached, reqVars>>

\* installBundle.
Install(r) ==
    /\ reload[r] = "installing"
    /\ active' = config[r]
    /\ reload' = [reload EXCEPT ![r] = "clearing"]
    /\ config' = [config EXCEPT ![r] = 0]
    /\ UNCHANGED <<diskVars, boot, event, debounce, version, cached, reqVars>>

\* Mutant: the version is cleared without its mutex.
ClearUnlocked(r) ==
    /\ reload[r] = "clearing"
    /\ version' = {}
    /\ reload' = [reload EXCEPT ![r] = "flushing"]
    /\ UNCHANGED <<diskVars, boot, event, debounce, config, active, cached, reqVars>>

\* invalidateCaches, the caches behind a mutex.
Clear(r) ==
    /\ reload[r] = "clearing"
    /\ LockFree
    /\ version' = {}
    /\ reload' = [reload EXCEPT ![r] = "flushing"]
    /\ UNCHANGED <<diskVars, boot, event, debounce, config, active, cached, reqVars>>

\* invalidateCaches, the shared cache.
Flush(r) ==
    /\ reload[r] = "flushing"
    /\ cached' \in Flushed
    /\ reload' = [reload EXCEPT ![r] = "off"]
    /\ UNCHANGED <<diskVars, boot, event, debounce, config, active, version, reqVars>>

-----------------------------------------------------------------------------
(* A request that reads through the cache. *)

\* cache.Get: a hit is the answer.  A forced refresh, or a Redis that fails,
\* goes past the entry.
Lookup(q) ==
    /\ q \in YamlReq /\ At(q, "new")
    /\ \/ cached # 0 /\ UNCHANGED reqVars
       \/ Go(q, "fetch", {})
    /\ UNCHANGED <<diskVars, reloadVars, active, version, cached>>

\* GetResource reads the object with the bundle of the moment, or fails.
Fetch(q) ==
    /\ At(q, "fetch")
    /\ (active # 0 /\ Go(q, "store", {active})) \/ Finish(q)
    /\ UNCHANGED <<diskVars, reloadVars, active, version, cached>>

\* cache.Set.
Store(q) ==
    /\ At(q, "store")
    /\ cached' \in seen[q]
    /\ Finish(q)
    /\ UNCHANGED <<diskVars, reloadVars, active, version>>

\* The time to live of the entry has passed.
Expire ==
    /\ cached # 0
    /\ cached' = 0
    /\ UNCHANGED <<diskVars, reloadVars, active, version, reqVars>>

-----------------------------------------------------------------------------
(* A request that needs the API version.  The list it then asks for leaves *)
(* nothing behind and is no step.                                          *)

\* resolveGatewayAPIVersion under the read lock.
ReadVersion(q) ==
    /\ q \in GatewayReq /\ At(q, "new")
    /\ LockFree
    /\ IF version # {} THEN UNCHANGED reqVars ELSE Go(q, "lock", {})
    /\ UNCHANGED <<diskVars, reloadVars, active, version, cached>>

\* The mutex is taken and the first probe sent with the client of the moment:
\* a nil interface when no kubeconfig is loaded, which panics and releases
\* the mutex.
Ask(q) == IF active # 0 THEN Go(q, "probeV1", {active}) ELSE Go(q, "panicked", {})

\* Mutant: the cache is not looked at again.
LockBlindly(q) ==
    /\ At(q, "lock")
    /\ LockFree
    /\ Ask(q)
    /\ UNCHANGED <<diskVars, reloadVars, active, version, cached>>

\* Under the write lock the cache is looked at again.
Lock(q) ==
    /\ At(q, "lock")
    /\ LockFree
    /\ IF version # {} THEN Finish(q) ELSE Ask(q)
    /\ UNCHANGED <<diskVars, reloadVars, active, version, cached>>

\* Mutant: the clients are behind a second mutex, which a reload keeps until
\* it has cleared the caches.
ProbeV1Waits(q) ==
    /\ At(q, "probeV1")
    /\ \A r \in Reload : reload[r] # "clearing"
    /\ \/ Finish(q) /\ version' = seen[q]
       \/ Go(q, "probeBeta", seen[q] \cup {active}) /\ UNCHANGED version
    /\ UNCHANGED <<diskVars, reloadVars, active, cached>>

\* The first probe is answered: the API is there, or the second probe is
\* sent, by now perhaps with another client.
ProbeV1(q) ==
    /\ At(q, "probeV1")
    /\ \/ Finish(q) /\ version' = seen[q]
       \/ Go(q, "probeBeta", seen[q] \cup {active}) /\ UNCHANGED version
    /\ UNCHANGED <<diskVars, reloadVars, active, cached>>

\* The second one is answered; when it fails too, v1 is assumed and cached.
ProbeBeta(q) ==
    /\ At(q, "probeBeta")
    /\ Finish(q)
    /\ version' = seen[q]
    /\ UNCHANGED <<diskVars, reloadVars, active, cached>>

\* net/http recovers from a panic and closes the connection.
Recover(q) ==
    /\ At(q, "panicked")
    /\ Finish(q)
    /\ UNCHANGED <<diskVars, reloadVars, active, version, cached>>

-----------------------------------------------------------------------------
ReloadStep(r) == Fire(r) \/ Read(r) \/ Install(r) \/ Clear(r) \/ Flush(r)

\* What a handler that has started does next.
Handle(q) ==
    Fetch(q) \/ Store(q) \/ Lock(q) \/ ProbeV1(q) \/ ProbeBeta(q) \/ Recover(q)

Next ==
    \/ WriteFile \/ MoveFile \/ Boot \/ AddWatch \/ Crash \/ Debounce \/ Expire
    \/ \E r \in Reload : ReloadStep(r)
    \/ \E q \in Req : Lookup(q) \/ ReadVersion(q) \/ Handle(q)

Spec == Init /\ [][Next]_vars

(***************************************************************************)
(* Fairness: the goroutines and the timer of the service run, a handler    *)
(* ends (every probe has a deadline or a broken connection to end it), a   *)
(* mutex serves its waiters in turn (strong fairness of Clear).  Writes,   *)
(* moves, crashes, restarts and requests are not fair.                     *)
(***************************************************************************)
Fairness ==
    /\ WF_vars(AddWatch) /\ WF_vars(Debounce)
    /\ WF_vars(\E r \in Reload : Fire(r))
    /\ \A r \in Reload : WF_vars(Read(r)) /\ WF_vars(Install(r)) /\ SF_vars(Clear(r))
                         /\ WF_vars(Flush(r))
    /\ \A q \in Req : WF_vars(Handle(q))

FairSpec == Spec /\ Fairness

-----------------------------------------------------------------------------
(* Properties. *)

TypeOK ==
    /\ file \in 0..MaxWrite /\ written \in 0..MaxWrite
    /\ boot \in {"down", "starting", "up"}
    /\ event \in BOOLEAN /\ debounce \in BOOLEAN
    /\ reload \in [Reload -> {"off", "reading", "installing", "clearing", "flushing"}]
    /\ config \in [Reload -> 0..MaxWrite]
    /\ active \in 0..MaxWrite
    /\ version \subseteq Bundle
    /\ cached \in 0..MaxWrite
    /\ stage \in [Req -> {"new", "fetch", "store", "lock", "probeV1", "probeBeta",
                          "panicked"}]
    /\ seen \in [Req -> SUBSET Bundle]

\* A detected API version never survives the cluster it was detected on: a
\* probe that straddles a reload holds the mutex, and the reload clears what
\* it found.  Only a reload that has still to clear can leave an old one.
VersionFollowsBundle ==
    (\A r \in Reload : reload[r] # "clearing") => version \subseteq {active}

\* A request that waited for the mutex does not probe again what the one
\* before it found.
ProbesOnlyUnknown ==
    [][\A q \in GatewayReq : ProbeV1(q) => version = {}]_vars

\* The inductive invariant behind these two.  The mutex has one holder, which
\* looks for what is not known; what the holder has seen of an earlier bundle
\* is cleared after it by the reload that installed the next one, because that
\* waits for the mutex; and a process that is down has nothing in memory.
RequestInv ==
    /\ \A q \in YamlReq : stage[q] \in {"new", "fetch", "store"}
    /\ \A p, q \in GatewayReq : Probing(p) /\ Probing(q) => p = q
    /\ \A q \in GatewayReq : Probing(q) => active # 0
    /\ \A q \in GatewayReq : stage[q] = "probeV1" => version = {}

ReloadInv ==
    /\ boot = "down" => version = {} /\ \A q \in Req : stage[q] = "new"
    /\ \A r \in Reload : reload[r] = "installing" => config[r] # 0
    /\ (\A r \in Reload : reload[r] # "clearing") =>
          \A q \in GatewayReq : Probing(q) => seen[q] \subseteq {active}

IInv == TypeOK /\ RequestInv /\ ReloadInv /\ VersionFollowsBundle

\* When the kubeconfig stays as it is, the clients become the ones it
\* describes, whatever was being read, installed or cleared meanwhile.
BundleFollowsFile ==
    \A f \in Bundle \ BadConfig :
        <>[](file = f /\ boot = "up") => <>[](active = f)

\* A reload is not held up for ever by the requests that probe.
ReloadEnds == \A r \in Reload : reload[r] # "off" ~> reload[r] = "off"

=============================================================================
