------------------------- MODULE ClusterClientsProofs -------------------------
(* Theorems about ClusterClients, for every value of its constants. *)
EXTENDS ClusterClients, TLAPS

-----------------------------------------------------------------------------
(* Type correctness. *)

\* A bundle is a kubeconfig that has been loaded.
LEMMA BundleIsLoaded == \A b \in 0..MaxWrite : b # 0 => b \in Bundle
BY ClientsAssumption DEF ClientsAssumption, Bundle

\* What a process starts with: nothing loaded, nothing seen, nobody at work.
LEMMA EmptyMemory ==
  /\ 0 \in 0..MaxWrite
  /\ [r \in Reload |-> 0] \in [Reload -> 0..MaxWrite]
  /\ [q \in Req |-> {}] \in [Req -> SUBSET Bundle]
<1>1. 0 \in 0..MaxWrite
  BY ClientsAssumption DEF ClientsAssumption
<1>2. {} \in SUBSET Bundle
  OBVIOUS
<1>3. [q \in Req |-> {}] \in [Req -> SUBSET Bundle]
  BY <1>2
<1>4. [r \in Reload |-> 0] \in [Reload -> 0..MaxWrite]
  BY <1>1
<1>5. QED
  BY <1>1, <1>3, <1>4

\* Before the first boot every variable is in its range, and nobody has
\* looked at anything.
LEMMA InvInit == Init => IInv
<1> SUFFICES ASSUME Init PROVE IInv
  OBVIOUS
<1>1. TypeOK
  BY EmptyMemory DEF Init, TypeOK
<1>2. RequestInv /\ ReloadInv /\ VersionFollowsBundle
  BY DEF Init, RequestInv, ReloadInv, VersionFollowsBundle, Probing, Req
<1>3. QED
  BY <1>1, <1>2 DEF IInv

\* The disk, the process and the watcher keep the variables in their ranges.
LEMMA TypeProcess ==
  ASSUME TypeOK, WriteFile \/ MoveFile \/ Boot \/ AddWatch \/ Crash \/ Debounce \/ Expire
  PROVE  TypeOK'
<1> USE ClientsAssumption DEF ClientsAssumption, TypeOK, diskVars, reloadVars, reqVars
<1>1. CASE WriteFile
  BY <1>1 DEF WriteFile
<1>2. CASE MoveFile
  BY <1>2 DEF MoveFile
<1>3. CASE Boot
  BY <1>3 DEF Boot, Flushed
<1>4. CASE AddWatch
  BY <1>4 DEF AddWatch
<1>5. CASE Crash
  BY <1>5, EmptyMemory DEF Crash
<1>6. CASE Debounce
  BY <1>6 DEF Debounce
<1>7. CASE Expire
  BY <1>7 DEF Expire
<1>8. QED
  BY <1>1, <1>2, <1>3, <1>4, <1>5, <1>6, <1>7

\* So does a reload.
LEMMA TypeReload ==
  ASSUME TypeOK, NEW r \in Reload, ReloadStep(r) PROVE TypeOK'
<1> USE ClientsAssumption DEF ClientsAssumption, TypeOK, diskVars, reloadVars, reqVars
<1>1. CASE Fire(r)
  BY <1>1 DEF Fire
<1>2. CASE Read(r)
  BY <1>2 DEF Read, Good
<1>3. CASE Install(r)
  BY <1>3 DEF Install
<1>4. CASE Clear(r)
  BY <1>4 DEF Clear
<1>5. CASE Flush(r)
  BY <1>5 DEF Flush, Flushed
<1>6. QED
  BY <1>1, <1>2, <1>3, <1>4, <1>5 DEF ReloadStep

\* So does a handler: what it has seen and what it stores is a bundle.
LEMMA TypeHandler ==
  ASSUME TypeOK, RequestInv, NEW q \in Req, Lookup(q) \/ ReadVersion(q) \/ Handle(q)
  PROVE  TypeOK'
<1> USE ClientsAssumption, BundleIsLoaded
    DEF ClientsAssumption, TypeOK, diskVars, reloadVars, reqVars, At, Go, Finish
<1>1. CASE Lookup(q)
  BY <1>1 DEF Lookup
<1>2. CASE ReadVersion(q)
  BY <1>2 DEF ReadVersion
<1>3. CASE Fetch(q)
  BY <1>3 DEF Fetch
<1>4. CASE Store(q)
  <2>1. cached' \in Bundle
    BY <1>4 DEF Store
  <2>2. QED
    BY <1>4, <2>1 DEF Store, Bundle
<1>5. CASE Lock(q)
  BY <1>5 DEF Lock, Ask
<1>6. CASE ProbeV1(q)
  <2>1. q \in GatewayReq /\ active \in Bundle
    BY <1>6 DEF ProbeV1, RequestInv, Probing, Req
  <2>2. seen[q] \in SUBSET Bundle /\ seen[q] \cup {active} \in SUBSET Bundle
    BY <2>1
  <2>3. CASE Finish(q) /\ version' = seen[q]
    BY <1>6, <2>2, <2>3 DEF ProbeV1
  <2>4. CASE Go(q, "probeBeta", seen[q] \cup {active}) /\ UNCHANGED version
    <3> DEFINE s == seen[q] \cup {active}
    <3>1. [seen EXCEPT ![q] = s] \in [Req -> SUBSET Bundle]
      BY <2>2
    <3>2. QED
      BY <1>6, <2>4, <3>1 DEF ProbeV1
  <2>5. QED
    BY <1>6, <2>3, <2>4 DEF ProbeV1
<1>7. CASE ProbeBeta(q)
  BY <1>7 DEF ProbeBeta
<1>8. CASE Recover(q)
  BY <1>8 DEF Recover
<1>9. QED
  BY <1>1, <1>2, <1>3, <1>4, <1>5, <1>6, <1>7, <1>8 DEF Handle

-----------------------------------------------------------------------------
(* The other conjuncts of the invariant. *)

\* What is neither a handler nor a reload leaves the requests alone, or
\* forgets all of them.
LEMMA InvProcess ==
  ASSUME IInv, WriteFile \/ MoveFile \/ Boot \/ AddWatch \/ Crash \/ Debounce \/ Expire
  PROVE  RequestInv' /\ ReloadInv' /\ VersionFollowsBundle'
<1> USE DEF IInv, RequestInv, ReloadInv, VersionFollowsBundle, Probing, Req,
            diskVars, reloadVars, reqVars
<1>1. CASE WriteFile
  BY <1>1 DEF WriteFile
<1>2. CASE MoveFile
  BY <1>2 DEF MoveFile
<1>3. CASE Boot
  \* The process was down: nothing is cached in it, and nobody asks.
  <2>1. version = {} /\ \A q \in Req : stage[q] = "new"
    BY <1>3 DEF Boot
  <2>2. UNCHANGED <<version, stage, reload, config, seen>> /\ boot' # "down"
    BY <1>3 DEF Boot
  <2>3. QED
    BY <2>1, <2>2
<1>4. CASE AddWatch
  BY <1>4 DEF AddWatch
<1>5. CASE Crash
  BY <1>5 DEF Crash
<1>6. CASE Debounce
  BY <1>6 DEF Debounce
<1>7. CASE Expire
  BY <1>7 DEF Expire
<1>8. QED
  BY <1>1, <1>2, <1>3, <1>4, <1>5, <1>6, <1>7

\* A reload that installs a bundle has still to clear, and it clears when
\* nobody holds the mutex.
LEMMA InvReload ==
  ASSUME IInv, NEW r \in Reload, ReloadStep(r)
  PROVE  RequestInv' /\ ReloadInv' /\ VersionFollowsBundle'
<1> USE DEF IInv, TypeOK, RequestInv, ReloadInv, VersionFollowsBundle, Probing, Req,
            diskVars, reloadVars, reqVars
<1>1. CASE Fire(r)
  BY <1>1 DEF Fire
<1>2. CASE Read(r)
  BY <1>2 DEF Read, Good
<1>3. CASE Install(r)
  <2>1. reload'[r] = "clearing" /\ active' # 0
    BY <1>3 DEF Install
  <2>2. RequestInv' /\ VersionFollowsBundle'
    BY <1>3, <2>1 DEF Install
  <2>3. ReloadInv'
    BY <1>3, <2>1 DEF Install
  <2>4. QED
    BY <2>2, <2>3
<1>4. CASE Clear(r)
  BY <1>4 DEF Clear, LockFree
<1>5. CASE Flush(r)
  BY <1>5 DEF Flush
<1>6. QED
  BY <1>1, <1>2, <1>3, <1>4, <1>5 DEF ReloadStep

\* A request that reads through the cache does not touch the version.
LEMMA InvYaml ==
  ASSUME IInv, NEW q \in Req, Lookup(q) \/ Fetch(q) \/ Store(q)
  PROVE  RequestInv' /\ ReloadInv' /\ VersionFollowsBundle'
<1>1. /\ q \in YamlReq \/ stage[q] \in {"fetch", "store"}
      /\ boot # "down"
      /\ \/ UNCHANGED reqVars
         \/ /\ stage' \in {[stage EXCEPT ![q] = s] : s \in {"new", "fetch", "store"}}
            /\ \E bs : seen' = [seen EXCEPT ![q] = bs]
      /\ UNCHANGED <<boot, reload, config, active, version>>
  BY DEF Lookup, Fetch, Store, At, Go, Finish, reloadVars
<1>2. QED
  BY <1>1 DEF IInv, TypeOK, RequestInv, ReloadInv, VersionFollowsBundle, Probing, Req,
              reqVars

\* A request that needs the version: the second look under the mutex is what
\* makes the holder probe for something unknown, and it is the only holder.
LEMMA InvGateway ==
  ASSUME IInv, NEW q \in Req,
         ReadVersion(q) \/ Lock(q) \/ ProbeV1(q) \/ ProbeBeta(q) \/ Recover(q)
  PROVE  RequestInv' /\ ReloadInv' /\ VersionFollowsBundle'
<1> USE DEF IInv, TypeOK, RequestInv, ReloadInv, VersionFollowsBundle, Probing, Req,
            diskVars, reloadVars, reqVars, At, Go, Finish
<1>0. q \in GatewayReq
  BY DEF ReadVersion, Lock, ProbeV1, ProbeBeta, Recover
<1>1. CASE ReadVersion(q)
  BY <1>0, <1>1, ClientsAssumption DEF ClientsAssumption, ReadVersion
<1>2. CASE Lock(q)
  BY <1>0, <1>2, ClientsAssumption DEF ClientsAssumption, Lock, LockFree, Ask
<1>3. CASE ProbeV1(q)
  BY <1>0, <1>3, ClientsAssumption DEF ClientsAssumption, ProbeV1
<1>4. CASE ProbeBeta(q)
  BY <1>0, <1>4, ClientsAssumption DEF ClientsAssumption, ProbeBeta
<1>5. CASE Recover(q)
  BY <1>0, <1>5, ClientsAssumption DEF ClientsAssumption, Recover
<1>6. QED
  BY <1>1, <1>2, <1>3, <1>4, <1>5

-----------------------------------------------------------------------------
(* The theorems. *)

\* The invariant is inductive.
LEMMA InvStep == IInv /\ [Next]_vars => IInv'
<1> SUFFICES ASSUME IInv, [Next]_vars PROVE IInv'
  OBVIOUS
<1>1. CASE WriteFile \/ MoveFile \/ Boot \/ AddWatch \/ Crash \/ Debounce \/ Expire
  BY <1>1, TypeProcess, InvProcess DEF IInv
<1>2. CASE \E r \in Reload : ReloadStep(r)
  BY <1>2, TypeReload, InvReload DEF IInv
<1>3. ASSUME NEW q \in Req, Lookup(q) \/ ReadVersion(q) \/ Handle(q) PROVE IInv'
  <2>1. TypeOK'
    BY <1>3, TypeHandler DEF IInv
  <2>2. RequestInv' /\ ReloadInv' /\ VersionFollowsBundle'
    BY <1>3, InvYaml, InvGateway DEF Handle
  <2>3. QED
    BY <2>1, <2>2 DEF IInv
<1>4. CASE UNCHANGED vars
  BY <1>4 DEF vars, diskVars, reloadVars, reqVars, IInv, TypeOK, RequestInv, ReloadInv,
              VersionFollowsBundle, Probing
<1>5. QED
  BY <1>1, <1>2, <1>3, <1>4 DEF Next

\* The clients, their caches and the handlers keep the invariant: one holder
\* of the mutex, who probes for what is unknown, and nothing known of an
\* earlier bundle once the reload has cleared.
THEOREM Invariance == Spec => []IInv
BY InvInit, InvStep, PTL DEF Spec

\* Every variable stays in its range: in particular nothing is cached that was
\* not read from a loaded bundle.
THEOREM TypeCorrect == Spec => []TypeOK
<1>1. IInv => TypeOK
  BY DEF IInv
<1>2. QED
  BY <1>1, Invariance, PTL

\* However many requests probe and reloads overlap, a detected API version
\* does not survive the cluster it was detected on.
THEOREM VersionCorrect == Spec => []VersionFollowsBundle
<1>1. IInv => VersionFollowsBundle
  BY DEF IInv
<1>2. QED
  BY <1>1, Invariance, PTL

\* However many requests wait for the mutex, the version is probed only while
\* it is unknown.
THEOREM ProbesCorrect == Spec => ProbesOnlyUnknown
<1>1. IInv => \A q \in GatewayReq : ProbeV1(q) => version = {}
  BY DEF IInv, RequestInv, ProbeV1, At
<1>2. IInv /\ [Next]_vars => [\A q \in GatewayReq : ProbeV1(q) => version = {}]_vars
  BY <1>1
<1>3. QED
  BY <1>2, Invariance, PTL DEF Spec, ProbesOnlyUnknown

=============================================================================
