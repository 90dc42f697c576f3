------------------------------ MODULE HelmWatch ------------------------------
(***************************************************************************)
(* The list of Helm releases on a page, kept up to date by a watch:        *)
(*   - the page (pages/helm/Releases.tsx) and its hook                     *)
(*     (services/useHelmWatchList.ts) with a WebSocket of its own,         *)
(*   - the watch loop of the server (handler/helm_watch.go), which follows *)
(*     the Secrets of the releases, one Secret for each revision,          *)
(*   - the list of the server (helm/releases.go) behind a cache.           *)
(* A list, of the page, of a response or of the cache, gives each release  *)
(* the newest revision it has of it, 0 for none.                           *)
(***************************************************************************)
EXTENDS Naturals, Sequences, SequencesExt, FiniteSets, FiniteSetsExt

CONSTANTS
    Release,    \* names of releases (with their namespaces)
    History,    \* revisions Helm keeps of a release (HELM_MAX_HISTORY)
    Redis,      \* the cache of the server is Redis, not memory
    MaxChange,  \* bound: installs, upgrades and uninstalls
    MaxDrop     \* bound: connections and lists that fail or are lost

ASSUME HelmAssumption ==
    /\ History \in Nat \ {0}
    /\ Redis \in BOOLEAN
    /\ MaxChange \in Nat
    /\ MaxDrop \in Nat

Rev == 1..MaxChange
List == [Release -> 0..MaxChange]
Empty == [r \in Release |-> 0]

VARIABLES
    secrets,   \* the Secrets in the cluster: <<release, revision>>
    changes,   \* how often the cluster has changed
    watch,     \* runHelmWatch of the page's connection
    wire,      \* events on their way to the page
    cache,     \* the cached list of the server: <<list, changes when it was read>> or <<>>
    mounted,   \* the page is on the screen
    rows,      \* the data of the query
    loaded,    \* the query has data
    invalid,   \* the query was invalidated while nobody showed it
    fetch,     \* the request for the list: "none", "asked", "read", "reply"
    answer,    \* its answer, as in cache
    socket,    \* "none", "connecting" or "open"
    timer,     \* reconnectTimer is set
    drops,     \* connections and lists that failed or were lost so far
    missed     \* the page may have missed a change since its last full list

clusterVars == <<secrets, changes>>
serverVars  == <<watch, wire>>
listVars    == <<cache, fetch, answer>>
pageVars    == <<mounted, rows, loaded, invalid>>
linkVars    == <<socket, timer, drops>>
vars == <<clusterVars, serverVars, listVars, pageVars, linkVars, missed>>

-----------------------------------------------------------------------------
Revisions(r, S) == {s[2] : s \in {x \in S : x[1] = r}}
Latest(r, S)    == IF Revisions(r, S) = {} THEN 0 ELSE Max(Revisions(r, S))
Listed          == <<[r \in Release |-> Latest(r, secrets)], changes>>

\* enabled: !isLoading
Enabled(m, l, f) == m /\ (l \/ f = "none")

Event(t, s) == [type |-> t, rel |-> s[1], rev |-> s[2]]

Init ==
    /\ secrets = {} /\ changes = 0
    /\ watch = "none" /\ wire = <<>>
    /\ cache = <<>> /\ fetch = "none" /\ answer = <<>>
    /\ mounted = FALSE /\ rows = Empty /\ loaded = FALSE /\ invalid = FALSE
    /\ socket = "none" /\ timer = FALSE /\ drops = 0
    /\ missed = TRUE

-----------------------------------------------------------------------------
(* The cluster: Helm, of this page's user on the page of a release, of       *)
(* another user of the service, or on a command line.                        *)

\* A change reaches the page by its watch or not at all; one made through the
\* service drops the cached list, if the cache knows patterns; one made from
\* the page of a release, or seen by it, invalidates the list of this browser.
Change(S, events) ==
    /\ changes < MaxChange
    /\ changes' = changes + 1
    /\ secrets' = S
    /\ wire' = IF watch = "open" THEN wire \o events ELSE wire
    /\ missed' = (missed \/ watch # "open")
    /\ cache' \in {cache} \cup (IF Redis THEN {<<>>} ELSE {})
    /\ invalid' \in {invalid} \cup (IF ~mounted THEN {TRUE} ELSE {})
    /\ UNCHANGED <<watch, fetch, answer, mounted, rows, loaded, linkVars>>

\* install, upgrade, rollback: the oldest revision beyond the history goes, the
\* new one comes, and its predecessor is marked as superseded.
Upgrade(r) ==
    LET old == Latest(r, secrets)
        new == old + 1
        out == IF new > History /\ (new - History) \in Revisions(r, secrets)
               THEN {<<r, new - History>>} ELSE {}
    IN  Change((secrets \ out) \cup {<<r, new>>},
               (IF out = {} THEN <<>> ELSE <<Event("DELETED", <<r, new - History>>)>>)
               \o <<Event("ADDED", <<r, new>>)>>
               \o (IF old = 0 \/ History = 1 THEN <<>> ELSE <<Event("MODIFIED", <<r, old>>)>>))

\* uninstall: all revisions go; the next install begins with revision 1.
Uninstall(r) ==
    LET gone == {s \in secrets : s[1] = r}
    IN  /\ gone # {}
        /\ \E order \in SetToSeqs(gone) :
              Change(secrets \ gone,
                     [i \in DOMAIN order |-> Event("DELETED", order[i])])

-----------------------------------------------------------------------------
(* The watch loop of the server. *)

\* Mutant: the watch begins with the next change.
StartFromNow ==
    /\ watch = "starting"
    /\ watch' = "open"
    /\ UNCHANGED <<clusterVars, wire, listVars, pageVars, linkVars, missed>>

\* Without a resource version the watch begins with an ADDED for every Secret.
StartWatch ==
    /\ watch = "starting"
    /\ watch' = "open"
    /\ \E order \in SetToSeqs(secrets) :
          wire' = wire \o [i \in DOMAIN order |-> Event("ADDED", order[i])]
    /\ UNCHANGED <<clusterVars, listVars, pageVars, linkVars, missed>>

\* Mutant: an error ends the loop.
StartGivesUp ==
    /\ watch = "starting"
    /\ watch' = "none"
    /\ UNCHANGED <<clusterVars, wire, listVars, pageVars, linkVars, missed>>

\* No kubeconfig, or the API server refuses: five seconds later once more.
StartFails ==
    /\ watch = "starting"
    /\ watch' = "waiting"
    /\ UNCHANGED <<clusterVars, wire, listVars, pageVars, linkVars, missed>>

StartAgain ==
    /\ watch = "waiting"
    /\ watch' = "starting"
    /\ UNCHANGED <<clusterVars, wire, listVars, pageVars, linkVars, missed>>

\* TimeoutSeconds, or a closed result channel.
WatchEnds ==
    /\ watch = "open" /\ wire = <<>>
    /\ watch' = "starting"
    /\ UNCHANGED <<clusterVars, wire, listVars, pageVars, linkVars, missed>>

-----------------------------------------------------------------------------
(* The connection of the page. *)

\* Mutant: the timer is not cleared.
CleanupSocketOnly ==
    /\ socket' = "none"
    /\ watch' = "none"
    /\ wire' = <<>>
    /\ UNCHANGED timer

\* The cleanup of the effect: no handler is left, no timer, no socket.
Cleanup ==
    /\ socket' = "none"
    /\ timer' = FALSE
    /\ watch' = "none"
    /\ wire' = <<>>

Connect ==
    /\ socket' = "connecting"
    /\ UNCHANGED <<timer, watch, wire>>

\* The effect follows `enabled'.
Effect(m, l, f) ==
    IF Enabled(m, l, f) = Enabled(mounted, loaded, fetch)
    THEN UNCHANGED <<socket, timer, watch, wire>>
    ELSE IF Enabled(m, l, f) THEN Connect ELSE Cleanup

SocketOpens ==
    /\ socket = "connecting"
    /\ socket' = "open"
    /\ watch' = "starting"
    /\ UNCHANGED <<clusterVars, wire, listVars, pageVars, timer, drops, missed>>

\* onclose, of a connection that was made or not.
SocketDrops ==
    /\ socket # "none" /\ drops < MaxDrop
    /\ drops' = drops + 1
    /\ socket' = "none"
    /\ timer' = TRUE
    /\ watch' = "none"
    /\ wire' = <<>>
    /\ missed' = (missed \/ wire # <<>>)
    /\ UNCHANGED <<clusterVars, listVars, pageVars>>

TimerFires ==
    /\ timer
    /\ timer' = FALSE
    /\ socket' = "connecting"
    /\ UNCHANGED <<clusterVars, serverVars, listVars, pageVars, drops, missed>>

\* Mutant: revisions are not compared.
AppliedBlindly(e) ==
    [rows EXCEPT ![e.rel] = IF e.type = "DELETED" THEN 0 ELSE e.rev]

\* Mutant: the event counts as one more revision.
AppliedByCounting(e) ==
    [rows EXCEPT ![e.rel] = IF e.type = "DELETED" THEN 0 ELSE @ + 1]

\* applyHelmWatchEvent: the end of any revision takes the release away, and an
\* older revision than the one shown is not taken.
Applied(e) ==
    [rows EXCEPT ![e.rel] = IF e.type = "DELETED" THEN 0
                            ELSE IF @ > e.rev THEN @ ELSE e.rev]

Deliver ==
    /\ socket = "open" /\ wire # <<>>
    /\ wire' = Tail(wire)
    /\ rows' = Applied(Head(wire))
    /\ loaded' = TRUE
    /\ UNCHANGED <<clusterVars, watch, listVars, mounted, invalid, linkVars, missed>>

-----------------------------------------------------------------------------
(* The query. *)

\* useQuery: data that was invalidated, or none, is fetched.
Mount ==
    /\ ~mounted
    /\ mounted' = TRUE
    /\ fetch' = IF fetch = "none" /\ (~loaded \/ invalid) THEN "asked" ELSE fetch
    /\ Effect(TRUE, loaded, fetch')
    /\ UNCHANGED <<clusterVars, cache, answer, rows, loaded, invalid, drops, missed>>

Unmount ==
    /\ mounted
    /\ mounted' = FALSE
    /\ Effect(FALSE, loaded, fetch)
    /\ missed' = (missed \/ wire # <<>>)
    /\ UNCHANGED <<clusterVars, listVars, rows, loaded, invalid, drops>>

\* Five minutes without a page that shows it.
Collect ==
    /\ ~mounted /\ fetch = "none" /\ loaded
    /\ rows' = Empty
    /\ loaded' = FALSE
    /\ invalid' = FALSE
    /\ missed' = TRUE
    /\ UNCHANGED <<clusterVars, serverVars, listVars, mounted, linkVars>>

Refresh ==
    /\ mounted /\ fetch = "none"
    /\ fetch' = "asked"
    /\ Effect(TRUE, loaded, "asked")
    /\ missed' = (missed \/ (~loaded /\ wire # <<>>))
    /\ UNCHANGED <<clusterVars, cache, answer, pageVars, drops>>

\* ListReleases: the cache, or the cluster.
Lookup ==
    /\ fetch = "asked"
    /\ fetch' = IF cache = <<>> THEN "read" ELSE "reply"
    /\ answer' = IF cache = <<>> THEN Listed ELSE cache
    /\ UNCHANGED <<clusterVars, serverVars, cache, pageVars, linkVars, missed>>

Store ==
    /\ fetch = "read"
    /\ fetch' = "reply"
    /\ cache' = answer
    /\ UNCHANGED <<clusterVars, serverVars, answer, pageVars, linkVars, missed>>

Expire ==
    /\ cache # <<>>
    /\ cache' = <<>>
    /\ UNCHANGED <<clusterVars, serverVars, fetch, answer, pageVars, linkVars, missed>>

\* The response replaces the rows, whatever events came in the meantime.
Land ==
    /\ fetch = "reply"
    /\ fetch' = "none"
    /\ answer' = <<>>
    /\ rows' = answer[1]
    /\ loaded' = TRUE
    /\ invalid' = FALSE
    /\ Effect(mounted, TRUE, "none")
    /\ missed' = (answer[2] # changes)
    /\ UNCHANGED <<clusterVars, cache, mounted, drops>>

FetchFails ==
    /\ fetch \in {"asked", "read", "reply"} /\ drops < MaxDrop
    /\ drops' = drops + 1
    /\ fetch' = "none"
    /\ answer' = <<>>
    /\ Effect(mounted, loaded, "none")
    /\ UNCHANGED <<clusterVars, cache, pageVars, missed>>

-----------------------------------------------------------------------------
Next ==
    \/ \E r \in Release : Upgrade(r) \/ Uninstall(r)
    \/ StartWatch \/ StartFails \/ StartAgain \/ WatchEnds
    \/ SocketOpens \/ SocketDrops \/ TimerFires \/ Deliver
    \/ Mount \/ Unmount \/ Collect \/ Refresh
    \/ Lookup \/ Store \/ Expire \/ Land \/ FetchFails

Spec == Init /\ [][Next]_vars

(***************************************************************************)
(* Fairness: connections are made, requests and events arrive, the timers  *)
(* of the browser, the five minutes of a watch and the thirty seconds of   *)
(* the cache run out, and an API server that is asked again and again      *)
(* accepts a watch at some point.                                          *)
(***************************************************************************)
Fairness ==
    /\ WF_vars(SocketOpens) /\ WF_vars(TimerFires) /\ WF_vars(Deliver)
    /\ WF_vars(WatchEnds) /\ WF_vars(StartAgain) /\ SF_vars(StartWatch)
    /\ WF_vars(Lookup \/ Store \/ Land) /\ WF_vars(Expire)

FairSpec == Spec /\ Fairness

-----------------------------------------------------------------------------
(* Properties. *)

TypeOK ==
    /\ secrets \subseteq Release \X Rev
    /\ changes \in 0..MaxChange
    /\ watch \in {"none", "starting", "waiting", "open"}
    /\ wire \in Seq([type : {"ADDED", "MODIFIED", "DELETED"}, rel : Release, rev : Rev])
    /\ cache \in {<<>>} \cup (List \X Nat) /\ answer \in {<<>>} \cup (List \X Nat)
    /\ rows \in List
    /\ mounted \in BOOLEAN /\ loaded \in BOOLEAN /\ invalid \in BOOLEAN
    /\ fetch \in {"none", "asked", "read", "reply"}
    /\ socket \in {"none", "connecting", "open"} /\ timer \in BOOLEAN
    /\ drops \in 0..MaxDrop /\ missed \in BOOLEAN

\* "keeps the named react-query cache entry in lockstep with the cluster's Helm
\* release Secrets" (useHelmWatchList.ts): as long as no change was missed since
\* the last list that was current when it landed, the page shows exactly the
\* releases there are, through upgrades, trimmed histories, reinstallations and
\* watches that begin again.
InLockstep ==
    ~missed /\ wire = <<>> => \A r \in Release : rows[r] = Latest(r, secrets)

\* One connection while the list is shown and none when it is not: a timer or a
\* socket never outlives the page.
OneLinkWhileShown ==
    IF Enabled(mounted, loaded, fetch) THEN timer = (socket = "none")
                                       ELSE socket = "none" /\ ~timer

\* A release is not shown in an old revision, or missing, for ever: the watch
\* that begins again, without a resource version, makes up for events that were
\* lost and for stale lists.
RowsCatchUp ==
    \A r \in Release : (mounted /\ rows[r] < Latest(r, secrets))
        ~> (rows[r] >= Latest(r, secrets) \/ ~mounted)

\* A page that stays gets its watch, through failed connections and refused
\* watches.
ShownIsWatched == mounted ~> (watch = "open" \/ ~mounted)

-----------------------------------------------------------------------------
(* Why they hold: the inductive invariants of HelmWatchProofs. *)

LinkInv ==
    /\ mounted \in BOOLEAN /\ loaded \in BOOLEAN /\ timer \in BOOLEAN
    /\ socket \in {"none", "connecting", "open"}
    /\ OneLinkWhileShown

\* The loop of the server runs for an open connection only.
WatchIsConnected == watch # "none" => socket = "open"

\* Revisions grow by one with a change.
RevisionsAreFew == IsFiniteSet(secrets) /\ \A s \in secrets : s[2] <= changes

\* A list that was read after the last change is the current one.
ListsAreDated ==
    /\ \A l \in {cache, answer} \ {<<>>} :
          l[2] <= changes /\ (l[2] = changes => l[1] = Listed[1])
    /\ fetch \in {"read", "reply"} => answer # <<>>

\* Only an open watch has events on their way.
WireIsWatched == wire # <<>> => watch = "open"

Ends(e, r)         == e.rel = r /\ e.type = "DELETED"
Brings(e, r, rev)  == e.rel = r /\ e.type # "DELETED" /\ e.rev = rev

\* A revision on its way that is newer than any there is will be taken away,
OldIsEnded ==
    \A i \in DOMAIN wire :
        wire[i].type # "DELETED" /\ wire[i].rev > Latest(wire[i].rel, secrets) =>
            \E k \in DOMAIN wire : k > i /\ Ends(wire[k], wire[i].rel)

\* and a release that is taken away while it exists comes back.
EndedIsBrought ==
    \A i \in DOMAIN wire :
        wire[i].type = "DELETED" /\ Latest(wire[i].rel, secrets) # 0 =>
            \E k \in DOMAIN wire :
                k > i /\ Brings(wire[k], wire[i].rel, Latest(wire[i].rel, secrets))

\* What is wrong on the page is put right by an event on its way.
RowsSettle ==
    ~missed =>
        \A r \in Release :
            /\ rows[r] > Latest(r, secrets) => \E k \in DOMAIN wire : Ends(wire[k], r)
            /\ rows[r] < Latest(r, secrets) =>
                  \E k \in DOMAIN wire : Brings(wire[k], r, Latest(r, secrets))

HelmInv ==
    /\ TypeOK /\ RevisionsAreFew /\ ListsAreDated /\ WireIsWatched
    /\ OldIsEnded /\ EndedIsBrought /\ RowsSettle

=============================================================================
