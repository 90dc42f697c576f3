----------------------------- MODULE WatchClient -----------------------------
(***************************************************************************)
(* The browser side of the watch pipeline: the WebSocketMultiplexer of     *)
(* frontend/src/services/watchMultiplexer.ts and the effect of             *)
(* useKubeWatchList.ts that subscribes to it, its only user.               *)
(*                                                                         *)
(* JavaScript runs one task at a time and drains the promise continuations *)
(* before the next task.  A socket event or a timer is one step, taken     *)
(* when no continuation is left to run (Quiet); the continuation of a      *)
(* subscribe is a step of its own, because a React commit may run several  *)
(* effects, and in StrictMode their cleanups too, before it.               *)
(*                                                                         *)
(* A Hook is one place that runs the effect: mounting runs it, unmounting  *)
(* runs its cleanup, and a change of its dependencies is both.             *)
(***************************************************************************)
EXTENDS Naturals, FiniteSets

CONSTANTS
    Hook,          \* the places that mount useKubeWatchList
    KeyOf,         \* KeyOf[h]: the path?query that h watches
    MaxBackoff,    \* attempts at which the backoff is at its 30 seconds (5)
    MaxSocket,     \* bound: WebSockets in a behaviour; the last does not fail
    CloseHandshake \* whether the far end sends a Close frame before it hangs up

ASSUME ClientAssumption ==
    /\ IsFiniteSet(Hook)
    /\ DOMAIN KeyOf = Hook
    /\ MaxBackoff \in Nat \ {0}
    /\ MaxSocket \in Nat \ {0}
    /\ CloseHandshake \in BOOLEAN

Key == {KeyOf[h] : h \in Hook}
Socket == 1..MaxSocket

VARIABLES
    ws,             \* ws[s]: readyState of the s-th WebSocket, "none" before it is made
    requested,      \* requested[s][k]: REQUESTs of k sent on s since its last CLOSE
    socket,         \* this.socket, 0 for null
    connecting,     \* the socket this.connecting waits for, 0 for null
    timer,          \* this.reconnectTimer is set
    attempts,       \* this.reconnectAttempts, up to MaxBackoff
    listeners,      \* the hooks whose handler is in this.listeners
    subscriptions,  \* the keys of this.subscriptions
    mounted,        \* mounted[h]: the component of h is mounted
    phase,          \* phase[h]: how far the last subscribe of h is
    awaits,         \* awaits[h]: the socket its subscribe waits for, 0 otherwise
    rereads,        \* rereads[h]: connect() will return this.socket after that wait
    sendDue         \* sendDue[h]: wasOpenBefore && wasNewSubscription

socketVars == <<ws, socket, connecting>>
hookVars   == <<mounted, phase, awaits, rereads, sendDue>>
vars == <<socketVars, requested, timer, attempts, listeners, subscriptions, hookVars>>

-----------------------------------------------------------------------------
ReadyState == {"none", "connecting", "open", "closing", "closed"}

\* "failed": the promise of subscribe was rejected.
Phase == {"idle", "pending", "subscribed", "failed"}

IsOpen(s) == s # 0 /\ ws[s] = "open"
Usable == socket # 0 /\ ws[socket] \in {"connecting", "open"}

Made == {s \in Socket : ws[s] # "none"}
NextSocket == Cardinality(Made) + 1

\* The promise that h waits for is settled and its continuation can run.
Resumable(h) == phase[h] = "pending" /\ IsOpen(awaits[h])

\* No continuation is left: the next task may run.
Quiet == \A h \in Hook : ~Resumable(h)

\* The promises of the hooks in H are settled.
Settle(H, p) ==
    /\ phase' = [h \in Hook |-> IF h \in H THEN p ELSE phase[h]]
    /\ awaits' = [h \in Hook |-> IF h \in H THEN 0 ELSE awaits[h]]

\* Mutant: a connection in progress is not shared.
ConnectAlone(s) ==
    \/ IsOpen(socket) /\ s = socket /\ UNCHANGED socketVars
    \/ /\ ~IsOpen(socket)
       /\ s = NextSocket /\ s \in Socket
       /\ ws' = [ws EXCEPT ![s] = "connecting"]
       /\ socket' = s
       /\ connecting' = s

\* connect(): s is the socket whose opening the caller waits for.
Connect(s) ==
    \/ Usable /\ s = socket /\ UNCHANGED socketVars
    \/ ~Usable /\ connecting # 0 /\ s = connecting /\ UNCHANGED socketVars
    \/ /\ ~Usable /\ connecting = 0
       /\ s = NextSocket /\ s \in Socket
       /\ ws' = [ws EXCEPT ![s] = "connecting"]
       /\ socket' = s
       /\ connecting' = s

\* Mutant: only a failed connect() reconnects, a lost socket does not.
ScheduleNothing == UNCHANGED timer

\* scheduleReconnect(): idempotent, and nothing without subscriptions.
ScheduleReconnect == timer' = (timer \/ subscriptions # {})

-----------------------------------------------------------------------------
Init ==
    /\ ws = [s \in Socket |-> "none"]
    /\ requested = [s \in Socket |-> [k \in Key |-> 0]]
    /\ socket = 0
    /\ connecting = 0
    /\ timer = FALSE
    /\ attempts = 0
    /\ listeners = {}
    /\ subscriptions = {}
    /\ mounted = [h \in Hook |-> FALSE]
    /\ phase = [h \in Hook |-> "idle"]
    /\ awaits = [h \in Hook |-> 0]
    /\ rereads = [h \in Hook |-> FALSE]
    /\ sendDue = [h \in Hook |-> FALSE]

\* The effect runs: subscribe() up to its first await.
Mount(h) ==
    /\ phase[h] = "idle"
    /\ mounted' = [mounted EXCEPT ![h] = TRUE]
    /\ listeners' = listeners \cup {h}
    /\ subscriptions' = subscriptions \cup {KeyOf[h]}
    /\ phase' = [phase EXCEPT ![h] = "pending"]
    /\ sendDue' = [sendDue EXCEPT ![h] = IsOpen(socket) /\ KeyOf[h] \notin subscriptions]
    /\ rereads' = [rereads EXCEPT ![h] = Usable /\ ~IsOpen(socket)]
    /\ \E s \in Socket : Connect(s) /\ awaits' = [awaits EXCEPT ![h] = s]
    /\ UNCHANGED <<requested, timer, attempts>>

\* connect() has waited for a socket that this.socket does not name any more:
\* subscribe gets null and fails, or waits for the socket it gets instead.
Misled(h) ==
    /\ Resumable(h) /\ rereads[h] /\ ~IsOpen(socket)
    /\ IF socket = 0
       THEN Settle({h}, "failed")
       ELSE awaits' = [awaits EXCEPT ![h] = socket] /\ UNCHANGED phase
    /\ rereads' = [rereads EXCEPT ![h] = FALSE]
    /\ UNCHANGED <<socketVars, requested, timer, attempts, listeners, subscriptions,
                   mounted, sendDue>>

\* Mutant: the REQUEST of a new key on an open socket is forgotten.
ResumeWithoutRequest(h) ==
    /\ Resumable(h) /\ ~(rereads[h] /\ ~IsOpen(socket))
    /\ Settle({h}, "subscribed")
    /\ rereads' = [rereads EXCEPT ![h] = FALSE]
    /\ sendDue' = [sendDue EXCEPT ![h] = FALSE]
    /\ UNCHANGED <<socketVars, requested, timer, attempts, listeners, subscriptions,
                   mounted>>

\* The rest of subscribe(): the REQUEST of a key that was new on an open
\* socket, and the cleanup the hook will run.
Resume(h) ==
    /\ Resumable(h) /\ ~(rereads[h] /\ ~IsOpen(socket))
    /\ Settle({h}, "subscribed")
    /\ rereads' = [rereads EXCEPT ![h] = FALSE]
    /\ requested' = IF sendDue[h]
                    THEN [requested EXCEPT ![awaits[h]][KeyOf[h]] = @ + 1]
                    ELSE requested
    /\ sendDue' = [sendDue EXCEPT ![h] = FALSE]
    /\ UNCHANGED <<socketVars, timer, attempts, listeners, subscriptions, mounted>>

\* Mutant: the subscription is deleted while others listen.
UnmountForAll(h) ==
    /\ mounted[h] /\ phase[h] = "subscribed"
    /\ mounted' = [mounted EXCEPT ![h] = FALSE]
    /\ phase' = [phase EXCEPT ![h] = "idle"]
    /\ listeners' = listeners \ {h}
    /\ subscriptions' = subscriptions \ {KeyOf[h]}
    /\ requested' = IF IsOpen(socket)
                    THEN [requested EXCEPT ![socket][KeyOf[h]] = 0]
                    ELSE requested
    /\ UNCHANGED <<socketVars, timer, attempts, awaits, rereads, sendDue>>

\* Mutant: the last listener leaves without a CLOSE.
UnmountWithoutClose(h) ==
    LET k == KeyOf[h]
        last == {g \in listeners : KeyOf[g] = k} = {h}
    IN  /\ mounted[h] /\ phase[h] = "subscribed"
        /\ mounted' = [mounted EXCEPT ![h] = FALSE]
        /\ phase' = [phase EXCEPT ![h] = "idle"]
        /\ listeners' = listeners \ {h}
        /\ subscriptions' = IF last THEN subscriptions \ {k} ELSE subscriptions
        /\ UNCHANGED <<socketVars, requested, timer, attempts, awaits, rereads, sendDue>>

\* The cleanup of the effect once subscribe has resolved: unsubscribe().
Unmount(h) ==
    LET k == KeyOf[h]
        last == {g \in listeners : KeyOf[g] = k} = {h}
    IN  /\ mounted[h] /\ phase[h] = "subscribed"
        /\ mounted' = [mounted EXCEPT ![h] = FALSE]
        /\ phase' = [phase EXCEPT ![h] = "idle"]
        /\ listeners' = listeners \ {h}
        /\ subscriptions' = IF last THEN subscriptions \ {k} ELSE subscriptions
        /\ requested' = IF last /\ IsOpen(socket)
                        THEN [requested EXCEPT ![socket][k] = 0]
                        ELSE requested
        /\ UNCHANGED <<socketVars, timer, attempts, awaits, rereads, sendDue>>

\* The cleanup before that, or after subscribe has failed: cleanup is
\* undefined, and what subscribe did is not undone, then or later.
UnmountEarly(h) ==
    /\ mounted[h] /\ phase[h] \in {"pending", "failed"}
    /\ mounted' = [mounted EXCEPT ![h] = FALSE]
    /\ UNCHANGED <<socketVars, requested, timer, attempts, listeners, subscriptions,
                   phase, awaits, rereads, sendDue>>

-----------------------------------------------------------------------------
(* The socket and the timer. *)

\* The socket opens: every subscription is requested on it.
SocketOpens(s) ==
    /\ Quiet
    /\ ws[s] = "connecting"
    /\ ws' = [ws EXCEPT ![s] = "open"]
    /\ attempts' = 0
    /\ requested' = [requested EXCEPT ![s] = [k \in Key |-> IF k \in subscriptions
                                                            THEN 1 ELSE 0]]
    /\ connecting' = 0
    /\ UNCHANGED <<socket, timer, listeners, subscriptions, hookVars>>

\* The connection fails or is lost: error, then close.  Whoever waited for
\* the socket is rejected; onclose does not ask which socket it is called for.
SocketDrops(s) ==
    /\ Quiet
    /\ ws[s] \in {"connecting", "open", "closing"}
    /\ s < MaxSocket
    /\ ws' = [ws EXCEPT ![s] = "closed"]
    /\ socket' = 0
    /\ connecting' = 0
    /\ ScheduleReconnect
    /\ Settle({h \in Hook : awaits[h] = s}, "failed")
    /\ rereads' = [h \in Hook |-> rereads[h] /\ awaits[h] # s]
    /\ requested' = [requested EXCEPT ![s] = [k \in Key |-> 0]]
    /\ UNCHANGED <<attempts, listeners, subscriptions, mounted, sendDue>>

\* A Close frame arrives: the socket is CLOSING until it is closed.
CloseFrame(s) ==
    /\ Quiet
    /\ CloseHandshake
    /\ ws[s] = "open"
    /\ s < MaxSocket
    /\ ws' = [ws EXCEPT ![s] = "closing"]
    /\ UNCHANGED <<requested, socket, connecting, timer, attempts, listeners,
                   subscriptions, hookVars>>

\* The reconnect timer fires: connect(), whoever is subscribed by now.  A
\* rejection calls scheduleReconnect once more, in the task of its onclose.
TimerFires ==
    /\ Quiet
    /\ timer
    /\ timer' = FALSE
    /\ attempts' = IF attempts < MaxBackoff THEN attempts + 1 ELSE attempts
    /\ \E s \in Socket : Connect(s)
    /\ UNCHANGED <<requested, listeners, subscriptions, hookVars>>

-----------------------------------------------------------------------------
Next ==
    \/ \E h \in Hook : \/ Mount(h) \/ Resume(h) \/ Misled(h)
                       \/ Unmount(h) \/ UnmountEarly(h)
    \/ \E s \in Socket : SocketOpens(s) \/ SocketDrops(s) \/ CloseFrame(s)
    \/ TimerFires

Spec == Init /\ [][Next]_vars

(***************************************************************************)
(* Fairness: continuations and timers run, a connection attempt succeeds   *)
(* or fails.  Mounting, unmounting and losing a connection are not fair.   *)
(***************************************************************************)
Fairness ==
    /\ \A h \in Hook : WF_vars(Resume(h) \/ Misled(h))
    /\ \A s \in Socket : WF_vars(SocketOpens(s) \/ SocketDrops(s))
    /\ WF_vars(TimerFires)

FairSpec == Spec /\ Fairness

-----------------------------------------------------------------------------
(* Properties. *)

TypeOK ==
    /\ ws \in [Socket -> ReadyState]
    /\ requested \in [Socket -> [Key -> Nat]]
    /\ socket \in {0} \cup Socket
    /\ connecting \in {0} \cup Socket
    /\ timer \in BOOLEAN
    /\ attempts \in 0..MaxBackoff
    /\ listeners \subseteq Hook
    /\ subscriptions \subseteq Key
    /\ mounted \in [Hook -> BOOLEAN]
    /\ phase \in [Hook -> Phase]
    /\ awaits \in [Hook -> {0} \cup Socket]
    /\ rereads \in [Hook -> BOOLEAN]
    /\ sendDue \in [Hook -> BOOLEAN]

\* "1:1 with listeners" (comment of subscriptions): a key is kept for
\* resending exactly while a handler listens to it.
SubscriptionsMatchListeners == subscriptions = {KeyOf[h] : h \in listeners}

\* When no continuation is left, an open this.socket carries one REQUEST of
\* each subscription and of nothing else: the resending at the open event, the
\* direct REQUEST of a new key and the CLOSE of the last listener together
\* neither miss nor repeat one.
OpenSocketCarriesSubscriptions ==
    Quiet /\ IsOpen(socket) =>
        \A k \in Key : requested[socket][k] = IF k \in subscriptions THEN 1 ELSE 0

\* When connections are lost without a closing handshake, the one socket in
\* use is this.socket: no second stream is opened beside it.
SingleSocket ==
    \A s \in Socket : ws[s] \in {"connecting", "open"} => s = socket

\* Subscriptions without a socket have a reconnect coming.
NeverStranded == subscriptions # {} /\ socket = 0 => timer

\* A mounted component gets its REQUEST onto an open connection, through
\* failures and reconnects.
MountedIsRequested ==
    \A h \in Hook : mounted[h]
        ~> (IsOpen(socket) /\ requested[socket][KeyOf[h]] # 0) \/ ~mounted[h]

-----------------------------------------------------------------------------
(* Why they hold: the inductive invariant of WatchClientProofs. *)

\* The connection in progress is that of this.socket.
ConnectingIsSocket ==
    connecting # 0 => connecting = socket /\ ws[socket] = "connecting"

Listening ==
    /\ \A h \in Hook : phase[h] # "idle" => h \in listeners
    /\ \A h \in Hook : awaits[h] # 0 => phase[h] = "pending"

Due(k) == \E h \in Hook : sendDue[h] /\ KeyOf[h] = k

\* A REQUEST that a continuation still owes is the only one of its key, and
\* nothing but continuations runs before it is sent.
DueIsResumable ==
    /\ \A h \in Hook : sendDue[h] =>
          /\ phase[h] = "pending" /\ ~rereads[h]
          /\ awaits[h] = socket /\ IsOpen(socket)
    /\ \A g, h \in Hook : sendDue[g] /\ sendDue[h] /\ KeyOf[g] = KeyOf[h] => g = h

Carried ==
    IsOpen(socket) =>
        \A k \in Key : requested[socket][k] = IF k \in subscriptions /\ ~Due(k) THEN 1 ELSE 0

NoneClosing == \A s \in Socket : ws[s] # "closing"

IInv ==
    /\ TypeOK /\ SubscriptionsMatchListeners /\ NeverStranded
    /\ ConnectingIsSocket /\ Listening /\ DueIsResumable /\ Carried
    /\ ~CloseHandshake => SingleSocket /\ NoneClosing

=============================================================================
