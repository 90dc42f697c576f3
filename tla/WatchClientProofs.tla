--------------------------- MODULE WatchClientProofs ---------------------------
(* Theorems about WatchClient, for every value of its constants. *)
EXTENDS WatchClient, TLAPS

-----------------------------------------------------------------------------
(* connect() and the operators. *)

LEMMA SocketIsPositive == \A s \in Socket : s \in Nat /\ s # 0
BY ClientAssumption DEF ClientAssumption, Socket

LEMMA KeyIsKey == \A h \in Hook : KeyOf[h] \in Key
BY DEF Key

\* connect() ends with a socket in this.socket, and changes nothing while that
\* is open.
LEMMA ConnectKeeps ==
  ASSUME IInv, NEW s \in Socket, Connect(s)
  PROVE  /\ ws' \in [Socket -> ReadyState] /\ socket' = s /\ connecting' \in {0} \cup Socket
         /\ ConnectingIsSocket'
         /\ IsOpen(socket) => UNCHANGED socketVars
         /\ IsOpen(socket)' => UNCHANGED socketVars
         /\ ~CloseHandshake => SingleSocket' /\ NoneClosing'
<1> USE SocketIsPositive DEF IInv, TypeOK, ReadyState, ConnectingIsSocket, IsOpen, Usable
<1>1. CASE UNCHANGED socketVars /\ Usable /\ s = socket
  BY <1>1 DEF socketVars, SingleSocket, NoneClosing
<1>2. CASE ~Usable /\ connecting = 0 /\ ws' = [ws EXCEPT ![s] = "connecting"] /\ socket' = s /\ connecting' = s
  <2>1. ws'[s] = "connecting" /\ \A o \in Socket : o # s => ws'[o] = ws[o]
    BY <1>2
  <2>2. ~CloseHandshake => SingleSocket' /\ NoneClosing'
    BY <1>2, <2>1 DEF SingleSocket, NoneClosing
  <2>3. QED
    BY <1>2, <2>1, <2>2
<1>3. QED
  BY <1>1, <1>2 DEF Connect

\* Hooks whose promise is settled are in a phase and await nothing.
LEMMA SettleTypes ==
  ASSUME TypeOK, NEW H, NEW p \in Phase, Settle(H, p)
  PROVE  phase' \in [Hook -> Phase] /\ awaits' \in [Hook -> {0} \cup Socket]
BY DEF TypeOK, Settle

\* The state that the text of a conjunct depends on decides it.
LEMMA SameState ==
  ASSUME IInv, UNCHANGED vars
  PROVE  IInv'
BY DEF vars, socketVars, hookVars, IInv, TypeOK, SubscriptionsMatchListeners, NeverStranded,
       ConnectingIsSocket, Listening, DueIsResumable, Carried, Due, IsOpen, SingleSocket, NoneClosing

-----------------------------------------------------------------------------
(* The invariant. *)

LEMMA InvInit == Init => IInv
<1> SUFFICES ASSUME Init PROVE IInv
  OBVIOUS
<1>1. TypeOK
  <2>1. 0 \in 0..MaxBackoff
    BY ClientAssumption DEF ClientAssumption
  <2>2. [s \in Socket |-> [k \in Key |-> 0]] \in [Socket -> [Key -> Nat]]
    OBVIOUS
  <2>3. timer \in BOOLEAN /\ mounted \in [Hook -> BOOLEAN] /\ rereads \in [Hook -> BOOLEAN]
        /\ sendDue \in [Hook -> BOOLEAN]
    BY DEF Init
  <2>4. QED
    BY <2>1, <2>2, <2>3 DEF Init, TypeOK, ReadyState, Phase
<1>2. QED
  BY <1>1 DEF Init, IInv, SubscriptionsMatchListeners, NeverStranded, ConnectingIsSocket, Listening,
        DueIsResumable, Carried, IsOpen, SingleSocket, NoneClosing

LEMMA MountKeeps == ASSUME IInv, NEW h \in Hook, Mount(h) PROVE IInv'
<1> USE KeyIsKey DEF IInv
<1>1. PICK s \in Socket : Connect(s) /\ awaits' = [awaits EXCEPT ![h] = s]
  BY DEF Mount
<1>2. /\ ws' \in [Socket -> ReadyState] /\ socket' = s /\ connecting' \in {0} \cup Socket
      /\ ConnectingIsSocket'
      /\ IsOpen(socket) => UNCHANGED socketVars
      /\ IsOpen(socket)' => UNCHANGED socketVars
      /\ ~CloseHandshake => SingleSocket' /\ NoneClosing'
  BY <1>1, ConnectKeeps
<1>3. /\ phase[h] = "idle"
      /\ mounted' = [mounted EXCEPT ![h] = TRUE]
      /\ listeners' = listeners \cup {h}
      /\ subscriptions' = subscriptions \cup {KeyOf[h]}
      /\ phase' = [phase EXCEPT ![h] = "pending"]
      /\ sendDue' = [sendDue EXCEPT ![h] = IsOpen(socket) /\ KeyOf[h] \notin subscriptions]
      /\ rereads' = [rereads EXCEPT ![h] = Usable /\ ~IsOpen(socket)]
      /\ UNCHANGED <<requested, timer, attempts>>
  BY DEF Mount
<1>4. TypeOK'
  <2>1. sendDue' \in [Hook -> BOOLEAN] /\ rereads' \in [Hook -> BOOLEAN] /\ mounted' \in [Hook -> BOOLEAN]
    BY <1>3 DEF TypeOK, IsOpen, Usable
  <2>2. phase' \in [Hook -> Phase] /\ awaits' \in [Hook -> {0} \cup Socket]
    BY <1>1, <1>3 DEF TypeOK, Phase
  <2>3. QED
    BY <1>2, <1>3, <2>1, <2>2 DEF TypeOK
<1>5. SubscriptionsMatchListeners'
  BY <1>3 DEF SubscriptionsMatchListeners
<1>6. NeverStranded'
  BY <1>2, SocketIsPositive DEF NeverStranded
<1>7. Listening'
  BY <1>1, <1>3 DEF Listening, TypeOK
<1>8. sendDue'[h] <=> (IsOpen(socket) /\ KeyOf[h] \notin subscriptions)
  BY <1>3 DEF TypeOK
<1>9. \A g \in Hook : g # h => /\ sendDue'[g] = sendDue[g] /\ phase'[g] = phase[g]
                               /\ rereads'[g] = rereads[g] /\ awaits'[g] = awaits[g]
  BY <1>1, <1>3 DEF TypeOK
<1>10. ~sendDue[h] /\ phase'[h] = "pending" /\ awaits'[h] = s
  BY <1>1, <1>3 DEF TypeOK, DueIsResumable
<1>11. ~rereads'[h] \/ ~IsOpen(socket)
  BY <1>3 DEF TypeOK
<1>12. \A g \in Hook : sendDue[g] => KeyOf[g] \in subscriptions
  BY DEF DueIsResumable, Listening, SubscriptionsMatchListeners
<1>13. \A g \in Hook : sendDue[g] \/ sendDue'[g] => IsOpen(socket) /\ UNCHANGED socketVars
  BY <1>2, <1>8, <1>9, <1>10 DEF DueIsResumable
<1>14. IsOpen(socket) => IsOpen(socket)'
  BY <1>2 DEF IsOpen, socketVars
<1>15. DueIsResumable'
  <2>1. ASSUME NEW g \in Hook, sendDue'[g]
        PROVE  phase'[g] = "pending" /\ ~rereads'[g] /\ awaits'[g] = socket' /\ IsOpen(socket)'
    BY <1>2, <1>8, <1>9, <1>10, <1>11, <1>13, <1>14, <2>1 DEF DueIsResumable, socketVars
  <2>2. ASSUME NEW f \in Hook, NEW g \in Hook, sendDue'[f], sendDue'[g], KeyOf[f] = KeyOf[g]
        PROVE  f = g
    BY <1>8, <1>9, <1>12, <2>2 DEF DueIsResumable
  <2>3. QED
    BY <2>1, <2>2 DEF DueIsResumable
<1>16. Carried'
  <2> SUFFICES ASSUME IsOpen(socket)', NEW k \in Key
               PROVE  requested'[socket'][k] = IF k \in subscriptions' /\ ~Due(k)' THEN 1 ELSE 0
    BY DEF Carried
  <2>1. UNCHANGED socketVars /\ IsOpen(socket) /\ UNCHANGED requested
    BY <1>2, <1>3 DEF IsOpen, socketVars
  <2>2. requested'[socket'][k] = IF k \in subscriptions /\ ~Due(k) THEN 1 ELSE 0
    BY <2>1 DEF Carried, socketVars
  <2>3. CASE k # KeyOf[h]
    <3>1. Due(k)' <=> Due(k)
      BY <1>9, <2>3 DEF Due
    <3>2. QED
      BY <1>3, <2>2, <2>3, <3>1
  <2>4. CASE k = KeyOf[h] /\ k \in subscriptions
    <3>1. Due(k)' <=> Due(k)
      BY <1>8, <1>9, <1>10, <2>4 DEF Due
    <3>2. QED
      BY <1>3, <2>2, <2>4, <3>1
  <2>5. CASE k = KeyOf[h] /\ k \notin subscriptions
    <3>1. Due(k)'
      BY <1>8, <2>1, <2>5 DEF Due
    <3>2. QED
      BY <2>2, <2>5, <3>1
  <2>6. QED
    BY <2>3, <2>4, <2>5
<1>17. QED
  BY <1>2, <1>4, <1>5, <1>6, <1>7, <1>15, <1>16

LEMMA ResumeKeeps == ASSUME IInv, NEW h \in Hook, Resume(h) PROVE IInv'
<1> USE KeyIsKey DEF IInv
<1>1. /\ phase[h] = "pending" /\ IsOpen(awaits[h])
      /\ Settle({h}, "subscribed")
      /\ rereads' = [rereads EXCEPT ![h] = FALSE]
      /\ sendDue' = [sendDue EXCEPT ![h] = FALSE]
      /\ UNCHANGED <<socketVars, timer, attempts, listeners, subscriptions, mounted>>
  BY DEF Resume, Resumable
<1>2. IF sendDue[h]
      THEN requested' = [requested EXCEPT ![awaits[h]][KeyOf[h]] = @ + 1]
      ELSE requested' = requested
  BY DEF Resume
<1>3. requested' \in [Socket -> [Key -> Nat]]
  BY <1>1, <1>2 DEF TypeOK, IsOpen
<1>4. TypeOK'
  <2>1. phase' \in [Hook -> Phase] /\ awaits' \in [Hook -> {0} \cup Socket]
    BY <1>1, SettleTypes DEF Phase
  <2>2. rereads' \in [Hook -> BOOLEAN] /\ sendDue' \in [Hook -> BOOLEAN]
    BY <1>1 DEF TypeOK
  <2>3. QED
    BY <1>1, <1>3, <2>1, <2>2 DEF TypeOK, socketVars
<1>5. /\ ~sendDue'[h] /\ phase'[h] = "subscribed" /\ awaits'[h] = 0
      /\ \A g \in Hook : g # h => /\ sendDue'[g] = sendDue[g] /\ phase'[g] = phase[g]
                                  /\ rereads'[g] = rereads[g] /\ awaits'[g] = awaits[g]
  BY <1>1 DEF TypeOK, Settle
<1>6. Listening'
  BY <1>1, <1>5 DEF Listening
<1>7. DueIsResumable'
  BY <1>1, <1>5 DEF DueIsResumable, IsOpen, socketVars
<1>8. Carried'
  <2> SUFFICES ASSUME IsOpen(socket), NEW k \in Key
               PROVE  requested'[socket][k] = IF k \in subscriptions /\ ~Due(k)' THEN 1 ELSE 0
    BY <1>1 DEF Carried, IsOpen, socketVars
  <2>1. requested[socket][k] = IF k \in subscriptions /\ ~Due(k) THEN 1 ELSE 0
    BY DEF Carried
  <2>2. CASE sendDue[h] /\ k = KeyOf[h]
    <3>1. Due(k) /\ ~Due(k)' /\ k \in subscriptions
      BY <1>1, <1>5, <2>2 DEF Due, DueIsResumable, Listening, SubscriptionsMatchListeners
    <3>2. awaits[h] = socket /\ socket \in Socket
      BY <2>2 DEF DueIsResumable, TypeOK, IsOpen
    <3>3. requested'[socket][k] = requested[socket][k] + 1
      BY <1>2, <2>2, <3>2 DEF TypeOK
    <3>4. QED
      BY <2>1, <3>1, <3>3
  <2>3. CASE ~(sendDue[h] /\ k = KeyOf[h])
    <3>1. Due(k)' <=> Due(k)
      BY <1>5, <2>3 DEF Due
    <3>2. requested'[socket][k] = requested[socket][k]
      BY <1>2, <2>3 DEF TypeOK, IsOpen
    <3>3. QED
      BY <2>1, <3>1, <3>2
  <2>4. QED
    BY <2>2, <2>3
<1>9. SubscriptionsMatchListeners' /\ NeverStranded' /\ ConnectingIsSocket' /\ (~CloseHandshake => SingleSocket' /\ NoneClosing')
  BY <1>1 DEF socketVars, SubscriptionsMatchListeners, NeverStranded, ConnectingIsSocket, SingleSocket, NoneClosing
<1>10. QED
  BY <1>4, <1>6, <1>7, <1>8, <1>9

LEMMA MisledKeeps == ASSUME IInv, NEW h \in Hook, Misled(h) PROVE IInv'
<1> USE DEF IInv
<1>1. /\ phase[h] = "pending" /\ rereads[h]
      /\ rereads' = [rereads EXCEPT ![h] = FALSE]
      /\ UNCHANGED <<socketVars, requested, timer, attempts, listeners, subscriptions, mounted, sendDue>>
  BY DEF Misled, Resumable
<1>2. \/ Settle({h}, "failed")
      \/ socket # 0 /\ awaits' = [awaits EXCEPT ![h] = socket] /\ UNCHANGED phase
  BY DEF Misled
<1>3. phase' \in [Hook -> Phase] /\ awaits' \in [Hook -> {0} \cup Socket]
  <2>1. "failed" \in Phase
    BY DEF Phase
  <2>2. CASE Settle({h}, "failed")
    BY <2>1, <2>2, SettleTypes
  <2>3. CASE socket # 0 /\ awaits' = [awaits EXCEPT ![h] = socket] /\ UNCHANGED phase
    BY <2>3 DEF TypeOK
  <2>4. QED
    BY <1>2, <2>2, <2>3
<1>4. TypeOK'
  <2>1. rereads' \in [Hook -> BOOLEAN]
    BY <1>1 DEF TypeOK
  <2>2. QED
    BY <1>1, <1>3, <2>1 DEF TypeOK, socketVars
<1>5. (awaits'[h] # 0 => phase'[h] = "pending") /\ phase'[h] # "idle"
  BY <1>1, <1>2 DEF TypeOK, Settle
<1>6. ~sendDue[h] /\ \A g \in Hook : g # h => /\ phase'[g] = phase[g] /\ rereads'[g] = rereads[g]
                                              /\ awaits'[g] = awaits[g]
  BY <1>1, <1>2 DEF TypeOK, Settle, DueIsResumable
<1>7. Listening'
  BY <1>1, <1>5, <1>6 DEF Listening
<1>8. DueIsResumable' /\ Carried'
  BY <1>1, <1>6 DEF DueIsResumable, Carried, Due, IsOpen, socketVars
<1>9. SubscriptionsMatchListeners' /\ NeverStranded' /\ ConnectingIsSocket' /\ (~CloseHandshake => SingleSocket' /\ NoneClosing')
  BY <1>1 DEF socketVars, SubscriptionsMatchListeners, NeverStranded, ConnectingIsSocket, SingleSocket, NoneClosing
<1>10. QED
  BY <1>4, <1>7, <1>8, <1>9

LEMMA UnmountKeeps == ASSUME IInv, NEW h \in Hook, Unmount(h) PROVE IInv'
<1> DEFINE k == KeyOf[h]
           last == {g \in listeners : KeyOf[g] = k} = {h}
<1> USE KeyIsKey DEF IInv
<1>1. /\ phase[h] = "subscribed"
      /\ mounted' = [mounted EXCEPT ![h] = FALSE]
      /\ phase' = [phase EXCEPT ![h] = "idle"]
      /\ listeners' = listeners \ {h}
      /\ subscriptions' = IF last THEN subscriptions \ {k} ELSE subscriptions
      /\ requested' = IF last /\ IsOpen(socket)
                      THEN [requested EXCEPT ![socket][k] = 0] ELSE requested
      /\ UNCHANGED <<socketVars, timer, attempts, awaits, rereads, sendDue>>
  BY DEF Unmount
<1>2. h \in listeners /\ ~sendDue[h]
  BY <1>1 DEF Listening, DueIsResumable
<1>3. last => ~Due(k)
  BY <1>2 DEF Due, DueIsResumable, Listening
<1> HIDE DEF k
<1>4. TypeOK'
  <2>1. mounted' \in [Hook -> BOOLEAN] /\ phase' \in [Hook -> Phase]
    BY <1>1 DEF TypeOK, Phase
  <2>2. requested' \in [Socket -> [Key -> Nat]]
    BY <1>1 DEF TypeOK, k, IsOpen
  <2>3. QED
    BY <1>1, <2>1, <2>2 DEF TypeOK, socketVars
<1>5. SubscriptionsMatchListeners'
  BY <1>1, <1>2 DEF SubscriptionsMatchListeners, TypeOK, k
<1>6. Listening' /\ DueIsResumable'
  BY <1>1, <1>2 DEF Listening, DueIsResumable, TypeOK, IsOpen, socketVars
<1>7. Carried'
  <2> SUFFICES ASSUME IsOpen(socket), NEW j \in Key
               PROVE  requested'[socket][j] = IF j \in subscriptions' /\ ~Due(j) THEN 1 ELSE 0
    BY <1>1 DEF Carried, Due, IsOpen, socketVars
  <2>1. requested[socket][j] = IF j \in subscriptions /\ ~Due(j) THEN 1 ELSE 0
    BY DEF Carried
  <2>2. socket \in Socket
    BY DEF TypeOK, IsOpen
  <2>3. CASE last /\ j = k
    BY <1>1, <2>2, <2>3 DEF TypeOK
  <2>4. CASE ~(last /\ j = k)
    <3>1. requested'[socket][j] = requested[socket][j]
      BY <1>1, <2>2, <2>4 DEF TypeOK
    <3>2. QED
      BY <1>1, <2>1, <2>4, <3>1
  <2>5. QED
    BY <2>3, <2>4
<1>8. NeverStranded' /\ ConnectingIsSocket' /\ (~CloseHandshake => SingleSocket' /\ NoneClosing')
  BY <1>1 DEF socketVars, NeverStranded, ConnectingIsSocket, SingleSocket, NoneClosing
<1>9. QED
  BY <1>4, <1>5, <1>6, <1>7, <1>8

LEMMA UnmountEarlyKeeps == ASSUME IInv, NEW h \in Hook, UnmountEarly(h) PROVE IInv'
<1>1. TypeOK'
  <2>1. mounted' \in [Hook -> BOOLEAN]
    BY DEF IInv, TypeOK, UnmountEarly
  <2>2. QED
    BY <2>1 DEF IInv, TypeOK, UnmountEarly, socketVars
<1>2. QED
  BY <1>1 DEF UnmountEarly, socketVars, IInv, SubscriptionsMatchListeners, NeverStranded,
     ConnectingIsSocket, Listening, DueIsResumable, Carried, Due, IsOpen, SingleSocket, NoneClosing

-----------------------------------------------------------------------------
(* The socket and the timer keep it: they run when nothing is owed. *)

LEMMA NothingDue == ASSUME IInv, Quiet PROVE \A h \in Hook : ~sendDue[h]
BY DEF IInv, DueIsResumable, Quiet, Resumable

LEMMA OpensKeeps == ASSUME IInv, NEW s \in Socket, SocketOpens(s) PROVE IInv'
<1> USE SocketIsPositive DEF IInv, SocketOpens, hookVars
<1>0. \A h \in Hook : ~sendDue[h]
  BY NothingDue
<1>1. TypeOK'
  <2>1. ws' \in [Socket -> ReadyState]
    BY DEF TypeOK, ReadyState
  <2>2. requested' \in [Socket -> [Key -> Nat]]
    <3>1. [k \in Key |-> IF k \in subscriptions THEN 1 ELSE 0] \in [Key -> Nat]
      OBVIOUS
    <3>2. QED
      BY <3>1 DEF TypeOK
  <2>3. attempts' \in 0..MaxBackoff
    BY ClientAssumption DEF ClientAssumption
  <2>4. QED
    BY <2>1, <2>2, <2>3 DEF TypeOK
<1>2. SubscriptionsMatchListeners' /\ NeverStranded' /\ ConnectingIsSocket' /\ Listening'
  BY DEF SubscriptionsMatchListeners, NeverStranded, ConnectingIsSocket, Listening
<1>3. DueIsResumable'
  BY <1>0 DEF DueIsResumable
<1>4. Carried'
  <2> SUFFICES ASSUME IsOpen(socket)', NEW k \in Key
               PROVE  requested'[socket][k] = IF k \in subscriptions THEN 1 ELSE 0
    BY <1>0 DEF Carried, Due
  <2>1. CASE socket = s
    BY <2>1 DEF TypeOK
  <2>2. CASE socket # s
    <3>1. IsOpen(socket) /\ requested'[socket] = requested[socket]
      BY <2>2 DEF TypeOK, IsOpen
    <3>2. QED
      BY <1>0, <3>1 DEF Carried, Due
  <2>3. QED
    BY <2>1, <2>2
<1>5. ~CloseHandshake => SingleSocket' /\ NoneClosing'
  BY DEF SingleSocket, NoneClosing, TypeOK
<1>6. QED
  BY <1>1, <1>2, <1>3, <1>4, <1>5

LEMMA DropsKeeps == ASSUME IInv, NEW s \in Socket, SocketDrops(s) PROVE IInv'
<1> USE SocketIsPositive DEF IInv, SocketDrops
<1>0. \A h \in Hook : ~sendDue[h]
  BY NothingDue
<1>1. TypeOK'
  <2>1. ws' \in [Socket -> ReadyState]
    BY DEF TypeOK, ReadyState
  <2>2. requested' \in [Socket -> [Key -> Nat]]
    <3>1. [k \in Key |-> 0] \in [Key -> Nat]
      OBVIOUS
    <3>2. QED
      BY <3>1 DEF TypeOK
  <2>3. phase' \in [Hook -> Phase] /\ awaits' \in [Hook -> {0} \cup Socket]
    BY SettleTypes DEF Phase
  <2>4. timer' \in BOOLEAN /\ rereads' \in [Hook -> BOOLEAN]
    BY DEF ScheduleReconnect, TypeOK
  <2>5. QED
    BY <2>1, <2>2, <2>3, <2>4 DEF TypeOK
<1>2. SubscriptionsMatchListeners' /\ ConnectingIsSocket'
  BY DEF SubscriptionsMatchListeners, ConnectingIsSocket
<1>3. NeverStranded'
  BY DEF NeverStranded, ScheduleReconnect
<1>4. Listening'
  BY DEF Listening, Settle, TypeOK
<1>5. DueIsResumable'
  BY <1>0 DEF DueIsResumable
<1>6. Carried'
  BY DEF Carried, IsOpen
<1>7. ~CloseHandshake => SingleSocket' /\ NoneClosing'
  BY DEF SingleSocket, NoneClosing, TypeOK
<1>8. QED
  BY <1>1, <1>2, <1>3, <1>4, <1>5, <1>6, <1>7

LEMMA CloseKeeps == ASSUME IInv, NEW s \in Socket, CloseFrame(s) PROVE IInv'
<1> USE SocketIsPositive DEF IInv, CloseFrame, hookVars
<1>0. \A h \in Hook : ~sendDue[h]
  BY NothingDue
<1>1. TypeOK'
  <2>1. ws' \in [Socket -> ReadyState]
    BY DEF TypeOK, ReadyState
  <2>2. QED
    BY <2>1 DEF TypeOK
<1>2. SubscriptionsMatchListeners' /\ NeverStranded' /\ Listening'
  BY DEF SubscriptionsMatchListeners, NeverStranded, Listening
<1>3. ConnectingIsSocket'
  BY DEF ConnectingIsSocket, TypeOK
<1>4. DueIsResumable'
  BY <1>0 DEF DueIsResumable
<1>5. Carried'
  <2>1. IsOpen(socket)' => IsOpen(socket)
    BY DEF IsOpen, TypeOK
  <2>2. QED
    BY <1>0, <2>1 DEF Carried, Due
<1>6. QED
  BY <1>1, <1>2, <1>3, <1>4, <1>5

LEMMA TimerKeeps == ASSUME IInv, TimerFires PROVE IInv'
<1> USE DEF IInv
<1>0. \A h \in Hook : ~sendDue[h]
  BY NothingDue DEF TimerFires
<1>1. PICK s \in Socket : Connect(s)
  BY DEF TimerFires
<1>2. /\ ws' \in [Socket -> ReadyState] /\ socket' = s /\ connecting' \in {0} \cup Socket
      /\ ConnectingIsSocket'
      /\ IsOpen(socket)' => UNCHANGED socketVars
      /\ ~CloseHandshake => SingleSocket' /\ NoneClosing'
  BY <1>1, ConnectKeeps
<1>3. UNCHANGED <<requested, listeners, subscriptions, hookVars>>
  BY DEF TimerFires
<1>4. TypeOK'
  <2>1. timer' \in BOOLEAN
    BY DEF TimerFires
  <2>2. attempts' \in 0..MaxBackoff
    BY ClientAssumption DEF ClientAssumption, TimerFires, TypeOK
  <2>3. QED
    BY <1>2, <1>3, <2>1, <2>2 DEF TypeOK, hookVars
<1>5. SubscriptionsMatchListeners' /\ Listening'
  BY <1>3 DEF SubscriptionsMatchListeners, Listening, hookVars
<1>6. NeverStranded'
  BY <1>2, SocketIsPositive DEF NeverStranded
<1>7. DueIsResumable'
  BY <1>0, <1>3 DEF DueIsResumable, hookVars
<1>8. Carried'
  BY <1>0, <1>2, <1>3 DEF Carried, Due, IsOpen, socketVars, hookVars
<1>9. QED
  BY <1>2, <1>4, <1>5, <1>6, <1>7, <1>8

\* The invariant is inductive.
LEMMA InvStep == IInv /\ [Next]_vars => IInv'
<1> SUFFICES ASSUME IInv, [Next]_vars PROVE IInv'
  OBVIOUS
<1>1. ASSUME NEW h \in Hook, Mount(h) \/ Resume(h) \/ Misled(h) \/ Unmount(h) \/ UnmountEarly(h)
      PROVE  IInv'
  BY <1>1, MountKeeps, ResumeKeeps, MisledKeeps, UnmountKeeps, UnmountEarlyKeeps
<1>2. ASSUME NEW s \in Socket, SocketOpens(s) \/ SocketDrops(s) \/ CloseFrame(s) PROVE IInv'
  BY <1>2, OpensKeeps, DropsKeeps, CloseKeeps
<1>3. QED
  BY <1>1, <1>2, TimerKeeps, SameState DEF Next

-----------------------------------------------------------------------------
(* The theorems. *)

\* The class and its users keep the invariant: a REQUEST that is still owed is
\* owed by a continuation that runs before anything else happens.
THEOREM Invariance == Spec => []IInv
BY InvInit, InvStep, PTL DEF Spec

\* Every variable stays in its range.
THEOREM TypeCorrect == Spec => []TypeOK
<1>1. IInv => TypeOK
  BY DEF IInv
<1>2. QED
  BY <1>1, Invariance, PTL

\* For any number of components and keys, a key is resent exactly while
\* somebody listens to it.
THEOREM SubscriptionsCorrect == Spec => []SubscriptionsMatchListeners
<1>1. IInv => SubscriptionsMatchListeners
  BY DEF IInv
<1>2. QED
  BY <1>1, Invariance, PTL

\* However connections come and go, the open one carries each subscription
\* exactly once.
THEOREM RequestsCorrect == Spec => []OpenSocketCarriesSubscriptions
<1>1. IInv => OpenSocketCarriesSubscriptions
  <2> SUFFICES ASSUME IInv, Quiet, IsOpen(socket), NEW k \in Key
               PROVE  requested[socket][k] = IF k \in subscriptions THEN 1 ELSE 0
    BY DEF OpenSocketCarriesSubscriptions
  <2>1. ~Due(k)
    BY NothingDue DEF Due
  <2>2. QED
    BY <2>1 DEF IInv, Carried
<1>2. QED
  BY <1>1, Invariance, PTL

\* Subscriptions that have no socket have a reconnect coming.
THEOREM ReconnectCorrect == Spec => []NeverStranded
<1>1. IInv => NeverStranded
  BY DEF IInv
<1>2. QED
  BY <1>1, Invariance, PTL

\* Where the far end never starts a closing handshake, no second connection
\* is made beside this.socket.
THEOREM SocketCorrect == ASSUME ~CloseHandshake PROVE Spec => []SingleSocket
<1>1. IInv => SingleSocket
  BY DEF IInv
<1>2. QED
  BY <1>1, Invariance, PTL

=============================================================================
