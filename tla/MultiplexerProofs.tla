--------------------------- MODULE MultiplexerProofs ---------------------------
(* Theorems about Multiplexer, for every value of its constants. *)
EXTENDS Multiplexer, FiniteSetTheorems, TLAPS

-----------------------------------------------------------------------------
(* Type correctness. *)

\* A key is a connection and a path.
LEMMA KeyPair ==
    /\ \A k \in Key : k[1] \in Conn /\ k[2] \in Path
    /\ \A c \in Conn, p \in Path : <<c, p>> \in Key
BY DEF Key

\* A frame that finds room keeps the channel a channel within its capacity.
LEMMA SendType ==
  ASSUME TypeOK, NEW c \in Conn, NEW p \in Path, NEW t \in {"DATA", "ERROR"},
         Send(c, t, p)
  PROVE  /\ sendCh' \in [Conn -> Seq(Frame)]
         /\ \A d \in Conn : Len(sendCh'[d]) <= BufSize
<1>1. [type |-> t, path |-> p] \in Frame
  BY DEF Frame
<1>2. sendCh[c] \in Seq(Frame) /\ Len(sendCh[c]) < BufSize
  BY DEF TypeOK, Send, Room
<1>3. /\ Append(sendCh[c], [type |-> t, path |-> p]) \in Seq(Frame)
      /\ Len(Append(sendCh[c], [type |-> t, path |-> p])) <= BufSize
  BY <1>1, <1>2, MuxAssumption
<1>4. QED
  BY <1>3 DEF Send, TypeOK

\* So does a frame that is taken out.
LEMMA ReceiveType ==
  ASSUME TypeOK, NEW c \in Conn, sendCh[c] # <<>>,
         sendCh' = [sendCh EXCEPT ![c] = Tail(@)]
  PROVE  /\ sendCh' \in [Conn -> Seq(Frame)]
         /\ \A d \in Conn : Len(sendCh'[d]) <= BufSize
<1>1. sendCh[c] \in Seq(Frame) /\ Len(sendCh[c]) <= BufSize
  BY DEF TypeOK
<1>2. Tail(sendCh[c]) \in Seq(Frame) /\ Len(Tail(sendCh[c])) <= BufSize
  BY <1>1, MuxAssumption
<1>3. QED
  BY <1>2 DEF TypeOK

\* Before the first connection every variable is in its range.
LEMMA TypeInit == Init => TypeOK
<1>1. (CHOOSE p \in Path : TRUE) \in Path
  BY MuxAssumption
<1>2. QED
  BY <1>1, MuxAssumption DEF Init, TypeOK, Frame, ReaderState, Stage, Key, Nth

\* No step of a reader, a writer or a goroutine leaves the ranges.
LEMMA TypeStep == ASSUME TypeOK, Next PROVE TypeOK'
<1> USE MuxAssumption DEF TypeOK, MuxAssumption
<1>1. ASSUME Reload PROVE TypeOK'
  BY <1>1 DEF Reload, Goto, ReaderState, Stage, connVars, watchVars, vars
<1>2. ASSUME NEW c \in Conn, PeerLeaves(c) PROVE TypeOK'
  BY <1>2 DEF PeerLeaves, Goto, ReaderState, Stage, connVars, watchVars, vars
<1>3. ASSUME NEW c \in Conn, Connect(c) PROVE TypeOK'
  BY <1>3 DEF Connect, Goto, ReaderState, Stage, connVars, watchVars, vars
<1>4. ASSUME NEW c \in Conn, SendReject(c) PROVE TypeOK'
  <2>1. sendCh' \in [Conn -> Seq(Frame)] /\ \A d \in Conn : Len(sendCh'[d]) <= BufSize
    BY <1>4, SendType DEF SendReject
  <2>2. QED
    BY <1>4, <2>1 DEF SendReject, ReaderState, connVars, watchVars, vars
<1>5. ASSUME NEW c \in Conn, Cleanup(c) PROVE TypeOK'
  <2>1. \A k \in Key : [closed[k] EXCEPT ![subs[k]] = TRUE] \in [Nth -> BOOLEAN]
    <3>1. \A k \in Key : closed[k] \in [Nth -> BOOLEAN]
      OBVIOUS
    <3>2. QED
      BY <3>1
  <2>2. closed' \in [Key -> [Nth -> BOOLEAN]]
    BY <1>5, <2>1 DEF Cleanup
  <2>3. subs' \in [Key -> 0..MaxSpawn]
    BY <1>5 DEF Cleanup
  <2>4. QED
    BY <1>5, <2>2, <2>3 DEF Cleanup, ReaderState, connVars, watchVars, vars
<1>6. ASSUME NEW c \in Conn, Leave(c) PROVE TypeOK'
  BY <1>6 DEF Leave, Goto, ReaderState, Stage, connVars, watchVars, vars
<1>7. ASSUME NEW c \in Conn, WriteFrame(c) PROVE TypeOK'
  <2>1. sendCh' \in [Conn -> Seq(Frame)] /\ \A d \in Conn : Len(sendCh'[d]) <= BufSize
    BY <1>7, ReceiveType DEF WriteFrame
  <2>2. QED
    BY <1>7, <2>1 DEF WriteFrame, ReaderState, connVars, watchVars, vars
<1>8. ASSUME NEW c \in Conn, WriteFails(c) PROVE TypeOK'
  <2>1. sendCh' \in [Conn -> Seq(Frame)] /\ \A d \in Conn : Len(sendCh'[d]) <= BufSize
    BY <1>8, ReceiveType DEF WriteFails
  <2>2. QED
    BY <1>8, <2>1 DEF WriteFails, ReaderState, connVars, watchVars, vars
<1>9. ASSUME NEW c \in Conn, WriterStops(c) PROVE TypeOK'
  BY <1>9 DEF WriterStops, Goto, ReaderState, Stage, connVars, watchVars, vars
<1>10. ASSUME NEW k \in Key, SkipRequest(k) PROVE TypeOK'
  BY <1>10 DEF SkipRequest, Goto, ReaderState, Stage, connVars, watchVars, vars
<1>11. ASSUME NEW k \in Key, RejectRequest(k) PROVE TypeOK'
  BY <1>11, KeyPair DEF RejectRequest, ReaderState, connVars, watchVars, vars
<1>12. ASSUME NEW k \in Key, AcceptRequest(k) PROVE TypeOK'
  <2>1. k[1] \in Conn /\ k[2] \in Path
    BY KeyPair
  <2>2. spawned[k] + 1 \in 1..MaxSpawn
    BY <1>12 DEF AcceptRequest
  <2>3. stage' \in [Key -> [Nth -> Stage]]
    BY <1>12, <2>2 DEF AcceptRequest, Goto, Stage, Nth
  <2>4. /\ spawned' \in [Key -> 0..MaxSpawn] /\ subs' \in [Key -> 0..MaxSpawn]
        /\ wsSubKeys' \in [Conn -> SUBSET Path]
    BY <1>12, <2>1, <2>2 DEF AcceptRequest
  <2>5. QED
    BY <1>12, <2>3, <2>4 DEF AcceptRequest, connVars, watchVars, vars
<1>13. ASSUME NEW k \in Key, CloseRequest(k) PROVE TypeOK'
  <2>1. closed' \in [Key -> [Nth -> BOOLEAN]]
    BY <1>13 DEF CloseRequest
  <2>2. subs' \in [Key -> 0..MaxSpawn]
    BY <1>13 DEF CloseRequest
  <2>3. QED
    BY <1>13, <2>1, <2>2 DEF CloseRequest, connVars, watchVars, vars
<1>14. ASSUME NEW k \in Key, NEW n \in Nth, Compact(k, n) PROVE TypeOK'
  BY <1>14 DEF Compact, Goto, ReaderState, Stage, connVars, watchVars, vars
<1>15. ASSUME NEW k \in Key, NEW n \in Nth, Check(k, n) PROVE TypeOK'
  BY <1>15 DEF Check, Goto, ReaderState, Stage, connVars, watchVars, vars
<1>16. ASSUME NEW k \in Key, NEW n \in Nth, OpenUnloaded(k, n) PROVE TypeOK'
  BY <1>16 DEF OpenUnloaded, Goto, ReaderState, Stage, connVars, watchVars, vars
<1>17. ASSUME NEW k \in Key, NEW n \in Nth, OpenWatch(k, n) PROVE TypeOK'
  BY <1>17 DEF OpenWatch, Goto, ReaderState, Stage, connVars, watchVars, vars
<1>18. ASSUME NEW k \in Key, NEW n \in Nth, OpenFails(k, n) PROVE TypeOK'
  BY <1>18 DEF OpenFails, Goto, ReaderState, Stage, connVars, watchVars, vars
<1>19. ASSUME NEW k \in Key, NEW n \in Nth, SendFailure(k, n) PROVE TypeOK'
  <2>1. sendCh' \in [Conn -> Seq(Frame)] /\ \A d \in Conn : Len(sendCh'[d]) <= BufSize
    BY <1>19, SendType, KeyPair DEF SendFailure, SendFrom
  <2>2. late' \in [Key -> [Nth -> Nat]]
    BY <1>19 DEF SendFailure, SendFrom
  <2>3. stage' \in [Key -> [Nth -> Stage]]
    BY <1>19 DEF SendFailure, Goto, Stage
  <2>4. QED
    BY <1>19, <2>1, <2>2, <2>3 DEF SendFailure, SendFrom, connVars, watchVars, vars
<1>20. ASSUME NEW k \in Key, NEW n \in Nth, SendRefusal(k, n) PROVE TypeOK'
  <2>1. sendCh' \in [Conn -> Seq(Frame)] /\ \A d \in Conn : Len(sendCh'[d]) <= BufSize
    BY <1>20, SendType, KeyPair DEF SendRefusal, SendFrom
  <2>2. late' \in [Key -> [Nth -> Nat]]
    BY <1>20 DEF SendRefusal, SendFrom
  <2>3. stage' \in [Key -> [Nth -> Stage]]
    BY <1>20 DEF SendRefusal, Goto, Stage
  <2>4. QED
    BY <1>20, <2>1, <2>2, <2>3 DEF SendRefusal, SendFrom, connVars, watchVars, vars
<1>21. ASSUME NEW k \in Key, NEW n \in Nth, Event(k, n) PROVE TypeOK'
  BY <1>21 DEF Event, Goto, ReaderState, Stage, connVars, watchVars, vars
<1>22. ASSUME NEW k \in Key, NEW n \in Nth, SendData(k, n) PROVE TypeOK'
  <2>1. sendCh' \in [Conn -> Seq(Frame)] /\ \A d \in Conn : Len(sendCh'[d]) <= BufSize
    BY <1>22, SendType, KeyPair DEF SendData, SendFrom
  <2>2. late' \in [Key -> [Nth -> Nat]]
    BY <1>22 DEF SendData, SendFrom
  <2>3. stage' \in [Key -> [Nth -> Stage]]
    BY <1>22 DEF SendData, Goto, Stage
  <2>4. QED
    BY <1>22, <2>1, <2>2, <2>3 DEF SendData, SendFrom, connVars, watchVars, vars
<1>23. ASSUME NEW k \in Key, NEW n \in Nth, StreamEnds(k, n) PROVE TypeOK'
  BY <1>23 DEF StreamEnds, Goto, ReaderState, Stage, connVars, watchVars, vars
<1>24. ASSUME NEW k \in Key, NEW n \in Nth, Wake(k, n) PROVE TypeOK'
  BY <1>24 DEF Wake, Goto, ReaderState, Stage, connVars, watchVars, vars
<1>25. QED
  BY <1>1, <1>2, <1>3, <1>4, <1>5, <1>6, <1>7, <1>8, <1>9, <1>10, <1>11, <1>12, <1>13, <1>14, <1>15, <1>16, <1>17, <1>18, <1>19, <1>20, <1>21, <1>22, <1>23, <1>24, KeyPair DEF Next, ReaderStep, WriterStep, WatchStep

\* Every variable stays in its range: the channel within its capacity, the
\* goroutines within their life cycle (multiplexer.go:74-260).
THEOREM TypeCorrect == Spec => []TypeOK
<1>1. TypeOK /\ [Next]_vars => TypeOK'
  BY TypeStep DEF TypeOK, vars, connVars, watchVars
<1>2. QED
  BY <1>1, TypeInit, PTL DEF Spec

-----------------------------------------------------------------------------
(* The registry: the map, its key lists and the goroutines agree. *)

\* An empty map and no goroutine agree.
LEMMA RegistryInit == Init => RegistryInv
BY MuxAssumption DEF Init, RegistryInv, MuxAssumption, Nth, Cancelled, Key

\* Exactly one goroutine moves in a step of a goroutine.
LEMMA GotoPointwise ==
  ASSUME TypeOK, NEW k \in Key, NEW n \in Nth, NEW s, Goto(k, n, s)
  PROVE  \A j \in Key, m \in Nth :
            stage'[j][m] = IF j = k /\ m = n THEN s ELSE stage[j][m]
BY DEF Goto, TypeOK

\* Exactly one count of late frames moves when a frame is queued, and only
\* when its goroutine is cancelled.
LEMMA LatePointwise ==
  ASSUME TypeOK, NEW k \in Key, NEW n \in Nth, NEW t, SendFrom(k, n, t)
  PROVE  \A j \in Key, m \in Nth :
            late'[j][m] = IF j = k /\ m = n /\ Cancelled(k, n)
                          THEN late[j][m] + 1 ELSE late[j][m]
BY DEF SendFrom, TypeOK

\* A goroutine that was started, and returns as "gone" only when cancelled,
\* leaves the registry as it was.
LEMMA GoroutineStep ==
  ASSUME TypeOK, RegistryInv, NEW k \in Key, NEW n \in Nth, NEW s,
         stage[k][n] # "unborn", s # "unborn", s = "gone" => Cancelled(k, n),
         Goto(k, n, s), late' = late \/ \E t : SendFrom(k, n, t),
         reader' = reader, ctxDone' = ctxDone, wsSubKeys' = wsSubKeys, subs' = subs, spawned'=spawned, closed'=closed
  PROVE  RegistryInv'
<1>1. \A j \in Key, m \in Nth : Cancelled(j, m)' <=> Cancelled(j, m)
  BY DEF Cancelled
<1>2. \A j \in Key, m \in Nth :
         stage'[j][m] = IF j = k /\ m = n THEN s ELSE stage[j][m]
  BY GotoPointwise
<1>3. n <= spawned[k]
  <2>1. n \in Nat /\ spawned[k] \in Nat
     BY MuxAssumption DEF Nth, TypeOK, MuxAssumption
  <2>2. ~(n > spawned[k]) BY DEF RegistryInv
  <2>. QED BY <2>1, <2>2
<1>4. \A j \in Key, m \in Nth : m > spawned[j] => late'[j][m] = 0
  <2>. SUFFICES ASSUME NEW j \in Key, NEW m \in Nth, m > spawned[j]
       PROVE late'[j][m] = 0 OBVIOUS
  <2>1. late[j][m] = 0 BY DEF RegistryInv
  <2>2. ~(j = k /\ m = n) 
    <3>1. n \in Nat /\ spawned[k] \in Nat
     BY MuxAssumption DEF Nth, TypeOK, MuxAssumption
    <3>. QED BY <1>3, <3>1
  <2>3. late'[j][m] = late[j][m]
    <3>1. CASE late' = late BY <3>1
    <3>2. ASSUME NEW t, SendFrom(k,n,t) PROVE late'[j][m] = late[j][m]
       BY <3>2, <2>2, LatePointwise
    <3>. QED BY <3>1, <3>2
  <2>. QED BY <2>1, <2>3
<1>5. \A j \in Key, m \in Nth :
         /\ stage'[j][m] = "unborn" <=> m > spawned[j]
         /\ stage'[j][m] = "gone" => Cancelled(j, m)
  <2>. SUFFICES ASSUME NEW j \in Key, NEW m \in Nth
       PROVE /\ stage'[j][m] = "unborn" <=> m > spawned[j]
             /\ stage'[j][m] = "gone" => Cancelled(j, m)
     OBVIOUS
  <2>1. stage[j][m] = "unborn" <=> m > spawned[j]
     BY DEF RegistryInv
  <2>2. stage[j][m] = "gone" => Cancelled(j, m)
     BY DEF RegistryInv
  <2>3. stage'[j][m] = IF j = k /\ m = n THEN s ELSE stage[j][m] BY <1>2
  <2>. QED BY <2>1, <2>2, <2>3
<1>6. QED
  BY <1>1, <1>4, <1>5 DEF RegistryInv

\* Every step keeps the map, the key lists and the goroutines in agreement:
\* an entry is added with its key list and its goroutine, and taken away
\* with the cancellation of its goroutine.
LEMMA RegistryStep == ASSUME TypeOK, RegistryInv, Next PROVE RegistryInv'
<1>1. ASSUME Reload PROVE RegistryInv'
  BY <1>1 DEF Reload, RegistryInv, Cancelled, TypeOK, connVars, watchVars, vars
<1>2. ASSUME NEW c \in Conn, PeerLeaves(c) PROVE RegistryInv'
  BY <1>2 DEF PeerLeaves, RegistryInv, Cancelled, TypeOK, connVars, watchVars, vars
<1>3. ASSUME NEW c \in Conn, Connect(c) PROVE RegistryInv'
  BY <1>3 DEF Connect, RegistryInv, Cancelled, TypeOK, connVars, watchVars, vars
<1>4. ASSUME NEW c \in Conn, SendReject(c) PROVE RegistryInv'
  BY <1>4 DEF SendReject, RegistryInv, Cancelled, TypeOK, connVars, watchVars, vars
<1>5. ASSUME NEW c \in Conn, Cleanup(c) PROVE RegistryInv'
  BY <1>5 DEF Cleanup, RegistryInv, Cancelled, TypeOK, connVars, watchVars, vars
<1>6. ASSUME NEW c \in Conn, Leave(c) PROVE RegistryInv'
  BY <1>6 DEF Leave, RegistryInv, Cancelled, TypeOK, connVars, watchVars, vars
<1>7. ASSUME NEW c \in Conn, WriteFrame(c) PROVE RegistryInv'
  BY <1>7 DEF WriteFrame, RegistryInv, Cancelled, TypeOK, connVars, watchVars, vars
<1>8. ASSUME NEW c \in Conn, WriteFails(c) PROVE RegistryInv'
  BY <1>8 DEF WriteFails, RegistryInv, Cancelled, TypeOK, connVars, watchVars, vars
<1>9. ASSUME NEW c \in Conn, WriterStops(c) PROVE RegistryInv'
  BY <1>9 DEF WriterStops, RegistryInv, Cancelled, TypeOK, connVars, watchVars, vars
<1>10. ASSUME NEW k \in Key, SkipRequest(k) PROVE RegistryInv'
  BY <1>10 DEF SkipRequest, RegistryInv, Cancelled, TypeOK, connVars, watchVars, vars
<1>11. ASSUME NEW k \in Key, RejectRequest(k) PROVE RegistryInv'
  BY <1>11 DEF RejectRequest, RegistryInv, Cancelled, TypeOK, connVars, watchVars, vars
<1>12. ASSUME NEW k \in Key, AcceptRequest(k) PROVE RegistryInv'
  <2> DEFINE i == spawned[k] + 1
  <2>1. i \in Nth /\ i > spawned[k] /\ k[1] \in Conn /\ spawned[k] \in Nat
    BY <1>12, KeyPair, MuxAssumption DEF AcceptRequest, Nth, TypeOK, MuxAssumption
  <2>2. subs' = [subs EXCEPT ![k] = i] /\ spawned' = [spawned EXCEPT ![k] = i]
    BY <1>12 DEF AcceptRequest
  <2>3. \A j \in Key, m \in Nth :
           /\ stage'[j][m] = "unborn" <=> (stage[j][m] = "unborn" /\ ~(j = k /\ m = i))
           /\ stage'[j][m] = "gone" <=> (stage[j][m] = "gone" /\ ~(j = k /\ m = i))
    BY <1>12, <2>1, GotoPointwise DEF AcceptRequest
  <2>4. \A j \in Key : j[2] \in wsSubKeys[j[1]] \/ j = k => j[2] \in wsSubKeys'[j[1]]
    BY <1>12, KeyPair DEF AcceptRequest, TypeOK
  <2>5. UNCHANGED <<reader, ctxDone, closed, late>>
    BY <1>12 DEF AcceptRequest, watchVars
  <2>6. reader[k[1]] = "reading"
    BY <1>12 DEF AcceptRequest
  <2>7. \A m \in Nth : m <= spawned[k] => closed[k][m]
    <3>1. ASSUME NEW m \in Nth, m <= spawned[k] PROVE closed[k][m]
      <4>1. m # subs[k]
        BY <1>12 DEF AcceptRequest, Nth
      <4>2. QED
        BY <3>1, <4>1 DEF RegistryInv
    <3>2. QED
      BY <3>1
  <2>8. ~closed[k][i]
    BY <2>1 DEF RegistryInv
  <2> HIDE DEF i
  <2>9. \A j \in Key :
          /\ subs'[j] \in {0, spawned'[j]}
          /\ subs'[j] # 0 => /\ ~closed'[j][subs'[j]]
                             /\ j[2] \in wsSubKeys'[j[1]]
                             /\ reader'[j[1]] \notin {"leaving", "done"}
    BY <2>1, <2>2, <2>4, <2>5, <2>6, <2>8 DEF RegistryInv, TypeOK
  <2>10. \A j \in Key, m \in Nth :
          /\ stage'[j][m] = "unborn" <=> m > spawned'[j]
          /\ m <= spawned'[j] /\ m # subs'[j] => closed'[j][m]
          /\ m > spawned'[j] => ~closed'[j][m] /\ late'[j][m] = 0
    <3> SUFFICES ASSUME NEW j \in Key, NEW m \in Nth
                 PROVE  /\ stage'[j][m] = "unborn" <=> m > spawned'[j]
                        /\ m <= spawned'[j] /\ m # subs'[j] => closed'[j][m]
                        /\ m > spawned'[j] => ~closed'[j][m] /\ late'[j][m] = 0
      OBVIOUS
    <3>1. CASE j # k
      BY <2>2, <2>3, <2>5, <3>1 DEF RegistryInv, TypeOK
    <3>2. CASE j = k
      <4>1. m \in Nat /\ i \in Nat /\ i = spawned[k] + 1
        BY <2>1 DEF i, Nth
      <4>2. spawned'[j] = i /\ subs'[j] = i
        BY <2>2, <3>2 DEF TypeOK
      <4>3. m > i <=> (m > spawned[k] /\ m # i)
        BY <2>1, <4>1
      <4>4. stage'[j][m] = "unborn" <=> (stage[k][m] = "unborn" /\ m # i)
        BY <2>3, <3>2
      <4>5. stage[k][m] = "unborn" <=> m > spawned[k]
        BY DEF RegistryInv
      <4>6. m <= i /\ m # i => m <= spawned[k]
        BY <2>1, <4>1
      <4>7. m > spawned[k] => ~closed[k][m] /\ late[k][m] = 0
        BY DEF RegistryInv
      <4>8. QED
        BY <2>5, <2>7, <3>2, <4>2, <4>3, <4>4, <4>5, <4>6, <4>7
    <3>3. QED
      BY <3>1, <3>2
  <2>11. \A j \in Key, m \in Nth : stage'[j][m] = "gone" => Cancelled(j, m)'
    BY <2>3, <2>5 DEF RegistryInv, Cancelled
  <2>12. QED
    BY <2>5, <2>9, <2>10, <2>11 DEF RegistryInv
<1>13. ASSUME NEW k \in Key, CloseRequest(k) PROVE RegistryInv'
  BY <1>13 DEF CloseRequest, RegistryInv, Cancelled, TypeOK, connVars, watchVars, vars
<1>14. ASSUME NEW k \in Key, NEW n \in Nth, Compact(k, n) PROVE RegistryInv'
  BY <1>14 DEF Compact, RegistryInv, Cancelled, TypeOK, connVars, watchVars, vars
<1>15. ASSUME NEW k \in Key, NEW n \in Nth, Check(k, n) PROVE RegistryInv'
  BY <1>15, GoroutineStep DEF Check, connVars, watchVars
<1>16. ASSUME NEW k \in Key, NEW n \in Nth, OpenUnloaded(k, n) PROVE RegistryInv'
  BY <1>16, GoroutineStep DEF OpenUnloaded, connVars, watchVars
<1>17. ASSUME NEW k \in Key, NEW n \in Nth, OpenWatch(k, n) PROVE RegistryInv'
  BY <1>17, GoroutineStep DEF OpenWatch, connVars, watchVars
<1>18. ASSUME NEW k \in Key, NEW n \in Nth, OpenFails(k, n) PROVE RegistryInv'
  BY <1>18, GoroutineStep DEF OpenFails, connVars, watchVars
<1>19. ASSUME NEW k \in Key, NEW n \in Nth, SendFailure(k, n) PROVE RegistryInv'
  BY <1>19, GoroutineStep DEF SendFailure, connVars, watchVars
<1>20. ASSUME NEW k \in Key, NEW n \in Nth, SendRefusal(k, n) PROVE RegistryInv'
  BY <1>20, GoroutineStep DEF SendRefusal, connVars, watchVars
<1>21. ASSUME NEW k \in Key, NEW n \in Nth, Event(k, n) PROVE RegistryInv'
  BY <1>21, GoroutineStep DEF Event, connVars, watchVars
<1>22. ASSUME NEW k \in Key, NEW n \in Nth, SendData(k, n) PROVE RegistryInv'
  BY <1>22, GoroutineStep DEF SendData, connVars, watchVars
<1>23. ASSUME NEW k \in Key, NEW n \in Nth, StreamEnds(k, n) PROVE RegistryInv'
  BY <1>23, GoroutineStep DEF StreamEnds, connVars, watchVars
<1>24. ASSUME NEW k \in Key, NEW n \in Nth, Wake(k, n) PROVE RegistryInv'
  BY <1>24, GoroutineStep DEF Wake, connVars, watchVars
<1>25. QED
  BY <1>1, <1>2, <1>3, <1>4, <1>5, <1>6, <1>7, <1>8, <1>9, <1>10, <1>11, <1>12, <1>13, <1>14, <1>15, <1>16, <1>17, <1>18, <1>19, <1>20, <1>21, <1>22, <1>23, <1>24, KeyPair DEF Next, ReaderStep, WriterStep, WatchStep

-----------------------------------------------------------------------------
(* At most one frame after the cancellation. *)

\* No goroutine has sent anything.
LEMMA LateInit == Init => LateInv
BY DEF Init, LateInv

\* A step that queues nothing: it may lead to a send only when the goroutine
\* has not sent a late frame, that is uncancelled or on its way to a send.
LEMMA LateGoroutineStep ==
  ASSUME TypeOK, LateInv, NEW k \in Key, NEW n \in Nth, NEW s, Goto(k, n, s),
         \/ s \notin {"open", "failing", "refusing", "sending"}
         \/ ~Cancelled(k, n)
         \/ stage[k][n] \in {"open", "failing", "refusing", "sending"},
         UNCHANGED <<ctxDone, closed, late>>
  PROVE  LateInv'
<1>1. \A j \in Key, m \in Nth :
         stage'[j][m] = IF j = k /\ m = n THEN s ELSE stage[j][m]
  BY GotoPointwise
<1>2. \A j \in Key, m \in Nth : Cancelled(j, m)' <=> Cancelled(j, m)
  BY DEF Cancelled
<1>3. QED
  BY <1>1, <1>2 DEF LateInv

\* A step that queues a frame: it is the first late one.
LEMMA LateSendStep ==
  ASSUME TypeOK, LateInv, NEW k \in Key, NEW n \in Nth, NEW s, NEW t,
         stage[k][n] \in {"failing", "refusing", "sending"},
         s \in {"watching", "sleep", "refused"},
         Goto(k, n, s), SendFrom(k, n, t), UNCHANGED <<ctxDone, closed>>
  PROVE  LateInv'
<1>1. \A j \in Key, m \in Nth :
         stage'[j][m] = IF j = k /\ m = n THEN s ELSE stage[j][m]
  BY GotoPointwise
<1>2. \A j \in Key, m \in Nth :
         late'[j][m] = IF j = k /\ m = n /\ Cancelled(k, n)
                       THEN late[j][m] + 1 ELSE late[j][m]
  BY LatePointwise
<1>3. late[k][n] = 0
  BY DEF LateInv
<1>4. \A j \in Key, m \in Nth : Cancelled(j, m)' <=> Cancelled(j, m)
  BY DEF Cancelled
<1>5. QED
  BY <1>1, <1>2, <1>3, <1>4 DEF LateInv

\* No step lets a goroutine queue a second late frame.
LEMMA LateStep == ASSUME TypeOK, RegistryInv, LateInv, Next PROVE LateInv'
<1>1. ASSUME Reload PROVE LateInv'
  BY <1>1 DEF Reload, LateInv, Cancelled, TypeOK, connVars, watchVars, vars
<1>2. ASSUME NEW c \in Conn, PeerLeaves(c) PROVE LateInv'
  BY <1>2 DEF PeerLeaves, LateInv, Cancelled, TypeOK, connVars, watchVars, vars
<1>3. ASSUME NEW c \in Conn, Connect(c) PROVE LateInv'
  BY <1>3 DEF Connect, LateInv, Cancelled, TypeOK, connVars, watchVars, vars
<1>4. ASSUME NEW c \in Conn, SendReject(c) PROVE LateInv'
  BY <1>4 DEF SendReject, LateInv, Cancelled, TypeOK, connVars, watchVars, vars
<1>5. ASSUME NEW c \in Conn, Cleanup(c) PROVE LateInv'
  <2>1. \A j \in Key, m \in Nth : Cancelled(j, m) => Cancelled(j, m)'
    BY <1>5, KeyPair DEF Cleanup, Cancelled, TypeOK, connVars, watchVars, vars
  <2>2. UNCHANGED <<stage, late>>
    BY <1>5 DEF Cleanup, watchVars
  <2>3. QED
    BY <2>1, <2>2 DEF LateInv
<1>6. ASSUME NEW c \in Conn, Leave(c) PROVE LateInv'
  <2>1. \A j \in Key, m \in Nth : Cancelled(j, m) => Cancelled(j, m)'
    BY <1>6, KeyPair DEF Leave, Cancelled, TypeOK, connVars, watchVars, vars
  <2>2. UNCHANGED <<stage, late>>
    BY <1>6 DEF Leave, watchVars
  <2>3. QED
    BY <2>1, <2>2 DEF LateInv
<1>7. ASSUME NEW c \in Conn, WriteFrame(c) PROVE LateInv'
  BY <1>7 DEF WriteFrame, LateInv, Cancelled, TypeOK, connVars, watchVars, vars
<1>8. ASSUME NEW c \in Conn, WriteFails(c) PROVE LateInv'
  BY <1>8 DEF WriteFails, LateInv, Cancelled, TypeOK, connVars, watchVars, vars
<1>9. ASSUME NEW c \in Conn, WriterStops(c) PROVE LateInv'
  BY <1>9 DEF WriterStops, LateInv, Cancelled, TypeOK, connVars, watchVars, vars
<1>10. ASSUME NEW k \in Key, SkipRequest(k) PROVE LateInv'
  BY <1>10 DEF SkipRequest, LateInv, Cancelled, TypeOK, connVars, watchVars, vars
<1>11. ASSUME NEW k \in Key, RejectRequest(k) PROVE LateInv'
  BY <1>11 DEF RejectRequest, LateInv, Cancelled, TypeOK, connVars, watchVars, vars
<1>12. ASSUME NEW k \in Key, AcceptRequest(k) PROVE LateInv'
  <2> DEFINE i == spawned[k] + 1
  <2>1. i \in Nth /\ i > spawned[k]
    BY <1>12, MuxAssumption DEF AcceptRequest, Nth, TypeOK, MuxAssumption
  <2>2. late[k][i] = 0
    BY <2>1 DEF RegistryInv
  <2>3. \A j \in Key, m \in Nth : stage'[j][m] = stage[j][m] \/ (j = k /\ m = i)
    BY <1>12, <2>1, GotoPointwise DEF AcceptRequest
  <2>4. UNCHANGED <<ctxDone, closed, late>>
    BY <1>12 DEF AcceptRequest, watchVars
  <2> HIDE DEF i
  <2>5. QED
    BY <2>2, <2>3, <2>4 DEF LateInv, Cancelled
<1>13. ASSUME NEW k \in Key, CloseRequest(k) PROVE LateInv'
  <2>1. \A j \in Key, m \in Nth : Cancelled(j, m) => Cancelled(j, m)'
    BY <1>13, KeyPair DEF CloseRequest, Cancelled, TypeOK, connVars, watchVars, vars
  <2>2. UNCHANGED <<stage, late>>
    BY <1>13 DEF CloseRequest, watchVars
  <2>3. QED
    BY <2>1, <2>2 DEF LateInv
<1>14. ASSUME NEW k \in Key, NEW n \in Nth, Compact(k, n) PROVE LateInv'
  BY <1>14 DEF Compact, LateInv, Cancelled, TypeOK, connVars, watchVars, vars
<1>15. ASSUME NEW k \in Key, NEW n \in Nth, Check(k, n) PROVE LateInv'
  BY <1>15, LateGoroutineStep DEF Check, connVars, watchVars
<1>16. ASSUME NEW k \in Key, NEW n \in Nth, OpenUnloaded(k, n) PROVE LateInv'
  BY <1>16, LateGoroutineStep DEF OpenUnloaded, connVars, watchVars
<1>17. ASSUME NEW k \in Key, NEW n \in Nth, OpenWatch(k, n) PROVE LateInv'
  BY <1>17, LateGoroutineStep DEF OpenWatch, connVars, watchVars
<1>18. ASSUME NEW k \in Key, NEW n \in Nth, OpenFails(k, n) PROVE LateInv'
  BY <1>18, LateGoroutineStep DEF OpenFails, connVars, watchVars
<1>19. ASSUME NEW k \in Key, NEW n \in Nth, SendFailure(k, n) PROVE LateInv'
  BY <1>19, LateSendStep DEF SendFailure, connVars, watchVars
<1>20. ASSUME NEW k \in Key, NEW n \in Nth, SendRefusal(k, n) PROVE LateInv'
  BY <1>20, LateSendStep DEF SendRefusal, connVars, watchVars
<1>21. ASSUME NEW k \in Key, NEW n \in Nth, Event(k, n) PROVE LateInv'
  BY <1>21, LateGoroutineStep DEF Event, connVars, watchVars
<1>22. ASSUME NEW k \in Key, NEW n \in Nth, SendData(k, n) PROVE LateInv'
  BY <1>22, LateSendStep DEF SendData, connVars, watchVars
<1>23. ASSUME NEW k \in Key, NEW n \in Nth, StreamEnds(k, n) PROVE LateInv'
  BY <1>23, LateGoroutineStep DEF StreamEnds, connVars, watchVars
<1>24. ASSUME NEW k \in Key, NEW n \in Nth, Wake(k, n) PROVE LateInv'
  BY <1>24, LateGoroutineStep DEF Wake, connVars, watchVars
<1>25. QED
  BY <1>1, <1>2, <1>3, <1>4, <1>5, <1>6, <1>7, <1>8, <1>9, <1>10, <1>11, <1>12, <1>13, <1>14, <1>15, <1>16, <1>17, <1>18, <1>19, <1>20, <1>21, <1>22, <1>23, <1>24, KeyPair DEF Next, ReaderStep, WriterStep, WatchStep

-----------------------------------------------------------------------------
(* The limit on subscriptions. *)

\* The map is finite, so that its size is a number.
LEMMA RegisteredFinite == IsFiniteSet(Registered)
<1>1. IsFiniteSet(Key)
  BY FS_Product, MuxAssumption DEF Key, MuxAssumption
<1>2. QED
  BY <1>1, FS_Subset DEF Registered

\* The empty map is below the limit.
LEMMA LimitInit == Init => SubscriptionLimit
<1>1. ASSUME Init PROVE Registered = {}
  BY <1>1 DEF Init, Registered
<1>2. QED
  BY <1>1, FS_EmptySet, MuxAssumption DEF SubscriptionLimit, MuxAssumption

\* Only an accepted REQUEST adds an entry.
LEMMA OnlyAcceptRegisters ==
  ASSUME TypeOK, Next, NEW j \in Key, subs[j] = 0, subs'[j] # 0
  PROVE  AcceptRequest(j)
<1>1. PICK k \in Key : AcceptRequest(k) \/ CloseRequest(k) \/ (\E c \in Conn : Cleanup(c)) \/ subs' = subs
  BY KeyPair
  DEF Next, ReaderStep, WriterStep, WatchStep, Reload, PeerLeaves, Connect, SendReject,
      Leave, WriteFrame, WriteFails, WriterStops, SkipRequest, RejectRequest, Compact,
      Check, OpenUnloaded, OpenWatch, OpenFails, SendFailure, SendRefusal, Event,
      SendData, StreamEnds, Wake, vars
<1>2. ~(\E c \in Conn : Cleanup(c)) /\ subs' # subs /\ ~CloseRequest(k)
  BY DEF Cleanup, CloseRequest, TypeOK
<1>3. AcceptRequest(k)
  BY <1>1, <1>2
<1>4. k = j
  BY <1>3 DEF AcceptRequest, TypeOK
<1>5. QED
  BY <1>3, <1>4

\* The limit survives every step: RejectRequest and AcceptRequest split the
\* REQUESTs at maxSubscriptions (multiplexer.go:147-164).
LEMMA LimitStep ==
  ASSUME TypeOK, SubscriptionLimit, Next PROVE SubscriptionLimit'
<1>1. CASE \E j \in Key : AcceptRequest(j)
  <2>1. PICK j \in Key : AcceptRequest(j)
    BY <1>1
  <2>2. Registered' = Registered \cup {j}
    BY <2>1 DEF AcceptRequest, Registered, TypeOK
  <2>3. Cardinality(Registered \cup {j}) <= Cardinality(Registered) + 1
    <3>1. /\ Cardinality(Registered) \in Nat
          /\ Cardinality(Registered \cup {j}) =
                IF j \in Registered THEN Cardinality(Registered)
                                   ELSE Cardinality(Registered) + 1
      BY RegisteredFinite, FS_AddElement, FS_CardinalityType
    <3>2. QED
      BY <3>1
  <2>4. Cardinality(Registered) < MaxSubs
    BY <2>1 DEF AcceptRequest
  <2>5. Cardinality(Registered) \in Nat /\ Cardinality(Registered \cup {j}) \in Nat
    BY RegisteredFinite, FS_AddElement, FS_CardinalityType
  <2>6. QED
    BY <2>2, <2>3, <2>4, <2>5, MuxAssumption DEF SubscriptionLimit, MuxAssumption
<1>2. CASE ~\E j \in Key : AcceptRequest(j)
  <2>1. Registered' \subseteq Registered
    BY <1>2, OnlyAcceptRegisters DEF Registered
  <2>2. Cardinality(Registered') <= Cardinality(Registered)
    BY <2>1, RegisteredFinite, FS_Subset
  <2>3. Cardinality(Registered') \in Nat /\ Cardinality(Registered) \in Nat
    BY <2>1, RegisteredFinite, FS_Subset, FS_CardinalityType
  <2>4. QED
    BY <2>2, <2>3, MuxAssumption DEF SubscriptionLimit, MuxAssumption
<1>3. QED
  BY <1>1, <1>2

-----------------------------------------------------------------------------
(* The theorems. *)

\* The invariant the results below follow from, conjunct by conjunct.
THEOREM Invariance == Spec => []IInv
<1>1. Init => IInv
  BY TypeInit, RegistryInit, LateInit, LimitInit DEF IInv
<1>2. IInv /\ [Next]_vars => IInv'
  <2>1. CASE Next
    BY <2>1, TypeStep, RegistryStep, LateStep, LimitStep DEF IInv
  <2>2. CASE UNCHANGED vars
    BY <2>2 DEF vars, connVars, watchVars, IInv, TypeOK, RegistryInv, LateInv,
                SubscriptionLimit, Cancelled, Registered
  <2>3. QED
    BY <2>1, <2>2
<1>3. QED
  BY <1>1, <1>2, PTL DEF Spec

\* Every goroutine that runs uncancelled is the one the map holds for its key,
\* for any number of clients, paths and re-requests (multiplexer.go:138-174).
THEOREM LiveWatchCorrect == Spec => []LiveWatchIsRegistered
<1>1. IInv => LiveWatchIsRegistered
  <2>1. TypeOK => \A k \in Key, n \in Nth : n \in Nat /\ spawned[k] \in Nat
    BY MuxAssumption DEF TypeOK, Nth, MuxAssumption
  <2>2. QED
    BY <2>1 DEF IInv, RegistryInv, LiveWatchIsRegistered, Live, Running, Cancelled
<1>2. QED
  BY <1>1, Invariance, PTL

\* A registered key is served by a live goroutine or was refused by an ERROR
\* frame: runWatch never returns silently while its key is registered.
THEOREM ServedOrRefused == Spec => []RegisteredIsServedOrRefused
<1>1. IInv => RegisteredIsServedOrRefused
  <2>1. SUFFICES ASSUME IInv, NEW k \in Key, subs[k] # 0
                 PROVE  \/ Live(k, subs[k])
                        \/ stage[k][subs[k]] = "refused" /\ ~Cancelled(k, subs[k])
    BY DEF RegisteredIsServedOrRefused, Registered
  <2>2. subs[k] \in Nth /\ ~(subs[k] > spawned[k])
    BY <2>1, MuxAssumption DEF IInv, TypeOK, RegistryInv, Nth, MuxAssumption
  <2>3. ~Cancelled(k, subs[k])
    BY <2>1, KeyPair DEF IInv, RegistryInv, Cancelled
  <2>4. stage[k][subs[k]] \notin {"unborn", "gone"}
    BY <2>1, <2>2, <2>3 DEF IInv, RegistryInv
  <2>5. QED
    BY <2>3, <2>4 DEF Live, Running
<1>2. QED
  BY <1>1, Invariance, PTL

\* When the reader's deferred cleanup has run, no entry and no uncancelled
\* goroutine of its connection is left (multiplexer.go:112-123).
THEOREM CleanupIsComplete == Spec => []NothingOutlivesConnection
<1>1. IInv /\ LiveWatchIsRegistered => NothingOutlivesConnection
  BY MuxAssumption DEF IInv, RegistryInv, NothingOutlivesConnection, LiveWatchIsRegistered,
     Nth, MuxAssumption
<1>2. QED
  BY <1>1, Invariance, LiveWatchCorrect, PTL

\* The shared map never holds more than maxSubscriptions entries
\* (multiplexer.go:147-157).
THEOREM LimitCorrect == Spec => []SubscriptionLimit
<1>1. IInv => SubscriptionLimit
  BY DEF IInv
<1>2. QED
  BY <1>1, Invariance, PTL

\* After a CLOSE or a disconnect a goroutine queues at most one more frame.
THEOREM LateFramesBounded == Spec => []AtMostOneLateFrame
<1>1. IInv => AtMostOneLateFrame
  <2>1. IInv => \A k \in Key, n \in Nth : late[k][n] \in {0, 1}
    BY DEF IInv, LateInv
  <2>2. QED
    BY <2>1 DEF AtMostOneLateFrame
<1>2. QED
  BY <1>1, Invariance, PTL

-----------------------------------------------------------------------------
(* The refinement. *)

\* The feed of a key, seen from the map and the goroutine it holds.
LEMMA FeedOf ==
  ASSUME NEW k \in Key
  PROVE  feed[k] = IF subs[k] = 0 THEN "none"
                   ELSE IF stage[k][subs[k]] = "refused" THEN "refused" ELSE "served"
BY DEF feed

\* The entry of a registered key names a goroutine.
LEMMA EntryIsNth ==
  ASSUME TypeOK PROVE \A j \in Key : subs[j] # 0 => subs[j] \in Nth
<1>1. subs \in [Key -> 0..MaxSpawn]
  BY DEF TypeOK
<1>2. \A i \in 0..MaxSpawn : i # 0 => i \in 1..MaxSpawn
  BY MuxAssumption DEF MuxAssumption
<1>3. QED
  BY <1>1, <1>2 DEF Nth

\* The refinement mapping is a function on the keys.
LEMMA FeedFunction == feed = [k \in Key |-> feed[k]]
BY DEF feed

\* What the goroutines do is invisible in the registry, except a refusal.
LEMMA FeedUnchanged ==
  ASSUME TypeOK, RegistryInv, NEW k \in Key, NEW n \in Nth, NEW s, Goto(k, n, s),
         stage[k][n] # "refused", s # "refused", UNCHANGED subs
  PROVE  feed' = feed
<1>1. \A j \in Key, m \in Nth :
         stage'[j][m] = IF j = k /\ m = n THEN s ELSE stage[j][m]
  BY GotoPointwise
<1>2. \A j \in Key : subs[j] # 0 => subs[j] \in Nth
  BY EntryIsNth
<1>3. \A j \in Key : subs[j] # 0 =>
         (stage'[j][subs[j]] = "refused" <=> stage[j][subs[j]] = "refused")
  BY <1>1, <1>2
<1>4. QED
  BY <1>3 DEF feed

\* The instance counts as this module does (both expand to the same recursion).
LEMMA RegistryCardinality == \A S : Registry!Cardinality(S) = Cardinality(S)
BY Zenon DEF Registry!Cardinality, Cardinality

\* The instance has the same keys.
LEMMA RegistryKey == Registry!Key = Key
BY DEF Registry!Key, Key

\* A step of the multiplexer is a step of the registry or leaves the feeds.
LEMMA RegistryStepMaps ==
  ASSUME TypeOK, RegistryInv, Next PROVE Registry!Next \/ feed' = feed
<1> DEFINE Goal == Registry!Next \/ feed' = feed
<1>1. CASE UNCHANGED <<subs, stage>>
  BY <1>1 DEF feed
<1>2. ASSUME NEW k \in Key, AcceptRequest(k) PROVE Goal
  <2> DEFINE i == spawned[k] + 1
  <2>1. i \in Nth /\ i # 0
    BY <1>2, MuxAssumption DEF AcceptRequest, Nth, TypeOK, MuxAssumption
  <2>2. subs' = [subs EXCEPT ![k] = i] /\ subs[k] = 0
    BY <1>2 DEF AcceptRequest
  <2>3. \A j \in Key, m \in Nth : (j # k \/ m # i) => stage'[j][m] = stage[j][m]
    BY <1>2, <2>1, GotoPointwise DEF AcceptRequest
  <2>4. stage'[k][i] # "refused"
    BY <1>2, <2>1, GotoPointwise DEF AcceptRequest
  <2> HIDE DEF i
  <2>5. \A j \in Key : subs[j] # 0 => subs[j] \in Nth
    BY EntryIsNth
  <2>6. feed[k] = "none"
    BY <2>2, FeedOf
  <2>7. feed' = [feed EXCEPT ![k] = "served"]
    <3>1. \A j \in Key : j # k => subs'[j] = subs[j]
      BY <2>2 DEF TypeOK
    <3>2. subs'[k] = i
      BY <2>2 DEF TypeOK
    <3>3. feed' = [j \in Key |-> IF j = k THEN "served" ELSE feed[j]]
      BY <2>1, <2>3, <2>4, <2>5, <3>1, <3>2 DEF feed
    <3>4. QED
      BY <3>3, FeedFunction
  <2>8. Registry!Registered = Registered
    BY DEF Registry!Registered, Registry!Key, Registered, Key, feed
  <2>9. Cardinality(Registered) < MaxSubs
    BY <1>2 DEF AcceptRequest
  <2>10. Registry!Cardinality(Registry!Registered) < MaxSubs
    BY <2>8, <2>9, RegistryCardinality, Zenon
  <2>11. Registry!Subscribe(k)
    BY <2>6, <2>7, <2>10, Zenon DEF Registry!Subscribe
  <2>12. QED
    BY <2>11, RegistryKey DEF Registry!Next
<1>3. ASSUME NEW k \in Key, CloseRequest(k) PROVE Goal
  <2>1. subs' = [subs EXCEPT ![k] = 0] /\ stage' = stage /\ subs[k] # 0
    BY <1>3 DEF CloseRequest
  <2>2. feed[k] # "none"
    BY <2>1, FeedOf
  <2>3. feed' = [feed EXCEPT ![k] = "none"]
    <3>1. feed' = [j \in Key |-> IF j = k THEN "none" ELSE feed[j]]
      BY <2>1 DEF feed, TypeOK
    <3>2. QED
      BY <3>1, FeedFunction
  <2>4. QED
    BY <2>2, <2>3, RegistryKey DEF Registry!Next, Registry!Unsubscribe
<1>4. ASSUME NEW c \in Conn, Cleanup(c) PROVE Goal
  <2>1. \A k \in Key : subs'[k] = IF k[1] = c THEN 0 ELSE subs[k]
    BY <1>4 DEF Cleanup, RegistryInv
  <2>2. stage' = stage
    BY <1>4 DEF Cleanup
  <2>3. feed' = [k \in Key |-> IF k[1] = c THEN "none" ELSE feed[k]]
    BY <2>1, <2>2 DEF feed
  <2>4. QED
    BY <2>3, RegistryKey DEF Registry!Next, Registry!Disconnect
<1>5. ASSUME NEW k \in Key, NEW n \in Nth, SendRefusal(k, n) PROVE Goal
  <2>1. /\ Goto(k, n, "refused") /\ stage[k][n] = "refusing" /\ UNCHANGED subs
    BY <1>5 DEF SendRefusal
  <2>2. \A j \in Key, m \in Nth :
           stage'[j][m] = IF j = k /\ m = n THEN "refused" ELSE stage[j][m]
    BY <2>1, GotoPointwise
  <2>3. \A j \in Key : subs[j] # 0 => subs[j] \in Nth
    BY EntryIsNth
  <2>4. CASE subs[k] = n
    <3>1. n # 0
      BY MuxAssumption DEF Nth, MuxAssumption
    <3>2. feed[k] = "served"
      BY <2>1, <2>4, <3>1, FeedOf
    <3>3. feed' = [j \in Key |-> IF j = k THEN "refused" ELSE feed[j]]
      BY <2>1, <2>2, <2>3, <2>4, <3>1 DEF feed
    <3>4. feed' = [feed EXCEPT ![k] = "refused"]
      BY <3>3, FeedFunction
    <3>5. QED
      BY <3>2, <3>4, RegistryKey DEF Registry!Next, Registry!Refuse
  <2>5. CASE subs[k] # n
    BY <2>1, <2>2, <2>3, <2>5 DEF feed
  <2>6. QED
    BY <2>4, <2>5
<1>6. ASSUME NEW k \in Key, NEW n \in Nth, WatchStep(k, n), ~SendRefusal(k, n) PROVE Goal
  <2>1. PICK s : Goto(k, n, s) /\ stage[k][n] # "refused" /\ s # "refused" /\ UNCHANGED subs
    BY <1>6 DEF WatchStep, Check, OpenUnloaded, OpenWatch, OpenFails, SendFailure, Event,
                SendData, StreamEnds, Wake
  <2>2. QED
    BY <2>1, FeedUnchanged
<1>7. QED
  BY <1>1, <1>2, <1>3, <1>4, <1>5, <1>6, KeyPair
  DEF Next, ReaderStep, WriterStep, Reload, PeerLeaves, Connect, SendReject, Leave,
      WriteFrame, WriteFails, WriterStops, SkipRequest, RejectRequest, Compact, vars

\* Multiplexer implements WatchRegistry: seen from its map, the shared state
\* of all readers and goroutines is one feed per key, opened by REQUEST within
\* the limit, refused at most once, and ended by CLOSE or the disconnect.
THEOREM Implementation == Spec => ImplementsRegistry
<1>1. Init => Registry!Init
  BY RegistryKey DEF Init, Registry!Init, feed
<1>2. IInv /\ [Next]_vars => [Registry!Next]_feed
  <2>1. CASE Next
    BY <2>1, RegistryStepMaps DEF IInv
  <2>2. CASE UNCHANGED vars
    BY <2>2 DEF vars, feed
  <2>3. QED
    BY <2>1, <2>2
<1>3. QED
  BY <1>1, <1>2, Invariance, PTL DEF Spec, ImplementsRegistry, Registry!Spec
=============================================================================
