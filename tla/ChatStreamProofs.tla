--------------------------- MODULE ChatStreamProofs ---------------------------
(* Theorems about ChatStream, for every value of its constants. *)
EXTENDS ChatStream, TLAPS

-----------------------------------------------------------------------------
(* Frames, rows and batches. *)

LEMMA RunIsPositive == 0 \in 0..MaxRun /\ \A r \in Run : r \in Nat /\ r # 0 /\ r \in 0..MaxRun
BY ChatAssumption DEF ChatAssumption, Run

LEMMA FunctionIsSeq ==
  ASSUME NEW S, NEW n \in Nat, NEW f \in [1..n -> S]
  PROVE  f \in Seq(S)
OBVIOUS

LEMMA ElementOfSeq ==
  ASSUME NEW S, NEW s \in Seq(S), NEW i \in DOMAIN s
  PROVE  s[i] \in S
OBVIOUS

\* What the service sends is a frame.
LEMMA FramesAreFrames ==
  /\ \A n \in Nat : Content(n) \in Frame
  /\ \A t \in Tool : Call(t) \in Frame
  /\ \A t \in Tool, n \in Nat : Result(t, n) \in Frame
  /\ Error \in Frame /\ Done \in Frame
BY DEF Content, Call, Result, Error, Done, Frame

LEMMA RowsAreRows ==
  ASSUME NEW r \in Run, NEW n \in Nat
  PROVE  Question(r) \in Row /\ Answer(r, n) \in Row
BY DEF Question, Answer, Row

\* The typewriter takes at least one character and no more than there are.
LEMMA BatchFits ==
  ASSUME NEW q \in Nat, q > 0
  PROVE  (q + 7) \div 8 \in 1..q
OBVIOUS

\* An end keeps the types of what it sets.
LEMMA EndNowTypes ==
  ASSUME TypeOK, NEW s \in Status, EndNow(s)
  PROVE  /\ status' \in Status /\ shown' \in Nat /\ queue' \in Nat
         /\ typing' \in BOOLEAN /\ donePending' \in BOOLEAN
<1>1. typing' \in BOOLEAN /\ donePending' \in BOOLEAN
  BY DEF EndNow
<1>2. status' \in Status /\ shown' \in Nat /\ queue' \in Nat
  BY DEF EndNow, TypeOK
<1>3. QED
  BY <1>1, <1>2

-----------------------------------------------------------------------------
(* The browser keeps the invariant. *)

LEMMA InvInit == Init => IInv
<1> SUFFICES ASSUME Init PROVE IInv
  OBVIOUS
<1>1. TypeOK
  <2>1. 0 \in 0..MaxRun
    BY ChatAssumption DEF ChatAssumption
  <2>2. [r \in Run |-> "idle"] \in [Run -> ReaderState] /\ [r \in Run |-> "idle"] \in [Run -> ServerState]
    BY DEF ReaderState, ServerState
  <2>3. status \in Status
    BY DEF Init, Status
  <2>4. blocks \in Seq(Nat) 
    BY DEF Init
  <2>5. toolCalls \in Seq([tool : Tool, result : Nat])
    BY DEF Init
  <2>6. current \in 0..MaxRun /\ shown \in Nat /\ queue \in Nat /\ controller \in 0..MaxRun
    BY <2>1 DEF Init
  <2>7. typing \in BOOLEAN /\ donePending \in BOOLEAN
    BY DEF Init
  <2>8. reader \in [Run -> ReaderState] /\ server \in [Run -> ServerState]
    BY <2>2 DEF Init
  <2>9. sent \in [Run -> Nat] /\ received \in [Run -> Nat]
    BY DEF Init
  <2>10. QED
    BY <2>2, <2>3, <2>4, <2>5, <2>6, <2>7, <2>8, <2>9 DEF TypeOK
<1>2. DataOK
  <2>1. [r \in Run |-> <<>>] \in [Run -> Seq(Frame)] /\ [r \in Run |-> <<>>] \in [Run -> Seq(Tool)]
    OBVIOUS
  <2>2. QED
    BY <2>1 DEF Init, DataOK
<1>3. QED
  BY <1>1, <1>2, RunIsPositive DEF Init, IInv, FutureRuns, AbortedRun, ReadingRun, StreamingRun, Typewriter,
        BeforeTheFirst, NothingLost

LEMMA StartKeeps == ASSUME IInv, NEW r \in Run, Start(r) PROVE IInv'
<1> USE RunIsPositive DEF IInv, Start, storeVars
<1>1. TypeOK'
  <2>1. reader' \in [Run -> ReaderState] /\ server' \in [Run -> ServerState]
    BY DEF TypeOK, ReaderState, ServerState
  <2>2. blocks' \in Seq(Nat) /\ toolCalls' \in Seq([tool : Tool, result : Nat])
    OBVIOUS
  <2>3. typing' \in BOOLEAN /\ donePending' \in BOOLEAN
    OBVIOUS
  <2>4. QED
    BY <2>1, <2>2, <2>3 DEF TypeOK, Status
<1>2. DataOK'
  BY DEF DataOK
<1>3. FutureRuns' /\ AbortedRun' /\ ReadingRun'
  BY DEF TypeOK, FutureRuns, AbortedRun, ReadingRun, Quiet, Run
<1>4. StreamingRun' /\ Typewriter' /\ BeforeTheFirst' /\ NothingLost'
  BY DEF TypeOK, FutureRuns, StreamingRun, Typewriter, BeforeTheFirst, NothingLost
<1>5. QED
  BY <1>1, <1>2, <1>3, <1>4

LEMMA StopKeeps == ASSUME IInv, HandleStop PROVE IInv'
<1> USE RunIsPositive DEF IInv, HandleStop
<1>0. current \in Run /\ (controller = 0 \/ controller = current)
  BY DEF TypeOK, StreamingRun, ReadingRun
<1>1. TypeOK'
  <2>1. reader' \in [Run -> ReaderState]
    BY <1>0 DEF TypeOK, ReaderState
  <2>2. "aborted" \in Status
    BY DEF Status
  <2>3. QED
    BY <2>1, <2>2, EndNowTypes DEF TypeOK
<1>2. DataOK'
  BY <1>0, RowsAreRows DEF TypeOK, DataOK
<1>3. FutureRuns' /\ AbortedRun' /\ ReadingRun'
  BY <1>0 DEF TypeOK, FutureRuns, AbortedRun, ReadingRun, StreamingRun, Quiet, EndNow
<1>4. StreamingRun' /\ Typewriter' /\ BeforeTheFirst' /\ NothingLost'
  BY <1>0 DEF EndNow, TypeOK, StreamingRun, Typewriter, BeforeTheFirst, NothingLost
<1>5. QED
  BY <1>1, <1>2, <1>3, <1>4

LEMMA UnwindKeeps == ASSUME IInv, NEW r \in Run, Unwind(r) PROVE IInv'
<1> USE RunIsPositive DEF IInv, Unwind, serverVars, storeVars
<1>0. r = current /\ status = "aborted" /\ queue = 0
  BY DEF AbortedRun
<1>1. TypeOK' /\ DataOK'
  <2>1. reader' \in [Run -> ReaderState]
    BY DEF TypeOK, ReaderState
  <2>2. "aborted" \in Status
    BY DEF Status
  <2>3. TypeOK'
    BY <2>1, <2>2, EndNowTypes DEF TypeOK
  <2>4. QED
    BY <2>3 DEF DataOK
<1>2. FutureRuns' /\ AbortedRun' /\ ReadingRun'
  BY <1>0 DEF EndNow, TypeOK, FutureRuns, AbortedRun, ReadingRun
<1>3. StreamingRun' /\ Typewriter' /\ BeforeTheFirst' /\ NothingLost'
  BY <1>0 DEF EndNow, TypeOK, StreamingRun, Typewriter, BeforeTheFirst, NothingLost
<1>4. QED
  BY <1>1, <1>2, <1>3

LEMMA DrainKeeps == ASSUME IInv, DrainQueue PROVE IInv'
<1> USE DEF IInv
<1>1. CASE queue = 0
  <2> USE <1>1 DEF DrainQueue, serverVars, storeVars
  <2>1. TypeOK' /\ DataOK'
    BY DEF TypeOK, DataOK, Status
  <2>2. FutureRuns' /\ AbortedRun' /\ ReadingRun'
    BY RunIsPositive DEF TypeOK, FutureRuns, AbortedRun, ReadingRun, Quiet
  <2>3. StreamingRun' /\ Typewriter' /\ BeforeTheFirst' /\ NothingLost'
    BY DEF TypeOK, ReadingRun, StreamingRun, Typewriter, BeforeTheFirst, NothingLost
  <2>4. QED
    BY <2>1, <2>2, <2>3
<1>2. CASE queue # 0
  <2> DEFINE batch == (queue + 7) \div 8
  <2>1. batch \in 1..queue
    BY <1>2, BatchFits DEF TypeOK
  <2>2. /\ shown' = shown + batch /\ queue' = queue - batch
        /\ UNCHANGED <<typing, status, donePending>>
    BY <1>2 DEF DrainQueue
  <2>3. typing /\ Quiet /\ UNCHANGED <<current, blocks, toolCalls, controller, reader, received,
                                       serverVars, storeVars>>
    BY DEF DrainQueue
  <2> HIDE DEF batch
  <2>4. TypeOK' /\ DataOK'
    BY <2>1, <2>2, <2>3 DEF TypeOK, DataOK, serverVars, storeVars
  <2>5. FutureRuns' /\ AbortedRun' /\ ReadingRun' /\ StreamingRun' /\ Typewriter' /\ BeforeTheFirst'
    BY <2>1, <2>2, <2>3 DEF TypeOK, FutureRuns, AbortedRun, ReadingRun, StreamingRun, Typewriter,
          BeforeTheFirst, Quiet
  <2>6. NothingLost'
    BY <2>1, <2>2, <2>3 DEF TypeOK, NothingLost
  <2>7. QED
    BY <2>4, <2>5, <2>6
<1>3. QED
  BY <1>1, <1>2

-----------------------------------------------------------------------------
(* What arrives at the browser keeps the invariant. *)

\* The first frame of a stream, and what is left of it.
LEMMA HeadIsFrame ==
  ASSUME DataOK, NEW r \in Run, wire[r] # <<>>
  PROVE  Head(wire[r]) \in Frame /\ [wire EXCEPT ![r] = Tail(@)] \in [Run -> Seq(Frame)]
<1>1. wire[r] \in Seq(Frame)
  BY DEF DataOK
<1>2. Head(wire[r]) \in Frame /\ Tail(wire[r]) \in Seq(Frame)
  BY <1>1
<1>3. QED
  BY <1>2 DEF DataOK

LEMMA FinishTypes ==
  ASSUME TypeOK, Finish
  PROVE  /\ status' \in Status /\ shown' \in Nat /\ queue' \in Nat
         /\ typing' \in BOOLEAN /\ donePending' \in BOOLEAN
BY DEF TypeOK, Finish, Status

\* The reader that ends on an error, whatever told it, leaves nothing behind.
LEMMA ErrorKeeps ==
  ASSUME IInv, NEW r \in Run, reader[r] = "reading", Quiet, EndNow("error"), controller' = 0,
         reader' = [reader EXCEPT ![r] = "ended"], wire' \in [Run -> Seq(Frame)],
         UNCHANGED <<current, blocks, toolCalls, received, server, sent, called, storeVars>>
  PROVE  IInv'
<1> USE RunIsPositive DEF IInv, storeVars
<1>0. r = current /\ status = "streaming" /\ controller = r /\ ~donePending
  BY DEF ReadingRun
<1>1. TypeOK'
  <2>1. reader' \in [Run -> ReaderState]
    BY DEF TypeOK, ReaderState
  <2>2. "error" \in Status
    BY DEF Status
  <2>3. QED
    BY <2>1, <2>2, EndNowTypes DEF TypeOK
<1>2. DataOK'
  BY DEF DataOK
<1>3. FutureRuns' /\ AbortedRun' /\ ReadingRun'
  BY <1>0 DEF TypeOK, EndNow, FutureRuns, AbortedRun, ReadingRun, Quiet
<1>4. StreamingRun' /\ Typewriter' /\ BeforeTheFirst' /\ NothingLost'
  BY <1>0 DEF TypeOK, EndNow, StreamingRun, Typewriter, BeforeTheFirst, NothingLost
<1>5. QED
  BY <1>1, <1>2, <1>3, <1>4

\* So does the one that sees the end of the answer; the typewriter may have
\* the last word.
LEMMA FinishKeeps ==
  ASSUME IInv, NEW r \in Run, reader[r] = "reading", Quiet, Finish, controller' = 0,
         reader' = [reader EXCEPT ![r] = "ended"], wire' \in [Run -> Seq(Frame)],
         UNCHANGED <<current, blocks, toolCalls, received, server, sent, called, storeVars>>
  PROVE  IInv'
<1> USE RunIsPositive DEF IInv, storeVars
<1>0. r = current /\ status = "streaming" /\ controller = r /\ ~donePending
  BY DEF ReadingRun
<1>1. TypeOK'
  <2>1. reader' \in [Run -> ReaderState]
    BY DEF TypeOK, ReaderState
  <2>2. QED
    BY <2>1, FinishTypes DEF TypeOK
<1>2. DataOK'
  BY DEF DataOK
<1>3. FutureRuns' /\ AbortedRun' /\ ReadingRun'
  BY <1>0 DEF TypeOK, Finish, FutureRuns, AbortedRun, ReadingRun, Quiet
<1>4. StreamingRun' /\ Typewriter' /\ BeforeTheFirst' /\ NothingLost'
  BY <1>0 DEF TypeOK, Finish, StreamingRun, Typewriter, BeforeTheFirst, NothingLost
<1>5. QED
  BY <1>1, <1>2, <1>3, <1>4

LEMMA ReceiveKeeps == ASSUME IInv, NEW r \in Run, Receive(r) PROVE IInv'
<1> DEFINE f == Head(wire[r])
<1>1. /\ Quiet /\ reader[r] = "reading" /\ wire[r] # <<>>
      /\ wire' = [wire EXCEPT ![r] = Tail(@)]
      /\ UNCHANGED <<current, server, sent, called, storeVars>>
  BY DEF Receive
<1>2. f \in Frame /\ wire' \in [Run -> Seq(Frame)]
  BY <1>1, HeadIsFrame DEF IInv
<1>3. r = current /\ status = "streaming" /\ controller = r /\ ~donePending
  BY <1>1 DEF IInv, ReadingRun
<1>4. DataOK'
  BY <1>1, <1>2 DEF IInv, DataOK, storeVars
<1> USE RunIsPositive DEF IInv
<1>5. CASE f.kind = "content"
  <2>1. f.n \in Nat
    BY <1>2, <1>5 DEF Frame
  <2>2. /\ queue' = queue + f.n
        /\ typing' = TRUE
        /\ received' = [received EXCEPT ![r] = @ + f.n]
        /\ UNCHANGED <<status, shown, donePending, blocks, toolCalls, controller, reader>>
    BY <1>5 DEF Receive
  <2> HIDE DEF f
  <2>3. TypeOK'
    <3>1. received' \in [Run -> Nat]
      BY <2>1, <2>2 DEF TypeOK
    <3>2. QED
      BY <1>1, <2>1, <2>2, <3>1 DEF TypeOK
  <2>4. FutureRuns' /\ AbortedRun' /\ ReadingRun' /\ StreamingRun' /\ Typewriter' /\ BeforeTheFirst'
    BY <1>1, <1>3, <2>1, <2>2 DEF TypeOK, FutureRuns, AbortedRun, ReadingRun, StreamingRun,
          Typewriter, BeforeTheFirst
  <2>5. NothingLost'
    BY <1>1, <1>3, <2>1, <2>2 DEF TypeOK, NothingLost
  <2>6. QED
    BY <1>4, <2>3, <2>4, <2>5
<1>6. CASE f.kind \in {"function", "function_result"}
  <2>1. UNCHANGED <<status, shown, queue, typing, donePending, controller, reader, received>>
    BY <1>6 DEF Receive
  <2>2. blocks' \in Seq(Nat) /\ toolCalls' \in Seq([tool : Tool, result : Nat])
    <3>1. CASE f.kind = "function"
      <4>1. f.tool \in Tool
        BY <1>2, <3>1 DEF Frame
      <4>2. [tool |-> f.tool, result |-> 0] \in [tool : Tool, result : Nat]
        BY <4>1
      <4>3. /\ toolCalls' = Append(toolCalls, [tool |-> f.tool, result |-> 0])
            /\ blocks' = Append(blocks, 0)
        BY <3>1 DEF Receive
      <4>4. QED
        BY <4>2, <4>3 DEF TypeOK
    <3>2. CASE f.kind = "function_result"
      <4>1. f.n \in Nat
        BY <1>2, <3>2 DEF Frame
      <4>2. PutResult(f.tool, f.n)
        BY <3>2 DEF Receive
      <4> HIDE DEF f
      <4>3. ASSUME NEW i \in DOMAIN toolCalls
            PROVE  /\ toolCalls[i] \in [tool : Tool, result : Nat]
                   /\ [toolCalls[i] EXCEPT !.result = f.n] \in [tool : Tool, result : Nat]
        <5> DEFINE Entry == [tool : Tool, result : Nat]
        <5>1. toolCalls \in Seq(Entry)
          BY DEF TypeOK
        <5> HIDE DEF Entry
        <5>2. toolCalls[i] \in Entry
          BY <5>1, ElementOfSeq
        <5>3. QED
          BY <4>1, <5>2 DEF Entry
      <4>4. toolCalls' \in [DOMAIN toolCalls -> [tool : Tool, result : Nat]]
        BY <4>2, <4>3 DEF PutResult
      <4>5. blocks' \in [DOMAIN blocks -> Nat]
        <5>1. \A i \in DOMAIN blocks : blocks[i] \in Nat
          BY DEF TypeOK
        <5>2. QED
          BY <4>1, <4>2, <5>1 DEF PutResult
      <4>6. /\ Len(toolCalls) \in Nat /\ DOMAIN toolCalls = 1..Len(toolCalls)
            /\ Len(blocks) \in Nat /\ DOMAIN blocks = 1..Len(blocks)
        BY DEF TypeOK
      <4>7. blocks' \in Seq(Nat)
        BY <4>5, <4>6, FunctionIsSeq
      <4>8. QED
        BY <4>4, <4>6, <4>7, FunctionIsSeq
    <3>3. QED
      BY <1>6, <3>1, <3>2
  <2> HIDE DEF f
  <2>3. TypeOK'
    BY <1>1, <2>1, <2>2 DEF TypeOK
  <2>4. FutureRuns' /\ AbortedRun' /\ ReadingRun' /\ StreamingRun' /\ Typewriter' /\ BeforeTheFirst'
        /\ NothingLost'
    BY <1>1, <2>1 DEF FutureRuns, AbortedRun, ReadingRun, StreamingRun, Typewriter, BeforeTheFirst,
          NothingLost
  <2>5. QED
    BY <1>4, <2>3, <2>4
<1>7. CASE f.kind = "error"
  <2>1. /\ EndNow("error") /\ controller' = 0 /\ reader' = [reader EXCEPT ![r] = "ended"]
        /\ UNCHANGED <<blocks, toolCalls, received>>
    BY <1>7 DEF Receive
  <2>2. QED
    BY <1>1, <1>2, <2>1, ErrorKeeps
<1>8. CASE f.kind = "done"
  <2>1. /\ Finish /\ controller' = 0 /\ reader' = [reader EXCEPT ![r] = "ended"]
        /\ UNCHANGED <<blocks, toolCalls, received>>
    BY <1>8 DEF Receive
  <2>2. QED
    BY <1>1, <1>2, <2>1, FinishKeeps
<1>9. QED
  BY <1>2, <1>5, <1>6, <1>7, <1>8 DEF Frame

LEMMA ReceiveEndKeeps == ASSUME IInv, NEW r \in Run, ReceiveEnd(r) PROVE IInv'
<1>1. wire' \in [Run -> Seq(Frame)]
  BY DEF IInv, DataOK, ReceiveEnd, serverVars
<1>2. QED
  BY <1>1, FinishKeeps DEF ReceiveEnd, serverVars

LEMMA DisconnectKeeps == ASSUME IInv, NEW r \in Run, Disconnect(r) PROVE IInv'
<1>1. wire' \in [Run -> Seq(Frame)]
  BY DEF IInv, DataOK, Disconnect
<1>2. QED
  BY <1>1, ErrorKeeps DEF Disconnect

-----------------------------------------------------------------------------
(* The service keeps the invariant. *)

\* A frame that is sent is appended, or lost with its reader.
LEMMA SendKeepsWires ==
  ASSUME DataOK, NEW r \in Run, NEW f \in Frame, Send(r, f)
  PROVE  wire' \in [Run -> Seq(Frame)]
<1>1. wire[r] \in Seq(Frame)
  BY DEF DataOK
<1>2. Append(wire[r], f) \in Seq(Frame)
  BY <1>1
<1>3. QED
  BY <1>2 DEF DataOK, Send

\* The manager's part of the invariant depends on nothing of the service.
LEMMA ManagerUntouched ==
  ASSUME IInv, UNCHANGED managerVars, server' \in [Run -> ServerState], sent' \in [Run -> Nat], DataOK'
  PROVE  IInv'
BY DEF managerVars, IInv, TypeOK, FutureRuns, AbortedRun, ReadingRun, StreamingRun, Typewriter,
       BeforeTheFirst, NothingLost

LEMMA ServerTypes ==
  ASSUME IInv, NEW r \in Run, ServerStep(r)
  PROVE  server' \in [Run -> ServerState] /\ sent' \in [Run -> Nat]
<1>1. CASE SendContent(r)
  BY <1>1, ChatAssumption DEF ChatAssumption, IInv, TypeOK, SendContent
<1>2. sent' = sent \/ SendContent(r)
  BY DEF ServerStep, SaveQuestion, Refuse, SendCall, SendResult, SaveAnswer, SendDone, Fail, Abandon
<1>3. server' = server \/ \E s \in ServerState : server' = [server EXCEPT ![r] = s]
  BY DEF ServerStep, SaveQuestion, Refuse, SendContent, SendCall, SendResult, SaveAnswer, SendDone,
         Fail, Abandon, ServerState
<1>4. QED
  BY <1>1, <1>2, <1>3 DEF IInv, TypeOK

LEMMA ServerKeeps == ASSUME IInv, NEW r \in Run, ServerStep(r) PROVE IInv'
<1> USE FramesAreFrames DEF storeVars
<1>0. UNCHANGED managerVars
  BY DEF ServerStep, SaveQuestion, Refuse, SendContent, SendCall, SendResult, SaveAnswer, SendDone,
         Fail, Abandon
<1> SUFFICES DataOK'
  BY <1>0, ServerTypes, ManagerUntouched
<1>1. DataOK /\ TypeOK
  BY DEF IInv
<1>2. CASE SaveQuestion(r)
  <2>1. Question(r) \in Row
    BY RowsAreRows
  <2>2. QED
    BY <1>1, <1>2, <2>1 DEF SaveQuestion, DataOK
<1>3. CASE SaveAnswer(r)
  <2>1. Answer(r, sent[r]) \in Row
    BY <1>1, RowsAreRows DEF TypeOK
  <2>2. QED
    BY <1>1, <1>3, <2>1 DEF SaveAnswer, DataOK
<1>4. CASE SendContent(r)
  <2>1. PICK n \in 1..MaxData : Send(r, Content(n))
    BY <1>4 DEF SendContent
  <2>2. n \in Nat
    BY ChatAssumption DEF ChatAssumption
  <2>3. wire' \in [Run -> Seq(Frame)]
    BY <1>1, <2>1, <2>2, SendKeepsWires
  <2>4. QED
    BY <1>1, <1>4, <2>3 DEF SendContent, DataOK
<1>5. CASE SendCall(r)
  <2>1. PICK t \in Tool : Send(r, Call(t)) /\ called' = [called EXCEPT ![r] = Append(@, t)]
    BY <1>5 DEF SendCall
  <2>2. wire' \in [Run -> Seq(Frame)]
    BY <1>1, <2>1, SendKeepsWires
  <2>3. called' \in [Run -> Seq(Tool)]
    <3>1. Append(called[r], t) \in Seq(Tool)
      BY <1>1 DEF DataOK
    <3>2. QED
      BY <1>1, <2>1, <3>1 DEF DataOK
  <2>4. \A o \in Run : o # r => called'[o] = called[o] /\ server'[o] = server[o]
    BY <1>1, <1>5, <2>1 DEF SendCall, DataOK, TypeOK
  <2>5. called'[r] # <<>>
    <3>1. called[r] \in Seq(Tool) /\ called'[r] = Append(called[r], t)
      BY <1>1, <2>1 DEF DataOK
    <3>2. QED
      BY <3>1
  <2>6. QED
    BY <1>1, <1>5, <2>2, <2>3, <2>4, <2>5 DEF SendCall, DataOK
<1>6. CASE SendResult(r)
  <2>1. called[r] \in Seq(Tool) /\ called[r] # <<>>
    BY <1>1, <1>6 DEF SendResult, DataOK
  <2>2. Last(called[r]) \in Tool /\ Len(called[r]) \in Nat
    BY <2>1 DEF Last
  <2>3. wire' \in [Run -> Seq(Frame)]
    BY <1>1, <1>6, <2>2, SendKeepsWires DEF SendResult
  <2>4. QED
    BY <1>1, <1>6, <2>3 DEF SendResult, DataOK, TypeOK
<1>7. CASE SendDone(r)
  <2>1. wire' \in [Run -> Seq(Frame)]
    BY <1>1, <1>7, SendKeepsWires DEF SendDone
  <2>2. QED
    BY <1>1, <1>7, <2>1 DEF SendDone, DataOK
<1>8. CASE Fail(r)
  <2>1. wire' \in [Run -> Seq(Frame)]
    BY <1>1, <1>8, SendKeepsWires DEF Fail
  <2>2. QED
    BY <1>1, <1>8, <2>1 DEF Fail, DataOK
<1>9. CASE Refuse(r) \/ Abandon(r)
  BY <1>1, <1>9 DEF Refuse, Abandon, DataOK, TypeOK
<1>10. QED
  BY <1>2, <1>3, <1>4, <1>5, <1>6, <1>7, <1>8, <1>9 DEF ServerStep

LEMMA SavePartialKeeps == ASSUME IInv, SavePartial PROVE IInv'
<1>1. DataOK'
  <2>1. PICK p \in saving : /\ saving' = saving \ {p}
                            /\ messages' \in {Append(messages, p), messages}
    BY DEF SavePartial
  <2>2. p \in Row
    BY <2>1 DEF IInv, DataOK
  <2>3. messages' \in Seq(Row)
    <3>1. messages \in Seq(Row)
      BY DEF IInv, DataOK
    <3>2. Append(messages, p) \in Seq(Row)
      BY <2>2, <3>1
    <3>3. QED
      BY <2>1, <3>1, <3>2
  <2>4. QED
    BY <2>1, <2>3 DEF IInv, DataOK, SavePartial, serverVars
<1>2. QED
  BY <1>1, ManagerUntouched DEF IInv, TypeOK, SavePartial, serverVars

\* The invariant is inductive.
LEMMA InvStep == IInv /\ [Next]_vars => IInv'
<1> SUFFICES ASSUME IInv, [Next]_vars PROVE IInv'
  OBVIOUS
<1>1. ASSUME NEW r \in Run, Start(r) \/ Unwind(r) PROVE IInv'
  BY <1>1, StartKeeps, UnwindKeeps
<1>2. ASSUME NEW r \in Run, Receive(r) \/ ReceiveEnd(r) \/ Disconnect(r) PROVE IInv'
  BY <1>2, ReceiveKeeps, ReceiveEndKeeps, DisconnectKeeps
<1>3. ASSUME NEW r \in Run, ServerStep(r) PROVE IInv'
  BY <1>3, ServerKeeps
<1>4. CASE HandleStop \/ DrainQueue \/ SavePartial
  BY <1>4, StopKeeps, DrainKeeps, SavePartialKeeps
<1>5. CASE UNCHANGED vars
  <2>1. DataOK' /\ UNCHANGED managerVars
    BY <1>5 DEF vars, serverVars, storeVars, IInv, DataOK
  <2>2. QED
    BY <1>5, <2>1, ManagerUntouched DEF vars, serverVars, IInv, TypeOK
<1>6. QED
  BY <1>1, <1>2, <1>3, <1>4, <1>5 DEF Next

-----------------------------------------------------------------------------
(* The theorems. *)

\* The manager and the service keep the invariant: one run reads or is being
\* unwound, a stream that goes on has somebody to end it.
THEOREM Invariance == Spec => []IInv
BY InvInit, InvStep, PTL DEF Spec

\* Every variable stays in its range.
THEOREM TypeCorrect == Spec => []TypeOK
<1>1. IInv => TypeOK
  BY DEF IInv
<1>2. QED
  BY <1>1, Invariance, PTL

\* For any number of questions and any answers: what arrived is on the screen
\* or in the typewriter's queue.
THEOREM TextCorrect == Spec => []NothingLost
<1>1. IInv => NothingLost
  BY DEF IInv
<1>2. QED
  BY <1>1, Invariance, PTL

\* A manager that says it streams can be stopped or ends by itself.
THEOREM StreamingCorrect == Spec => []StreamingHasAnEnd
<1>1. IInv => StreamingHasAnEnd
  BY DEF IInv, StreamingRun, ReadingRun, StreamingHasAnEnd
<1>2. QED
  BY <1>1, Invariance, PTL

\* A stream that was stopped never writes into a later answer.
THEOREM OldRunsCorrect == Spec => []OldRunsAreOver
<1>1. IInv => OldRunsAreOver
  BY DEF IInv, ReadingRun, OldRunsAreOver
<1>2. QED
  BY <1>1, Invariance, PTL

\* No step changes an answer that has ended: not the typewriter, not the catch
\* block of the run that was stopped.
THEOREM EndCorrect == Spec => EndIsFinal
<1> DEFINE Final == (status \in Terminal /\ current' = current) => (status' = status /\ shown' = shown)
<1>1. ASSUME IInv, Next PROVE Final
  <2> USE <1>1 DEF Terminal, IInv
  <2>1. ASSUME NEW r \in Run, Start(r) PROVE Final
    BY <2>1, RunIsPositive DEF Start, TypeOK
  <2>2. ASSUME NEW r \in Run, Unwind(r) PROVE Final
    BY <2>2 DEF Unwind, EndNow, AbortedRun, TypeOK
  <2>3. ASSUME NEW r \in Run, Receive(r) \/ ReceiveEnd(r) \/ Disconnect(r) PROVE Final
    BY <2>3 DEF Receive, ReceiveEnd, Disconnect, ReadingRun
  <2>4. ASSUME NEW r \in Run, ServerStep(r) PROVE Final
    BY <2>4 DEF ServerStep, SaveQuestion, Refuse, SendContent, SendCall, SendResult, SaveAnswer,
                SendDone, Fail, Abandon, managerVars
  <2>5. CASE HandleStop
    BY <2>5 DEF HandleStop
  <2>6. CASE DrainQueue
    <3>1. status \in Terminal => queue = 0 /\ ~donePending
      BY DEF Typewriter, TypeOK
    <3>2. QED
      BY <2>6, <3>1 DEF DrainQueue
  <2>7. CASE SavePartial
    BY <2>7 DEF SavePartial, managerVars
  <2>8. QED
    BY <1>1, <2>1, <2>2, <2>3, <2>4, <2>5, <2>6, <2>7 DEF Next
<1>2. IInv /\ [Next]_vars => [Final]_vars
  BY <1>1
<1>3. QED
  BY <1>2, Invariance, PTL DEF Spec, EndIsFinal

-----------------------------------------------------------------------------
(* The order of the rows. *)

\* Rows are only added, so that a question that is stored stays stored.
LEMMA QuestionStays ==
  ASSUME messages \in Seq(Row), NEW m \in Row, messages' = Append(messages, m), NEW r, Stored(r)
  PROVE  Stored(r)'
<1>1. PICK j \in DOMAIN messages : messages[j] = Question(r)
  BY DEF Stored
<1>2. j \in DOMAIN messages' /\ messages'[j] = messages[j]
  BY <1>1
<1>3. QED
  BY <1>1, <1>2 DEF Stored, Question

\* A row that is added keeps the order if its question is stored already.
LEMMA OrderStays ==
  ASSUME messages \in Seq(Row), NEW m \in Row, messages' = Append(messages, m),
         QuestionComesFirst, m.role = "assistant" => Stored(m.run)
  PROVE  QuestionComesFirst'
<1> SUFFICES ASSUME NEW i \in DOMAIN messages', messages'[i].role = "assistant"
             PROVE  \E j \in 1..(i - 1) : messages'[j] = Question(messages'[i].run)
  BY DEF QuestionComesFirst, Question
<1>0. Len(messages) \in Nat /\ DOMAIN messages = 1..Len(messages)
      /\ DOMAIN messages' = 1..(Len(messages) + 1)
  OBVIOUS
<1>1. CASE i = Len(messages) + 1
  <2>1. messages'[i] = m
    BY <1>1
  <2>2. PICK j \in DOMAIN messages : messages[j] = Question(m.run)
    BY <2>1 DEF Stored
  <2>3. j \in 1..(i - 1) /\ messages'[j] = messages[j]
    BY <1>0, <1>1
  <2>4. QED
    BY <2>1, <2>2, <2>3
<1>2. CASE i # Len(messages) + 1
  <2>1. i \in DOMAIN messages /\ messages'[i] = messages[i]
    BY <1>0, <1>2
  <2>2. PICK j \in 1..(i - 1) : messages[j] = Question(messages[i].run)
    BY <2>1 DEF QuestionComesFirst
  <2>3. messages'[j] = messages[j]
    BY <1>0, <2>1
  <2>4. QED
    BY <2>1, <2>2, <2>3
<1>3. QED
  BY <1>1, <1>2

LEMMA OrderInit == Init => OrderInv
BY InvInit DEF Init, OrderInv, QuestionIsStored, FramesAreStored, QuestionComesFirst

\* The browser adds no row, and holds nothing whose question is not stored.
LEMMA OrderStart == ASSUME OrderInv, NEW r \in Run, Start(r) \/ Unwind(r) PROVE OrderInv'
<1>1. IInv'
  BY StartKeeps, UnwindKeeps DEF OrderInv
<1>2. UNCHANGED <<messages, saving, wire, received>>
  BY DEF Start, Unwind, storeVars, serverVars
<1>3. QuestionIsStored'
  <2>1. CASE Start(r)
    BY <1>2, <2>1 DEF Start, OrderInv, IInv, TypeOK, QuestionIsStored, FramesAreStored, Stored, Question
  <2>2. CASE Unwind(r)
    BY <1>2, <2>2 DEF Unwind, serverVars, OrderInv, QuestionIsStored, FramesAreStored, Stored, Question
  <2>3. QED
    BY <2>1, <2>2
<1>4. QED
  BY <1>1, <1>2, <1>3 DEF OrderInv, QuestionComesFirst, Question

LEMMA OrderStop == ASSUME OrderInv, HandleStop PROVE OrderInv'
<1>1. IInv'
  BY StopKeeps DEF OrderInv
<1>2. UNCHANGED <<messages, received, blocks, current, server>>
  BY DEF HandleStop
<1>3. current \in Run
  BY DEF HandleStop, OrderInv, IInv, StreamingRun
<1>4. shown > 0 \/ blocks # <<>> => Stored(current)
  BY <1>3, RunIsPositive DEF OrderInv, IInv, TypeOK, NothingLost, QuestionIsStored
<1>5. \A p \in saving' : Stored(p.run)
  BY <1>4 DEF HandleStop, OrderInv, QuestionIsStored, Answer
<1>6. FramesAreStored'
  BY <1>2 DEF HandleStop, OrderInv, IInv, DataOK, QuestionIsStored, FramesAreStored, Stored, Question
<1>7. QuestionIsStored'
  BY <1>2, <1>5, <1>6 DEF OrderInv, QuestionIsStored, Stored, Question
<1>8. QED
  BY <1>1, <1>2, <1>7 DEF OrderInv, QuestionComesFirst, Question

LEMMA OrderDrain == ASSUME OrderInv, DrainQueue PROVE OrderInv'
<1>1. IInv'
  BY DrainKeeps DEF OrderInv
<1>2. UNCHANGED <<messages, received, blocks, current, server, wire, saving>>
  BY DEF DrainQueue, serverVars, storeVars
<1>3. QED
  BY <1>1, <1>2 DEF OrderInv, QuestionIsStored, FramesAreStored, Stored, QuestionComesFirst, Question

\* What is read is no longer on its way; the rest still is.
LEMMA OrderReceive ==
  ASSUME OrderInv, NEW r \in Run, Receive(r) \/ ReceiveEnd(r) \/ Disconnect(r)
  PROVE  OrderInv'
<1>1. IInv'
  BY ReceiveKeeps, ReceiveEndKeeps, DisconnectKeeps DEF OrderInv
<1>2. r = current /\ UNCHANGED <<messages, current, server, saving>>
  BY DEF Receive, ReceiveEnd, Disconnect, serverVars, storeVars, OrderInv, IInv, ReadingRun
<1>3. FramesAreStored'
  <2>1. ASSUME NEW o \in Run, NEW i \in DOMAIN wire'[o],
               wire'[o][i].kind \in {"content", "function"}
        PROVE  Stored(o)
    <3>1. CASE wire'[o] = wire[o]
      BY <2>1, <3>1 DEF OrderInv, QuestionIsStored, FramesAreStored
    <3>2. CASE wire'[o] = <<>>
      BY <2>1, <3>2
    <3>3. CASE wire'[o] = Tail(wire[o]) /\ wire[o] # <<>>
      <4>1. wire[o] \in Seq(Frame)
        BY DEF OrderInv, IInv, DataOK
      <4>2. i + 1 \in DOMAIN wire[o] /\ wire'[o][i] = wire[o][i + 1]
        BY <2>1, <3>3, <4>1
      <4>3. QED
        BY <2>1, <4>2 DEF OrderInv, QuestionIsStored, FramesAreStored
    <3>4. QED
      BY <3>1, <3>2, <3>3 DEF Receive, ReceiveEnd, Disconnect, serverVars, OrderInv, IInv, DataOK
  <2>2. QED
    BY <1>2, <2>1 DEF FramesAreStored, Stored, Question
<1>4. /\ \A o \in Run : received'[o] > 0 => Stored(o)
      /\ blocks' # <<>> => Stored(r)
  <2>1. CASE Receive(r)
    <3> DEFINE f == Head(wire[r])
    <3>1. wire[r] # <<>> /\ wire[r] \in Seq(Frame) /\ f.kind \in {"content", "function", "function_result", "error", "done"}
      BY <2>1 DEF Receive, OrderInv, IInv, DataOK
    <3>2. 1 \in DOMAIN wire[r] /\ f = wire[r][1]
      BY <3>1
    <3>3. f.kind \in {"content", "function"} => Stored(r)
      BY <3>2 DEF OrderInv, QuestionIsStored, FramesAreStored
    <3>4. CASE f.kind = "content"
      BY <1>2, <2>1, <3>3, <3>4 DEF Receive, OrderInv, IInv, TypeOK, QuestionIsStored
    <3>5. CASE f.kind = "function"
      BY <1>2, <2>1, <3>3, <3>5 DEF Receive, OrderInv, IInv, TypeOK, QuestionIsStored
    <3>6. CASE f.kind = "function_result"
      <4>1. UNCHANGED received /\ PutResult(f.tool, f.n)
        BY <2>1, <3>6 DEF Receive
      <4>2. blocks = <<>> => blocks' = <<>>
        BY <4>1 DEF PutResult
      <4>3. QED
        BY <1>2, <4>1, <4>2 DEF OrderInv, QuestionIsStored
    <3>7. CASE f.kind \in {"error", "done"}
      BY <1>2, <2>1, <3>7 DEF Receive, OrderInv, QuestionIsStored
    <3>8. QED
      BY <3>1, <3>4, <3>5, <3>6, <3>7
  <2>2. CASE ReceiveEnd(r) \/ Disconnect(r)
    BY <1>2, <2>2 DEF ReceiveEnd, Disconnect, OrderInv, QuestionIsStored
  <2>3. QED
    BY <2>1, <2>2
<1>5. QuestionIsStored'
  BY <1>2, <1>3, <1>4 DEF OrderInv, QuestionIsStored, Stored, Question
<1>6. QED
  BY <1>1, <1>2, <1>5 DEF OrderInv, QuestionComesFirst, Question

\* A frame that is sent belongs to a question that is stored.
LEMMA OrderSend ==
  ASSUME IInv, FramesAreStored, NEW r \in Run, NEW f \in Frame, Send(r, f), UNCHANGED messages,
         f.kind \in {"content", "function"} => Stored(r)
  PROVE  FramesAreStored'
<1>1. ASSUME NEW o \in Run, NEW i \in DOMAIN wire'[o], wire'[o][i].kind \in {"content", "function"}
      PROVE  Stored(o)
  <2>1. CASE wire'[o] = wire[o]
    BY <1>1, <2>1 DEF FramesAreStored
  <2>2. CASE o = r /\ wire'[o] = Append(wire[o], f)
    <3>1. wire[o] \in Seq(Frame)
      BY DEF IInv, DataOK
    <3>2. (i \in DOMAIN wire[o] /\ wire'[o][i] = wire[o][i]) \/ wire'[o][i] = f
      BY <2>2, <3>1
    <3>3. QED
      BY <1>1, <2>2, <3>2 DEF FramesAreStored
  <2>3. QED
    BY <2>1, <2>2 DEF Send, IInv, DataOK
<1>2. QED
  BY <1>1 DEF FramesAreStored, Stored, Question

\* The service stores the question before it answers, and the answer after.
LEMMA OrderServer == ASSUME OrderInv, NEW r \in Run, ServerStep(r) PROVE OrderInv'
<1>0. IInv /\ IInv' /\ TypeOK /\ messages \in Seq(Row) /\ FramesAreStored
  BY ServerKeeps DEF OrderInv, IInv, DataOK, QuestionIsStored
<1>1. UNCHANGED <<received, blocks, current, saving>>
  BY DEF ServerStep, SaveQuestion, Refuse, SendContent, SendCall, SendResult, SaveAnswer, SendDone,
         Fail, Abandon, managerVars, storeVars
<1>2. CASE SaveQuestion(r)
  <2>1. Question(r) \in Row /\ messages' = Append(messages, Question(r))
    BY <1>2, RowsAreRows DEF SaveQuestion
  <2>2. \A o : Stored(o) => Stored(o)'
    BY <1>0, <2>1, QuestionStays
  <2>3. Stored(r)'
    <3>1. Len(messages) + 1 \in DOMAIN messages' /\ messages'[Len(messages) + 1] = Question(r)
      BY <1>0, <2>1
    <3>2. QED
      BY <3>1 DEF Stored, Question
  <2>4. \A o \in Run : o # r => server'[o] = server[o]
    BY <1>0, <1>2 DEF SaveQuestion, TypeOK
  <2>5. QuestionIsStored'
    BY <1>1, <1>2, <2>2, <2>3, <2>4 DEF SaveQuestion, OrderInv, QuestionIsStored, FramesAreStored
  <2>6. QuestionComesFirst'
    BY <1>0, <2>1, OrderStays DEF OrderInv, Question
  <2>7. QED
    BY <1>0, <2>5, <2>6 DEF OrderInv
<1>3. CASE SaveAnswer(r)
  <2>1. Answer(r, sent[r]) \in Row /\ messages' = Append(messages, Answer(r, sent[r]))
    BY <1>0, <1>3, RowsAreRows DEF SaveAnswer, TypeOK
  <2>2. \A o : Stored(o) => Stored(o)'
    BY <1>0, <2>1, QuestionStays
  <2>3. Stored(r)
    BY <1>3 DEF SaveAnswer, OrderInv, QuestionIsStored
  <2>4. \A o \in Run : o # r => server'[o] = server[o]
    BY <1>0, <1>3 DEF SaveAnswer, TypeOK
  <2>5. QuestionIsStored'
    BY <1>1, <1>3, <2>2, <2>3, <2>4 DEF SaveAnswer, OrderInv, QuestionIsStored, FramesAreStored
  <2>6. QuestionComesFirst'
    BY <1>0, <2>1, <2>3, OrderStays DEF OrderInv, Answer
  <2>7. QED
    BY <1>0, <2>5, <2>6 DEF OrderInv
<1>4. CASE ~SaveQuestion(r) /\ ~SaveAnswer(r)
  <2>1. UNCHANGED messages
    BY <1>4 DEF ServerStep, Refuse, SendContent, SendCall, SendResult, SendDone, Fail, Abandon,
                storeVars
  <2>2. FramesAreStored'
    <3> USE <1>0, <2>1
    <3>1. CASE SendContent(r)
      <4>1. PICK n \in 1..MaxData : Send(r, Content(n))
        BY <3>1 DEF SendContent
      <4>2. Content(n) \in Frame
        BY FramesAreFrames, ChatAssumption DEF ChatAssumption
      <4>3. Stored(r)
        BY <3>1 DEF SendContent, OrderInv, QuestionIsStored
      <4>4. QED
        BY <4>1, <4>2, <4>3, OrderSend
    <3>2. CASE SendCall(r)
      <4>1. PICK t \in Tool : Send(r, Call(t))
        BY <3>2 DEF SendCall
      <4>2. Stored(r)
        BY <3>2 DEF SendCall, OrderInv, QuestionIsStored
      <4>3. QED
        BY <4>1, <4>2, FramesAreFrames, OrderSend
    <3>3. CASE SendResult(r)
      <4> DEFINE f == Result(Last(called[r]), Len(called[r]))
      <4>1. called[r] \in Seq(Tool) /\ called[r] # <<>>
        BY <3>3 DEF SendResult, IInv, DataOK
      <4>2. f \in Frame
        <5>1. Last(called[r]) \in Tool /\ Len(called[r]) \in Nat
          BY <4>1 DEF Last
        <5>2. QED
          BY <5>1, FramesAreFrames
      <4>3. f.kind = "function_result"
        BY DEF Result
      <4>4. QED
        BY <3>3, <4>2, <4>3, OrderSend DEF SendResult
    <3>4. CASE SendDone(r)
      BY <3>4, FramesAreFrames, OrderSend DEF SendDone, Done
    <3>5. CASE Fail(r)
      BY <3>5, FramesAreFrames, OrderSend DEF Fail, Error
    <3>6. CASE Refuse(r) \/ Abandon(r)
      BY <3>6 DEF Refuse, Abandon, FramesAreStored, Stored, Question
    <3>7. QED
      BY <1>4, <3>1, <3>2, <3>3, <3>4, <3>5, <3>6 DEF ServerStep
  <2>3. server'[r] \in {"answering", "calling", "saved"} => server[r] \in {"answering", "calling", "saved"}
    BY <1>0, <1>4 DEF TypeOK, ServerStep, Refuse, SendContent, SendCall, SendResult, SendDone, Fail,
                      Abandon
  <2>4. \A o \in Run : o # r => server'[o] = server[o]
    BY <1>0, <1>4 DEF TypeOK, ServerStep, Refuse, SendContent, SendCall, SendResult, SendDone, Fail,
                      Abandon
  <2>5. \A o \in Run : server'[o] \in {"answering", "calling", "saved"} => Stored(o)
    BY <2>3, <2>4 DEF OrderInv, QuestionIsStored
  <2>6. QuestionIsStored'
    BY <1>1, <2>1, <2>2, <2>5 DEF OrderInv, QuestionIsStored, Stored, Question
  <2>7. QED
    BY <1>0, <2>1, <2>6 DEF OrderInv, QuestionComesFirst, Question
<1>5. QED
  BY <1>2, <1>3, <1>4

\* A partial answer that arrives has its question before it.
LEMMA OrderPartial == ASSUME OrderInv, SavePartial PROVE OrderInv'
<1>1. PICK p \in saving : /\ saving' = saving \ {p}
                          /\ messages' \in {Append(messages, p), messages}
  BY DEF SavePartial
<1>2. IInv' /\ p \in Row /\ Stored(p.run) /\ messages \in Seq(Row)
  BY SavePartialKeeps DEF OrderInv, IInv, DataOK, QuestionIsStored
<1>3. UNCHANGED <<received, blocks, current, server, wire>>
  BY DEF SavePartial, managerVars, serverVars
<1>4. CASE messages' = Append(messages, p)
  <2>1. \A o : Stored(o) => Stored(o)'
    BY <1>2, <1>4, QuestionStays
  <2>2. QuestionIsStored'
    BY <1>1, <1>3, <2>1 DEF OrderInv, QuestionIsStored, FramesAreStored
  <2>3. QED
    BY <1>2, <1>4, <2>2, OrderStays DEF OrderInv
<1>5. CASE messages' = messages
  BY <1>1, <1>2, <1>3, <1>5 DEF OrderInv, QuestionIsStored, FramesAreStored, Stored,
        QuestionComesFirst, Question
<1>6. QED
  BY <1>1, <1>4, <1>5

LEMMA OrderStep == OrderInv /\ [Next]_vars => OrderInv'
<1> SUFFICES ASSUME OrderInv, [Next]_vars PROVE OrderInv'
  OBVIOUS
<1>1. ASSUME NEW r \in Run,
             Start(r) \/ Unwind(r) \/ Receive(r) \/ ReceiveEnd(r) \/ Disconnect(r) \/ ServerStep(r)
      PROVE  OrderInv'
  BY <1>1, OrderStart, OrderReceive, OrderServer
<1>2. CASE HandleStop \/ DrainQueue \/ SavePartial
  BY <1>2, OrderStop, OrderDrain, OrderPartial
<1>3. CASE UNCHANGED vars
  <2>1. UNCHANGED <<messages, received, blocks, current, server, wire, saving>> /\ IInv'
    BY <1>3, InvStep DEF OrderInv, vars, managerVars, serverVars, storeVars
  <2>2. QED
    BY <2>1 DEF OrderInv, QuestionIsStored, FramesAreStored, Stored, QuestionComesFirst, Question
<1>4. QED
  BY <1>1, <1>2, <1>3 DEF Next

\* However stops, failures and late partial answers mix, no answer is in the
\* table before its question.
THEOREM OrderCorrect == Spec => []QuestionComesFirst
<1>1. OrderInv => QuestionComesFirst
  BY DEF OrderInv
<1>2. QED
  BY <1>1, OrderInit, OrderStep, PTL DEF Spec

-----------------------------------------------------------------------------
(* An answer that is shown as completed is the stored one. *)

LEMMA SizeIsNat == \A f \in Frame : Size(f) \in Nat
BY DEF Frame, Size

LEMMA EmptySeq ==
  ASSUME NEW S, NEW s \in Seq(S), Len(s) = 0
  PROVE  s = <<>>
OBVIOUS

LEMMA CountsEmpty ==
  ASSUME NEW a \in Nat, NEW b \in Nat
  PROVE  Counts(<<>>, a, b) <=> a = b
<1>1. ASSUME a = b PROVE Counts(<<>>, a, b)
  <2> DEFINE c == [i \in 0..0 |-> a]
  <2>1. c \in [0..Len(<<>>) -> 0..b] /\ c[0] = a
    BY <1>1
  <2> HIDE DEF c
  <2>2. QED
    BY <1>1, <2>1 DEF Counts
<1>2. QED
  BY <1>1 DEF Counts

\* A frame that is sent moves the far end of the count,
LEMMA CountsAppend ==
  ASSUME NEW w \in Seq(Frame), NEW f \in Frame, NEW a \in Nat, NEW b \in Nat, Counts(w, a, b)
  PROVE  Counts(Append(w, f), a, b + Size(f))
<1> DEFINE n == Len(w)
           to == b + Size(f)
<1>1. PICK c \in [0..n -> 0..b] :
            /\ c[0] = a /\ c[n] = b
            /\ \A i \in DOMAIN w : c[i] = c[i - 1] + Size(w[i])
  BY DEF Counts
<1>2. n \in Nat /\ Size(f) \in Nat /\ to \in Nat /\ DOMAIN w = 1..n
  BY SizeIsNat
<1> DEFINE d == [i \in 0..(n + 1) |-> IF i <= n THEN c[i] ELSE to]
<1>3. Len(Append(w, f)) = n + 1 /\ DOMAIN Append(w, f) = 1..(n + 1)
  BY <1>2
<1>4. d \in [0..(n + 1) -> 0..to]
  BY <1>1, <1>2
<1>5. d[0] = a /\ d[n + 1] = to
  BY <1>1, <1>2
<1>6. ASSUME NEW i \in 1..(n + 1) PROVE d[i] = d[i - 1] + Size(Append(w, f)[i])
  <2>1. CASE i = n + 1
    BY <1>1, <1>2, <2>1
  <2>2. CASE i # n + 1
    <3>1. i \in 1..n /\ i - 1 \in 0..n /\ Append(w, f)[i] = w[i]
      BY <1>2, <2>2
    <3>2. d[i] = c[i] /\ d[i - 1] = c[i - 1]
      BY <1>2, <3>1
    <3>3. QED
      BY <1>1, <1>2, <3>1, <3>2
  <2>3. QED
    BY <2>1, <2>2
<1> HIDE DEF d, to, n
<1>7. QED
  BY <1>3, <1>4, <1>5, <1>6 DEF Counts, to

\* one that is read its near end.
LEMMA CountsTail ==
  ASSUME NEW w \in Seq(Frame), w # <<>>, NEW a \in Nat, NEW b \in Nat, Counts(w, a, b)
  PROVE  Counts(Tail(w), a + Size(Head(w)), b)
<1> DEFINE n == Len(w)
<1>1. PICK c \in [0..n -> 0..b] :
            /\ c[0] = a /\ c[n] = b
            /\ \A i \in DOMAIN w : c[i] = c[i - 1] + Size(w[i])
  BY DEF Counts
<1>2. n \in Nat /\ n > 0 /\ DOMAIN w = 1..n /\ Head(w) = w[1]
  OBVIOUS
<1> DEFINE d == [i \in 0..(n - 1) |-> c[i + 1]]
<1>3. /\ Len(Tail(w)) = n - 1 /\ DOMAIN Tail(w) = 1..(n - 1)
      /\ \A i \in 1..(n - 1) : Tail(w)[i] = w[i + 1]
  BY <1>2
<1>4. d \in [0..(n - 1) -> 0..b] /\ d[n - 1] = b
  BY <1>1, <1>2
<1>5. d[0] = a + Size(Head(w))
  BY <1>1, <1>2
<1>6. ASSUME NEW i \in 1..(n - 1) PROVE d[i] = d[i - 1] + Size(Tail(w)[i])
  <2>1. d[i] = c[i + 1] /\ d[i - 1] = c[i] /\ i + 1 \in 1..n /\ (i + 1) - 1 = i
    BY <1>2
  <2>2. QED
    BY <1>1, <1>2, <1>3, <2>1
<1> HIDE DEF d, n
<1>7. QED
  BY <1>3, <1>4, <1>5, <1>6 DEF Counts

\* Rows are only added.
LEMMA RowStays ==
  ASSUME messages \in Seq(Row), NEW p \in Row, messages' = Append(messages, p), NEW m,
         Contains(messages, m)
  PROVE  Contains(messages', m)
BY DEF Contains

LEMMA RowIsAdded ==
  ASSUME messages \in Seq(Row), NEW p \in Row, messages' = Append(messages, p)
  PROVE  Contains(messages', p)
<1>1. Len(messages) + 1 \in 1..Len(messages') /\ messages'[Len(messages) + 1] = p
  OBVIOUS
<1>2. QED
  BY <1>1 DEF Contains

LEMMA StoreInit == Init => StoreInv
<1> SUFFICES ASSUME Init PROVE StoreInv
  OBVIOUS
<1>1. IInv
  BY InvInit
<1>2. FutureIsSilent /\ TextIsOnItsWay /\ SavedIsStored /\ DoneIsLast /\ EndIsStored
  BY DEF Init, FutureIsSilent, TextIsOnItsWay, SavedIsStored, DoneIsLast, EndIsStored
<1>3. QED
  BY <1>1, <1>2 DEF StoreInv

LEMMA StoreStart == ASSUME StoreInv, NEW r \in Run, Start(r) PROVE StoreInv'
<1> USE DEF StoreInv
<1>1. IInv' /\ r = current + 1 /\ current \in Nat /\ current' = r
  <2>1. IInv'
    BY StartKeeps
  <2>2. QED
    BY <2>1 DEF Start, IInv, TypeOK
<1>2. UNCHANGED <<wire, sent, received, messages>>
  BY DEF Start, storeVars
<1>3. \A o \in Run : o # r => server'[o] = server[o] /\ reader'[o] = reader[o]
  BY DEF Start, IInv, TypeOK
<1>4. FutureIsSilent'
  BY <1>1, <1>2, <1>3, RunIsPositive DEF FutureIsSilent
<1>5. TextIsOnItsWay'
  <2>1. wire[r] = <<>> /\ received[r] = 0 /\ sent[r] = 0
    BY <1>1 DEF FutureIsSilent, IInv, FutureRuns
  <2>2. Counts(wire[r], received[r], sent[r])
    BY <2>1, CountsEmpty
  <2>3. QED
    BY <1>2, <1>3, <2>2 DEF TextIsOnItsWay
<1>6. SavedIsStored'
  BY <1>2, <1>3 DEF Start, SavedIsStored, Answer, IInv, TypeOK
<1>7. DoneIsLast'
  <2>1. wire[r] = <<>>
    BY <1>1 DEF FutureIsSilent
  <2>2. QED
    BY <1>2, <1>3, <2>1 DEF DoneIsLast
<1>8. EndIsStored'
  BY DEF Start, EndIsStored
<1>9. QED
  BY <1>1, <1>4, <1>5, <1>6, <1>7, <1>8

\* An end that is not a completed one: what the service holds stays, and what
\* is not read any more need not arrive.
LEMMA StoreBreak ==
  ASSUME StoreInv, IInv', UNCHANGED <<server, sent, received, messages, current>>,
         ~donePending', status' # "completed",
         \A o \in Run : wire'[o] = wire[o] \/ (wire'[o] = <<>> /\ reader'[o] # "reading"),
         \A o \in Run : reader'[o] = "reading" => reader[o] = "reading"
  PROVE  StoreInv'
<1> USE DEF StoreInv
<1>1. FutureIsSilent'
  BY DEF FutureIsSilent
<1>2. TextIsOnItsWay'
  BY DEF TextIsOnItsWay
<1>3. SavedIsStored' /\ EndIsStored'
  BY DEF SavedIsStored, EndIsStored, Answer
<1>4. DoneIsLast'
  BY DEF DoneIsLast
<1>5. QED
  BY <1>1, <1>2, <1>3, <1>4

LEMMA StoreStop == ASSUME StoreInv, HandleStop PROVE StoreInv'
<1>1. IInv'
  BY StopKeeps DEF StoreInv
<1>2. UNCHANGED <<server, sent, received, messages, current>> /\ ~donePending' /\ status' # "completed"
  BY DEF HandleStop, EndNow
<1>3. controller = 0 \/ controller \in Run
  BY DEF StoreInv, IInv, TypeOK, Run
<1>4. /\ \A o \in Run : wire'[o] = wire[o] \/ (wire'[o] = <<>> /\ reader'[o] # "reading")
      /\ \A o \in Run : reader'[o] = "reading" => reader[o] = "reading"
  BY <1>3 DEF HandleStop, StoreInv, IInv, TypeOK, DataOK
<1>5. QED
  BY <1>1, <1>2, <1>4, StoreBreak

LEMMA StoreUnwind == ASSUME StoreInv, NEW r \in Run, Unwind(r) PROVE StoreInv'
<1>1. IInv'
  BY UnwindKeeps DEF StoreInv
<1>2. /\ UNCHANGED <<server, sent, received, messages, current, wire>>
      /\ ~donePending' /\ status' # "completed"
  BY DEF Unwind, EndNow, serverVars, storeVars
<1>3. \A o \in Run : reader'[o] = "reading" => reader[o] = "reading"
  BY DEF Unwind, StoreInv, IInv, TypeOK
<1>4. \A o \in Run : wire'[o] = wire[o]
  BY <1>2
<1>5. QED
  BY <1>1, <1>2, <1>3, <1>4, StoreBreak

\* The typewriter brings about an end that was stored when it was put off.
LEMMA StoreDrain == ASSUME StoreInv, DrainQueue PROVE StoreInv'
<1>1. IInv'
  BY DrainKeeps DEF StoreInv
<1>2. UNCHANGED <<server, sent, received, messages, current, wire, reader>>
  BY DEF DrainQueue, serverVars, storeVars
<1>3. donePending' \/ status' = "completed" => donePending \/ status = "completed"
  BY DEF DrainQueue
<1>4. EndIsStored'
  BY <1>2, <1>3 DEF StoreInv, EndIsStored, Answer
<1>5. QED
  BY <1>1, <1>2, <1>4 DEF StoreInv, FutureIsSilent, TextIsOnItsWay, SavedIsStored, DoneIsLast, Answer

-----------------------------------------------------------------------------
(* What arrives. *)

\* The first frame is gone; the end of the answer is the last there was.
LEMMA StoreReceive == ASSUME StoreInv, NEW r \in Run, Receive(r) PROVE StoreInv'
<1> DEFINE f == Head(wire[r])
<1> USE DEF StoreInv
<1>1. IInv'
  BY ReceiveKeeps
<1>2. /\ reader[r] = "reading" /\ wire[r] # <<>>
      /\ wire' = [wire EXCEPT ![r] = Tail(@)]
      /\ UNCHANGED <<current, server, sent, messages>>
  BY DEF Receive, storeVars
<1>3. /\ r = current /\ status = "streaming" /\ ~donePending
      /\ wire[r] \in Seq(Frame) /\ received[r] \in Nat /\ sent[r] \in Nat
  BY <1>2 DEF IInv, TypeOK, DataOK, ReadingRun
<1>4. /\ wire'[r] = Tail(wire[r])
      /\ \A o \in Run : o # r => wire'[o] = wire[o]
  BY <1>2 DEF IInv, DataOK
<1>5. f \in Frame /\ Len(wire[r]) \in Nat /\ Len(wire[r]) > 0 /\ f = wire[r][1]
  BY <1>2, <1>3
<1>6. FutureIsSilent' /\ SavedIsStored'
  BY <1>2, <1>3, <1>4 DEF FutureIsSilent, SavedIsStored, Answer
<1>7. DoneIsLast'
  <2>1. ASSUME NEW i \in DOMAIN Tail(wire[r]), Tail(wire[r])[i].kind = "done"
        PROVE  server[r] = "done" /\ i = Len(Tail(wire[r]))
    <3>1. i + 1 \in DOMAIN wire[r] /\ Tail(wire[r])[i] = wire[r][i + 1]
          /\ Len(Tail(wire[r])) = Len(wire[r]) - 1 /\ i \in Nat
      BY <1>2, <1>3
    <3>2. QED
      BY <1>5, <2>1, <3>1 DEF DoneIsLast
  <2>2. QED
    BY <1>2, <1>4, <2>1 DEF DoneIsLast
<1>8. TextIsOnItsWay'
  <2>1. Counts(Tail(wire[r]), received[r] + Size(f), sent[r])
    BY <1>2, <1>3, CountsTail DEF TextIsOnItsWay
  <2>2. reader'[r] = "reading" => received'[r] = received[r] + Size(f)
    BY <1>3, <1>5 DEF Receive, Size, Frame, IInv, TypeOK
  <2>3. \A o \in Run : o # r => received'[o] = received[o] /\ (reader'[o] = "reading" => reader[o] = "reading")
    BY DEF Receive, IInv, TypeOK
  <2>4. QED
    BY <1>2, <1>4, <2>1, <2>2, <2>3 DEF TextIsOnItsWay
<1>9. EndIsStored'
  <2>1. CASE f.kind = "done"
    <3>1. server[r] = "done" /\ Len(wire[r]) = 1
      <4>1. 1 \in DOMAIN wire[r] /\ wire[r][1].kind = "done"
        BY <1>3, <1>5, <2>1
      <4>2. QED
        BY <4>1 DEF DoneIsLast
    <3>2. Tail(wire[r]) = <<>> /\ Size(f) = 0
      <4>1. Len(Tail(wire[r])) = 0 /\ Tail(wire[r]) \in Seq(Frame)
        BY <1>2, <1>3, <3>1
      <4>2. Tail(wire[r]) = <<>>
        BY <4>1, EmptySeq
      <4>3. QED
        BY <2>1, <4>2 DEF Size
    <3>3. received[r] = sent[r]
      <4>1. Counts(<<>>, received[r] + 0, sent[r])
        BY <1>2, <1>3, <3>2, CountsTail DEF TextIsOnItsWay
      <4>2. QED
        BY <1>3, <4>1, CountsEmpty
    <3>4. UNCHANGED received
      BY <2>1 DEF Receive
    <3>5. QED
      BY <1>2, <1>3, <3>1, <3>3, <3>4 DEF EndIsStored, SavedIsStored, Answer
  <2>2. CASE f.kind # "done"
    <3>1. ~donePending' /\ status' # "completed"
      BY <1>3, <2>2 DEF Receive, EndNow
    <3>2. QED
      BY <3>1 DEF EndIsStored
  <2>3. QED
    BY <2>1, <2>2
<1>10. QED
  BY <1>1, <1>6, <1>7, <1>8, <1>9

\* A response that is not a stream is an answer of a service that refused.
LEMMA StoreReceiveEnd == ASSUME StoreInv, NEW r \in Run, ReceiveEnd(r) PROVE StoreInv'
<1> USE DEF StoreInv
<1>1. IInv' /\ r = current
  BY ReceiveEndKeeps DEF ReceiveEnd, IInv, ReadingRun
<1>2. UNCHANGED <<server, sent, received, messages, current, wire>>
  BY DEF ReceiveEnd, serverVars, storeVars
<1>3. \A o \in Run : reader'[o] = "reading" => reader[o] = "reading"
  BY DEF ReceiveEnd, IInv, TypeOK
<1>4. EndIsStored'
  BY <1>1, <1>2 DEF ReceiveEnd, EndIsStored
<1>5. QED
  BY <1>1, <1>2, <1>3, <1>4 DEF FutureIsSilent, TextIsOnItsWay, SavedIsStored, DoneIsLast, Answer

LEMMA StoreDisconnect == ASSUME StoreInv, NEW r \in Run, Disconnect(r) PROVE StoreInv'
<1>1. IInv'
  BY DisconnectKeeps DEF StoreInv
<1>2. UNCHANGED <<server, sent, received, messages, current>> /\ ~donePending' /\ status' # "completed"
  BY DEF Disconnect, EndNow, storeVars
<1>3. /\ \A o \in Run : wire'[o] = wire[o] \/ (wire'[o] = <<>> /\ reader'[o] # "reading")
      /\ \A o \in Run : reader'[o] = "reading" => reader[o] = "reading"
  BY DEF Disconnect, StoreInv, IInv, TypeOK, DataOK
<1>4. QED
  BY <1>1, <1>2, <1>3, StoreBreak

-----------------------------------------------------------------------------
(* What the service does. *)

\* The service neither answers for the manager nor for a run that is to come.
LEMMA StoreServed ==
  ASSUME StoreInv, NEW r \in Run, ServerStep(r)
  PROVE  /\ IInv' /\ UNCHANGED managerVars /\ r <= current
         /\ \A o \in Run : o # r => server'[o] = server[o] /\ sent'[o] = sent[o] /\ wire'[o] = wire[o]
<1> USE DEF StoreInv
<1>1. IInv'
  BY ServerKeeps
<1>2. UNCHANGED managerVars
  BY DEF ServerStep, SaveQuestion, Refuse, SendContent, SendCall, SendResult, SaveAnswer, SendDone,
         Fail, Abandon
<1>3. server[r] # "idle"
  BY DEF ServerStep, SaveQuestion, Refuse, SendContent, SendCall, SendResult, SaveAnswer, SendDone,
         Fail, Abandon
<1>4. r <= current
  BY <1>3, RunIsPositive DEF FutureIsSilent, IInv, TypeOK
<1>5. \A o \in Run : o # r => server'[o] = server[o] /\ sent'[o] = sent[o]
  BY DEF ServerStep, SaveQuestion, Refuse, SendContent, SendCall, SendResult, SaveAnswer, SendDone,
         Fail, Abandon, IInv, TypeOK
<1>6. \A o \in Run : o # r => wire'[o] = wire[o]
  BY DEF ServerStep, SaveQuestion, Refuse, SendContent, SendCall, SendResult, SaveAnswer, SendDone,
         Fail, Abandon, Send, IInv, DataOK
<1>7. QED
  BY <1>1, <1>2, <1>4, <1>5, <1>6

\* A step that sends the frame f adds its text to the count and, with [DONE],
\* closes the stream.
LEMMA StoreSend ==
  ASSUME StoreInv, NEW r \in Run, ServerStep(r), NEW f \in Frame, Send(r, f), UNCHANGED messages,
         server[r] \notin {"done", "refused"}, server'[r] # "saved",
         sent'[r] = sent[r] + Size(f),
         server'[r] = "done" => f = Done /\ server[r] = "saved",
         f.kind = "done" => server'[r] = "done"
  PROVE  StoreInv'
<1> USE DEF StoreInv
<1>1. /\ IInv' /\ UNCHANGED managerVars /\ r <= current
      /\ \A o \in Run : o # r => server'[o] = server[o] /\ sent'[o] = sent[o] /\ wire'[o] = wire[o]
  BY StoreServed
<1>2. UNCHANGED <<reader, received, current, donePending, status>>
  BY <1>1 DEF managerVars
<1>3. wire[r] \in Seq(Frame) /\ sent[r] \in Nat /\ received[r] \in Nat
  BY DEF IInv, TypeOK, DataOK
<1>4. (wire'[r] = wire[r] /\ reader[r] # "reading") \/ wire'[r] = Append(wire[r], f)
  BY DEF Send, IInv, DataOK
<1>5. FutureIsSilent'
  <2>1. \A o \in Run : o > current => o # r
    BY <1>1, RunIsPositive DEF IInv, TypeOK
  <2>2. QED
    BY <1>1, <1>2, <2>1 DEF FutureIsSilent
<1>6. TextIsOnItsWay'
  <2>1. reader[r] = "reading" => Counts(Append(wire[r], f), received[r], sent[r] + Size(f))
    BY <1>3, CountsAppend DEF TextIsOnItsWay
  <2>2. QED
    BY <1>1, <1>2, <1>4, <2>1 DEF TextIsOnItsWay
<1>7. SavedIsStored'
  <2>1. server'[r] = "done" => sent'[r] = sent[r]
    BY <1>3 DEF Done, Size
  <2>2. QED
    BY <1>1, <2>1 DEF SavedIsStored, Answer
<1>8. DoneIsLast'
  <2>1. \A i \in DOMAIN wire[r] : wire[r][i].kind # "done"
    BY DEF DoneIsLast
  <2>2. ASSUME NEW i \in DOMAIN wire'[r], wire'[r][i].kind = "done"
        PROVE  server'[r] = "done" /\ i = Len(wire'[r])
    <3>1. wire'[r] = Append(wire[r], f)
      BY <1>4, <2>1, <2>2
    <3>2. (i \in DOMAIN wire[r] /\ wire'[r][i] = wire[r][i]) \/ (i = Len(wire'[r]) /\ wire'[r][i] = f)
      BY <1>3, <2>2, <3>1
    <3>3. QED
      BY <2>1, <2>2, <3>2
  <2>3. QED
    BY <1>1, <2>2 DEF DoneIsLast
<1>9. EndIsStored'
  <2>1. server[current] # "refused" \/ server'[current] = "refused" \/ current \notin Run
    BY <1>1
  <2>2. (donePending \/ status = "completed") => current \in Run
    BY DEF IInv, TypeOK, Typewriter, StreamingRun, BeforeTheFirst, Run
  <2>3. QED
    BY <1>2, <2>1, <2>2 DEF EndIsStored, Answer
<1>10. QED
  BY <1>1, <1>5, <1>6, <1>7, <1>8, <1>9

\* A step that sends nothing and stores at most a row keeps what is stored.
LEMMA StoreQuiet ==
  ASSUME StoreInv, NEW r \in Run, ServerStep(r), UNCHANGED <<wire, sent>>,
         NEW p \in Row, messages' \in {messages, Append(messages, p)},
         server[r] \notin {"done", "refused"}, server'[r] # "done",
         server'[r] = "saved" => p = Answer(r, sent[r]) /\ messages' = Append(messages, p)
  PROVE  StoreInv'
<1> USE DEF StoreInv
<1>1. /\ IInv' /\ UNCHANGED managerVars /\ r <= current
      /\ \A o \in Run : o # r => server'[o] = server[o]
  BY StoreServed
<1>2. UNCHANGED <<reader, received, current, donePending, status>>
  BY <1>1 DEF managerVars
<1>3. messages \in Seq(Row)
  BY DEF IInv, DataOK
<1>4. \A m : Contains(messages, m) => Contains(messages', m)
  BY <1>3, RowStays
<1>5. FutureIsSilent'
  <2>1. \A o \in Run : o > current => o # r
    BY <1>1, RunIsPositive DEF IInv, TypeOK
  <2>2. QED
    BY <1>1, <1>2, <2>1 DEF FutureIsSilent
<1>6. TextIsOnItsWay'
  BY <1>2 DEF TextIsOnItsWay
<1>7. SavedIsStored'
  <2>1. server'[r] = "saved" => Contains(messages', Answer(r, sent[r]))
    BY <1>3, RowIsAdded
  <2>2. \A o \in Run : o # r /\ server'[o] \in {"saved", "done"} => Contains(messages', Answer(o, sent[o]))
    BY <1>1, <1>4 DEF SavedIsStored
  <2>3. QED
    BY <2>1, <2>2 DEF SavedIsStored, Answer
<1>8. DoneIsLast'
  BY <1>1 DEF DoneIsLast
<1>9. EndIsStored'
  <2>1. server[current] # "refused" \/ server'[current] = "refused" \/ current \notin Run
    BY <1>1
  <2>2. (donePending \/ status = "completed") => current \in Run
    BY DEF IInv, TypeOK, Typewriter, StreamingRun, BeforeTheFirst, Run
  <2>3. QED
    BY <1>2, <1>4, <2>1, <2>2 DEF EndIsStored, Answer
<1>10. QED
  BY <1>1, <1>5, <1>6, <1>7, <1>8, <1>9

LEMMA StoreServer == ASSUME StoreInv, NEW r \in Run, ServerStep(r) PROVE StoreInv'
<1>0. /\ TypeOK /\ DataOK /\ sent[r] \in Nat /\ called[r] \in Seq(Tool)
      /\ Question(r) \in Row /\ Answer(r, sent[r]) \in Row
  BY RowsAreRows DEF StoreInv, IInv, TypeOK, DataOK
<1> USE DEF TypeOK
<1>1. CASE SaveQuestion(r)
  BY <1>0, <1>1, StoreQuiet DEF SaveQuestion
<1>2. CASE SaveAnswer(r)
  BY <1>0, <1>2, StoreQuiet DEF SaveAnswer
<1>3. CASE Refuse(r) \/ Abandon(r)
  BY <1>0, <1>3, StoreQuiet DEF Refuse, Abandon, storeVars
<1>4. CASE SendContent(r)
  <2>1. PICK n \in 1..MaxData : Send(r, Content(n)) /\ sent' = [sent EXCEPT ![r] = @ + n]
    BY <1>4 DEF SendContent
  <2>2. Content(n) \in Frame /\ Content(n).kind # "done"
    BY FramesAreFrames, ChatAssumption DEF ChatAssumption, Content
  <2>3. sent'[r] = sent[r] + Size(Content(n))
    BY <1>0, <2>1 DEF Size, Content
  <2>4. QED
    BY <1>0, <1>4, <2>1, <2>2, <2>3, StoreSend DEF SendContent, storeVars
<1>5. CASE SendCall(r)
  <2>1. PICK t \in Tool : Send(r, Call(t))
    BY <1>5 DEF SendCall
  <2>2. Call(t) \in Frame /\ Call(t).kind # "done" /\ sent[r] + Size(Call(t)) = sent[r]
    BY <1>0, FramesAreFrames DEF Call, Size
  <2>3. QED
    BY <1>0, <1>5, <2>1, <2>2, StoreSend DEF SendCall, storeVars
<1>6. CASE SendResult(r)
  <2> DEFINE f == Result(Last(called[r]), Len(called[r]))
  <2>1. Last(called[r]) \in Tool /\ Len(called[r]) \in Nat
    BY <1>0, <1>6 DEF SendResult, DataOK, Last
  <2>2. f \in Frame /\ f.kind # "done" /\ sent[r] + Size(f) = sent[r]
    BY <1>0, <2>1, FramesAreFrames DEF Result, Size
  <2>3. QED
    BY <1>0, <1>6, <2>2, StoreSend DEF SendResult, storeVars
<1>7. CASE SendDone(r)
  <2>1. Done \in Frame /\ sent[r] + Size(Done) = sent[r]
    BY <1>0, FramesAreFrames DEF Done, Size
  <2>2. QED
    BY <1>0, <1>7, <2>1, StoreSend DEF SendDone, storeVars
<1>8. CASE Fail(r)
  <2>1. Error \in Frame /\ Error.kind # "done" /\ sent[r] + Size(Error) = sent[r]
    BY <1>0, FramesAreFrames DEF Error, Size
  <2>2. QED
    BY <1>0, <1>8, <2>1, StoreSend DEF Fail, storeVars
<1>9. QED
  BY <1>1, <1>2, <1>3, <1>4, <1>5, <1>6, <1>7, <1>8 DEF ServerStep

LEMMA StorePartial == ASSUME StoreInv, SavePartial PROVE StoreInv'
<1>1. PICK p \in saving : messages' \in {Append(messages, p), messages}
  BY DEF SavePartial
<1>2. IInv' /\ p \in Row /\ messages \in Seq(Row)
  BY SavePartialKeeps DEF StoreInv, IInv, DataOK
<1>3. UNCHANGED <<reader, received, current, donePending, status, server, wire, sent>>
  BY DEF SavePartial, managerVars, serverVars
<1>4. \A m : Contains(messages, m) => Contains(messages', m)
  BY <1>1, <1>2, RowStays
<1>5. SavedIsStored' /\ EndIsStored'
  BY <1>3, <1>4 DEF StoreInv, SavedIsStored, EndIsStored, Answer
<1>6. QED
  BY <1>2, <1>3, <1>5 DEF StoreInv, FutureIsSilent, TextIsOnItsWay, DoneIsLast

LEMMA StoreStep == StoreInv /\ [Next]_vars => StoreInv'
<1> SUFFICES ASSUME StoreInv, [Next]_vars PROVE StoreInv'
  OBVIOUS
<1>1. ASSUME NEW r \in Run, Start(r) \/ Unwind(r) PROVE StoreInv'
  BY <1>1, StoreStart, StoreUnwind
<1>2. ASSUME NEW r \in Run, Receive(r) \/ ReceiveEnd(r) \/ Disconnect(r) PROVE StoreInv'
  BY <1>2, StoreReceive, StoreReceiveEnd, StoreDisconnect
<1>3. ASSUME NEW r \in Run, ServerStep(r) PROVE StoreInv'
  BY <1>3, StoreServer
<1>4. CASE HandleStop \/ DrainQueue \/ SavePartial
  BY <1>4, StoreStop, StoreDrain, StorePartial
<1>5. CASE UNCHANGED vars
  <2>1. IInv' /\ UNCHANGED <<reader, received, current, donePending, status, server, wire, sent, messages>>
    BY <1>5, InvStep DEF StoreInv, vars, managerVars, serverVars, storeVars
  <2>2. QED
    BY <2>1 DEF StoreInv, FutureIsSilent, TextIsOnItsWay, SavedIsStored, DoneIsLast, EndIsStored, Answer
<1>6. QED
  BY <1>1, <1>2, <1>3, <1>4, <1>5 DEF Next

\* For any number of questions and any answers: an answer the manager calls
\* completed is in the table, character for character as it is on the screen,
\* unless the service had refused the question.
THEOREM CompletedCorrect == Spec => []CompletedIsStored
<1>1. StoreInv => CompletedIsStored
  <2> SUFFICES ASSUME StoreInv, status = "completed", server[current] # "refused"
               PROVE  Contains(messages, Answer(current, shown))
    BY DEF CompletedIsStored
  <2>1. queue = 0 /\ current # 0 /\ shown \in Nat
    BY DEF StoreInv, IInv, TypeOK, Typewriter, BeforeTheFirst
  <2>2. shown = received[current]
    BY <2>1 DEF StoreInv, IInv, NothingLost
  <2>3. QED
    BY <2>2 DEF StoreInv, EndIsStored
<1>2. QED
  BY <1>1, StoreInit, StoreStep, PTL DEF Spec

=============================================================================
