---------------------- MODULE OptimizationStreamProofs ----------------------
(* Theorems about OptimizationStream, for any number of runs, characters and *)
(* blocks.                                                                   *)
EXTENDS OptimizationStream, FiniteSetTheorems, SequenceTheorems, TLAPS

-----------------------------------------------------------------------------
(* The text: the screen and the queue.                                       *)

Whole(r, n) == [i \in 1..n |-> r]

\* What is typed leaves the queue and comes to the end of the screen.
LEMMA DrainedTextIsWhole ==
  ASSUME NEW s \in Seq(Run), NEW q \in Seq(Run), NEW b \in 1..Len(q)
  PROVE  /\ s \o SubSeq(q, 1, b) \in Seq(Run)
         /\ SubSeq(q, b + 1, Len(q)) \in Seq(Run)
         /\ (s \o SubSeq(q, 1, b)) \o SubSeq(q, b + 1, Len(q)) = s \o q
<1> DEFINE front == SubSeq(q, 1, b)
           rest  == SubSeq(q, b + 1, Len(q))
<1>1. Len(q) \in Nat /\ \A i \in 1..Len(q) : q[i] \in Run
  BY ElementOfSeq
<1>2. front \in Seq(Run)
  <2>1. \A i \in 1..b : q[i] \in Run
    BY <1>1
  <2>2. QED
    BY <1>1, <2>1, SubSeqProperties
<1>3. rest \in Seq(Run)
  <2>1. \A i \in (b + 1)..Len(q) : q[i] \in Run
    BY <1>1
  <2>2. b + 1 \in Int /\ Len(q) \in Int
    BY <1>1
  <2>3. QED
    BY <2>1, <2>2, SubSeqProperties
<1>4. front \o rest = q
  <2>1. 1 \in 1..(Len(q) + 1) /\ b \in (1 - 1)..Len(q) /\ Len(q) \in b..Len(q)
    BY <1>1
  <2>2. front \o rest = SubSeq(q, 1, Len(q))
    BY <2>1, ConcatAdjacentSubSeq
  <2>3. QED
    BY <2>2, SubSeqFull
<1> HIDE DEF front, rest
<1>5. (s \o front) \o rest = s \o (front \o rest)
  BY <1>2, <1>3, ConcatAssociative
<1>6. s \o front \in Seq(Run)
  BY <1>2, ConcatProperties
<1>7. QED
  BY <1>3, <1>4, <1>5, <1>6 DEF front, rest

\* A character that arrives makes the text one longer.
LEMMA TakenTextIsWhole ==
  ASSUME NEW s \in Seq(Run), NEW q \in Seq(Run), NEW r \in Run, NEW n \in Nat,
         s \o q = Whole(r, n)
  PROVE  s \o Append(q, r) = Whole(r, n + 1)
<1>1. Append(q, r) = q \o <<r>> /\ <<r>> \in Seq(Run)
  BY AppendIsConcat
<1>2. s \o Append(q, r) = (s \o q) \o <<r>>
  BY <1>1, ConcatAssociative
<1>3. Whole(r, n) \in Seq(Run) /\ Len(Whole(r, n)) = n
  BY IsASeq DEF Whole
<1>4. Append(Whole(r, n), r) = Whole(r, n) \o <<r>>
  BY <1>3, AppendIsConcat
<1>5. Append(Whole(r, n), r) = Whole(r, n + 1)
  BY <1>3 DEF Whole
<1>6. QED
  BY <1>2, <1>4, <1>5

-----------------------------------------------------------------------------
(* The runs.                                                                 *)

\* Abort leaves nobody alive, unless it tears a run; it makes and fails none.
LEMMA AbortEndsTheRun ==
  ASSUME IInv, Quiet, Abort(stage)
  PROVE  /\ stage' \in [Run -> Stage] /\ torn' \in BOOLEAN
         /\ \A r \in Run : stage'[r] # "idle" <=> stage[r] # "idle"
         /\ \A r \in Run : stage'[r] = "failed" <=> stage[r] = "failed"
         /\ \A r \in aborted' : r \in Run /\ stage[r] # "idle"
         /\ ~torn' => ~torn /\ \A r \in Run : ~Live(r)'
<1>1. stage' \in [Run -> Stage] /\ torn' \in BOOLEAN
  BY DEF IInv, TypeOK, Abort, Stage
<1>2. /\ \A r \in Run : stage'[r] # "idle" <=> stage[r] # "idle"
      /\ \A r \in Run : stage'[r] = "failed" <=> stage[r] = "failed"
  BY DEF IInv, TypeOK, Abort
<1>3. \A r \in aborted' : r \in Run /\ stage[r] # "idle"
  BY DEF IInv, TypeOK, RunsInOrder, Abort, Run
<1>4. ASSUME ~torn' PROVE ~torn /\ \A r \in Run : ~Live(r)'
  BY <1>4 DEF IInv, LiveIsCurrent, Abort, Live, Quiet
<1>5. QED
  BY <1>1, <1>2, <1>3, <1>4

\* What the numbers of the runs depend on.
LEMMA OrderKept ==
  ASSUME IInv, abortRef' \in {0, abortRef}, arrived' = arrived,
         \A r \in Run : stage'[r] # "idle" <=> stage[r] # "idle",
         \A r \in aborted' : r \in Run /\ stage[r] # "idle"
  PROVE  RunsInOrder'
<1>1. abortRef \in 0..MaxRun
  BY DEF IInv, TypeOK
<1>2. abortRef' # 0 => stage'[abortRef'] # "idle"
  BY <1>1, OptimizationAssumption DEF IInv, RunsInOrder, Run
<1>3. QED
  BY <1>2 DEF IInv, RunsInOrder

\* The whole text depends on nothing but these.
LEMMA AnswerKept ==
  ASSUME IInv, ~torn' => ~torn,
         current' \in {0, current}, arrived' = arrived,
         shown' \o queue' = shown \o queue,
         \A r \in Run : stage[r] = "failed" => stage'[r] = "failed"
  PROVE  AnswerIsWhole'
<1>1. current \in 0..MaxRun /\ stage' = stage'
  BY DEF IInv, TypeOK
<1>2. ASSUME ~torn', current' # 0, stage'[current'] # "failed"
      PROVE  shown' \o queue' = [i \in 1..arrived'[current'] |-> current']
  <2>1. current' = current /\ current \in Run
    BY <1>1, <1>2, OptimizationAssumption DEF Run
  <2>2. QED
    BY <1>2, <2>1 DEF IInv, AnswerIsWhole
<1>3. QED
  BY <1>2 DEF AnswerIsWhole

-----------------------------------------------------------------------------
LEMMA InvInit == Init => IInv
<1> SUFFICES ASSUME Init PROVE IInv
  OBVIOUS
<1>1. TypeOK
  <2>1. 0 \in 0..MaxRun /\ <<>> \in Seq(Run)
    BY OptimizationAssumption
  <2>2. stage \in [Run -> Stage] /\ arrived \in [Run -> Nat]
    BY DEF Init, Stage
  <2>3. QED
    BY <2>1, <2>2 DEF Init, TypeOK
<1>2. RunsInOrder
  <2>1. 0 \in 0..MaxRun /\ \A r \in Run : stage[r] # "idle" <=> r <= 0
    BY OptimizationAssumption DEF Init, Run
  <2>2. QED
    BY <2>1 DEF Init, RunsInOrder
<1>3. QED
  BY <1>1, <1>2 DEF Init, IInv, LiveIsCurrent, StreamingIsLive, QueueIsTyped, AnswerIsWhole, Live

-----------------------------------------------------------------------------
(* The modal.                                                                *)

LEMMA InvClear ==
  ASSUME IInv, OpenModal \/ CloseModal
  PROVE  IInv'
<1>0. Clear /\ Quiet /\ Abort(stage) /\ open' \in BOOLEAN
  BY DEF OpenModal, CloseModal, Clear
<1>1. /\ abortRef' = 0 /\ done' = FALSE /\ streaming' = FALSE /\ shown' = <<>>
      /\ current' = 0
      /\ UNCHANGED <<mounted, queue, typing, arrived>>
  BY <1>0 DEF Clear
<1>2. /\ stage' \in [Run -> Stage] /\ torn' \in BOOLEAN
      /\ \A r \in Run : stage'[r] # "idle" <=> stage[r] # "idle"
      /\ \A r \in aborted' : r \in Run /\ stage[r] # "idle"
      /\ ~torn' => ~torn /\ \A r \in Run : ~Live(r)'
  BY <1>0, AbortEndsTheRun
<1>3. TypeOK'
  <2>1. 0 \in 0..MaxRun /\ <<>> \in Seq(Run)
    BY OptimizationAssumption
  <2>2. QED
    BY <1>0, <1>1, <1>2, <2>1 DEF IInv, TypeOK
<1>4. RunsInOrder'
  BY <1>1, <1>2, OrderKept
<1>5. LiveIsCurrent'
  BY <1>2 DEF LiveIsCurrent
<1>6. StreamingIsLive' /\ QueueIsTyped' /\ AnswerIsWhole'
  BY <1>1 DEF IInv, StreamingIsLive, QueueIsTyped, AnswerIsWhole
<1>7. QED
  BY <1>3, <1>4, <1>5, <1>6 DEF IInv

\* A press of Generate takes the next number.
LEMMA GenerateTakesTheNext ==
  ASSUME IInv, NEW r \in Run, r = 1 + Cardinality({q \in Run : stage[q] # "idle"})
  PROVE  /\ stage[r] = "idle"
         /\ \A q \in Run : q <= r <=> (stage[q] # "idle" \/ q = r)
<1>1. PICK n \in 0..MaxRun : \A q \in Run : stage[q] # "idle" <=> q <= n
  BY DEF IInv, RunsInOrder
<1>2. {q \in Run : stage[q] # "idle"} = 1..n
  BY <1>1, OptimizationAssumption DEF Run
<1>3. Cardinality(1..n) = n
  <2>1. n \in Nat
    BY OptimizationAssumption
  <2>2. QED
    BY <2>1, FS_Interval
<1>4. r = n + 1
  <2>1. Cardinality({q \in Run : stage[q] # "idle"}) = n
    BY <1>2, <1>3, Zenon
  <2>2. QED
    BY <2>1
<1>5. QED
  BY <1>1, <1>4, OptimizationAssumption DEF Run

LEMMA InvGenerate ==
  ASSUME IInv, NEW r \in Run, Generate(r)
  PROVE  IInv'
<1>0. /\ Quiet /\ mounted /\ open /\ ~streaming
      /\ r = 1 + Cardinality({q \in Run : stage[q] # "idle"})
      /\ Abort([stage EXCEPT ![r] = "reading"])
      /\ abortRef' = r /\ current' = r /\ streaming' = TRUE
      /\ shown' = <<>> /\ queue' = <<>> /\ done' = FALSE /\ typing' = FALSE
      /\ UNCHANGED <<mounted, open, arrived>>
  BY DEF Generate
<1>1. stage[r] = "idle" /\ \A q \in Run : q <= r <=> (stage[q] # "idle" \/ q = r)
  BY <1>0, GenerateTakesTheNext
<1>2. abortRef # r /\ r \notin aborted /\ arrived[r] = 0
  BY <1>1, OptimizationAssumption DEF IInv, RunsInOrder, Run
<1>3. /\ stage' \in [Run -> Stage] /\ torn' \in BOOLEAN
      /\ stage'[r] = "reading"
      /\ \A q \in Run : q # r => (stage'[q] # "idle" <=> stage[q] # "idle")
  BY <1>0, <1>2 DEF IInv, TypeOK, Abort, Stage
<1>4. TypeOK'
  <2>1. r \in 0..MaxRun /\ <<>> \in Seq(Run)
    BY OptimizationAssumption DEF Run
  <2>2. QED
    BY <1>0, <1>3, <2>1 DEF IInv, TypeOK
<1>5. RunsInOrder'
  <2>1. r \in 0..MaxRun /\ \A q \in Run : stage'[q] # "idle" <=> q <= r
    BY <1>1, <1>3, OptimizationAssumption DEF Run
  <2>2. \A q \in aborted' : q \in Run /\ stage'[q] # "idle"
    <3>1. ASSUME NEW q \in aborted' PROVE q \in Run /\ stage[q] # "idle"
      BY <1>0, <3>1, OptimizationAssumption DEF Abort, IInv, TypeOK, RunsInOrder, Run
    <3>2. QED
      BY <1>3, <3>1
  <2>3. \A q \in Run : stage'[q] = "idle" => arrived'[q] = 0
    BY <1>0, <1>3 DEF IInv, RunsInOrder
  <2>4. QED
    BY <1>0, <1>3, <2>1, <2>2, <2>3 DEF RunsInOrder
<1>6. LiveIsCurrent'
  <2>1. ASSUME ~torn', NEW q \in Run, Live(q)' PROVE q = r
    <3>1. ~torn /\ ~Live(q)
      BY <1>0, <2>1 DEF IInv, LiveIsCurrent, Abort
    <3>2. q # r => stage'[q] \in {"ended", stage[q]}
      BY <1>0 DEF Abort, IInv, TypeOK
    <3>3. QED
      BY <2>1, <3>1, <3>2 DEF Live
  <2>2. r \notin aborted'
    BY <1>0, <1>2 DEF Abort
  <2>3. QED
    BY <1>0, <2>1, <2>2 DEF LiveIsCurrent
<1>7. StreamingIsLive'
  BY <1>0, <1>3, OptimizationAssumption DEF StreamingIsLive, Live, Run
<1>8. QueueIsTyped'
  BY <1>0 DEF QueueIsTyped
<1>9. AnswerIsWhole'
  <2>1. [i \in 1..arrived'[r] |-> r] = <<>>
    BY <1>0, <1>2
  <2>2. QED
    BY <1>0, <2>1 DEF AnswerIsWhole
<1>10. QED
  BY <1>4, <1>5, <1>6, <1>7, <1>8, <1>9 DEF IInv

LEMMA InvStop ==
  ASSUME IInv, Stop
  PROVE  IInv'
<1>0. Quiet /\ Abort(stage)
  BY DEF Stop
<1>1. /\ abortRef' = 0 /\ done' = FALSE /\ streaming' = FALSE /\ typing' = FALSE
      /\ shown' = shown \o queue /\ queue' = <<>>
      /\ UNCHANGED <<mounted, open, current, arrived>>
  BY DEF Stop
<1>2. /\ stage' \in [Run -> Stage] /\ torn' \in BOOLEAN
      /\ \A r \in Run : stage'[r] # "idle" <=> stage[r] # "idle"
      /\ \A r \in Run : stage'[r] = "failed" <=> stage[r] = "failed"
      /\ \A r \in aborted' : r \in Run /\ stage[r] # "idle"
      /\ ~torn' => ~torn /\ \A r \in Run : ~Live(r)'
  BY <1>0, AbortEndsTheRun
<1>3. shown \in Seq(Run) /\ queue \in Seq(Run) /\ shown \o queue \in Seq(Run)
  BY ConcatProperties DEF IInv, TypeOK
<1>4. TypeOK'
  <2>1. 0 \in 0..MaxRun /\ <<>> \in Seq(Run)
    BY OptimizationAssumption
  <2>2. QED
    BY <1>1, <1>2, <1>3, <2>1 DEF IInv, TypeOK
<1>5. RunsInOrder'
  BY <1>1, <1>2, OrderKept
<1>6. LiveIsCurrent'
  BY <1>2 DEF LiveIsCurrent
<1>7. StreamingIsLive' /\ QueueIsTyped'
  BY <1>1 DEF StreamingIsLive, QueueIsTyped
<1>8. AnswerIsWhole'
  <2>1. shown' \o queue' = shown \o queue
    BY <1>1, <1>3, ConcatEmptySeq
  <2>2. QED
    BY <1>1, <1>2, <2>1, AnswerKept
<1>9. QED
  BY <1>4, <1>5, <1>6, <1>7, <1>8 DEF IInv

LEMMA InvUnmount ==
  ASSUME IInv, Unmount
  PROVE  IInv'
<1>0. Quiet /\ Abort(stage)
  BY DEF Unmount
<1>1. /\ mounted' = FALSE /\ typing' = FALSE
      /\ UNCHANGED <<open, streaming, shown, queue, done, abortRef, current, arrived>>
  BY DEF Unmount
<1>2. /\ stage' \in [Run -> Stage] /\ torn' \in BOOLEAN
      /\ \A r \in Run : stage'[r] # "idle" <=> stage[r] # "idle"
      /\ \A r \in Run : stage'[r] = "failed" <=> stage[r] = "failed"
      /\ \A r \in aborted' : r \in Run /\ stage[r] # "idle"
      /\ ~torn' => ~torn /\ \A r \in Run : ~Live(r)'
  BY <1>0, AbortEndsTheRun
<1>3. TypeOK'
  BY <1>1, <1>2 DEF IInv, TypeOK
<1>4. RunsInOrder'
  BY <1>1, <1>2, OrderKept
<1>5. LiveIsCurrent'
  BY <1>2 DEF LiveIsCurrent
<1>6. StreamingIsLive' /\ QueueIsTyped'
  BY <1>1 DEF StreamingIsLive, QueueIsTyped
<1>7. AnswerIsWhole'
  BY <1>1, <1>2, AnswerKept
<1>8. QED
  BY <1>3, <1>4, <1>5, <1>6, <1>7 DEF IInv

LEMMA InvDrain ==
  ASSUME IInv, Drain
  PROVE  IInv'
<1>0. /\ typing /\ shown \in Seq(Run) /\ queue \in Seq(Run)
      /\ UNCHANGED <<mounted, open, abortRef, stage, aborted, current, arrived, torn>>
  BY DEF Drain, readVars, history, IInv, TypeOK
<1>1. CASE queue = <<>>
  <2>1. /\ typing' = FALSE /\ done' = FALSE /\ streaming' = (streaming /\ ~done)
        /\ UNCHANGED <<shown, queue>>
    BY <1>1 DEF Drain, Drained
  <2>2. streaming' \in BOOLEAN
    BY <2>1
  <2>3. TypeOK'
    BY <1>0, <2>1, <2>2 DEF IInv, TypeOK
  <2>4. RunsInOrder'
    BY <1>0 DEF IInv, RunsInOrder
  <2>5. LiveIsCurrent'
    BY <1>0, <2>1 DEF IInv, LiveIsCurrent, Live
  <2>6. StreamingIsLive'
    BY <1>0, <2>1 DEF IInv, StreamingIsLive, Live
  <2>7. QueueIsTyped'
    BY <1>1, <2>1 DEF QueueIsTyped
  <2>8. AnswerIsWhole'
    BY <1>0, <2>1 DEF IInv, AnswerIsWhole
  <2>9. QED
    BY <2>3, <2>4, <2>5, <2>6, <2>7, <2>8 DEF IInv
<1>2. CASE queue # <<>>
  <2> DEFINE batch == (Len(queue) + 7) \div 8
  <2>1. /\ shown' = shown \o SubSeq(queue, 1, batch)
        /\ queue' = SubSeq(queue, batch + 1, Len(queue))
        /\ UNCHANGED <<typing, done, streaming>>
    BY <1>2 DEF Drain
  <2>2. batch \in 1..Len(queue)
    <3>1. Len(queue) \in Nat \ {0}
      BY <1>0, <1>2, EmptySeq
    <3>2. QED
      BY <3>1
  <2> HIDE DEF batch
  <2>3. /\ shown' \in Seq(Run) /\ queue' \in Seq(Run)
        /\ shown' \o queue' = shown \o queue
    BY <1>0, <2>1, <2>2, DrainedTextIsWhole
  <2>4. TypeOK'
    BY <1>0, <2>1, <2>3 DEF IInv, TypeOK
  <2>5. RunsInOrder'
    BY <1>0 DEF IInv, RunsInOrder
  <2>6. LiveIsCurrent'
    BY <1>0, <2>1 DEF IInv, LiveIsCurrent, Live
  <2>7. StreamingIsLive'
    BY <1>0, <2>1 DEF IInv, StreamingIsLive, Live
  <2>8. QueueIsTyped'
    BY <1>0, <2>1 DEF QueueIsTyped
  <2>9. AnswerIsWhole'
    BY <1>0, <2>3, AnswerKept
  <2>10. QED
    BY <2>4, <2>5, <2>6, <2>7, <2>8, <2>9 DEF IInv
<1>3. QED
  BY <1>1, <1>2

-----------------------------------------------------------------------------
(* The reader and the service.                                               *)

\* Blocks and the service are nothing to the invariant.
LEMMA InvOthers ==
  ASSUME IInv,
         UNCHANGED <<mounted, open, streaming, shown, queue, typing, done, abortRef, stage,
                     aborted, current, arrived, torn>>
  PROVE  IInv'
<1>1. TypeOK' /\ RunsInOrder'
  BY DEF IInv, TypeOK, RunsInOrder
<1>2. LiveIsCurrent' /\ StreamingIsLive' /\ QueueIsTyped'
  BY DEF IInv, LiveIsCurrent, StreamingIsLive, QueueIsTyped, Live
<1>3. AnswerIsWhole'
  BY DEF IInv, AnswerIsWhole
<1>4. QED
  BY <1>1, <1>2, <1>3 DEF IInv

\* The reader goes from one place to another and nothing else happens.
LEMMA InvMove ==
  ASSUME IInv, NEW r \in Run, Live(r), NEW s \in Stage \ {"idle", "failed"},
         stage' = [stage EXCEPT ![r] = s],
         s = "ended" => torn,
         UNCHANGED <<mounted, open, streaming, shown, queue, typing, done, abortRef, aborted,
                     current, arrived, torn>>
  PROVE  IInv'
<1>0. stage \in [Run -> Stage]
  BY DEF IInv, TypeOK
<1>1. /\ stage' \in [Run -> Stage]
      /\ \A q \in Run : stage'[q] # "idle" <=> stage[q] # "idle"
      /\ \A q \in Run : stage[q] = "failed" => stage'[q] = "failed"
      /\ ~torn => \A q \in Run : Live(q)' <=> Live(q)
  BY <1>0 DEF Live, Stage
<1>2. UNCHANGED <<mounted, open, streaming, shown, queue, typing, done, abortRef, aborted,
                  current, arrived, torn>>
  OBVIOUS
<1>3. TypeOK'
  BY <1>1, <1>2 DEF IInv, TypeOK
<1>4. RunsInOrder'
  <2>1. \A q \in aborted' : q \in Run /\ stage[q] # "idle"
    BY <1>2 DEF IInv, RunsInOrder
  <2>2. QED
    BY <1>1, <1>2, <2>1, OrderKept
<1>5. LiveIsCurrent'
  BY <1>1, <1>2 DEF IInv, LiveIsCurrent
<1>6. StreamingIsLive'
  <2>1. current \in 0..MaxRun /\ MaxRun \in Nat
    BY OptimizationAssumption DEF IInv, TypeOK
  <2>2. ~torn /\ current # 0 =>
           (stage'[current] \in {"reading", "processing", "pausing"} <=> Live(current))
    BY <1>1, <2>1 DEF Run, Live
  <2>3. QED
    BY <1>2, <2>2 DEF IInv, StreamingIsLive, Live
<1>7. QueueIsTyped'
  BY <1>2 DEF IInv, QueueIsTyped
<1>8. AnswerIsWhole'
  BY <1>1, <1>2, AnswerKept
<1>9. QED
  BY <1>3, <1>4, <1>5, <1>6, <1>7, <1>8 DEF IInv

LEMMA InvReader ==
  ASSUME IInv, NEW r \in Run, Read(r) \/ Continue(r) \/ ReadOn(r)
  PROVE  IInv'
<1>1. CASE Read(r)
  <2>1. /\ Live(r) /\ stage' = [stage EXCEPT ![r] = "processing"]
        /\ UNCHANGED <<screenVars, typeVars, aborted, history>>
    BY <1>1 DEF Read, Live
  <2>2. "processing" \in Stage \ {"idle", "failed"}
    BY DEF Stage
  <2>3. QED
    BY <2>1, <2>2, InvMove DEF screenVars, typeVars, history
<1>2. CASE Continue(r)
  <2>1. /\ Live(r) /\ stage' = [stage EXCEPT ![r] = "processing"]
        /\ UNCHANGED <<screenVars, typeVars, aborted, history>>
    BY <1>2 DEF Continue, Live
  <2>2. "processing" \in Stage \ {"idle", "failed"}
    BY DEF Stage
  <2>3. QED
    BY <2>1, <2>2, InvMove DEF screenVars, typeVars, history
<1>3. CASE ReadOn(r)
  <2> DEFINE s == IF r \in aborted THEN "ended" ELSE "reading"
  <2>1. Live(r)
    BY <1>3 DEF ReadOn, Live
  <2>2. s \in Stage \ {"idle", "failed"} /\ (s = "ended" => torn)
    BY <2>1 DEF Stage, IInv, LiveIsCurrent
  <2>3. /\ stage' = [stage EXCEPT ![r] = s]
        /\ UNCHANGED <<screenVars, typeVars, aborted, history>>
    BY <1>3 DEF ReadOn
  <2> HIDE DEF s
  <2>4. QED
    BY <2>1, <2>2, <2>3, InvMove DEF screenVars, typeVars, history
<1>4. QED
  BY <1>1, <1>2, <1>3

\* A run that is failed, or done, is the current one or was torn.
LEMMA InvFail ==
  ASSUME IInv, NEW r \in Run, Fail(r)
  PROVE  IInv'
<1>0. /\ stage[r] = "reading" /\ Live(r) /\ stage' = [stage EXCEPT ![r] = "failed"]
      /\ typing' = FALSE /\ queue' = <<>> /\ done' = FALSE /\ streaming' = FALSE
      /\ abortRef' = 0
      /\ UNCHANGED <<mounted, open, shown, aborted, current, arrived, torn>>
  BY DEF Fail, history, Live
<1>1. /\ stage \in [Run -> Stage] /\ stage' \in [Run -> Stage]
      /\ \A q \in Run : stage'[q] # "idle" <=> stage[q] # "idle"
  BY <1>0 DEF IInv, TypeOK, Stage
<1>2. ~torn => current = r /\ \A q \in Run : q # r => ~Live(q)
  BY <1>0 DEF IInv, LiveIsCurrent
<1>3. TypeOK'
  <2>1. 0 \in 0..MaxRun /\ <<>> \in Seq(Run)
    BY OptimizationAssumption
  <2>2. QED
    BY <1>0, <1>1, <2>1 DEF IInv, TypeOK
<1>4. RunsInOrder'
  <2>1. \A q \in aborted' : q \in Run /\ stage[q] # "idle"
    BY <1>0 DEF IInv, RunsInOrder
  <2>2. QED
    BY <1>0, <1>1, <2>1, OrderKept
<1>5. LiveIsCurrent'
  BY <1>0, <1>1, <1>2 DEF LiveIsCurrent, Live
<1>6. StreamingIsLive' /\ QueueIsTyped'
  BY <1>0 DEF StreamingIsLive, QueueIsTyped
<1>7. AnswerIsWhole'
  BY <1>0, <1>1, <1>2 DEF AnswerIsWhole
<1>8. QED
  BY <1>3, <1>4, <1>5, <1>6, <1>7 DEF IInv

LEMMA InvTakeText ==
  ASSUME IInv, NEW r \in Run, Live(r), TakeText(r),
         UNCHANGED <<mounted, open, shown, aborted, current, torn>>
  PROVE  IInv'
<1>0. /\ queue' = Append(queue, r) /\ typing' = TRUE
      /\ arrived' = [arrived EXCEPT ![r] = @ + 1]
      /\ stage' = [stage EXCEPT ![r] = "pausing"]
      /\ UNCHANGED <<streaming, done, abortRef>>
  BY DEF TakeText
<1>1. /\ stage \in [Run -> Stage] /\ stage' \in [Run -> Stage]
      /\ \A q \in Run : stage'[q] # "idle" <=> stage[q] # "idle"
      /\ \A q \in Run : stage'[q] \in {"reading", "processing", "pausing"} <=> Live(q)
      /\ arrived' \in [Run -> Nat] /\ queue' \in Seq(Run)
  BY <1>0 DEF IInv, TypeOK, Stage, Live
<1>2. current \in 0..MaxRun /\ MaxRun \in Nat /\ r \in Run
  BY OptimizationAssumption DEF IInv, TypeOK
<1>3. TypeOK'
  BY <1>0, <1>1 DEF IInv, TypeOK
<1>4. RunsInOrder'
  <2>1. abortRef' # 0 => stage'[abortRef'] # "idle"
    BY <1>0, <1>1, OptimizationAssumption DEF IInv, TypeOK, RunsInOrder, Run
  <2>2. \A q \in Run : stage'[q] = "idle" => arrived'[q] = 0
    BY <1>0, <1>1 DEF IInv, TypeOK, RunsInOrder, Live
  <2>3. QED
    BY <1>0, <1>1, <2>1, <2>2 DEF IInv, RunsInOrder
<1>5. LiveIsCurrent'
  BY <1>0, <1>1 DEF IInv, LiveIsCurrent, Live
<1>6. StreamingIsLive'
  <2>1. current # 0 => (stage'[current] \in {"reading", "processing", "pausing"} <=> Live(current))
    BY <1>1, <1>2 DEF Run
  <2>2. QED
    BY <1>0, <2>1 DEF IInv, StreamingIsLive, Live
<1>7. QueueIsTyped'
  BY <1>0 DEF QueueIsTyped
<1>8. AnswerIsWhole'
  <2>1. ASSUME ~torn
        PROVE  /\ current = r /\ current # 0 /\ stage[r] # "failed"
               /\ shown \o queue = Whole(r, arrived[r])
    BY <1>2, <2>1 DEF IInv, LiveIsCurrent, AnswerIsWhole, Whole, Live, Run
  <2>2. ~torn => shown \o Append(queue, r) = Whole(r, arrived[r] + 1)
    BY <2>1, TakenTextIsWhole DEF IInv, TypeOK
  <2>3. arrived'[r] = arrived[r] + 1
    BY <1>0 DEF IInv, TypeOK
  <2>4. QED
    BY <1>0, <2>1, <2>2, <2>3 DEF AnswerIsWhole, Whole
<1>9. QED
  BY <1>3, <1>4, <1>5, <1>6, <1>7, <1>8 DEF IInv

LEMMA InvTakeDone ==
  ASSUME IInv, NEW r \in Run, Live(r), TakeDone(r),
         UNCHANGED <<mounted, open, shown, aborted, current, torn>>
  PROVE  IInv'
<1>0. /\ abortRef' = 0 /\ stage' = [stage EXCEPT ![r] = "ended"]
      /\ UNCHANGED <<queue, arrived>>
  BY DEF TakeDone
<1>1. \/ queue = <<>> /\ typing' = FALSE /\ done' = FALSE /\ streaming' = FALSE
      \/ queue # <<>> /\ done' = TRUE /\ UNCHANGED <<typing, streaming>>
  BY DEF TakeDone, Drained, IInv, TypeOK
<1>2. /\ stage \in [Run -> Stage] /\ stage' \in [Run -> Stage]
      /\ \A q \in Run : stage'[q] # "idle" <=> stage[q] # "idle"
      /\ \A q \in Run : stage[q] = "failed" => stage'[q] = "failed"
  BY <1>0 DEF IInv, TypeOK, Stage, Live
<1>3. ~torn => mounted /\ \A q \in Run : stage'[q] \notin {"reading", "processing", "pausing"}
  BY <1>0, <1>2 DEF IInv, LiveIsCurrent, Live
<1>4. TypeOK'
  <2>1. typing \in BOOLEAN /\ done \in BOOLEAN /\ streaming \in BOOLEAN
    BY DEF IInv, TypeOK
  <2>2. typing' \in BOOLEAN /\ done' \in BOOLEAN /\ streaming' \in BOOLEAN
    BY <1>1, <2>1, Zenon
  <2>3. 0 \in 0..MaxRun
    BY OptimizationAssumption
  <2>4. QED
    BY <1>0, <1>2, <2>2, <2>3 DEF IInv, TypeOK
<1>5. RunsInOrder'
  <2>1. \A q \in aborted' : q \in Run /\ stage[q] # "idle"
    BY DEF IInv, RunsInOrder
  <2>2. QED
    BY <1>0, <1>2, <2>1, OrderKept
<1>6. LiveIsCurrent'
  BY <1>3 DEF LiveIsCurrent, Live
<1>7. StreamingIsLive'
  BY <1>0, <1>1, <1>3 DEF IInv, QueueIsTyped, StreamingIsLive
<1>8. QueueIsTyped'
  BY <1>0, <1>1 DEF IInv, QueueIsTyped
<1>9. AnswerIsWhole'
  BY <1>0, <1>2, AnswerKept
<1>10. QED
  BY <1>4, <1>5, <1>6, <1>7, <1>8, <1>9 DEF IInv

LEMMA InvBlock ==
  ASSUME IInv, NEW r \in Run, ProcessBlock(r)
  PROVE  IInv'
<1>0. Live(r) /\ UNCHANGED <<mounted, open, shown, aborted, current, torn>>
  BY DEF ProcessBlock, Live
<1>1. CASE TakeText(r)
  BY <1>0, <1>1, InvTakeText
<1>2. CASE TakeMeta(r)
  <2>1. /\ stage' = [stage EXCEPT ![r] = "pausing"]
        /\ UNCHANGED <<streaming, queue, typing, done, abortRef, arrived>>
    BY <1>2 DEF TakeMeta
  <2>2. "pausing" \in Stage \ {"idle", "failed"}
    BY DEF Stage
  <2>3. QED
    BY <1>0, <2>1, <2>2, InvMove
<1>3. CASE TakeError
  <2>1. UNCHANGED <<mounted, open, streaming, shown, queue, typing, done, abortRef, stage,
                    aborted, current, arrived, torn>>
    BY <1>0, <1>3 DEF TakeError
  <2>2. QED
    BY <2>1, InvOthers
<1>4. CASE TakeDone(r)
  BY <1>0, <1>4, InvTakeDone
<1>5. QED
  BY <1>1, <1>2, <1>3, <1>4 DEF ProcessBlock

LEMMA InvStep == IInv /\ [Next]_vars => IInv'
<1> SUFFICES ASSUME IInv, [Next]_vars PROVE IInv'
  OBVIOUS
<1>1. CASE OpenModal \/ CloseModal
  BY <1>1, InvClear
<1>2. CASE Stop
  BY <1>2, InvStop
<1>3. CASE Unmount
  BY <1>3, InvUnmount
<1>4. CASE Drain
  BY <1>4, InvDrain
<1>5. ASSUME NEW r \in Run, Generate(r) PROVE IInv'
  BY <1>5, InvGenerate
<1>6. ASSUME NEW r \in Run, ReaderStep(r) PROVE IInv'
  BY <1>6, InvReader, InvBlock, InvFail DEF ReaderStep
<1>7. ASSUME NEW r \in Run, WriteAnswer(r) \/ WriteEnd(r) \/ Lose(r) PROVE IInv'
  <2>1. UNCHANGED <<screenVars, typeVars, stage, aborted, history>>
    BY <1>7 DEF WriteAnswer, WriteEnd, Write, Lose, readVars
  <2>2. QED
    BY <2>1, InvOthers DEF screenVars, typeVars, history
<1>8. CASE UNCHANGED vars
  BY <1>8, InvOthers DEF vars, screenVars, typeVars, readVars, history
<1>9. QED
  BY <1>1, <1>2, <1>3, <1>4, <1>5, <1>6, <1>7, <1>8 DEF Next

-----------------------------------------------------------------------------
(* The theorems. *)

\* The inductive invariant.
THEOREM Invariance == Spec => []IInv
BY InvInit, InvStep, PTL DEF Spec

\* The state keeps its type, torn or not.
THEOREM TypeCorrect == Spec => []TypeOK
<1>1. IInv => TypeOK
  BY DEF IInv
<1>2. QED
  BY <1>1, Invariance, PTL

\* Until a run is torn, the text on the screen and in the queue is the answer
\* so far, in order and unmixed, for answers of any length.
THEOREM AnswerCorrect == Spec => []AnswerIsWhole
<1>1. IInv => AnswerIsWhole
  BY DEF IInv
<1>2. QED
  BY <1>1, Invariance, PTL

\* Until a run is torn, whoever is alive is the one Stop reaches.
THEOREM StopCorrect == Spec => []StopReachesTheRun
<1>1. IInv => StopReachesTheRun
  BY DEF IInv, LiveIsCurrent, StopReachesTheRun
<1>2. QED
  BY <1>1, Invariance, PTL

\* Until a run is torn, the modal says that it generates only while a run is
\* alive or its last characters are typed.
THEOREM StreamingCorrect == Spec => []StreamingHasAnEnd
<1>1. IInv => StreamingHasAnEnd
  BY DEF IInv, StreamingIsLive, StreamingHasAnEnd
<1>2. QED
  BY <1>1, Invariance, PTL

\* Characters that wait are being typed, torn or not.
THEOREM QueueCorrect == Spec => []QueueIsTyped
<1>1. IInv => QueueIsTyped
  BY DEF IInv
<1>2. QED
  BY <1>1, Invariance, PTL

-----------------------------------------------------------------------------
(* An answer that ends without an error is complete.                         *)

LEMMA Remaining ==
  ASSUME NEW k \in Nat, NEW n \in 1..k
  PROVE  /\ (IF n + 1 <= k THEN k - (n + 1) + 1 ELSE 0) = k - n
         /\ k - (n + 1) + 1 = k - n
         /\ \A i \in 1..(k - n) : (n + 1) + i - 1 = n + i
OBVIOUS

\* A chunk and what is left of the wire.
LEMMA ChunkOfWire ==
  ASSUME NEW w \in Seq(Block), NEW n \in 1..Len(w)
  PROVE  /\ SubSeq(w, 1, n) \in Seq(Block) /\ SubSeq(w, n + 1, Len(w)) \in Seq(Block)
         /\ Len(w) \in Nat /\ DOMAIN w = 1..Len(w)
         /\ Len(SubSeq(w, 1, n)) = n /\ DOMAIN SubSeq(w, 1, n) = 1..n
         /\ Len(SubSeq(w, n + 1, Len(w))) = Len(w) - n
         /\ DOMAIN SubSeq(w, n + 1, Len(w)) = 1..(Len(w) - n)
         /\ \A i \in 1..n : SubSeq(w, 1, n)[i] = w[i]
         /\ \A i \in 1..(Len(w) - n) : SubSeq(w, n + 1, Len(w))[i] = w[n + i]
<1>1. Len(w) \in Nat /\ DOMAIN w = 1..Len(w) /\ \A i \in 1..Len(w) : w[i] \in Block
  BY ElementOfSeq
<1>2. /\ SubSeq(w, 1, n) \in Seq(Block) /\ Len(SubSeq(w, 1, n)) = n
      /\ \A i \in 1..n : SubSeq(w, 1, n)[i] = w[i]
  <2>1. \A i \in 1..n : w[i] \in Block
    BY <1>1
  <2>2. n \in Int /\ 1 \in Int /\ 1 <= n
    BY <1>1
  <2>3. /\ SubSeq(w, 1, n) \in Seq(Block)
        /\ Len(SubSeq(w, 1, n)) = IF 1 <= n THEN n - 1 + 1 ELSE 0
        /\ \A i \in 1..(n - 1 + 1) : SubSeq(w, 1, n)[i] = w[1 + i - 1]
    BY <2>1, <2>2, SubSeqProperties
  <2>4. QED
    BY <2>2, <2>3
<1>3. /\ SubSeq(w, n + 1, Len(w)) \in Seq(Block) /\ Len(SubSeq(w, n + 1, Len(w))) = Len(w) - n
      /\ \A i \in 1..(Len(w) - n) : SubSeq(w, n + 1, Len(w))[i] = w[n + i]
  <2>1. \A i \in (n + 1)..Len(w) : w[i] \in Block
    BY <1>1
  <2>2. n + 1 \in Int /\ Len(w) \in Int /\ n <= Len(w)
    BY <1>1
  <2>3. /\ SubSeq(w, n + 1, Len(w)) \in Seq(Block)
        /\ Len(SubSeq(w, n + 1, Len(w))) = IF n + 1 <= Len(w) THEN Len(w) - (n + 1) + 1 ELSE 0
        /\ \A i \in 1..(Len(w) - (n + 1) + 1) : SubSeq(w, n + 1, Len(w))[i] = w[(n + 1) + i - 1]
    BY <2>1, <2>2, SubSeqProperties
  <2>4. /\ (IF n + 1 <= Len(w) THEN Len(w) - (n + 1) + 1 ELSE 0) = Len(w) - n
        /\ Len(w) - (n + 1) + 1 = Len(w) - n
        /\ \A i \in 1..(Len(w) - n) : (n + 1) + i - 1 = n + i
    BY <1>1, Remaining
  <2>5. ASSUME NEW i \in 1..(Len(w) - n)
        PROVE  SubSeq(w, n + 1, Len(w))[i] = w[n + i]
    <3>1. i \in 1..(Len(w) - (n + 1) + 1) /\ (n + 1) + i - 1 = n + i
      BY <2>4
    <3>2. SubSeq(w, n + 1, Len(w))[i] = w[(n + 1) + i - 1]
      BY <2>3, <3>1
    <3>3. QED
      BY <3>1, <3>2
  <2>6. Len(SubSeq(w, n + 1, Len(w))) = Len(w) - n
    BY <2>3, <2>4
  <2>7. QED
    BY <2>3, <2>5, <2>6
<1>4. /\ DOMAIN SubSeq(w, 1, n) = 1..Len(SubSeq(w, 1, n))
      /\ DOMAIN SubSeq(w, n + 1, Len(w)) = 1..Len(SubSeq(w, n + 1, Len(w)))
  BY <1>2, <1>3, LenProperties
<1>5. QED
  BY <1>1, <1>2, <1>3, <1>4

LEMMA CompleteInit == Init => CompleteInv
<1> SUFFICES ASSUME Init PROVE CompleteInv
  OBVIOUS
<1>1. IInv
  BY InvInit
<1>2. NetOK
  BY DEF Init, NetOK, ServerState
<1>3. NothingUnread /\ DoneIsLast /\ ErrorIsKept /\ EndIsSound /\ NoErrorMeansComplete
  BY DEF Init, NothingUnread, DoneIsLast, ErrorIsKept, EndIsSound, NoErrorMeansComplete
<1>4. QED
  BY <1>1, <1>2, <1>3 DEF CompleteInv

\* The blocks and the service are all the same after an abort, but for the
\* blocks that will not arrive.
LEMMA CompleteAbort ==
  ASSUME CompleteInv, Quiet, Abort(stage), UNCHANGED <<buffer, server>>
  PROVE  NetOK' /\ NothingUnread' /\ DoneIsLast' /\ ErrorIsKept'
<1> USE DEF CompleteInv
<1>1. /\ \A r \in Run : stage'[r] # "idle" <=> stage[r] # "idle"
      /\ ~torn' => \A r \in Run : ~Live(r)'
  BY AbortEndsTheRun
<1>2. /\ \A r \in Run : stage'[r] = "reading" => stage[r] = "reading"
      /\ \A r \in Run : wire'[r] \in {wire[r], <<>>}
      /\ wire' \in [Run -> Seq(Block)]
  BY DEF Abort, IInv, TypeOK, NetOK
<1>3. NetOK'
  BY <1>2 DEF NetOK
<1>4. NothingUnread'
  BY <1>1, <1>2 DEF NothingUnread
<1>5. DoneIsLast'
  <2>1. ASSUME NEW r \in Run, NEW i \in DOMAIN wire'[r], wire'[r][i] = "done"
        PROVE  i = Len(wire'[r]) /\ server[r] \in {"done", "failed"}
    <3>1. wire'[r] = wire[r]
      BY <1>2, <2>1
    <3>2. QED
      BY <2>1, <3>1 DEF DoneIsLast
  <2>2. QED
    BY <1>2, <2>1 DEF DoneIsLast
<1>6. ErrorIsKept'
  BY <1>1 DEF ErrorIsKept
<1>7. QED
  BY <1>3, <1>4, <1>5, <1>6

LEMMA CompleteModal ==
  ASSUME CompleteInv, OpenModal \/ CloseModal
  PROVE  CompleteInv'
<1>1. IInv'
  BY InvClear DEF CompleteInv
<1>2. Quiet /\ Abort(stage) /\ UNCHANGED <<buffer, server>> /\ current' = 0
  BY DEF OpenModal, CloseModal, Clear
<1>3. NetOK' /\ NothingUnread' /\ DoneIsLast' /\ ErrorIsKept'
  BY <1>2, CompleteAbort
<1>4. EndIsSound' /\ NoErrorMeansComplete'
  BY <1>2 DEF EndIsSound, NoErrorMeansComplete
<1>5. QED
  BY <1>1, <1>3, <1>4 DEF CompleteInv

\* Stop aborts the run it finds; if it finds none, the answer is there and was
\* waiting for the typewriter only.
LEMMA CompleteStop ==
  ASSUME CompleteInv, Stop
  PROVE  CompleteInv'
<1> USE DEF CompleteInv
<1>1. IInv'
  BY InvStop
<1>2. Quiet /\ Abort(stage) /\ UNCHANGED <<buffer, server>>
  BY DEF Stop
<1>3. NetOK' /\ NothingUnread' /\ DoneIsLast' /\ ErrorIsKept'
  BY <1>2, CompleteAbort
<1>4. EndIsSound'
  BY DEF Stop, EndIsSound
<1>5. NoErrorMeansComplete'
  <2> SUFFICES ASSUME ~torn', current' # 0, ~failed', current' \notin aborted'
               PROVE  server'[current'] = "done" /\ queue' = <<>>
    BY DEF NoErrorMeansComplete
  <2>1. /\ mounted /\ streaming /\ ~torn /\ ~failed /\ current # 0
        /\ UNCHANGED <<current, server>> /\ queue' = <<>>
        /\ aborted' = aborted \cup ({abortRef} \ {0})
    BY <1>2, AbortEndsTheRun DEF Stop, Abort
  <2>2. current \in Run
    BY <2>1, OptimizationAssumption DEF IInv, TypeOK, Run
  <2>3. ~Live(current)
    BY <2>1, <2>2, OptimizationAssumption DEF IInv, LiveIsCurrent
  <2>4. done
    BY <2>1, <2>3 DEF IInv, StreamingIsLive
  <2>5. QED
    BY <2>1, <2>4 DEF EndIsSound
<1>6. QED
  BY <1>1, <1>3, <1>4, <1>5

LEMMA CompleteUnmount ==
  ASSUME CompleteInv, Unmount
  PROVE  CompleteInv'
<1> USE DEF CompleteInv
<1>1. IInv'
  BY InvUnmount
<1>2. /\ Quiet /\ Abort(stage)
      /\ UNCHANGED <<streaming, failed, queue, done, buffer, server, current>>
  BY DEF Unmount
<1>3. NetOK' /\ NothingUnread' /\ DoneIsLast' /\ ErrorIsKept'
  BY <1>2, CompleteAbort
<1>4. (torn => torn') /\ aborted \subseteq aborted'
  BY <1>2 DEF Abort
<1>5. EndIsSound' /\ NoErrorMeansComplete'
  BY <1>2, <1>4 DEF EndIsSound, NoErrorMeansComplete
<1>6. QED
  BY <1>1, <1>3, <1>5

LEMMA CompleteGenerate ==
  ASSUME CompleteInv, NEW r \in Run, Generate(r)
  PROVE  CompleteInv'
<1> USE DEF CompleteInv
<1>0. /\ Quiet /\ r = 1 + Cardinality({q \in Run : stage[q] # "idle"})
      /\ Abort([stage EXCEPT ![r] = "reading"])
      /\ streaming' = TRUE /\ done' = FALSE
      /\ server' = [server EXCEPT ![r] = "answering"]
      /\ UNCHANGED buffer
  BY DEF Generate
<1>1. IInv'
  BY InvGenerate
<1>2. stage[r] = "idle"
  BY <1>0, GenerateTakesTheNext
<1>3. /\ server[r] = "idle" /\ buffer[r] = <<>> /\ wire[r] = <<>>
      /\ server' \in [Run -> ServerState] /\ server'[r] = "answering"
      /\ \A q \in Run : q # r => server'[q] = server[q]
  BY <1>0, <1>2 DEF NothingUnread, NetOK, ServerState
<1>4. /\ \A q \in Run : wire'[q] \in {wire[q], <<>>}
      /\ wire' \in [Run -> Seq(Block)]
      /\ \A q \in Run : q # r /\ stage'[q] = "reading" => stage[q] = "reading"
      /\ \A q \in Run : q # r /\ stage'[q] = "idle" => stage[q] = "idle"
      /\ stage'[r] = "reading"
  BY <1>0, <1>2 DEF Abort, IInv, TypeOK, NetOK
<1>5. NetOK'
  BY <1>0, <1>3, <1>4 DEF NetOK
<1>6. NothingUnread'
  BY <1>0, <1>3, <1>4 DEF NothingUnread
<1>7. DoneIsLast'
  <2>1. wire'[r] = <<>>
    BY <1>3, <1>4
  <2>2. ASSUME NEW q \in Run, q # r
        PROVE  /\ \A i \in DOMAIN buffer'[q] : buffer'[q][i] = "done" =>
                     i = Len(buffer'[q]) /\ wire'[q] = <<>> /\ server'[q] \in {"done", "failed"}
               /\ \A i \in DOMAIN wire'[q] : wire'[q][i] = "done" =>
                     i = Len(wire'[q]) /\ server'[q] \in {"done", "failed"}
    <3>1. server'[q] = server[q] /\ buffer'[q] = buffer[q] /\ wire'[q] \in {wire[q], <<>>}
      BY <1>0, <1>3, <1>4, <2>2
    <3>2. CASE wire'[q] = wire[q]
      BY <3>1, <3>2 DEF DoneIsLast
    <3>3. CASE wire'[q] = <<>>
      BY <3>1, <3>3 DEF DoneIsLast
    <3>4. QED
      BY <3>1, <3>2, <3>3
  <2>3. DOMAIN buffer'[r] = {} /\ DOMAIN wire'[r] = {}
    BY <1>0, <1>3, <2>1
  <2>4. QED
    BY <2>2, <2>3 DEF DoneIsLast
<1>8. ErrorIsKept'
  <2>1. ~torn' => \A q \in Run : Live(q)' => q = r
    BY <1>1, <1>0, OptimizationAssumption DEF IInv, LiveIsCurrent, Generate
  <2>2. QED
    BY <1>3, <2>1 DEF ErrorIsKept
<1>9. EndIsSound' /\ NoErrorMeansComplete'
  BY <1>0 DEF EndIsSound, NoErrorMeansComplete
<1>10. QED
  BY <1>1, <1>5, <1>6, <1>7, <1>8, <1>9

LEMMA CompleteDrain ==
  ASSUME CompleteInv, Drain
  PROVE  CompleteInv'
<1> USE DEF CompleteInv
<1>1. IInv'
  BY InvDrain
<1>2. UNCHANGED <<stage, buffer, wire, server, failed, aborted, current, torn>>
  BY DEF Drain, readVars, netVars, history
<1>3. NetOK' /\ NothingUnread' /\ DoneIsLast' /\ ErrorIsKept'
  BY <1>2 DEF NetOK, NothingUnread, DoneIsLast, ErrorIsKept, Live
<1>4. EndIsSound' /\ NoErrorMeansComplete'
  <2>1. CASE queue = <<>>
    <3>1. done' = FALSE /\ streaming' = (streaming /\ ~done) /\ UNCHANGED queue
      BY <2>1 DEF Drain, Drained
    <3>2. EndIsSound'
      BY <3>1 DEF EndIsSound
    <3>3. ~streaming' => done \/ ~streaming
      BY <3>1 DEF IInv, TypeOK
    <3>4. NoErrorMeansComplete'
      BY <1>2, <2>1, <3>1, <3>3 DEF NoErrorMeansComplete, EndIsSound
    <3>5. QED
      BY <3>2, <3>4
  <2>2. CASE queue # <<>>
    <3>1. UNCHANGED <<done, streaming>>
      BY <2>2 DEF Drain
    <3>2. QED
      BY <1>2, <2>2, <3>1 DEF NoErrorMeansComplete, EndIsSound
  <2>3. QED
    BY <2>1, <2>2
<1>5. QED
  BY <1>1, <1>3, <1>4

\* A chunk is taken from the wire: nothing is lost and nothing overtakes.
LEMMA CompleteRead ==
  ASSUME CompleteInv, NEW r \in Run, Read(r)
  PROVE  CompleteInv'
<1> USE DEF CompleteInv
<1>1. IInv'
  BY InvReader
<1>2. PICK n \in 1..Len(wire[r]) :
          /\ buffer' = [buffer EXCEPT ![r] = SubSeq(wire[r], 1, n)]
          /\ wire' = [wire EXCEPT ![r] = SubSeq(@, n + 1, Len(@))]
  BY DEF Read
<1>3. /\ stage[r] = "reading" /\ stage' = [stage EXCEPT ![r] = "processing"]
      /\ UNCHANGED <<streaming, failed, queue, done, aborted, server, current, torn>>
  BY DEF Read, screenVars, typeVars, history
<1> DEFINE w    == wire[r]
           head == SubSeq(w, 1, n)
           rest == SubSeq(w, n + 1, Len(w))
<1>4. /\ head \in Seq(Block) /\ rest \in Seq(Block)
      /\ Len(w) \in Nat /\ DOMAIN w = 1..Len(w)
      /\ Len(head) = n /\ DOMAIN head = 1..n
      /\ Len(rest) = Len(w) - n /\ DOMAIN rest = 1..(Len(w) - n)
      /\ \A i \in 1..n : head[i] = w[i]
      /\ \A i \in 1..(Len(w) - n) : rest[i] = w[n + i]
  <2>1. w \in Seq(Block) /\ n \in 1..Len(w)
    BY DEF NetOK
  <2> HIDE DEF w
  <2>2. QED
    BY <2>1, ChunkOfWire
<1>5. /\ buffer'[r] = head /\ wire'[r] = rest
      /\ \A q \in Run : q # r => buffer'[q] = buffer[q] /\ wire'[q] = wire[q]
      /\ \A q \in Run : q # r => stage'[q] = stage[q]
      /\ stage'[r] = "processing"
  BY <1>2, <1>3 DEF NetOK, IInv, TypeOK
<1>6. buffer[r] = <<>>
  BY <1>3 DEF NothingUnread
<1>7. n \in Nat /\ n <= Len(w)
  <2>1. n \in 1..Len(w)
    OBVIOUS
  <2> HIDE DEF w, head, rest
  <2>2. QED
    BY <1>4, <2>1
<1>8. NetOK'
  <2>1. buffer' \in [Run -> Seq(Block)] /\ wire' \in [Run -> Seq(Block)]
    BY <1>2, <1>4 DEF NetOK
  <2>2. QED
    BY <1>3, <2>1 DEF NetOK
<1>9. NothingUnread'
  BY <1>3, <1>5 DEF NothingUnread
<1> HIDE DEF head, rest, w
<1>10. DoneIsLast'
  <2>1. \A i \in DOMAIN w : w[i] = "done" => i = Len(w) /\ server[r] \in {"done", "failed"}
    BY DEF w, DoneIsLast
  <2>2. ASSUME NEW i \in DOMAIN head, head[i] = "done"
        PROVE  i = Len(head) /\ rest = <<>> /\ server[r] \in {"done", "failed"}
    <3>1. i \in DOMAIN w /\ w[i] = "done"
      BY <1>4, <1>7, <2>2
    <3>2. i = Len(w) /\ server[r] \in {"done", "failed"}
      BY <2>1, <3>1
    <3>3. n = Len(w) /\ Len(rest) = 0
      <4>1. i \in 1..n /\ Len(w) \in Nat
        BY <1>4, <2>2
      <4>2. n = Len(w)
        BY <1>7, <3>2, <4>1
      <4>3. QED
        BY <1>4, <4>1, <4>2
    <3>4. rest = <<>>
      BY <1>4, <3>3, EmptySeq
    <3>5. QED
      BY <1>4, <3>2, <3>3, <3>4
  <2>3. ASSUME NEW i \in DOMAIN rest, rest[i] = "done"
        PROVE  i = Len(rest) /\ server[r] \in {"done", "failed"}
    <3>1. n + i \in DOMAIN w /\ w[n + i] = "done" /\ i \in Nat
      BY <1>4, <1>7, <2>3
    <3>2. n + i = Len(w) /\ server[r] \in {"done", "failed"}
      BY <2>1, <3>1
    <3>3. QED
      BY <1>4, <1>7, <3>1, <3>2
  <2>4. QED
    BY <1>3, <1>5, <2>2, <2>3 DEF DoneIsLast
<1>11. ErrorIsKept'
  <2>1. ASSUME NEW i \in DOMAIN w, w[i] = "error"
        PROVE  (\E k \in DOMAIN head : head[k] = "error") \/ (\E k \in DOMAIN rest : rest[k] = "error")
    <3>1. CASE i <= n
      <4>1. i \in DOMAIN head /\ head[i] = "error"
        BY <1>4, <1>7, <2>1, <3>1
      <4>2. QED
        BY <4>1
    <3>2. CASE i > n
      <4>1. i - n \in DOMAIN rest /\ n + (i - n) = i
        BY <1>4, <1>7, <2>1, <3>2
      <4>2. rest[i - n] = "error"
        BY <1>4, <2>1, <4>1
      <4>3. QED
        BY <4>1, <4>2
    <3>3. QED
      BY <1>4, <1>7, <2>1, <3>1, <3>2
  <2>2. ~torn /\ server[r] \in {"failing", "failed"} => failed \/ \E i \in DOMAIN w : w[i] = "error"
    BY <1>3, <1>6 DEF ErrorIsKept, Live, w
  <2>3. ~torn /\ server[r] \in {"failing", "failed"} =>
           \/ failed
           \/ \E i \in DOMAIN buffer'[r] : buffer'[r][i] = "error"
           \/ \E i \in DOMAIN wire'[r] : wire'[r][i] = "error"
    BY <1>5, <2>1, <2>2
  <2>4. \A q \in Run : q # r => (Live(q)' <=> Live(q))
    BY <1>5 DEF Live
  <2>5. QED
    BY <1>3, <1>5, <2>3, <2>4 DEF ErrorIsKept
<1>12. EndIsSound' /\ NoErrorMeansComplete'
  BY <1>3 DEF EndIsSound, NoErrorMeansComplete
<1>13. QED
  BY <1>1, <1>8, <1>9, <1>10, <1>11, <1>12

LEMMA CompleteMove ==
  ASSUME CompleteInv, NEW r \in Run, Continue(r) \/ ReadOn(r)
  PROVE  CompleteInv'
<1> USE DEF CompleteInv
<1>1. IInv'
  BY InvReader
<1>2. UNCHANGED <<streaming, failed, queue, done, buffer, wire, server, aborted, current, torn>>
  BY DEF Continue, ReadOn, screenVars, typeVars, netVars, history
<1>3. /\ \A q \in Run : q # r => stage'[q] = stage[q]
      /\ stage'[r] # "idle" /\ (stage'[r] = "reading" => buffer[r] = <<>>) /\ Live(r)
  BY DEF Continue, ReadOn, IInv, TypeOK, Live
<1>4. NetOK' /\ DoneIsLast' /\ EndIsSound' /\ NoErrorMeansComplete'
  BY <1>2 DEF NetOK, DoneIsLast, EndIsSound, NoErrorMeansComplete
<1>5. NothingUnread'
  BY <1>2, <1>3 DEF NothingUnread
<1>6. ErrorIsKept'
  BY <1>2, <1>3 DEF ErrorIsKept, Live
<1>7. QED
  BY <1>1, <1>4, <1>5, <1>6

\* The run that fails says so.
LEMMA CompleteFail ==
  ASSUME CompleteInv, NEW r \in Run, Fail(r)
  PROVE  CompleteInv'
<1> USE DEF CompleteInv
<1>1. IInv'
  BY InvFail
<1>2. failed' = TRUE /\ UNCHANGED <<buffer, wire, server>>
  BY DEF Fail, netVars
<1>3. \A q \in Run : stage'[q] = stage[q] \/ stage'[q] = "failed"
  BY DEF Fail, IInv, TypeOK
<1>4. NetOK' /\ DoneIsLast'
  BY <1>2 DEF NetOK, DoneIsLast
<1>5. NothingUnread'
  BY <1>2, <1>3 DEF NothingUnread
<1>6. ErrorIsKept' /\ EndIsSound' /\ NoErrorMeansComplete'
  BY <1>2 DEF ErrorIsKept, EndIsSound, NoErrorMeansComplete
<1>7. QED
  BY <1>1, <1>4, <1>5, <1>6

\* What one block can change.  An error that leaves the buffer is shown, and
\* after the last block there is nothing.
LEMMA CompleteBlock ==
  ASSUME CompleteInv, NEW r \in Run, ProcessBlock(r)
  PROVE  CompleteInv'
<1> USE DEF CompleteInv
<1> DEFINE b == buffer[r]
<1>1. IInv'
  BY InvBlock
<1>2. /\ stage[r] = "processing" /\ b # <<>>
      /\ buffer' = [buffer EXCEPT ![r] = Tail(@)]
      /\ UNCHANGED <<mounted, open, shown, aborted, wire, server, current, torn>>
  BY DEF ProcessBlock, netVars
<1>3. b \in Seq(Block)
  BY DEF NetOK
<1>4. /\ Head(b) = b[1] /\ Len(b) \in Nat /\ Len(b) > 0 /\ DOMAIN b = 1..Len(b)
      /\ Tail(b) \in Seq(Block) /\ Len(Tail(b)) = Len(b) - 1
      /\ DOMAIN Tail(b) = 1..(Len(b) - 1)
      /\ \A i \in 1..(Len(b) - 1) : Tail(b)[i] = b[i + 1]
  BY <1>2, <1>3
<1>5. /\ buffer'[r] = Tail(b) /\ buffer' \in [Run -> Seq(Block)]
      /\ \A q \in Run : q # r => buffer'[q] = buffer[q]
  BY <1>2, <1>4 DEF NetOK
<1>6. /\ \A q \in Run : q # r => stage'[q] = stage[q]
      /\ stage'[r] \in {"processing", "pausing", "ended"}
      /\ failed => failed'
      /\ Head(b) = "error" => failed'
  <2>0. stage \in [Run -> Stage]
    BY DEF IInv, TypeOK
  <2>1. CASE Head(b) = "answer" /\ TakeText(r)
    BY <2>0, <2>1 DEF TakeText
  <2>2. CASE Head(b) = "meta" /\ TakeMeta(r)
    BY <2>0, <2>2 DEF TakeMeta
  <2>3. CASE Head(b) = "error" /\ TakeError
    BY <1>2, <2>3 DEF TakeError
  <2>4. CASE Head(b) = "done" /\ TakeDone(r)
    BY <2>0, <2>4 DEF TakeDone
  <2>5. QED
    BY <2>1, <2>2, <2>3, <2>4 DEF ProcessBlock
<1>7. NetOK'
  BY <1>2, <1>5 DEF NetOK
<1>8. NothingUnread'
  BY <1>2, <1>5, <1>6 DEF NothingUnread
<1>9. DoneIsLast'
  <2>1. ASSUME NEW i \in DOMAIN Tail(b), Tail(b)[i] = "done"
        PROVE  i = Len(Tail(b)) /\ wire[r] = <<>> /\ server[r] \in {"done", "failed"}
    <3>1. i + 1 \in DOMAIN b /\ b[i + 1] = "done" /\ i \in Nat
      BY <1>4, <2>1
    <3>2. i + 1 = Len(b) /\ wire[r] = <<>> /\ server[r] \in {"done", "failed"}
      BY <3>1 DEF DoneIsLast
    <3>3. QED
      BY <1>4, <3>1, <3>2
  <2>2. QED
    BY <1>2, <1>5, <2>1 DEF DoneIsLast
<1>10. ErrorIsKept'
  <2>1. ASSUME NEW i \in DOMAIN b, b[i] = "error"
        PROVE  failed' \/ \E k \in DOMAIN Tail(b) : Tail(b)[k] = "error"
    <3>1. CASE i = 1
      BY <1>4, <1>6, <2>1, <3>1
    <3>2. CASE i # 1
      <4>1. i - 1 \in DOMAIN Tail(b) /\ Tail(b)[i - 1] = b[i]
        BY <1>4, <3>2
      <4>2. QED
        BY <2>1, <4>1
    <3>3. QED
      BY <3>1, <3>2
  <2>2. ~torn /\ server[r] \in {"failing", "failed"} =>
           failed' \/ (\E i \in DOMAIN Tail(b) : Tail(b)[i] = "error")
                   \/ (\E i \in DOMAIN wire[r] : wire[r][i] = "error")
    BY <1>2, <1>6, <2>1 DEF ErrorIsKept, Live
  <2>3. QED
    BY <1>2, <1>5, <1>6, <2>2 DEF ErrorIsKept, Live
<1>11. ~torn => current = r /\ current # 0 /\ streaming /\ ~done
  BY <1>2, OptimizationAssumption DEF IInv, LiveIsCurrent, Live, Run
<1>12. EndIsSound' /\ NoErrorMeansComplete'
  <2>1. CASE Head(b) = "done" /\ TakeDone(r)
    <3>1. server[r] \in {"done", "failed"} /\ Len(b) = 1 /\ wire[r] = <<>>
      <4>1. 1 \in DOMAIN b /\ b[1] = "done"
        BY <1>4, <2>1
      <4>2. QED
        BY <4>1 DEF DoneIsLast
    <3>2. ~torn /\ server[r] = "failed" => failed
      <4>1. DOMAIN b = {1} /\ b[1] # "error" /\ DOMAIN wire[r] = {}
        BY <1>4, <2>1, <3>1
      <4>2. QED
        BY <1>2, <4>1 DEF ErrorIsKept, Live
    <3>3. ~torn' => failed' \/ server'[current'] = "done"
      BY <1>2, <1>6, <1>11, <3>1, <3>2
    <3>4. EndIsSound'
      BY <3>3 DEF EndIsSound
    <3>5. ~torn' /\ ~streaming' => queue' = <<>>
      BY <1>2, <1>11, <2>1 DEF TakeDone, Drained
    <3>6. QED
      BY <3>3, <3>4, <3>5 DEF NoErrorMeansComplete
  <2>2. CASE TakeText(r) \/ TakeMeta(r) \/ TakeError
    <3>1. UNCHANGED <<streaming, done>>
      BY <2>2 DEF TakeText, TakeMeta, TakeError
    <3>2. QED
      BY <1>2, <1>11, <3>1 DEF EndIsSound, NoErrorMeansComplete
  <2>3. QED
    BY <2>1, <2>2 DEF ProcessBlock
<1>13. QED
  BY <1>1, <1>7, <1>8, <1>9, <1>10, <1>12

\* The service appends: an error once it fails, [DONE] at the end.
LEMMA CompleteWrite ==
  ASSUME CompleteInv, NEW r \in Run, NEW from, NEW block \in Block, NEW to \in ServerState,
         Write(r, from, block, to),
         from \in {"answering", "ending", "failing"},
         block = "done" => to \in {"done", "failed"},
         to \in {"failing", "failed"} => block = "error" \/ from = "failing"
  PROVE  CompleteInv'
<1> USE DEF CompleteInv
<1> DEFINE w == wire[r]
<1>0. /\ server[r] = from /\ Live(r)
      /\ wire' = [wire EXCEPT ![r] = Append(@, block)]
      /\ server' = [server EXCEPT ![r] = to]
      /\ UNCHANGED <<screenVars, typeVars, readVars, history>>
  BY DEF Write
<1>1. UNCHANGED <<mounted, open, streaming, shown, failed, queue, typing, done, abortRef, stage,
                  buffer, aborted, current, arrived, torn>>
  BY <1>0 DEF screenVars, typeVars, readVars, history
<1>2. IInv'
  BY <1>1, InvOthers
<1>3. /\ w \in Seq(Block) /\ Append(w, block) \in Seq(Block)
      /\ Len(w) \in Nat /\ DOMAIN w = 1..Len(w)
      /\ Len(Append(w, block)) = Len(w) + 1 /\ DOMAIN Append(w, block) = 1..(Len(w) + 1)
      /\ Append(w, block)[Len(w) + 1] = block
      /\ \A i \in 1..Len(w) : Append(w, block)[i] = w[i]
  <2>1. w \in Seq(Block)
    BY DEF NetOK
  <2> HIDE DEF w
  <2>2. QED
    BY <2>1
<1>4. /\ wire' \in [Run -> Seq(Block)] /\ server' \in [Run -> ServerState]
      /\ wire'[r] = Append(w, block) /\ server'[r] = to
      /\ \A q \in Run : q # r => wire'[q] = wire[q] /\ server'[q] = server[q]
  BY <1>0, <1>3 DEF NetOK
<1>5. /\ \A i \in DOMAIN buffer[r] : buffer[r][i] # "done"
      /\ \A i \in DOMAIN w : w[i] # "done"
  BY <1>0 DEF DoneIsLast
<1> HIDE DEF w
<1>6. NetOK'
  BY <1>1, <1>4 DEF NetOK
<1>7. NothingUnread'
  BY <1>0, <1>1, <1>4 DEF NothingUnread, Live
<1>8. DoneIsLast'
  <2>1. ASSUME NEW i \in DOMAIN wire'[r], wire'[r][i] = "done"
        PROVE  i = Len(wire'[r]) /\ server'[r] \in {"done", "failed"}
    <3>1. i \in 1..(Len(w) + 1) /\ Append(w, block)[i] = "done"
      BY <1>3, <1>4, <2>1
    <3>2. i \notin 1..Len(w)
      BY <1>3, <1>5, <3>1
    <3>3. i = Len(w) + 1
      BY <1>3, <3>1, <3>2
    <3>4. QED
      BY <1>3, <1>4, <3>1, <3>3
  <2>2. QED
    BY <1>1, <1>4, <1>5, <2>1 DEF DoneIsLast
<1>9. ErrorIsKept'
  <2>1. ASSUME to \in {"failing", "failed"}, ~torn
        PROVE  \/ failed
               \/ \E i \in DOMAIN buffer[r] : buffer[r][i] = "error"
               \/ \E i \in DOMAIN wire'[r] : wire'[r][i] = "error"
    <3>1. CASE block = "error"
      <4>1. Len(w) + 1 \in DOMAIN wire'[r] /\ wire'[r][Len(w) + 1] = "error"
        BY <1>3, <1>4, <3>1
      <4>2. QED
        BY <4>1
    <3>2. CASE from = "failing"
      <4>1. \A i \in DOMAIN w : i \in DOMAIN wire'[r] /\ wire'[r][i] = w[i]
        BY <1>3, <1>4
      <4>2. \/ failed
            \/ \E i \in DOMAIN buffer[r] : buffer[r][i] = "error"
            \/ \E i \in DOMAIN w : w[i] = "error"
        BY <1>0, <2>1, <3>2 DEF ErrorIsKept, w
      <4>3. QED
        BY <4>1, <4>2
    <3>3. QED
      BY <2>1, <3>1, <3>2
  <2>2. ASSUME NEW q \in Run, q # r, ~torn, Live(q), server[q] \in {"failing", "failed"}
        PROVE  \/ failed
               \/ \E i \in DOMAIN buffer[q] : buffer[q][i] = "error"
               \/ \E i \in DOMAIN wire'[q] : wire'[q][i] = "error"
    BY <1>4, <2>2 DEF ErrorIsKept
  <2>3. ASSUME ~torn', NEW q \in Run, Live(q)', server'[q] \in {"failing", "failed"}
        PROVE  \/ failed'
               \/ \E i \in DOMAIN buffer'[q] : buffer'[q][i] = "error"
               \/ \E i \in DOMAIN wire'[q] : wire'[q][i] = "error"
    <3>1. ~torn /\ Live(q)
      BY <1>1, <2>3 DEF Live
    <3>2. CASE q = r
      BY <1>1, <1>4, <2>1, <2>3, <3>1, <3>2
    <3>3. CASE q # r
      BY <1>1, <1>4, <2>2, <2>3, <3>1, <3>3
    <3>4. QED
      BY <3>2, <3>3
  <2>4. QED
    BY <2>3 DEF ErrorIsKept
<1>10. EndIsSound' /\ NoErrorMeansComplete'
  <2>1. server[current] = "done" => server'[current] = "done" \/ current \notin Run
    BY <1>0, <1>4
  <2>2. current # 0 => current \in Run
    BY OptimizationAssumption DEF IInv, TypeOK, Run
  <2>3. QED
    BY <1>1, <2>1, <2>2 DEF EndIsSound, NoErrorMeansComplete
<1>11. QED
  BY <1>2, <1>6, <1>7, <1>8, <1>9, <1>10

LEMMA CompleteLose ==
  ASSUME CompleteInv, NEW r \in Run, Lose(r)
  PROVE  CompleteInv'
<1> USE DEF CompleteInv
<1>1. UNCHANGED <<mounted, open, streaming, shown, failed, queue, typing, done, abortRef, stage,
                  buffer, wire, aborted, current, arrived, torn>>
  BY DEF Lose, screenVars, typeVars, readVars, history
<1>2. IInv'
  BY <1>1, InvOthers
<1>3. /\ server' \in [Run -> ServerState] /\ server'[r] = "lost"
      /\ \A q \in Run : q # r => server'[q] = server[q]
      /\ server[r] \notin {"done", "failed"} /\ Live(r)
  BY DEF Lose, NetOK, ServerState
<1>4. NetOK' /\ NothingUnread' /\ DoneIsLast' /\ ErrorIsKept'
  <2>1. NetOK' /\ NothingUnread'
    BY <1>1, <1>3 DEF NetOK, NothingUnread, Live
  <2>2. DoneIsLast'
    BY <1>1, <1>3 DEF DoneIsLast
  <2>3. ErrorIsKept'
    BY <1>1, <1>3 DEF ErrorIsKept, Live
  <2>4. QED
    BY <2>1, <2>2, <2>3
<1>5. EndIsSound' /\ NoErrorMeansComplete'
  <2>1. current # 0 => current \in Run
    BY OptimizationAssumption DEF IInv, TypeOK, Run
  <2>2. QED
    BY <1>1, <1>3, <2>1 DEF EndIsSound, NoErrorMeansComplete
<1>6. QED
  BY <1>2, <1>4, <1>5

LEMMA CompleteServer ==
  ASSUME CompleteInv, NEW r \in Run, WriteAnswer(r) \/ WriteEnd(r) \/ Lose(r)
  PROVE  CompleteInv'
<1> USE DEF Block, ServerState
<1>1. CASE WriteAnswer(r)
  BY <1>1, CompleteWrite DEF WriteAnswer
<1>2. CASE Write(r, "answering", "meta", "ending")
  BY <1>2, CompleteWrite
<1>3. ASSUME NEW s \in {"answering", "ending"}, Write(r, s, "error", "failing") PROVE CompleteInv'
  BY <1>3, CompleteWrite
<1>4. CASE Write(r, "ending", "done", "done")
  BY <1>4, CompleteWrite
<1>5. CASE Write(r, "failing", "done", "failed")
  BY <1>5, CompleteWrite
<1>6. QED
  BY <1>1, <1>2, <1>3, <1>4, <1>5, CompleteLose DEF WriteEnd

LEMMA CompleteStep == CompleteInv /\ [Next]_vars => CompleteInv'
<1> SUFFICES ASSUME CompleteInv, [Next]_vars PROVE CompleteInv'
  OBVIOUS
<1>1. CASE OpenModal \/ CloseModal \/ Stop \/ Unmount \/ Drain
  BY <1>1, CompleteModal, CompleteStop, CompleteUnmount, CompleteDrain
<1>2. ASSUME NEW r \in Run, Generate(r) PROVE CompleteInv'
  BY <1>2, CompleteGenerate
<1>3. ASSUME NEW r \in Run, ReaderStep(r) PROVE CompleteInv'
  BY <1>3, CompleteRead, CompleteMove, CompleteBlock, CompleteFail DEF ReaderStep
<1>4. ASSUME NEW r \in Run, WriteAnswer(r) \/ WriteEnd(r) \/ Lose(r) PROVE CompleteInv'
  BY <1>4, CompleteServer
<1>5. CASE UNCHANGED vars
  <2>1. /\ IInv'
        /\ UNCHANGED <<streaming, failed, queue, done, stage, buffer, wire, server, aborted, current, torn>>
    BY <1>5, InvStep DEF CompleteInv, vars, screenVars, typeVars, readVars, netVars, history
  <2>2. QED
    BY <2>1 DEF CompleteInv, NetOK, NothingUnread, DoneIsLast, ErrorIsKept, EndIsSound,
                NoErrorMeansComplete, Live
<1>6. QED
  BY <1>1, <1>2, <1>3, <1>4, <1>5 DEF Next

\* For any number of runs, blocks and characters: until a run is torn, an
\* answer that ended by itself and shows no error is all the service had to say.
THEOREM CompleteCorrect == Spec => []NoErrorMeansComplete
<1>1. CompleteInv => NoErrorMeansComplete
  BY DEF CompleteInv
<1>2. QED
  BY <1>1, CompleteInit, CompleteStep, PTL DEF Spec

=============================================================================
