-------------------------- MODULE OptimizationStream --------------------------
(***************************************************************************)
(* The optimization suggestions of the dashboard: the modal and its hook   *)
(* (frontend/src/pages/dashboard/hooks/useOptimizationStream.ts), the      *)
(* reader of the stream (suggestOptimizationStream of services/api/ai.ts)  *)
(* and the service that writes it (streaming.py).                          *)
(*                                                                         *)
(* A Run is one press of Generate.  A character of the answer is written   *)
(* as the run it came from, so that one sees whose text is on the screen.  *)
(* The reader takes what has arrived as one chunk and, after each block    *)
(* that changed something, lets other tasks run (setTimeout 0): a run is   *)
(* aborted either while it waits for a chunk, which ends it, or in such a  *)
(* pause, which does not.  `torn' records that the latter has happened.    *)
(***************************************************************************)
EXTENDS Naturals, Sequences, SequencesExt, FiniteSets

CONSTANTS
    MaxRun,    \* bound: presses of Generate
    MaxText,   \* bound: characters of an answer
    MaxWire    \* bound: blocks on their way

ASSUME OptimizationAssumption == MaxRun \in Nat /\ MaxText \in Nat /\ MaxWire \in Nat

Run == 1..MaxRun

VARIABLES
    mounted,    \* the dashboard is on the screen
    open,       \* isOptimizationModalOpen
    streaming,  \* isOptimizationStreaming
    shown,      \* optimizationAnswerContent
    failed,     \* optimizationStreamError is set
    queue,      \* optimizationCharQueueRef
    typing,     \* optimizationTypewriterRef is set
    done,       \* optimizationStreamDoneRef
    meta,       \* optimizationMetaReceivedRef
    abortRef,   \* the run of optimizationAbortRef, 0 for null
    stage,      \* stage[r]: where suggestOptimizationStream is
    buffer,     \* buffer[r]: the blocks of the chunk that are still to be processed
    aborted,    \* the runs whose controller was told to abort
    wire,       \* wire[r]: blocks on their way
    server,     \* server[r]: where suggest_optimization_stream is
    current,    \* the run the modal was last asked for, 0 when it was cleared since
    arrived,    \* arrived[r]: characters of the answer handed to onContent
    torn        \* a run was aborted in a pause

screenVars == <<mounted, open, streaming, shown, failed>>
typeVars   == <<queue, typing, done, meta, abortRef>>
readVars   == <<stage, buffer, aborted>>
netVars    == <<wire, server>>
history    == <<current, arrived, torn>>
vars == <<screenVars, typeVars, readVars, netVars, history>>

Live(r) == stage[r] \in {"reading", "processing", "pausing"}

\* No block is being processed: the next task may run.
Quiet == \A r \in Run : stage[r] # "processing"

-----------------------------------------------------------------------------
Init ==
    /\ mounted = TRUE /\ open = FALSE /\ streaming = FALSE /\ failed = FALSE
    /\ shown = <<>> /\ queue = <<>>
    /\ typing = FALSE /\ done = FALSE /\ meta = FALSE
    /\ abortRef = 0 /\ current = 0
    /\ stage = [r \in Run |-> "idle"]
    /\ server = [r \in Run |-> "idle"]
    /\ buffer = [r \in Run |-> <<>>]
    /\ wire = [r \in Run |-> <<>>]
    /\ arrived = [r \in Run |-> 0]
    /\ aborted = {}
    /\ torn = FALSE

\* optimizationAbortRef.current?.abort(): the pending read is rejected and the
\* run ends without a word; a run in a pause goes on with its buffer.
Abort(st) ==
    /\ aborted' = aborted \cup ({abortRef} \ {0})
    /\ stage' = [r \in Run |-> IF r = abortRef /\ stage[r] = "reading" THEN "ended" ELSE st[r]]
    /\ wire' = [r \in Run |-> IF r = abortRef THEN <<>> ELSE wire[r]]
    /\ torn' = (torn \/ \E r \in Run : r = abortRef /\ stage[r] = "pausing")

\* Mutant: the run is not aborted.
ClearOnly ==
    /\ abortRef' = 0
    /\ done' = FALSE
    /\ streaming' = FALSE
    /\ shown' = <<>>
    /\ failed' = FALSE
    /\ current' = 0
    /\ UNCHANGED <<mounted, queue, typing, meta, readVars, netVars, arrived, torn>>

\* What opening and closing have in common: typewriter and queue are left alone.
Clear ==
    /\ Abort(stage)
    /\ abortRef' = 0
    /\ done' = FALSE
    /\ streaming' = FALSE
    /\ shown' = <<>>
    /\ failed' = FALSE
    /\ current' = 0
    /\ UNCHANGED <<mounted, queue, typing, meta, buffer, server, arrived>>

OpenModal  == Quiet /\ mounted /\ ~open /\ open' = TRUE /\ Clear

CloseModal == Quiet /\ mounted /\ open /\ open' = FALSE /\ Clear

\* Mutant: the queue is not emptied.
GenerateOverQueue(r) ==
    /\ Quiet /\ mounted /\ open /\ ~streaming
    /\ r = 1 + Cardinality({q \in Run : stage[q] # "idle"})
    /\ Abort([stage EXCEPT ![r] = "reading"])
    /\ abortRef' = r
    /\ streaming' = TRUE
    /\ shown' = <<>>
    /\ failed' = FALSE
    /\ meta' = FALSE
    /\ done' = FALSE
    /\ current' = r
    /\ server' = [server EXCEPT ![r] = "answering"]
    /\ UNCHANGED <<mounted, open, queue, typing, buffer, arrived>>

\* Generate, or Retry.
Generate(r) ==
    /\ Quiet /\ mounted /\ open /\ ~streaming
    /\ r = 1 + Cardinality({q \in Run : stage[q] # "idle"})
    /\ Abort([stage EXCEPT ![r] = "reading"])
    /\ abortRef' = r
    /\ streaming' = TRUE
    /\ shown' = <<>>
    /\ failed' = FALSE
    /\ meta' = FALSE
    /\ done' = FALSE
    /\ typing' = FALSE
    /\ queue' = <<>>
    /\ current' = r
    /\ server' = [server EXCEPT ![r] = "answering"]
    /\ UNCHANGED <<mounted, open, buffer, arrived>>

\* Stop: the queue is shown at once.
Stop ==
    /\ Quiet /\ mounted /\ open /\ streaming
    /\ Abort(stage)
    /\ abortRef' = 0
    /\ typing' = FALSE
    /\ shown' = shown \o queue
    /\ queue' = <<>>
    /\ done' = FALSE
    /\ streaming' = FALSE
    /\ UNCHANGED <<mounted, open, failed, meta, buffer, server, current, arrived>>

Unmount ==
    /\ Quiet /\ mounted
    /\ mounted' = FALSE
    /\ Abort(stage)
    /\ typing' = FALSE
    /\ UNCHANGED <<open, streaming, shown, failed, queue, done, meta, abortRef, buffer,
                   server, current, arrived>>

\* drainOptimizationQueue with nothing left, d being what the ref holds.
Drained(d) ==
    /\ typing' = FALSE
    /\ done' = FALSE
    /\ streaming' = (streaming /\ ~d)

\* Mutant: the interval is not cleared.
DrainForever ==
    /\ Quiet /\ typing
    /\ IF queue = <<>>
       THEN done' = FALSE /\ streaming' = (streaming /\ ~done) /\ UNCHANGED <<shown, queue>>
       ELSE LET batch == (Len(queue) + 7) \div 8
            IN  /\ shown' = shown \o SubSeq(queue, 1, batch)
                /\ queue' = SubSeq(queue, batch + 1, Len(queue))
                /\ UNCHANGED <<done, streaming>>
    /\ UNCHANGED <<mounted, open, typing, failed, meta, abortRef, readVars, netVars, history>>

\* The typewriter's interval.
Drain ==
    /\ Quiet /\ typing
    /\ IF queue = <<>>
       THEN Drained(done) /\ UNCHANGED <<shown, queue>>
       ELSE LET batch == (Len(queue) + 7) \div 8
            IN  /\ shown' = shown \o SubSeq(queue, 1, batch)
                /\ queue' = SubSeq(queue, batch + 1, Len(queue))
                /\ UNCHANGED <<typing, done, streaming>>
    /\ UNCHANGED <<mounted, open, failed, meta, abortRef, readVars, netVars, history>>

-----------------------------------------------------------------------------
(* suggestOptimizationStream *)

\* A chunk: some of the blocks that have arrived.
Read(r) ==
    /\ Quiet
    /\ stage[r] = "reading"
    /\ \E n \in 1..Len(wire[r]) :
          /\ buffer' = [buffer EXCEPT ![r] = SubSeq(wire[r], 1, n)]
          /\ wire' = [wire EXCEPT ![r] = SubSeq(@, n + 1, Len(@))]
    /\ stage' = [stage EXCEPT ![r] = "processing"]
    /\ UNCHANGED <<screenVars, typeVars, aborted, server, history>>

\* The pause after a block is over.
Continue(r) ==
    /\ Quiet
    /\ stage[r] = "pausing"
    /\ stage' = [stage EXCEPT ![r] = "processing"]
    /\ UNCHANGED <<screenVars, typeVars, buffer, aborted, netVars, history>>

\* onContent
TakeText(r) ==
    /\ queue' = Append(queue, r)
    /\ typing' = TRUE
    /\ arrived' = [arrived EXCEPT ![r] = @ + 1]
    /\ stage' = [stage EXCEPT ![r] = "pausing"]
    /\ UNCHANGED <<streaming, failed, done, meta, abortRef>>

\* onMeta; onObserved and onUsage pause as well and have no further effect.
TakeMeta(r) ==
    /\ meta' = TRUE
    /\ stage' = [stage EXCEPT ![r] = "pausing"]
    /\ UNCHANGED <<streaming, failed, queue, typing, done, abortRef, arrived>>

\* onError: no pause.
TakeError ==
    /\ failed' = TRUE
    /\ UNCHANGED <<streaming, queue, typing, done, meta, abortRef, stage, arrived>>

\* Mutant: the end always waits for the typewriter.
TakeDoneLater(r) ==
    /\ failed' = (failed \/ ~meta)
    /\ done' = TRUE
    /\ abortRef' = 0
    /\ stage' = [stage EXCEPT ![r] = "ended"]
    /\ UNCHANGED <<streaming, queue, typing, meta, arrived>>

\* onDone, whoever's ref it clears.
TakeDone(r) ==
    /\ failed' = (failed \/ ~meta)
    /\ IF queue = <<>> THEN Drained(TRUE)
                       ELSE done' = TRUE /\ UNCHANGED <<typing, streaming>>
    /\ abortRef' = 0
    /\ stage' = [stage EXCEPT ![r] = "ended"]
    /\ UNCHANGED <<queue, meta, arrived>>

ProcessBlock(r) ==
    /\ stage[r] = "processing" /\ buffer[r] # <<>>
    /\ buffer' = [buffer EXCEPT ![r] = Tail(@)]
    /\ \/ Head(buffer[r]) = "answer" /\ TakeText(r)
       \/ Head(buffer[r]) = "meta"   /\ TakeMeta(r)
       \/ Head(buffer[r]) = "error"  /\ TakeError
       \/ Head(buffer[r]) = "done"   /\ TakeDone(r)
    /\ UNCHANGED <<mounted, open, shown, aborted, netVars, current, torn>>

\* The chunk is used up; read() rejects at once when the run was aborted.
ReadOn(r) ==
    /\ stage[r] = "processing" /\ buffer[r] = <<>>
    /\ stage' = [stage EXCEPT ![r] = IF r \in aborted THEN "ended" ELSE "reading"]
    /\ UNCHANGED <<screenVars, typeVars, buffer, aborted, netVars, history>>

\* Mutant: the catch shows no error.
FailSilently(r) ==
    /\ Quiet
    /\ stage[r] = "reading" /\ wire[r] = <<>> /\ server[r] = "lost"
    /\ stage' = [stage EXCEPT ![r] = "failed"]
    /\ typing' = FALSE
    /\ queue' = <<>>
    /\ done' = FALSE
    /\ streaming' = FALSE
    /\ abortRef' = 0
    /\ UNCHANGED <<mounted, open, shown, failed, meta, buffer, aborted, netVars, history>>

\* An HTTP error, a broken connection or an end without [DONE], and the catch.
Fail(r) ==
    /\ Quiet
    /\ stage[r] = "reading" /\ wire[r] = <<>> /\ server[r] = "lost"
    /\ stage' = [stage EXCEPT ![r] = "failed"]
    /\ failed' = TRUE
    /\ typing' = FALSE
    /\ queue' = <<>>
    /\ done' = FALSE
    /\ streaming' = FALSE
    /\ abortRef' = 0
    /\ UNCHANGED <<mounted, open, shown, meta, buffer, aborted, netVars, history>>

-----------------------------------------------------------------------------
(* suggest_optimization_stream: an answer, then meta and [DONE]; an          *)
(* exception is an error block and [DONE].                                   *)

Write(r, from, block, to) ==
    /\ server[r] = from
    /\ Live(r) /\ r \notin aborted
    /\ Len(wire[r]) < MaxWire
    /\ wire' = [wire EXCEPT ![r] = Append(@, block)]
    /\ server' = [server EXCEPT ![r] = to]
    /\ UNCHANGED <<screenVars, typeVars, readVars, history>>

WriteAnswer(r) ==
    /\ arrived[r] + Len(SelectSeq(buffer[r] \o wire[r], LAMBDA b : b = "answer")) < MaxText
    /\ Write(r, "answering", "answer", "answering")

WriteEnd(r) ==
    \/ Write(r, "answering", "meta", "ending")
    \/ \E s \in {"answering", "ending"} : Write(r, s, "error", "failing")
    \/ Write(r, "ending", "done", "done")
    \/ Write(r, "failing", "done", "failed")

Lose(r) ==
    /\ server[r] \in {"answering", "ending", "failing"}
    /\ Live(r) /\ r \notin aborted
    /\ server' = [server EXCEPT ![r] = "lost"]
    /\ UNCHANGED <<screenVars, typeVars, readVars, wire, history>>

-----------------------------------------------------------------------------
ReaderStep(r) == Read(r) \/ Continue(r) \/ ProcessBlock(r) \/ ReadOn(r) \/ Fail(r)

Next ==
    \/ OpenModal \/ CloseModal \/ Stop \/ Unmount \/ Drain
    \/ \E r \in Run : \/ Generate(r) \/ ReaderStep(r)
                      \/ WriteAnswer(r) \/ WriteEnd(r) \/ Lose(r)

Spec == Init /\ [][Next]_vars

(***************************************************************************)
(* Fairness: tasks and continuations run; a model that is asked answers    *)
(* and ends its answer, or the connection times out.                       *)
(***************************************************************************)
Fairness ==
    /\ WF_vars(Drain)
    /\ \A r \in Run : WF_vars(ReaderStep(r)) /\ WF_vars(WriteEnd(r) \/ Lose(r))

FairSpec == Spec /\ Fairness

-----------------------------------------------------------------------------
(* Properties.  Those with ~torn hold up to the first run that is aborted in  *)
(* one of its pauses: it goes on with its buffer, in the refs of the next.    *)

Stage == {"idle", "reading", "processing", "pausing", "ended", "failed"}

TypeOK ==
    /\ mounted \in BOOLEAN /\ open \in BOOLEAN /\ streaming \in BOOLEAN
    /\ typing \in BOOLEAN /\ done \in BOOLEAN /\ torn \in BOOLEAN
    /\ shown \in Seq(Run) /\ queue \in Seq(Run)
    /\ abortRef \in 0..MaxRun /\ current \in 0..MaxRun
    /\ stage \in [Run -> Stage] /\ arrived \in [Run -> Nat]

\* Characters that wait are being typed, whatever became of their run, so that
\* none waits for the next answer to be let out.
QueueIsTyped == mounted /\ queue # <<>> => typing

\* The answer to the last press of Generate is all there, in order and unmixed:
\* on the screen, and the rest of it in the queue, also after Stop.
AnswerIsWhole ==
    ~torn /\ current # 0 /\ stage[current] # "failed" =>
        shown \o queue = [i \in 1..arrived[current] |-> current]

\* A run that is alive is the one on the screen and the one Stop will reach.
StopReachesTheRun ==
    ~torn /\ Quiet /\ mounted =>
        \A r \in Run : Live(r) => abortRef = r /\ current = r /\ streaming /\ open

\* While the modal says that it generates, a run is alive, or its last
\* characters are being typed.
StreamingHasAnEnd ==
    ~torn /\ Quiet /\ mounted /\ streaming => Live(current) \/ (done /\ typing)

\* An answer that ended by itself and shows no error is the service's, whole.
NoErrorMeansComplete ==
    ~torn /\ current # 0 /\ ~streaming /\ ~failed /\ current \notin aborted =>
        server[current] = "done" /\ queue = <<>>

\* Generating ends.
StreamingEnds == streaming ~> (~streaming \/ ~mounted)

\* When the dashboard is left, the interval stops and the run ends, also if it
\* was in a pause and starts the interval once more.
LeavesNothingBehind == <>[](mounted \/ (~typing /\ \A r \in Run : ~Live(r)))

-----------------------------------------------------------------------------
(* Why the invariants hold: the inductive invariant of                       *)
(* OptimizationStreamProofs.                                                 *)

\* Runs are numbered as they are made; one that was not made is nobody's.
RunsInOrder ==
    /\ \E n \in 0..MaxRun : \A r \in Run : stage[r] # "idle" <=> r <= n
    /\ abortRef # 0 => stage[abortRef] # "idle"
    /\ \A r \in aborted : r \in Run /\ stage[r] # "idle"
    /\ \A r \in Run : stage[r] = "idle" => arrived[r] = 0

\* A run that is alive belongs to the modal; one that is done is not alive.
LiveIsCurrent ==
    ~torn =>
        \A r \in Run : Live(r) =>
            abortRef = r /\ current = r /\ streaming /\ open /\ mounted /\ ~done
            /\ r \notin aborted

StreamingIsLive ==
    ~torn /\ mounted /\ streaming => (current # 0 /\ Live(current)) \/ (done /\ typing)

IInv == TypeOK /\ RunsInOrder /\ LiveIsCurrent /\ StreamingIsLive /\ QueueIsTyped /\ AnswerIsWhole

Block == {"answer", "meta", "error", "done"}

ServerState == {"idle", "answering", "ending", "failing", "done", "failed", "lost"}

\* The half of the type that TypeOK leaves out.
NetOK ==
    /\ buffer \in [Run -> Seq(Block)] /\ wire \in [Run -> Seq(Block)]
    /\ server \in [Run -> ServerState]

\* A run that was not made has nothing; a run that waits has processed its chunk.
NothingUnread ==
    \A r \in Run :
        /\ stage[r] = "idle" => server[r] = "idle" /\ buffer[r] = <<>> /\ wire[r] = <<>>
        /\ stage[r] = "reading" => buffer[r] = <<>>

\* Nothing comes after [DONE], be the run torn or not.
DoneIsLast ==
    \A r \in Run :
        /\ \A i \in DOMAIN buffer[r] : buffer[r][i] = "done" =>
              i = Len(buffer[r]) /\ wire[r] = <<>> /\ server[r] \in {"done", "failed"}
        /\ \A i \in DOMAIN wire[r] : wire[r][i] = "done" =>
              i = Len(wire[r]) /\ server[r] \in {"done", "failed"}

\* The error of a service that failed is shown, or on its way before [DONE].
ErrorIsKept ==
    ~torn =>
        \A r \in Run : Live(r) /\ server[r] \in {"failing", "failed"} =>
            \/ failed
            \/ \E i \in DOMAIN buffer[r] : buffer[r][i] = "error"
            \/ \E i \in DOMAIN wire[r] : wire[r][i] = "error"

\* The end that waits for the typewriter is a good one.
EndIsSound == ~torn /\ current # 0 /\ done => failed \/ server[current] = "done"

CompleteInv ==
    /\ IInv /\ NetOK /\ NothingUnread /\ DoneIsLast /\ ErrorIsKept /\ EndIsSound
    /\ NoErrorMeansComplete

=============================================================================
