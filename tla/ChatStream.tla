------------------------------ MODULE ChatStream ------------------------------
(***************************************************************************)
(* A chat answer on its way from the AI service to the screen and to the   *)
(* table of messages: the ChatStreamManager of                             *)
(* frontend/src/services/chatStreamManager.ts, which outlives the pages    *)
(* that show it, their Send and Stop handlers (AIChat.tsx, ChatPanel.tsx), *)
(* and session_chat_stream of the AI service, which answers a question.    *)
(*                                                                         *)
(* A Run is one call of startSessionChat.  Text is counted in characters;  *)
(* the n-th tool call of a run has the result n.  JavaScript runs a task   *)
(* and then its promise continuations: abort() settles the pending read    *)
(* within the task, so the run unwinds (Unwind) before the next task.      *)
(***************************************************************************)
EXTENDS Naturals, Sequences, SequencesExt

CONSTANTS
    MaxRun,    \* bound: questions in a behaviour
    Tool,      \* names of the tools the model may call
    MaxData,   \* bound: characters and tool calls of an answer (max_iterations)
    MaxWire    \* bound: frames of a stream on their way

ASSUME ChatAssumption ==
    /\ MaxRun \in Nat \ {0}
    /\ MaxData \in Nat
    /\ MaxWire \in Nat \ {0}

Run == 1..MaxRun

VARIABLES
    (* The manager. *)
    status,      \* state.status; state.isStreaming says whether it is "streaming"
    current,     \* the run that state.sessionId and userMessage belong to, 0 before
    shown,       \* characters of state.assistantContent
    blocks,      \* state.functionCallsContent: the results in its blocks, 0: Executing...
    toolCalls,   \* state.toolCalls
    queue,       \* characters in _charQueue
    typing,      \* _typewriterTimer is set
    donePending, \* _streamDone, and _pendingDonePatch with it
    controller,  \* the run of this.abortController, 0 for null
    reader,      \* reader[r]: where the code of startSessionChat is
    (* The service, the connection and the database. *)
    server,      \* server[r]: where session_chat_stream is
    sent,        \* sent[r]: characters sent so far
    called,      \* called[r]: tools called so far
    wire,        \* wire[r]: frames on their way to the browser
    messages,    \* the rows of the session in the table of messages
    saving,      \* partial answers posted by handleStop and not stored yet
    received     \* received[r]: characters that arrived, whatever became of them

managerVars == <<status, current, shown, blocks, toolCalls, queue, typing, donePending,
                 controller, reader, received>>
serverVars  == <<server, sent, called, wire>>
storeVars   == <<messages, saving>>
vars == <<managerVars, serverVars, storeVars>>

-----------------------------------------------------------------------------
Status == {"idle", "streaming", "completed", "aborted", "error"}
Terminal == {"completed", "aborted", "error"}

\* "aborted": the pending read was rejected and the catch block is still to run.
ReaderState == {"idle", "reading", "aborted", "ended"}

ServerState == {"idle", "asked", "answering", "calling", "saved", "done", "failed", "refused"}

Content(n)   == [kind |-> "content", n |-> n]
Call(t)      == [kind |-> "function", tool |-> t]
Result(t, n) == [kind |-> "function_result", tool |-> t, n |-> n]
Error        == [kind |-> "error"]
Done         == [kind |-> "done"]

Question(r)  == [role |-> "user", run |-> r, size |-> 0]
Answer(r, n) == [role |-> "assistant", run |-> r, size |-> n]

\* No continuation is left: the next task may run.
Quiet == \A r \in Run : reader[r] # "aborted"

-----------------------------------------------------------------------------
Init ==
    /\ status = "idle"
    /\ current = 0
    /\ shown = 0
    /\ blocks = <<>>
    /\ toolCalls = <<>>
    /\ queue = 0
    /\ typing = FALSE
    /\ donePending = FALSE
    /\ controller = 0
    /\ reader = [r \in Run |-> "idle"]
    /\ server = [r \in Run |-> "idle"]
    /\ sent = [r \in Run |-> 0]
    /\ called = [r \in Run |-> <<>>]
    /\ wire = [r \in Run |-> <<>>]
    /\ messages = <<>>
    /\ saving = {}
    /\ received = [r \in Run |-> 0]

\* Mutant: the queue is dropped, not shown.
EndAndDrop(s) ==
    /\ status' = s
    /\ queue' = 0
    /\ typing' = (typing /\ queue = 0)
    /\ donePending' = FALSE
    /\ UNCHANGED shown

\* Mutant: a pending end is not dropped.
EndLater(s) ==
    /\ status' = s
    /\ shown' = shown + queue
    /\ queue' = 0
    /\ typing' = (typing /\ queue = 0)
    /\ UNCHANGED donePending

(* setState(patch, true): the queue is shown at once, a pending end is dropped. *)
EndNow(s) ==
    /\ status' = s
    /\ shown' = shown + queue
    /\ queue' = 0
    /\ typing' = (typing /\ queue = 0)
    /\ donePending' = FALSE

(* _finishWhenDrained: the end waits for the typewriter. *)
Finish ==
    /\ IF queue = 0
       THEN status' = "completed" /\ typing' = FALSE /\ UNCHANGED donePending
       ELSE donePending' = TRUE /\ UNCHANGED <<status, typing>>
    /\ UNCHANGED <<shown, queue>>

\* Send: the page refuses while it streams, and startSessionChat does again.
Start(r) ==
    /\ Quiet
    /\ status # "streaming"
    /\ r = current + 1
    /\ status' = "streaming"
    /\ current' = r
    /\ shown' = 0
    /\ blocks' = <<>>
    /\ toolCalls' = <<>>
    /\ queue' = 0
    /\ typing' = FALSE
    /\ donePending' = FALSE
    /\ controller' = r
    /\ reader' = [reader EXCEPT ![r] = "reading"]
    /\ server' = [server EXCEPT ![r] = "asked"]
    /\ UNCHANGED <<received, sent, called, wire, storeVars>>

\* Mutant: stop() forgets to abort the request.
StopWithoutAbort ==
    /\ Quiet
    /\ status = "streaming"
    /\ EndNow("aborted")
    /\ controller' = 0
    /\ saving' = IF shown > 0 \/ blocks # <<>> THEN saving \cup {Answer(current, shown)}
                                               ELSE saving
    /\ UNCHANGED <<current, blocks, toolCalls, reader, received, serverVars, messages>>

\* Mutant: an empty answer is posted too.
StopAndSaveAnything ==
    /\ Quiet
    /\ status = "streaming"
    /\ EndNow("aborted")
    /\ controller' = 0
    /\ reader' = IF controller = 0 THEN reader ELSE [reader EXCEPT ![controller] = "aborted"]
    /\ saving' = saving \cup {Answer(current, shown)}
    /\ wire' = IF controller = 0 THEN wire ELSE [wire EXCEPT ![controller] = <<>>]
    /\ UNCHANGED <<current, blocks, toolCalls, received, server, sent, called, messages>>

\* handleStop: the snapshot, stop(), and the POST of the snapshot.
HandleStop ==
    /\ Quiet
    /\ status = "streaming"
    /\ EndNow("aborted")
    /\ controller' = 0
    /\ reader' = IF controller = 0 THEN reader ELSE [reader EXCEPT ![controller] = "aborted"]
    /\ saving' = IF shown > 0 \/ blocks # <<>> THEN saving \cup {Answer(current, shown)}
                                               ELSE saving
    /\ wire' = IF controller = 0 THEN wire ELSE [wire EXCEPT ![controller] = <<>>]
    /\ UNCHANGED <<current, blocks, toolCalls, received, server, sent, called, messages>>

\* The catch block after an AbortError, and finally: they do not ask whose
\* state they change.
Unwind(r) ==
    /\ reader[r] = "aborted"
    /\ EndNow("aborted")
    /\ controller' = 0
    /\ reader' = [reader EXCEPT ![r] = "ended"]
    /\ UNCHANGED <<current, blocks, toolCalls, received, serverVars, storeVars>>

\* Mutant: the interval is cleared with the last character, before the end.
DrainAndClear ==
    /\ Quiet
    /\ typing /\ queue > 0
    /\ LET batch == (queue + 7) \div 8
       IN  /\ shown' = shown + batch
           /\ queue' = queue - batch
           /\ typing' = (queue > batch)
    /\ UNCHANGED <<status, current, blocks, toolCalls, donePending, controller, reader,
                   received, serverVars, storeVars>>

\* The typewriter's interval: some characters, or the end.
DrainQueue ==
    /\ Quiet
    /\ typing
    /\ IF queue = 0
       THEN /\ typing' = FALSE
            /\ status' = IF donePending THEN "completed" ELSE status
            /\ donePending' = FALSE
            /\ UNCHANGED <<shown, queue>>
       ELSE LET batch == (queue + 7) \div 8
            IN  /\ shown' = shown + batch
                /\ queue' = queue - batch
                /\ UNCHANGED <<typing, status, donePending>>
    /\ UNCHANGED <<current, blocks, toolCalls, controller, reader, received,
                   serverVars, storeVars>>

-----------------------------------------------------------------------------
(* What arrives at the browser. *)

\* A result goes to every entry of the tool in toolCalls, and to the last block.
PutResult(t, n) ==
    LET mine == {i \in DOMAIN toolCalls : toolCalls[i].tool = t}
    IN  /\ toolCalls' = [i \in DOMAIN toolCalls |->
                            IF i \in mine THEN [toolCalls[i] EXCEPT !.result = n] ELSE toolCalls[i]]
        /\ blocks' = [i \in DOMAIN blocks |->
                         IF i \in mine /\ (\A j \in mine : j <= i) /\ blocks[i] = 0
                         THEN n ELSE blocks[i]]

\* The next frame of a stream that is being read.
Receive(r) ==
    /\ Quiet
    /\ reader[r] = "reading" /\ wire[r] # <<>>
    /\ wire' = [wire EXCEPT ![r] = Tail(@)]
    /\ LET f == Head(wire[r])
       IN  \/ /\ f.kind = "content"
              /\ queue' = queue + f.n
              /\ typing' = TRUE
              /\ received' = [received EXCEPT ![r] = @ + f.n]
              /\ UNCHANGED <<status, shown, donePending, blocks, toolCalls, controller, reader>>
           \/ /\ f.kind = "function"
              /\ toolCalls' = Append(toolCalls, [tool |-> f.tool, result |-> 0])
              /\ blocks' = Append(blocks, 0)
              /\ UNCHANGED <<status, shown, queue, typing, donePending, controller, reader,
                             received>>
           \/ /\ f.kind = "function_result"
              /\ PutResult(f.tool, f.n)
              /\ UNCHANGED <<status, shown, queue, typing, donePending, controller, reader,
                             received>>
           \/ /\ f.kind \in {"error", "done"}
              /\ IF f.kind = "error" THEN EndNow("error") ELSE Finish
              /\ controller' = 0
              /\ reader' = [reader EXCEPT ![r] = "ended"]
              /\ UNCHANGED <<blocks, toolCalls, received>>
    /\ UNCHANGED <<current, server, sent, called, storeVars>>

\* A response that is not a stream, such as a 502 of the gateway: its status
\* is not looked at, and its end is the end of an answer.
ReceiveEnd(r) ==
    /\ Quiet
    /\ reader[r] = "reading" /\ wire[r] = <<>> /\ server[r] = "refused"
    /\ Finish
    /\ controller' = 0
    /\ reader' = [reader EXCEPT ![r] = "ended"]
    /\ UNCHANGED <<current, blocks, toolCalls, received, serverVars, storeVars>>

\* The connection breaks.
Disconnect(r) ==
    /\ Quiet
    /\ reader[r] = "reading"
    /\ EndNow("error")
    /\ controller' = 0
    /\ reader' = [reader EXCEPT ![r] = "ended"]
    /\ wire' = [wire EXCEPT ![r] = <<>>]
    /\ UNCHANGED <<current, blocks, toolCalls, received, server, sent, called, storeVars>>

-----------------------------------------------------------------------------
(* The AI service. *)

\* A frame for a browser that has hung up goes nowhere.
Send(r, f) ==
    /\ Len(wire[r]) < MaxWire
    /\ wire' = IF reader[r] = "reading" THEN [wire EXCEPT ![r] = Append(@, f)] ELSE wire

\* The question is stored before anything is sent.
SaveQuestion(r) ==
    /\ server[r] = "asked"
    /\ server' = [server EXCEPT ![r] = "answering"]
    /\ messages' = Append(messages, Question(r))
    /\ UNCHANGED <<managerVars, sent, called, wire, saving>>

Refuse(r) ==
    /\ server[r] = "asked"
    /\ server' = [server EXCEPT ![r] = "refused"]
    /\ UNCHANGED <<managerVars, sent, called, wire, storeVars>>

SendContent(r) ==
    /\ server[r] = "answering"
    /\ \E n \in 1..MaxData :
          /\ sent[r] + Len(called[r]) + n <= MaxData
          /\ Send(r, Content(n))
          /\ sent' = [sent EXCEPT ![r] = @ + n]
    /\ UNCHANGED <<managerVars, server, called, storeVars>>

SendCall(r) ==
    /\ server[r] = "answering" /\ sent[r] + Len(called[r]) < MaxData
    /\ \E t \in Tool : Send(r, Call(t)) /\ called' = [called EXCEPT ![r] = Append(@, t)]
    /\ server' = [server EXCEPT ![r] = "calling"]
    /\ UNCHANGED <<managerVars, sent, storeVars>>

SendResult(r) ==
    /\ server[r] = "calling"
    /\ Send(r, Result(Last(called[r]), Len(called[r])))
    /\ server' = [server EXCEPT ![r] = "answering"]
    /\ UNCHANGED <<managerVars, sent, called, storeVars>>

\* The answer is stored when the model has finished it, then comes [DONE].
SaveAnswer(r) ==
    /\ server[r] = "answering"
    /\ server' = [server EXCEPT ![r] = "saved"]
    /\ messages' = Append(messages, Answer(r, sent[r]))
    /\ UNCHANGED <<managerVars, sent, called, wire, saving>>

\* Mutant: [DONE] is sent when the model has finished, whatever is stored.
SendDoneEarly(r) ==
    /\ server[r] \in {"answering", "saved"}
    /\ Send(r, Done)
    /\ server' = [server EXCEPT ![r] = "done"]
    /\ UNCHANGED <<managerVars, sent, called, storeVars>>

SendDone(r) ==
    /\ server[r] = "saved"
    /\ Send(r, Done)
    /\ server' = [server EXCEPT ![r] = "done"]
    /\ UNCHANGED <<managerVars, sent, called, storeVars>>

\* An exception anywhere: an error frame is the last the browser looks at.
Fail(r) ==
    /\ server[r] \in {"asked", "answering", "calling", "saved"}
    /\ Send(r, Error)
    /\ server' = [server EXCEPT ![r] = "failed"]
    /\ UNCHANGED <<managerVars, sent, called, storeVars>>

\* The generator is cancelled once nobody reads its stream; it may be late.
Abandon(r) ==
    /\ server[r] \in {"asked", "answering", "calling", "saved"}
    /\ reader[r] \in {"aborted", "ended"}
    /\ server' = [server EXCEPT ![r] = "failed"]
    /\ UNCHANGED <<managerVars, sent, called, wire, storeVars>>

\* A partial answer reaches the session service, or is lost.
SavePartial ==
    /\ \E p \in saving : /\ saving' = saving \ {p}
                         /\ messages' \in {Append(messages, p), messages}
    /\ UNCHANGED <<managerVars, serverVars>>

-----------------------------------------------------------------------------
ServerStep(r) ==
    \/ SaveQuestion(r) \/ Refuse(r) \/ SendContent(r) \/ SendCall(r) \/ SendResult(r)
    \/ SaveAnswer(r) \/ SendDone(r) \/ Fail(r) \/ Abandon(r)

Next ==
    \/ \E r \in Run : \/ Start(r) \/ Unwind(r)
                      \/ Receive(r) \/ ReceiveEnd(r) \/ Disconnect(r)
                      \/ ServerStep(r)
    \/ HandleStop \/ DrainQueue \/ SavePartial

Spec == Init /\ [][Next]_vars

(***************************************************************************)
(* Fairness: continuations and intervals run, what was sent arrives, and   *)
(* the service gets on: its calls of the model and of the tools time out.  *)
(***************************************************************************)
Fairness ==
    /\ WF_vars(DrainQueue)
    /\ \A r \in Run : /\ WF_vars(Unwind(r))
                      /\ WF_vars(Receive(r) \/ ReceiveEnd(r))
                      /\ WF_vars(ServerStep(r))

FairSpec == Spec /\ Fairness

-----------------------------------------------------------------------------
(* Properties. *)

TypeOK ==
    /\ status \in Status
    /\ current \in 0..MaxRun
    /\ shown \in Nat
    /\ blocks \in Seq(Nat)
    /\ toolCalls \in Seq([tool : Tool, result : Nat])
    /\ queue \in Nat
    /\ typing \in BOOLEAN
    /\ donePending \in BOOLEAN
    /\ controller \in 0..MaxRun
    /\ reader \in [Run -> ReaderState]
    /\ server \in [Run -> ServerState]
    /\ sent \in [Run -> Nat]
    /\ received \in [Run -> Nat]

\* What arrived of the answer is on the screen or in the typewriter's queue,
\* each character once, whichever of the typewriter, the Stop button, an error
\* and the end of the stream comes first.
NothingLost == current # 0 => shown + queue = received[current]

\* A manager that says it streams has somebody who will end that: the run that
\* reads, which Stop can abort, or the typewriter with the end in its hands.
StreamingHasAnEnd ==
    Quiet /\ status = "streaming" =>
        \/ controller = current /\ reader[current] = "reading" /\ ~donePending
        \/ controller = 0 /\ donePending /\ typing

\* No run but the current one is still reading: a stream that was stopped, or
\* that failed, puts nothing into the answer to a later question.
OldRunsAreOver ==
    Quiet => \A r \in Run : reader[r] = "reading" => r = current /\ status = "streaming"

\* An answer shown as completed is the stored one, to its last character, when
\* the service did answer.
CompletedIsStored ==
    status = "completed" /\ server[current] # "refused" =>
        Contains(messages, Answer(current, shown))

\* In the table an answer, whole or partial, comes after its question.
QuestionComesFirst ==
    \A i \in DOMAIN messages :
        messages[i].role = "assistant" =>
            \E j \in 1..(i - 1) : messages[j] = Question(messages[i].run)

\* An answer that has ended stays as it is until the next question.
EndIsFinal ==
    [][(status \in Terminal /\ current' = current) => (status' = status /\ shown' = shown)]_vars

\* An answer ends: it is completed, fails or is stopped.
StreamingEnds == status = "streaming" ~> status # "streaming"

\* "at the time of the stop the DB has the user message only, the assistant
\* message is gone" (handleStop, ChatPanel.tsx): a question gets one answer.
AtMostOneAnswer ==
    \A i, j \in DOMAIN messages :
        messages[i].role = "assistant" /\ messages[j].role = "assistant"
        /\ messages[i].run = messages[j].run => i = j

-----------------------------------------------------------------------------
(* Why they hold: the inductive invariant of ChatStreamProofs. *)

Frame ==
    [kind : {"content"}, n : Nat] \cup [kind : {"function"}, tool : Tool]
    \cup [kind : {"function_result"}, tool : Tool, n : Nat] \cup [kind : {"error", "done"}]

Row == [role : {"user", "assistant"}, run : Run, size : Nat]

\* The service's half of the type, which TypeOK leaves out.
DataOK ==
    /\ wire \in [Run -> Seq(Frame)]
    /\ called \in [Run -> Seq(Tool)]
    /\ \A r \in Run : server[r] = "calling" => called[r] # <<>>
    /\ messages \in Seq(Row)
    /\ saving \subseteq Row

\* A run that is still to come has done nothing.
FutureRuns == \A r \in Run : r > current => reader[r] = "idle" /\ received[r] = 0

\* The run whose read was rejected is the current one, and is all ended but
\* for its catch block.
AbortedRun ==
    \A r \in Run : reader[r] = "aborted" =>
        r = current /\ status = "aborted" /\ controller = 0 /\ queue = 0 /\ ~donePending

ReadingRun ==
    \A r \in Run : reader[r] = "reading" =>
        r = current /\ status = "streaming" /\ controller = r /\ ~donePending

StreamingRun ==
    status = "streaming" =>
        /\ current \in Run
        /\ \/ reader[current] = "reading"
           \/ reader[current] = "ended" /\ donePending /\ typing /\ controller = 0

Typewriter ==
    /\ donePending => status = "streaming"
    /\ queue > 0 => typing /\ status = "streaming"

BeforeTheFirst == current = 0 => status = "idle"

IInv ==
    /\ TypeOK /\ DataOK /\ FutureRuns /\ AbortedRun /\ ReadingRun /\ StreamingRun
    /\ Typewriter /\ BeforeTheFirst /\ NothingLost

Stored(r) == \E j \in DOMAIN messages : messages[j] = Question(r)

FramesAreStored ==
    \A r \in Run : \A i \in DOMAIN wire[r] :
        wire[r][i].kind \in {"content", "function"} => Stored(r)

\* Whatever the browser or the service holds of an answer, its question is in
\* the table.
QuestionIsStored ==
    /\ \A r \in Run : server[r] \in {"answering", "calling", "saved"} => Stored(r)
    /\ FramesAreStored
    /\ \A r \in Run : received[r] > 0 => Stored(r)
    /\ blocks # <<>> => Stored(current)
    /\ \A p \in saving : Stored(p.run)

OrderInv == IInv /\ QuestionIsStored /\ QuestionComesFirst

\* What a frame adds to the text.
Size(f) == IF f.kind = "content" THEN f.n ELSE 0

\* Counting the text of the frames in w leads from one number to the other.
Counts(w, from, to) ==
    \E count \in [0..Len(w) -> 0..to] :
        /\ count[0] = from /\ count[Len(w)] = to
        /\ \A i \in DOMAIN w : count[i] = count[i - 1] + Size(w[i])

FutureIsSilent == \A r \in Run : r > current => server[r] = "idle" /\ sent[r] = 0 /\ wire[r] = <<>>

\* What a browser that reads still lacks is on the wire.
TextIsOnItsWay == \A r \in Run : reader[r] = "reading" => Counts(wire[r], received[r], sent[r])

SavedIsStored ==
    \A r \in Run : server[r] \in {"saved", "done"} => Contains(messages, Answer(r, sent[r]))

\* Nothing follows [DONE].
DoneIsLast ==
    \A r \in Run : \A i \in DOMAIN wire[r] :
        wire[r][i].kind = "done" => server[r] = "done" /\ i = Len(wire[r])

\* An end that waits for the typewriter, or has come, is that of a stored answer.
EndIsStored ==
    (donePending \/ status = "completed") /\ server[current] # "refused" =>
        Contains(messages, Answer(current, received[current]))

StoreInv ==
    IInv /\ FutureIsSilent /\ TextIsOnItsWay /\ SavedIsStored /\ DoneIsLast /\ EndIsStored

=============================================================================
