--------------------------- MODULE TerminalSession ---------------------------
(***************************************************************************)
(* One interactive terminal: a PodExecTerminal ("exec") or a               *)
(* NodeShellTerminal ("debug") in the browser, the handler of k8s-service  *)
(* behind its web socket (PodExecWS, NodeDebugShellWS) with the two        *)
(* goroutines that copy in each direction, and the shell they reach.  The  *)
(* debug handler makes a privileged pod on the node first, waits for it,   *)
(* attaches to it, and deletes it with a deferred call.                    *)
(*                                                                         *)
(* What the shell prints and what the user types is abstracted to what the *)
(* two copiers can tell apart: there is output to forward or there is not, *)
(* and a frame is a key or the line "exit".  The shell is external: a line *)
(* "exit" ends it only at an empty prompt; after other text on the line it *)
(* is part of a command, and a program in the foreground swallows it.      *)
(***************************************************************************)
EXTENDS Naturals, Sequences

CONSTANT MaxKeys        \* keys the user types in all (bound of the model)

ASSUME MaxKeysAssumption == MaxKeys \in Nat

Frame == {"key", "exit"}

VARIABLES
  kind,         \* which of the two terminals this is
  mounted,      \* the component is on the screen
  status,       \* what its header says
  sock,         \* readyState of its web socket
  up,           \* frames on their way to the service, oldest first
  conn,         \* the service's end of it: "ended" once no frame follows up
  srv,          \* where the handler is
  fromBrowser,  \* the goroutine Browser -> K8s
  toBrowser,    \* the goroutine K8s -> Browser
  attach,       \* k8sWS, the connection to the container
  pod,          \* the debug pod
  shell,        \* the container's shell: its line is empty or not, or busy
  output,       \* the shell has printed something not yet forwarded
  apiLost,      \* an answer of the API server about the pod was lost
  typed         \* keys typed so far

vars == <<kind, mounted, status, sock, up, conn, srv, fromBrowser, toBrowser,
          attach, pod, shell, output, apiLost, typed>>

browserVars == <<mounted, status, sock, typed>>
copiers     == <<fromBrowser, toBrowser>>
container   == <<shell, output>>

-----------------------------------------------------------------------------
(* The effect of a terminal has just run: new WebSocket(wsUrl).            *)

Init ==
  /\ kind \in {"exec", "debug"}
  /\ mounted = TRUE /\ status = "connecting" /\ sock = "connecting"
  /\ up = <<>> /\ conn = "none" /\ srv = "idle"
  /\ fromBrowser = "off" /\ toBrowser = "off" /\ attach = "none"
  /\ pod = "none" /\ shell = "none" /\ output = FALSE
  /\ apiLost = FALSE /\ typed = 0

-----------------------------------------------------------------------------
(* The browser.                                                            *)

\* ws.onopen
Opens ==
  /\ mounted /\ sock = "connecting" /\ conn # "none"
  /\ sock' = "open" /\ status' = "connected"
  /\ UNCHANGED <<kind, mounted, up, conn, srv, copiers, attach, pod, container,
                 apiLost, typed>>

\* ws.onclose: the handler returned and closed its end; the header stays.
SeesClosed ==
  /\ sock = "open" /\ conn = "closed"
  /\ sock' = "closed"
  /\ UNCHANGED <<kind, mounted, status, up, conn, srv, copiers, attach, pod,
                 container, apiLost, typed>>

\* term.onData
Type ==
  /\ mounted /\ sock = "open" /\ typed < MaxKeys
  /\ typed' = typed + 1
  /\ up' = IF conn = "open" THEN Append(up, "key") ELSE up
  /\ UNCHANGED <<kind, mounted, status, sock, conn, srv, copiers, attach, pod,
                 container, apiLost>>

\* The cleanup of the effect: ws.send throws while the socket is connecting.
\* The close button sends a line "exit" of its own before it unmounts.
Unmount ==
  /\ mounted
  /\ mounted' = FALSE /\ sock' = "closed"
  /\ \E exits \in {<<"exit">>, <<"exit", "exit">>} :
       up' = IF sock = "open" /\ conn = "open" THEN up \o exits ELSE up
  /\ conn' = IF conn = "open" THEN "ended" ELSE conn
  /\ UNCHANGED <<kind, status, srv, copiers, attach, pod, container, apiLost, typed>>

\* The connection breaks (network, or the proxy's hour without a frame):
\* what was on its way is lost.
Lose ==
  /\ conn = "open"
  /\ conn' = "ended" /\ up' = <<>>
  /\ sock' = "closed"
  /\ status' \in {status, "error"}
  /\ UNCHANGED <<kind, mounted, srv, copiers, attach, pod, container, apiLost, typed>>

-----------------------------------------------------------------------------
(* The handler.  Cleanup stands for the deferred calls, in their order.    *)

\* 403, or the upgrade fails: ws.onerror
Refuse ==
  /\ srv = "idle"
  /\ srv' = "done" /\ conn' = "closed" /\ sock' = "closed"
  /\ status' = IF mounted THEN "error" ELSE status
  /\ UNCHANGED <<kind, mounted, up, copiers, attach, pod, container, apiLost, typed>>

\* The browser may have gone while the request was on its way.
Accept ==
  /\ srv = "idle"
  /\ srv' = IF kind = "debug" THEN "create" ELSE "dial"
  /\ conn' = IF mounted THEN "open" ELSE "ended"
  /\ UNCHANGED <<kind, browserVars, up, copiers, attach, pod, container, apiLost>>

Create ==
  /\ srv = "create"
  /\ pod' = "pending" /\ srv' = "wait"
  /\ UNCHANGED <<kind, browserVars, up, conn, copiers, attach, container, apiLost>>

\* The defer that deletes the pod is registered after this return: a pod the
\* API server made but did not answer about is nobody's.
CreateFails ==
  /\ srv = "create"
  /\ pod' \in {"none", "pending"}
  /\ apiLost' = (pod' # "none")
  /\ srv' = "done" /\ conn' = "closed"
  /\ UNCHANGED <<kind, browserVars, up, copiers, attach, container>>

Tick ==
  /\ srv = "wait"
  /\ \/ pod = "running" /\ srv' = "dial"
     \/ pod = "ended"   /\ srv' = "cleanup"
  /\ UNCHANGED <<kind, browserVars, up, conn, copiers, attach, pod, container, apiLost>>

\* Mutant: the deferred Delete is registered after the wait.
WaitTimesOutEarly ==
  /\ srv = "wait"
  /\ srv' = "done" /\ conn' = "closed"
  /\ UNCHANGED <<kind, browserVars, up, copiers, attach, pod, container, apiLost>>

WaitTimesOut ==
  /\ srv = "wait"
  /\ srv' = "cleanup"
  /\ UNCHANGED <<kind, browserVars, up, conn, copiers, attach, pod, container, apiLost>>

\* The shell of an exec begins here; that of a debug pod began with the pod.
Dial ==
  /\ srv = "dial"
  /\ kind = "debug" => pod = "running"
  /\ srv' = "copy" /\ attach' = "open"
  /\ fromBrowser' = "on" /\ toBrowser' = "on"
  /\ shell' = IF kind = "exec" THEN "prompt" ELSE shell
  /\ output' = TRUE
  /\ UNCHANGED <<kind, browserVars, up, conn, pod, apiLost>>

DialFails ==
  /\ srv = "dial"
  /\ \/ kind = "debug" /\ srv' = "cleanup" /\ conn' = conn
     \/ kind = "exec"  /\ srv' = "done"    /\ conn' = "closed"
  /\ UNCHANGED <<kind, browserVars, up, copiers, attach, pod, container, apiLost>>

\* Mutant: wg.Add(1), the first of the two to return ends the session.
FinishFirst ==
  /\ srv = "copy" /\ "done" \in {fromBrowser, toBrowser}
  /\ attach' = "closed"
  /\ \/ kind = "debug" /\ srv' = "cleanup" /\ conn' = conn
     \/ kind = "exec"  /\ srv' = "done"    /\ conn' = "closed"
  /\ fromBrowser' = "done" /\ toBrowser' = "done"
  /\ UNCHANGED <<kind, browserVars, up, pod, container, apiLost>>

\* wg.Wait() returns; the deferred k8sWS.Close() is the first to run.
Finish ==
  /\ srv = "copy" /\ fromBrowser = "done" /\ toBrowser = "done"
  /\ attach' = "closed"
  /\ \/ kind = "debug" /\ srv' = "cleanup" /\ conn' = conn
     \/ kind = "exec"  /\ srv' = "done"    /\ conn' = "closed"
  /\ UNCHANGED <<kind, browserVars, up, copiers, pod, container, apiLost>>

\* The deferred Delete, whose error is ignored, and conn.Close().
Cleanup ==
  /\ srv = "cleanup"
  /\ \/ pod' = "none" /\ apiLost' = apiLost
     \/ pod' = pod    /\ apiLost' = TRUE
  /\ srv' = "done" /\ conn' = "closed"
  /\ UNCHANGED <<kind, browserVars, up, copiers, attach, container>>

-----------------------------------------------------------------------------
(* The two copiers.                                                        *)

ShellEnds ==
  /\ shell' = "exited"
  /\ attach' = IF attach = "open" THEN "ended" ELSE attach
  /\ pod' = IF pod = "running" THEN "ended" ELSE pod

\* What the shell does with a frame.
Feed(frame) ==
  \/ /\ shell = "prompt" /\ frame = "exit"
     /\ output' = TRUE
     /\ ShellEnds
  \/ /\ shell = "partial" /\ frame = "exit"
     /\ shell' \in {"prompt", "busy"} /\ output' = TRUE
     /\ UNCHANGED <<attach, pod>>
  \/ /\ shell \in {"prompt", "partial"} /\ frame = "key"
     /\ shell' \in {"prompt", "partial", "busy"} /\ output' = TRUE
     /\ UNCHANGED <<attach, pod>>
  \/ /\ shell = "busy"
     /\ \/ shell' = "busy" /\ output' \in {output, TRUE}
        \/ shell' \in {"prompt", "partial"} /\ output' = TRUE
     /\ UNCHANGED <<attach, pod>>

\* conn.ReadMessage() returned a frame, and k8sWS takes it
Relay ==
  /\ fromBrowser = "on" /\ up # <<>> /\ attach = "open"
  /\ Feed(Head(up))
  /\ up' = Tail(up)
  /\ UNCHANGED <<kind, browserVars, conn, srv, copiers, apiLost>>

\* ... or k8sWS is gone: an error, or a write nobody receives
RelayToNobody ==
  /\ fromBrowser = "on" /\ up # <<>> /\ attach = "ended"
  /\ fromBrowser' \in {"on", "done"}
  /\ up' = Tail(up)
  /\ UNCHANGED <<kind, browserVars, conn, srv, toBrowser, attach, pod, container, apiLost>>

\* Mutant: the shell is not told to exit.
BrowserLeftQuietly ==
  /\ fromBrowser = "on" /\ up = <<>> /\ conn = "ended"
  /\ fromBrowser' = "done"
  /\ UNCHANGED <<kind, browserVars, up, conn, srv, toBrowser, attach, pod, container,
                 apiLost>>

\* conn.ReadMessage() failed: the shell is told to exit
BrowserLeft ==
  /\ fromBrowser = "on" /\ up = <<>> /\ conn = "ended"
  /\ fromBrowser' = "done"
  /\ \/ attach = "open" /\ Feed("exit")
     \/ attach = "ended" /\ UNCHANGED <<attach, pod, container>>
  /\ UNCHANGED <<kind, browserVars, up, conn, srv, toBrowser, apiLost>>

\* A write to a browser that has left may still seem to succeed, until its
\* leaving has been read.
Forward ==
  /\ toBrowser = "on" /\ output
  /\ output' = FALSE
  /\ \/ conn = "open" /\ toBrowser' = "on"
     \/ conn = "ended" /\ fromBrowser = "on" /\ toBrowser' \in {"on", "done"}
     \/ conn = "ended" /\ fromBrowser = "done" /\ toBrowser' = "done"
  /\ UNCHANGED <<kind, browserVars, up, conn, srv, fromBrowser, attach, pod, shell,
                 apiLost>>

\* k8sWS.ReadMessage() failed
ContainerLeft ==
  /\ toBrowser = "on" /\ ~output /\ attach = "ended"
  /\ toBrowser' = "done"
  /\ UNCHANGED <<kind, browserVars, up, conn, srv, fromBrowser, attach, pod, container,
                 apiLost>>

-----------------------------------------------------------------------------
(* The cluster, external.                                                  *)

PodStarts ==
  /\ pod = "pending"
  /\ pod' = "running" /\ shell' = "prompt"
  /\ UNCHANGED <<kind, browserVars, up, conn, srv, copiers, attach, output, apiLost>>

PodFails ==
  /\ pod = "pending"
  /\ pod' = "ended"
  /\ UNCHANGED <<kind, browserVars, up, conn, srv, copiers, attach, container, apiLost>>

\* The container is killed, or its node is lost.
ContainerDies ==
  /\ attach = "open" \/ pod = "running"
  /\ ShellEnds
  /\ UNCHANGED <<kind, browserVars, up, conn, srv, copiers, output, apiLost>>

ProgramEnds ==
  /\ shell = "busy" /\ attach = "open"
  /\ shell' = "prompt" /\ output' = TRUE
  /\ UNCHANGED <<kind, browserVars, up, conn, srv, copiers, attach, pod, apiLost>>

-----------------------------------------------------------------------------
Handler ==
  \/ Create \/ CreateFails \/ Tick \/ WaitTimesOut \/ Dial \/ DialFails
  \/ Finish \/ Cleanup

FromBrowser == Relay \/ RelayToNobody \/ BrowserLeft

ToBrowser == Forward \/ ContainerLeft

Next ==
  \/ Opens \/ SeesClosed \/ Type \/ Unmount \/ Lose
  \/ Refuse \/ Accept
  \/ Handler \/ FromBrowser \/ ToBrowser
  \/ PodStarts \/ PodFails \/ ContainerDies \/ ProgramEnds

Spec == Init /\ [][Next]_vars

\* The scheduler runs the handler and its goroutines, timers fire, API calls
\* return.  That a program in the foreground ends is an assumption about the
\* user, made for DepartureEndsTheSession only; nothing is assumed about the
\* pod, the container, the network or the user otherwise.
FairSpec ==
  /\ Spec
  /\ WF_vars(Handler) /\ WF_vars(FromBrowser) /\ WF_vars(ToBrowser)
  /\ WF_vars(ProgramEnds)

-----------------------------------------------------------------------------
\* The variables hold what the code puts in them.
TypeOK ==
  /\ kind \in {"exec", "debug"} /\ mounted \in BOOLEAN
  /\ status \in {"connecting", "connected", "error"}
  /\ sock \in {"connecting", "open", "closed"}
  /\ up \in Seq(Frame)
  /\ conn \in {"none", "open", "ended", "closed"}
  /\ srv \in {"idle", "create", "wait", "dial", "copy", "cleanup", "done"}
  /\ fromBrowser \in {"off", "on", "done"} /\ toBrowser \in {"off", "on", "done"}
  /\ attach \in {"none", "open", "ended", "closed"}
  /\ pod \in {"none", "pending", "running", "ended"}
  /\ shell \in {"none", "prompt", "partial", "busy", "exited"}
  /\ output \in BOOLEAN /\ apiLost \in BOOLEAN /\ typed \in 0 .. MaxKeys

\* On whichever path the handler returns, it leaves no privileged pod, no
\* connection to a container and no open socket behind, unless the API server
\* lost its answer: the early returns against the order of the deferred calls.
NothingIsLeft ==
  srv = "done" =>
    /\ pod = "none" \/ apiLost
    /\ attach \in {"none", "closed"}
    /\ conn = "closed"

\* Whatever the user sent before leaving, the line "exit" of the terminal's
\* cleanup included, reaches the shell: the handler never stops copying with
\* frames unread unless the shell is gone.
FramesAreDelivered ==
  [][(srv = "copy" /\ srv' # "copy" /\ up # <<>>) => (attach = "ended")]_vars

\* A terminal that left (closed, or its connection broken) while its session
\* was being set up or was running leads to the end of that session, and so
\* to the deletion of the debug pod, whatever line or program it left behind.
DepartureEndsTheSession == (conn = "ended") ~> (srv = "done")
-----------------------------------------------------------------------------
(* Why they hold: the inductive invariant of TerminalSessionProofs.        *)

\* The handler has nothing to clean up before it has made something, and an
\* exec never makes a pod.
NothingYet ==
  /\ srv \in {"idle", "create"} => pod = "none"
  /\ srv \in {"create", "wait"} => kind = "debug"
  /\ kind = "exec" => pod = "none"
  /\ srv \in {"idle", "create", "wait", "dial", "cleanup"} => attach \in {"none", "closed"}

\* The goroutine Browser -> K8s returns only when the container is gone, or
\* when it has read all that the browser will ever send.
ReaderReturned ==
  srv = "copy" /\ fromBrowser = "done" =>
    attach = "ended" \/ (up = <<>> /\ conn # "open")

IInv == TypeOK /\ NothingYet /\ ReaderReturned /\ NothingIsLeft
=============================================================================
