------------------------ MODULE TerminalSessionProofs ------------------------
(* Theorems about TerminalSession, for any number of keys. *)
EXTENDS TerminalSession, TLAPS

-----------------------------------------------------------------------------
(* Type correctness. *)

LEMMA InvInit == Init => IInv
<1> SUFFICES ASSUME Init PROVE IInv
  OBVIOUS
<1>1. typed \in 0 .. MaxKeys /\ up \in Seq(Frame)
  BY MaxKeysAssumption DEF Init
<1>2. output \in BOOLEAN /\ apiLost \in BOOLEAN /\ mounted \in BOOLEAN
  BY DEF Init
<1>3. TypeOK
  BY <1>1, <1>2 DEF Init, TypeOK
<1>4. QED
  BY <1>3 DEF Init, IInv, NothingYet, ReaderReturned, NothingIsLeft

\* Frames are keys and the line "exit", also when a terminal sends two lines.
LEMMA FramesStayFrames ==
  ASSUME up \in Seq(Frame)
  PROVE  /\ Append(up, "key") \in Seq(Frame)
         /\ \A exits \in {<<"exit">>, <<"exit", "exit">>} : up \o exits \in Seq(Frame)
         /\ up # <<>> => Tail(up) \in Seq(Frame) /\ Head(up) \in Frame
BY DEF Frame

LEMMA TypeBrowser ==
  ASSUME TypeOK, Opens \/ SeesClosed \/ Type \/ Unmount \/ Lose \/ Refuse \/ Accept
  PROVE  TypeOK'
<1> USE MaxKeysAssumption DEF TypeOK, copiers, container, browserVars
<1>1. CASE Opens \/ SeesClosed
  BY <1>1 DEF Opens, SeesClosed
<1>2. CASE Type
  BY <1>2, FramesStayFrames DEF Type
<1>3. CASE Unmount
  <2>1. up' \in Seq(Frame)
    BY <1>3, FramesStayFrames DEF Unmount
  <2>2. mounted' \in BOOLEAN /\ conn' \in {"none", "open", "ended", "closed"}
    BY <1>3 DEF Unmount
  <2>3. QED
    BY <1>3, <2>1, <2>2 DEF Unmount
<1>4. CASE Lose
  BY <1>4 DEF Lose
<1>5. CASE Refuse
  BY <1>5 DEF Refuse
<1>6. CASE Accept
  BY <1>6 DEF Accept
<1>7. QED
  BY <1>1, <1>2, <1>3, <1>4, <1>5, <1>6

LEMMA TypeHandler == ASSUME TypeOK, Handler PROVE TypeOK'
<1> USE DEF TypeOK, copiers, container, browserVars
<1>1. CASE Create \/ Tick \/ WaitTimesOut
  BY <1>1 DEF Create, Tick, WaitTimesOut
<1>2. CASE CreateFails
  <2>1. apiLost' \in BOOLEAN
    BY <1>2 DEF CreateFails
  <2>2. QED
    BY <1>2, <2>1 DEF CreateFails
<1>3. CASE Dial
  BY <1>3 DEF Dial
<1>4. CASE DialFails
  BY <1>4 DEF DialFails
<1>5. CASE Finish
  BY <1>5 DEF Finish
<1>6. CASE Cleanup
  <2>1. apiLost' \in BOOLEAN /\ pod' \in {"none", "pending", "running", "ended"}
    BY <1>6 DEF Cleanup
  <2>2. QED
    BY <1>6, <2>1 DEF Cleanup
<1>7. QED
  BY <1>1, <1>2, <1>3, <1>4, <1>5, <1>6 DEF Handler

\* Whatever the shell does with a frame.
LEMMA TypeFeed ==
  ASSUME TypeOK, NEW frame, Feed(frame)
  PROVE  /\ shell' \in {"prompt", "partial", "busy", "exited"}
         /\ output' \in BOOLEAN
         /\ attach' = attach \/ (attach = "open" /\ attach' = "ended")
         /\ pod' = pod \/ (pod = "running" /\ pod' = "ended")
BY DEF TypeOK, Feed, ShellEnds

LEMMA TypeCopiers == ASSUME TypeOK, FromBrowser \/ ToBrowser PROVE TypeOK'
<1> USE DEF TypeOK, copiers, container, browserVars
<1>1. CASE Relay
  BY <1>1, TypeFeed, FramesStayFrames DEF Relay
<1>2. CASE RelayToNobody
  BY <1>2, FramesStayFrames DEF RelayToNobody
<1>3. CASE BrowserLeft
  BY <1>3, TypeFeed DEF BrowserLeft
<1>4. CASE Forward
  <2>1. output' \in BOOLEAN /\ toBrowser' \in {"off", "on", "done"}
    BY <1>4 DEF Forward
  <2>2. QED
    BY <1>4, <2>1 DEF Forward
<1>5. CASE ContainerLeft
  BY <1>5 DEF ContainerLeft
<1>6. QED
  BY <1>1, <1>2, <1>3, <1>4, <1>5 DEF FromBrowser, ToBrowser

LEMMA TypeCluster ==
  ASSUME TypeOK, PodStarts \/ PodFails \/ ContainerDies \/ ProgramEnds
  PROVE  TypeOK'
<1> USE DEF TypeOK, copiers, container, browserVars
<1>1. CASE PodStarts \/ PodFails \/ ProgramEnds
  BY <1>1 DEF PodStarts, PodFails, ProgramEnds
<1>2. CASE ContainerDies
  BY <1>2 DEF ContainerDies, ShellEnds
<1>3. QED
  BY <1>1, <1>2

-----------------------------------------------------------------------------
(* The other conjuncts. *)

LEMMA InvBrowser ==
  ASSUME IInv, Opens \/ SeesClosed \/ Type \/ Unmount \/ Lose \/ Refuse \/ Accept
  PROVE  NothingYet' /\ ReaderReturned' /\ NothingIsLeft'
<1> USE DEF IInv, TypeOK, NothingYet, ReaderReturned, NothingIsLeft, copiers, container, browserVars
<1>1. CASE Opens \/ SeesClosed
  BY <1>1 DEF Opens, SeesClosed
<1>2. CASE Type
  BY <1>2 DEF Type
<1>3. CASE Unmount
  BY <1>3 DEF Unmount
<1>4. CASE Lose
  BY <1>4 DEF Lose
<1>5. CASE Refuse \/ Accept
  BY <1>5 DEF Refuse, Accept
<1>6. QED
  BY <1>1, <1>2, <1>3, <1>4, <1>5

LEMMA InvHandler == ASSUME IInv, Handler PROVE NothingYet' /\ ReaderReturned' /\ NothingIsLeft'
<1> USE DEF IInv, TypeOK, NothingYet, ReaderReturned, NothingIsLeft, copiers, container, browserVars
<1>1. CASE Create \/ CreateFails
  BY <1>1 DEF Create, CreateFails
<1>2. CASE Tick \/ WaitTimesOut
  BY <1>2 DEF Tick, WaitTimesOut
<1>3. CASE Dial \/ DialFails
  BY <1>3 DEF Dial, DialFails
<1>4. CASE Finish \/ Cleanup
  BY <1>4 DEF Finish, Cleanup
<1>5. QED
  BY <1>1, <1>2, <1>3, <1>4 DEF Handler

LEMMA InvCopiers ==
  ASSUME IInv, FromBrowser \/ ToBrowser
  PROVE  NothingYet' /\ ReaderReturned' /\ NothingIsLeft'
<1> USE DEF IInv, NothingYet, ReaderReturned, NothingIsLeft, copiers, container, browserVars
<1>1. CASE Relay
  BY <1>1, TypeFeed DEF Relay, TypeOK
<1>2. CASE RelayToNobody
  BY <1>2 DEF RelayToNobody, TypeOK
<1>3. CASE BrowserLeft
  BY <1>3, TypeFeed DEF BrowserLeft, TypeOK
<1>4. CASE Forward \/ ContainerLeft
  BY <1>4 DEF Forward, ContainerLeft, TypeOK
<1>5. QED
  BY <1>1, <1>2, <1>3, <1>4 DEF FromBrowser, ToBrowser

LEMMA InvCluster ==
  ASSUME IInv, PodStarts \/ PodFails \/ ContainerDies \/ ProgramEnds
  PROVE  NothingYet' /\ ReaderReturned' /\ NothingIsLeft'
BY DEF IInv, TypeOK, NothingYet, ReaderReturned, NothingIsLeft, copiers, container, browserVars,
       PodStarts, PodFails, ContainerDies, ShellEnds, ProgramEnds

\* The invariant is inductive.
LEMMA InvStep == IInv /\ [Next]_vars => IInv'
<1> SUFFICES ASSUME IInv, [Next]_vars PROVE IInv'
  OBVIOUS
<1>1. CASE Opens \/ SeesClosed \/ Type \/ Unmount \/ Lose \/ Refuse \/ Accept
  BY <1>1, TypeBrowser, InvBrowser DEF IInv
<1>2. CASE Handler
  BY <1>2, TypeHandler, InvHandler DEF IInv
<1>3. CASE FromBrowser \/ ToBrowser
  BY <1>3, TypeCopiers, InvCopiers DEF IInv
<1>4. CASE PodStarts \/ PodFails \/ ContainerDies \/ ProgramEnds
  BY <1>4, TypeCluster, InvCluster DEF IInv
<1>5. CASE UNCHANGED vars
  BY <1>5 DEF vars, IInv, TypeOK, NothingYet, ReaderReturned, NothingIsLeft
<1>6. QED
  BY <1>1, <1>2, <1>3, <1>4, <1>5 DEF Next

-----------------------------------------------------------------------------
(* The theorems. *)

\* The browser, the handler, its goroutines and the cluster keep the invariant.
THEOREM Invariance == Spec => []IInv
BY InvInit, InvStep, PTL DEF Spec

\* Every variable holds what the code puts in it.
THEOREM TypeCorrect == Spec => []TypeOK
<1>1. IInv => TypeOK
  BY DEF IInv
<1>2. QED
  BY <1>1, Invariance, PTL

\* Whichever return ends the handler, no pod, connection or socket is left.
THEOREM CleanupIsComplete == Spec => []NothingIsLeft
<1>1. IInv => NothingIsLeft
  BY DEF IInv
<1>2. QED
  BY <1>1, Invariance, PTL

\* However much was typed, the handler stops copying only when it has handed
\* over every frame, or the container is gone.
THEOREM DeliveryCorrect == Spec => FramesAreDelivered
<1> DEFINE Delivered == (srv = "copy" /\ srv' # "copy" /\ up # <<>>) => (attach = "ended")
<1>1. ASSUME IInv, Next PROVE Delivered
  <2> USE <1>1
  <2>1. CASE Opens \/ SeesClosed \/ Type \/ Unmount \/ Lose \/ Refuse \/ Accept
    BY <2>1 DEF Opens, SeesClosed, Type, Unmount, Lose, Refuse, Accept
  <2>2. CASE Handler
    BY <2>2 DEF Handler, Create, CreateFails, Tick, WaitTimesOut, Dial, DialFails, Finish, Cleanup,
                IInv, ReaderReturned
  <2>3. CASE FromBrowser \/ ToBrowser
    BY <2>3 DEF FromBrowser, ToBrowser, Relay, RelayToNobody, BrowserLeft, Forward, ContainerLeft
  <2>4. CASE PodStarts \/ PodFails \/ ContainerDies \/ ProgramEnds
    BY <2>4 DEF PodStarts, PodFails, ContainerDies, ProgramEnds
  <2>5. QED
    BY <2>1, <2>2, <2>3, <2>4 DEF Next
<1>2. IInv /\ [Next]_vars => [Delivered]_vars
  BY <1>1
<1>3. QED
  BY <1>2, Invariance, PTL DEF Spec, FramesAreDelivered

=============================================================================
