------------------------ MODULE SwitchUSBBackendProofs ------------------------
(***************************************************************************)
(* The safety properties of SwitchUSBBackend, for any set of press         *)
(* requests and whether or not join() may time out, and that the backend   *)
(* keeps the contract of GamepadBackend. The inductive invariant says what *)
(* connect() has built, and for each of the two callers of _teardown what  *)
(* it has undone, as long as they do not overlap.                          *)
(***************************************************************************)
EXTENDS SwitchUSBBackend, TLAPS

ThreadPcs == CallerPcs \cup KaPcs \cup PressPcs

\* The threads are known by different names.
LEMMA ThreadFacts ==
    /\ "conn" \in Threads /\ "disc" \in Threads /\ "ka" \in Threads
    /\ \A p \in Presses : p \in Threads /\ p \notin {"conn", "disc", "ka", "none"}
    /\ \A who \in Callers : who \in {"conn", "disc"} /\ who \in Threads
BY ConstantsAssumption DEF Threads, Callers

(***************************************************************************)
(* The inductive invariant                                                 *)
(***************************************************************************)
\* Where connect() stands after the step that makes each attribute true.
HasConn == {"proto", "handshake", "shaking", "adopt", "clear", "thread", "start",
            "ready", "return", "done"}
HasProto == HasConn \ {"proto"}
HasBound == {"wait", "open"} \cup HasConn
HasGadget == {"bind", "binding"} \cup HasBound
HasRef == {"start", "ready", "return", "done"}
HasStarted == {"ready", "return", "done"}

Typed == TypeOK /\ pc \in [Threads -> ThreadPcs]

\* What each thread may count on, raced or not: nothing runs before connect(),
\* and a failing connect() leaves the state "error" until it has ended.
Threading ==
    /\ pc["disc"] = "idle" => ~raced
    /\ pc["disc"] # "idle" /\ ~raced => ~Connecting
    /\ pc["conn"] = "idle" => pc["ka"] = "none" /\ \A p \in Presses : pc[p] = "idle"
    /\ state = "connected" => pc["conn"] = "done"
    /\ pc["conn"] \in TeardownSteps => state = "error"
    /\ pc["conn"] \in {"idle", "setup", "bind", "binding", "wait", "open"}
         => ~conn /\ fd = "none"
    /\ pc["conn"] \in {"idle", "setup"} \cup (HasGadget \ HasRef) => pc["ka"] = "none"
    /\ pc["conn"] = "start" => pc["ka"] = "none"

\* What connect() has built is there as long as disconnect() was not called.
Building ==
    pc["disc"] = "idle" =>
        /\ pc["conn"] \in HasGadget => gadget
        /\ pc["conn"] \in HasBound => bound
        /\ pc["conn"] \in HasConn => conn /\ fd = "open"
        /\ pc["conn"] \in HasProto => proto
        /\ pc["conn"] \in HasRef => kaRef
        /\ pc["conn"] \in HasStarted => pc["ka"] \notin {"none", "stopped"}
        /\ stop => pc["conn"] \in TeardownSteps \cup {"failed"}

\* What is open can be found by who has to close it, but for a UDC whose release
\* failed.
Owned ==
    ~raced =>
        /\ bound => gadget \/ leaked
        /\ fd = "open" => conn
        /\ kaRef /\ pc["ka"] = "none" => pc["conn"] = "start"

\* Where the teardown deals with the gadget.
Unbinding == {"unbind", "look", "release", "drop"}

\* What a teardown that runs alone has undone so far.
Undone(who) ==
    /\ pc[who] \in {"join", "joining", "close", "closing", "null"} \cup Unbinding => stop
    /\ pc[who] \in {"close", "closing", "null"} \cup Unbinding => ~kaRef
    /\ pc[who] = "joining" => kaRef
    /\ pc[who] = "closing" => conn
    /\ pc[who] = "null" => fd # "open"
    /\ pc[who] \in Unbinding => ~conn /\ ~proto
    /\ pc[who] = "drop" => (bound => leaked)
    /\ pc[who] # "raise"

Undoing ==
    /\ pc["disc"] = "idle" => Undone("conn")
    /\ ~raced => Undone("disc") /\ pc["disc"] # "failed"
    /\ pc["disc"] = "idle" /\ pc["conn"] = "failed" => Released
    /\ ~raced /\ pc["disc"] \in {"returning", "done"} => Released

BackendInv == Typed /\ Threading /\ Building /\ Owned /\ Undoing

-----------------------------------------------------------------------------
\* Every step keeps the types.
LEMMA StepTyped == Typed /\ [Next]_vars => Typed'
<1> SUFFICES ASSUME Typed, [Next]_vars PROVE Typed'
  OBVIOUS
<1> USE DEF Typed, TypeOK, Go, attrs, thread, device, sends, ControllerState, Callers,
        CallerPcs, ConnectSteps, TeardownSteps, KaPcs, PressPcs, ThreadPcs, Senders
<1> QED
  <2>1. CASE Connect
    <3>1. CASE ConnectCall
      BY <3>1, ThreadFacts DEF ConnectCall, ConnectUnchanged
    <3>2. CASE SetupGadget
      BY <3>2, ThreadFacts DEF SetupGadget, ConnectUnchanged, Raise
    <3>3. CASE BindUdc
      BY <3>3, ThreadFacts DEF BindUdc, ConnectUnchanged, Raise
    <3>4. CASE WriteUdc
      <4>1. bound' \in BOOLEAN
        BY <3>4, Zenon DEF WriteUdc, ConnectUnchanged, Raise
      <4> QED
        BY <3>4, <4>1, ThreadFacts DEF WriteUdc, ConnectUnchanged, Raise
    <3>5. CASE WaitForHidg
      BY <3>5, ThreadFacts DEF WaitForHidg, ConnectUnchanged, Raise
    <3>6. CASE OpenHidg
      <4>1. conn' \in BOOLEAN
        BY <3>6, Zenon DEF OpenHidg, ConnectUnchanged, Raise
      <4> QED
        BY <3>6, <4>1, ThreadFacts DEF OpenHidg, ConnectUnchanged, Raise
    <3>7. CASE MakeProtocol
      BY <3>7, ThreadFacts DEF MakeProtocol, ConnectUnchanged
    <3>8. CASE StartHandshake
      BY <3>8, ThreadFacts DEF StartHandshake, ConnectUnchanged, Raise
    <3>9. CASE FinishHandshake
      BY <3>9, ThreadFacts DEF FinishHandshake, ConnectUnchanged, Raise
    <3>10. CASE AdoptReport
      BY <3>10, ThreadFacts DEF AdoptReport, ConnectUnchanged, Raise
    <3>11. CASE ClearStop
      <4>1. stop' \in BOOLEAN
        BY <3>11, Zenon DEF ClearStop, ConnectUnchanged
      <4> QED
        BY <3>11, <4>1, ThreadFacts DEF ClearStop, ConnectUnchanged
    <3>12. CASE MakeKeepalive
      BY <3>12, ThreadFacts DEF MakeKeepalive, ConnectUnchanged
    <3>13. CASE StartKeepalive
      BY <3>13, ThreadFacts DEF StartKeepalive, ConnectUnchanged, Raise
    <3>14. CASE ReportReady
      BY <3>14, ThreadFacts DEF ReportReady, ConnectUnchanged, Raise
    <3>15. CASE ConnectReturns
      BY <3>15, ThreadFacts DEF ConnectReturns, ConnectUnchanged
    <3>16. CASE ConnectFails
      BY <3>16, ThreadFacts DEF ConnectFails, ConnectUnchanged
    <3> QED
      BY <2>1, <3>1, <3>2, <3>3, <3>4, <3>5, <3>6, <3>7, <3>8, <3>9, <3>10, <3>11,
         <3>12, <3>13, <3>14, <3>15, <3>16 DEF Connect
  <2>2. ASSUME NEW who \in Callers, Teardown(who) PROVE Typed'
    <3>1. CASE SetStop(who)
      BY <3>1, ThreadFacts DEF SetStop, TeardownUnchanged
    <3>2. CASE FindKeepalive(who)
      BY <3>2, ThreadFacts DEF FindKeepalive, TeardownUnchanged
    <3>3. CASE JoinKeepalive(who)
      <4>1. kaRef' \in BOOLEAN
        BY <3>3, Zenon DEF JoinKeepalive, TeardownUnchanged
      <4> QED
        BY <3>3, <4>1, ThreadFacts DEF JoinKeepalive, TeardownUnchanged
    <3>4. CASE FindConnection(who)
      <4>1. proto' \in BOOLEAN
        BY <3>4, Zenon DEF FindConnection, TeardownUnchanged
      <4> QED
        BY <3>4, <4>1, ThreadFacts DEF FindConnection, TeardownUnchanged
    <3>5. CASE CloseConnection(who)
      BY <3>5, ThreadFacts DEF CloseConnection, TeardownUnchanged
    <3>6. CASE DropConnection(who)
      <4>1. conn' \in BOOLEAN /\ proto' \in BOOLEAN
        BY <3>6, Zenon DEF DropConnection, TeardownUnchanged
      <4> QED
        BY <3>6, <4>1, ThreadFacts DEF DropConnection, TeardownUnchanged
    <3>7. CASE FindGadget(who)
      BY <3>7, ThreadFacts DEF FindGadget, TeardownUnchanged, End
    <3>8. CASE CurrentUdc(who)
      <4>1. leaked' \in BOOLEAN
        BY <3>8, Zenon DEF CurrentUdc
      <4> QED
        BY <3>8, <4>1, ThreadFacts DEF CurrentUdc, TeardownUnchanged
    <3>9. CASE ReleaseUdc(who)
      <4>1. bound' \in BOOLEAN /\ leaked' \in BOOLEAN
        BY <3>9, Zenon DEF ReleaseUdc
      <4> QED
        BY <3>9, <4>1, ThreadFacts DEF ReleaseUdc, TeardownUnchanged
    <3>10. CASE DropGadget(who)
      <4>1. gadget' \in BOOLEAN
        BY <3>10, Zenon DEF DropGadget
      <4> QED
        BY <3>10, <4>1, ThreadFacts DEF DropGadget, TeardownUnchanged, End
    <3>11. CASE TeardownRaises(who)
      BY <3>11, ThreadFacts DEF TeardownRaises, TeardownUnchanged
    <3> QED
      BY <2>2, <3>1, <3>2, <3>3, <3>4, <3>5, <3>6, <3>7, <3>8, <3>9, <3>10, <3>11
         DEF Teardown
  <2>3. CASE DisconnectCall
    <3>1. raced' \in BOOLEAN
      BY <2>3, Zenon DEF DisconnectCall, Connecting
    <3> QED
      BY <2>3, <3>1, ThreadFacts DEF DisconnectCall
  <2>4. CASE DisconnectReturns
    BY <2>4, ThreadFacts DEF DisconnectReturns, LoopIsFree
  <2>5. CASE KaStep \/ KaAcquire
    <3>1. CASE KaCheckStop
      BY <3>1, ThreadFacts DEF KaCheckStop, SenderUnchanged
    <3>2. CASE KaAcquire
      BY <3>2, ThreadFacts DEF KaAcquire, SenderUnchanged
    <3>3. CASE KaIncoming
      <4>1. dirty' \in BOOLEAN
        BY <3>3, Zenon DEF KaIncoming, SenderUnchanged, KaError, KaDies
      <4> QED
        BY <3>3, <4>1, ThreadFacts DEF KaIncoming, SenderUnchanged, KaError, KaDies
    <3>4. CASE KaReply
      BY <3>4, ThreadFacts DEF KaReply, SenderUnchanged, KaError, KaDies
    <3>5. CASE KaBuild
      <4>1. dirty' \in BOOLEAN
        BY <3>5, Zenon DEF KaBuild, SenderUnchanged, KaDies
      <4> QED
        BY <3>5, <4>1, ThreadFacts DEF KaBuild, SenderUnchanged, KaDies
    <3>6. CASE KaSend
      BY <3>6, ThreadFacts DEF KaSend, SenderUnchanged, KaError, KaDies
    <3> QED
      BY <2>5, <3>1, <3>2, <3>3, <3>4, <3>5, <3>6 DEF KaStep
  <2>6. ASSUME NEW p \in Presses, PressRequest(p) \/ PressStep(p) \/ PressAcquire(p)
        PROVE  Typed'
    <3>1. CASE PressRequest(p)
      BY <3>1, ThreadFacts DEF PressRequest, SenderUnchanged, EnsureConnected
    <3>2. CASE PressUpdate(p)
      BY <3>2, ThreadFacts DEF PressUpdate, SenderUnchanged
    <3>3. CASE PressAcquire(p)
      BY <3>3, ThreadFacts DEF PressAcquire, SenderUnchanged
    <3>4. CASE PressBuild(p)
      <4>1. dirty' \in BOOLEAN
        BY <3>4, Zenon DEF PressBuild, SenderUnchanged
      <4> QED
        BY <3>4, <4>1, ThreadFacts DEF PressBuild, SenderUnchanged
    <3>5. CASE PressSend(p)
      BY <3>5, ThreadFacts DEF PressSend, SenderUnchanged
    <3>6. CASE PressSleep(p)
      BY <3>6, ThreadFacts DEF PressSleep, SenderUnchanged
    <3> QED
      BY <2>6, <3>1, <3>2, <3>3, <3>4, <3>5, <3>6 DEF PressStep
  <2>7. CASE HoldOrRelease \/ HostLeaves
    <3>1. dirty' \in BOOLEAN /\ host' \in BOOLEAN
      BY <2>7, Zenon DEF HoldOrRelease, HostLeaves
    <3> QED
      BY <2>7, <3>1 DEF HoldOrRelease, HostLeaves
  <2>8. CASE UNCHANGED vars
    BY <2>8 DEF vars, sends
  <2> QED
    BY <2>1, <2>2, <2>3, <2>4, <2>5, <2>6, <2>7, <2>8 DEF Next

\* Every step keeps what holds of the threads whether the calls raced or not.
LEMMA StepThreading == Typed /\ Threading /\ [Next]_vars => Threading'
<1> SUFFICES ASSUME Typed, Threading, [Next]_vars PROVE Threading'
  OBVIOUS
<1> USE DEF Typed, TypeOK, Threading, Go, attrs, thread, device, ControllerState,
        Callers, HasGadget, HasBound, HasConn, HasRef, Connecting, TeardownSteps, KaPcs
<1> QED
  <2>1. CASE Connect
    <3>1. CASE ConnectCall
      BY <3>1, ThreadFacts DEF ConnectCall, ConnectUnchanged
    <3>2. CASE SetupGadget
      BY <3>2, ThreadFacts DEF SetupGadget, ConnectUnchanged, Raise
    <3>3. CASE BindUdc
      BY <3>3, ThreadFacts DEF BindUdc, ConnectUnchanged, Raise
    <3>4. CASE WriteUdc
      BY <3>4, ThreadFacts DEF WriteUdc, ConnectUnchanged, Raise
    <3>5. CASE WaitForHidg
      BY <3>5, ThreadFacts DEF WaitForHidg, ConnectUnchanged, Raise
    <3>6. CASE OpenHidg
      BY <3>6, ThreadFacts DEF OpenHidg, ConnectUnchanged, Raise
    <3>7. CASE MakeProtocol
      BY <3>7, ThreadFacts DEF MakeProtocol, ConnectUnchanged
    <3>8. CASE StartHandshake
      BY <3>8, ThreadFacts DEF StartHandshake, ConnectUnchanged, Raise
    <3>9. CASE FinishHandshake
      BY <3>9, ThreadFacts DEF FinishHandshake, ConnectUnchanged, Raise
    <3>10. CASE AdoptReport
      BY <3>10, ThreadFacts DEF AdoptReport, ConnectUnchanged, Raise
    <3>11. CASE ClearStop
      BY <3>11, ThreadFacts DEF ClearStop, ConnectUnchanged
    <3>12. CASE MakeKeepalive
      BY <3>12, ThreadFacts DEF MakeKeepalive, ConnectUnchanged
    <3>13. CASE StartKeepalive
      BY <3>13, ThreadFacts DEF StartKeepalive, ConnectUnchanged, Raise
    <3>14. CASE ReportReady
      BY <3>14, ThreadFacts DEF ReportReady, ConnectUnchanged, Raise
    <3>15. CASE ConnectReturns
      BY <3>15, ThreadFacts DEF ConnectReturns, ConnectUnchanged
    <3>16. CASE ConnectFails
      BY <3>16, ThreadFacts DEF ConnectFails, ConnectUnchanged
    <3> QED
      BY <2>1, <3>1, <3>2, <3>3, <3>4, <3>5, <3>6, <3>7, <3>8, <3>9, <3>10, <3>11,
         <3>12, <3>13, <3>14, <3>15, <3>16 DEF Connect
  <2>2. ASSUME NEW who \in Callers, Teardown(who) PROVE Threading'
    <3>1. CASE SetStop(who)
      BY <3>1, ThreadFacts DEF SetStop, TeardownUnchanged
    <3>2. CASE FindKeepalive(who)
      BY <3>2, ThreadFacts DEF FindKeepalive, TeardownUnchanged
    <3>3. CASE JoinKeepalive(who)
      BY <3>3, ThreadFacts DEF JoinKeepalive, TeardownUnchanged
    <3>4. CASE FindConnection(who)
      BY <3>4, ThreadFacts DEF FindConnection, TeardownUnchanged
    <3>5. CASE CloseConnection(who)
      BY <3>5, ThreadFacts DEF CloseConnection, TeardownUnchanged
    <3>6. CASE DropConnection(who)
      BY <3>6, ThreadFacts DEF DropConnection, TeardownUnchanged
    <3>7. CASE FindGadget(who)
      BY <3>7, ThreadFacts DEF FindGadget, TeardownUnchanged, End
    <3>8. CASE CurrentUdc(who)
      BY <3>8, ThreadFacts DEF CurrentUdc, TeardownUnchanged
    <3>9. CASE ReleaseUdc(who)
      BY <3>9, ThreadFacts DEF ReleaseUdc, TeardownUnchanged
    <3>10. CASE DropGadget(who)
      BY <3>10, ThreadFacts DEF DropGadget, TeardownUnchanged, End
    <3>11. CASE TeardownRaises(who)
      BY <3>11, ThreadFacts DEF TeardownRaises, TeardownUnchanged
    <3> QED
      BY <2>2, <3>1, <3>2, <3>3, <3>4, <3>5, <3>6, <3>7, <3>8, <3>9, <3>10, <3>11
         DEF Teardown
  <2>3. CASE DisconnectCall
    BY <2>3, ThreadFacts DEF DisconnectCall
  <2>4. CASE DisconnectReturns
    BY <2>4, ThreadFacts DEF DisconnectReturns, LoopIsFree
  <2>5. CASE KaStep \/ KaAcquire
    <3>1. CASE KaCheckStop
      BY <3>1, ThreadFacts DEF KaCheckStop, SenderUnchanged
    <3>2. CASE KaAcquire
      BY <3>2, ThreadFacts DEF KaAcquire, SenderUnchanged
    <3>3. CASE KaIncoming
      BY <3>3, ThreadFacts DEF KaIncoming, SenderUnchanged, KaError, KaDies
    <3>4. CASE KaReply
      BY <3>4, ThreadFacts DEF KaReply, SenderUnchanged, KaError, KaDies
    <3>5. CASE KaBuild
      BY <3>5, ThreadFacts DEF KaBuild, SenderUnchanged, KaDies
    <3>6. CASE KaSend
      BY <3>6, ThreadFacts DEF KaSend, SenderUnchanged, KaError, KaDies
    <3> QED
      BY <2>5, <3>1, <3>2, <3>3, <3>4, <3>5, <3>6 DEF KaStep
  <2>6. ASSUME NEW p \in Presses, PressRequest(p) \/ PressStep(p) \/ PressAcquire(p)
        PROVE  Threading'
    <3>1. CASE PressRequest(p)
      BY <3>1, ThreadFacts DEF PressRequest, SenderUnchanged, EnsureConnected
    <3>2. CASE PressUpdate(p)
      BY <3>2, ThreadFacts DEF PressUpdate, SenderUnchanged
    <3>3. CASE PressAcquire(p)
      BY <3>3, ThreadFacts DEF PressAcquire, SenderUnchanged
    <3>4. CASE PressBuild(p)
      BY <3>4, ThreadFacts DEF PressBuild, SenderUnchanged
    <3>5. CASE PressSend(p)
      BY <3>5, ThreadFacts DEF PressSend, SenderUnchanged
    <3>6. CASE PressSleep(p)
      BY <3>6, ThreadFacts DEF PressSleep, SenderUnchanged
    <3> QED
      BY <2>6, <3>1, <3>2, <3>3, <3>4, <3>5, <3>6 DEF PressStep
  <2>7. CASE HoldOrRelease \/ HostLeaves
    BY <2>7 DEF HoldOrRelease, HostLeaves
  <2>8. CASE UNCHANGED vars
    BY <2>8 DEF vars, sends
  <2> QED
    BY <2>1, <2>2, <2>3, <2>4, <2>5, <2>6, <2>7, <2>8 DEF Next

\* Every step keeps what connect() has built.
LEMMA StepBuilding == BackendInv /\ [Next]_vars => Building'
<1> SUFFICES ASSUME BackendInv, [Next]_vars PROVE Building'
  OBVIOUS
<1> USE DEF BackendInv, Typed, TypeOK, Threading, Building, Go, attrs, thread, device,
        Callers, HasGadget, HasBound, HasConn, HasRef, HasStarted, HasProto,
           Connecting, TeardownSteps
<1> QED
  <2>1. CASE Connect
    <3>1. CASE ConnectCall
      BY <3>1, ThreadFacts DEF ConnectCall, ConnectUnchanged
    <3>2. CASE SetupGadget
      BY <3>2, ThreadFacts DEF SetupGadget, ConnectUnchanged, Raise
    <3>3. CASE BindUdc
      BY <3>3, ThreadFacts DEF BindUdc, ConnectUnchanged, Raise
    <3>4. CASE WriteUdc
      BY <3>4, ThreadFacts DEF WriteUdc, ConnectUnchanged, Raise
    <3>5. CASE WaitForHidg
      BY <3>5, ThreadFacts DEF WaitForHidg, ConnectUnchanged, Raise
    <3>6. CASE OpenHidg
      BY <3>6, ThreadFacts DEF OpenHidg, ConnectUnchanged, Raise
    <3>7. CASE MakeProtocol
      BY <3>7, ThreadFacts DEF MakeProtocol, ConnectUnchanged
    <3>8. CASE StartHandshake
      BY <3>8, ThreadFacts DEF StartHandshake, ConnectUnchanged, Raise
    <3>9. CASE FinishHandshake
      BY <3>9, ThreadFacts DEF FinishHandshake, ConnectUnchanged, Raise
    <3>10. CASE AdoptReport
      BY <3>10, ThreadFacts DEF AdoptReport, ConnectUnchanged, Raise
    <3>11. CASE ClearStop
      BY <3>11, ThreadFacts DEF ClearStop, ConnectUnchanged
    <3>12. CASE MakeKeepalive
      BY <3>12, ThreadFacts DEF MakeKeepalive, ConnectUnchanged
    <3>13. CASE StartKeepalive
      BY <3>13, ThreadFacts DEF StartKeepalive, ConnectUnchanged, Raise
    <3>14. CASE ReportReady
      BY <3>14, ThreadFacts DEF ReportReady, ConnectUnchanged, Raise
    <3>15. CASE ConnectReturns
      BY <3>15, ThreadFacts DEF ConnectReturns, ConnectUnchanged
    <3>16. CASE ConnectFails
      BY <3>16, ThreadFacts DEF ConnectFails, ConnectUnchanged
    <3> QED
      BY <2>1, <3>1, <3>2, <3>3, <3>4, <3>5, <3>6, <3>7, <3>8, <3>9, <3>10, <3>11,
         <3>12, <3>13, <3>14, <3>15, <3>16 DEF Connect
  <2>2. ASSUME NEW who \in Callers, Teardown(who) PROVE Building'
    <3>1. CASE SetStop(who)
      BY <3>1, ThreadFacts DEF SetStop, TeardownUnchanged
    <3>2. CASE FindKeepalive(who)
      BY <3>2, ThreadFacts DEF FindKeepalive, TeardownUnchanged
    <3>3. CASE JoinKeepalive(who)
      BY <3>3, ThreadFacts DEF JoinKeepalive, TeardownUnchanged
    <3>4. CASE FindConnection(who)
      BY <3>4, ThreadFacts DEF FindConnection, TeardownUnchanged
    <3>5. CASE CloseConnection(who)
      BY <3>5, ThreadFacts DEF CloseConnection, TeardownUnchanged
    <3>6. CASE DropConnection(who)
      BY <3>6, ThreadFacts DEF DropConnection, TeardownUnchanged
    <3>7. CASE FindGadget(who)
      BY <3>7, ThreadFacts DEF FindGadget, TeardownUnchanged, End
    <3>8. CASE CurrentUdc(who)
      BY <3>8, ThreadFacts DEF CurrentUdc, TeardownUnchanged
    <3>9. CASE ReleaseUdc(who)
      BY <3>9, ThreadFacts DEF ReleaseUdc, TeardownUnchanged
    <3>10. CASE DropGadget(who)
      BY <3>10, ThreadFacts DEF DropGadget, TeardownUnchanged, End
    <3>11. CASE TeardownRaises(who)
      BY <3>11, ThreadFacts DEF TeardownRaises, TeardownUnchanged
    <3> QED
      BY <2>2, <3>1, <3>2, <3>3, <3>4, <3>5, <3>6, <3>7, <3>8, <3>9, <3>10, <3>11
         DEF Teardown
  <2>3. CASE DisconnectCall
    BY <2>3, ThreadFacts DEF DisconnectCall
  <2>4. CASE DisconnectReturns
    BY <2>4, ThreadFacts DEF DisconnectReturns, LoopIsFree
  <2>5. CASE KaStep \/ KaAcquire
    <3>1. CASE KaCheckStop
      BY <3>1, ThreadFacts DEF KaCheckStop, SenderUnchanged
    <3>2. CASE KaAcquire
      BY <3>2, ThreadFacts DEF KaAcquire, SenderUnchanged
    <3>3. CASE KaIncoming
      BY <3>3, ThreadFacts DEF KaIncoming, SenderUnchanged, KaError, KaDies
    <3>4. CASE KaReply
      BY <3>4, ThreadFacts DEF KaReply, SenderUnchanged, KaError, KaDies
    <3>5. CASE KaBuild
      BY <3>5, ThreadFacts DEF KaBuild, SenderUnchanged, KaDies
    <3>6. CASE KaSend
      BY <3>6, ThreadFacts DEF KaSend, SenderUnchanged, KaError, KaDies
    <3> QED
      BY <2>5, <3>1, <3>2, <3>3, <3>4, <3>5, <3>6 DEF KaStep
  <2>6. ASSUME NEW p \in Presses, PressRequest(p) \/ PressStep(p) \/ PressAcquire(p)
        PROVE  Building'
    <3>1. CASE PressRequest(p)
      BY <3>1, ThreadFacts DEF PressRequest, SenderUnchanged, EnsureConnected
    <3>2. CASE PressUpdate(p)
      BY <3>2, ThreadFacts DEF PressUpdate, SenderUnchanged
    <3>3. CASE PressAcquire(p)
      BY <3>3, ThreadFacts DEF PressAcquire, SenderUnchanged
    <3>4. CASE PressBuild(p)
      BY <3>4, ThreadFacts DEF PressBuild, SenderUnchanged
    <3>5. CASE PressSend(p)
      BY <3>5, ThreadFacts DEF PressSend, SenderUnchanged
    <3>6. CASE PressSleep(p)
      BY <3>6, ThreadFacts DEF PressSleep, SenderUnchanged
    <3> QED
      BY <2>6, <3>1, <3>2, <3>3, <3>4, <3>5, <3>6 DEF PressStep
  <2>7. CASE HoldOrRelease \/ HostLeaves
    BY <2>7 DEF HoldOrRelease, HostLeaves
  <2>8. CASE UNCHANGED vars
    BY <2>8 DEF vars, sends
  <2> QED
    BY <2>1, <2>2, <2>3, <2>4, <2>5, <2>6, <2>7, <2>8 DEF Next

\* Every step leaves whatever is open findable by the teardown.
LEMMA StepOwned == BackendInv /\ [Next]_vars => Owned'
<1> SUFFICES ASSUME BackendInv, [Next]_vars PROVE Owned'
  OBVIOUS
<1> USE DEF BackendInv, Typed, TypeOK, Threading, Building, Owned, Undoing, Undone, Unbinding, Go,
        attrs, thread, device, Callers, HasGadget, HasBound, HasConn, HasRef,
           HasStarted, HasProto, Connecting, TeardownSteps
<1> QED
  <2>1. CASE Connect
    <3>1. CASE ConnectCall
      BY <3>1, ThreadFacts DEF ConnectCall, ConnectUnchanged
    <3>2. CASE SetupGadget
      BY <3>2, ThreadFacts DEF SetupGadget, ConnectUnchanged, Raise
    <3>3. CASE BindUdc
      BY <3>3, ThreadFacts DEF BindUdc, ConnectUnchanged, Raise
    <3>4. CASE WriteUdc
      BY <3>4, ThreadFacts DEF WriteUdc, ConnectUnchanged, Raise
    <3>5. CASE WaitForHidg
      BY <3>5, ThreadFacts DEF WaitForHidg, ConnectUnchanged, Raise
    <3>6. CASE OpenHidg
      BY <3>6, ThreadFacts DEF OpenHidg, ConnectUnchanged, Raise
    <3>7. CASE MakeProtocol
      BY <3>7, ThreadFacts DEF MakeProtocol, ConnectUnchanged
    <3>8. CASE StartHandshake
      BY <3>8, ThreadFacts DEF StartHandshake, ConnectUnchanged, Raise
    <3>9. CASE FinishHandshake
      BY <3>9, ThreadFacts DEF FinishHandshake, ConnectUnchanged, Raise
    <3>10. CASE AdoptReport
      BY <3>10, ThreadFacts DEF AdoptReport, ConnectUnchanged, Raise
    <3>11. CASE ClearStop
      BY <3>11, ThreadFacts DEF ClearStop, ConnectUnchanged
    <3>12. CASE MakeKeepalive
      BY <3>12, ThreadFacts DEF MakeKeepalive, ConnectUnchanged
    <3>13. CASE StartKeepalive
      BY <3>13, ThreadFacts DEF StartKeepalive, ConnectUnchanged, Raise
    <3>14. CASE ReportReady
      BY <3>14, ThreadFacts DEF ReportReady, ConnectUnchanged, Raise
    <3>15. CASE ConnectReturns
      BY <3>15, ThreadFacts DEF ConnectReturns, ConnectUnchanged
    <3>16. CASE ConnectFails
      BY <3>16, ThreadFacts DEF ConnectFails, ConnectUnchanged
    <3> QED
      BY <2>1, <3>1, <3>2, <3>3, <3>4, <3>5, <3>6, <3>7, <3>8, <3>9, <3>10, <3>11,
         <3>12, <3>13, <3>14, <3>15, <3>16 DEF Connect
  <2>2. ASSUME NEW who \in Callers, Teardown(who) PROVE Owned'
    <3>1. CASE SetStop(who)
      BY <3>1, ThreadFacts DEF SetStop, TeardownUnchanged
    <3>2. CASE FindKeepalive(who)
      BY <3>2, ThreadFacts DEF FindKeepalive, TeardownUnchanged
    <3>3. CASE JoinKeepalive(who)
      BY <3>3, ThreadFacts DEF JoinKeepalive, TeardownUnchanged
    <3>4. CASE FindConnection(who)
      BY <3>4, ThreadFacts DEF FindConnection, TeardownUnchanged
    <3>5. CASE CloseConnection(who)
      BY <3>5, ThreadFacts DEF CloseConnection, TeardownUnchanged
    <3>6. CASE DropConnection(who)
      BY <3>6, ThreadFacts DEF DropConnection, TeardownUnchanged
    <3>7. CASE FindGadget(who)
      BY <3>7, ThreadFacts DEF FindGadget, TeardownUnchanged, End
    <3>8. CASE CurrentUdc(who)
      BY <3>8, ThreadFacts DEF CurrentUdc, TeardownUnchanged
    <3>9. CASE ReleaseUdc(who)
      BY <3>9, ThreadFacts DEF ReleaseUdc, TeardownUnchanged
    <3>10. CASE DropGadget(who)
      BY <3>10, ThreadFacts DEF DropGadget, TeardownUnchanged, End
    <3>11. CASE TeardownRaises(who)
      BY <3>11, ThreadFacts DEF TeardownRaises, TeardownUnchanged
    <3> QED
      BY <2>2, <3>1, <3>2, <3>3, <3>4, <3>5, <3>6, <3>7, <3>8, <3>9, <3>10, <3>11
         DEF Teardown
  <2>3. CASE DisconnectCall
    BY <2>3, ThreadFacts DEF DisconnectCall
  <2>4. CASE DisconnectReturns
    BY <2>4, ThreadFacts DEF DisconnectReturns, LoopIsFree
  <2>5. CASE KaStep \/ KaAcquire
    <3>1. CASE KaCheckStop
      BY <3>1, ThreadFacts DEF KaCheckStop, SenderUnchanged
    <3>2. CASE KaAcquire
      BY <3>2, ThreadFacts DEF KaAcquire, SenderUnchanged
    <3>3. CASE KaIncoming
      BY <3>3, ThreadFacts DEF KaIncoming, SenderUnchanged, KaError, KaDies
    <3>4. CASE KaReply
      BY <3>4, ThreadFacts DEF KaReply, SenderUnchanged, KaError, KaDies
    <3>5. CASE KaBuild
      BY <3>5, ThreadFacts DEF KaBuild, SenderUnchanged, KaDies
    <3>6. CASE KaSend
      BY <3>6, ThreadFacts DEF KaSend, SenderUnchanged, KaError, KaDies
    <3> QED
      BY <2>5, <3>1, <3>2, <3>3, <3>4, <3>5, <3>6 DEF KaStep
  <2>6. ASSUME NEW p \in Presses, PressRequest(p) \/ PressStep(p) \/ PressAcquire(p)
        PROVE  Owned'
    <3>1. CASE PressRequest(p)
      BY <3>1, ThreadFacts DEF PressRequest, SenderUnchanged, EnsureConnected
    <3>2. CASE PressUpdate(p)
      BY <3>2, ThreadFacts DEF PressUpdate, SenderUnchanged
    <3>3. CASE PressAcquire(p)
      BY <3>3, ThreadFacts DEF PressAcquire, SenderUnchanged
    <3>4. CASE PressBuild(p)
      BY <3>4, ThreadFacts DEF PressBuild, SenderUnchanged
    <3>5. CASE PressSend(p)
      BY <3>5, ThreadFacts DEF PressSend, SenderUnchanged
    <3>6. CASE PressSleep(p)
      BY <3>6, ThreadFacts DEF PressSleep, SenderUnchanged
    <3> QED
      BY <2>6, <3>1, <3>2, <3>3, <3>4, <3>5, <3>6 DEF PressStep
  <2>7. CASE HoldOrRelease \/ HostLeaves
    BY <2>7 DEF HoldOrRelease, HostLeaves
  <2>8. CASE UNCHANGED vars
    BY <2>8 DEF vars, sends
  <2> QED
    BY <2>1, <2>2, <2>3, <2>4, <2>5, <2>6, <2>7, <2>8 DEF Next

\* Every step keeps what a teardown that runs alone has undone.
LEMMA StepUndoing == BackendInv /\ [Next]_vars => Undoing'
<1> SUFFICES ASSUME BackendInv, [Next]_vars PROVE Undoing'
  OBVIOUS
<1> USE DEF BackendInv, Typed, TypeOK, Threading, Building, Owned, Undoing, Undone, Unbinding,
        Released, Go, attrs, thread, device, Callers, HasGadget, HasBound, HasConn,
           HasRef, HasStarted, HasProto, Connecting, TeardownSteps
<1> QED
  <2>1. CASE Connect
    <3>1. CASE ConnectCall
      BY <3>1, ThreadFacts DEF ConnectCall, ConnectUnchanged
    <3>2. CASE SetupGadget
      BY <3>2, ThreadFacts DEF SetupGadget, ConnectUnchanged, Raise
    <3>3. CASE BindUdc
      BY <3>3, ThreadFacts DEF BindUdc, ConnectUnchanged, Raise
    <3>4. CASE WriteUdc
      BY <3>4, ThreadFacts DEF WriteUdc, ConnectUnchanged, Raise
    <3>5. CASE WaitForHidg
      BY <3>5, ThreadFacts DEF WaitForHidg, ConnectUnchanged, Raise
    <3>6. CASE OpenHidg
      BY <3>6, ThreadFacts DEF OpenHidg, ConnectUnchanged, Raise
    <3>7. CASE MakeProtocol
      BY <3>7, ThreadFacts DEF MakeProtocol, ConnectUnchanged
    <3>8. CASE StartHandshake
      BY <3>8, ThreadFacts DEF StartHandshake, ConnectUnchanged, Raise
    <3>9. CASE FinishHandshake
      BY <3>9, ThreadFacts DEF FinishHandshake, ConnectUnchanged, Raise
    <3>10. CASE AdoptReport
      BY <3>10, ThreadFacts DEF AdoptReport, ConnectUnchanged, Raise
    <3>11. CASE ClearStop
      BY <3>11, ThreadFacts DEF ClearStop, ConnectUnchanged
    <3>12. CASE MakeKeepalive
      BY <3>12, ThreadFacts DEF MakeKeepalive, ConnectUnchanged
    <3>13. CASE StartKeepalive
      BY <3>13, ThreadFacts DEF StartKeepalive, ConnectUnchanged, Raise
    <3>14. CASE ReportReady
      BY <3>14, ThreadFacts DEF ReportReady, ConnectUnchanged, Raise
    <3>15. CASE ConnectReturns
      BY <3>15, ThreadFacts DEF ConnectReturns, ConnectUnchanged
    <3>16. CASE ConnectFails
      BY <3>16, ThreadFacts DEF ConnectFails, ConnectUnchanged
    <3> QED
      BY <2>1, <3>1, <3>2, <3>3, <3>4, <3>5, <3>6, <3>7, <3>8, <3>9, <3>10, <3>11,
         <3>12, <3>13, <3>14, <3>15, <3>16 DEF Connect
  <2>2. ASSUME NEW who \in Callers, Teardown(who) PROVE Undoing'
    <3>1. CASE SetStop(who)
      BY <3>1, ThreadFacts DEF SetStop, TeardownUnchanged
    <3>2. CASE FindKeepalive(who)
      BY <3>2, ThreadFacts DEF FindKeepalive, TeardownUnchanged
    <3>3. CASE JoinKeepalive(who)
      BY <3>3, ThreadFacts DEF JoinKeepalive, TeardownUnchanged
    <3>4. CASE FindConnection(who)
      BY <3>4, ThreadFacts DEF FindConnection, TeardownUnchanged
    <3>5. CASE CloseConnection(who)
      BY <3>5, ThreadFacts DEF CloseConnection, TeardownUnchanged
    <3>6. CASE DropConnection(who)
      BY <3>6, ThreadFacts DEF DropConnection, TeardownUnchanged
    <3>7. CASE FindGadget(who)
      BY <3>7, ThreadFacts DEF FindGadget, TeardownUnchanged, End
    <3>8. CASE CurrentUdc(who)
      BY <3>8, ThreadFacts DEF CurrentUdc, TeardownUnchanged
    <3>9. CASE ReleaseUdc(who)
      BY <3>9, ThreadFacts DEF ReleaseUdc, TeardownUnchanged
    <3>10. CASE DropGadget(who)
      BY <3>10, ThreadFacts DEF DropGadget, TeardownUnchanged, End
    <3>11. CASE TeardownRaises(who)
      BY <3>11, ThreadFacts DEF TeardownRaises, TeardownUnchanged
    <3> QED
      BY <2>2, <3>1, <3>2, <3>3, <3>4, <3>5, <3>6, <3>7, <3>8, <3>9, <3>10, <3>11
         DEF Teardown
  <2>3. CASE DisconnectCall
    BY <2>3, ThreadFacts DEF DisconnectCall
  <2>4. CASE DisconnectReturns
    BY <2>4, ThreadFacts DEF DisconnectReturns, LoopIsFree
  <2>5. CASE KaStep \/ KaAcquire
    <3>1. CASE KaCheckStop
      BY <3>1, ThreadFacts DEF KaCheckStop, SenderUnchanged
    <3>2. CASE KaAcquire
      BY <3>2, ThreadFacts DEF KaAcquire, SenderUnchanged
    <3>3. CASE KaIncoming
      BY <3>3, ThreadFacts DEF KaIncoming, SenderUnchanged, KaError, KaDies
    <3>4. CASE KaReply
      BY <3>4, ThreadFacts DEF KaReply, SenderUnchanged, KaError, KaDies
    <3>5. CASE KaBuild
      BY <3>5, ThreadFacts DEF KaBuild, SenderUnchanged, KaDies
    <3>6. CASE KaSend
      BY <3>6, ThreadFacts DEF KaSend, SenderUnchanged, KaError, KaDies
    <3> QED
      BY <2>5, <3>1, <3>2, <3>3, <3>4, <3>5, <3>6 DEF KaStep
  <2>6. ASSUME NEW p \in Presses, PressRequest(p) \/ PressStep(p) \/ PressAcquire(p)
        PROVE  Undoing'
    <3>1. CASE PressRequest(p)
      BY <3>1, ThreadFacts DEF PressRequest, SenderUnchanged, EnsureConnected
    <3>2. CASE PressUpdate(p)
      BY <3>2, ThreadFacts DEF PressUpdate, SenderUnchanged
    <3>3. CASE PressAcquire(p)
      BY <3>3, ThreadFacts DEF PressAcquire, SenderUnchanged
    <3>4. CASE PressBuild(p)
      BY <3>4, ThreadFacts DEF PressBuild, SenderUnchanged
    <3>5. CASE PressSend(p)
      BY <3>5, ThreadFacts DEF PressSend, SenderUnchanged
    <3>6. CASE PressSleep(p)
      BY <3>6, ThreadFacts DEF PressSleep, SenderUnchanged
    <3> QED
      BY <2>6, <3>1, <3>2, <3>3, <3>4, <3>5, <3>6 DEF PressStep
  <2>7. CASE HoldOrRelease \/ HostLeaves
    BY <2>7 DEF HoldOrRelease, HostLeaves
  <2>8. CASE UNCHANGED vars
    BY <2>8 DEF vars, sends
  <2> QED
    BY <2>1, <2>2, <2>3, <2>4, <2>5, <2>6, <2>7, <2>8 DEF Next

\* The initial state and every step keep the invariant.
LEMMA Inductive == (Init => BackendInv) /\ (BackendInv /\ [Next]_vars => BackendInv')
<1>1. Init => BackendInv
  <2> SUFFICES ASSUME Init PROVE BackendInv
    OBVIOUS
  <2> USE ThreadFacts DEF Init, Callers
  <2>1. Typed
    BY DEF Typed, TypeOK, ControllerState, CallerPcs, ThreadPcs, KaPcs, PressPcs,
       Senders
  <2>2. Threading /\ Building
    BY DEF Threading, Building, Connecting, HasGadget, HasBound, HasConn, HasProto,
       HasRef,
           HasStarted, TeardownSteps
  <2>3. Owned /\ Undoing
    BY DEF Owned, Undoing, Undone, Unbinding
  <2> QED
    BY <2>1, <2>2, <2>3 DEF BackendInv
<1>2. BackendInv /\ [Next]_vars => BackendInv'
  BY StepTyped, StepThreading, StepBuilding, StepOwned, StepUndoing DEF BackendInv
<1> QED
  BY <1>1, <1>2

\* The five parts hold in every reachable state: in particular, a gadget that is
\* bound can be found by the teardown, or a teardown has failed to release it.
THEOREM Invariance == Spec => []BackendInv
BY Inductive, PTL DEF Spec

-----------------------------------------------------------------------------
\* Type correctness of the attributes, the device, the lock and the threads.
THEOREM TypeCorrect == Spec => []TypeOK
<1>1. BackendInv => TypeOK
  BY DEF BackendInv, Typed
<1> QED
  BY <1>1, Invariance, PTL

\* A disconnect() that did not race, and a connect() that failed, leave nothing
\* behind: the device file is closed, and the gadget unbound unless the release
\* failed or the UDC file could not be read, which the teardown swallows.
THEOREM NothingLeftBehind == Spec => []TeardownReleases
<1>1. BackendInv => TeardownReleases
  BY DEF BackendInv, Undoing, TeardownReleases
<1> QED
  BY <1>1, Invariance, PTL

\* CONNECTED stands for a complete session until disconnect() is called.
THEOREM ConnectedIsASession == Spec => []ConnectedMeansSession
<1>1. BackendInv => ConnectedMeansSession
  BY DEF BackendInv, Threading, Building, ConnectedMeansSession, TeardownSteps,
     HasGadget,
         HasBound, HasConn, HasProto, HasRef, HasStarted
<1> QED
  BY <1>1, Invariance, PTL

-----------------------------------------------------------------------------
\* Refinement: every step of the USB backend is a step of the contract, or
\* hidden. A connect() that fails does so in two of its steps: the state turns
\* "error" before the teardown, and the call raises after it.
THEOREM ContractKept == Spec => ImplementsContract
<1>1. Init => Contract!Init
  BY ThreadFacts DEF Init, Contract!Init, ConnectCallStatus, DisconnectCallStatus
<1>2. BackendInv /\ [Next]_vars => [Contract!Next]_Contract!vars
  <2> SUFFICES ASSUME BackendInv, [Next]_vars
               PROVE  [Contract!Next]_Contract!vars
    OBVIOUS
  <2> USE DEF BackendInv, Typed, TypeOK, Threading, Building, Owned, Undoing, Undone, Unbinding,
          Released,
          Go, attrs, thread, device, Callers, HasGadget, HasBound, HasConn, Connecting,
          TeardownSteps, Contract!vars, ConnectCallStatus, DisconnectCallStatus
  <2>1. CASE Connect
    <3>1. CASE ConnectCall
      BY <3>1, ThreadFacts DEF ConnectCall, ConnectUnchanged, Contract!Next,
         Contract!Connect
    <3>2. CASE SetupGadget
      BY <3>2, ThreadFacts DEF SetupGadget, ConnectUnchanged, Raise
    <3>3. CASE BindUdc
      BY <3>3, ThreadFacts DEF BindUdc, ConnectUnchanged, Raise
    <3>4. CASE WriteUdc
      BY <3>4, ThreadFacts DEF WriteUdc, ConnectUnchanged, Raise
    <3>5. CASE WaitForHidg
      BY <3>5, ThreadFacts DEF WaitForHidg, ConnectUnchanged, Raise
    <3>6. CASE OpenHidg
      BY <3>6, ThreadFacts DEF OpenHidg, ConnectUnchanged, Raise, Contract!Next,
         Contract!OpenLink
    <3>7. CASE MakeProtocol
      BY <3>7, ThreadFacts DEF MakeProtocol, ConnectUnchanged
    <3>8. CASE StartHandshake
      BY <3>8, ThreadFacts DEF StartHandshake, ConnectUnchanged, Raise
    <3>9. CASE FinishHandshake
      BY <3>9, ThreadFacts DEF FinishHandshake, ConnectUnchanged, Raise
    <3>10. CASE AdoptReport
      BY <3>10, ThreadFacts DEF AdoptReport, ConnectUnchanged, Raise
    <3>11. CASE ClearStop
      BY <3>11, ThreadFacts DEF ClearStop, ConnectUnchanged
    <3>12. CASE MakeKeepalive
      BY <3>12, ThreadFacts DEF MakeKeepalive, ConnectUnchanged
    <3>13. CASE StartKeepalive
      BY <3>13, ThreadFacts DEF StartKeepalive, ConnectUnchanged, Raise
    <3>14. CASE ReportReady
      BY <3>14, ThreadFacts DEF ReportReady, ConnectUnchanged, Raise
    <3>15. CASE ConnectReturns
      BY <3>15, ThreadFacts DEF ConnectReturns, ConnectUnchanged, Contract!Next,
         Contract!ConnectReturns
    <3>16. CASE ConnectFails
      BY <3>16, ThreadFacts DEF ConnectFails, ConnectUnchanged, Contract!Next,
         Contract!LinkError
    <3> QED
      BY <2>1, <3>1, <3>2, <3>3, <3>4, <3>5, <3>6, <3>7, <3>8, <3>9, <3>10, <3>11,
         <3>12, <3>13, <3>14, <3>15, <3>16 DEF Connect
  <2>2. ASSUME NEW who \in Callers, Teardown(who) PROVE [Contract!Next]_Contract!vars
    <3>1. CASE SetStop(who)
      BY <3>1, ThreadFacts DEF SetStop, TeardownUnchanged
    <3>2. CASE FindKeepalive(who)
      BY <3>2, ThreadFacts DEF FindKeepalive, TeardownUnchanged
    <3>3. CASE JoinKeepalive(who)
      BY <3>3, ThreadFacts DEF JoinKeepalive, TeardownUnchanged
    <3>4. CASE FindConnection(who)
      BY <3>4, ThreadFacts DEF FindConnection, TeardownUnchanged
    <3>5. CASE CloseConnection(who)
      BY <3>5, ThreadFacts DEF CloseConnection, TeardownUnchanged, Contract!Next,
         Contract!CloseLink
    <3>6. CASE DropConnection(who)
      BY <3>6, ThreadFacts DEF DropConnection, TeardownUnchanged
    <3>7. CASE FindGadget(who)
      BY <3>7, ThreadFacts DEF FindGadget, TeardownUnchanged, End, Contract!Next,
         Contract!ConnectRaises
    <3>8. CASE CurrentUdc(who)
      BY <3>8, ThreadFacts DEF CurrentUdc, TeardownUnchanged
    <3>9. CASE ReleaseUdc(who)
      BY <3>9, ThreadFacts DEF ReleaseUdc, TeardownUnchanged
    <3>10. CASE DropGadget(who)
      BY <3>10, ThreadFacts DEF DropGadget, TeardownUnchanged, End, Contract!Next,
         Contract!ConnectRaises
    <3>11. CASE TeardownRaises(who)
      BY <3>11, ThreadFacts DEF TeardownRaises, TeardownUnchanged, Contract!Next,
         Contract!ConnectRaises, Contract!DisconnectRaises
    <3> QED
      BY <2>2, <3>1, <3>2, <3>3, <3>4, <3>5, <3>6, <3>7, <3>8, <3>9, <3>10, <3>11
         DEF Teardown
  <2>3. CASE DisconnectCall
    BY <2>3, ThreadFacts DEF DisconnectCall, Contract!Next, Contract!Disconnect,
       Connecting
  <2>4. CASE DisconnectReturns
    BY <2>4, ThreadFacts DEF DisconnectReturns, LoopIsFree, Contract!Next,
       Contract!DisconnectReturns
  <2>5. CASE KaStep \/ KaAcquire
    <3>1. CASE KaCheckStop
      BY <3>1, ThreadFacts DEF KaCheckStop, SenderUnchanged
    <3>2. CASE KaAcquire
      BY <3>2, ThreadFacts DEF KaAcquire, SenderUnchanged
    <3>3. CASE KaIncoming
      BY <3>3, ThreadFacts DEF KaIncoming, SenderUnchanged, KaError, KaDies,
         Contract!Next, Contract!LinkError
    <3>4. CASE KaReply
      BY <3>4, ThreadFacts DEF KaReply, SenderUnchanged, KaError, KaDies,
         Contract!Next, Contract!LinkError
    <3>5. CASE KaBuild
      BY <3>5, ThreadFacts DEF KaBuild, SenderUnchanged, KaDies
    <3>6. CASE KaSend
      BY <3>6, ThreadFacts DEF KaSend, SenderUnchanged, KaError, KaDies, Contract!Next,
         Contract!LinkError
    <3> QED
      BY <2>5, <3>1, <3>2, <3>3, <3>4, <3>5, <3>6 DEF KaStep
  <2>6. ASSUME NEW p \in Presses, PressRequest(p) \/ PressStep(p) \/ PressAcquire(p)
        PROVE  [Contract!Next]_Contract!vars
    <3>1. CASE PressRequest(p)
      BY <3>1, ThreadFacts DEF PressRequest, SenderUnchanged, EnsureConnected
    <3>2. CASE PressUpdate(p)
      BY <3>2, ThreadFacts DEF PressUpdate, SenderUnchanged
    <3>3. CASE PressAcquire(p)
      BY <3>3, ThreadFacts DEF PressAcquire, SenderUnchanged
    <3>4. CASE PressBuild(p)
      BY <3>4, ThreadFacts DEF PressBuild, SenderUnchanged
    <3>5. CASE PressSend(p)
      BY <3>5, ThreadFacts DEF PressSend, SenderUnchanged, Contract!Next,
         Contract!LinkError
    <3>6. CASE PressSleep(p)
      BY <3>6, ThreadFacts DEF PressSleep, SenderUnchanged
    <3> QED
      BY <2>6, <3>1, <3>2, <3>3, <3>4, <3>5, <3>6 DEF PressStep
  <2>7. CASE HoldOrRelease \/ HostLeaves
    BY <2>7 DEF HoldOrRelease, HostLeaves
  <2>8. CASE UNCHANGED vars
    BY <2>8 DEF vars, sends
  <2> QED
    BY <2>1, <2>2, <2>3, <2>4, <2>5, <2>6, <2>7, <2>8 DEF Next
<1> QED
  BY <1>1, <1>2, Invariance, PTL DEF Spec, ImplementsContract, Contract!Spec

\* What the contract is for: once a disconnect() that was not early has
\* returned, no step opens the link again, over USB.
THEOREM StaysClosed == Spec => []Contract!ClosedForGood
<1> USE DEF Contract!NoLateConnect, Contract!ClosedForGood
<1>1. Contract!Init => Contract!NoLateConnect /\ Contract!ClosedForGood
  BY DEF Contract!Init
<1>2. Contract!NoLateConnect /\ Contract!ClosedForGood
        /\ [Contract!Next]_Contract!vars
      => (Contract!NoLateConnect /\ Contract!ClosedForGood)'
  <2> SUFFICES ASSUME Contract!NoLateConnect, Contract!ClosedForGood,
                      [Contract!Next]_Contract!vars
               PROVE  (Contract!NoLateConnect /\ Contract!ClosedForGood)'
    OBVIOUS
  <2>1. CASE Contract!Connect \/ Contract!OpenLink
    BY <2>1 DEF Contract!Connect, Contract!OpenLink
  <2>2. CASE Contract!ConnectReturns \/ Contract!ConnectRaises \/ Contract!LinkError
    BY <2>2 DEF Contract!ConnectReturns, Contract!ConnectRaises, Contract!LinkError
  <2>3. CASE Contract!Disconnect \/ Contract!CloseLink
    BY <2>3, Zenon DEF Contract!Disconnect, Contract!CloseLink
  <2>4. CASE Contract!DisconnectReturns \/ Contract!DisconnectRaises
    BY <2>4 DEF Contract!DisconnectReturns, Contract!DisconnectRaises
  <2>5. CASE UNCHANGED Contract!vars
    BY <2>5 DEF Contract!vars
  <2> QED
    BY <2>1, <2>2, <2>3, <2>4, <2>5 DEF Contract!Next
<1>3. Contract!Spec => []Contract!ClosedForGood
  BY <1>1, <1>2, PTL DEF Contract!Spec
<1> QED
  BY <1>3, ContractKept DEF ImplementsContract

=============================================================================
