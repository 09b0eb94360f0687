------------------------- MODULE SwitchBackendProofs -------------------------
(***************************************************************************)
(* The safety properties of SwitchBackend, for any set of press requests   *)
(* and whether or not join() may time out, and that the backend keeps the  *)
(* contract of GamepadBackend. Lifecycle is the inductive invariant: what  *)
(* connect() has built so far, what disconnect() has undone so far, and    *)
(* that the two do not overlap unless the calls raced.                     *)
(***************************************************************************)
EXTENDS SwitchBackend, TLAPS

\* Where connect() stands after it did what makes each attribute true.
HasConn == {"proto", "handshake", "shaking", "adopt", "clear", "thread",
            "start", "press", "ready", "return", "connected"}
HasProto == HasConn \ {"proto"}
HasReport == {"clear", "thread", "start", "press", "ready", "return", "connected"}
HasThread == {"start", "press", "ready", "return", "connected"}
HasStarted == {"press", "ready", "return", "raised", "connected", "failed"}
HasPressed == {"ready", "return", "connected"}

\* disconnect() comes late enough unless it raced.
RaceRecorded ==
    /\ discPc = "idle" => ~raced
    /\ discPc # "idle" /\ ~raced => ~Connecting

\* What connect() has built is there as long as disconnect() was not called.
Building ==
    /\ stop => discPc # "idle"
    /\ kaPc = "stopped" => discPc # "idle"
    /\ kaPc # "none" => connPc \in HasStarted
    /\ kaRef /\ kaPc = "none" => connPc = "start"
    /\ listening => connPc = "listen"
    /\ state = "connected" => connPc = "connected"
    /\ \A p \in Pressers : pressPc[p] # "idle" => connPc \in HasStarted
    /\ discPc = "idle" =>
         /\ connPc \in HasConn => conn
         /\ connPc \in HasProto => proto
         /\ connPc \in HasReport => connectedAt
         /\ connPc \in HasThread => kaRef
         /\ connPc \in {"press", "ready", "return", "connected"} => kaPc # "none"
         /\ connPc \in HasPressed => pressPc["lr"] = "done"
         /\ connPc \in {"conn"} \cup HasConn => sock \in {"up", "lost"}

\* A link is always referred to by _conn, from its wrapping to its closing.
LinkOwned ==
    ~raced /\ sock \in {"up", "lost"} /\ connPc # "conn" => conn

\* What disconnect() has undone stays undone.
Undoing ==
    ~raced =>
        /\ discPc \notin {"idle", "stop"} => stop
        /\ KaAlive /\ discPc \in {"idle", "stop", "join"} => kaRef
        /\ discPc \in {"close", "nullconn", "unsdp", "nullsdp", "agent", "return", "done"}
             => ~kaRef
        /\ discPc = "nullconn" /\ conn => sock = "closed"
        /\ discPc \in {"unsdp", "nullsdp", "agent", "return", "done"} => ~conn /\ ~proto
        /\ discPc \in {"agent", "return", "done"} => ~sdp
        /\ discPc \in {"return", "done"} => ~agent /\ ~connectedAt

Lifecycle ==
    RaceRecorded /\ Building /\ LinkOwned /\ Undoing /\ RaisesOnlyIfRaced

-----------------------------------------------------------------------------
\* Type correctness: no statement of any thread assigns a value out of range.
THEOREM TypeCorrect == Spec => []TypeOK
<1> USE DEF ControllerState, ConnPcs, DiscPcs, KaPcs, PressPcs, Pressers, Threads
<1>1. Init => TypeOK
  BY DEF Init, TypeOK
<1>2. TypeOK /\ [Next]_vars => TypeOK'
  <2> SUFFICES ASSUME TypeOK, [Next]_vars PROVE TypeOK'
    OBVIOUS
  <2>1. CASE Connect
    <3>1. CASE ConnectCall
      BY <3>1 DEF TypeOK, ConnectCall, ConnectUnchanged, attrs
    <3>2. CASE SetupAdapter
      BY <3>2 DEF TypeOK, SetupAdapter, ConnectUnchanged, Raise, attrs
    <3>3. CASE RegisterAgent
      BY <3>3 DEF TypeOK, RegisterAgent, ConnectUnchanged, Raise, attrs
    <3>4. CASE RegisterProfile
      BY <3>4 DEF TypeOK, RegisterProfile, ConnectUnchanged, Raise, attrs
    <3>5. CASE ReapplyClass
      BY <3>5 DEF TypeOK, ReapplyClass, ConnectUnchanged, Raise, attrs
    <3>6. CASE DialOut
      BY <3>6 DEF TypeOK, DialOut, ConnectUnchanged, attrs
    <3>7. CASE FallBackToListen
      BY <3>7 DEF TypeOK, FallBackToListen, ConnectUnchanged, Raise, attrs
    <3>8. CASE Listen
      BY <3>8 DEF TypeOK, Listen, ConnectUnchanged, attrs
    <3>9. CASE Accept
      <4>1. listening' \in BOOLEAN BY <3>9, Zenon DEF TypeOK, Accept,
             ConnectUnchanged
      <4> QED BY <3>9, <4>1 DEF TypeOK, Accept, ConnectUnchanged, attrs
    <3>10. CASE AcceptFails
      <4>1. listening' \in BOOLEAN BY <3>10, Zenon DEF TypeOK, AcceptFails,
             ConnectUnchanged, Raise
      <4> QED BY <3>10, <4>1 DEF TypeOK, AcceptFails, ConnectUnchanged, Raise,
             attrs
    <3>11. CASE WrapSockets
      BY <3>11 DEF TypeOK, WrapSockets, ConnectUnchanged, attrs
    <3>12. CASE MakeProtocol
      BY <3>12 DEF TypeOK, MakeProtocol, ConnectUnchanged, Raise, attrs
    <3>13. CASE StartHandshake
      BY <3>13 DEF TypeOK, StartHandshake, ConnectUnchanged, Raise, attrs
    <3>14. CASE FinishHandshake
      BY <3>14 DEF TypeOK, FinishHandshake, ConnectUnchanged, Raise, attrs
    <3>15. CASE AdoptReport
      <4>1. connectedAt' \in BOOLEAN BY <3>15, Zenon DEF TypeOK, AdoptReport,
             ConnectUnchanged, Raise
      <4> QED BY <3>15, <4>1 DEF TypeOK, AdoptReport, ConnectUnchanged, Raise,
             attrs
    <3>16. CASE ClearStop
      <4>1. stop' \in BOOLEAN BY <3>16, Zenon DEF TypeOK, ClearStop,
             ConnectUnchanged
      <4> QED BY <3>16, <4>1 DEF TypeOK, ClearStop, ConnectUnchanged, attrs
    <3>17. CASE MakeKeepalive
      BY <3>17 DEF TypeOK, MakeKeepalive, ConnectUnchanged, attrs
    <3>18. CASE StartKeepalive
      BY <3>18 DEF TypeOK, StartKeepalive, ConnectUnchanged, attrs
    <3>19. CASE AfterPress
      BY <3>19 DEF TypeOK, AfterPress, ConnectUnchanged, Raise, attrs
    <3>20. CASE ReportReady
      BY <3>20 DEF TypeOK, ReportReady, ConnectUnchanged, Raise, attrs
    <3>21. CASE ConnectReturns
      BY <3>21 DEF TypeOK, ConnectReturns, ConnectUnchanged, attrs
    <3>22. CASE ConnectRaises
      BY <3>22 DEF TypeOK, ConnectRaises, ConnectUnchanged, attrs
    <3> QED BY <2>1, <3>1, <3>2, <3>3, <3>4, <3>5, <3>6, <3>7, <3>8, <3>9, <3>10,
          <3>11, <3>12, <3>13, <3>14, <3>15, <3>16, <3>17, <3>18, <3>19, <3>20,
          <3>21, <3>22 DEF Connect
  <2>2. CASE Disconnect
    <3>1. CASE DisconnectCall
      BY <3>1 DEF TypeOK, DisconnectCall, DisconnectUnchanged, Connecting, ConnectEnded,
         attrs
    <3>2. CASE SetStop
      BY <3>2 DEF TypeOK, SetStop, DisconnectUnchanged, attrs
    <3>3. CASE JoinKeepalive
      <4>1. kaRef' \in BOOLEAN BY <3>3, Zenon DEF TypeOK, JoinKeepalive,
             DisconnectUnchanged
      <4> QED BY <3>3, <4>1 DEF TypeOK, JoinKeepalive, DisconnectUnchanged,
             attrs
    <3>4. CASE CloseConnection
      BY <3>4 DEF TypeOK, CloseConnection, DisconnectUnchanged, attrs
    <3>5. CASE DropConnection
      <4>1. conn' \in BOOLEAN
        BY <3>5, Zenon DEF TypeOK, DropConnection
      <4>2. proto' \in BOOLEAN
        BY <3>5, Zenon DEF TypeOK, DropConnection
      <4>3. discPc' \in DiscPcs
        BY <3>5 DEF DropConnection
      <4>4. DisconnectUnchanged /\ UNCHANGED <<state, sdp, agent, connectedAt, stop, kaRef, sock,
                       listening, raced>>
        BY <3>5 DEF DropConnection
      <4> QED
        BY <4>1, <4>2, <4>3, <4>4 DEF TypeOK, DisconnectUnchanged, attrs
    <3>6. CASE UnregisterProfile
      <4>1. listening' \in BOOLEAN
        BY <3>6, Zenon DEF TypeOK, UnregisterProfile
      <4>2. discPc' \in DiscPcs
        BY <3>6 DEF UnregisterProfile
      <4>3. DisconnectUnchanged /\ UNCHANGED <<state, attrs, stop, kaRef, sock, raced>>
        BY <3>6 DEF UnregisterProfile
      <4> QED
        BY <4>1, <4>2, <4>3 DEF TypeOK, DisconnectUnchanged, attrs
    <3>7. CASE DropProfile
      <4>1. sdp' \in BOOLEAN BY <3>7, Zenon DEF TypeOK, DropProfile,
             DisconnectUnchanged
      <4> QED BY <3>7, <4>1 DEF TypeOK, DropProfile, DisconnectUnchanged, attrs
    <3>8. CASE UnregisterAgent
      <4>1. agent' \in BOOLEAN BY <3>8, Zenon DEF TypeOK, UnregisterAgent,
             DisconnectUnchanged
      <4>2. connectedAt' \in BOOLEAN BY <3>8, Zenon DEF TypeOK, UnregisterAgent,
             DisconnectUnchanged
      <4> QED BY <3>8, <4>1, <4>2 DEF TypeOK, UnregisterAgent,
             DisconnectUnchanged, attrs
    <3>9. CASE DisconnectReturns
      BY <3>9 DEF TypeOK, DisconnectReturns, DisconnectUnchanged, attrs
    <3>10. CASE DisconnectRaises
      BY <3>10 DEF TypeOK, DisconnectRaises, DisconnectUnchanged, attrs
    <3> QED BY <2>2, <3>1, <3>2, <3>3, <3>4, <3>5, <3>6, <3>7, <3>8, <3>9, <3>10 DEF Disconnect, DisconnectStep
  <2>3. CASE Keepalive
    <3>1. CASE KaAcquire
      BY <3>1 DEF TypeOK, KaAcquire, KeepaliveUnchanged, attrs
    <3>2. CASE KaCheckStop
      BY <3>2 DEF TypeOK, KaCheckStop, KeepaliveUnchanged, attrs
    <3>3. CASE KaIncoming
      <4>1. dirty' \in BOOLEAN
        BY <3>3, Zenon DEF TypeOK, KaIncoming
      <4>2. /\ state' \in ControllerState /\ kaPc' \in KaPcs
            /\ lock' \in Threads \cup {"none"}
        BY <3>3 DEF TypeOK, KaIncoming, KaCrash
      <4>3. KeepaliveUnchanged
        BY <3>3 DEF KaIncoming
      <4> QED
        BY <4>1, <4>2, <4>3 DEF TypeOK, KeepaliveUnchanged, attrs
    <3>4. CASE KaReply
      BY <3>4 DEF TypeOK, KaReply, KeepaliveUnchanged, KaCrash, attrs
    <3>5. CASE KaBuild
      <4>1. dirty' \in BOOLEAN
        BY <3>5, Zenon DEF TypeOK, KaBuild
      <4>2. /\ state' \in ControllerState /\ kaPc' \in KaPcs
            /\ lock' \in Threads \cup {"none"}
        BY <3>5 DEF TypeOK, KaBuild, KaCrash
      <4>3. KeepaliveUnchanged
        BY <3>5 DEF KaBuild
      <4> QED
        BY <4>1, <4>2, <4>3 DEF TypeOK, KeepaliveUnchanged, attrs
    <3>6. CASE KaSend
      BY <3>6 DEF TypeOK, KaSend, KeepaliveUnchanged, KaCrash, attrs
    <3> QED BY <2>3, <3>1, <3>2, <3>3, <3>4, <3>5, <3>6 DEF Keepalive, KaStep
  <2>4. ASSUME NEW p \in Pressers, Press(p) PROVE TypeOK'
    <3>1. CASE PressAcquire(p)
      BY <3>1 DEF TypeOK, PressAcquire, PressUnchanged, attrs
    <3>2. CASE PressUpdate(p)
      BY <3>2 DEF TypeOK, PressUpdate, PressUnchanged, attrs
    <3>3. CASE PressBuild(p)
      <4>1. dirty' \in BOOLEAN BY <3>3, Zenon DEF TypeOK, PressBuild,
             PressUnchanged
      <4> QED BY <3>3, <4>1 DEF TypeOK, PressBuild, PressUnchanged, attrs
    <3>4. CASE PressSend(p)
      BY <3>4 DEF TypeOK, PressSend, PressUnchanged, attrs
    <3>5. CASE PressSleep(p)
      BY <3>5 DEF TypeOK, PressSleep, PressUnchanged, attrs
    <3> QED BY <2>4, <3>1, <3>2, <3>3, <3>4, <3>5 DEF Press, PressStep
  <2>5. ASSUME NEW p \in Presses, PressRequest(p) PROVE TypeOK'
    BY <2>5 DEF TypeOK, PressRequest, PressUnchanged, attrs
  <2>6. CASE HoldOrRelease \/ LinkLost
    BY <2>6 DEF TypeOK, HoldOrRelease, LinkLost, attrs
  <2>7. CASE UNCHANGED vars
    BY <2>7 DEF TypeOK, vars, attrs
  <2> QED
    BY <2>1, <2>2, <2>3, <2>4, <2>5, <2>6, <2>7 DEF Next, Terminating
<1> QED
  BY <1>1, <1>2, PTL DEF Spec


-----------------------------------------------------------------------------
\* The stages of connect() and disconnect(): the strengthening the properties
\* below follow from.
THEOREM LifecycleHolds == Spec => []Lifecycle
<1>1. Init => Lifecycle
  <2> SUFFICES ASSUME Init PROVE Lifecycle
    OBVIOUS
  <2>1. \A p \in Pressers : pressPc[p] = "idle"
    BY DEF Init
  <2> QED
    BY <2>1 DEF Init, Lifecycle, RaceRecorded, Building, LinkOwned, Undoing,
       RaisesOnlyIfRaced, KaAlive, HasConn, HasProto, HasReport, HasThread,
       HasPressed
<1>2. TypeOK /\ Lifecycle /\ [Next]_vars => Lifecycle'
  <2> SUFFICES ASSUME TypeOK, Lifecycle, [Next]_vars PROVE Lifecycle'
    OBVIOUS
  <2> USE DEF Lifecycle, RaceRecorded, Building, LinkOwned, Undoing,
          RaisesOnlyIfRaced, Connecting, ConnectEnded, KaAlive, HasConn, HasProto,
          HasReport, HasThread, HasStarted, HasPressed
  <2>8. "lr" \in Pressers /\ "lr" \notin Presses /\ Presses \subseteq Pressers
    BY ConstantsAssumption DEF Pressers
  <2>9. pressPc \in [Pressers -> PressPcs]
    BY DEF TypeOK
  <2>1. CASE Connect
    <3>1. CASE ConnectCall
      BY <3>1 DEF ConnectCall, ConnectUnchanged, attrs
    <3>2. CASE SetupAdapter
      BY <3>2 DEF SetupAdapter, ConnectUnchanged, Raise, attrs
    <3>3. CASE RegisterAgent
      BY <3>3 DEF RegisterAgent, ConnectUnchanged, Raise, attrs
    <3>4. CASE RegisterProfile
      BY <3>4 DEF RegisterProfile, ConnectUnchanged, Raise, attrs
    <3>5. CASE ReapplyClass
      BY <3>5 DEF ReapplyClass, ConnectUnchanged, Raise, attrs
    <3>6. CASE DialOut
      BY <3>6 DEF DialOut, ConnectUnchanged, attrs
    <3>7. CASE FallBackToListen
      BY <3>7 DEF FallBackToListen, ConnectUnchanged, Raise, attrs
    <3>8. CASE Listen
      BY <3>8 DEF Listen, ConnectUnchanged, attrs
    <3>9. CASE Accept
      BY <3>9 DEF Accept, ConnectUnchanged, attrs
    <3>10. CASE AcceptFails
      BY <3>10 DEF AcceptFails, ConnectUnchanged, Raise, attrs
    <3>11. CASE WrapSockets
      BY <3>11 DEF WrapSockets, ConnectUnchanged, attrs
    <3>12. CASE MakeProtocol
      BY <3>12 DEF MakeProtocol, ConnectUnchanged, Raise, attrs
    <3>13. CASE StartHandshake
      BY <3>13 DEF StartHandshake, ConnectUnchanged, Raise, attrs
    <3>14. CASE FinishHandshake
      BY <3>14 DEF FinishHandshake, ConnectUnchanged, Raise, attrs
    <3>15. CASE AdoptReport
      BY <3>15 DEF AdoptReport, ConnectUnchanged, Raise, attrs
    <3>16. CASE ClearStop
      BY <3>16 DEF ClearStop, ConnectUnchanged, attrs
    <3>17. CASE MakeKeepalive
      BY <3>17 DEF MakeKeepalive, ConnectUnchanged, attrs
    <3>18. CASE StartKeepalive
      BY <2>8, <2>9, <3>18 DEF StartKeepalive, ConnectUnchanged, attrs
    <3>19. CASE AfterPress
      BY <3>19 DEF AfterPress, ConnectUnchanged, Raise, attrs
    <3>20. CASE ReportReady
      BY <3>20 DEF ReportReady, ConnectUnchanged, Raise, attrs
    <3>21. CASE ConnectReturns
      BY <3>21 DEF ConnectReturns, ConnectUnchanged, attrs
    <3>22. CASE ConnectRaises
      BY <3>22 DEF ConnectRaises, ConnectUnchanged, attrs
    <3> QED BY <2>1, <3>1, <3>2, <3>3, <3>4, <3>5, <3>6, <3>7, <3>8, <3>9, <3>10,
          <3>11, <3>12, <3>13, <3>14, <3>15, <3>16, <3>17, <3>18, <3>19, <3>20,
          <3>21, <3>22 DEF Connect
  <2>2. CASE Disconnect
    <3>1. CASE DisconnectCall
      BY <3>1 DEF DisconnectCall, DisconnectUnchanged, attrs
    <3>2. CASE SetStop
      BY <3>2 DEF SetStop, DisconnectUnchanged, attrs
    <3>3. CASE JoinKeepalive
      BY <3>3 DEF JoinKeepalive, DisconnectUnchanged, attrs
    <3>4. CASE CloseConnection
      BY <3>4 DEF CloseConnection, DisconnectUnchanged, attrs
    <3>5. CASE DropConnection
      BY <3>5 DEF DropConnection, DisconnectUnchanged, attrs
    <3>6. CASE UnregisterProfile
      BY <3>6 DEF UnregisterProfile, DisconnectUnchanged, attrs
    <3>7. CASE DropProfile
      BY <3>7 DEF DropProfile, DisconnectUnchanged, attrs
    <3>8. CASE UnregisterAgent
      BY <3>8 DEF UnregisterAgent, DisconnectUnchanged, attrs
    <3>9. CASE DisconnectReturns
      BY <3>9 DEF DisconnectReturns, DisconnectUnchanged, attrs
    <3>10. CASE DisconnectRaises
      BY <3>10 DEF DisconnectRaises, DisconnectUnchanged, attrs
    <3> QED BY <2>2, <3>1, <3>2, <3>3, <3>4, <3>5, <3>6, <3>7, <3>8, <3>9, <3>10 DEF Disconnect, DisconnectStep
  <2>3. CASE Keepalive
    <3>1. CASE KaAcquire
      BY <3>1 DEF KaAcquire, KeepaliveUnchanged, attrs
    <3>2. CASE KaCheckStop
      BY <3>2 DEF KaCheckStop, KeepaliveUnchanged, attrs
    <3>3. CASE KaIncoming
      BY <3>3 DEF KaIncoming, KeepaliveUnchanged, KaCrash, attrs
    <3>4. CASE KaReply
      BY <3>4 DEF KaReply, KeepaliveUnchanged, KaCrash, attrs
    <3>5. CASE KaBuild
      BY <3>5 DEF KaBuild, KeepaliveUnchanged, KaCrash, attrs
    <3>6. CASE KaSend
      BY <3>6 DEF KaSend, KeepaliveUnchanged, KaCrash, attrs
    <3> QED BY <2>3, <3>1, <3>2, <3>3, <3>4, <3>5, <3>6 DEF Keepalive, KaStep
  <2>4. ASSUME NEW p \in Pressers, Press(p) PROVE Lifecycle'
    <3>1. CASE PressAcquire(p)
      BY <2>8, <2>9, <3>1 DEF PressAcquire, PressUnchanged, attrs
    <3>2. CASE PressUpdate(p)
      BY <2>8, <2>9, <3>2 DEF PressUpdate, PressUnchanged, attrs
    <3>3. CASE PressBuild(p)
      BY <2>8, <2>9, <3>3 DEF PressBuild, PressUnchanged, attrs
    <3>4. CASE PressSend(p)
      BY <2>8, <2>9, <3>4 DEF PressSend, PressUnchanged, attrs
    <3>5. CASE PressSleep(p)
      BY <2>8, <2>9, <3>5 DEF PressSleep, PressUnchanged, attrs
    <3> QED BY <2>4, <3>1, <3>2, <3>3, <3>4, <3>5 DEF Press, PressStep
  <2>5. ASSUME NEW p \in Presses, PressRequest(p) PROVE Lifecycle'
    BY <2>5, <2>8, <2>9 DEF PressRequest, PressUnchanged, EnsureConnected, attrs
  <2>6. CASE HoldOrRelease \/ LinkLost
    BY <2>6 DEF HoldOrRelease, LinkLost, attrs
  <2>7. CASE UNCHANGED vars
    BY <2>7 DEF vars, attrs
  <2> QED
    BY <2>1, <2>2, <2>3, <2>4, <2>5, <2>6, <2>7 DEF Next, Terminating
<1> QED
  BY <1>1, <1>2, TypeCorrect, PTL DEF Spec


-----------------------------------------------------------------------------
\* The send lock is owned exactly while a thread encodes and sends a report,
\* however the report ends.
THEOREM LockIsHeldWhileSending == Spec => []LockDiscipline
<1> USE DEF KaHolds, PressHolds
<1>1. Init => LockDiscipline
  BY ConstantsAssumption DEF Init, LockDiscipline, Pressers
<1>2. TypeOK /\ Lifecycle /\ LockDiscipline /\ [Next]_vars => LockDiscipline'
  <2> SUFFICES ASSUME TypeOK, Lifecycle, LockDiscipline, [Next]_vars
               PROVE  LockDiscipline'
    OBVIOUS
  <2>8. "ka" \notin Pressers /\ "none" \notin Pressers /\ "lr" \in Pressers
    BY ConstantsAssumption DEF Pressers
  <2>9. pressPc \in [Pressers -> PressPcs]
    BY DEF TypeOK
  <2>1. CASE Connect
    <3>1. CASE ConnectCall
      BY <3>1 DEF LockDiscipline, ConnectCall, ConnectUnchanged, attrs
    <3>2. CASE SetupAdapter
      BY <3>2 DEF LockDiscipline, SetupAdapter, ConnectUnchanged, Raise, attrs
    <3>3. CASE RegisterAgent
      BY <3>3 DEF LockDiscipline, RegisterAgent, ConnectUnchanged, Raise, attrs
    <3>4. CASE RegisterProfile
      BY <3>4 DEF LockDiscipline, RegisterProfile, ConnectUnchanged, Raise,
         attrs
    <3>5. CASE ReapplyClass
      BY <3>5 DEF LockDiscipline, ReapplyClass, ConnectUnchanged, Raise, attrs
    <3>6. CASE DialOut
      BY <3>6 DEF LockDiscipline, DialOut, ConnectUnchanged, attrs
    <3>7. CASE FallBackToListen
      BY <3>7 DEF LockDiscipline, FallBackToListen, ConnectUnchanged, Raise,
         attrs
    <3>8. CASE Listen
      BY <3>8 DEF LockDiscipline, Listen, ConnectUnchanged, attrs
    <3>9. CASE Accept
      BY <3>9 DEF LockDiscipline, Accept, ConnectUnchanged, attrs
    <3>10. CASE AcceptFails
      BY <3>10 DEF LockDiscipline, AcceptFails, ConnectUnchanged, Raise, attrs
    <3>11. CASE WrapSockets
      BY <3>11 DEF LockDiscipline, WrapSockets, ConnectUnchanged, attrs
    <3>12. CASE MakeProtocol
      BY <3>12 DEF LockDiscipline, MakeProtocol, ConnectUnchanged, Raise, attrs
    <3>13. CASE StartHandshake
      BY <3>13 DEF LockDiscipline, StartHandshake, ConnectUnchanged, Raise,
         attrs
    <3>14. CASE FinishHandshake
      BY <3>14 DEF LockDiscipline, FinishHandshake, ConnectUnchanged, Raise,
         attrs
    <3>15. CASE AdoptReport
      BY <3>15 DEF LockDiscipline, AdoptReport, ConnectUnchanged, Raise, attrs
    <3>16. CASE ClearStop
      BY <3>16 DEF LockDiscipline, ClearStop, ConnectUnchanged, attrs
    <3>17. CASE MakeKeepalive
      BY <3>17 DEF LockDiscipline, MakeKeepalive, ConnectUnchanged, attrs
    <3>18. CASE StartKeepalive
      BY <2>8, <2>9, <3>18 DEF LockDiscipline, StartKeepalive, Lifecycle,
         Building, HasStarted, ConnectUnchanged, attrs
    <3>19. CASE AfterPress
      BY <3>19 DEF LockDiscipline, AfterPress, ConnectUnchanged, Raise, attrs
    <3>20. CASE ReportReady
      BY <3>20 DEF LockDiscipline, ReportReady, ConnectUnchanged, Raise, attrs
    <3>21. CASE ConnectReturns
      BY <3>21 DEF LockDiscipline, ConnectReturns, ConnectUnchanged, attrs
    <3>22. CASE ConnectRaises
      BY <3>22 DEF LockDiscipline, ConnectRaises, ConnectUnchanged, attrs
    <3> QED BY <2>1, <3>1, <3>2, <3>3, <3>4, <3>5, <3>6, <3>7, <3>8, <3>9, <3>10,
          <3>11, <3>12, <3>13, <3>14, <3>15, <3>16, <3>17, <3>18, <3>19, <3>20,
          <3>21, <3>22 DEF Connect
  <2>2. CASE Disconnect
    <3>1. CASE DisconnectCall
      BY <3>1 DEF LockDiscipline, DisconnectCall, DisconnectUnchanged, attrs
    <3>2. CASE SetStop
      BY <3>2 DEF LockDiscipline, SetStop, DisconnectUnchanged, attrs
    <3>3. CASE JoinKeepalive
      BY <3>3 DEF LockDiscipline, JoinKeepalive, DisconnectUnchanged, attrs
    <3>4. CASE CloseConnection
      BY <3>4 DEF LockDiscipline, CloseConnection, DisconnectUnchanged, attrs
    <3>5. CASE DropConnection
      BY <3>5 DEF LockDiscipline, DropConnection, DisconnectUnchanged, attrs
    <3>6. CASE UnregisterProfile
      BY <3>6 DEF LockDiscipline, UnregisterProfile, DisconnectUnchanged, attrs
    <3>7. CASE DropProfile
      BY <3>7 DEF LockDiscipline, DropProfile, DisconnectUnchanged, attrs
    <3>8. CASE UnregisterAgent
      BY <3>8 DEF LockDiscipline, UnregisterAgent, DisconnectUnchanged, attrs
    <3>9. CASE DisconnectReturns
      BY <3>9 DEF LockDiscipline, DisconnectReturns, DisconnectUnchanged, attrs
    <3>10. CASE DisconnectRaises
      BY <3>10 DEF LockDiscipline, DisconnectRaises, DisconnectUnchanged, attrs
    <3> QED BY <2>2, <3>1, <3>2, <3>3, <3>4, <3>5, <3>6, <3>7, <3>8, <3>9, <3>10 DEF Disconnect, DisconnectStep
  <2>3. CASE Keepalive
    <3>1. CASE KaAcquire
      BY <2>8, <3>1 DEF LockDiscipline, KaAcquire, KeepaliveUnchanged, attrs
    <3>2. CASE KaCheckStop
      BY <2>8, <3>2 DEF LockDiscipline, KaCheckStop, KeepaliveUnchanged, attrs
    <3>3. CASE KaIncoming
      BY <2>8, <3>3 DEF LockDiscipline, KaIncoming, KeepaliveUnchanged, KaCrash,
         attrs
    <3>4. CASE KaReply
      BY <2>8, <3>4 DEF LockDiscipline, KaReply, KeepaliveUnchanged, KaCrash,
         attrs
    <3>5. CASE KaBuild
      BY <2>8, <3>5 DEF LockDiscipline, KaBuild, KeepaliveUnchanged, KaCrash,
         attrs
    <3>6. CASE KaSend
      BY <2>8, <3>6 DEF LockDiscipline, KaSend, KeepaliveUnchanged, KaCrash,
         attrs
    <3> QED BY <2>3, <3>1, <3>2, <3>3, <3>4, <3>5, <3>6 DEF Keepalive, KaStep
  <2>4. ASSUME NEW p \in Pressers, Press(p) PROVE LockDiscipline'
    <3>1. CASE PressAcquire(p)
      BY <2>8, <2>9, <3>1 DEF LockDiscipline, PressAcquire, PressUnchanged,
         attrs
    <3>2. CASE PressUpdate(p)
      BY <2>8, <2>9, <3>2 DEF LockDiscipline, PressUpdate, PressUnchanged, attrs
    <3>3. CASE PressBuild(p)
      BY <2>8, <2>9, <3>3 DEF LockDiscipline, PressBuild, PressUnchanged, attrs
    <3>4. CASE PressSend(p)
      BY <2>8, <2>9, <3>4 DEF LockDiscipline, PressSend, PressUnchanged, attrs
    <3>5. CASE PressSleep(p)
      BY <2>8, <2>9, <3>5 DEF LockDiscipline, PressSleep, PressUnchanged, attrs
    <3> QED BY <2>4, <3>1, <3>2, <3>3, <3>4, <3>5 DEF Press, PressStep
  <2>5. ASSUME NEW p \in Presses, PressRequest(p) PROVE LockDiscipline'
    BY <2>5, <2>8, <2>9 DEF LockDiscipline, PressRequest, PressUnchanged, attrs,
       Pressers
  <2>6. CASE HoldOrRelease \/ LinkLost
    BY <2>6 DEF LockDiscipline, HoldOrRelease, LinkLost, attrs
  <2>7. CASE UNCHANGED vars
    BY <2>7 DEF LockDiscipline, vars, attrs
  <2> QED
    BY <2>1, <2>2, <2>3, <2>4, <2>5, <2>6, <2>7 DEF Next, Terminating
<1> QED
  BY <1>1, <1>2, TypeCorrect, LifecycleHolds, PTL DEF Spec


\* disconnect() raises only when it raced with connect().
THEOREM DisconnectRaisesOnlyIfRaced == Spec => []RaisesOnlyIfRaced
<1>1. Lifecycle => RaisesOnlyIfRaced
  BY DEF Lifecycle
<1> QED
  BY <1>1, LifecycleHolds, PTL

\* After a disconnect() that did not race nothing is left open or referred to.
THEOREM DisconnectIsClean == Spec => []CleanDisconnect
<1>1. TypeOK /\ Lifecycle => CleanDisconnect
  BY DEF TypeOK, Lifecycle, RaceRecorded, Building, LinkOwned, Undoing,
     CleanDisconnect, Connecting, ConnectEnded
<1> QED
  BY <1>1, TypeCorrect, LifecycleHolds, PTL

\* The two together, which is what the runs check: _disconnect_sync called after
\* connect() ended neither raises nor leaves anything behind.
THEOREM DisconnectAlwaysWorks == Spec => []DisconnectWorks
  BY DisconnectIsClean, DisconnectRaisesOnlyIfRaced, PTL DEF DisconnectWorks

\* CONNECTED stands for a complete session until disconnect() is called.
THEOREM ConnectedIsASession == Spec => []ConnectedMeansSession
<1>1. Lifecycle => ConnectedMeansSession
  BY DEF Lifecycle, Building, ConnectedMeansSession, HasConn, HasProto,
     HasReport, HasThread, HasPressed
<1> QED
  BY <1>1, LifecycleHolds, PTL

\* If join() waits until the thread ends, no report is under way when a
\* disconnect() that did not race closes the connection.
THEOREM JoinedBeforeClosing ==
  ASSUME ~JoinMayTimeOut PROVE Spec => []KeepaliveJoined
<1>1. Init => KeepaliveJoined
  BY DEF Init, KeepaliveJoined
<1>2. TypeOK /\ Lifecycle /\ KeepaliveJoined /\ [Next]_vars => KeepaliveJoined'
  <2> SUFFICES ASSUME TypeOK, Lifecycle, KeepaliveJoined, [Next]_vars
               PROVE  KeepaliveJoined'
    OBVIOUS
  <2> USE DEF KeepaliveJoined, KaAlive, Lifecycle, RaceRecorded, Building,
          Undoing, Connecting, ConnectEnded
  <2>1. CASE Connect
    <3>1. CASE ConnectCall
      BY <3>1 DEF ConnectCall, ConnectUnchanged, attrs
    <3>2. CASE SetupAdapter
      BY <3>2 DEF SetupAdapter, ConnectUnchanged, Raise, attrs
    <3>3. CASE RegisterAgent
      BY <3>3 DEF RegisterAgent, ConnectUnchanged, Raise, attrs
    <3>4. CASE RegisterProfile
      BY <3>4 DEF RegisterProfile, ConnectUnchanged, Raise, attrs
    <3>5. CASE ReapplyClass
      BY <3>5 DEF ReapplyClass, ConnectUnchanged, Raise, attrs
    <3>6. CASE DialOut
      BY <3>6 DEF DialOut, ConnectUnchanged, attrs
    <3>7. CASE FallBackToListen
      BY <3>7 DEF FallBackToListen, ConnectUnchanged, Raise, attrs
    <3>8. CASE Listen
      BY <3>8 DEF Listen, ConnectUnchanged, attrs
    <3>9. CASE Accept
      BY <3>9 DEF Accept, ConnectUnchanged, attrs
    <3>10. CASE AcceptFails
      BY <3>10 DEF AcceptFails, ConnectUnchanged, Raise, attrs
    <3>11. CASE WrapSockets
      BY <3>11 DEF WrapSockets, ConnectUnchanged, attrs
    <3>12. CASE MakeProtocol
      BY <3>12 DEF MakeProtocol, ConnectUnchanged, Raise, attrs
    <3>13. CASE StartHandshake
      BY <3>13 DEF StartHandshake, ConnectUnchanged, Raise, attrs
    <3>14. CASE FinishHandshake
      BY <3>14 DEF FinishHandshake, ConnectUnchanged, Raise, attrs
    <3>15. CASE AdoptReport
      BY <3>15 DEF AdoptReport, ConnectUnchanged, Raise, attrs
    <3>16. CASE ClearStop
      BY <3>16 DEF ClearStop, ConnectUnchanged, attrs
    <3>17. CASE MakeKeepalive
      BY <3>17 DEF MakeKeepalive, ConnectUnchanged, attrs
    <3>18. CASE StartKeepalive
      BY <3>18 DEF StartKeepalive, ConnectUnchanged, attrs
    <3>19. CASE AfterPress
      BY <3>19 DEF AfterPress, ConnectUnchanged, Raise, attrs
    <3>20. CASE ReportReady
      BY <3>20 DEF ReportReady, ConnectUnchanged, Raise, attrs
    <3>21. CASE ConnectReturns
      BY <3>21 DEF ConnectReturns, ConnectUnchanged, attrs
    <3>22. CASE ConnectRaises
      BY <3>22 DEF ConnectRaises, ConnectUnchanged, attrs
    <3> QED BY <2>1, <3>1, <3>2, <3>3, <3>4, <3>5, <3>6, <3>7, <3>8, <3>9, <3>10,
          <3>11, <3>12, <3>13, <3>14, <3>15, <3>16, <3>17, <3>18, <3>19, <3>20,
          <3>21, <3>22 DEF Connect
  <2>2. CASE Disconnect
    <3>1. CASE DisconnectCall
      BY <3>1 DEF DisconnectCall, DisconnectUnchanged, attrs
    <3>2. CASE SetStop
      BY <3>2 DEF SetStop, DisconnectUnchanged, attrs
    <3>3. CASE JoinKeepalive
      BY <3>3 DEF JoinKeepalive, DisconnectUnchanged, attrs
    <3>4. CASE CloseConnection
      BY <3>4 DEF CloseConnection, DisconnectUnchanged, attrs
    <3>5. CASE DropConnection
      BY <3>5 DEF DropConnection, DisconnectUnchanged, attrs
    <3>6. CASE UnregisterProfile
      BY <3>6 DEF UnregisterProfile, DisconnectUnchanged, attrs
    <3>7. CASE DropProfile
      BY <3>7 DEF DropProfile, DisconnectUnchanged, attrs
    <3>8. CASE UnregisterAgent
      BY <3>8 DEF UnregisterAgent, DisconnectUnchanged, attrs
    <3>9. CASE DisconnectReturns
      BY <3>9 DEF DisconnectReturns, DisconnectUnchanged, attrs
    <3>10. CASE DisconnectRaises
      BY <3>10 DEF DisconnectRaises, DisconnectUnchanged, attrs
    <3> QED BY <2>2, <3>1, <3>2, <3>3, <3>4, <3>5, <3>6, <3>7, <3>8, <3>9, <3>10 DEF Disconnect, DisconnectStep
  <2>3. CASE Keepalive
    <3>1. CASE KaAcquire
      BY <3>1 DEF KaAcquire, KeepaliveUnchanged, attrs
    <3>2. CASE KaCheckStop
      BY <3>2 DEF KaCheckStop, KeepaliveUnchanged, attrs
    <3>3. CASE KaIncoming
      BY <3>3 DEF KaIncoming, KeepaliveUnchanged, KaCrash, attrs
    <3>4. CASE KaReply
      BY <3>4 DEF KaReply, KeepaliveUnchanged, KaCrash, attrs
    <3>5. CASE KaBuild
      BY <3>5 DEF KaBuild, KeepaliveUnchanged, KaCrash, attrs
    <3>6. CASE KaSend
      BY <3>6 DEF KaSend, KeepaliveUnchanged, KaCrash, attrs
    <3> QED BY <2>3, <3>1, <3>2, <3>3, <3>4, <3>5, <3>6 DEF Keepalive, KaStep
  <2>4. ASSUME NEW p \in Pressers, Press(p) PROVE KeepaliveJoined'
    <3>1. CASE PressAcquire(p)
      BY <3>1 DEF PressAcquire, PressUnchanged, attrs
    <3>2. CASE PressUpdate(p)
      BY <3>2 DEF PressUpdate, PressUnchanged, attrs
    <3>3. CASE PressBuild(p)
      BY <3>3 DEF PressBuild, PressUnchanged, attrs
    <3>4. CASE PressSend(p)
      BY <3>4 DEF PressSend, PressUnchanged, attrs
    <3>5. CASE PressSleep(p)
      BY <3>5 DEF PressSleep, PressUnchanged, attrs
    <3> QED BY <2>4, <3>1, <3>2, <3>3, <3>4, <3>5 DEF Press, PressStep
  <2>5. ASSUME NEW p \in Presses, PressRequest(p) PROVE KeepaliveJoined'
    BY <2>5 DEF PressRequest, PressUnchanged, attrs
  <2>6. CASE HoldOrRelease \/ LinkLost
    BY <2>6 DEF HoldOrRelease, LinkLost, attrs
  <2>7. CASE UNCHANGED vars
    BY <2>7 DEF vars, attrs
  <2> QED
    BY <2>1, <2>2, <2>3, <2>4, <2>5, <2>6, <2>7 DEF Next, Terminating
<1> QED
  BY <1>1, <1>2, TypeCorrect, LifecycleHolds, PTL DEF Spec

-----------------------------------------------------------------------------
\* Refinement: the backend's steps are steps of the contract, or hidden.
THEOREM ContractKept == Spec => ImplementsContract
<1>1. Init => Contract!Init
  BY DEF Init, Contract!Init, ConnectCallStatus, DisconnectCallStatus
<1>2. TypeOK /\ Lifecycle /\ [Next]_vars => [Contract!Next]_Contract!vars
  <2> SUFFICES ASSUME TypeOK, Lifecycle, [Next]_vars
               PROVE  [Contract!Next]_Contract!vars
    OBVIOUS
  <2> USE DEF Contract!vars, ConnectCallStatus, DisconnectCallStatus
  <2>1. CASE Connect
    <3>1. CASE ConnectCall
      BY <3>1 DEF ConnectCall, ConnectUnchanged, attrs, Contract!Next,
         Contract!Connect
    <3>2. CASE SetupAdapter
      BY <3>2 DEF SetupAdapter, ConnectUnchanged, Raise, attrs
    <3>3. CASE RegisterAgent
      BY <3>3 DEF RegisterAgent, ConnectUnchanged, Raise, attrs
    <3>4. CASE RegisterProfile
      BY <3>4 DEF RegisterProfile, ConnectUnchanged, Raise, attrs
    <3>5. CASE ReapplyClass
      BY <3>5 DEF ReapplyClass, ConnectUnchanged, Raise, attrs
    <3>6. CASE DialOut
      BY <3>6 DEF DialOut, ConnectUnchanged, attrs, Contract!Next,
         Contract!OpenLink
    <3>7. CASE FallBackToListen
      BY <3>7 DEF FallBackToListen, ConnectUnchanged, Raise, attrs
    <3>8. CASE Listen
      BY <3>8 DEF Listen, ConnectUnchanged, attrs
    <3>9. CASE Accept
      BY <3>9 DEF Accept, ConnectUnchanged, attrs, Contract!Next,
         Contract!OpenLink
    <3>10. CASE AcceptFails
      BY <3>10 DEF AcceptFails, ConnectUnchanged, Raise, attrs
    <3>11. CASE WrapSockets
      BY <3>11 DEF WrapSockets, ConnectUnchanged, attrs
    <3>12. CASE MakeProtocol
      BY <3>12 DEF MakeProtocol, ConnectUnchanged, Raise, attrs
    <3>13. CASE StartHandshake
      BY <3>13 DEF StartHandshake, ConnectUnchanged, Raise, attrs
    <3>14. CASE FinishHandshake
      BY <3>14 DEF FinishHandshake, ConnectUnchanged, Raise, attrs
    <3>15. CASE AdoptReport
      BY <3>15 DEF AdoptReport, ConnectUnchanged, Raise, attrs
    <3>16. CASE ClearStop
      BY <3>16 DEF ClearStop, ConnectUnchanged, attrs
    <3>17. CASE MakeKeepalive
      BY <3>17 DEF MakeKeepalive, ConnectUnchanged, attrs
    <3>18. CASE StartKeepalive
      BY <3>18 DEF StartKeepalive, ConnectUnchanged, attrs
    <3>19. CASE AfterPress
      BY <3>19 DEF AfterPress, ConnectUnchanged, Raise, attrs
    <3>20. CASE ReportReady
      BY <3>20 DEF ReportReady, ConnectUnchanged, Raise, attrs
    <3>21. CASE ConnectReturns
      BY <3>21 DEF ConnectReturns, ConnectUnchanged, attrs, Contract!Next,
         Contract!ConnectReturns, Lifecycle, RaceRecorded, Building, LinkOwned,
         Undoing, RaisesOnlyIfRaced, Connecting, ConnectEnded, HasConn, HasStarted
    <3>22. CASE ConnectRaises
      BY <3>22 DEF ConnectRaises, ConnectUnchanged, attrs, Contract!Next,
         Contract!ConnectRaises
    <3> QED BY <2>1, <3>1, <3>2, <3>3, <3>4, <3>5, <3>6, <3>7, <3>8, <3>9, <3>10,
          <3>11, <3>12, <3>13, <3>14, <3>15, <3>16, <3>17, <3>18, <3>19, <3>20,
          <3>21, <3>22 DEF Connect
  <2>2. CASE Disconnect
    <3>1. CASE DisconnectCall
      BY <3>1 DEF DisconnectCall, DisconnectUnchanged, Connecting, ConnectEnded, attrs,
         Contract!Next, Contract!Disconnect
    <3>2. CASE SetStop
      BY <3>2 DEF SetStop, DisconnectUnchanged, attrs
    <3>3. CASE JoinKeepalive
      BY <3>3 DEF JoinKeepalive, DisconnectUnchanged, attrs
    <3>4. CASE CloseConnection
      BY <3>4 DEF CloseConnection, DisconnectUnchanged, attrs, Contract!Next,
         Contract!CloseLink
    <3>5. CASE DropConnection
      BY <3>5 DEF DropConnection, DisconnectUnchanged, attrs
    <3>6. CASE UnregisterProfile
      BY <3>6 DEF UnregisterProfile, DisconnectUnchanged, attrs
    <3>7. CASE DropProfile
      BY <3>7 DEF DropProfile, DisconnectUnchanged, attrs
    <3>8. CASE UnregisterAgent
      BY <3>8 DEF UnregisterAgent, DisconnectUnchanged, attrs
    <3>9. CASE DisconnectReturns
      BY <3>9 DEF DisconnectReturns, DisconnectUnchanged, attrs, Contract!Next,
         Contract!DisconnectReturns, Lifecycle, RaceRecorded, Building,
         LinkOwned, Undoing, RaisesOnlyIfRaced, Connecting, ConnectEnded, HasConn,
         HasStarted
    <3>10. CASE DisconnectRaises
      BY <3>10 DEF DisconnectRaises, DisconnectUnchanged, attrs, Contract!Next,
         Contract!DisconnectRaises, Lifecycle, RaceRecorded, Building,
         LinkOwned, Undoing, RaisesOnlyIfRaced, Connecting, ConnectEnded, HasConn,
         HasStarted
    <3> QED BY <2>2, <3>1, <3>2, <3>3, <3>4, <3>5, <3>6, <3>7, <3>8, <3>9, <3>10 DEF Disconnect, DisconnectStep
  <2>3. CASE Keepalive
    <3>1. CASE KaAcquire
      BY <3>1 DEF KaAcquire, KeepaliveUnchanged, attrs
    <3>2. CASE KaCheckStop
      BY <3>2 DEF KaCheckStop, KeepaliveUnchanged, attrs
    <3>3. CASE KaIncoming
      BY <3>3 DEF KaIncoming, KeepaliveUnchanged, KaCrash, attrs, Contract!Next,
         Contract!LinkError, Lifecycle, RaceRecorded, Building, LinkOwned,
         Undoing, RaisesOnlyIfRaced, Connecting, ConnectEnded, HasConn, HasStarted
    <3>4. CASE KaReply
      BY <3>4 DEF KaReply, KeepaliveUnchanged, KaCrash, attrs, Contract!Next,
         Contract!LinkError, Lifecycle, RaceRecorded, Building, LinkOwned,
         Undoing, RaisesOnlyIfRaced, Connecting, ConnectEnded, HasConn, HasStarted
    <3>5. CASE KaBuild
      BY <3>5 DEF KaBuild, KeepaliveUnchanged, KaCrash, attrs, Contract!Next,
         Contract!LinkError, Lifecycle, RaceRecorded, Building, LinkOwned,
         Undoing, RaisesOnlyIfRaced, Connecting, ConnectEnded, HasConn, HasStarted
    <3>6. CASE KaSend
      BY <3>6 DEF KaSend, KeepaliveUnchanged, KaCrash, attrs, Contract!Next,
         Contract!LinkError, Lifecycle, RaceRecorded, Building, LinkOwned,
         Undoing, RaisesOnlyIfRaced, Connecting, ConnectEnded, HasConn, HasStarted
    <3> QED BY <2>3, <3>1, <3>2, <3>3, <3>4, <3>5, <3>6 DEF Keepalive, KaStep
  <2>4. ASSUME NEW p \in Pressers, Press(p) PROVE [Contract!Next]_Contract!vars
    <3>1. CASE PressAcquire(p)
      BY <3>1 DEF PressAcquire, PressUnchanged, attrs
    <3>2. CASE PressUpdate(p)
      BY <3>2 DEF PressUpdate, PressUnchanged, attrs
    <3>3. CASE PressBuild(p)
      BY <3>3 DEF PressBuild, PressUnchanged, attrs
    <3>4. CASE PressSend(p)
      BY <3>4 DEF PressSend, PressUnchanged, attrs, Contract!Next,
         Contract!LinkError, Lifecycle, RaceRecorded, Building, LinkOwned,
         Undoing, RaisesOnlyIfRaced, Connecting, ConnectEnded, HasConn, HasStarted
    <3>5. CASE PressSleep(p)
      BY <3>5 DEF PressSleep, PressUnchanged, attrs
    <3> QED BY <2>4, <3>1, <3>2, <3>3, <3>4, <3>5 DEF Press, PressStep
  <2>5. ASSUME NEW p \in Presses, PressRequest(p)
        PROVE  [Contract!Next]_Contract!vars
    BY <2>5 DEF PressRequest, PressUnchanged, attrs
  <2>6. CASE HoldOrRelease \/ LinkLost
    BY <2>6 DEF HoldOrRelease, LinkLost, attrs
  <2>7. CASE UNCHANGED vars
    BY <2>7 DEF vars, attrs
  <2> QED
    BY <2>1, <2>2, <2>3, <2>4, <2>5, <2>6, <2>7 DEF Next, Terminating
<1> QED
  BY <1>1, <1>2, TypeCorrect, LifecycleHolds, PTL
     DEF Spec, ImplementsContract, Contract!Spec

\* What the contract is for: once a disconnect() that was not early has
\* returned, no step opens the link again, over Bluetooth.
THEOREM StaysClosed == Spec => []Contract!ClosedForGood
<1> USE DEF Contract!NoLateConnect, Contract!ClosedForGood
<1>1. Contract!Init => Contract!NoLateConnect /\ Contract!ClosedForGood
  BY DEF Contract!Init
<1>2. Contract!NoLateConnect /\ Contract!ClosedForGood
        /\ [Contract!Next]_Contract!vars
      => (Contract!NoLateConnect /\ Contract!ClosedForGood)'
  <2> SUFFICES ASSUME Contract!NoLateConnect, Contract!ClosedForGood,
                      [Contract!Next]_Contract!vars
               PROVE  (Contract!NoLateConnect /\ Contract!ClosedForGood)'
    OBVIOUS
  <2>1. CASE Contract!Connect \/ Contract!OpenLink
    BY <2>1 DEF Contract!Connect, Contract!OpenLink
  <2>2. CASE Contract!ConnectReturns \/ Contract!ConnectRaises \/ Contract!LinkError
    BY <2>2 DEF Contract!ConnectReturns, Contract!ConnectRaises, Contract!LinkError
  <2>3. CASE Contract!Disconnect \/ Contract!CloseLink
    BY <2>3, Zenon DEF Contract!Disconnect, Contract!CloseLink
  <2>4. CASE Contract!DisconnectReturns \/ Contract!DisconnectRaises
    BY <2>4 DEF Contract!DisconnectReturns, Contract!DisconnectRaises
  <2>5. CASE UNCHANGED Contract!vars
    BY <2>5 DEF Contract!vars
  <2> QED
    BY <2>1, <2>2, <2>3, <2>4, <2>5 DEF Contract!Next
<1>3. Contract!Spec => []Contract!ClosedForGood
  BY <1>1, <1>2, PTL DEF Contract!Spec
<1> QED
  BY <1>3, ContractKept DEF ImplementsContract

=============================================================================
