---------------------------- MODULE SwitchBackend ----------------------------
(***************************************************************************)
(* One instance of backends/switch.py: the life of a Bluetooth controller  *)
(* from connect() to disconnect(), with every thread that touches it.      *)
(*                                                                         *)
(*   - the connect thread runs _connect_sync in the executor,              *)
(*   - the disconnect thread runs _disconnect_sync in the executor,        *)
(*   - the keep-alive thread runs _keepalive_loop,                         *)
(*   - a press thread runs _press_sync; the connect thread runs it too,    *)
(*     for the L+R press that leaves the grip screen (the presser "lr"),   *)
(*   - the event loop runs the coroutines around them.                     *)
(*                                                                         *)
(* A step is one access to state another thread can change. Attributes     *)
(* that hold an object or None are Booleans: TRUE when an object is there. *)
(* The contents of the reports are in InputReport; here a report only      *)
(* matters because encode_buttons iterates a set that others update: an    *)
(* update that changes the set's size makes the iteration raise            *)
(* RuntimeError, which is what "dirty" stands for.                         *)
(***************************************************************************)
EXTENDS Naturals, FiniteSets

CONSTANTS
    Presses,        \* requests that may call press_buttons
    JoinMayTimeOut  \* TRUE: join(timeout=2) may return with the thread alive

ASSUME ConstantsAssumption ==
    /\ {"none", "ka", "lr"} \cap Presses = {}
    /\ JoinMayTimeOut \in BOOLEAN

Pressers == Presses \cup {"lr"}
Threads == Pressers \cup {"ka"}   \* the threads that take _send_lock

VARIABLES
    state,        \* _state
    conn,         \* _conn is not None
    proto,        \* _protocol is not None
    sdp,          \* _sdp is not None
    agent,        \* _agent is not None
    connectedAt,  \* _connected_at is not None
    stop,         \* _keepalive_stop is set
    kaRef,        \* _keepalive_thread is not None
    lock,         \* owner of _send_lock, or "none"
    sock,         \* the L2CAP pair: "none", "up", "lost" (peer gone), "closed"
    listening,    \* the SDP service holds open listening sockets
    dirty,        \* the set being iterated changed size since the iteration began
    connPc,       \* where connect() / _connect_sync stands
    discPc,       \* where disconnect() / _disconnect_sync stands
    kaPc,         \* where the keep-alive thread stands
    pressPc,      \* where each _press_sync stands
    half,         \* 1 while it presses, 2 once it releases
    raced         \* history: disconnect() was called before connect() ended

attrs == <<conn, proto, sdp, agent, connectedAt>>
vars == <<state, attrs, stop, kaRef, lock, sock, listening, dirty,
          connPc, discPc, kaPc, pressPc, half, raced>>

ControllerState == {"connecting", "connected", "disconnected", "error"}

ConnPcs == {"idle", "adapter", "agent", "sdp", "class", "open", "bind", "listen",
            "conn", "proto", "handshake", "shaking", "adopt", "clear",
            "thread", "start", "press", "ready", "return", "raised",
            "connected", "failed"}
DiscPcs == {"idle", "stop", "join", "close", "nullconn", "unsdp", "nullsdp",
            "agent", "return", "raised", "done", "failed"}
KaPcs == {"none", "check", "want", "incoming", "reply", "build", "send",
          "stopped", "crashed"}
PressPcs == {"idle", "update", "want", "build", "send", "sleep", "done", "failed"}

ConnectEnded == connPc \in {"connected", "failed"}
Connecting == connPc # "idle" /\ ~ConnectEnded
KaAlive == kaPc \in {"check", "want", "incoming", "reply", "build", "send"}

\* The thread that is between the start and the end of a report's encoding.
Iterating == \/ kaPc \in {"reply", "send"}
             \/ \E p \in Pressers : pressPc[p] = "send"

\* _ensure_connected: the guard of every input call.
EnsureConnected == conn /\ state = "connected"

Init ==
    /\ state = "disconnected"
    /\ conn = FALSE /\ proto = FALSE /\ sdp = FALSE /\ agent = FALSE
    /\ connectedAt = FALSE
    /\ stop = FALSE
    /\ kaRef = FALSE
    /\ lock = "none"
    /\ sock = "none"
    /\ listening = FALSE
    /\ dirty = FALSE
    /\ connPc = "idle" /\ discPc = "idle" /\ kaPc = "none"
    /\ pressPc = [p \in Pressers |-> "idle"]
    /\ half = [p \in Pressers |-> 1]
    /\ raced = FALSE

(***************************************************************************)
(* connect() and _connect_sync.                                            *)
(***************************************************************************)
ConnectUnchanged == UNCHANGED <<discPc, lock, dirty, half, raced>>

\* A statement of _connect_sync raises: nothing is undone, connect() sees it.
Raise == connPc' = "raised"

\* The manager calls connect() unless the controller was removed before.
ConnectCall ==
    /\ connPc = "idle" /\ discPc = "idle"
    /\ state' = "connecting"
    /\ connPc' = "adapter"
    /\ UNCHANGED <<attrs, stop, kaRef, sock, listening, kaPc, pressPc>>
    /\ ConnectUnchanged

\* Step 1: adapter.setup() and get_address() are hciconfig subprocesses.
SetupAdapter ==
    /\ connPc = "adapter"
    /\ connPc' = "agent" \/ Raise
    /\ UNCHANGED <<state, attrs, stop, kaRef, sock, listening, kaPc, pressPc>>
    /\ ConnectUnchanged

\* Step 2: the attribute is assigned before register() is called.
RegisterAgent ==
    /\ connPc = "agent"
    /\ agent' = TRUE
    /\ connPc' = "sdp" \/ Raise
    /\ UNCHANGED <<state, conn, proto, sdp, connectedAt, stop, kaRef, sock,
                   listening, kaPc, pressPc>>
    /\ ConnectUnchanged

\* Step 3.
RegisterProfile ==
    /\ connPc = "sdp"
    /\ sdp' = TRUE
    /\ connPc' = "class" \/ Raise
    /\ UNCHANGED <<state, conn, proto, agent, connectedAt, stop, kaRef, sock,
                   listening, kaPc, pressPc>>
    /\ ConnectUnchanged

\* Step 4: a hciconfig call may exceed its timeout, which raises.
ReapplyClass ==
    /\ connPc = "class"
    /\ connPc' = "open" \/ Raise
    /\ UNCHANGED <<state, attrs, stop, kaRef, sock, listening, kaPc, pressPc>>
    /\ ConnectUnchanged

\* Step 5, _open_l2cap: a bonded Switch answers the outbound dial.
DialOut ==
    /\ connPc = "open"
    /\ sock' = "up"
    /\ connPc' = "conn"
    /\ UNCHANGED <<state, attrs, stop, kaRef, listening, kaPc, pressPc>>
    /\ ConnectUnchanged

\* Step 5, the first-pair path: self._sdp may have become None meanwhile.
FallBackToListen ==
    /\ connPc = "open"
    /\ IF sdp THEN connPc' = "bind" ELSE Raise
    /\ UNCHANGED <<state, attrs, stop, kaRef, sock, listening, kaPc, pressPc>>
    /\ ConnectUnchanged

Listen ==
    /\ connPc = "bind"
    /\ listening' = TRUE
    /\ connPc' = "listen"
    /\ UNCHANGED <<state, attrs, stop, kaRef, sock, kaPc, pressPc>>
    /\ ConnectUnchanged

\* Both channels are accepted; the listening sockets are closed at once.
Accept ==
    /\ connPc = "listen"
    /\ listening
    /\ listening' = FALSE
    /\ sock' = "up"
    /\ connPc' = "conn"
    /\ UNCHANGED <<state, attrs, stop, kaRef, kaPc, pressPc>>
    /\ ConnectUnchanged

\* accept() times out, or fails because unregister() closed its socket.
AcceptFails ==
    /\ connPc = "listen"
    /\ listening' = FALSE
    /\ Raise
    /\ UNCHANGED <<state, attrs, stop, kaRef, sock, kaPc, pressPc>>
    /\ ConnectUnchanged

WrapSockets ==
    /\ connPc = "conn"
    /\ conn' = TRUE
    /\ connPc' = "proto"
    /\ UNCHANGED <<state, proto, sdp, agent, connectedAt, stop, kaRef, sock,
                   listening, kaPc, pressPc>>
    /\ ConnectUnchanged

\* Step 6: SwitchProtocol(None, ...) fails at its first recv.
MakeProtocol ==
    /\ connPc = "proto"
    /\ proto' = TRUE
    /\ IF conn THEN connPc' = "handshake" ELSE Raise
    /\ UNCHANGED <<state, conn, sdp, agent, connectedAt, stop, kaRef, sock,
                   listening, kaPc, pressPc>>
    /\ ConnectUnchanged

StartHandshake ==
    /\ connPc = "handshake"
    /\ IF proto THEN connPc' = "shaking" ELSE Raise
    /\ UNCHANGED <<state, attrs, stop, kaRef, sock, listening, kaPc, pressPc>>
    /\ ConnectUnchanged

\* The handshake completes only over a live link; it may time out on any.
FinishHandshake ==
    /\ connPc = "shaking"
    /\ (sock = "up" /\ connPc' = "adopt") \/ Raise
    /\ UNCHANGED <<state, attrs, stop, kaRef, sock, listening, kaPc, pressPc>>
    /\ ConnectUnchanged

AdoptReport ==
    /\ connPc = "adopt"
    /\ IF proto THEN connectedAt' = TRUE /\ connPc' = "clear"
                ELSE Raise /\ UNCHANGED connectedAt
    /\ UNCHANGED <<state, conn, proto, sdp, agent, stop, kaRef, sock,
                   listening, kaPc, pressPc>>
    /\ ConnectUnchanged

\* Step 7: the stop event is cleared, the thread made, then started.
ClearStop ==
    /\ connPc = "clear"
    /\ stop' = FALSE
    /\ connPc' = "thread"
    /\ UNCHANGED <<state, attrs, kaRef, sock, listening, kaPc, pressPc>>
    /\ ConnectUnchanged

MakeKeepalive ==
    /\ connPc = "thread"
    /\ kaRef' = TRUE
    /\ connPc' = "start"
    /\ UNCHANGED <<state, attrs, stop, sock, listening, kaPc, pressPc>>
    /\ ConnectUnchanged

\* Step 8 begins as soon as the thread runs: the L+R press.
StartKeepalive ==
    /\ connPc = "start"
    /\ kaPc' = "check"
    /\ pressPc' = [pressPc EXCEPT !["lr"] = "update"]
    /\ connPc' = "press"
    /\ UNCHANGED <<state, attrs, stop, kaRef, sock, listening>>
    /\ ConnectUnchanged

\* Faulty variant: a failed L+R press is ignored.
AfterPress_Ignored ==
    /\ connPc = "press" /\ pressPc["lr"] \in {"done", "failed"}
    /\ connPc' = "ready"
    /\ UNCHANGED <<state, attrs, stop, kaRef, sock, listening, kaPc, pressPc>>
    /\ ConnectUnchanged

AfterPress ==
    /\ connPc = "press"
    /\ \/ pressPc["lr"] = "done" /\ connPc' = "ready"
       \/ pressPc["lr"] = "failed" /\ Raise
    /\ UNCHANGED <<state, attrs, stop, kaRef, sock, listening, kaPc, pressPc>>
    /\ ConnectUnchanged

\* The last log line reads self._protocol.player_number.
ReportReady ==
    /\ connPc = "ready"
    /\ IF proto THEN connPc' = "return" ELSE Raise
    /\ UNCHANGED <<state, attrs, stop, kaRef, sock, listening, kaPc, pressPc>>
    /\ ConnectUnchanged

\* The coroutine resumes on the event loop some time after the thread ended.
ConnectReturns ==
    /\ connPc = "return"
    /\ state' = "connected"
    /\ connPc' = "connected"
    /\ UNCHANGED <<attrs, stop, kaRef, sock, listening, kaPc, pressPc>>
    /\ ConnectUnchanged

\* Faulty variants: a state outside the enumeration; a failure not reported.
ConnectRaises_UnknownState ==
    /\ connPc = "raised"
    /\ state' = "failed" /\ connPc' = "failed"
    /\ UNCHANGED <<attrs, stop, kaRef, sock, listening, kaPc, pressPc>>
    /\ ConnectUnchanged

ConnectRaises_AsDisconnected ==
    /\ connPc = "raised"
    /\ state' = "disconnected" /\ connPc' = "failed"
    /\ UNCHANGED <<attrs, stop, kaRef, sock, listening, kaPc, pressPc>>
    /\ ConnectUnchanged

ConnectRaises ==
    /\ connPc = "raised"
    /\ state' = "error"
    /\ connPc' = "failed"
    /\ UNCHANGED <<attrs, stop, kaRef, sock, listening, kaPc, pressPc>>
    /\ ConnectUnchanged

Connect ==
    \/ ConnectCall \/ SetupAdapter \/ RegisterAgent \/ RegisterProfile
    \/ ReapplyClass \/ DialOut \/ FallBackToListen \/ Listen \/ Accept
    \/ AcceptFails \/ WrapSockets \/ MakeProtocol \/ StartHandshake \/ FinishHandshake
    \/ AdoptReport \/ ClearStop \/ MakeKeepalive \/ StartKeepalive
    \/ AfterPress \/ ReportReady \/ ConnectReturns \/ ConnectRaises

(***************************************************************************)
(* disconnect() and _disconnect_sync. The manager calls it at most once,   *)
(* at any time after connect() was called.                                 *)
(***************************************************************************)
DisconnectUnchanged == UNCHANGED <<lock, dirty, connPc, kaPc, pressPc, half>>

DisconnectCall ==
    /\ discPc = "idle"
    /\ discPc' = "stop"
    /\ raced' = Connecting
    /\ UNCHANGED <<state, attrs, stop, kaRef, sock, listening>>
    /\ DisconnectUnchanged

SetStop ==
    /\ discPc = "stop"
    /\ stop' = TRUE
    /\ discPc' = "join"
    /\ UNCHANGED <<state, attrs, kaRef, sock, listening, raced>>
    /\ DisconnectUnchanged

\* Faulty variant: join() without its timeout.
JoinKeepalive_NoTimeout ==
    /\ discPc = "join"
    /\ \/ ~kaRef /\ discPc' = "close" /\ UNCHANGED kaRef
       \/ kaRef /\ kaPc = "none" /\ discPc' = "raised" /\ UNCHANGED kaRef
       \/ kaRef /\ kaPc # "none" /\ ~KaAlive /\ kaRef' = FALSE /\ discPc' = "close"
    /\ UNCHANGED <<state, attrs, stop, sock, listening, raced>>
    /\ DisconnectUnchanged

\* join() raises on a thread that was made but not started.
JoinKeepalive ==
    /\ discPc = "join"
    /\ \/ ~kaRef /\ discPc' = "close" /\ UNCHANGED kaRef
       \/ kaRef /\ kaPc = "none" /\ discPc' = "raised" /\ UNCHANGED kaRef
       \/ /\ kaRef /\ kaPc # "none"
          /\ KaAlive => JoinMayTimeOut
          /\ kaRef' = FALSE /\ discPc' = "close"
    /\ UNCHANGED <<state, attrs, stop, sock, listening, raced>>
    /\ DisconnectUnchanged

\* Faulty variant: only a CONNECTED controller closes its sockets.
CloseConnection_IfConnected ==
    /\ discPc = "close"
    /\ sock' = IF EnsureConnected THEN "closed" ELSE sock
    /\ discPc' = "nullconn"
    /\ UNCHANGED <<state, attrs, stop, kaRef, listening, raced>>
    /\ DisconnectUnchanged

CloseConnection ==
    /\ discPc = "close"
    /\ sock' = IF conn THEN "closed" ELSE sock
    /\ discPc' = "nullconn"
    /\ UNCHANGED <<state, attrs, stop, kaRef, listening, raced>>
    /\ DisconnectUnchanged

\* The close and the assignment are one branch: what was closed is dropped.
DropConnection ==
    /\ discPc = "nullconn"
    /\ conn' = IF sock = "closed" THEN FALSE ELSE conn
    /\ proto' = FALSE
    /\ discPc' = "unsdp"
    /\ UNCHANGED <<state, sdp, agent, connectedAt, stop, kaRef, sock,
                   listening, raced>>
    /\ DisconnectUnchanged

\* unregister() closes the listening sockets an accept() waits on.
UnregisterProfile ==
    /\ discPc = "unsdp"
    /\ listening' = IF sdp THEN FALSE ELSE listening
    /\ discPc' = IF sdp THEN "nullsdp" ELSE "agent"
    /\ UNCHANGED <<state, attrs, stop, kaRef, sock, raced>>
    /\ DisconnectUnchanged

DropProfile ==
    /\ discPc = "nullsdp"
    /\ sdp' = FALSE
    /\ discPc' = "agent"
    /\ UNCHANGED <<state, conn, proto, agent, connectedAt, stop, kaRef, sock,
                   listening, raced>>
    /\ DisconnectUnchanged

UnregisterAgent ==
    /\ discPc = "agent"
    /\ agent' = FALSE
    /\ connectedAt' = FALSE
    /\ discPc' = "return"
    /\ UNCHANGED <<state, conn, proto, sdp, stop, kaRef, sock, listening, raced>>
    /\ DisconnectUnchanged

DisconnectReturns ==
    /\ discPc = "return"
    /\ state' = "disconnected"
    /\ discPc' = "done"
    /\ UNCHANGED <<attrs, stop, kaRef, sock, listening, raced>>
    /\ DisconnectUnchanged

DisconnectRaises ==
    /\ discPc = "raised"
    /\ discPc' = "failed"
    /\ UNCHANGED <<state, attrs, stop, kaRef, sock, listening, raced>>
    /\ DisconnectUnchanged

DisconnectStep ==
    \/ SetStop \/ JoinKeepalive \/ CloseConnection \/ DropConnection
    \/ UnregisterProfile \/ DropProfile \/ UnregisterAgent
    \/ DisconnectReturns \/ DisconnectRaises

Disconnect == DisconnectCall \/ DisconnectStep

(***************************************************************************)
(* _keepalive_loop. Both except clauses release the lock, set ERROR and    *)
(* leave the loop. A send on the non-blocking interrupt socket raises      *)
(* BlockingIOError, an OSError, when the kernel's buffer is full.          *)
(***************************************************************************)
KeepaliveUnchanged ==
    UNCHANGED <<attrs, stop, kaRef, sock, listening, connPc, discPc, pressPc,
                half, raced>>

\* Faulty variants: the lock stays taken; the failure is only logged.
KaCrash_LockKept == kaPc' = "crashed" /\ state' = "error" /\ UNCHANGED lock

KaCrash_OnlyLogged == kaPc' = "crashed" /\ lock' = "none" /\ UNCHANGED state

KaCrash ==
    /\ kaPc' = "crashed"
    /\ lock' = "none"
    /\ state' = "error"

KaCheckStop ==
    /\ kaPc = "check"
    /\ kaPc' = IF stop THEN "stopped" ELSE "want"
    /\ UNCHANGED <<state, lock, dirty>>
    /\ KeepaliveUnchanged

KaAcquire ==
    /\ kaPc = "want" /\ lock = "none"
    /\ lock' = "ka"
    /\ kaPc' = "incoming"
    /\ UNCHANGED <<state, dirty>>
    /\ KeepaliveUnchanged

\* process_incoming: no message, or a subcommand whose reply is now encoded.
KaIncoming ==
    /\ kaPc = "incoming"
    /\ \/ ~proto /\ KaCrash /\ UNCHANGED dirty
       \/ proto /\ kaPc' = "build" /\ UNCHANGED <<state, lock, dirty>>
       \/ /\ proto /\ sock = "up"
          /\ dirty' = FALSE /\ kaPc' = "reply" /\ UNCHANGED <<state, lock>>
    /\ KeepaliveUnchanged

KaReply ==
    /\ kaPc = "reply"
    /\ \/ KaCrash
       \/ ~dirty /\ sock = "up" /\ kaPc' = "build" /\ UNCHANGED <<state, lock>>
    /\ UNCHANGED dirty
    /\ KeepaliveUnchanged

\* self._conn.send is looked up before the report is encoded.
KaBuild ==
    /\ kaPc = "build"
    /\ IF conn THEN dirty' = FALSE /\ kaPc' = "send" /\ UNCHANGED <<state, lock>>
               ELSE KaCrash /\ UNCHANGED dirty
    /\ KeepaliveUnchanged

\* The lock is released, then the thread waits up to 1/15 s for stop.
KaSend ==
    /\ kaPc = "send"
    /\ \/ KaCrash
       \/ ~dirty /\ sock = "up" /\ lock' = "none" /\ kaPc' = "check" /\ UNCHANGED state
    /\ UNCHANGED dirty
    /\ KeepaliveUnchanged

KaStep == KaCheckStop \/ KaIncoming \/ KaReply \/ KaBuild \/ KaSend
Keepalive == KaStep \/ KaAcquire

(***************************************************************************)
(* press_buttons and _press_sync. Only OSError sets ERROR; AttributeError  *)
(* (the connection is None) and RuntimeError (the set changed while it was *)
(* iterated) pass through. A negative duration makes time.sleep raise      *)
(* ValueError between the press and the release.                           *)
(***************************************************************************)
PressUnchanged ==
    UNCHANGED <<attrs, stop, kaRef, sock, listening, connPc, discPc, kaPc, raced>>

PressRequest(p) ==
    /\ pressPc[p] = "idle"
    /\ EnsureConnected
    /\ pressPc' = [pressPc EXCEPT ![p] = "update"]
    /\ UNCHANGED <<state, lock, dirty, half>>
    /\ PressUnchanged

\* buttons.update or buttons.difference_update, outside the lock.
PressUpdate(p) ==
    /\ pressPc[p] = "update"
    /\ IF Iterating THEN dirty' \in BOOLEAN ELSE UNCHANGED dirty
    /\ pressPc' = [pressPc EXCEPT ![p] = "want"]
    /\ UNCHANGED <<state, lock, half>>
    /\ PressUnchanged

PressAcquire(p) ==
    /\ pressPc[p] = "want" /\ lock = "none"
    /\ lock' = p
    /\ pressPc' = [pressPc EXCEPT ![p] = "build"]
    /\ UNCHANGED <<state, dirty, half>>
    /\ PressUnchanged

PressBuild(p) ==
    /\ pressPc[p] = "build"
    /\ IF conn
         THEN /\ dirty' = FALSE
              /\ pressPc' = [pressPc EXCEPT ![p] = "send"]
              /\ UNCHANGED lock
         ELSE /\ lock' = "none"
              /\ pressPc' = [pressPc EXCEPT ![p] = "failed"]
              /\ UNCHANGED dirty
    /\ UNCHANGED <<state, half>>
    /\ PressUnchanged

PressSend(p) ==
    /\ pressPc[p] = "send"
    /\ lock' = "none"
    /\ \/ /\ dirty
          /\ pressPc' = [pressPc EXCEPT ![p] = "failed"]
          /\ UNCHANGED <<state, half>>
       \/ /\ ~dirty /\ sock = "up"
          /\ half' = [half EXCEPT ![p] = 2]
          /\ pressPc' = [pressPc EXCEPT ![p] = IF half[p] = 1 THEN "sleep" ELSE "done"]
          /\ UNCHANGED state
       \/ /\ ~dirty
          /\ state' = "error"
          /\ pressPc' = [pressPc EXCEPT ![p] = "failed"]
          /\ UNCHANGED half
    /\ UNCHANGED dirty
    /\ PressUnchanged

\* time.sleep(duration); the L+R press sleeps for 0.5 s and cannot fail here.
PressSleep(p) ==
    /\ pressPc[p] = "sleep"
    /\ \/ pressPc' = [pressPc EXCEPT ![p] = "update"]
       \/ p # "lr" /\ pressPc' = [pressPc EXCEPT ![p] = "failed"]
    /\ UNCHANGED <<state, lock, dirty, half>>
    /\ PressUnchanged

PressStep(p) == PressUpdate(p) \/ PressBuild(p) \/ PressSend(p) \/ PressSleep(p)
Press(p) == PressStep(p) \/ PressAcquire(p)

(***************************************************************************)
(* The event loop's other input calls, and the console.                    *)
(***************************************************************************)

\* hold_buttons and release_buttons change the set while a thread encodes it.
HoldOrRelease ==
    /\ EnsureConnected
    /\ Iterating
    /\ dirty' \in BOOLEAN
    /\ UNCHANGED <<state, attrs, stop, kaRef, lock, sock, listening, connPc,
                   discPc, kaPc, pressPc, half, raced>>

\* The console goes out of range, sleeps or drops the link.
LinkLost ==
    /\ sock = "up"
    /\ sock' = "lost"
    /\ UNCHANGED <<state, attrs, stop, kaRef, lock, listening, dirty, connPc,
                   discPc, kaPc, pressPc, half, raced>>

\* Nothing is left to do: every call returned and every thread ended.
Quiescent ==
    /\ ~Connecting
    /\ discPc \in {"idle", "done", "failed"}
    /\ ~KaAlive
    /\ \A p \in Pressers : pressPc[p] \in {"idle", "done", "failed"}

Terminating == Quiescent /\ UNCHANGED vars

Next ==
    \/ Connect
    \/ Disconnect
    \/ Keepalive
    \/ \E p \in Pressers : Press(p)
    \/ \E p \in Presses : PressRequest(p)
    \/ HoldOrRelease
    \/ LinkLost
    \/ Terminating

(***************************************************************************)
(* Threads run whenever they can. threading.Lock is not fair, but every    *)
(* thread leaves it free for long stretches: the keep-alive thread waits   *)
(* 1/15 s between reports, a press sleeps for its duration; hence strong   *)
(* fairness for taking it. Clients and the console owe nothing.            *)
(***************************************************************************)
Fairness ==
    /\ WF_vars(Connect)
    /\ WF_vars(DisconnectStep)
    /\ WF_vars(KaStep) /\ SF_vars(KaAcquire)
    /\ \A p \in Pressers : WF_vars(PressStep(p)) /\ SF_vars(PressAcquire(p))

Spec == Init /\ [][Next]_vars
FairSpec == Spec /\ Fairness

-----------------------------------------------------------------------------
(***************************************************************************)
(* Safety.                                                                 *)
(***************************************************************************)

\* The attributes, the threads and the lock stay within their ranges.
TypeOK ==
    /\ state \in ControllerState
    /\ conn \in BOOLEAN /\ proto \in BOOLEAN /\ sdp \in BOOLEAN
    /\ agent \in BOOLEAN /\ connectedAt \in BOOLEAN
    /\ stop \in BOOLEAN /\ kaRef \in BOOLEAN
    /\ lock \in Threads \cup {"none"}
    /\ sock \in {"none", "up", "lost", "closed"}
    /\ listening \in BOOLEAN /\ dirty \in BOOLEAN
    /\ connPc \in ConnPcs /\ discPc \in DiscPcs /\ kaPc \in KaPcs
    /\ pressPc \in [Pressers -> PressPcs]
    /\ half \in [Pressers -> {1, 2}]
    /\ raced \in BOOLEAN

KaHolds == kaPc \in {"incoming", "reply", "build", "send"}
PressHolds(p) == pressPc[p] \in {"build", "send"}

\* _send_lock is owned by the thread that encodes and sends a report, and is
\* released however that ends: an exception never leaves it locked. So one
\* report at a time is between its timer tick and the wire.
LockDiscipline ==
    /\ lock = "ka" <=> KaHolds
    /\ \A p \in Pressers : lock = p <=> PressHolds(p)

\* A disconnect() called after connect() ended leaves nothing behind: no
\* socket, no listening socket, no object and no thread reference.
CleanDisconnect ==
    discPc = "done" /\ ~raced =>
        /\ sock \in {"none", "closed"} /\ ~listening
        /\ ~conn /\ ~proto /\ ~sdp /\ ~agent /\ ~connectedAt
        /\ stop /\ ~kaRef

\* disconnect() raises only when it meets a keep-alive thread that connect()
\* made and has not started yet.
RaisesOnlyIfRaced == discPc \in {"raised", "failed"} => raced

\* What a caller may rely on: a disconnect() after connect() ended neither
\* raises nor leaves anything behind, whatever the keep-alive thread, a press
\* or the console do meanwhile, and wherever a failed connect() stopped.
DisconnectWorks == CleanDisconnect /\ RaisesOnlyIfRaced

\* What _ensure_connected stands for: until disconnect() is called, a
\* CONNECTED controller has a link, a protocol, a keep-alive thread that was
\* started and not asked to stop, and has left the grip screen.
ConnectedMeansSession ==
    state = "connected" /\ discPc = "idle" =>
        /\ conn /\ proto /\ connectedAt /\ kaRef /\ ~stop
        /\ sock \in {"up", "lost"} /\ ~listening
        /\ kaPc \notin {"none", "stopped"}
        /\ pressPc["lr"] = "done"

\* With a join that waits long enough, no report is under way once a
\* disconnect() that did not race has begun to close the connection.
KeepaliveJoined ==
    ~raced /\ discPc \in {"close", "nullconn", "unsdp", "nullsdp", "agent", "return", "done"}
        => ~KaAlive

(***************************************************************************)
(* Refinement: this backend keeps the contract of GamepadBackend.          *)
(***************************************************************************)
ConnectCallStatus ==
    CASE connPc = "idle" -> "none"
      [] connPc = "connected" -> "returned"
      [] connPc = "failed" -> "raised"
      [] OTHER -> "pending"

DisconnectCallStatus ==
    CASE discPc = "idle" -> "none"
      [] discPc = "done" -> "returned"
      [] discPc = "failed" -> "raised"
      [] OTHER -> "pending"

Contract == INSTANCE GamepadBackend WITH
    connect <- ConnectCallStatus,
    disconnect <- DisconnectCallStatus,
    early <- raced,
    link <- sock \in {"up", "lost"}

\* Every step of the Bluetooth backend is a step of the contract or hidden.
ImplementsContract == Contract!Spec

(***************************************************************************)
(* Liveness, under FairSpec.                                               *)
(***************************************************************************)

\* Every call ends: connect() also when the console never answers and when the
\* L+R press has to get the lock from the keep-alive thread, disconnect() also
\* when that thread was started after its stop event was set, a press whoever
\* else wants the lock.
CallsEnd ==
    /\ Connecting ~> ConnectEnded
    /\ discPc # "idle" ~> discPc \in {"done", "failed"}
    /\ \A p \in Pressers : pressPc[p] # "idle" ~> pressPc[p] \in {"done", "failed"}

\* A disconnect() that did not race stops the keep-alive thread, also after
\* join() gave up on it. And unless disconnect() came early, a link lost under
\* a running thread does not leave the controller CONNECTED.
KeepaliveEndsAndTells ==
    /\ discPc = "done" /\ ~raced ~> ~KaAlive
    /\ ~raced /\ connPc = "connected" /\ sock = "lost" /\ KaAlive
           ~> state # "connected"

(***************************************************************************)
(* What the code says of itself and does not keep.                         *)
(***************************************************************************)

\* disconnect() releases all resources: once it has returned and connect()
\* has ended, no link, socket or thread is left.
ReleasesAllResources ==
    discPc = "done" /\ ConnectEnded =>
        sock \in {"none", "closed"} /\ ~conn /\ ~KaAlive

=============================================================================
