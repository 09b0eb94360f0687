--------------------------- MODULE SwitchUSBBackend ---------------------------
(***************************************************************************)
(* One instance of backends/switch_usb.py, the USB twin of SwitchBackend:  *)
(* the same threads around a HID device file instead of L2CAP sockets. It  *)
(* differs where it matters: a connect() that fails tears everything down  *)
(* itself, on the event loop, and the keep-alive loop catches OSError only.*)
(*                                                                         *)
(* As in SwitchBackend, a step is one access to state another thread can   *)
(* change, attributes that hold an object or None are Booleans, and        *)
(* "dirty" stands for a change of the size of the set of buttons while     *)
(* encode_buttons iterates it. Two backends sharing the one gadget are in  *)
(* UsbGadget.                                                              *)
(***************************************************************************)
EXTENDS Naturals

CONSTANTS
    Presses,        \* requests that may call press_buttons
    JoinMayTimeOut  \* TRUE: join(timeout=2) may return with the thread alive

ASSUME ConstantsAssumption ==
    /\ {"conn", "disc", "ka", "none"} \cap Presses = {}
    /\ JoinMayTimeOut \in BOOLEAN

Callers == {"conn", "disc"}
Threads == Callers \cup {"ka"} \cup Presses
Senders == {"ka"} \cup Presses

VARIABLES
    state,   \* _state
    gadget,  \* _gadget is not None
    conn,    \* _conn is not None
    proto,   \* _protocol is not None
    stop,    \* _keepalive_stop is set
    kaRef,   \* _keepalive_thread is not None
    lock,    \* owner of _send_lock, or "none"
    bound,   \* the gadget is bound to the UDC
    leaked,  \* history: a teardown could not release the UDC and went on
    fd,      \* the HID device file: "none", "open" or "closed"
    host,    \* the console is attached
    dirty,   \* the set changed size since its iteration began
    half,    \* 1 while a press presses, 2 once it releases
    raced,   \* history: disconnect() was called while connect() ran
    pc       \* where each thread stands

attrs == <<gadget, conn, proto>>
device == <<bound, leaked, fd>>
thread == <<stop, kaRef>>
sends == <<lock, dirty, half>>
vars == <<state, attrs, thread, sends, device, host, raced, pc>>

ControllerState == {"connecting", "connected", "disconnected", "error"}
ConnectSteps == {"setup", "bind", "binding", "wait", "open", "proto", "handshake",
                 "shaking", "adopt", "clear", "thread", "start", "ready", "return",
                 "raised"}
TeardownSteps == {"stop", "join", "joining", "close", "closing", "null", "unbind", "look",
                  "release", "drop", "raise"}
CallerPcs == {"idle", "done", "failed", "returning"} \cup ConnectSteps \cup TeardownSteps
KaPcs == {"none", "check", "want", "incoming", "reply", "build", "send",
          "stopped", "error", "died"}
PressPcs == {"idle", "update", "want", "build", "send", "sleep", "done", "failed"}

Go(t, where) == pc' = [pc EXCEPT ![t] = where]
Connecting == pc["conn"] \notin {"idle", "done", "failed"}
KaAlive == pc["ka"] \in {"check", "want", "incoming", "reply", "build", "send"}
Iterating == pc["ka"] = "reply" \/ \E t \in Senders : pc[t] = "send"

\* A coroutine runs on the event loop: connect() holds it while it tears down.
LoopIsFree == pc["conn"] \notin TeardownSteps

EnsureConnected == LoopIsFree /\ conn /\ state = "connected"

Init ==
    /\ state = "disconnected"
    /\ gadget = FALSE /\ conn = FALSE /\ proto = FALSE
    /\ stop = FALSE /\ kaRef = FALSE
    /\ lock = "none" /\ dirty = FALSE /\ half = [p \in Presses |-> 1]
    /\ bound = FALSE /\ leaked = FALSE /\ fd = "none" /\ host = TRUE
    /\ raced = FALSE
    /\ pc = [t \in Threads |-> IF t = "ka" THEN "none" ELSE "idle"]

(***************************************************************************)
(* connect() and _connect_sync.                                            *)
(***************************************************************************)
ConnectUnchanged == UNCHANGED <<sends, host, raced>>

ConnectCall ==
    /\ pc["conn"] = "idle" /\ pc["disc"] = "idle"
    /\ state' = "connecting"
    /\ Go("conn", "setup")
    /\ UNCHANGED <<attrs, thread, device>> /\ ConnectUnchanged

Raise == Go("conn", "raised")

SetupGadget ==
    /\ pc["conn"] = "setup"
    /\ gadget' = TRUE
    /\ Go("conn", "bind") \/ Raise
    /\ UNCHANGED <<state, conn, proto, thread, device>> /\ ConnectUnchanged

BindUdc ==
    /\ pc["conn"] = "bind"
    /\ IF gadget THEN Go("conn", "binding") ELSE Raise
    /\ UNCHANGED <<state, attrs, thread, device>> /\ ConnectUnchanged

WriteUdc ==
    /\ pc["conn"] = "binding"
    /\ \/ bound' = TRUE /\ Go("conn", "wait")
       \/ Raise /\ UNCHANGED bound
    /\ UNCHANGED <<state, attrs, thread, leaked, fd>> /\ ConnectUnchanged

\* Faulty variant: waits for the device without a deadline.
WaitForHidg_NoTimeout ==
    /\ pc["conn"] = "wait"
    /\ bound /\ host
    /\ IF gadget THEN Go("conn", "open") ELSE Raise
    /\ UNCHANGED <<state, attrs, thread, device>> /\ ConnectUnchanged

WaitForHidg ==
    /\ pc["conn"] = "wait"
    /\ \/ gadget /\ Go("conn", "open")
       \/ Raise
    /\ UNCHANGED <<state, attrs, thread, device>> /\ ConnectUnchanged

OpenHidg ==
    /\ pc["conn"] = "open"
    /\ \/ fd' = "open" /\ conn' = TRUE /\ Go("conn", "proto")
       \/ Raise /\ UNCHANGED <<fd, conn>>
    /\ UNCHANGED <<state, gadget, proto, thread, bound, leaked>> /\ ConnectUnchanged

MakeProtocol ==
    /\ pc["conn"] = "proto"
    /\ proto' = TRUE
    /\ Go("conn", "handshake")
    /\ UNCHANGED <<state, gadget, conn, thread, device>> /\ ConnectUnchanged

StartHandshake ==
    /\ pc["conn"] = "handshake"
    /\ IF proto THEN Go("conn", "shaking") ELSE Raise
    /\ UNCHANGED <<state, attrs, thread, device>> /\ ConnectUnchanged

FinishHandshake ==
    /\ pc["conn"] = "shaking"
    /\ \/ fd = "open" /\ Go("conn", "adopt")
       \/ Raise
    /\ UNCHANGED <<state, attrs, thread, device>> /\ ConnectUnchanged

AdoptReport ==
    /\ pc["conn"] = "adopt"
    /\ IF proto THEN Go("conn", "clear") ELSE Raise
    /\ UNCHANGED <<state, attrs, thread, device>> /\ ConnectUnchanged

ClearStop ==
    /\ pc["conn"] = "clear"
    /\ stop' = FALSE
    /\ Go("conn", "thread")
    /\ UNCHANGED <<state, attrs, kaRef, device>> /\ ConnectUnchanged

MakeKeepalive ==
    /\ pc["conn"] = "thread"
    /\ kaRef' = TRUE
    /\ Go("conn", "start")
    /\ UNCHANGED <<state, attrs, stop, device>> /\ ConnectUnchanged

\* Faulty variant: the thread is made and never started.
StartKeepalive_NotStarted ==
    /\ pc["conn"] = "start"
    /\ Go("conn", "ready")
    /\ UNCHANGED <<state, attrs, thread, device>> /\ ConnectUnchanged

StartKeepalive ==
    /\ pc["conn"] = "start"
    /\ IF kaRef
         THEN pc' = [pc EXCEPT !["conn"] = "ready", !["ka"] = "check"]
         ELSE Raise
    /\ UNCHANGED <<state, attrs, thread, device>> /\ ConnectUnchanged

\* The log line reads _protocol.player_number.
ReportReady ==
    /\ pc["conn"] = "ready"
    /\ IF proto THEN Go("conn", "return") ELSE Raise
    /\ UNCHANGED <<state, attrs, thread, device>> /\ ConnectUnchanged

ConnectReturns ==
    /\ pc["conn"] = "return"
    /\ state' = "connected"
    /\ Go("conn", "done")
    /\ UNCHANGED <<attrs, thread, device>> /\ ConnectUnchanged

\* Faulty variant: what was opened is left for disconnect(), as over Bluetooth.
ConnectFails_NoTeardown ==
    /\ pc["conn"] = "raised"
    /\ state' = "error"
    /\ Go("conn", "raise")
    /\ UNCHANGED <<attrs, thread, device>> /\ ConnectUnchanged

\* Faulty variant: a failure is not an error state.
ConnectFails_AsDisconnected ==
    /\ pc["conn"] = "raised"
    /\ state' = "disconnected"
    /\ Go("conn", "stop")
    /\ UNCHANGED <<attrs, thread, device>> /\ ConnectUnchanged

\* Faulty variant: a state that ControllerState does not have.
ConnectFails_UnknownState ==
    /\ pc["conn"] = "raised"
    /\ state' = "failed"
    /\ Go("conn", "stop")
    /\ UNCHANGED <<attrs, thread, device>> /\ ConnectUnchanged

\* The except clause: ERROR, then _teardown before the exception goes on.
ConnectFails ==
    /\ pc["conn"] = "raised"
    /\ state' = "error"
    /\ Go("conn", "stop")
    /\ UNCHANGED <<attrs, thread, device>> /\ ConnectUnchanged

(***************************************************************************)
(* _teardown, by disconnect() in the executor and by a failed connect().   *)
(* When both run, each may find None where it just saw an object.          *)
(***************************************************************************)
TeardownUnchanged == UNCHANGED <<state, sends, host, raced>>

SetStop(who) ==
    /\ pc[who] = "stop"
    /\ stop' = TRUE
    /\ Go(who, "join")
    /\ UNCHANGED <<attrs, kaRef, device>> /\ TeardownUnchanged

FindKeepalive(who) ==
    /\ pc[who] = "join"
    /\ Go(who, IF kaRef THEN "joining" ELSE "close")
    /\ UNCHANGED <<attrs, thread, device>> /\ TeardownUnchanged

\* join raises RuntimeError for a thread that has not started.
JoinKeepalive(who) ==
    /\ pc[who] = "joining"
    /\ \/ /\ ~KaAlive \/ JoinMayTimeOut
          /\ pc["ka"] # "none"
          /\ kaRef' = FALSE /\ Go(who, "close")
       \/ /\ ~kaRef \/ pc["ka"] = "none"
          /\ Go(who, "raise") /\ UNCHANGED kaRef
    /\ UNCHANGED <<attrs, stop, device>> /\ TeardownUnchanged

FindConnection(who) ==
    /\ pc[who] = "close"
    /\ IF conn THEN Go(who, "closing") /\ UNCHANGED proto
               ELSE Go(who, "unbind") /\ proto' = FALSE
    /\ UNCHANGED <<gadget, conn, thread, device>> /\ TeardownUnchanged

CloseConnection(who) ==
    /\ pc[who] = "closing"
    /\ IF conn THEN fd' = "closed" /\ Go(who, "null")
               ELSE Go(who, "raise") /\ UNCHANGED fd
    /\ UNCHANGED <<attrs, thread, bound, leaked>> /\ TeardownUnchanged

DropConnection(who) ==
    /\ pc[who] = "null"
    /\ conn' = FALSE /\ proto' = FALSE
    /\ Go(who, "unbind")
    /\ UNCHANGED <<gadget, thread, device>> /\ TeardownUnchanged

End(who) == IF who = "conn" THEN "failed" ELSE "returning"

FindGadget(who) ==
    /\ pc[who] = "unbind"
    /\ Go(who, IF gadget THEN "look" ELSE End(who))
    /\ UNCHANGED <<attrs, thread, device>> /\ TeardownUnchanged

\* unbind() reads the UDC file, and a file it cannot read counts as unbound. When
\* the other teardown has set _gadget to None, the AttributeError is logged.
CurrentUdc(who) ==
    /\ pc[who] = "look"
    /\ \/ gadget /\ bound /\ Go(who, "release") /\ UNCHANGED leaked
       \/ leaked' = (leaked \/ (gadget /\ bound)) /\ Go(who, "drop")
    /\ UNCHANGED <<attrs, thread, bound, fd>> /\ TeardownUnchanged

\* An OSError of the write is logged: the UDC stays as it is.
ReleaseUdc(who) ==
    /\ pc[who] = "release"
    /\ \/ bound' = FALSE /\ UNCHANGED leaked
       \/ leaked' = (leaked \/ bound) /\ UNCHANGED bound
    /\ Go(who, "drop")
    /\ UNCHANGED <<attrs, thread, fd>> /\ TeardownUnchanged

DropGadget(who) ==
    /\ pc[who] = "drop"
    /\ gadget' = FALSE
    /\ Go(who, End(who))
    /\ UNCHANGED <<conn, proto, thread, device>> /\ TeardownUnchanged

\* connect() swallows what _teardown raises, disconnect() does not.
TeardownRaises(who) ==
    /\ pc[who] = "raise"
    /\ Go(who, "failed")
    /\ UNCHANGED <<attrs, thread, device>> /\ TeardownUnchanged

Teardown(who) ==
    \/ SetStop(who) \/ FindKeepalive(who) \/ JoinKeepalive(who)
    \/ FindConnection(who) \/ CloseConnection(who) \/ DropConnection(who)
    \/ FindGadget(who) \/ CurrentUdc(who) \/ ReleaseUdc(who) \/ DropGadget(who)
    \/ TeardownRaises(who)

DisconnectCall ==
    /\ pc["disc"] = "idle" /\ LoopIsFree
    /\ raced' = Connecting
    /\ Go("disc", "stop")
    /\ UNCHANGED <<state, attrs, thread, sends, device, host>>

DisconnectReturns ==
    /\ pc["disc"] = "returning" /\ LoopIsFree
    /\ state' = "disconnected"
    /\ Go("disc", "done")
    /\ UNCHANGED <<attrs, thread, sends, device, host, raced>>

(***************************************************************************)
(* _keepalive_loop. An OSError sets ERROR and ends it; anything else ends  *)
(* the thread. Either way the lock is released.                            *)
(***************************************************************************)
SenderUnchanged == UNCHANGED <<attrs, thread, device, host, raced>>

KaError == Go("ka", "error") /\ lock' = "none" /\ state' = "error"
KaDies == Go("ka", "died") /\ lock' = "none" /\ UNCHANGED state

\* An open device takes a report or, when the endpoint is busy, drops it; when
\* the console cannot be reached it may also refuse it with an OSError.
Open == fd = "open"
Refuses == ~(Open /\ bound /\ host)

KaCheckStop ==
    /\ pc["ka"] = "check"
    /\ Go("ka", IF stop THEN "stopped" ELSE "want")
    /\ UNCHANGED <<state, sends>> /\ SenderUnchanged

KaAcquire ==
    /\ pc["ka"] = "want" /\ lock = "none"
    /\ lock' = "ka"
    /\ Go("ka", "incoming")
    /\ UNCHANGED <<state, dirty, half>> /\ SenderUnchanged

\* process_incoming: no message, or a subcommand whose reply is now encoded.
\* Unlike over Bluetooth, recv raises OSError when the device is gone.
KaIncoming ==
    /\ pc["ka"] = "incoming"
    /\ \/ ~proto /\ KaDies /\ UNCHANGED dirty
       \/ proto /\ Refuses /\ KaError /\ UNCHANGED dirty
       \/ proto /\ Open /\ Go("ka", "build") /\ UNCHANGED <<state, lock, dirty>>
       \/ /\ proto /\ Open
          /\ dirty' = FALSE /\ Go("ka", "reply") /\ UNCHANGED <<state, lock>>
    /\ UNCHANGED half /\ SenderUnchanged

KaReply ==
    /\ pc["ka"] = "reply"
    /\ \/ dirty /\ KaDies
       \/ ~dirty /\ Refuses /\ KaError
       \/ ~dirty /\ Open /\ Go("ka", "build") /\ UNCHANGED <<state, lock>>
    /\ UNCHANGED <<dirty, half>> /\ SenderUnchanged

KaBuild ==
    /\ pc["ka"] = "build"
    /\ IF conn THEN dirty' = FALSE /\ Go("ka", "send") /\ UNCHANGED <<state, lock>>
               ELSE KaDies /\ UNCHANGED dirty
    /\ UNCHANGED half /\ SenderUnchanged

KaSend ==
    /\ pc["ka"] = "send"
    /\ \/ dirty /\ KaDies
       \/ ~dirty /\ Refuses /\ KaError
       \/ ~dirty /\ Open /\ lock' = "none" /\ Go("ka", "check") /\ UNCHANGED state
    /\ UNCHANGED <<dirty, half>> /\ SenderUnchanged

KaStep == KaCheckStop \/ KaIncoming \/ KaReply \/ KaBuild \/ KaSend

(***************************************************************************)
(* press_buttons and _press_sync, and the calls that do not wait.          *)
(***************************************************************************)
PressRequest(p) ==
    /\ pc[p] = "idle"
    /\ EnsureConnected
    /\ Go(p, "update")
    /\ UNCHANGED <<state, sends>> /\ SenderUnchanged

PressUpdate(p) ==
    /\ pc[p] = "update"
    /\ IF Iterating THEN dirty' \in BOOLEAN ELSE UNCHANGED dirty
    /\ Go(p, "want")
    /\ UNCHANGED <<state, lock, half>> /\ SenderUnchanged

PressAcquire(p) ==
    /\ pc[p] = "want" /\ lock = "none"
    /\ lock' = p
    /\ Go(p, "build")
    /\ UNCHANGED <<state, dirty, half>> /\ SenderUnchanged

PressBuild(p) ==
    /\ pc[p] = "build"
    /\ IF conn THEN dirty' = FALSE /\ Go(p, "send") /\ UNCHANGED lock
               ELSE lock' = "none" /\ Go(p, "failed") /\ UNCHANGED dirty
    /\ UNCHANGED <<state, half>> /\ SenderUnchanged

PressSend(p) ==
    /\ pc[p] = "send"
    /\ lock' = "none"
    /\ \/ dirty /\ Go(p, "failed") /\ UNCHANGED <<state, half>>
       \/ ~dirty /\ Refuses /\ state' = "error" /\ Go(p, "failed") /\ UNCHANGED half
       \/ /\ ~dirty /\ Open
          /\ half' = [half EXCEPT ![p] = 2]
          /\ Go(p, IF half[p] = 1 THEN "sleep" ELSE "done")
          /\ UNCHANGED state
    /\ UNCHANGED dirty /\ SenderUnchanged

\* time.sleep(duration) raises ValueError for a negative duration.
PressSleep(p) ==
    /\ pc[p] = "sleep"
    /\ Go(p, "update") \/ Go(p, "failed")
    /\ UNCHANGED <<state, sends>> /\ SenderUnchanged

PressStep(p) == PressUpdate(p) \/ PressBuild(p) \/ PressSend(p) \/ PressSleep(p)

HoldOrRelease ==
    /\ EnsureConnected /\ Iterating
    /\ dirty' \in BOOLEAN
    /\ UNCHANGED <<state, attrs, thread, lock, half, device, host, raced, pc>>

\* The console is undocked or goes to sleep.
HostLeaves ==
    /\ host
    /\ host' = FALSE
    /\ UNCHANGED <<state, attrs, thread, sends, device, raced, pc>>

Connect ==
    \/ ConnectCall \/ SetupGadget \/ BindUdc \/ WriteUdc \/ WaitForHidg \/ OpenHidg
    \/ MakeProtocol \/ StartHandshake \/ FinishHandshake \/ AdoptReport
    \/ ClearStop \/ MakeKeepalive \/ StartKeepalive \/ ReportReady
    \/ ConnectReturns \/ ConnectFails

Next ==
    \/ Connect
    \/ \E who \in Callers : Teardown(who)
    \/ DisconnectCall \/ DisconnectReturns
    \/ KaStep \/ KaAcquire
    \/ \E p \in Presses : PressRequest(p) \/ PressStep(p) \/ PressAcquire(p)
    \/ HoldOrRelease \/ HostLeaves

\* As in SwitchBackend.
Fairness ==
    /\ WF_vars(Connect) /\ WF_vars(DisconnectReturns)
    /\ \A who \in Callers : WF_vars(Teardown(who))
    /\ WF_vars(KaStep) /\ SF_vars(KaAcquire)
    /\ \A p \in Presses : WF_vars(PressStep(p)) /\ SF_vars(PressAcquire(p))

Spec == Init /\ [][Next]_vars
FairSpec == Spec /\ Fairness

-----------------------------------------------------------------------------
\* The attributes, the threads and the lock stay within their ranges.
TypeOK ==
    /\ state \in ControllerState
    /\ gadget \in BOOLEAN /\ conn \in BOOLEAN /\ proto \in BOOLEAN
    /\ stop \in BOOLEAN /\ kaRef \in BOOLEAN
    /\ lock \in Senders \cup {"none"}
    /\ bound \in BOOLEAN /\ leaked \in BOOLEAN /\ host \in BOOLEAN
    /\ fd \in {"none", "open", "closed"}
    /\ dirty \in BOOLEAN /\ half \in [Presses -> {1, 2}] /\ raced \in BOOLEAN
    /\ \A who \in Callers : pc[who] \in CallerPcs
    /\ pc["ka"] \in KaPcs
    /\ \A p \in Presses : pc[p] \in PressPcs

\* Nothing is open, and the UDC is bound only when its release failed.
Released ==
    /\ ~gadget /\ ~conn /\ ~proto /\ ~kaRef /\ stop
    /\ fd # "open" /\ (bound => leaked)

\* A disconnect() that did not race leaves nothing behind, the device file
\* closed and the console seeing the controller unplugged; and so does a
\* connect() that fails, wherever it got to, with no disconnect() to follow. The
\* UDC stays bound only if the kernel refused the release, or the UDC file could
\* not be read: the teardown swallows both and forgets the gadget.
TeardownReleases ==
    \/ pc["disc"] = "done" /\ ~raced
    \/ pc["conn"] = "failed" /\ pc["disc"] = "idle"
    => Released

\* Until disconnect() is called, a CONNECTED controller has its device file,
\* its protocol and a keep-alive thread that was started and not stopped.
ConnectedMeansSession ==
    state = "connected" /\ pc["disc"] = "idle" =>
        /\ gadget /\ conn /\ proto /\ kaRef /\ ~stop
        /\ bound /\ fd = "open"
        /\ pc["ka"] \notin {"none", "stopped"}

ConnectCallStatus ==
    CASE pc["conn"] = "idle" -> "none"
      [] pc["conn"] = "done" -> "returned"
      [] pc["conn"] = "failed" -> "raised"
      [] OTHER -> "pending"

DisconnectCallStatus ==
    CASE pc["disc"] = "idle" -> "none"
      [] pc["disc"] = "done" -> "returned"
      [] pc["disc"] = "failed" -> "raised"
      [] OTHER -> "pending"

Contract == INSTANCE GamepadBackend WITH
    connect <- ConnectCallStatus,
    disconnect <- DisconnectCallStatus,
    early <- raced,
    link <- fd = "open"

\* Every step of the USB backend is a step of the contract or hidden.
ImplementsContract == Contract!Spec

\* connect() and disconnect() end, and a press too, whatever the other threads
\* do: nobody dies with _send_lock taken. After a disconnect() that did not
\* race the keep-alive thread ends.
CallsEnd ==
    /\ Connecting ~> ~Connecting
    /\ pc["disc"] # "idle" ~> pc["disc"] \in {"done", "failed"}
    /\ \A p \in Presses : pc[p] # "idle" ~> pc[p] \in {"done", "failed"}
    /\ pc["disc"] = "done" /\ ~raced ~> ~KaAlive

=============================================================================
