# GamePadServer in TLA+

GamePadServer is a Python server that plays a Nintendo Switch Pro Controller.
Clients create controllers and press buttons over REST and WebSocket; the
server keeps one Bluetooth or USB session with a console per controller. This
directory models the parts of the server whose state is changed by more than
one thread, task, request or peer, checks them with TLC, and proves with TLAPS,
for every value of the constants, every safety property that its passing runs
check.

Paths below are relative to `src/gamepadserver/`.

## The system

    client --REST/WS--> api/ --> core/manager.py --> backend (switch.py | switch_usb.py)
                                                      | connect / disconnect / press in executor threads
                                                      | keep-alive thread, 15 Hz (60 Hz over USB)
                                                      v
                                     SwitchProtocol / SwitchUSBProtocol, ReportBuilder
                                                      v
                               L2CAPConnection (two sockets) | HIDGDevice (/dev/hidg0)
                                                      v
                                                   console

| Component | State | Operations | Hard behaviour | What makes it correct |
|---|---|---|---|---|
| ControllerManager, `api/` | `_next_id`, `_controllers`, each `ControllerInfo` | create, list, get, delete, buttons, sticks, WebSocket frames; the connect task | handlers interleave at every `await`; the connect task outlives its request; the default executor has a limited number of threads | ids are never reused; a controller is deleted once; no connected backend without an id; a backend is connected and disconnected at most once; every waiting request is answered |
| SwitchBackend | `_state`, `_agent`, `_sdp`, `_conn`, `_protocol`, `_connected_at`, `_send_lock`, `_keepalive_stop`, `_keepalive_thread` | connect, disconnect, press/hold/release, stick, send_input; keep-alive loop | connect, disconnect and presses run in executor threads, next to the keep-alive thread and the event loop; the link dies at any time; any step may raise | lock discipline; a clean disconnect leaves nothing; CONNECTED means a complete session; calls end; a lost link is noticed |
| SwitchUSBBackend | the same with `_gadget` and a device file | the same; a failed connect tears down by itself, on the event loop | the same; two teardowns at once; only `OSError` is caught in the loop | the same; a failed connect leaves nothing, but for a UDC whose release failed |
| Input report (`ReportBuilder`) | buttons, sticks, timer, vibrator byte | the input calls; `standard_report`, `subcommand_reply` | changed without the lock that encoders hold; `send_input` replaces the set that presses change | reports leave in timer order; a press is seen down and up; the last input reaches the console |
| SwitchProtocol | `vibration_enabled`, `player_number` | handshake, process_incoming | the console asks what it likes when it likes; a deadline | each subcommand gets one reply, in turn; the handshake ends |
| SwitchUSBProtocol | as above, and the command phase | `_usb_phase`, then the handshake | the phase ends by silence, by a command, by a stray report or by its deadline; busy endpoints drop writes | commands and subcommands are answered; both phases end |
| L2CAPConnection, `paired.py`, `wait_for_connection` | two sockets, two server sockets; the bonds, which BlueZ keeps | list the paired consoles, dial each, remove the bond of one that refuses, else listen and accept | half-bonds; one channel without the other; two backends on one adapter | no socket left behind; whoever listens has dropped the half-bonds; the call ends |
| USBGadget | the configfs tree and the UDC, which the kernel keeps | setup, bind, unbind, wait | one gadget for all controllers; a tree an earlier server has left, perhaps half made | setup completes the gadget from any state or fails; it rests unbound if the kernel lets go; whoever has it alone stays plugged in |
| BlueZ services (`agent.py`, `sdp.py`'s profile, `adapter.py`, `mgmt.py`) | D-Bus objects and the GLib loop of the process, the registrations in bluetoothd, the adapter's settings | set up the adapter, register, unregister, apply the class again | two backends share all of it; commands fail, hang or are ignored; bluetoothd restarts | nothing is made twice; a backend that listens can be found and paired with; a registration ends |
| Bytes (`switch_report.py`, `constants.py`) | none | encode buttons and sticks, read the flash memory, parse output reports | ranges that differ by axis and direction, reads across regions, short reports | the console decodes what the caller asked for |
| `config.py`, `app.py`, `__main__.py`, `api/system.py`, `static/`, `deploy/` | none | wiring, two listings, a browser page, a setup script | none | not modelled |

## Modules

| Module | Models | Role |
|---|---|---|
| `GamepadBackend` | `core/backend.py` | the contract: what a backend promises to the manager |
| `SwitchBackend` | `backends/switch.py`, outcomes of `l2cap.py`, `sdp.py`, `agent.py` | implements `GamepadBackend` |
| `SwitchUSBBackend` | `backends/switch_usb.py`, `usb/gadget.py`, `usb/hid_device.py` | implements `GamepadBackend` |
| `InputReport` | `ReportBuilder`, the input calls of both backends | the data those backends send |
| `SwitchProtocol` | `bluetooth/switch_protocol.py` | the conversation `StartHandshake`..`FinishHandshake` and `KaIncoming` stand for |
| `SwitchUSBProtocol` | `usb/switch_protocol.py` | extends `SwitchProtocol` with the command phase |
| `OpenL2CAP` | `_open_l2cap`, `paired.py`, `connect_outbound`, `wait_for_connection` | what `DialOut`, `FallBackToListen` and `Accept` of `SwitchBackend` stand for, for several backends |
| `UsbGadget` | `usb/gadget.py` | what `SetupGadget`, `BindUdc`, `WaitForHidg` and the releases of `SwitchUSBBackend` stand for, for several controllers and servers |
| `BlueZServices` | `bluetooth/agent.py`, `sdp.py`'s registration, `adapter.py`, `mgmt.py`, the class of `switch.py` | what `SetupAdapter`, `RegisterAgent`, `RegisterProfile` and `ReapplyClass` of `SwitchBackend` stand for, for several backends |
| `StickCodec` | the sticks of `switch_report.py`, their calibration in `constants.py` | no state: the bytes of a stick position and what a console makes of them |
| `ReportCodec` | `switch_report.py`, the flash memory of `constants.py` | extends `StickCodec`; the bytes behind the abstract input of `InputReport` and the subcommands of `SwitchProtocol` |
| `ControllerManager` | `core/manager.py`, `api/controllers.py`, `api/ws.py` | uses backends through `GamepadBackend` |
| `MC...` | | values for the constants, symmetry |
| `...Proofs` | | TLAPS proofs about the module each is named for; those of `SwitchProtocolProofs` are about `SwitchUSBProtocol`, `StickCodec` and `ReportCodec` too |

The pieces fit at `GamepadBackend`. Both backends are shown to implement it
(`ImplementsContract`, a refinement mapping), and the manager is shown to use
every backend only as the contract allows (`UsesBackendsRight`): connect() at
most once, disconnect() at most once, no connect() afterwards. So the manager
can be checked over the five variables of the contract instead of two full
backends, and the backends can be checked without a manager: their
`ConnectCall` and `DisconnectCall` happen at any moment the contract allows.

### How the models correspond to the code

*One step is one access to something another thread can change.* A Python
statement like `self._conn.send(self._report.standard_report())` reads `_conn`,
encodes the report and writes to the socket; disconnect() may come between, and
so it is two steps (`KaBuild`, `KaSend`). What only one thread sees happens in
one step. `pc`, `connPc`, `kaPc`... say at which access a thread stands.
Attributes that hold an object or None are Booleans. What may raise goes to the
handler the code has for it, with the lock released, as `with` does.

*The event loop.* Code between two awaits that really wait is atomic with
respect to other handlers (`ControllerManager`), but not to executor threads.
`await backend.get_state()` does not wait. In `SwitchUSBBackend` a failed
connect() holds the loop while it tears down (`LoopIsFree`).

*Releasing the UDC.* unbind() takes a UDC file that cannot be read for an unbound
gadget, logs a release the kernel refuses, and the teardown sets `_gadget` to
None all the same. `SwitchUSBBackend` has each of these as a step or an outcome
(`FindGadget`, `CurrentUdc`, `ReleaseUdc`, `DropGadget`), and so has `UsbGadget`
(`Look`, `Release`). `leaked` records in both that a release failed in this way;
it is the only case in which `TeardownReleases` and `PluggedWhileInUse` let the
gadget stay bound, besides a server that stops in the latter.

*Iterating the set of buttons.* `encode_buttons` iterates a set that other
threads change. CPython raises RuntimeError when it finds another size, and
yields any mixture of what the set has held if the change escapes it.
`InputReport` models the contents (`seen` has the values the set being encoded
has had); the backends only the exception (`dirty`).

*Interference with a press.* `touched` says that another call interfered with a
press: it named one of its buttons, replaced the set, or changed the set just
while the press was reading it (and may have raised its RuntimeError). Calls on
other buttons at any other moment do not count, and `PressIsShown` holds through
them.

*The console* is external: it sends any report at any time, and may go away at
any time (`LinkLost`, `HostLeaves`, `SendFails`). *Time* is a choice where it
only decides which branch is taken (a timeout may happen), and a counter where
deadlines are compared (`clock`, `phaseClock`).

*Bonds and consoles* (`OpenL2CAP`). A bond has two sides, `paired` in BlueZ and
`bonded` in the console, and each may lose its own. What a console does with
them is taken from the comments of `paired.py` and `_open_l2cap`. A PSM is
bound by one socket at a time; a call of BlueZ may fail and is then what the
code makes of it: an empty list, a bond that stays. A console that leaves, or
forgets its bond, gives up the connections nobody has accepted yet.

*The conversation* (`SwitchProtocol`, `SwitchUSBProtocol`). `asked` is what the
console has sent so far, `replies` has one entry for each report read: the
subcommand replied to, `"dropped"` if a busy endpoint took the reply, `"none"` if
the code ignores such a report. So `inbox` is what follows in `asked`, and that
replies come once and in turn is a matter of comparing the two by index.

*Configfs* (`UsbGadget`) belongs to the kernel and survives the server. So the
model starts from any tree an earlier server may have left: directories made in
order up to any point, attributes with defaults or old values, a linked
function, a gadget bound to this UDC or to another. One item stands for a
directory and its attributes, which `_set_attr` and its kin treat alike; the descriptor
is an item of its own, because only it is kept when the kernel refuses a write.
Any access may fail with an OSError of another kind: a read that fails counts as
a different value, anything else ends connect() (`AccessFails`). Its place
"oserror" tells it from a write that EBUSY made fail ("look"), about which
`SetupIsIdempotent` has something to say.
`ServerStops` takes every controller away and leaves the tree as it is: there
is no shutdown hook. A controller is set up, connected and released one after
the other here; the races of its own disconnect() with its connect() are those
of `SwitchUSBBackend`.

*BlueZ* (`BlueZServices`). An `hciconfig` command has its effect, fails without
one (`CommandIgnored`: the code does not look), or hangs, is killed and raises,
and then may have had it or not (`MayHaveWorked`). BlueZ may reset the device
class when the adapter comes up, starts scanning or gets a profile
(`MayResetClass`), and bluetoothd may restart at any time and forget what was
registered. Three things are registered: the agent, the profile, and that the
agent is the default one, which RequestDefaultAgent asks for. It may fail, the
code only logs it (`refused`), and until another request succeeds pairing
requests may go elsewhere. Another program that asks to be the default agent is
not modelled. Management events are bounded by `MaxEvents`; this bound is an
assumption too, since every event that is not the answer starts the two seconds
of its wait anew.

*Bytes* (`ReportCodec`). A string of bytes is a function from 0. An action is
one exchange, chosen over every input of the run. `_spi_read` goes over the
seven regions one after the other, as a function of how many it has passed. The
console's side is a decoder that uses the calibration it reads from this controller's own flash
memory, so that the encoder and the flash page are checked against each other.

*History variables* (`stale`, `raced`, `early`, `touched`, `shown`, `asked`,
`replies`, `commanded`, `obeyed`, `over`, `old`, `leaked`, `shared`, `fresh`,
`refused`, `spoiled`) are never read by a guard that models
code; properties need them.

*Faulty variants.* A definition `X_Something` is `X` with a plausible bug: a
dropped guard, a missing timeout, a lock that stays taken. No specification
uses one. PROJECT.json names, for every property of a passing run, the variant
that makes TLC find it violated: the property can fail.

## Runs

A passing run checks every property of its component, safety and liveness
together, under a fair specification (but for `Codec`, which has no liveness). A violation run shows one place where the code does
not do what a comment says.

| Run (cfg) | Shows | Bounds |
|---|---|---|
| Switch | `TypeOK`, `LockDiscipline`, `DisconnectWorks`, `ConnectedMeansSession`, `ImplementsContract`, `CallsEnd`, `KeepaliveEndsAndTells` | one press and the L+R press of connect(); join() may time out |
| SwitchDeleteWhileConnecting | violation of `ReleasesAllResources`: disconnect() during connect() does not release the link that opens later | the same |
| SwitchUsb | `TypeOK`, `TeardownReleases` (by disconnect() and by a connect() that fails; the UDC unless its release failed), `ConnectedMeansSession`, `ImplementsContract`, `CallsEnd` (calls and the keep-alive thread) | one press; join() may time out |
| Input | `TypeOK`, `WireOrder`, `PressIsShown`, `LatestInputIsSent` | two buttons, two stick positions, one press besides the keep-alive thread, two other calls, two frames, timer modulo 3 |
| Handshake | `TypeOK`, `NothingSkipped`, `ConversationGoesOn`, from the command phase (USB) or the handshake (Bluetooth) | four reports of six kinds; timeouts of a few ticks |
| UsbPhaseCutShort | violation of `CommandsAreAnswered`: the command phase ends at the first empty read | three commands |
| OpenL2CAP | `TypeOK`, `SocketsReleased`, `RefusedBondsGone`, `OpenEnds` | two backends on one adapter, two consoles, another device; two new pairings |
| Manager | `TypeOK`, `IdsNameOneController`, `NoOrphan`, `SettledInfo`, `RemovedRefusesFrames`, `UsesBackendsRight`, `RequestsAreAnswered` | three requests, two controllers, two workers |
| Gadget | `TypeOK`, `PluggedWhileInUse`, `SetupIsIdempotent`, `CallsEnd` | two controllers, any state of configfs, accesses that fail, servers that stop |
| GadgetUnplugged | violation of `ConnectedStaysPlugged`: what ends one USB controller unplugs the other | the same |
| BlueZ | `TypeOK`, `MadeOnce`, `ListenersAreReachable`, `RegistrationEnds` | two backends; one event before each answer; any number of restarts of bluetoothd |
| Codec | `InputReachesConsole`, `ConsoleIsUnderstood` | every coordinate and one beyond each end; all pairs of buttons; reads of up to 64 bytes around the edges of the regions; reports around the shortest |

Why the bounds are enough. A backend has one connect(), one disconnect() and
one keep-alive thread whatever the number of presses; a press meets those and
the L+R press, which is a press too, through the lock and the set of buttons
only (the proofs need no bound). Input reports need two buttons so that a
set can change with and without changing its size, two calls so that one can
undo another while a report is being encoded, and a timer that wraps. They have
one press, to which any other is a source of changes like the calls; for several
presses there is the proof. In the
handshake two subcommands complete it and two more reports may arrive before,
between or after them; the timeouts are a few ticks so that they expire in every position.
Two backends meet on the bonds and on the PSMs; two consoles make a list with a
rest and a backlog with two peers, and two pairings let both wait at once.
On the gadget and on the adapter two users are each other's only disturbance: a
third repeats one of them, and what comes before a connect (setups, failures,
restarts, servers) comes any number of times. One event shows what is skipped;
the next is skipped in the same way. The codec runs over every value callers
can send on an axis, and over the addresses where a read begins or ends at,
one before or one after the edge of a region; inside a region nothing changes.
In the manager three requests are enough for a creation and two deletions, or a
creation, a deletion and a WebSocket session, or two creations and a press, to
meet; two workers let connect() and disconnect() of one controller overlap and
make a third job wait.

`CHECK_DEADLOCK FALSE` is set where a system at rest has no step: every request
answered, every report read. `SwitchBackend` has a `Terminating` step instead
and is checked for deadlock: a state without a step that is not `Quiescent`
would be threads waiting on each other.

### Fairness

Weak fairness of a thread's steps says that the operating system schedules it;
of `StartJob`, that a free worker takes the next job. Taking `_send_lock` is
strongly fair: `threading.Lock` is not a fair lock, but its other users leave it
free for 1/15 s or for the duration of a press between two uses. So are the two
module locks of `BlueZServices`, which are freed after a few D-Bus calls. What
waits for a device, a command or a reply ends because the code gives it a
deadline, which is an alternative of the same step (`WaitForHidg`, `Raises`,
`IoCapabilityReply`). Nothing is assumed of clients (no request need ever come),
of the console (it may stay silent for ever, so connect() terminates because of
its own timeouts), or of bluetoothd and the server (which need never restart,
and may do so for ever).

## Proofs

Eight modules hold the proofs. Each proves its component's type invariant and
every safety invariant, action property and refinement its run checks, for any
value of the constants. The two properties of `ReportCodec` are proved next to
the protocol's, in `SwitchProtocolProofs`.

The argument is the same everywhere: an inductive invariant, the conjunction of
named parts, holds initially and is kept by each action; the properties follow
from it. TLC has checked each part before it was proved. An assumption on a
constant either names the range of a number (a timer has a size, a pool a
worker, the manager may make one controller at least), says what the callers of
`ReportCodec` pass (integers, buttons that the API has validated, addresses that
are natural numbers, lengths that fit a byte), keeps the names of
threads, requests and consoles apart from one another and from "none", or, in
`OpenL2CAP`, says that there are finitely many consoles, since the code makes
lists of them.

| Module | Proved | Why the properties are not inductive, and what is added |
|---|---|---|
| `ControllerManagerProofs` | `TypeOK`, `IdsNameOneController`, `NoOrphan`, `SettledInfo`, `RemovedRefusesFrames`, and the refinement `UsesBackendsRight` | the dictionary, the jobs in the executor, the backends and the records change in different steps of different requests. `Books` says what the dictionary implies about the jobs (who is deleted from it has been told to disconnect, who was told to connect is in it or told to disconnect), `Calls` what the jobs imply about the backend and its record, `Records` what an answered request implies about both; `QueuedOnce` that the queue holds each waiting job once, so that the first is gone when it starts |
| `SwitchBackendProofs` | `TypeOK`, `LockDiscipline`, `DisconnectWorks`, `ConnectedMeansSession`, the refinement `ImplementsContract`; that join() precedes the closing | whether disconnect() leaves nothing depends on connect() having ended, on `_conn` referring to every open link and on each earlier step of the teardown still being true. `Lifecycle` has a part for each: `RaceRecorded`, `Building`, `LinkOwned`, `Undoing` |
| `SwitchUSBBackendProofs` | `TypeOK`, `TeardownReleases`, `ConnectedMeansSession`, the refinement `ImplementsContract` | the same, with two teardowns, one of disconnect() and one of a failed connect(): `Threading` keeps them apart as long as they do not race, `Undone` says of either what it has undone, `Owned` that whoever has to close something can find it. A gadget that is bound is owned, or a teardown has failed to release it: the code swallows that failure, and so both the invariant and the property except it |
| `InputReportProofs` | `TypeOK`, `PressIsShown`, the action property `WireOrder` | `Locking`: one thread at a time builds a report. `Timers`: the timer of a report is the last one sent plus those dropped since, all modulo the size of the byte. `PressFollows`: how far a press has come, in the set, in its report and in what the console was shown, as long as no other call interferes; it speaks of the press's own buttons only, since the others may change at any moment but that of the encoding |
| `SwitchProtocolProofs` | `TypeOK`, `NothingSkipped`, for both specifications; that over Bluetooth no reply is dropped; `InputReachesConsole`, `ConsoleIsUnderstood` | `ReadInTurn`: there are no more replies than reports. `InTime`: the last report is sent from before the deadline, which bounds the clock. The bytes have no history: see below |
| `OpenL2CAPProofs` | `TypeOK`, `SocketsReleased`, `RefusedBondsGone`; who listens, and whom a dial connects | `DialsOne`: while the second channel is dialled the first is of the same console. `BondsFollow`: of the consoles that refused, the only one that may still be paired is the head of the list, about to be removed. `Dialling`: there is such a head |
| `UsbGadgetProofs` | `TypeOK`, `PluggedWhileInUse`, the action property `SetupIsIdempotent` | `BoundIsUsed`: who is still going to unbind a bound gadget. `AloneIsBound`: the same for the whole connect. `SetupSoFar`: what setup() has passed is configured. `LinkedIsWhole`: a linked function holds our value or one of the beginning |
| `BlueZServicesProofs` | `TypeOK`, `MadeOnce`, `ListenersAreReachable` | `LockIsHeld`: whoever is between looking and making owns the lock. `DoneSoFar`: what a connect has done is still so at every later place, but for what a restart of bluetoothd takes away; the default agent only where it was not refused. `ClassSettled`: the last to leave the places where BlueZ may reset the class has applied it for good |

The two properties of the bytes hold in each exchange on its own, for every
input, and rest on lemmas about the operators:

- *Buttons.* Each byte is a sum of different powers of two, so that each bit of
  it says whether its mask is there (`ByteOfFacts`), and no two buttons have the
  same bit of the same byte (`ButtonMapFacts`): `ButtonsSurvive`.
- *Sticks.* The three bytes hold what `_map_axis` returns
  (`EncodeStickRoundTrip`), that is the asked share of the range to the last
  unit (`MapAxisShows`), and the numbers of `_STICK_CAL` are those of the flash
  page (`CalibrationAgrees`), which are a table apart in the code: `SticksAreSeen`.
- *Flash memory.* After r regions every byte of the answer is what the last of
  these r that covers its address holds, or 0xFF (`HasUpTo`, kept by
  `CopiedFacts` from one region to the next): `SpiReadFacts`. There are seven
  regions and eight bits, so this takes no induction over data. No
  later region reaches into the calibration page, and so the console decodes
  the numbers that are in it: `ConsoleHasCalibration`.

Theorems that state what no run does:

- `StaysClosed`, twice: the contract implies that, once a disconnect() that was
  not early has returned, no step opens a link again (`ClosedForGood`). The
  refinement carries it over to each of the backends.
- `DeletedStaysClosed`: the same for every controller of the server, from
  `UsesBackendsRight`: whatever the other requests, tasks and workers do.
- `BluetoothDropsNothing`: `NothingSkipped` allows for a dropped reply over USB
  only.
- `SticksAreSeen`: what `InputReachesConsole` says of a stick, for any two
  integers and without a specification.
- `OneBackendListens`: at most one backend of an adapter waits in accept().
- `OneConsoleDialled`: a backend that has dialled has both channels to one
  console, which is paired. One that has accepted may not (see the findings).

What stays with TLC: liveness under fairness (`CallsEnd`,
`KeepaliveEndsAndTells`, `LatestInputIsSent`, `ConversationGoesOn`, `OpenEnds`,
`RequestsAreAnswered`, `RegistrationEnds`), which the prover cannot do, and the
violations below.

## Findings

| Run | Where | What |
|---|---|---|
| SwitchDeleteWhileConnecting | `backends/switch.py:258` | disconnect() does not stop a running connect(), whose link then stays |
| UsbPhaseCutShort | `usb/switch_protocol.py:69` | the phase does not wait the 200 ms its comment names |
| GadgetUnplugged | `usb/gadget.py:193` | unbind() releases the gadget another controller uses |

More was noticed while modelling and has no run of its own: some is what a
passing run allows for, some has no text that says what should happen.

- connect() sets CONNECTED over the ERROR that a keep-alive thread has set
  already (`backends/switch.py:101`), and the USB loop ends by any exception but
  `OSError` without setting it (`backends/switch_usb.py:205`): CONNECTED, and
  nothing is sent. `ConnectedMeansSession` asks for the session, not for the
  thread; `KeepaliveEndsAndTells` for the state of a thread that dies later.
- The handshake goes on after a reply without asking whether it is complete, and
  may time out although it is (`bluetooth/switch_protocol.py:92`).
- A reply that a busy USB endpoint drops is not sent again, and counts as sent
  (`usb/hid_device.py:45`). `ConversationGoesOn` counts it as answered.
- A connect() that finds the gadget bound to another UDC refuses to take it, and
  its teardown then unbinds it (`usb/gadget.py:181`). Of two setups the slower
  may find the link just made, fail, and unbind the faster
  (`usb/gadget.py:159`). A gadget still bound when the server stops is taken as
  it is by the next connect(), and the console sees no new attach
  (`usb/gadget.py:175`).
- A release of the UDC that the kernel refuses, or a UDC file that cannot be
  read, is swallowed, and the backend forgets the gadget (`usb/gadget.py:199`,
  `usb/gadget.py:233`, `backends/switch_usb.py:192`): the console still sees a
  controller, which only a later connect() and disconnect() can take away.
- An agent that could not become the default one is used all the same
  (`bluetooth/agent.py:99`); pairing requests may then go unanswered.
- `hciconfig class` without `-a` may print no class, and then the one retry of
  `bluetooth/adapter.py:95` never happens. `BluetoothAdapter.teardown()` is never
  called. A management reply is waited for two seconds after the *last* event,
  and running out of time raises an `OSError`, not the `MgmtError` that names it
  (`bluetooth/mgmt.py:68`); the caller catches both.
- A press with a negative duration raises between press and release and leaves
  its buttons down (`backends/switch.py:359`). A report encoded between two
  assignments of `send_input` mixes two frames (`backends/switch.py:141`);
  `LatestInputIsSent` says that the whole frame follows.
- The two accept() do not compare their peers, so that a backend may end with
  the channels of two consoles, and of two backends that a console refused the
  slower may remove the bond it has made since (`bluetooth/sdp.py:201`,
  `bluetooth/paired.py:118`).
- `GET /controllers` shows the state each `ControllerInfo` holds, which nothing
  updates when the backend fails later (`core/manager.py:84`).

## Not modelled

Left out, because they have no state or nothing depends on it: the
callbacks of the two D-Bus objects, which accept everything or only log; the
names of the device and the adapter; report ids and HID and USB descriptors;
logging, application wiring and two listings (`app.py`, `config.py`,
`api/system.py`); the browser page and the setup script. The bytes of a report
that are constant or random and that nothing reads (battery, IMU, vibrator) are
left out of `ReportCodec`. A file descriptor number that is reused between a
close() and a write by another thread is not modelled either: a closed device
simply refuses.
