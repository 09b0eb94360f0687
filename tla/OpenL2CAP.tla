------------------------------ MODULE OpenL2CAP ------------------------------
(***************************************************************************)
(* How a Bluetooth backend gets its two channels: SwitchBackend._open_l2cap*)
(* with paired.py, connect_outbound and SDPService.wait_for_connection.    *)
(* It dials every console that is paired with the adapter, drops the bonds *)
(* of those that refuse, and otherwise waits for a console to connect.     *)
(* SwitchBackend takes all this as DialOut, FallBackToListen and Accept.   *)
(*                                                                         *)
(* Several backends share the adapter: its bonds, and the two PSMs, which  *)
(* one socket at a time can be bound to. The consoles are external and     *)
(* behave as the comments of paired.py and _open_l2cap say: one that has a *)
(* bond answers a dial and does not connect by itself; one that has lost   *)
(* its bond refuses a dial, and can pair again once the adapter has lost   *)
(* its own. A disconnect() meanwhile is SwitchBackend's matter.            *)
(***************************************************************************)
EXTENDS Naturals, Sequences, SequencesExt

CONSTANTS
    Backends,    \* backends whose connect() runs
    Consoles,    \* Nintendo Switches
    Others,      \* other devices paired with the adapter
    MaxPairings  \* bound on how often consoles pair

ASSUME ConstantsAssumption ==
    /\ Consoles \cap Others = {}
    /\ "none" \notin Backends \cup Consoles \cup Others
    /\ IsFiniteSet(Consoles)
    /\ MaxPairings \in Nat

Devices == Consoles \cup Others
Psms == {"control", "interrupt"}

VARIABLES
    paired,   \* BlueZ: devices with a bond on this side
    bonded,   \* consoles with a bond on theirs
    step,     \* how far each console is with connecting by itself
    server,   \* the backend with a server socket on each PSM, or "none"
    backlog,  \* the consoles that wait to be accepted there
    pc,       \* where each backend stands
    todo,     \* the rest of the list of paired consoles
    socket,   \* the console each backend is connected to, on each PSM
    pairings, \* how often consoles have paired
    stale     \* history: consoles that refused a dial of this call, have not
              \* paired since, and whose bond BlueZ did not fail to remove

bonds == <<paired, bonded, step, pairings>>
servers == <<server, backlog>>
vars == <<bonds, servers, pc, todo, socket, stale>>

NoSockets == [psm \in Psms |-> "none"]
NoServers == [psm \in Psms |-> "none"]
NoBacklog == [psm \in Psms |-> <<>>]

Init ==
    /\ paired \in {P \cup Others : P \in SUBSET Consoles}
    /\ bonded \in SUBSET Consoles
    /\ step = [c \in Consoles |-> "idle"] /\ pairings = 0
    /\ server = NoServers /\ backlog = NoBacklog
    /\ pc = [b \in Backends |-> "idle"]
    /\ todo = [b \in Backends |-> <<>>]
    /\ socket = [b \in Backends |-> NoSockets]
    /\ stale = [b \in Backends |-> {}]

Go(b, where) == pc' = [pc EXCEPT ![b] = where]
Connected(b, psm, c) == socket' = [socket EXCEPT ![b][psm] = c]
Disconnected(b) == socket' = [socket EXCEPT ![b] = NoSockets]

\* The call returns or raises, and its local variables are gone.
Ends(b, where) ==
    /\ Go(b, where)
    /\ todo' = [todo EXCEPT ![b] = <<>>]
    /\ stale' = [stale EXCEPT ![b] = {}]

(***************************************************************************)
(* list_paired_switches. BlueZ lists the devices in an order of its own;   *)
(* when it does not answer the list is empty.                              *)
(***************************************************************************)
\* Faulty variant: the name of the device is not looked at.
IsPairedSwitch_AnyName(d) == d \in paired

IsPairedSwitch(d) == d \in paired /\ d \in Consoles

\* The loop of _open_l2cap: the next console to dial, or on to the listen path.
DialNext(b, list) ==
    /\ todo' = [todo EXCEPT ![b] = list]
    /\ Go(b, IF list = <<>> THEN "listen" ELSE "control")

ListPaired(b) ==
    /\ pc[b] = "idle"
    /\ \/ \E list \in SetToSeqs({d \in Devices : IsPairedSwitch(d)}) : DialNext(b, list)
       \/ DialNext(b, <<>>)
    /\ UNCHANGED <<bonds, servers, socket, stale>>

(***************************************************************************)
(* The dials: connect_outbound, and what _open_l2cap does when one fails.  *)
(* pc = psm while the connect() of that channel is under way.              *)
(***************************************************************************)
\* Faulty variant: a console that resets the dial is not seen as stale.
StaleErrnos_RefusedOnly == {"refused"}

StaleErrnos == {"refused", "reset"}

Errnos == {"refused", "reset", "other"}

Dialled(b, psm) ==
    /\ pc[b] = psm
    /\ Head(todo[b]) \in paired \cap bonded
    /\ Connected(b, psm, Head(todo[b]))
    /\ IF psm = "control"
       THEN Go(b, "interrupt") /\ UNCHANGED <<todo, stale>>
       ELSE Ends(b, "connected")
    /\ UNCHANGED <<bonds, servers>>

\* Faulty variant: a failed second dial leaves the control channel open.
CloseDialled_InterruptOnly(b) == Connected(b, "interrupt", "none")

CloseDialled(b) == Disconnected(b)

\* A console with a bond may be asleep or out of reach, but does not refuse.
DialFails(b, errno) ==
    /\ pc[b] \in Psms
    /\ errno = "other" \/ Head(todo[b]) \notin bonded
    /\ CloseDialled(b)
    /\ IF errno \in StaleErrnos
       THEN Go(b, "unpair") /\ UNCHANGED todo
       ELSE DialNext(b, Tail(todo[b]))
    /\ stale' = IF errno \in {"refused", "reset"}
                THEN [stale EXCEPT ![b] = @ \cup {Head(todo[b])}] ELSE stale
    /\ UNCHANGED <<bonds, servers>>

\* unpair finds and removes the bond, finds none, or BlueZ fails; its answer
\* is not looked at.
Unpair(b) ==
    /\ pc[b] = "unpair" /\ DialNext(b, Tail(todo[b]))
    /\ \/ paired' = paired \ {Head(todo[b])} /\ UNCHANGED stale
       \/ stale' = [stale EXCEPT ![b] = @ \ {Head(todo[b])}] /\ UNCHANGED paired
    /\ UNCHANGED <<bonded, step, pairings, servers, socket>>

(***************************************************************************)
(* wait_for_connection. A PSM that another backend has bound is in use. The*)
(* two bind() are one step: a backend always binds both, control first.    *)
(***************************************************************************)
Accepting == [control |-> "accept control", interrupt |-> "accept interrupt"]

\* The finally clause: both server sockets are closed, and with them the
\* connections nobody has accepted.
ServersClosed(b) ==
    /\ server' = [psm \in Psms |-> IF server[psm] = b THEN "none" ELSE server[psm]]
    /\ backlog' = [psm \in Psms |-> IF server[psm] = b THEN <<>> ELSE backlog[psm]]

Bind(b) ==
    /\ pc[b] = "listen" /\ server = NoServers
    /\ server' = [psm \in Psms |-> b] /\ Go(b, "accept control")
    /\ UNCHANGED <<bonds, backlog, todo, socket, stale>>

AddressInUse(b) ==
    /\ pc[b] = "listen" /\ server # NoServers
    /\ Ends(b, "idle")
    /\ UNCHANGED <<bonds, servers, socket>>

Accept(b, psm) ==
    /\ pc[b] = Accepting[psm] /\ backlog[psm] # <<>>
    /\ Connected(b, psm, Head(backlog[psm]))
    /\ IF psm = "control"
       THEN /\ backlog' = [backlog EXCEPT ![psm] = Tail(@)]
            /\ Go(b, "accept interrupt") /\ UNCHANGED <<server, todo, stale>>
       ELSE ServersClosed(b) /\ Ends(b, "connected")
    /\ UNCHANGED bonds

\* Faulty variant: the interrupt server has no timeout.
AcceptTimesOut_ControlOnly(b, psm) ==
    /\ psm = "control" /\ pc[b] = Accepting[psm]
    /\ ServersClosed(b) /\ Disconnected(b) /\ Ends(b, "idle")
    /\ UNCHANGED bonds

\* Nothing closes an accepted control socket explicitly: it goes with the
\* frame that holds it, when the exception has been handled.
AcceptTimesOut(b, psm) ==
    /\ pc[b] = Accepting[psm]
    /\ ServersClosed(b) /\ Disconnected(b) /\ Ends(b, "idle")
    /\ UNCHANGED bonds

\* L2CAPConnection.close, in disconnect; connect may run again.
Close(b) ==
    /\ pc[b] = "connected" /\ Go(b, "idle")
    /\ Disconnected(b)
    /\ UNCHANGED <<bonds, servers, todo, stale>>

(***************************************************************************)
(* The consoles (external).                                                *)
(***************************************************************************)
Pair(c) ==
    /\ pairings < MaxPairings /\ pairings' = pairings + 1
    /\ c \notin paired \cup bonded
    /\ paired' = paired \cup {c} /\ bonded' = bonded \cup {c}
    /\ step' = [step EXCEPT ![c] = "paired"]
    /\ stale' = [b \in Backends |-> stale[b] \ {c}]
    /\ UNCHANGED <<servers, pc, todo, socket>>

Opens(c, psm, from, to) ==
    /\ step[c] = from
    /\ server[psm] # "none" \* listen() follows the bind()
    /\ step' = [step EXCEPT ![c] = to]
    /\ backlog' = [backlog EXCEPT ![psm] = Append(@, c)]
    /\ UNCHANGED <<paired, bonded, pairings, server, pc, todo, socket, stale>>

OpenControl(c) == Opens(c, "control", "paired", "control")
OpenInterrupt(c) == Opens(c, "interrupt", "control", "idle")

\* The connections that wait to be accepted, without the console's own: it has
\* one at most, since it pairs only after it has gone.
Without(waiting, c) ==
    IF c \in ToSet(waiting)
    THEN RemoveAt(waiting, CHOOSE i \in DOMAIN waiting : waiting[i] = c)
    ELSE waiting

Gone(c) ==
    /\ step' = [step EXCEPT ![c] = "idle"]
    /\ backlog' = [psm \in Psms |-> Without(backlog[psm], c)]
    /\ UNCHANGED <<paired, pairings, server, pc, todo, socket, stale>>

\* It gives up, is switched off or walks away.
Leave(c) ==
    /\ step[c] # "idle" \/ \E psm \in Psms : c \in ToSet(backlog[psm])
    /\ Gone(c) /\ UNCHANGED bonded

\* "Disconnect" in its Controllers menu.
Forget(c) ==
    /\ c \in bonded /\ bonded' = bonded \ {c}
    /\ Gone(c)

Open(b) ==
    \/ ListPaired(b) \/ Unpair(b) \/ Bind(b) \/ AddressInUse(b)
    \/ \E errno \in Errnos : DialFails(b, errno)
    \/ \E psm \in Psms : Dialled(b, psm) \/ Accept(b, psm) \/ AcceptTimesOut(b, psm)

Next ==
    \/ \E b \in Backends : Open(b) \/ Close(b)
    \/ \E c \in Consoles : Pair(c) \/ OpenControl(c) \/ OpenInterrupt(c) \/ Leave(c) \/ Forget(c)

\* The calls of a backend's thread return: every dial and every accept has a
\* timeout. Nothing is asked of the consoles, nor of who calls disconnect.
Fairness == \A b \in Backends : WF_vars(pc[b] # "idle" /\ Open(b))

Spec == Init /\ [][Next]_vars /\ Fairness

-----------------------------------------------------------------------------
(***************************************************************************)
(* Properties                                                              *)
(***************************************************************************)
Places == {"idle", "unpair", "listen", "connected"}
              \cup Psms \cup Range(Accepting)

\* Every variable has its type; in particular only consoles are dialled.
TypeOK ==
    /\ paired \subseteq Devices /\ bonded \subseteq Consoles
    /\ step \in [Consoles -> {"idle", "paired", "control"}] /\ pairings \in 0..MaxPairings
    /\ server \in [Psms -> Backends \cup {"none"}]
    /\ backlog \in [Psms -> Seq(Consoles)]
    /\ pc \in [Backends -> Places]
    /\ todo \in [Backends -> Seq(Consoles)]
    /\ socket \in [Backends -> [Psms -> Consoles \cup {"none"}]]
    /\ stale \in [Backends -> SUBSET Consoles]

\* The PSMs on which a backend has a server socket, and a connection, at a place.
Serving(place) == IF place \in Range(Accepting) THEN Psms ELSE {}

ConnectedOn(place) ==
    CASE place \in {"interrupt", "accept interrupt"} -> {"control"}
      [] place = "connected" -> Psms
      [] OTHER -> {}

\* No path through _open_l2cap leaves a socket behind: a failed dial is closed
\* before the next one, a server socket before wait_for_connection is left, so
\* that a later connect, of any backend, finds the PSMs free.
SocketsReleased ==
    \A b \in Backends, psm \in Psms :
        /\ server[psm] = b <=> psm \in Serving(pc[b])
        /\ socket[b][psm] # "none" <=> psm \in ConnectedOn(pc[b])

\* Whoever waits for a console has dropped the bond of every console that
\* refused its dial and has not paired again, BlueZ permitting: a half-bond
\* would block the very pairing it waits for (paired.py:71-76).
RefusedBondsGone ==
    \A b \in Backends :
        pc[b] \in {"listen"} \cup Range(Accepting) => stale[b] \cap paired = {}

\* _open_l2cap always returns or raises, whatever the consoles do.
OpenEnds ==
    \A b \in Backends : pc[b] # "idle" ~> pc[b] \in {"connected", "idle"}

=============================================================================
