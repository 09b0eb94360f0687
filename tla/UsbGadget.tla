------------------------------- MODULE UsbGadget -------------------------------
(***************************************************************************)
(* usb/gadget.py: the one configfs gadget of the machine and its binding   *)
(* to the USB device controller (UDC), used by several SwitchUSBBackends   *)
(* at once, each in an executor thread. Configfs belongs to the kernel: it *)
(* survives the server, and a run starts from whatever an earlier server,  *)
(* perhaps of another version or stopped half way, has left there.         *)
(*                                                                         *)
(* A step is one access to configfs. An item stands for one directory and  *)
(* the attributes in it, "desc" for the report descriptor. Every slot is   *)
(* used for one backend after another: connect(), then disconnect() once   *)
(* connect() has ended (SwitchUSBBackend has the races between the two).   *)
(***************************************************************************)
EXTENDS Naturals, Sequences

CONSTANT Controllers

Order == <<"device", "config", "function", "desc">>
Items == {Order[n] : n \in 1 .. Len(Order)}

\* The attributes the kernel refuses to change once the function is linked.
Frozen == {"function", "desc"}

VARIABLES
    value,   \* each item: "absent", "ours", or "other" (a default, an old value)
    linked,  \* the function is linked into the configuration
    udc,     \* the gadget's UDC file: "none", "ours", or "other"
    old,     \* the items that were linked with other values when this began
    leaked,  \* history: a server, or a release that failed or was skipped because
             \* the UDC file could not be read, left the gadget bound
    shared,  \* history: another controller was in use at the same time
    at,      \* the item setup() has come to, for each controller
    pc       \* where each controller stands

configfs == <<value, linked, udc>>
history == <<old, leaked, shared>>
vars == <<configfs, history, at, pc>>

SetupPcs == {"make", "compare", "write", "islink", "symlink"}
SessionPcs == {"current", "attach", "wait", "open", "handshake", "connected"}
TeardownPcs == {"oserror", "look", "release"}
Pcs == {"idle"} \cup SetupPcs \cup SessionPcs \cup TeardownPcs

Go(c, where) == pc' = [pc EXCEPT ![c] = where]

\* An exception in _connect_sync: connect() tears down, which unbinds.
Fails(c) == Go(c, "look")

\* The same, when configfs refuses an access for a reason of its own: an OSError
\* other than EBUSY or FileExistsError. The place tells the two apart.
AccessFails(c) == Go(c, "oserror")

Init ==
    /\ value \in [Items -> {"absent", "other", "ours"}]
    /\ \A m, n \in 1 .. Len(Order) :
          m < n /\ value[Order[m]] = "absent" => value[Order[n]] = "absent"
    /\ value["function"] = "absent" <=> value["desc"] = "absent"
    /\ linked \in BOOLEAN /\ (linked => \A i \in Items : value[i] # "absent")
    /\ udc \in {"none", "ours", "other"} /\ (udc # "none" => linked)
    /\ old = {i \in Frozen : linked /\ value[i] = "other"}
    /\ leaked = (udc # "none")
    /\ shared = [c \in Controllers |-> FALSE]
    /\ at = [c \in Controllers |-> 1]
    /\ pc = [c \in Controllers |-> "idle"]

(***************************************************************************)
(* setup()                                                                 *)
(***************************************************************************)

\* setup() raises at once when configfs or a UDC is missing.
ConnectCall(c) ==
    /\ pc[c] = "idle"
    /\ Go(c, "make") \/ Fails(c)
    /\ at' = [at EXCEPT ![c] = 1]
    /\ shared' = [d \in Controllers |->
                    IF d = c THEN \E e \in Controllers \ {c} : pc[e] # "idle"
                             ELSE shared[d] \/ pc[d] # "idle"]
    /\ UNCHANGED <<configfs, old, leaked>>

Item(c) == Order[at[c]]

\* Faulty variant: the last item is followed by one more.
NextItem_PastEnd(c) ==
    /\ at' = [at EXCEPT ![c] = @ + 1]
    /\ Go(c, IF at[c] = Len(Order) THEN "islink"
             ELSE IF Order[at[c] + 1] = "desc" THEN "compare" ELSE "make")

\* The descriptor is a file of the function's directory, made with it.
NextItem(c) ==
    IF at[c] = Len(Order) THEN Go(c, "islink") /\ UNCHANGED at
    ELSE /\ at' = [at EXCEPT ![c] = @ + 1]
         /\ Go(c, IF Order[at[c] + 1] = "desc" THEN "compare" ELSE "make")

MakeDir(c) ==
    /\ pc[c] = "make"
    /\ \/ /\ LET made == IF Item(c) = "function" THEN Frozen ELSE {Item(c)} IN
             value' = [i \in Items |-> IF i \in made /\ value[i] = "absent"
                                       THEN "other" ELSE value[i]]
          /\ Go(c, "compare")
       \/ AccessFails(c) /\ UNCHANGED value
    /\ UNCHANGED <<linked, udc, history, at>>

\* An attribute that cannot be read counts as different.
Compare(c) ==
    /\ pc[c] = "compare"
    /\ \/ value[Item(c)] = "ours" /\ NextItem(c)
       \/ Go(c, "write") /\ UNCHANGED at
    /\ UNCHANGED <<configfs, history>>

Busy(c) == linked /\ Item(c) \in Frozen

\* Faulty variant: EBUSY is an error whatever the attribute holds by now.
SetAttr_NoReread(c) ==
    /\ pc[c] = "write"
    /\ \/ ~Busy(c) /\ value' = [value EXCEPT ![Item(c)] = "ours"] /\ NextItem(c)
       \/ Busy(c) /\ Item(c) = "desc" /\ NextItem(c) /\ UNCHANGED value
       \/ Busy(c) /\ Item(c) # "desc" /\ Fails(c) /\ UNCHANGED <<value, at>>
       \/ AccessFails(c) /\ UNCHANGED <<value, at>>
    /\ UNCHANGED <<linked, udc, history>>

\* A linked function refuses writes with EBUSY: an attribute that holds our
\* value by now is accepted, the descriptor is kept whatever it is. The last
\* disjunct is any other OSError, and an attribute that cannot be read again.
SetAttr(c) ==
    /\ pc[c] = "write"
    /\ \/ ~Busy(c) /\ value' = [value EXCEPT ![Item(c)] = "ours"] /\ NextItem(c)
       \/ /\ Busy(c) /\ (Item(c) = "desc" \/ value[Item(c)] = "ours")
          /\ NextItem(c) /\ UNCHANGED value
       \/ /\ Busy(c) /\ Item(c) # "desc" /\ value[Item(c)] # "ours"
          /\ Fails(c) /\ UNCHANGED <<value, at>>
       \/ AccessFails(c) /\ UNCHANGED <<value, at>>
    /\ UNCHANGED <<linked, udc, history>>

IsLink(c) ==
    /\ pc[c] = "islink"
    /\ Go(c, IF linked THEN "current" ELSE "symlink")
    /\ UNCHANGED <<configfs, history, at>>

\* symlink raises FileExistsError when another controller has just made it.
Symlink(c) ==
    /\ pc[c] = "symlink"
    /\ \/ linked' = TRUE /\ IF linked THEN Fails(c) ELSE Go(c, "current")
       \/ AccessFails(c) /\ UNCHANGED linked
    /\ UNCHANGED <<value, udc, history, at>>

(***************************************************************************)
(* bind(), wait_for_hidg() and the rest of connect()                       *)
(***************************************************************************)

\* A UDC file that cannot be read counts as unbound, here and in unbind().
CurrentUdc(c) ==
    /\ pc[c] = "current"
    /\ \/ Go(c, "attach")
       \/ udc = "ours" /\ Go(c, "wait")
       \/ udc = "other" /\ Fails(c)
    /\ UNCHANGED <<configfs, history, at>>

\* The kernel refuses a second binding, and a UDC that another gadget has.
WriteUdc(c) ==
    /\ pc[c] = "attach"
    /\ \/ udc = "none" /\ udc' = "ours" /\ Go(c, "wait")
       \/ Fails(c) /\ UNCHANGED udc
    /\ UNCHANGED <<value, linked, history, at>>

\* Faulty variant: waits for the device without a deadline.
WaitForHidg_NoTimeout(c) ==
    /\ pc[c] = "wait"
    /\ udc # "none" /\ Go(c, "open")
    /\ UNCHANGED <<configfs, history, at>>

\* The device file is there while the gadget is bound, a moment after it.
WaitForHidg(c) ==
    /\ pc[c] = "wait"
    /\ \/ udc # "none" /\ Go(c, "open")
       \/ Fails(c)
    /\ UNCHANGED <<configfs, history, at>>

OpenHidg(c) ==
    /\ pc[c] = "open"
    /\ \/ udc # "none" /\ Go(c, "handshake")
       \/ Fails(c)
    /\ UNCHANGED <<configfs, history, at>>

Handshake(c) ==
    /\ pc[c] = "handshake"
    /\ Go(c, "connected") \/ Fails(c)
    /\ UNCHANGED <<configfs, history, at>>

(***************************************************************************)
(* unbind(), by disconnect() and by a connect() that fails                 *)
(***************************************************************************)
DisconnectCall(c) ==
    /\ pc[c] = "connected"
    /\ Go(c, "look")
    /\ UNCHANGED <<configfs, history, at>>

\* Faulty variant: only a gadget bound by this backend's own call is released.
Look_IfNotShared(c) ==
    /\ pc[c] \in {"oserror", "look"}
    /\ \/ udc # "none" /\ ~shared[c] /\ Go(c, "release") /\ UNCHANGED leaked
       \/ leaked' = (IF shared[c] THEN leaked ELSE udc # "none") /\ Go(c, "idle")
    /\ UNCHANGED <<configfs, old, shared, at>>

Look(c) ==
    /\ pc[c] \in {"oserror", "look"}
    /\ \/ udc # "none" /\ Go(c, "release") /\ UNCHANGED leaked
       \/ leaked' = (udc # "none") /\ Go(c, "idle")
    /\ UNCHANGED <<configfs, old, shared, at>>

\* An OSError of the release is logged, also when another was faster.
Release(c) ==
    /\ pc[c] = "release"
    /\ \/ udc' = "none" /\ leaked' = FALSE
       \/ leaked' = (udc # "none") /\ UNCHANGED udc
    /\ Go(c, "idle")
    /\ UNCHANGED <<value, linked, old, shared, at>>

\* The server stops or is killed; nothing is torn down on the way out. The
\* next one starts with no controllers.
ServerStops ==
    /\ pc' = [c \in Controllers |-> "idle"]
    /\ leaked' = (udc # "none")
    /\ UNCHANGED <<configfs, old, shared, at>>

Step(c) ==
    \/ MakeDir(c) \/ Compare(c) \/ SetAttr(c) \/ IsLink(c) \/ Symlink(c)
    \/ CurrentUdc(c) \/ WriteUdc(c) \/ WaitForHidg(c) \/ OpenHidg(c) \/ Handshake(c)
    \/ Look(c) \/ Release(c)

Next ==
    \/ \E c \in Controllers : ConnectCall(c) \/ Step(c) \/ DisconnectCall(c)
    \/ ServerStops

\* A thread that can run does: wait_for_hidg and the handshake have deadlines.
Spec == Init /\ [][Next]_vars /\ \A c \in Controllers : WF_vars(Step(c))

-----------------------------------------------------------------------------
\* The tree, the UDC file and the threads stay within their ranges.
TypeOK ==
    /\ value \in [Items -> {"absent", "other", "ours"}]
    /\ linked \in BOOLEAN /\ udc \in {"none", "ours", "other"}
    /\ old \subseteq Frozen /\ leaked \in BOOLEAN
    /\ shared \in [Controllers -> BOOLEAN]
    /\ at \in [Controllers -> 1 .. Len(Order)] /\ pc \in [Controllers -> Pcs]

\* Whatever was left behind and whoever else sets up, a controller that gets
\* past setup() finds the whole gadget configured; only a descriptor that was
\* linked before may be an older one. Where configfs itself refuses nothing, only
\* an old function's attributes make a write fail: a busy attribute is accepted
\* when another controller has set it.
SetupIsIdempotent ==
    /\ [](\A c \in Controllers : pc[c] \in SessionPcs =>
            linked /\ \A i \in Items \ (old \cap {"desc"}) : value[i] = "ours")
    /\ [][\A c \in Controllers : pc[c] = "write" /\ pc'[c] = "look" =>
            "function" \in old]_vars

\* When the last controller is gone the console sees the controller unplugged,
\* in whichever order connects and disconnects interleaved, unless a server
\* that stopped or a failed release has left the gadget bound. And a controller
\* that had the gadget to itself is plugged in, to the UDC it asked for, for as
\* long as it is connected.
PluggedWhileInUse ==
    /\ (\A c \in Controllers : pc[c] = "idle") /\ ~leaked => udc = "none"
    /\ \A c \in Controllers : pc[c] = "connected" /\ ~shared[c] => udc = "ours"

\* connect() and disconnect() end, also when another controller pulls the
\* gadget away under a connect() that waits for the device.
CallsEnd ==
    \A c \in Controllers :
        pc[c] \notin {"idle", "connected"} ~> pc[c] \in {"idle", "connected"}

(***************************************************************************)
(* What the documentation says and the code does not keep.                 *)
(***************************************************************************)

\* connect() plugs the controller in and disconnect() unplugs it: a connected
\* controller stays plugged in.
ConnectedStaysPlugged ==
    \A c \in Controllers : pc[c] = "connected" => udc = "ours"

=============================================================================
