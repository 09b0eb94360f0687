----------------------------- MODULE BlueZServices -----------------------------
(***************************************************************************)
(* What every SwitchBackend does before it waits for a console: prepare    *)
(* the adapter (adapter.py, with the management socket of mgmt.py),        *)
(* register the agent (agent.py) and the HID profile (sdp.py), and apply   *)
(* the device class again. The D-Bus objects and the GLib main loop exist  *)
(* once per process, the registrations belong to bluetoothd, which may     *)
(* restart, and the adapter's settings to the kernel; several backends     *)
(* share them all, each in an executor thread.                             *)
(*                                                                         *)
(* A step is one D-Bus call, one hciconfig command or one read or write of *)
(* a module's global.                                                      *)
(***************************************************************************)
EXTENDS Naturals

CONSTANTS
    Backends,
    MaxEvents   \* management events that arrive ahead of an answer

ASSUME ServicesAssumption == "none" \notin Backends /\ MaxEvents \in Nat

\* The D-Bus objects, each with the global that keeps it and the lock around it.
Services == {"agent", "profile"}

\* What bluetoothd keeps for this process: "default" is its default agent, which
\* answers the pairing requests.
Registrations == Services \cup {"default"}

VARIABLES
    object,     \* _agent_obj, _profile_obj: the D-Bus object was made
    mainloop,   \* _mainloop runs, in its own thread
    lock,       \* owners of _module_lock and _profile_lock, or "none"
    registered, \* what bluetoothd knows of
    class,      \* the adapter's device class: "gamepad" or "other"
    scan,       \* the adapter is discoverable and connectable
    events,     \* management events each backend may still meet ahead of its answer
    fresh,      \* history: bluetoothd has not restarted since the connect
    refused,    \* history: the connect's RequestDefaultAgent failed, which is logged
    spoiled,    \* history: "failed" when a connect failed before it applied the
                \* class for good, "ignored" once a command failed unnoticed
    pc          \* where each backend stands

process == <<object, mainloop, lock>>
adapter == <<class, scan>>
history == <<fresh, refused, spoiled>>
vars == <<process, registered, adapter, events, history, pc>>

AdapterPcs == {"up", "piscan", "class", "verify", "retry", "mgmt", "reply", "address"}
AgentPcs == {"findAgent", "makeAgent", "findLoop", "makeLoop", "registerAgent", "default"}
ProfilePcs == {"findProfile", "makeProfile", "registerProfile"}
ClassPcs == {"classAgain", "piscanAgain", "classAtLast"}
LockPcs == {"lockAgent", "lockProfile"}
Pcs == {"idle", "failed", "listening"}
         \cup AdapterPcs \cup AgentPcs \cup ProfilePcs \cup ClassPcs \cup LockPcs

\* Where a connect may have reset the class and has not applied it for good.
Unsettled == Pcs \ {"idle", "failed", "listening"}

Go(b, where) == pc' = [pc EXCEPT ![b] = where]

Init ==
    /\ object = [s \in Services |-> FALSE] /\ mainloop = FALSE
    /\ lock = [s \in Services |-> "none"]
    /\ registered = [s \in Registrations |-> FALSE]
    /\ class \in {"other", "gamepad"} /\ scan \in BOOLEAN
    /\ events = [b \in Backends |-> MaxEvents]
    /\ fresh = [b \in Backends |-> FALSE] /\ refused = [b \in Backends |-> FALSE]
    /\ spoiled = "no"
    /\ pc = [b \in Backends |-> "idle"]

ConnectCall(b) ==
    /\ pc[b] = "idle"
    /\ fresh' = [fresh EXCEPT ![b] = TRUE]
    /\ refused' = [refused EXCEPT ![b] = FALSE]
    /\ Go(b, "up")
    /\ UNCHANGED <<process, registered, adapter, events, spoiled>>

\* The hciconfig commands, and what follows each.
After ==
    [up |-> "piscan", piscan |-> "class", class |-> "verify", retry |-> "mgmt",
     classAgain |-> "piscanAgain", piscanAgain |-> "classAtLast",
     classAtLast |-> "listening"]

\* An exception leaves a "with" block, and frees its lock.
FreeLocks(b) == [s \in Services |-> IF lock[s] = b THEN "none" ELSE lock[s]]

\* A command that hangs is killed, and may have had its effect all the same.
MayHaveWorked(b) ==
    IF pc[b] \in DOMAIN After
      THEN class' \in {"gamepad", "other"} /\ scan' \in {scan, TRUE}
      ELSE UNCHANGED adapter

\* Faulty variant: the lock is only freed by a registration that succeeds.
Fails_LocksKept(b) ==
    /\ Go(b, "failed")
    /\ spoiled' = IF spoiled = "no" /\ pc[b] \in Unsettled THEN "failed" ELSE spoiled
    /\ UNCHANGED <<process, registered, adapter, events, fresh, refused>>

Fails(b) ==
    /\ Go(b, "failed")
    /\ lock' = FreeLocks(b)
    /\ spoiled' = IF spoiled = "no" /\ pc[b] \in Unsettled THEN "failed" ELSE spoiled
    /\ MayHaveWorked(b)
    /\ UNCHANGED <<object, mainloop, registered, events, fresh, refused>>

(***************************************************************************)
(* BluetoothAdapter.setup and get_address. Whether a command did anything  *)
(* is not looked at, but for the class, and that once: hciconfig without   *)
(* -a may print none, and then nothing is tried again.                     *)
(***************************************************************************)
AdapterUnchanged == UNCHANGED <<process, registered, events, history>>

\* Only a command that hangs raises; one that fails has no effect.
CommandIgnored(b) ==
    /\ pc[b] \in DOMAIN After
    /\ Go(b, After[pc[b]])
    /\ spoiled' = "ignored"
    /\ UNCHANGED <<process, registered, adapter, events, fresh, refused>>

Hci(b, command) == pc[b] = command /\ Go(b, After[command]) /\ AdapterUnchanged

\* BlueZ may reset the class when the adapter comes up or starts scanning.
MayResetClass == class' \in {class, "other"}

Up(b) == Hci(b, "up") /\ MayResetClass /\ UNCHANGED scan

Piscan(b) ==
    /\ Hci(b, "piscan") \/ Hci(b, "piscanAgain")
    /\ MayResetClass /\ scan' = TRUE

SetClass(b) ==
    /\ Hci(b, "class") \/ Hci(b, "retry") \/ Hci(b, "classAgain")
    /\ class' = "gamepad" /\ UNCHANGED scan

VerifyClass(b) ==
    /\ pc[b] = "verify"
    /\ Go(b, "mgmt") \/ (class = "other" /\ Go(b, "retry"))
    /\ UNCHANGED adapter /\ AdapterUnchanged

\* set_io_capability: what cannot be sent is only logged.
SendIoCapability(b) ==
    /\ pc[b] = "mgmt"
    /\ Go(b, "reply") \/ Go(b, "address")
    /\ UNCHANGED adapter /\ AdapterUnchanged

\* Faulty variant: more events than the bound admits.
SkipEvent_Unbounded(b) ==
    /\ pc[b] = "reply"
    /\ events' = [events EXCEPT ![b] = @ - 1]
    /\ UNCHANGED <<process, registered, adapter, history, pc>>

\* _wait_for_reply skips what is not the answer, also a Command Status that
\* says the command is in progress.
SkipEvent(b) ==
    /\ pc[b] = "reply" /\ events[b] > 0
    /\ events' = [events EXCEPT ![b] = @ - 1]
    /\ UNCHANGED <<process, registered, adapter, history, pc>>

\* Command Complete with status 0; or an error, a short packet or two seconds
\* of silence, after which setup() goes on all the same. The next connect starts
\* with the bound on events again.
IoCapabilityReply(b) ==
    /\ pc[b] = "reply"
    /\ events' = [events EXCEPT ![b] = MaxEvents]
    /\ Go(b, "address")
    /\ UNCHANGED <<process, registered, adapter, history>>

GetAddress(b) ==
    /\ pc[b] = "address"
    /\ Go(b, "lockAgent")
    /\ UNCHANGED adapter /\ AdapterUnchanged

(***************************************************************************)
(* BlueZAgent.register and SDPService.register                             *)
(***************************************************************************)
ServiceUnchanged == UNCHANGED <<adapter, events, history>>

First(s) == IF s = "agent" THEN "findAgent" ELSE "findProfile"
LockOf(s) == IF s = "agent" THEN "lockAgent" ELSE "lockProfile"

\* Faulty variant: the lock is not waited for.
AcquireLock_NotHeld(b, s) ==
    /\ pc[b] = LockOf(s)
    /\ lock' = [lock EXCEPT ![s] = b]
    /\ Go(b, First(s))
    /\ UNCHANGED <<object, mainloop, registered>> /\ ServiceUnchanged

AcquireLock(b, s) ==
    /\ pc[b] = LockOf(s) /\ lock[s] = "none"
    /\ lock' = [lock EXCEPT ![s] = b]
    /\ Go(b, First(s))
    /\ UNCHANGED <<object, mainloop, registered>> /\ ServiceUnchanged

\* Faulty variant: an agent this process made is still known to bluetoothd.
FindObject_TakenAsRegistered(b, s) ==
    /\ pc[b] = First(s)
    /\ Go(b, CASE ~object[s] -> IF s = "agent" THEN "makeAgent" ELSE "makeProfile"
               [] object[s] /\ s = "agent" -> "default"
               [] object[s] /\ s = "profile" -> "registerProfile")
    /\ UNCHANGED <<process, registered>> /\ ServiceUnchanged

FindObject(b, s) ==
    /\ pc[b] = First(s)
    /\ Go(b, CASE ~object[s] -> IF s = "agent" THEN "makeAgent" ELSE "makeProfile"
               [] object[s] /\ s = "agent" -> "findLoop"
               [] object[s] /\ s = "profile" -> "registerProfile")
    /\ UNCHANGED <<process, registered>> /\ ServiceUnchanged

\* libdbus refuses a second object on a path: "there is already a handler".
MakeObject(b, s) ==
    /\ pc[b] = (IF s = "agent" THEN "makeAgent" ELSE "makeProfile")
    /\ ~object[s]
    /\ object' = [object EXCEPT ![s] = TRUE]
    /\ Go(b, IF s = "agent" THEN "findLoop" ELSE "registerProfile")
    /\ UNCHANGED <<mainloop, lock, registered>> /\ ServiceUnchanged

FindLoop(b) ==
    /\ pc[b] = "findLoop"
    /\ Go(b, IF mainloop THEN "registerAgent" ELSE "makeLoop")
    /\ UNCHANGED <<process, registered>> /\ ServiceUnchanged

MakeLoop(b) ==
    /\ pc[b] = "makeLoop"
    /\ mainloop' = TRUE
    /\ Go(b, "registerAgent")
    /\ UNCHANGED <<object, lock, registered>> /\ ServiceUnchanged

\* "Already Exists" is as good as success.
RegisterAgent(b) ==
    /\ pc[b] = "registerAgent"
    /\ registered' = [registered EXCEPT !["agent"] = TRUE]
    /\ Go(b, "default")
    /\ UNCHANGED process /\ ServiceUnchanged

\* A RequestDefaultAgent that fails is logged, and connect() goes on; it does fail
\* for an agent that a restarted bluetoothd has forgotten.
RequestDefaultAgent(b) ==
    /\ pc[b] = "default"
    /\ \/ /\ registered["agent"]
          /\ registered' = [registered EXCEPT !["default"] = TRUE]
          /\ UNCHANGED refused
       \/ refused' = [refused EXCEPT ![b] = TRUE] /\ UNCHANGED registered
    /\ lock' = FreeLocks(b)
    /\ Go(b, "lockProfile")
    /\ UNCHANGED <<object, mainloop, adapter, events, fresh, spoiled>>

\* bluetoothd sets the class anew when a profile is registered.
RegisterProfile(b) ==
    /\ pc[b] = "registerProfile"
    /\ registered' = [registered EXCEPT !["profile"] = TRUE]
    /\ MayResetClass
    /\ lock' = FreeLocks(b)
    /\ Go(b, "classAgain")
    /\ UNCHANGED <<object, mainloop, scan, events, history>>

(***************************************************************************)
(* The rest of _connect_sync, from the class to the session, and the end   *)
(***************************************************************************)
\* The last command before the backend waits for the console.
ClassAtLast(b) ==
    /\ pc[b] = "classAtLast"
    /\ class' = "gamepad"
    /\ spoiled' = (IF spoiled = "failed" THEN "no" ELSE spoiled)
    /\ Go(b, "listening")
    /\ UNCHANGED <<process, registered, scan, events, fresh, refused>>

\* disconnect(): both unregister() leave the services as they are, and nobody
\* calls BluetoothAdapter.teardown().
Unregister(b) ==
    /\ pc[b] \in {"listening", "failed"}
    /\ Go(b, "idle")
    /\ UNCHANGED <<process, registered, adapter, events, history>>

\* bluetoothd forgets its clients and sets the adapter up anew.
BluetoothdRestarts ==
    /\ registered' = [s \in Registrations |-> FALSE]
    /\ MayResetClass /\ scan' \in BOOLEAN
    /\ fresh' = [b \in Backends |-> FALSE]
    /\ UNCHANGED <<process, events, refused, spoiled, pc>>

\* A command that hangs, a D-Bus error other than "Already Exists", a second
\* object, no address.
Raises(b) ==
    /\ pc[b] \in Pcs \ ({"idle", "failed", "listening", "mgmt", "reply", "default"} \cup LockPcs)
    /\ Fails(b)

Step(b) ==
    \/ Up(b) \/ Piscan(b) \/ SetClass(b) \/ VerifyClass(b) \/ CommandIgnored(b)
    \/ SendIoCapability(b) \/ SkipEvent(b) \/ IoCapabilityReply(b) \/ GetAddress(b)
    \/ \E s \in Services : FindObject(b, s) \/ MakeObject(b, s)
    \/ FindLoop(b) \/ MakeLoop(b) \/ RegisterAgent(b) \/ RequestDefaultAgent(b)
    \/ RegisterProfile(b) \/ ClassAtLast(b)
    \/ Raises(b)

Acquire(b) == \E s \in Services : AcquireLock(b, s)

Next ==
    \/ \E b \in Backends : ConnectCall(b) \/ Step(b) \/ Acquire(b) \/ Unregister(b)
    \/ BluetoothdRestarts

\* Commands and D-Bus calls have timeouts; a lock that is freed again and again
\* is obtained.
Fairness == \A b \in Backends : WF_vars(Step(b)) /\ SF_vars(Acquire(b))

Spec == Init /\ [][Next]_vars /\ Fairness

-----------------------------------------------------------------------------
\* The services, the adapter and the threads stay within their ranges.
TypeOK ==
    /\ object \in [Services -> BOOLEAN] /\ mainloop \in BOOLEAN
    /\ lock \in [Services -> Backends \cup {"none"}]
    /\ registered \in [Registrations -> BOOLEAN]
    /\ class \in {"gamepad", "other"} /\ scan \in BOOLEAN
    /\ events \in [Backends -> 0 .. MaxEvents]
    /\ fresh \in [Backends -> BOOLEAN] /\ refused \in [Backends -> BOOLEAN]
    /\ spoiled \in {"no", "failed", "ignored"}
    /\ pc \in [Backends -> Pcs]

\* No backend makes a D-Bus object or a main loop a second time, which libdbus
\* would refuse: what it found missing is still missing when it makes it.
MadeOnce ==
    \A b \in Backends :
        /\ pc[b] = "makeAgent" => ~object["agent"]
        /\ pc[b] = "makeProfile" => ~object["profile"]
        /\ pc[b] = "makeLoop" => ~mainloop

\* A backend that waits for a console can be reached until bluetoothd restarts,
\* whatever other backends start, fail or end meanwhile: the console finds the HID
\* profile, and pairing requests come to the agent, which is the default one unless
\* bluetoothd refused that to this backend. It is seen as a gamepad too, once no
\* other backend is between its first command and the class it applies last, or has
\* failed there, and if hciconfig did what it was told.
ListenersAreReachable ==
    \A b \in Backends : pc[b] = "listening" /\ fresh[b] =>
        /\ mainloop /\ \A s \in Services : object[s] /\ registered[s]
        /\ ~refused[b] => registered["default"]
        /\ spoiled = "no" /\ (\A d \in Backends : pc[d] \notin Unsettled)
             => class = "gamepad" /\ scan

\* Every connect gets to wait for a console or fails: a lock is freed however
\* the registration under it ends.
RegistrationEnds ==
    \A b \in Backends :
        pc[b] \notin {"idle", "listening", "failed"} ~> pc[b] \in {"listening", "failed"}

=============================================================================
