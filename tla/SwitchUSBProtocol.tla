-------------------------- MODULE SwitchUSBProtocol --------------------------
(***************************************************************************)
(* usb/switch_protocol.py: over USB, a phase of 0x80 commands comes before *)
(* the handshake of SwitchProtocol. Commands that reach the handshake, or  *)
(* process_incoming later, are reports parse_output rejects: they are not  *)
(* answered. HIDGDevice.send drops a report when the endpoint is busy.     *)
(***************************************************************************)
EXTENDS SwitchProtocol

CONSTANT PhaseTimeout   \* of the command phase, in some unit

ASSUME PhaseAssumption == PhaseTimeout \in Nat

\* "command" has a reply; "reset", like any unknown one, has none; "disable",
\* DISABLE_TIMEOUT, ends the phase.
Commands == {"command", "reset", "disable"}

VARIABLES
    seenAny,     \* seen_any
    phaseClock,  \* time since the phase began
    commanded,   \* history: commands with a reply the host sent
    obeyed,      \* history: those that were answered
    over         \* history: why the phase ended

phaseVars == <<seenAny, phaseClock, over>>
usbVars == <<vars, phaseVars, commanded, obeyed>>

UsbInit ==
    /\ inbox = <<>> /\ asked = <<>> /\ replies = <<>>
    /\ vibration = FALSE /\ player = 0 /\ received = FALSE
    /\ usb = TRUE /\ clock = 0
    /\ pc = "usb"
    /\ seenAny = FALSE /\ phaseClock = 0 /\ over = "no"
    /\ commanded = 0 /\ obeyed = 0

HostSends(m) ==
    /\ ConsoleSends(m)
    /\ commanded' = IF m = "command" THEN commanded + 1 ELSE commanded
    /\ UNCHANGED <<phaseVars, obeyed>>

\* The loop of _usb_phase is about to receive.
Polling == pc = "usb" /\ phaseClock < PhaseTimeout

EndPhase(why) == pc' = "loop" /\ over' = why

\* No data: the phase is over if there was a command before, else it waits.
PhaseGoesQuiet ==
    /\ Polling /\ inbox = <<>> /\ seenAny
    /\ EndPhase("silence")
    /\ UNCHANGED <<inbox, asked, replies, vibration, player, received, usb, clock,
                   seenAny, phaseClock, commanded, obeyed>>

HandleCommand ==
    /\ Polling /\ inbox # <<>> /\ Head(inbox) \in Commands
    /\ inbox' = Tail(inbox)
    /\ seenAny' = TRUE
    /\ obeyed' = IF Head(inbox) = "command" THEN obeyed + 1 ELSE obeyed
    /\ replies' = Append(replies, "none")
    /\ IF Head(inbox) = "disable" THEN EndPhase("disable") ELSE UNCHANGED <<pc, over>>
    /\ UNCHANGED <<asked, vibration, player, received, usb, clock, phaseClock, commanded>>

\* Faulty variant: the report that ends the phase is dropped.
HandleStrayReport_Dropped ==
    /\ Polling /\ inbox # <<>> /\ Head(inbox) \notin Commands
    /\ inbox' = Tail(inbox)
    /\ EndPhase("report")
    /\ UNCHANGED <<asked, replies, vibration, player, received, usb, clock, seenAny,
                   phaseClock, commanded, obeyed>>

\* A report that is no command ends the phase and is handled inline.
HandleStrayReport ==
    /\ Polling /\ inbox # <<>> /\ Head(inbox) \notin Commands
    /\ inbox' = Tail(inbox)
    /\ Handle(Head(inbox))
    /\ EndPhase("report")
    /\ UNCHANGED <<asked, received, usb, clock, seenAny, phaseClock, commanded, obeyed>>

PhaseTimesOut ==
    /\ pc = "usb" /\ phaseClock >= PhaseTimeout
    /\ EndPhase("deadline")
    /\ UNCHANGED <<inbox, asked, replies, vibration, player, received, usb, clock,
                   seenAny, phaseClock, commanded, obeyed>>

\* Time passes during the phase, whatever the loop does.
Tick ==
    /\ Polling
    /\ phaseClock' = phaseClock + 1
    /\ UNCHANGED <<vars, seenAny, over, commanded, obeyed>>

UsbPhase == PhaseGoesQuiet \/ HandleCommand \/ HandleStrayReport \/ PhaseTimesOut

UsbNext ==
    \/ \E m \in Reports : HostSends(m)
    \/ UsbPhase \/ Tick
    \/ (Handshake \/ SendFails \/ ProcessIncoming)
         /\ UNCHANGED <<phaseVars, commanded, obeyed>>

UsbFairness ==
    /\ WF_usbVars(UsbPhase) /\ WF_usbVars(Tick)
    /\ WF_usbVars(Handshake /\ UNCHANGED <<phaseVars, commanded, obeyed>>)
    /\ WF_usbVars(ProcessIncoming /\ UNCHANGED <<phaseVars, commanded, obeyed>>)

UsbSpec == UsbInit /\ [][UsbNext]_usbVars
UsbFairSpec == UsbSpec /\ UsbFairness

-----------------------------------------------------------------------------
(***************************************************************************)
(* What the documentation says and the code does not keep.                 *)
(***************************************************************************)

Pending == Len(SelectSeq(inbox, LAMBDA m : m = "command"))

\* Commands are answered until the host signals that it is done, goes on to
\* subcommands, or the phase has reached its deadline.
CommandsAreAnswered ==
    over \notin {"disable", "report", "deadline"} => obeyed + Pending = commanded

=============================================================================
