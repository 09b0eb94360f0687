----------------------------- MODULE InputReport -----------------------------
(***************************************************************************)
(* What the console sees of the input: the ReportBuilder of one connected  *)
(* backend, changed by API calls and encoded by several threads.           *)
(*                                                                         *)
(* The event loop runs hold_buttons, release_buttons, set_stick and        *)
(* send_input without a lock; press threads change the same set of buttons *)
(* without it too. The keep-alive thread and the press threads encode and  *)
(* send reports one at a time, under _send_lock (SwitchBackend). The link  *)
(* is up throughout and the Bluetooth keep-alive loop is the one modelled: *)
(* it ends at the first exception. Both Switch backends share this code.   *)
(*                                                                         *)
(* send_input replaces the set of buttons by a new one; the other calls    *)
(* change the set they find. A thread that has looked the set up keeps it, *)
(* so "mine" records whether the set a thread holds is still the current.  *)
(***************************************************************************)
EXTENDS Integers, FiniteSets, Sequences

CONSTANTS
    Buttons,     \* the buttons that occur
    Positions,   \* the stick positions that occur
    Center,      \* the initial position
    Presses,     \* press_buttons calls
    PressOf,     \* the buttons each of them presses
    Durations,   \* durations a press may ask for, in some unit
    Frames,      \* the complete states send_input may be called with
    Calls,       \* which other calls clients make
    MaxCalls,    \* bound: how many of those they make
    TimerSize    \* the report timer counts modulo this: 256 in the code

ASSUME ConstantsAssumption ==
    /\ Center \in Positions
    /\ {"ka", "none", "nobody"} \cap Presses = {}
    /\ PressOf \in [Presses -> SUBSET Buttons]
    /\ Durations \subseteq Int
    /\ Frames \subseteq [buttons : SUBSET Buttons, left : Positions, right : Positions]
    /\ Calls \subseteq {"hold", "release", "stick", "frame"}
    /\ MaxCalls \in Nat
    /\ TimerSize \in Nat \ {0}

Senders == Presses \cup {"ka"}

VARIABLES
    buttons,   \* _report.buttons
    left,      \* _report.left_stick
    right,     \* _report.right_stick
    timer,     \* _report.timer
    lock,      \* owner of _send_lock, or "none"
    pc,        \* where each sender stands
    half,      \* 1 while a press presses, 2 once it releases
    mine,      \* the set a sender looked up is still _report.buttons
    orphan,    \* the set send_input replaced last, for those who still use it
    report,    \* the report being built
    seen,      \* the values a set has had since its encoding began
    frame,     \* the rest of a send_input under way: fields left to assign
    wire,      \* the last report sent
    calls,     \* calls made so far
    dropped,   \* history: timer values spent on reports never sent since
    touched,   \* history: another call interfered with this press
    shown      \* history: what the console saw of each press

vars == <<buttons, left, right, timer, lock, pc, half, mine, orphan, report,
          seen, frame, wire, calls, dropped, touched, shown>>

sending == <<timer, lock, report, wire, dropped, shown>>

Report == [timer : 0..(TimerSize - 1), buttons : SUBSET Buttons,
           left : Positions, right : Positions]
NoFrame == [todo |-> <<>>, left |-> Center, right |-> Center]

Init ==
    /\ buttons = {} /\ left = Center /\ right = Center /\ timer = 0
    /\ lock = "none"
    /\ pc = [t \in Senders |-> IF t = "ka" THEN "want" ELSE "idle"]
    /\ half = [p \in Presses |-> 1]
    /\ mine = [t \in Senders |-> FALSE]
    /\ orphan = {}
    /\ report = [timer |-> TimerSize - 1, buttons |-> {}, left |-> Center, right |-> Center]
    /\ wire = report /\ seen = {}
    /\ frame = NoFrame
    /\ calls = 0 /\ dropped = 0
    /\ touched = [p \in Presses |-> FALSE]
    /\ shown = [p \in Presses |-> "nothing"]

Go(t, where) == pc' = [pc EXCEPT ![t] = where]
Pressing(p) == pc[p] \notin {"idle", "done", "failed"}

\* _ensure_connected: the keep-alive loop sets ERROR when it ends. The event
\* loop runs one call at a time, none of which awaits.
Accepting == pc["ka"] # "failed" /\ frame.todo = <<>>

Call(what) ==
    /\ what \in Calls /\ Accepting
    /\ calls < MaxCalls /\ calls' = calls + 1

\* Whom a change of the buttons B interferes with: presses of one of them, and
\* one that is reading the set.
Interfered(B) == {p \in Presses : pc[p] = "iterate" \/ PressOf[p] \cap B # {}}
Touch(who) == touched' = [p \in Presses |-> touched[p] \/ (p \in who /\ Pressing(p))]

\* What is being encoded is seen to change.
Encoded(t) == IF mine[t] THEN buttons ELSE orphan
Watch == seen' = seen \cup {Encoded(t)' : t \in {t \in Senders : pc[t] = "iterate"}}

(***************************************************************************)
(* The event loop. set.update and set.difference_update are one step.      *)
(***************************************************************************)
HoldButtons(B) ==
    /\ Call("hold")
    /\ buttons' = buttons \cup B
    /\ Touch(Interfered(B))
    /\ UNCHANGED <<left, right, pc, half, mine, orphan, frame, sending>>
    /\ Watch

ReleaseButtons(B) ==
    /\ Call("release")
    /\ buttons' = buttons \ B
    /\ Touch(Interfered(B))
    /\ UNCHANGED <<left, right, pc, half, mine, orphan, frame, sending>>
    /\ Watch

SetStick(pos) ==
    /\ Call("stick")
    /\ \/ left' = pos /\ UNCHANGED right
       \/ right' = pos /\ UNCHANGED left
    /\ UNCHANGED <<buttons, pc, half, mine, orphan, seen, frame, touched, sending>>

\* A thread is between looking a set up and being done with it.
Using(t) == pc[t] \in {"apply", "iterate"}

\* send_input assigns the buttons, then the left and then the right stick.
\* Bound: at most one replaced set is in use, so "orphan" is that one.
SendInput(f) ==
    /\ Call("frame")
    /\ \A t \in Senders : Using(t) => mine[t]
    /\ buttons' = f.buttons
    /\ orphan' = buttons
    /\ mine' = [t \in Senders |-> FALSE]
    /\ frame' = [todo |-> <<"left", "right">>, left |-> f.left, right |-> f.right]
    /\ Touch(Presses)
    /\ UNCHANGED <<left, right, pc, half, seen, sending>>

SendInputStick ==
    /\ frame.todo # <<>>
    /\ IF Head(frame.todo) = "left"
         THEN left' = frame.left /\ UNCHANGED right
         ELSE right' = frame.right /\ UNCHANGED left
    /\ frame' = IF Len(frame.todo) = 1 THEN NoFrame
                                       ELSE [frame EXCEPT !.todo = Tail(@)]
    /\ UNCHANGED <<calls, buttons, pc, half, mine, orphan, seen, touched, sending>>

(***************************************************************************)
(* _press_sync around its two reports.                                     *)
(***************************************************************************)
PressButtons(p) ==
    /\ pc[p] = "idle" /\ Accepting
    /\ Go(p, "load")
    /\ UNCHANGED <<calls, buttons, left, right, half, mine, orphan, seen, frame,
                   touched, sending>>

LookUpSet(p) ==
    /\ pc[p] = "load"
    /\ mine' = [mine EXCEPT ![p] = TRUE]
    /\ Go(p, "apply")
    /\ UNCHANGED <<calls, buttons, left, right, half, orphan, seen, frame, touched,
                   sending>>

Changed(p, set) == IF half[p] = 1 THEN set \cup PressOf[p] ELSE set \ PressOf[p]

\* Faulty variant: the release is left to the next keep-alive report.
ChangeSet_NoSecondReport(p) ==
    /\ pc[p] = "apply"
    /\ IF mine[p]
         THEN buttons' = Changed(p, buttons) /\ UNCHANGED orphan
              /\ Touch(Interfered(PressOf[p]) \ {p})
         ELSE orphan' = Changed(p, orphan) /\ UNCHANGED <<buttons, touched>>
    /\ Go(p, IF half[p] = 1 THEN "want" ELSE "done")
    /\ UNCHANGED <<calls, left, right, half, mine, frame, sending>>
    /\ Watch

ChangeSet(p) ==
    /\ pc[p] = "apply"
    /\ IF mine[p]
         THEN buttons' = Changed(p, buttons) /\ UNCHANGED orphan
              /\ Touch(Interfered(PressOf[p]) \ {p})
         ELSE orphan' = Changed(p, orphan) /\ UNCHANGED <<buttons, touched>>
    /\ Go(p, "want")
    /\ UNCHANGED <<calls, left, right, half, mine, frame, sending>>
    /\ Watch

\* time.sleep(duration) raises ValueError for a negative duration.
Sleep(p, duration) ==
    /\ pc[p] = "sleep"
    /\ IF duration < 0
         THEN Go(p, "failed") /\ UNCHANGED half
         ELSE Go(p, "load") /\ half' = [half EXCEPT ![p] = 2]
    /\ UNCHANGED <<calls, buttons, left, right, mine, orphan, seen, frame, touched,
                   sending>>

(***************************************************************************)
(* Encoding and sending a report, by the keep-alive or a press thread.     *)
(***************************************************************************)
unsent == <<calls, buttons, left, right, orphan, frame, touched>>

\* Faulty variant: a sender that does not wait for the lock.
Acquire_Unlocked(t) ==
    /\ pc[t] = "want"
    /\ lock' = t
    /\ Go(t, "tick")
    /\ UNCHANGED <<half, mine, timer, report, seen, wire, dropped, shown, unsent>>

Acquire(t) ==
    /\ pc[t] = "want" /\ lock = "none"
    /\ lock' = t
    /\ Go(t, "tick")
    /\ UNCHANGED <<half, mine, timer, report, seen, wire, dropped, shown, unsent>>

\* Faulty variant: the timer is not wrapped.
AdvanceTimer_NoWrap(t) ==
    /\ pc[t] = "tick" /\ timer <= TimerSize
    /\ timer' = timer + 1
    /\ dropped' = dropped + 1
    /\ report' = [report EXCEPT !.timer = timer, !.buttons = buttons]
    /\ mine' = [mine EXCEPT ![t] = TRUE]
    /\ seen' = {buttons}
    /\ Go(t, "iterate")
    /\ UNCHANGED <<half, lock, wire, shown, unsent>>

\* _advance_timer, then encode_buttons begins to iterate the set.
AdvanceTimer(t) ==
    /\ pc[t] = "tick"
    /\ timer' = (timer + 1) % TimerSize
    /\ dropped' = dropped + 1
    /\ report' = [report EXCEPT !.timer = timer, !.buttons = buttons]
    /\ mine' = [mine EXCEPT ![t] = TRUE]
    /\ seen' = {buttons}
    /\ Go(t, "iterate")
    /\ UNCHANGED <<half, lock, wire, shown, unsent>>

\* The iteration ends. If the set changed meanwhile, it may yield any of the
\* buttons it has had, and miss any; whenever it finds the size changed, it
\* raises RuntimeError.
EncodeButtons(t) ==
    /\ pc[t] = "iterate"
    /\ \/ /\ Cardinality(Encoded(t)) = Cardinality(report.buttons)
          /\ \E B \in IF seen = {Encoded(t)} THEN seen ELSE SUBSET UNION seen :
                report' = [report EXCEPT !.buttons = B]
          /\ Go(t, "left")
          /\ UNCHANGED lock
       \/ /\ \E set \in seen : Cardinality(set) # Cardinality(report.buttons)
          /\ Go(t, "failed") /\ lock' = "none" /\ UNCHANGED report
    /\ seen' = {}
    /\ UNCHANGED <<half, mine, timer, wire, dropped, shown, unsent>>

\* Faulty variant: the left stick is copied into both fields.
EncodeSticks_LeftTwice(t) ==
    /\ \/ pc[t] = "left" /\ report' = [report EXCEPT !.left = left] /\ Go(t, "right")
       \/ pc[t] = "right" /\ report' = [report EXCEPT !.right = left] /\ Go(t, "send")
    /\ UNCHANGED <<half, mine, timer, lock, seen, wire, dropped, shown, unsent>>

EncodeSticks(t) ==
    /\ \/ pc[t] = "left" /\ report' = [report EXCEPT !.left = left] /\ Go(t, "right")
       \/ pc[t] = "right" /\ report' = [report EXCEPT !.right = right] /\ Go(t, "send")
    /\ UNCHANGED <<half, mine, timer, lock, seen, wire, dropped, shown, unsent>>

\* What the console has seen of press p once it gets a report.
ShownBy(p) ==
    CASE shown[p] = "nothing" /\ Pressing(p) /\ PressOf[p] \subseteq report.buttons -> "down"
      [] shown[p] = "down" /\ PressOf[p] \cap report.buttons = {} -> "up"
      [] OTHER -> shown[p]

Send(t) ==
    /\ pc[t] = "send"
    /\ wire' = report
    /\ dropped' = 0
    /\ shown' = [p \in Presses |-> ShownBy(p)]
    /\ lock' = "none"
    /\ Go(t, IF t = "ka" THEN "want" ELSE IF half[t] = 1 THEN "sleep" ELSE "done")
    /\ UNCHANGED <<half, mine, timer, report, seen, unsent>>

Build(t) == AdvanceTimer(t) \/ EncodeButtons(t) \/ EncodeSticks(t) \/ Send(t)
PressStep(p) == \/ LookUpSet(p) \/ ChangeSet(p)
                \/ \E d \in Durations : Sleep(p, d)

EventLoop ==
    \/ \E B \in SUBSET Buttons \ {{}} : HoldButtons(B) \/ ReleaseButtons(B)
    \/ \E pos \in Positions : SetStick(pos)
    \/ \E f \in Frames : SendInput(f)
    \/ SendInputStick
    \/ \E p \in Presses : PressButtons(p)

Next ==
    \/ EventLoop
    \/ \E p \in Presses : PressStep(p)
    \/ \E t \in Senders : Acquire(t) \/ Build(t)

Fairness ==
    /\ WF_vars(SendInputStick)
    /\ \A p \in Presses : WF_vars(PressStep(p))
    /\ \A t \in Senders : WF_vars(Build(t)) /\ SF_vars(Acquire(t))

Spec == Init /\ [][Next]_vars
FairSpec == Spec /\ Fairness

-----------------------------------------------------------------------------
\* Types, and the lock: its owner is the one thread building a report.
TypeOK ==
    /\ buttons \in SUBSET Buttons /\ orphan \in SUBSET Buttons
    /\ left \in Positions /\ right \in Positions
    /\ timer \in 0..(TimerSize - 1)
    /\ lock \in Senders \cup {"none"}
    /\ pc \in [Senders -> {"idle", "load", "apply", "want", "tick", "iterate",
                           "left", "right", "send", "sleep", "done", "failed"}]
    /\ half \in [Presses -> {1, 2}]
    /\ mine \in [Senders -> BOOLEAN]
    /\ report \in Report /\ wire \in Report
    /\ seen \in SUBSET SUBSET Buttons
    /\ frame \in [todo : {<<>>, <<"right">>, <<"left", "right">>},
                  left : Positions, right : Positions]
    /\ calls \in 0..MaxCalls /\ dropped \in Nat
    /\ touched \in [Presses -> BOOLEAN]
    /\ shown \in [Presses -> {"nothing", "down", "up"}]

Building(t) == pc[t] \in {"tick", "iterate", "left", "right", "send"}

\* Reports leave in the order of their timers: none overtakes another, none is
\* sent twice, and a value is skipped only for a report whose encoding failed.
WireOrder ==
    [][wire' # wire =>
         dropped > 0 /\ wire'.timer = (wire.timer + dropped) % TimerSize]_vars

\* A press that ended was shown to the console: its buttons all down in some
\* report, and all up in a later one; unless meanwhile another call named one of
\* its buttons, replaced the set or changed it just as the press was reading it.
PressIsShown ==
    \A p \in Presses : pc[p] = "done" /\ ~touched[p] => shown[p] = "up"

\* The state clients set last reaches the console as long as the keep-alive
\* thread runs: unless they change it for ever, the last report shows it.
Shows == wire.buttons = buttons /\ wire.left = left /\ wire.right = right
InputChanges == <<buttons, left, right>>' # <<buttons, left, right>>

LatestInputIsSent ==
    []<>(Shows \/ pc["ka"] = "failed") \/ []<><<InputChanges>>_vars

=============================================================================
