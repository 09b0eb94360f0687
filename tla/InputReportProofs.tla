-------------------------- MODULE InputReportProofs --------------------------
(***************************************************************************)
(* The safety properties of InputReport, for any sets of buttons, stick    *)
(* positions and presses, and any size of the report timer.                *)
(***************************************************************************)
EXTENDS InputReport, TLAPS

USE ConstantsAssumption DEF ConstantsAssumption

\* One step on and around again: the remainder may be taken before or after.
LEMMA NextRemainder ==
    ASSUME NEW n \in Nat \ {0}, NEW a \in Nat
    PROVE  /\ a % n \in 0 .. (n - 1)
           /\ ((a % n) + 1) % n = (a + 1) % n
<1> DEFINE q == a \div n
           r == a % n
<1>1. a = n * q + r /\ r \in 0 .. (n - 1) /\ q \in Int
  OBVIOUS
<1> HIDE DEF q, r
<1>2. CASE r + 1 < n
  <2>1. (r + 1) % n = r + 1 /\ (n * q + (r + 1)) % n = r + 1
    BY <1>1, <1>2
  <2>2. a + 1 = n * q + (r + 1)
    BY <1>1
  <2> QED
    BY <1>1, <2>1, <2>2
<1>3. CASE r + 1 = n
  <2>1. (r + 1) % n = 0 /\ (n * (q + 1)) % n = 0
    BY <1>1, <1>3
  <2>2. a + 1 = n * (q + 1)
    BY <1>1, <1>3
  <2> QED
    BY <1>1, <2>1, <2>2
<1>4. (r + 1) % n = (a + 1) % n
  BY <1>1, <1>2, <1>3
<1> QED
  BY <1>1, <1>4 DEF r

(***************************************************************************)
(* The inductive invariant                                                 *)
(***************************************************************************)
\* The lock is owned by the one thread that builds a report.
Locking == \A t \in Senders : Building(t) <=> lock = t

\* The timer is one ahead of the last value taken, which is the one sent last
\* plus those dropped since. A report being built has taken the last value.
Timers ==
    /\ timer = (wire.timer + dropped + 1) % TimerSize
    /\ \A t \in Senders : pc[t] \in {"iterate", "left", "right", "send"} =>
         /\ dropped > 0
         /\ timer = (report.timer + 1) % TimerSize
         /\ report.timer = (wire.timer + dropped) % TimerSize

\* The half under way of press p would not change the set any more.
Applied(p, set) == Changed(p, set) = set

\* How far a press has come that no other call interferes with: it changes the
\* current set, its report holds what it made of the set, and the console has
\* been shown each half before the next one begins.
PressFollows(p) ==
    /\ pc[p] = "apply" => mine[p]
    /\ pc[p] = "iterate" => mine[p] /\ seen = {buttons}
    /\ pc[p] = "want" \/ Building(p) => Applied(p, buttons)
    /\ pc[p] \in {"left", "right", "send"} => Applied(p, report.buttons)
    /\ pc[p] = "sleep" \/ half[p] = 2 => shown[p] # "nothing"
    /\ pc[p] = "done" => shown[p] = "up"

PressesFollow == \A p \in Presses : touched[p] \/ PressFollows(p)

InputInv == TypeOK /\ Locking /\ Timers /\ PressesFollow

(***************************************************************************)
(* Every step keeps the types                                              *)
(***************************************************************************)
\* Going to a place, and looking up or leaving a set, keep the types of both.
LEMMA GoTyped ==
    ASSUME TypeOK, NEW t \in Senders,
           NEW where \in {"idle", "load", "apply", "want", "tick", "iterate",
                          "left", "right", "send", "sleep", "done", "failed"},
           Go(t, where)
    PROVE  /\ pc'[t] = where
           /\ \A u \in Senders \ {t} : pc'[u] = pc[u]
           /\ pc' \in [Senders -> {"idle", "load", "apply", "want", "tick", "iterate",
                                   "left", "right", "send", "sleep", "done", "failed"}]
BY DEF Go, TypeOK

\* Touching keeps those of the presses that are touched already.
LEMMA TouchFacts ==
    ASSUME TypeOK, NEW who, Touch(who)
    PROVE  /\ touched' \in [Presses -> BOOLEAN]
           /\ \A p \in Presses : touched'[p] <=> touched[p] \/ (p \in who /\ Pressing(p))
<1>1. \A p \in Presses : (touched[p] \/ (p \in who /\ Pressing(p))) \in BOOLEAN
  BY DEF TypeOK, Pressing
<1>2. touched' = [p \in Presses |-> touched[p] \/ (p \in who /\ Pressing(p))]
  BY DEF Touch
<1> QED
  BY <1>1, <1>2

\* What is seen of a set are values it has had.
LEMMA WatchTyped ==
    ASSUME TypeOK, Watch, mine' \in [Senders -> BOOLEAN],
           buttons' \in SUBSET Buttons, orphan' \in SUBSET Buttons
    PROVE  seen' \in SUBSET SUBSET Buttons
<1>1. \A t \in Senders : Encoded(t)' \in SUBSET Buttons
  BY DEF Encoded
<1> QED
  BY <1>1 DEF Watch, TypeOK

LEMMA EventLoopTyped ==
    ASSUME TypeOK, EventLoop PROVE TypeOK'
<1>1. ASSUME NEW B \in SUBSET Buttons, HoldButtons(B) \/ ReleaseButtons(B) PROVE TypeOK'
  <2>1. touched' \in [Presses -> BOOLEAN]
    BY <1>1, TouchFacts DEF HoldButtons, ReleaseButtons
  <2>2. buttons' \in SUBSET Buttons /\ UNCHANGED <<mine, orphan>> /\ Watch
    BY <1>1 DEF HoldButtons, ReleaseButtons, TypeOK
  <2>3. seen' \in SUBSET SUBSET Buttons
    BY <2>2, WatchTyped DEF TypeOK
  <2> QED
    BY <1>1, <2>1, <2>2, <2>3 DEF HoldButtons, ReleaseButtons, Call, TypeOK, sending
<1>2. ASSUME NEW pos \in Positions, SetStick(pos) PROVE TypeOK'
  BY <1>2 DEF SetStick, Call, TypeOK, sending
<1>3. ASSUME NEW f \in Frames, SendInput(f) PROVE TypeOK'
  <2>1. touched' \in [Presses -> BOOLEAN]
    BY <1>3, TouchFacts DEF SendInput
  <2>2. f \in [buttons : SUBSET Buttons, left : Positions, right : Positions]
    OBVIOUS
  <2>3. frame' \in [todo : {<<>>, <<"right">>, <<"left", "right">>},
                    left : Positions, right : Positions]
    BY <1>3, <2>2 DEF SendInput
  <2> QED
    BY <1>3, <2>1, <2>2, <2>3 DEF SendInput, Call, TypeOK, sending
<1>4. CASE SendInputStick
  <2>1. frame' \in [todo : {<<>>, <<"right">>, <<"left", "right">>},
                    left : Positions, right : Positions]
    <3>1. \/ frame.todo = <<"right">> /\ Len(frame.todo) = 1
          \/ frame.todo = <<"left", "right">> /\ Len(frame.todo) = 2
             /\ Tail(frame.todo) = <<"right">>
      <4> DEFINE todo == frame.todo
      <4>1. todo \in {<<"right">>, <<"left", "right">>}
        BY <1>4 DEF SendInputStick, TypeOK
      <4> HIDE DEF todo
      <4>2. todo = <<"right">> => Len(todo) = 1
        OBVIOUS
      <4>3. todo = <<"left", "right">> => Len(todo) = 2 /\ Tail(todo) = <<"right">>
        OBVIOUS
      <4> QED
        BY <4>1, <4>2, <4>3 DEF todo
    <3> QED
      BY <1>4, <3>1 DEF SendInputStick, TypeOK, NoFrame
  <2>2. left' \in Positions /\ right' \in Positions
    BY <1>4 DEF SendInputStick, TypeOK
  <2> QED
    BY <1>4, <2>1, <2>2 DEF SendInputStick, TypeOK, sending
<1>5. ASSUME NEW p \in Presses, PressButtons(p) PROVE TypeOK'
  BY <1>5, GoTyped DEF PressButtons, TypeOK, sending, Senders
<1> QED
  BY <1>1, <1>2, <1>3, <1>4, <1>5 DEF EventLoop

LEMMA PressTyped ==
    ASSUME TypeOK, NEW p \in Presses, PressStep(p) PROVE TypeOK'
<1>1. CASE LookUpSet(p)
  BY <1>1, GoTyped DEF LookUpSet, TypeOK, sending, Senders
<1>2. CASE ChangeSet(p)
  <2>1. touched' \in [Presses -> BOOLEAN]
    BY <1>2, TouchFacts DEF ChangeSet, TypeOK
  <2>2. buttons' \in SUBSET Buttons /\ orphan' \in SUBSET Buttons
    BY <1>2 DEF ChangeSet, Changed, TypeOK
  <2>3. seen' \in SUBSET SUBSET Buttons
    BY <1>2, <2>2, WatchTyped DEF ChangeSet, TypeOK
  <2> QED
    BY <1>2, <2>1, <2>2, <2>3, GoTyped DEF ChangeSet, TypeOK, sending, Senders
<1>3. ASSUME NEW d \in Durations, Sleep(p, d) PROVE TypeOK'
  <2>1. half' \in [Presses -> {1, 2}]
    BY <1>3 DEF Sleep, TypeOK
  <2> QED
    BY <1>3, <2>1, GoTyped DEF Sleep, TypeOK, sending, Senders
<1> QED
  BY <1>1, <1>2, <1>3 DEF PressStep

\* How a report changes what the console has seen of a press.
LEMMA ShownFacts ==
    ASSUME TypeOK, NEW p \in Presses
    PROVE  /\ ShownBy(p) \in {"nothing", "down", "up"}
           /\ shown[p] = "nothing" =>
                ShownBy(p) = IF Pressing(p) /\ PressOf[p] \subseteq report.buttons
                               THEN "down" ELSE "nothing"
           /\ shown[p] = "down" =>
                ShownBy(p) = IF PressOf[p] \cap report.buttons = {} THEN "up" ELSE "down"
           /\ shown[p] = "up" => ShownBy(p) = "up"
<1>1. shown[p] \in {"nothing", "down", "up"}
  BY DEF TypeOK
<1> QED
  BY <1>1, Zenon DEF ShownBy

LEMMA BuildTyped ==
    ASSUME TypeOK, NEW t \in Senders, Acquire(t) \/ Build(t) PROVE TypeOK'
<1>1. CASE Acquire(t)
  BY <1>1, GoTyped DEF Acquire, TypeOK, unsent
<1>2. CASE AdvanceTimer(t)
  <2>1. timer' \in 0 .. (TimerSize - 1)
    BY <1>2, NextRemainder DEF AdvanceTimer, TypeOK
  <2>2. report' \in Report
    BY <1>2 DEF AdvanceTimer, TypeOK, Report
  <2> QED
    BY <1>2, <2>1, <2>2, GoTyped DEF AdvanceTimer, TypeOK, unsent
<1>3. CASE EncodeButtons(t)
  <2>1. report' \in Report
    <3>1. Encoded(t) \in SUBSET Buttons /\ UNION seen \subseteq Buttons
      BY DEF Encoded, TypeOK
    <3> QED
      BY <1>3, <3>1 DEF EncodeButtons, TypeOK, Report
  <2>2. lock' \in Senders \cup {"none"}
    BY <1>3 DEF EncodeButtons, TypeOK
  <2> QED
    BY <1>3, <2>1, <2>2, GoTyped DEF EncodeButtons, TypeOK, unsent
<1>4. CASE EncodeSticks(t)
  <2>1. report' \in Report
    BY <1>4 DEF EncodeSticks, TypeOK, Report
  <2> QED
    BY <1>4, <2>1, GoTyped DEF EncodeSticks, TypeOK, unsent
<1>5. CASE Send(t)
  <2>1. shown' \in [Presses -> {"nothing", "down", "up"}]
    BY <1>5, ShownFacts DEF Send
  <2> QED
    BY <1>5, <2>1, GoTyped DEF Send, TypeOK, unsent
<1> QED
  BY <1>1, <1>2, <1>3, <1>4, <1>5 DEF Build

(***************************************************************************)
(* Every step keeps the lock, the timers and the presses                   *)
(***************************************************************************)
\* What the event loop leaves alone, as far as the senders are concerned.
LEMMA EventLoopFacts ==
    ASSUME TypeOK, EventLoop
    PROVE  /\ UNCHANGED sending
           /\ \A t \in Senders : pc'[t] = pc[t] \/ (pc[t] = "idle" /\ pc'[t] = "load")
           /\ UNCHANGED half
           /\ \/ UNCHANGED <<buttons, mine, seen, touched>>
              \/ \E B \in SUBSET Buttons :
                   /\ buttons' = buttons \cup B \/ buttons' = buttons \ B
                   /\ UNCHANGED <<pc, mine>>
                   /\ \A p \in Presses :
                        touched'[p] <=> touched[p] \/ (p \in Interfered(B) /\ Pressing(p))
              \/ \A p \in Presses : touched'[p] <=> touched[p] \/ Pressing(p)
<1>1. ASSUME NEW B \in SUBSET Buttons, HoldButtons(B) \/ ReleaseButtons(B)
      PROVE  /\ UNCHANGED <<sending, pc, half, mine>>
             /\ buttons' = buttons \cup B \/ buttons' = buttons \ B
             /\ \A p \in Presses :
                  touched'[p] <=> touched[p] \/ (p \in Interfered(B) /\ Pressing(p))
  <2>1. UNCHANGED <<sending, pc, half, mine>> /\ Touch(Interfered(B))
    BY <1>1 DEF HoldButtons, ReleaseButtons
  <2>2. buttons' = buttons \cup B \/ buttons' = buttons \ B
    BY <1>1 DEF HoldButtons, ReleaseButtons
  <2> QED
    BY <2>1, <2>2, TouchFacts
<1>2. ASSUME NEW pos \in Positions, SetStick(pos)
      PROVE  UNCHANGED <<sending, pc, half, buttons, mine, seen, touched>>
  BY <1>2 DEF SetStick
<1>3. ASSUME NEW f \in Frames, SendInput(f)
      PROVE  /\ UNCHANGED <<sending, pc, half>>
             /\ \A p \in Presses : touched'[p] <=> touched[p] \/ Pressing(p)
  BY <1>3, TouchFacts DEF SendInput
<1>4. CASE SendInputStick
  BY <1>4 DEF SendInputStick
<1>5. ASSUME NEW p \in Presses, PressButtons(p)
      PROVE  /\ UNCHANGED <<sending, half, buttons, mine, seen, touched>>
             /\ pc[p] = "idle" /\ pc' = [pc EXCEPT ![p] = "load"]
  BY <1>5 DEF PressButtons, Go
<1>6. ASSUME NEW p \in Presses, PressButtons(p)
      PROVE  \A t \in Senders : pc'[t] = pc[t] \/ (pc[t] = "idle" /\ pc'[t] = "load")
  BY <1>5, <1>6 DEF TypeOK, Senders
<1> QED
  BY <1>1, <1>2, <1>3, <1>4, <1>5, <1>6 DEF EventLoop, sending

\* A press thread that steps outside the lock neither starts nor ends a report.
LEMMA PressFacts ==
    ASSUME TypeOK, NEW p \in Presses, PressStep(p)
    PROVE  /\ UNCHANGED sending
           /\ \A t \in Senders \ {p} : pc'[t] = pc[t]
           /\ ~Building(p) /\ ~Building(p)'
<1>1. \E where \in {"apply", "want", "load", "failed"} : Go(p, where)
  BY DEF PressStep, LookUpSet, ChangeSet, Sleep
<1>2. (pc'[p] \in {"apply", "want", "load", "failed"})
      /\ \A t \in Senders \ {p} : pc'[t] = pc[t]
  BY <1>1, GoTyped DEF Senders
<1>3. pc[p] \in {"load", "apply", "sleep"} /\ UNCHANGED sending
  BY DEF PressStep, LookUpSet, ChangeSet, Sleep
<1> QED
  BY <1>2, <1>3 DEF Building

\* The five steps of a report, by the places they lead from and to.
LEMMA ReportFacts ==
    ASSUME TypeOK, NEW t \in Senders, Acquire(t) \/ Build(t)
    PROVE  /\ \A u \in Senders \ {t} : pc'[u] = pc[u]
           /\ \/ Acquire(t) /\ pc[t] = "want" /\ pc'[t] = "tick"
              \/ AdvanceTimer(t) /\ pc[t] = "tick" /\ pc'[t] = "iterate"
              \/ EncodeButtons(t) /\ pc[t] = "iterate" /\ pc'[t] = "left"
                 /\ UNCHANGED lock
              \/ EncodeButtons(t) /\ pc[t] = "iterate" /\ pc'[t] = "failed"
                 /\ lock' = "none" /\ UNCHANGED report
              \/ EncodeSticks(t) /\ pc[t] = "left" /\ pc'[t] = "right"
              \/ EncodeSticks(t) /\ pc[t] = "right" /\ pc'[t] = "send"
              \/ Send(t) /\ pc[t] = "send"
                 /\ pc'[t] = IF t = "ka" THEN "want"
                             ELSE IF half[t] = 1 THEN "sleep" ELSE "done"
<1>1. CASE Acquire(t)
  BY <1>1, GoTyped DEF Acquire
<1>2. CASE AdvanceTimer(t)
  BY <1>2, GoTyped DEF AdvanceTimer
<1>3. CASE EncodeButtons(t)
  BY <1>3, GoTyped DEF EncodeButtons
<1>4. CASE EncodeSticks(t)
  BY <1>4, GoTyped DEF EncodeSticks
<1>5. CASE Send(t)
  BY <1>5, GoTyped DEF Send
<1> QED
  BY <1>1, <1>2, <1>3, <1>4, <1>5 DEF Build

LEMMA LockingKept ==
    ASSUME TypeOK, Locking, Next PROVE Locking'
<1>1. CASE EventLoop
  <2>1. lock' = lock /\ \A t \in Senders : Building(t)' <=> Building(t)
    BY <1>1, EventLoopFacts DEF Building, sending
  <2> QED
    BY <2>1 DEF Locking
<1>2. ASSUME NEW p \in Presses, PressStep(p) PROVE Locking'
  <2>1. lock' = lock /\ \A t \in Senders : Building(t)' <=> Building(t)
    BY <1>2, PressFacts DEF Building, sending
  <2> QED
    BY <2>1 DEF Locking
<1>3. ASSUME NEW t \in Senders, Acquire(t) \/ Build(t) PROVE Locking'
  <2>1. \A u \in Senders \ {t} : Building(u)' <=> Building(u)
    BY <1>3, ReportFacts DEF Building
  <2>2. t # "none" /\ \A u \in Senders : u # "none"
    BY DEF Senders
  <2>3. CASE Acquire(t)
    <3>1. Building(t)' /\ lock' = t /\ lock = "none"
      BY <2>3, <1>3, GoTyped DEF Acquire, Building
    <3> QED
      BY <2>1, <2>2, <3>1 DEF Locking
  <2>4. CASE Build(t)
    <3>1. Building(t)
      BY <2>4 DEF Build, AdvanceTimer, EncodeButtons, EncodeSticks, Send, Building
    <3>2. lock' = IF Building(t)' THEN lock ELSE "none"
      <4>1. CASE AdvanceTimer(t)
        BY <4>1, GoTyped DEF AdvanceTimer, Building
      <4>2. CASE EncodeButtons(t)
        BY <4>2, GoTyped DEF EncodeButtons, Building
      <4>3. CASE EncodeSticks(t)
        BY <4>3, GoTyped DEF EncodeSticks, Building
      <4>4. CASE Send(t)
        BY <4>4, GoTyped DEF Send, Building
      <4> QED
        BY <2>4, <4>1, <4>2, <4>3, <4>4 DEF Build
    <3> QED
      BY <2>1, <2>2, <3>1, <3>2 DEF Locking
  <2> QED
    BY <1>3, <2>3, <2>4
<1> QED
  BY <1>1, <1>2, <1>3 DEF Next

\* Taking the next value of the timer.
LEMMA TickFacts ==
    ASSUME TypeOK, Timers, NEW t \in Senders, AdvanceTimer(t)
    PROVE  /\ dropped' > 0
           /\ timer' = (wire'.timer + dropped' + 1) % TimerSize
           /\ timer' = (report'.timer + 1) % TimerSize
           /\ report'.timer = (wire'.timer + dropped') % TimerSize
<1> DEFINE a == wire.timer + dropped + 1
<1>1. a \in Nat /\ wire' = wire /\ dropped' = dropped + 1 /\ dropped \in Nat
  BY DEF AdvanceTimer, TypeOK, Report
<1>2. wire'.timer + dropped' = a /\ wire'.timer + dropped' + 1 = a + 1
  BY <1>1 DEF TypeOK, Report
<1>3. timer = a % TimerSize
  BY DEF Timers
<1>4. timer' = (timer + 1) % TimerSize /\ report'.timer = timer
  BY DEF AdvanceTimer, TypeOK, Report
<1> HIDE DEF a
<1>5. (timer + 1) % TimerSize = (a + 1) % TimerSize
  BY <1>1, <1>3, NextRemainder
<1> QED
  BY <1>1, <1>2, <1>3, <1>4, <1>5

LEMMA TimersKept ==
    ASSUME TypeOK, Locking, Timers, Next PROVE Timers'
<1> DEFINE Built(t) == pc[t] \in {"iterate", "left", "right", "send"}
<1>1. CASE EventLoop
  <2>1. \A t \in Senders : Built(t)' => Built(t)
    BY <1>1, EventLoopFacts
  <2> QED
    BY <1>1, <2>1, EventLoopFacts DEF Timers, sending
<1>2. ASSUME NEW p \in Presses, PressStep(p) PROVE Timers'
  <2>1. \A t \in Senders : Built(t)' => Built(t)
    BY <1>2, PressFacts DEF Building
  <2> QED
    BY <1>2, <2>1, PressFacts DEF Timers, sending
<1>3. ASSUME NEW t \in Senders, Acquire(t) \/ Build(t) PROVE Timers'
  <2>1. CASE Acquire(t)
    <3>1. \A u \in Senders : Built(u)' => Built(u)
      BY <2>1, GoTyped DEF Acquire
    <3> QED
      BY <2>1, <3>1 DEF Acquire, Timers
  <2>2. CASE AdvanceTimer(t)
    BY <2>2, TickFacts DEF Timers
  <2>3. CASE EncodeButtons(t) \/ EncodeSticks(t)
    <3>1. \A u \in Senders : Built(u)' => Built(u)
      BY <2>3, GoTyped DEF EncodeButtons, EncodeSticks
    <3>2. UNCHANGED <<timer, wire, dropped>> /\ report'.timer = report.timer
      BY <2>3 DEF EncodeButtons, EncodeSticks, TypeOK, Report
    <3> QED
      BY <3>1, <3>2 DEF Timers
  <2>4. CASE Send(t)
    <3>1. \A u \in Senders : ~Built(u)'
      <4>1. ~Built(t)'
        BY <2>4, GoTyped DEF Send
      <4>2. lock = t
        BY <2>4 DEF Send, Locking, Building
      <4>3. \A u \in Senders \ {t} : ~Built(u)
        BY <4>2 DEF Locking, Building
      <4> QED
        BY <1>3, <4>1, <4>3, ReportFacts
    <3>2. timer = (report.timer + 1) % TimerSize
      BY <2>4 DEF Send, Timers
    <3>3. report.timer + 0 + 1 = report.timer + 1
      BY DEF TypeOK, Report
    <3> QED
      BY <2>4, <3>1, <3>2, <3>3 DEF Send, Timers
  <2> QED
    BY <1>3, <2>1, <2>2, <2>3, <2>4 DEF Build
<1> QED
  BY <1>1, <1>2, <1>3 DEF Next

\* A report changes what was seen of a press in one direction only.
LEMMA ShownGrows ==
    ASSUME TypeOK, NEW t \in Senders, Acquire(t) \/ Build(t), NEW p \in Presses
    PROVE  /\ shown[p] # "nothing" => shown'[p] # "nothing"
           /\ shown[p] = "up" => shown'[p] = "up"
<1>1. CASE Send(t)
  <2>1. shown'[p] = ShownBy(p) /\ shown[p] \in {"nothing", "down", "up"}
    BY <1>1 DEF Send, TypeOK
  <2> QED
    BY <2>1, ShownFacts
<1>2. CASE ~Send(t)
  BY <1>2 DEF Acquire, Build, AdvanceTimer, EncodeButtons, EncodeSticks
<1> QED
  BY <1>1, <1>2

\* A press that has made its half of a set does not change that set any more.
LEMMA AppliedFacts ==
    ASSUME TypeOK, NEW p \in Presses, NEW set
    PROVE  /\ half[p] = 1 => (Applied(p, set) <=> PressOf[p] \subseteq set)
           /\ half[p] = 2 => (Applied(p, set) <=> PressOf[p] \cap set = {})
           /\ Applied(p, Changed(p, set))
           /\ half[p] \in {1, 2}
<1>1. half[p] \in {1, 2}
  BY DEF TypeOK
<1>2. /\ (set \cup PressOf[p] = set) <=> PressOf[p] \subseteq set
      /\ (set \ PressOf[p] = set) <=> PressOf[p] \cap set = {}
      /\ (set \cup PressOf[p]) \cup PressOf[p] = set \cup PressOf[p]
      /\ (set \ PressOf[p]) \ PressOf[p] = set \ PressOf[p]
  BY Zenon
<1>3. CASE half[p] = 1
  <2>1. \A S : Changed(p, S) = S \cup PressOf[p]
    BY <1>3 DEF Changed
  <2>2. Applied(p, set) <=> set \cup PressOf[p] = set
    BY <2>1, Zenon DEF Applied
  <2>3. Applied(p, Changed(p, set))
    BY <1>2, <2>1, Zenon DEF Applied
  <2> QED
    BY <1>2, <1>3, <2>2, <2>3
<1>4. CASE half[p] = 2
  <2>1. \A S : Changed(p, S) = S \ PressOf[p]
    BY <1>4 DEF Changed
  <2>2. Applied(p, set) <=> set \ PressOf[p] = set
    BY <2>1, Zenon DEF Applied
  <2>3. Applied(p, Changed(p, set))
    BY <1>2, <2>1, Zenon DEF Applied
  <2> QED
    BY <1>2, <1>4, <2>2, <2>3
<1> QED
  BY <1>1, <1>3, <1>4

\* Other buttons come and go without changing what a press has made of a set.
LEMMA DisjointKeeps ==
    ASSUME TypeOK, NEW p \in Presses, NEW B, PressOf[p] \cap B = {},
           NEW set, Applied(p, set)
    PROVE  Applied(p, set \cup B) /\ Applied(p, set \ B)
<1>1. CASE half[p] = 1
  <2>1. PressOf[p] \subseteq set
    BY <1>1, AppliedFacts
  <2>2. PressOf[p] \subseteq set \cup B /\ PressOf[p] \subseteq set \ B
    BY <2>1
  <2> QED
    BY <1>1, <2>2, AppliedFacts
<1>2. CASE half[p] = 2
  <2>1. PressOf[p] \cap set = {}
    BY <1>2, AppliedFacts
  <2>2. PressOf[p] \cap (set \cup B) = {} /\ PressOf[p] \cap (set \ B) = {}
    BY <2>1
  <2> QED
    BY <1>2, <2>2, AppliedFacts
<1> QED
  BY <1>1, <1>2, AppliedFacts

\* So a press that is not interfered with follows such a change.
LEMMA FollowsChange ==
    ASSUME TypeOK, NEW p \in Presses, PressFollows(p), NEW B,
           buttons' = buttons \cup B \/ buttons' = buttons \ B,
           ~(p \in Interfered(B)),
           pc'[p] = pc[p], mine'[p] = mine[p], half'[p] = half[p], UNCHANGED <<report, shown>>
    PROVE  PressFollows(p)'
<1>1. pc[p] # "iterate" /\ PressOf[p] \cap B = {}
  BY DEF Interfered
<1>2. \A set : Applied(p, set)' <=> Applied(p, set)
  BY DEF Applied, Changed
<1>3. Applied(p, buttons) => Applied(p, buttons')
  <2>1. Applied(p, buttons) => Applied(p, buttons \cup B) /\ Applied(p, buttons \ B)
    BY <1>1, DisjointKeeps
  <2> QED
    BY <2>1
<1> QED
  BY <1>1, <1>2, <1>3 DEF PressFollows, Building

\* The press itself, outside the lock.
LEMMA PressFollowsItself ==
    ASSUME TypeOK, NEW p \in Presses, PressStep(p), PressFollows(p), ~touched'[p]
    PROVE  PressFollows(p)'
<1>1. CASE LookUpSet(p)
  <2>1. pc'[p] = "apply" /\ mine'[p] /\ UNCHANGED <<half, shown>>
    BY <1>1, GoTyped DEF LookUpSet, sending, TypeOK, Senders
  <2> QED
    BY <1>1, <2>1 DEF PressFollows, Building
<1>2. CASE ChangeSet(p)
  <2>1. pc[p] = "apply" /\ pc'[p] = "want" /\ UNCHANGED <<half, shown>>
    BY <1>2, GoTyped DEF ChangeSet, sending, Senders
  <2>2. buttons' = Changed(p, buttons)
    BY <1>2, <2>1 DEF ChangeSet, PressFollows
  <2>3. Applied(p, buttons)'
    BY <2>1, <2>2, AppliedFacts DEF Applied, Changed
  <2> QED
    BY <2>1, <2>3, ZenonT(40) DEF PressFollows, Building
<1>3. ASSUME NEW d \in Durations, Sleep(p, d) PROVE PressFollows(p)'
  <2>1. pc[p] = "sleep" /\ pc'[p] \in {"load", "failed"} /\ shown' = shown
    BY <1>3, GoTyped DEF Sleep, sending, Senders
  <2> QED
    BY <2>1 DEF PressFollows, Building
<1> QED
  BY <1>1, <1>2, <1>3 DEF PressStep

\* The reports that the press itself builds and sends.
LEMMA PressFollowsReport ==
    ASSUME TypeOK, NEW p \in Presses, Acquire(p) \/ Build(p), PressFollows(p)
    PROVE  PressFollows(p)'
<1> p \in Senders /\ p # "ka"
  BY DEF Senders
<1>1. UNCHANGED <<buttons, half>>
  BY DEF Acquire, Build, AdvanceTimer, EncodeButtons, EncodeSticks, Send, unsent
<1>2. \A set : Applied(p, set)' <=> Applied(p, set)
  BY <1>1 DEF Applied, Changed
<1>3. half[p] = 2 => shown'[p] # "nothing"
  BY ShownGrows DEF PressFollows
<1>4. CASE Acquire(p)
  <2>1. pc[p] = "want" /\ pc'[p] = "tick"
    BY <1>4, GoTyped DEF Acquire
  <2> QED
    BY <1>1, <1>2, <1>3, <2>1 DEF PressFollows, Building
<1>5. CASE AdvanceTimer(p)
  <2>1. pc[p] = "tick" /\ pc'[p] = "iterate"
    BY <1>5, GoTyped DEF AdvanceTimer
  <2>2. mine'[p] /\ seen' = {buttons}
    BY <1>5 DEF AdvanceTimer, TypeOK
  <2> QED
    BY <1>1, <1>2, <1>3, <2>1, <2>2 DEF PressFollows, Building
<1>6. CASE EncodeButtons(p)
  <2>1. pc[p] = "iterate" /\ mine[p] /\ seen = {buttons} /\ Applied(p, buttons)
    BY <1>6 DEF EncodeButtons, PressFollows, Building
  <2>2. CASE pc'[p] = "failed"
    BY <1>1, <1>2, <1>3, <2>2 DEF PressFollows, Building
  <2>3. CASE pc'[p] = "left"
    <3>1. Encoded(p) = buttons
      BY <2>1 DEF Encoded
    <3>2. report'.buttons = buttons
      BY <1>6, <2>1, <2>3, <3>1, GoTyped DEF EncodeButtons, TypeOK, Report
    <3> QED
      BY <1>1, <1>2, <1>3, <2>1, <2>3, <3>2 DEF PressFollows, Building
  <2> QED
    BY <1>6, <2>2, <2>3, GoTyped DEF EncodeButtons
<1>7. CASE EncodeSticks(p)
  <2>1. pc[p] \in {"left", "right"} /\ pc'[p] \in {"right", "send"}
    BY <1>7, GoTyped DEF EncodeSticks
  <2>2. report'.buttons = report.buttons
    BY <1>7 DEF EncodeSticks, TypeOK, Report
  <2> QED
    BY <1>1, <1>2, <1>3, <2>1, <2>2 DEF PressFollows, Building
<1>8. CASE Send(p)
  <2>1. /\ pc[p] = "send" /\ Applied(p, report.buttons) /\ Pressing(p)
        /\ shown'[p] = ShownBy(p) /\ shown[p] \in {"nothing", "down", "up"}
    BY <1>8 DEF Send, PressFollows, Pressing, TypeOK
  <2>2. CASE half[p] = 1
    <3>1. pc'[p] = "sleep"
      BY <1>8, <2>2, GoTyped DEF Send
    <3>2. shown'[p] # "nothing"
      BY <2>1, <2>2, ShownFacts, AppliedFacts
    <3> QED
      BY <3>1, <3>2, SMTT(30) DEF PressFollows, Building
  <2>3. CASE half[p] = 2
    <3>1. pc'[p] = "done" /\ shown[p] # "nothing"
      BY <1>8, <2>3, GoTyped DEF Send, PressFollows
    <3>2. shown'[p] = "up"
      BY <2>1, <2>3, <3>1, ShownFacts, AppliedFacts
    <3> QED
      BY <3>1, <3>2 DEF PressFollows, Building
  <2> QED
    BY <2>2, <2>3, AppliedFacts
<1> QED
  BY <1>4, <1>5, <1>6, <1>7, <1>8 DEF Build

\* What other senders and other presses do does not disturb the press, unless
\* they change the set of buttons, which touches it.
LEMMA PressFollowsOthers ==
    ASSUME TypeOK, Locking, NEW p \in Presses, NEW t \in Senders \ {p},
           Acquire(t) \/ Build(t) \/ (t \in Presses /\ PressStep(t)),
           PressFollows(p), ~touched'[p]
    PROVE  PressFollows(p)'
<1> p \in Senders
  BY DEF Senders
<1>1. CASE Acquire(t) \/ Build(t)
  <2>1. /\ pc'[p] = pc[p] /\ mine'[p] = mine[p] /\ UNCHANGED <<half, buttons>>
    <3>1. pc'[p] = pc[p]
      BY <1>1, ReportFacts
    <3>2. mine'[p] = mine[p] /\ UNCHANGED <<half, buttons>>
      BY <1>1 DEF Acquire, Build, AdvanceTimer, EncodeButtons, EncodeSticks, Send,
                  unsent, TypeOK
    <3> QED
      BY <3>1, <3>2
  <2>2. Building(p) => UNCHANGED <<report, seen>>
    <3>1. CASE Acquire(t)
      BY <3>1 DEF Acquire
    <3>2. CASE Build(t)
      <4>1. lock = t
        BY <3>2 DEF Build, AdvanceTimer, EncodeButtons, EncodeSticks, Send, Locking,
                    Building
      <4> QED
        BY <4>1 DEF Locking
    <3> QED
      BY <1>1, <3>1, <3>2
  <2>3. \A set : Applied(p, set)' <=> Applied(p, set)
    BY <2>1 DEF Applied, Changed
  <2> QED
    BY <1>1, <2>1, <2>2, <2>3, ShownGrows DEF PressFollows, Building
<1>2. CASE t \in Presses /\ PressStep(t)
  <2>1. pc'[p] = pc[p] /\ UNCHANGED <<shown, report>>
    BY <1>2, PressFacts DEF sending
  <2>2. mine'[p] = mine[p] /\ half'[p] = half[p]
    BY <1>2 DEF PressStep, LookUpSet, ChangeSet, Sleep, TypeOK
  <2>3. CASE buttons' = buttons /\ (pc[p] = "iterate" => seen' = seen)
    <3>1. \A set : Applied(p, set)' <=> Applied(p, set)
      BY <2>2 DEF Applied, Changed
    <3> QED
      BY <2>1, <2>2, <2>3, <3>1 DEF PressFollows, Building
  <2>4. CASE ~Pressing(p)
    BY <2>1, <2>2, <2>4 DEF PressFollows, Building, Pressing
  <2>5. CASE ChangeSet(t) /\ mine[t] /\ Pressing(p)
    <3>1. ~(p \in Interfered(PressOf[t]))
      BY <2>5, TouchFacts DEF ChangeSet
    <3>2. buttons' = buttons \cup PressOf[t] \/ buttons' = buttons \ PressOf[t]
      BY <2>5 DEF ChangeSet, Changed
    <3> QED
      BY <2>1, <2>2, <3>1, <3>2, FollowsChange
  <2>6. CASE ChangeSet(t) /\ ~mine[t]
    <3>1. buttons' = buttons /\ mine' = mine /\ Watch
      BY <2>6 DEF ChangeSet
    <3>2. ASSUME pc[p] = "iterate" PROVE seen' = seen
      <4>1. {u \in Senders : pc[u] = "iterate"} = {p}
        BY <3>2 DEF Locking, Building
      <4>2. mine[p] /\ seen = {buttons}
        BY <3>2 DEF PressFollows
      <4>3. Encoded(p)' = buttons
        BY <3>1, <4>2 DEF Encoded
      <4> QED
        BY <3>1, <4>1, <4>2, <4>3 DEF Watch
    <3> QED
      BY <2>3, <3>1, <3>2
  <2>7. CASE ~ChangeSet(t)
    BY <1>2, <2>3, <2>7 DEF PressStep, LookUpSet, Sleep
  <2> QED
    BY <2>4, <2>5, <2>6, <2>7
<1> QED
  BY <1>1, <1>2

LEMMA PressFollowsLoop ==
    ASSUME TypeOK, EventLoop, NEW p \in Presses, PressFollows(p), ~touched'[p]
    PROVE  PressFollows(p)'
<1> p \in Senders
  BY DEF Senders
<1>1. UNCHANGED <<half, report, shown>>
  BY EventLoopFacts DEF sending
<1>2. \A set : Applied(p, set)' <=> Applied(p, set)
  BY <1>1 DEF Applied, Changed
<1>3. pc'[p] = pc[p] \/ (pc[p] = "idle" /\ pc'[p] = "load")
  BY EventLoopFacts
<1>4. CASE UNCHANGED <<buttons, mine, seen>> \/ ~Pressing(p)
  BY <1>1, <1>2, <1>3, <1>4 DEF PressFollows, Building, Pressing
<1>5. ASSUME NEW B \in SUBSET Buttons, Pressing(p),
             buttons' = buttons \cup B \/ buttons' = buttons \ B,
             UNCHANGED <<pc, mine>>,
             touched'[p] <=> touched[p] \/ (p \in Interfered(B) /\ Pressing(p))
      PROVE  PressFollows(p)'
  BY <1>1, <1>5, FollowsChange
<1> QED
  BY <1>4, <1>5, EventLoopFacts

\* A press that is touched stays touched.
LEMMA TouchedStays ==
    ASSUME TypeOK, Next, NEW p \in Presses, touched[p] PROVE touched'[p]
<1>1. CASE EventLoop
  BY <1>1, EventLoopFacts
<1>2. ASSUME NEW q \in Presses, PressStep(q) PROVE touched'[p]
  BY <1>2, TouchFacts DEF PressStep, LookUpSet, ChangeSet, Sleep
<1>3. ASSUME NEW t \in Senders, Acquire(t) \/ Build(t) PROVE touched'[p]
  BY <1>3 DEF Acquire, Build, AdvanceTimer, EncodeButtons, EncodeSticks, Send, unsent
<1> QED
  BY <1>1, <1>2, <1>3 DEF Next

LEMMA PressesFollowKept ==
    ASSUME TypeOK, Locking, PressesFollow, Next PROVE PressesFollow'
<1> SUFFICES ASSUME NEW p \in Presses, ~touched'[p] PROVE PressFollows(p)'
  BY DEF PressesFollow
<1>1. PressFollows(p)
  BY TouchedStays DEF PressesFollow
<1>2. CASE EventLoop
  BY <1>1, <1>2, PressFollowsLoop
<1>3. ASSUME NEW q \in Presses, PressStep(q) PROVE PressFollows(p)'
  BY <1>1, <1>3, PressFollowsItself, PressFollowsOthers DEF Senders
<1>4. ASSUME NEW t \in Senders, Acquire(t) \/ Build(t) PROVE PressFollows(p)'
  BY <1>1, <1>4, PressFollowsReport, PressFollowsOthers
<1> QED
  BY <1>2, <1>3, <1>4 DEF Next

(***************************************************************************)
(* The theorems                                                            *)
(***************************************************************************)
\* The initial state and every step keep the invariant.
LEMMA Inductive == (Init => InputInv) /\ (InputInv /\ [Next]_vars => InputInv')
<1>1. Init => InputInv
  <2> SUFFICES ASSUME Init PROVE InputInv
    OBVIOUS
  <2> USE DEF Init
  <2>1. TypeOK
    <3>1. report \in Report
      BY DEF Report
    <3>2. frame \in [todo : {<<>>, <<"right">>, <<"left", "right">>},
                     left : Positions, right : Positions]
      BY DEF NoFrame
    <3> QED
      BY <3>1, <3>2 DEF TypeOK
  <2>2. Locking /\ PressesFollow
    BY DEF Locking, Building, PressesFollow, PressFollows, Senders
  <2>3. Timers
    BY DEF Timers
  <2> QED
    BY <2>1, <2>2, <2>3 DEF InputInv
<1>2. InputInv /\ [Next]_vars => InputInv'
  <2> SUFFICES ASSUME InputInv, [Next]_vars PROVE InputInv'
    OBVIOUS
  <2> USE DEF InputInv
  <2>1. CASE Next
    <3>1. TypeOK'
      BY <2>1, EventLoopTyped, PressTyped, BuildTyped DEF Next
    <3> QED
      BY <2>1, <3>1, LockingKept, TimersKept, PressesFollowKept
  <2>2. CASE UNCHANGED vars
    <3>1. TypeOK' /\ Locking' /\ Timers'
      BY <2>2 DEF vars, TypeOK, Locking, Building, Timers
    <3>2. PressesFollow'
      BY <2>2 DEF vars, PressesFollow, PressFollows, Applied, Changed, Building
    <3> QED
      BY <3>1, <3>2
  <2> QED
    BY <2>1, <2>2
<1> QED
  BY <1>1, <1>2

\* The invariant holds in every reachable state.
THEOREM Invariance == Spec => []InputInv
BY Inductive, PTL DEF Spec

\* Type correctness; in particular the timer never leaves its byte.
THEOREM TypeCorrect == Spec => []TypeOK
<1>1. InputInv => TypeOK
  BY DEF InputInv
<1> QED
  BY <1>1, Invariance, PTL

\* A press that no other call interfered with was shown to the console whole,
\* whatever the keep-alive thread sent in between.
THEOREM PressReachesConsole == Spec => []PressIsShown
<1>1. InputInv => PressIsShown
  BY DEF InputInv, PressIsShown, PressesFollow, PressFollows
<1> QED
  BY <1>1, Invariance, PTL

\* Reports leave in the order of their timers, whichever thread sends them.
THEOREM ReportsInOrder == Spec => WireOrder
<1>1. InputInv /\ [Next]_vars =>
        [wire' # wire =>
           dropped > 0 /\ wire'.timer = (wire.timer + dropped) % TimerSize]_vars
  <2> SUFFICES ASSUME InputInv, Next, wire' # wire
               PROVE  dropped > 0 /\ wire'.timer = (wire.timer + dropped) % TimerSize
    BY DEF vars
  <2>1. ~EventLoop
    BY EventLoopFacts DEF InputInv, sending
  <2>2. \A p \in Presses : ~PressStep(p)
    BY PressFacts DEF InputInv, sending
  <2>3. PICK t \in Senders : Send(t)
    BY <2>1, <2>2 DEF Next, Acquire, Build, AdvanceTimer, EncodeButtons, EncodeSticks
  <2> QED
    BY <2>3 DEF Send, InputInv, Timers
<1> QED
  BY <1>1, Invariance, PTL DEF Spec, WireOrder

=============================================================================
