---------------------------- MODULE SwitchProtocol ----------------------------
(***************************************************************************)
(* bluetooth/switch_protocol.py: the conversation that makes the console   *)
(* recognise the controller. The console sends output reports when it      *)
(* likes; the controller polls for them, answers each subcommand with one  *)
(* reply and sends a standard report when there was none to answer.        *)
(*                                                                         *)
(* A report of the console is one of the strings in Subcommands, or        *)
(* "rumble": anything parse_output rejects or that has subcommand 0. What  *)
(* a reply contains is left out; a reply is named by what it answers.      *)
(* Time passes where the code sleeps, in units of 1/15 s.                  *)
(***************************************************************************)
EXTENDS Naturals, Sequences

CONSTANTS
    Reports,     \* what the console may send
    MaxReports,  \* bound: how many reports it sends
    Timeout,     \* of the handshake, in units of 1/15 s
    SlowSleep    \* time.sleep(1.0), in units of 1/15 s

\* Player lights with the pattern of a player, with another one, with none.
Lights == {"lights1", "lights2", "lightsOdd", "lightsEmpty"}
Subcommands == Lights \cup {"vibration", "spi", "unheard"}

ASSUME ConstantsAssumption ==
    MaxReports \in Nat /\ Timeout \in Nat /\ SlowSleep \in Nat \ {0}

VARIABLES
    inbox,      \* reports sent by the console and not read yet
    asked,      \* history: all reports it sent
    replies,    \* history: the subcommand that was replied to, for each report read,
                \* "dropped" if the reply never left, "none" if it called for none
    vibration,  \* vibration_enabled
    player,     \* player_number, 0 for None
    received,   \* received_first
    usb,        \* the connection is an HIDGDevice, whose send may drop a report
    clock,      \* time since the handshake began
    pc          \* where the controller stands; "usb" before the handshake begins

vars == <<inbox, asked, replies, vibration, player, received, usb, clock, pc>>

Ended == pc \in {"ready", "timedOut", "lost"}

Init ==
    /\ inbox = <<>> /\ asked = <<>> /\ replies = <<>>
    /\ vibration = FALSE /\ player = 0 /\ received = FALSE
    /\ usb = FALSE /\ clock = 0
    /\ pc = "loop"

\* The console, external: it sends what it likes, whenever it likes.
ConsoleSends(m) ==
    /\ Len(asked) < MaxReports
    /\ inbox' = Append(inbox, m)
    /\ asked' = Append(asked, m)
    /\ UNCHANGED <<replies, vibration, player, received, usb, clock, pc>>

(***************************************************************************)
(* _handle_subcommand: every subcommand has a reply, also an unknown one.  *)
(***************************************************************************)
PlayerMap(m) == CASE m = "lights1" -> 1 [] m = "lights2" -> 2 [] OTHER -> 0

HandleSubcommand(m) ==
    /\ vibration' = (vibration \/ m = "vibration")
    /\ player' = IF m \in Lights \ {"lightsEmpty"} THEN PlayerMap(m) ELSE player
    /\ \/ replies' = Append(replies, m)
       \/ usb /\ replies' = Append(replies, "dropped")

\* A report has been read: what parse_output rejects is ignored.
Handle(m) ==
    IF m \in Subcommands
      THEN HandleSubcommand(m)
      ELSE replies' = Append(replies, "none") /\ UNCHANGED <<vibration, player>>

Pass(units) == clock' = clock + units

\* Faulty variant: the deadline is not looked at.
Receive_NoDeadline ==
    /\ pc = "loop"
    /\ received' = (received \/ inbox # <<>>)
    /\ inbox' = IF inbox = <<>> THEN inbox ELSE Tail(inbox)
    /\ IF inbox = <<>> THEN UNCHANGED <<replies, vibration, player>>
                       ELSE Handle(Head(inbox))
    /\ IF inbox # <<>> /\ Head(inbox) \in Subcommands
         THEN Pass(1) /\ UNCHANGED pc
         ELSE pc' = "report" /\ UNCHANGED clock
    /\ UNCHANGED <<asked, usb>>

\* One turn of the handshake loop, up to "continue" or the standard report.
Receive ==
    /\ pc = "loop" /\ clock < Timeout
    /\ received' = (received \/ inbox # <<>>)
    /\ inbox' = IF inbox = <<>> THEN inbox ELSE Tail(inbox)
    /\ IF inbox = <<>> THEN UNCHANGED <<replies, vibration, player>>
                       ELSE Handle(Head(inbox))
    /\ IF inbox # <<>> /\ Head(inbox) \in Subcommands
         THEN Pass(1) /\ UNCHANGED pc
         ELSE pc' = "report" /\ UNCHANGED clock
    /\ UNCHANGED <<asked, usb>>

SendReport ==
    /\ pc = "report"
    /\ Pass(IF received THEN 1 ELSE SlowSleep)
    /\ pc' = IF vibration /\ player # 0 THEN "ready" ELSE "loop"
    /\ UNCHANGED <<inbox, asked, replies, vibration, player, received, usb>>

\* Faulty variant: the deadline is computed anew in every turn.
TimeOut_Never ==
    /\ pc = "loop" /\ clock >= Timeout
    /\ clock' = 0
    /\ UNCHANGED <<inbox, asked, replies, vibration, player, received, usb, pc>>

TimeOut ==
    /\ pc = "loop" /\ clock >= Timeout
    /\ pc' = "timedOut"
    /\ UNCHANGED <<inbox, asked, replies, vibration, player, received, usb, clock>>

\* The link is down: the next send raises OSError.
SendFails ==
    /\ pc \notin {"timedOut", "lost"}
    /\ pc' = "lost"
    /\ UNCHANGED <<inbox, asked, replies, vibration, player, received, usb, clock>>

\* process_incoming, which the keep-alive thread calls before each report.
ProcessIncoming ==
    /\ pc = "ready" /\ inbox # <<>>
    /\ inbox' = Tail(inbox)
    /\ Handle(Head(inbox))
    /\ UNCHANGED <<asked, received, usb, clock, pc>>

Handshake == Receive \/ SendReport \/ TimeOut

Next ==
    \/ \E m \in Reports : ConsoleSends(m)
    \/ Handshake \/ SendFails \/ ProcessIncoming

\* The connect thread and, after it, the keep-alive thread keep running.
Fairness == WF_vars(Handshake) /\ WF_vars(ProcessIncoming)

Spec == Init /\ [][Next]_vars
FairSpec == Spec /\ Fairness

-----------------------------------------------------------------------------
\* Types; the clock overshoots the timeout by one sleep at most.
TypeOK ==
    /\ inbox \in Seq(Reports) /\ asked \in Seq(Reports)
    /\ replies \in Seq(Subcommands \cup {"dropped", "none"}) /\ usb \in BOOLEAN
    /\ vibration \in BOOLEAN /\ player \in 0..2 /\ received \in BOOLEAN
    /\ clock \in 0 .. (Timeout + SlowSleep)
    /\ pc \in {"usb", "loop", "report", "ready", "timedOut", "lost"}

\* What a report calls for: one reply, which a busy endpoint may drop.
Due(m) ==
    IF m \in Subcommands THEN {m} \cup (IF usb THEN {"dropped"} ELSE {}) ELSE {"none"}

\* No subcommand is skipped, answered twice or out of turn, by the command phase,
\* the handshake or the keep-alive thread after it: each report read got what it
\* calls for, in turn, and the others still wait, in the order they were sent.
NothingSkipped ==
    /\ inbox = SubSeq(asked, Len(replies) + 1, Len(asked))
    /\ \A n \in DOMAIN replies : replies[n] \in Due(asked[n])

\* The handshake ends, one way or the other, also when the console never says
\* a word, and until the link is lost or the handshake has timed out every
\* report is attended to in the end, before or after it.
ConversationGoesOn ==
    /\ pc \in {"usb", "loop", "report"} ~> Ended
    /\ \A n \in 1 .. MaxReports :
          Len(asked) >= n ~> Len(replies) >= n \/ pc \in {"timedOut", "lost"}

=============================================================================
