---------------------------- MODULE GamepadBackend ----------------------------
(***************************************************************************)
(* What a backend promises to the manager: the interface of                *)
(* core/backend.py as both Switch backends keep it. The manager calls      *)
(* connect() at most once and disconnect() at most once, at any time, and  *)
(* no connect() after a disconnect().                                      *)
(*                                                                         *)
(* A call is "none" before it is made, "pending" while it runs, and then   *)
(* "returned" or "raised". The link is whatever the backend holds open     *)
(* towards the console.                                                    *)
(***************************************************************************)

VARIABLES
    state,       \* what get_state() returns
    connect,     \* the connect() call
    disconnect,  \* the disconnect() call
    early,       \* disconnect() was called before connect() ended
    link         \* an open link to the console

vars == <<state, connect, disconnect, early, link>>

CallStatus == {"none", "pending", "returned", "raised"}

TypeOK ==
    /\ state \in {"connecting", "connected", "disconnected", "error"}
    /\ connect \in CallStatus /\ disconnect \in CallStatus
    /\ early \in BOOLEAN /\ link \in BOOLEAN

Init ==
    /\ state = "disconnected"
    /\ connect = "none" /\ disconnect = "none"
    /\ early = FALSE /\ link = FALSE

Connect ==
    /\ connect = "none" /\ disconnect = "none"
    /\ connect' = "pending"
    /\ state' = "connecting"
    /\ UNCHANGED <<disconnect, early, link>>

\* Only connect() opens a link.
OpenLink ==
    /\ connect = "pending" /\ ~link
    /\ link' = TRUE
    /\ UNCHANGED <<state, connect, disconnect, early>>

\* connect() returns with a link, unless disconnect() took it away meanwhile.
ConnectReturns ==
    /\ connect = "pending"
    /\ link \/ early
    /\ connect' = "returned"
    /\ state' = "connected"
    /\ UNCHANGED <<disconnect, early, link>>

ConnectRaises ==
    /\ connect = "pending"
    /\ connect' = "raised"
    /\ state' = "error"
    /\ UNCHANGED <<disconnect, early, link>>

\* A thread of the backend finds the link unusable.
LinkError ==
    /\ connect # "none"
    /\ state' = "error"
    /\ UNCHANGED <<connect, disconnect, early, link>>

Disconnect ==
    /\ disconnect = "none"
    /\ disconnect' = "pending"
    /\ early' = (connect = "pending")
    /\ UNCHANGED <<state, connect, link>>

\* disconnect() closes the link, and so may a connect() that fails.
CloseLink ==
    /\ link
    /\ disconnect = "pending" \/ connect = "pending"
    /\ link' = FALSE
    /\ UNCHANGED <<state, connect, disconnect, early>>

\* disconnect() returns without a link, unless connect() may still open one.
DisconnectReturns ==
    /\ disconnect = "pending"
    /\ early \/ ~link
    /\ disconnect' = "returned"
    /\ state' = "disconnected"
    /\ UNCHANGED <<connect, early, link>>

DisconnectRaises ==
    /\ disconnect = "pending" /\ early
    /\ disconnect' = "raised"
    /\ UNCHANGED <<state, connect, early, link>>

Next ==
    \/ Connect \/ OpenLink \/ ConnectReturns \/ ConnectRaises \/ LinkError
    \/ Disconnect \/ CloseLink \/ DisconnectReturns \/ DisconnectRaises

Spec == Init /\ [][Next]_vars

\* A connect() that runs beside a disconnect() was called before it.
NoLateConnect == connect = "pending" /\ disconnect # "none" => early

\* Once a disconnect() that was not early has returned, no link is ever open.
ClosedForGood == disconnect = "returned" /\ ~early => ~link

=============================================================================
