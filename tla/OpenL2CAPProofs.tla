--------------------------- MODULE OpenL2CAPProofs ---------------------------
(***************************************************************************)
(* The safety properties of OpenL2CAP, for any number of backends, of      *)
(* consoles and of other devices paired with the adapter.                  *)
(***************************************************************************)
EXTENDS OpenL2CAP, FiniteSetTheorems, TLAPS

USE ConstantsAssumption DEF ConstantsAssumption

\* The two places where a backend waits in accept(), one for each PSM.
LEMMA AcceptingFacts ==
    /\ \A psm \in Psms :
         Accepting[psm] = IF psm = "control" THEN "accept control" ELSE "accept interrupt"
    /\ Range(Accepting) = {"accept control", "accept interrupt"}
<1>1. DOMAIN Accepting = Psms
  BY DEF Accepting, Psms
<1>2. Accepting["control"] = "accept control" /\ Accepting["interrupt"] = "accept interrupt"
  BY DEF Accepting
<1>3. \A psm \in Psms :
         Accepting[psm] = IF psm = "control" THEN "accept control" ELSE "accept interrupt"
  BY <1>2 DEF Psms
<1> QED
  BY <1>1, <1>2, <1>3 DEF Range, Psms

\* A list of all members of a finite set is a sequence of them.
LEMMA ListsAreSequences ==
    ASSUME NEW S, IsFiniteSet(S), NEW s \in SetToSeqs(S)
    PROVE  s \in Seq(S)
BY FS_CardinalityType DEF SetToSeqs

\* What waits without one console is a shorter sequence, or the same.
LEMMA WithoutTyped ==
    ASSUME NEW waiting \in Seq(Consoles), NEW c
    PROVE  Without(waiting, c) \in Seq(Consoles)
<1>1. CASE c \in ToSet(waiting)
  <2> DEFINE i == CHOOSE k \in DOMAIN waiting : waiting[k] = c
  <2>1. i \in 1 .. Len(waiting) /\ Len(waiting) \in Nat
    BY <1>1 DEF ToSet
  <2> HIDE DEF i
  <2>2. SubSeq(waiting, 1, i - 1) \in Seq(Consoles)
    BY <2>1
  <2>3. SubSeq(waiting, i + 1, Len(waiting)) \in Seq(Consoles)
    BY <2>1
  <2>4. RemoveAt(waiting, i) \in Seq(Consoles)
    BY <2>2, <2>3 DEF RemoveAt
  <2> QED
    BY <1>1, <2>4 DEF Without, i
<1>2. CASE c \notin ToSet(waiting)
  BY <1>2 DEF Without
<1> QED
  BY <1>1, <1>2

(***************************************************************************)
(* The inductive invariant                                                 *)
(***************************************************************************)
\* A backend that dials, or removes a bond, has the console it is about at the
\* head of its list.
Dialling ==
    \A b \in Backends : pc[b] \in Psms \cup {"unpair"} => todo[b] # <<>>

\* Of the consoles that refused a backend, the one whose bond it is about to
\* remove is the only one that may still have it.
BondsFollow ==
    \A b \in Backends :
        stale[b] \cap paired \subseteq IF pc[b] = "unpair" THEN {Head(todo[b])} ELSE {}

OpenInv == TypeOK /\ Dialling /\ SocketsReleased /\ BondsFollow

\* Where the properties tell the places apart.
LEMMA PlaceFacts ==
    /\ Places = {"idle", "unpair", "listen", "connected", "control", "interrupt",
                 "accept control", "accept interrupt"}
    /\ Serving("accept control") = Psms /\ Serving("accept interrupt") = Psms
    /\ \A place \in Places \ {"accept control", "accept interrupt"} : Serving(place) = {}
    /\ ConnectedOn("interrupt") = {"control"}
    /\ ConnectedOn("accept interrupt") = {"control"}
    /\ ConnectedOn("connected") = Psms
    /\ \A place \in Places \ {"interrupt", "accept interrupt", "connected"} :
         ConnectedOn(place) = {}
<1>1. Places = {"idle", "unpair", "listen", "connected", "control", "interrupt",
                "accept control", "accept interrupt"}
  BY AcceptingFacts DEF Places, Psms
<1>2. /\ Serving("accept control") = Psms /\ Serving("accept interrupt") = Psms
      /\ \A place \in Places \ {"accept control", "accept interrupt"} : Serving(place) = {}
  BY AcceptingFacts DEF Serving
<1>3. ConnectedOn("interrupt") = {"control"} /\ ConnectedOn("accept interrupt") = {"control"}
  BY Zenon DEF ConnectedOn
<1>4. ConnectedOn("connected") = Psms
  BY Zenon DEF ConnectedOn
<1>5. ASSUME NEW place \in Places \ {"interrupt", "accept interrupt", "connected"}
      PROVE  ConnectedOn(place) = {}
  BY <1>5, Zenon DEF ConnectedOn
<1> QED
  BY <1>1, <1>2, <1>3, <1>4, <1>5

\* The console a backend dials, and the ones it dials after that.
LEMMA ListFacts ==
    ASSUME TypeOK, Dialling, NEW b \in Backends, pc[b] \in Psms \cup {"unpair"}
    PROVE  Head(todo[b]) \in Consoles /\ Tail(todo[b]) \in Seq(Consoles)
<1>1. todo[b] \in Seq(Consoles) /\ todo[b] # <<>>
  BY DEF TypeOK, Dialling
<1> QED
  BY <1>1

\* Where DialNext goes, and that it changes its backend only.
LEMMA DialNextFacts ==
    ASSUME TypeOK, NEW b \in Backends, NEW list \in Seq(Consoles), DialNext(b, list)
    PROVE  /\ todo' = [todo EXCEPT ![b] = list] /\ todo' \in [Backends -> Seq(Consoles)]
           /\ \E place \in {"listen", "control"} :
                 pc' = [pc EXCEPT ![b] = place] /\ (place = "control" => list # <<>>)
BY DEF DialNext, Go, TypeOK

\* How Ends leaves the backend, and that it changes no other.
LEMMA EndsFacts ==
    ASSUME TypeOK, NEW b \in Backends, NEW place \in {"idle", "connected"}, Ends(b, place)
    PROVE  /\ pc' = [pc EXCEPT ![b] = place] /\ pc' \in [Backends -> Places]
           /\ todo' = [todo EXCEPT ![b] = <<>>] /\ todo' \in [Backends -> Seq(Consoles)]
           /\ stale' = [stale EXCEPT ![b] = {}] /\ stale' \in [Backends -> SUBSET Consoles]
<1> USE DEF Ends, Go, TypeOK
<1>1. pc' = [pc EXCEPT ![b] = place] /\ todo' = [todo EXCEPT ![b] = <<>>]
      /\ stale' = [stale EXCEPT ![b] = {}]
  OBVIOUS
<1>2. pc' \in [Backends -> Places]
  BY <1>1, PlaceFacts
<1>3. todo' \in [Backends -> Seq(Consoles)]
  BY <1>1
<1>4. stale' \in [Backends -> SUBSET Consoles]
  BY <1>1
<1> QED
  BY <1>1, <1>2, <1>3, <1>4

\* A backend that goes to a place with the sockets that the place calls for
\* keeps the sockets of all.
LEMMA ReleasedAt ==
    ASSUME TypeOK, SocketsReleased, NEW b \in Backends, NEW place,
           pc' = [pc EXCEPT ![b] = place],
           \A psm \in Psms : server'[psm] = b <=> psm \in Serving(place),
           \A psm \in Psms : \A d \in Backends \ {b} : server'[psm] = d <=> server[psm] = d,
           \A psm \in Psms : socket'[b][psm] # "none" <=> psm \in ConnectedOn(place),
           \A d \in Backends \ {b} : socket'[d] = socket[d]
    PROVE  SocketsReleased'
<1>1. pc'[b] = place /\ \A d \in Backends \ {b} : pc'[d] = pc[d]
  BY DEF TypeOK
<1>2. ASSUME NEW d \in Backends, NEW psm \in Psms
      PROVE  /\ server'[psm] = d <=> psm \in Serving(pc'[d])
             /\ socket'[d][psm] # "none" <=> psm \in ConnectedOn(pc'[d])
  <2>1. CASE d = b
    BY <1>1, <2>1
  <2>2. CASE d # b
    <3>1. pc'[d] = pc[d] /\ socket'[d] = socket[d] /\ (server'[psm] = d <=> server[psm] = d)
      BY <1>1, <2>2
    <3> QED
      BY <3>1 DEF SocketsReleased
  <2> QED
    BY <2>1, <2>2
<1> QED
  BY <1>2 DEF SocketsReleased

-----------------------------------------------------------------------------
(***************************************************************************)
(* The steps of a backend                                                  *)
(***************************************************************************)
\* The list, when there is one, holds consoles only.
LEMMA ListPairedKeeps ==
    ASSUME OpenInv, NEW b \in Backends, ListPaired(b)
    PROVE  OpenInv'
<1> USE DEF OpenInv
<1> DEFINE S == {d \in Devices : IsPairedSwitch(d)}
<1>1. PICK list \in Seq(Consoles) : DialNext(b, list)
  <2>1. S \subseteq Consoles
    BY DEF IsPairedSwitch
  <2>2. IsFiniteSet(S)
    BY <2>1, FS_Subset
  <2>3. (\E list \in SetToSeqs(S) : DialNext(b, list)) \/ DialNext(b, <<>>)
    BY DEF ListPaired
  <2> HIDE DEF S
  <2>4. \A list \in SetToSeqs(S) : list \in Seq(Consoles)
    <3>1. \A list \in SetToSeqs(S) : list \in Seq(S)
      BY <2>2, ListsAreSequences
    <3> QED
      BY <2>1, <3>1
  <2>5. <<>> \in Seq(Consoles)
    OBVIOUS
  <2> QED
    BY <2>3, <2>4, <2>5
<1>2. pc[b] = "idle" /\ UNCHANGED <<bonds, servers, socket, stale>>
  BY DEF ListPaired
<1>3. /\ todo' = [todo EXCEPT ![b] = list] /\ todo' \in [Backends -> Seq(Consoles)]
      /\ \E place \in {"listen", "control"} :
            pc' = [pc EXCEPT ![b] = place] /\ (place = "control" => list # <<>>)
  BY <1>1, DialNextFacts
<1>4. PICK place \in {"listen", "control"} :
         pc' = [pc EXCEPT ![b] = place] /\ (place = "control" => list # <<>>)
  BY <1>3
<1>5. TypeOK'
  BY <1>2, <1>3, <1>4, PlaceFacts DEF TypeOK, bonds, servers
<1>6. Dialling'
  BY <1>3, <1>4 DEF TypeOK, Dialling, Psms
<1>7. SocketsReleased'
  <2>1. \A psm \in Psms : (server[psm] = b <=> psm \in Serving("idle"))
                       /\ (socket[b][psm] # "none" <=> psm \in ConnectedOn("idle"))
    BY <1>2 DEF SocketsReleased
  <2>2. Serving(place) = Serving("idle") /\ ConnectedOn(place) = ConnectedOn("idle")
    BY PlaceFacts
  <2>3. /\ \A psm \in Psms : server'[psm] = b <=> psm \in Serving(place)
        /\ \A psm \in Psms : \A d \in Backends \ {b} : server'[psm] = d <=> server[psm] = d
        /\ \A psm \in Psms : socket'[b][psm] # "none" <=> psm \in ConnectedOn(place)
        /\ \A d \in Backends \ {b} : socket'[d] = socket[d]
    BY <1>2, <2>1, <2>2 DEF servers
  <2> QED
    BY <1>4, <2>3, ReleasedAt
<1>8. BondsFollow'
  BY <1>2, <1>3, <1>4 DEF TypeOK, BondsFollow, bonds
<1> QED
  BY <1>5, <1>6, <1>7, <1>8

\* The bond at the head of the list is removed, or is not looked for again.
LEMMA UnpairKeeps ==
    ASSUME OpenInv, NEW b \in Backends, Unpair(b)
    PROVE  OpenInv'
<1> USE DEF OpenInv
<1>1. /\ pc[b] = "unpair" /\ Head(todo[b]) \in Consoles /\ Tail(todo[b]) \in Seq(Consoles)
      /\ DialNext(b, Tail(todo[b])) /\ UNCHANGED <<bonded, step, pairings, servers, socket>>
  BY ListFacts DEF Unpair
<1>2. PICK place \in {"listen", "control"} :
         pc' = [pc EXCEPT ![b] = place] /\ (place = "control" => Tail(todo[b]) # <<>>)
  BY <1>1, DialNextFacts
<1>3. todo' = [todo EXCEPT ![b] = Tail(todo[b])] /\ todo' \in [Backends -> Seq(Consoles)]
  BY <1>1, DialNextFacts
<1>4. \/ paired' = paired \ {Head(todo[b])} /\ UNCHANGED stale
      \/ stale' = [stale EXCEPT ![b] = @ \ {Head(todo[b])}] /\ UNCHANGED paired
  BY DEF Unpair
<1>5. TypeOK'
  <2>1. paired' \subseteq Devices
    BY <1>4 DEF TypeOK
  <2>2. stale[b] \ {Head(todo[b])} \in SUBSET Consoles
    BY DEF TypeOK
  <2>3. stale' \in [Backends -> SUBSET Consoles]
    BY <1>4, <2>2 DEF TypeOK
  <2> QED
    BY <1>1, <1>2, <1>3, <2>1, <2>3, PlaceFacts DEF TypeOK, servers
<1>6. Dialling'
  BY <1>2, <1>3 DEF TypeOK, Dialling, Psms
<1>7. SocketsReleased'
  <2>1. \A psm \in Psms : (server[psm] = b <=> psm \in Serving("unpair"))
                       /\ (socket[b][psm] # "none" <=> psm \in ConnectedOn("unpair"))
    BY <1>1 DEF SocketsReleased
  <2>2. Serving(place) = Serving("unpair") /\ ConnectedOn(place) = ConnectedOn("unpair")
    BY PlaceFacts
  <2>3. /\ \A psm \in Psms : server'[psm] = b <=> psm \in Serving(place)
        /\ \A psm \in Psms : \A d \in Backends \ {b} : server'[psm] = d <=> server[psm] = d
        /\ \A psm \in Psms : socket'[b][psm] # "none" <=> psm \in ConnectedOn(place)
        /\ \A d \in Backends \ {b} : socket'[d] = socket[d]
    BY <1>1, <2>1, <2>2 DEF servers
  <2> QED
    BY <1>2, <2>3, ReleasedAt
<1>8. BondsFollow'
  <2>1. stale[b] \cap paired \subseteq {Head(todo[b])}
    BY <1>1 DEF BondsFollow
  <2>2. stale'[b] \cap paired' = {}
    BY <1>4, <2>1 DEF TypeOK
  <2>3. \A d \in Backends \ {b} : /\ stale'[d] \cap paired' \subseteq stale[d] \cap paired
                                  /\ pc'[d] = pc[d] /\ todo'[d] = todo[d]
    BY <1>2, <1>3, <1>4 DEF TypeOK
  <2> QED
    BY <2>2, <2>3 DEF BondsFollow
<1> QED
  BY <1>5, <1>6, <1>7, <1>8

\* A failed dial closes what it opened, and a refusal leads to the removal.
LEMMA DialFailsKeeps ==
    ASSUME OpenInv, NEW b \in Backends, NEW errno \in Errnos, DialFails(b, errno)
    PROVE  OpenInv'
<1> USE DEF OpenInv
<1>1. /\ pc[b] \in Psms /\ Head(todo[b]) \in Consoles /\ Tail(todo[b]) \in Seq(Consoles)
      /\ todo[b] # <<>> /\ socket' = [socket EXCEPT ![b] = NoSockets]
      /\ UNCHANGED <<bonds, servers>>
  BY ListFacts DEF DialFails, CloseDialled, Disconnected, Dialling
<1>2. PICK place \in {"listen", "control", "unpair"} :
         /\ pc' = [pc EXCEPT ![b] = place]
         /\ place = "unpair" => UNCHANGED todo
         /\ place # "unpair" =>
               /\ todo' = [todo EXCEPT ![b] = Tail(todo[b])]
               /\ place = "control" => Tail(todo[b]) # <<>>
         /\ IF place = "unpair"
            THEN stale' = [stale EXCEPT ![b] = @ \cup {Head(todo[b])}] ELSE UNCHANGED stale
  <2>1. CASE errno \in StaleErrnos
    <3>1. stale' = [stale EXCEPT ![b] = @ \cup {Head(todo[b])}]
      BY <2>1 DEF DialFails, StaleErrnos
    <3> QED
      BY <2>1, <3>1 DEF DialFails, Go
  <2>2. CASE errno \notin StaleErrnos
    <3>1. DialNext(b, Tail(todo[b])) /\ UNCHANGED stale
      BY <2>2 DEF DialFails, StaleErrnos
    <3>2. todo' = [todo EXCEPT ![b] = Tail(todo[b])]
      BY <1>1, <3>1, DialNextFacts
    <3>3. \E place \in {"listen", "control"} :
             pc' = [pc EXCEPT ![b] = place] /\ (place = "control" => Tail(todo[b]) # <<>>)
      BY <1>1, <3>1, DialNextFacts
    <3> QED
      BY <3>1, <3>2, <3>3
  <2> QED
    BY <2>1, <2>2
<1>3. \A psm \in Psms : socket'[b][psm] = "none"
  BY <1>1 DEF TypeOK, NoSockets
<1>4. TypeOK'
  <2>1. socket' \in [Backends -> [Psms -> Consoles \cup {"none"}]]
    BY <1>1 DEF TypeOK, NoSockets
  <2>2. stale' \in [Backends -> SUBSET Consoles]
    <3>1. stale[b] \cup {Head(todo[b])} \in SUBSET Consoles
      BY <1>1 DEF TypeOK
    <3> QED
      BY <1>2, <3>1 DEF TypeOK
  <2>3. todo' \in [Backends -> Seq(Consoles)]
    <3>1. todo' \in {todo, [todo EXCEPT ![b] = Tail(todo[b])]}
      BY <1>2
    <3> QED
      BY <1>1, <3>1 DEF TypeOK
  <2>4. pc' \in [Backends -> Places]
    BY <1>2, PlaceFacts DEF TypeOK
  <2> QED
    BY <1>1, <2>1, <2>2, <2>3, <2>4 DEF TypeOK, bonds, servers
<1>5. Dialling'
  BY <1>1, <1>2 DEF TypeOK, Dialling, Psms
<1>6. SocketsReleased'
  <2>1. \A psm \in Psms : server[psm] = b <=> psm \in Serving(pc[b])
    BY DEF SocketsReleased
  <2>2. Serving(place) = {} /\ Serving(pc[b]) = {} /\ ConnectedOn(place) = {}
    BY <1>1, PlaceFacts DEF Psms
  <2>3. /\ \A psm \in Psms : server'[psm] = b <=> psm \in Serving(place)
        /\ \A psm \in Psms : \A d \in Backends \ {b} : server'[psm] = d <=> server[psm] = d
        /\ \A psm \in Psms : socket'[b][psm] # "none" <=> psm \in ConnectedOn(place)
        /\ \A d \in Backends \ {b} : socket'[d] = socket[d]
    BY <1>1, <1>3, <2>1, <2>2 DEF servers, TypeOK
  <2> QED
    BY <1>2, <2>3, ReleasedAt
<1>7. BondsFollow'
  <2>1. stale[b] \cap paired = {}
    BY <1>1 DEF BondsFollow, Psms
  <2>2. stale'[b] \cap paired' \subseteq IF pc'[b] = "unpair" THEN {Head(todo'[b])} ELSE {}
    BY <1>1, <1>2, <2>1 DEF TypeOK, bonds
  <2>3. \A d \in Backends \ {b} : /\ stale'[d] \cap paired' = stale[d] \cap paired
                                  /\ pc'[d] = pc[d] /\ todo'[d] = todo[d]
    BY <1>1, <1>2 DEF TypeOK, bonds
  <2> QED
    BY <2>2, <2>3 DEF BondsFollow
<1> QED
  BY <1>4, <1>5, <1>6, <1>7

\* A backend takes both PSMs when nobody has one.
LEMMA BindKeeps ==
    ASSUME OpenInv, NEW b \in Backends, Bind(b)
    PROVE  OpenInv'
<1> USE DEF OpenInv
<1>1. /\ pc[b] = "listen" /\ pc' = [pc EXCEPT ![b] = "accept control"]
      /\ server = NoServers /\ server' = [psm \in Psms |-> b]
      /\ UNCHANGED <<bonds, backlog, todo, socket, stale>>
  BY DEF Bind, Go
<1>2. TypeOK'
  BY <1>1, PlaceFacts DEF TypeOK, bonds
<1>3. Dialling'
  BY <1>1 DEF TypeOK, Dialling, Psms
<1>4. SocketsReleased'
  <2>1. \A psm \in Psms : socket[b][psm] # "none" <=> psm \in ConnectedOn("listen")
    BY <1>1 DEF SocketsReleased
  <2>2. /\ Serving("accept control") = Psms
        /\ ConnectedOn("accept control") = ConnectedOn("listen")
    BY PlaceFacts
  <2>3. /\ \A psm \in Psms : server'[psm] = b <=> psm \in Serving("accept control")
        /\ \A psm \in Psms : \A d \in Backends \ {b} : server'[psm] = d <=> server[psm] = d
        /\ \A psm \in Psms :
             socket'[b][psm] # "none" <=> psm \in ConnectedOn("accept control")
        /\ \A d \in Backends \ {b} : socket'[d] = socket[d]
    BY <1>1, <2>1, <2>2 DEF NoServers
  <2> QED
    BY <1>1, <2>3, ReleasedAt
<1>5. BondsFollow'
  BY <1>1 DEF TypeOK, BondsFollow, bonds
<1> QED
  BY <1>2, <1>3, <1>4, <1>5

\* A backend that finds a PSM taken gives up without a socket.
LEMMA AddressInUseKeeps ==
    ASSUME OpenInv, NEW b \in Backends, AddressInUse(b)
    PROVE  OpenInv'
<1> USE DEF OpenInv
<1>1. /\ pc[b] = "listen" /\ Ends(b, "idle") /\ UNCHANGED <<bonds, servers, socket>>
  BY DEF AddressInUse
<1>2. /\ pc' = [pc EXCEPT ![b] = "idle"] /\ pc' \in [Backends -> Places]
      /\ todo' = [todo EXCEPT ![b] = <<>>] /\ todo' \in [Backends -> Seq(Consoles)]
      /\ stale' = [stale EXCEPT ![b] = {}] /\ stale' \in [Backends -> SUBSET Consoles]
  BY <1>1, EndsFacts
<1>3. TypeOK'
  BY <1>1, <1>2 DEF TypeOK, bonds, servers
<1>4. Dialling'
  BY <1>2 DEF TypeOK, Dialling, Psms
<1>5. SocketsReleased'
  <2>1. \A psm \in Psms : (server[psm] = b <=> psm \in Serving("listen"))
                       /\ (socket[b][psm] # "none" <=> psm \in ConnectedOn("listen"))
    BY <1>1 DEF SocketsReleased
  <2>2. Serving("idle") = Serving("listen") /\ ConnectedOn("idle") = ConnectedOn("listen")
    BY PlaceFacts
  <2>3. /\ \A psm \in Psms : server'[psm] = b <=> psm \in Serving("idle")
        /\ \A psm \in Psms : \A d \in Backends \ {b} : server'[psm] = d <=> server[psm] = d
        /\ \A psm \in Psms : socket'[b][psm] # "none" <=> psm \in ConnectedOn("idle")
        /\ \A d \in Backends \ {b} : socket'[d] = socket[d]
    BY <1>1, <2>1, <2>2 DEF servers
  <2> QED
    BY <1>2, <2>3, ReleasedAt
<1>6. BondsFollow'
  BY <1>1, <1>2 DEF TypeOK, BondsFollow, bonds
<1> QED
  BY <1>3, <1>4, <1>5, <1>6

\* A dial that is answered opens its channel, and the second one ends the call.
LEMMA DialledKeeps ==
    ASSUME OpenInv, NEW b \in Backends, NEW psm \in Psms, Dialled(b, psm)
    PROVE  OpenInv'
<1> USE DEF OpenInv
<1> DEFINE c == Head(todo[b])
<1>1. /\ pc[b] = psm /\ c \in Consoles /\ c # "none"
      /\ socket' = [socket EXCEPT ![b][psm] = c] /\ UNCHANGED <<bonds, servers>>
  BY ListFacts DEF Dialled, Connected
<1> HIDE DEF c
<1>2. /\ \A q \in Psms : server[q] = b <=> q \in Serving(psm)
      /\ \A q \in Psms : socket[b][q] # "none" <=> q \in ConnectedOn(psm)
  BY <1>1 DEF SocketsReleased
<1>3. /\ socket' \in [Backends -> [Psms -> Consoles \cup {"none"}]]
      /\ socket'[b][psm] = c /\ \A q \in Psms \ {psm} : socket'[b][q] = socket[b][q]
      /\ \A d \in Backends \ {b} : socket'[d] = socket[d]
  BY <1>1 DEF TypeOK
<1>4. stale[b] \cap paired = {}
  BY <1>1 DEF BondsFollow, Psms
<1>5. CASE psm = "control"
  <2>1. pc' = [pc EXCEPT ![b] = "interrupt"] /\ UNCHANGED <<todo, stale>>
    BY <1>5 DEF Dialled, Go
  <2>2. TypeOK'
    BY <1>1, <1>3, <2>1, PlaceFacts DEF TypeOK, bonds, servers
  <2>3. Dialling'
    BY <1>1, <2>1 DEF TypeOK, Dialling, Psms
  <2>4. SocketsReleased'
    <3>1. /\ Serving("interrupt") = Serving(psm)
          /\ ConnectedOn("interrupt") = {psm} /\ ConnectedOn(psm) = {}
      BY <1>5, PlaceFacts
    <3>2. /\ \A q \in Psms : server'[q] = b <=> q \in Serving("interrupt")
          /\ \A q \in Psms : \A d \in Backends \ {b} : server'[q] = d <=> server[q] = d
          /\ \A q \in Psms : socket'[b][q] # "none" <=> q \in ConnectedOn("interrupt")
      BY <1>1, <1>2, <1>3, <3>1 DEF servers
    <3> QED
      BY <1>3, <2>1, <3>2, ReleasedAt
  <2>5. BondsFollow'
    BY <1>1, <1>4, <2>1 DEF TypeOK, BondsFollow, bonds
  <2> QED
    BY <2>2, <2>3, <2>4, <2>5
<1>6. CASE psm = "interrupt"
  <2>1. Ends(b, "connected")
    BY <1>6 DEF Dialled
  <2>2. /\ pc' = [pc EXCEPT ![b] = "connected"] /\ pc' \in [Backends -> Places]
        /\ todo' = [todo EXCEPT ![b] = <<>>] /\ todo' \in [Backends -> Seq(Consoles)]
        /\ stale' = [stale EXCEPT ![b] = {}] /\ stale' \in [Backends -> SUBSET Consoles]
    BY <2>1, EndsFacts
  <2>3. TypeOK'
    BY <1>1, <1>3, <2>2 DEF TypeOK, bonds, servers
  <2>4. Dialling'
    BY <2>2 DEF TypeOK, Dialling, Psms
  <2>5. SocketsReleased'
    <3>1. /\ Serving("connected") = Serving(psm)
          /\ ConnectedOn("connected") = Psms /\ ConnectedOn(psm) = Psms \ {psm}
      BY <1>6, PlaceFacts DEF Psms
    <3>2. /\ \A q \in Psms : server'[q] = b <=> q \in Serving("connected")
          /\ \A q \in Psms : \A d \in Backends \ {b} : server'[q] = d <=> server[q] = d
          /\ \A q \in Psms : socket'[b][q] # "none" <=> q \in ConnectedOn("connected")
      BY <1>1, <1>2, <1>3, <3>1 DEF servers
    <3> QED
      BY <1>3, <2>2, <3>2, ReleasedAt
  <2>6. BondsFollow'
    BY <1>1, <2>2 DEF TypeOK, BondsFollow, bonds
  <2> QED
    BY <2>3, <2>4, <2>5, <2>6
<1> QED
  BY <1>5, <1>6 DEF Psms

\* What closing its server sockets leaves to the other backends.
LEMMA ServersClosedFacts ==
    ASSUME TypeOK, NEW b \in Backends, ServersClosed(b)
    PROVE  /\ server' \in [Psms -> Backends \cup {"none"}]
           /\ backlog' \in [Psms -> Seq(Consoles)]
           /\ \A q \in Psms : server'[q] # b
           /\ \A q \in Psms : \A d \in Backends \ {b} : server'[q] = d <=> server[q] = d
<1>1. backlog' \in [Psms -> Seq(Consoles)]
  <2>1. \A q \in Psms : (IF server[q] = b THEN <<>> ELSE backlog[q]) \in Seq(Consoles)
    BY DEF TypeOK
  <2> QED
    BY <2>1 DEF ServersClosed
<1> QED
  BY <1>1 DEF ServersClosed, TypeOK

\* A connection that is accepted is one of those the place calls for, and the
\* second one ends the call.
LEMMA AcceptKeeps ==
    ASSUME OpenInv, NEW b \in Backends, NEW psm \in Psms, Accept(b, psm)
    PROVE  OpenInv'
<1> USE DEF OpenInv
<1> DEFINE c == Head(backlog[psm])
<1>1. /\ pc[b] = Accepting[psm] /\ c \in Consoles /\ c # "none"
      /\ Tail(backlog[psm]) \in Seq(Consoles)
      /\ socket' = [socket EXCEPT ![b][psm] = c] /\ UNCHANGED bonds
  <2>1. backlog[psm] \in Seq(Consoles) /\ backlog[psm] # <<>>
    BY DEF TypeOK, Accept
  <2>2. c \in Consoles /\ Tail(backlog[psm]) \in Seq(Consoles)
    BY <2>1
  <2> QED
    BY <2>2 DEF Accept, Connected
<1> HIDE DEF c
<1>2. /\ \A q \in Psms : server[q] = b <=> q \in Serving(pc[b])
      /\ \A q \in Psms : socket[b][q] # "none" <=> q \in ConnectedOn(pc[b])
  BY DEF SocketsReleased
<1>3. /\ socket' \in [Backends -> [Psms -> Consoles \cup {"none"}]]
      /\ socket'[b][psm] = c /\ \A q \in Psms \ {psm} : socket'[b][q] = socket[b][q]
      /\ \A d \in Backends \ {b} : socket'[d] = socket[d]
  BY <1>1 DEF TypeOK
<1>4. pc[b] # "unpair" /\ stale[b] \cap paired = {}
  BY <1>1, AcceptingFacts DEF BondsFollow
<1>5. CASE psm = "control"
  <2>1. /\ pc[b] = "accept control" /\ pc' = [pc EXCEPT ![b] = "accept interrupt"]
        /\ backlog' = [backlog EXCEPT ![psm] = Tail(@)] /\ UNCHANGED <<server, todo, stale>>
    BY <1>1, <1>5, AcceptingFacts DEF Accept, Go
  <2>2. TypeOK'
    <3>1. backlog' \in [Psms -> Seq(Consoles)]
      BY <1>1, <2>1 DEF TypeOK
    <3> QED
      BY <1>1, <1>3, <2>1, <3>1, PlaceFacts DEF TypeOK, bonds
  <2>3. Dialling'
    BY <1>1, <2>1 DEF TypeOK, Dialling, Psms
  <2>4. SocketsReleased'
    <3>1. /\ Serving("accept interrupt") = Serving(pc[b])
          /\ ConnectedOn("accept interrupt") = {psm} /\ ConnectedOn(pc[b]) = {}
      BY <1>5, <2>1, PlaceFacts
    <3>2. /\ \A q \in Psms : server'[q] = b <=> q \in Serving("accept interrupt")
          /\ \A q \in Psms : \A d \in Backends \ {b} : server'[q] = d <=> server[q] = d
          /\ \A q \in Psms : socket'[b][q] # "none" <=> q \in ConnectedOn("accept interrupt")
      BY <1>1, <1>2, <1>3, <2>1, <3>1
    <3> QED
      BY <1>3, <2>1, <3>2, ReleasedAt
  <2>5. BondsFollow'
    BY <1>1, <1>4, <2>1 DEF TypeOK, BondsFollow, bonds
  <2> QED
    BY <2>2, <2>3, <2>4, <2>5
<1>6. CASE psm = "interrupt"
  <2>1. pc[b] = "accept interrupt" /\ Ends(b, "connected") /\ ServersClosed(b)
    BY <1>1, <1>6, AcceptingFacts DEF Accept
  <2>2. /\ pc' = [pc EXCEPT ![b] = "connected"] /\ pc' \in [Backends -> Places]
        /\ todo' = [todo EXCEPT ![b] = <<>>] /\ todo' \in [Backends -> Seq(Consoles)]
        /\ stale' = [stale EXCEPT ![b] = {}] /\ stale' \in [Backends -> SUBSET Consoles]
    BY <2>1, EndsFacts
  <2>3. TypeOK'
    BY <1>1, <1>3, <2>1, <2>2, ServersClosedFacts DEF TypeOK, bonds
  <2>4. Dialling'
    BY <2>2 DEF TypeOK, Dialling, Psms
  <2>5. SocketsReleased'
    <3>1. /\ Serving("connected") = {}
          /\ ConnectedOn("connected") = Psms /\ ConnectedOn(pc[b]) = Psms \ {psm}
      BY <1>6, <2>1, PlaceFacts DEF Psms
    <3>2. /\ \A q \in Psms : server'[q] = b <=> q \in Serving("connected")
          /\ \A q \in Psms : \A d \in Backends \ {b} : server'[q] = d <=> server[q] = d
      BY <2>1, <3>1, ServersClosedFacts
    <3>3. \A q \in Psms : socket'[b][q] # "none" <=> q \in ConnectedOn("connected")
      BY <1>1, <1>2, <1>3, <3>1
    <3> QED
      BY <1>3, <2>2, <3>2, <3>3, ReleasedAt
  <2>6. BondsFollow'
    BY <1>1, <2>2 DEF TypeOK, BondsFollow, bonds
  <2> QED
    BY <2>3, <2>4, <2>5, <2>6
<1> QED
  BY <1>5, <1>6 DEF Psms

\* A timeout closes the servers and whatever was accepted.
LEMMA AcceptTimesOutKeeps ==
    ASSUME OpenInv, NEW b \in Backends, NEW psm \in Psms, AcceptTimesOut(b, psm)
    PROVE  OpenInv'
<1> USE DEF OpenInv
<1>1. /\ Ends(b, "idle") /\ ServersClosed(b) /\ socket' = [socket EXCEPT ![b] = NoSockets]
      /\ UNCHANGED bonds
  BY DEF AcceptTimesOut, Disconnected
<1>2. /\ pc' = [pc EXCEPT ![b] = "idle"] /\ pc' \in [Backends -> Places]
      /\ todo' = [todo EXCEPT ![b] = <<>>] /\ todo' \in [Backends -> Seq(Consoles)]
      /\ stale' = [stale EXCEPT ![b] = {}] /\ stale' \in [Backends -> SUBSET Consoles]
  BY <1>1, EndsFacts
<1>3. /\ socket' \in [Backends -> [Psms -> Consoles \cup {"none"}]]
      /\ \A q \in Psms : socket'[b][q] = "none"
      /\ \A d \in Backends \ {b} : socket'[d] = socket[d]
  BY <1>1 DEF TypeOK, NoSockets
<1>4. TypeOK'
  BY <1>1, <1>2, <1>3, ServersClosedFacts DEF TypeOK, bonds
<1>5. Dialling'
  BY <1>2 DEF TypeOK, Dialling, Psms
<1>6. SocketsReleased'
  <2>1. Serving("idle") = {} /\ ConnectedOn("idle") = {}
    BY PlaceFacts
  <2>2. /\ \A q \in Psms : server'[q] = b <=> q \in Serving("idle")
        /\ \A q \in Psms : \A d \in Backends \ {b} : server'[q] = d <=> server[q] = d
    BY <1>1, <2>1, ServersClosedFacts
  <2>3. \A q \in Psms : socket'[b][q] # "none" <=> q \in ConnectedOn("idle")
    BY <1>3, <2>1
  <2> QED
    BY <1>2, <1>3, <2>2, <2>3, ReleasedAt
<1>7. BondsFollow'
  BY <1>1, <1>2 DEF TypeOK, BondsFollow, bonds
<1> QED
  BY <1>4, <1>5, <1>6, <1>7

\* close() closes both channels.
LEMMA CloseKeeps ==
    ASSUME OpenInv, NEW b \in Backends, Close(b)
    PROVE  OpenInv'
<1> USE DEF OpenInv
<1>1. /\ pc[b] = "connected" /\ pc' = [pc EXCEPT ![b] = "idle"]
      /\ socket' = [socket EXCEPT ![b] = NoSockets]
      /\ UNCHANGED <<bonds, servers, todo, stale>>
  BY DEF Close, Go, Disconnected
<1>2. /\ socket' \in [Backends -> [Psms -> Consoles \cup {"none"}]]
      /\ \A q \in Psms : socket'[b][q] = "none"
      /\ \A d \in Backends \ {b} : socket'[d] = socket[d]
  BY <1>1 DEF TypeOK, NoSockets
<1>3. TypeOK'
  BY <1>1, <1>2, PlaceFacts DEF TypeOK, bonds, servers
<1>4. Dialling'
  BY <1>1 DEF TypeOK, Dialling, Psms
<1>5. SocketsReleased'
  <2>1. Serving("idle") = Serving("connected") /\ ConnectedOn("idle") = {}
    BY PlaceFacts
  <2>2. \A q \in Psms : server[q] = b <=> q \in Serving("connected")
    BY <1>1 DEF SocketsReleased
  <2>3. /\ \A q \in Psms : server'[q] = b <=> q \in Serving("idle")
        /\ \A q \in Psms : \A d \in Backends \ {b} : server'[q] = d <=> server[q] = d
        /\ \A q \in Psms : socket'[b][q] # "none" <=> q \in ConnectedOn("idle")
    BY <1>1, <1>2, <2>1, <2>2 DEF servers
  <2> QED
    BY <1>1, <1>2, <2>3, ReleasedAt
<1>6. BondsFollow'
  BY <1>1 DEF TypeOK, BondsFollow, bonds
<1> QED
  BY <1>3, <1>4, <1>5, <1>6

-----------------------------------------------------------------------------
\* Every step of a console keeps the types, and the stale bonds; the sockets
\* and the places of the backends are not its own.
LEMMA ConsoleKeeps ==
    ASSUME OpenInv, NEW c \in Consoles,
           Pair(c) \/ OpenControl(c) \/ OpenInterrupt(c) \/ Leave(c) \/ Forget(c)
    PROVE  OpenInv'
<1> USE DEF OpenInv, Psms
<1>1. UNCHANGED <<server, pc, todo, socket>>
  BY DEF Pair, OpenControl, OpenInterrupt, Opens, Leave, Forget, Gone, servers
<1>2. /\ step' \in [Consoles -> {"idle", "paired", "control"}]
      /\ paired' \subseteq Devices /\ bonded' \subseteq Consoles
      /\ pairings' \in 0 .. MaxPairings
  <2>1. CASE Pair(c)
    BY <2>1 DEF Pair, TypeOK, Devices
  <2>2. CASE OpenControl(c)
    BY <2>2 DEF OpenControl, Opens, TypeOK
  <2>3. CASE OpenInterrupt(c)
    BY <2>3 DEF OpenInterrupt, Opens, TypeOK
  <2>4. CASE Leave(c) \/ Forget(c)
    BY <2>4 DEF Leave, Forget, Gone, TypeOK
  <2> QED
    BY <2>1, <2>2, <2>3, <2>4
<1>3. backlog' \in [Psms -> Seq(Consoles)]
  <2>1. CASE Pair(c)
    BY <2>1 DEF Pair, TypeOK, servers
  <2>2. ASSUME NEW psm \in Psms, backlog' = [backlog EXCEPT ![psm] = Append(@, c)]
        PROVE  backlog' \in [Psms -> Seq(Consoles)]
    <3>1. Append(backlog[psm], c) \in Seq(Consoles)
      BY DEF TypeOK
    <3> QED
      BY <2>2, <3>1 DEF TypeOK
  <2>3. CASE OpenControl(c) \/ OpenInterrupt(c)
    BY <2>2, <2>3 DEF OpenControl, OpenInterrupt, Opens
  <2>4. CASE Leave(c) \/ Forget(c)
    <3>1. \A psm \in Psms : Without(backlog[psm], c) \in Seq(Consoles)
      BY WithoutTyped DEF TypeOK
    <3> QED
      BY <2>4, <3>1 DEF Leave, Forget, Gone
  <2> QED
    BY <2>1, <2>3, <2>4
<1>4. /\ stale' \in [Backends -> SUBSET Consoles]
      /\ \A b \in Backends : stale'[b] \cap paired' \subseteq stale[b] \cap paired
  <2>1. CASE Pair(c)
    BY <2>1 DEF Pair, TypeOK
  <2>2. CASE ~Pair(c)
    BY <2>2 DEF OpenControl, OpenInterrupt, Opens, Leave, Forget, Gone, TypeOK
  <2> QED
    BY <2>1, <2>2
<1>5. TypeOK'
  BY <1>1, <1>2, <1>3, <1>4 DEF TypeOK
<1>6. Dialling' /\ SocketsReleased'
  BY <1>1 DEF Dialling, SocketsReleased
<1>7. BondsFollow'
  BY <1>1, <1>4 DEF BondsFollow
<1> QED
  BY <1>5, <1>6, <1>7

\* The initial state and every step keep the invariant.
LEMMA Inductive == (Init => OpenInv) /\ (OpenInv /\ [Next]_vars => OpenInv')
<1>1. Init => OpenInv
  <2> SUFFICES ASSUME Init PROVE OpenInv
    OBVIOUS
  <2> USE DEF Init
  <2>1. TypeOK
    <3>1. paired \subseteq Devices
      BY DEF Devices
    <3>2. /\ server \in [Psms -> Backends \cup {"none"}]
          /\ backlog \in [Psms -> Seq(Consoles)]
      BY DEF NoServers, NoBacklog
    <3>3. pc \in [Backends -> Places]
      BY PlaceFacts
    <3>5. /\ todo \in [Backends -> Seq(Consoles)]
          /\ stale \in [Backends -> SUBSET Consoles]
      OBVIOUS
    <3>6. socket \in [Backends -> [Psms -> Consoles \cup {"none"}]]
      BY DEF NoSockets
    <3>4. step \in [Consoles -> {"idle", "paired", "control"}] /\ pairings \in 0 .. MaxPairings
      OBVIOUS
    <3> QED
      BY <3>1, <3>2, <3>3, <3>4, <3>5, <3>6 DEF TypeOK
  <2>2. Dialling /\ BondsFollow
    BY DEF Dialling, BondsFollow, Psms
  <2>3. SocketsReleased
    BY PlaceFacts DEF SocketsReleased, NoServers, NoSockets
  <2> QED
    BY <2>1, <2>2, <2>3 DEF OpenInv
<1>2. OpenInv /\ [Next]_vars => OpenInv'
  <2> SUFFICES ASSUME OpenInv, [Next]_vars PROVE OpenInv'
    OBVIOUS
  <2>1. ASSUME NEW b \in Backends, Open(b) \/ Close(b) PROVE OpenInv'
    BY <2>1, ListPairedKeeps, UnpairKeeps, BindKeeps, AddressInUseKeeps, DialFailsKeeps,
       DialledKeeps, AcceptKeeps, AcceptTimesOutKeeps, CloseKeeps DEF Open
  <2>2. CASE UNCHANGED vars
    BY <2>2 DEF OpenInv, TypeOK, Dialling, SocketsReleased, BondsFollow, vars, bonds, servers
  <2> QED
    BY <2>1, <2>2, ConsoleKeeps DEF Next
<1> QED
  BY <1>1, <1>2

\* The invariant holds in every reachable state.
THEOREM Invariance == Spec => []OpenInv
BY Inductive, PTL DEF Spec

\* Type correctness; in particular only consoles are dialled.
THEOREM TypeCorrect == Spec => []TypeOK
<1>1. OpenInv => TypeOK
  BY DEF OpenInv
<1> QED
  BY <1>1, Invariance, PTL

\* No path through _open_l2cap leaves a socket behind, of any backend.
THEOREM NoSocketLeft == Spec => []SocketsReleased
<1>1. OpenInv => SocketsReleased
  BY DEF OpenInv
<1> QED
  BY <1>1, Invariance, PTL

\* Whoever waits for a console has dropped the bond of each that refused it.
THEOREM NoHalfBond == Spec => []RefusedBondsGone
<1>1. OpenInv => RefusedBondsGone
  BY AcceptingFacts DEF OpenInv, BondsFollow, RefusedBondsGone
<1> QED
  BY <1>1, Invariance, PTL

-----------------------------------------------------------------------------
(***************************************************************************)
(* What the sockets show of the adapter and of the consoles                *)
(***************************************************************************)
\* At most one backend waits in accept() at a time: two that listen would take
\* each other's channels.
OneListens ==
    \A b, d \in Backends :
        pc[b] \in Range(Accepting) /\ pc[d] \in Range(Accepting) => b = d

\* Each backend that is in accept() has the server socket of both PSMs, and a
\* PSM has one server socket.
THEOREM OneBackendListens == Spec => []OneListens
<1>1. OpenInv => OneListens
  <2> SUFFICES ASSUME OpenInv, NEW b \in Backends, NEW d \in Backends,
                      pc[b] \in Range(Accepting), pc[d] \in Range(Accepting)
               PROVE  b = d
    BY DEF OneListens
  <2>1. "control" \in Serving(pc[b]) /\ "control" \in Serving(pc[d])
    BY AcceptingFacts DEF Serving, Psms
  <2>2. server["control"] = b /\ server["control"] = d
    BY <2>1 DEF OpenInv, SocketsReleased, Psms
  <2> QED
    BY <2>2
<1> QED
  BY <1>1, Invariance, PTL

\* While the second channel is dialled, the first one is of the same console.
DialsOne ==
    \A b \in Backends : pc[b] = "interrupt" => socket[b]["control"] = Head(todo[b])

\* A step of one backend is about its own place, list and channels.
LEMMA OthersUntouched ==
    ASSUME OpenInv, NEW b \in Backends, Open(b) \/ Close(b), NEW d \in Backends \ {b}
    PROVE  pc'[d] = pc[d] /\ todo'[d] = todo[d] /\ socket'[d] = socket[d]
<1> USE DEF OpenInv, TypeOK
<1>1. pc \in [Backends -> Places] /\ todo \in [Backends -> Seq(Consoles)]
      /\ socket \in [Backends -> [Psms -> Consoles \cup {"none"}]]
  OBVIOUS
<1> USE DEF DialNext, Ends, Go, Connected, Disconnected, CloseDialled
<1>2. CASE ListPaired(b) \/ Unpair(b) \/ Bind(b) \/ AddressInUse(b) \/ Close(b)
  <2>1. CASE ListPaired(b)
    BY <1>1, <2>1 DEF ListPaired
  <2>2. CASE Unpair(b)
    BY <1>1, <2>2 DEF Unpair
  <2>3. CASE Bind(b) \/ AddressInUse(b)
    BY <1>1, <2>3 DEF Bind, AddressInUse
  <2>4. CASE Close(b)
    BY <1>1, <2>4 DEF Close
  <2> QED
    BY <1>2, <2>1, <2>2, <2>3, <2>4
<1>3. ASSUME NEW errno \in Errnos, DialFails(b, errno)
      PROVE  pc'[d] = pc[d] /\ todo'[d] = todo[d] /\ socket'[d] = socket[d]
  BY <1>1, <1>3 DEF DialFails
<1>4. ASSUME NEW psm \in Psms, Dialled(b, psm)
      PROVE  pc'[d] = pc[d] /\ todo'[d] = todo[d] /\ socket'[d] = socket[d]
  BY <1>1, <1>4 DEF Dialled
<1>5. ASSUME NEW psm \in Psms, Accept(b, psm) \/ AcceptTimesOut(b, psm)
      PROVE  pc'[d] = pc[d] /\ todo'[d] = todo[d] /\ socket'[d] = socket[d]
  BY <1>1, <1>5 DEF Accept, AcceptTimesOut
<1> QED
  BY <1>2, <1>3, <1>4, <1>5 DEF Open

\* Only the dial of the first channel leads to the dial of the second one, and
\* it leaves the console at the head of the list.
LEMMA DialsSecond ==
    ASSUME OpenInv, NEW b \in Backends, Open(b) \/ Close(b), pc'[b] = "interrupt"
    PROVE  socket'[b]["control"] = Head(todo'[b])
<1> USE DEF OpenInv
<1>1. pc \in [Backends -> Places]
  BY DEF TypeOK
<1>2. ASSUME NEW place, place # "interrupt", pc' = [pc EXCEPT ![b] = place]
      PROVE  FALSE
  BY <1>1, <1>2
<1>3. ~ListPaired(b)
  BY <1>2 DEF ListPaired, DialNext, Go
<1>4. ~Unpair(b)
  BY <1>2 DEF Unpair, DialNext, Go
<1>5. ~Bind(b) /\ ~AddressInUse(b) /\ ~Close(b)
  BY <1>2 DEF Bind, AddressInUse, Close, Ends, Go
<1>6. \A errno \in Errnos : ~DialFails(b, errno)
  BY <1>2 DEF DialFails, DialNext, Go
<1>7. \A psm \in Psms : ~Accept(b, psm) /\ ~AcceptTimesOut(b, psm)
  BY <1>2 DEF Accept, AcceptTimesOut, Ends, Go
<1>8. Dialled(b, "control")
  <2>1. ~Dialled(b, "interrupt")
    BY <1>2 DEF Dialled, Ends, Go
  <2> QED
    BY <1>3, <1>4, <1>5, <1>6, <1>7, <2>1 DEF Open, Psms
<1>9. socket' = [socket EXCEPT ![b]["control"] = Head(todo[b])] /\ todo' = todo
  BY <1>8 DEF Dialled, Connected
<1> QED
  BY <1>9 DEF TypeOK, Psms

\* Every step keeps it.
LEMMA DialsOneKept ==
    ASSUME OpenInv, DialsOne, [Next]_vars
    PROVE  DialsOne'
<1> SUFFICES ASSUME NEW d \in Backends, pc'[d] = "interrupt"
             PROVE  socket'[d]["control"] = Head(todo'[d])
  BY DEF DialsOne
<1>1. CASE pc'[d] = pc[d] /\ todo'[d] = todo[d] /\ socket'[d] = socket[d]
  BY <1>1 DEF DialsOne
<1>2. ASSUME NEW b \in Backends, Open(b) \/ Close(b)
      PROVE  socket'[d]["control"] = Head(todo'[d])
  BY <1>1, <1>2, OthersUntouched, DialsSecond
<1>3. ASSUME NEW c \in Consoles,
             Pair(c) \/ OpenControl(c) \/ OpenInterrupt(c) \/ Leave(c) \/ Forget(c)
      PROVE  UNCHANGED <<pc, todo, socket>>
  BY <1>3 DEF Pair, OpenControl, OpenInterrupt, Opens, Leave, Forget, Gone
<1> QED
  BY <1>1, <1>2, <1>3 DEF Next, vars

\* The two channels that a backend has dialled are of one console, however many
\* consoles it has tried before, and whatever they and the other backends do.
DialledOneConsole ==
    \A b \in Backends :
        pc[b] = "interrupt" /\ pc'[b] = "connected" =>
            socket'[b]["control"] = socket'[b]["interrupt"] /\ socket'[b]["control"] \in paired

\* A backend that has dialled connects both channels to one console, which is
\* paired. Of accepted channels the first is not true: the two accept() do not
\* compare their peers.
THEOREM OneConsoleDialled == Spec => [][DialledOneConsole]_vars
<1>1. Init => DialsOne
  BY DEF Init, DialsOne
<1>2. ASSUME OpenInv, DialsOne, [Next]_vars
      PROVE  [DialledOneConsole]_vars
  <2> SUFFICES ASSUME NEW b \in Backends, pc[b] = "interrupt", pc'[b] = "connected"
               PROVE  /\ socket'[b]["control"] = socket'[b]["interrupt"]
                      /\ socket'[b]["control"] \in paired
    BY DEF DialledOneConsole
  <2> USE <1>2 DEF OpenInv
  <2>1. pc \in [Backends -> Places] /\ pc'[b] # pc[b]
    BY DEF TypeOK
  <2>2. Open(b)
    <3>1. \A d \in Backends : Open(d) \/ Close(d) => d = b
      BY <2>1, OthersUntouched
    <3>2. ~Close(b)
      BY DEF Close
    <3>3. \A c \in Consoles :
             ~(Pair(c) \/ OpenControl(c) \/ OpenInterrupt(c) \/ Leave(c) \/ Forget(c))
      BY <2>1 DEF Pair, OpenControl, OpenInterrupt, Opens, Leave, Forget, Gone
    <3> QED
      BY <2>1, <3>1, <3>2, <3>3 DEF Next, vars
  <2>3. Dialled(b, "interrupt")
    <3>1. ASSUME NEW errno \in Errnos, DialFails(b, errno) PROVE FALSE
      BY <2>1, <3>1 DEF DialFails, DialNext, Go
    <3>2. \A psm \in Psms : ~Accept(b, psm) /\ ~AcceptTimesOut(b, psm)
      BY AcceptingFacts DEF Accept, AcceptTimesOut
    <3>3. ~ListPaired(b) /\ ~Unpair(b) /\ ~Bind(b) /\ ~AddressInUse(b)
      BY DEF ListPaired, Unpair, Bind, AddressInUse
    <3>4. ~Dialled(b, "control")
      BY DEF Dialled
    <3> QED
      BY <2>2, <3>1, <3>2, <3>3, <3>4 DEF Open, Psms
  <2>4. /\ socket' = [socket EXCEPT ![b]["interrupt"] = Head(todo[b])]
        /\ Head(todo[b]) \in paired
    BY <2>3 DEF Dialled, Connected
  <2>5. socket[b]["control"] = Head(todo[b])
    BY DEF DialsOne
  <2> QED
    BY <2>4, <2>5 DEF TypeOK, Psms
<1> QED
  BY <1>1, <1>2, Inductive, DialsOneKept, PTL DEF Spec

=============================================================================
