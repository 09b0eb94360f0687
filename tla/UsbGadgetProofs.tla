---------------------------- MODULE UsbGadgetProofs ----------------------------
(***************************************************************************)
(* Proofs about UsbGadget, for any number of controllers that share the    *)
(* gadget, whatever earlier servers have left in configfs.                 *)
(***************************************************************************)
EXTENDS UsbGadget, TLAPS

\* The items setup() goes through, one by one.
LEMMA OrderFacts ==
    /\ Len(Order) = 4
    /\ Order[1] = "device" /\ Order[2] = "config"
    /\ Order[3] = "function" /\ Order[4] = "desc"
    /\ Items = {"device", "config", "function", "desc"}
<1>1. /\ Len(Order) = 4
      /\ Order[1] = "device" /\ Order[2] = "config"
      /\ Order[3] = "function" /\ Order[4] = "desc"
  BY DEF Order
<1>2. 1 .. 4 = {1, 2, 3, 4}
  OBVIOUS
<1> QED
  BY <1>1, <1>2 DEF Items

\* The tree, the UDC file and the threads stay within their ranges.
THEOREM TypeCorrect == Spec => []TypeOK
<1> USE OrderFacts DEF TypeOK, Frozen, Busy
<1>1. Init => TypeOK
  <2> SUFFICES ASSUME Init PROVE TypeOK
    OBVIOUS
  <2>1. "idle" \in Pcs
    BY DEF Pcs
  <2>2. old \subseteq Frozen /\ leaked \in BOOLEAN
    BY DEF Init
  <2> QED
    BY <2>1, <2>2 DEF Init
<1>2. TypeOK /\ [Next]_vars => TypeOK'
  <2> SUFFICES ASSUME TypeOK, [Next]_vars PROVE TypeOK'
    OBVIOUS
  <2> USE DEF Go, Fails, AccessFails, Item, Pcs, SetupPcs, SessionPcs, TeardownPcs, configfs, history
  <2>1. ASSUME NEW c \in Controllers, ConnectCall(c) PROVE TypeOK'
    <3>1. shared' \in [Controllers -> BOOLEAN]
      BY <2>1 DEF ConnectCall
    <3>2. at' \in [Controllers -> 1 .. Len(Order)] /\ pc' \in [Controllers -> Pcs]
      BY <2>1 DEF ConnectCall
    <3> QED
      BY <2>1, <3>1, <3>2 DEF ConnectCall
  <2>2. ASSUME NEW c \in Controllers, Step(c) PROVE TypeOK'
    <3> USE DEF NextItem
    <3>1. CASE MakeDir(c)     BY <3>1 DEF MakeDir
    <3>2. CASE Compare(c)     BY <3>2 DEF Compare
    <3>3. CASE SetAttr(c)     BY <3>3 DEF SetAttr
    <3>4. CASE IsLink(c)      BY <3>4 DEF IsLink
    <3>5. CASE Symlink(c)     BY <3>5 DEF Symlink
    <3>6. CASE CurrentUdc(c)  BY <3>6, ZenonT(40) DEF CurrentUdc
    <3>7. CASE WriteUdc(c)    BY <3>7 DEF WriteUdc
    <3>8. CASE WaitForHidg(c) BY <3>8 DEF WaitForHidg
    <3>9. CASE OpenHidg(c)    BY <3>9 DEF OpenHidg
    <3>10. CASE Handshake(c)  BY <3>10 DEF Handshake
    <3>11. CASE Look(c)       BY <3>11 DEF Look
    <3>12. CASE Release(c)    BY <3>12 DEF Release
    <3> QED
      BY <2>2, <3>1, <3>2, <3>3, <3>4, <3>5, <3>6, <3>7, <3>8, <3>9, <3>10, <3>11,
         <3>12 DEF Step
  <2>3. ASSUME NEW c \in Controllers, DisconnectCall(c) PROVE TypeOK'
    BY <2>3 DEF DisconnectCall
  <2>4. CASE ServerStops
    BY <2>4 DEF ServerStops
  <2>5. CASE UNCHANGED vars
    BY <2>5 DEF vars
  <2> QED
    BY <2>1, <2>2, <2>3, <2>4, <2>5 DEF Next
<1> QED
  BY <1>1, <1>2, PTL DEF Spec

(***************************************************************************)
(* Who keeps the gadget bound                                              *)
(***************************************************************************)

\* A gadget that is bound has a controller that will unbind it.
BoundIsUsed ==
    udc # "none" /\ ~leaked =>
        \E c \in Controllers :
            pc[c] \in {"wait", "open", "handshake", "connected"} \cup TeardownPcs

\* A controller that shares with nobody is alone, and from bind() on bound.
AloneIsBound ==
    \A c \in Controllers : ~shared[c] =>
        /\ pc[c] # "idle" => \A d \in Controllers \ {c} : pc[d] = "idle"
        /\ pc[c] \in {"wait", "open", "handshake", "connected"} => udc = "ours"

Binding == TypeOK /\ BoundIsUsed /\ AloneIsBound

\* The gadget rests unbound when all controllers are gone, and one that never
\* met another stays plugged in while it is connected, however many share it.
THEOREM GadgetFollowsItsUsers == Spec => []PluggedWhileInUse
<1> USE DEF Binding, BoundIsUsed, AloneIsBound
<1>1. TypeOK /\ Init => Binding
  BY DEF Init, TeardownPcs
<1>2. TypeOK' /\ Binding /\ [Next]_vars => Binding'
  <2> SUFFICES ASSUME TypeOK', Binding, [Next]_vars
               PROVE BoundIsUsed' /\ AloneIsBound'
    OBVIOUS
  <2> USE DEF TypeOK, Go, Fails, AccessFails, TeardownPcs, configfs, history
  <2>1. ASSUME NEW c \in Controllers, ConnectCall(c) PROVE BoundIsUsed' /\ AloneIsBound'
    <3>1. /\ pc[c] = "idle" /\ pc'[c] \in {"make", "look"}
          /\ \A d \in Controllers \ {c} : pc'[d] = pc[d]
          /\ udc' = udc /\ leaked' = leaked
      BY <2>1 DEF ConnectCall
    <3>2. /\ ~shared'[c] => \A d \in Controllers \ {c} : pc[d] = "idle"
          /\ \A d \in Controllers \ {c} : ~shared'[d] => ~shared[d] /\ pc[d] = "idle"
      BY <2>1 DEF ConnectCall
    <3>3. BoundIsUsed'
      BY <3>1
    <3>4. AloneIsBound'
      BY <3>1, <3>2
    <3> QED
      BY <3>3, <3>4
  <2>2. ASSUME NEW c \in Controllers, Step(c) PROVE BoundIsUsed' /\ AloneIsBound'
    <3> USE DEF NextItem
    <3>1. CASE MakeDir(c)
      <4> /\ pc[c] = "make" /\ UNCHANGED <<udc, history>>
          /\ \E where \in {"compare", "oserror"} : Go(c, where)
        BY <3>1 DEF MakeDir
      <4> QED
        OBVIOUS
    <3>2. CASE Compare(c)     BY <3>2 DEF Compare
    <3>3. CASE SetAttr(c)
      <4> /\ pc[c] = "write" /\ UNCHANGED <<udc, history>>
          /\ \E where \in {"make", "compare", "islink", "oserror", "look"} : Go(c, where)
        BY <3>3 DEF SetAttr
      <4> QED
        OBVIOUS
    <3>4. CASE IsLink(c)      BY <3>4 DEF IsLink
    <3>5. CASE Symlink(c)     BY <3>5 DEF Symlink
    <3>6. CASE CurrentUdc(c)  BY <3>6, ZenonT(40) DEF CurrentUdc
    <3>7. CASE WriteUdc(c)    BY <3>7 DEF WriteUdc
    <3>8. CASE WaitForHidg(c) BY <3>8 DEF WaitForHidg
    <3>9. CASE OpenHidg(c)    BY <3>9 DEF OpenHidg
    <3>10. CASE Handshake(c)  BY <3>10 DEF Handshake
    <3>11. CASE Look(c)       BY <3>11 DEF Look
    <3>12. CASE Release(c)    BY <3>12 DEF Release
    <3> QED
      BY <2>2, <3>1, <3>2, <3>3, <3>4, <3>5, <3>6, <3>7, <3>8, <3>9, <3>10, <3>11,
         <3>12 DEF Step
  <2>3. ASSUME NEW c \in Controllers, DisconnectCall(c)
        PROVE BoundIsUsed' /\ AloneIsBound'
    BY <2>3 DEF DisconnectCall
  <2>4. CASE ServerStops
    BY <2>4 DEF ServerStops
  <2>5. CASE UNCHANGED vars
    BY <2>5 DEF vars
  <2> QED
    BY <2>1, <2>2, <2>3, <2>4, <2>5 DEF Next
<1>3. Binding => PluggedWhileInUse
  BY DEF PluggedWhileInUse, TeardownPcs
<1> QED
  BY TypeCorrect, <1>1, <1>2, <1>3, PTL DEF Spec

(***************************************************************************)
(* What setup() leaves                                                     *)
(***************************************************************************)

\* An item holds our value, but for a descriptor that was linked with another.
Configured(i) == value[i] = "ours" \/ (i = "desc" /\ i \in old)

\* A function that is linked is all there, and what it holds is ours or old.
LinkedIsWhole ==
    /\ linked => \A i \in Frozen : value[i] # "absent" /\ (value[i] = "other" => i \in old)
    /\ \A i \in old : value[i] # "absent"

\* setup() leaves behind it only items that are configured.
SetupSoFar ==
    \A c \in Controllers :
        /\ pc[c] \in {"make", "compare", "write"} =>
             \A n \in 1 .. at[c] - 1 : Configured(Order[n])
        /\ pc[c] \in {"islink", "symlink"} \cup SessionPcs => \A i \in Items : Configured(i)
        /\ pc[c] \in SessionPcs => linked

Setup == TypeOK /\ LinkedIsWhole /\ SetupSoFar

\* setup() completes the gadget from any state of configfs, whoever else sets
\* it up meanwhile, and no write fails but of a function linked with old values.
THEOREM SetupAlwaysCompletes == Spec => SetupIsIdempotent
<1> USE OrderFacts DEF Setup, Configured, LinkedIsWhole, SetupSoFar, Frozen, Busy
<1>1. TypeOK /\ Init => Setup
  BY DEF Init, SessionPcs
<1>2. TypeOK' /\ Setup /\ [Next]_vars => Setup'
  <2> SUFFICES ASSUME TypeOK', Setup, [Next]_vars PROVE LinkedIsWhole' /\ SetupSoFar'
    OBVIOUS
  <2> USE DEF TypeOK, Go, Fails, AccessFails, Item, SessionPcs, configfs, history
  <2>1. ASSUME NEW c \in Controllers, ConnectCall(c) PROVE LinkedIsWhole' /\ SetupSoFar'
    BY <2>1 DEF ConnectCall
  <2>2. ASSUME NEW c \in Controllers, Step(c) PROVE LinkedIsWhole' /\ SetupSoFar'
    <3> USE DEF NextItem
    <3>1. CASE MakeDir(c)
      <4>1. /\ pc[c] = "make" /\ UNCHANGED <<linked, old, at>>
            /\ \E where \in {"compare", "oserror"} : Go(c, where)
        BY <3>1 DEF MakeDir
      <4>2. \A i \in Items : /\ value[i] # "absent" => value'[i] = value[i]
                             /\ value[i] = "absent" => value'[i] \in {"absent", "other"}
        BY <3>1 DEF MakeDir
      <4>3. LinkedIsWhole'
        BY <4>1, <4>2
      <4>4. \A i \in Items : Configured(i) => Configured(i)'
        BY <4>1, <4>2
      <4>5. \A d \in Controllers : \A n \in 1 .. at[d] - 1 : Order[n] \in Items
        OBVIOUS
      <4>6. SetupSoFar'
        <5> SUFFICES ASSUME NEW d \in Controllers
                     PROVE /\ pc'[d] \in {"make", "compare", "write"} =>
                                \A n \in 1 .. at'[d] - 1 : Configured(Order[n])'
                           /\ pc'[d] \in {"islink", "symlink"} \cup SessionPcs =>
                                \A i \in Items : Configured(i)'
                           /\ pc'[d] \in SessionPcs => linked'
          OBVIOUS
        <5>1. pc'[d] = pc[d] \/ (d = c /\ pc[d] = "make" /\ pc'[d] \in {"compare", "oserror"})
          BY <4>1
        <5> HIDE DEF Configured
        <5> QED
          BY <4>1, <4>4, <4>5, <5>1
      <4> QED
        BY <4>3, <4>6
    <3>2. CASE Compare(c)     BY <3>2 DEF Compare
    <3>3. CASE SetAttr(c)     BY <3>3 DEF SetAttr
    <3>4. CASE IsLink(c)      BY <3>4 DEF IsLink
    <3>5. CASE Symlink(c)     BY <3>5 DEF Symlink
    <3>6. CASE CurrentUdc(c)  BY <3>6 DEF CurrentUdc
    <3>7. CASE WriteUdc(c)    BY <3>7 DEF WriteUdc
    <3>8. CASE WaitForHidg(c) BY <3>8 DEF WaitForHidg
    <3>9. CASE OpenHidg(c)    BY <3>9 DEF OpenHidg
    <3>10. CASE Handshake(c)  BY <3>10 DEF Handshake
    <3>11. CASE Look(c)       BY <3>11 DEF Look
    <3>12. CASE Release(c)    BY <3>12 DEF Release
    <3> QED
      BY <2>2, <3>1, <3>2, <3>3, <3>4, <3>5, <3>6, <3>7, <3>8, <3>9, <3>10, <3>11,
         <3>12 DEF Step
  <2>3. ASSUME NEW c \in Controllers, DisconnectCall(c) PROVE LinkedIsWhole' /\ SetupSoFar'
    BY <2>3 DEF DisconnectCall
  <2>4. CASE ServerStops
    BY <2>4 DEF ServerStops
  <2>5. CASE UNCHANGED vars
    BY <2>5 DEF vars
  <2> QED
    BY <2>1, <2>2, <2>3, <2>4, <2>5 DEF Next
<1>3. Setup => \A c \in Controllers : pc[c] \in SessionPcs =>
                 linked /\ \A i \in Items \ (old \cap {"desc"}) : value[i] = "ours"
  OBVIOUS
<1>4. Setup /\ [Next]_vars =>
        [\A c \in Controllers : pc[c] = "write" /\ pc'[c] = "look" => "function" \in old]_vars
  <2> SUFFICES ASSUME Setup, [Next]_vars, NEW c \in Controllers,
                      pc[c] = "write", pc'[c] = "look"
               PROVE "function" \in old
    OBVIOUS
  <2> USE DEF TypeOK, Go
  <2>1. SetAttr(c)
    <3> USE DEF Fails, AccessFails
    <3>1. PICK d \in Controllers : ConnectCall(d) \/ Step(d) \/ DisconnectCall(d)
      BY DEF Next, vars, ServerStops
    <3>2. ~ConnectCall(d) /\ ~DisconnectCall(d)
      BY DEF ConnectCall, DisconnectCall
    <3>3. d = c
      <4> SUFFICES ASSUME d # c PROVE pc'[c] = pc[c]
        OBVIOUS
      <4>1. \E where : Go(d, where)
        BY <3>1, <3>2, ZenonT(40)
           DEF Step, MakeDir, Compare, SetAttr, NextItem, IsLink, Symlink,
               CurrentUdc, WriteUdc, WaitForHidg, OpenHidg, Handshake, Look, Release
      <4> QED
        BY <4>1
    <3> QED
      BY <3>1, <3>2, <3>3 DEF Step, MakeDir, Compare, IsLink, Symlink, CurrentUdc, WriteUdc,
         WaitForHidg, OpenHidg, Handshake, Look, Release
  <2>2. linked /\ Item(c) \in Frozen /\ Item(c) # "desc" /\ value[Item(c)] # "ours"
    BY <2>1 DEF SetAttr, NextItem, Fails, AccessFails, Item
  <2> QED
    BY <2>2
<1> QED
  BY TypeCorrect, <1>1, <1>2, <1>3, <1>4, PTL DEF Spec, SetupIsIdempotent

=============================================================================
