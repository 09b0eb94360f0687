-------------------------- MODULE BlueZServicesProofs --------------------------
(***************************************************************************)
(* Proofs about BlueZServices, for any number of backends that prepare the *)
(* adapter and register at once: the two module locks keep them apart, so  *)
(* that what is made once per process is made once.                        *)
(***************************************************************************)
EXTENDS BlueZServices, TLAPS

USE ServicesAssumption DEF ServicesAssumption

\* The D-Bus objects, the locks and the adapter stay within their ranges,
\* whichever commands fail, hang or have no effect.
THEOREM TypeCorrect == Spec => []TypeOK
<1>1. Init => TypeOK
  <2> SUFFICES ASSUME Init PROVE TypeOK
    OBVIOUS
  <2> USE DEF Init
  <2>1. "idle" \in Pcs
    BY DEF Pcs
  <2>2. events \in [Backends -> 0 .. MaxEvents]
    OBVIOUS
  <2>3. fresh \in [Backends -> BOOLEAN] /\ refused \in [Backends -> BOOLEAN]
          /\ pc \in [Backends -> Pcs]
    BY <2>1
  <2> QED
    BY <2>2, <2>3 DEF TypeOK
<1>2. TypeOK /\ [Next]_vars => TypeOK'
  <2> SUFFICES ASSUME TypeOK, [Next]_vars PROVE TypeOK'
    OBVIOUS
  <2> USE DEF TypeOK, Services, Registrations, Go, Pcs, AdapterPcs, AgentPcs, ProfilePcs, ClassPcs,
              LockPcs, process, adapter, history
  <2>1. ASSUME NEW b \in Backends, ConnectCall(b) PROVE TypeOK'
    BY <2>1 DEF ConnectCall
  <2>2. ASSUME NEW b \in Backends, Step(b) PROVE TypeOK'
    <3> USE DEF AdapterUnchanged, ServiceUnchanged, Hci, After, MayResetClass, FreeLocks,
                First
    <3>1. CASE Up(b)                BY <3>1 DEF Up
    <3>2. CASE Piscan(b)            BY <3>2 DEF Piscan
    <3>3. CASE SetClass(b)          BY <3>3 DEF SetClass
    <3>4. CASE VerifyClass(b)       BY <3>4 DEF VerifyClass
    <3>5. CASE CommandIgnored(b)    BY <3>5 DEF CommandIgnored
    <3>6. CASE SendIoCapability(b)  BY <3>6 DEF SendIoCapability
    <3>7. CASE SkipEvent(b)         BY <3>7 DEF SkipEvent
    <3>8. CASE IoCapabilityReply(b) BY <3>8 DEF IoCapabilityReply
    <3>9. CASE GetAddress(b)        BY <3>9 DEF GetAddress
    <3>10. ASSUME NEW s \in Services, FindObject(b, s) PROVE TypeOK'
      BY <3>10 DEF FindObject
    <3>11. ASSUME NEW s \in Services, MakeObject(b, s) PROVE TypeOK'
      BY <3>11 DEF MakeObject
    <3>12. CASE FindLoop(b)            BY <3>12 DEF FindLoop
    <3>13. CASE MakeLoop(b)            BY <3>13 DEF MakeLoop
    <3>14. CASE RegisterAgent(b)       BY <3>14 DEF RegisterAgent
    <3>15. CASE RequestDefaultAgent(b) BY <3>15 DEF RequestDefaultAgent
    <3>16. CASE RegisterProfile(b)     BY <3>16 DEF RegisterProfile
    <3>17. CASE ClassAtLast(b)         BY <3>17 DEF ClassAtLast
    <3>18. CASE Raises(b)
      BY <3>18 DEF Raises, Fails, MayHaveWorked
    <3> QED
      BY <2>2, <3>1, <3>2, <3>3, <3>4, <3>5, <3>6, <3>7, <3>8, <3>9, <3>10, <3>11,
         <3>12, <3>13, <3>14, <3>15, <3>16, <3>17, <3>18 DEF Step
  <2>3. ASSUME NEW b \in Backends, Acquire(b) PROVE TypeOK'
    BY <2>3 DEF Acquire, AcquireLock, ServiceUnchanged, First, LockOf
  <2>4. ASSUME NEW b \in Backends, Unregister(b) PROVE TypeOK'
    BY <2>4 DEF Unregister
  <2>5. CASE BluetoothdRestarts
    BY <2>5 DEF BluetoothdRestarts, MayResetClass
  <2>6. CASE UNCHANGED vars
    BY <2>6 DEF vars
  <2> QED
    BY <2>1, <2>2, <2>3, <2>4, <2>5, <2>6 DEF Next
<1> QED
  BY <1>1, <1>2, PTL DEF Spec

\* Whoever is between the acquisition of a lock and its release has it.
LockIsHeld ==
    \A b \in Backends :
        /\ pc[b] \in AgentPcs => lock["agent"] = b
        /\ pc[b] \in ProfilePcs => lock["profile"] = b

\* MadeOnce needs LockIsHeld: the object that was missing when a backend
\* looked can only be made by another that has the same lock.
Registering == TypeOK /\ LockIsHeld /\ MadeOnce

\* Two backends that connect at once never make a D-Bus object or the main loop
\* twice, and each holds the lock of the service it registers, however many
\* they are and whatever fails under the locks.
THEOREM NothingIsMadeTwice == Spec => [](LockIsHeld /\ MadeOnce)
<1>1. TypeOK /\ Init => Registering
  BY DEF Registering, Init, LockIsHeld, MadeOnce, AgentPcs, ProfilePcs
<1>2. TypeOK' /\ Registering /\ [Next]_vars => Registering'
  <2> SUFFICES ASSUME TypeOK', Registering, [Next]_vars PROVE (LockIsHeld /\ MadeOnce)'
    BY DEF Registering
  <2> USE DEF Registering, TypeOK, LockIsHeld, MadeOnce, Services, Go, AgentPcs,
              ProfilePcs, process, adapter, history
  <2>1. ASSUME NEW b \in Backends, ConnectCall(b) PROVE (LockIsHeld /\ MadeOnce)'
    BY <2>1 DEF ConnectCall
  <2>2. ASSUME NEW b \in Backends, Step(b) PROVE (LockIsHeld /\ MadeOnce)'
    <3> USE DEF AdapterUnchanged, ServiceUnchanged, Hci, After, FreeLocks, First
    <3>1. CASE Up(b)                BY <3>1 DEF Up
    <3>2. CASE Piscan(b)            BY <3>2 DEF Piscan
    <3>3. CASE SetClass(b)          BY <3>3 DEF SetClass
    <3>4. CASE VerifyClass(b)       BY <3>4 DEF VerifyClass
    <3>5. CASE CommandIgnored(b)    BY <3>5 DEF CommandIgnored
    <3>6. CASE SendIoCapability(b)  BY <3>6 DEF SendIoCapability
    <3>7. CASE SkipEvent(b)         BY <3>7 DEF SkipEvent
    <3>8. CASE IoCapabilityReply(b) BY <3>8 DEF IoCapabilityReply
    <3>9. CASE GetAddress(b)        BY <3>9 DEF GetAddress
    <3>10. ASSUME NEW s \in Services, FindObject(b, s) PROVE (LockIsHeld /\ MadeOnce)'
      BY <3>10 DEF FindObject
    <3>11. ASSUME NEW s \in Services, MakeObject(b, s) PROVE (LockIsHeld /\ MadeOnce)'
      BY <3>11 DEF MakeObject
    <3>12. CASE FindLoop(b)            BY <3>12 DEF FindLoop
    <3>13. CASE MakeLoop(b)            BY <3>13 DEF MakeLoop
    <3>14. CASE RegisterAgent(b)       BY <3>14 DEF RegisterAgent
    <3>15. CASE RequestDefaultAgent(b) BY <3>15 DEF RequestDefaultAgent
    <3>16. CASE RegisterProfile(b)     BY <3>16 DEF RegisterProfile
    <3>17. CASE ClassAtLast(b)         BY <3>17 DEF ClassAtLast
    <3>18. CASE Raises(b)
      BY <3>18 DEF Raises, Fails
    <3> QED
      BY <2>2, <3>1, <3>2, <3>3, <3>4, <3>5, <3>6, <3>7, <3>8, <3>9, <3>10, <3>11,
         <3>12, <3>13, <3>14, <3>15, <3>16, <3>17, <3>18 DEF Step
  <2>3. ASSUME NEW b \in Backends, Acquire(b) PROVE (LockIsHeld /\ MadeOnce)'
    BY <2>3 DEF Acquire, AcquireLock, ServiceUnchanged, First, LockOf
  <2>4. ASSUME NEW b \in Backends, Unregister(b) PROVE (LockIsHeld /\ MadeOnce)'
    BY <2>4 DEF Unregister
  <2>5. CASE BluetoothdRestarts
    BY <2>5 DEF BluetoothdRestarts
  <2>6. CASE UNCHANGED vars
    BY <2>6 DEF vars
  <2> QED
    BY <2>1, <2>2, <2>3, <2>4, <2>5, <2>6 DEF Next
<1>3. Registering => LockIsHeld /\ MadeOnce
  BY DEF Registering
<1> QED
  BY TypeCorrect, <1>1, <1>2, <1>3, PTL DEF Spec

(***************************************************************************)
(* Listeners can be reached                                                *)
(***************************************************************************)
\* The places behind the registration of the profile, the request to be the default
\* agent, the registration of the agent, and the command that makes the adapter
\* discoverable.
BehindProfile == ClassPcs \cup {"listening"}
BehindDefault == {"lockProfile"} \cup ProfilePcs \cup BehindProfile
BehindAgent == {"default"} \cup BehindDefault
BehindScan == Pcs \ {"idle", "failed", "up", "piscan"}

\* What a connect has done is still so at the places behind it: for the objects
\* of this process always, for what bluetoothd keeps until it restarts.
DoneSoFar ==
    \A b \in Backends :
        /\ pc[b] \in {"findLoop", "makeLoop", "registerAgent"} \cup BehindAgent
             => object["agent"]
        /\ pc[b] \in {"registerAgent"} \cup BehindAgent => mainloop
        /\ pc[b] \in {"registerProfile"} \cup BehindProfile => object["profile"]
        /\ fresh[b] /\ pc[b] \in BehindAgent => registered["agent"]
        /\ fresh[b] /\ ~refused[b] /\ pc[b] \in BehindDefault => registered["default"]
        /\ fresh[b] /\ pc[b] \in BehindProfile => registered["profile"]
        /\ fresh[b] /\ pc[b] \in BehindScan /\ spoiled # "ignored" => scan

\* The last backend to leave the places where the class may be reset applies it
\* for good, unless it fails.
ClassSettled ==
    /\ spoiled = "no"
    /\ \E b \in Backends : pc[b] = "listening" /\ fresh[b]
    /\ \A d \in Backends : pc[d] \notin Unsettled
    => class = "gamepad"

LEMMA DoneSoFarKept ==
    ASSUME TypeOK, DoneSoFar, [Next]_vars PROVE DoneSoFar'
<1> USE DEF TypeOK, DoneSoFar, Services, Registrations, Go, Pcs, AdapterPcs, AgentPcs, ProfilePcs,
            ClassPcs, LockPcs, BehindProfile, BehindDefault, BehindAgent, BehindScan,
            process, adapter, history
<1>1. ASSUME NEW b \in Backends, ConnectCall(b) PROVE DoneSoFar'
  BY <1>1 DEF ConnectCall
<1>2. ASSUME NEW b \in Backends, Step(b) PROVE DoneSoFar'
  <2> USE DEF AdapterUnchanged, ServiceUnchanged, Hci, After, MayResetClass, FreeLocks,
              First
  <2>1. CASE Up(b)                BY <2>1 DEF Up
  <2>2. CASE Piscan(b)            BY <2>2 DEF Piscan
  <2>3. CASE SetClass(b)          BY <2>3 DEF SetClass
  <2>4. CASE VerifyClass(b)       BY <2>4 DEF VerifyClass
  <2>5. CASE CommandIgnored(b)    BY <2>5 DEF CommandIgnored
  <2>6. CASE SendIoCapability(b)  BY <2>6 DEF SendIoCapability
  <2>7. CASE SkipEvent(b)         BY <2>7 DEF SkipEvent
  <2>8. CASE IoCapabilityReply(b) BY <2>8 DEF IoCapabilityReply
  <2>9. CASE GetAddress(b)        BY <2>9 DEF GetAddress
  <2>10. ASSUME NEW s \in Services, FindObject(b, s) PROVE DoneSoFar'
    BY <2>10 DEF FindObject
  <2>11. ASSUME NEW s \in Services, MakeObject(b, s) PROVE DoneSoFar'
    BY <2>11 DEF MakeObject
  <2>12. CASE FindLoop(b)            BY <2>12 DEF FindLoop
  <2>13. CASE MakeLoop(b)            BY <2>13 DEF MakeLoop
  <2>14. CASE RegisterAgent(b)       BY <2>14 DEF RegisterAgent
  <2>15. CASE RequestDefaultAgent(b) BY <2>15 DEF RequestDefaultAgent
  <2>16. CASE RegisterProfile(b)     BY <2>16 DEF RegisterProfile
  <2>17. CASE ClassAtLast(b)         BY <2>17 DEF ClassAtLast
  <2>18. CASE Raises(b)
    BY <2>18 DEF Raises, Fails, MayHaveWorked
  <2> QED
    BY <1>2, <2>1, <2>2, <2>3, <2>4, <2>5, <2>6, <2>7, <2>8, <2>9, <2>10, <2>11,
       <2>12, <2>13, <2>14, <2>15, <2>16, <2>17, <2>18 DEF Step
<1>3. ASSUME NEW b \in Backends, Acquire(b) PROVE DoneSoFar'
  BY <1>3 DEF Acquire, AcquireLock, ServiceUnchanged, First, LockOf
<1>4. ASSUME NEW b \in Backends, Unregister(b) PROVE DoneSoFar'
  BY <1>4 DEF Unregister
<1>5. CASE BluetoothdRestarts
  BY <1>5 DEF BluetoothdRestarts, MayResetClass
<1>6. CASE UNCHANGED vars
  BY <1>6 DEF vars
<1> QED
  BY <1>1, <1>2, <1>3, <1>4, <1>5, <1>6 DEF Next

\* A step that ends at an unsettled place is none to settle the class.
LEMMA UnsettledStep ==
    ASSUME TypeOK, NEW b \in Backends, NEW place \in Unsettled, Go(b, place)
    PROVE  ClassSettled'
BY DEF TypeOK, Go, ClassSettled

LEMMA ClassSettledKept ==
    ASSUME TypeOK, ClassSettled, [Next]_vars PROVE ClassSettled'
<1>1. ASSUME NEW b \in Backends, ConnectCall(b) PROVE ClassSettled'
  BY <1>1, UnsettledStep DEF ConnectCall, Unsettled, Pcs, AdapterPcs
<1>2. ASSUME NEW b \in Backends, Step(b) PROVE ClassSettled'
  <2>1. CASE ClassAtLast(b)
    BY <2>1 DEF ClassAtLast, ClassSettled
  <2>2. CASE CommandIgnored(b)
    BY <2>2 DEF CommandIgnored, ClassSettled
  <2>3. CASE Raises(b)
    <3>1. pc[b] \in Unsettled /\ Fails(b)
      BY <2>3 DEF Raises, Unsettled
    <3>2. spoiled' # "no"
      BY <3>1 DEF Fails
    <3> QED
      BY <3>2 DEF ClassSettled
  <2>4. CASE SkipEvent(b)
    BY <2>4 DEF SkipEvent, ClassSettled, adapter, history
  <2>5. CASE ~(ClassAtLast(b) \/ CommandIgnored(b) \/ Raises(b) \/ SkipEvent(b))
    <3>1. PICK place \in Unsettled : Go(b, place)
      <4> USE DEF Unsettled, Pcs, AdapterPcs, AgentPcs, ProfilePcs, ClassPcs, LockPcs
      <4>1. CASE Up(b) \/ Piscan(b) \/ SetClass(b)
        BY <4>1 DEF Up, Piscan, SetClass, Hci, After
      <4>2. CASE VerifyClass(b) \/ SendIoCapability(b) \/ IoCapabilityReply(b)
                   \/ GetAddress(b)
        BY <4>2 DEF VerifyClass, SendIoCapability, IoCapabilityReply, GetAddress
      <4>3. ASSUME NEW s \in Services, FindObject(b, s) \/ MakeObject(b, s)
            PROVE  \E place \in Unsettled : Go(b, place)
        BY <4>3 DEF FindObject, MakeObject, Services, TypeOK
      <4>4. CASE FindLoop(b) \/ MakeLoop(b) \/ RegisterAgent(b)
                   \/ RequestDefaultAgent(b) \/ RegisterProfile(b)
        BY <4>4 DEF FindLoop, MakeLoop, RegisterAgent, RequestDefaultAgent,
                    RegisterProfile
      <4> QED
        BY <1>2, <2>5, <4>1, <4>2, <4>3, <4>4 DEF Step
    <3> QED
      BY <3>1, UnsettledStep
  <2> QED
    BY <2>1, <2>2, <2>3, <2>4, <2>5
<1>3. ASSUME NEW b \in Backends, Acquire(b) PROVE ClassSettled'
  <2>1. \E place \in {"findAgent", "findProfile"} : Go(b, place)
    BY <1>3 DEF Acquire, AcquireLock, First
  <2> QED
    BY <2>1, UnsettledStep DEF Unsettled, Pcs, AgentPcs, ProfilePcs
<1>4. ASSUME NEW b \in Backends, Unregister(b) PROVE ClassSettled'
  BY <1>4 DEF Unregister, Go, ClassSettled, TypeOK, Unsettled, adapter, history
<1>5. CASE BluetoothdRestarts
  BY <1>5 DEF BluetoothdRestarts, ClassSettled
<1>6. CASE UNCHANGED vars
  BY <1>6 DEF vars, ClassSettled, adapter, history
<1> QED
  BY <1>1, <1>2, <1>3, <1>4, <1>5, <1>6 DEF Next

\* A backend that waits for a console can be reached, and is seen as a gamepad
\* once the others have settled, whatever they start, fail or end meanwhile.
THEOREM ReachableWhileListening == Spec => []ListenersAreReachable
<1>1. Init => DoneSoFar /\ ClassSettled
  BY DEF Init, DoneSoFar, ClassSettled, BehindProfile, BehindDefault, BehindAgent, BehindScan,
         ProfilePcs, ClassPcs
<1>2. TypeOK /\ DoneSoFar /\ ClassSettled /\ [Next]_vars => (DoneSoFar /\ ClassSettled)'
  BY DoneSoFarKept, ClassSettledKept
<1>3. DoneSoFar /\ ClassSettled => ListenersAreReachable
  <2> SUFFICES ASSUME DoneSoFar, ClassSettled,
                      NEW b \in Backends, pc[b] = "listening", fresh[b]
               PROVE  /\ mainloop /\ \A s \in Services : object[s] /\ registered[s]
                      /\ ~refused[b] => registered["default"]
                      /\ spoiled = "no" /\ (\A d \in Backends : pc[d] \notin Unsettled)
                           => class = "gamepad" /\ scan
    BY DEF ListenersAreReachable
  <2>1. /\ pc[b] \in BehindProfile /\ pc[b] \in BehindDefault
        /\ pc[b] \in BehindAgent /\ pc[b] \in BehindScan
    BY DEF BehindProfile, BehindDefault, BehindAgent, BehindScan, Pcs
  <2> QED
    BY <2>1 DEF DoneSoFar, ClassSettled, Services
<1> QED
  BY <1>1, <1>2, <1>3, TypeCorrect, PTL DEF Spec

=============================================================================
