------------------------- MODULE MCSwitchUSBProtocol -------------------------
(***************************************************************************)
(* Both transports: over USB the conversation begins with the command      *)
(* phase, over Bluetooth with the handshake itself.                        *)
(***************************************************************************)
EXTENDS SwitchUSBProtocol

MixedReports == {"command", "disable", "lights1", "vibration", "unheard", "rumble"}
UsbReports == Commands \cup {"lights1", "vibration", "rumble"}

BluetoothInit ==
    /\ Init
    /\ seenAny = FALSE /\ phaseClock = 0 /\ over = "no"
    /\ commanded = 0 /\ obeyed = 0

EitherSpec == (UsbInit \/ BluetoothInit) /\ [][UsbNext]_usbVars /\ UsbFairness

=============================================================================
