-------------------------- MODULE MCSwitchUSBBackend --------------------------
(***************************************************************************)
(* SwitchUSBBackend with one press request.                                *)
(***************************************************************************)
EXTENDS SwitchUSBBackend

CONSTANT p1

=============================================================================
