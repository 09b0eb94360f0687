------------------------------ MODULE MCUsbGadget ------------------------------
(***************************************************************************)
(* Two USB controllers share the gadget; a third would be a repetition of  *)
(* either of them.                                                         *)
(***************************************************************************)
EXTENDS UsbGadget

CONSTANTS c1, c2

=============================================================================
