---------------------------- MODULE MCBlueZServices ----------------------------
(***************************************************************************)
(* Two backends on one adapter, one event ahead of the kernel's answer.    *)
(***************************************************************************)
EXTENDS BlueZServices

CONSTANTS b1, b2

=============================================================================
