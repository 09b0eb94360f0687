------------------------- MODULE MCControllerManager -------------------------
(***************************************************************************)
(* ControllerManager with two controllers and three requests. Two workers  *)
(* let connect() and disconnect() of one controller overlap, and a third   *)
(* job wait.                                                               *)
(***************************************************************************)
EXTENDS ControllerManager

CONSTANTS r1, r2, r3

=============================================================================
