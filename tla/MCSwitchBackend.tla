---------------------------- MODULE MCSwitchBackend ----------------------------
(***************************************************************************)
(* SwitchBackend with one press request, which meets the L+R press of      *)
(* connect(), the keep-alive thread and disconnect().                      *)
(***************************************************************************)
EXTENDS SwitchBackend

CONSTANT p1

=============================================================================
