---------------------------- MODULE MCInputReport ----------------------------
(***************************************************************************)
(* InputReport with two buttons, two stick positions and one press next to *)
(* the other calls. The timer wraps early, so that wrapping happens.       *)
(***************************************************************************)
EXTENDS InputReport, TLC

CONSTANTS A, B, center, pushed, p1

TwoPositions == {center, pushed}
PressOneButton == p1 :> {A}
PositiveOrNegative == {-1, 1}
TwoFrames ==
    {[buttons |-> {A}, left |-> pushed, right |-> pushed],
     [buttons |-> {B}, left |-> center, right |-> center]}

=============================================================================
