----------------------------- MODULE MCReportCodec -----------------------------
(***************************************************************************)
(* All coordinates and one beyond each end; pairs of buttons and all of    *)
(* them; reads around the edges of the regions, up to more than a reply    *)
(* holds; reports around the shortest that has a subcommand.               *)
(***************************************************************************)
EXTENDS ReportCodec

AllCoordinates == -101 .. 101

PairsAndAll ==
    {{a, b} : a, b \in ALL_SWITCH_XBOX_BUTTONS} \cup {{}, ALL_SWITCH_XBOX_BUTTONS}

EdgeAddresses ==
    (\h602F .. \h6052) \cup (\h607E .. \h6082) \cup (\h6094 .. \h60AA) \cup {\h8000, \h8027}

=============================================================================
