------------------------------ MODULE StickCodec ------------------------------
(***************************************************************************)
(* How a stick position travels: two coordinates of the API become three   *)
(* bytes of a report, and the console makes two shares of its range out of *)
(* them, with the calibration it has read from this controller. Strings of *)
(* bytes are functions; the indices are those of their use.                *)
(***************************************************************************)
EXTENDS Integers, Sequences

Byte == 0 .. 255

\* Faulty variant: the high nibble of h and the low one of v are swapped.
EncodeStick_Swapped(h, v) ==
    <<h % 256, (h \div 256) * 16 + (v % 16), v \div 16>>

\* Two values of 12 bits in three bytes.
EncodeStick(h, v) ==
    <<h % 256, (v % 16) * 16 + (h \div 256), v \div 16>>

STICK_CAL ==
    [left  |-> [h_center |-> \h86F, h_min |-> \h282, h_max |-> \hE29,
                v_center |-> \h77C, v_min |-> \h1C3, v_max |-> \hDAB],
     right |-> [h_center |-> \h816, h_min |-> \h224, h_max |-> \hD9C,
                v_center |-> \h7DD, v_min |-> \h1E2, v_max |-> \hDC3]]

Clamp(value) == IF value < -100 THEN -100 ELSE IF value > 100 THEN 100 ELSE value

\* int() drops the fraction, towards the center.
MapAxis(value, center, low, high) ==
    IF value < 0 THEN center - ((-Clamp(value)) * (center - low)) \div 100
                 ELSE center + (Clamp(value) * (high - center)) \div 100

StickFromApi(x, y, stick) ==
    LET cal == STICK_CAL[stick] IN
    EncodeStick(MapAxis(x, cal.h_center, cal.h_min, cal.h_max),
                MapAxis(y, cal.v_center, cal.v_min, cal.v_max))

\* Where the sticks stand in a new report.
LEFT_STICK_CENTER_BYTES == <<\h6F, \hC8, \h77>>
RIGHT_STICK_CENTER_BYTES == <<\h16, \hD8, \h7D>>

\* The calibration as the flash memory has it.
STICK_FACTORY_CAL ==
    <<\hBA, \hF5, \h62, \h6F, \hC8, \h77, \hED, \h95, \h5B,
      \h16, \hD8, \h7D, \hF2, \hB5, \h5F, \h86, \h65, \h5E>>

-----------------------------------------------------------------------------
\* The console's side: two values of 12 bits from the three bytes at n.
Decode(bytes, n) ==
    <<bytes[n] + 256 * (bytes[n + 1] % 16), (bytes[n + 1] \div 16) + 16 * bytes[n + 2]>>

\* The calibration in the 18 bytes at n: for the left stick the range above the
\* center comes first, for the right stick last.
CalibrationAt(bytes, n) ==
    [left  |-> [above |-> Decode(bytes, n), center |-> Decode(bytes, n + 3),
                below |-> Decode(bytes, n + 6)],
     right |-> [center |-> Decode(bytes, n + 9), below |-> Decode(bytes, n + 12),
                above |-> Decode(bytes, n + 15)]]

\* A raw value shows a coordinate: that share of the range, to the last unit.
ShowsShare(raw, coordinate, center, below, above) ==
    /\ coordinate < 0 =>
         LET missed == (-coordinate) * below - 100 * (center - raw)
         IN 0 <= missed /\ missed < 100
    /\ ~(coordinate < 0) =>
         LET missed == coordinate * above - 100 * (raw - center)
         IN 0 <= missed /\ missed < 100

=============================================================================
