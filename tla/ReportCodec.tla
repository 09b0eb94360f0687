------------------------------ MODULE ReportCodec ------------------------------
(***************************************************************************)
(* The bytes the server and the console exchange, as switch_report.py and  *)
(* constants.py make and read them: buttons and sticks in an input report, *)
(* the pages of the flash memory a console reads its stick calibration     *)
(* from, and the output reports it sends. They are the same over Bluetooth *)
(* and USB but for the transaction header.                                 *)
(*                                                                         *)
(* A string of bytes is a function from 0, 1, ... Bytes that are constants *)
(* (battery, IMU, vibrator) are left out. Each action is one exchange.     *)
(***************************************************************************)
EXTENDS StickCodec, FiniteSets

CONSTANTS
    Coordinates,  \* stick coordinates callers send
    ButtonSets,   \* sets of buttons callers hold
    Addresses, Lengths, \* what the console reads from the flash memory
    OutputLengths \* lengths of the reports the console sends, without header

VARIABLES
    input,   \* what was asked for
    output   \* the bytes that answer it

codecVars == <<input, output>>

Nothing == [kind |-> "nothing"]

(***************************************************************************)
(* Buttons                                                                 *)
(***************************************************************************)

\* What validate_buttons lets pass for the platform "switch".
ALL_SWITCH_XBOX_BUTTONS ==
    {"A", "B", "X", "Y", "L", "R", "ZL", "ZR", "PLUS", "MINUS", "HOME", "CAPTURE",
     "DPAD_UP", "DPAD_DOWN", "DPAD_LEFT", "DPAD_RIGHT", "L_STICK", "R_STICK"}

ASSUME CodecAssumption ==
    /\ Coordinates \subseteq Int
    /\ ButtonSets \subseteq SUBSET ALL_SWITCH_XBOX_BUTTONS
    /\ Addresses \subseteq Nat /\ Lengths \subseteq Byte
    /\ OutputLengths \subseteq Nat

\* Byte and mask of each button.
BUTTON_MAP ==
    [Y |-> <<0, 1>>, X |-> <<0, 2>>, B |-> <<0, 4>>, A |-> <<0, 8>>,
     R |-> <<0, 64>>, ZR |-> <<0, 128>>,
     MINUS |-> <<1, 1>>, PLUS |-> <<1, 2>>, R_STICK |-> <<1, 4>>, L_STICK |-> <<1, 8>>,
     HOME |-> <<1, 16>>, CAPTURE |-> <<1, 32>>,
     DPAD_DOWN |-> <<2, 1>>, DPAD_UP |-> <<2, 2>>, DPAD_RIGHT |-> <<2, 4>>,
     DPAD_LEFT |-> <<2, 8>>, L |-> <<2, 64>>, ZL |-> <<2, 128>>]

\* Masks are single bits: or-ing a set of them is adding it up.
ByteOf(masks) ==
    LET Bit(mask) == IF mask \in masks THEN mask ELSE 0
    IN Bit(1) + Bit(2) + Bit(4) + Bit(8) + Bit(16) + Bit(32) + Bit(64) + Bit(128)

EncodeButtons(pressed) ==
    [offset \in 0 .. 2 |->
        ByteOf({BUTTON_MAP[b][2] : b \in {b \in pressed \cap DOMAIN BUTTON_MAP :
                                              BUTTON_MAP[b][1] = offset}})]

\* Bytes 3 to 11 of a report.
BaseReport(buttons, left, right) ==
    [n \in 3 .. 11 |->
        CASE n < 6 -> EncodeButtons(buttons)[n - 3]
          [] n \in 6 .. 8 -> left[n - 5]
          [] n > 8 -> right[n - 8]]

(***************************************************************************)
(* The flash memory                                                        *)
(***************************************************************************)
FACTORY_PARAMS ==
    <<\h50, \hFD, 0, 0, \hC6, \h0F, \h0F, \h30, \h61, \h96, \h30, \hF3,
      \hD4, \h14, \h54, \h41, \h15, \h54, \hC7, \h79, \h9C, \h33, \h36, \h63>>

SPI_REGIONS ==
    <<[base |-> \h6000, data |-> [n \in 1 .. 16 |-> 255]],
      [base |-> \h6020, data |->
         <<\hD3, \hFF, \hD5, \hFF, \h55, 1, 0, \h40, 0, \h40, 0, \h40,
           \h19, 0, \hDD, \hFF, \hDC, \hFF, \h3B, \h34, \h3B, \h34, \h3B, \h34>>],
      [base |-> \h603D, data |-> STICK_FACTORY_CAL],
      [base |-> \h6050, data |-> <<\h82, \h82, \h82, \h0F, \h0F, \h0F,
                                   255, 255, 255, 255, 255, 255, 255>>],
      [base |-> \h6080, data |-> FACTORY_PARAMS],
      [base |-> \h6098, data |-> SubSeq(FACTORY_PARAMS, 7, 24)],
      [base |-> \h8010, data |-> [n \in 1 .. 24 |-> 255]]>>

\* Faulty variant: an overlap ends one byte early.
Copied_OffByOne(result, address, region) ==
    LET overlap == region.base - address .. region.base + Len(region.data) - 2 - address
    IN [n \in DOMAIN result |-> IF n \in overlap
                                THEN region.data[address + n - region.base + 1]
                                ELSE result[n]]

\* What overlaps a region is copied from it, the rest stays.
Copied(result, address, region) ==
    LET overlap == region.base - address .. region.base + Len(region.data) - 1 - address
    IN [n \in DOMAIN result |-> IF n \in overlap
                                THEN region.data[address + n - region.base + 1]
                                ELSE result[n]]

\* Region after region, over bytes that read 0xFF.
SpiRead(address, length) ==
    LET after[r \in 0 .. Len(SPI_REGIONS)] ==
          IF r = 0 THEN [n \in 0 .. length - 1 |-> 255]
                   ELSE Copied(after[r - 1], address, SPI_REGIONS[r])
    IN after[Len(SPI_REGIONS)]

\* A reply has room for 35 bytes behind its ids; the rest is cut off.
SubcommandData(payload) == [n \in DOMAIN payload \cap 0 .. 34 |-> payload[n]]

LittleEndian(address) ==
    <<address % 256, (address \div 256) % 256, (address \div 65536) % 256,
      address \div 16777216>>

\* The reply repeats the address and the length before the data; a request
\* without them is acknowledged and no more.
CmdSpiRead(arguments, address, length) ==
    IF arguments < 5 THEN [n \in {} |-> 0] ELSE
    LET head == Append(LittleEndian(address), length)
        spi == SpiRead(address, length)
    IN SubcommandData([n \in 0 .. 4 + length |-> IF n < 5 THEN head[n + 1] ELSE spi[n - 5]])

(***************************************************************************)
(* Output reports: a report id, nine bytes, a subcommand and its arguments *)
(***************************************************************************)
ParseOutput(data) ==
    LET length == Cardinality(DOMAIN data)
        offset == IF data[0] = \hA2 THEN 1 ELSE 0
    IN IF length < 12 \/ data[offset] # 1 \/ length < offset + 12 THEN Nothing
       ELSE [kind |-> "subcommand",
             subcommand |-> data[offset + 10],
             arguments |-> length - (offset + 11)]

-----------------------------------------------------------------------------
CodecInit == input = Nothing /\ output = Nothing

\* set_stick or send_input, and the next report.
MoveSticks(x, y) ==
    /\ input' = [kind |-> "report", buttons |-> {}, x |-> x, y |-> y]
    /\ output' = BaseReport({}, StickFromApi(x, y, "left"), StickFromApi(x, y, "right"))

\* hold_buttons with the sticks untouched, and the next report.
HoldButtons(buttons) ==
    /\ input' = [kind |-> "report", buttons |-> buttons, x |-> 0, y |-> 0]
    /\ output' = BaseReport(buttons, LEFT_STICK_CENTER_BYTES, RIGHT_STICK_CENTER_BYTES)

ReadFlash(arguments, address, length) ==
    /\ input' = [kind |-> "read", arguments |-> arguments,
                 address |-> address, length |-> length]
    /\ output' = CmdSpiRead(arguments, address, length)

\* The console sends a report, over Bluetooth behind the byte 0xA2.
SendOutput(id, length) ==
    LET report == [n \in 0 .. length - 1 |-> IF n = 0 THEN id ELSE n] IN
    /\ input' = [kind |-> "output", id |-> id, length |-> length]
    /\ output' = [usb |-> ParseOutput(report),
                  bluetooth |-> ParseOutput([n \in 0 .. length |->
                                   IF n = 0 THEN \hA2 ELSE report[n - 1]])]

Exchange ==
    \/ \E x, y \in Coordinates : MoveSticks(x, y)
    \/ \E buttons \in ButtonSets : HoldButtons(buttons)
    \/ \E arguments \in {4, 5}, address \in Addresses, length \in Lengths :
         ReadFlash(arguments, address, length)
    \/ \E id \in {1, 16}, length \in OutputLengths : SendOutput(id, length)

NextExchange ==
    /\ input # Nothing
    /\ input' = Nothing /\ output' = Nothing

CodecNext == (input = Nothing /\ Exchange) \/ NextExchange

CodecSpec == CodecInit /\ [][CodecNext]_codecVars

-----------------------------------------------------------------------------
\* The calibration as a console reads it, 18 bytes from 0x603D.
ConsoleCalibration == CalibrationAt(CmdSpiRead(5, \h603D, 18), 5)

StickShows(stick, n) ==
    LET cal == ConsoleCalibration[stick]
        raw == Decode(output, n)
        at == <<Clamp(input.x), Clamp(input.y)>>
    IN \A axis \in 1 .. 2 :
          ShowsShare(raw[axis], at[axis], cal.center[axis], cal.below[axis], cal.above[axis])

\* Every button the API accepts, and no other, is seen down by the console, and
\* with the calibration it has read from this controller it sees both sticks
\* where the caller put them, beyond the range at its end.
InputReachesConsole ==
    input.kind = "report" =>
        /\ output \in [3 .. 11 -> Byte]
        /\ input.buttons = {b \in ALL_SWITCH_XBOX_BUTTONS :
              (output[3 + BUTTON_MAP[b][1]] \div BUTTON_MAP[b][2]) % 2 = 1}
        /\ StickShows("left", 6) /\ StickShows("right", 9)

\* The flash memory has a byte at an address, 0xFF if no region is there; of
\* two regions the later one counts.
Holds(r, address) ==
    address - SPI_REGIONS[r].base \in 0 .. Len(SPI_REGIONS[r].data) - 1

ByteAt(r, address) == SPI_REGIONS[r].data[address - SPI_REGIONS[r].base + 1]

FlashHas(address, byte) ==
    LET regions == 1 .. Len(SPI_REGIONS) IN
    \/ byte = 255 /\ \A r \in regions : ~Holds(r, address)
    \/ \E r \in regions :
         /\ Holds(r, address) /\ \A later \in regions : later > r => ~Holds(later, address)
         /\ byte = ByteAt(r, address)

\* What the console asks for it gets. Wherever a read begins and ends, and
\* whichever regions it touches, its reply holds byte for byte what the flash
\* memory has there, as far as it has room; and a report of whatever length is
\* understood the same over both transports.
ConsoleIsUnderstood ==
    /\ input.kind = "read" /\ input.arguments = 5 =>
         /\ DOMAIN output = {n \in 0 .. 34 : n < 5 + input.length}
         /\ \A n \in DOMAIN output : n > 4 => FlashHas(input.address + n - 5, output[n])
    /\ input.kind = "output" => output.usb = output.bluetooth

=============================================================================
