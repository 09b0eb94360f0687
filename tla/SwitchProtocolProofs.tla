------------------------- MODULE SwitchProtocolProofs -------------------------
(***************************************************************************)
(* What the server and the console say to each other: the bytes of         *)
(* ReportCodec, for any input, any address and length of a read and any    *)
(* length of a report; and the handshake of SwitchProtocol, over Bluetooth *)
(* and, after the command phase of SwitchUSBProtocol, over USB, for any    *)
(* reports, however many of them, and for any deadlines.                   *)
(***************************************************************************)
EXTENDS SwitchUSBProtocol, ReportCodec, SequenceTheorems, FiniteSetTheorems, TLAPS

(***************************************************************************)
(* Sticks                                                                  *)
(***************************************************************************)
\* Two values of 12 bits survive three bytes.
LEMMA EncodeStickRoundTrip ==
    ASSUME NEW h \in Nat, NEW v \in Nat, h < 4096, v < 4096
    PROVE  /\ EncodeStick(h, v) \in [1 .. 3 -> Byte]
           /\ Decode(EncodeStick(h, v), 1) = <<h, v>>
<1> DEFINE hq == h \div 256
           hr == h % 256
           vq == v \div 16
           vr == v % 16
<1>1. /\ hq \in Nat /\ hq < 16 /\ hr \in Nat /\ hr < 256 /\ h = 256 * hq + hr
      /\ vq \in Nat /\ vq < 256 /\ vr \in Nat /\ vr < 16 /\ v = 16 * vq + vr
  OBVIOUS
<1>2. EncodeStick(h, v) = <<hr, vr * 16 + hq, vq>>
  BY DEF EncodeStick
<1> HIDE DEF hq, hr, vq, vr
<1>3. /\ vr * 16 + hq \in Nat /\ vr * 16 + hq < 256
      /\ (vr * 16 + hq) % 16 = hq /\ (vr * 16 + hq) \div 16 = vr
  BY <1>1
<1>4. EncodeStick(h, v) \in [1 .. 3 -> Byte]
  BY <1>1, <1>2, <1>3 DEF Byte
<1>5. Decode(EncodeStick(h, v), 1) = <<hr + 256 * hq, vr + 16 * vq>>
  BY <1>2, <1>3 DEF Decode
<1>6. hr + 256 * hq = h /\ vr + 16 * vq = v
  BY <1>1
<1> QED
  BY <1>4, <1>5, <1>6

\* A share of a range, rounded down, misses it by less than one unit.
LEMMA Share ==
    ASSUME NEW share \in Nat, share <= 100, NEW range \in Nat
    PROVE  /\ (share * range) \div 100 \in Nat
           /\ (share * range) \div 100 <= range
           /\ 0 <= share * range - 100 * ((share * range) \div 100)
           /\ share * range - 100 * ((share * range) \div 100) < 100
<1> DEFINE product == share * range
<1>1. product \in Nat /\ product <= 100 * range
  OBVIOUS
<1> HIDE DEF product
<1>2. /\ product \div 100 \in Nat /\ product \div 100 <= range
      /\ 0 <= product - 100 * (product \div 100)
      /\ product - 100 * (product \div 100) < 100
  BY <1>1
<1> QED
  BY <1>2 DEF product

\* A coordinate moves an axis by its share of the range on its side.
LEMMA MapAxisShows ==
    ASSUME NEW value \in Int, NEW low \in Nat, NEW center \in Nat, NEW high \in Nat,
           low <= center, center <= high
    PROVE  /\ MapAxis(value, center, low, high) \in Nat
           /\ MapAxis(value, center, low, high) <= high
           /\ ShowsShare(MapAxis(value, center, low, high), Clamp(value), center,
                         center - low, high - center)
<1> DEFINE at == Clamp(value)
           below == center - low
           above == high - center
<1>1. at \in Int /\ -100 <= at /\ at <= 100 /\ (value < 0 <=> at < 0)
  BY DEF Clamp
<1>2. below \in Nat /\ above \in Nat /\ below <= center /\ center + above = high
  OBVIOUS
<1>3. CASE value < 0
  <2> DEFINE share == -at
             moved == (share * below) \div 100
  <2>1. MapAxis(value, center, low, high) = center - moved
    BY <1>3 DEF MapAxis
  <2> HIDE DEF at, below, above
  <2>2. share \in Nat /\ share <= 100 /\ at < 0
    BY <1>1, <1>3
  <2> HIDE DEF share
  <2>3. moved \in Nat /\ moved <= below
    BY <1>2, <2>2, Share
  <2>4. 0 <= share * below - 100 * moved /\ share * below - 100 * moved < 100
    BY <1>2, <2>2, Share
  <2> HIDE DEF moved
  <2>5. center - moved \in Nat /\ center - moved <= high
    BY <1>2, <2>3
  <2>6. center - (center - moved) = moved
    BY <2>3
  <2>7. ShowsShare(center - moved, at, center, below, above)
    BY <2>2, <2>4, <2>6, Zenon DEF ShowsShare, share
  <2> QED
    BY <2>1, <2>5, <2>7 DEF at, below, above
<1>4. CASE ~(value < 0)
  <2> DEFINE moved == (at * above) \div 100
  <2>1. MapAxis(value, center, low, high) = center + moved
    BY <1>4 DEF MapAxis
  <2> HIDE DEF at, below, above
  <2>2. at \in Nat /\ at <= 100 /\ ~(at < 0)
    BY <1>1, <1>4
  <2>3. moved \in Nat /\ moved <= above
    BY <1>2, <2>2, Share
  <2>4. 0 <= at * above - 100 * moved /\ at * above - 100 * moved < 100
    BY <1>2, <2>2, Share
  <2> HIDE DEF moved
  <2>5. center + moved \in Nat /\ center + moved <= high
    BY <1>2, <2>3
  <2> DEFINE raw == center + moved
  <2>6. raw - center = moved /\ ~(at < 0)
    BY <2>2, <2>3
  <2> HIDE DEF raw
  <2>7. ShowsShare(raw, at, center, below, above)
    BY <2>4, <2>6, Zenon DEF ShowsShare
  <2> QED
    BY <2>1, <2>5, <2>7 DEF at, below, above, raw
<1> QED
  BY <1>3, <1>4

\* What the console decodes from the flash memory is what stick_from_api uses.
LEMMA CalibrationAgrees ==
    ASSUME NEW stick \in {"left", "right"}
    PROVE  LET cal == STICK_CAL[stick]
               seen == CalibrationAt(STICK_FACTORY_CAL, 1)[stick]
           IN /\ seen.center = <<cal.h_center, cal.v_center>>
              /\ seen.below = <<cal.h_center - cal.h_min, cal.v_center - cal.v_min>>
              /\ seen.above = <<cal.h_max - cal.h_center, cal.v_max - cal.v_center>>
BY DEF STICK_CAL, CalibrationAt, STICK_FACTORY_CAL, Decode

\* Wherever a caller puts a stick, the console that has read the calibration from
\* the flash memory sees it there, beyond the range at its end; and a new report
\* shows both sticks at rest.
THEOREM SticksAreSeen ==
    /\ \A stick \in {"left", "right"}, x, y \in Int :
         LET bytes == StickFromApi(x, y, stick)
             raw == Decode(bytes, 1)
             cal == CalibrationAt(STICK_FACTORY_CAL, 1)[stick]
         IN /\ bytes \in [1 .. 3 -> Byte]
            /\ ShowsShare(raw[1], Clamp(x), cal.center[1], cal.below[1], cal.above[1])
            /\ ShowsShare(raw[2], Clamp(y), cal.center[2], cal.below[2], cal.above[2])
    /\ LEFT_STICK_CENTER_BYTES = StickFromApi(0, 0, "left")
    /\ RIGHT_STICK_CENTER_BYTES = StickFromApi(0, 0, "right")
<1>1. ASSUME NEW stick \in {"left", "right"}, NEW x \in Int, NEW y \in Int
      PROVE  LET bytes == StickFromApi(x, y, stick)
                 raw == Decode(bytes, 1)
                 cal == CalibrationAt(STICK_FACTORY_CAL, 1)[stick]
             IN /\ bytes \in [1 .. 3 -> Byte]
                /\ ShowsShare(raw[1], Clamp(x), cal.center[1], cal.below[1], cal.above[1])
                /\ ShowsShare(raw[2], Clamp(y), cal.center[2], cal.below[2], cal.above[2])
  <2> DEFINE cal == STICK_CAL[stick]
             seen == CalibrationAt(STICK_FACTORY_CAL, 1)[stick]
             h == MapAxis(x, cal.h_center, cal.h_min, cal.h_max)
             v == MapAxis(y, cal.v_center, cal.v_min, cal.v_max)
  <2>1. /\ cal.h_min \in Nat /\ cal.h_center \in Nat /\ cal.h_max \in Nat
        /\ cal.h_min <= cal.h_center /\ cal.h_center <= cal.h_max
    <3>1. CASE stick = "left"
      BY <3>1 DEF STICK_CAL
    <3>2. CASE stick = "right"
      BY <3>2 DEF STICK_CAL
    <3> QED
      BY <3>1, <3>2
  <2>2. /\ cal.v_min \in Nat /\ cal.v_center \in Nat /\ cal.v_max \in Nat
        /\ cal.v_min <= cal.v_center /\ cal.v_center <= cal.v_max
    <3>1. CASE stick = "left"
      BY <3>1 DEF STICK_CAL
    <3>2. CASE stick = "right"
      BY <3>2 DEF STICK_CAL
    <3> QED
      BY <3>1, <3>2
  <2>3. /\ seen.center = <<cal.h_center, cal.v_center>>
        /\ seen.below = <<cal.h_center - cal.h_min, cal.v_center - cal.v_min>>
        /\ seen.above = <<cal.h_max - cal.h_center, cal.v_max - cal.v_center>>
    BY CalibrationAgrees
  <2>4. StickFromApi(x, y, stick) = EncodeStick(h, v)
    BY DEF StickFromApi
  <2> HIDE DEF seen, cal
  <2>5. h \in Nat /\ h < 4096 /\ v \in Nat /\ v < 4096
    <3>1. h \in Nat /\ h <= cal.h_max
      BY <2>1, MapAxisShows
    <3>2. v \in Nat /\ v <= cal.v_max
      BY <2>2, MapAxisShows
    <3>3. cal.h_max < 4096 /\ cal.v_max < 4096
      <4>1. CASE stick = "left"
        BY <4>1 DEF STICK_CAL, cal
      <4>2. CASE stick = "right"
        BY <4>2 DEF STICK_CAL, cal
      <4> QED
        BY <4>1, <4>2
    <3> HIDE DEF h, v
    <3> QED
      BY <2>1, <2>2, <3>1, <3>2, <3>3
  <2>6. ShowsShare(h, Clamp(x), cal.h_center, cal.h_center - cal.h_min,
                   cal.h_max - cal.h_center)
    BY <2>1, MapAxisShows
  <2>7. ShowsShare(v, Clamp(y), cal.v_center, cal.v_center - cal.v_min,
                   cal.v_max - cal.v_center)
    BY <2>2, MapAxisShows
  <2> HIDE DEF h, v
  <2>8. EncodeStick(h, v) \in [1 .. 3 -> Byte] /\ Decode(EncodeStick(h, v), 1) = <<h, v>>
    BY <2>5, EncodeStickRoundTrip
  <2> QED
    BY <2>3, <2>4, <2>6, <2>7, <2>8 DEF seen
<1>2. /\ LEFT_STICK_CENTER_BYTES = StickFromApi(0, 0, "left")
      /\ RIGHT_STICK_CENTER_BYTES = StickFromApi(0, 0, "right")
  BY DEF LEFT_STICK_CENTER_BYTES, RIGHT_STICK_CENTER_BYTES, StickFromApi, STICK_CAL,
         MapAxis, Clamp, EncodeStick
<1> QED
  BY <1>1, <1>2

(***************************************************************************)
(* Buttons                                                                 *)
(***************************************************************************)
Masks == {1, 2, 4, 8, 16, 32, 64, 128}

\* The bits of a byte are those of the masks it was made of.
LEMMA ByteOfFacts ==
    ASSUME NEW masks
    PROVE  /\ ByteOf(masks) \in Byte
           /\ \A m \in Masks : (ByteOf(masks) \div m) % 2 = 1 <=> m \in masks
<1> DEFINE bit(m) == IF m \in masks THEN 1 ELSE 0
<1>1. \A m \in Masks : bit(m) \in {0, 1} /\ (bit(m) = 1 <=> m \in masks)
  BY DEF Masks
<1>2. ByteOf(masks) = bit(1) + 2 * bit(2) + 4 * bit(4) + 8 * bit(8) + 16 * bit(16)
                        + 32 * bit(32) + 64 * bit(64) + 128 * bit(128)
  BY DEF ByteOf
<1> HIDE DEF bit
<1>3. ASSUME NEW b1 \in {0, 1}, NEW b2 \in {0, 1}, NEW b3 \in {0, 1}, NEW b4 \in {0, 1},
             NEW b5 \in {0, 1}, NEW b6 \in {0, 1}, NEW b7 \in {0, 1}, NEW b8 \in {0, 1}
      PROVE  LET byte == b1 + 2 * b2 + 4 * b3 + 8 * b4 + 16 * b5 + 32 * b6 + 64 * b7 + 128 * b8
             IN /\ byte \in Byte
                /\ (byte \div 1) % 2 = b1 /\ (byte \div 2) % 2 = b2
                /\ (byte \div 4) % 2 = b3 /\ (byte \div 8) % 2 = b4
                /\ (byte \div 16) % 2 = b5 /\ (byte \div 32) % 2 = b6
                /\ (byte \div 64) % 2 = b7 /\ (byte \div 128) % 2 = b8
  BY SMTT(60) DEF Byte
<1> QED
  BY <1>1, <1>2, <1>3 DEF Masks

\* No two buttons share a bit of a report.
LEMMA ButtonMapFacts ==
    /\ DOMAIN BUTTON_MAP = ALL_SWITCH_XBOX_BUTTONS
    /\ \A b \in ALL_SWITCH_XBOX_BUTTONS :
         BUTTON_MAP[b][1] \in 0 .. 2 /\ BUTTON_MAP[b][2] \in Masks
    /\ \A b, c \in ALL_SWITCH_XBOX_BUTTONS :
         BUTTON_MAP[b][1] = BUTTON_MAP[c][1] /\ BUTTON_MAP[b][2] = BUTTON_MAP[c][2] => b = c
<1>1. DOMAIN BUTTON_MAP = ALL_SWITCH_XBOX_BUTTONS
  BY DEF BUTTON_MAP, ALL_SWITCH_XBOX_BUTTONS
<1>2. \A b \in ALL_SWITCH_XBOX_BUTTONS :
         BUTTON_MAP[b][1] \in 0 .. 2 /\ BUTTON_MAP[b][2] \in Masks
  BY DEF BUTTON_MAP, ALL_SWITCH_XBOX_BUTTONS, Masks
<1>3. \A b, c \in ALL_SWITCH_XBOX_BUTTONS :
         BUTTON_MAP[b][1] = BUTTON_MAP[c][1] /\ BUTTON_MAP[b][2] = BUTTON_MAP[c][2] => b = c
  BY DEF BUTTON_MAP, ALL_SWITCH_XBOX_BUTTONS
<1> QED
  BY <1>1, <1>2, <1>3

\* The console sees the buttons that are held, and no other.
LEMMA ButtonsSurvive ==
    ASSUME NEW pressed \in SUBSET ALL_SWITCH_XBOX_BUTTONS
    PROVE  /\ EncodeButtons(pressed) \in [0 .. 2 -> Byte]
           /\ \A b \in ALL_SWITCH_XBOX_BUTTONS :
                (EncodeButtons(pressed)[BUTTON_MAP[b][1]] \div BUTTON_MAP[b][2]) % 2 = 1
                  <=> b \in pressed
<1> DEFINE held(offset) == {b \in pressed \cap DOMAIN BUTTON_MAP : BUTTON_MAP[b][1] = offset}
           masks(offset) == {BUTTON_MAP[b][2] : b \in held(offset)}
<1>1. EncodeButtons(pressed) = [offset \in 0 .. 2 |-> ByteOf(masks(offset))]
  BY DEF EncodeButtons
<1>2. EncodeButtons(pressed) \in [0 .. 2 -> Byte]
  BY <1>1, ByteOfFacts
<1>3. ASSUME NEW b \in ALL_SWITCH_XBOX_BUTTONS
      PROVE  BUTTON_MAP[b][2] \in masks(BUTTON_MAP[b][1]) <=> b \in pressed
  BY ButtonMapFacts
<1>4. ASSUME NEW b \in ALL_SWITCH_XBOX_BUTTONS
      PROVE  (EncodeButtons(pressed)[BUTTON_MAP[b][1]] \div BUTTON_MAP[b][2]) % 2 = 1
               <=> b \in pressed
  <2> HIDE DEF masks
  <2>1. EncodeButtons(pressed)[BUTTON_MAP[b][1]] = ByteOf(masks(BUTTON_MAP[b][1]))
    BY <1>1, ButtonMapFacts
  <2> QED
    BY <1>3, <2>1, ButtonMapFacts, ByteOfFacts
<1> QED
  BY <1>2, <1>4

(***************************************************************************)
(* The flash memory                                                        *)
(***************************************************************************)
\* What has been copied after so many regions, as a function.
CopiedUpTo(after, address, length) ==
    after = [r \in 0 .. 7 |->
               IF r = 0 THEN [n \in 0 .. length - 1 |-> 255]
                        ELSE Copied(after[r - 1], address, SPI_REGIONS[r])]

\* The regions are seven, each of some bytes, and these are their places.
LEMMA RegionPlaces ==
    /\ Len(SPI_REGIONS) = 7
    /\ SPI_REGIONS[1].base = \h6000 /\ SPI_REGIONS[2].base = \h6020
    /\ SPI_REGIONS[3].base = \h603D /\ SPI_REGIONS[4].base = \h6050
    /\ SPI_REGIONS[5].base = \h6080 /\ SPI_REGIONS[6].base = \h6098
    /\ SPI_REGIONS[7].base = \h8010
    /\ SPI_REGIONS[3].data = STICK_FACTORY_CAL
BY DEF SPI_REGIONS

\* Regions have bases and sizes.
LEMMA RegionTypes ==
    \A r \in 1 .. 7 : SPI_REGIONS[r].base \in Nat /\ Len(SPI_REGIONS[r].data) \in Nat
<1>1. \A r \in 1 .. 7 : r = 1 \/ r = 2 \/ r = 3 \/ r = 4 \/ r = 5 \/ r = 6 \/ r = 7
  OBVIOUS
<1>2. \A r \in 1 .. 7 : SPI_REGIONS[r].base \in Nat
  BY <1>1, RegionPlaces
<1>3. Len([n \in 1 .. 16 |-> 255]) \in Nat /\ Len([n \in 1 .. 24 |-> 255]) \in Nat
  <2>1. [n \in 1 .. 16 |-> 255] \in Seq(Nat) /\ [n \in 1 .. 24 |-> 255] \in Seq(Nat)
    OBVIOUS
  <2> QED
    BY <2>1
<1>4. Len(STICK_FACTORY_CAL) \in Nat
  BY DEF STICK_FACTORY_CAL
<1>5. FACTORY_PARAMS \in Seq(Nat) /\ Len(FACTORY_PARAMS) = 24
  BY DEF FACTORY_PARAMS
<1>6. Len(SubSeq(FACTORY_PARAMS, 7, 24)) \in Nat
  BY <1>5
<1>7. /\ SPI_REGIONS[1].data = [n \in 1 .. 16 |-> 255]
      /\ Len(SPI_REGIONS[2].data) = 24
      /\ Len(SPI_REGIONS[4].data) = 13
  BY DEF SPI_REGIONS
<1>8. /\ SPI_REGIONS[5].data = FACTORY_PARAMS
      /\ SPI_REGIONS[6].data = SubSeq(FACTORY_PARAMS, 7, 24)
      /\ SPI_REGIONS[7].data = [n \in 1 .. 24 |-> 255]
  BY DEF SPI_REGIONS
<1>9. \A r \in 1 .. 7 : Len(SPI_REGIONS[r].data) \in Nat
  <2>1. Len(SPI_REGIONS[1].data) \in Nat /\ Len(SPI_REGIONS[7].data) \in Nat
    BY <1>3, <1>7, <1>8
  <2>2. /\ Len(SPI_REGIONS[2].data) \in Nat /\ Len(SPI_REGIONS[3].data) \in Nat
        /\ Len(SPI_REGIONS[4].data) \in Nat
    BY <1>4, <1>7, RegionPlaces
  <2>3. Len(SPI_REGIONS[5].data) \in Nat /\ Len(SPI_REGIONS[6].data) \in Nat
    BY <1>5, <1>6, <1>8
  <2> QED
    BY <1>1, <2>1, <2>2, <2>3
<1> QED
  BY <1>2, <1>9

\* The definition of what has been copied conforms to its equation: there is
\* such a function, made in seven steps.
LEMMA SpiReadDef ==
    ASSUME NEW address, NEW length
    PROVE  \E after : CopiedUpTo(after, address, length) /\ SpiRead(address, length) = after[7]
<1> DEFINE v0 == [n \in 0 .. length - 1 |-> 255]
           v1 == Copied(v0, address, SPI_REGIONS[1])
           v2 == Copied(v1, address, SPI_REGIONS[2])
           v3 == Copied(v2, address, SPI_REGIONS[3])
           v4 == Copied(v3, address, SPI_REGIONS[4])
           v5 == Copied(v4, address, SPI_REGIONS[5])
           v6 == Copied(v5, address, SPI_REGIONS[6])
           v7 == Copied(v6, address, SPI_REGIONS[7])
           value(r) == IF r = 0 THEN v0 ELSE IF r = 1 THEN v1 ELSE IF r = 2 THEN v2
                       ELSE IF r = 3 THEN v3 ELSE IF r = 4 THEN v4 ELSE IF r = 5 THEN v5
                       ELSE IF r = 6 THEN v6 ELSE v7
           made == [r \in 0 .. 7 |-> value(r)]
           turn(after, r) == IF r = 0 THEN v0 ELSE Copied(after[r - 1], address, SPI_REGIONS[r])
<1>1. value(0) = v0 /\ \A r \in 1 .. 7 : value(r) = Copied(value(r - 1), address, SPI_REGIONS[r])
  <2>1. \A r \in 1 .. 7 : r = 1 \/ r = 2 \/ r = 3 \/ r = 4 \/ r = 5 \/ r = 6 \/ r = 7
    OBVIOUS
  <2> HIDE DEF v0
  <2> QED
    BY <2>1
<1> HIDE DEF value, v0
<1>2. made = [r \in 0 .. 7 |-> turn(made, r)]
  <2> SUFFICES ASSUME NEW r \in 0 .. 7 PROVE value(r) = turn(made, r)
    OBVIOUS
  <2>1. CASE r = 0
    BY <1>1, <2>1
  <2>2. CASE r \in 1 .. 7
    <3>1. r # 0 /\ r - 1 \in 0 .. 7 /\ made[r - 1] = value(r - 1)
      BY <2>2
    <3> QED
      BY <1>1, <2>2, <3>1
  <2> QED
    BY <2>1, <2>2
<1> HIDE DEF made
<1>3. SpiRead(address, length) =
        (CHOOSE after : after = [r \in 0 .. 7 |-> turn(after, r)])[7]
  BY RegionPlaces DEF SpiRead, v0
<1> QED
  BY <1>2, <1>3 DEF CopiedUpTo, v0

\* The byte at an address, as far as the first regions determine it.
NoRegionHas(last, address) == \A r \in 1 .. last : ~Holds(r, address)

SomeRegionHas(last, address, byte) ==
    \E r \in 1 .. last :
      /\ Holds(r, address) /\ \A later \in 1 .. last : later > r => ~Holds(later, address)
      /\ byte = ByteAt(r, address)

HasUpTo(last, address, byte) ==
    \/ byte = 255 /\ NoRegionHas(last, address)
    \/ SomeRegionHas(last, address, byte)

\* One region more: its bytes replace those of the regions before.
LEMMA CopiedFacts ==
    ASSUME NEW address \in Nat, NEW length \in Nat, NEW last \in 1 .. 7, NEW result,
           DOMAIN result = 0 .. length - 1,
           \A n \in 0 .. length - 1 : HasUpTo(last - 1, address + n, result[n])
    PROVE  LET next == Copied(result, address, SPI_REGIONS[last]) IN
           /\ DOMAIN next = 0 .. length - 1
           /\ \A n \in 0 .. length - 1 : HasUpTo(last, address + n, next[n])
<1> DEFINE region == SPI_REGIONS[last]
           next == Copied(result, address, region)
<1>1. SPI_REGIONS[last].base \in Nat /\ Len(SPI_REGIONS[last].data) \in Nat
  BY RegionTypes
<1>2. DOMAIN next = 0 .. length - 1
  BY DEF Copied
<1>3. ASSUME NEW n \in 0 .. length - 1 PROVE HasUpTo(last, address + n, next[n])
  <2>1. n \in SPI_REGIONS[last].base - address
               .. SPI_REGIONS[last].base + Len(SPI_REGIONS[last].data) - 1 - address
          <=> Holds(last, address + n)
    <3>1. ASSUME NEW base \in Nat, NEW size \in Nat
          PROVE  n \in base - address .. base + size - 1 - address
                   <=> (address + n) - base \in 0 .. size - 1
      OBVIOUS
    <3> QED
      BY <1>1, <3>1 DEF Holds
  <2>2. CASE Holds(last, address + n)
    <3>1. next[n] = ByteAt(last, address + n)
      <4>1. next[n] = region.data[address + n - region.base + 1]
        BY <2>1, <2>2 DEF Copied
      <4>2. ByteAt(last, address + n) = region.data[address + n - region.base + 1]
        <5>1. ASSUME NEW base \in Nat
              PROVE  (address + n) - base + 1 = address + n - base + 1
          OBVIOUS
        <5>2. (address + n) - region.base + 1 = address + n - region.base + 1
          BY <1>1, <5>1
        <5>3. ByteAt(last, address + n) = region.data[(address + n) - region.base + 1]
          BY Zenon DEF ByteAt
        <5> QED
          BY <5>2, <5>3, Zenon
      <4> QED
        BY <4>1, <4>2
    <3>2. \A later \in 1 .. last : ~(later > last)
      OBVIOUS
    <3>3. last \in 1 .. last
      OBVIOUS
    <3> HIDE DEF next
    <3>4. SomeRegionHas(last, address + n, next[n])
      BY <2>2, <3>1, <3>2, <3>3, Zenon DEF SomeRegionHas
    <3> QED
      BY <3>4 DEF HasUpTo
  <2>3. CASE ~Holds(last, address + n)
    <3>1. next[n] = result[n]
      BY <2>1, <2>3 DEF Copied
    <3>2. \A r \in 1 .. last : r \in 1 .. (last - 1) \/ r = last
      OBVIOUS
    <3>3. \A r \in 1 .. (last - 1) : r \in 1 .. last
      OBVIOUS
    <3>4. HasUpTo(last - 1, address + n, result[n])
      OBVIOUS
    <3>5. NoRegionHas(last - 1, address + n) => NoRegionHas(last, address + n)
      BY <2>3, <3>2, Zenon DEF NoRegionHas
    <3>6. SomeRegionHas(last - 1, address + n, result[n])
            => SomeRegionHas(last, address + n, result[n])
      <4> SUFFICES ASSUME SomeRegionHas(last - 1, address + n, result[n])
                   PROVE  SomeRegionHas(last, address + n, result[n])
        OBVIOUS
      <4> PICK r \in 1 .. (last - 1) :
            /\ Holds(r, address + n)
            /\ \A later \in 1 .. (last - 1) : later > r => ~Holds(later, address + n)
            /\ result[n] = ByteAt(r, address + n)
        BY DEF SomeRegionHas
      <4>1. \A later \in 1 .. last : later > r => ~Holds(later, address + n)
        BY <2>3, <3>2, Zenon
      <4>2. r \in 1 .. last
        OBVIOUS
      <4> QED
        BY <4>1, <4>2, Zenon DEF SomeRegionHas
    <3> QED
      BY <3>1, <3>4, <3>5, <3>6 DEF HasUpTo
  <2> QED
    BY <2>2, <2>3
<1> QED
  BY <1>2, <1>3

\* Wherever a read begins and however long it is, it returns what the flash
\* memory has.
LEMMA SpiReadFacts ==
    ASSUME NEW address \in Nat, NEW length \in Nat
    PROVE  /\ DOMAIN SpiRead(address, length) = 0 .. length - 1
           /\ \A n \in 0 .. length - 1 : FlashHas(address + n, SpiRead(address, length)[n])
<1> PICK after : CopiedUpTo(after, address, length) /\ SpiRead(address, length) = after[7]
  BY SpiReadDef
<1> DEFINE Right(r) ==
             /\ DOMAIN after[r] = 0 .. length - 1
             /\ \A n \in 0 .. length - 1 : HasUpTo(r, address + n, after[r][n])
<1>1. Right(0)
  <2>1. after[0] = [n \in 0 .. length - 1 |-> 255]
    BY DEF CopiedUpTo
  <2> QED
    BY <2>1 DEF HasUpTo, NoRegionHas
<1>2. ASSUME NEW r \in 1 .. 7, Right(r - 1) PROVE Right(r)
  <2>1. r \in 0 .. 7 /\ r # 0
    OBVIOUS
  <2>2. after[r] = Copied(after[r - 1], address, SPI_REGIONS[r])
    BY <2>1 DEF CopiedUpTo
  <2>3. /\ DOMAIN after[r - 1] = 0 .. length - 1
        /\ \A n \in 0 .. length - 1 : HasUpTo(r - 1, address + n, after[r - 1][n])
    BY <1>2
  <2>4. LET next == Copied(after[r - 1], address, SPI_REGIONS[r]) IN
        /\ DOMAIN next = 0 .. length - 1
        /\ \A n \in 0 .. length - 1 : HasUpTo(r, address + n, next[n])
    BY <2>3, CopiedFacts
  <2> QED
    BY <2>2, <2>4
<1> HIDE DEF Right
<1>3. Right(7)
  <2>1. Right(1) BY <1>1, <1>2
  <2>2. Right(2) BY <1>2, <2>1
  <2>3. Right(3) BY <1>2, <2>2
  <2>4. Right(4) BY <1>2, <2>3
  <2>5. Right(5) BY <1>2, <2>4
  <2>6. Right(6) BY <1>2, <2>5
  <2> QED
    BY <1>2, <2>6
<1>4. ASSUME NEW place, NEW byte, HasUpTo(7, place, byte) PROVE FlashHas(place, byte)
  <2>1. Len(SPI_REGIONS) = 7
    BY RegionPlaces
  <2> QED
    BY <1>4, <2>1 DEF HasUpTo, NoRegionHas, SomeRegionHas, FlashHas
<1> QED
  BY <1>3, <1>4 DEF Right

\* The data of a reply are what the flash memory has, as far as it has room.
LEMMA ReplyFacts ==
    ASSUME NEW address \in Nat, NEW length \in Nat
    PROVE  LET reply == CmdSpiRead(5, address, length) IN
           /\ DOMAIN reply = {n \in 0 .. 34 : n < 5 + length}
           /\ \A n \in DOMAIN reply : n > 4 => FlashHas(address + n - 5, reply[n])
<1> DEFINE reply == CmdSpiRead(5, address, length)
           spi == SpiRead(address, length)
           head == Append(LittleEndian(address), length)
           whole == [n \in 0 .. 4 + length |-> IF n < 5 THEN head[n + 1] ELSE spi[n - 5]]
<1>1. reply = SubcommandData(whole)
  BY DEF CmdSpiRead
<1>2. \A n \in 0 .. length - 1 : FlashHas(address + n, spi[n])
  BY SpiReadFacts
<1> HIDE DEF spi, head
<1>3. DOMAIN reply = {n \in 0 .. 34 : n < 5 + length}
  BY <1>1 DEF SubcommandData
<1>4. ASSUME NEW n \in DOMAIN reply, n > 4 PROVE FlashHas(address + n - 5, reply[n])
  <2>1. n \in Nat /\ n <= 34 /\ n < 5 + length
    BY <1>3
  <2>2. reply[n] = spi[n - 5]
    BY <1>1, <1>4, <2>1 DEF SubcommandData
  <2>3. n - 5 \in 0 .. length - 1
    BY <1>4, <2>1
  <2> QED
    BY <1>2, <2>2, <2>3
<1> HIDE DEF reply
<1> QED
  BY <1>3, <1>4 DEF reply

\* A region does not reach below its base.
LEMMA NotBelowBase ==
    ASSUME NEW r \in 1 .. 7, NEW place \in Nat, place < SPI_REGIONS[r].base
    PROVE  ~Holds(r, place)
<1>1. SPI_REGIONS[r].base \in Nat /\ Len(SPI_REGIONS[r].data) \in Nat
  BY RegionTypes
<1>2. \A base, size \in Nat : place < base => ~(place - base \in 0 .. size - 1)
  OBVIOUS
<1> QED
  BY <1>1, <1>2 DEF Holds

\* At 0x603D, and nowhere else before 0x6050, is the calibration.
LEMMA CalibrationIsThere ==
    ASSUME NEW k \in 0 .. 17, NEW byte, FlashHas(\h603D + k, byte)
    PROVE  byte = STICK_FACTORY_CAL[k + 1]
<1>1. Len(SPI_REGIONS) = 7 /\ Len(STICK_FACTORY_CAL) = 18
  BY RegionPlaces DEF STICK_FACTORY_CAL
<1>2. Holds(3, \h603D + k)
  <2>1. SPI_REGIONS[3].base = \h603D /\ Len(SPI_REGIONS[3].data) = 18
    BY <1>1, RegionPlaces
  <2>2. \h603D + k - \h603D = k /\ (\h603D + k) - \h603D = k
    OBVIOUS
  <2> QED
    BY <2>1, <2>2 DEF Holds
<1>3. \A r \in 1 .. 7 : r > 3 => ~Holds(r, \h603D + k)
  <2>1. \A r \in 1 .. 7 : r > 3 => r = 4 \/ r = 5 \/ r = 6 \/ r = 7
    OBVIOUS
  <2>2. \A r \in 1 .. 7 : r > 3 => \h603D + k < SPI_REGIONS[r].base
    BY <2>1, RegionPlaces
  <2>3. \h603D + k \in Nat
    OBVIOUS
  <2> QED
    BY <2>2, <2>3, NotBelowBase
<1>4. byte = ByteAt(3, \h603D + k)
  <2>1. PICK r \in 1 .. 7 :
          /\ Holds(r, \h603D + k)
          /\ \A later \in 1 .. 7 : later > r => ~Holds(later, \h603D + k)
          /\ byte = ByteAt(r, \h603D + k)
    BY <1>1, <1>2 DEF FlashHas
  <2>2. r = 3
    BY <1>2, <1>3, <2>1
  <2> QED
    BY <2>1, <2>2
<1>5. ByteAt(3, \h603D + k) = STICK_FACTORY_CAL[k + 1]
  BY RegionPlaces DEF ByteAt
<1> QED
  BY <1>4, <1>5

\* The console decodes the calibration from the reply as it is in the memory.
LEMMA ConsoleHasCalibration == ConsoleCalibration = CalibrationAt(STICK_FACTORY_CAL, 1)
<1>1. PICK address \in Nat, size \in Nat : address = \h603D /\ size = 18
  OBVIOUS
<1> DEFINE reply == CmdSpiRead(5, address, size)
<1>2. /\ DOMAIN reply = {n \in 0 .. 34 : n < 5 + size}
      /\ \A n \in DOMAIN reply : n > 4 => FlashHas(address + n - 5, reply[n])
  BY ReplyFacts, Zenon
<1> HIDE DEF reply
<1>3. ASSUME NEW n \in 5 .. 22 PROVE reply[n] = STICK_FACTORY_CAL[n - 4]
  <2>1. n \in DOMAIN reply /\ n > 4
    BY <1>1, <1>2
  <2>2. FlashHas(address + n - 5, reply[n])
    BY <1>2, <2>1
  <2>3. address + n - 5 = \h603D + (n - 5) /\ n - 5 \in 0 .. 17 /\ (n - 5) + 1 = n - 4
    BY <1>1
  <2> QED
    BY <2>2, <2>3, CalibrationIsThere
<1> HIDE DEF reply
<1>4. /\ Decode(reply, 5) = Decode(STICK_FACTORY_CAL, 1)
      /\ Decode(reply, 8) = Decode(STICK_FACTORY_CAL, 4)
      /\ Decode(reply, 11) = Decode(STICK_FACTORY_CAL, 7)
  BY <1>3 DEF Decode
<1>5. /\ Decode(reply, 14) = Decode(STICK_FACTORY_CAL, 10)
      /\ Decode(reply, 17) = Decode(STICK_FACTORY_CAL, 13)
      /\ Decode(reply, 20) = Decode(STICK_FACTORY_CAL, 16)
  BY <1>3 DEF Decode
<1> QED
  BY <1>1, <1>4, <1>5 DEF ConsoleCalibration, CalibrationAt, reply

(***************************************************************************)
(* Reports                                                                 *)
(***************************************************************************)
\* A report shows the buttons and the sticks it is made of.
LEMMA BaseReportFacts ==
    ASSUME NEW pressed \in SUBSET ALL_SWITCH_XBOX_BUTTONS,
           NEW l \in [1 .. 3 -> Byte], NEW r \in [1 .. 3 -> Byte]
    PROVE  LET made == BaseReport(pressed, l, r) IN
           /\ made \in [3 .. 11 -> Byte]
           /\ \A offset \in 0 .. 2 : made[3 + offset] = EncodeButtons(pressed)[offset]
           /\ Decode(made, 6) = Decode(l, 1) /\ Decode(made, 9) = Decode(r, 1)
<1> DEFINE made == BaseReport(pressed, l, r)
           bytes == EncodeButtons(pressed)
<1>1. bytes \in [0 .. 2 -> Byte]
  BY ButtonsSurvive
<1> HIDE DEF bytes
<1>2. /\ DOMAIN made = 3 .. 11
      /\ made[3] = bytes[0] /\ made[4] = bytes[1] /\ made[5] = bytes[2]
      /\ made[6] = l[1] /\ made[7] = l[2] /\ made[8] = l[3]
      /\ made[9] = r[1] /\ made[10] = r[2] /\ made[11] = r[3]
      /\ made = [n \in 3 .. 11 |-> made[n]]
  BY DEF BaseReport, bytes
<1> HIDE DEF made
<1>3. \A n \in 3 .. 11 : made[n] \in Byte
  <2>1. \A n \in 3 .. 11 : n \in {3, 4, 5} \/ n \in {6, 7, 8} \/ n \in {9, 10, 11}
    OBVIOUS
  <2> QED
    BY <1>1, <1>2, <2>1
<1>4. made \in [3 .. 11 -> Byte]
  BY <1>2, <1>3
<1>5. \A offset \in 0 .. 2 : made[3 + offset] = bytes[offset]
  <2>1. \A offset \in 0 .. 2 : offset = 0 \/ offset = 1 \/ offset = 2
    OBVIOUS
  <2> QED
    BY <1>2, <2>1
<1>6. Decode(made, 6) = Decode(l, 1) /\ Decode(made, 9) = Decode(r, 1)
  BY <1>2 DEF Decode
<1> QED
  BY <1>4, <1>5, <1>6 DEF made, bytes

\* What a report holds of one stick, against the calibration in the memory.
Shown(made, n, stick, x, y) ==
    LET cal == CalibrationAt(STICK_FACTORY_CAL, 1)[stick]
        raw == Decode(made, n)
        at == <<Clamp(x), Clamp(y)>>
    IN \A axis \in 1 .. 2 :
          ShowsShare(raw[axis], at[axis], cal.center[axis], cal.below[axis], cal.above[axis])

Down(made) ==
    {b \in ALL_SWITCH_XBOX_BUTTONS : (made[3 + BUTTON_MAP[b][1]] \div BUTTON_MAP[b][2]) % 2 = 1}

\* A report made of buttons and coordinates shows just those.
LEMMA ReportShows ==
    ASSUME NEW pressed \in SUBSET ALL_SWITCH_XBOX_BUTTONS, NEW x \in Int, NEW y \in Int
    PROVE  LET made == BaseReport(pressed, StickFromApi(x, y, "left"),
                                           StickFromApi(x, y, "right"))
           IN /\ made \in [3 .. 11 -> Byte]
              /\ pressed = Down(made)
              /\ Shown(made, 6, "left", x, y) /\ Shown(made, 9, "right", x, y)
<1> DEFINE l == StickFromApi(x, y, "left")
           r == StickFromApi(x, y, "right")
           made == BaseReport(pressed, l, r)
           cal == CalibrationAt(STICK_FACTORY_CAL, 1)
           at == <<Clamp(x), Clamp(y)>>
<1>1. /\ l \in [1 .. 3 -> Byte] /\ r \in [1 .. 3 -> Byte]
      /\ ShowsShare(Decode(l, 1)[1], Clamp(x), cal["left"].center[1],
                    cal["left"].below[1], cal["left"].above[1])
      /\ ShowsShare(Decode(l, 1)[2], Clamp(y), cal["left"].center[2],
                    cal["left"].below[2], cal["left"].above[2])
      /\ ShowsShare(Decode(r, 1)[1], Clamp(x), cal["right"].center[1],
                    cal["right"].below[1], cal["right"].above[1])
      /\ ShowsShare(Decode(r, 1)[2], Clamp(y), cal["right"].center[2],
                    cal["right"].below[2], cal["right"].above[2])
  <2> "left" \in {"left", "right"} /\ "right" \in {"left", "right"}
    OBVIOUS
  <2> QED
    BY SticksAreSeen, Zenon
<1> HIDE DEF l, r, cal
<1>2. /\ made \in [3 .. 11 -> Byte]
      /\ \A offset \in 0 .. 2 : made[3 + offset] = EncodeButtons(pressed)[offset]
      /\ Decode(made, 6) = Decode(l, 1) /\ Decode(made, 9) = Decode(r, 1)
  BY <1>1, BaseReportFacts
<1> HIDE DEF made
<1>3. pressed = Down(made)
  <2>1. \A b \in ALL_SWITCH_XBOX_BUTTONS :
          made[3 + BUTTON_MAP[b][1]] = EncodeButtons(pressed)[BUTTON_MAP[b][1]]
    BY <1>2, ButtonMapFacts
  <2>2. \A b \in ALL_SWITCH_XBOX_BUTTONS :
          (made[3 + BUTTON_MAP[b][1]] \div BUTTON_MAP[b][2]) % 2 = 1 <=> b \in pressed
    BY <2>1, ButtonsSurvive
  <2> QED
    BY <2>2 DEF Down
<1>4. at[1] = Clamp(x) /\ at[2] = Clamp(y) /\ \A axis \in 1 .. 2 : axis = 1 \/ axis = 2
  OBVIOUS
<1> HIDE DEF at
<1>5. Shown(made, 6, "left", x, y)
  <2>1. \A axis \in 1 .. 2 :
          ShowsShare(Decode(made, 6)[axis], at[axis], cal["left"].center[axis],
                     cal["left"].below[axis], cal["left"].above[axis])
    BY <1>1, <1>2, <1>4
  <2> QED
    BY <2>1 DEF Shown, cal, at
<1>6. Shown(made, 9, "right", x, y)
  <2>1. \A axis \in 1 .. 2 :
          ShowsShare(Decode(made, 9)[axis], at[axis], cal["right"].center[axis],
                     cal["right"].below[axis], cal["right"].above[axis])
    BY <1>1, <1>2, <1>4
  <2> QED
    BY <2>1 DEF Shown, cal, at
<1> QED
  BY <1>2, <1>3, <1>5, <1>6 DEF made, l, r

\* After any exchange that makes a report.
LEMMA ReportReaches ==
    ASSUME CodecNext, input'.kind = "report"
    PROVE  InputReachesConsole'
<1>1. PICK pressed \in SUBSET ALL_SWITCH_XBOX_BUTTONS, x \in Int, y \in Int :
        /\ input' = [kind |-> "report", buttons |-> pressed, x |-> x, y |-> y]
        /\ output' = BaseReport(pressed, StickFromApi(x, y, "left"),
                                         StickFromApi(x, y, "right"))
  <2>1. CASE \E x, y \in Coordinates : MoveSticks(x, y)
    BY <2>1, CodecAssumption DEF CodecAssumption, MoveSticks
  <2>2. CASE \E buttons \in ButtonSets : HoldButtons(buttons)
    <3>1. PICK buttons \in ButtonSets : HoldButtons(buttons)
      BY <2>2
    <3>2. buttons \in SUBSET ALL_SWITCH_XBOX_BUTTONS
      BY CodecAssumption DEF CodecAssumption
    <3>3. /\ LEFT_STICK_CENTER_BYTES = StickFromApi(0, 0, "left")
          /\ RIGHT_STICK_CENTER_BYTES = StickFromApi(0, 0, "right")
      BY SticksAreSeen
    <3> QED
      BY <3>1, <3>2, <3>3 DEF HoldButtons
  <2>3. ASSUME NEW arguments, NEW address, NEW length PROVE ~ReadFlash(arguments, address, length)
    BY DEF ReadFlash
  <2>4. ASSUME NEW id, NEW length PROVE ~SendOutput(id, length)
    BY DEF SendOutput
  <2>5. ~NextExchange
    BY DEF NextExchange, Nothing
  <2> QED
    BY <2>1, <2>2, <2>3, <2>4, <2>5 DEF CodecNext, Exchange
<1>2. /\ output' \in [3 .. 11 -> Byte]
      /\ pressed = Down(output')
      /\ Shown(output', 6, "left", x, y) /\ Shown(output', 9, "right", x, y)
  BY <1>1, ReportShows
<1>3. input'.buttons = pressed /\ input'.x = x /\ input'.y = y
  BY <1>1
<1>4. StickShows("left", 6)' /\ StickShows("right", 9)'
  BY <1>2, <1>3, ConsoleHasCalibration, Zenon DEF StickShows, Shown
<1> QED
  BY <1>2, <1>3, <1>4 DEF InputReachesConsole, Down

\* Whatever buttons callers hold and wherever they put the sticks, the console
\* sees just that in the report.
THEOREM ConsoleSeesInput == CodecSpec => []InputReachesConsole
<1>1. CodecInit => InputReachesConsole
  BY DEF CodecInit, Nothing, InputReachesConsole
<1>2. InputReachesConsole /\ [CodecNext]_codecVars => InputReachesConsole'
  <2>1. CASE CodecNext
    <3>1. CASE input'.kind = "report"
      BY <2>1, <3>1, ReportReaches
    <3>2. CASE input'.kind # "report"
      BY <3>2 DEF InputReachesConsole
    <3> QED
      BY <3>1, <3>2
  <2>2. CASE UNCHANGED codecVars
    BY <2>2 DEF codecVars, InputReachesConsole, StickShows, ConsoleCalibration
  <2> QED
    BY <2>1, <2>2
<1> QED
  BY <1>1, <1>2, PTL DEF CodecSpec

\* A report of the console means the same behind the transaction header.
LEMMA ParseOutputAgrees ==
    ASSUME NEW id \in {1, 16}, NEW length \in Nat
    PROVE  LET report == [n \in 0 .. length - 1 |-> IF n = 0 THEN id ELSE n] IN
           ParseOutput(report)
             = ParseOutput([n \in 0 .. length |-> IF n = 0 THEN \hA2 ELSE report[n - 1]])
<1> DEFINE report == [n \in 0 .. length - 1 |-> IF n = 0 THEN id ELSE n]
           behind == [n \in 0 .. length |-> IF n = 0 THEN \hA2 ELSE report[n - 1]]
<1>1. Cardinality(DOMAIN report) = length /\ Cardinality(DOMAIN behind) = length + 1
  BY FS_Interval
<1>2. behind[0] = \hA2
  OBVIOUS
<1>3. CASE length < 12
  <2>1. ParseOutput(report) = Nothing
    BY <1>1, <1>3 DEF ParseOutput
  <2>2. ParseOutput(behind) = Nothing
    BY <1>1, <1>2, <1>3 DEF ParseOutput
  <2> QED
    BY <2>1, <2>2
<1>4. CASE length >= 12
  <2>1. report[0] = id /\ behind[1] = id /\ behind[11] = 10 /\ report[10] = 10
    BY <1>4
  <2> HIDE DEF report, behind
  <2>2. ParseOutput(behind) =
          IF behind[1] # 1 \/ length + 1 < 13 THEN Nothing
          ELSE [kind |-> "subcommand", subcommand |-> behind[11],
                arguments |-> (length + 1) - 12]
    <3>1. ASSUME NEW size \in Nat, size = length + 1
          PROVE  ~(size < 12) /\ 1 + 12 = 13 /\ 1 + 10 = 11 /\ 1 + 11 = 12
      BY <1>4, <3>1
    <3>2. (IF behind[0] = \hA2 THEN 1 ELSE 0) = 1
      BY <1>2
    <3> QED
      BY <1>1, <3>1, <3>2 DEF ParseOutput
  <2>3. CASE id # 1
    <3>1. ParseOutput(report) = Nothing
      BY <1>1, <1>4, <2>1, <2>3 DEF ParseOutput
    <3>2. ParseOutput(behind) = Nothing
      BY <2>1, <2>2, <2>3
    <3> QED
      BY <3>1, <3>2 DEF report, behind
  <2>4. CASE id = 1
    <3>1. ParseOutput(report) = [kind |-> "subcommand", subcommand |-> 10,
                                 arguments |-> length - 11]
      BY <1>1, <1>4, <2>1, <2>4 DEF ParseOutput
    <3>2. ParseOutput(behind) = [kind |-> "subcommand", subcommand |-> 10,
                                 arguments |-> (length + 1) - 12]
      BY <1>4, <2>1, <2>2, <2>4
    <3> QED
      BY <3>1, <3>2 DEF report, behind
  <2> QED
    BY <2>3, <2>4
<1> QED
  BY <1>3, <1>4

\* Whatever the console reads from the flash memory it gets as it is there, and
\* its reports of whatever length are understood the same over both transports.
THEOREM ConsoleUnderstood == CodecSpec => []ConsoleIsUnderstood
<1>1. CodecInit => ConsoleIsUnderstood
  BY DEF CodecInit, Nothing, ConsoleIsUnderstood
<1>2. ConsoleIsUnderstood /\ [CodecNext]_codecVars => ConsoleIsUnderstood'
  <2>1. CASE \E x, y \in Coordinates : MoveSticks(x, y)
    BY <2>1 DEF MoveSticks, ConsoleIsUnderstood
  <2>2. CASE \E buttons \in ButtonSets : HoldButtons(buttons)
    BY <2>2 DEF HoldButtons, ConsoleIsUnderstood
  <2>3. ASSUME NEW arguments \in {4, 5}, NEW address \in Addresses, NEW length \in Lengths,
               ReadFlash(arguments, address, length)
        PROVE  ConsoleIsUnderstood'
    <3>1. address \in Nat /\ length \in Nat
      BY CodecAssumption DEF CodecAssumption, Byte
    <3>2. /\ input'.kind = "read" /\ input'.arguments = arguments
          /\ input'.address = address /\ input'.length = length
          /\ output' = CmdSpiRead(arguments, address, length)
      BY <2>3 DEF ReadFlash
    <3>3. CASE arguments # 5
      BY <3>2, <3>3 DEF ConsoleIsUnderstood
    <3>4. CASE arguments = 5
      <4>1. /\ DOMAIN output' = {n \in 0 .. 34 : n < 5 + length}
            /\ \A n \in DOMAIN output' : n > 4 => FlashHas(address + n - 5, output'[n])
        BY <3>1, <3>2, <3>4, ReplyFacts
      <4> QED
        BY <3>2, <4>1 DEF ConsoleIsUnderstood
    <3> QED
      BY <3>3, <3>4
  <2>4. ASSUME NEW id \in {1, 16}, NEW length \in OutputLengths, SendOutput(id, length)
        PROVE  ConsoleIsUnderstood'
    <3>1. length \in Nat
      BY CodecAssumption DEF CodecAssumption
    <3>2. input'.kind = "output" /\ output'.usb = output'.bluetooth
      BY <2>4, <3>1, ParseOutputAgrees DEF SendOutput
    <3> QED
      BY <3>2 DEF ConsoleIsUnderstood
  <2>5. CASE NextExchange
    BY <2>5 DEF NextExchange, Nothing, ConsoleIsUnderstood
  <2>6. CASE UNCHANGED codecVars
    BY <2>6 DEF codecVars, ConsoleIsUnderstood
  <2> QED
    BY <2>1, <2>2, <2>3, <2>4, <2>5, <2>6 DEF CodecNext, Exchange
<1> QED
  BY <1>1, <1>2, PTL DEF CodecSpec

-----------------------------------------------------------------------------
USE ConstantsAssumption DEF ConstantsAssumption

(***************************************************************************)
(* The end of a sequence                                                   *)
(***************************************************************************)
After(s, k) == SubSeq(s, k + 1, Len(s))

\* What comes after the k-th element, as a sequence.
LEMMA AfterFacts ==
    ASSUME NEW S, NEW s \in Seq(S), NEW k \in 0 .. Len(s)
    PROVE  /\ After(s, k) \in Seq(S) /\ Len(After(s, k)) = Len(s) - k
           /\ \A i \in 1 .. (Len(s) - k) : After(s, k)[i] = s[k + i]
<1>1. Len(s) \in Nat /\ \A i \in (k + 1) .. Len(s) : s[i] \in S
  OBVIOUS
<1> QED
  BY <1>1, SubSeqProperties DEF After

\* An element added to a sequence is added to its end.
LEMMA AfterAppend ==
    ASSUME NEW S, NEW s \in Seq(S), NEW k \in 0 .. Len(s), NEW m \in S
    PROVE  After(Append(s, m), k) = Append(After(s, k), m)
<1> DEFINE longer == Append(s, m)
           old == After(s, k)
           new == After(longer, k)
<1>1. longer \in Seq(S) /\ Len(longer) = Len(s) + 1 /\ k \in 0 .. Len(longer)
  OBVIOUS
<1>4. \A i \in 1 .. (Len(s) + 1) : longer[i] = IF i <= Len(s) THEN s[i] ELSE m
  OBVIOUS
<1> HIDE DEF longer
<1>2. /\ old \in Seq(S) /\ Len(old) = Len(s) - k /\ Len(s) \in Nat
      /\ \A i \in 1 .. (Len(s) - k) : old[i] = s[k + i]
  BY AfterFacts
<1>3. /\ new \in Seq(S) /\ Len(new) = Len(s) + 1 - k
      /\ \A i \in 1 .. (Len(s) + 1 - k) : new[i] = longer[k + i]
  <2>1. /\ new \in Seq(S) /\ Len(new) = Len(longer) - k
        /\ \A i \in 1 .. (Len(longer) - k) : new[i] = longer[k + i]
    BY <1>1, AfterFacts, Zenon
  <2> QED
    BY <1>1, <2>1
<1> HIDE DEF old, new
<1>7. Append(old, m) \in Seq(S) /\ Len(Append(old, m)) = Len(old) + 1
  BY <1>2
<1>5. Append(old, m) \in Seq(S) /\ Len(Append(old, m)) = Len(new)
  BY <1>2, <1>3, <1>7
<1>6. ASSUME NEW i \in 1 .. Len(new) PROVE new[i] = Append(old, m)[i]
  BY <1>2, <1>3, <1>4
<1> QED
  BY <1>3, <1>5, <1>6, SeqEqual DEF old, new, longer

\* Taking its first element off leaves the end after one more.
LEMMA AfterTail ==
    ASSUME NEW S, NEW s \in Seq(S), NEW k \in 0 .. Len(s), After(s, k) # <<>>
    PROVE  /\ k + 1 \in 0 .. Len(s)
           /\ Head(After(s, k)) = s[k + 1] /\ s[k + 1] \in S
           /\ Tail(After(s, k)) = After(s, k + 1)
<1> DEFINE old == After(s, k)
           new == After(s, k + 1)
<1>1. /\ old \in Seq(S) /\ Len(old) = Len(s) - k
      /\ \A i \in 1 .. (Len(s) - k) : old[i] = s[k + i]
  BY AfterFacts
<1>2. Len(old) # 0 /\ k + 1 \in 0 .. Len(s)
  BY <1>1
<1>3. /\ new \in Seq(S) /\ Len(new) = Len(s) - (k + 1)
      /\ \A i \in 1 .. (Len(s) - (k + 1)) : new[i] = s[k + 1 + i]
  BY <1>2, AfterFacts
<1> HIDE DEF old, new
<1>4. /\ Head(old) = old[1] /\ Tail(old) \in Seq(S) /\ Len(Tail(old)) = Len(old) - 1
      /\ \A i \in 1 .. (Len(old) - 1) : Tail(old)[i] = old[i + 1]
  BY <1>1, <1>2
<1>5. ASSUME NEW i \in 1 .. Len(new) PROVE new[i] = Tail(old)[i]
  <2>1. i \in 1 .. (Len(s) - (k + 1)) /\ i \in 1 .. (Len(old) - 1)
    BY <1>1, <1>3
  <2>2. i + 1 \in 1 .. (Len(s) - k) /\ k + 1 + i = k + (i + 1)
    BY <2>1
  <2>3. new[i] = s[k + 1 + i] /\ Tail(old)[i] = old[i + 1]
    BY <1>3, <1>4, <2>1
  <2>4. old[i + 1] = s[k + (i + 1)]
    BY <1>1, <2>2
  <2> QED
    BY <2>2, <2>3, <2>4
<1>6. Len(Tail(old)) = Len(new)
  BY <1>1, <1>3, <1>4
<1>7. Tail(old) = new
  BY <1>3, <1>4, <1>5, <1>6, SeqEqual
<1> QED
  BY <1>1, <1>2, <1>4, <1>7 DEF old, new

(***************************************************************************)
(* The inductive invariant                                                 *)
(***************************************************************************)
\* The handshake goes to send a report before its deadline only.
InTime == pc = "report" => clock < Timeout

\* There is an answer for each report read, and each read report was sent.
ReadInTurn == Len(replies) \in 0 .. Len(asked)

ProtocolInv == TypeOK /\ InTime /\ ReadInTurn /\ NothingSkipped

\* The console sends: its report waits behind the others.
LEMMA SendKeeps ==
    ASSUME ProtocolInv, NEW m \in Reports, ConsoleSends(m)
    PROVE  ProtocolInv'
<1> USE DEF ProtocolInv
<1>1. /\ asked \in Seq(Reports) /\ inbox = After(asked, Len(replies))
      /\ asked' = Append(asked, m) /\ inbox' = Append(inbox, m) /\ replies' = replies
      /\ usb' = usb /\ Len(replies) \in 0 .. Len(asked)
  BY DEF ConsoleSends, TypeOK, ReadInTurn, NothingSkipped, After
<1>2. inbox' = After(asked', Len(replies'))
  BY <1>1, AfterAppend
<1>3. Len(asked') = Len(asked) + 1 /\ \A n \in 1 .. Len(asked) : asked'[n] = asked[n]
  BY <1>1
<1>4. TypeOK' /\ InTime' /\ ReadInTurn'
  <2>1. asked' \in Seq(Reports) /\ inbox' \in Seq(Reports)
    BY <1>1 DEF TypeOK
  <2>2. ReadInTurn'
    BY <1>1, <1>3 DEF ReadInTurn
  <2> QED
    BY <2>1, <2>2 DEF ConsoleSends, TypeOK, InTime
<1>5. \A n \in DOMAIN replies' : replies'[n] \in Due(asked[n])'
  <2> SUFFICES ASSUME NEW n \in DOMAIN replies' PROVE replies'[n] \in Due(asked[n])'
    OBVIOUS
  <2>1. n \in 1 .. Len(asked) /\ replies[n] \in Due(asked[n])
    BY <1>1 DEF TypeOK, NothingSkipped
  <2> QED
    BY <1>1, <1>3, <2>1 DEF Due
<1> QED
  BY <1>2, <1>4, <1>5 DEF NothingSkipped, After

\* What is read is answered with what it calls for.
LEMMA HandleFacts ==
    ASSUME TypeOK, NEW m, Handle(m), usb' = usb
    PROVE  /\ \E reply \in Due(m) : replies' = Append(replies, reply)
           /\ vibration' \in BOOLEAN /\ player' \in 0 .. 2
<1>1. CASE m \in Subcommands
  <2>1. HandleSubcommand(m)
    BY <1>1 DEF Handle
  <2>2. PlayerMap(m) \in {0, 1, 2}
    BY Zenon DEF PlayerMap
  <2>3. vibration' \in BOOLEAN
    BY <2>1, Zenon DEF HandleSubcommand, TypeOK
  <2>4. player' \in 0 .. 2
    BY <2>1, <2>2 DEF HandleSubcommand, TypeOK
  <2>5. \E reply \in Due(m) : replies' = Append(replies, reply)
    BY <1>1, <2>1 DEF HandleSubcommand, Due
  <2> QED
    BY <2>3, <2>4, <2>5
<1>2. CASE m \notin Subcommands
  BY <1>2 DEF Handle, Due, TypeOK
<1> QED
  BY <1>1, <1>2

\* Reading the first report that waits, and answering it, keeps all in turn.
LEMMA ReadKeeps ==
    ASSUME ProtocolInv, inbox # <<>>, inbox' = Tail(inbox), UNCHANGED <<asked, usb>>,
           NEW reply \in Due(Head(inbox)), replies' = Append(replies, reply)
    PROVE  /\ inbox' \in Seq(Reports)
           /\ replies' \in Seq(Subcommands \cup {"dropped", "none"})
           /\ ReadInTurn' /\ NothingSkipped'
<1> DEFINE k == Len(replies)
<1>1. /\ asked \in Seq(Reports) /\ k \in 0 .. Len(asked) /\ inbox = After(asked, k)
      /\ replies \in Seq(Subcommands \cup {"dropped", "none"})
  BY DEF ProtocolInv, TypeOK, ReadInTurn, NothingSkipped, After
<1>2. /\ k + 1 \in 0 .. Len(asked) /\ Head(inbox) = asked[k + 1]
      /\ inbox' = After(asked, k + 1)
  BY <1>1, AfterTail
<1>3. After(asked, k + 1) \in Seq(Reports)
  BY <1>1, <1>2, AfterFacts
<1>4. reply \in Subcommands \cup {"dropped", "none"}
  BY DEF Due
<1>5. /\ replies' \in Seq(Subcommands \cup {"dropped", "none"}) /\ Len(replies') = k + 1
      /\ \A n \in 1 .. k : replies'[n] = replies[n]
      /\ replies'[k + 1] = reply
  BY <1>1, <1>4
<1>6. NothingSkipped'
  <2>1. inbox' = After(asked', Len(replies'))
    BY <1>2, <1>5
  <2>2. ASSUME NEW n \in DOMAIN replies' PROVE replies'[n] \in Due(asked[n])'
    <3>1. n \in 1 .. (k + 1) /\ DOMAIN replies = 1 .. k /\ k \in Nat
      BY <1>1, <1>5
    <3>2. CASE n = k + 1
      BY <1>2, <1>5, <3>2 DEF Due
    <3>3. CASE n # k + 1
      <4>1. n \in 1 .. k
        BY <3>1, <3>3
      <4>2. replies[n] \in Due(asked[n])
        BY <3>1, <4>1 DEF ProtocolInv, NothingSkipped
      <4> QED
        BY <1>5, <4>1, <4>2 DEF Due
    <3> QED
      BY <3>2, <3>3
  <2> QED
    BY <2>1, <2>2 DEF NothingSkipped, After
<1>7. ReadInTurn'
  BY <1>2, <1>5 DEF ReadInTurn
<1> QED
  BY <1>2, <1>3, <1>5, <1>6, <1>7

\* A turn that reads nothing leaves what waits alone.
LEMMA StillInTurn ==
    ASSUME ProtocolInv, UNCHANGED <<inbox, asked, replies, usb>>
    PROVE  /\ inbox' \in Seq(Reports) /\ asked' \in Seq(Reports)
           /\ replies' \in Seq(Subcommands \cup {"dropped", "none"})
           /\ usb' \in BOOLEAN /\ ReadInTurn' /\ NothingSkipped'
BY DEF ProtocolInv, TypeOK, ReadInTurn, NothingSkipped, Due

\* The steps of the handshake that both transports share.
LEMMA HandshakeKeeps ==
    ASSUME ProtocolInv, Handshake \/ SendFails PROVE ProtocolInv'
<1>1. CASE Receive
  <2>1. /\ clock \in 0 .. (Timeout + SlowSleep) /\ clock < Timeout
        /\ UNCHANGED <<asked, usb>>
    BY <1>1 DEF Receive, ProtocolInv, TypeOK
  <2>2. received' \in BOOLEAN
    BY <1>1, Zenon DEF Receive, ProtocolInv, TypeOK
  <2>3. pc' \in {"loop", "report"} /\ clock' \in {clock, clock + 1}
        /\ (pc' = "report" => clock' = clock)
    BY <1>1 DEF Receive, Pass
  <2>4. InTime'
    BY <2>1, <2>3 DEF InTime
  <2>5. clock' \in 0 .. (Timeout + SlowSleep)
    BY <2>1, <2>3
  <2>6. CASE inbox = <<>>
    <3>1. UNCHANGED <<inbox, replies, vibration, player>>
      BY <1>1, <2>6 DEF Receive
    <3>2. vibration' \in BOOLEAN /\ player' \in 0 .. 2
      BY <3>1 DEF ProtocolInv, TypeOK
    <3> QED
      BY <2>1, <2>2, <2>3, <2>4, <2>5, <3>1, <3>2, StillInTurn DEF ProtocolInv, TypeOK
  <2>7. CASE inbox # <<>>
    <3>1. inbox' = Tail(inbox) /\ Handle(Head(inbox))
      BY <1>1, <2>7 DEF Receive
    <3>2. vibration' \in BOOLEAN /\ player' \in 0 .. 2
      BY <2>1, <3>1, HandleFacts DEF ProtocolInv
    <3>3. PICK reply \in Due(Head(inbox)) : replies' = Append(replies, reply)
      BY <2>1, <3>1, HandleFacts DEF ProtocolInv
    <3>4. /\ inbox' \in Seq(Reports)
          /\ replies' \in Seq(Subcommands \cup {"dropped", "none"})
          /\ ReadInTurn' /\ NothingSkipped'
      BY <2>1, <2>7, <3>1, <3>3, ReadKeeps
    <3> QED
      BY <2>1, <2>2, <2>3, <2>4, <2>5, <3>2, <3>4 DEF ProtocolInv, TypeOK
  <2> QED
    BY <2>6, <2>7
<1>2. CASE SendReport
  <2>1. clock' \in 0 .. (Timeout + SlowSleep)
    BY <1>2 DEF SendReport, Pass, ProtocolInv, TypeOK, InTime
  <2>2. pc' \in {"ready", "loop"}
        /\ UNCHANGED <<inbox, asked, replies, vibration, player, received, usb>>
    BY <1>2 DEF SendReport
  <2> QED
    BY <2>1, <2>2, StillInTurn DEF ProtocolInv, TypeOK, InTime
<1>3. CASE TimeOut \/ SendFails
  BY <1>3, StillInTurn DEF TimeOut, SendFails, ProtocolInv, TypeOK, InTime
<1> QED
  BY <1>1, <1>2, <1>3 DEF Handshake

\* A report that is read outside the handshake loop: by the keep-alive thread,
\* or at the end of the command phase.
LEMMA AttendKeeps ==
    ASSUME ProtocolInv, inbox # <<>>, inbox' = Tail(inbox), Handle(Head(inbox)),
           UNCHANGED <<asked, received, usb, clock>>, pc' \in {pc, "loop"}
    PROVE  ProtocolInv'
<1>1. vibration' \in BOOLEAN /\ player' \in 0 .. 2
  BY HandleFacts DEF ProtocolInv
<1>2. PICK reply \in Due(Head(inbox)) : replies' = Append(replies, reply)
  BY HandleFacts DEF ProtocolInv
<1>3. /\ inbox' \in Seq(Reports)
      /\ replies' \in Seq(Subcommands \cup {"dropped", "none"})
      /\ ReadInTurn' /\ NothingSkipped'
  BY <1>2, ReadKeeps
<1> QED
  BY <1>1, <1>3 DEF ProtocolInv, TypeOK, InTime

\* The steps of the command phase. A command calls for no reply to a subcommand.
LEMMA PhaseKeeps ==
    ASSUME ProtocolInv, UsbPhase PROVE ProtocolInv'
<1>1. CASE PhaseGoesQuiet \/ PhaseTimesOut
  BY <1>1, StillInTurn
     DEF PhaseGoesQuiet, PhaseTimesOut, EndPhase, ProtocolInv, TypeOK, InTime
<1>2. CASE HandleCommand
  <2>1. /\ inbox # <<>> /\ inbox' = Tail(inbox) /\ Head(inbox) \notin Subcommands
        /\ replies' = Append(replies, "none")
        /\ UNCHANGED <<asked, vibration, player, received, usb, clock>>
        /\ pc' \in {pc, "loop"}
    BY <1>2 DEF HandleCommand, EndPhase, Commands, Subcommands, Lights
  <2>2. Handle(Head(inbox))
    BY <2>1 DEF Handle
  <2> QED
    BY <2>1, <2>2, AttendKeeps
<1>3. CASE HandleStrayReport
  BY <1>3, AttendKeeps DEF HandleStrayReport, EndPhase
<1> QED
  BY <1>1, <1>2, <1>3 DEF UsbPhase

\* Without a step of the protocol nothing changes.
LEMMA StutterKeeps ==
    ASSUME ProtocolInv, UNCHANGED vars PROVE ProtocolInv'
BY StillInTurn DEF vars, ProtocolInv, TypeOK, InTime

(***************************************************************************)
(* The theorems                                                            *)
(***************************************************************************)
\* Over either transport, the initial state and every step keep the invariant.
LEMMA Inductive ==
    /\ Init \/ UsbInit => ProtocolInv
    /\ ProtocolInv /\ ([Next]_vars \/ [UsbNext]_usbVars) => ProtocolInv'
<1>1. Init \/ UsbInit => ProtocolInv
  <2> SUFFICES ASSUME Init \/ UsbInit PROVE ProtocolInv
    OBVIOUS
  <2>1. TypeOK /\ InTime
    <3>1. /\ inbox = <<>> /\ asked = <<>> /\ replies = <<>>
          /\ player = 0 /\ clock = 0 /\ pc \in {"usb", "loop"}
          /\ vibration \in BOOLEAN /\ received \in BOOLEAN /\ usb \in BOOLEAN
      BY Zenon DEF Init, UsbInit
    <3>2. \A S : <<>> \in Seq(S)
      OBVIOUS
    <3>3. 0 \in 0 .. (Timeout + SlowSleep)
      OBVIOUS
    <3> QED
      BY <3>1, <3>2, <3>3 DEF TypeOK, InTime
  <2>2. inbox = <<>> /\ asked = <<>> /\ replies = <<>>
    BY DEF Init, UsbInit
  <2>3. Len(<<>>) = 0 /\ DOMAIN <<>> = {} /\ SubSeq(asked, 1, 0) = <<>>
    BY SubSeqEmpty
  <2> QED
    BY <2>1, <2>2, <2>3 DEF ProtocolInv, ReadInTurn, NothingSkipped
<1>2. ASSUME ProtocolInv, ProcessIncoming PROVE ProtocolInv'
  BY <1>2, AttendKeeps DEF ProcessIncoming
<1>3. ASSUME ProtocolInv, [Next]_vars PROVE ProtocolInv'
  BY <1>2, <1>3, SendKeeps, HandshakeKeeps, StutterKeeps DEF Next
<1>4. ASSUME ProtocolInv, [UsbNext]_usbVars PROVE ProtocolInv'
  BY <1>2, <1>4, SendKeeps, HandshakeKeeps, PhaseKeeps, StutterKeeps
     DEF UsbNext, HostSends, Tick, usbVars
<1> QED
  BY <1>1, <1>3, <1>4

\* The invariant holds in every state either transport reaches.
THEOREM Invariance == Spec \/ UsbSpec => []ProtocolInv
<1>1. Spec => []ProtocolInv
  BY Inductive, PTL DEF Spec
<1>2. UsbSpec => []ProtocolInv
  BY Inductive, PTL DEF UsbSpec
<1> QED
  BY <1>1, <1>2

\* Type correctness; in particular the handshake overshoots its deadline by one
\* sleep at most.
THEOREM TypeCorrect == Spec \/ UsbSpec => []TypeOK
<1>1. ProtocolInv => TypeOK
  BY DEF ProtocolInv
<1> QED
  BY <1>1, Invariance, PTL

\* Each subcommand is replied to once and in turn, over Bluetooth without
\* exception, over USB at the cost of what a busy endpoint drops.
THEOREM EachInTurn == Spec \/ UsbSpec => []NothingSkipped
<1>1. ProtocolInv => NothingSkipped
  BY DEF ProtocolInv
<1> QED
  BY <1>1, Invariance, PTL

\* Over Bluetooth, where a send that fails ends the conversation, no reply is lost
\* on the way: each subcommand read has its own reply.
THEOREM BluetoothDropsNothing ==
    Spec => [](\A n \in DOMAIN replies : asked[n] \in Subcommands => replies[n] = asked[n])
<1> DEFINE Whole == ~usb
           Replied == \A n \in DOMAIN replies : asked[n] \in Subcommands => replies[n] = asked[n]
<1>1. Init => Whole
  BY DEF Init
<1>2. Whole /\ [Next]_vars => Whole'
  BY DEF Next, vars, Handshake, ConsoleSends, Receive, SendReport, TimeOut, SendFails,
         ProcessIncoming
<1>3. ProtocolInv /\ Whole => Replied
  BY DEF ProtocolInv, NothingSkipped, Due
<1>4. Spec => []Whole
  BY <1>1, <1>2, PTL DEF Spec
<1>5. Spec => []ProtocolInv
  BY Invariance
<1> HIDE DEF Whole, Replied
<1>6. Spec => []Replied
  BY <1>3, <1>4, <1>5, PTL
<1> QED
  BY <1>6 DEF Replied

=============================================================================
