--------------------------- MODULE ReadingsProofs ----------------------------
(***************************************************************************)
(* Proofs about Readings: for every value of every register, what is       *)
(* published is what the data sheet says, and what is written reads back.  *)
(***************************************************************************)
EXTENDS Readings, TLAPS

-----------------------------------------------------------------------------
(* One lemma for each conversion: arithmetic with constant divisors.  The  *)
(* prover handles bounds as inequalities better than as intervals.         *)

LEMMA LargestWord == UINT16_MAX \in Int /\ UINT16_MAX = 65535
BY DEF UINT16_MAX

LEMMA Words ==
    ASSUME NEW raw \in UINT16
    PROVE  raw \in Nat /\ raw < 65536
<1>1. raw \in Nat /\ raw <= UINT16_MAX
  BY LargestWord DEF UINT16
<1>2. raw < 65536
  BY <1>1, LargestWord
<1> QED
  BY <1>1, <1>2

LEMMA WordsAre ==
    ASSUME NEW raw \in Nat, raw < 65536
    PROVE  raw \in UINT16
<1>1. UINT16_MAX \in Int /\ raw <= UINT16_MAX
  BY LargestWord
<1> QED
  BY <1>1 DEF UINT16

LEMMA BytesOfAWord ==
    ASSUME NEW raw \in Nat, raw < 65536
    PROVE  /\ HighByte(raw) \in Nat /\ HighByte(raw) < 256
           /\ LowByte(raw) \in Nat /\ LowByte(raw) < 256
BY DEF HighByte, LowByte

LEMMA SignedByteIs ==
    ASSUME NEW b \in Nat, b < 256
    PROVE  AsInt8(b) = SignedByte(b) /\ AsInt8(b) \in Int
BY DEF AsInt8, SignedByte

LEMMA SignedWordIs ==
    ASSUME NEW raw \in Nat, raw < 65536
    PROVE  /\ AsInt16(raw) = SignedWord(raw)
           /\ SignedWord(raw) \in Int
           /\ -32769 < SignedWord(raw) /\ SignedWord(raw) < 32768
BY DEF AsInt16, SignedWord

LEMMA Int16Keeps ==
    ASSUME NEW v \in Int, -32769 < v, v < 32768
    PROVE  AsInt16(v) = v
BY DEF AsInt16

LEMMA AverageTemperatureIs ==
    ASSUME NEW raw \in Nat, raw < 32768
    PROVE  LET v == AsInt16(AverageTemperature(raw)) IN
           /\ v \in Int
           /\ v * 10 - (raw - 2730) < 10
           /\ (raw - 2730) - v * 10 < 10
<1> DEFINE t == AverageTemperature(raw)
<1>1. AsInt16(raw) = raw
  BY Int16Keeps
<1>2. t = raw \div 10 - 273
  BY <1>1 DEF AverageTemperature, CDiv
<1>3. /\ t \in Int /\ -32769 < t /\ t < 32768
      /\ t * 10 - (raw - 2730) < 10
      /\ (raw - 2730) - t * 10 < 10
  BY <1>2
<1> HIDE DEF t
<1>4. AsInt16(t) = t
  BY <1>3, Int16Keeps
<1> QED
  BY <1>3, <1>4 DEF t

\* With the sign bit set the temperature is below any that the cell can hold.
LEMMA NegativeTemperatureIs ==
    ASSUME NEW raw \in Nat, 32768 <= raw, raw < 65536
    PROVE  /\ AsInt16(AverageTemperature(raw)) \in Int
           /\ AsInt16(AverageTemperature(raw)) < -128
<1> DEFINE t == AverageTemperature(raw)
<1>1. AsInt16(raw) = raw - 65536
  BY DEF AsInt16
<1>2. t = -((65536 - raw) \div 10) - 273
  BY <1>1 DEF AverageTemperature, CDiv
<1>3. t \in Int /\ -32769 < t /\ t < -128
  BY <1>2
<1> HIDE DEF t
<1>4. AsInt16(t) = t
  BY <1>3, Int16Keeps
<1> QED
  BY <1>3, <1>4 DEF t

LEMMA VoltageIs ==
    ASSUME NEW raw \in Nat, raw < 65536
    PROVE  LET v == AsUint16(Voltage(raw)) IN
           /\ v \in Nat /\ v < 5120
           /\ v * 64 - raw * 5 < 64 /\ raw * 5 - v * 64 < 64
BY DEF Voltage, AsUint16

LEMMA BattVoltageIs ==
    ASSUME NEW raw \in Nat, raw < 65536
    PROVE  LET v == BattVoltage(raw) IN
           /\ v \in Nat /\ v < 81919
           /\ v * 4 - raw * 5 < 4 /\ raw * 5 - v * 4 < 4
BY DEF BattVoltage

LEMMA ByteVoltagesAre ==
    ASSUME NEW raw \in Nat, raw < 65536
    PROVE  /\ AsUint16(MaxVoltage(raw)) = HighByte(raw) * 20
           /\ AsUint16(MinVoltage(raw)) = LowByte(raw) * 20
<1>1. \A b \in Nat : b < 256 => AsUint16(b * 20) = b * 20
  BY DEF AsUint16
<1> QED
  BY <1>1, BytesOfAWord DEF MaxVoltage, MinVoltage

LEMMA CurrentIs ==
    ASSUME NEW raw \in Nat, raw < 65536
    PROVE  LET v == AsInt16(Current(raw)) IN
           /\ v \in Int
           /\ v * 160 - SignedWord(raw) * 25 < 160
           /\ SignedWord(raw) * 25 - v * 160 < 160
<1> DEFINE w == SignedWord(raw)
<1>1. w \in Int /\ -32769 < w /\ w < 32768
  BY SignedWordIs
<1> DEFINE q == CDiv(w * 15625, 100000)
<1>2. Current(raw) = AsInt16(q)
  BY SignedWordIs DEF Current, RsenseMohms
<1> HIDE DEF w
<1>3. /\ q \in Int /\ -32769 < q /\ q < 32768
      /\ q * 160 - w * 25 < 160
      /\ w * 25 - q * 160 < 160
  BY <1>1 DEF CDiv
<1> HIDE DEF q
<1>4. AsInt16(q) = q
  BY <1>3, Int16Keeps
<1> QED
  BY <1>2, <1>3, <1>4 DEF w

LEMMA CapacityIs ==
    ASSUME NEW raw \in Nat, raw < 65536
    PROVE  LET v == Capacity(raw) IN
           /\ v \in Nat /\ v < 32768
           /\ v * 10 - raw * 5 < 10 /\ raw * 5 - v * 10 < 10
BY DEF Capacity, RsenseMohms

LEMMA TimeIs ==
    ASSUME NEW raw \in Nat, raw < 65536
    PROVE  LET v == Time(raw) IN
           /\ v \in Nat
           /\ v * 8 - raw * 45 < 8 /\ raw * 45 - v * 8 < 8
BY DEF Time

LEMMA PercentageIs ==
    ASSUME NEW raw \in Nat, raw < 65536
    PROVE  LET v == AsUint8(Percentage(raw)) IN
           /\ v \in Int
           /\ v * 256 - raw < 256 /\ raw - v * 256 < 256
BY DEF Percentage, AsUint8

LEMMA CyclesIs ==
    ASSUME NEW raw \in Nat, raw < 65536
    PROVE  LET v == AsUint16(Cycles(raw)) IN
           /\ v \in Int
           /\ v * 25 - raw * 4 < 25 /\ raw * 4 - v * 25 < 25
BY DEF Cycles, AsUint16

LEMMA CapacityComesBack ==
    ASSUME NEW raw \in Nat, raw < 65536
    PROVE  LET e == EncodeCapacity(Capacity(raw)) IN
           /\ e \in Nat /\ e < 65536
           /\ Capacity(e) = Capacity(raw)
<1> DEFINE mAh == Capacity(raw)
<1>1. mAh \in Nat /\ mAh < 32768
  BY CapacityIs
<1> HIDE DEF mAh
<1>2. EncodeCapacity(mAh) = 2 * mAh
  BY <1>1 DEF EncodeCapacity, AsUint16, RsenseMohms
<1>3. Capacity(2 * mAh) = mAh
  BY <1>1 DEF Capacity, RsenseMohms
<1>4. 2 * mAh \in Nat /\ 2 * mAh < 65536
  BY <1>1
<1> QED
  BY <1>2, <1>3, <1>4 DEF mAh

LEMMA ClampsAgree ==
    ASSUME NEW raw \in Nat, raw < 65536
    PROVE  Capacity(ClampedRaw(ClampedRaw(raw)))
               = Clamp(Capacity(raw), 0, CELL_CAPACITY_MAH)
<1>1. ClampedRaw(ClampedRaw(raw)) = ClampedRaw(raw)
  BY DEF ClampedRaw, CELL_CAPACITY_MAH_RAW
<1>2. CASE raw < 5200
  <2>1. Capacity(raw) \in Nat /\ Capacity(raw) < 2601
    BY <1>2 DEF Capacity, RsenseMohms
  <2> QED
    BY <1>1, <1>2, <2>1 DEF ClampedRaw, CELL_CAPACITY_MAH_RAW, Clamp, CELL_CAPACITY_MAH
<1>3. CASE ~(raw < 5200)
  <2>1. Capacity(raw) \in Nat /\ 2600 <= Capacity(raw) /\ Capacity(5200) = 2600
    BY <1>3 DEF Capacity, RsenseMohms
  <2> QED
    BY <1>1, <1>3, <2>1 DEF ClampedRaw, CELL_CAPACITY_MAH_RAW, Clamp, CELL_CAPACITY_MAH
<1> QED
  BY <1>2, <1>3

LEMMA StageComesBack ==
    ASSUME NEW s \in 0 .. 7
    PROVE  LET e == EncodeLearnStage(s) IN
           LearnStage(e) = s /\ e - LearnStage(e) * 16 = 9730
BY DEF EncodeLearnStage, LearnStage

-----------------------------------------------------------------------------
(* The channels.                                                           *)

Kinds == AverageTemperatures \cup CellVoltages \cup Currents \cup Capacities
         \cup Times \cup Percentages
         \cup {"TEMP_MAX", "TEMP_MIN", "VOLTAGE", "V_CELL_MAX", "V_CELL_MIN",
               "CURRENT_MAX", "CURRENT_MIN", "CYCLE_COUNT"}

LEMMA ChannelsAreKinds == Channels \subseteq Kinds
BY DEF Channels, Register, Kinds, AverageTemperatures, CellVoltages, Currents,
       Capacities, Times, Percentages

LEMMA Fields ==
    ASSUME NEW raw
    PROVE  /\ \A c \in AverageTemperatures :
                 Field(c, raw) = AsInt16(AverageTemperature(raw))
           /\ \A c \in CellVoltages : Field(c, raw) = AsUint16(Voltage(raw))
           /\ \A c \in Currents : Field(c, raw) = AsInt16(Current(raw))
           /\ \A c \in Capacities : Field(c, raw) = Capacity(raw)
           /\ \A c \in Times : Field(c, raw) = Time(raw)
           /\ \A c \in Percentages : Field(c, raw) = AsUint8(Percentage(raw))
           /\ Field("TEMP_MAX", raw) = AsInt8(HighByte(raw))
           /\ Field("TEMP_MIN", raw) = AsInt8(LowByte(raw))
           /\ Field("VOLTAGE", raw) = BattVoltage(raw)
           /\ Field("V_CELL_MAX", raw) = AsUint16(MaxVoltage(raw))
           /\ Field("V_CELL_MIN", raw) = AsUint16(MinVoltage(raw))
           /\ Field("CYCLE_COUNT", raw) = AsUint16(Cycles(raw))
BY DEF Field, Converted, AverageTemperatures, CellVoltages, Currents, Capacities,
       Times, Percentages

LEMMA Meanings ==
    ASSUME NEW raw
    PROVE  /\ \A c \in AverageTemperatures :
                 Meaning(c, raw) = [num |-> raw - 2730, den |-> 10]
           /\ \A c \in CellVoltages : Meaning(c, raw) = [num |-> raw * 5, den |-> 64]
           /\ \A c \in Currents :
                 Meaning(c, raw) = [num |-> SignedWord(raw) * 25, den |-> 16 * RsenseMohms]
           /\ \A c \in Capacities :
                 Meaning(c, raw) = [num |-> raw * 5, den |-> RsenseMohms]
           /\ \A c \in Times : Meaning(c, raw) = [num |-> raw * 45, den |-> 8]
           /\ \A c \in Percentages : Meaning(c, raw) = [num |-> raw, den |-> 256]
           /\ Meaning("TEMP_MAX", raw) = [num |-> SignedByte(HighByte(raw)), den |-> 1]
           /\ Meaning("TEMP_MIN", raw) = [num |-> SignedByte(LowByte(raw)), den |-> 1]
           /\ Meaning("VOLTAGE", raw) = [num |-> raw * 5, den |-> 4]
           /\ Meaning("V_CELL_MAX", raw) = [num |-> HighByte(raw) * 20, den |-> 1]
           /\ Meaning("V_CELL_MIN", raw) = [num |-> LowByte(raw) * 20, den |-> 1]
           /\ Meaning("CYCLE_COUNT", raw) = [num |-> raw * 4, den |-> 25]
BY DEF Meaning, AverageTemperatures, CellVoltages, Currents, Capacities,
       Times, Percentages

LEMMA Publishing ==
    ASSUME NEW raw
    PROVE  /\ \A c \in AverageTemperatures :
                 /\ Published(c, raw) = Clamp(Field(c, raw), -128, 127)
                 /\ LowestOf(c) = -128 /\ HighestOf(c) = 127
           /\ \A c \in Capacities \cup Times \cup {"VOLTAGE"} :
                 /\ Published(c, raw) = Clamp(Field(c, raw), 0, UINT16_MAX)
                 /\ HighestOf(c) = UINT16_MAX
           /\ \A c \in CellVoltages \cup Currents \cup Percentages
                       \cup {"TEMP_MAX", "TEMP_MIN", "V_CELL_MAX", "V_CELL_MIN",
                             "CYCLE_COUNT"} :
                 Published(c, raw) = Field(c, raw)
BY DEF Published, LowestOf, HighestOf, AverageTemperatures, CellVoltages, Currents,
       Capacities, Times, Percentages

\* A value that is not clamped, or is clamped into 16 bits, stays faithful.
LEMMA Unclamped ==
    ASSUME NEW v \in Int, NEW n \in Int, NEW d \in Nat, d > 0,
           v * d - n < d, n - v * d < d
    PROVE  Within(v, [num |-> n, den |-> d])
BY DEF Within

LEMMA ClampedHigh ==
    ASSUME NEW c, NEW raw, NEW v \in Nat, NEW n \in Int, NEW d \in {4, 8, 10},
           v * d - n < d, n - v * d < d,
           Meaning(c, raw) = [num |-> n, den |-> d],
           HighestOf(c) = UINT16_MAX
    PROVE  Faithful(c, raw, Clamp(v, 0, UINT16_MAX))
<1>1. CASE v > 65535
  <2>1. n >= 65535 * d
    BY <1>1
  <2>2. Clamp(v, 0, UINT16_MAX) = UINT16_MAX
    BY <1>1 DEF Clamp, UINT16_MAX
  <2> QED
    BY <2>1, <2>2 DEF Faithful, UINT16_MAX
<1>2. CASE ~(v > 65535)
  <2>1. Clamp(v, 0, UINT16_MAX) = v
    BY <1>2 DEF Clamp, UINT16_MAX
  <2>2. Within(v, [num |-> n, den |-> d])
    BY Unclamped
  <2> QED
    BY <2>1, <2>2 DEF Faithful
<1> QED
  BY <1>1, <1>2

LEMMA ClampedTemperature ==
    ASSUME NEW c, NEW raw, NEW v \in Int, NEW n \in Int,
           v * 10 - n < 10, n - v * 10 < 10,
           Meaning(c, raw) = [num |-> n, den |-> 10],
           LowestOf(c) = -128, HighestOf(c) = 127
    PROVE  Faithful(c, raw, Clamp(v, -128, 127))
<1>1. CASE v > 127
  BY <1>1 DEF Faithful, Clamp
<1>2. CASE v < -128
  BY <1>2 DEF Faithful, Clamp
<1>3. CASE ~(v > 127) /\ ~(v < -128)
  BY <1>3, Unclamped DEF Faithful, Clamp
<1> QED
  BY <1>1, <1>2, <1>3

\* Every register of every channel but the extreme currents, over all 65536 values.
LEMMA EveryChannelIsFaithful ==
    ASSUME NEW c \in Channels \ ExtremeCurrents, NEW raw \in Nat, raw < 65536,
           c \in AverageTemperatures => raw < 32768
    PROVE  Faithful(c, raw, Published(c, raw))
<1>1. CASE c \in AverageTemperatures
  BY <1>1, AverageTemperatureIs, Fields, Meanings, Publishing, ClampedTemperature
<1>2. CASE c \in CellVoltages
  BY <1>2, VoltageIs, Fields, Meanings, Publishing, Unclamped DEF Faithful
<1>3. CASE c \in Currents
  BY <1>3, CurrentIs, SignedWordIs, Fields, Meanings, Publishing, Unclamped
     DEF Faithful, RsenseMohms
<1>4. CASE c \in Capacities
  BY <1>4, CapacityIs, Fields, Meanings, Publishing, ClampedHigh DEF RsenseMohms
<1>5. CASE c \in Times
  BY <1>5, TimeIs, Fields, Meanings, Publishing, ClampedHigh
<1>6. CASE c \in Percentages
  BY <1>6, PercentageIs, Fields, Meanings, Publishing, Unclamped DEF Faithful
<1>7. CASE c = "VOLTAGE"
  BY <1>7, BattVoltageIs, Fields, Meanings, Publishing, ClampedHigh
<1>8. CASE c \in {"TEMP_MAX", "TEMP_MIN"}
  <2>1. \A b \in Nat : b < 256 =>
           Within(AsInt8(b), [num |-> SignedByte(b), den |-> 1])
    BY SignedByteIs DEF Within
  <2>2. CASE c = "TEMP_MAX"
    BY <2>1, <2>2, BytesOfAWord, Fields, Meanings, Publishing DEF Faithful
  <2>3. CASE c = "TEMP_MIN"
    BY <2>1, <2>3, BytesOfAWord, Fields, Meanings, Publishing DEF Faithful
  <2> QED
    BY <1>8, <2>2, <2>3
<1>9. CASE c \in {"V_CELL_MAX", "V_CELL_MIN"}
  <2>1. \A b \in Nat : b < 256 => Within(b * 20, [num |-> b * 20, den |-> 1])
    BY DEF Within
  <2>2. CASE c = "V_CELL_MAX"
    BY <2>1, <2>2, BytesOfAWord, ByteVoltagesAre, Fields, Meanings, Publishing
       DEF Faithful
  <2>3. CASE c = "V_CELL_MIN"
    BY <2>1, <2>3, BytesOfAWord, ByteVoltagesAre, Fields, Meanings, Publishing
       DEF Faithful
  <2> QED
    BY <1>9, <2>2, <2>3
<1>10. CASE c = "CYCLE_COUNT"
  BY <1>10, CyclesIs, Fields, Meanings, Publishing, Unclamped DEF Faithful
<1> QED
  BY <1>1, <1>2, <1>3, <1>4, <1>5, <1>6, <1>7, <1>8, <1>9, <1>10, ChannelsAreKinds
     DEF Kinds, ExtremeCurrents

\* An average temperature with the sign bit set is published as the lowest.
LEMMA OpenSignIsLowest ==
    ASSUME NEW c \in AverageTemperatures, NEW raw \in Nat, 32768 <= raw, raw < 65536
    PROVE  Published(c, raw) = LowestOf(c)
<1> DEFINE v == AsInt16(AverageTemperature(raw))
<1>1. v \in Int /\ v < -128
  BY NegativeTemperatureIs
<1>2. Published(c, raw) = Clamp(v, -128, 127) /\ LowestOf(c) = -128
  BY Fields, Publishing
<1> HIDE DEF v
<1>3. Clamp(v, -128, 127) = -128
  BY <1>1 DEF Clamp
<1> QED
  BY <1>2, <1>3

\* A difference that 16 bits do not hold is off by exactly one turn.
LEMMA Wrapping ==
    ASSUME NEW d \in Int, -5120 < d, d < 81919
    PROVE  /\ AsUint16(d) \in Nat /\ AsUint16(d) < 65536
           /\ d < 0 => AsUint16(d) - 65536 = d
           /\ d > 65535 => AsUint16(d) + 65536 = d
           /\ ~(d < 0) /\ ~(d > 65535) => AsUint16(d) = d
BY DEF AsUint16

LEMMA Cell2IsFaithful ==
    ASSUME NEW batt \in Nat, batt < 65536, NEW cell1 \in Nat, cell1 < 65536
    PROVE  Cell2Faithful(batt, cell1, Cell2(batt, cell1))
<1> DEFINE b == BattVoltage(batt)
           v == Voltage(cell1)
           n == batt * 80 - cell1 * 5
           w == AsUint16(b - v)
           t == TurnsOff(batt, cell1)
<1>1. AsUint16(v) = v
  BY DEF AsUint16, Voltage
<1>2. /\ b \in Nat /\ v \in Nat /\ b < 81919 /\ v < 5120
      /\ b * 4 <= batt * 5 /\ batt * 5 - b * 4 < 4
      /\ v * 64 <= cell1 * 5 /\ cell1 * 5 - v * 64 < 64
  BY DEF BattVoltage, Voltage
<1>3. Cell2(batt, cell1) = w
  BY <1>1, Fields DEF Cell2, CellVoltages
<1>4. t = IF b - v < 0 THEN 1 ELSE IF b - v > 65535 THEN -1 ELSE 0
  BY DEF TurnsOff, UINT16_MAX
<1>5. n \in Int
  OBVIOUS
<1> HIDE DEF b, v
<1>6. (b - v) * 64 - n < 64 /\ n - (b - v) * 64 < 64
  BY <1>2
<1>7. b - v \in Int /\ -5120 < b - v /\ b - v < 81919
  BY <1>2
<1> DEFINE d == b - v
<1>8. /\ w \in Nat /\ w < 65536
      /\ d < 0 => w - 65536 = d
      /\ d > 65535 => w + 65536 = d
      /\ ~(d < 0) /\ ~(d > 65535) => w = d
  BY <1>7, Wrapping
<1> HIDE DEF w, t, d
<1>9. d \in Int /\ t = IF d < 0 THEN 1 ELSE IF d > 65535 THEN -1 ELSE 0
  BY <1>4, <1>7 DEF d
<1>10. w - t * 65536 = d
  BY <1>8, <1>9
<1>11. d * 64 - n < 64 /\ n - d * 64 < 64
  BY <1>6 DEF d
<1> HIDE DEF n
<1>12. Within(w - t * 65536, [num |-> n, den |-> 64])
  BY <1>5, <1>9, <1>10, <1>11, Unclamped
<1>13. w \in UINT16
  BY <1>8, WordsAre
<1> QED
  BY <1>3, <1>12, <1>13 DEF Cell2Faithful, t, n

-----------------------------------------------------------------------------
(* The specification.                                                      *)

\* What each kind of record promises, apart from the specification.
ChannelOK(s) ==
    /\ s.chan \in Channels
    /\ s.raw \in UINT16
    /\ s.value = Published(s.chan, s.raw)
    /\ Comparable(s.chan, s.raw) => Faithful(s.chan, s.raw, s.value)
    /\ SignIsOpen(s.chan, s.raw) => s.value = LowestOf(s.chan)
Cell2OK(s)    == Cell2Faithful(s.batt, s.cell1, s.value)
CapacityOK(s) == s.raw \in UINT16 /\ Capacity(s.raw) = s.value
HistoryOK(s)  == Capacity(s.raw) = Clamp(Capacity(s.value), 0, CELL_CAPACITY_MAH)
StageOK(s)    == LearnStage(s.raw) = s.value /\ KeepsTheRest(s.raw)

RecordOK(s) ==
    \/ s.what = "nothing"
    \/ s.what = "channel" /\ ChannelOK(s)
    \/ s.what = "cell_2" /\ Cell2OK(s)
    \/ s.what = "capacity" /\ CapacityOK(s)
    \/ s.what = "history" /\ HistoryOK(s)
    \/ s.what = "stage" /\ StageOK(s)

SeenInv == RecordOK(seen)

LEMMA ChannelRecord ==
    ASSUME NEW c \in Channels, NEW raw \in UINT16
    PROVE  ChannelOK([what |-> "channel", chan |-> c, raw |-> raw,
                      value |-> Published(c, raw)])
<1>1. Comparable(c, raw) => Faithful(c, raw, Published(c, raw))
  BY Words, EveryChannelIsFaithful DEF Comparable, SignIsOpen
<1>2. SignIsOpen(c, raw) => Published(c, raw) = LowestOf(c)
  BY Words, OpenSignIsLowest DEF SignIsOpen
<1> QED
  BY <1>1, <1>2 DEF ChannelOK

LEMMA Cell2Record ==
    ASSUME NEW batt \in UINT16, NEW cell1 \in UINT16
    PROVE  Cell2OK([what |-> "cell_2", batt |-> batt, cell1 |-> cell1,
                    value |-> Cell2(batt, cell1)])
<1>1. Cell2Faithful(batt, cell1, Cell2(batt, cell1))
  BY Words, Cell2IsFaithful
<1> QED
  BY <1>1 DEF Cell2OK

LEMMA CapacityRecord ==
    ASSUME NEW raw \in UINT16
    PROVE  CapacityOK([what |-> "capacity", value |-> Capacity(raw),
                       raw |-> EncodeCapacity(Capacity(raw))])
<1>1. raw \in Nat /\ raw < 65536
  BY Words
<1> DEFINE e == EncodeCapacity(Capacity(raw))
<1>2. e \in Nat /\ e < 65536 /\ Capacity(e) = Capacity(raw)
  BY <1>1, CapacityComesBack
<1> HIDE DEF e
<1>3. e \in UINT16
  BY <1>2, WordsAre
<1>4. CapacityOK([what |-> "capacity", value |-> Capacity(raw), raw |-> e])
  BY <1>2, <1>3 DEF CapacityOK
<1> QED
  BY <1>4 DEF e

LEMMA HistoryRecord ==
    ASSUME NEW raw \in UINT16
    PROVE  HistoryOK([what |-> "history", value |-> raw,
                      raw |-> ClampedRaw(ClampedRaw(raw))])
<1>1. Capacity(ClampedRaw(ClampedRaw(raw))) = Clamp(Capacity(raw), 0, CELL_CAPACITY_MAH)
  BY Words, ClampsAgree
<1> QED
  BY <1>1 DEF HistoryOK

LEMMA StageRecord ==
    ASSUME NEW s \in 0 .. 7
    PROVE  StageOK([what |-> "stage", value |-> s, raw |-> EncodeLearnStage(s)])
<1> DEFINE e == EncodeLearnStage(s)
<1>1. LearnStage(e) = s /\ KeepsTheRest(e)
  BY StageComesBack DEF KeepsTheRest
<1> HIDE DEF e
<1>2. StageOK([what |-> "stage", value |-> s, raw |-> e])
  BY <1>1 DEF StageOK
<1> QED
  BY <1>2 DEF e

LEMMA SeenInvInit == ReadingsInit => SeenInv
BY DEF ReadingsInit, Nothing, SeenInv, RecordOK

LEMMA SeenInvNext == SeenInv /\ [ReadingsNext]_seen => SeenInv'
<1> SUFFICES ASSUME SeenInv, [ReadingsNext]_seen
             PROVE  RecordOK(seen')
  BY DEF SeenInv
<1>1. CASE Read
  <2>1. PICK c \in Channels, raw \in Raws :
           seen' = [what |-> "channel", chan |-> c, raw |-> raw,
                    value |-> Published(c, raw)]
    BY <1>1 DEF Read
  <2>2. ChannelOK(seen')
    BY <2>1, RawsAssumption, ChannelRecord
  <2>3. seen'.what = "channel"
    BY <2>1
  <2> QED
    BY <2>2, <2>3 DEF RecordOK
<1>2. CASE ReadCell2
  <2>1. PICK batt \in Raws, cell1 \in Raws :
           seen' = [what |-> "cell_2", batt |-> batt, cell1 |-> cell1,
                    value |-> Cell2(batt, cell1)]
    BY <1>2 DEF ReadCell2
  <2>2. Cell2OK(seen')
    BY <2>1, RawsAssumption, Cell2Record
  <2>3. seen'.what = "cell_2"
    BY <2>1
  <2> QED
    BY <2>2, <2>3 DEF RecordOK
<1>3. CASE WriteCapacity
  <2>1. seen.what = "channel" /\ seen.chan = "FULL_CAPACITY"
    BY <1>3 DEF WriteCapacity
  <2>2. seen.raw \in UINT16
    BY <2>1 DEF SeenInv, RecordOK, ChannelOK
  <2>3. Field(seen.chan, seen.raw) = Capacity(seen.raw)
    BY <2>1, Fields DEF Capacities
  <2>4. seen' = [what |-> "capacity", value |-> Capacity(seen.raw),
                 raw |-> EncodeCapacity(Capacity(seen.raw))]
    BY <1>3, <2>3 DEF WriteCapacity
  <2>5. CapacityOK(seen')
    BY <2>2, <2>4, CapacityRecord
  <2>6. seen'.what = "capacity"
    BY <2>4
  <2> QED
    BY <2>5, <2>6 DEF RecordOK
<1>4. CASE RestoreCapacity
  <2>1. PICK raw \in Raws :
           seen' = [what |-> "history", value |-> raw,
                    raw |-> ClampedRaw(ClampedRaw(raw))]
    BY <1>4 DEF RestoreCapacity
  <2>2. HistoryOK(seen')
    BY <2>1, RawsAssumption, HistoryRecord
  <2>3. seen'.what = "history"
    BY <2>1
  <2> QED
    BY <2>2, <2>3 DEF RecordOK
<1>5. CASE WriteLearnStage
  <2>1. PICK s \in Stages :
           seen' = [what |-> "stage", value |-> s, raw |-> EncodeLearnStage(s)]
    BY <1>5 DEF WriteLearnStage
  <2>2. StageOK(seen')
    BY <2>1, StagesAssumption, StageRecord
  <2>3. seen'.what = "stage"
    BY <2>1
  <2> QED
    BY <2>2, <2>3 DEF RecordOK
<1>6. CASE Forget
  BY <1>6 DEF Forget, Nothing, RecordOK
<1>7. CASE UNCHANGED seen
  BY <1>7 DEF SeenInv
<1> QED
  BY <1>1, <1>2, <1>3, <1>4, <1>5, <1>6, <1>7 DEF ReadingsNext

\* Of every channel but the extreme currents, whatever its register holds, batt.c
\* publishes what the data sheet says it means, to less than one unit or to the limit
\* of the cell (the lowest, for an average temperature whose sign is open), and of
\* every two registers the second cell, off by exactly 65536 mV if the pack reads below
\* its first cell or more than 65535 mV above it (max17205.c:99-295, batt.c:431,
\* 545-595).
THEOREM PublishedIsFaithfulHolds == ReadingsSpec => []PublishedIsFaithful
<1>1. SeenInv => PublishedIsFaithful
  BY DEF SeenInv, RecordOK, ChannelOK, Cell2OK, PublishedIsFaithful
<1> QED
  BY <1>1, SeenInvInit, SeenInvNext, PTL DEF ReadingsSpec

\* Whatever capacity or learn stage is written to the gauge reads back as it was meant
\* (max17205.c:107-111, 297-306; batt.c:649-702; calib.c:111-121).
THEOREM WrittenReadsBackHolds == ReadingsSpec => []WrittenReadsBack
<1>1. SeenInv => WrittenReadsBack
  BY DEF SeenInv, RecordOK, CapacityOK, HistoryOK, StageOK, WrittenReadsBack
<1> QED
  BY <1>1, SeenInvInit, SeenInvNext, PTL DEF ReadingsSpec
=============================================================================
