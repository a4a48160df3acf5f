------------------------------ MODULE Readings -------------------------------
(***************************************************************************)
(* What becomes of one register of the gauge: read into the pack's data    *)
(* and published (populate_pack_data and populate_od_pack_data in          *)
(* src/src/batt.c), or written back (utilize_pack_hist_data and            *)
(* update_learning_complete).                                              *)
(***************************************************************************)
EXTENDS Convert

CONSTANTS
    Raws,        \* what a register may hold
    Stages       \* learn stages that may be written

ASSUME RawsAssumption   == Raws \subseteq UINT16
ASSUME StagesAssumption == Stages \subseteq 0 .. 7

VARIABLE seen    \* the last transfer between a register and the program

Nothing == [what |-> "nothing"]

ReadingsInit == seen = Nothing

\* sensor_sample_fetch_chan and sensor_channel_get, then the publishing.
Read ==
    /\ seen = Nothing
    /\ \E c \in Channels, raw \in Raws :
           seen' = [what |-> "channel", chan |-> c, raw |-> raw,
                    value |-> Published(c, raw)]

\* The second cell, from the pack's register and the first cell's, whatever they say;
\* every read before it has succeeded.
ReadCell2 ==
    /\ seen = Nothing
    /\ \E batt \in Raws, cell1 \in Raws :
           seen' = [what |-> "cell_2", batt |-> batt, cell1 |-> cell1,
                    value |-> Cell2(batt, cell1)]

\* The full capacity that was read, in mAh, is written to MIXCAP and REPCAP.
WriteCapacity ==
    /\ seen.what = "channel"
    /\ seen.chan = "FULL_CAPACITY"
    /\ LET mAh == Field(seen.chan, seen.raw) IN
       seen' = [what |-> "capacity", value |-> mAh, raw |-> EncodeCapacity(mAh)]

\* MIXCAP or REPCAP goes through the history, as a register's value, clamped when
\* it is stored and again when it is restored.
ClampedRaw(raw) == IF raw < CELL_CAPACITY_MAH_RAW THEN raw ELSE CELL_CAPACITY_MAH_RAW
RestoreCapacity ==
    /\ seen = Nothing
    /\ \E raw \in Raws :
           seen' = [what |-> "history", value |-> raw, raw |-> ClampedRaw(ClampedRaw(raw))]

WriteLearnStage ==
    /\ seen = Nothing
    /\ \E s \in Stages :
           seen' = [what |-> "stage", value |-> s, raw |-> EncodeLearnStage(s)]

Forget == seen # Nothing /\ seen' = Nothing

ReadingsNext ==
    Read \/ ReadCell2 \/ WriteCapacity \/ RestoreCapacity \/ WriteLearnStage \/ Forget

ReadingsSpec == ReadingsInit /\ [][ReadingsNext]_seen

-----------------------------------------------------------------------------
(* Properties.                                                             *)

LowestOf(c)  == IF c \in AverageTemperatures THEN -128 ELSE -65536
HighestOf(c) == IF c \in AverageTemperatures THEN 127 ELSE UINT16_MAX

\* v says what the register says, or as much of it as fits the cell.
Faithful(c, raw, v) ==
    LET m == Meaning(c, raw) IN
    \/ Within(v, m)
    \/ v = HighestOf(c) /\ m.num >= HighestOf(c) * m.den
    \/ v = LowestOf(c)  /\ m.num <= LowestOf(c) * m.den

ExtremeCurrents == {"CURRENT_MAX", "CURRENT_MIN"}

\* What the data sheet leaves open: the sign of an average temperature.
SignIsOpen(c, raw) == c \in AverageTemperatures /\ raw >= 32768

\* The extreme currents have a property of their own.
Comparable(c, raw) == c \notin ExtremeCurrents /\ ~SignIsOpen(c, raw)

\* By how many turns of 16 bits the second cell's voltage is off: one too many for a
\* pack below its first cell, one too few for a difference that 16 bits do not hold.
TurnsOff(batt, cell1) ==
    LET mV == BattVoltage(batt) - Voltage(cell1) IN
    IF mV < 0 THEN 1 ELSE IF mV > UINT16_MAX THEN -1 ELSE 0

\* v is what the first cell leaves of the pack, but for those turns.
Cell2Faithful(batt, cell1, v) ==
    LET rest == [num |-> batt * 80 - cell1 * 5, den |-> 64] IN
    v \in UINT16 /\ Within(v - TurnsOff(batt, cell1) * 65536, rest)

\* The bits around the learn stage as the data sheet demands them.
KeepsTheRest(raw) == raw - LearnStage(raw) * 16 = 9730

\* What is published is what the data sheet says the register means, to less than
\* one unit, or the nearest value its cell has, for every channel but the extreme
\* currents; an average temperature with the sign bit set, whose meaning is open, is
\* published as the lowest (max17205.c:99-295, max17205_intf.c:167-207,
\* batt.c:545-595).  The second cell, which is computed, is the difference of the two
\* registers to less than one unit, unless the pack reads below its first cell or
\* more than 65535 mV above it: then the 16 bits wrap, and the firmware publishes
\* 65536 mV too much or too little (batt.c:431).
PublishedIsFaithful ==
    /\ (seen.what = "channel" /\ Comparable(seen.chan, seen.raw))
         => Faithful(seen.chan, seen.raw, seen.value)
    /\ (seen.what = "channel" /\ SignIsOpen(seen.chan, seen.raw))
         => seen.value = LowestOf(seen.chan)
    /\ seen.what = "cell_2" => Cell2Faithful(seen.batt, seen.cell1, seen.value)

\* What is written to the gauge is what was meant: the full capacity, written in
\* mAh, reads back as the same number of mAh; a capacity from the history is the one
\* that was stored, up to a cell's capacity, although it is clamped in another unit;
\* and a learn stage keeps the bits around it
\* (max17205.c:107-111, 297-306; batt.c:649-702; calib.c:111-121).
WrittenReadsBack ==
    /\ seen.what = "capacity" =>
          seen.raw \in UINT16 /\ Capacity(seen.raw) = seen.value
    /\ seen.what = "history" =>
          Capacity(seen.raw) = Clamp(Capacity(seen.value), 0, CELL_CAPACITY_MAH)
    /\ seen.what = "stage" =>
          /\ LearnStage(seen.raw) = seen.value
          /\ KeepsTheRest(seen.raw)

\* The extreme currents are signed bytes of 0.40 mV over the sense resistor, as
\* max17205.c:201-202 and 216-217 quote the data sheet.
ExtremeCurrentsAreFaithful ==
    (seen.what = "channel" /\ seen.chan \in ExtremeCurrents)
        => Faithful(seen.chan, seen.raw, seen.value)
=============================================================================
