----------------------------- MODULE DriverProofs -----------------------------
(***************************************************************************)
(* Proofs about the driver as a whole: sampling a gauge or its emulation   *)
(* between the calls that program it, for every value of every register    *)
(* and every number of polls.                                              *)
(***************************************************************************)
EXTENDS Driver, ReadingsProofs, NvRamProofs

-----------------------------------------------------------------------------
(* Sampling leaves the NV memory alone.                                    *)

\* Whatever is sampled in between, the calls on the NV memory go on as module NvRam
\* says: the driver as a whole implements it (max17205.c:313-495).
THEOREM DriverImplementsNvRam == DriverSpec => NvSpec
<1>1. DriverInit => NvInit
  BY DEF DriverInit
<1>2. [DriverNext]_driverVars => [NvNext]_nvVars
  BY DEF DriverNext, Sampling, Programming, driverVars
<1> QED
  BY <1>1, <1>2, PTL DEF DriverSpec, NvSpec

-----------------------------------------------------------------------------
(* The emulated gauge.                                                     *)

\* The registers the configuration ends up in, one byte each.
ConfiguredAt ==
    {29, 96, 156, 158, 160, 161, 162, 163, 165, 166, 168, 169, 176, 177, 178, 179, 181,
     183, 184, 185, 186, 187, 198, 201, 202, 203, 207}

LEMMA WritesLand == {WrittenAt(r) : r \in Configuration} \subseteq ConfiguredAt
<1> SUFFICES ASSUME NEW r \in Configuration PROVE WrittenAt(r) \in ConfiguredAt
  OBVIOUS
<1>1. r \in {437, 463, 29, 187, 96} \/ r \in {437, 440, 441, 442, 412, 414, 457, 458, 459, 435,
             425, 421, 416, 417, 418, 419, 424, 432, 434, 439, 454, 433, 422}
  BY DEF Configuration
<1>2. 437 % 256 = 181 /\ 463 % 256 = 207 /\ 29 % 256 = 29 /\ 187 % 256 = 187
      /\ 96 % 256 = 96
  OBVIOUS
<1>3. /\ 440 % 256 = 184 /\ 441 % 256 = 185 /\ 442 % 256 = 186 /\ 412 % 256 = 156
      /\ 414 % 256 = 158 /\ 457 % 256 = 201 /\ 458 % 256 = 202 /\ 459 % 256 = 203
      /\ 435 % 256 = 179 /\ 425 % 256 = 169 /\ 421 % 256 = 165 /\ 416 % 256 = 160
      /\ 417 % 256 = 161 /\ 418 % 256 = 162 /\ 419 % 256 = 163 /\ 424 % 256 = 168
      /\ 432 % 256 = 176 /\ 434 % 256 = 178 /\ 439 % 256 = 183 /\ 454 % 256 = 198
      /\ 433 % 256 = 177 /\ 422 % 256 = 166
  OBVIOUS
<1> QED
  BY <1>1, <1>2, <1>3 DEF WrittenAt, ConfiguredAt

LEMMA NoneIsOverwritten == \A c \in Emulated : Register[c] \notin ConfiguredAt
BY DEF Emulated, Channels, Register, ConfiguredAt

\* Of the channels that are filled, only the two extreme voltages share a register.
LEMMA RegistersDiffer ==
    ASSUME NEW c \in Emulated, NEW d \in Emulated, Register[c] = Register[d]
    PROVE  \/ c = d
           \/ c \in {"V_CELL_MAX", "V_CELL_MIN"} /\ d \in {"V_CELL_MAX", "V_CELL_MIN"}
BY DEF Emulated, Channels, Register

LEMMA Fillings ==
    ASSUME NEW p
    PROVE  /\ \A c \in Percentages : Filled(c, p) = PercentageToRaw(p.soc)
           /\ Filled("VOLTAGE", p) = BattVoltageToRaw(p.pack)
           /\ \A c \in CellVoltages : Filled(c, p) = VoltageToRaw(p.cell)
           /\ \A c \in {"V_CELL_MAX", "V_CELL_MIN"} :
                 Filled(c, p) = MinMaxVoltageToRaw(p.min, p.max)
           /\ \A c \in Currents : Filled(c, p) = CurrentToRaw(p.current)
           /\ \A c \in AverageTemperatures : Filled(c, p) = AvgTempToRaw(p.temp)
           /\ Filled("CYCLE_COUNT", p) = CyclesToRaw(p.cycles)
           /\ \A c \in Capacities : Filled(c, p) = EncodeCapacity(p.capacity)
           /\ Filled("TIME_TO_FULL", p) = TimeToRaw(0)
           /\ Filled("TIME_TO_EMPTY", p) = TimeToRaw(p.tte)
BY DEF Filled, AverageTemperatures, CellVoltages, Currents, Capacities, Percentages

LEMMA Expectations ==
    ASSUME NEW p
    PROVE  /\ \A c \in Percentages : Expected(c, p) = p.soc
           /\ Expected("VOLTAGE", p) = p.pack
           /\ \A c \in CellVoltages : Expected(c, p) = p.cell
           /\ Expected("V_CELL_MAX", p) = p.max /\ Expected("V_CELL_MIN", p) = p.min
           /\ \A c \in Currents : Expected(c, p) = p.current
           /\ \A c \in AverageTemperatures : Expected(c, p) = p.temp
           /\ Expected("CYCLE_COUNT", p) = p.cycles
           /\ \A c \in Capacities : Expected(c, p) = p.capacity
           /\ Expected("TIME_TO_FULL", p) = 0
           /\ Expected("TIME_TO_EMPTY", p) = p.tte
BY DEF Expected, AverageTemperatures, CellVoltages, Currents, Capacities, Percentages

\* What the two profiles hold.
LEMMA ProfilesAre ==
    ASSUME NEW name \in DOMAIN Profile
    PROVE  /\ Profile[name].soc \in {0, 100} /\ Profile[name].cell \in {3000, 3700}
           /\ Profile[name].pack \in {6000, 7400} /\ Profile[name].max = 3800
           /\ Profile[name].min \in {0, 3000} /\ Profile[name].current \in {0, 2000}
           /\ Profile[name].temp = 20 /\ Profile[name].cycles \in {1, 50}
           /\ Profile[name].capacity \in {0, 1000} /\ Profile[name].tte \in {0, 5625}
BY DEF Profile

\* The two registers the history writes, each to a channel of its own.
LEMMA HistoryRegisters ==
    /\ HistoryChannels \subseteq Emulated \cap Capacities
    /\ \A h \in HistoryChannels, c \in Emulated :
          WrittenAt(Register[h]) = Register[c] <=> h = c
<1>1. \A c \in Emulated : Register[c] \in {5, 15} => c \in HistoryChannels
  BY DEF Emulated, Channels, Register, HistoryChannels
<1>2. Register["MIX_CAPACITY"] = 15 /\ Register["NOM_AVAIL_CAPACITY"] = 5
  BY DEF Register
<1>3. 15 % 256 = 15 /\ 5 % 256 = 5
  OBVIOUS
<1>4. HistoryChannels \subseteq Emulated \cap Capacities
  BY DEF HistoryChannels, Emulated, Channels, Capacities
<1>5. \A h \in HistoryChannels : WrittenAt(Register[h]) = Register[h] /\ Register[h] \in {5, 15}
  BY <1>2, <1>3 DEF HistoryChannels, WrittenAt
<1>6. \A h, c \in HistoryChannels : Register[h] = Register[c] => h = c
  BY <1>2 DEF HistoryChannels
<1> QED
  BY <1>1, <1>4, <1>5, <1>6

\* What the history restores is what the stored profile had, when it had any charge.
LEMMA Restoring ==
    ASSUME NEW past \in Pasts, NEW c \in HistoryChannels
    PROVE  /\ c \in Restored(past) => past # "none" /\ Profile[past].capacity > 0
           /\ past # "none" /\ Profile[past].capacity > 0
                 => /\ c \in Restored(past)
                    /\ ClampedRaw(Stored(c, past)) = Filled(c, Profile[past])
<1>1. ClampedRaw(0) = 0 /\ ClampedRaw(2000) = 2000
  BY DEF ClampedRaw, CELL_CAPACITY_MAH_RAW, CELL_CAPACITY_MAH
<1>2. CASE past = "none"
  BY <1>1, <1>2 DEF Restored, Stored
<1>3. CASE past \in DOMAIN Profile /\ past # "none"
  <2>1. Filled(c, Profile[past]) = EncodeCapacity(Profile[past].capacity)
    BY HistoryRegisters, Fillings
  <2>2. Profile[past].capacity \in {0, 1000}
    BY <1>3, ProfilesAre
  <2>3. EncodeCapacity(0) = 0 /\ EncodeCapacity(1000) = 2000
    BY DEF EncodeCapacity, AsUint16, CDiv, RsenseMohms
  <2>4. Stored(c, past) = ClampedRaw(Filled(c, Profile[past]))
    BY <1>3 DEF Stored
  <2>5. CASE Profile[past].capacity = 0
    BY <1>1, <2>1, <2>3, <2>4, <2>5 DEF Restored
  <2>6. CASE Profile[past].capacity = 1000
    BY <1>1, <1>3, <2>1, <2>3, <2>4, <2>6 DEF Restored
  <2> QED
    BY <2>2, <2>5, <2>6
<1> QED
  BY <1>2, <1>3 DEF Pasts

\* A read by the whole address finds what the emulator filled in for its channel, or
\* what the history put in its place.
LEMMA ServedIsFilled ==
    ASSUME NEW c \in Emulated, NEW name \in DOMAIN Profile, NEW past \in Pasts,
           NEW raw \in Served(ReadAt(Register[c]), name, past)
    PROVE  raw = Filled(c, Profile[ShownBy(c, name, past)])
<1> DEFINE restored == {h \in Restored(past) : WrittenAt(Register[h]) = Register[c]}
           filled   == {d \in Emulated : Register[d] = Register[c]}
<1>1. Restored(past) \subseteq HistoryChannels
  BY DEF Restored
<1>2. restored \subseteq {c} /\ (c \in Restored(past) => c \in restored)
  BY <1>1, HistoryRegisters
<1>3. Register[c] \notin {WrittenAt(r) : r \in Configuration}
  BY WritesLand, NoneIsOverwritten
<1>4. c \in filled
  OBVIOUS
<1>5. \/ restored # {} /\ raw \in {ClampedRaw(Stored(h, past)) : h \in restored}
      \/ restored = {} /\ raw \in {Filled(d, Profile[name]) : d \in filled}
  BY <1>3, <1>4 DEF Served, ReadAt
<1> HIDE DEF restored
<1>6. CASE c \in Restored(past)
  <2>1. c \in HistoryChannels /\ past # "none" /\ Profile[past].capacity > 0
    BY <1>1, <1>6, Restoring
  <2>2. raw = ClampedRaw(Stored(c, past))
    BY <1>2, <1>5, <1>6
  <2> QED
    BY <2>1, <2>2, Restoring DEF ShownBy
<1>7. CASE c \notin Restored(past)
  <2>1. ShownBy(c, name, past) = name
    BY <1>7, Restoring DEF ShownBy
  <2>2. restored = {}
    BY <1>2, <1>7 DEF restored
  <2>3. PICK d \in Emulated : Register[d] = Register[c] /\ raw = Filled(d, Profile[name])
    BY <1>5, <2>2
  <2>4. Filled("V_CELL_MAX", Profile[name]) = Filled("V_CELL_MIN", Profile[name])
    BY Fillings
  <2>5. raw = Filled(c, Profile[name])
    BY <2>3, <2>4, RegistersDiffer
  <2> QED
    BY <2>1, <2>5
<1> QED
  BY <1>6, <1>7

\* What each encoding of the emulator comes back as.
LEMMA PercentagesReadBack == \A v \in {0, 100} : AsUint8(Percentage(PercentageToRaw(v))) = v
BY DEF AsUint8, Percentage, PercentageToRaw, AsUint16

LEMMA VoltagesReadBack ==
    /\ \A v \in {3000, 3700} : AsUint16(Voltage(VoltageToRaw(v))) = v
    /\ \A v \in {6000, 7400} : BattVoltage(BattVoltageToRaw(v)) = v
    /\ \A v \in {0, 3000} : /\ AsUint16(MaxVoltage(MinMaxVoltageToRaw(v, 3800))) = 3800
                            /\ AsUint16(MinVoltage(MinMaxVoltageToRaw(v, 3800))) = v
BY DEF AsUint16, Voltage, VoltageToRaw, BattVoltage, BattVoltageToRaw, MaxVoltage,
       MinVoltage, MinMaxVoltageToRaw, HighByte, LowByte, Clamp

LEMMA CurrentsReadBack == \A v \in {0, 2000} : AsInt16(Current(CurrentToRaw(v))) = v
BY DEF AsInt16, AsUint16, Current, CurrentToRaw, CDiv, RsenseMohms

LEMMA OthersReadBack ==
    /\ AsInt16(AverageTemperature(AvgTempToRaw(20))) = 20
    /\ AsUint16(Cycles(CyclesToRaw(1))) = 0 /\ AsUint16(Cycles(CyclesToRaw(50))) = 49
    /\ \A v \in {0, 1000} : Capacity(EncodeCapacity(v)) = v
    /\ \A v \in {0, 5625} : Time(TimeToRaw(v)) = v
BY DEF AsInt16, AsUint16, AverageTemperature, AvgTempToRaw, CDiv, Cycles, CyclesToRaw,
       Capacity, EncodeCapacity, Time, TimeToRaw, RsenseMohms

LEMMA EveryFillingReadsBack ==
    ASSUME NEW c \in Emulated, NEW name \in DOMAIN Profile
    PROVE  LET told == Expected(c, Profile[name])
           IN  Published(c, Filled(c, Profile[name])) \in told - 1 .. told + 1
<1> DEFINE p == Profile[name]
           raw == Filled(c, p)
<1>1. c \in Kinds \ {"TEMP_MAX", "TEMP_MIN", "CURRENT_MAX", "CURRENT_MIN"}
  BY ChannelsAreKinds DEF Emulated
<1>2. SUFFICES \/ Published(c, raw) = Expected(c, p) /\ Expected(c, p) \in Int
               \/ Published(c, raw) = 0 /\ Expected(c, p) = 1
               \/ Published(c, raw) = 49 /\ Expected(c, p) = 50
  OBVIOUS
<1>3. /\ p.soc \in {0, 100} /\ p.cell \in {3000, 3700} /\ p.pack \in {6000, 7400}
      /\ p.max = 3800 /\ p.min \in {0, 3000} /\ p.current \in {0, 2000} /\ p.temp = 20
      /\ p.cycles \in {1, 50} /\ p.capacity \in {0, 1000} /\ p.tte \in {0, 5625}
  BY ProfilesAre
<1> HIDE DEF p
<1>4. CASE c \in AverageTemperatures
  <2>1. Field(c, raw) = 20 /\ Expected(c, p) = 20
    BY <1>3, <1>4, Fillings, Expectations, Fields, OthersReadBack
  <2> QED
    BY <1>4, <2>1, Publishing DEF Clamp
<1>5. CASE c \in CellVoltages
  BY <1>3, <1>5, Fillings, Expectations, Fields, Publishing, VoltagesReadBack
<1>6. CASE c \in Currents
  BY <1>3, <1>6, Fillings, Expectations, Fields, Publishing, CurrentsReadBack
<1>7. CASE c \in Capacities
  <2>1. Field(c, raw) = p.capacity /\ Expected(c, p) = p.capacity
    BY <1>3, <1>7, Fillings, Expectations, Fields, OthersReadBack
  <2> QED
    BY <1>3, <1>7, <2>1, Publishing DEF Clamp, UINT16_MAX
<1>8. CASE c \in Percentages
  BY <1>3, <1>8, Fillings, Expectations, Fields, Publishing, PercentagesReadBack
<1>9. CASE c \in Times
  <2>1. c = "TIME_TO_FULL" \/ c = "TIME_TO_EMPTY"
    BY <1>9 DEF Times
  <2>2. Expected(c, p) \in {0, 5625} /\ Field(c, raw) = Expected(c, p)
    BY <1>3, <1>9, <2>1, Fillings, Expectations, Fields, OthersReadBack
  <2> QED
    BY <1>9, <2>2, Publishing DEF Clamp, UINT16_MAX
<1>10. CASE c = "VOLTAGE"
  <2>1. Field(c, raw) = p.pack /\ Expected(c, p) = p.pack
    BY <1>3, <1>10, Fillings, Expectations, Fields, VoltagesReadBack
  <2> QED
    BY <1>3, <1>10, <2>1, Publishing DEF Clamp, UINT16_MAX
<1>11. CASE c = "V_CELL_MAX"
  BY <1>3, <1>11, Fillings, Expectations, Fields, Publishing, VoltagesReadBack
<1>12. CASE c = "V_CELL_MIN"
  BY <1>3, <1>12, Fillings, Expectations, Fields, Publishing, VoltagesReadBack
<1>13. CASE c = "CYCLE_COUNT"
  BY <1>3, <1>13, Fillings, Expectations, Fields, Publishing, OthersReadBack
<1> QED
  BY <1>1, <1>4, <1>5, <1>6, <1>7, <1>8, <1>9, <1>10, <1>11, <1>12, <1>13 DEF Kinds

-----------------------------------------------------------------------------
(* The specification.                                                      *)

EmulatedOK(s) ==
    LET told == Expected(s.chan, Profile[ShownBy(s.chan, s.profile, s.past)])
    IN  s.value \in told - 1 .. told + 1

\* SeenInv with the records of the emulation.
DriverSeenInv == RecordOK(seen) \/ (seen.what = "emulated" /\ EmulatedOK(seen))

LEMMA DriverSeenInvInit == DriverInit => DriverSeenInv
BY SeenInvInit DEF DriverInit, DriverSeenInv, SeenInv

LEMMA DriverSeenInvNext == DriverSeenInv /\ [DriverNext]_driverVars => DriverSeenInv'
<1> SUFFICES ASSUME DriverSeenInv, [DriverNext]_driverVars PROVE DriverSeenInv'
  OBVIOUS
<1>1. CASE ReadingsNext
  <2>1. CASE RecordOK(seen)
    <3>1. SeenInv'
      BY <1>1, <2>1, SeenInvNext DEF SeenInv
    <3> QED
      BY <3>1 DEF SeenInv, DriverSeenInv
  <2>2. CASE seen.what = "emulated"
    <3>1. seen # Nothing /\ seen.what # "channel"
      BY <2>2 DEF Nothing
    <3>2. seen' = Nothing
      BY <1>1, <3>1 DEF ReadingsNext, Read, ReadCell2, WriteCapacity, RestoreCapacity,
                        WriteLearnStage, Forget
    <3> QED
      BY <3>2 DEF Nothing, DriverSeenInv, RecordOK
  <2> QED
    BY <2>1, <2>2 DEF DriverSeenInv
<1>2. CASE ReadEmulated
  <2>1. PICK c \in Emulated, name \in DOMAIN Profile, past \in Pasts :
           \E raw \in Served(ReadAt(Register[c]), name, past) :
               seen' = [what |-> "emulated", chan |-> c, profile |-> name, past |-> past,
                        value |-> Published(c, raw)]
    BY <1>2 DEF ReadEmulated
  <2> DEFINE shown == ShownBy(c, name, past)
  <2>2. seen' = [what |-> "emulated", chan |-> c, profile |-> name, past |-> past,
                 value |-> Published(c, Filled(c, Profile[shown]))]
    BY <2>1, ServedIsFilled
  <2>3. shown \in DOMAIN Profile
    <3>1. past = "none" \/ past \in DOMAIN Profile
      BY DEF Pasts
    <3> QED
      BY <3>1 DEF ShownBy
  <2>4. EmulatedOK(seen')
    <3> HIDE DEF shown
    <3>1. LET told == Expected(c, Profile[shown])
          IN  Published(c, Filled(c, Profile[shown])) \in told - 1 .. told + 1
      BY <2>3, EveryFillingReadsBack
    <3> QED
      BY <2>2, <3>1 DEF EmulatedOK, shown
  <2> QED
    BY <2>2, <2>4 DEF DriverSeenInv
<1>3. CASE seen' = Nothing
  BY <1>3 DEF Nothing, DriverSeenInv, RecordOK
<1>4. CASE UNCHANGED seen
  BY <1>4 DEF DriverSeenInv
<1> QED
  BY <1>1, <1>2, <1>3, <1>4 DEF DriverNext, Sampling, Programming, driverVars

LEMMA DriverSeenInvHolds == DriverSpec => []DriverSeenInv
BY DriverSeenInvInit, DriverSeenInvNext, PTL DEF DriverSpec

\* The firmware under native_sim publishes the profile it was given, each value to one
\* unit, whatever the registers its configuration writes to may hold afterwards; the
\* two capacities that the history restores are those of the profile that was stored,
\* where that had any (max17205_emul.c:47-98, 112-137, 186, 206-265;
\* batt.c:649-702, 940-956).
THEOREM EmulatedProfileReadsBackHolds == DriverSpec => []EmulatedProfileReadsBack
<1>1. DriverSeenInv => EmulatedProfileReadsBack
  BY DEF DriverSeenInv, RecordOK, EmulatedOK, EmulatedProfileReadsBack
<1> QED
  BY <1>1, DriverSeenInvHolds, PTL

\* What is sampled between the calls on the NV memory, and what is written back, is
\* what it is without them, faithful but for the open sign, the extreme currents and
\* the second cell's turns of 16 bits, which PublishedIsFaithful names
\* (max17205.c:99-306, batt.c:415-432, 545-595, 649-702).
THEOREM SamplingIsFaithful == DriverSpec => [](PublishedIsFaithful /\ WrittenReadsBack)
<1>1. DriverSeenInv => PublishedIsFaithful /\ WrittenReadsBack
  BY DEF DriverSeenInv, RecordOK, ChannelOK, Cell2OK, CapacityOK, HistoryOK, StageOK,
         PublishedIsFaithful, WrittenReadsBack
<1> QED
  BY <1>1, DriverSeenInvHolds, PTL

\* The NV memory of a gauge that is also sampled: types, resets and programming that
\* report success, copies left and the bound on transfers (max17205.c:313-495).
THEOREM ProgrammingIsSound ==
    DriverSpec => /\ [](TypeOK /\ ResetIsHonest /\ ProgramIsHonest
                               /\ ProgramsOnlyWithCopiesLeft)
                  /\ CallIsBounded
BY DriverImplementsNvRam, TypeOKHolds, ResetIsHonestHolds, ProgramIsHonestHolds,
   ProgramsOnlyWithCopiesLeftHolds, CallIsBoundedHolds, PTL
===============================================================================
