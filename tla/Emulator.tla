------------------------------ MODULE Emulator -------------------------------
(***************************************************************************)
(* The emulated gauge the firmware runs against under native_sim           *)
(* (src/drivers/sensor/maxim/max17205/max17205_emul.c): a file of          *)
(* registers, filled at start-up from one of two profiles, which the       *)
(* driver's writes reach by the low byte of their address and its reads by *)
(* the whole address.                                                      *)
(***************************************************************************)
EXTENDS Readings

Profile ==
    [OK   |-> [soc |-> 100, cell |-> 3700, pack |-> 7400, max |-> 3800, min |-> 0,
               current |-> 2000, temp |-> 20, cycles |-> 1, capacity |-> 1000, tte |-> 5625],
     DEAD |-> [soc |-> 0, cell |-> 3000, pack |-> 6000, max |-> 3800, min |-> 3000,
               current |-> 0, temp |-> 20, cycles |-> 50, capacity |-> 0, tte |-> 0]]

\* The encodings of the emulator.
PercentageToRaw(perc)  == AsUint16(256 * perc)
CyclesToRaw(cycles)    == AsUint16((100 * cycles) \div 16)
BattVoltageToRaw(mV)   == AsUint16((100 * mV) \div 125)
VoltageToRaw(mV)       == AsUint16((64 * mV) \div 5)
MinMaxVoltageToRaw(min, max) ==
    Clamp(min, 0, 5100) \div 20 + (Clamp(max, 0, 5100) \div 20) * 256
CurrentToRaw(mA)       == AsUint16(CDiv(mA * RsenseMohms * 10000, 15625))
AvgTempToRaw(temp)     == AsUint16((temp + 273) * 10)
TimeToRaw(time)        == AsUint16((time * 1000) \div 5625)

\* The channels whose registers emul_max17205_init fills.
Emulated == Channels \ {"TEMP_MAX", "TEMP_MIN", "CURRENT_MAX", "CURRENT_MIN"}

\* emul_max17205_init: the register of channel c.
Filled(c, p) ==
    CASE c \in Percentages -> PercentageToRaw(p.soc)
      [] c = "VOLTAGE"     -> BattVoltageToRaw(p.pack)
      [] c \in CellVoltages -> VoltageToRaw(p.cell)
      [] c \in {"V_CELL_MAX", "V_CELL_MIN"} -> MinMaxVoltageToRaw(p.min, p.max)
      [] c \in Currents    -> CurrentToRaw(p.current)
      [] c \in AverageTemperatures -> AvgTempToRaw(p.temp)
      [] c = "CYCLE_COUNT" -> CyclesToRaw(p.cycles)
      [] c \in Capacities  -> EncodeCapacity(p.capacity)
      [] c = "TIME_TO_FULL"  -> TimeToRaw(0)
      [] c = "TIME_TO_EMPTY" -> TimeToRaw(p.tte)

\* The settings and commands the firmware writes before it samples: NPACKCFG, NRSENSE,
\* CONFIG and CONFIG2 in the driver's initialisation, the table
\* batt_nv_programing_cfg and CONFIG2 in nv_ram_write, and COMMAND where a verbose
\* build prints the NV memory.  STATUS is left alone.
Configuration ==
    {437, 463, 29, 187, 96} \cup
    {437, 440, 441, 442, 412, 414, 457, 458, 459, 435, 425, 421,
     416, 417, 418, 419, 424, 432, 434, 439, 454, 433, 422}

\* The address a write arrives with: three bytes, of which one is the register.
WrittenAt(reg) == reg % 256

\* Mutant of ReadAt: a read is cut down to one byte as well.
ReadAt_OneByte(reg) == reg % 256
ReadAt(reg)         == reg

\* What an earlier run left in the flash that native_sim gives the history: the
\* capacities of its profile, clamped when they were stored, or no entry.  A run that
\* stores what it has restored itself leaves the entry as it was.
Pasts == DOMAIN Profile \cup {"none"}
HistoryChannels == {"MIX_CAPACITY", "NOM_AVAIL_CAPACITY"}
Stored(c, past) == IF past = "none" THEN 0 ELSE ClampedRaw(Filled(c, Profile[past]))

\* The channels whose registers utilize_pack_hist_data writes, which is last; a
\* capacity of zero is left at the gauge's own.
Restored(past) == {c \in HistoryChannels : ClampedRaw(Stored(c, past)) # 0}

\* The register at address a once the firmware has written what it writes before it
\* samples; a write overwrites what it hits, and a register nobody filled is zero.
Served(a, name, past) ==
    LET restored == {c \in Restored(past) : WrittenAt(Register[c]) = a}
        written  == a \in {WrittenAt(r) : r \in Configuration}
        filled   == {c \in Emulated : Register[c] = a}
    IN  CASE restored # {} -> {ClampedRaw(Stored(c, past)) : c \in restored}
          [] restored = {} /\ written -> Raws
          [] restored = {} /\ ~written /\ filled # {} ->
                 {Filled(c, Profile[name]) : c \in filled}
          [] OTHER -> {0}

\* One channel of a sample.  The calibration thread has written nothing by then: no
\* profile's pack voltage passes for a full pack's (calib.c:76).
ReadEmulated ==
    /\ seen = Nothing
    /\ \E c \in Emulated, name \in DOMAIN Profile, past \in Pasts :
           \E raw \in Served(ReadAt(Register[c]), name, past) :
               seen' = [what |-> "emulated", chan |-> c, profile |-> name, past |-> past,
                        value |-> Published(c, raw)]

-----------------------------------------------------------------------------
(* Properties.                                                             *)

\* What the profile says channel c should show.
Expected(c, p) ==
    CASE c \in Percentages -> p.soc
      [] c = "VOLTAGE"     -> p.pack
      [] c \in CellVoltages -> p.cell
      [] c = "V_CELL_MAX"  -> p.max
      [] c = "V_CELL_MIN"  -> p.min
      [] c \in Currents    -> p.current
      [] c \in AverageTemperatures -> p.temp
      [] c = "CYCLE_COUNT" -> p.cycles
      [] c \in Capacities  -> p.capacity
      [] c = "TIME_TO_FULL"  -> 0
      [] c = "TIME_TO_EMPTY" -> p.tte

\* The profile a channel shows: the two capacities that the history restores are those
\* of the run that stored it, if it had any charge to store.
ShownBy(c, name, past) ==
    IF c \in HistoryChannels /\ past # "none" /\ Profile[past].capacity > 0
    THEN past ELSE name

\* The firmware under native_sim publishes the chosen profile, each value to one
\* unit, after all its writes: no encoding loses more than a unit, none of the
\* configuration's writes, cut down to a byte, falls on a register that is sampled,
\* and the history's fall on MIXCAP and REPCAP only, which then show the capacity of
\* the profile that was stored, so that DEAD shows what OK left behind
\* (max17205_emul.c:47-98, 112-137, 186, 206-265; batt.c:649-702, 940-956).
EmulatedProfileReadsBack ==
    seen.what = "emulated" =>
        LET shown  == ShownBy(seen.chan, seen.profile, seen.past)
            wanted == Expected(seen.chan, Profile[shown])
        IN  seen.value \in wanted - 1 .. wanted + 1
=============================================================================
