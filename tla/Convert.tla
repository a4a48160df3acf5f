------------------------------- MODULE Convert -------------------------------
(***************************************************************************)
(* From a register of the MAX17205 to a value in the object dictionary:    *)
(* the driver's channels and conversions                                   *)
(* (src/drivers/sensor/maxim/max17205/max17205.c:99-306, 505-793), the    *)
(* widths of the interface (src/src/max17205_intf.c:167-207) and of the    *)
(* cells it is published in (src/src/batt.c:545-595), beside what the data *)
(* sheet says a register means.                                            *)
(*                                                                         *)
(* Every product below stays within the 32 bits the code computes it in.   *)
(***************************************************************************)
EXTENDS Integers

RsenseMohms          == 10       \* the sense resistor, the same on every board
CELL_CAPACITY_MAH     == 2600
CELL_CAPACITY_MAH_RAW == 5200

UINT16_MAX == 65535
UINT16     == 0 .. UINT16_MAX

CDiv(a, b)   == IF a >= 0 THEN a \div b ELSE -((-a) \div b)
AsUint16(a)  == a % 65536
AsInt16(a)   == ((a + 32768) % 65536) - 32768
AsUint8(a)   == a % 256
AsInt8(a)    == ((a + 128) % 256) - 128
HighByte(raw) == raw \div 256
LowByte(raw)  == raw % 256

\* The register a channel is fetched from.  Two channels may share one.
Register ==
    [TEMP_1 |-> 308, TEMP_2 |-> 315, INT_TEMP |-> 309,
     AVG_TEMP_1 |-> 311, AVG_TEMP_2 |-> 313, AVG_INT_TEMP |-> 312,
     TEMP_MAX |-> 26, TEMP_MIN |-> 26,
     V_CELL_1 |-> 212, V_CELL_AVG |-> 25, V_CELL |-> 9, VOLTAGE |-> 218,
     V_CELL_MAX |-> 27, V_CELL_MIN |-> 27,
     CURRENT |-> 10, AVG_CURRENT |-> 11, CURRENT_MAX |-> 28, CURRENT_MIN |-> 28,
     FULL_CAPACITY |-> 53, REMAINING_CAPACITY |-> 31,
     MIX_CAPACITY |-> 15, NOM_AVAIL_CAPACITY |-> 5,
     TIME_TO_EMPTY |-> 17, TIME_TO_FULL |-> 32,
     AVAILABLE_SOC |-> 14, PRESENT_SOC |-> 255, REPORTED_SOC |-> 6,
     CYCLE_COUNT |-> 23]

Channels == DOMAIN Register

AverageTemperatures == {"TEMP_1", "TEMP_2", "INT_TEMP",
                        "AVG_TEMP_1", "AVG_TEMP_2", "AVG_INT_TEMP"}
CellVoltages == {"V_CELL_1", "V_CELL_AVG", "V_CELL"}
Currents     == {"CURRENT", "AVG_CURRENT"}
Capacities   == {"FULL_CAPACITY", "REMAINING_CAPACITY", "MIX_CAPACITY",
                 "NOM_AVAIL_CAPACITY"}
Times        == {"TIME_TO_EMPTY", "TIME_TO_FULL"}
Percentages  == {"AVAILABLE_SOC", "PRESENT_SOC", "REPORTED_SOC"}

-----------------------------------------------------------------------------
(* The driver's conversions, in mAh, %, cycles, mV, mA, degrees C and s.   *)

Capacity(raw)    == (raw * 5000) \div (RsenseMohms * 1000)
Percentage(raw)  == raw \div 256
Cycles(raw)      == (raw * 16) \div 100
Voltage(raw)     == (raw * 5) \div 64
\* Mutant of BattVoltage: the pack is converted in the unit of the cells.
BattVoltage_CellUnit(raw) == (raw * 5) \div 64
BattVoltage(raw) == (raw * 125) \div 100
MaxVoltage(raw)  == HighByte(raw) * 20
MinVoltage(raw)  == LowByte(raw) * 20
Current(raw)     == AsInt16(CDiv(AsInt16(raw) * 15625, RsenseMohms * 10000))
\* The high byte is multiplied by 0xFF where a mask was meant.
MaxCurrent(raw)  == AsInt16((((HighByte(raw) * 255) % 256) * 400)
                               \div (RsenseMohms * 1000))
MinCurrent(raw)  == AsInt16((LowByte(raw) * 400) \div (RsenseMohms * 1000))
AverageTemperature(raw) == CDiv(AsInt16(raw), 10) - 273
Time(raw)        == (raw * 5625) \div 1000

\* max17205_channel_get.
Converted(c, raw) ==
    CASE c \in AverageTemperatures -> AverageTemperature(raw)
      [] c = "TEMP_MAX"    -> HighByte(raw)
      [] c = "TEMP_MIN"    -> LowByte(raw)
      [] c \in CellVoltages -> Voltage(raw)
      [] c = "VOLTAGE"     -> BattVoltage(raw)
      [] c = "V_CELL_MAX"  -> MaxVoltage(raw)
      [] c = "V_CELL_MIN"  -> MinVoltage(raw)
      [] c \in Currents    -> Current(raw)
      [] c = "CURRENT_MAX" -> MaxCurrent(raw)
      [] c = "CURRENT_MIN" -> MinCurrent(raw)
      [] c \in Capacities  -> Capacity(raw)
      [] c \in Times       -> Time(raw)
      [] c \in Percentages -> Percentage(raw)
      [] c = "CYCLE_COUNT" -> Cycles(raw)

\* The field of batt_pack_data_t a channel is read into: read_channel_int8_t,
\* read_channel_int16_t or read_channel_int32_t, and the field's own type.
Field(c, raw) ==
    LET v == Converted(c, raw) IN
    CASE c \in {"TEMP_MAX", "TEMP_MIN"} -> AsInt8(v)
      [] c \in Percentages -> AsUint8(v)
      [] c \in AverageTemperatures \cup Currents
               \cup {"CURRENT_MAX", "CURRENT_MIN"} -> AsInt16(v)
      [] c \in CellVoltages \cup {"V_CELL_MAX", "V_CELL_MIN", "CYCLE_COUNT"}
               -> AsUint16(v)
      [] c \in Capacities \cup Times \cup {"VOLTAGE"} -> v

Clamp(v, lo, hi) == IF v < lo THEN lo ELSE IF v > hi THEN hi ELSE v

\* The cell of the object dictionary the field is published in.
Published(c, raw) ==
    CASE c \in AverageTemperatures -> Clamp(Field(c, raw), -128, 127)
      [] c \in Capacities \cup Times \cup {"VOLTAGE"}
               -> Clamp(Field(c, raw), 0, UINT16_MAX)
      [] OTHER -> Field(c, raw)

\* The second cell is what the first one leaves of the pack.
Cell2(batt, cell1) ==
    AsUint16(Field("VOLTAGE", batt) - Field("V_CELL_1", cell1))

-----------------------------------------------------------------------------
(* The encodings.                                                          *)

\* Mutant of EncodeCapacity: the conversion is applied where its inverse belongs.
EncodeCapacity_SameWay(mAh) == Capacity(mAh)
EncodeCapacity(mAh) == AsUint16((mAh * RsenseMohms * 1000) \div 5000)

\* Bits 4 to 6 of the learning configuration, and the bits it must always have.
LearnStage(raw)         == (raw \div 16) % 8
EncodeLearnStage(stage) == ((stage % 8) * 16) + 9730

-----------------------------------------------------------------------------
(* The data sheet.                                                         *)

SignedByte(b)  == IF b < 128 THEN b ELSE b - 256
SignedWord(raw) == IF raw < 32768 THEN raw ELSE raw - 65536

\* What a register means, as a fraction: its value times the unit the driver's
\* comments quote from the data sheet.
Meaning(c, raw) ==
    CASE c \in AverageTemperatures -> [num |-> raw - 2730, den |-> 10]
      [] c = "TEMP_MAX"    -> [num |-> SignedByte(HighByte(raw)), den |-> 1]
      [] c = "TEMP_MIN"    -> [num |-> SignedByte(LowByte(raw)), den |-> 1]
      [] c \in CellVoltages -> [num |-> raw * 5, den |-> 64]
      [] c = "VOLTAGE"     -> [num |-> raw * 5, den |-> 4]
      [] c = "V_CELL_MAX"  -> [num |-> HighByte(raw) * 20, den |-> 1]
      [] c = "V_CELL_MIN"  -> [num |-> LowByte(raw) * 20, den |-> 1]
      [] c \in Currents    -> [num |-> SignedWord(raw) * 25, den |-> 16 * RsenseMohms]
      [] c = "CURRENT_MAX" -> [num |-> SignedByte(HighByte(raw)) * 400, den |-> RsenseMohms]
      [] c = "CURRENT_MIN" -> [num |-> SignedByte(LowByte(raw)) * 400, den |-> RsenseMohms]
      [] c \in Capacities  -> [num |-> raw * 5, den |-> RsenseMohms]
      [] c \in Times       -> [num |-> raw * 45, den |-> 8]
      [] c \in Percentages -> [num |-> raw, den |-> 256]
      [] c = "CYCLE_COUNT" -> [num |-> raw * 4, den |-> 25]

\* v is the fraction to less than one unit.
Within(v, f) == v * f.den - f.num < f.den /\ f.num - v * f.den < f.den
=============================================================================
