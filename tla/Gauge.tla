-------------------------------- MODULE Gauge --------------------------------
(***************************************************************************)
(* Configuring one MAX17205 fuel gauge at start-up: the driver's own       *)
(* initialisation (src/drivers/sensor/maxim/max17205/max17205.c) and then  *)
(* nv_ram_write (src/src/max17205_intf.c), against a gauge that stays      *)
(* powered while the card is reset.                                        *)
(*                                                                         *)
(* The gauge keeps each setting three times: in NV memory, in shadow RAM   *)
(* that I2C writes reach, and in the registers its firmware runs on, which *)
(* are loaded from shadow RAM by a firmware reset only.  A set of settings *)
(* is modelled by the entries of batt_nv_programing_cfg that hold the      *)
(* table's value there.  Any access may fail, or be lost without an error; *)
(* the card may be reset between any two accesses.                         *)
(***************************************************************************)
EXTENDS Naturals

CONSTANTS
    NumRegs,     \* entries of batt_nv_programing_cfg; entry 1 is NPACKCFG
    NvTable      \* entries for which NV memory holds the table's value

Regs    == 1 .. NumRegs
PACKCFG == 1

ASSUME NumRegsAssumption == NumRegs \in Nat \ {0}
ASSUME NvAssumption      == NvTable \subseteq Regs

VARIABLES
    pc,          \* step of the start-up; "loop" after it, "disabled" if the
                 \* driver's initialisation failed
    i,           \* the entry max17205_write_registers writes next
    shadow,      \* gauge: entries correct in shadow RAM
    active,      \* gauge: entries correct in what its firmware runs on
    por,         \* gauge: the POR bit of its status register
    updated,     \* packs[].updated, the result of nv_ram_write
    clean        \* history: no access failed or was lost since the card was
                 \* reset, and the gauge did not lose power on its own

gaugeVars == <<shadow, active, por>>
vars == <<pc, i, gaugeVars, updated, clean>>

Steps == {"status", "config", "restart", "validate", "write", "verify",
          "apply", "loop", "disabled"}

TypeOK ==
    /\ pc \in Steps
    /\ i \in Regs
    /\ shadow \in SUBSET Regs
    /\ active \in SUBSET Regs
    /\ por \in BOOLEAN
    /\ updated \in BOOLEAN
    /\ clean \in BOOLEAN

\* The gauge as power-on leaves it.
PowerOn ==
    /\ shadow' = NvTable
    /\ active' = NvTable
    /\ por' = TRUE

Init ==
    /\ pc = "status" /\ i = 1
    /\ shadow = NvTable /\ active = NvTable /\ por = TRUE
    /\ updated = FALSE
    /\ clean = TRUE

-----------------------------------------------------------------------------
(* Accesses.                                                               *)

\* An acknowledged write of the table's value to entry r of shadow RAM, which
\* the gauge may still have dropped.
WriteShadow(r) ==
    \/ shadow' = shadow \cup {r} /\ UNCHANGED clean
    \/ shadow' = shadow /\ clean' = FALSE

\* A write that is reported as failed may have reached the gauge or not.
WriteFails(r) ==
    /\ shadow' \in {shadow, shadow \cup {r}}
    /\ clean' = FALSE

\* Mutant of FirmwareReset: the POR bit is cleared once it has been handled.
FirmwareReset_ClearsPor ==
    /\ active' = shadow
    /\ por' = FALSE
    /\ UNCHANGED shadow

\* The command reaches the gauge, which sets the POR bit again.
FirmwareReset ==
    /\ active' = shadow
    /\ por' = TRUE
    /\ UNCHANGED shadow

Fails == clean' = FALSE /\ UNCHANGED gaugeVars

-----------------------------------------------------------------------------
(* max17205_init, before any thread runs.                                  *)

\* The device stays not ready for this start-up; the pack is disabled.
GivesUp == pc' = "disabled" /\ UNCHANGED <<i, updated>>

ReadStatus ==
    /\ pc = "status"
    /\ \/ /\ pc' = IF por THEN "config" ELSE "validate"
          /\ UNCHANGED <<i, gaugeVars, updated, clean>>
       \/ Fails /\ GivesUp

\* Mutant of WritePackCfg: the device tree and the table differ.
WritePackCfg_OtherFlags == shadow' = shadow \ {PACKCFG} /\ UNCHANGED clean

\* The device trees give NPACKCFG the value it has in the table.
WritePackCfg == WriteShadow(PACKCFG)

\* NPACKCFG, NRSENSE and CONFIG are written; only the first is in the table.
WriteConfig ==
    /\ pc = "config"
    /\ \/ WritePackCfg /\ pc' = "restart" /\ UNCHANGED <<i, updated>>
       \/ WriteFails(PACKCFG) /\ GivesUp
    /\ UNCHANGED <<active, por>>

\* max17205_firmware_reset sends the command and sleeps: one that is reported as
\* failed may have taken effect, and one that the gauge dropped passes for done.
RestartDone ==
    /\ pc = "restart"
    /\ FirmwareReset
    /\ \/ pc' = "validate" /\ UNCHANGED <<i, updated, clean>>
       \/ clean' = FALSE /\ GivesUp
RestartFails ==
    /\ pc = "restart"
    /\ Fails
    /\ \/ pc' = "validate" /\ UNCHANGED <<i, updated>>
       \/ GivesUp
RestartFirmware == RestartDone \/ RestartFails

-----------------------------------------------------------------------------
(* nv_ram_write.                                                           *)

Return(result) == pc' = "loop" /\ updated' = result

\* max17205_validate_registers over the whole table: nothing to do, or write.
Validate ==
    /\ pc = "validate"
    /\ \/ /\ IF shadow = Regs THEN Return(FALSE)
                              ELSE pc' = "write" /\ UNCHANGED updated
          /\ UNCHANGED <<gaugeVars, clean>>
       \/ Fails /\ Return(FALSE)
    /\ i' = 1

\* Mutant of LastEntry: the loop runs one entry too far.
LastEntry_TooLate == i > NumRegs
LastEntry         == i = NumRegs

\* One turn of max17205_write_registers.
WriteRegister ==
    /\ pc = "write"
    /\ \/ /\ WriteShadow(i)
          /\ IF LastEntry THEN pc' = "verify" /\ i' = 1
                       ELSE pc' = "write" /\ i' = i + 1
          /\ UNCHANGED updated
       \/ WriteFails(i) /\ Return(FALSE) /\ i' = 1
    /\ UNCHANGED <<active, por>>

\* max17205_validate_registers again, of what was written.
Verify ==
    /\ pc = "verify"
    /\ \/ /\ IF shadow = Regs THEN pc' = "apply" /\ UNCHANGED updated
                              ELSE Return(FALSE)
          /\ UNCHANGED <<gaugeVars, clean>>
       \/ Fails /\ Return(FALSE)
    /\ UNCHANGED i

\* The firmware reset that loads the table; its result is ignored.
ApplyDone ==
    /\ pc = "apply"
    /\ FirmwareReset
    /\ Return(TRUE)
    /\ clean' \in {clean, FALSE}
    /\ UNCHANGED i
ApplyFails == pc = "apply" /\ Fails /\ Return(TRUE) /\ UNCHANGED i
Apply      == ApplyDone \/ ApplyFails

-----------------------------------------------------------------------------
(* Resets.                                                                 *)

\* The card is reset; the gauge is powered by its pack and goes on.
CardReset ==
    /\ pc' = "status" /\ i' = 1 /\ updated' = FALSE /\ clean' = TRUE
    /\ UNCHANGED gaugeVars

\* Card and gauge lose power together, or the gauge alone.
PowerLoss ==
    /\ pc' = "status" /\ i' = 1 /\ updated' = FALSE /\ clean' = TRUE
    /\ PowerOn
GaugePowerLoss ==
    /\ PowerOn
    /\ clean' = FALSE
    /\ UNCHANGED <<pc, i, updated>>

Startup == \/ ReadStatus \/ WriteConfig \/ RestartFirmware \/ Validate
           \/ WriteRegister \/ Verify \/ Apply
Next == Startup \/ CardReset \/ PowerLoss \/ GaugePowerLoss

Spec == Init /\ [][Next]_vars

-----------------------------------------------------------------------------
(* Properties.                                                             *)

\* A start-up in which no access failed leaves the gauge running on the whole
\* table, however many earlier start-ups were cut short between writing the
\* table and making the gauge use it (max17205_intf.c:530-571): the POR bit
\* stays set, so each initialisation loads what is in shadow RAM.
CleanStartApplies == pc = "loop" /\ clean => active = Regs

\* Only the loss of its power takes the table away from a gauge that runs on
\* it; no start-up, clean or not, does (max17205.c:1010-1020 writes NPACKCFG
\* from the device tree, max17205_intf.c:42 from the table).
NothingUndoesTheTable ==
    [][active = Regs /\ active' # Regs => PowerLoss \/ GaugePowerLoss]_vars

\* All of the above at once, entry by entry: what the gauge runs on comes closer to
\* the table, never under way, and is all of it after a clean start-up
\* (max17205_intf.c:526-571, max17205.c:953-1043).
Phase == CASE pc = "loop"     -> "running"
           [] pc = "disabled" -> "absent"
           [] OTHER           -> "starting"
Promise == INSTANCE GaugeSpec WITH
    Table <- Regs, InNv <- NvTable, phase <- Phase, inUse <- active, sure <- clean
ImplementsPromise == Promise!Spec
=============================================================================
