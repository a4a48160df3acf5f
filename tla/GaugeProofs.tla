---------------------------- MODULE GaugeProofs -----------------------------
(***************************************************************************)
(* Proofs about the gauge's configuration for tables of every length and   *)
(* every content of the NV memory.                                         *)
(***************************************************************************)
EXTENDS Gauge, TLAPS

LEMMA EntryFacts == 1 \in Regs /\ PACKCFG \in Regs
  BY NumRegsAssumption, SMT DEF Regs, PACKCFG

LEMMA NextEntry ==
    ASSUME NEW r \in Regs, r # NumRegs PROVE r + 1 \in Regs
  BY NumRegsAssumption, SMT DEF Regs

\* The three ways a start-up ends and the two kinds of write, as to types.
LEMMA OutcomeTypes ==
    ASSUME TypeOK
    PROVE  /\ GivesUp => pc' \in Steps /\ i' \in Regs /\ updated' \in BOOLEAN
           /\ \A result \in BOOLEAN :
                  Return(result) => pc' \in Steps /\ updated' \in BOOLEAN
           /\ Fails => /\ shadow' \in SUBSET Regs /\ active' \in SUBSET Regs
                       /\ por' \in BOOLEAN /\ clean' \in BOOLEAN
           /\ FirmwareReset => /\ shadow' \in SUBSET Regs
                               /\ active' \in SUBSET Regs /\ por' \in BOOLEAN
  BY DEF TypeOK, Steps, GivesUp, Return, Fails, FirmwareReset, gaugeVars

LEMMA WriteTypes ==
    ASSUME TypeOK, NEW r \in Regs
    PROVE  WriteShadow(r) \/ WriteFails(r)
               => shadow' \in SUBSET Regs /\ clean' \in BOOLEAN
  BY DEF TypeOK, WriteShadow, WriteFails

LEMMA TypeOKInductive == TypeOK /\ [Next]_vars => TypeOK'
  <1> SUFFICES ASSUME TypeOK, [Next]_vars PROVE TypeOK'
    OBVIOUS
  <1>1. CASE ReadStatus
    BY <1>1, OutcomeTypes DEF ReadStatus, TypeOK, Steps, gaugeVars
  <1>2. CASE WriteConfig
    BY <1>2, OutcomeTypes, WriteTypes, EntryFacts
       DEF WriteConfig, WritePackCfg, TypeOK, Steps
  <1>3. CASE RestartFirmware
    BY <1>3, OutcomeTypes DEF RestartFirmware, RestartDone, RestartFails, TypeOK, Steps
  <1>4. CASE Validate
    BY <1>4, OutcomeTypes, EntryFacts DEF Validate, TypeOK, Steps, gaugeVars
  <1>5. CASE WriteRegister
    <2>1. i \in Regs
      BY DEF TypeOK
    <2>2. shadow' \in SUBSET Regs /\ clean' \in BOOLEAN
      BY <1>5, <2>1, WriteTypes DEF WriteRegister
    <2>3. i' \in Regs /\ pc' \in Steps /\ updated' \in BOOLEAN
      BY <1>5, <2>1, NextEntry, EntryFacts
         DEF WriteRegister, LastEntry, Return, Steps, TypeOK
    <2> QED
      BY <1>5, <2>2, <2>3 DEF WriteRegister, TypeOK
  <1>6. CASE Verify
    BY <1>6, OutcomeTypes DEF Verify, TypeOK, Steps, gaugeVars
  <1>7. CASE Apply
    BY <1>7, OutcomeTypes DEF Apply, ApplyDone, ApplyFails, TypeOK
  <1>8. CASE CardReset
    BY <1>8, EntryFacts DEF CardReset, TypeOK, Steps, gaugeVars
  <1>9. CASE PowerLoss
    BY <1>9, EntryFacts, NvAssumption DEF PowerLoss, PowerOn, TypeOK, Steps
  <1>10. CASE GaugePowerLoss
    BY <1>10, NvAssumption DEF GaugePowerLoss, PowerOn, TypeOK
  <1>11. CASE UNCHANGED vars
    BY <1>11 DEF vars, gaugeVars, TypeOK
  <1> QED
    BY <1>1, <1>2, <1>3, <1>4, <1>5, <1>6, <1>7, <1>8, <1>9, <1>10, <1>11
       DEF Next, Startup

\* Every step keeps the types; in particular the loop that writes the table
\* stays inside it (max17205_intf.c:235-244).
THEOREM TypeCorrect == Spec => []TypeOK
  <1>1. Init => TypeOK
    BY EntryFacts, NvAssumption DEF Init, TypeOK, Steps
  <1> QED
    BY <1>1, TypeOKInductive, PTL DEF Spec

-----------------------------------------------------------------------------
(* What a clean start-up achieves.                                         *)

\* Why CleanStartApplies holds: the POR bit is never clear, so no start-up
\* skips the firmware reset that comes before the table is looked at; as long
\* as no access fails the entries written so far are in shadow RAM; and what
\* the gauge runs on never holds more of the table than shadow RAM does.
ConfigInv ==
    /\ por = TRUE
    /\ active \subseteq shadow
    /\ clean /\ pc = "validate" => active = shadow
    /\ clean /\ pc = "write" => \A r \in Regs : r < i => r \in shadow
    /\ clean /\ pc \in {"verify", "apply"} => shadow = Regs
    /\ CleanStartApplies

LEMMA NothingBeforeTheFirst == \A r \in Regs : ~(r < 1)
  BY NumRegsAssumption, SMT DEF Regs

\* Writing entry i after those before it completes one entry more, or all.
LEMMA OneEntryMore ==
    ASSUME TypeOK, \A r \in Regs : r < i => r \in shadow
    PROVE  /\ \A r \in Regs : r < i + 1 => r \in shadow \cup {i}
           /\ i = NumRegs => shadow \cup {i} = Regs
  <1>1. i \in Regs /\ shadow \subseteq Regs
    BY DEF TypeOK
  <1>2. ASSUME NEW r \in Regs, r < i + 1 PROVE r \in shadow \cup {i}
    <2>1. r < i \/ r = i
      BY <1>1, <1>2, NumRegsAssumption, SMT DEF Regs
    <2> QED
      BY <2>1
  <1>3. ASSUME i = NumRegs, NEW r \in Regs PROVE r \in shadow \cup {i}
    <2>1. r < i \/ r = i
      BY <1>3, NumRegsAssumption, SMT DEF Regs
    <2> QED
      BY <2>1
  <1> QED
    BY <1>1, <1>2, <1>3

LEMMA WriteKeepsConfig == TypeOK /\ ConfigInv /\ WriteRegister => ConfigInv'
  <1> SUFFICES ASSUME TypeOK, ConfigInv, WriteRegister PROVE ConfigInv'
    OBVIOUS
  <1>1. pc = "write" /\ UNCHANGED <<active, por>>
    BY DEF WriteRegister
  <1>2. CASE WriteFails(i) /\ Return(FALSE)
    BY <1>1, <1>2 DEF ConfigInv, CleanStartApplies, WriteFails, Return
  <1>3. CASE /\ WriteShadow(i)
             /\ IF LastEntry THEN pc' = "verify" /\ i' = 1
                             ELSE pc' = "write" /\ i' = i + 1
    <2>1. pc' \in {"verify", "write"}
      BY <1>3
    <2>2. CASE clean' = FALSE /\ shadow' = shadow
      BY <1>1, <2>1, <2>2 DEF ConfigInv, CleanStartApplies
    <2>3. CASE shadow' = shadow \cup {i} /\ UNCHANGED clean
      <3>1. clean => \A r \in Regs : r < i => r \in shadow
        BY <1>1 DEF ConfigInv
      <3>2. clean => /\ \A r \in Regs : r < i + 1 => r \in shadow'
                     /\ (i = NumRegs => shadow' = Regs)
        BY <2>3, <3>1, OneEntryMore
      <3>3. clean /\ pc' = "verify" => shadow' = Regs
        BY <1>3, <3>2 DEF LastEntry
      <3>4. clean /\ pc' = "write" => \A r \in Regs : r < i' => r \in shadow'
        BY <1>3, <3>2 DEF LastEntry
      <3> QED
        BY <1>1, <2>1, <2>3, <3>3, <3>4 DEF ConfigInv, CleanStartApplies
    <2> QED
      BY <1>3, <2>2, <2>3 DEF WriteShadow
  <1> QED
    BY <1>2, <1>3 DEF WriteRegister

LEMMA ConfigInvInductive == TypeOK /\ ConfigInv /\ [Next]_vars => ConfigInv'
  <1> SUFFICES ASSUME TypeOK, ConfigInv, [Next]_vars PROVE ConfigInv'
    OBVIOUS
  <1>1. CASE WriteRegister
    BY <1>1, WriteKeepsConfig
  <1> USE DEF ConfigInv, CleanStartApplies
  <1>2. CASE ReadStatus
    BY <1>2 DEF ReadStatus, Fails, GivesUp, gaugeVars
  <1>3. CASE WriteConfig
    BY <1>3 DEF WriteConfig, WritePackCfg, WriteShadow, WriteFails, GivesUp
  <1>4. CASE RestartFirmware
    BY <1>4 DEF RestartFirmware, RestartDone, RestartFails, FirmwareReset, Fails, GivesUp,
            gaugeVars
  <1>5. CASE Validate
    <2>1. shadow' = shadow /\ active' = active /\ por' = por /\ i' = 1
      BY <1>5 DEF Validate, Fails, gaugeVars
    <2>2. clean' => clean /\ (pc' = "loop" => shadow = Regs)
      BY <1>5 DEF Validate, Return, Fails
    <2>3. pc' \in {"loop", "write"} /\ pc = "validate"
      BY <1>5 DEF Validate, Return
    <2>4. \A r \in Regs : ~(r < i')
      BY <2>1, NothingBeforeTheFirst
    <2> QED
      BY <2>1, <2>2, <2>3, <2>4
  <1>6. CASE Verify
    <2>1. shadow' = shadow /\ active' = active /\ por' = por
      BY <1>6 DEF Verify, Fails, Return, gaugeVars
    <2>2. clean' => clean /\ shadow = Regs
      BY <1>6 DEF Verify, Fails, Return
    <2>3. clean' => pc' = "apply"
      BY <1>6, <2>2 DEF Verify, Fails, Return
    <2>4. pc' \in {"apply", "loop"}
      BY <1>6 DEF Verify, Return
    <2> QED
      BY <2>1, <2>2, <2>3, <2>4
  <1>7. CASE Apply
    <2>1. shadow' = shadow /\ active' \in {active, shadow} /\ por' = TRUE
      BY <1>7 DEF Apply, ApplyDone, ApplyFails, FirmwareReset, Fails, gaugeVars
    <2>2. clean' => clean /\ active' = shadow
      BY <1>7 DEF Apply, ApplyDone, ApplyFails, FirmwareReset, Fails
    <2>3. pc = "apply" /\ pc' = "loop"
      BY <1>7 DEF Apply, ApplyDone, ApplyFails, Return
    <2> QED
      BY <2>1, <2>2, <2>3
  <1>8. CASE CardReset
    BY <1>8 DEF CardReset, gaugeVars
  <1>9. CASE PowerLoss
    BY <1>9 DEF PowerLoss, PowerOn
  <1>10. CASE GaugePowerLoss
    BY <1>10 DEF GaugePowerLoss, PowerOn
  <1>11. CASE UNCHANGED vars
    BY <1>11 DEF vars, gaugeVars
  <1> QED
    BY <1>1, <1>2, <1>3, <1>4, <1>5, <1>6, <1>7, <1>8, <1>9, <1>10, <1>11
       DEF Next, Startup

LEMMA ConfigInvHolds == Spec => [](TypeOK /\ ConfigInv)
  <1>1. Init => ConfigInv
    BY DEF Init, ConfigInv, CleanStartApplies
  <1> QED
    BY <1>1, TypeCorrect, ConfigInvInductive, PTL DEF Spec

\* A start-up in which no access failed leaves the gauge on the whole table,
\* whatever earlier start-ups left behind (max17205_intf.c:526-570).
THEOREM CleanStartAppliesHolds == Spec => []CleanStartApplies
  <1>1. ConfigInv => CleanStartApplies
    BY DEF ConfigInv
  <1> QED
    BY <1>1, ConfigInvHolds, PTL

\* No step but a loss of power takes the table away.
LEMMA TableStays ==
    TypeOK /\ ConfigInv /\ [Next]_vars
       => [active = Regs /\ active' # Regs => PowerLoss \/ GaugePowerLoss]_vars
  <1> SUFFICES ASSUME TypeOK, ConfigInv, Next,
                      active = Regs, ~PowerLoss, ~GaugePowerLoss
               PROVE  active' = Regs
    OBVIOUS
  <1>1. shadow = Regs
    BY DEF ConfigInv, TypeOK
  <1>2. active' \in {active, shadow}
    BY DEF Next, Startup, ReadStatus, WriteConfig, RestartFirmware, RestartDone,
           RestartFails, Validate, WriteRegister, Verify, Apply, ApplyDone, ApplyFails,
           CardReset, FirmwareReset, Fails, gaugeVars
  <1> QED
    BY <1>1, <1>2

\* Only a loss of the gauge's power takes the table away from it
\* (max17205.c:1010-1020, max17205_intf.c:42).
THEOREM NothingUndoesTheTableHolds == Spec => NothingUndoesTheTable
  BY TableStays, ConfigInvHolds, PTL DEF Spec, NothingUndoesTheTable

-----------------------------------------------------------------------------
(* The promise.                                                            *)

LEMMA PhaseIs ==
    /\ pc = "loop" <=> Phase = "running"
    /\ pc = "disabled" <=> Phase = "absent"
    /\ pc \notin {"loop", "disabled"} <=> Phase = "starting"
  BY DEF Phase

LEMMA PhaseNext ==
    /\ pc' = "loop" => Phase' = "running"
    /\ pc' = "disabled" => Phase' = "absent"
    /\ pc' \notin {"loop", "disabled"} => Phase' = "starting"
    /\ pc' = pc => Phase' = Phase
  BY DEF Phase

\* Each step of the configuration is one of the promise or a stutter: those that
\* fail lower sure, the firmware resets load, those that enter the loop run.
LEMMA PromiseStep ==
    TypeOK /\ ConfigInv /\ TypeOK' /\ ConfigInv' /\ [Next]_vars
       => [Promise!Next]_(Promise!vars)
  <1> SUFFICES ASSUME TypeOK, ConfigInv, TypeOK', ConfigInv', [Next]_vars
               PROVE  [Promise!Next]_(Promise!vars)
    OBVIOUS
  <1> USE DEF Promise!vars, Promise!Next
  <1>0. active \subseteq shadow /\ shadow \subseteq Regs
    BY DEF TypeOK, ConfigInv
  <1>1. CASE ReadStatus
    <2>1. CASE Fails /\ GivesUp
      <3>1. Promise!GiveUp
        BY <1>0, <1>1, <2>1, PhaseIs, PhaseNext
           DEF ReadStatus, Fails, GivesUp, gaugeVars, Promise!GiveUp, Promise!ComesCloser
      <3> QED
        BY <3>1
    <2>2. CASE ~(Fails /\ GivesUp)
      BY <1>1, <2>2, PhaseIs, PhaseNext DEF ReadStatus, gaugeVars
    <2> QED
      BY <2>1, <2>2
  <1>2. CASE WriteConfig
    <2>1. CASE WriteFails(PACKCFG) /\ GivesUp
      <3>1. Promise!GiveUp
        BY <1>0, <1>2, <2>1, PhaseIs, PhaseNext
           DEF WriteConfig, WriteFails, GivesUp, Promise!GiveUp, Promise!ComesCloser
      <3> QED
        BY <3>1
    <2>2. CASE WritePackCfg /\ pc' = "restart"
      <3>1. Phase' = Phase /\ active' = active /\ clean' \in {clean, FALSE}
        BY <1>2, <2>2, PhaseIs, PhaseNext DEF WriteConfig, WritePackCfg, WriteShadow
      <3> QED
        BY <3>1 DEF Promise!Fail
    <2> QED
      BY <1>2, <2>1, <2>2 DEF WriteConfig
  <1>3. CASE RestartDone
    <2>1. active \subseteq active' /\ active' \subseteq Regs
      BY <1>0, <1>3 DEF RestartDone, FirmwareReset
    <2>2. CASE pc' = "validate"
      <3>1. Promise!Load
        BY <1>3, <2>1, <2>2, PhaseIs, PhaseNext
           DEF RestartDone, GivesUp, Promise!Load, Promise!ComesCloser
      <3> QED
        BY <3>1
    <2>3. CASE pc' # "validate"
      <3>1. Promise!GiveUp
        BY <1>3, <2>1, <2>3, PhaseIs, PhaseNext
           DEF RestartDone, GivesUp, Promise!GiveUp, Promise!ComesCloser
      <3> QED
        BY <3>1
    <2> QED
      BY <2>2, <2>3
  <1>4. CASE RestartFails
    <2>1. pc = "restart" /\ active' = active /\ clean' = FALSE
      BY <1>4 DEF RestartFails, Fails, gaugeVars
    <2>2. CASE pc' = "validate"
      BY <2>1, <2>2, PhaseIs, PhaseNext DEF Promise!Fail
    <2>3. CASE pc' # "validate"
      <3>1. Promise!GiveUp
        BY <1>0, <1>4, <2>1, <2>3, PhaseIs, PhaseNext
           DEF RestartFails, GivesUp, Promise!GiveUp, Promise!ComesCloser
      <3> QED
        BY <3>1
    <2> QED
      BY <2>2, <2>3
  <1>5. CASE (Validate \/ Verify \/ WriteRegister \/ ApplyFails) /\ pc' = "loop"
    <2>1. Promise!Run
      <3>1. pc \notin {"loop", "disabled"} /\ active' = active /\ clean' \in {clean, FALSE}
        BY <1>5 DEF Validate, Verify, WriteRegister, WriteFails, ApplyFails, Fails, gaugeVars
      <3>2. clean' => active' = Regs
        BY <1>5 DEF ConfigInv, CleanStartApplies
      <3>3. clean' => clean
        BY <3>1
      <3>4. Phase = "starting" /\ Phase' = "running"
        BY <1>5, <3>1, PhaseIs, PhaseNext
      <3>5. active \subseteq active' /\ active' \subseteq Regs
        BY <1>0, <3>1
      <3> QED
        BY <3>2, <3>3, <3>4, <3>5 DEF Promise!Run, Promise!ComesCloser
    <2> QED
      BY <2>1
  <1>6. CASE (Validate \/ Verify \/ WriteRegister) /\ pc' # "loop"
    <2>1. /\ pc \notin {"loop", "disabled"} /\ pc' \notin {"loop", "disabled"}
          /\ active' = active /\ clean' \in {clean, FALSE}
      BY <1>6 DEF Validate, Verify, WriteRegister, WriteFails, WriteShadow, Fails,
                  Return, gaugeVars
    <2> QED
      BY <2>1, PhaseIs, PhaseNext DEF Promise!Fail
  <1>7. CASE ApplyDone
    <2>1. Promise!Run
      <3>1. clean' => active' = Regs
        BY <1>7 DEF ApplyDone, Return, ConfigInv, CleanStartApplies
      <3> QED
        BY <1>0, <1>7, <3>1, PhaseIs, PhaseNext
           DEF ApplyDone, Return, FirmwareReset, Promise!Run, Promise!ComesCloser, TypeOK
    <2> QED
      BY <2>1
  <1>8. CASE ApplyFails /\ pc' # "loop"
    BY <1>8 DEF ApplyFails, Return
  <1>9. CASE CardReset
    <2>1. Promise!CardReset
      BY <1>9, PhaseNext DEF CardReset, gaugeVars, Promise!CardReset
    <2> QED
      BY <2>1
  <1>10. CASE PowerLoss
    <2>1. Promise!PowerLoss
      BY <1>10, PhaseNext DEF PowerLoss, PowerOn, Promise!PowerLoss
    <2> QED
      BY <2>1
  <1>11. CASE GaugePowerLoss
    <2>1. Promise!GaugePowerLoss
      BY <1>11, PhaseNext DEF GaugePowerLoss, PowerOn, Promise!GaugePowerLoss
    <2> QED
      BY <2>1
  <1>12. CASE UNCHANGED vars
    BY <1>12, PhaseNext DEF vars, gaugeVars
  <1> QED
    BY <1>1, <1>2, <1>3, <1>4, <1>5, <1>6, <1>7, <1>8, <1>9, <1>10, <1>11, <1>12
       DEF Next, Startup, RestartFirmware, Apply

\* The start-up's accesses, cut short and failing anywhere, implement settings that
\* only come closer to the table, never under way, and are all of it after a clean
\* start-up (max17205_intf.c:526-571, max17205.c:953-1043).
THEOREM ImplementsPromiseHolds == Spec => ImplementsPromise
  <1>1. Init => Promise!Init
    BY DEF Init, Promise!Init, Phase
  <1> QED
    BY <1>1, PromiseStep, ConfigInvHolds, PTL DEF Spec, ImplementsPromise, Promise!Spec
=============================================================================
