--------------------------- MODULE BattLoopProofs ---------------------------
(***************************************************************************)
(* Proofs about the battery loop for all readings, failures and builds.    *)
(***************************************************************************)
EXTENDS BattLoop, TLAPS

LEMMA SizePositive == UINT16_SIZE \in Nat /\ UINT16_SIZE > 0
  BY SMT DEF UINT16_SIZE

LEMMA ModRange == \A d \in Int, w \in Nat \ {0} : d % w \in 0 .. w - 1
  BY SMT

\* The second cell's voltage is a uint16_t whatever was measured.
LEMMA Cell2Type ==
    ASSUME NEW batt \in Nat, NEW v1 \in UINT16
    PROVE  Cell2(batt, v1) \in UINT16
  <1>1. batt - v1 \in Int
    BY SMT, SizePositive DEF UINT16
  <1> QED
    BY SMT, SizePositive, ModRange, <1>1 DEF Cell2, UINT16

LEMMA ZeroIsUint == 0 \in UINT16
  BY SMT, SizePositive DEF UINT16

LEMMA ZeroedType == \A valid \in BOOLEAN : Zeroed(valid) \in Sample
  BY SMT, ZeroIsUint DEF Zeroed, Sample

\* Every sample populate_pack_data can leave behind is well typed.
LEMMA SampleType ==
    ASSUME NEW usable \in BOOLEAN, NEW s \in Samples(usable)
    PROVE  s \in Sample
  <1>1. CASE usable
    <2>1. PICK r \in Readings, F \in Failures : s = Populated(r, F)
      BY <1>1 DEF Samples
    <2>2. r.v1 \in UINT16 /\ r.batt \in Nat /\ r.vcell \in UINT16
             /\ r.soc \in 0 .. 255 /\ r.temp \in Int
      BY ReadingsAssumption DEF Reading
    <2>3. Cell2(r.batt, r.v1) \in UINT16 /\ 0 \in UINT16
      BY <2>2, Cell2Type, ZeroIsUint
    <2> DEFINE v2 == IF F \cap BeforeCell2 = {} THEN Cell2(r.batt, r.v1) ELSE 0
    <2>4. /\ Got(F, "v_cell_1", r.v1) \in UINT16
          /\ Got(F, "v_cell", r.vcell) \in UINT16
          /\ Got(F, "present_soc", r.soc) \in 0 .. 255
          /\ Got(F, "avg_temp_1", r.temp) \in Int
      BY SMT, <2>2, <2>3 DEF Got
    <2>5. v2 \in UINT16
      BY <2>3
    <2>6. (F = {}) \in BOOLEAN
      OBVIOUS
    <2> HIDE DEF v2
    <2>7. s = [valid |-> F = {}, v1 |-> Got(F, "v_cell_1", r.v1), v2 |-> v2,
               vcell |-> Got(F, "v_cell", r.vcell),
               soc |-> Got(F, "present_soc", r.soc),
               temp |-> Got(F, "avg_temp_1", r.temp)]
      BY <2>1 DEF Populated, v2
    <2> QED
      BY SMT, <2>4, <2>5, <2>6, <2>7 DEF Sample
  <1>2. CASE ~usable
    <2>1. s = Zeroed(TRUE)
      BY <1>2 DEF Samples
    <2> QED
      BY <2>1, ZeroedType
  <1> QED
    BY <1>1, <1>2

\* So is what the check at start-up leaves behind.
LEMMA BootSampleType ==
    ASSUME NEW usable \in BOOLEAN, NEW s \in BootSamples(usable)
    PROVE  s \in Sample
  <1>1. CASE usable
    <2>1. PICK r \in Readings, F \in {{}, {"v_cell_1"}, {"batt"}, {"v_cell_1", "batt"}} :
             s = BootSample(Got(F, "v_cell_1", r.v1), Got(F, "batt", r.batt))
      BY <1>1 DEF BootSamples
    <2>2. r.v1 \in UINT16 /\ r.batt \in Nat /\ 0 \in UINT16
      BY ReadingsAssumption, ZeroIsUint DEF Reading
    <2>3. Got(F, "v_cell_1", r.v1) \in UINT16 /\ Got(F, "batt", r.batt) \in Nat
      BY <2>2 DEF Got
    <2>4. Cell2(Got(F, "batt", r.batt), Got(F, "v_cell_1", r.v1)) \in UINT16
      BY <2>3, Cell2Type
    <2> QED
      BY SMT, <2>1, <2>2, <2>3, <2>4 DEF BootSample, Sample
  <1>2. CASE ~usable
    <2>1. s = Zeroed(FALSE)
      BY <1>2 DEF BootSamples
    <2> QED
      BY <2>1, ZeroedType
  <1> QED
    BY <1>1, <1>2

-----------------------------------------------------------------------------
(* Type correctness.                                                       *)

\* One evaluation keeps the types of what it changes.
LEMMA EvaluateHeatingType ==
    ASSUME TypeOK, NEW cold \in BOOLEAN, NEW warm \in BOOLEAN,
           EvaluateHeating(cold, warm)
    PROVE  /\ moarpwr' \in BOOLEAN
           /\ heater_on' \in [Packs -> BOOLEAN]
           /\ hstate' \in {"NOT_HEATING", "HEATING"}
           /\ last' \in Evaluation
           /\ lowEvals' \in 0 .. 2
  <1>1. FullEnough \in BOOLEAN
    BY DEF FullEnough
  <1>2. moarpwr' \in BOOLEAN /\ heater_on' \in [Packs -> BOOLEAN]
    BY DEF EvaluateHeating, KeepHeating, SetHeaters
  <1>3. hstate' \in {"NOT_HEATING", "HEATING"}
    BY DEF EvaluateHeating, KeepHeating
  <1>4. last' \in Evaluation
    BY <1>1 DEF EvaluateHeating, Evaluation
  <1>5. lowEvals' \in 0 .. 2
    BY SMT DEF EvaluateHeating, TypeOK
  <1> QED
    BY <1>2, <1>3, <1>4, <1>5

\* What an evaluation sees is a truth value.
LEMMA SeenType ==
    \A die \in DieTemps : TooCold(die) \in BOOLEAN /\ WarmEnough(die) \in BOOLEAN
  <1> SUFFICES ASSUME NEW die \in DieTemps
               PROVE  TooCold(die) \in BOOLEAN /\ WarmEnough(die) \in BOOLEAN
    OBVIOUS
  <1>1. (die < -5) \in BOOLEAN /\ (die > 5) \in BOOLEAN
    BY DieTempsAssumption
  <1>2. TooCold(die) \in BOOLEAN
    BY Zenon, <1>1 DEF TooCold
  <1>3. WarmEnough(die) \in BOOLEAN
    BY Zenon, <1>1 DEF WarmEnough
  <1> QED
    BY <1>2, <1>3

\* A run of the state machine, failsafe or evaluation, keeps the types.
LEMMA RunHeatingType ==
    ASSUME TypeOK, RunHeatingStateMachine
    PROVE  /\ moarpwr' \in BOOLEAN
           /\ heater_on' \in [Packs -> BOOLEAN]
           /\ hstate' \in {"NOT_HEATING", "HEATING"}
           /\ last' \in Evaluation
           /\ lowEvals' \in 0 .. 2
  <1>1. CASE Failsafe /\ SetHeaters(FALSE) /\ UNCHANGED <<hstate, last, lowEvals>>
    BY <1>1 DEF TypeOK, SetHeaters
  <1>2. CASE \E die \in DieTemps : EvaluateHeating(TooCold(die), WarmEnough(die))
    <2>1. PICK die \in DieTemps : EvaluateHeating(TooCold(die), WarmEnough(die))
      BY <1>2
    <2>2. TooCold(die) \in BOOLEAN /\ WarmEnough(die) \in BOOLEAN
      BY SeenType
    <2> QED
      BY <2>1, <2>2, EvaluateHeatingType
  <1> QED
    BY <1>1, <1>2 DEF RunHeatingStateMachine

LEMMA AllFalseType == AllFalse \in [Packs -> BOOLEAN]
  BY DEF AllFalse

\* The state machine and everything around it keep the types of the module:
\* the samples, pins and states the battery thread works with (batt.c).
THEOREM TypeCorrect == Spec => []TypeOK
  <1>1. Init => TypeOK
    <2> SUFFICES ASSUME Init PROVE TypeOK
      OBVIOUS
    <2>1. data \in [Packs -> Sample]
      BY ZeroedType DEF Init, ClearedData
    <2>2. status \in [Packs -> Pins]
      BY DEF Init, ClearedStatus, Pins
    <2>3. last \in Evaluation
      BY DEF Init, NoEvaluation, Evaluation
    <2>4. 1 \in Packs /\ 0 \in 0 .. 2
      BY SMT DEF Packs, NUM_PACKS
    <2> QED
      BY <2>1, <2>2, <2>3, <2>4, AllFalseType DEF Init, TypeOK
  <1>2. TypeOK /\ [Next]_vars => TypeOK'
    <2> SUFFICES ASSUME TypeOK, [Next]_vars PROVE TypeOK'
      OBVIOUS
    <2>1. CASE Boot
      <3>1. 1 \in Packs /\ 2 \in Packs
        BY DEF Packs, NUM_PACKS
      <3>2. PICK s1 \in BootSamples(enabled'[1]), s2 \in BootSamples(enabled'[2]) :
               data' = [p \in Packs |-> IF p = 1 THEN s1 ELSE s2]
        BY <2>1 DEF Boot
      <3>3. enabled'[1] \in BOOLEAN /\ enabled'[2] \in BOOLEAN
        BY <2>1, <3>1 DEF Boot
      <3>4. s1 \in Sample /\ s2 \in Sample
        BY <3>2, <3>3, BootSampleType
      <3>5. data' \in [Packs -> Sample]
        BY <3>2, <3>4
      <3> QED
        BY <2>1, <3>5 DEF Boot, TypeOK, SetHeaters, AllFalse
    <2>2. CASE StartCycle
      <3>1. next' \in Packs
        BY <2>2 DEF StartCycle, Packs, NUM_PACKS
      <3> QED
        BY <2>2, <3>1 DEF StartCycle, TypeOK, heatVars, chargeVars
    <2>3. CASE SamplePack
      <3>1. enabled[next] \in BOOLEAN
        BY DEF TypeOK
      <3>2. PICK s \in Samples(enabled[next]) :
               /\ data' = [data EXCEPT ![next] = s]
               /\ IF s.valid THEN PublishStatus(next) ELSE UNCHANGED status
               /\ UpdateChargingState(next, s)
        BY <2>3 DEF SamplePack
      <3>3. s \in Sample
        BY <3>1, SampleType
      <3>4. data' \in [Packs -> Sample]
        BY <3>2, <3>3 DEF TypeOK
      <3>5. status' \in [Packs -> Pins]
        BY <3>2 DEF TypeOK, PublishStatus, Pins
      <3>6. (s.vcell < 3000 \/ s.soc < 20) \in BOOLEAN /\ (s.vcell > 4100) \in BOOLEAN
        OBVIOUS
      <3>7. dchg_dis' \in [Packs -> BOOLEAN] /\ chg_dis' \in [Packs -> BOOLEAN]
        <4>1. CASE ~ENABLE_CHARGING_CONTROL
          BY <3>2, <4>1 DEF UpdateChargingState, TypeOK, chargeVars
        <4>2. CASE ENABLE_CHARGING_CONTROL /\ ~s.valid
          BY <3>2, <4>2 DEF UpdateChargingState, TypeOK
        <4>3. CASE ENABLE_CHARGING_CONTROL /\ s.valid
          <5> DEFINE stop == s.vcell < 3000 \/ s.soc < 20
                     full == s.vcell > 4100
          <5>1. /\ dchg_dis' = [dchg_dis EXCEPT ![next] = stop]
                /\ chg_dis' = [chg_dis EXCEPT ![next] = full]
            BY <3>2, <4>3 DEF UpdateChargingState
          <5>2. stop \in BOOLEAN /\ full \in BOOLEAN
            BY <3>6
          <5> HIDE DEF stop, full
          <5> QED
            BY <5>1, <5>2 DEF TypeOK
        <4> QED
          BY <4>1, <4>2, <4>3
      <3>8. next' \in Packs /\ pc' \in {"boot", "wait", "sample", "decide"}
        BY SMT, <2>3 DEF SamplePack, TypeOK, Packs, NUM_PACKS
      <3> QED
        BY <2>3, <3>4, <3>5, <3>7, <3>8 DEF SamplePack, TypeOK, heatVars
    <2>4. CASE Decide
      <3>1. /\ moarpwr' \in BOOLEAN
            /\ heater_on' \in [Packs -> BOOLEAN]
            /\ hstate' \in {"NOT_HEATING", "HEATING"}
            /\ last' \in Evaluation
            /\ lowEvals' \in 0 .. 2
        <4>1. CASE RunHeatingStateMachine
          BY <4>1, RunHeatingType
        <4>2. CASE UNCHANGED heatVars
          BY <4>2 DEF TypeOK, heatVars
        <4> QED
          BY <2>4, <4>1, <4>2 DEF Decide
      <3> QED
        BY <2>4, <3>1 DEF Decide, TypeOK, chargeVars
    <2>5. CASE EventReset
      BY <2>5 DEF EventReset, TypeOK, heatVars, chargeVars
    <2>6. CASE Reset
      <3>1. data' \in [Packs -> Sample]
        BY <2>6, ZeroedType DEF Reset, ClearedData
      <3>2. status' \in [Packs -> Pins]
        BY <2>6 DEF Reset, ClearedStatus, Pins
      <3>3. last' \in Evaluation
        BY <2>6 DEF Reset, NoEvaluation, Evaluation
      <3>4. next' \in Packs /\ lowEvals' \in 0 .. 2
        BY SMT, <2>6 DEF Reset, Packs, NUM_PACKS
      <3>5. moarpwr' \in BOOLEAN /\ heater_on' \in [Packs -> BOOLEAN]
        BY <2>6 DEF Reset, SetHeaters
      <3> QED
        BY <2>6, <3>1, <3>2, <3>3, <3>4, <3>5, AllFalseType DEF Reset, TypeOK
    <2>7. CASE UNCHANGED vars
      BY <2>7 DEF vars, TypeOK, heatVars, chargeVars
    <2> QED
      BY <2>1, <2>2, <2>3, <2>4, <2>5, <2>6, <2>7 DEF Next, BattThread
  <1> QED
    BY <1>1, <1>2, PTL DEF Spec

-----------------------------------------------------------------------------
(* The heaters.                                                            *)

\* What makes LowChargeStopsHeating inductive: the three pins agree, one
\* evaluation without charge has already disarmed the state machine, and the
\* machine is armed only on the evidence of its last evaluation.
HeatIInv ==
    /\ HeatersOn \/ HeatersOff
    /\ lowEvals >= 1 => hstate = "NOT_HEATING"
    /\ LowChargeStopsHeating
    /\ hstate = "HEATING" => last.full /\ (last.cold \/ ~last.warm)

LEMMA SetHeatersAgree ==
    ASSUME NEW on \in BOOLEAN, SetHeaters(on)
    PROVE  /\ (HeatersOn \/ HeatersOff)'
           /\ ~on => HeatersOff'
           /\ on => HeatersOn'
  <1>1. \A p \in Packs : heater_on'[p] = on
    BY DEF SetHeaters
  <1> QED
    BY <1>1 DEF SetHeaters, HeatersOn, HeatersOff

LEMMA EvaluateHeatingKeepsInv ==
    ASSUME TypeOK, HeatIInv, NEW cold \in BOOLEAN, NEW warm \in BOOLEAN,
           EvaluateHeating(cold, warm)
    PROVE  HeatIInv'
  <1>1. FullEnough \in BOOLEAN
    BY DEF FullEnough
  <1>2. lowEvals' = IF FullEnough THEN 0 ELSE IF lowEvals < 2 THEN lowEvals + 1 ELSE 2
    BY DEF EvaluateHeating, KeepHeating
  <1>3. last'.full = FullEnough /\ last'.cold = cold /\ last'.warm = warm
    BY DEF EvaluateHeating, KeepHeating
  <1>4. CASE /\ hstate = "HEATING"
             /\ SetHeaters(TRUE)
             /\ hstate' = IF warm \/ ~FullEnough THEN "NOT_HEATING" ELSE "HEATING"
    <2>1. lowEvals = 0
      BY SMT, <1>4 DEF HeatIInv, TypeOK
    <2>2. lowEvals' # 2
      BY SMT, <1>2, <2>1
    <2>3. lowEvals' >= 1 => hstate' = "NOT_HEATING"
      BY SMT, <1>2, <1>4
    <2>4. hstate' = "HEATING" => FullEnough /\ ~warm
      BY <1>4
    <2> QED
      BY <1>3, <1>4, <2>2, <2>3, <2>4, SetHeatersAgree DEF HeatIInv, LowChargeStopsHeating
  <1>5. CASE /\ hstate = "NOT_HEATING"
             /\ SetHeaters(FALSE)
             /\ hstate' = IF cold /\ FullEnough THEN "HEATING" ELSE "NOT_HEATING"
    <2>1. lowEvals' >= 1 => hstate' = "NOT_HEATING"
      BY SMT, <1>2, <1>5
    <2>2. hstate' = "HEATING" => FullEnough /\ cold
      BY <1>5
    <2> QED
      BY <1>3, <1>5, <2>1, <2>2, SetHeatersAgree DEF HeatIInv, LowChargeStopsHeating
  <1> QED
    BY <1>4, <1>5 DEF EvaluateHeating, KeepHeating

\* The failsafe only turns the heaters off.
LEMMA RunHeatingKeepsInv ==
    ASSUME TypeOK, HeatIInv, RunHeatingStateMachine
    PROVE  HeatIInv'
  <1>1. CASE Failsafe /\ SetHeaters(FALSE) /\ UNCHANGED <<hstate, last, lowEvals>>
    BY <1>1, SetHeatersAgree DEF HeatIInv, LowChargeStopsHeating
  <1>2. CASE \E die \in DieTemps : EvaluateHeating(TooCold(die), WarmEnough(die))
    <2>1. PICK die \in DieTemps : EvaluateHeating(TooCold(die), WarmEnough(die))
      BY <1>2
    <2>2. TooCold(die) \in BOOLEAN /\ WarmEnough(die) \in BOOLEAN
      BY SeenType
    <2> QED
      BY <2>1, <2>2, EvaluateHeatingKeepsInv
  <1> QED
    BY <1>1, <1>2 DEF RunHeatingStateMachine

\* A step that leaves the heaters' variables alone keeps the invariant.
LEMMA UnchangedKeepsInv ==
    ASSUME HeatIInv, UNCHANGED heatVars
    PROVE  HeatIInv'
  BY DEF HeatIInv, heatVars, HeatersOn, HeatersOff, LowChargeStopsHeating

LEMMA HeatInvInductive == TypeOK /\ HeatIInv /\ [Next]_vars => HeatIInv'
  <1> SUFFICES ASSUME TypeOK, HeatIInv, [Next]_vars PROVE HeatIInv'
    OBVIOUS
  <1>1. CASE Boot
    <2>1. HeatersOff'
      BY <1>1, SetHeatersAgree DEF Boot
    <2> QED
      BY <1>1, <2>1 DEF Boot, HeatIInv, LowChargeStopsHeating
  <1>2. CASE StartCycle \/ SamplePack \/ EventReset \/ UNCHANGED vars
    <2>1. UNCHANGED heatVars
      BY <1>2 DEF StartCycle, SamplePack, EventReset, vars
    <2> QED
      BY <2>1, UnchangedKeepsInv
  <1>3. CASE Decide
    <2>1. RunHeatingStateMachine \/ UNCHANGED heatVars
      BY <1>3 DEF Decide
    <2> QED
      BY <2>1, RunHeatingKeepsInv, UnchangedKeepsInv
  <1>4. CASE Reset
    <2>1. HeatersOff' /\ lowEvals' = 0 /\ hstate' = "NOT_HEATING"
      BY <1>4, SetHeatersAgree DEF Reset
    <2> QED
      BY SMT, <2>1 DEF HeatIInv, LowChargeStopsHeating
  <1> QED
    BY <1>1, <1>2, <1>3, <1>4 DEF Next, BattThread

LEMMA HeatInvHolds == Spec => [](TypeOK /\ HeatIInv)
  <1>1. Init => HeatIInv
    <2> SUFFICES ASSUME Init PROVE HeatIInv
      OBVIOUS
    <2>1. HeatersOff
      BY DEF Init, HeatersOff, AllFalse
    <2> QED
      BY SMT, <2>1 DEF Init, HeatIInv, LowChargeStopsHeating
  <1> QED
    BY <1>1, HeatInvInductive, TypeCorrect, PTL DEF Spec

\* Two evaluations in a row without charge leave the heaters off, for every
\* reading, failure and build (batt.c:290-304).
THEOREM LowChargeStopsHeatingHolds == Spec => []LowChargeStopsHeating
  <1>1. HeatIInv => LowChargeStopsHeating
    BY DEF HeatIInv
  <1> QED
    BY <1>1, HeatInvHolds, PTL

\* The heaters never go on in a critically low or failsafe cycle, and only on
\* the evidence of the evaluation before (batt.c:249-313, 1018).
THEOREM SwitchOnIsJustifiedHolds == Spec => SwitchOnIsJustified
  <1> DEFINE Justified == HeatersOff /\ ~HeatersOff' =>
                             /\ ~CriticallyLow
                             /\ ~Failsafe
                             /\ last.full /\ (last.cold \/ ~last.warm)
  <1>1. TypeOK /\ HeatIInv /\ [Next]_vars => [Justified]_vars
    <2> SUFFICES ASSUME HeatIInv, Next, HeatersOff, ~HeatersOff'
                 PROVE  /\ ~CriticallyLow
                        /\ ~Failsafe
                        /\ last.full /\ (last.cold \/ ~last.warm)
      OBVIOUS
    <2>1. ~SetHeaters(FALSE) /\ ~UNCHANGED heatVars
      BY SetHeatersAgree DEF heatVars, HeatersOff
    <2>2. Decide
      BY <2>1 DEF Next, BattThread, Boot, StartCycle, SamplePack, EventReset, Reset
    <2>3. ~CriticallyLow /\ RunHeatingStateMachine
      BY <2>1, <2>2 DEF Decide
    <2>4. ~Failsafe /\ hstate = "HEATING"
      BY <2>1, <2>3 DEF RunHeatingStateMachine, EvaluateHeating
    <2> QED
      BY <2>3, <2>4 DEF HeatIInv
  <1> QED
    BY <1>1, HeatInvHolds, PTL DEF Spec, SwitchOnIsJustified

-----------------------------------------------------------------------------
(* What is published, and the charge and discharge lines.                  *)

\* In the running cycle, the packs that have been sampled.
Sampled(p) == pc = "decide" \/ (pc = "sample" /\ p < next)

\* Why the published bit is right at the end of a cycle: it is right for each
\* pack from its sample on, and nothing moves a heater before the cycle ends.
PublishInv ==
    \A p \in Packs : Sampled(p) /\ data[p].valid => status[p].heater_on = heater_on[p]

LEMMA PublishInvInductive == TypeOK /\ PublishInv /\ [Next]_vars => PublishInv'
  <1> SUFFICES ASSUME TypeOK, PublishInv, [Next]_vars PROVE PublishInv'
    OBVIOUS
  <1>1. CASE Boot \/ Decide \/ Reset
    BY <1>1 DEF Boot, Decide, Reset, PublishInv, Sampled
  <1>2. CASE StartCycle
    <2>1. \A p \in Packs : ~(p < 1)
      BY SMT DEF Packs, NUM_PACKS
    <2> QED
      BY <1>2, <2>1 DEF StartCycle, PublishInv, Sampled
  <1>3. CASE SamplePack
    <2>1. PICK s \in Samples(enabled[next]) :
             /\ data' = [data EXCEPT ![next] = s]
             /\ IF s.valid THEN PublishStatus(next) ELSE UNCHANGED status
      BY <1>3 DEF SamplePack
    <2>2. UNCHANGED heater_on /\ next \in Packs /\ pc = "sample"
      BY <1>3 DEF SamplePack, heatVars, TypeOK
    <2>3. ASSUME NEW p \in Packs, Sampled(p)', data'[p].valid
          PROVE  status'[p].heater_on = heater_on'[p]
      <3>1. CASE p = next
        <4>1. data'[p] = s
          BY <2>1, <3>1 DEF TypeOK
        <4>2. status'[p].heater_on = heater_on[p]
          BY <2>1, <2>3, <3>1, <4>1 DEF PublishStatus, TypeOK
        <4> QED
          BY <2>2, <4>2
      <3>2. CASE p # next
        <4>1. data'[p] = data[p] /\ status'[p] = status[p]
          BY <2>1, <3>2 DEF PublishStatus, TypeOK
        <4>2. p < next
          BY SMT, <1>3, <2>3, <3>2 DEF SamplePack, Sampled, TypeOK, Packs, NUM_PACKS
        <4> QED
          BY <2>2, <2>3, <4>1, <4>2 DEF PublishInv, Sampled
      <3> QED
        BY <3>1, <3>2
    <2> QED
      BY <2>3 DEF PublishInv
  <1>4. CASE EventReset \/ UNCHANGED vars
    BY <1>4 DEF EventReset, vars, heatVars, PublishInv, Sampled
  <1> QED
    BY <1>1, <1>2, <1>3, <1>4 DEF Next, BattThread

\* At the end of every cycle the heater bit on the bus is the pin's level for
\* each pack whose sample is valid (batt.c:529, 1001-1012).
THEOREM PublishedHeaterBitIsTrueHolds == Spec => []PublishedHeaterBitIsTrue
  <1>1. Init => PublishInv
    BY DEF Init, PublishInv, Sampled
  <1>2. PublishInv => PublishedHeaterBitIsTrue
    BY DEF PublishInv, PublishedHeaterBitIsTrue, Sampled
  <1> QED
    BY <1>1, <1>2, PublishInvInductive, TypeCorrect, PTL DEF Spec

\* Without charge control both lines stay as start-up left them.
LinesInv ==
    /\ IsolatedPackIsSick
    /\ ~ENABLE_CHARGING_CONTROL => \A p \in Packs : ~dchg_dis[p]

LEMMA LinesInvInductive == TypeOK /\ LinesInv /\ [Next]_vars => LinesInv'
  <1> SUFFICES ASSUME TypeOK, LinesInv, [Next]_vars PROVE LinesInv'
    OBVIOUS
  <1>1. CASE Boot \/ Reset
    <2>1. \A p \in Packs : ~dchg_dis'[p]
      BY <1>1 DEF Boot, Reset, AllFalse
    <2> QED
      BY <2>1 DEF LinesInv, IsolatedPackIsSick
  <1>2. CASE SamplePack
    <2>1. PICK s \in Samples(enabled[next]) :
             data' = [data EXCEPT ![next] = s] /\ UpdateChargingState(next, s)
      BY <1>2 DEF SamplePack
    <2>2. s \in Sample /\ next \in Packs
      BY SampleType DEF TypeOK
    <2>3. CASE ~ENABLE_CHARGING_CONTROL
      BY <2>1, <2>3 DEF UpdateChargingState, chargeVars, LinesInv, IsolatedPackIsSick
    <2>4. CASE ENABLE_CHARGING_CONTROL
      <3>1. ASSUME NEW p \in Packs, dchg_dis'[p], chg_dis'[p]
            PROVE  ~data'[p].valid \/ (data'[p].vcell > 4100 /\ data'[p].soc < 20)
        <4>1. CASE p = next
          <5>1. data'[p] = s
            BY <2>1, <4>1 DEF TypeOK
          <5>2. CASE s.valid
            <6> DEFINE stop == s.vcell < 3000 \/ s.soc < 20
                       full == s.vcell > 4100
            <6>1. /\ dchg_dis' = [dchg_dis EXCEPT ![next] = stop]
                  /\ chg_dis' = [chg_dis EXCEPT ![next] = full]
              BY <2>1, <2>4, <5>2 DEF UpdateChargingState
            <6>2. dchg_dis'[p] = stop /\ chg_dis'[p] = full
              <7> HIDE DEF stop, full
              <7> QED
                BY <4>1, <6>1 DEF TypeOK
            <6>3. stop /\ full
              <7> HIDE DEF stop, full
              <7> QED
                BY <3>1, <6>2
            <6>4. s.vcell \in Nat
              BY SMT, <2>2 DEF Sample, UINT16
            <6>5. s.vcell > 4100 /\ s.soc < 20
              BY SMT, <6>3, <6>4
            <6> QED
              BY <5>1, <6>5
          <5> QED
            BY <5>1, <5>2
        <4>2. CASE p # next
          <5>1. UNCHANGED <<data[p], dchg_dis[p], chg_dis[p]>>
            BY <2>1, <2>4, <4>2 DEF UpdateChargingState, TypeOK
          <5> QED
            BY <3>1, <5>1 DEF LinesInv, IsolatedPackIsSick
        <4> QED
          BY <4>1, <4>2
      <3> QED
        BY <2>4, <3>1 DEF LinesInv, IsolatedPackIsSick
    <2> QED
      BY <2>3, <2>4
  <1>3. CASE StartCycle \/ Decide \/ EventReset \/ UNCHANGED vars
    BY <1>3 DEF StartCycle, Decide, EventReset, vars, chargeVars, LinesInv, IsolatedPackIsSick
  <1> QED
    BY <1>1, <1>2, <1>3 DEF Next, BattThread

\* No pack is cut off from both charging and discharging by a valid sample,
\* unless its cells are full and its charge is low (batt.c:333-357).
THEOREM IsolatedPackIsSickHolds == Spec => []IsolatedPackIsSick
  <1>1. Init => LinesInv
    BY DEF Init, AllFalse, LinesInv, IsolatedPackIsSick
  <1>2. LinesInv => IsolatedPackIsSick
    BY DEF LinesInv
  <1> QED
    BY <1>1, <1>2, LinesInvInductive, TypeCorrect, PTL DEF Spec

-----------------------------------------------------------------------------
(* What must eventually happen, of a thread that keeps running.            *)

\* A turn of the loop over the packs that samples pack p.
Turn(p) == SamplePack /\ next = p

Booting    == pc = "boot"
Waiting    == pc = "wait"
SamplingOf(p) == pc = "sample" /\ next = p
Deciding   == pc = "decide"

LEMMA TwoPacks == Packs = {1, 2}
  BY DEF Packs, NUM_PACKS

\* What a step may do to the place in the cycle: nothing, or take the thread
\* one place further.
CycleStep ==
    /\ Waiting \/ SamplingOf(1) \/ SamplingOf(2) \/ Deciding
    /\ Waiting => Waiting' \/ SamplingOf(1)'
    /\ SamplingOf(1) => SamplingOf(1)' \/ (<<Turn(1)>>_vars /\ SamplingOf(2)')
    /\ SamplingOf(2) => SamplingOf(2)' \/ (<<Turn(2)>>_vars /\ Deciding')
    /\ Deciding => Deciding' \/ (<<Decide>>_vars /\ Waiting')

\* A step that leaves the thread where it is is not one of its own.
StaysPut ==
    \/ Waiting /\ Waiting'
    \/ SamplingOf(1) /\ SamplingOf(1)'
    \/ SamplingOf(2) /\ SamplingOf(2)'
    \/ Deciding /\ Deciding'

LEMMA CycleSteps ==
    TypeOK /\ ~Booting /\ ~Booting' /\ [Next]_vars
       => CycleStep /\ (<<BattThread>>_vars => ~StaysPut)
  <1> SUFFICES ASSUME TypeOK, ~Booting, ~Booting', [Next]_vars
               PROVE  CycleStep /\ (<<BattThread>>_vars => ~StaysPut)
    OBVIOUS
  <1> USE DEF Booting, Waiting, SamplingOf, Deciding
  <1>0. Waiting \/ SamplingOf(1) \/ SamplingOf(2) \/ Deciding
    BY TwoPacks DEF TypeOK
  <1>1. CASE Boot \/ Reset
    BY <1>1 DEF Boot, Reset
  <1>2. CASE StartCycle
    BY <1>0, <1>2 DEF StartCycle, CycleStep, StaysPut
  <1>3. CASE SamplePack
    <2>1. /\ pc = "sample"
          /\ IF next < 2 THEN next' = next + 1 /\ pc' = pc
                         ELSE pc' = "decide" /\ next' = next
      BY <1>3 DEF SamplePack, NUM_PACKS
    <2>2. next = 1 => pc' = "sample" /\ next' = 2
      BY <2>1
    <2>3. next = 2 => pc' = "decide"
      BY <2>1
    <2>4. vars' # vars
      BY <1>0, <2>1, <2>2, <2>3 DEF vars
    <2> QED
      BY <1>0, <1>3, <2>1, <2>2, <2>3, <2>4 DEF Turn, CycleStep, StaysPut
  <1>4. CASE Decide
    <2>1. pc = "decide" /\ pc' = "wait"
      BY <1>4 DEF Decide
    <2>2. vars' # vars
      BY <2>1 DEF vars
    <2> QED
      BY <1>4, <2>1, <2>2 DEF CycleStep, StaysPut
  <1>5. CASE EventReset \/ UNCHANGED vars
    <2>1. UNCHANGED <<pc, next>>
      BY <1>5 DEF EventReset, vars
    <2>2. ~BattThread
      <3>1. ~Boot /\ ~StartCycle /\ ~Decide
        BY <2>1 DEF Boot, StartCycle, Decide
      <3>2. SamplePack => FALSE
        <4> SUFFICES ASSUME SamplePack PROVE FALSE
          OBVIOUS
        <4>1. /\ pc = "sample"
              /\ IF next < 2 THEN next' = next + 1 ELSE pc' = "decide"
          BY DEF SamplePack, NUM_PACKS
        <4> QED
          BY <1>0, <2>1, <4>1
      <3> QED
        BY <3>1, <3>2 DEF BattThread
    <2> QED
      BY <1>0, <2>1, <2>2 DEF CycleStep
  <1> QED
    BY <1>1, <1>2, <1>3, <1>4, <1>5 DEF Next, BattThread

\* From the last reset on, each pack is sampled and the heaters are decided
\* about again and again.
LEMMA CyclesGoOn ==
    Spec /\ ThreadRuns /\ <>[](~Booting) =>
       /\ []<><<Turn(1)>>_vars
       /\ []<><<Turn(2)>>_vars
       /\ []<><<Decide>>_vars
  BY CycleSteps, TypeCorrect, PTL DEF Spec, ThreadRuns, CycleStep, StaysPut

\* The samples that stop discharging, and those that stop charging.
Stops(d) == ~d.valid \/ d.vcell < 3000 \/ d.soc < 20
Full(d)  == d.vcell > 4100

LineSet(p) == /\ Turn(p)
              /\ dchg_dis'[p] = Stops(data'[p])
              /\ data'[p].valid => chg_dis'[p] = Full(data'[p])

LinesKept(p) == ~Turn(p) /\ dchg_dis'[p] = dchg_dis[p] /\ chg_dis'[p] = chg_dis[p]

\* The lines of a pack after a step with charge control: set from the new
\* sample in that pack's turn, and otherwise left alone unless the card restarts.
LEMMA LinesStep ==
    ASSUME TypeOK, [Next]_vars, ENABLE_CHARGING_CONTROL, NEW p \in Packs,
           ~Booting, ~Booting'
    PROVE  LineSet(p) \/ LinesKept(p)
  <1>1. ~Boot /\ ~Reset
    BY DEF Boot, Reset, Booting
  <1>2. CASE SamplePack
    <2>1. PICK s \in Samples(enabled[next]) :
             data' = [data EXCEPT ![next] = s] /\ UpdateChargingState(next, s)
      BY <1>2 DEF SamplePack
    <2>2. CASE p = next
      <3>1. data'[p] = s
        BY <2>1, <2>2 DEF TypeOK
      <3>2. dchg_dis'[p] = Stops(s) /\ (s.valid => chg_dis'[p] = Full(s))
        <4>1. CASE ~s.valid
          <5>1. dchg_dis' = [dchg_dis EXCEPT ![next] = TRUE]
            BY <2>1, <4>1 DEF UpdateChargingState
          <5>2. Stops(s) = TRUE
            BY <4>1 DEF Stops
          <5> QED
            BY <2>2, <4>1, <5>1, <5>2 DEF TypeOK
        <4>2. CASE s.valid
          <5> DEFINE low  == s.vcell < 3000 \/ s.soc < 20
                     high == s.vcell > 4100
          <5>1. Stops(s) = low /\ Full(s) = high
            BY <4>2 DEF Stops, Full
          <5>2. /\ dchg_dis' = [dchg_dis EXCEPT ![next] = low]
                /\ chg_dis' = [chg_dis EXCEPT ![next] = high]
            BY <2>1, <4>2 DEF UpdateChargingState
          <5> HIDE DEF low, high
          <5>3. dchg_dis'[p] = low /\ chg_dis'[p] = high
            BY <2>2, <5>2 DEF TypeOK
          <5> QED
            BY <4>2, <5>1, <5>3
        <4> QED
          BY <4>1, <4>2
      <3> QED
        BY <1>2, <2>2, <3>1, <3>2 DEF Turn, LineSet
    <2>3. CASE p # next
      <3>1. dchg_dis'[p] = dchg_dis[p] /\ chg_dis'[p] = chg_dis[p]
        <4>1. CASE ~s.valid
          BY <2>1, <2>3, <4>1 DEF UpdateChargingState, TypeOK
        <4>2. CASE s.valid
          <5> DEFINE low  == s.vcell < 3000 \/ s.soc < 20
                     high == s.vcell > 4100
          <5>1. /\ dchg_dis' = [dchg_dis EXCEPT ![next] = low]
                /\ chg_dis' = [chg_dis EXCEPT ![next] = high]
            BY <2>1, <4>2 DEF UpdateChargingState
          <5> HIDE DEF low, high
          <5> QED
            BY <2>3, <5>1 DEF TypeOK
        <4> QED
          BY <4>1, <4>2
      <3> QED
        BY <2>3, <3>1 DEF Turn, LinesKept
    <2> QED
      BY <2>2, <2>3
  <1>3. CASE StartCycle \/ Decide \/ EventReset \/ UNCHANGED vars
    <2>1. UNCHANGED <<dchg_dis, chg_dis>>
      BY <1>3 DEF StartCycle, Decide, EventReset, vars, chargeVars
    <2>2. ~SamplePack
      <3>1. CASE StartCycle \/ Decide
        BY <3>1 DEF StartCycle, Decide, SamplePack
      <3>2. CASE EventReset \/ UNCHANGED vars
        <4>1. UNCHANGED <<pc, next>>
          BY <3>2 DEF EventReset, vars
        <4>2. SamplePack => /\ pc = "sample"
                            /\ IF next < 2 THEN next' = next + 1 ELSE pc' = "decide"
          BY DEF SamplePack, NUM_PACKS
        <4>3. next \in {1, 2}
          BY TwoPacks DEF TypeOK
        <4> QED
          BY <4>1, <4>2, <4>3
      <3> QED
        BY <1>3, <3>1, <3>2
    <2> QED
      BY <2>1, <2>2 DEF Turn, LinesKept
  <1> QED
    BY <1>1, <1>2, <1>3 DEF Next, BattThread

\* A card that has not started up has no valid sample.
BootInv == Booting => \A p \in Packs : ~data[p].valid

LEMMA BootInvHolds == Spec => []BootInv
  <1>1. Init => BootInv
    BY DEF Init, BootInv, ClearedData, Zeroed
  <1>2. BootInv /\ [Next]_vars => BootInv'
    <2> SUFFICES ASSUME BootInv, [Next]_vars, Booting' PROVE BootInv'
      BY DEF BootInv
    <2>1. CASE Reset
      BY <2>1 DEF Reset, BootInv, ClearedData, Zeroed
    <2>2. CASE Boot \/ StartCycle \/ Decide
      BY <2>2 DEF Boot, StartCycle, Decide, Booting
    <2>3. CASE SamplePack
      BY <2>3 DEF SamplePack, Booting
    <2>4. CASE EventReset \/ UNCHANGED vars
      BY <2>4 DEF EventReset, vars, Booting, BootInv
    <2> QED
      BY <2>1, <2>2, <2>3, <2>4 DEF Next, BattThread
  <1> QED
    BY <1>1, <1>2, PTL DEF Spec

Healthy(p)   == /\ data[p].valid /\ enabled[p]
                /\ data[p].vcell \in 3000 .. 4100 /\ data[p].soc >= 20
Connected(p) == ~dchg_dis[p] /\ ~chg_dis[p]

LEMMA InLimits ==
    \A v, c \in Nat : v \in 3000 .. 4100 /\ c >= 20
                      => ~(v < 3000) /\ ~(c < 20) /\ ~(v > 4100)
  BY SMT

LEMMA HealthySteps ==
    ASSUME ENABLE_CHARGING_CONTROL, NEW p \in Packs
    PROVE  TypeOK /\ TypeOK' /\ ~Booting /\ ~Booting' /\ Healthy(p)' /\ [Next]_vars
              => /\ Connected(p) => Connected(p)'
                 /\ Turn(p) => Connected(p)'
  <1> SUFFICES ASSUME TypeOK, TypeOK', ~Booting, ~Booting', Healthy(p)', [Next]_vars
               PROVE  (Connected(p) \/ Turn(p)) => Connected(p)'
    OBVIOUS
  <1>1. data' \in [Packs -> Sample]
    BY DEF TypeOK
  <1>2. data'[p].valid /\ ~Stops(data'[p]) /\ ~Full(data'[p])
    <2>1. data'[p] \in Sample
      BY <1>1
    <2>2. data'[p].vcell \in UINT16 /\ data'[p].soc \in 0 .. 255
      BY <2>1 DEF Sample
    <2>3. data'[p].vcell \in Nat /\ data'[p].soc \in Nat
      BY <2>2, SizePositive DEF UINT16
    <2> DEFINE v == data'[p].vcell
               c == data'[p].soc
    <2>4. data'[p].valid /\ v \in 3000 .. 4100 /\ c >= 20
      BY DEF Healthy
    <2>5. ~(v < 3000) /\ ~(c < 20) /\ ~(v > 4100)
      <3>1. v \in Nat /\ c \in Nat /\ v \in 3000 .. 4100 /\ c >= 20
        BY <2>3, <2>4
      <3> HIDE DEF v, c
      <3> QED
        BY <3>1, InLimits
    <2> QED
      BY <2>4, <2>5 DEF Stops, Full
  <1>3. LineSet(p) \/ LinesKept(p)
    BY LinesStep
  <1> QED
    BY <1>2, <1>3 DEF Connected, LineSet, LinesKept

\* A pack whose samples stay valid and within limits gets both lines back,
\* however long it was cut off before (batt.c:344, 355).
THEOREM HealthyPackReconnectsHolds ==
    ASSUME ENABLE_CHARGING_CONTROL
    PROVE  Spec /\ ThreadRuns => HealthyPackReconnects
  <1> SUFFICES ASSUME NEW p \in Packs
               PROVE  Spec /\ ThreadRuns /\ <>[]Healthy(p) => <>[]Connected(p)
    BY DEF HealthyPackReconnects, Healthy, Connected
  <1>1. BootInv /\ Healthy(p) => ~Booting
    BY DEF BootInv, Healthy
  <1>2. TypeOK /\ TypeOK' /\ ~Booting /\ ~Booting' /\ Healthy(p)' /\ [Next]_vars
           => /\ Connected(p) => Connected(p)'
              /\ Turn(p) => Connected(p)'
    BY HealthySteps
  <1>4. p = 1 \/ p = 2
    BY TwoPacks
  <1>5. CASE p = 1
    <2>1. <<Turn(1)>>_vars => Turn(p)
      BY <1>5
    <2> QED
      BY <1>1, <1>2, <2>1, BootInvHolds, TypeCorrect, CyclesGoOn, PTL DEF Spec
  <1>6. CASE p = 2
    <2>1. <<Turn(2)>>_vars => Turn(p)
      BY <1>6
    <2> QED
      BY <1>1, <1>2, <2>1, BootInvHolds, TypeCorrect, CyclesGoOn, PTL DEF Spec
  <1> QED
    BY <1>4, <1>5, <1>6

Dead(p)    == pc # "boot" /\ ~data[p].valid
Stopped(p) == dchg_dis[p]

LEMMA DeadSteps ==
    ASSUME ENABLE_CHARGING_CONTROL, NEW p \in Packs
    PROVE  TypeOK /\ ~Booting /\ ~Booting' /\ Dead(p)' /\ [Next]_vars
              => /\ Stopped(p) => Stopped(p)'
                 /\ Turn(p) => Stopped(p)'
  <1> SUFFICES ASSUME TypeOK, ~Booting, ~Booting', Dead(p)', [Next]_vars
               PROVE  (Stopped(p) \/ Turn(p)) => Stopped(p)'
    OBVIOUS
  <1>1. Stops(data'[p])
    BY DEF Dead, Stops
  <1>2. LineSet(p) \/ LinesKept(p)
    BY LinesStep
  <1> QED
    BY <1>1, <1>2 DEF Stopped, LineSet, LinesKept

\* A pack whose samples stay invalid stops discharging (batt.c:333-335).
THEOREM DeadGaugeStopsDischargeHolds ==
    ASSUME ENABLE_CHARGING_CONTROL
    PROVE  Spec /\ ThreadRuns => DeadGaugeStopsDischarge
  <1> SUFFICES ASSUME NEW p \in Packs
               PROVE  Spec /\ ThreadRuns /\ <>[]Dead(p) => <>[]Stopped(p)
    BY DEF DeadGaugeStopsDischarge, Dead, Stopped
  <1>1. Dead(p) => ~Booting
    BY DEF Dead, Booting
  <1>2. TypeOK /\ ~Booting /\ ~Booting' /\ Dead(p)' /\ [Next]_vars
           => /\ Stopped(p) => Stopped(p)'
              /\ Turn(p) => Stopped(p)'
    BY DeadSteps
  <1>3. p = 1 \/ p = 2
    BY TwoPacks
  <1>4. CASE p = 1
    <2>1. <<Turn(1)>>_vars => Turn(p)
      BY <1>4
    <2> QED
      BY <1>1, <1>2, <2>1, TypeCorrect, CyclesGoOn, PTL DEF Spec
  <1>5. CASE p = 2
    <2>1. <<Turn(2)>>_vars => Turn(p)
      BY <1>5
    <2> QED
      BY <1>1, <1>2, <2>1, TypeCorrect, CyclesGoOn, PTL DEF Spec
  <1> QED
    BY <1>3, <1>4, <1>5

\* Samples that can be judged show a pack that is warm, and none that is cold.
AllWarm == Judgeable /\ PackWarm /\ ~PackCold

\* They show a pack that is cold, none that is warm, and charge enough.
AllCold == Judgeable /\ PackCold /\ ~PackWarm /\ FullEnough

Armed == hstate = "HEATING"

\* A step leaves the heaters' state machine alone unless it is the decision,
\* which then follows the samples, or a reset.
LEMMA JudgedStep ==
    ASSUME TypeOK, Judgeable, ~Booting', [Next]_vars, ENABLE_HEATERS
    PROVE  \/ ~Decide /\ UNCHANGED heatVars
           \/ EvaluateHeating(PackCold, PackWarm)
  <1>1. ~Boot /\ ~Reset
    BY DEF Judgeable, Boot, Reset, Booting
  <1>2. CASE Decide
    <2>1. RunHeatingStateMachine
      BY <1>2 DEF Decide, Judgeable
    <2>2. PICK die \in DieTemps : EvaluateHeating(TooCold(die), WarmEnough(die))
      BY <2>1 DEF RunHeatingStateMachine, Judgeable
    <2>3. TooCold(die) = PackCold /\ WarmEnough(die) = PackWarm
      BY DEF TooCold, WarmEnough, PackCold, PackWarm, Judgeable
    <2> QED
      BY <2>2, <2>3
  <1>3. CASE ~Decide
    BY <1>1, <1>3 DEF Next, BattThread, StartCycle, SamplePack, EventReset, vars
  <1> QED
    BY <1>2, <1>3

LEMMA WarmSteps ==
    ASSUME ENABLE_HEATERS
    PROVE  TypeOK /\ AllWarm /\ ~Booting' /\ [Next]_vars
              => /\ ~Armed => ~Armed'
                 /\ Decide => ~Armed'
                 /\ ~Armed /\ HeatersOff => HeatersOff'
                 /\ ~Armed /\ Decide => HeatersOff'
  <1> SUFFICES ASSUME TypeOK, AllWarm, ~Booting', [Next]_vars
               PROVE  /\ ~Armed \/ Decide => ~Armed'
                      /\ ~Armed /\ (HeatersOff \/ Decide) => HeatersOff'
    OBVIOUS
  <1>1. CASE ~Decide /\ UNCHANGED heatVars
    BY <1>1 DEF heatVars, Armed, HeatersOff
  <1>2. CASE EvaluateHeating(PackCold, PackWarm)
    <2>1. hstate' = "NOT_HEATING"
      BY <1>2 DEF EvaluateHeating, KeepHeating, AllWarm
    <2>2. ~Armed => SetHeaters(FALSE)
      BY <1>2 DEF EvaluateHeating, Armed
    <2> QED
      BY <2>1, <2>2, SetHeatersAgree DEF Armed
  <1> QED
    BY <1>1, <1>2, JudgedStep DEF AllWarm

\* Once a pack stays warm and none is cold, the heaters go off for good, as long
\* as the samples can be judged: the next decision disarms the state machine,
\* the one after it releases the pins (batt.c:286, 297).
THEOREM WarmPacksEndHeatingHolds ==
    ASSUME ENABLE_HEATERS
    PROVE  Spec /\ ThreadRuns => WarmPacksEndHeating
  <1>1. AllWarm => ~Booting
    BY DEF AllWarm, Judgeable, Booting
  <1>2. TypeOK /\ AllWarm /\ ~Booting' /\ [Next]_vars
           => /\ ~Armed => ~Armed'
              /\ Decide => ~Armed'
              /\ ~Armed /\ HeatersOff => HeatersOff'
              /\ ~Armed /\ Decide => HeatersOff'
    BY WarmSteps
  <1>3. Spec /\ ThreadRuns /\ <>[]AllWarm => <>[]HeatersOff
    BY <1>1, <1>2, TypeCorrect, CyclesGoOn, PTL DEF Spec
  <1> QED
    BY <1>3 DEF WarmPacksEndHeating, AllWarm

LEMMA ColdSteps ==
    ASSUME ENABLE_HEATERS
    PROVE  TypeOK /\ AllCold /\ ~Booting' /\ [Next]_vars
              => /\ Armed => Armed'
                 /\ Decide => Armed'
                 /\ Armed /\ HeatersOn => HeatersOn'
                 /\ Armed /\ Decide => HeatersOn'
  <1> SUFFICES ASSUME TypeOK, AllCold, ~Booting', [Next]_vars
               PROVE  /\ Armed \/ Decide => Armed'
                      /\ Armed /\ (HeatersOn \/ Decide) => HeatersOn'
    OBVIOUS
  <1>1. CASE ~Decide /\ UNCHANGED heatVars
    BY <1>1 DEF heatVars, Armed, HeatersOn
  <1>2. CASE EvaluateHeating(PackCold, PackWarm)
    <2>1. hstate' = "HEATING"
      BY <1>2 DEF EvaluateHeating, KeepHeating, AllCold
    <2>2. Armed => SetHeaters(TRUE)
      BY <1>2 DEF EvaluateHeating, Armed
    <2> QED
      BY <2>1, <2>2, SetHeatersAgree DEF Armed
  <1> QED
    BY <1>1, <1>2, JudgedStep DEF AllCold

\* Once a pack stays cold, none is warm and there is charge enough, the heaters
\* go on for good (batt.c:283, 304).
THEOREM ColdPacksGetHeatHolds ==
    ASSUME ENABLE_HEATERS
    PROVE  Spec /\ ThreadRuns => ColdPacksGetHeat
  <1>1. AllCold => ~Booting
    BY DEF AllCold, Judgeable, Booting
  <1>2. TypeOK /\ AllCold /\ ~Booting' /\ [Next]_vars
           => /\ Armed => Armed'
              /\ Decide => Armed'
              /\ Armed /\ HeatersOn => HeatersOn'
              /\ Armed /\ Decide => HeatersOn'
    BY ColdSteps
  <1>3. Spec /\ ThreadRuns /\ <>[]AllCold => <>[]HeatersOn
    BY <1>1, <1>2, TypeCorrect, CyclesGoOn, PTL DEF Spec
  <1> QED
    BY <1>3 DEF ColdPacksGetHeat, AllCold

\* A fair thread that always has a step to take keeps running.
LEMMA FairThreadRuns == FairSpec /\ []ENABLED <<BattThread>>_vars => ThreadRuns
  BY PTL DEF FairSpec, ThreadRuns

=============================================================================
