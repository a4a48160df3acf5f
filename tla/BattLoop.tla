------------------------------ MODULE BattLoop ------------------------------
(***************************************************************************)
(* The battery thread of src/src/batt.c: its main loop samples both packs, *)
(* drives the charge and discharge lines from each sample, posts the       *)
(* update event, and once per cycle runs the heating state machine.        *)
(*                                                                         *)
(* A cycle is one SamplePack step per pack and one Decide step.  Between   *)
(* those steps other threads run and the card may be reset, so each step   *)
(* is an action of its own; inside one step nothing another thread does    *)
(* is visible to the code modelled here.  Start-up is the single action    *)
(* Boot; its I2C bus recovery is the subject of module Recovery and its    *)
(* flash history of module Hist.                                           *)
(***************************************************************************)
EXTENDS Integers, FiniteSets

CONSTANTS
    Readings,                  \* what the cells of a pack may measure
    Failures,                  \* the sets of register reads that fail together
    DieTemps,                  \* what read_die_temp may return
    ENABLE_HEATERS,            \* CONFIG_ENABLE_HEATERS
    ENABLE_CHARGING_CONTROL    \* CONFIG_ENABLE_CHARGING_CONTROL

SHUTDOWN_MV == 2850
NUM_PACKS   == 2               \* batt.c:38 refuses any other number
Packs       == 1 .. NUM_PACKS
UINT16_SIZE == 65536           \* the values of a uint16_t
UINT16      == 0 .. UINT16_SIZE - 1

\* The reads of populate_pack_data that the loop's decisions can tell apart,
\* in the order they are made: "other" stands for the remaining temperatures
\* and the average cell voltage, all read before the second cell is computed,
\* "late" for every read after it but the state of charge.
Reads       == {"other", "avg_temp_1", "v_cell_1", "v_cell", "batt",
                "late", "present_soc"}
BeforeCell2 == {"other", "avg_temp_1", "v_cell_1", "v_cell", "batt"}

Reading == [v1 : UINT16, batt : Nat, vcell : UINT16, soc : 0 .. 255, temp : Int]

ASSUME ReadingsAssumption == Readings \subseteq Reading /\ Readings # {}
ASSUME FailuresAssumption == Failures \subseteq SUBSET Reads /\ {} \in Failures
ASSUME DieTempsAssumption == DieTemps \subseteq Int /\ DieTemps # {}
ASSUME BuildAssumption    == ENABLE_HEATERS \in BOOLEAN
                             /\ ENABLE_CHARGING_CONTROL \in BOOLEAN

VARIABLES
    pc,             \* where the thread is: "boot", "wait", "sample", "decide"
    next,           \* the pack the running cycle samples next
    enabled,        \* packs[i].enabled
    data,           \* packs[i].data
    status,         \* the status byte of each pack in the object dictionary
    moarpwr,        \* heater supply pin
    heater_on,      \* heater pin of each pack
    dchg_dis,       \* line_dchg_dis pin of each pack
    chg_dis,        \* line_chg_dis pin of each pack
    hstate,         \* current_battery_state_machine_state
    batt_event,     \* BATT_EVENT_UPDATED is set in batt_event
    last,           \* history: what the last heating evaluation saw
    lowEvals        \* history: evaluations in a row that saw too little charge

heatVars   == <<moarpwr, heater_on, hstate, last, lowEvals>>
chargeVars == <<dchg_dis, chg_dis>>
vars == <<pc, next, enabled, data, status, batt_event, heatVars, chargeVars>>

Sample == [valid : BOOLEAN, v1 : UINT16, v2 : UINT16, vcell : UINT16,
           soc : 0 .. 255, temp : Int]
Pins   == [heater_on : BOOLEAN, dchg_dis : BOOLEAN, chg_dis : BOOLEAN]
Evaluation == [full : BOOLEAN, cold : BOOLEAN, warm : BOOLEAN]

TypeOK ==
    /\ pc \in {"boot", "wait", "sample", "decide"}
    /\ next \in Packs
    /\ enabled \in [Packs -> BOOLEAN]
    /\ data \in [Packs -> Sample]
    /\ status \in [Packs -> Pins]
    /\ moarpwr \in BOOLEAN
    /\ heater_on \in [Packs -> BOOLEAN]
    /\ dchg_dis \in [Packs -> BOOLEAN]
    /\ chg_dis \in [Packs -> BOOLEAN]
    /\ hstate \in {"NOT_HEATING", "HEATING"}
    /\ batt_event \in BOOLEAN
    /\ last \in Evaluation
    /\ lowEvals \in 0 .. 2

-----------------------------------------------------------------------------
(* Sampling a pack.                                                        *)

\* A cleared batt_pack_data_t; only the disabled pack is called valid then.
Zeroed(valid) == [valid |-> valid, v1 |-> 0, v2 |-> 0, vcell |-> 0,
                  soc |-> 0, temp |-> 0]

\* Mutant of Cell2: the difference is kept in a wider type.
Cell2_Wide(batt, v1) == batt - v1

\* v_cell_2_mV, a uint16_t, from the pack voltage and the first cell.
Cell2(batt, v1) == (batt - v1) % UINT16_SIZE

\* A read that fails leaves a zero.
Got(F, read, value) == IF read \in F THEN 0 ELSE value

\* populate_pack_data of an enabled pack: any failure makes the sample
\* invalid; the second cell is computed only if nothing has failed so far.
Populated(r, F) ==
    [valid |-> F = {},
     v1    |-> Got(F, "v_cell_1", r.v1),
     v2    |-> IF F \cap BeforeCell2 = {} THEN Cell2(r.batt, r.v1) ELSE 0,
     vcell |-> Got(F, "v_cell", r.vcell),
     soc   |-> Got(F, "present_soc", r.soc),
     temp  |-> Got(F, "avg_temp_1", r.temp)]

\* The samples populate_pack_data may leave behind.
Samples(usable) ==
    IF usable THEN {Populated(r, F) : r \in Readings, F \in Failures}
              ELSE {Zeroed(TRUE)}

\* check_for_critically_low_batteries at start-up fills in the voltages only,
\* and computes the second cell whatever failed.
BootSample(v1, batt) ==
    [valid |-> FALSE, v1 |-> v1, v2 |-> Cell2(batt, v1), vcell |-> 0,
     soc |-> 0, temp |-> 0]
BootSamples(usable) ==
    IF usable
    THEN {BootSample(Got(F, "v_cell_1", r.v1), Got(F, "batt", r.batt)) :
             r \in Readings, F \in {{}, {"v_cell_1"}, {"batt"}, {"v_cell_1", "batt"}}}
    ELSE {Zeroed(FALSE)}

\* Mutant of PublishStatus: the bit mask is not cleared before it is filled.
PublishStatus_Sticky(p) ==
    status' = [status EXCEPT ![p] = [heater_on |-> @.heater_on \/ heater_on[p],
                                     dchg_dis  |-> @.dchg_dis \/ dchg_dis[p],
                                     chg_dis   |-> @.chg_dis \/ chg_dis[p]]]

\* populate_od_pack_data: the status byte is read back from the pins.
PublishStatus(p) ==
    status' = [status EXCEPT ![p] = [heater_on |-> heater_on[p],
                                     dchg_dis  |-> dchg_dis[p],
                                     chg_dis   |-> chg_dis[p]]]

\* Mutants of UpdateChargingState: charging, or discharging, is never enabled
\* again; an invalid sample leaves both lines as they are.
UpdateChargingState_ChargeStaysOff(p, s) ==
    IF ~s.valid
    THEN dchg_dis' = [dchg_dis EXCEPT ![p] = TRUE] /\ UNCHANGED chg_dis
    ELSE /\ dchg_dis' = [dchg_dis EXCEPT ![p] = s.vcell < 3000 \/ s.soc < 20]
         /\ chg_dis'  = [chg_dis EXCEPT ![p] = @ \/ s.vcell > 4100]
UpdateChargingState_DischargeStaysOff(p, s) ==
    IF ~s.valid
    THEN dchg_dis' = [dchg_dis EXCEPT ![p] = TRUE] /\ UNCHANGED chg_dis
    ELSE /\ dchg_dis' = [dchg_dis EXCEPT ![p] = @ \/ s.vcell < 3000 \/ s.soc < 20]
         /\ chg_dis'  = [chg_dis EXCEPT ![p] = s.vcell > 4100]
UpdateChargingState_IgnoresInvalid(p, s) ==
    IF ~s.valid
    THEN UNCHANGED chargeVars
    ELSE /\ dchg_dis' = [dchg_dis EXCEPT ![p] = s.vcell < 3000 \/ s.soc < 20]
         /\ chg_dis'  = [chg_dis EXCEPT ![p] = s.vcell > 4100]

\* update_battery_charging_state of pack p with sample s.
UpdateChargingState(p, s) ==
    IF ~ENABLE_CHARGING_CONTROL THEN UNCHANGED chargeVars
    ELSE IF ~s.valid
    THEN /\ dchg_dis' = [dchg_dis EXCEPT ![p] = TRUE]
         /\ UNCHANGED chg_dis      \* batt.c:336 evaluates the pin and drops it
    ELSE /\ dchg_dis' = [dchg_dis EXCEPT ![p] = s.vcell < 3000 \/ s.soc < 20]
         /\ chg_dis'  = [chg_dis EXCEPT ![p] = s.vcell > 4100]

-----------------------------------------------------------------------------
(* The heating decision.                                                   *)

CriticallyLow ==
    \E p \in Packs : /\ enabled[p]
                     /\ data[p].v1 < SHUTDOWN_MV \/ data[p].v2 < SHUTDOWN_MV

AllUsable  == \A p \in Packs : enabled[p]
NoneUsable == \A p \in Packs : ~enabled[p]
NumUsable  == (IF enabled[1] THEN 1 ELSE 0) + (IF enabled[2] THEN 1 ELSE 0)

Failsafe == AllUsable /\ \E p \in Packs : ~data[p].valid

\* What the state machine sees; with no usable pack it goes by the die
\* temperature and assumes that there is charge enough.
SocOf(p)      == IF enabled[p] THEN data[p].soc ELSE 0
FullEnough    == NoneUsable \/ (SocOf(1) + SocOf(2)) \div NumUsable > 25

\* Mutant of TooCold: every pack has to be cold.
TooCold_All(die) == IF NoneUsable THEN die < -5
                                  ELSE \A p \in Packs : data[p].temp < -5
TooCold(die)  == IF NoneUsable THEN die < -5
                               ELSE \E p \in Packs : data[p].temp < -5
WarmEnough(die) == IF NoneUsable THEN die > 5
                                 ELSE \E p \in Packs : data[p].temp > 5

HeatersOn  == moarpwr /\ \A p \in Packs : heater_on[p]
HeatersOff == ~moarpwr /\ \A p \in Packs : ~heater_on[p]

\* heaters_on(on)
SetHeaters(on) ==
    /\ moarpwr' = on
    /\ heater_on' = [p \in Packs |-> on]

\* Mutants of KeepHeating: charge, or warmth, is forgotten.
KeepHeating_AnyCharge(warm) == ~warm
KeepHeating_AnyWarmth(warm) == FullEnough

\* Whether heating under way goes on.
KeepHeating(warm) == ~warm /\ FullEnough

\* One run of the switch: the pins follow the state the machine was in, the
\* state follows what was seen, so the pins lag the decision by one cycle.
EvaluateHeating(cold, warm) ==
    /\ \/ /\ hstate = "HEATING"
          /\ SetHeaters(TRUE)
          /\ hstate' = IF KeepHeating(warm) THEN "HEATING" ELSE "NOT_HEATING"
       \/ /\ hstate = "NOT_HEATING"
          /\ SetHeaters(FALSE)
          /\ hstate' = IF cold /\ FullEnough THEN "HEATING" ELSE "NOT_HEATING"
    /\ last' = [full |-> FullEnough, cold |-> cold, warm |-> warm]
    /\ lowEvals' = IF FullEnough THEN 0 ELSE IF lowEvals < 2 THEN lowEvals + 1 ELSE 2

RunHeatingStateMachine ==
    \/ /\ Failsafe
       /\ SetHeaters(FALSE)
       /\ UNCHANGED <<hstate, last, lowEvals>>
    \/ /\ ~Failsafe
       /\ \E die \in DieTemps : EvaluateHeating(TooCold(die), WarmEnough(die))

-----------------------------------------------------------------------------
(* The thread.                                                             *)

\* Memory and pins as a reset of the processor leaves them.
AllFalse       == [p \in Packs |-> FALSE]
ClearedData    == [p \in Packs |-> Zeroed(FALSE)]
ClearedStatus  == [p \in Packs |->
                      [heater_on |-> FALSE, dchg_dis |-> FALSE, chg_dis |-> FALSE]]
NoEvaluation   == [full |-> FALSE, cold |-> FALSE, warm |-> FALSE]

Init ==
    /\ pc = "boot"
    /\ next = 1
    /\ enabled = AllFalse
    /\ data = ClearedData
    /\ status = ClearedStatus
    /\ moarpwr = FALSE
    /\ heater_on = AllFalse
    /\ dchg_dis = AllFalse
    /\ chg_dis = AllFalse
    /\ hstate = "NOT_HEATING"
    /\ batt_event = FALSE
    /\ last = NoEvaluation
    /\ lowEvals = 0

\* Start-up: find which gauges answer, configure the pins as inactive, turn
\* the heaters off and look at the voltages (nothing uses the verdict).
Boot ==
    /\ pc = "boot"
    /\ pc' = "wait"
    /\ enabled' \in [Packs -> BOOLEAN]
    /\ \E s1 \in BootSamples(enabled'[1]), s2 \in BootSamples(enabled'[2]) :
          data' = [p \in Packs |-> IF p = 1 THEN s1 ELSE s2]
    /\ SetHeaters(FALSE)
    /\ dchg_dis' = AllFalse
    /\ chg_dis' = AllFalse
    /\ UNCHANGED <<next, status, hstate, batt_event, last, lowEvals>>

\* The data interval has passed.
StartCycle ==
    /\ pc = "wait"
    /\ pc' = "sample"
    /\ next' = 1
    /\ UNCHANGED <<enabled, data, status, batt_event, heatVars, chargeVars>>

\* One turn of the loop over the packs.
SamplePack ==
    /\ pc = "sample"
    /\ \E s \in Samples(enabled[next]) :
          /\ data' = [data EXCEPT ![next] = s]
          /\ IF s.valid THEN PublishStatus(next) ELSE UNCHANGED status
          /\ UpdateChargingState(next, s)
    /\ IF next < NUM_PACKS THEN next' = next + 1 /\ UNCHANGED pc
                           ELSE pc' = "decide" /\ UNCHANGED next
    /\ UNCHANGED <<enabled, batt_event, heatVars>>

\* Mutant of Decide: the heating decision is made whatever the voltages.
Decide_AnyVoltage ==
    /\ pc = "decide"
    /\ pc' = "wait"
    /\ batt_event' = TRUE
    /\ IF ENABLE_HEATERS THEN RunHeatingStateMachine ELSE UNCHANGED heatVars
    /\ UNCHANGED <<next, enabled, data, status, chargeVars>>

\* Wake whoever waits for the data, then decide about the heaters.
Decide ==
    /\ pc = "decide"
    /\ pc' = "wait"
    /\ batt_event' = TRUE
    /\ IF ENABLE_HEATERS /\ ~CriticallyLow THEN RunHeatingStateMachine
                                           ELSE UNCHANGED heatVars
    /\ UNCHANGED <<next, enabled, data, status, chargeVars>>

\* batt_event_wait(true, ...) by another thread forgets a pending update.
EventReset ==
    /\ batt_event
    /\ batt_event' = FALSE
    /\ UNCHANGED <<pc, next, enabled, data, status, heatVars, chargeVars>>

\* The card is reset: once a day in orbit, or by a failed assertion.
Reset ==
    /\ pc # "boot"
    /\ pc' = "boot"
    /\ next' = 1
    /\ enabled' = AllFalse
    /\ data' = ClearedData
    /\ status' = ClearedStatus
    /\ SetHeaters(FALSE)
    /\ dchg_dis' = AllFalse
    /\ chg_dis' = AllFalse
    /\ hstate' = "NOT_HEATING"
    /\ batt_event' = FALSE
    /\ last' = NoEvaluation
    /\ lowEvals' = 0

BattThread == Boot \/ StartCycle \/ SamplePack \/ Decide
Next == BattThread \/ EventReset \/ Reset

Spec     == Init /\ [][Next]_vars
FairSpec == Spec /\ WF_vars(BattThread)

\* The thread is given the processor again and again.  As BattThread can always
\* take a step, FairSpec says the same.
ThreadRuns == []<><<BattThread>>_vars
-----------------------------------------------------------------------------
(* Properties: the heaters.                                                *)

\* Two heating evaluations in a row that find too little charge leave the
\* heaters off, whatever cycles without an evaluation come in between
\* (batt.c:290 and 297: the pins lag the decision by one evaluation).
LowChargeStopsHeating == lowEvals = 2 => HeatersOff

\* The heaters go on only in a cycle that is not critically low and whose
\* samples are all valid when both gauges are usable, and only if the last
\* evaluation before it found charge enough and a reason to heat: a cold
\* pack, or heating under way with no pack warm yet (batt.c:249-313, 1018).
SwitchOnIsJustified ==
    [][HeatersOff /\ ~HeatersOff' =>
          /\ ~CriticallyLow
          /\ ~Failsafe
          /\ last.full /\ (last.cold \/ ~last.warm)]_vars

\* When a cycle has sampled both packs, the heater bit published for a pack
\* with a valid sample is the pin's level (batt.c:529, 1001-1012).
PublishedHeaterBitIsTrue ==
    pc = "decide" => \A p \in Packs :
        data[p].valid => status[p].heater_on = heater_on[p]

\* Nothing keeps the state machine from judging the packs.
Judgeable == /\ pc # "boot"
             /\ ~NoneUsable
             /\ ~Failsafe
             /\ ~CriticallyLow
PackCold == \E p \in Packs : data[p].temp < -5
PackWarm == \E p \in Packs : data[p].temp > 5

\* Once some pack stays warm and none is cold, the heaters go off for good,
\* as long as the samples can be judged (batt.c:286, 297).
WarmPacksEndHeating ==
    <>[](Judgeable /\ PackWarm /\ ~PackCold) => <>[]HeatersOff

\* Once some pack stays cold, none is warm and there is charge enough, the
\* heaters go on for good (batt.c:283, 304).
ColdPacksGetHeat ==
    <>[](Judgeable /\ PackCold /\ ~PackWarm /\ FullEnough) => <>[]HeatersOn

\* batt.c:250-256: the failsafe turns the heaters off when both gauges are
\* usable and a sample is invalid, so no such cycle ends with them on.
FailsafeStopsHeaters == pc = "wait" /\ Failsafe => HeatersOff

-----------------------------------------------------------------------------
(* Properties: the charge and discharge lines.                             *)

\* A pack is cut off from both charging and discharging only while its last
\* sample was invalid, or showed a full cell and a low charge at once
\* (batt.c:333-357: each valid sample sets both lines anew).
IsolatedPackIsSick ==
    \A p \in Packs : dchg_dis[p] /\ chg_dis[p] =>
        ~data[p].valid \/ (data[p].vcell > 4100 /\ data[p].soc < 20)

\* A pack whose samples stay valid and within limits ends up with both lines
\* enabled, however long it was cut off before (batt.c:344, 355).
HealthyPackReconnects ==
    \A p \in Packs :
        <>[](/\ data[p].valid /\ enabled[p]
             /\ data[p].vcell \in 3000 .. 4100 /\ data[p].soc >= 20)
        => <>[](~dchg_dis[p] /\ ~chg_dis[p])

\* A pack whose samples stay invalid stops discharging (batt.c:333-335).
DeadGaugeStopsDischarge ==
    \A p \in Packs : <>[](pc # "boot" /\ ~data[p].valid) => <>[]dchg_dis[p]

\* batt.c:337: "data is invalid; disabling charging and discharging".
InvalidDataDisablesCharging ==
    pc = "decide" => \A p \in Packs : ~data[p].valid => dchg_dis[p] /\ chg_dis[p]
=============================================================================
