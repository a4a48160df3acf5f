-------------------------------- MODULE Calib --------------------------------
(***************************************************************************)
(* One pack's capacities: the battery thread restores them from the        *)
(* history after start-up, samples the gauge and stores them again         *)
(* (src/src/batt.c:370-517, 649-702, 940-1015), while the calibration      *)
(* thread marks learning complete and sets them when the pack seems full   *)
(* (src/src/calib.c:67-181, with LEARN_COMPLETE_ENABLED).  Both threads    *)
(* wait on I2C between any two accesses and share the pack's data without  *)
(* a lock.                                                                 *)
(*                                                                         *)
(* The gauge is that of module Gauge, with what its table does not hold:   *)
(* the learn stage and the registers MIXCAP and REPCAP, which a firmware   *)
(* reset estimates anew.                                                   *)
(***************************************************************************)
EXTENDS Gauge

CONSTANT Readings       \* what the gauge may report to one sample

Capacities == {"mixcap", "repcap"}

\* What a capacity is worth: not there; the gauge's guess from the voltage;
\* tracked by the gauge, or set when the pack was full; set to a full pack's
\* value when it was not.
Values == {"zero", "estimate", "tracked", "too_high"}
Spoilt == {"zero", "too_high"}

\* A reading says on which side of update_learning_complete's thresholds it
\* is: batt_mV above BATT_FULL_THRESHOLD_MV, avg_current_mA not negative and
\* below EOC_THRESHOLD_MA, full_capacity_mAh at least CELL_CAPACITY_MAH.
Reading == [batt_mV : BOOLEAN, avg_current_mA : BOOLEAN, full_capacity_mAh : BOOLEAN]

ASSUME ReadingsAssumption == Readings \subseteq Reading /\ Readings # {}

VARIABLES
    bpc,         \* the battery thread: step of the restoring or of a sample,
                 \* "idle" between two samples
    reading,     \* what the gauge reports to the present sample
    data,        \* pack->data, as far as calib.c reads it
    saved,       \* the newest entry in flash, as HistSpec promises it
    caps,        \* gauge: the capacities it runs on
    nLearnCfg,   \* gauge: shadow RAM says that learning is complete
    learnCfg,    \* gauge: the stage it runs on: "learning", or complete because
                 \* it "learned" or because shadow RAM "restored" it
    cpc,         \* the calibration thread: step of update_learning_complete
    ret,         \* ret in it
    sound,       \* history: the sample it judged was valid and no later one
                 \* has begun since
    missed       \* history: what is stored is incomplete: a disabled pack's could
                 \* not be loaded, or an enabled one's not all be read just now

battVars  == <<bpc, reading, data, missed>>
calibVars == <<cpc, ret, sound>>
capVars   == <<caps, nLearnCfg, learnCfg>>
ownVars   == <<battVars, saved, calibVars, capVars>>
allVars   == <<vars, ownVars>>

Sampling    == {"batt_mV", "avg_current_mA", "full_capacity_mAh", "reported_capacity_mAh"}
Calibrating == {"stage", "write", "readback", "mixcap", "repcap"}

\* After the memset of a sample: every threshold is missed, except that no
\* current counts as one that is small enough.
Cleared == [batt_mV |-> FALSE, avg_current_mA |-> TRUE,
            full_capacity_mAh |-> "zero", reported_capacity_mAh |-> "zero",
            is_data_valid |-> TRUE]

NoHistory == [c \in Capacities |-> "zero"]
Estimated == [c \in Capacities |-> "estimate"]

\* What a reset of the card leaves of both threads.
FreshThreads ==
    /\ bpc' = "load" /\ data' = Cleared /\ missed' = FALSE
    /\ cpc' = "sleep" /\ ret' = FALSE /\ sound' = TRUE
    /\ UNCHANGED <<reading, saved>>

CalibInit ==
    /\ Init
    /\ bpc = "load" /\ reading \in Readings /\ data = Cleared
    /\ saved = NoHistory /\ missed = FALSE
    /\ caps = Estimated /\ nLearnCfg = FALSE /\ learnCfg = "learning"
    /\ cpc = "sleep" /\ ret = FALSE /\ sound = TRUE

-----------------------------------------------------------------------------
(* Start-up and the gauge.                                                 *)

\* A firmware reset estimates the capacities and takes the learn stage from
\* shadow RAM; a stage the gauge has reached by itself is gone.
Reload ==
    /\ caps' = Estimated
    /\ learnCfg' = IF nLearnCfg THEN "restored" ELSE "learning"
    /\ UNCHANGED nLearnCfg

\* The steps of Gauge, before the history is loaded.
Configure ==
    /\ \/ ReadStatus \/ WriteConfig \/ RestartFails
       \/ Validate \/ WriteRegister \/ Verify \/ ApplyFails
    /\ UNCHANGED ownVars
Restart ==
    /\ RestartDone \/ ApplyDone
    /\ Reload
    /\ UNCHANGED <<battVars, saved, calibVars>>

\* NV memory knows nothing of a learn stage.
PowerOnAll ==
    /\ caps' = Estimated
    /\ nLearnCfg' = FALSE
    /\ learnCfg' = "learning"

CardResetAll       == CardReset /\ FreshThreads /\ UNCHANGED capVars
PowerLossAll       == PowerLoss /\ FreshThreads /\ PowerOnAll
GaugePowerLossAll  == GaugePowerLoss /\ PowerOnAll
                      /\ UNCHANGED <<battVars, saved, calibVars>>

\* The gauge itself: the capacities become right as it is charged and discharged,
\* and at the end of its learning cycles the stage is complete.
Converge ==
    /\ caps' = [c \in Capacities |-> "tracked"]
    /\ UNCHANGED <<vars, battVars, saved, calibVars, nLearnCfg, learnCfg>>
Learn ==
    /\ learnCfg = "learning" /\ learnCfg' = "learned"
    /\ UNCHANGED <<vars, battVars, saved, calibVars, caps, nLearnCfg>>

-----------------------------------------------------------------------------
(* The battery thread, from the loading of the history on.                 *)

\* Mutant of Configured: the history is used before nv_ram_write.
Configured_BeforeNvRam == pc \in {"validate", "loop", "disabled"}
Configured             == pc \in {"loop", "disabled"}
Enabled                == pc # "disabled"

\* hist_load_current, and utilize_pack_hist_data for an enabled pack: a capacity
\* of zero is left at the gauge's default; a write that fails is only logged,
\* and one that does not may be lost.  The calibration thread still waits for
\* the first event, and nothing tells these accesses apart.
RestoreHistory ==
    /\ Configured /\ bpc = "load" /\ bpc' = "idle"
    /\ LET Present == {c \in Capacities : saved[c] # "zero"}
       IN  \/ /\ Enabled
              /\ \E written \in SUBSET Present :
                    /\ caps' = [c \in Capacities |-> IF c \in written THEN saved[c] ELSE caps[c]]
                    /\ clean' = (clean /\ written = Present)
              /\ UNCHANGED missed
           \/ ~Enabled /\ UNCHANGED <<caps, clean, missed>>
           \/ clean' = FALSE /\ missed' = ~Enabled /\ UNCHANGED caps
    /\ UNCHANGED <<pc, i, gaugeVars, updated, reading, data, saved, calibVars,
                   nLearnCfg, learnCfg>>

\* Mutant of Loaded: a disabled pack's entry is not loaded.
Loaded_EnabledOnly == IF Enabled THEN saved ELSE NoHistory
\* What start-up loaded for a disabled pack.
Loaded             == IF missed THEN NoHistory ELSE saved

\* populate_pack_hist_data, where a capacity that cannot be read becomes zero,
\* and hist_store_current, which may fail.  A disabled pack's entry is stored as
\* it was loaded.
StoreHistory ==
    /\ bpc = "idle"
    /\ \/ /\ Enabled
          /\ \E read \in SUBSET Capacities :
                /\ saved' \in {saved, [c \in Capacities |-> IF c \in read THEN caps[c] ELSE "zero"]}
                /\ missed' = (read # Capacities)
       \/ /\ ~Enabled
          /\ saved' \in {saved, Loaded}
          /\ UNCHANGED missed
    /\ UNCHANGED <<vars, bpc, reading, data, calibVars, capVars>>

\* populate_pack_data begins: the shared data is cleared, and a disabled pack's
\* stays so.
StartSample ==
    /\ bpc = "idle"
    /\ data' = Cleared
    /\ bpc' = IF Enabled THEN "batt_mV" ELSE "post"
    /\ reading' \in Readings
    /\ sound' = (sound /\ cpc \notin Calibrating)
    /\ missed' = (missed /\ ~Enabled)
    /\ UNCHANGED <<vars, saved, cpc, ret, capVars>>

\* Mutant of Following: the capacities are read before the current.
Following_CapacityFirst(step) ==
    CASE step = "batt_mV"               -> "full_capacity_mAh"
      [] step = "full_capacity_mAh"     -> "avg_current_mA"
      [] step = "avg_current_mA"        -> "reported_capacity_mAh"
      [] step = "reported_capacity_mAh" -> "post"

\* The order of the reads.
Following(step) ==
    CASE step = "batt_mV"               -> "avg_current_mA"
      [] step = "avg_current_mA"        -> "full_capacity_mAh"
      [] step = "full_capacity_mAh"     -> "reported_capacity_mAh"
      [] step = "reported_capacity_mAh" -> "post"

\* What the field holds once it has been read.
Got(field) ==
    CASE field = "full_capacity_mAh" -> IF reading[field] THEN "enough" ELSE "short"
      [] field = "reported_capacity_mAh" -> "own"
      [] OTHER -> reading[field]

\* One read of populate_pack_data; if it fails the field stays as it is and
\* the next one is read all the same.
ReadField ==
    /\ bpc \in Sampling
    /\ bpc' = Following(bpc)
    /\ \/ data' = [data EXCEPT ![bpc] = Got(bpc)]
       \/ data' = [data EXCEPT !.is_data_valid = FALSE]
    /\ UNCHANGED <<vars, reading, missed, saved, calibVars, capVars>>

\* k_event_post wakes the calibration thread if its two minutes of sleep are
\* over; otherwise its next wait clears the event first.
PostEvent ==
    /\ bpc = "post" /\ bpc' = "idle"
    /\ cpc' \in (IF cpc = "sleep" THEN {"sleep", "check"} ELSE {cpc})
    /\ UNCHANGED <<vars, reading, data, missed, saved, ret, sound, capVars>>

-----------------------------------------------------------------------------
(* The calibration thread.                                                 *)

Proceed(step) == cpc' = step /\ UNCHANGED <<updated, ret, sound>>

\* update_learning_complete returns, and pack->updated gets the result.
Finish(result) == cpc' = "sleep" /\ updated' = result /\ ret' = FALSE /\ sound' = TRUE

\* Mutant of SeemsFull: a pack that is still being charged passes.
SeemsFull_AnyCurrent == data.batt_mV /\ data.full_capacity_mAh = "enough"

\* The test of update_learning_complete; it does not ask whether data is valid.
SeemsFull ==
    /\ data.batt_mV
    /\ data.avg_current_mA
    /\ data.full_capacity_mAh = "enough"

Check ==
    /\ cpc = "check"
    /\ \/ SeemsFull /\ cpc' = "stage" /\ sound' = data.is_data_valid /\ UNCHANGED <<updated, ret>>
       \/ ~SeemsFull /\ Finish(FALSE)
    /\ UNCHANGED <<pc, i, gaugeVars, clean, battVars, saved, capVars>>

\* max17205_read_learn_stage reads the stage the gauge runs on.
ReadStage ==
    /\ cpc = "stage"
    /\ \/ learnCfg = "learning" /\ Proceed("write")
       \/ learnCfg # "learning" /\ Proceed("mixcap")
       \/ Finish(FALSE)
    /\ UNCHANGED <<pc, i, gaugeVars, clean, battVars, saved, capVars>>

\* max17205_write_learn_stage writes the stage in shadow RAM.
WriteStage ==
    /\ cpc = "write"
    /\ nLearnCfg' \in {nLearnCfg, TRUE}
    /\ Proceed("readback") \/ Finish(FALSE)
    /\ UNCHANGED <<pc, i, gaugeVars, clean, battVars, saved, caps, learnCfg>>

\* Mutant of StageReadBack: the register that was written is read.
StageReadBack_Written == nLearnCfg
StageReadBack         == learnCfg # "learning"

\* The stage is read again; if it is not the one written, all ends here.
ReadStageBack ==
    /\ cpc = "readback"
    /\ \/ StageReadBack /\ cpc' = "mixcap" /\ ret' = TRUE /\ UNCHANGED <<updated, sound>>
       \/ Finish(FALSE)
    /\ UNCHANGED <<pc, i, gaugeVars, clean, battVars, saved, capVars>>

\* full_capacity_mAh as it is now, written as the capacity of the pack.
FullCapacity ==
    CASE data.full_capacity_mAh = "zero"                   -> "zero"
      [] reading.batt_mV /\ reading.avg_current_mA         -> "tracked"
      [] OTHER                                             -> "too_high"

\* max17205_write_capacity of value to register c: the write may be lost, or
\* fail with or without effect.
WriteCapacity(c, value) == caps' \in {caps, [caps EXCEPT ![c] = value]}

WriteMixcap ==
    /\ cpc = "mixcap"
    /\ data' = [data EXCEPT !.reported_capacity_mAh = FullCapacity]
    /\ WriteCapacity("mixcap", FullCapacity)
    /\ Proceed("repcap") \/ Finish(FALSE)
    /\ UNCHANGED <<pc, i, gaugeVars, clean, bpc, reading, missed, saved, nLearnCfg, learnCfg>>

\* REPCAP gets reported_capacity_mAh from the shared data: the value just copied
\* there, or what another sample has put there since.
WriteRepcap ==
    /\ cpc = "repcap"
    /\ WriteCapacity("repcap", IF data.reported_capacity_mAh = "own"
                               THEN caps["repcap"] ELSE data.reported_capacity_mAh)
    /\ Finish(ret) \/ Finish(FALSE)
    /\ UNCHANGED <<pc, i, gaugeVars, clean, battVars, saved, nLearnCfg, learnCfg>>

-----------------------------------------------------------------------------
BattThread  == \/ Configure \/ Restart \/ RestoreHistory \/ StoreHistory
               \/ StartSample \/ ReadField \/ PostEvent
CalibThread == \/ Check \/ ReadStage \/ WriteStage \/ ReadStageBack
               \/ WriteMixcap \/ WriteRepcap
Environment == \/ Converge \/ Learn
               \/ CardResetAll \/ PowerLossAll \/ GaugePowerLossAll

CalibNext == BattThread \/ CalibThread \/ Environment
CalibSpec == CalibInit /\ [][CalibNext]_allVars

-----------------------------------------------------------------------------
(* Properties.                                                             *)

Data == [batt_mV : BOOLEAN, avg_current_mA : BOOLEAN,
         full_capacity_mAh : {"zero", "short", "enough"},
         reported_capacity_mAh : Values \cup {"own"},
         is_data_valid : BOOLEAN]

CalibTypeOK ==
    /\ bpc \in Sampling \cup {"load", "idle", "post"}
    /\ reading \in Readings
    /\ data \in Data
    /\ saved \in [Capacities -> Values]
    /\ caps \in [Capacities -> Values]
    /\ nLearnCfg \in BOOLEAN
    /\ learnCfg \in {"learning", "learned", "restored"}
    /\ cpc \in Calibrating \cup {"sleep", "check"}
    /\ ret \in BOOLEAN
    /\ sound \in BOOLEAN
    /\ missed \in BOOLEAN

\* The calibration thread may look at the data at any moment of a sample
\* (calib.c:76), and the cleared current passes its test.  Still only what the gauge
\* reports as a full pack passes for one, unless a read has failed: the capacity,
\* which the clearing makes fail the test, is read after the current.
SeemsFullOnlyIfFull ==
    SeemsFull /\ data.is_data_valid
        => reading.batt_mV /\ reading.avg_current_mA /\ reading.full_capacity_mAh

\* The calibration thread makes a capacity wrong only on the strength of an
\* invalid sample or while another one replaces the data it uses (calib.c:110).
SpoiltOnlyByOverlapOrFailure ==
    [][sound /\ bpc # "load" =>
          \A c \in Capacities : caps[c] \notin Spoilt => caps'[c] \notin Spoilt]_allVars

\* batt.c:940-957, README.md:211 "this ensures the fuel gauge restarts tracking
\* where it left off": the restored capacities are not estimated anew by a
\* later firmware reset of the same start-up.
RestoredCapacityLasts ==
    pc = "loop" /\ bpc # "load" /\ clean =>
        \A c \in Capacities : saved[c] = "tracked" => caps[c] # "estimate"

\* A capacity vanishes from the history only when it could not be read, or when
\* the gauge's own was overwritten with zero; a pack whose gauge did not answer
\* at start-up keeps it (batt.c:649-673, 969-977).
HistoryLostOnlyByFailure ==
    [][\A c \in Capacities : saved[c] # "zero" /\ saved'[c] = "zero"
                                 => missed' \/ caps[c] = "zero"]_allVars

\* The stage marked complete before a reset of the card is in use after a
\* start-up without a failed access, although nothing but a firmware reset
\* makes the gauge look at it (calib.c:93, max17205.c:862-865).
LearnStageTakesEffect ==
    [][pc # "loop" /\ pc' = "loop" /\ learnCfg' = "learning"
          => ~(clean' /\ nLearnCfg)]_allVars

\* update_learning_complete finds the stage it wrote only if the gauge completed
\* its learning in between: what it reads back is not what it wrote
\* (calib.c:93-109), so the result kept in packs[].updated (calib.c:158) is
\* practically always false.
ReportsOnlyTheGaugesLearning ==
    [][learnCfg # "learned" /\ ret' => ret]_allVars
=============================================================================
