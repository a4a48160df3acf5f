----------------------------- MODULE CalibProofs -----------------------------
(***************************************************************************)
(* Proofs about Calib.  What GaugeProofs shows of the gauge's start-up     *)
(* carries over, because nothing the two threads do later undoes it.       *)
(***************************************************************************)
EXTENDS Calib, GaugeProofs

-----------------------------------------------------------------------------
(* The inductive invariant.                                                *)

Unread == {"batt_mV", "avg_current_mA", "full_capacity_mAh"}

\* The threads wait for the gauge's configuration and for the history.
PhaseInv ==
    /\ pc \notin {"loop", "disabled"} => bpc = "load"
    /\ bpc = "load" => cpc = "sleep"

\* The fields that have been read say what the gauge said, or the sample is invalid.
SampleInv ==
    /\ bpc \in Unread => data.full_capacity_mAh = "zero"
    /\ bpc = "load" => data.full_capacity_mAh = "zero"
    /\ data.is_data_valid =>
          /\ bpc \in {"avg_current_mA", "full_capacity_mAh"}
                => data.batt_mV = reading.batt_mV
          /\ bpc = "full_capacity_mAh" => data.avg_current_mA = reading.avg_current_mA
          /\ data.full_capacity_mAh # "zero"
                => /\ data.batt_mV = reading.batt_mV
                   /\ data.avg_current_mA = reading.avg_current_mA
          /\ data.full_capacity_mAh = "enough" => reading.full_capacity_mAh

\* While update_learning_complete works on a sound sample, that sample stays.
SoundInv ==
    sound =>
       /\ cpc \in Calibrating =>
             /\ bpc \notin Unread
             /\ data.full_capacity_mAh = "enough"
             /\ reading.batt_mV /\ reading.avg_current_mA
       /\ cpc = "repcap" => data.reported_capacity_mAh \in {"own", "tracked"}

\* An estimate never reaches the pack's data or replaces what was restored.
CapsInv ==
    /\ data.reported_capacity_mAh # "estimate"
    /\ RestoredCapacityLasts

\* A stage marked complete is in use once the firmware has been reset.
LearnInv ==
    /\ cpc \in {"write", "readback"} => learnCfg # "restored"
    /\ clean /\ pc \in {"validate", "write", "verify", "apply"} /\ nLearnCfg
          => learnCfg # "learning"

CalibInv ==
    /\ TypeOK /\ ConfigInv /\ CalibTypeOK
    /\ PhaseInv /\ SampleInv /\ SoundInv /\ CapsInv /\ LearnInv

LEMMA CalibInvInit == CalibInit => CalibInv
<1> SUFFICES ASSUME CalibInit PROVE CalibInv
  OBVIOUS
<1>1. TypeOK
  BY EntryFacts, NvAssumption DEF CalibInit, Init, TypeOK, Steps
<1>2. ConfigInv
  BY DEF CalibInit, Init, ConfigInv, CleanStartApplies
<1>3. CalibTypeOK
  <2>1. data \in Data
    BY DEF CalibInit, Cleared, Data, Values
  <2>2. saved \in [Capacities -> Values] /\ caps \in [Capacities -> Values]
    BY DEF CalibInit, NoHistory, Estimated, Values
  <2> QED
    BY <2>1, <2>2 DEF CalibInit, CalibTypeOK
<1>4. PhaseInv /\ SampleInv /\ SoundInv /\ CapsInv /\ LearnInv
  BY DEF CalibInit, Init, PhaseInv, SampleInv, SoundInv, CapsInv, LearnInv, Unread,
         Calibrating, Cleared, RestoredCapacityLasts
<1> QED
  BY <1>1, <1>2, <1>3, <1>4 DEF CalibInv

-----------------------------------------------------------------------------
(* The gauge's configuration under both threads.                           *)

\* What a step of the threads may do to the variables of Gauge: nothing but set
\* updated, and note that an access failed.
Quiet ==
    /\ UNCHANGED <<pc, i, gaugeVars>>
    /\ updated' \in BOOLEAN
    /\ clean' \in BOOLEAN /\ (clean' => clean)

LEMMA QuietKeepsConfig == TypeOK /\ ConfigInv /\ Quiet => TypeOK' /\ ConfigInv'
BY DEF Quiet, TypeOK, ConfigInv, CleanStartApplies, gaugeVars

\* Every step is one of Gauge or quiet.
LEMMA GaugeOrQuiet == TypeOK /\ CalibTypeOK /\ [CalibNext]_allVars => [Next]_vars \/ Quiet
<1> SUFFICES ASSUME TypeOK, CalibTypeOK, [CalibNext]_allVars PROVE [Next]_vars \/ Quiet
  OBVIOUS
<1> USE DEF vars, gaugeVars
<1>1. CASE Configure \/ Restart
  BY <1>1 DEF Configure, Restart, RestartFirmware, Apply, Next, Startup
<1>2. CASE RestoreHistory
  BY <1>2 DEF RestoreHistory, Quiet, TypeOK
<1>3. CASE StoreHistory \/ StartSample \/ ReadField \/ PostEvent
  BY <1>3 DEF StoreHistory, StartSample, ReadField, PostEvent
<1>4. CASE Check \/ ReadStage \/ WriteStage \/ ReadStageBack
  BY <1>4 DEF Check, ReadStage, WriteStage, ReadStageBack, Proceed, Finish, Quiet, TypeOK
<1>5. CASE WriteMixcap \/ WriteRepcap
  BY <1>5 DEF WriteMixcap, WriteRepcap, Proceed, Finish, Quiet, TypeOK, CalibTypeOK
<1>6. CASE Converge \/ Learn
  BY <1>6 DEF Converge, Learn
<1>7. CASE CardResetAll \/ PowerLossAll \/ GaugePowerLossAll
  BY <1>7 DEF CardResetAll, PowerLossAll, GaugePowerLossAll, Next
<1>8. CASE UNCHANGED allVars
  BY <1>8 DEF allVars
<1> QED
  BY <1>1, <1>2, <1>3, <1>4, <1>5, <1>6, <1>7, <1>8
     DEF CalibNext, BattThread, CalibThread, Environment

LEMMA ConfigNext == CalibInv /\ [CalibNext]_allVars => TypeOK' /\ ConfigInv'
<1>1. TypeOK /\ [Next]_vars => TypeOK'
  BY TypeOKInductive
<1> QED
  BY <1>1, GaugeOrQuiet, QuietKeepsConfig, ConfigInvInductive DEF CalibInv

-----------------------------------------------------------------------------
(* A sample.                                                               *)

\* What one read does to the data, field by field.
LEMMA ReadFieldIs ==
    ASSUME CalibTypeOK, ReadField
    PROVE  /\ data' \in Data
           /\ bpc \in Sampling /\ bpc' = Following(bpc)
           /\ bpc # "reported_capacity_mAh"
                 => data'.reported_capacity_mAh = data.reported_capacity_mAh
           /\ bpc = "reported_capacity_mAh"
                 => data'.reported_capacity_mAh \in {"own", data.reported_capacity_mAh}
           /\ bpc # "full_capacity_mAh"
                 => data'.full_capacity_mAh = data.full_capacity_mAh
           /\ data'.is_data_valid =>
                 /\ data.is_data_valid
                 /\ data'.batt_mV = (IF bpc = "batt_mV" THEN reading.batt_mV
                                                        ELSE data.batt_mV)
                 /\ data'.avg_current_mA
                       = (IF bpc = "avg_current_mA" THEN reading.avg_current_mA
                                                    ELSE data.avg_current_mA)
                 /\ bpc = "full_capacity_mAh" =>
                       data'.full_capacity_mAh
                         = (IF reading.full_capacity_mAh THEN "enough" ELSE "short")
<1>0. data \in Data /\ bpc \in Sampling /\ bpc' = Following(bpc)
  BY DEF CalibTypeOK, ReadField
<1>r. /\ reading.batt_mV \in BOOLEAN /\ reading.avg_current_mA \in BOOLEAN
      /\ reading.full_capacity_mAh \in BOOLEAN
  BY ReadingsAssumption DEF CalibTypeOK, Reading
<1>1. CASE data' = [data EXCEPT !.is_data_valid = FALSE]
  BY <1>0, <1>1 DEF Data
<1>2. CASE data' = [data EXCEPT ![bpc] = Got(bpc)]
  <2>1. CASE bpc = "batt_mV"
    <3>1. data' = [data EXCEPT !.batt_mV = reading.batt_mV]
      BY <1>2, <2>1 DEF Got
    <3> QED
      BY <1>0, <1>r, <2>1, <3>1 DEF Data
  <2>2. CASE bpc = "avg_current_mA"
    <3>1. data' = [data EXCEPT !.avg_current_mA = reading.avg_current_mA]
      BY <1>2, <2>2 DEF Got
    <3> QED
      BY <1>0, <1>r, <2>2, <3>1 DEF Data
  <2>3. CASE bpc = "full_capacity_mAh"
    <3>1. data' = [data EXCEPT !.full_capacity_mAh =
                     IF reading.full_capacity_mAh THEN "enough" ELSE "short"]
      BY <1>2, <2>3 DEF Got
    <3> QED
      BY <1>0, <1>r, <2>3, <3>1 DEF Data
  <2>4. CASE bpc = "reported_capacity_mAh"
    <3>1. data' = [data EXCEPT !.reported_capacity_mAh = "own"]
      BY <1>2, <2>4 DEF Got
    <3> QED
      BY <1>0, <1>r, <2>4, <3>1 DEF Data
  <2> QED
    BY <1>0, <2>1, <2>2, <2>3, <2>4 DEF Sampling
<1> QED
  BY <1>0, <1>1, <1>2 DEF ReadField

\* The value written to MIXCAP is never an estimate, and is right for a full pack.
LEMMA FullCapacityIs ==
    /\ FullCapacity \in Values \ {"estimate"}
    /\ data.full_capacity_mAh # "zero" /\ reading.batt_mV /\ reading.avg_current_mA
          => FullCapacity = "tracked"
BY DEF FullCapacity, Values

LEMMA WriteMixcapIs ==
    ASSUME CalibTypeOK, WriteMixcap
    PROVE  /\ data' \in Data
           /\ data'.reported_capacity_mAh = FullCapacity
           /\ data'.batt_mV = data.batt_mV /\ data'.avg_current_mA = data.avg_current_mA
           /\ data'.full_capacity_mAh = data.full_capacity_mAh
           /\ data'.is_data_valid = data.is_data_valid
BY FullCapacityIs DEF CalibTypeOK, WriteMixcap, Data

LEMMA ClearedIs ==
    /\ Cleared \in Data
    /\ Cleared.full_capacity_mAh = "zero" /\ Cleared.reported_capacity_mAh = "zero"
BY DEF Cleared, Data, Values

\* What one write of a capacity does.
LEMMA WriteCapacityIs ==
    ASSUME CalibTypeOK, NEW c \in Capacities, NEW value \in Values, WriteCapacity(c, value)
    PROVE  /\ caps' \in [Capacities -> Values]
           /\ \A d \in Capacities :
                 caps'[d] = caps[d] \/ (d = c /\ caps'[d] = value)
BY DEF CalibTypeOK, WriteCapacity

\* What WriteRepcap writes.
Reported == IF data.reported_capacity_mAh = "own" THEN caps["repcap"]
                                                  ELSE data.reported_capacity_mAh

LEMMA ReportedIs ==
    ASSUME CalibTypeOK, WriteRepcap
    PROVE  /\ Reported \in Values
           /\ caps' \in [Capacities -> Values]
           /\ \A d \in Capacities :
                 caps'[d] = caps[d] \/ (d = "repcap" /\ caps'[d] = Reported)
<1>1. Reported \in Values
  BY DEF Reported, CalibTypeOK, Data, Capacities
<1>2. WriteCapacity("repcap", Reported)
  BY DEF WriteRepcap, Reported
<1> QED
  BY <1>1, <1>2, WriteCapacityIs DEF Capacities

-----------------------------------------------------------------------------
(* One lemma for each part of the invariant, one step for each action.     *)

\* Every variable of Calib keeps its type.
LEMMA CalibTypeOKNext == CalibInv /\ [CalibNext]_allVars => CalibTypeOK'
<1> SUFFICES ASSUME CalibInv, [CalibNext]_allVars
             PROVE  CalibTypeOK'
  OBVIOUS
<1> USE DEF CalibInv, vars, gaugeVars, battVars, calibVars, capVars, ownVars
<1>1. CASE Configure
  BY <1>1 DEF Configure, CalibTypeOK
<1>2. CASE Restart
  BY <1>2 DEF Restart, Reload, RestartDone, ApplyDone, Return, Estimated, Capacities,
     Values, CalibTypeOK
<1>3. CASE RestoreHistory
  BY <1>3 DEF RestoreHistory, Configured, CalibTypeOK
<1>4. CASE StoreHistory
  BY <1>4 DEF StoreHistory, Loaded, NoHistory, Values, CalibTypeOK
<1>5. CASE StartSample
  <2>1. data' \in Data
    BY <1>5, ClearedIs DEF StartSample
  <2>2. sound' \in BOOLEAN /\ missed' \in BOOLEAN
    BY <1>5 DEF StartSample
  <2> QED
    BY <1>5, <2>1, <2>2 DEF StartSample, CalibTypeOK, Sampling
<1>6. CASE ReadField
  BY <1>6, ReadFieldIs DEF ReadField, Following, Sampling, CalibTypeOK
<1>7. CASE PostEvent
  BY <1>7 DEF PostEvent, Calibrating, CalibTypeOK
<1>8. CASE Check
  <2>1. sound' \in BOOLEAN /\ ret' \in BOOLEAN
    BY <1>8 DEF Check, Finish, CalibTypeOK, Data
  <2> QED
    BY <1>8, <2>1 DEF Check, Finish, Calibrating, CalibTypeOK
<1>9. CASE ReadStage
  BY <1>9 DEF ReadStage, Proceed, Finish, Calibrating, CalibTypeOK
<1>10. CASE WriteStage
  BY <1>10 DEF WriteStage, Proceed, Finish, Calibrating, CalibTypeOK
<1>11. CASE ReadStageBack
  BY <1>11 DEF ReadStageBack, Finish, Calibrating, CalibTypeOK
<1>12. CASE WriteMixcap
  BY <1>12, WriteMixcapIs, FullCapacityIs, WriteCapacityIs DEF WriteMixcap, Proceed,
     Finish, Calibrating, Capacities, CalibTypeOK
<1>13. CASE WriteRepcap
  BY <1>13, ReportedIs DEF WriteRepcap, Finish, Calibrating, CalibTypeOK
<1>14. CASE Converge
  BY <1>14 DEF Converge, Capacities, Values, CalibTypeOK
<1>15. CASE Learn
  BY <1>15 DEF Learn, CalibTypeOK
<1>16. CASE CardResetAll
  BY <1>16, ClearedIs DEF CardResetAll, CardReset, FreshThreads, CalibTypeOK
<1>17. CASE PowerLossAll
  BY <1>17, ClearedIs DEF PowerLossAll, PowerLoss, FreshThreads, PowerOnAll,
     Estimated, Capacities, Values, CalibTypeOK
<1>18. CASE GaugePowerLossAll
  BY <1>18 DEF GaugePowerLossAll, GaugePowerLoss, PowerOnAll, Estimated, Capacities,
     Values, CalibTypeOK
<1>19. CASE UNCHANGED allVars
  BY <1>19 DEF allVars, CalibTypeOK
<1> QED
  BY <1>1, <1>2, <1>3, <1>4, <1>5, <1>6, <1>7, <1>8, <1>9, <1>10, <1>11, <1>12, <1>13,
     <1>14, <1>15, <1>16, <1>17, <1>18, <1>19 DEF CalibNext, BattThread, CalibThread,
     Environment

\* The order of the phases of a start-up.
LEMMA PhaseInvNext == CalibInv /\ [CalibNext]_allVars => PhaseInv'
<1> SUFFICES ASSUME CalibInv, [CalibNext]_allVars
             PROVE  PhaseInv'
  OBVIOUS
<1> USE DEF CalibInv, vars, gaugeVars, battVars, calibVars, capVars, ownVars
<1>1. CASE Configure
  BY <1>1 DEF Configure, ReadStatus, WriteConfig, RestartFails, Validate,
     WriteRegister, Verify, ApplyFails, GivesUp, Return, Fails, PhaseInv
<1>2. CASE Restart
  BY <1>2 DEF Restart, Reload, RestartDone, ApplyDone, Return, PhaseInv
<1>3. CASE RestoreHistory
  BY <1>3 DEF RestoreHistory, Configured, PhaseInv
<1>4. CASE StoreHistory
  BY <1>4 DEF StoreHistory, PhaseInv
<1>5. CASE StartSample
  BY <1>5 DEF StartSample, PhaseInv
<1>6. CASE ReadField
  BY <1>6 DEF ReadField, Sampling, Following, PhaseInv
<1>7. CASE PostEvent
  BY <1>7 DEF PostEvent, PhaseInv
<1>8. CASE Check
  BY <1>8 DEF Check, Finish, PhaseInv
<1>9. CASE ReadStage
  BY <1>9 DEF ReadStage, Proceed, Finish, PhaseInv
<1>10. CASE WriteStage
  BY <1>10 DEF WriteStage, Proceed, Finish, PhaseInv
<1>11. CASE ReadStageBack
  BY <1>11 DEF ReadStageBack, Finish, PhaseInv
<1>12. CASE WriteMixcap
  BY <1>12 DEF WriteMixcap, Proceed, Finish, PhaseInv
<1>13. CASE WriteRepcap
  BY <1>13 DEF WriteRepcap, Finish, PhaseInv
<1>14. CASE Converge
  BY <1>14 DEF Converge, PhaseInv
<1>15. CASE Learn
  BY <1>15 DEF Learn, PhaseInv
<1>16. CASE CardResetAll
  BY <1>16 DEF CardResetAll, CardReset, FreshThreads, PhaseInv
<1>17. CASE PowerLossAll
  BY <1>17 DEF PowerLossAll, PowerLoss, FreshThreads, PowerOnAll, PhaseInv
<1>18. CASE GaugePowerLossAll
  BY <1>18 DEF GaugePowerLossAll, GaugePowerLoss, PowerOnAll, PhaseInv
<1>19. CASE UNCHANGED allVars
  BY <1>19 DEF allVars, PhaseInv
<1> QED
  BY <1>1, <1>2, <1>3, <1>4, <1>5, <1>6, <1>7, <1>8, <1>9, <1>10, <1>11, <1>12, <1>13,
     <1>14, <1>15, <1>16, <1>17, <1>18, <1>19 DEF CalibNext, BattThread, CalibThread,
     Environment

\* What has been read is what the gauge reported.
LEMMA SampleInvNext == CalibInv /\ [CalibNext]_allVars => SampleInv'
<1> SUFFICES ASSUME CalibInv, [CalibNext]_allVars
             PROVE  SampleInv'
  OBVIOUS
<1> USE DEF CalibInv, vars, gaugeVars, battVars, calibVars, capVars, ownVars
<1>1. CASE Configure
  BY <1>1 DEF Configure, SampleInv, Unread
<1>2. CASE Restart
  BY <1>2 DEF Restart, Reload, RestartDone, ApplyDone, Return, SampleInv, Unread
<1>3. CASE RestoreHistory
  BY <1>3 DEF RestoreHistory, Configured, SampleInv, Unread
<1>4. CASE StoreHistory
  BY <1>4 DEF StoreHistory, SampleInv, Unread
<1>5. CASE StartSample
  BY <1>5 DEF StartSample, Cleared, PhaseInv, SampleInv, Unread
<1>6. CASE ReadField
  BY <1>6, ReadFieldIs DEF ReadField, Sampling, Following, SampleInv, Unread
<1>7. CASE PostEvent
  BY <1>7 DEF PostEvent, SampleInv, Unread
<1>8. CASE Check
  BY <1>8 DEF Check, Finish, SampleInv, Unread
<1>9. CASE ReadStage
  BY <1>9 DEF ReadStage, Proceed, Finish, SampleInv, Unread
<1>10. CASE WriteStage
  BY <1>10 DEF WriteStage, Proceed, Finish, SampleInv, Unread
<1>11. CASE ReadStageBack
  BY <1>11 DEF ReadStageBack, Finish, SampleInv, Unread
<1>12. CASE WriteMixcap
  BY <1>12, WriteMixcapIs DEF WriteMixcap, Proceed, Finish, SampleInv, Unread
<1>13. CASE WriteRepcap
  BY <1>13 DEF WriteRepcap, Finish, SampleInv, Unread
<1>14. CASE Converge
  BY <1>14 DEF Converge, SampleInv, Unread
<1>15. CASE Learn
  BY <1>15 DEF Learn, SampleInv, Unread
<1>16. CASE CardResetAll
  BY <1>16 DEF CardResetAll, CardReset, FreshThreads, Cleared, SampleInv, Unread
<1>17. CASE PowerLossAll
  BY <1>17 DEF PowerLossAll, PowerLoss, FreshThreads, PowerOnAll, Cleared, SampleInv,
     Unread
<1>18. CASE GaugePowerLossAll
  BY <1>18 DEF GaugePowerLossAll, GaugePowerLoss, PowerOnAll, SampleInv, Unread
<1>19. CASE UNCHANGED allVars
  BY <1>19 DEF allVars, SampleInv, Unread
<1> QED
  BY <1>1, <1>2, <1>3, <1>4, <1>5, <1>6, <1>7, <1>8, <1>9, <1>10, <1>11, <1>12, <1>13,
     <1>14, <1>15, <1>16, <1>17, <1>18, <1>19 DEF CalibNext, BattThread, CalibThread,
     Environment

\* The sample update_learning_complete works on stays the one it judged.
LEMMA SoundInvNext == CalibInv /\ [CalibNext]_allVars => SoundInv'
<1> SUFFICES ASSUME CalibInv, [CalibNext]_allVars
             PROVE  SoundInv'
  OBVIOUS
<1> USE DEF CalibInv, vars, gaugeVars, battVars, calibVars, capVars, ownVars
<1>1. CASE Configure
  BY <1>1 DEF Configure, SoundInv, Unread
<1>2. CASE Restart
  BY <1>2 DEF Restart, Reload, RestartDone, ApplyDone, Return, SoundInv, Unread
<1>3. CASE RestoreHistory
  BY <1>3 DEF RestoreHistory, Configured, PhaseInv, Calibrating, SoundInv, Unread
<1>4. CASE StoreHistory
  BY <1>4 DEF StoreHistory, SoundInv, Unread
<1>5. CASE StartSample
  BY <1>5 DEF StartSample, Calibrating, SoundInv, Unread
<1>6. CASE ReadField
  BY <1>6, ReadFieldIs DEF ReadField, Following, Sampling, SoundInv, Unread
<1>7. CASE PostEvent
  BY <1>7 DEF PostEvent, Calibrating, SoundInv, Unread
<1>8. CASE Check
  BY <1>8 DEF Check, Finish, Calibrating, SeemsFull, SampleInv, CalibTypeOK, Data,
     SoundInv, Unread
<1>9. CASE ReadStage
  BY <1>9 DEF ReadStage, Proceed, Finish, Calibrating, SoundInv, Unread
<1>10. CASE WriteStage
  BY <1>10 DEF WriteStage, Proceed, Finish, Calibrating, SoundInv, Unread
<1>11. CASE ReadStageBack
  BY <1>11 DEF ReadStageBack, Finish, Calibrating, SoundInv, Unread
<1>12. CASE WriteMixcap
  BY <1>12, WriteMixcapIs, FullCapacityIs DEF WriteMixcap, Proceed, Finish,
     Calibrating, SoundInv, Unread
<1>13. CASE WriteRepcap
  BY <1>13 DEF WriteRepcap, Finish, Calibrating, SoundInv, Unread
<1>14. CASE Converge
  BY <1>14 DEF Converge, SoundInv, Unread
<1>15. CASE Learn
  BY <1>15 DEF Learn, SoundInv, Unread
<1>16. CASE CardResetAll
  BY <1>16 DEF CardResetAll, CardReset, FreshThreads, Calibrating, SoundInv, Unread
<1>17. CASE PowerLossAll
  BY <1>17 DEF PowerLossAll, PowerLoss, FreshThreads, PowerOnAll, Calibrating,
     SoundInv, Unread
<1>18. CASE GaugePowerLossAll
  BY <1>18 DEF GaugePowerLossAll, GaugePowerLoss, PowerOnAll, SoundInv, Unread
<1>19. CASE UNCHANGED allVars
  BY <1>19 DEF allVars, SoundInv, Unread
<1> QED
  BY <1>1, <1>2, <1>3, <1>4, <1>5, <1>6, <1>7, <1>8, <1>9, <1>10, <1>11, <1>12, <1>13,
     <1>14, <1>15, <1>16, <1>17, <1>18, <1>19 DEF CalibNext, BattThread, CalibThread,
     Environment

\* What was restored is not estimated anew.
LEMMA CapsInvNext == CalibInv /\ [CalibNext]_allVars => CapsInv'
<1> SUFFICES ASSUME CalibInv, [CalibNext]_allVars
             PROVE  CapsInv'
  OBVIOUS
<1> USE DEF CalibInv, vars, gaugeVars, battVars, calibVars, capVars, ownVars
<1>1. CASE Configure
  BY <1>1 DEF Configure, ReadStatus, WriteConfig, RestartFails, Validate,
     WriteRegister, Verify, ApplyFails, GivesUp, Return, Fails, PhaseInv, CapsInv,
     RestoredCapacityLasts
<1>2. CASE Restart
  BY <1>2 DEF Restart, Reload, RestartDone, ApplyDone, Return, PhaseInv, CapsInv,
     RestoredCapacityLasts
<1>3. CASE RestoreHistory
  BY <1>3 DEF RestoreHistory, Configured, CalibTypeOK, Enabled, CapsInv,
     RestoredCapacityLasts
<1>4. CASE StoreHistory
  BY <1>4 DEF StoreHistory, CalibTypeOK, Enabled, Loaded, CapsInv,
     RestoredCapacityLasts
<1>5. CASE StartSample
  BY <1>5, ClearedIs DEF StartSample, CapsInv, RestoredCapacityLasts
<1>6. CASE ReadField
  <2>1. data'.reported_capacity_mAh # "estimate"
    BY <1>6, ReadFieldIs DEF CapsInv
  <2>2. bpc # "load" /\ UNCHANGED <<pc, clean, saved, caps>>
    BY <1>6 DEF ReadField, Sampling
  <2> QED
    BY <2>1, <2>2 DEF CapsInv, RestoredCapacityLasts
<1>7. CASE PostEvent
  BY <1>7 DEF PostEvent, CapsInv, RestoredCapacityLasts
<1>8. CASE Check
  BY <1>8 DEF Check, Finish, CapsInv, RestoredCapacityLasts
<1>9. CASE ReadStage
  BY <1>9 DEF ReadStage, Proceed, Finish, CapsInv, RestoredCapacityLasts
<1>10. CASE WriteStage
  BY <1>10 DEF WriteStage, Proceed, Finish, CapsInv, RestoredCapacityLasts
<1>11. CASE ReadStageBack
  BY <1>11 DEF ReadStageBack, Finish, CapsInv, RestoredCapacityLasts
<1>12. CASE WriteMixcap
  BY <1>12, WriteMixcapIs, WriteCapacityIs, FullCapacityIs DEF WriteMixcap, Proceed,
     Finish, Capacities, CapsInv, RestoredCapacityLasts
<1>13. CASE WriteRepcap
  BY <1>13, ReportedIs DEF WriteRepcap, Finish, Reported, Capacities, CapsInv,
     RestoredCapacityLasts
<1>14. CASE Converge
  BY <1>14 DEF Converge, CapsInv, RestoredCapacityLasts
<1>15. CASE Learn
  BY <1>15 DEF Learn, CapsInv, RestoredCapacityLasts
<1>16. CASE CardResetAll
  BY <1>16, ClearedIs DEF CardResetAll, CardReset, FreshThreads, CapsInv,
     RestoredCapacityLasts
<1>17. CASE PowerLossAll
  BY <1>17, ClearedIs DEF PowerLossAll, PowerLoss, FreshThreads, PowerOnAll, CapsInv,
     RestoredCapacityLasts
<1>18. CASE GaugePowerLossAll
  BY <1>18 DEF GaugePowerLossAll, GaugePowerLoss, PowerOnAll, CapsInv,
     RestoredCapacityLasts
<1>19. CASE UNCHANGED allVars
  BY <1>19 DEF allVars, CapsInv, RestoredCapacityLasts
<1> QED
  BY <1>1, <1>2, <1>3, <1>4, <1>5, <1>6, <1>7, <1>8, <1>9, <1>10, <1>11, <1>12, <1>13,
     <1>14, <1>15, <1>16, <1>17, <1>18, <1>19 DEF CalibNext, BattThread, CalibThread,
     Environment

\* What a firmware reset makes of the learn stage.
LEMMA LearnInvNext == CalibInv /\ [CalibNext]_allVars => LearnInv'
<1> SUFFICES ASSUME CalibInv, [CalibNext]_allVars
             PROVE  LearnInv'
  OBVIOUS
<1> USE DEF CalibInv, vars, gaugeVars, battVars, calibVars, capVars, ownVars
<1>1. CASE Configure
  <2>1. pc' = "validate" /\ clean' => pc = "status" /\ ~por
    BY <1>1 DEF Configure, ReadStatus, WriteConfig, RestartFails, Validate, WriteRegister,
          Verify, ApplyFails, GivesUp, Return, Fails
  <2>2. pc' \in {"write", "verify", "apply"} => pc \in {"validate", "write", "verify"}
    BY <1>1 DEF Configure, ReadStatus, WriteConfig, RestartFails, Validate, WriteRegister,
          Verify, ApplyFails, GivesUp, Return, Fails
  <2>3. clean' => clean
    BY <1>1 DEF Configure, ReadStatus, WriteConfig, WritePackCfg, WriteShadow, WriteFails,
          RestartFails, Validate, WriteRegister, Verify, ApplyFails, GivesUp, Return, Fails
  <2> QED
    BY <1>1, <2>1, <2>2, <2>3 DEF Configure, LearnInv, ConfigInv
<1>2. CASE Restart
  BY <1>2 DEF Restart, Reload, RestartDone, ApplyDone, Return, PhaseInv, LearnInv
<1>3. CASE RestoreHistory
  BY <1>3 DEF RestoreHistory, Configured, LearnInv
<1>4. CASE StoreHistory
  BY <1>4 DEF StoreHistory, LearnInv
<1>5. CASE StartSample
  BY <1>5 DEF StartSample, LearnInv
<1>6. CASE ReadField
  BY <1>6 DEF ReadField, LearnInv
<1>7. CASE PostEvent
  BY <1>7 DEF PostEvent, LearnInv
<1>8. CASE Check
  BY <1>8 DEF Check, Finish, LearnInv
<1>9. CASE ReadStage
  BY <1>9 DEF ReadStage, Proceed, Finish, LearnInv
<1>10. CASE WriteStage
  BY <1>10 DEF WriteStage, Proceed, Finish, PhaseInv, LearnInv
<1>11. CASE ReadStageBack
  BY <1>11 DEF ReadStageBack, Finish, LearnInv
<1>12. CASE WriteMixcap
  BY <1>12 DEF WriteMixcap, Proceed, Finish, LearnInv
<1>13. CASE WriteRepcap
  BY <1>13 DEF WriteRepcap, Finish, LearnInv
<1>14. CASE Converge
  BY <1>14 DEF Converge, LearnInv
<1>15. CASE Learn
  BY <1>15 DEF Learn, LearnInv
<1>16. CASE CardResetAll
  BY <1>16 DEF CardResetAll, CardReset, FreshThreads, LearnInv
<1>17. CASE PowerLossAll
  BY <1>17 DEF PowerLossAll, PowerLoss, FreshThreads, PowerOnAll, LearnInv
<1>18. CASE GaugePowerLossAll
  BY <1>18 DEF GaugePowerLossAll, GaugePowerLoss, PowerOnAll, LearnInv
<1>19. CASE UNCHANGED allVars
  BY <1>19 DEF allVars, LearnInv
<1> QED
  BY <1>1, <1>2, <1>3, <1>4, <1>5, <1>6, <1>7, <1>8, <1>9, <1>10, <1>11, <1>12, <1>13,
     <1>14, <1>15, <1>16, <1>17, <1>18, <1>19 DEF CalibNext, BattThread, CalibThread,
     Environment

LEMMA CalibInvNext == CalibInv /\ [CalibNext]_allVars => CalibInv'
BY ConfigNext, CalibTypeOKNext, PhaseInvNext, SampleInvNext, SoundInvNext, CapsInvNext,
   LearnInvNext DEF CalibInv

LEMMA CalibInvHolds == CalibSpec => []CalibInv
BY CalibInvInit, CalibInvNext, PTL DEF CalibSpec

-----------------------------------------------------------------------------
(* The theorems.                                                           *)

\* The types of Gauge and of Calib.
THEOREM CalibTypeCorrect == CalibSpec => []TypeOK /\ []CalibTypeOK
<1>1. CalibInv => TypeOK /\ CalibTypeOK
  BY DEF CalibInv
<1> QED
  BY <1>1, CalibInvHolds, PTL

\* With both threads at work, a start-up without a failed access leaves the gauge on
\* the whole table (max17205_intf.c:530-571).
THEOREM CleanStartAppliesInCalib == CalibSpec => []CleanStartApplies
<1>1. CalibInv => CleanStartApplies
  BY DEF CalibInv, ConfigInv
<1> QED
  BY <1>1, CalibInvHolds, PTL

\* Neither thread takes the table away from the gauge: only a loss of power does
\* (max17205.c:1010-1020, max17205_intf.c:42, calib.c:93-131).
THEOREM NothingUndoesTheTableInCalib == CalibSpec => NothingUndoesTheTable
<1>1. CalibInv /\ [CalibNext]_allVars
         => [active = Regs /\ active' # Regs => PowerLoss \/ GaugePowerLoss]_vars
  <2>1. Quiet => active' = active
    BY DEF Quiet, gaugeVars
  <2> QED
    BY <2>1, GaugeOrQuiet, TableStays DEF CalibInv
<1> QED
  BY <1>1, CalibInvHolds, PTL DEF CalibSpec, NothingUndoesTheTable

\* The gauge keeps its promise while both threads use it: their own accesses leave
\* the settings in use alone (max17205_intf.c:526-571, batt.c:940-1015,
\* calib.c:67-131).
THEOREM ImplementsPromiseInCalib == CalibSpec => ImplementsPromise
<1>1. CalibInit => Promise!Init
  BY DEF CalibInit, Init, Promise!Init, Phase
<1>2. CalibInv /\ CalibInv' /\ [CalibNext]_allVars => [Promise!Next]_(Promise!vars)
  <2>1. TypeOK /\ Quiet => [Promise!Next]_(Promise!vars)
    <3> SUFFICES ASSUME TypeOK, Quiet PROVE [Promise!Next]_(Promise!vars)
      OBVIOUS
    <3>1. Phase' = Phase /\ active' = active
      BY PhaseNext DEF Quiet, gaugeVars
    <3>2. clean' \in {clean, FALSE}
      BY DEF Quiet, TypeOK
    <3> QED
      BY <3>1, <3>2 DEF Promise!Next, Promise!Fail, Promise!vars
  <2> QED
    BY <2>1, GaugeOrQuiet, PromiseStep DEF CalibInv
<1> QED
  BY <1>1, <1>2, CalibInvHolds, PTL DEF CalibSpec, ImplementsPromise, Promise!Spec

\* Only what the gauge reports as a full pack passes for one, at whatever moment of a
\* sample the calibration thread looks (calib.c:76).
THEOREM SeemsFullOnlyIfFullHolds == CalibSpec => []SeemsFullOnlyIfFull
<1>1. CalibInv => SeemsFullOnlyIfFull
  BY DEF CalibInv, SampleInv, SeemsFull, SeemsFullOnlyIfFull
<1> QED
  BY <1>1, CalibInvHolds, PTL

\* A restored capacity is not estimated anew by a later firmware reset (batt.c:940-957).
THEOREM RestoredCapacityLastsHolds == CalibSpec => []RestoredCapacityLasts
<1>1. CalibInv => RestoredCapacityLasts
  BY DEF CalibInv, CapsInv
<1> QED
  BY <1>1, CalibInvHolds, PTL

\* A capacity is made wrong only after a failed read or under an overlapping sample
\* (calib.c:110).
THEOREM SpoiltOnlyByOverlapOrFailureHolds == CalibSpec => SpoiltOnlyByOverlapOrFailure
<1> DEFINE Step == sound /\ bpc # "load" =>
                      \A c \in Capacities : caps[c] \notin Spoilt => caps'[c] \notin Spoilt
<1>1. CalibInv /\ [CalibNext]_allVars => [Step]_allVars
  <2> SUFFICES ASSUME CalibInv, CalibNext, sound, bpc # "load",
                      NEW c \in Capacities, caps[c] \notin Spoilt
               PROVE  caps'[c] \notin Spoilt
    OBVIOUS
  <2> USE DEF CalibInv, vars, gaugeVars, battVars, calibVars, capVars, ownVars
  <2>1. CASE caps' = Estimated
    BY <2>1 DEF Estimated, Spoilt
  <2>2. CASE UNCHANGED caps
    BY <2>2
  <2>3. CASE Converge
    BY <2>3 DEF Converge, Spoilt
  <2>4. CASE WriteMixcap
    BY <2>4, WriteCapacityIs, FullCapacityIs DEF WriteMixcap, SoundInv, Calibrating, Spoilt,
       Capacities
  <2>5. CASE WriteRepcap
    BY <2>5, ReportedIs DEF WriteRepcap, Reported, SoundInv, Spoilt
  <2>6. CASE RestoreHistory
    BY <2>6 DEF RestoreHistory
  <2> QED
    BY <2>1, <2>2, <2>3, <2>4, <2>5, <2>6
       DEF CalibNext, BattThread, CalibThread, Environment, Configure, Restart, Reload,
           StoreHistory, StartSample, ReadField, PostEvent, Check, ReadStage, WriteStage,
           ReadStageBack, Learn, CardResetAll, PowerLossAll, GaugePowerLossAll, PowerOnAll
<1> QED
  BY <1>1, CalibInvHolds, PTL DEF CalibSpec, SpoiltOnlyByOverlapOrFailure

\* The history loses a capacity only to a failed read, or to a zero in the gauge
\* (batt.c:649-673, 969-977).
THEOREM HistoryLostOnlyByFailureHolds == CalibSpec => HistoryLostOnlyByFailure
<1> DEFINE Step == \A c \in Capacities : saved[c] # "zero" /\ saved'[c] = "zero"
                                            => missed' \/ caps[c] = "zero"
<1>1. [CalibNext]_allVars => [Step]_allVars
  <2> SUFFICES ASSUME CalibNext, NEW c \in Capacities, saved[c] # "zero",
                      saved'[c] = "zero"
               PROVE  missed' \/ caps[c] = "zero"
    OBVIOUS
  <2>1. StoreHistory
    BY DEF CalibNext, BattThread, CalibThread, Environment, Configure, Restart,
           RestoreHistory, StartSample, ReadField, PostEvent, Check, ReadStage, WriteStage,
           ReadStageBack, WriteMixcap, WriteRepcap, Converge, Learn, CardResetAll,
           PowerLossAll, GaugePowerLossAll, FreshThreads, ownVars
  <2>2. CASE Enabled
    <3>1. PICK read \in SUBSET Capacities :
             /\ saved' \in {saved, [d \in Capacities |-> IF d \in read THEN caps[d] ELSE "zero"]}
             /\ missed' = (read # Capacities)
      BY <2>1, <2>2 DEF StoreHistory
    <3>2. CASE c \in read
      BY <3>1, <3>2
    <3>3. CASE c \notin read
      BY <3>1, <3>3
    <3> QED
      BY <3>2, <3>3
  <2>3. CASE ~Enabled
    <3>1. saved' \in {saved, Loaded} /\ missed' = missed
      BY <2>1, <2>3 DEF StoreHistory
    <3>2. missed
      BY <3>1 DEF Loaded
    <3> QED
      BY <3>1, <3>2
  <2> QED
    BY <2>2, <2>3
<1> QED
  BY <1>1, PTL DEF CalibSpec, HistoryLostOnlyByFailure

\* A stage marked complete is in use after a clean start-up (max17205.c:862-865).
THEOREM LearnStageTakesEffectHolds == CalibSpec => LearnStageTakesEffect
<1> DEFINE Step == pc # "loop" /\ pc' = "loop" /\ learnCfg' = "learning"
                      => ~(clean' /\ nLearnCfg)
<1>1. CalibInv /\ [CalibNext]_allVars => [Step]_allVars
  <2> SUFFICES ASSUME CalibInv, CalibNext, pc # "loop", pc' = "loop",
                      learnCfg' = "learning", clean', nLearnCfg
               PROVE  FALSE
    OBVIOUS
  <2>1. \/ Validate /\ UNCHANGED learnCfg
        \/ WriteRegister \/ Verify \/ ApplyFails
        \/ ApplyDone /\ Reload
    BY DEF CalibNext, BattThread, CalibThread, Environment, Configure, Restart, RestartDone,
           ReadStatus, WriteConfig, RestartFails, GivesUp, RestoreHistory, StoreHistory,
           StartSample, ReadField, PostEvent, Check, ReadStage, WriteStage, ReadStageBack,
           WriteMixcap, WriteRepcap, Converge, Learn, CardResetAll, CardReset, PowerLossAll,
           PowerLoss, GaugePowerLossAll, GaugePowerLoss, ownVars, capVars, vars, gaugeVars
  <2>2. Validate /\ UNCHANGED learnCfg => clean /\ pc = "validate"
    BY DEF Validate, Fails
  <2>3. ~WriteRegister /\ ~ApplyFails
    BY DEF WriteRegister, WriteFails, ApplyFails, Fails, Return
  <2>4. ~Verify
    BY DEF Verify, Fails, CalibInv, ConfigInv
  <2>5. ~(ApplyDone /\ Reload)
    BY DEF Reload
  <2> QED
    BY <2>1, <2>2, <2>3, <2>4, <2>5 DEF CalibInv, LearnInv
<1> QED
  BY <1>1, CalibInvHolds, PTL DEF CalibSpec, LearnStageTakesEffect

\* The stage that was written is read back only if the gauge completed its learning in
\* between (calib.c:93-109).
THEOREM ReportsOnlyTheGaugesLearningHolds == CalibSpec => ReportsOnlyTheGaugesLearning
<1> DEFINE Step == learnCfg # "learned" /\ ret' => ret
<1>1. CalibInv /\ [CalibNext]_allVars => [Step]_allVars
  <2> SUFFICES ASSUME CalibInv, CalibNext, learnCfg # "learned", ret', ~ret
               PROVE  FALSE
    OBVIOUS
  <2>1. ReadStageBack
    BY DEF CalibNext, BattThread, CalibThread, Environment, Configure, Restart,
           RestoreHistory, StoreHistory, StartSample, ReadField, PostEvent, Check, ReadStage,
           WriteStage, WriteMixcap, WriteRepcap, Proceed, Finish, Converge, Learn,
           CardResetAll, PowerLossAll, GaugePowerLossAll, FreshThreads, ownVars, calibVars
  <2> QED
    BY <2>1 DEF ReadStageBack, StageReadBack, Finish, CalibInv, LearnInv, CalibTypeOK
<1> QED
  BY <1>1, CalibInvHolds, PTL DEF CalibSpec, ReportsOnlyTheGaugesLearning
==============================================================================
