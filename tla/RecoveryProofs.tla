--------------------------- MODULE RecoveryProofs ---------------------------
(***************************************************************************)
(* Proofs about start-up for every limit on boots and retries.             *)
(***************************************************************************)
EXTENDS Recovery, TLAPS

USE DEF Packs

LEMMA Bounds ==
    /\ 1 \in 1 .. MAX_I2C_RECOVERY_RETRIES + 1
    /\ 0 \in 0 .. MAX_RECOVERY_BOOTS
    /\ 0 \in 0 .. MAX_RECOVERY_BOOTS + 1
  BY SMT, BootsAssumption, RetriesAssumption

\* A count that is loaded fits, whether it could be read or not.
LEMMA LoadedCountsRange ==
    ASSUME TypeOK PROVE LoadedCounts \subseteq 0 .. MAX_RECOVERY_BOOTS
  BY Bounds DEF LoadedCounts, TypeOK

\* The type of retry is not inductive by itself: an attempt may only follow
\* fewer than the allowed ones (batt.c:756-762).
RetryInv == pc = "recover" => retry \in 1 .. MAX_I2C_RECOVERY_RETRIES

LEMMA RestartType ==
    ASSUME Restart
    PROVE  /\ pc' \in Steps /\ pack' \in Packs
           /\ retry' \in 1 .. MAX_I2C_RECOVERY_RETRIES + 1
           /\ err' \in BOOLEAN
           /\ rec' \in 0 .. MAX_RECOVERY_BOOTS
           /\ rec_count' \in 0 .. MAX_RECOVERY_BOOTS
           /\ enabled' \in [Packs -> BOOLEAN]
           /\ broken' \in SUBSET Parts
           /\ UNCHANGED settingsOk
  <1>1. pc' \in Steps /\ pack' \in Packs
    BY SMT DEF Restart, Steps
  <1>2. /\ retry' \in 1 .. MAX_I2C_RECOVERY_RETRIES + 1
        /\ rec' \in 0 .. MAX_RECOVERY_BOOTS
        /\ rec_count' \in 0 .. MAX_RECOVERY_BOOTS
    BY Bounds DEF Restart
  <1>5. err' \in BOOLEAN /\ UNCHANGED settingsOk
    BY DEF Restart
  <1>3. enabled' \in [Packs -> BOOLEAN]
    BY DEF Restart, NoneEnabled
  <1>4. broken' \in SUBSET Parts
    BY BrokenAssumption DEF Restart
  <1> QED
    BY <1>1, <1>2, <1>3, <1>4, <1>5

LEMMA NextPackType ==
    ASSUME TypeOK, NextPack
    PROVE  pc' \in Steps /\ pack' \in Packs
  BY DEF NextPack, TypeOK, Steps

\* The start-up keeps its types; the count in flash never passes the limit
\* and the local copy of it is one that fits (batt.c:764-773).
THEOREM TypeCorrect == Spec => []TypeOK
  <1>1. Init => TypeOK
    <2> SUFFICES ASSUME Init PROVE TypeOK
      OBVIOUS
    <2>1. /\ retry \in 1 .. MAX_I2C_RECOVERY_RETRIES + 1
          /\ rec \in 0 .. MAX_RECOVERY_BOOTS
          /\ rec_count \in 0 .. MAX_RECOVERY_BOOTS
          /\ stored \in 0 .. MAX_RECOVERY_BOOTS
          /\ reboots \in 0 .. MAX_RECOVERY_BOOTS + 1
      BY Bounds DEF Init
    <2>2. pc \in Steps /\ pack \in Packs
      BY SMT DEF Init, Steps
    <2>3. enabled \in [Packs -> BOOLEAN]
      BY DEF Init, NoneEnabled
    <2>4. cond \in [Packs -> Conditions] /\ broken \in SUBSET Parts
      BY FaultsAssumption, BrokenAssumption DEF Init
    <2>5. err \in BOOLEAN /\ settingsOk \in BOOLEAN
      BY DEF Init
    <2> QED
      BY <2>1, <2>2, <2>3, <2>4, <2>5 DEF TypeOK
  <1>2. TypeOK /\ RetryInv /\ [Next]_vars => TypeOK'
    <2> SUFFICES ASSUME TypeOK, RetryInv, [Next]_vars PROVE TypeOK'
      OBVIOUS
    <2>1. CASE LoadRecoveryCount
      <3>1. rec_count' \in 0 .. MAX_RECOVERY_BOOTS
        BY <2>1, LoadedCountsRange DEF LoadRecoveryCount
      <3> QED
        BY <2>1, <3>1 DEF LoadRecoveryCount, TypeOK, Steps
    <2>2. CASE InitLed \/ InitHist \/ InitGpios
      BY <2>2 DEF InitLed, InitHist, InitGpios, InitPart, TypeOK, Steps, locals
    <2>3. CASE CheckGauge
      <3>1. enabled' \in [Packs -> BOOLEAN]
        BY <2>3 DEF CheckGauge, TypeOK
      <3>2. pc' \in Steps /\ pack' \in Packs
        BY <2>3, NextPackType DEF CheckGauge, TypeOK, Steps
      <3>3. retry' \in 1 .. MAX_I2C_RECOVERY_RETRIES + 1
        BY <2>3, Bounds DEF CheckGauge, TypeOK
      <3>4. err' \in BOOLEAN /\ rec' \in 0 .. MAX_RECOVERY_BOOTS
        BY <2>3, LoadedCountsRange DEF CheckGauge, TypeOK
      <3> QED
        BY <2>3, <3>1, <3>2, <3>3, <3>4 DEF CheckGauge, TypeOK
    <2>4. CASE TryRecovery
      <3>1. cond' \in [Packs -> Conditions]
        BY <2>4 DEF TryRecovery, NextRetry, TypeOK, Conditions
      <3>2. pc' \in Steps /\ err' \in BOOLEAN
        BY <2>4 DEF TryRecovery, NextRetry, Steps
      <3>3. retry' \in 1 .. MAX_I2C_RECOVERY_RETRIES + 1
        BY SMT, <2>4, RetriesAssumption DEF TryRecovery, NextRetry, TypeOK, RetryInv
      <3> QED
        BY <2>4, <3>1, <3>2, <3>3 DEF TryRecovery, NextRetry, TypeOK
    <2>5. CASE Verdict
      <3>1. pc' \in Steps /\ pack' \in Packs
        BY <2>5, NextPackType DEF Verdict, RebootAllowed, TypeOK, Steps
      <3>2. stored' \in 0 .. MAX_RECOVERY_BOOTS
        BY SMT, <2>5, BootsAssumption DEF Verdict, RebootAllowed, StoreRecoveryCount, TypeOK
      <3> QED
        BY <2>5, <3>1, <3>2 DEF Verdict, RebootAllowed, TypeOK
    <2>6. CASE AssertRecovered
      <3>1. reboots' \in 0 .. MAX_RECOVERY_BOOTS + 1
        BY SMT, <2>6, BootsAssumption DEF AssertRecovered, TypeOK
      <3> QED
        BY <2>6, <3>1, RestartType DEF AssertRecovered, TypeOK
    <2>7. CASE FatalExit \/ ResetInStartup
      BY <2>7, RestartType DEF FatalExit, ResetInStartup, TypeOK
    <2>8. CASE Settle
      <3>1. stored' \in 0 .. MAX_RECOVERY_BOOTS /\ reboots' \in 0 .. MAX_RECOVERY_BOOTS + 1
        BY SMT, <2>8, BootsAssumption DEF Settle, StoreRecoveryCount, TypeOK
      <3> QED
        BY <2>8, <3>1 DEF Settle, TypeOK, Steps, locals
    <2>9. CASE ResetInLoop
      BY <2>9, RestartType, FaultsAssumption DEF ResetInLoop, TypeOK
    <2>10. CASE UNCHANGED vars
      BY <2>10 DEF vars, locals, TypeOK
    <2> QED
      BY <2>1, <2>2, <2>3, <2>4, <2>5, <2>6, <2>7, <2>8, <2>9, <2>10 DEF Next, Startup
  <1>3. Init => RetryInv
    BY DEF Init, RetryInv
  <1>4. TypeOK /\ RetryInv /\ [Next]_vars => RetryInv'
    <2> SUFFICES ASSUME TypeOK, RetryInv, [Next]_vars, pc' = "recover"
                 PROVE  retry' \in 1 .. MAX_I2C_RECOVERY_RETRIES
      BY DEF RetryInv
    <2>1. CASE CheckGauge
      BY SMT, <2>1, RetriesAssumption DEF CheckGauge, NextPack
    <2>2. CASE TryRecovery
      BY SMT, <2>2, RetriesAssumption DEF TryRecovery, NextRetry, TypeOK
    <2>3. CASE UNCHANGED vars
      BY <2>3 DEF vars, locals, RetryInv
    <2>4. ~(LoadRecoveryCount \/ InitLed \/ InitHist \/ InitGpios \/ Verdict \/ AssertRecovered
            \/ FatalExit \/ Settle \/ ResetInStartup \/ ResetInLoop)
      BY DEF LoadRecoveryCount, LoadedCounts, InitLed, InitHist, InitGpios, InitPart, Verdict, NextPack,
             AssertRecovered, FatalExit, Settle, ResetInStartup, ResetInLoop, Restart
    <2> QED
      BY <2>1, <2>2, <2>3, <2>4 DEF Next, Startup
  <1> QED
    BY <1>1, <1>2, <1>3, <1>4, PTL DEF Spec

-----------------------------------------------------------------------------
(* The bound on recovery reboots.                                          *)

Failing == {"jammed", "dead", "no_controller"}
SomeFailing == \E p \in Packs : cond[p] \in Failing

\* Why the bound holds: while a bus may still fail to recover, nothing clears
\* the stored count, so each reboot is covered by one increment; once no bus
\* can fail, no reboot is left to happen.
CountInv ==
    /\ cond \in OneFault
    /\ pc \in {"recover", "verdict"} => rec = stored
    /\ pc = "verdict" /\ err => SomeFailing
    /\ pc = "verdict" /\ ~err => ~SomeFailing
    /\ pc = "assert" => reboots < stored /\ SomeFailing
    /\ SomeFailing => reboots <= stored
    /\ reboots <= MAX_RECOVERY_BOOTS
    /\ (\E p \in Packs : cond[p] = "silent") => reboots = 0
    /\ pc = "loop" => reboots = 0

\* Next to a silent gauge every bus is healthy, and once the only jammed bus
\* is freed both are.
LEMMA OneFaultFacts ==
    ASSUME NEW c \in OneFault, NEW p \in Packs
    PROVE  /\ c[p] = "silent" => \A q \in Packs : c[q] \notin Failing
           /\ c[p] = "jammed" =>
                 /\ [c EXCEPT ![p] = "good"] \in OneFault
                 /\ \A q \in Packs : [c EXCEPT ![p] = "good"][q] = "good"
  <1>1. c \in [Packs -> Conditions]
    BY DEF OneFault
  <1>2. p = 1 \/ p = 2
    BY SMT
  <1>3. CASE c[p] = "silent"
    <2>1. \A q \in Packs : q # p => c[q] = "good"
      BY SMT, <1>2, <1>3 DEF OneFault
    <2> QED
      BY <1>3, <2>1 DEF Failing
  <1>4. CASE c[p] = "jammed"
    <2>1. \A q \in Packs : q # p => c[q] = "good"
      BY SMT, <1>2, <1>4 DEF OneFault
    <2>2. \A q \in Packs : [c EXCEPT ![p] = "good"][q] = "good"
      BY <1>1, <2>1
    <2>3. [c EXCEPT ![p] = "good"] \in [Packs -> Conditions]
      BY <1>1 DEF Conditions
    <2> QED
      BY <1>4, <2>2, <2>3 DEF OneFault
  <1> QED
    BY <1>3, <1>4

\* A step that changes neither the hardware nor the counts, and does not
\* enter one of the steps the invariant speaks of, keeps it.
LEMMA QuietStep ==
    ASSUME TypeOK, CountInv, UNCHANGED <<cond, stored, reboots>>,
           pc' \notin {"recover", "verdict", "assert", "loop"}
    PROVE  CountInv'
  BY DEF CountInv, SomeFailing

LEMMA CountInvInductive ==
    ASSUME Faults \subseteq OneFault, settingsOk, TypeOK, CountInv, [Next]_vars
    PROVE  CountInv'
  <1>1. CASE LoadRecoveryCount \/ InitLed \/ InitHist \/ InitGpios
    <2>1. UNCHANGED <<cond, stored, reboots>> /\ pc' \notin {"recover", "verdict", "assert", "loop"}
      BY <1>1 DEF LoadRecoveryCount, LoadedCounts, InitLed, InitHist, InitGpios, InitPart
    <2> QED
      BY <2>1, QuietStep
  <1>2. CASE CheckGauge
    <2>1. UNCHANGED <<cond, stored, reboots>>
      BY <1>2 DEF CheckGauge, LoadedCounts
    <2>2. \/ pc' \notin {"recover", "verdict", "assert", "loop"}
          \/ pc' = "recover" /\ rec' = stored
      BY <1>2 DEF CheckGauge, LoadedCounts, NextPack
    <2> QED
      BY <2>1, <2>2, QuietStep DEF CountInv, SomeFailing
  <1>3. CASE TryRecovery
    <2>1. UNCHANGED <<stored, reboots, rec>> /\ rec = stored
      BY <1>3 DEF TryRecovery, NextRetry, CountInv
    <2>2. pack \in Packs /\ cond \in OneFault
      BY DEF TypeOK, CountInv
    <2>3. CASE cond[pack] = "jammed" /\ cond' = [cond EXCEPT ![pack] = "good"]
               /\ ~err' /\ pc' = "verdict"
      <3>1. cond' \in OneFault /\ ~SomeFailing'
        BY <2>2, <2>3, OneFaultFacts DEF SomeFailing, Failing
      <3>2. ~\E p \in Packs : cond'[p] = "silent"
        BY <2>2, <2>3, OneFaultFacts
      <3> QED
        BY <2>1, <2>3, <3>1, <3>2 DEF CountInv
    <2>4. CASE cond[pack] = "silent" /\ UNCHANGED cond /\ ~err' /\ pc' = "verdict"
      <3>1. ~SomeFailing'
        BY <2>2, <2>4, OneFaultFacts DEF SomeFailing
      <3> QED
        BY <2>1, <2>4, <3>1 DEF CountInv, SomeFailing
    <2>5. CASE cond[pack] \in Failing /\ UNCHANGED cond /\ err' /\ pc' \in {"recover", "verdict"}
      <3>1. SomeFailing' /\ SomeFailing
        BY <2>2, <2>5 DEF SomeFailing
      <3> QED
        BY <2>1, <2>5, <3>1 DEF CountInv
    <2> QED
      BY <1>3, <2>3, <2>4, <2>5 DEF TryRecovery, NextRetry, Failing
  <1>4. CASE Verdict
    <2>1. UNCHANGED <<cond, reboots>> /\ rec = stored
      BY <1>4 DEF Verdict, RebootAllowed, CountInv
    <2>2. CASE err /\ rec < MAX_RECOVERY_BOOTS /\ stored' = rec + 1 /\ pc' = "assert"
      <3>1. SomeFailing /\ SomeFailing'
        BY <1>4, <2>1, <2>2 DEF Verdict, RebootAllowed, CountInv, SomeFailing
      <3>2. reboots <= stored
        BY <3>1 DEF CountInv
      <3>3. reboots < stored' /\ reboots <= stored'
        BY SMT, <2>1, <2>2, <3>2 DEF TypeOK
      <3> QED
        BY <2>1, <2>2, <3>1, <3>3 DEF CountInv, SomeFailing
    <2>3. CASE ~err /\ pc' \notin {"recover", "verdict", "assert", "loop"}
      <3>1. ~SomeFailing /\ ~SomeFailing'
        BY <1>4, <2>1, <2>3 DEF Verdict, RebootAllowed, CountInv, SomeFailing
      <3> QED
        BY <2>1, <2>3, <3>1 DEF CountInv
    <2>4. CASE UNCHANGED stored /\ pc' \notin {"recover", "verdict", "assert", "loop"}
      BY <2>1, <2>4, QuietStep
    <2> QED
      BY <1>4, <2>2, <2>3, <2>4 DEF Verdict, RebootAllowed, NextPack, StoreRecoveryCount
  <1>5. CASE AssertRecovered
    <2>1. UNCHANGED <<stored, cond>> /\ pc' = "load"
      BY <1>5 DEF AssertRecovered, Restart
    <2>2. reboots < stored /\ SomeFailing
      BY <1>5 DEF AssertRecovered, CountInv
    <2>3. reboots' <= stored' /\ reboots' <= MAX_RECOVERY_BOOTS
      BY SMT, <1>5, <2>1, <2>2, BootsAssumption DEF AssertRecovered, TypeOK
    <2>4. ~\E p \in Packs : cond'[p] = "silent"
      BY <2>1, <2>2, OneFaultFacts DEF CountInv, SomeFailing
    <2> QED
      BY <2>1, <2>3, <2>4 DEF CountInv
  <1>6. CASE FatalExit \/ ResetInStartup
    <2>1. UNCHANGED <<cond, stored, reboots>> /\ pc' = "load"
      BY <1>6 DEF FatalExit, ResetInStartup, Restart
    <2> QED
      BY <2>1, QuietStep
  <1>7. CASE Settle
    <2>1. UNCHANGED cond /\ reboots' = 0 /\ pc' = "loop"
      BY <1>7 DEF Settle
    <2>2. stored' \in Nat
      BY SMT, <1>7 DEF Settle, StoreRecoveryCount, TypeOK
    <2>3. reboots' <= stored' /\ reboots' <= MAX_RECOVERY_BOOTS
      BY SMT, <2>1, <2>2, BootsAssumption
    <2> QED
      BY <2>1, <2>3 DEF CountInv
  <1>8. CASE ResetInLoop
    <2>1. cond' \in OneFault /\ stored' = stored /\ reboots' = 0 /\ pc' = "load"
      BY <1>8 DEF ResetInLoop, Restart, CountInv
    <2>2. reboots' <= stored' /\ reboots' <= MAX_RECOVERY_BOOTS
      BY SMT, <2>1, BootsAssumption DEF TypeOK
    <2> QED
      BY <2>1, <2>2 DEF CountInv
  <1>9. CASE UNCHANGED vars
    BY <1>9 DEF vars, locals, CountInv, SomeFailing
  <1> QED
    BY <1>1, <1>2, <1>3, <1>4, <1>5, <1>6, <1>7, <1>8, <1>9 DEF Next, Startup

\* Nothing in this program repairs or breaks the settings partition.
LEMMA SettingsKept == ASSUME [Next]_vars PROVE UNCHANGED settingsOk
  BY DEF Next, Startup, vars, LoadRecoveryCount, InitLed, InitHist, InitGpios, InitPart,
         CheckGauge, TryRecovery, Verdict, AssertRecovered, FatalExit, Settle,
         ResetInStartup, ResetInLoop, Restart

LEMMA CountInvHolds ==
    ASSUME Faults \subseteq OneFault
    PROVE  Spec => [](settingsOk => CountInv)
  <1> DEFINE Counted == settingsOk => CountInv
  <1>1. Init => Counted
    <2> SUFFICES ASSUME Init PROVE CountInv
      OBVIOUS
    <2>1. cond \in OneFault
      BY DEF Init
    <2>2. reboots <= stored /\ reboots <= MAX_RECOVERY_BOOTS
      BY SMT, BootsAssumption DEF Init
    <2> QED
      BY <2>1, <2>2 DEF Init, CountInv
  <1>2. TypeOK /\ Counted /\ [Next]_vars => Counted'
    BY CountInvInductive, SettingsKept
  <1> HIDE DEF Counted
  <1>3. Spec => []Counted
    BY <1>1, <1>2, TypeCorrect, PTL DEF Spec
  <1> QED
    BY <1>3 DEF Counted

\* With one pack at fault and a settings partition that works, there are at
\* most MAX_RECOVERY_BOOTS recovery reboots before the main loop runs, however
\* resets interrupt start-up (batt.c:764-783).
THEOREM RebootsBoundedHolds ==
    ASSUME Faults \subseteq OneFault
    PROVE  Spec => []RebootsBounded
  <1>1. (settingsOk => CountInv) => RebootsBounded
    BY DEF CountInv, RebootsBounded
  <1> QED
    BY <1>1, CountInvHolds, PTL

-----------------------------------------------------------------------------
(* The count and the main loop.                                            *)

\* Why it is cleared: until the main loop the stored count is the one that
\* start-up read, unless recover_bus cleared it already.
ReadInv ==
    settingsOk => /\ pc \notin {"load", "assert"} => stored \in {rec_count, 0}
                  /\ HealthyBootClearsCount

\* With a settings partition that works, a start-up that finds both gauges
\* answering enters the main loop with the count cleared (batt.c:916-920).
THEOREM HealthyBootClearsCountHolds == Spec => []HealthyBootClearsCount
  <1>1. Init => ReadInv
    BY DEF Init, ReadInv, HealthyBootClearsCount
  <1>2. ReadInv /\ [Next]_vars => ReadInv'
    <2> SUFFICES ASSUME ReadInv, [Next]_vars, settingsOk, settingsOk' PROVE ReadInv'
      BY SettingsKept DEF ReadInv
    <2>1. CASE LoadRecoveryCount
      BY <2>1 DEF LoadRecoveryCount, LoadedCounts, ReadInv, HealthyBootClearsCount
    <2>2. CASE InitLed \/ InitHist \/ InitGpios
      BY <2>2 DEF InitLed, InitHist, InitGpios, InitPart, locals, ReadInv, HealthyBootClearsCount
    <2>3. CASE CheckGauge
      BY <2>3 DEF CheckGauge, NextPack, ReadInv, HealthyBootClearsCount
    <2>4. CASE TryRecovery
      BY <2>4 DEF TryRecovery, NextRetry, ReadInv, HealthyBootClearsCount
    <2>5. CASE Verdict
      BY <2>5 DEF Verdict, RebootAllowed, NextPack, StoreRecoveryCount, ReadInv, HealthyBootClearsCount
    <2>6. CASE AssertRecovered \/ FatalExit \/ ResetInStartup \/ ResetInLoop
      BY <2>6 DEF AssertRecovered, FatalExit, ResetInStartup, ResetInLoop, Restart,
                  ReadInv, HealthyBootClearsCount
    <2>7. CASE Settle
      BY <2>7 DEF Settle, StoreRecoveryCount, locals, ReadInv, HealthyBootClearsCount
    <2>8. CASE UNCHANGED vars
      BY <2>8 DEF vars, locals, ReadInv, HealthyBootClearsCount
    <2> QED
      BY <2>1, <2>2, <2>3, <2>4, <2>5, <2>6, <2>7, <2>8 DEF Next, Startup
  <1>3. ReadInv => HealthyBootClearsCount
    BY DEF ReadInv, HealthyBootClearsCount
  <1> QED
    BY <1>1, <1>2, <1>3, PTL DEF Spec

\* Start-up has dealt with pack p's bus, and goes on.
Decided(p) ==
    \/ pc \in {"hist", "gpio", "settle", "loop"}
    \/ pc \in {"check", "recover", "verdict"} /\ pack = 2 /\ p = 1

\* Why reboots are spent first: a dead bus is left behind only with the count
\* at its limit, and beside a dead bus no other bus can be freed, so that
\* nothing clears the count again.
GiveUpInv ==
    /\ cond \in OneFault
    /\ pc \in {"load", "led"} => pack = 1
    /\ pc \in {"recover", "verdict"} => rec \in {stored, 0}
    /\ pc = "verdict" /\ ~err => \A p \in Packs : cond[p] # "dead"
    /\ \A p \in Packs : cond[p] = "dead" => ~enabled[p] /\ (Decided(p) => stored = MAX_RECOVERY_BOOTS)

LEMMA GiveUpInvInductive ==
    ASSUME Faults \subseteq OneFault, TypeOK, GiveUpInv, [Next]_vars
    PROVE  GiveUpInv'
  <1>1. CASE LoadRecoveryCount \/ InitLed
    BY <1>1 DEF LoadRecoveryCount, InitLed, InitPart, locals, GiveUpInv, Decided
  <1>2. CASE InitHist \/ InitGpios
    BY <1>2 DEF InitHist, InitGpios, InitPart, locals, GiveUpInv, Decided
  <1>3. CASE CheckGauge
    <2>1. UNCHANGED <<cond, stored>> /\ pack \in Packs /\ enabled \in [Packs -> BOOLEAN]
      BY <1>3 DEF CheckGauge, TypeOK
    <2>2. \A p \in Packs : cond'[p] = "dead" => ~enabled'[p]
      BY <1>3, <2>1 DEF CheckGauge, GiveUpInv
    <2>3. pc' \in {"recover", "verdict"} => rec' \in {stored', 0}
      BY <1>3, <2>1 DEF CheckGauge, LoadedCounts, NextPack
    <2>4. pc' \notin {"load", "led", "verdict"}
      BY <1>3 DEF CheckGauge, NextPack
    <2>5. \A p \in Packs : cond'[p] = "dead" /\ Decided(p)' => stored' = MAX_RECOVERY_BOOTS
      BY <1>3, <2>1 DEF CheckGauge, NextPack, Decided, GiveUpInv
    <2> QED
      BY <2>1, <2>2, <2>3, <2>4, <2>5 DEF GiveUpInv
  <1>4. CASE TryRecovery
    <2>1. /\ UNCHANGED <<stored, rec, enabled, pack>> /\ rec \in {stored, 0}
          /\ pack \in Packs /\ cond \in OneFault
          /\ pc' \in {"recover", "verdict"}
      BY <1>4 DEF TryRecovery, NextRetry, GiveUpInv, TypeOK
    <2>2. \A p \in Packs : Decided(p)' => Decided(p)
      BY <1>4 DEF TryRecovery, NextRetry, Decided
    <2>3. CASE cond[pack] = "jammed" /\ cond' = [cond EXCEPT ![pack] = "good"]
      <3>1. cond' \in OneFault /\ \A p \in Packs : cond'[p] = "good"
        BY <2>1, <2>3, OneFaultFacts
      <3> QED
        BY <2>1, <3>1 DEF GiveUpInv
    <2>4. CASE cond[pack] = "silent" /\ UNCHANGED cond
      <3>1. \A p \in Packs : cond'[p] # "dead"
        BY <2>1, <2>4, OneFaultFacts DEF Failing
      <3> QED
        BY <2>1, <2>4, <3>1 DEF GiveUpInv
    <2>5. CASE UNCHANGED cond /\ err'
      BY <2>1, <2>2, <2>5 DEF GiveUpInv
    <2> QED
      BY <1>4, <2>3, <2>4, <2>5 DEF TryRecovery, NextRetry
  <1>5. CASE Verdict
    <2>1. UNCHANGED <<cond, enabled>> /\ rec \in {stored, 0}
      BY <1>5 DEF Verdict, RebootAllowed, GiveUpInv
    <2>2. CASE pc' = "assert"
      BY <2>1, <2>2 DEF GiveUpInv, Decided
    <2>3. CASE err /\ ~RebootAllowed /\ NextPack /\ UNCHANGED stored
      <3>1. stored = MAX_RECOVERY_BOOTS
        BY SMT, <2>1, <2>3, BootsAssumption DEF RebootAllowed, TypeOK
      <3> QED
        BY <2>1, <2>3, <3>1 DEF NextPack, GiveUpInv
    <2>4. CASE ~err /\ NextPack
      BY <1>5, <2>1, <2>4 DEF Verdict, RebootAllowed, NextPack, GiveUpInv
    <2> QED
      BY <1>5, <2>2, <2>3, <2>4 DEF Verdict
  <1>6. CASE AssertRecovered \/ FatalExit \/ ResetInStartup
    BY <1>6 DEF AssertRecovered, FatalExit, ResetInStartup, Restart, NoneEnabled,
                GiveUpInv, Decided
  <1>7. CASE Settle
    <2>1. UNCHANGED <<cond, enabled>> /\ pc' = "loop" /\ pc = "settle"
      BY <1>7 DEF Settle, locals
    <2>2. (\E p \in Packs : cond[p] = "dead") => UNCHANGED stored
      BY <1>7 DEF Settle, GiveUpInv
    <2> QED
      BY <2>1, <2>2 DEF GiveUpInv, Decided
  <1>8. CASE ResetInLoop
    BY <1>8 DEF ResetInLoop, Restart, NoneEnabled, GiveUpInv, Decided
  <1>9. CASE UNCHANGED vars
    BY <1>9 DEF vars, locals, GiveUpInv, Decided
  <1> QED
    BY <1>1, <1>2, <1>3, <1>4, <1>5, <1>6, <1>7, <1>8, <1>9 DEF Next, Startup

\* With one pack at fault, the main loop runs on an unrecovered bus only after
\* every reboot allowed for it has been spent, whether the settings partition
\* works or not (batt.c:749-780).
THEOREM GivesUpOnlyAtTheLimitHolds ==
    ASSUME Faults \subseteq OneFault
    PROVE  Spec => []GivesUpOnlyAtTheLimit
  <1>1. Init => GiveUpInv
    BY DEF Init, NoneEnabled, GiveUpInv, Decided
  <1>2. TypeOK /\ GiveUpInv /\ [Next]_vars => GiveUpInv'
    BY GiveUpInvInductive
  <1>3. GiveUpInv => GivesUpOnlyAtTheLimit
    BY DEF GiveUpInv, GivesUpOnlyAtTheLimit, Decided
  <1> QED
    BY <1>1, <1>2, <1>3, TypeCorrect, PTL DEF Spec

-----------------------------------------------------------------------------
(* The way to the main loop.                                               *)

\* Where start-up stands: the packs are looked at in order, recovery is for a faulty
\* one, and a bus that was recovered leaves no faulty pack behind it.
PlaceInv ==
    /\ pc \in {"load", "led"} => pack = 1
    /\ pc \in {"hist", "gpio", "settle", "loop"} => pack = 2
    /\ RetryInv
    /\ pc = "recover" \/ (pc = "verdict" /\ err) => cond[pack] # "good"
    /\ pc = "verdict" /\ ~err => \A p \in Packs : p > pack => cond[p] = "good"

LEMMA PlaceInvInductive ==
    ASSUME cond \in OneFault, TypeOK, PlaceInv, [Next]_vars
    PROVE  PlaceInv'
  <1>1. CASE LoadRecoveryCount \/ InitLed \/ InitHist \/ InitGpios
    BY <1>1 DEF LoadRecoveryCount, InitLed, InitHist, InitGpios, InitPart, locals,
                PlaceInv, RetryInv
  <1>2. CASE CheckGauge
    <2>1. 1 \in 1 .. MAX_I2C_RECOVERY_RETRIES
      BY RetriesAssumption
    <2> QED
      BY <1>2, <2>1 DEF CheckGauge, NextPack, PlaceInv, RetryInv, TypeOK
  <1>3. CASE TryRecovery
    <2>1. /\ retry \in 1 .. MAX_I2C_RECOVERY_RETRIES /\ pack \in Packs
          /\ cond \in [Packs -> Conditions]
      BY <1>3 DEF TryRecovery, PlaceInv, RetryInv, TypeOK
    <2>2. RetryInv'
      BY <1>3, <2>1, RetriesAssumption DEF TryRecovery, NextRetry, RetryInv
    <2>3. ~err' => \A p \in Packs : p > pack' => cond'[p] = "good"
      <3> SUFFICES ASSUME ~err', NEW p \in Packs, p > pack'
                   PROVE  cond'[p] = "good"
        OBVIOUS
      <3>1. pack' = pack /\ cond[pack] \in {"jammed", "silent"} /\ p # pack
            /\ cond' \in {cond, [cond EXCEPT ![pack] = "good"]}
        BY <1>3, <2>1 DEF TryRecovery, NextRetry
      <3>2. cond[p] = "good"
        BY <2>1, <3>1 DEF OneFault
      <3> QED
        BY <2>1, <3>1, <3>2
    <2> QED
      BY <1>3, <2>2, <2>3 DEF TryRecovery, NextRetry, PlaceInv
  <1>4. CASE Verdict
    BY <1>4 DEF Verdict, RebootAllowed, StoreRecoveryCount, NextPack, PlaceInv, RetryInv, TypeOK
  <1>5. CASE AssertRecovered \/ FatalExit \/ ResetInStartup \/ ResetInLoop
    BY <1>5 DEF AssertRecovered, FatalExit, ResetInStartup, ResetInLoop, Restart,
                PlaceInv, RetryInv
  <1>6. CASE Settle
    BY <1>6 DEF Settle, locals, PlaceInv, RetryInv
  <1>7. CASE UNCHANGED vars
    BY <1>7 DEF vars, locals, PlaceInv, RetryInv
  <1> QED
    BY <1>1, <1>2, <1>3, <1>4, <1>5, <1>6, <1>7 DEF Next, Startup

Closer ==
    /\ BootsLeft' >= 0 /\ StepsLeft' >= 0
    /\ \/ BootsLeft' < BootsLeft
       \/ BootsLeft' = BootsLeft /\ StepsLeft' < StepsLeft

\* What is left is a number, and the reboots that are left are known without the
\* step that asks for one.
Measured ==
    /\ StepsLeft \in Nat
    /\ BootsLeft \in Nat
    /\ pc # "assert" => BootsLeft = IF StillToCome # {} THEN MAX_RECOVERY_BOOTS - stored
                                    ELSE 0

LEMMA StepsAre ==
    ASSUME TypeOK, PlaceInv
    PROVE  /\ MAX_I2C_RECOVERY_RETRIES \in Nat /\ MAX_I2C_RECOVERY_RETRIES > 0
           /\ GaugeSteps = MAX_I2C_RECOVERY_RETRIES + 2
           /\ AfterPack \in {3, MAX_I2C_RECOVERY_RETRIES + 5}
           /\ StepsLeft \in Nat
  <1>1. MAX_I2C_RECOVERY_RETRIES \in Nat /\ MAX_I2C_RECOVERY_RETRIES > 0
    BY RetriesAssumption
  <1>2. GaugeSteps = MAX_I2C_RECOVERY_RETRIES + 2
    BY DEF GaugeSteps
  <1>3. AfterPack \in {3, MAX_I2C_RECOVERY_RETRIES + 5}
    BY <1>1, <1>2 DEF AfterPack
  <1>4. pc = "recover" => retry \in Nat /\ retry <= MAX_I2C_RECOVERY_RETRIES
    BY <1>1 DEF PlaceInv, RetryInv
  <1>5. AfterPack \in Nat
    BY <1>1, <1>3
  <1> QED
    BY <1>1, <1>2, <1>3, <1>4, <1>5 DEF StepsLeft

LEMMA CountsAre ==
    ASSUME TypeOK
    PROVE  MAX_RECOVERY_BOOTS \in Nat /\ stored \in Nat /\ stored <= MAX_RECOVERY_BOOTS
  BY BootsAssumption DEF TypeOK

LEMMA MeasureIs ==
    ASSUME TypeOK, PlaceInv, CountInv
    PROVE  Measured
  <1>1. MAX_RECOVERY_BOOTS \in Nat /\ stored \in Nat /\ stored <= MAX_RECOVERY_BOOTS
    BY CountsAre
  <1>2. pc = "assert" => stored > 0
    <2>1. reboots \in Nat
      BY <1>1 DEF TypeOK
    <2> QED
      BY <1>1, <2>1 DEF CountInv
  <1>3. BootsLeft \in Nat
    BY <1>1, <1>2 DEF BootsLeft
  <1> QED
    BY <1>3, StepsAre DEF Measured, BootsLeft

LEMMA StartupComesCloser ==
    ASSUME TypeOK, TypeOK', PlaceInv, PlaceInv', CountInv, CountInv',
           Measured, Measured', Startup, pc # "fatal", pc' # "fatal", settingsOk
    PROVE  Closer
  <1>1. MAX_RECOVERY_BOOTS \in Nat /\ stored \in Nat /\ stored <= MAX_RECOVERY_BOOTS
    BY CountsAre
  <1>2. /\ BootsLeft \in Nat /\ BootsLeft' \in Nat
        /\ StepsLeft \in Nat /\ StepsLeft' \in Nat
        /\ pc # "assert" => BootsLeft = IF StillToCome # {} THEN MAX_RECOVERY_BOOTS - stored
                                        ELSE 0
        /\ pc' # "assert" => BootsLeft' = IF StillToCome' # {} THEN MAX_RECOVERY_BOOTS - stored'
                                          ELSE 0
    BY DEF Measured
  <1>4. SUFFICES \/ BootsLeft' < BootsLeft
                 \/ BootsLeft' <= BootsLeft /\ StepsLeft' < StepsLeft
    BY <1>2 DEF Closer
  <1>5. pack \in Packs /\ pack' \in Packs
    BY DEF TypeOK
  <1>6. ASSUME UNCHANGED stored, pc # "assert", pc' # "assert", StillToCome' \subseteq StillToCome
        PROVE  BootsLeft' <= BootsLeft
    BY <1>1, <1>2, <1>6
  <1>7. CASE LoadRecoveryCount \/ InitLed
    <2>1. /\ UNCHANGED <<pack, cond, stored>>
          /\ \/ pc = "load" /\ pc' = "led"
             \/ pc = "led" /\ pc' = "check"
      BY <1>7 DEF LoadRecoveryCount, InitLed, InitPart, locals
    <2>2. pack = 1
      BY <2>1 DEF PlaceInv
    <2>3. StillToCome' \subseteq StillToCome
      BY <2>1 DEF StillToCome
    <2>4. StepsLeft' < StepsLeft
      BY <2>1, <2>2, StepsAre DEF StepsLeft, AfterPack
    <2> QED
      BY <1>6, <2>1, <2>3, <2>4
  <1>8. CASE CheckGauge
    <2>1. /\ UNCHANGED <<cond, stored>> /\ pc = "check"
          /\ \/ pack = 1 /\ pc' = "check" /\ pack' = 2
             \/ pack = 2 /\ pc' = "hist" /\ pack' = 2
             \/ pc' = "recover" /\ pack' = pack /\ retry' = 1
      BY <1>5, <1>8 DEF CheckGauge, NextPack
    <2>2. StillToCome' \subseteq StillToCome
      BY <1>5, <2>1 DEF StillToCome
    <2>3. StepsLeft' < StepsLeft
      BY <2>1, StepsAre DEF StepsLeft, AfterPack
    <2> QED
      BY <1>6, <2>1, <2>2, <2>3
  <1>9. CASE TryRecovery
    <2>1. UNCHANGED <<pack, stored>> /\ pc = "recover" /\ pc' \in {"recover", "verdict"}
      BY <1>9 DEF TryRecovery, NextRetry
    <2>2. StillToCome' \subseteq StillToCome
      <3>1. \A p \in Packs : cond'[p] # "good" => cond[p] # "good"
        BY <1>9 DEF TryRecovery, NextRetry, TypeOK
      <3> QED
        BY <2>1, <3>1 DEF StillToCome
    <2>3. StepsLeft' < StepsLeft
      <3>1. retry \in Nat /\ retry <= MAX_I2C_RECOVERY_RETRIES
        BY <2>1, StepsAre DEF PlaceInv, RetryInv
      <3>2. pc' = "recover" => retry' = retry + 1
        BY <1>9 DEF TryRecovery, NextRetry
      <3>3. AfterPack' = AfterPack /\ AfterPack \in Nat
        BY <2>1, StepsAre DEF AfterPack, GaugeSteps
      <3> QED
        BY <2>1, <3>1, <3>2, <3>3, StepsAre DEF StepsLeft
    <2> QED
      BY <1>6, <2>1, <2>2, <2>3
  <1>10. CASE Verdict
    <2>1. UNCHANGED cond /\ pc = "verdict" /\ rec = stored
      BY <1>10 DEF Verdict, RebootAllowed, CountInv
    <2>2. StepsLeft' < StepsLeft
      <3>1. pc' = "assert" \/ NextPack
        BY <1>10 DEF Verdict
      <3> QED
        BY <1>5, <2>1, <3>1, StepsAre DEF NextPack, StepsLeft, AfterPack
    <2>3. CASE err /\ RebootAllowed
      <3>1. stored' = stored + 1 /\ pc' = "assert"
        BY <1>10, <2>1, <2>3 DEF Verdict, StoreRecoveryCount
      <3>2. pack \in StillToCome
        BY <1>5, <2>1, <2>3 DEF PlaceInv, StillToCome
      <3>3. BootsLeft' = MAX_RECOVERY_BOOTS - stored' + 1
        BY <3>1 DEF BootsLeft
      <3>4. BootsLeft = MAX_RECOVERY_BOOTS - stored
        BY <1>1, <1>2, <2>1, <3>2
      <3> QED
        BY <1>1, <1>2, <2>2, <3>1, <3>3, <3>4
    <2>4. CASE err /\ ~RebootAllowed
      <3>1. UNCHANGED stored /\ NextPack
        BY <1>10, <2>4 DEF Verdict
      <3>2. pc' # "assert" /\ StillToCome' \subseteq StillToCome
        BY <1>5, <2>1, <2>4, <3>1 DEF NextPack, StillToCome
      <3> QED
        BY <1>6, <2>1, <2>2, <3>1, <3>2
    <2>5. CASE ~err
      <3>1. NextPack
        BY <1>10, <2>5 DEF Verdict
      <3>2. \A p \in Packs : p > pack => cond[p] = "good"
        BY <2>1, <2>5 DEF PlaceInv
      <3>3. StillToCome' = {} /\ pc' # "assert"
        BY <1>5, <2>1, <3>1, <3>2 DEF NextPack, StillToCome
      <3> QED
        BY <1>2, <2>2, <3>3
    <2> QED
      BY <2>3, <2>4, <2>5
  <1>11. CASE AssertRecovered
    <2>1. UNCHANGED stored /\ pc = "assert" /\ pc' = "load"
      BY <1>11 DEF AssertRecovered, Restart
    <2>2. BootsLeft = MAX_RECOVERY_BOOTS - stored + 1
      BY <2>1 DEF BootsLeft
    <2>3. BootsLeft' \in {0, MAX_RECOVERY_BOOTS - stored}
      BY <1>1, <1>2, <2>1
    <2> QED
      BY <1>1, <1>2, <2>2, <2>3
  <1>12. CASE InitHist \/ InitGpios \/ Settle
    <2>1. /\ UNCHANGED <<pack, cond>>
          /\ \/ pc = "hist" /\ pc' = "gpio"
             \/ pc = "gpio" /\ pc' = "settle"
             \/ pc = "settle" /\ pc' = "loop"
      BY <1>12 DEF InitHist, InitGpios, InitPart, Settle, locals
    <2>2. pack = 2
      BY <2>1 DEF PlaceInv
    <2>3. StillToCome' = {}
      BY <2>1, <2>2 DEF StillToCome
    <2>4. BootsLeft' = 0
      BY <1>2, <2>1, <2>3
    <2>5. StepsLeft' < StepsLeft
      BY <2>1 DEF StepsLeft
    <2> QED
      BY <1>2, <2>4, <2>5
  <1> QED
    BY <1>7, <1>8, <1>9, <1>10, <1>11, <1>12 DEF Startup, FatalExit

\* With one pack at fault and a settings partition that works, every step of a
\* start-up that no broken part ends is a step towards the main loop, for every limit
\* on boots and retries: what MainLoopReached rests on (batt.c:743-783, 836-920).
THEOREM MainLoopComesCloserHolds ==
    ASSUME Faults \subseteq OneFault
    PROVE  Spec => MainLoopComesCloser
  <1> DEFINE Counted == settingsOk => CountInv
             Placed  == PlaceInv /\ cond \in OneFault
  <1>1. Init => Placed
    <2>1. 1 \in 1 .. MAX_I2C_RECOVERY_RETRIES
      BY RetriesAssumption
    <2> QED
      BY <2>1 DEF Init, PlaceInv, RetryInv
  <1>2. TypeOK /\ Placed /\ [Next]_vars => Placed'
    <2> SUFFICES ASSUME TypeOK, PlaceInv, cond \in OneFault, [Next]_vars PROVE Placed'
      OBVIOUS
    <2>1. PlaceInv'
      BY PlaceInvInductive
    <2>2. TryRecovery => cond' \in OneFault
      <3>1. pack \in Packs
        BY DEF TypeOK
      <3>2. TryRecovery => \/ cond' = cond
                           \/ cond[pack] = "jammed" /\ cond' = [cond EXCEPT ![pack] = "good"]
        BY DEF TryRecovery
      <3>3. cond[pack] = "jammed" => [cond EXCEPT ![pack] = "good"] \in OneFault
        BY <3>1, OneFaultFacts
      <3> QED
        BY <3>2, <3>3
    <2>3. ResetInLoop => cond' \in OneFault
      BY DEF ResetInLoop
    <2>4. TryRecovery \/ ResetInLoop \/ UNCHANGED cond
      BY DEF Next, Startup, vars, LoadRecoveryCount, InitLed, InitHist, InitGpios, InitPart,
             CheckGauge, Verdict, AssertRecovered, FatalExit, Settle, ResetInStartup
    <2> QED
      BY <2>1, <2>2, <2>3, <2>4
  <1>3. TypeOK /\ Placed /\ Counted => (settingsOk => Measured)
    BY MeasureIs
  <1>4. /\ TypeOK /\ TypeOK' /\ Placed /\ Placed' /\ Counted /\ Counted' /\ [Next]_vars
        /\ (settingsOk => Measured) /\ (settingsOk => Measured)'
        => [Startup /\ settingsOk /\ pc # "fatal" /\ pc' # "fatal" => Closer]_vars
    <2> SUFFICES ASSUME TypeOK, TypeOK', PlaceInv, PlaceInv', Counted, Counted', [Next]_vars,
                        settingsOk => Measured, (settingsOk => Measured)',
                        Startup, settingsOk, pc # "fatal", pc' # "fatal"
                 PROVE  Closer
      OBVIOUS
    <2>1. CountInv /\ CountInv' /\ Measured /\ Measured'
      BY SettingsKept
    <2> QED
      BY <2>1, StartupComesCloser
  <1>5. MainLoopComesCloser
          <=> [][Startup /\ settingsOk /\ pc # "fatal" /\ pc' # "fatal" => Closer]_vars
    BY PTL DEF MainLoopComesCloser, Closer
  <1>6. Spec => []Counted
    BY CountInvHolds
  <1> HIDE DEF Counted, Placed
  <1> QED
    BY <1>1, <1>2, <1>3, <1>4, <1>5, <1>6, TypeCorrect, PTL DEF Spec
=============================================================================
