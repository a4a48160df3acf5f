------------------------------ MODULE Recovery ------------------------------
(***************************************************************************)
(* Start-up of the battery thread (src/src/batt.c:788-966): which gauges   *)
(* answer, recovery of a stuck I2C bus, reboots that are counted in the    *)
(* settings partition, and what else is fatal to start-up.                 *)
(*                                                                         *)
(* The recovery count outlives a reboot, everything else is lost, and a    *)
(* reset may come between any two steps.  The hardware's condition changes *)
(* only while the main loop runs: one start-up sees one condition, except  *)
(* that a bus it frees stays freed.                                        *)
(***************************************************************************)
EXTENDS Integers

CONSTANTS
    MAX_RECOVERY_BOOTS,         \* batt.c:44
    MAX_I2C_RECOVERY_RETRIES,   \* batt.c:43
    Faults,                     \* conditions of the two packs that may occur
    Broken                      \* sets of other parts broken during a start-up

Packs == 1 .. 2

\* What keeps a gauge from answering: nothing; a bus that recovery frees; a
\* healthy bus whose gauge stays silent; a bus that no recovery frees; an I2C
\* controller that is itself not ready.
Conditions == {"good", "jammed", "silent", "dead", "no_controller"}
Parts      == {"led", "hist", "gpio"}

ASSUME BootsAssumption   == MAX_RECOVERY_BOOTS \in Nat
ASSUME RetriesAssumption == MAX_I2C_RECOVERY_RETRIES \in Nat \ {0}
ASSUME FaultsAssumption  == Faults \subseteq [Packs -> Conditions] /\ Faults # {}
ASSUME BrokenAssumption  == Broken \subseteq SUBSET Parts /\ Broken # {}

VARIABLES
    pc,          \* step of the start-up, or "loop"
    pack,        \* the pack whose gauge is being looked at
    retry,       \* retry in recover_bus
    err,         \* err in recover_bus: the last attempt failed
    rec,         \* rec_count in recover_bus
    rec_count,   \* rec_count in handle_batt, read once
    enabled,     \* packs[i].enabled
    stored,      \* settings: "recovery_count"
    settingsOk,  \* the settings partition works; if not, loading or saving the
                 \* count may fail at any time
    cond,        \* the condition of each pack's bus and gauge
    broken,      \* parts broken during this start-up
    reboots      \* history: recovery reboots since the main loop last ran,
                 \* counted up to one more than MAX_RECOVERY_BOOTS

locals == <<pack, retry, err, rec, rec_count, enabled>>
vars   == <<pc, locals, stored, settingsOk, cond, broken, reboots>>

Steps == {"load", "led", "check", "recover", "verdict", "count", "assert",
          "hist", "gpio", "settle", "fatal", "loop"}

TypeOK ==
    /\ pc \in Steps
    /\ pack \in Packs
    /\ retry \in 1 .. MAX_I2C_RECOVERY_RETRIES + 1
    /\ err \in BOOLEAN
    /\ rec \in 0 .. MAX_RECOVERY_BOOTS
    /\ rec_count \in 0 .. MAX_RECOVERY_BOOTS
    /\ enabled \in [Packs -> BOOLEAN]
    /\ stored \in 0 .. MAX_RECOVERY_BOOTS
    /\ settingsOk \in BOOLEAN
    /\ cond \in [Packs -> Conditions]
    /\ broken \in SUBSET Parts
    /\ reboots \in 0 .. MAX_RECOVERY_BOOTS + 1

NoneEnabled == [p \in Packs |-> FALSE]

Init ==
    /\ pc = "load"
    /\ pack = 1 /\ retry = 1 /\ err = FALSE /\ rec = 0 /\ rec_count = 0
    /\ enabled = NoneEnabled
    /\ stored = 0
    /\ settingsOk \in BOOLEAN
    /\ cond \in Faults
    /\ broken \in Broken
    /\ reboots = 0

\* The processor starts over: memory is lost, the settings are not.
Restart ==
    /\ pc' = "load"
    /\ pack' = 1 /\ retry' = 1 /\ err' = FALSE /\ rec' = 0 /\ rec_count' = 0
    /\ enabled' = NoneEnabled
    /\ broken' \in Broken
    /\ UNCHANGED settingsOk

\* Mutant of StoreRecoveryCount: nothing is written.
StoreRecoveryCount_Lost(n) == UNCHANGED stored

\* store_recovery_count(n): no caller in recover_bus looks at the result.
StoreRecoveryCount(n) ==
    \/ stored' = n
    \/ ~settingsOk /\ UNCHANGED stored

\* On to the next pack, or to what follows the packs.
NextPack ==
    IF pack = 1 THEN pc' = "check" /\ pack' = 2
                ELSE pc' = "hist" /\ UNCHANGED pack

\* load_recovery_count: a count that cannot be read is taken for 0.
LoadedCounts == {stored} \cup (IF settingsOk THEN {} ELSE {0})

-----------------------------------------------------------------------------
(* The steps of handle_batt before its loop.                               *)

LoadRecoveryCount ==
    /\ pc = "load"
    /\ pc' = "led"
    /\ rec_count' \in LoadedCounts
    /\ UNCHANGED <<pack, retry, err, rec, enabled, stored, settingsOk, cond, broken, reboots>>

\* A part that does not initialise is fatal, whichever it is.
InitPart(part, following) ==
    /\ pc = part
    /\ pc' = IF part \in broken THEN "fatal" ELSE following
    /\ UNCHANGED <<locals, stored, settingsOk, cond, broken, reboots>>

InitLed   == InitPart("led", "check")
InitHist  == InitPart("hist", "gpio")
InitGpios == InitPart("gpio", "settle")

\* device_is_ready of the gauge; if it is not, enter recover_bus, which gives
\* up at once when the controller of the first bus is not ready.
CheckGauge ==
    /\ pc = "check"
    /\ enabled' = [enabled EXCEPT ![pack] = (cond[pack] = "good")]
    /\ \/ /\ cond[pack] = "good" \/ (cond[pack] = "no_controller" /\ pack = 1)
          /\ NextPack
          /\ UNCHANGED <<retry, err, rec>>
       \/ /\ cond[pack] # "good" /\ ~(cond[pack] = "no_controller" /\ pack = 1)
          /\ pc' = "recover"
          /\ retry' = 1
          /\ err' = FALSE
          /\ rec' \in LoadedCounts
          /\ UNCHANGED pack
    /\ UNCHANGED <<rec_count, stored, settingsOk, cond, broken, reboots>>

\* Mutant of NextRetry: the attempts are counted in the arguments of a log
\* message, so a build without that message does not count them.
NextRetry_NotLogged(n) == n
NextRetry(n) == n + 1

\* One i2c_recover_bus: a jammed bus may be freed, and then its gauge answers
\* again; a silent gauge's bus is fine; on the others every attempt fails.
TryRecovery ==
    /\ pc = "recover"
    /\ \/ /\ cond[pack] \in {"jammed", "silent"}
          /\ cond' = IF cond[pack] = "jammed" THEN [cond EXCEPT ![pack] = "good"]
                                              ELSE cond
          /\ err' = FALSE
          /\ pc' = "verdict"
          /\ UNCHANGED retry
       \/ /\ cond[pack] \in {"jammed", "dead", "no_controller"}
          /\ err' = TRUE
          /\ retry' = NextRetry(retry)
          /\ pc' = IF retry' < MAX_I2C_RECOVERY_RETRIES THEN "recover" ELSE "verdict"
          /\ UNCHANGED cond
    /\ UNCHANGED <<pack, rec, rec_count, enabled, stored, settingsOk, broken, reboots>>

\* Mutants of RebootAllowed: one reboot too many, one too few.
RebootAllowed_TooMany == rec <= MAX_RECOVERY_BOOTS
RebootAllowed_TooFew  == rec + 1 < MAX_RECOVERY_BOOTS

\* Another reboot may be spent on this bus.
RebootAllowed == rec < MAX_RECOVERY_BOOTS

\* What recover_bus makes of the attempts: count this boot and reboot, give
\* up, or forget earlier failures.  device_init after it changes nothing
\* here: the pack stays disabled until the next reset.
Verdict ==
    /\ pc = "verdict"
    /\ \/ /\ err /\ RebootAllowed
          /\ StoreRecoveryCount(rec + 1)
          /\ pc' = "assert"
          /\ UNCHANGED pack
       \/ /\ err /\ ~RebootAllowed
          /\ NextPack
          /\ UNCHANGED stored
       \/ /\ ~err /\ rec # 0
          /\ StoreRecoveryCount(0)
          /\ NextPack
       \/ /\ ~err /\ rec = 0
          /\ NextPack
          /\ UNCHANGED stored
    /\ UNCHANGED <<retry, err, rec, rec_count, enabled, settingsOk, cond, broken, reboots>>

\* __ASSERT in recover_bus, half a second after the store: reboot.
AssertRecovered ==
    /\ pc = "assert"
    /\ Restart
    /\ reboots' = IF reboots <= MAX_RECOVERY_BOOTS THEN reboots + 1 ELSE reboots
    /\ UNCHANGED <<stored, cond>>

\* fatal_exit: reboot, without counting.
FatalExit ==
    /\ pc = "fatal"
    /\ Restart
    /\ UNCHANGED <<stored, cond, reboots>>

\* Mutant of Settle: only a count at the limit is cleared.
Settle_AtLimitOnly ==
    /\ pc = "settle"
    /\ pc' = "loop"
    /\ IF rec_count >= MAX_RECOVERY_BOOTS /\ \A p \in Packs : enabled[p]
       THEN StoreRecoveryCount(0) ELSE UNCHANGED stored
    /\ reboots' = 0
    /\ UNCHANGED <<locals, settingsOk, cond, broken>>

\* With both gauges answering, a count left by earlier boots is cleared.
Settle ==
    /\ pc = "settle"
    /\ pc' = "loop"
    /\ IF rec_count # 0 /\ \A p \in Packs : enabled[p]
       THEN StoreRecoveryCount(0) ELSE UNCHANGED stored
    /\ reboots' = 0
    /\ UNCHANGED <<locals, settingsOk, cond, broken>>

Startup == \/ LoadRecoveryCount \/ InitLed \/ CheckGauge \/ TryRecovery
           \/ Verdict \/ AssertRecovered \/ InitHist \/ InitGpios
           \/ FatalExit \/ Settle

\* A reset during start-up, and one of the main loop, before which the
\* hardware's condition may have changed in any way.
ResetInStartup ==
    /\ pc \notin {"fatal", "loop"}
    /\ Restart
    /\ UNCHANGED <<stored, cond, reboots>>
ResetInLoop ==
    /\ pc = "loop"
    /\ Restart
    /\ cond' \in Faults
    /\ UNCHANGED <<stored, reboots>>

Next == Startup \/ ResetInStartup \/ ResetInLoop

Spec     == Init /\ [][Next]_vars
FairSpec == Spec /\ WF_vars(Startup)

-----------------------------------------------------------------------------
(* Properties.                                                             *)

\* The conditions under which the recovery count does its work: at most one
\* pack is at fault, or no recovery can succeed for either.
OneFault ==
    {c \in [Packs -> Conditions] :
        \/ \E p \in Packs : c[p] = "good"
        \/ \A p \in Packs : c[p] \in {"dead", "no_controller"}}

\* batt.c:779 and 819, "Giving up" and "Will stop trying": between two runs of
\* the main loop there are at most MAX_RECOVERY_BOOTS recovery reboots, if the
\* settings partition works.
RebootsBounded == settingsOk => reboots <= MAX_RECOVERY_BOOTS

\* When both gauges answered, the main loop runs with the count cleared, so
\* the next stuck bus has all its reboots again (batt.c:780-783, 916-920).
HealthyBootClearsCount ==
    settingsOk /\ pc = "loop" /\ (\A p \in Packs : enabled[p]) => stored = 0

\* The main loop runs on an unrecovered bus only after every reboot allowed
\* for it has been spent, or when its controller is at fault (batt.c:749-780);
\* a settings partition that fails costs reboots and never saves one.
GivesUpOnlyAtTheLimit ==
    pc = "loop" /\ (\E p \in Packs : ~enabled[p] /\ cond[p] = "dead")
        => stored = MAX_RECOVERY_BOOTS

\* Reboots recover_bus may still ask for before the main loop runs: none once the
\* last faulty pack has its verdict, and one more while one is on its way.
StillToCome ==
    {p \in Packs : /\ cond[p] # "good"
                   /\ \/ p > pack
                      \/ p = pack /\ pc \in {"load", "led", "check", "recover"}
                      \/ p = pack /\ pc = "verdict" /\ err}
BootsLeft ==
    IF pc = "assert" THEN MAX_RECOVERY_BOOTS - stored + 1
    ELSE IF StillToCome # {} THEN MAX_RECOVERY_BOOTS - stored
    ELSE 0

\* Steps to the end of this boot at most: a gauge takes a look, the attempts and a
\* verdict, before both of them come two steps and after them three.
GaugeSteps == MAX_I2C_RECOVERY_RETRIES + 2
AfterPack  == IF pack = 1 THEN GaugeSteps + 3 ELSE 3
StepsLeft ==
    CASE pc = "load"    -> 2 * GaugeSteps + 5
      [] pc = "led"     -> 2 * GaugeSteps + 4
      [] pc = "check"   -> GaugeSteps + AfterPack
      [] pc = "recover" -> MAX_I2C_RECOVERY_RETRIES + 2 - retry + AfterPack
      [] pc = "verdict" -> 1 + AfterPack
      [] pc = "hist"    -> 3
      [] pc = "gpio"    -> 2
      [] pc = "settle"  -> 1
      [] OTHER          -> 0

\* Every step of start-up that no broken part ends brings the main loop closer: a
\* boot takes no more than 2 * MAX_I2C_RECOVERY_RETRIES + 9 steps, and at its end
\* there is one reboot less to come.  With a settings partition that works the loop
\* is so reached after MAX_RECOVERY_BOOTS reboots at the latest, however often and
\* by whichever gauge recovery is tried (batt.c:743-783, 836-920).
MainLoopComesCloser ==
    [][Startup /\ settingsOk /\ pc # "fatal" /\ pc' # "fatal"
         => /\ BootsLeft' >= 0 /\ StepsLeft' >= 0
            /\ \/ BootsLeft' < BootsLeft
               \/ BootsLeft' = BootsLeft /\ StepsLeft' < StepsLeft]_vars

\* batt.c:120: "tolerate hardware failures on everything not essential to
\* controlling heaters": with a settings partition that works, and unless resets
\* or a part that stays broken keep interrupting start-up, the main loop is
\* always reached again.
MainLoopReached ==
    settingsOk /\ <>[][~ResetInStartup]_vars /\ <>[](broken = {}) => []<>(pc = "loop")
=============================================================================
