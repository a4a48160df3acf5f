-------------------------------- MODULE NvRam --------------------------------
(***************************************************************************)
(* Programming the NV memory of one gauge and resetting it:                *)
(* max17205_read_writes_remaining, max17205_nv_program and                 *)
(* max17205_hardware_reset                                                 *)
(* (src/drivers/sensor/maxim/max17205/max17205.c:313-495), as              *)
(* prompt_nv_write calls them (src/src/calib.c:30-64).                     *)
(*                                                                         *)
(* The gauge restarts some time after the command, and says so by its POR  *)
(* bit.  Any access may fail, with or without an effect, or be acknowledged *)
(* and have none.                                                          *)
(***************************************************************************)
EXTENDS Naturals, FiniteSets

CONSTANTS
    Settings,    \* contents of the gauge's configuration
    MaxPolls     \* status reads before hardware_reset gives up: 20

ASSUME SettingsAssumption == Settings # {}
ASSUME MaxPollsAssumption == MaxPolls \in Nat \ {0}

\* A gauge accepts seven block copies in its life.
NvWrites == 7

VARIABLES
    call,        \* step of the driver's call, "idle" between two
    check_count, \* status reads so far
    program,     \* the reset is the end of a nv_program
    left,        \* num_writes_left in prompt_nv_write
    outcome,     \* what the last call returned, "none" once settings are written
    nv, shadow, active,   \* gauge: as in module Gauge
    por,         \* gauge: the POR bit
    nvError,     \* gauge: CommStat.NVError
    restart,     \* gauge: the restart under way: "no", "hardware" or "firmware"
    copies,      \* gauge: block copies it has done
    wanted,      \* history: shadow RAM as nv_program found it
    stale,       \* history: in this call the POR bit may be one from before
    lost         \* history: an access failed or was lost, or the gauge lost power,
                 \* since prompt_nv_write began

gauge   == <<nv, shadow, active, por, nvError, restart, copies>>
driver  == <<call, check_count, program, left, outcome>>
history == <<wanted, stale, lost>>
nvVars  == <<driver, gauge, history>>

Calls == {"idle", "ask", "writes_left", "clear_error", "copy", "check", "clear",
          "command", "poll", "clear_again", "firmware", "poll_again"}

Outcomes == {"none", "error", "timeout", "reset", "programmed"}

TypeOK ==
    /\ call \in Calls
    /\ check_count \in 0 .. MaxPolls - 1
    /\ program \in BOOLEAN
    /\ left \in 0 .. NvWrites
    /\ outcome \in Outcomes
    /\ nv \in Settings /\ shadow \in Settings /\ active \in Settings
    /\ por \in BOOLEAN
    /\ nvError \in BOOLEAN
    /\ restart \in {"no", "hardware", "firmware"}
    /\ copies \in 0 .. NvWrites
    /\ wanted \in Settings
    /\ stale \in BOOLEAN
    /\ lost \in BOOLEAN

NvInit ==
    /\ call = "idle" /\ check_count = 0 /\ program = FALSE /\ left = 0
    /\ outcome = "none"
    /\ nv \in Settings /\ shadow = nv /\ active = nv
    /\ por = TRUE /\ nvError = FALSE /\ restart = "no" /\ copies \in {0, NvWrites - 1}
    /\ wanted = nv /\ stale = FALSE /\ lost = FALSE

-----------------------------------------------------------------------------
(* The gauge.                                                              *)

\* Mutant of ClearStatus: the POR bit is one that a write of zeros leaves alone.
ClearStatus_Ignored == UNCHANGED gauge
ClearStatus ==
    /\ por' = FALSE
    /\ UNCHANGED <<nv, shadow, active, nvError, restart, copies>>

\* The driver writes the error bit as one; whether that clears it or sets it is the
\* gauge's business.
ClearNvError ==
    /\ nvError' \in BOOLEAN
    /\ UNCHANGED <<nv, shadow, active, por, restart, copies>>

\* The copy is done by the time the driver has waited for it.
BlockCopy ==
    /\ \/ copies < NvWrites /\ nv' = shadow /\ copies' = copies + 1 /\ UNCHANGED nvError
       \/ nvError' = TRUE /\ UNCHANGED <<nv, copies>>
    /\ UNCHANGED <<shadow, active, por, restart>>

StartRestart(kind) ==
    /\ restart' = IF restart = "hardware" THEN restart ELSE kind
    /\ UNCHANGED <<nv, shadow, active, por, nvError, copies>>

StartHardware == StartRestart("hardware")
StartFirmware == StartRestart("firmware")

WriteShadow ==
    /\ shadow' \in Settings
    /\ UNCHANGED <<nv, active, por, nvError, restart, copies>>

\* A hardware restart loads shadow RAM from NV memory first.
Restarts ==
    /\ restart # "no"
    /\ restart' = "no"
    /\ shadow' = IF restart = "hardware" THEN nv ELSE shadow
    /\ active' = shadow'
    /\ por' = TRUE
    /\ UNCHANGED <<nv, nvError, copies, driver, history>>

PowerLoss ==
    /\ restart' = "no"
    /\ shadow' = nv /\ active' = nv
    /\ por' = TRUE
    /\ nvError' = FALSE
    /\ lost' = TRUE
    /\ UNCHANGED <<nv, copies, driver, wanted, stale>>

-----------------------------------------------------------------------------
(* Accesses.  Nothing else touches the gauge during a call.                *)

Acknowledged(Effect) ==
    \/ Effect /\ UNCHANGED lost
    \/ UNCHANGED gauge /\ lost' = TRUE

Failed(Effect) ==
    /\ Effect \/ UNCHANGED gauge
    /\ lost' = TRUE

ReadFails == UNCHANGED <<gauge, stale>> /\ lost' = TRUE
Reads     == UNCHANGED <<gauge, stale, lost>>

Go(next) == call' = next /\ UNCHANGED <<check_count, program, left, outcome, wanted>>

Return(result) ==
    /\ call' = "idle"
    /\ check_count' = 0
    /\ program' = FALSE
    /\ outcome' = result
    /\ UNCHANGED <<left, wanted>>

\* A write whose failure ends the call.
WriteOrFail(step, Effect, next) ==
    /\ call = step
    /\ \/ Acknowledged(Effect) /\ Go(next)
       \/ Failed(Effect) /\ Return("error")
    /\ UNCHANGED stale

-----------------------------------------------------------------------------
(* The calls.                                                              *)

\* nv_ram_write, or anything else that changes shadow RAM between two calls.
SettingsWritten ==
    /\ call = "idle"
    /\ WriteShadow
    /\ outcome' = "none" /\ left' = 0
    /\ UNCHANGED <<call, check_count, program, history>>

\* max17205_firmware_reset on its own.
FirmwareReset ==
    /\ call = "idle"
    /\ StartFirmware
    /\ outcome' = "none" /\ left' = 0
    /\ UNCHANGED <<call, check_count, program, history>>

HardwareReset ==
    /\ call = "idle"
    /\ call' = "clear" /\ outcome' = "none" /\ left' = 0
    /\ stale' = (restart # "no")
    /\ UNCHANGED <<check_count, program, gauge, wanted, lost>>

\* prompt_nv_write.
Prompt ==
    /\ call = "idle"
    /\ call' = "ask" /\ outcome' = "none" /\ left' = 0
    /\ lost' = FALSE
    /\ UNCHANGED <<check_count, program, gauge, wanted, stale>>

Ask == WriteOrFail("ask", UNCHANGED gauge, "writes_left")

\* Mutant of WritesLeft: one copy too many is offered.
WritesLeft_OneMore(bits) ==
    LET set == Cardinality(bits \cap 0 .. 6) IN NvWrites - set + 1
\* One of seven is gone for each bit of the low byte.
WritesLeft(bits) ==
    LET set == Cardinality(bits \cap 0 .. 7) IN
    IF set < NvWrites THEN NvWrites - set ELSE 0

\* The gauge sets one bit more for each copy.  If the command was lost the register
\* holds something else.
ReadWritesLeft ==
    /\ call = "writes_left"
    /\ \/ /\ Reads
          /\ left' = WritesLeft(0 .. copies - 1) \/ (lost /\ left' \in 0 .. NvWrites)
          /\ call' = "idle"
          /\ UNCHANGED <<check_count, program, outcome, wanted>>
       \/ ReadFails /\ Return("error")

\* Somebody at the console has answered 'y'.
NvProgram ==
    /\ call = "idle"
    /\ left > 0
    /\ call' = "clear_error" /\ outcome' = "none" /\ left' = 0
    /\ program' = TRUE
    /\ wanted' = shadow
    /\ stale' = (restart # "no")
    /\ UNCHANGED <<check_count, gauge, lost>>

ClearError == WriteOrFail("clear_error", ClearNvError, "copy")
Copy       == WriteOrFail("copy", BlockCopy, "check")

\* Mutant of CopyFailed: the error bit is not looked at.
CopyFailed_Ignored == FALSE
CopyFailed         == nvError

CheckError ==
    /\ call = "check"
    /\ \/ ReadFails /\ Return("error")
       \/ Reads /\ CopyFailed /\ Return("error")
       \/ Reads /\ ~CopyFailed /\ Go("clear")

\* Failing to clear the POR bit is logged and otherwise ignored.
ClearPor(step, next) ==
    /\ call = step
    /\ \/ ClearStatus /\ UNCHANGED <<stale, lost>>
       \/ UNCHANGED gauge /\ stale' = TRUE /\ lost' = TRUE
    /\ Go(next)

Clear        == ClearPor("clear", "command")
Command      == WriteOrFail("command", StartHardware, "poll")
ClearAgain   == ClearPor("clear_again", "firmware")
Firmware     == WriteOrFail("firmware", StartFirmware, "poll_again")

\* Mutant of NextCheck: the count starts anew before the limit is reached.
NextCheck_StartsAnew == (check_count + 1) % MaxPolls
NextCheck            == check_count + 1

\* Mutant of LastCheck: one read too many.
LastCheck_TooLate == check_count = MaxPolls
LastCheck         == NextCheck = MaxPolls

\* One turn of a polling loop.
PollStatus(step, Restarted) ==
    /\ call = step
    /\ \/ ReadFails /\ Return("error")
       \/ Reads /\ por /\ Restarted
       \/ Reads /\ ~por /\ LastCheck /\ Return("timeout")
       \/ /\ Reads /\ ~por /\ ~LastCheck
          /\ check_count' = NextCheck
          /\ UNCHANGED <<call, program, left, outcome, wanted>>

Poll ==
    PollStatus("poll", /\ call' = "clear_again"
                       /\ check_count' = 0
                       /\ UNCHANGED <<program, left, outcome, wanted>>)
PollAgain ==
    PollStatus("poll_again", Return(IF program THEN "programmed" ELSE "reset"))

Step ==
    \/ Ask \/ ReadWritesLeft
    \/ ClearError \/ Copy \/ CheckError
    \/ Clear \/ Command \/ Poll \/ ClearAgain \/ Firmware \/ PollAgain

NvNext ==
    \/ Step
    \/ SettingsWritten \/ FirmwareReset \/ HardwareReset \/ Prompt \/ NvProgram
    \/ Restarts \/ PowerLoss

NvSpec == NvInit /\ [][NvNext]_nvVars

-----------------------------------------------------------------------------
(* Properties.                                                             *)

Loaded == shadow = nv /\ active = nv

\* After a hardware reset that reports success the gauge runs on its NV memory, if
\* the POR bit really was cleared and no earlier restart was still under way: then
\* the bit the polling loops see is the restart's own, however late it is
\* (max17205.c:430-495).
ResetIsHonest ==
    (outcome \in {"reset", "programmed"} /\ ~stale) => Loaded

\* Programming that reports success has put what shadow RAM held into NV memory and
\* the gauge runs on it, unless an access was lost: the driver does not read the
\* memory back (max17205.c:345-398).
ProgramIsHonest ==
    (outcome = "programmed" /\ ~stale /\ ~lost)
        => nv = wanted /\ shadow = wanted /\ active = wanted

\* Programming is offered only while the gauge can still be programmed
\* (calib.c:34-60, max17205.c:313-340).
ProgramsOnlyWithCopiesLeft ==
    (call = "clear_error" /\ ~lost) => copies < NvWrites

\* Bus transfers the call under way has left at most: the two polling loops, what
\* lies between them, and what comes before.
TransfersLeft ==
    CASE call = "idle"        -> 0
      [] call = "ask"         -> 2
      [] call = "writes_left" -> 1
      [] call = "poll_again"  -> MaxPolls - check_count
      [] call = "firmware"    -> MaxPolls + 1
      [] call = "clear_again" -> MaxPolls + 2
      [] call = "poll"        -> MaxPolls + 2 + MaxPolls - check_count
      [] call = "command"     -> 2 * MaxPolls + 3
      [] call = "clear"       -> 2 * MaxPolls + 4
      [] call = "check"       -> 2 * MaxPolls + 5
      [] call = "copy"        -> 2 * MaxPolls + 6
      [] call = "clear_error" -> 2 * MaxPolls + 7

\* A call takes no more than 2 * MaxPolls + 7 bus transfers, whatever the gauge
\* answers and however often it restarts or loses power meanwhile: each transfer
\* takes one off what is left, and nothing else adds to it before the call is over
\* (max17205.c:345-495).
CallIsBounded ==
    [][/\ Step => TransfersLeft' >= 0 /\ TransfersLeft' < TransfersLeft
       /\ call # "idle" => TransfersLeft' <= TransfersLeft]_nvVars

\* Every call of the driver returns, whatever the gauge does: each step is one bus
\* transfer and a sleep, and the polling loops are bounded (max17205.c:446-489).
CallReturns == call # "idle" ~> call = "idle"
=============================================================================
