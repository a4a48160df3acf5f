----------------------------- MODULE NvRamProofs -----------------------------
(***************************************************************************)
(* Proofs about NvRam, for every set of settings and every number of polls. *)
(***************************************************************************)
EXTENDS NvRam, FiniteSetTheorems, TLAPS

-----------------------------------------------------------------------------
(* The inductive invariant.                                                *)

BeforeRestart == {"clear_error", "copy", "check", "clear", "command"}
Resetting     == {"clear", "command", "poll", "clear_again", "firmware", "poll_again"}
Between       == {"idle", "ask", "writes_left"}

\* TypeOK, its ranges named: the provers need not look into them.
PollCounts  == 0 .. MaxPolls - 1
WriteCounts == 0 .. NvWrites

TypeInv ==
    /\ call \in Calls
    /\ check_count \in PollCounts
    /\ program \in BOOLEAN
    /\ left \in WriteCounts
    /\ outcome \in Outcomes
    /\ nv \in Settings /\ shadow \in Settings /\ active \in Settings
    /\ por \in BOOLEAN
    /\ nvError \in BOOLEAN
    /\ restart \in {"no", "hardware", "firmware"}
    /\ copies \in WriteCounts
    /\ wanted \in Settings
    /\ stale \in BOOLEAN
    /\ lost \in BOOLEAN

\* Nothing is left over from an earlier call.
CallInv ==
    /\ call # "idle" => outcome = "none" /\ left = 0
    /\ call \in Between => program = FALSE

\* The restart a call waits for is its own, and loads NV memory.
RestartInv ==
    ~stale =>
       /\ call \in BeforeRestart => restart = "no"
       /\ call = "poll" => restart \in {"no", "hardware"}
       /\ call \in {"command", "poll"} /\ por => Loaded
       /\ call \in {"clear_again", "firmware", "poll_again"} => Loaded
       /\ outcome \in {"reset", "programmed"} => Loaded

\* What nv_program found in shadow RAM is on its way to NV memory, then there.
ProgramInv ==
    ~stale /\ ~lost =>
       /\ call \in {"clear_error", "copy"} => shadow = wanted
       /\ call = "check" /\ ~nvError => nv = wanted
       /\ call \in Resetting /\ program => nv = wanted
       /\ outcome = "programmed" => nv = wanted

\* The number of copies left that was read is the gauge's.
CopiesInv ==
    ~lost =>
       /\ left > 0 => copies < NvWrites
       /\ call = "clear_error" => copies < NvWrites

NvInv == TypeInv /\ CallInv /\ RestartInv /\ ProgramInv /\ CopiesInv

LEMMA WritesLeftIsThat ==
    ASSUME NEW n \in 0 .. NvWrites
    PROVE  WritesLeft(0 .. n - 1) = NvWrites - n
<1>1. (0 .. n - 1) \cap (0 .. 7) = 0 .. n - 1
  BY DEF NvWrites
<1>2. Cardinality(0 .. n - 1) = n
  <2>1. CASE n = 0
    <3>1. 0 .. n - 1 = {}
      BY <2>1
    <3> QED
      BY <2>1, <3>1, FS_EmptySet
  <2>2. CASE n > 0
    <3>1. 0 \in Int /\ n - 1 \in Int /\ 0 <= n - 1
      BY <2>2 DEF NvWrites
    <3>2. Cardinality(0 .. n - 1) = (n - 1) - 0 + 1
      BY <3>1, FS_Interval
    <3> QED
      BY <3>1, <3>2
  <2> QED
    BY <2>1, <2>2 DEF NvWrites
<1>3. (IF n < NvWrites THEN NvWrites - n ELSE 0) = NvWrites - n
  BY DEF NvWrites
<1> QED
  BY <1>1, <1>2, <1>3 DEF WritesLeft

LEMMA TypeOKIsTypeInv == TypeOK <=> TypeInv
BY DEF TypeOK, TypeInv, PollCounts, WriteCounts

LEMMA CountsAre ==
    /\ 0 \in PollCounts
    /\ \A n \in PollCounts : n + 1 # MaxPolls => n + 1 \in PollCounts
    /\ 0 \in WriteCounts /\ NvWrites - 1 \in WriteCounts
    /\ \A n \in WriteCounts : n < NvWrites => n + 1 \in WriteCounts
    /\ \A n \in WriteCounts : NvWrites - n \in WriteCounts
<1>1. 0 \in PollCounts
  BY MaxPollsAssumption DEF PollCounts
<1>2. \A n \in PollCounts : n + 1 # MaxPolls => n + 1 \in PollCounts
  BY MaxPollsAssumption DEF PollCounts
<1>3. 0 \in WriteCounts /\ NvWrites - 1 \in WriteCounts
  BY DEF WriteCounts, NvWrites
<1>4. \A n \in WriteCounts : n < NvWrites => n + 1 \in WriteCounts
  BY DEF WriteCounts, NvWrites
<1>5. \A n \in WriteCounts : NvWrites - n \in WriteCounts
  BY DEF WriteCounts, NvWrites
<1> QED
  BY <1>1, <1>2, <1>3, <1>4, <1>5

LEMMA ReadWritesLeftReads ==
    ASSUME TypeInv, ReadWritesLeft
    PROVE  /\ left' \in WriteCounts
           /\ ~lost' => (left' > 0 => copies' < NvWrites)
<1>1. \/ left' = NvWrites - copies /\ copies' = copies
      \/ lost' /\ left' \in WriteCounts
  <2>1. WritesLeft(0 .. copies - 1) = NvWrites - copies
    BY WritesLeftIsThat DEF TypeInv, WriteCounts
  <2> QED
    BY <2>1 DEF ReadWritesLeft, Reads, ReadFails, Return, WriteCounts, TypeInv, gauge
<1>2. \A n \in WriteCounts : NvWrites - n > 0 => n < NvWrites
  BY DEF WriteCounts, NvWrites
<1>3. copies \in WriteCounts
  BY DEF TypeInv
<1> QED
  BY <1>1, <1>2, <1>3, CountsAre

LEMMA NvInvInit == NvInit => NvInv
<1> SUFFICES ASSUME NvInit PROVE NvInv
  OBVIOUS
<1>1. TypeInv
  BY CountsAre DEF NvInit, TypeInv, Calls, Outcomes
<1>2. CallInv /\ RestartInv /\ ProgramInv /\ CopiesInv
  BY DEF NvInit, CallInv, RestartInv, ProgramInv, CopiesInv, Between, BeforeRestart,
         Resetting, Loaded
<1> QED
  BY <1>1, <1>2 DEF NvInv

\* Every variable keeps its type.
LEMMA TypeInvNext == NvInv /\ [NvNext]_nvVars => TypeInv'
<1> SUFFICES ASSUME NvInv, [NvNext]_nvVars
             PROVE  TypeInv'
  OBVIOUS
<1> USE DEF NvInv, nvVars, gauge, driver, history
<1>1. CASE Ask
  BY <1>1, CountsAre DEF Ask, WriteOrFail, Acknowledged, Failed, Go, Return,
       TypeInv, Calls, Outcomes
<1>2. CASE ReadWritesLeft
  <2>1. left' \in WriteCounts
    BY <1>2, ReadWritesLeftReads
  <2>2. CASE ReadFails /\ Return("error")
    BY <2>2, CountsAre DEF ReadFails, Return, TypeInv, Calls, Outcomes
  <2>3. CASE /\ Reads
             /\ call' = "idle"
             /\ UNCHANGED <<check_count, program, outcome, wanted>>
    BY <2>1, <2>3, CountsAre DEF Reads, TypeInv, Calls, Outcomes
  <2> QED
    BY <1>2, <2>2, <2>3 DEF ReadWritesLeft
<1>3. CASE ClearError
  BY <1>3, CountsAre DEF ClearError, WriteOrFail, Acknowledged, Failed, Go, Return,
       ClearNvError, TypeInv, Calls, Outcomes
<1>4. CASE Copy
  BY <1>4, CountsAre DEF Copy, WriteOrFail, Acknowledged, Failed, Go, Return,
       BlockCopy, TypeInv, Calls, Outcomes
<1>5. CASE CheckError
  BY <1>5, CountsAre DEF CheckError, CopyFailed, Reads, ReadFails, Go, Return,
       TypeInv, Calls, Outcomes
<1>6. CASE Clear
  BY <1>6, CountsAre DEF Clear, ClearPor, ClearStatus, Go, TypeInv, Calls, Outcomes
<1>7. CASE Command
  BY <1>7, CountsAre DEF Command, WriteOrFail, Acknowledged, Failed, Go, Return,
       StartHardware, StartRestart, TypeInv, Calls, Outcomes
<1>8. CASE Poll
  BY <1>8, CountsAre DEF Poll, PollStatus, Reads, ReadFails, Return, LastCheck,
       NextCheck, TypeInv, Calls, Outcomes
<1>9. CASE ClearAgain
  BY <1>9, CountsAre DEF ClearAgain, ClearPor, ClearStatus, Go, TypeInv, Calls,
       Outcomes
<1>10. CASE Firmware
  BY <1>10, CountsAre DEF Firmware, WriteOrFail, Acknowledged, Failed, Go, Return,
       StartFirmware, StartRestart, TypeInv, Calls, Outcomes
<1>11. CASE PollAgain
  BY <1>11, CountsAre DEF PollAgain, PollStatus, Reads, ReadFails, Return,
       LastCheck, NextCheck, TypeInv, Calls, Outcomes
<1>12. CASE SettingsWritten
  BY <1>12, CountsAre DEF SettingsWritten, WriteShadow, TypeInv, Calls, Outcomes
<1>13. CASE FirmwareReset
  BY <1>13, CountsAre DEF FirmwareReset, StartFirmware, StartRestart, TypeInv,
       Calls, Outcomes
<1>14. CASE HardwareReset
  BY <1>14, CountsAre DEF HardwareReset, TypeInv, Calls, Outcomes
<1>15. CASE Prompt
  BY <1>15, CountsAre DEF Prompt, TypeInv, Calls, Outcomes
<1>16. CASE NvProgram
  BY <1>16, CountsAre DEF NvProgram, TypeInv, Calls, Outcomes
<1>17. CASE Restarts
  BY <1>17 DEF Restarts, TypeInv, Calls, Outcomes
<1>18. CASE PowerLoss
  BY <1>18 DEF PowerLoss, TypeInv, Calls, Outcomes
<1>19. CASE UNCHANGED nvVars
  BY <1>19 DEF TypeInv, Calls, Outcomes, Resetting
<1> QED
  BY <1>1, <1>2, <1>3, <1>4, <1>5, <1>6, <1>7, <1>8, <1>9, <1>10, <1>11, <1>12,
     <1>13, <1>14, <1>15, <1>16, <1>17, <1>18, <1>19 DEF NvNext, Step

\* A call that ends leaves nothing behind.
LEMMA CallInvNext == NvInv /\ [NvNext]_nvVars => CallInv'
<1> SUFFICES ASSUME NvInv, [NvNext]_nvVars
             PROVE  CallInv'
  OBVIOUS
<1> USE DEF NvInv, nvVars, gauge, driver, history
<1>1. CASE Ask
  BY <1>1 DEF Ask, WriteOrFail, Acknowledged, Failed, Go, Return, CallInv, Between
<1>2. CASE ReadWritesLeft
  BY <1>2 DEF ReadWritesLeft, Reads, ReadFails, Return, CallInv, Between
<1>3. CASE ClearError
  BY <1>3 DEF ClearError, WriteOrFail, Acknowledged, Failed, Go, Return,
       ClearNvError, CallInv, Between
<1>4. CASE Copy
  BY <1>4 DEF Copy, WriteOrFail, Acknowledged, Failed, Go, Return, BlockCopy,
       CallInv, Between
<1>5. CASE CheckError
  BY <1>5 DEF CheckError, CopyFailed, Reads, ReadFails, Go, Return, CallInv, Between
<1>6. CASE Clear
  BY <1>6 DEF Clear, ClearPor, ClearStatus, Go, CallInv, Between
<1>7. CASE Command
  BY <1>7 DEF Command, WriteOrFail, Acknowledged, Failed, Go, Return, StartHardware,
       StartRestart, CallInv, Between
<1>8. CASE Poll
  BY <1>8 DEF Poll, PollStatus, Reads, ReadFails, Return, LastCheck, NextCheck,
       CallInv, Between
<1>9. CASE ClearAgain
  BY <1>9 DEF ClearAgain, ClearPor, ClearStatus, Go, CallInv, Between
<1>10. CASE Firmware
  BY <1>10 DEF Firmware, WriteOrFail, Acknowledged, Failed, Go, Return,
       StartFirmware, StartRestart, CallInv, Between
<1>11. CASE PollAgain
  BY <1>11 DEF PollAgain, PollStatus, Reads, ReadFails, Return, LastCheck,
       NextCheck, CallInv, Between
<1>12. CASE SettingsWritten
  BY <1>12 DEF SettingsWritten, WriteShadow, CallInv, Between
<1>13. CASE FirmwareReset
  BY <1>13 DEF FirmwareReset, StartFirmware, StartRestart, CallInv, Between
<1>14. CASE HardwareReset
  BY <1>14 DEF HardwareReset, CallInv, Between
<1>15. CASE Prompt
  BY <1>15 DEF Prompt, CallInv, Between
<1>16. CASE NvProgram
  BY <1>16 DEF NvProgram, CallInv, Between
<1>17. CASE Restarts
  BY <1>17 DEF Restarts, CallInv, Between
<1>18. CASE PowerLoss
  BY <1>18 DEF PowerLoss, CallInv, Between
<1>19. CASE UNCHANGED nvVars
  BY <1>19 DEF CallInv, Between, Resetting
<1> QED
  BY <1>1, <1>2, <1>3, <1>4, <1>5, <1>6, <1>7, <1>8, <1>9, <1>10, <1>11, <1>12,
     <1>13, <1>14, <1>15, <1>16, <1>17, <1>18, <1>19 DEF NvNext, Step

\* The POR bit is the bit of the restart that is waited for.
LEMMA RestartInvNext == NvInv /\ [NvNext]_nvVars => RestartInv'
<1> SUFFICES ASSUME NvInv, [NvNext]_nvVars
             PROVE  RestartInv'
  OBVIOUS
<1> USE DEF NvInv, nvVars, gauge, driver, history
<1>1. CASE Ask
  BY <1>1 DEF Ask, WriteOrFail, Acknowledged, Failed, Go, Return, RestartInv,
       CallInv, BeforeRestart, Loaded
<1>2. CASE ReadWritesLeft
  BY <1>2 DEF ReadWritesLeft, Reads, ReadFails, Return, RestartInv, CallInv,
       BeforeRestart, Loaded
<1>3. CASE ClearError
  BY <1>3 DEF ClearError, WriteOrFail, Acknowledged, Failed, Go, Return,
       ClearNvError, RestartInv, CallInv, BeforeRestart, Loaded
<1>4. CASE Copy
  BY <1>4 DEF Copy, WriteOrFail, Acknowledged, Failed, Go, Return, BlockCopy,
       RestartInv, CallInv, BeforeRestart, Loaded
<1>5. CASE CheckError
  BY <1>5 DEF CheckError, CopyFailed, Reads, ReadFails, Go, Return, RestartInv,
       CallInv, BeforeRestart, Loaded
<1>6. CASE Clear
  BY <1>6 DEF Clear, ClearPor, ClearStatus, Go, RestartInv, CallInv, BeforeRestart,
       Loaded
<1>7. CASE Command
  BY <1>7 DEF Command, WriteOrFail, Acknowledged, Failed, Go, Return, StartHardware,
       StartRestart, RestartInv, CallInv, BeforeRestart, Loaded
<1>8. CASE Poll
  BY <1>8 DEF Poll, PollStatus, Reads, ReadFails, Return, LastCheck, NextCheck,
       RestartInv, CallInv, BeforeRestart, Loaded
<1>9. CASE ClearAgain
  BY <1>9 DEF ClearAgain, ClearPor, ClearStatus, Go, RestartInv, CallInv,
       BeforeRestart, Loaded
<1>10. CASE Firmware
  BY <1>10 DEF Firmware, WriteOrFail, Acknowledged, Failed, Go, Return,
       StartFirmware, StartRestart, RestartInv, CallInv, BeforeRestart, Loaded
<1>11. CASE PollAgain
  BY <1>11 DEF PollAgain, PollStatus, Reads, ReadFails, Return, LastCheck,
       NextCheck, RestartInv, CallInv, BeforeRestart, Loaded
<1>12. CASE SettingsWritten
  BY <1>12 DEF SettingsWritten, WriteShadow, RestartInv, CallInv, BeforeRestart,
       Loaded
<1>13. CASE FirmwareReset
  BY <1>13 DEF FirmwareReset, StartFirmware, StartRestart, RestartInv, CallInv,
       BeforeRestart, Loaded
<1>14. CASE HardwareReset
  BY <1>14 DEF HardwareReset, RestartInv, CallInv, BeforeRestart, Loaded
<1>15. CASE Prompt
  BY <1>15 DEF Prompt, RestartInv, CallInv, BeforeRestart, Loaded
<1>16. CASE NvProgram
  BY <1>16 DEF NvProgram, RestartInv, CallInv, BeforeRestart, Loaded
<1>17. CASE Restarts
  BY <1>17 DEF Restarts, RestartInv, CallInv, BeforeRestart, Loaded
<1>18. CASE PowerLoss
  BY <1>18 DEF PowerLoss, RestartInv, CallInv, BeforeRestart, Loaded
<1>19. CASE UNCHANGED nvVars
  BY <1>19 DEF RestartInv, CallInv, BeforeRestart, Loaded, Resetting
<1> QED
  BY <1>1, <1>2, <1>3, <1>4, <1>5, <1>6, <1>7, <1>8, <1>9, <1>10, <1>11, <1>12,
     <1>13, <1>14, <1>15, <1>16, <1>17, <1>18, <1>19 DEF NvNext, Step

\* What is programmed is what was found in shadow RAM.
LEMMA ProgramInvNext == NvInv /\ [NvNext]_nvVars => ProgramInv'
<1> SUFFICES ASSUME NvInv, [NvNext]_nvVars
             PROVE  ProgramInv'
  OBVIOUS
<1> USE DEF NvInv, nvVars, gauge, driver, history
<1>1. CASE Ask
  BY <1>1 DEF Ask, WriteOrFail, Acknowledged, Failed, Go, Return, ProgramInv,
       RestartInv, CallInv, BeforeRestart, Between, Resetting, Loaded
<1>2. CASE ReadWritesLeft
  BY <1>2 DEF ReadWritesLeft, Reads, ReadFails, Return, ProgramInv, RestartInv,
       CallInv, BeforeRestart, Between, Resetting, Loaded
<1>3. CASE ClearError
  BY <1>3 DEF ClearError, WriteOrFail, Acknowledged, Failed, Go, Return,
       ClearNvError, ProgramInv, RestartInv, CallInv, BeforeRestart, Between,
       Resetting, Loaded
<1>4. CASE Copy
  BY <1>4 DEF Copy, WriteOrFail, Acknowledged, Failed, Go, Return, BlockCopy,
       ProgramInv, RestartInv, CallInv, BeforeRestart, Between, Resetting, Loaded
<1>5. CASE CheckError
  BY <1>5 DEF CheckError, CopyFailed, Reads, ReadFails, Go, Return, ProgramInv,
       RestartInv, CallInv, BeforeRestart, Between, Resetting, Loaded
<1>6. CASE Clear
  BY <1>6 DEF Clear, ClearPor, ClearStatus, Go, ProgramInv, RestartInv, CallInv,
       BeforeRestart, Between, Resetting, Loaded
<1>7. CASE Command
  BY <1>7 DEF Command, WriteOrFail, Acknowledged, Failed, Go, Return, StartHardware,
       StartRestart, ProgramInv, RestartInv, CallInv, BeforeRestart, Between,
       Resetting, Loaded
<1>8. CASE Poll
  BY <1>8 DEF Poll, PollStatus, Reads, ReadFails, Return, LastCheck, NextCheck,
       ProgramInv, RestartInv, CallInv, BeforeRestart, Between, Resetting, Loaded
<1>9. CASE ClearAgain
  BY <1>9 DEF ClearAgain, ClearPor, ClearStatus, Go, ProgramInv, RestartInv,
       CallInv, BeforeRestart, Between, Resetting, Loaded
<1>10. CASE Firmware
  BY <1>10 DEF Firmware, WriteOrFail, Acknowledged, Failed, Go, Return,
       StartFirmware, StartRestart, ProgramInv, RestartInv, CallInv, BeforeRestart,
       Between, Resetting, Loaded
<1>11. CASE PollAgain
  BY <1>11 DEF PollAgain, PollStatus, Reads, ReadFails, Return, LastCheck,
       NextCheck, ProgramInv, RestartInv, CallInv, BeforeRestart, Between,
       Resetting, Loaded
<1>12. CASE SettingsWritten
  BY <1>12 DEF SettingsWritten, WriteShadow, ProgramInv, RestartInv, CallInv,
       BeforeRestart, Between, Resetting, Loaded
<1>13. CASE FirmwareReset
  BY <1>13 DEF FirmwareReset, StartFirmware, StartRestart, ProgramInv, RestartInv,
       CallInv, BeforeRestart, Between, Resetting, Loaded
<1>14. CASE HardwareReset
  BY <1>14 DEF HardwareReset, ProgramInv, RestartInv, CallInv, BeforeRestart,
       Between, Resetting, Loaded
<1>15. CASE Prompt
  BY <1>15 DEF Prompt, ProgramInv, RestartInv, CallInv, BeforeRestart, Between,
       Resetting, Loaded
<1>16. CASE NvProgram
  BY <1>16 DEF NvProgram, ProgramInv, RestartInv, CallInv, BeforeRestart, Between,
       Resetting, Loaded
<1>17. CASE Restarts
  BY <1>17 DEF Restarts, ProgramInv, RestartInv, CallInv, BeforeRestart, Between,
       Resetting, Loaded
<1>18. CASE PowerLoss
  BY <1>18 DEF PowerLoss, ProgramInv, RestartInv, CallInv, BeforeRestart, Between,
       Resetting, Loaded
<1>19. CASE UNCHANGED nvVars
  BY <1>19 DEF ProgramInv, RestartInv, CallInv, BeforeRestart, Between, Resetting,
       Loaded
<1> QED
  BY <1>1, <1>2, <1>3, <1>4, <1>5, <1>6, <1>7, <1>8, <1>9, <1>10, <1>11, <1>12,
     <1>13, <1>14, <1>15, <1>16, <1>17, <1>18, <1>19 DEF NvNext, Step

\* The copies left are read before they are used.
LEMMA CopiesInvNext == NvInv /\ [NvNext]_nvVars => CopiesInv'
<1> SUFFICES ASSUME NvInv, [NvNext]_nvVars
             PROVE  CopiesInv'
  OBVIOUS
<1> USE DEF NvInv, nvVars, gauge, driver, history
<1>1. CASE Ask
  BY <1>1 DEF Ask, WriteOrFail, Acknowledged, Failed, Go, Return, CopiesInv, CallInv
<1>2. CASE ReadWritesLeft
  BY <1>2, ReadWritesLeftReads DEF ReadWritesLeft, Reads, ReadFails, Return,
       CopiesInv, CallInv
<1>3. CASE ClearError
  BY <1>3 DEF ClearError, WriteOrFail, Acknowledged, Failed, Go, Return,
       ClearNvError, CopiesInv, CallInv
<1>4. CASE Copy
  <2>1. left' = 0 /\ call' # "clear_error"
    BY <1>4 DEF Copy, WriteOrFail, Go, Return, CallInv
  <2>2. ~(0 > 0)
    OBVIOUS
  <2> QED
    BY <2>1, <2>2 DEF CopiesInv
<1>5. CASE CheckError
  BY <1>5 DEF CheckError, CopyFailed, Reads, ReadFails, Go, Return, CopiesInv,
       CallInv
<1>6. CASE Clear
  BY <1>6 DEF Clear, ClearPor, ClearStatus, Go, CopiesInv, CallInv
<1>7. CASE Command
  BY <1>7 DEF Command, WriteOrFail, Acknowledged, Failed, Go, Return, StartHardware,
       StartRestart, CopiesInv, CallInv
<1>8. CASE Poll
  BY <1>8 DEF Poll, PollStatus, Reads, ReadFails, Return, LastCheck, NextCheck,
       CopiesInv, CallInv
<1>9. CASE ClearAgain
  BY <1>9 DEF ClearAgain, ClearPor, ClearStatus, Go, CopiesInv, CallInv
<1>10. CASE Firmware
  BY <1>10 DEF Firmware, WriteOrFail, Acknowledged, Failed, Go, Return,
       StartFirmware, StartRestart, CopiesInv, CallInv
<1>11. CASE PollAgain
  BY <1>11 DEF PollAgain, PollStatus, Reads, ReadFails, Return, LastCheck,
       NextCheck, CopiesInv, CallInv
<1>12. CASE SettingsWritten
  BY <1>12 DEF SettingsWritten, WriteShadow, CopiesInv, CallInv
<1>13. CASE FirmwareReset
  BY <1>13 DEF FirmwareReset, StartFirmware, StartRestart, CopiesInv, CallInv
<1>14. CASE HardwareReset
  BY <1>14 DEF HardwareReset, CopiesInv, CallInv
<1>15. CASE Prompt
  BY <1>15 DEF Prompt, CopiesInv, CallInv
<1>16. CASE NvProgram
  BY <1>16 DEF NvProgram, CopiesInv, CallInv
<1>17. CASE Restarts
  BY <1>17 DEF Restarts, CopiesInv, CallInv
<1>18. CASE PowerLoss
  BY <1>18 DEF PowerLoss, CopiesInv, CallInv
<1>19. CASE UNCHANGED nvVars
  BY <1>19 DEF CopiesInv, CallInv, Resetting
<1> QED
  BY <1>1, <1>2, <1>3, <1>4, <1>5, <1>6, <1>7, <1>8, <1>9, <1>10, <1>11, <1>12,
     <1>13, <1>14, <1>15, <1>16, <1>17, <1>18, <1>19 DEF NvNext, Step

LEMMA NvInvHolds == NvSpec => []NvInv
<1>1. NvInv /\ [NvNext]_nvVars => NvInv'
  BY TypeInvNext, CallInvNext, RestartInvNext, ProgramInvNext, CopiesInvNext DEF NvInv
<1> QED
  BY <1>1, NvInvInit, PTL DEF NvSpec

-----------------------------------------------------------------------------
(* The theorems.                                                           *)

\* Every variable of NvRam keeps its type; the polls never exceed their limit.
THEOREM TypeOKHolds == NvSpec => []TypeOK
<1>1. NvInv => TypeOK
  BY TypeOKIsTypeInv DEF NvInv
<1> QED
  BY <1>1, NvInvHolds, PTL

\* After a hardware reset that reports success the gauge runs on its NV memory, unless
\* a restart from before could be taken for it (max17205.c:430-495).
THEOREM ResetIsHonestHolds == NvSpec => []ResetIsHonest
<1>1. NvInv => ResetIsHonest
  BY DEF NvInv, RestartInv, ResetIsHonest
<1> QED
  BY <1>1, NvInvHolds, PTL

\* Programming that reports success has put the settings found in shadow RAM into NV
\* memory, unless an access was lost (max17205.c:345-398).
THEOREM ProgramIsHonestHolds == NvSpec => []ProgramIsHonest
<1>1. NvInv => ProgramIsHonest
  BY DEF NvInv, RestartInv, ProgramInv, ProgramIsHonest, Loaded
<1> QED
  BY <1>1, NvInvHolds, PTL

\* Programming is offered only while the gauge can be programmed (calib.c:34-60,
\* max17205.c:313-340).
THEOREM ProgramsOnlyWithCopiesLeftHolds == NvSpec => []ProgramsOnlyWithCopiesLeft
<1>1. NvInv => ProgramsOnlyWithCopiesLeft
  BY DEF NvInv, CopiesInv, ProgramsOnlyWithCopiesLeft
<1> QED
  BY <1>1, NvInvHolds, PTL

\* A call takes no more bus transfers than it has left, and none is ever added to it:
\* what CallReturns rests on (max17205.c:345-495).
THEOREM CallIsBoundedHolds == NvSpec => CallIsBounded
<1> DEFINE Bounded == /\ Step => TransfersLeft' >= 0 /\ TransfersLeft' < TransfersLeft
                      /\ call # "idle" => TransfersLeft' <= TransfersLeft
<1>1. NvInv /\ NvInv' /\ [NvNext]_nvVars => [Bounded]_nvVars
  <2> SUFFICES ASSUME NvInv, NvInv', NvNext
               PROVE  Bounded
    OBVIOUS
  <2>1. /\ MaxPolls \in Nat /\ MaxPolls > 0
        /\ check_count \in Nat /\ check_count < MaxPolls
        /\ check_count' \in Nat /\ check_count' < MaxPolls
    BY MaxPollsAssumption DEF NvInv, TypeInv, PollCounts
  <2>2. call \in Calls /\ call' \in Calls
    BY DEF NvInv, TypeInv
  <2>3. TransfersLeft \in Nat /\ TransfersLeft' \in Nat
    BY <2>1, <2>2 DEF TransfersLeft, Calls
  <2>4. ASSUME Step PROVE TransfersLeft' < TransfersLeft
    <3>1. \/ call' = "idle" /\ call # "idle"
          \/ call = "ask" /\ call' = "writes_left"
          \/ call = "clear_error" /\ call' = "copy"
          \/ call = "copy" /\ call' = "check"
          \/ call = "check" /\ call' = "clear"
          \/ call = "clear" /\ call' = "command"
          \/ call = "command" /\ call' = "poll"
          \/ call = "poll" /\ call' = "poll" /\ check_count' = check_count + 1
          \/ call = "poll" /\ call' = "clear_again"
          \/ call = "clear_again" /\ call' = "firmware"
          \/ call = "firmware" /\ call' = "poll_again"
          \/ call = "poll_again" /\ call' = "poll_again" /\ check_count' = check_count + 1
      BY <2>4 DEF Step, Ask, ReadWritesLeft, ClearError, Copy, CheckError, Clear, Command,
                  Poll, ClearAgain, Firmware, PollAgain, WriteOrFail, ClearPor, PollStatus,
                  Go, Return, NextCheck
    <3> QED
      BY <2>1, <2>2, <3>1 DEF TransfersLeft, Calls
  <2>5. ASSUME ~Step, call # "idle" PROVE TransfersLeft' = TransfersLeft
    <3>1. UNCHANGED <<call, check_count>>
      BY <2>5 DEF NvNext, SettingsWritten, FirmwareReset, HardwareReset, Prompt, NvProgram,
                  Restarts, PowerLoss, driver
    <3> QED
      BY <3>1 DEF TransfersLeft
  <2> QED
    BY <2>3, <2>4, <2>5
<1>2. [][Bounded]_nvVars <=> CallIsBounded
  BY PTL DEF CallIsBounded
<1> HIDE DEF Bounded
<1> QED
  BY <1>1, <1>2, NvInvHolds, PTL DEF NvSpec
==============================================================================
