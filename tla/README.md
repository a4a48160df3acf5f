# A TLA+ model of the OreSat battery card firmware

The battery card carries two packs of two cells. Each pack has a MAX17205 fuel gauge on an
I2C bus of its own, a heater, and two lines that cut it off from charging and from
discharging. The firmware (Zephyr, C) samples the gauges, publishes what it reads on CANopen,
keeps the packs warm, optionally steers the charge lines, and keeps the packs' capacities in
flash because the card is reset once a day in orbit.

Paths below are relative to the repository; `batt.c` is `src/batt.c` in it, `hist.c` is
`src/hist.c`, and so on.

## 1. Inventory

| Component | State it keeps | Operations | Interacts with |
|---|---|---|---|
| **Battery thread** `batt.c` | `packs[]` (`enabled`, `init`, `updated`, `data`), `num_packs_usable`, heating state, GPIO levels, `batt_event`, `hist_data` | start-up (788-964), the loop (966-1022): sample, publish, charge control, event, heating | gauges (I2C calls that wait), object dictionary (writes), history and settings (flash), calibration thread (`pack_t`, event) |
| **Bus recovery** `batt.c:705-786` | `recovery_count` in the settings partition | load, store, `recover_bus`, reboot by assertion | gauges' I2C controllers; the same count for both packs |
| **Capacity history** `hist.c` | FCB partition, `rst_cycle`, last entry found | `hist_init` (scan), `hist_load_current`, `hist_store_current` | called by the battery thread only |
| **Calibration thread** `calib.c` | none of its own; writes `pack->updated` and capacities | wait for the update event, mark learning complete and set capacities when the pack seems full, prompt for an NV write | reads and writes `packs[]` without a lock; its own gauge accesses |
| **Gauge interface** `max17205_intf.c` | none (the registers are the gauge's) | typed reads, `nv_ram_write`, capacity writes | the driver |
| **Driver** `drivers/.../max17205.c` | the last sampled channel values | `max17205_init`, fetch, get, conversions, `hardware_reset`, NV program | I2C |
| **Emulator** `max17205_emul.c` | a register file | the driver's tests | driver |
| **CAN thread** `can.c` | CANopen stack (a library) | SDO, PDO, NMT | object dictionary |
| **Object dictionary** `objdict/` | one cell per published value | plain writes by the battery thread, reads by the stack | both threads |
| **main, diagnostics** `main.c` | none | hardware info, `k_sys_fatal_error_handler`: cold reboot | everything: any failed `__ASSERT` ends there |

All application threads have priority 0 and are preemptible only by higher ones, so control
passes from one to another where a thread waits: in I2C transfers, sleeps, flash operations
and event waits. A reset (scheduled, watchdog, assertion, power) may come anywhere.

What is hard here, and what makes each part correct:

* **Heaters.** The state machine sets the pins from the state it was in, then updates the
  state; two guards (critically low, failsafe) can skip it. Correct means: on only for a
  reason that was really measured, off in bounded time when charge runs out, neither stuck on
  nor stuck off. Partial failures (some reads of a sample fail) reach both guards.
* **Charge lines.** Driven anew from each sample; a long history must not leave a healthy pack
  cut off or a silent one discharging.
* **Bus recovery.** Reboots counted in flash across resets, with the count shared by both
  packs, loaded at several places and stored at several others. Correct means: bounded
  reboots, every reboot used before giving up, the count cleared by success, and the main
  loop always reached.
* **History.** Append, payload and finish are three flash operations; sectors rotate; a reset
  may come between any two; reads may fail during the scan. Correct means: the newest complete
  entry is in flash and found.
* **Gauge configuration.** The gauge keeps its settings in NV memory, in shadow RAM and in what its
  firmware runs on, and stays powered while the card is reset. Correct means: whatever was cut
  short or failed before, a start-up without failures leaves it running on the whole table, and the
  capacities restored from the history after it last.
* **Calibration thread.** Uses and changes pack data while the battery thread clears and refills it.
  Correct means: only a full pack passes for full, and only a full pack's capacities are set.
* **Driver.** Signed fields, conversions between units and widths, polling loops with a limit,
  multi-step register writes that fail half way. Correct means: what is published is what the
  register says, what is written reads back, and a result that says "done" is true.
* **Emulator.** Takes writes by half of their address; correct means: shows the profile it was built
  with.

`PROJECT.json` lists each hazard at its line with the properties that cover it, or why none
does.

## 2. Modules

| Module | Models | Kind |
|---|---|---|
| `BattLoop` | battery thread: start-up in one step, the sampling loop, charge lines, heating | specification |
| `MCBattHeat`, `MCBattCharge` | readings and failures for its runs | instances for TLC |
| `BattLoopProofs` | types, its safety properties and, of a thread that keeps running, its liveness | proofs |
| `Recovery` | battery thread's start-up step by step: probing, recovery, settings, fatal errors | specification |
| `MCRecovery` | faults for its runs | instances |
| `RecoveryProofs` | types, its safety properties and the variant of start-up | proofs |
| `HistLog` | log entries and the scan as operators | operators |
| `HistScan` | the loop of `hist_find_last` turn by turn, as a recursive function | operators |
| `HistSpec` | what the history promises: one durable record | abstract specification |
| `Hist` | FCB with rotation, three-step stores, resets, faults | specification, refines `HistSpec` |
| `MCHist` | runs of `Hist` | instance |
| `HistProofs` | types, `NewestStaysInFlash`, `ScanFindsNewest`, `FreshCycle`, `ScanIsTheLoop`, refinement | proofs |
| `Gauge` | `max17205_init` and `nv_ram_write` against one gauge, resets of the card and of the gauge | specification |
| `GaugeSpec` | what configuring the gauge promises: settings that only come closer to the table | abstract specification |
| `GaugeProofs` | the properties of `Gauge`, its refinement, and the lemmas `CalibProofs` builds on | proofs |
| `Calib` | extends `Gauge` with the capacities and the learn stage: the battery thread from the history on, and the calibration thread | specification, composes two threads and the gauge |
| `MCCalib` | readings and a constraint for its run | instance |
| `CalibProofs` | all properties of `Calib` | proofs |
| `Convert` | the driver's channels, conversions and encodings, the widths they pass through, the data sheet's meaning | operators |
| `Readings` | one register read and published, or written back | specification |
| `ReadingsProofs` | its two properties, for every register value | proofs |
| `Emulator` | the emulated gauge behind the same channels | actions and operators |
| `NvRam` | writes remaining, NV programming and hardware reset, with a gauge that restarts in its own time | specification |
| `NvRamProofs` | types, its safety properties and the variant of a call | proofs |
| `Driver` | `Readings`, `Emulator` and `NvRam` as one sequence of calls | specification, composes them |
| `MCDriver` | registers at the edges of the conversions | instance |
| `DriverProofs` | the composition implements `NvRam`; its own invariants, with the emulator's | proofs |

`BattLoop.Boot` stands for all of `Recovery` and for the start-up half of `Hist`: it leaves any
subset of the packs enabled, which is what `Recovery` shows can reach the loop. `Gauge` is the part of the
same start-up between the driver's initialisation and the loop, for one pack; its `GivesUp` is what
`Recovery` sees as a device that is not ready. The loop calls
`hist_store_current` once per interval; `Hist` models it as the steps from `StoreBegin` to
`FinishEntry`. `Recovery`, `Hist`, `BattLoop` and `Calib` share no variable: `enabled` and the data are in memory, the count is
in the settings partition, the log in the history partition, the registers in the gauge.

Definitions named `X_Something` next to a definition `X` are mutated forms of it: plausible
mistakes in that piece of the code. Each property is known to fail when one of them takes the
place of `X`; the specification itself never uses them.

### 2.1 BattLoop

| TLA+ | Code |
|---|---|
| `Boot` | `handle_batt` up to the loop: `heaters_on(false)`, GPIO defaults, `check_for_critically_low_batteries` |
| `StartCycle` | the interval that ends a turn of the loop |
| `SamplePack` | `populate_pack_data`, `populate_od_pack_data` if valid, `update_battery_charging_state` |
| `Decide` | `k_event_post`, low-voltage guard, `run_battery_heating_state_machine` |
| `EventReset` | `batt_event_wait` with reset, by another thread |
| `Reset` | any reset |

A sample keeps the five values decisions use: both cells, the cell voltage, the state of charge
and the average temperature. The reads that fail are a *set* (`Failures`), because each read is
attempted whatever happened before; a failed read leaves zero; the second cell is computed,
modulo 2^16, only if nothing before it failed. `last` and `lowEvals` are history variables.
`SamplePack` is one step although its I2C reads wait: what another thread could see in between
is `data`, and no thread modelled here looks at it (the calibration thread does; see the plan).

### 2.2 Recovery

`pc` names the statement the thread is at. `cond` is the hardware's condition per pack:
*good*; *jammed* (recovery may free the bus); *silent* (the bus recovers at once but the gauge
never answers); *dead* (recovery always fails); *no_controller*. The controller check
(`batt.c:749`) looks at the first bus only, so pack 2 without a controller goes through the
retries. `stored` outlives `Restart`; everything else does not. `fatal` collects the parts whose
failure is fatal. `rec_count` is read once, `rec` again per bus, exactly as the code does.

### 2.3 Hist, HistLog, HistSpec

`log` is every entry since the last erasure; sector boundaries and `oldest`/`active` decide which
are still in flash, so an erased sector is not in the code's reach although the sequence still
has it. An entry is *open* until `fcb_append_finish`, *bad* if its payload failed its CRC, *good*
otherwise. `AppendEntry`, `WritePayload`, `FinishEntry`, `NewSector` and `Rotate` are one flash
operation each, with `Crash` between any two. `newest` is a history variable: the position whose
store completed last.

`Scan` is `hist_find_last` in closed form: the last good entry before the first that steps back.
`HistScan` has the loop itself, one `Turn` per entry; `ScanIsTheLoop` says that both find the same entry,
in every log that can arise.

`HistSpec` is the promise to the battery thread: one record, replaced by a later one in one step
or not at all, restored by every start-up. Under the mapping `saved <- ` the key of what a scan
would find now, a store takes effect at exactly one flash operation: `fcb_append_finish`.

FCB is a Zephyr library outside this repository. `Hist` models what `hist.c` relies on: entries in
order, `-ENOSPC` when only scratch space is left, rotation of the oldest sector, unfinished
entries invisible to `fcb_getnext`.

### 2.4 Gauge

| TLA+ | Code |
|---|---|
| `ReadStatus`, `WriteConfig`, `RestartFirmware` | `max17205_init` (driver, 953-1043): POR bit, NPACKCFG from the device tree, firmware reset |
| `Validate`, `WriteRegister`, `Verify`, `Apply` | `nv_ram_write` (`max17205_intf.c:526-571`), one turn of the write loop per step |
| `GivesUp` | an error return of `max17205_init`: `device_is_ready` is false and the pack is disabled. Later calls of `device_init` find the device initialised and do nothing |
| `CardReset`, `PowerLoss`, `GaugePowerLoss` | resets, with the gauge's power kept, lost as well, or lost alone |

`shadow` and `active` hold the entries of `batt_nv_programing_cfg` that have the table's value in
shadow RAM and in the running firmware. Validation reads shadow RAM, a firmware reset copies it.
The device trees of all boards give NPACKCFG the table's value (two cells, 40 mV, flags `0x3e00`), so
`WritePackCfg` is a write of entry 1. A firmware reset is one command and a sleep: reported as failed it may have taken
effect, acknowledged it may have been dropped, and `nv_ram_write` ignores what is reported. The two other registers that the driver writes are not in the
table. A validation is one step: it changes nothing, and a gauge that loses its power meanwhile is
one that loses it just before or just after. `GaugeSpec` is the promise: under the mapping `inUse <- active`,
`sure <- clean`, `phase <- Phase`, the entries the gauge runs on only grow, none changes while the pack is in
service, and a pack that goes into service after no failure runs on all of them; reads, writes to shadow RAM and
validations are stutters or failures there. `clean` is a history variable. That a firmware reset
sets the POR bit again is the data sheet's; the registers' own learning is left out.

### 2.5 Calib

| TLA+ | Code |
|---|---|
| `Configure`, `Restart` | the steps of `Gauge`; a firmware reset that reaches the gauge also estimates its capacities anew and loads the learn stage from shadow RAM |
| `RestoreHistory` | `hist_load_current`, `utilize_pack_hist_data` (`batt.c:940-956`) |
| `StartSample`, `ReadField`, `PostEvent` | `populate_pack_data`, one read that matters here per step, and the event |
| `StoreHistory` | `populate_pack_hist_data`, `hist_store_current` (`batt.c:969-983`) |
| `Check` ... `WriteRepcap` | `update_learning_complete`, one gauge access per step (`calib.c:70-130`) |
| `Finish` | its return into `pack->updated` (`calib.c:158`) |
| `Converge`, `Learn` | the gauge's own algorithm |

Both threads have priority 0, so control passes only inside I2C transfers, sleeps and event waits, and
each step ends at one. A capacity is one of four worths (*zero*, *estimate*, *tracked*, *too high*), a
reading says on which side of each threshold it is. The sample clears `data` first; a cleared
current passes `avg_current_mA < 50 && >= 0`, which is why the order of the reads matters.
`k_event_wait` with reset makes an event that is older than the wait worthless: the event wakes the
thread only if its two minutes of sleep are over. `clean`, `sound` and `missed` are history variables.

The module is the build with `LEARN_COMPLETE_ENABLED`, which needs `DEBUG_PRINT` and
`CONFIG_ENABLE_LEARN_COMPLETE` (`calib.h:15-20`; off by default). In other builds the calibration thread
changes nothing, which is the part of the model's behaviours where `Check` always fails. The intervals are 4 s
for data, 5 min for the history and 2 min for the calibration thread; the model leaves their order
open. The two packs share nothing here, so one is enough.

The learn stage is written to `NLEARNCFG`, in shadow RAM (`max17205.c:864`), and read from `LEARNCFG`, which the
gauge's firmware runs on and which follows only at a firmware reset. So the read-back of
`calib.c:98` sees the old stage, unless the gauge completed its learning at that moment.

### 2.6 Convert, Readings, Emulator

`Register` is `max17205_sample_fetch`, `Converted` is `max17205_channel_get` with the sixteen conversions as
operators of their names, `Field` the type of the pack data's field, `Published` the cell of the object
dictionary. Values keep their widths: `AsUint16`, `AsInt16`, `AsUint8`, `AsInt8` are C's conversions,
`CDiv` truncates toward zero. No product exceeds the 32 bits in which it is computed: the largest,
`32768 * 15625`, `65535 * 5625` and `65535 * 5000`, are below 2^31. The sense resistor is the 10 milliohms of all boards; at 5 the
raw limit `0x1450` would no longer be 2600 mAh. `Meaning` is the data sheet as the driver's comments quote
it, as a fraction; `Faithful` asks for it to less than one unit, or for the nearest end of the cell's range.
Average temperatures are compared below bit 15, because the comment of
`max17205.c:244-247` leaves open what the sign means; with bit 15 set the firmware publishes the lowest value, -128,
whatever the other bits say. The second cell (`ReadCell2`) is the difference of any two registers modulo 2^16, as in
`batt.c:431`, which tests nothing but that the reads succeeded: `Cell2Faithful` says that it is the difference, and by
which turn of 16 bits it is off when the pack reads below its first cell. The channel `V_CELL_2` of the driver, which nothing reads, is left out: the
firmware computes the second cell itself.

`Emulator` puts the profile in place of the register's content. A write reaches the register of the low
byte of its address, because the message carries only that (`max17205_emul.c:159`), while a read carries both bytes
(`max17205.c:43-45` under `CONFIG_ARCH_POSIX`). `Configuration` is every setting and command the firmware writes before it
samples, and may leave anything in the registers it hits. The history's restore comes last (`batt.c:946-952`): `Stored` is
what an earlier run under either profile left in the flash of native_sim, `Restored` the channels it overwrites, MIXCAP and
REPCAP, which then show that profile's capacity (`ShownBy`). The calibration thread writes nothing there: no profile's
pack voltage passes its test for a full pack. One cycle of the profile is 6 units of 16 % and reads back as 0: within the unit the property allows.

### 2.7 NvRam and Driver

`call` is the statement a call is at. The gauge restarts some time after the command (`Restarts`), not during the driver's
sleep, which is what the polling is for. `Acknowledged` and `Failed` are the outcomes of a write: done, or lost;
failed with or without an effect. `prompt_nv_write`'s two driver calls are `Prompt` and `NvProgram`; anybody may
answer `y` as long as `left > 0`. NV programming writes the error bit as 1, and the data sheet is not clear on what
that does, so `ClearNvError` sets or clears it. The POR bit that an earlier restart may still set, or that could
not be cleared, is tracked by `stale`.

`Driver` runs these calls one after the other. Sampling does not depend on the NV memory's state, so
`AsPoweredOn` follows it only on an untouched gauge. The emulator implements no reset: with it every hardware reset
polls to the limit and returns a timeout, which is the case of `Poll` without a `Restarts`.

## 3. Runs

| Run | Instance | Shows |
|---|---|---|
| `heat` | 5 readings (one on each side of every heating threshold and one collapsed cell), 3 failure sets, 3 die temperatures; heaters on, charge control off as in `prj.conf` | `TypeOK`, `LowChargeStopsHeating`, `PublishedHeaterBitIsTrue`, `SwitchOnIsJustified`, `WarmPacksEndHeating`, `ColdPacksGetHeat` |
| `charge` | 5 readings round the charge limits (2999/3000 mV, 4100/4101 mV, 19/20 %), 3 failure sets; charge control on | `IsolatedPackIsSick`, `HealthyPackReconnects`, `DeadGaugeStopsDischarge` |
| `recovery` | 10 boots and 10 retries as in the code, every condition with at most one faulty bus or two that nothing frees, settings that work or not, any one part broken | `TypeOK`, `RebootsBounded`, `HealthyBootClearsCount`, `GivesUpOnlyAtTheLimit`, `MainLoopReached`, `MainLoopComesCloser` |
| `hist` | 2 sectors of 2 entries, 7 appends (two rotations), 2 stores per cycle, 4 cycles, one failed store in a row | `TypeOK`, `ScanFindsNewest`, `FreshCycle`, `ImplementsPromise` |
| `hist_read` | the same with read errors in the scan | `NewestStaysInFlash`, `ScanIsTheLoop` |
| `calib` | a table of 3 entries of which NV memory has 1, a full pack and one being charged | `TypeOK`, `CleanStartApplies`, `NothingUndoesTheTable` and `ImplementsPromise` (of `Gauge`), `SeemsFullOnlyIfFull`, `RestoredCapacityLasts`, `SpoiltOnlyByOverlapOrFailure`, `HistoryLostOnlyByFailure`, `LearnStageTakesEffect`, `ReportsOnlyTheGaugesLearning` |
| `driver` | 57 register values at the edges of both bytes and round the thresholds, all pairs of them for the second cell, 28 channels, 2 profiles with either one's history or none, 4 learn stages; 2 settings, 20 polls, a gauge with seven block copies left or one | `TypeOK`, `PublishedIsFaithful`, `WrittenReadsBack`, `EmulatedProfileReadsBack`, `ResetIsHonest`, `ProgramIsHonest`, `ProgramsOnlyWithCopiesLeft`, `CallReturns`, `CallIsBounded` |
| `failsafe`, `invalid_data`, `two_faults`, `hist_stale`, `max_current` | as above | violations, section 4 |

What the newer runs say, and what they do not:

* A capacity can be *set* too high or to zero, but only by a sample with a failed read or one that begins while the
  calibration thread is at its writes (`SpoiltOnlyByOverlapOrFailure`). Both do happen in the code; the property says that
  nothing else does it. In a valid sample there is no moment at which half-read data passes for a full
  pack (`SeemsFullOnlyIfFull`), because the cleared capacity fails the test and is read after the current.
* `PublishedHeaterBitIsTrue` speaks of packs with a valid sample: an invalid one keeps its bits of before, which may be
  stale. `WarmPacksEndHeating` and `ColdPacksGetHeat` assume that no pack is cold
  while one is warm; mixed packs alternate (section 4).
  `MainLoopReached` excludes a part of start-up that stays broken, which reboots for ever.
* `HistoryLostOnlyByFailure`: one failed read of MIXCAP or REPCAP is stored as zero and supersedes a good value; a pack
  whose gauge never answered keeps its entry.
* `ResetIsHonest` and `ProgramIsHonest` hold under conditions that the driver cannot check: a POR bit from before (`stale`)
  ends the polling early, and a block copy that was acknowledged and not done is reported as success, because nothing
  reads the memory back.

*Why the bounds are enough.* The heating and charging decisions compare with constants, so one
value on each side of a constant stands for all on that side; two packs are what the code
supports (`batt.c:38`). Failures matter through validity, through which voltages are zero and
through the state of charge and temperature: none fails, one fails after the voltages (valid
voltages in an invalid sample), all fail. `Recovery` uses the limits of the code. A history of two
sectors of two entries rotates at the fifth and at the seventh entry, with and without a failed
store in the sector that stays; one failure in a row is the most that `MaxFailures < (Usable - 1) *
SectorCap` allows there. A table of three entries has a first, a middle and a last one, and one that is
already right. In `calib` the constraint `OnTheTable` follows the calibration thread, which knows nothing of the table,
only while the gauge runs on all of it; the proofs do without it. The conversions are linear or look at one
byte, so they go wrong at the ends of a byte, at the sign, or everywhere; the proof of `PublishedIsFaithful` covers every
value. Two settings tell "copied" from "not copied". The proofs cover all sizes.

*Bounds and environment assumptions.* `MaxUptime < 4096` minutes and `MaxCycle < 65536` keep
the entry's `minute` (12 bits) and `rst_cycle` (16 bits) from wrapping; `hist.c:167-170` argues so
from the daily reset. `MaxFailures < (Usable - 1) * SectorCap`: fewer failed stores in a row than
the sectors that stay hold; with more, rotation does erase the newest entry. `MaxEntries` bounds
the log. The hardware's condition changes only while the main loop runs, one condition per
start-up. A failure of `fcb_clear` or of every read is a fatal error that changes nothing in flash:
it is a `Crash` after which `Boot` has not happened. The model's deadlock check is on in all runs.

*Fairness.* `FairSpec` of `BattLoop` has weak fairness of the battery thread: it sleeps with
timeouts, every call it makes returns, and threads of equal priority yield when they wait.
`FairSpec` of `Recovery` has weak fairness of the start-up steps for the same reason, and `DriverSpec` of the
steps of a call: each is a bus transfer and a sleep with a timeout. The gauge's restart and the
operator at the console are not fair. Resets,
faults and other threads' actions are never fair. `MainLoopReached` says "unless resets keep
interrupting start-up", with settings that work and no other part that stays broken. The liveness properties of the heaters assume that conditions last
(`<>[]`), which nothing in the environment is obliged to do. The liveness properties about the
packs imply that resets eventually cease, because a reset leaves `pc = "boot"` or an unjudged
sample.

## 4. Disagreements between code and its documentation

* `failsafe`: a gauge that stops answering leaves zero voltages, so the pack counts as critically
  low and the failsafe of `batt.c:250-258`, which would turn the heaters off, is not reached.
  The comment calls it there to protect the batteries in exactly this case.
* `invalid_data`: `batt.c:336` is an expression without effect; `batt.c:337` logs "disabling charging
  and discharging".
* `two_faults`: success on bus 1 (a silent gauge on a healthy bus) clears the count of the dead
  bus 2 on each boot, so the card reboots for ever; `batt.c:819` "Will stop trying".
* `hist_stale`: one read error in a scan and an old entry is taken for the newest, its cycle is
  reused, and every later scan stops before the new entries; `README.md:211` "restore newest
  entry that also passes CRC checks".

* `max_current`: `max17205.c:201-202` "two packed signed 1 byte values with LSB of 0.40mV/RSENSE"; the code takes the
  bytes as unsigned, negates the upper one (`* 0xFFU` for a mask) and divides by a thousand too much: 0 to 10 mA
  whatever flowed, where `max17205.c:196` expects "-10,240mA and 10,200mA".

These have no run of their own:

* `batt.c:46` "Voltage below which we should stop everything until charging starts": where the pack's register reads below
  the first cell's, `batt.c:431` wraps, the second cell is published as about 65 V and passes the low-voltage check of
  `batt.c:607` (`Cell2Faithful` has the case: the value is 65536 mV too large).
* `README.md:130-133` "you can tell it to mock a dead state": with a history stored under the full profile, the dead one
  shows 1000 mAh for MIXCAP and REPCAP, because the restore writes them into the emulator (`ShownBy`).
* `batt.c:46` "Voltage below which we should stop everything until charging starts": a critically low cycle skips the
  state machine (`batt.c:1018`), so heaters that are on stay on.
* `calib.c:67` "If state of charge is known to be full": a current that could not be read stays 0 and passes the
  test, and `is_data_valid` is not asked (`calib.c:76-79`).
* `README.md:202` "when learning complete, debug output = `Learning state set = 7`": the read-back reads the other
  register (`ReportsOnlyTheGaugesLearning`), so the message practically never appears. The prompt of `README.md:203`
  appears never, because nothing sets `pack->init` (`calib.c:161`).
* `Kconfig:36` speaks of "maintaining temperature of packs between -5C and +5C", but with one pack above 5 and one below
  -5 the heaters alternate every other cycle (`batt.c:283-287`).
* A recovery count that cannot be saved leaves the reboots unbounded (`batt.c:768-776`, no caller looks at the result):
  `RebootsBounded` is stated for settings that work (`settingsOk`).
* A LED that cannot be configured is fatal (`batt.c:836-848`), against `batt.c:120`: `MainLoopReached` needs it to work again.

## 5. What is proved

For every value of the constants that satisfies the named assumptions:

* **BattLoop.** `TypeCorrect`: the lemma that carries it is `Cell2Type`, a uint16_t whatever was
  read. `LowChargeStopsHeatingHolds` and `SwitchOnIsJustifiedHolds` share the strengthening
  `HeatIInv`: the heater pins agree with each other and with the supply pin, a machine in state
  HEATING saw charge and a reason at its last evaluation, and after one evaluation with too little
  charge the machine is not heating. The properties alone are not inductive: they speak of pins,
  which follow the state one evaluation later. `PublishedHeaterBitIsTrueHolds` needs `PublishInv` (the bits of the packs already
  sampled in this turn), `IsolatedPackIsSickHolds` needs `LinesInv` (each pack's lines as its last sample set them).
  The four liveness properties are proved as `Spec /\ ThreadRuns => ...`, where `ThreadRuns` says that the thread steps
  again and again. `CyclesGoOn` is the common part: once the card is no longer reset, each pack's turn and each
  decision come again and again, because a step moves the thread one place along the cycle or leaves it where it is
  (`CycleSteps`). The rest is one step of each kind: a turn sets that pack's lines from its sample
  and no other step touches them (`LinesStep`); a decision on packs that stay warm disarms the state machine and the
  one after it releases the pins (`WarmSteps`, and `ColdSteps` for the opposite). `FairThreadRuns` derives `ThreadRuns`
  from `FairSpec` and `[]ENABLED <<BattThread>>_vars`. That a step is always enabled is not proved; it can be read off
  the module (each value of `pc` has its action, each sets `pc` or `next`, and `Readings`, `Failures` and `DieTemps` are not
  empty), and the runs `heat` and `charge` check the properties under `FairSpec` itself.
* **Recovery.** `TypeCorrect` needs `RetryInv` (an attempt is made only with retries left).
  `RebootsBoundedHolds` needs `CountInv`: reboots so far do not exceed the stored count while a
  bus may still fail to recover, nothing clears the count in that time, and `rec` is still the stored
  count when it is used. It assumes `Faults \subseteq OneFault`, which the run `two_faults` shows to be
  needed. `HealthyBootClearsCountHolds` assumes nothing of the faults, and
  `GivesUpOnlyAtTheLimitHolds` nothing of the settings. `MainLoopComesCloserHolds` is the reason for `MainLoopReached`: the
  pair of `BootsLeft` and `StepsLeft` are naturals and every step of start-up decreases it in lexicographic order, unless a
  broken part ends the start-up. It needs `CountInv` (the stored count does not fall while a reboot is still to come) and
  `PlaceInv` (where the thread is, and which pack it works on). It too assumes `Faults \subseteq OneFault`: with two
  different faults there is no such measure, as `two_faults` shows.
* **Hist.** `Sound` (`Types` and `LayoutInv`: full sectors behind the active one, bounded failures
  since `newest`) gives `TypeCorrect` and `NewestStaysInFlashHolds`, with or without read faults.
  `Ordered` adds `OrderInv`: good entries are in strictly rising order, and none is ahead of the present
  cycle and minute. It gives `ScanFindsNewestHolds`, `FreshCycleHolds` and `ImplementsPromiseHolds`
  when `ReadFaults = FALSE`; with read faults the first is false (`hist_stale`). `ScanIsTheLoopHolds` is about every log and
  assumes nothing of the faults. Its invariant speaks of the loop after each turn (`LoopKnows`: as long as the
  entries so far are in order, the last good one is what the loop has found), and the induction over the turns is done
  without an induction theorem: `IntervalInduction` takes a subset of a finite interval that holds the first element and
  each successor, and the least element outside it is a contradiction. The refinement is
  proved step by step: `Boot`, `BootReadFault` and `BootInitFault` are `Up`, `Crash` is `Down`,
  `FinishEntry` is `Save` or a stutter, every other step stutters.
* **Gauge.** `TypeCorrect`: the write loop stays inside the table. `CleanStartAppliesHolds` and
  `NothingUndoesTheTableHolds` need `ConfigInv`: the POR bit is never clear, so every start-up that
  reaches the validation has reset the firmware before it (hence `active = shadow` there, if
  nothing failed); the firmware never runs on more of the table than shadow RAM holds; the entries
  below `i` are written. The first conjunct is what the code relies on: nothing that runs clears
  the bit. With a driver that did (mutant `FirmwareReset_ClearsPor`), a reset between `Verify` and
  `Apply` would leave the gauge on the old settings for good. `ImplementsPromiseHolds` is the refinement of `GaugeSpec`, one step
  per action: a firmware reset is `Load` or `Run` because `active \subseteq shadow` before it, and the four ways into the loop are `Run`
  because `ConfigInv'` has `CleanStartApplies`.
* **Calib.** Every property of the run `calib`, for every table, NV memory and set of readings, and without the
  constraint. `GaugeOrQuiet` says that each step of `Calib` is a step of `Gauge` or leaves its variables alone but for `clean`, so the
  invariants of `GaugeProofs`, its refinement and `NothingUndoesTheTable` carry over. `CalibInv` adds: in which phase of start-up each thread can
  be (`PhaseInv`), what a field holds at each step of a sample (`SampleInv`), that a `sound`
  calibration still sees a full pack's data (`SoundInv`), that no estimate reaches the pack's data or replaces what was
  restored (`CapsInv`), and that a stage in shadow RAM is in use once a clean start-up has reset the firmware (`LearnInv`).
* **Readings.** `PublishedIsFaithfulHolds` and `WrittenReadsBackHolds`, for every value of each register. The first says: every channel but the two extreme
  currents (`max_current`) is what the data sheet says; an average temperature with bit 15 set is published as the lowest; the
  second cell, for every pair of registers, is their difference, off by exactly 65536 mV where it does not fit 16 bits
  (`Wrapping`). One lemma per
  conversion in integer arithmetic, then a case per channel. The invariant is the property itself together with the
  form of the record (`SeenInv`).
* **NvRam.** `TypeOKHolds`, `ResetIsHonestHolds`, `ProgramIsHonestHolds`, `ProgramsOnlyWithCopiesLeftHolds`, for all settings and
  every poll limit. `RestartInv`: unless something is stale, the restart a call waits for is its own, and with its POR bit
  the NV memory is loaded; `ProgramInv`: what is in NV memory and in shadow RAM at each step of programming; `CopiesInv`: a count above zero means that the gauge has a copy left.
  `CallIsBoundedHolds` is the reason for `CallReturns`: `TransfersLeft` is a natural number that each step of a call decreases and
  no other step increases, so a call is over after `2 * MaxPolls + 7` transfers, whatever the gauge does.
* **Driver.** `DriverImplementsNvRam`: every step of the composition is one of `NvRam`'s or leaves its variables alone,
  so all of the above holds of a gauge that is also sampled (`ProgrammingIsSound`). `EmulatedProfileReadsBackHolds` and
  `SamplingIsFaithful` share the invariant `DriverSeenInv`, which takes up the lemmas of `ReadingsProofs` per
  channel and adds the emulator's: no configuration write lands on a register that holds the profile, the history's
  restore lands on MIXCAP's and REPCAP's only (`HistoryRegisters`) and puts the stored profile's capacity there if that
  is not zero (`Restoring`), and each encoding decodes to less than a unit off. `SamplingIsFaithful` has the exceptions of
  `PublishedIsFaithful`.

Only model-checked: `MainLoopReached` and `CallReturns`. Their variants are proved, and what is left is an induction over
the naturals under a temporal formula, which is out of the provers' reach; so is ENABLED, hence the hypothesis `ThreadRuns`
above. Every other property of a passing run is also a theorem.

## 6. Not modelled

* CANopen stack, FCB, settings, I2C and GPIO drivers, the sensors library: not in the repository,
  modelled only by what the code relies on.
* The CAN thread (`can.c`) and the object dictionary: the thread calls the stack, the dictionary is generated;
  whether a reader takes the lock of `batt.c:545` is decided in the stack. `Convert` has the widths of the cells.
* The prompt's console input, and the halt after it: they need `pack->init`, which nothing sets.
* The interface's history recall and print functions (`max17205_read_history`, `max17205_print_*`): they log.
* `main`, hardware information, logging, board files, device tree: no state that matters here.
* Intervals: the time between two turns, and which of the threads wakes first, is arbitrary.

## 7. Plan

Done: `HistLog`, `Hist`, `HistSpec`; `Recovery`; `BattLoop`; `Gauge`, `GaugeSpec`; `Calib`; `Convert`, `Readings`, `Emulator`, `NvRam`,
`Driver`; their runs and proofs.

1. `Card`: start-up composed of `Recovery`, `Hist` and `Gauge`, refining `BattLoop.Boot`.
2. An abstract specification of `NvRam`: the memory holds the old settings or the wanted ones, and a call that says so is
   right, as a refinement instead of single properties.
3. `Telemetry`: the object dictionary between battery and CAN thread, one write per step, for a stack that locks and one
   that does not. Which of them is built is decided in the CANopen library, so it would say what the firmware relies on.
