-------------------------------- MODULE Hist --------------------------------
(***************************************************************************)
(* The capacity history in flash (src/src/hist.c) on Zephyr's flash        *)
(* circular buffer (FCB), with the battery thread's use of it: find and    *)
(* restore the newest entry at start-up, then store one per interval.      *)
(*                                                                         *)
(* Every entry ever appended since the partition was last erased is in     *)
(* log; sector s holds positions s * SectorCap + 1 .. (s + 1) * SectorCap. *)
(* Sectors oldest .. active are in use, earlier ones have been rotated     *)
(* away.  A reset may come between any two steps of a store.               *)
(***************************************************************************)
EXTENDS HistScan, Integers

CONSTANTS
    SectorCap,      \* entries a sector holds
    Usable,         \* sectors in use at most: f_sector_cnt - f_scratch_cnt
    Interval,       \* minutes between stores: PACK_HIST_STORE_INTERVAL_MS
    MaxUptime,      \* bound: minutes between two resets
    MaxCycle,       \* bound: reset cycles
    MaxEntries,     \* bound: entries appended between two erasures
    MaxFailures,    \* bound: stores in a row that do not complete
    ReadFaults,     \* a read during the scan may fail
    InitFaults,     \* fcb_init may fail at start-up
    None

ASSUME SectorsAssumption  == SectorCap \in Nat \ {0} /\ Usable \in Nat /\ Usable >= 2
ASSUME IntervalAssumption == Interval \in Nat \ {0}
\* hist.c:167-170: "In orbit, we are reset once per day, so this should be fine."
ASSUME UptimeAssumption   == MaxUptime \in Nat /\ MaxUptime < MINUTES
ASSUME CycleAssumption    == MaxCycle \in Nat /\ MaxCycle < RST_CYCLES
ASSUME EntriesAssumption  == MaxEntries \in Nat
\* Rotation erases a sector while the Usable - 1 others are full.
ASSUME FailuresAssumption == MaxFailures \in Nat
                             /\ MaxFailures < (Usable - 1) * SectorCap
ASSUME FaultsAssumption   == ReadFaults \in BOOLEAN /\ InitFaults \in BOOLEAN
ASSUME NoneAssumption     == None \notin [rst : Nat, minute : Nat]

VARIABLES
    pc,          \* "off", "idle", or the step of hist_add_next under way
    log,         \* the entries in flash
    oldest,      \* f_oldest
    active,      \* the sector of f_active
    rst,         \* reset_cycle_count
    uptime,      \* minutes since the reset
    wrote,       \* the payload write of the store under way succeeded
    restored,    \* the entry hist_load_current gave the thread, or None
    newest       \* history: position of the last entry whose store completed

flashVars == <<log, oldest, active, newest>>
vars == <<pc, flashVars, rst, uptime, wrote, restored>>

First      == oldest * SectorCap + 1             \* first position still in flash
Key(i)     == IF i = 0 THEN None ELSE [rst |-> log[i].rst, minute |-> log[i].minute]

TypeOK ==
    /\ pc \in {"off", "idle", "append", "write", "finish"}
    /\ log \in Seq(Entry)
    /\ oldest \in Nat
    /\ active \in oldest .. oldest + Usable - 1
    /\ rst \in Nat
    /\ uptime \in Nat
    /\ wrote \in BOOLEAN
    /\ restored \in [rst : Nat, minute : Nat] \cup {None}
    /\ newest \in 0 .. Len(log)

Init ==
    /\ pc = "off"
    /\ log = <<>> /\ oldest = 0 /\ active = 0 /\ newest = 0
    /\ rst = 0 /\ uptime = 0 /\ wrote = FALSE
    /\ restored = None

-----------------------------------------------------------------------------
(* Start-up.                                                               *)

\* Mutant of Loaded: the cycle of the entry goes on instead of a new one.
Loaded_SameCycle(last) ==
    /\ pc' = "idle"
    /\ rst' = (IF last = 0 THEN 0 ELSE log[last].rst)
    /\ restored' = Key(last)
    /\ UNCHANGED <<uptime, wrote>>

\* The scan stopped at position last: load that entry, start a new cycle.
Loaded(last) ==
    /\ pc' = "idle"
    /\ rst' = (IF last = 0 THEN 0 ELSE (log[last].rst + 1) % RST_CYCLES)
    /\ restored' = Key(last)
    /\ UNCHANGED <<uptime, wrote>>

\* The partition as fcb_clear or flash_area_flatten leaves it.
Erased == log' = <<>> /\ oldest' = 0 /\ active' = 0 /\ newest' = 0

\* hist_init and hist_load_current without a fault: entries that are all
\* unusable are erased.
Boot ==
    /\ pc = "off"
    /\ LET last == Scan(log, First, Len(log))
       IN  /\ last # 0 => log[last].rst < MaxCycle
           /\ Loaded(last)
           /\ IF last = 0 THEN Erased ELSE UNCHANGED flashVars

\* A read fails after position stop: whatever was found up to there is the
\* newest entry; with nothing found hist_init fails and the card reboots.
BootReadFault ==
    /\ pc = "off"
    /\ ReadFaults
    /\ \E stop \in First - 1 .. Len(log) - 1 :
          LET last == Scan(log, First, stop)
          IN  last # 0 /\ log[last].rst < MaxCycle /\ Loaded(last)
    /\ UNCHANGED flashVars

\* fcb_init fails: the whole partition is erased.
BootInitFault ==
    /\ pc = "off"
    /\ InitFaults
    /\ Erased
    /\ Loaded(0)

-----------------------------------------------------------------------------
(* hist_store_current.                                                     *)

\* Mutants of AllUsed: a sector too many is used, or a sector too few.
AllUsed_OneMore == active - oldest = Usable
AllUsed_OneLess == active - oldest + 2 = Usable

Room    == Len(log) < (active + 1) * SectorCap
AllUsed == active - oldest + 1 = Usable

\* A fault is modelled only while it does not exceed MaxFailures in a row.
FaultAllowed == Len(log) - newest <= MaxFailures

\* The store interval has passed.
StoreBegin ==
    /\ pc = "idle"
    /\ uptime + Interval <= MaxUptime
    /\ Len(log) < MaxEntries
    /\ uptime' = uptime + Interval
    /\ pc' = "append"
    /\ UNCHANGED <<flashVars, rst, wrote, restored>>

\* fcb_append into the active sector: the entry is there but not finished.
AppendEntry ==
    /\ pc = "append"
    /\ Room
    /\ log' = Append(log, [rst |-> rst, minute |-> uptime % MINUTES, state |-> "open"])
    /\ pc' = "write"
    /\ UNCHANGED <<oldest, active, newest, rst, uptime, wrote, restored>>

\* fcb_append into a fresh sector, as long as a scratch sector remains.
NewSector ==
    /\ pc = "append"
    /\ ~Room
    /\ ~AllUsed
    /\ active' = active + 1
    /\ UNCHANGED <<pc, log, oldest, newest, rst, uptime, wrote, restored>>

\* -ENOSPC: fcb_rotate erases the oldest sector and fcb_append is repeated.
Rotate ==
    /\ pc = "append"
    /\ ~Room
    /\ AllUsed
    /\ oldest' = oldest + 1
    /\ UNCHANGED <<pc, log, active, newest, rst, uptime, wrote, restored>>

\* An error of fcb_append or fcb_rotate: this store is skipped.
StoreFails ==
    /\ pc = "append"
    /\ pc' = "idle"
    /\ UNCHANGED <<flashVars, rst, uptime, wrote, restored>>

\* fcb_flash_write of the payload; the store goes on when it fails.
WritePayload ==
    /\ pc = "write"
    /\ wrote' \in BOOLEAN
    /\ ~wrote' => FaultAllowed
    /\ pc' = "finish"
    /\ UNCHANGED <<flashVars, rst, uptime, restored>>

\* Mutant of Finished: the payload is not checked.
Finished_Unchecked(e) == [rst |-> e.rst, minute |-> e.minute, state |-> "good"]

\* The entry as a scan sees it once it is finished: its CRC fits its payload
\* only if the write went through.
Finished(e) == [rst |-> e.rst, minute |-> e.minute,
                state |-> IF wrote THEN "good" ELSE "bad"]

\* fcb_append_finish: the entry becomes visible to the scan, or stays open.
\* hist_add_next also forgets last_valid_history_entry, used by nobody now.
FinishEntry ==
    /\ pc = "finish"
    /\ pc' = "idle"
    /\ \/ /\ log' = [log EXCEPT ![Len(log)] = Finished(log[Len(log)])]
          /\ newest' = IF wrote THEN Len(log) ELSE newest
       \/ /\ FaultAllowed
          /\ UNCHANGED <<log, newest>>
    /\ UNCHANGED <<oldest, active, rst, uptime, wrote, restored>>

\* Reset or power loss at any point; flash keeps what it holds.
Crash ==
    /\ pc # "off"
    /\ pc \in {"write", "finish"} => FaultAllowed
    /\ pc' = "off"
    /\ rst' = 0 /\ uptime' = 0 /\ wrote' = FALSE
    /\ restored' = None
    /\ UNCHANGED flashVars

Store == \/ StoreBegin \/ AppendEntry \/ NewSector \/ Rotate \/ StoreFails
         \/ WritePayload \/ FinishEntry
Next  == Boot \/ BootReadFault \/ BootInitFault \/ Store \/ Crash

Spec     == Init /\ [][Next]_vars

-----------------------------------------------------------------------------
(* Properties.                                                             *)

\* README.md:211, "restore newest entry that also passes CRC checks": at any
\* moment, also in the middle of a store, a scan that meets no read error
\* finds the entry whose store completed last (hist.c:144-183).
ScanFindsNewest == Scan(log, First, Len(log)) = newest

\* The operator Scan is what the loop of hist_find_last computes, also on the
\* logs that step back because a failed read made an earlier start-up reuse a
\* cycle (hist.c:125-182).
ScanIsTheLoop == Scan(log, First, Len(log)) = FindLast(log, First)

\* Whatever the faults, rotation never erases the entry whose store completed
\* last, as long as failures do not fill the other sectors (hist.c:214-223).
NewestStaysInFlash ==
    newest # 0 => newest >= First /\ log[newest].state = "good"

\* Every start-up that is free of faults restores that entry, and no store of
\* the new cycle reuses the name of an entry still in flash (hist.c:187-192).
FreshCycle ==
    [][pc = "off" /\ pc' = "idle" /\ newest' # 0 =>
          /\ restored' = Key(newest)
          /\ \A i \in Good(log, First, Len(log)) : rst' > log[i].rst]_vars

\* The flash history implements the one durable record of HistSpec: a reset
\* in the middle of a store leaves the record as it was.
Promise == INSTANCE HistSpec WITH
    saved    <- Key(Scan(log, First, Len(log))),
    MayErase <- InitFaults,
    up       <- pc # "off"
ImplementsPromise == Promise!Spec
=============================================================================
