------------------------------ MODULE HistLog -------------------------------
(***************************************************************************)
(* The entries of the capacity history (src/src/hist.c) and the scan for   *)
(* the newest of them, hist_find_last, as operators on a log.              *)
(*                                                                         *)
(* A log is a sequence of entries in the order they were appended.  The    *)
(* capacities themselves are abstracted: an entry is named by its reset    *)
(* cycle and minute.  Its state tells what a reader makes of it: an "open" *)
(* entry was never finished and is skipped by fcb_getnext; a "bad" one is  *)
(* returned by it but fails the CRC-16; a "good" one passes both.          *)
(***************************************************************************)
EXTENDS Naturals, Sequences

RST_CYCLES == 65536         \* rst_cycle is a uint16_t
MINUTES    == 4096          \* minute is a 12-bit field

Entry == [rst : Nat, minute : Nat, state : {"open", "bad", "good"}]

\* Entry e comes strictly before f in the order of reset cycle and minute.
Before(e, f) == e.rst < f.rst \/ (e.rst = f.rst /\ e.minute < f.minute)

Good(l, from, to) == {i \in from .. to : l[i].state = "good"}

\* Mutant of SortedUpTo: an entry of the same name as an earlier one stops the
\* scan too.
SortedUpTo_Strict(l, from, i) ==
    \A j, k \in Good(l, from, i) : j < k => Before(l[j], l[k])

\* The good entries from position from up to i never step back.
SortedUpTo(l, from, i) ==
    \A j, k \in Good(l, from, i) : j < k => ~Before(l[k], l[j])

Accepted(l, from, to) == {i \in Good(l, from, to) : SortedUpTo(l, from, i)}

\* hist_find_last over positions from .. to: the last good entry before the
\* first one that steps back; 0 if there is no good entry at all.
Scan(l, from, to) ==
    IF Accepted(l, from, to) = {} THEN 0
    ELSE CHOOSE i \in Accepted(l, from, to) :
             \A j \in Accepted(l, from, to) : j <= i
=============================================================================
