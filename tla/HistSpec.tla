------------------------------ MODULE HistSpec ------------------------------
(***************************************************************************)
(* What the capacity history promises the battery thread, whatever flash,  *)
(* rotation and resets do underneath: one durable record that each store   *)
(* replaces by a later one in a single step, that survives power loss, and *)
(* that every start-up restores.  The whole history may be erased at a     *)
(* start-up that cannot read the partition (src/src/hist.c:66-88).         *)
(***************************************************************************)
EXTENDS Naturals

CONSTANTS
    None,        \* no record
    MayErase     \* a start-up may have to erase the partition

VARIABLES
    saved,       \* the durable record: its reset cycle and minute, or None
    restored,    \* what the last start-up restored, or None
    up           \* the battery thread has started

vars == <<saved, restored, up>>

Record == [rst : Nat, minute : Nat]
Later(r, s) ==
    \/ s = None
    \/ r.rst > s.rst
    \/ r.rst = s.rst /\ r.minute > s.minute

Init == saved = None /\ restored = None /\ ~up

\* A store either takes effect at once or not at all.
Save == /\ up
        /\ saved' \in Record
        /\ Later(saved', saved)
        /\ UNCHANGED <<restored, up>>

Down == /\ up
        /\ up' = FALSE
        /\ restored' = None
        /\ UNCHANGED saved

Up == /\ ~up
      /\ up' = TRUE
      /\ saved' = saved \/ (MayErase /\ saved' = None)
      /\ restored' = saved'

Next == Save \/ Down \/ Up

Spec == Init /\ [][Next]_vars
=============================================================================
