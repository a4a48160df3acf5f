------------------------------- MODULE MCCalib -------------------------------
(* An instance of Calib for TLC.                                           *)
EXTENDS Calib

\* A full pack, and one that is still being charged.
FullOrCharging ==
    {[batt_mV |-> TRUE, avg_current_mA |-> full, full_capacity_mAh |-> TRUE] :
        full \in BOOLEAN}

\* A bound: the calibration thread, which knows nothing of the table, is
\* followed only while the gauge runs on all of it.
OnTheTable == cpc # "sleep" => shadow = Regs /\ active = Regs
=============================================================================
