------------------------------ MODULE GaugeSpec ------------------------------
(***************************************************************************)
(* What configuring the fuel gauge promises the rest of the firmware,      *)
(* however often it is cut short and whatever fails: the settings in use   *)
(* only ever come closer to the table, they change during start-up alone,  *)
(* and a start-up without a failure leaves the whole table in use.  Only   *)
(* the loss of its power takes the gauge back to its NV memory.            *)
(* (src/src/max17205_intf.c:526-571,                                       *)
(* src/drivers/sensor/maxim/max17205/max17205.c:953-1043)                  *)
(***************************************************************************)
CONSTANTS
    Table,       \* the entries of the table
    InNv         \* those that NV memory holds

VARIABLES
    phase,       \* the pack is "starting", "running", or "absent" for this boot
    inUse,       \* the entries of the table that the gauge runs on
    sure         \* nothing has failed since the card was reset

vars == <<phase, inUse, sure>>

Init == phase = "starting" /\ inUse = InNv /\ sure = TRUE

ComesCloser == inUse \subseteq inUse' /\ inUse' \subseteq Table

\* The gauge takes over settings that an earlier start-up, or this one, wrote.
Load == /\ phase = "starting"
        /\ ComesCloser
        /\ UNCHANGED <<phase, sure>>

\* The pack goes into service.
Run == /\ phase = "starting"
       /\ phase' = "running"
       /\ ComesCloser
       /\ sure' => sure /\ inUse' = Table

\* What failed last may still have loaded them.
GiveUp == /\ phase = "starting"
          /\ phase' = "absent"
          /\ ComesCloser
          /\ sure' = FALSE

Fail == sure' = FALSE /\ UNCHANGED <<phase, inUse>>

CardReset == phase' = "starting" /\ sure' = TRUE /\ UNCHANGED inUse

PowerLoss      == phase' = "starting" /\ sure' = TRUE /\ inUse' = InNv
GaugePowerLoss == inUse' = InNv /\ sure' = FALSE /\ UNCHANGED phase

Next == \/ Load \/ Run \/ GiveUp \/ Fail
        \/ CardReset \/ PowerLoss \/ GaugePowerLoss

Spec == Init /\ [][Next]_vars
=============================================================================
