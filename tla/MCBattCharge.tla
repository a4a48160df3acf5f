---------------------------- MODULE MCBattCharge ----------------------------
(* Instances of BattLoop for TLC: charge control built in, no heaters.    *)
EXTENDS BattLoop

R(vcell, soc, temp) ==
    [v1 |-> vcell, batt |-> 2 * vcell, vcell |-> vcell, soc |-> soc, temp |-> temp]
\* Cells in limits, a full cell with much and with too little charge, an
\* empty cell, and a cell in limits of a pack with too little charge.
ChargeReadings == {R(3000, 20, 0), R(4101, 90, 0), R(4101, 19, 0),
                   R(2999, 20, 0), R(4100, 19, 0)}
ChargeFailures == {{}, {"late"}, Reads}
ChargeDieTemps == {0}
=============================================================================
