----------------------------- MODULE MCBattHeat -----------------------------
(* Instances of BattLoop for TLC: the heaters, with charge control left    *)
(* out of the build as in prj.conf.                                        *)
EXTENDS BattLoop

\* One reading on each side of every threshold of the heating decision: cold,
\* mild and warm packs with charge, a cold pack with little charge, and a
\* charged cold pack whose second cell has collapsed below SHUTDOWN_MV.
R(v1, batt, soc, temp) ==
    [v1 |-> v1, batt |-> batt, vcell |-> v1, soc |-> soc, temp |-> temp]
HeatReadings == {R(3700, 7400, 26, -6), R(3700, 7400, 26, 5),
                 R(3700, 7400, 26, 6), R(3700, 7400, 25, -6),
                 R(3700, 6549, 26, -6)}

\* Nothing fails; one read after the second cell's voltage fails; the gauge
\* does not answer at all.
HeatFailures == {{}, {"late"}, Reads}
HeatDieTemps == {-6, 0, 6}
=============================================================================
