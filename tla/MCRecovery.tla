----------------------------- MODULE MCRecovery -----------------------------
(* Instances of Recovery for TLC.                                          *)
EXTENDS Recovery

\* A silent gauge on a healthy first bus and a dead second bus.
SilentAndDead == {[p \in Packs |-> IF p = 1 THEN "silent" ELSE "dead"]}

NothingBroken == {{}}
AnyBroken     == {{}, {"led"}, {"hist"}, {"gpio"}}
=============================================================================
