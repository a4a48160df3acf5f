------------------------------- MODULE Driver --------------------------------
(***************************************************************************)
(* The MAX17205 driver as a whole: one call after the other on one gauge,  *)
(* or on its emulation, for sampling (Readings, Emulator) and for the NV   *)
(* memory (NvRam).                                                         *)
(***************************************************************************)
EXTENDS Emulator, NvRam

driverVars == <<seen, nvVars>>

DriverInit == ReadingsInit /\ NvInit

\* Bound: a register is sampled whatever state the NV memory is in, and says the
\* same; sampling is followed on a gauge that has not been written since power-on.
AsPoweredOn ==
    /\ Loaded /\ por /\ ~nvError /\ restart = "no" /\ copies = 0
    /\ ~lost /\ ~stale /\ wanted = nv
    /\ outcome = "none" /\ left = 0

Sampling ==
    /\ call = "idle" /\ AsPoweredOn
    /\ ReadingsNext \/ ReadEmulated
    /\ UNCHANGED nvVars

\* A later call is not compared with what was sampled before.
Programming == NvNext /\ seen' = Nothing

DriverNext == Sampling \/ Programming

\* A call is one thread that does nothing else, and every bus transfer ends.
DriverSpec ==
    DriverInit /\ [][DriverNext]_driverVars /\ WF_driverVars(Step /\ seen' = Nothing)
=============================================================================
