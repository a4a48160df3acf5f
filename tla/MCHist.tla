------------------------------- MODULE MCHist -------------------------------
(* Instances of Hist for TLC.                                              *)
EXTENDS Hist
=============================================================================
