----------------------------- MODULE MCRainGauge -----------------------------
(* Instances of RainGauge for TLC.                                         *)
EXTENDS RainGauge
=============================================================================
