------------------------------ MODULE MCSim900 ------------------------------
(* Instances of Sim900 for TLC.                                            *)
EXTENDS Sim900
=============================================================================
