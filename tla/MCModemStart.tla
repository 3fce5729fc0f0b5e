---------------------------- MODULE MCModemStart ----------------------------
(* An instance of ModemStart for TLC.                                      *)
EXTENDS ModemStart
=============================================================================
