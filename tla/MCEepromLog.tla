---------------------------- MODULE MCEepromLog ----------------------------
(* Instances of EepromLog for TLC.                                         *)
EXTENDS EepromLog
=============================================================================
