--------------------------- MODULE MCRecordSearch ---------------------------
(* Instances of RecordSearch for TLC.                                      *)
EXTENDS RecordSearch
=============================================================================
