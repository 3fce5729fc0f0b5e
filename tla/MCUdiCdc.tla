----------------------------- MODULE MCUdiCdc -----------------------------
(* Instance of UdiCdc for TLC.                                            *)
EXTENDS UdiCdc
===========================================================================
