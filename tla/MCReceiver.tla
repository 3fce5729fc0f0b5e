----------------------------- MODULE MCReceiver -----------------------------
(* An instance of Receiver for TLC.                                        *)
EXTENDS Receiver
=============================================================================
