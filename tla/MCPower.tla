------------------------------ MODULE MCPower ------------------------------
(* An instance of Power for TLC.                                           *)
EXTENDS Power
=============================================================================
