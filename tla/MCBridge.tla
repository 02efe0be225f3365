------------------------------ MODULE MCBridge ------------------------------
(* Small instances of Bridge for TLC.                                       *)
EXTENDS Bridge, TLC
=============================================================================
