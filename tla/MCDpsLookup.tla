----------------------------- MODULE MCDpsLookup -----------------------------
(* Instances of DpsLookup for TLC.                                         *)
EXTENDS DpsLookup
CONSTANTS s1
=============================================================================
