------------------------------ MODULE MCSyncRuns ------------------------------
(* Instances of SyncRuns for TLC.                                          *)
EXTENDS SyncRuns
CONSTANTS p1, p2
=============================================================================
