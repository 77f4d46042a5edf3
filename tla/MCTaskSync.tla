------------------------------ MODULE MCTaskSync -------------------------------
(* Instances of TaskSync for TLC.                                             *)
EXTENDS TaskSync
================================================================================
