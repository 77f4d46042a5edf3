---------------------------- MODULE MCNomadLogSync -----------------------------
(***************************************************************************)
(* Small instances of NomadLogSync.                                         *)
(***************************************************************************)
EXTENDS NomadLogSync, TLC

MCBytes == Epochs \X (1 .. LogLength)

SyncSymmetry == Permutations(Writers)
================================================================================
