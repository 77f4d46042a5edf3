------------------------------ MODULE MCAtwSend --------------------------------
(***************************************************************************)
(* AtwSend for TLC: one send, the sweep, one admin, the reconciler.              *)
(***************************************************************************)
EXTENDS AtwSend

CONSTANTS send, sweeper, admin1, reconciler
==============================================================================
