---------------------------- MODULE MCReconciler ----------------------------
(***************************************************************************)
(* Values of the constants of Reconciler for TLC.                          *)
(***************************************************************************)
EXTENDS Reconciler

CONSTANTS a1, a2, i1, i2, q1
=============================================================================
