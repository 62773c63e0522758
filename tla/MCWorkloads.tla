---------------------------- MODULE MCWorkloads ----------------------------
(***************************************************************************)
(* Instances of Workloads for TLC.                                         *)
(***************************************************************************)
EXTENDS Workloads, TLC
=============================================================================
