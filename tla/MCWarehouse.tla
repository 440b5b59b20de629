----------------------------- MODULE MCWarehouse -----------------------------
(* Small instances of Warehouse for TLC. *)
EXTENDS Warehouse

CONSTANTS v1, v2
=============================================================================
