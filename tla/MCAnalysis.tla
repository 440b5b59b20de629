------------------------------ MODULE MCAnalysis ------------------------------
(* Small instances of Analysis for TLC. *)
EXTENDS Analysis

CONSTANTS r1, r2

\* Automatic mode with a warehouse, without and with everything required; live
\* mode without a warehouse; replay.
SomeConfigs ==
  {[primary |-> "live", fallback |-> TRUE, warehouse |-> TRUE,
    requireLive |-> FALSE, requireWarehouse |-> FALSE],
   [primary |-> "live", fallback |-> TRUE, warehouse |-> TRUE,
    requireLive |-> TRUE, requireWarehouse |-> TRUE],
   [primary |-> "live", fallback |-> FALSE, warehouse |-> FALSE,
    requireLive |-> FALSE, requireWarehouse |-> FALSE],
   [primary |-> "snapshot", fallback |-> FALSE, warehouse |-> FALSE,
    requireLive |-> FALSE, requireWarehouse |-> FALSE]}
=============================================================================
