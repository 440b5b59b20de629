------------------------------ MODULE MCLifecycle ------------------------------
(* A small instance of Lifecycle for TLC. *)
EXTENDS Lifecycle

CONSTANTS r1, r2, k1, c1, repoA, serverA

OneKey == [r \in Runs |-> k1]

\* Live evidence and a warehouse.
Live ==
  {[primary |-> "live", fallback |-> FALSE, warehouse |-> TRUE,
    requireLive |-> TRUE, requireWarehouse |-> FALSE]}

BothSinks ==
  {[github |-> TRUE, datahub |-> TRUE, repo |-> repoA, server |-> serverA]}
=============================================================================
