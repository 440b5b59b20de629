---------------------------- MODULE MCPublication ----------------------------
(* Small instances of Publication for TLC. *)
EXTENDS Publication

CONSTANTS r1, r2, k1, c1, c2, repoA, repoB, serverA, serverB

\* Two runs of one live key.
OneKey == [r \in Runs |-> k1]

\* Both sinks, one of them, none; and each destination moved.
SomeConfigs ==
  {[github |-> TRUE,  datahub |-> TRUE,  repo |-> repoA, server |-> serverA],
   [github |-> TRUE,  datahub |-> TRUE,  repo |-> repoB, server |-> serverA],
   [github |-> FALSE, datahub |-> TRUE,  repo |-> None,  server |-> serverB],
   [github |-> TRUE,  datahub |-> FALSE, repo |-> repoA, server |-> None],
   [github |-> FALSE, datahub |-> FALSE, repo |-> repoA, server |-> serverA]}
=============================================================================
