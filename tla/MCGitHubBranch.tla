---------------------------- MODULE MCGitHubBranch ----------------------------
(* Small instances of GitHubBranch for TLC. *)
EXTENDS GitHubBranch

CONSTANTS a, o

\* The base has neither path, somebody's artifact, or another file.
SomeBases == {t \in Tree : t[a] # "verified" /\ t[o] # "verified"}

\* Every commit with one parent or with two, and few trees: amended, extended,
\* merged, with or without the marker.
SomeTrees == {t \in Tree : t[o] # "verified"}
SomeStrangers ==
  {[tree |-> t, parents |-> <<t1>>, marked |-> m] :
     t \in SomeTrees, t1 \in SomeBases, m \in BOOLEAN}
  \cup
  {[tree |-> WithArtifacts(t), parents |-> <<t, t>>, marked |-> TRUE] :
     t \in SomeBases}
=============================================================================
