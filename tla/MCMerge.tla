------------------------------- MODULE MCMerge -------------------------------
(***************************************************************************)
(* Small swarms.  Node n1 runs the merge workers.  In the bubble, n1 and   *)
(* n2 stay together when d, which links them to p1, leaves with its record *)
(* still on the DHT; n1, p1 and d publish.  In the split swarm, n1 and n2  *)
(* are on one side and p1 and p2 on the other.                             *)
(***************************************************************************)
EXTENDS Merge

CONSTANTS n1, n2, p1, p2, d

\* n1 reaches p1 through d.
Chain == {{n1, d}, {d, p1}}

\* So does a pair of n1 and n2.
PairOnChain == Chain \cup {{n1, n2}}

\* Two pairs that bootstrapped apart from each other.
Pairs == {{n1, n2}, {p1, p2}}
=============================================================================
