----------------------------- MODULE MCWarmRunner -----------------------------
(* An instance of WarmRunner for TLC: leases for one job, as when the      *)
(* autoscaler launches again, or for two.                                  *)
EXTENDS WarmRunner

ExactLabels == [j \in Jobs |-> {j}]
=============================================================================
