---------------------------- MODULE MCRunnerFleet ----------------------------
(* Instances of RunnerFleet for TLC.                                       *)
EXTENDS RunnerFleet

\* Each job in a repository of its own
OwnRepository == [j \in Jobs |-> j]

\* Each job with a label of its own, or all with the same
ExactLabels == [j \in Jobs |-> {j}]
SharedLabel == [j \in Jobs |-> Jobs]
OneRepository == [j \in Jobs |-> "repository"]
=============================================================================
