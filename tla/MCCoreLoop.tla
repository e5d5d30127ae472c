----------------------------- MODULE MCCoreLoop -----------------------------
(* Instances of CoreLoop for TLC.                                          *)
EXTENDS CoreLoop, TLC

NoEdges == [requires |-> {}, consumes |-> [u \in {} |-> "verified-content"]]
Define(work, verifier) == [work |-> work, content |-> work, verifier |-> verifier] @@ NoEdges

Status == Define("status-success", "status")
ConfigMap == Define("configmap", "configmap")
OfStatus ==
    [Define("configmap of status", "configmap") EXCEPT !.consumes = [u \in {1} |-> "verified-content"]]
Rebound == Define("rebound configmap", "configmap")

LoopDefinitions == {Status, ConfigMap, OfStatus, Rebound}

\* 1 and 2 are independent; 3 consumes the verified content of 1.
LoopGraph == 1 :> Status @@ 2 :> ConfigMap @@ 3 :> OfStatus
=============================================================================
