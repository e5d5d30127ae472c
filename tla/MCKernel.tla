------------------------------ MODULE MCKernel ------------------------------
(* Instances of Kernel for TLC.                                            *)
EXTENDS Kernel, TLC

Edges(requires, consumes) == [requires |-> requires, consumes |-> consumes]
NoConsumes == [u \in {} |-> "verified-content"]
Define(work, verifier, edges) == [work |-> work, content |-> work, verifier |-> verifier] @@ edges

Status == Define("status-success", "status", Edges({}, NoConsumes))
ConfigMap == Define("configmap", "configmap", Edges({}, NoConsumes))
SourceAfter1 == Define("source", "source", Edges({1}, NoConsumes))

\* 2 starts after 1; a patch may unbind, bind or rebind them.
GraphDefinitions == {ConfigMap, SourceAfter1}
ControlGraph == [o \in {1, 2} |-> IF o = 1 THEN ConfigMap ELSE SourceAfter1]

EffectDefinitions == {Status, ConfigMap}
EffectGraph == [o \in {1} |-> Status]

\* 2 consumes the settlement receipt of 1.
StatusOfSettled1 ==
    Define("status-success", "status", Edges({}, [u \in {1} |-> "settlement-receipt"]))
SemanticDefinitions == {ConfigMap, StatusOfSettled1}
SemanticGraph == [o \in {1, 2} |-> IF o = 1 THEN ConfigMap ELSE StatusOfSettled1]

\* 1 and 2 are independent.
ReleaseDefinitions == {Status, ConfigMap}
ReleaseGraph == [o \in {1, 2} |-> IF o = 1 THEN Status ELSE ConfigMap]

Permutation == Permutations(RunIds) \cup Permutations(Procs)
=============================================================================
