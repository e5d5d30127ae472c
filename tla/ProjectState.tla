---------------------------- MODULE ProjectState ----------------------------
(***************************************************************************)
(* The state replay reconstructs from the facts of one project, and the    *)
(* projection every kernel operation consults before it appends a fact     *)
(* (src/authority/project-state.ts, src/graph/identity.ts, topology.ts,    *)
(* src/authority/admission.ts).  All of it is pure, as in the source: an   *)
(* operator takes the replayed history h.                                  *)
(*                                                                         *)
(* The store is an append-only sequence of commits with one head.  Commits *)
(* are numbered, so a commit identifier and the replay ordinal of a commit *)
(* are the same number and the head is the length of the history.          *)
(***************************************************************************)
EXTENDS Integers, FiniteSets

CONSTANTS
    Obligations,    \* obligation ids; numbers, because ties break by id
    Definitions,    \* obligation definitions a graph patch may bind
    RunIds,         \* run ids (randomUUID: always a fresh one)
    InitialGraph    \* [Obligations -> Definitions \cup {NoDefinition}]

NoDefinition == [verifier |-> "unbound"]
NoRun == [obligation |-> 0]
NoReceipt == [disposition |-> "none"]
NoReservation == [commit |-> 0]
NoKey == [work |-> "unresolved"]

(***************************************************************************)
(* A definition is a record                                                *)
(*   work      identity of packet and postcondition                        *)
(*   content   what the postcondition verifies (verifiedContentIdentity)   *)
(*   verifier  which postcondition: "status", "configmap", "source",       *)
(*             "judgment" (github-commit-status/v2, kubernetes-configmap-  *)
(*             exists/v1, source-integration/v1, operator-judgment/v1)     *)
(*   requires  upstreams of control dependencies                           *)
(*   consumes  [upstream -> selector] of semantic dependencies, a selector *)
(*             being "verified-content" or "settlement-receipt"            *)
(*                                                                         *)
(* A replayed history is a record                                          *)
(*   head         number of the newest commit                              *)
(*   obligations  state.obligations: the bound definition of every id      *)
(*   ordinals     currentBindingOrdinals                                   *)
(*   runs         runs                                                     *)
(*   receipts     receiptsByRun: the latest receipt of a run               *)
(*   settled      the runs with a DONE receipt somewhere in receipts       *)
(*   reservations unresolvedReservationsByRun                              *)
(***************************************************************************)
Upstreams(d) == d.requires \cup DOMAIN d.consumes
Bound(g) == {o \in Obligations : g[o] # NoDefinition}

ASSUME ConstantsAssumption ==
    /\ Obligations \subseteq Nat \ {0}
    /\ NoDefinition \notin Definitions
    /\ InitialGraph \in [Obligations -> Definitions \cup {NoDefinition}]

\* The project after initialize and one graph patch that binds InitialGraph.
InitialHistory ==
    [head |-> 2,
     obligations |-> InitialGraph,
     ordinals |-> [o \in Obligations |-> IF o \in Bound(InitialGraph) THEN 2 ELSE 0],
     runs |-> [r \in RunIds |-> NoRun],
     receipts |-> [r \in RunIds |-> NoReceipt],
     settled |-> {},
     reservations |-> [r \in RunIds |-> NoReservation]]

-----------------------------------------------------------------------------
(* Semantic identity and lifecycle (graph/identity.ts, project-state.ts)   *)

KnownRuns(h) == {r \in RunIds : h.runs[r] # NoRun}
Candidates(h, o, key) ==
    {r \in KnownRuns(h) : h.runs[r].obligation = o /\ h.runs[r].key = key}
Latest(h, rs) == CHOOSE r \in rs : \A s \in rs : h.runs[s].claim <= h.runs[r].claim
DoneRuns(h, rs) == {r \in rs : h.receipts[r].disposition = "DONE"}

Unrealized == [status |-> "UNREALIZED"]

\* The status of the latest run of the current key when none of them is DONE.
RunStatus(h, r) ==
    LET receipt == h.receipts[r]
    IN  IF \/ receipt = NoReceipt
           \/ receipt.disposition = "WAITING" /\ h.runs[r].generation > receipt.generation
        THEN "EXECUTING"
        ELSE IF receipt.disposition = "READY" THEN "UNREALIZED" ELSE receipt.disposition

\* deriveRealizationRelations for one obligation, once its key is known.
LifecycleAt(h, o, key) ==
    LET candidates == Candidates(h, o, key)
        done == DoneRuns(h, candidates)
        latest == Latest(h, candidates)
    IN  IF key # NoKey /\ done # {}
        THEN [status |-> "DONE", run |-> Latest(h, done)]
        ELSE IF key # NoKey /\ candidates # {} /\ RunStatus(h, latest) # "UNREALIZED"
        THEN [status |-> RunStatus(h, latest), run |-> latest]
        ELSE Unrealized

\* semanticDependencyIdentity: what a downstream consumes of a DONE upstream.
ConsumedIdentity(h, u, selector, run) ==
    IF selector = "verified-content"
    THEN [content |-> h.obligations[u].content]
    ELSE [settlement |-> h.receipts[run].commit]

\* obligationKey, upstreams first.  What is consumed is sorted and does not
\* name its upstream: a bag.  Control dependencies are not part of the key.
SemanticKeys(h) ==
    LET key[o \in Obligations] ==
            LET d == h.obligations[o]
                upstream(u) == LifecycleAt(h, u, key[u])
                identity(u) == [consumes |-> d.consumes[u],
                                identity |-> ConsumedIdentity(h, u, d.consumes[u], upstream(u).run)]
            IN  IF \/ d = NoDefinition
                   \/ \E u \in DOMAIN d.consumes : upstream(u).status # "DONE"
                THEN NoKey
                ELSE [work |-> d.work,
                      consumed |-> [i \in {identity(u) : u \in DOMAIN d.consumes} |->
                          Cardinality({u \in DOMAIN d.consumes : identity(u) = i})]]
    IN  key

Lifecycle(h, o) == LifecycleAt(h, o, SemanticKeys(h)[o])

InFlight == {"EXECUTING", "WAITING", "RECOVERY_REQUIRED"}

\* Mutant: only EXECUTING counts as work in flight.
HasExecuting(h) == \E o \in Bound(h.obligations) : Lifecycle(h, o).status = "EXECUTING"

HasInFlight(h) == \E o \in Bound(h.obligations) : Lifecycle(h, o).status \in InFlight

\* lifecycle.run.id = r and its status is one of the given ones.
IsCurrent(h, r, statuses) ==
    LET l == Lifecycle(h, h.runs[r].obligation)
    IN  l.status \in statuses /\ l.run = r

-----------------------------------------------------------------------------
(* Claimability and the scheduler (project-state.ts)                       *)

\* deriveClaimPrerequisites(work).error = null
ClaimPrerequisites(h, o) ==
    /\ Lifecycle(h, o).status = "UNREALIZED"
    /\ \A u \in Upstreams(h.obligations[o]) : Lifecycle(h, u).status = "DONE"
    /\ SemanticKeys(h)[o] # NoKey

\* claimabilityErrors.get(o) = null.  A static effect conflict is rejected
\* at admission; every definition here has a coordinate of its own.
Claimable(h, o) ==
    /\ o \in Bound(h.obligations)
    /\ h.obligations[o].verifier # "judgment"
    /\ ClaimPrerequisites(h, o)

\* Mutant: a claim does not move an obligation back in the queue.
ServiceAgeOfBinding(h, o) == h.ordinals[o]

\* serviceAge: the last claim of the current key, else the binding.
ServiceAge(h, o) ==
    LET current == Candidates(h, o, SemanticKeys(h)[o])
    IN  IF current = {} THEN h.ordinals[o] ELSE h.runs[Latest(h, current)].claim

\* readyWork: the oldest service age, ties by id.
IsReadyWork(h, o) ==
    /\ Claimable(h, o)
    /\ \A p \in Obligations \ {o} : Claimable(h, p) =>
          \/ ServiceAge(h, o) < ServiceAge(h, p)
          \/ ServiceAge(h, o) = ServiceAge(h, p) /\ o < p

-----------------------------------------------------------------------------
(* Admission of a graph (admission.ts, topology.ts)                        *)

\* buildGraphIndex: no unknown dependency and no cycle.
Acyclic(g) ==
    /\ \A o \in Bound(g) : Upstreams(g[o]) \subseteq Bound(g)
    /\ \A ids \in (SUBSET Bound(g)) \ {{}} : \E o \in ids : Upstreams(g[o]) \cap ids = {}

\* validateSemanticEdges: verified content exists only for some verifiers.
SemanticEdgesAvailable(g) ==
    \A o \in Bound(g) : \A u \in DOMAIN g[o].consumes :
        g[o].consumes[u] = "verified-content" => g[u].verifier \in {"status", "configmap"}

\* validateAdmission, without the static effect conflicts
GraphAdmissible(g) == Acyclic(g) /\ SemanticEdgesAvailable(g)
=============================================================================
