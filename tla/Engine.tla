------------------------------- MODULE Engine -------------------------------
(***************************************************************************)
(* The operations of KernelCore (src/authority/engine.ts) as decisions:    *)
(* what an operation demands of the history it read, and the fact it       *)
(* appends when its compare-and-swap on the head succeeds.                 *)
(***************************************************************************)
EXTENDS Replay

\* A permit is the ephemeral capability minted by claim or acquireExecution.
\* Its generation and authority commit identify the capability.
NoPermit == [generation |-> 0]
PermitOf(r, generation, commit) == [run |-> r, generation |-> generation, authority |-> commit]

\* Mutant: a permit of an older generation is still honoured.
ExecutionPermitsAnyGeneration(h, permit) ==
    /\ h.runs[permit.run] # NoRun
    /\ permit.generation <= h.runs[permit.run].generation

\* executionPermits
ExecutionPermits(h, permit) ==
    /\ h.runs[permit.run] # NoRun
    /\ h.runs[permit.run].generation = permit.generation
    /\ h.runs[permit.run].authority = permit.authority

-----------------------------------------------------------------------------
(* The graph and claims                                                    *)

\* #commitGraphPatch: bindings already in force are dropped.
GraphPatchFact(h, bindings, retire) ==
    LET changed == {o \in DOMAIN bindings : h.obligations[o] # bindings[o]}
    IN  [type |-> "patch", bindings |-> [o \in changed |-> bindings[o]], retire |-> retire]

\* Mutant: the graph is patched under work in flight.
GraphPatchAdmittedWhileBusy(h, bindings, retire) ==
    LET fact == GraphPatchFact(h, bindings, retire)
    IN  /\ DOMAIN bindings \cap retire = {}
        /\ retire \subseteq Bound(h.obligations)
        /\ DOMAIN fact.bindings # {} \/ retire # {}
        /\ GraphAdmissible(Patched(h, fact))

GraphPatchAdmitted(h, bindings, retire) ==
    LET fact == GraphPatchFact(h, bindings, retire)
    IN  /\ ~HasInFlight(h)
        /\ DOMAIN bindings \cap retire = {}
        /\ retire \subseteq Bound(h.obligations)
        /\ DOMAIN fact.bindings # {} \/ retire # {}
        /\ GraphAdmissible(Patched(h, fact))

\* claim
ClaimFact(h, o, r) ==
    [type |-> "claim", run |-> r, obligation |-> o, revision |-> h.head,
     key |-> SemanticKeys(h)[o]]

ClaimAdmitted(h, o, r) == Claimable(h, o) /\ h.runs[r] = NoRun

-----------------------------------------------------------------------------
(* Execution authority and effects                                         *)

\* acquireExecution
ExecutionAuthorityFact(h, r) ==
    [type |-> "authority", run |-> r, generation |-> h.runs[r].generation + 1,
     previous |-> h.runs[r].authority]

AcquireAdmitted(h, r) ==
    /\ h.runs[r] # NoRun
    /\ h.receipts[r].disposition \notin {"DONE", "READY"}
    /\ IsCurrent(h, r, InFlight)

\* beginEffect
ReservationFact(h, r) ==
    [type |-> "reservation", run |-> r, generation |-> h.runs[r].generation,
     authority |-> h.runs[r].authority]

\* Mutant: beginEffect forgets the unresolved reservation.
EffectAdmittedTwice(h, permit) ==
    /\ ExecutionPermits(h, permit)
    /\ IsCurrent(h, permit.run, {"EXECUTING"})

EffectAdmitted(h, permit) ==
    /\ ExecutionPermits(h, permit)
    /\ IsCurrent(h, permit.run, {"EXECUTING"})
    /\ h.reservations[permit.run] = NoReservation

\* releaseEffectReservation, the checks of one iteration.  attempt is the
\* EffectAttemptBinding the witness carries.
ReleaseAdmitted(h, permit, attempt) ==
    LET r == permit.run
    IN  /\ ExecutionPermits(h, permit)
        /\ IsCurrent(h, r, {"EXECUTING"})
        /\ h.reservations[r] # NoReservation
        /\ attempt.run = r
        /\ attempt.generation = h.runs[r].generation
        /\ attempt.authority = h.runs[r].authority
        /\ attempt.reservation = h.reservations[r].commit
        /\ ReleaseWitnessSafe(h.runs[r].definition)

-----------------------------------------------------------------------------
(* Settlement                                                              *)

\* #receiptFact, and the two kinds of receipt that carry a binding
ReceiptFact(h, r, kind, observed) ==
    [type |-> "receipt", run |-> r, kind |-> kind, observed |-> observed,
     generation |-> h.runs[r].generation, authority |-> h.runs[r].authority,
     refreshes |-> 0, release |-> NoRelease]

ReleaseFact(h, r, reservation) ==
    [ReceiptFact(h, r, "effect-not-dispatched", "none")
        EXCEPT !.release = [reservation |-> reservation]]

RefreshFact(h, r, observed) ==
    [ReceiptFact(h, r, "observation", observed) EXCEPT !.refreshes = h.receipts[r].commit]

\* #resolutionCandidate, when it returns a candidate
ResolutionCandidate(h, permit) ==
    LET r == permit.run
    IN  /\ h.runs[r] # NoRun
        /\ h.receipts[r].disposition \notin {"DONE", "READY"}
        /\ h.runs[r].obligation \in Bound(h.obligations)
        /\ ExecutionPermits(h, permit)
        /\ IsCurrent(h, r, InFlight)

\* refreshCurrentRealization up to the observation
RefreshCandidate(h, o) ==
    LET r == Lifecycle(h, o).run
    IN  /\ o \in Bound(h.obligations)
        /\ Lifecycle(h, o).status = "DONE"
        /\ r \in KnownRuns(h)
        /\ h.receipts[r].disposition = "DONE"
        /\ h.receipts[r].kind # "source-integration"
        /\ h.reservations[r] = NoReservation

\* #settleWithoutObservation: deferForJudgment, recoverInterrupted,
\* settleSourceIntegration and retrySourceIntegration
SettlementAdmitted(h, permit, kind) ==
    LET r == permit.run
    IN  /\ ResolutionCandidate(h, permit)
        /\ IsCurrent(h, r, {"EXECUTING"})
        /\ kind = "source-integration" => h.reservations[r] # NoReservation
        /\ kind \in {"judgment-required", "source-retry"} => h.reservations[r] = NoReservation
        /\ kind \in SourceKinds => h.runs[r].definition.verifier = "source"
=============================================================================
