------------------------------- MODULE Replay -------------------------------
(***************************************************************************)
(* Replay of the authority history (src/authority/replay.ts): which fact   *)
(* it accepts after a history h (ReplayAdmits) and the history it then     *)
(* continues with (Advance, the source's advanceProjection).  Replay       *)
(* decides from the facts alone.  The kernel decides too, before it        *)
(* appends, with conditions of its own (Engine); a fact the kernel appends *)
(* and replay rejects would leave a project no process can open again.     *)
(***************************************************************************)
EXTENDS ProjectState

-----------------------------------------------------------------------------
(* Effect adapter capabilities (effect-adapter.ts, semantics.ts)           *)

\* Mutant: an absent ConfigMap is taken for proof that no request is in flight.
TerminalAbsenceReplayConfigMap == {"configmap"}

\* Adapters whose replay capability is terminal-absence: none is registered.
TerminalAbsenceReplay == {}
\* Adapters whose reservation_release capability is not-dispatched.
NotDispatchedRelease == {"status"}
\* settlementSemantics: acceptedAbsenceEvidenceKinds is not empty
AcceptsAbsence(d) == d.verifier = "configmap"
\* reservedEffectReplaySafe
ReservedEffectReplaySafe(d) == d.verifier \in TerminalAbsenceReplay
\* reservedEffectReleaseWitnessSafe
ReleaseWitnessSafe(d) == d.verifier \in NotDispatchedRelease

\* projectReceipt
Disposition(d, kind, observed, unresolved, released) ==
    LET verified == \/ kind = "source-integration"
                    \/ kind = "observation" /\ observed = "verified"
        retryable == \/ kind = "source-retry"
                     \/ kind = "effect-not-dispatched" /\ released
                     \/ /\ kind = "observation" /\ observed = "absent"
                        /\ AcceptsAbsence(d)
                        /\ unresolved => ReservedEffectReplaySafe(d)
    IN  IF verified THEN "DONE"
        ELSE IF retryable THEN "READY"
        ELSE IF kind = "judgment-required" THEN "WAITING"
        ELSE "RECOVERY_REQUIRED"

-----------------------------------------------------------------------------
(* The history after an accepted fact                                      *)

\* A receipt fact is paired with an effect release in the same commit when
\* release names a reservation, and refreshes a realization when refreshes
\* names the settlement it replaces.
NoRelease == [reservation |-> 0]
Released(fact) == fact.release # NoRelease
Unresolved(h, fact) == h.reservations[fact.run] # NoReservation /\ ~Released(fact)

\* Retired ids leave the graph, then bindings enter it.
Patched(h, fact) ==
    [o \in Obligations |-> IF o \in DOMAIN fact.bindings THEN fact.bindings[o]
                           ELSE IF o \in fact.retire THEN NoDefinition
                           ELSE h.obligations[o]]

AdvanceGraphPatch(h, fact) ==
    [h EXCEPT !.head = @ + 1,
              !.obligations = Patched(h, fact),
              !.ordinals = [o \in Obligations |->
                  IF o \in DOMAIN fact.bindings THEN h.head + 1
                  ELSE IF o \in fact.retire THEN 0
                  ELSE h.ordinals[o]]]

\* Mutant: the claim leaves the run without a first execution generation.
AdvanceClaimUnfenced(h, fact) ==
    [h EXCEPT !.head = @ + 1,
              !.runs[fact.run] =
                  [obligation |-> fact.obligation, definition |-> h.obligations[fact.obligation],
                   key |-> fact.key, claim |-> h.head + 1,
                   generation |-> 0, authority |-> h.head + 1]]

AdvanceClaim(h, fact) ==
    [h EXCEPT !.head = @ + 1,
              !.runs[fact.run] =
                  [obligation |-> fact.obligation, definition |-> h.obligations[fact.obligation],
                   key |-> fact.key, claim |-> h.head + 1,
                   generation |-> 1, authority |-> h.head + 1]]

\* Mutant: the handoff is recorded, the generation it opens is not.
AdvanceExecutionAuthoritySameGeneration(h, fact) ==
    [h EXCEPT !.head = @ + 1,
              !.runs[fact.run] = [@ EXCEPT !.authority = h.head + 1]]

AdvanceExecutionAuthority(h, fact) ==
    [h EXCEPT !.head = @ + 1,
              !.runs[fact.run] =
                  [@ EXCEPT !.generation = fact.generation, !.authority = h.head + 1]]

AdvanceReservation(h, fact) ==
    [h EXCEPT !.head = @ + 1,
              !.reservations[fact.run] =
                  [commit |-> h.head + 1,
                   generation |-> fact.generation, authority |-> fact.authority]]

ReceiptDisposition(h, fact) ==
    Disposition(h.runs[fact.run].definition, fact.kind, fact.observed,
                Unresolved(h, fact), Released(fact))

AdvanceReceipt(h, fact) ==
    LET disposition == ReceiptDisposition(h, fact)
    IN  [h EXCEPT !.head = @ + 1,
                  !.receipts[fact.run] =
                      [disposition |-> disposition, kind |-> fact.kind,
                       generation |-> fact.generation, commit |-> h.head + 1],
                  !.settled = IF disposition = "DONE" THEN @ \cup {fact.run} ELSE @,
                  !.reservations[fact.run] =
                      IF Released(fact) \/ disposition \in {"DONE", "READY"}
                      THEN NoReservation ELSE @]

Advance(h, fact) ==
    IF fact.type = "patch" THEN AdvanceGraphPatch(h, fact)
    ELSE IF fact.type = "claim" THEN AdvanceClaim(h, fact)
    ELSE IF fact.type = "authority" THEN AdvanceExecutionAuthority(h, fact)
    ELSE IF fact.type = "reservation" THEN AdvanceReservation(h, fact)
    ELSE AdvanceReceipt(h, fact)

-----------------------------------------------------------------------------
(* What replay accepts (replay.ts, transaction-admission.ts)               *)

AdmitsGraphPatch(h, fact) ==
    /\ ~HasInFlight(h)
    /\ fact.retire \subseteq Bound(h.obligations)
    /\ Acyclic(Patched(h, fact))

AdmitsClaim(h, fact) ==
    /\ fact.obligation \in Bound(h.obligations)
    /\ h.runs[fact.run] = NoRun
    /\ fact.revision = h.head
    /\ ClaimPrerequisites(h, fact.obligation)
    /\ fact.key = SemanticKeys(h)[fact.obligation]

\* executionAuthorityAdvanceError, then the lifecycle
AdmitsExecutionAuthority(h, fact) ==
    /\ h.runs[fact.run] # NoRun
    /\ fact.generation = h.runs[fact.run].generation + 1
    /\ fact.previous = h.runs[fact.run].authority
    /\ IsCurrent(h, fact.run, InFlight)

\* The generation and authority commit every other fact of a run must carry.
CarriesCurrentAuthority(h, fact) ==
    /\ h.runs[fact.run] # NoRun
    /\ fact.generation = h.runs[fact.run].generation
    /\ fact.authority = h.runs[fact.run].authority

\* effectReservationAuthorityError, then the lifecycle
AdmitsReservation(h, fact) ==
    /\ CarriesCurrentAuthority(h, fact)
    /\ h.reservations[fact.run] = NoReservation
    /\ IsCurrent(h, fact.run, {"EXECUTING"})

\* effectReleaseAuthorityError, the witness, the paired receipt, the lifecycle
AdmitsRelease(h, fact) ==
    LET reservation == h.reservations[fact.run]
    IN  /\ CarriesCurrentAuthority(h, fact)
        /\ reservation # NoReservation
        /\ fact.release.reservation = reservation.commit
        /\ fact.generation = reservation.generation
        /\ fact.authority = reservation.authority
        /\ ReleaseWitnessSafe(h.runs[fact.run].definition)
        /\ fact.kind = "effect-not-dispatched"
        /\ IsCurrent(h, fact.run, {"EXECUTING"})

\* CURRENT_REALIZATION_REFRESH_BINDING_MISMATCH
AdmitsRefresh(h, fact) ==
    LET previous == h.receipts[fact.run]
    IN  /\ fact.kind = "observation"
        /\ IsCurrent(h, fact.run, {"DONE"})
        /\ previous.disposition = "DONE"
        /\ previous.kind # "source-integration"
        /\ previous.commit = fact.refreshes
        /\ ~Unresolved(h, fact)

SourceKinds == {"source-integration", "source-retry"}
ExecutingKinds == SourceKinds \cup {"judgment-required", "execution-terminated"}

AdmitsReceipt(h, fact) ==
    LET r == fact.run
        kind == fact.kind
        refresh == fact.refreshes # 0
        unresolved == Unresolved(h, fact)
    IN  /\ Released(fact) => AdmitsRelease(h, fact)
        /\ CarriesCurrentAuthority(h, fact)
        /\ IsCurrent(h, r, InFlight \cup {"DONE"})
        /\ refresh => AdmitsRefresh(h, fact)
        /\ kind \in ExecutingKinds => IsCurrent(h, r, {"EXECUTING"})
        /\ kind \in {"judgment-required", "source-retry"} => ~unresolved
        /\ kind \in SourceKinds => h.runs[r].definition.verifier = "source"
        /\ kind = "source-integration" => unresolved
        /\ kind = "effect-not-dispatched" => Released(fact)
        /\ kind = "observation" /\ ~refresh => IsCurrent(h, r, InFlight)
        /\ h.receipts[r].disposition \in {"DONE", "READY"} => refresh

ReplayAdmits(h, fact) ==
    /\ fact.type = "patch" => AdmitsGraphPatch(h, fact)
    /\ fact.type = "claim" => AdmitsClaim(h, fact)
    /\ fact.type = "authority" => AdmitsExecutionAuthority(h, fact)
    /\ fact.type = "reservation" => AdmitsReservation(h, fact)
    /\ fact.type = "receipt" => AdmitsReceipt(h, fact)
=============================================================================
