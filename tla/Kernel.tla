------------------------------- MODULE Kernel -------------------------------
(***************************************************************************)
(* Independent processes that use one project authority: core loops, the   *)
(* project agent, an operator's command line.  Each holds at most one      *)
(* execution permit in memory, may lose it in a crash, and may be          *)
(* overtaken by the others between any two of its steps.  The environment  *)
(* (the provider a postcondition is about) applies a dispatched request    *)
(* late or never, and drifts on its own.                                   *)
(***************************************************************************)
EXTENDS Engine

CONSTANTS
    Procs,          \* processes with a kernel of their own
    MaxHistory      \* bound on the length of the history

VARIABLES
    history,        \* the replayed history at the head of the store
    newest,         \* the fact of the newest commit
    pc,             \* where a process is inside a kernel call
    permit,         \* the permit in the memory of a process
    snap,           \* the head a process read for its pending append
    target,         \* the run a pending observation is about
    seen,           \* the pending observation
    attempt,        \* the EffectAttemptBinding of the effect in progress
    holds,          \* the postconditions that hold in the environment
    inflight,       \* runs whose request the provider may still apply
    dispatches      \* how often an effect of a run left the process

storeVars == <<history, newest>>
processVars == <<pc, permit, snap, target, seen, attempt>>
worldVars == <<holds, inflight, dispatches>>
vars == <<storeVars, processVars, worldVars>>

NoTarget == "none"
NoAttempt == [reservation |-> 0]
Works == {d.work : d \in Definitions}
Observations == {"verified", "absent", "other", "none"}

Init ==
    /\ history = InitialHistory
    /\ newest = [type |-> "patch"]
    /\ pc = [p \in Procs |-> "idle"]
    /\ permit = [p \in Procs |-> NoPermit]
    /\ snap = [p \in Procs |-> 0]
    /\ target = [p \in Procs |-> NoTarget]
    /\ seen = [p \in Procs |-> "none"]
    /\ attempt = [p \in Procs |-> NoAttempt]
    /\ holds = [w \in Works |-> FALSE]
    /\ inflight = {}
    /\ dispatches = [r \in RunIds |-> 0]

-----------------------------------------------------------------------------
(* The store                                                               *)

head == history.head
runs == history.runs

\* Mutant: the append does not compare the head.
AppendUnconditionally(expected) == TRUE

\* The head is still the one the caller read.
CASSucceeds(expected) == head = expected

\* store.append when the compare-and-swap succeeds
Append(fact) ==
    /\ head < MaxHistory
    /\ history' = Advance(history, fact)
    /\ newest' = fact

-----------------------------------------------------------------------------
(* What a process remembers after its call returned                        *)

Goto(p, there) == pc' = [pc EXCEPT ![p] = there]
Remember(p, expected) == snap' = [snap EXCEPT ![p] = expected]
Hold(p, capability) == permit' = [permit EXCEPT ![p] = capability]

\* The call returned or threw: only the permit stays in memory.
Return(p) ==
    /\ Goto(p, "idle")
    /\ Remember(p, 0)
    /\ target' = [target EXCEPT ![p] = NoTarget]
    /\ seen' = [seen EXCEPT ![p] = "none"]
    /\ attempt' = [attempt EXCEPT ![p] = NoAttempt]

\* What observePostcondition may report.  A source integration or an
\* operator judgment has no observer: the call throws.
Observed(d) ==
    CASE d.verifier = "status" -> {"other"} \cup (IF holds[d.work] THEN {"verified"} ELSE {})
      [] d.verifier = "configmap" -> {"other", IF holds[d.work] THEN "verified" ELSE "absent"}
      [] OTHER -> {}

Idle(p) == pc[p] = "idle"
Holds(p) == permit[p] # NoPermit

-----------------------------------------------------------------------------
(* Operations bound to a revision read earlier                             *)

\* head, inspect or deriveReadyWork
Read(p) ==
    /\ Idle(p) /\ ~Holds(p)
    /\ Goto(p, "deciding") /\ Remember(p, head)
    /\ UNCHANGED <<storeVars, permit, target, seen, attempt, worldVars>>

ClaimWork(p, o, r) ==
    /\ pc[p] = "deciding"
    /\ CASSucceeds(snap[p])
    /\ ClaimAdmitted(history, o, r)
    /\ Append(ClaimFact(history, o, r))
    /\ Hold(p, PermitOf(r, 1, head + 1))
    /\ Return(p)
    /\ UNCHANGED worldVars

PatchGraph(p, bindings, retire) ==
    /\ pc[p] = "deciding"
    /\ CASSucceeds(snap[p])
    /\ GraphPatchAdmitted(history, bindings, retire)
    /\ Append(GraphPatchFact(history, bindings, retire))
    /\ Return(p)
    /\ UNCHANGED <<permit, worldVars>>

RefreshObserve(p, o) ==
    /\ pc[p] = "deciding"
    /\ CASSucceeds(snap[p])
    /\ RefreshCandidate(history, o)
    /\ \E observed \in Observed(runs[Lifecycle(history, o).run].definition) :
          seen' = [seen EXCEPT ![p] = observed]
    /\ target' = [target EXCEPT ![p] = Lifecycle(history, o).run]
    /\ Goto(p, "refreshing")
    /\ UNCHANGED <<storeVars, permit, snap, attempt, worldVars>>

RefreshCommit(p) ==
    /\ pc[p] = "refreshing"
    /\ CASSucceeds(snap[p])
    /\ Append(RefreshFact(history, target[p], seen[p]))
    /\ Return(p)
    /\ UNCHANGED <<permit, worldVars>>

\* STALE_REVISION, CLAIM_LOST, GRAPH_PATCH_LOST, CURRENT_REALIZATION_REFRESH_LOST
LoseRace(p) ==
    /\ pc[p] \in {"deciding", "refreshing"}
    /\ ~CASSucceeds(snap[p])
    /\ Return(p)
    /\ UNCHANGED <<storeVars, permit, worldVars>>

-----------------------------------------------------------------------------
(* Execution authority and effects                                         *)

Acquire(p, r) ==
    /\ Idle(p)
    /\ AcquireAdmitted(history, r)
    /\ Append(ExecutionAuthorityFact(history, r))
    /\ Hold(p, PermitOf(r, runs[r].generation + 1, head + 1))
    /\ UNCHANGED <<pc, snap, target, seen, attempt, worldVars>>

\* performEffect up to the invocation of the effect callback
Reserve(p) ==
    /\ Idle(p) /\ Holds(p)
    /\ EffectAdmitted(history, permit[p])
    /\ Append(ReservationFact(history, permit[p].run))
    /\ attempt' = [attempt EXCEPT ![p] =
          [run |-> permit[p].run, generation |-> permit[p].generation,
           authority |-> permit[p].authority, reservation |-> head + 1]]
    /\ Goto(p, "reserved")
    /\ UNCHANGED <<permit, snap, target, seen, worldVars>>

\* The request leaves the process; whatever the callback reports afterwards
\* proves nothing about it.
Dispatch(p) ==
    /\ pc[p] = "reserved"
    /\ inflight' = inflight \cup {attempt[p].run}
    /\ dispatches' = [dispatches EXCEPT ![attempt[p].run] = @ + 1]
    /\ Return(p)
    /\ UNCHANGED <<storeVars, permit, holds>>

\* The fresh HTTPS request fails before secureConnect: a witness is minted
\* for the exact attempt and its adapter calls releaseEffectReservation.
FailBeforeDispatch(p) ==
    /\ pc[p] = "reserved"
    /\ ReleaseWitnessSafe(runs[attempt[p].run].definition)
    /\ Goto(p, "witness")
    /\ UNCHANGED <<storeVars, permit, snap, target, seen, attempt, worldVars>>

\* The first iteration of the release: the checks pass, the single-use
\* witness is consumed and the head for the append is fixed.
ReleaseRead(p) ==
    /\ pc[p] = "witness"
    /\ ReleaseAdmitted(history, permit[p], attempt[p])
    /\ Goto(p, "releasing") /\ Remember(p, head)
    /\ UNCHANGED <<storeVars, permit, target, seen, attempt, worldVars>>

ReleaseCommit(p) ==
    /\ pc[p] = "releasing"
    /\ CASSucceeds(snap[p])
    /\ Append(ReleaseFact(history, permit[p].run, attempt[p].reservation))
    /\ Return(p)
    /\ UNCHANGED <<permit, worldVars>>

\* Either a check of the first iteration throws, or the append lost the race
\* and the second iteration finds the witness already consumed.
ReleaseFails(p) ==
    /\ \/ pc[p] = "witness" /\ ~ReleaseAdmitted(history, permit[p], attempt[p])
       \/ pc[p] = "releasing" /\ ~CASSucceeds(snap[p])
    /\ Return(p)
    /\ UNCHANGED <<storeVars, permit, worldVars>>

-----------------------------------------------------------------------------
(* Settlement                                                              *)

\* resolve: the candidate is read, then the observation is taken ...
ResolveRead(p) ==
    /\ Idle(p) /\ Holds(p)
    /\ ResolutionCandidate(history, permit[p])
    /\ Goto(p, "observing") /\ Remember(p, head)
    /\ target' = [target EXCEPT ![p] = permit[p].run]
    /\ UNCHANGED <<storeVars, permit, seen, attempt, worldVars>>

Observe(p) ==
    /\ pc[p] = "observing"
    /\ \E observed \in Observed(runs[target[p]].definition) :
          seen' = [seen EXCEPT ![p] = observed]
    /\ Goto(p, "observed")
    /\ UNCHANGED <<storeVars, permit, snap, target, attempt, worldVars>>

\* ... and the append succeeds only if nothing was appended meanwhile.
ResolveCommit(p) ==
    /\ pc[p] = "observed"
    /\ CASSucceeds(snap[p])
    /\ Append(ReceiptFact(history, target[p], "observation", seen[p]))
    /\ Return(p)
    /\ UNCHANGED <<permit, worldVars>>

\* The append lost, or the observer threw: the caller may call again.
ResolveFails(p) ==
    /\ \/ pc[p] = "observed" /\ ~CASSucceeds(snap[p])
       \/ pc[p] = "observing" /\ Observed(runs[target[p]].definition) = {}
    /\ Return(p)
    /\ UNCHANGED <<storeVars, permit, worldVars>>

\* deferForJudgment, recoverInterrupted, settleSourceIntegration,
\* retrySourceIntegration.  A source integration is settled from evidence
\* that the verified tree is integrated.
Settle(p, kind) ==
    /\ Idle(p) /\ Holds(p)
    /\ kind = "source-integration" => holds[runs[permit[p].run].definition.work]
    /\ SettlementAdmitted(history, permit[p], kind)
    /\ Append(ReceiptFact(history, permit[p].run, kind, "none"))
    /\ UNCHANGED <<processVars, worldVars>>

SettlementKinds ==
    {"judgment-required", "execution-terminated", "source-integration", "source-retry"}

-----------------------------------------------------------------------------
(* Crashes and the environment                                             *)

\* The process dies (or its caller drops the permit) and starts again.
Crash(p) ==
    /\ ~Idle(p) \/ Holds(p)
    /\ Hold(p, NoPermit)
    /\ Return(p)
    /\ UNCHANGED <<storeVars, worldVars>>

\* The provider applies a request, however long ago it was sent.
Land(r) ==
    /\ r \in inflight
    /\ holds' = [holds EXCEPT ![runs[r].definition.work] = TRUE]
    /\ inflight' = inflight \ {r}
    /\ UNCHANGED <<storeVars, processVars, dispatches>>

\* Someone else changes the provider.
Drift(w) ==
    /\ holds' = [holds EXCEPT ![w] = ~@]
    /\ UNCHANGED <<storeVars, processVars, inflight, dispatches>>

Appends(p) ==
    \/ \E o \in Obligations, r \in RunIds : ClaimWork(p, o, r)
    \/ RefreshCommit(p)
    \/ \E r \in RunIds : Acquire(p, r)
    \/ Reserve(p)
    \/ ReleaseCommit(p)
    \/ ResolveCommit(p)
    \/ \E kind \in SettlementKinds : Settle(p, kind)
    \/ \E o \in Obligations, d \in Definitions : PatchGraph(p, [x \in {o} |-> d], {})
    \/ \E o \in Obligations : PatchGraph(p, [x \in {} |-> NoDefinition], {o})

Steps(p) ==
    \/ Read(p)
    \/ \E o \in Obligations : RefreshObserve(p, o)
    \/ LoseRace(p)
    \/ Dispatch(p)
    \/ FailBeforeDispatch(p)
    \/ ReleaseRead(p)
    \/ ReleaseFails(p)
    \/ ResolveRead(p)
    \/ Observe(p)
    \/ ResolveFails(p)
    \/ Crash(p)

Environment ==
    \/ \E r \in RunIds : Land(r)
    \/ \E w \in Works : Drift(w)

Next ==
    \/ \E p \in Procs : Appends(p) \/ Steps(p)
    \/ Environment

Spec == Init /\ [][Next]_vars

-----------------------------------------------------------------------------
(* Properties                                                              *)

Positive == Nat \ {0}
Dispositions == {"DONE", "READY", "WAITING", "RECOVERY_REQUIRED"}
ReceiptKinds == SettlementKinds \cup {"observation", "effect-not-dispatched"}
PCs == {"idle", "deciding", "refreshing", "reserved", "witness", "releasing",
        "observing", "observed"}

Receipts == [disposition : Dispositions, kind : ReceiptKinds,
             generation : Positive, commit : Positive]
Reservations == [commit : Positive, generation : Positive, authority : Positive]
Permits == [run : RunIds, generation : Positive, authority : Positive]
Attempts == [run : RunIds, generation : Positive, authority : Positive,
             reservation : Positive]

IsRun(run) ==
    /\ run = [obligation |-> run.obligation, definition |-> run.definition, key |-> run.key,
              claim |-> run.claim, generation |-> run.generation, authority |-> run.authority]
    /\ run.obligation \in Obligations
    /\ run.definition \in Definitions
    /\ {run.claim, run.generation, run.authority} \subseteq Positive

IsHistory(h) ==
    /\ h = [head |-> h.head, obligations |-> h.obligations, ordinals |-> h.ordinals,
            runs |-> h.runs, receipts |-> h.receipts, settled |-> h.settled,
            reservations |-> h.reservations]
    /\ h.head \in Positive
    /\ h.obligations \in [Obligations -> Definitions \cup {NoDefinition}]
    /\ h.ordinals \in [Obligations -> Nat]
    /\ h.runs = [r \in RunIds |-> h.runs[r]]
    /\ \A r \in RunIds : h.runs[r] = NoRun \/ IsRun(h.runs[r])
    /\ h.receipts \in [RunIds -> Receipts \cup {NoReceipt}]
    /\ h.settled \subseteq RunIds
    /\ h.reservations \in [RunIds -> Reservations \cup {NoReservation}]

\* The type invariant.
TypeOK ==
    /\ IsHistory(history)
    /\ pc \in [Procs -> PCs]
    /\ permit \in [Procs -> Permits \cup {NoPermit}]
    /\ snap \in [Procs -> Nat]
    /\ target \in [Procs -> RunIds \cup {NoTarget}]
    /\ seen \in [Procs -> Observations]
    /\ attempt \in [Procs -> Attempts \cup {NoAttempt}]
    /\ holds \in [Works -> BOOLEAN]
    /\ inflight \subseteq RunIds
    /\ dispatches \in [RunIds -> Nat]

\* Every fact the kernel appends is one replay accepts at that point of the
\* history.  A fact replay rejects would make every later operation of
\* every process throw: replayProjection has no way to skip a commit.
EngineFactsReplay == [][head' # head => ReplayAdmits(history, newest')]_vars

-----------------------------------------------------------------------------
(* The inductive invariant: what the processes remember agrees with the    *)
(* history                                                                 *)

\* A process between its reservation and the outcome of its effect.
Pending(p) == pc[p] \in {"reserved", "witness", "releasing"}

\* Permits are for claimed runs, and no two of a run share a generation.
PermitsFenced ==
    /\ \A p \in Procs : Holds(p) =>
          /\ permit[p].run \in KnownRuns(history)
          /\ permit[p].generation <= runs[permit[p].run].generation
    /\ \A p, q \in Procs :
          p # q /\ Holds(p) /\ Holds(q) /\ permit[p].run = permit[q].run
          => permit[p].generation # permit[q].generation

\* A pending append was decided at the head it remembers.
SnapshotsFaithful ==
    /\ \A r \in KnownRuns(history) : runs[r].claim <= head
    /\ \A p \in Procs :
          /\ snap[p] <= head
          /\ pc[p] \in {"refreshing", "observing", "observed"} =>
                target[p] \in KnownRuns(history)
          /\ pc[p] \in {"observing", "observed"} /\ snap[p] = head =>
                Holds(p) /\ target[p] = permit[p].run /\ ResolutionCandidate(history, permit[p])
          /\ pc[p] = "releasing" /\ snap[p] = head =>
                ReleaseAdmitted(history, permit[p], attempt[p])
          /\ pc[p] = "refreshing" /\ snap[p] = head =>
                /\ IsCurrent(history, target[p], {"DONE"})
                /\ history.receipts[target[p]].disposition = "DONE"
                /\ history.receipts[target[p]].kind # "source-integration"
                /\ history.reservations[target[p]] = NoReservation

\* A reservation is made by the generation the attempt records, before any
\* other effect of the run, and only a verified observation resolves it.
EffectsAccounted ==
    /\ \A r \in history.settled :
          history.receipts[r].disposition \in {"DONE", "READY", "RECOVERY_REQUIRED"}
    /\ \A r \in RunIds :
          dispatches[r] > 0 => history.reservations[r] # NoReservation \/ r \in history.settled
    /\ \A r \in RunIds : dispatches[r] <= 1
    /\ \A r \in RunIds : history.reservations[r] # NoReservation =>
          history.reservations[r].commit <= head
    /\ \A p \in Procs : Pending(p) =>
          LET a == attempt[p]
              reservation == history.reservations[a.run]
          IN  /\ a # NoAttempt /\ Holds(p) /\ permit[p].run = a.run
              /\ dispatches[a.run] = 0
              /\ reservation # NoReservation \/ a.run \in history.settled
              /\ reservation # NoReservation /\ reservation.commit = a.reservation =>
                    reservation.generation = a.generation /\ reservation.authority = a.authority
    /\ \A p, q \in Procs :
          p # q /\ Pending(p) /\ Pending(q) => attempt[p].run # attempt[q].run

\* What every process remembers of runs, permits, snapshots and effects
\* agrees with the history, at every point of every kernel call.
KernelInvariant == TypeOK /\ PermitsFenced /\ SnapshotsFaithful /\ EffectsAccounted

-----------------------------------------------------------------------------
(* Safety                                                                  *)

\* No two processes hold a permit the kernel still honours for the same run,
\* however claims, handoffs (acquireExecution) and crashes interleave.
SingleAuthority ==
    \A p, q \in Procs :
        /\ p # q /\ Holds(p) /\ Holds(q)
        /\ permit[p].run = permit[q].run
        => ~(ExecutionPermits(history, permit[p]) /\ ExecutionPermits(history, permit[q]))

\* At most one effect of a run ever leaves any process through performEffect:
\* not after a handoff, a crash, a deferral for judgment or a recovery.
EffectOncePerRun == \A r \in RunIds : dispatches[r] <= 1

\* A run some process is about to dispatch for, or has dispatched for.
EffectIssued(r) ==
    \/ dispatches[r] > 0
    \/ \E p \in Procs : pc[p] = "reserved" /\ attempt[p].run = r

\* An issued effect is remembered by an unresolved reservation until some
\* receipt verified its postcondition: before that, READY, which lets a new
\* run issue the effect again, never follows an effect that may exist.  Once
\* a receipt did, the run is settled and a later refresh may find drift.
IssuedEffectNeverForgotten ==
    \A r \in RunIds :
        EffectIssued(r) => history.reservations[r] # NoReservation \/ r \in history.settled

\* While a run has an unresolved reservation it is the current in-flight run
\* of its obligation: the obligation is not claimable, the graph cannot be
\* patched, and a successor generation can still reconcile the effect.
ReservedRunStaysCurrent ==
    \A r \in RunIds : history.reservations[r] # NoReservation => IsCurrent(history, r, InFlight)

\* No obligation has two unresolved effects: beginEffect reserves only when
\* no earlier effect of the same obligation is unresolved.
NoUnresolvedPriorEffect ==
    \A r, s \in RunIds :
        /\ history.reservations[r] # NoReservation /\ history.reservations[s] # NoReservation
        /\ runs[r].obligation = runs[s].obligation
        => r = s

\* A trusted not-dispatched witness releases its reservation: a call of
\* releaseEffectReservation never gives up although the permit, the run and
\* the reservation are still the ones the witness is bound to.
WitnessReleasesReservation ==
    [][\A p \in Procs :
          /\ pc[p] = "releasing" /\ pc'[p] = "idle" /\ permit'[p] = permit[p]
          /\ ReleaseAdmitted(history, permit[p], attempt[p])
          => history'.reservations[attempt[p].run] = NoReservation]_vars
=============================================================================
