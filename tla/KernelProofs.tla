---------------------------- MODULE KernelProofs ----------------------------
(* The inductive invariant of Kernel and the safety properties it implies, *)
(* for every graph, every set of processes and runs, and histories of      *)
(* every length.                                                           *)
EXTENDS ReplayProofs, KernelAppends, KernelAuthority

-----------------------------------------------------------------------------
(* Steps that settle or release an effect                                  *)

\* resolve: absence never makes a run with a reservation retryable.
LEMMA ResolveCommitStep ==
    ASSUME KernelInvariant, NEW p \in Procs, ResolveCommit(p)
    PROVE  KernelInvariant'
  <1> DEFINE fact == ReceiptFact(history, target[p], "observation", seen[p])
  <1>1. target[p] \in KnownRuns(history) /\ IsHistory(history)
    BY Zenon DEF ResolveCommit, KernelInvariant, SnapshotsFaithful, TypeOK
  <1>2. /\ fact.type = "receipt" /\ fact.run = target[p] /\ fact.kind = "observation"
        /\ fact.generation = history.runs[target[p]].generation /\ fact.release = NoRelease
    BY Zenon DEF ReceiptFact
  <1>3. fact.generation \in Positive /\ fact.kind \in ReceiptKinds
    BY <1>1, <1>2, RunNumbers, Zenon DEF ReceiptKinds
  <1>4. history' = Advance(history, fact) /\ permit' = permit /\ UNCHANGED worldVars /\ Return(p)
    BY Zenon DEF ResolveCommit, Append, worldVars
  <1> HIDE DEF fact
  <1>5. ReceiptDisposition(history, fact) # "WAITING"
    BY <1>2, Zenon DEF ReceiptDisposition, Disposition
  <1>6. ~Released(fact)
    BY <1>2, Zenon DEF Released
  <1>7. ReceiptDisposition(history, fact) = "READY" =>
          history.reservations[fact.run] = NoReservation
    BY <1>2, <1>6, Zenon DEF ReceiptDisposition, Disposition, Unresolved, ReservedEffectReplaySafe,
                      TerminalAbsenceReplay
  <1> QED BY <1>1, <1>2, <1>3, <1>4, <1>5, <1>6, <1>7, ReceiptStep, ZenonT(30)

\* refreshCurrentRealization, as resolve
LEMMA RefreshCommitStep ==
    ASSUME KernelInvariant, NEW p \in Procs, RefreshCommit(p)
    PROVE  KernelInvariant'
  <1> DEFINE fact == RefreshFact(history, target[p], seen[p])
  <1>1. target[p] \in KnownRuns(history) /\ IsHistory(history)
    BY ZenonT(30) DEF RefreshCommit, KernelInvariant, SnapshotsFaithful, TypeOK
  <1>2. /\ fact.type = "receipt" /\ fact.run = target[p] /\ fact.kind = "observation"
        /\ fact.generation = history.runs[target[p]].generation /\ fact.release = NoRelease
    BY Zenon DEF RefreshFact, ReceiptFact
  <1>3. fact.generation \in Positive /\ fact.kind \in ReceiptKinds
    BY <1>1, <1>2, RunNumbers, Zenon DEF ReceiptKinds
  <1>4. history' = Advance(history, fact) /\ permit' = permit /\ UNCHANGED worldVars /\ Return(p)
    BY Zenon DEF RefreshCommit, Append, worldVars
  <1> HIDE DEF fact
  <1>5. ReceiptDisposition(history, fact) # "WAITING"
    BY <1>2, Zenon DEF ReceiptDisposition, Disposition
  <1>6. ~Released(fact)
    BY <1>2, Zenon DEF Released
  <1>7. ReceiptDisposition(history, fact) = "READY" =>
          history.reservations[fact.run] = NoReservation
    BY <1>2, <1>6, Zenon DEF ReceiptDisposition, Disposition, Unresolved, ReservedEffectReplaySafe,
                      TerminalAbsenceReplay
  <1> QED BY <1>1, <1>2, <1>3, <1>4, <1>5, <1>6, <1>7, ReceiptStep, ZenonT(30)

\* Deferral, interruption and the source settlements are for EXECUTING runs.
LEMMA SettleStep ==
    ASSUME KernelInvariant, NEW p \in Procs, NEW kind \in SettlementKinds, Settle(p, kind)
    PROVE  KernelInvariant'
  <1> DEFINE r == permit[p].run
             fact == ReceiptFact(history, r, kind, "none")
  <1>1. r \in KnownRuns(history) /\ r \in RunIds /\ IsHistory(history)
    BY Zenon DEF Settle, Holds, KernelInvariant, PermitsFenced, TypeOK, KnownRuns
  <1>2. /\ fact.type = "receipt" /\ fact.run = r /\ fact.kind = kind
        /\ fact.generation = history.runs[r].generation /\ fact.release = NoRelease
    BY Zenon DEF ReceiptFact
  <1>3. fact.generation \in Positive /\ fact.kind \in ReceiptKinds
    BY <1>1, <1>2, RunNumbers, Zenon DEF ReceiptKinds
  <1>4. /\ history' = Advance(history, fact) /\ permit' = permit /\ UNCHANGED worldVars
        /\ Idle(p) /\ UNCHANGED processVars
    BY Zenon DEF Settle, Append, worldVars, processVars
  <1>5. /\ IsCurrent(history, r, {"EXECUTING"})
        /\ kind = "source-retry" => history.reservations[r] = NoReservation
    BY ZenonT(30) DEF Settle, SettlementAdmitted
  <1> HIDE DEF fact, r
  <1>6. r \notin history.settled
    BY <1>1, <1>5, ExecutingHasNoVerdict, SMTT(30) DEF KernelInvariant, EffectsAccounted, NoReceipt
  <1>7. ~Released(fact)
    BY <1>2, Zenon DEF Released
  <1>8. ReceiptDisposition(history, fact) = "READY" =>
          history.reservations[fact.run] = NoReservation
    BY <1>2, <1>5, Zenon DEF ReceiptDisposition, Disposition, SettlementKinds
  <1> QED BY <1>1, <1>2, <1>3, <1>4, <1>6, <1>7, <1>8, ReceiptStep, ZenonT(30)

\* A release is by the only process that could still dispatch the effect.
LEMMA ReleaseCommitStep ==
    ASSUME KernelInvariant, NEW p \in Procs, ReleaseCommit(p)
    PROVE  KernelInvariant'
  <1> DEFINE r == permit[p].run
             fact == ReleaseFact(history, r, attempt[p].reservation)
  <1>1. /\ Pending(p) /\ Holds(p) /\ attempt[p].run = r /\ dispatches[r] = 0
        /\ \A q \in Procs \ {p} : Pending(q) => attempt[q].run # r
    BY SMTT(30) DEF ReleaseCommit, Pending, KernelInvariant, EffectsAccounted
  <1>2. r \in KnownRuns(history) /\ IsHistory(history)
    BY <1>1, ZenonT(30) DEF KernelInvariant, PermitsFenced, TypeOK
  <1>3. /\ fact.type = "receipt" /\ fact.run = r /\ fact.kind = "effect-not-dispatched"
        /\ fact.generation = history.runs[r].generation
    BY Zenon DEF ReleaseFact, ReceiptFact
  <1>4. fact.generation \in Positive /\ fact.kind \in ReceiptKinds
    BY <1>2, <1>3, RunNumbers, Zenon DEF ReceiptKinds
  <1>5. history' = Advance(history, fact) /\ permit' = permit /\ UNCHANGED worldVars /\ Return(p)
    BY Zenon DEF ReleaseCommit, Append, worldVars
  <1> HIDE DEF fact, r
  <1>6. ReceiptDisposition(history, fact) # "WAITING"
    BY <1>3, Zenon DEF ReceiptDisposition, Disposition
  <1>7. \A q \in Procs : Pending(q)' => attempt'[q].run # r
    BY <1>1, <1>5, Zenon DEF Return, Goto, Pending, KernelInvariant, TypeOK
  <1> QED BY <1>1, <1>2, <1>3, <1>4, <1>5, <1>6, <1>7, ReceiptStep, ZenonT(30)

-----------------------------------------------------------------------------
(* The invariant of the kernel                                             *)

\* A project that was initialized and patched once, with no process at work.
LEMMA InitInvariant == Init => KernelInvariant
  <1> SUFFICES ASSUME Init PROVE KernelInvariant
    OBVIOUS
  <1> USE DEF Init, head, runs, Holds
  <1>1. /\ history.head = 2 /\ history.obligations = InitialGraph
        /\ history.runs = [r \in RunIds |-> NoRun]
        /\ history.receipts = [r \in RunIds |-> NoReceipt]
        /\ history.settled = {}
        /\ history.reservations = [r \in RunIds |-> NoReservation]
    BY Zenon DEF InitialHistory
  <1>2. IsHistory(history)
    BY <1>1, ConstantsAssumption, SMTT(30) DEF InitialHistory, IsHistory, Positive
  <1>3. KnownRuns(history) = {}
    BY <1>1, Zenon DEF KnownRuns
  <1>4. TypeOK
    BY <1>2, Zenon DEF TypeOK, PCs, Observations
  <1>5. PermitsFenced
    BY Zenon DEF PermitsFenced
  <1>6. SnapshotsFaithful
    BY <1>1, <1>3, SMTT(30) DEF SnapshotsFaithful
  <1>7. EffectsAccounted
    BY <1>1 DEF EffectsAccounted, Pending
  <1> QED BY <1>4, <1>5, <1>6, <1>7, ZenonT(30) DEF KernelInvariant

\* A step that appends a fact preserves the invariant.
LEMMA AppendsInvariant ==
    ASSUME KernelInvariant, NEW p \in Procs, Appends(p)
    PROVE  KernelInvariant'
  <1>1. CASE \E o \in Obligations, r \in RunIds : ClaimWork(p, o, r)
    BY <1>1, ClaimWorkStep, Zenon
  <1>2. CASE \E r \in RunIds : Acquire(p, r)
    BY <1>2, AcquireStep, Zenon
  <1>3. CASE \E kind \in SettlementKinds : Settle(p, kind)
    BY <1>3, SettleStep, Zenon
  <1>4. CASE \E o \in Obligations, d \in Definitions : PatchGraph(p, [x \in {o} |-> d], {})
    <2>1. PICK o \in Obligations, d \in Definitions : PatchGraph(p, [x \in {o} |-> d], {})
      BY <1>4, ZenonT(30)
    <2> DEFINE bindings == [x \in {o} |-> d]
    <2>2. \A x \in DOMAIN bindings : bindings[x] \in Definitions
      OBVIOUS
    <2> HIDE DEF bindings
    <2> QED BY <2>1, <2>2, PatchGraphStep, Zenon DEF bindings
  <1>5. CASE \E o \in Obligations : PatchGraph(p, [x \in {} |-> NoDefinition], {o})
    <2>1. PICK o \in Obligations : PatchGraph(p, [x \in {} |-> NoDefinition], {o})
      BY <1>5, Zenon
    <2> DEFINE bindings == [x \in {} |-> NoDefinition]
    <2>2. \A x \in DOMAIN bindings : bindings[x] \in Definitions
      OBVIOUS
    <2> QED BY <2>1, <2>2, PatchGraphStep, Zenon
  <1> QED BY ZenonT(30), <1>1, <1>2, <1>3, <1>4, <1>5, RefreshCommitStep, ReserveStep, ReleaseCommitStep,
             ResolveCommitStep DEF Appends

\* Every other step preserves it, and so does stuttering.
LEMMA NextInvariant ==
    ASSUME KernelInvariant, [Next]_vars
    PROVE  KernelInvariant'
  <1>1. ASSUME NEW p \in Procs, Steps(p) PROVE KernelInvariant'
    BY ZenonT(30), <1>1, ReadStep, RefreshObserveStep, DispatchStep, FailBeforeDispatchStep,
       ReleaseReadStep, ResolveReadStep, ObserveStep, FailedStep DEF Steps
  <1>2. CASE Environment
    BY <1>2, EnvironmentStep, Zenon
  <1>3. CASE UNCHANGED vars
    BY <1>3, WorldStep, ZenonT(30) DEF KernelInvariant, TypeOK, vars, storeVars, processVars, worldVars
  <1> QED BY <1>1, <1>2, <1>3, AppendsInvariant, Zenon DEF Next

\* For every graph and every number of processes, runs and commits: what a
\* process remembers of its permit, its snapshot and its effect agrees with
\* the durable history throughout every kernel call of engine.ts.
THEOREM KernelIsInvariant == Spec => []KernelInvariant
  <1>1. Init => KernelInvariant
    BY InitInvariant, Zenon
  <1>2. KernelInvariant /\ [Next]_vars => KernelInvariant'
    BY NextInvariant, Zenon
  <1> QED BY <1>1, <1>2, PTL DEF Spec

\* Replay only ever sees well-typed facts, so the projection is defined.
THEOREM TypeCorrect == Spec => []TypeOK
  <1>1. KernelInvariant => TypeOK
    BY Zenon DEF KernelInvariant
  <1> QED BY <1>1, KernelIsInvariant, PTL

\* Execution generations fence: executionPermits honours at most one of the
\* permits that processes hold for a run.
THEOREM AuthorityIsSingle == Spec => []SingleAuthority
  <1>1. KernelInvariant => SingleAuthority
    BY SMTT(30) DEF KernelInvariant, PermitsFenced, SingleAuthority, ExecutionPermits
  <1> QED BY <1>1, KernelIsInvariant, PTL

\* beginEffect and the receipts it looks at let at most one effect of a run
\* leave any process.
THEOREM EffectIsIssuedOnce == Spec => []EffectOncePerRun
  <1>1. KernelInvariant => EffectOncePerRun
    BY Zenon DEF KernelInvariant, EffectsAccounted, EffectOncePerRun
  <1> QED BY <1>1, KernelIsInvariant, PTL

\* A reservation leaves the history only by a verified observation or by a
\* release whose request was never dispatched.
THEOREM EffectIsRemembered == Spec => []IssuedEffectNeverForgotten
  <1>1. KernelInvariant => IssuedEffectNeverForgotten
    BY DEF KernelInvariant, EffectsAccounted, IssuedEffectNeverForgotten, EffectIssued, Pending
  <1> QED BY <1>1, KernelIsInvariant, PTL

\* Whatever the other processes append meanwhile, each fact an operation of
\* engine.ts appends is one replay.ts accepts at that point of the history:
\* the project can always be opened again.
THEOREM AppendedFactsReplay == Spec => EngineFactsReplay
  <1>1. KernelInvariant /\ [Next]_vars => [head' # head => ReplayAdmits(history, newest')]_vars
    <2> SUFFICES ASSUME KernelInvariant, Next, head' # head
                 PROVE  ReplayAdmits(history, newest')
      OBVIOUS
    <2>1. ~Environment
      BY Zenon DEF Environment, Land, Drift, storeVars, head
    <2>2. \A p \in Procs : ~Steps(p)
      BY ZenonT(30) DEF Steps, Read, RefreshObserve, LoseRace, Dispatch, FailBeforeDispatch, ReleaseRead,
             ReleaseFails, ResolveRead, Observe, ResolveFails, Crash, storeVars, head
    <2>3. PICK p \in Procs : Appends(p)
      BY <2>1, <2>2, Zenon DEF Next
    <2> QED BY ZenonT(30), <2>3, ImmediateFactAdmitted, ResolutionAdmitted, SettlementIsAdmitted,
               RefreshAdmitted, ReleaseIsAdmitted DEF Appends
  <1> QED BY <1>1, KernelIsInvariant, PTL DEF Spec, EngineFactsReplay
=============================================================================
