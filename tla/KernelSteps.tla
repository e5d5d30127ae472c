---------------------------- MODULE KernelSteps -----------------------------
(* What a step of Kernel that appends a fact leaves in place, and that the *)
(* steps that append nothing preserve the invariant.                       *)
EXTENDS Kernel, TLAPS

-----------------------------------------------------------------------------
(* What a step that appends a fact leaves in place                         *)

\* Commit numbers and snapshots stay below the head that an append moves.
LEMMA SnapshotsOutdated ==
    ASSUME KernelInvariant, TypeOK', history'.head = history.head + 1,
           \A r \in KnownRuns(history) : r \in KnownRuns(history'),
           \A r \in KnownRuns(history') : history'.runs[r].claim <= history'.head,
           NEW p \in Procs,
           \A q \in Procs \ {p} : pc'[q] = pc[q] /\ snap'[q] = snap[q] /\ target'[q] = target[q],
           \/ pc'[p] = pc[p] /\ snap'[p] = snap[p] /\ target'[p] = target[p]
           \/ pc'[p] \in {"idle", "reserved"} /\ snap'[p] <= history.head
    PROVE  SnapshotsFaithful'
  <1>1. history.head \in Nat /\ snap' \in [Procs -> Nat]
    BY Zenon DEF KernelInvariant, TypeOK, IsHistory, Positive
  <1> SUFFICES ASSUME NEW q \in Procs
               PROVE  SnapshotsFaithful!2!(q)'
    BY Zenon DEF SnapshotsFaithful, head, runs
  <1>2. snap'[q] <= history.head
    BY Zenon DEF KernelInvariant, SnapshotsFaithful, head
  <1>3. snap'[q] <= history'.head /\ snap'[q] # history'.head
    BY <1>1, <1>2, SMTT(30)
  <1>4. pc'[q] \in {"refreshing", "observing", "observed"} => target'[q] \in KnownRuns(history')
    BY Zenon DEF KernelInvariant, SnapshotsFaithful
  <1> QED BY <1>3, <1>4, Zenon DEF SnapshotsFaithful, head

\* Runs that an append leaves alone were claimed below the new head.
LEMMA ClaimsOutdated ==
    ASSUME KernelInvariant, history'.head = history.head + 1, history'.runs = history.runs
    PROVE  \A r \in KnownRuns(history') : history'.runs[r].claim <= history'.head
  <1>1. IsHistory(history) /\ history.head \in Nat
    BY Zenon DEF KernelInvariant, TypeOK, IsHistory, Positive
  <1> SUFFICES ASSUME NEW r \in KnownRuns(history)
               PROVE  history.runs[r].claim <= history.head + 1
    BY Zenon DEF KnownRuns
  <1>2. history.runs[r].claim <= history.head /\ history.runs[r].claim \in Nat
    BY <1>1, Zenon DEF KernelInvariant, SnapshotsFaithful, Positive, head, runs, KnownRuns, IsHistory, IsRun
  <1> QED BY <1>1, <1>2, SMTT(30)

\* An append that leaves receipts, reservations and pending effects alone
\* leaves them accounted for.
LEMMA EffectsStayAccounted ==
    ASSUME KernelInvariant, history'.head = history.head + 1,
           history'.receipts = history.receipts, history'.settled = history.settled,
           history'.reservations = history.reservations, dispatches' = dispatches,
           \A q \in Procs : Pending(q)' =>
              Pending(q) /\ attempt'[q] = attempt[q] /\ permit'[q] = permit[q]
    PROVE  EffectsAccounted'
  <1>1. history.head \in Nat /\ EffectsAccounted
    BY Zenon DEF KernelInvariant, TypeOK, IsHistory, Positive
  <1>2. \A r \in RunIds : history.reservations[r] # NoReservation =>
          history.reservations[r].commit \in Nat
    BY ZenonT(30) DEF KernelInvariant, TypeOK, IsHistory, Reservations, Positive
  <1>3. \A r \in RunIds : history'.reservations[r] # NoReservation =>
          history'.reservations[r].commit <= history'.head
    BY <1>1, <1>2 DEF EffectsAccounted, head
  <1> QED BY <1>1, <1>3, SMTT(30) DEF EffectsAccounted, Holds, head

\* A pending effect stays accounted for while its reservation is not released.
LEMMA PendingStays ==
    ASSUME EffectsAccounted, NEW q \in Procs, Pending(q),
           attempt'[q] = attempt[q], permit'[q] = permit[q],
           NEW r, r = attempt[q].run, dispatches'[r] = dispatches[r],
           r \in history.settled => r \in history'.settled,
           \/ history'.reservations[r] = history.reservations[r]
           \/ history'.reservations[r] = NoReservation /\ r \in history'.settled
    PROVE  EffectsAccounted!5!(q)!2'
  <1>1. EffectsAccounted!5!(q)!2
    BY Zenon DEF EffectsAccounted
  <1> QED BY <1>1, Zenon DEF Holds

-----------------------------------------------------------------------------
(* Steps that append nothing                                               *)

\* Effects stay accounted for when no call comes to be between its
\* reservation and its dispatch.
LEMMA EffectsUntouched ==
    ASSUME EffectsAccounted, history' = history, dispatches' = dispatches,
           \A q \in Procs : Pending(q)' =>
              Pending(q) /\ attempt'[q] = attempt[q] /\ permit'[q] = permit[q]
    PROVE  EffectsAccounted'
  BY SMTT(30) DEF EffectsAccounted, Holds, head

\* What a process sees of the provider is an observation.
LEMMA ObservedType ==
    ASSUME NEW d PROVE Observed(d) \subseteq Observations
  BY SMTT(30) DEF Observed, Observations

\* The head a process reads is the newest snapshot there is.
LEMMA ReadStep ==
    ASSUME KernelInvariant, NEW p \in Procs, Read(p)
    PROVE  KernelInvariant'
  <1> USE DEF Read, Goto, Remember, storeVars, worldVars, processVars, head, runs, Holds, Pending
  <1>1. TypeOK'
    BY Zenon DEF KernelInvariant, TypeOK, PCs, IsHistory, Positive
  <1>2. PermitsFenced'
    BY Zenon DEF KernelInvariant, PermitsFenced, TypeOK
  <1>3. SnapshotsFaithful'
    BY SMTT(30) DEF KernelInvariant, SnapshotsFaithful, TypeOK, IsHistory, Positive
  <1>4. EffectsAccounted'
    BY DEF KernelInvariant, EffectsAccounted, TypeOK
  <1> QED BY <1>1, <1>2, <1>3, <1>4, Zenon DEF KernelInvariant

\* A call that returns without an append leaves at most the permit behind.
LEMMA ReturnStep ==
    ASSUME KernelInvariant, NEW p \in Procs, Return(p), UNCHANGED <<storeVars, worldVars>>,
           permit' = permit \/ Hold(p, NoPermit)
    PROVE  KernelInvariant'
  <1> USE DEF Return, Goto, Remember, Hold, storeVars, worldVars, head, runs, Holds, Pending
  <1>1. TypeOK'
    BY Zenon DEF KernelInvariant, TypeOK, PCs, Observations
  <1>2. PermitsFenced'
    BY ZenonT(30) DEF KernelInvariant, PermitsFenced, TypeOK
  <1>3. SnapshotsFaithful'
    BY SMTT(30) DEF KernelInvariant, SnapshotsFaithful, TypeOK, IsHistory, Positive
  <1>4. EffectsAccounted'
    <2>1. \A q \in Procs : Pending(q)' =>
            Pending(q) /\ attempt'[q] = attempt[q] /\ permit'[q] = permit[q]
      BY Zenon DEF KernelInvariant, TypeOK
    <2> QED BY <2>1, EffectsUntouched, Zenon DEF KernelInvariant
  <1> QED BY <1>1, <1>2, <1>3, <1>4, Zenon DEF KernelInvariant

\* A lost race, a failed release, a failed resolution and a crash return.
LEMMA FailedStep ==
    ASSUME KernelInvariant, NEW p \in Procs,
           LoseRace(p) \/ ReleaseFails(p) \/ ResolveFails(p) \/ Crash(p)
    PROVE  KernelInvariant'
  BY ReturnStep, Zenon DEF LoseRace, ReleaseFails, ResolveFails, Crash

\* A step that at most changes the provider preserves the invariant.
LEMMA WorldStep ==
    ASSUME KernelInvariant, holds' \in [Works -> BOOLEAN], inflight' \subseteq RunIds,
           UNCHANGED <<history, pc, permit, snap, target, seen, attempt, dispatches>>
    PROVE  KernelInvariant'
  <1>1. TypeOK'
    BY ZenonT(30) DEF KernelInvariant, TypeOK
  <1>2. PermitsFenced' /\ SnapshotsFaithful'
    BY Zenon DEF KernelInvariant, PermitsFenced, SnapshotsFaithful, head, runs, Holds, Pending
  <1>3. EffectsAccounted'
    BY EffectsUntouched, Zenon DEF KernelInvariant, Pending
  <1> QED BY <1>1, <1>2, <1>3, Zenon DEF KernelInvariant

\* The environment changes under the kernel, by a request that lands or not.
LEMMA EnvironmentStep ==
    ASSUME KernelInvariant, Environment
    PROVE  KernelInvariant'
  <1>1. UNCHANGED <<history, pc, permit, snap, target, seen, attempt, dispatches>>
    BY Zenon DEF Environment, Land, Drift, storeVars, processVars
  <1>2. holds' \in [Works -> BOOLEAN] /\ inflight' \subseteq RunIds
    <2>1. ASSUME NEW r \in RunIds, Land(r)
          PROVE  holds' \in [Works -> BOOLEAN] /\ inflight' \subseteq RunIds
      BY <2>1, ZenonT(30) DEF Land, KernelInvariant, TypeOK
    <2>2. ASSUME NEW w \in Works, Drift(w)
          PROVE  holds' \in [Works -> BOOLEAN] /\ inflight' \subseteq RunIds
      BY <2>2, ZenonT(30) DEF Drift, KernelInvariant, TypeOK
    <2> QED BY <2>1, <2>2, Zenon DEF Environment
  <1> QED BY <1>1, <1>2, WorldStep, Zenon

\* A witness exists only for a pending effect that was not dispatched.
LEMMA FailBeforeDispatchStep ==
    ASSUME KernelInvariant, NEW p \in Procs, FailBeforeDispatch(p)
    PROVE  KernelInvariant'
  <1> USE DEF FailBeforeDispatch, Goto, storeVars, worldVars, processVars, head, runs, Holds, Pending
  <1>1. TypeOK'
    BY Zenon DEF KernelInvariant, TypeOK, PCs
  <1>2. PermitsFenced'
    BY Zenon DEF KernelInvariant, PermitsFenced, TypeOK
  <1>3. SnapshotsFaithful'
    BY ZenonT(30) DEF KernelInvariant, SnapshotsFaithful, TypeOK
  <1>4. EffectsAccounted'
    BY DEF KernelInvariant, EffectsAccounted, TypeOK
  <1> QED BY <1>1, <1>2, <1>3, <1>4, Zenon DEF KernelInvariant

\* An observation changes nothing but what its process saw.
LEMMA ObserveStep ==
    ASSUME KernelInvariant, NEW p \in Procs, Observe(p)
    PROVE  KernelInvariant'
  <1> USE DEF Observe, Goto, storeVars, worldVars, processVars, head, runs, Holds, Pending
  <1>1. TypeOK'
    BY SMTT(30) DEF KernelInvariant, TypeOK, PCs, Observations, Observed
  <1>2. PermitsFenced'
    BY Zenon DEF KernelInvariant, PermitsFenced, TypeOK
  <1>3. SnapshotsFaithful'
    BY ZenonT(30) DEF KernelInvariant, SnapshotsFaithful, TypeOK
  <1>4. EffectsAccounted'
    BY DEF KernelInvariant, EffectsAccounted, TypeOK
  <1> QED BY <1>1, <1>2, <1>3, <1>4, ZenonT(30) DEF KernelInvariant

\* The release fixes its snapshot after every check passed.
LEMMA ReleaseReadStep ==
    ASSUME KernelInvariant, NEW p \in Procs, ReleaseRead(p)
    PROVE  KernelInvariant'
  <1> USE DEF ReleaseRead, Goto, Remember, storeVars, worldVars, processVars, head, runs, Holds, Pending
  <1>1. TypeOK'
    BY Zenon DEF KernelInvariant, TypeOK, PCs, IsHistory, Positive
  <1>2. PermitsFenced'
    BY Zenon DEF KernelInvariant, PermitsFenced, TypeOK
  <1>3. SnapshotsFaithful'
    BY SMTT(30) DEF KernelInvariant, SnapshotsFaithful, TypeOK, IsHistory, Positive
  <1>4. EffectsAccounted'
    BY DEF KernelInvariant, EffectsAccounted, TypeOK
  <1> QED BY <1>1, <1>2, <1>3, <1>4, Zenon DEF KernelInvariant

\* The resolution fixes its snapshot after its candidate was found.
LEMMA ResolveReadStep ==
    ASSUME KernelInvariant, NEW p \in Procs, ResolveRead(p)
    PROVE  KernelInvariant'
  <1> USE DEF ResolveRead, Goto, Remember, storeVars, worldVars, processVars, head, runs, Holds, Pending
  <1>1. TypeOK'
    BY ZenonT(30) DEF KernelInvariant, TypeOK, PCs, IsHistory, Positive, Permits, NoPermit
  <1>2. PermitsFenced'
    BY Zenon DEF KernelInvariant, PermitsFenced, TypeOK
  <1>3. SnapshotsFaithful'
    BY SMTT(30) DEF KernelInvariant, SnapshotsFaithful, TypeOK, PermitsFenced, IsHistory, Positive
  <1>4. EffectsAccounted'
    BY ZenonT(30) DEF KernelInvariant, EffectsAccounted, TypeOK
  <1> QED BY <1>1, <1>2, <1>3, <1>4, Zenon DEF KernelInvariant

\* The request of a pending effect is the first of its run.
LEMMA DispatchStep ==
    ASSUME KernelInvariant, NEW p \in Procs, Dispatch(p)
    PROVE  KernelInvariant'
  <1> USE DEF Dispatch, Return, Goto, Remember, storeVars, head, runs, Holds, Pending
  <1>1. attempt[p].run \in RunIds /\ dispatches[attempt[p].run] = 0
    BY ZenonT(30) DEF KernelInvariant, TypeOK, EffectsAccounted, Attempts
  <1>2. TypeOK'
    BY <1>1, SMTT(30) DEF KernelInvariant, TypeOK, PCs, Observations
  <1>3. PermitsFenced'
    BY ZenonT(30) DEF KernelInvariant, PermitsFenced, TypeOK
  <1>4. SnapshotsFaithful'
    BY SMTT(30) DEF KernelInvariant, SnapshotsFaithful, TypeOK, IsHistory, Positive
  <1>5. \A r \in RunIds : dispatches'[r] = IF r = attempt[p].run THEN 1 ELSE dispatches[r]
    BY <1>1, SMTT(30) DEF KernelInvariant, TypeOK
  <1>6. \A q \in Procs : Pending(q)' => q # p /\ Pending(q) /\ attempt'[q] = attempt[q]
    BY Zenon DEF KernelInvariant, TypeOK
  <1>7. Pending(p) /\ history' = history /\ permit' = permit
    BY ZenonT(30)
  <1> HIDE DEF Dispatch, Return
  <1>8. EffectsAccounted'
    <2>1. ASSUME NEW q \in Procs, Pending(q)' PROVE EffectsAccounted!5!(q)!2'
      <3>1. Pending(q) /\ attempt'[q] = attempt[q] /\ attempt[q].run # attempt[p].run
        BY <1>6, <1>7, <2>1, Zenon DEF KernelInvariant, EffectsAccounted
      <3>2. attempt[q].run \in RunIds
        BY <3>1, SMTT(30) DEF KernelInvariant, EffectsAccounted, TypeOK, Attempts
      <3> QED BY <1>5, <1>7, <3>1, <3>2, PendingStays, ZenonT(30) DEF KernelInvariant
    <2>2. \A r \in RunIds : /\ dispatches'[r] <= 1
                            /\ dispatches'[r] > 0 =>
                                 history.reservations[r] # NoReservation \/ r \in history.settled
      BY <1>1, <1>5, <1>7, SMTT(30) DEF KernelInvariant, EffectsAccounted
    <2> QED BY <1>6, <1>7, <2>1, <2>2, SMTT(30) DEF KernelInvariant, EffectsAccounted
  <1> QED BY <1>2, <1>3, <1>4, <1>8, Zenon DEF KernelInvariant
=============================================================================
