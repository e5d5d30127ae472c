---------------------------- MODULE ReplayProofs ----------------------------
(* Which run is the current one of an obligation, and that every fact the  *)
(* kernel appends is one that replay admits.                               *)
EXTENDS HistoryProofs, KernelSteps, WellFoundedInduction, NaturalsInduction

-----------------------------------------------------------------------------
(* The latest run                                                          *)

\* A nonempty set of numbers has a least element.
LEMMA LeastNatural ==
    ASSUME NEW T, T \subseteq Nat, T # {}
    PROVE  \E x \in T : \A y \in T : x <= y
  <1> DEFINE R == OpToRel(<, Nat)
  <1>1. IsWellFoundedOn(R, Nat)
    BY NatLessThanWellFounded, ZenonT(30)
  <1>2. \A x, y \in Nat : y < x => <<y, x>> \in R
    BY Zenon DEF OpToRel
  <1> HIDE DEF R
  <1>3. PICK x \in T : \A y \in T : ~(<<y, x>> \in R)
    BY <1>1, WFMin, ZenonT(30)
  <1>4. \A y \in T : ~(y < x)
    BY <1>2, <1>3, ZenonT(30)
  <1>5. \A y \in T : x <= y
    BY <1>4
  <1> QED BY <1>5, Zenon

\* allRuns is in claim order, so a nonempty set of runs has a latest one.
LEMMA LatestExists ==
    ASSUME NEW h, IsHistory(h), \A r \in KnownRuns(h) : h.runs[r].claim <= h.head,
           NEW rs, rs \subseteq KnownRuns(h), rs # {}
    PROVE  Latest(h, rs) \in rs
  <1> DEFINE age(r) == h.head - h.runs[r].claim
             T == {age(r) : r \in rs}
  <1>1. \A r \in rs : h.runs[r].claim \in Nat /\ h.head \in Nat /\ age(r) \in Nat
    <2> SUFFICES ASSUME NEW r \in rs
                 PROVE  h.runs[r].claim \in Nat /\ h.head \in Nat /\ age(r) \in Nat
      OBVIOUS
    <2>1. h.runs[r].claim <= h.head /\ h.runs[r].claim \in Positive /\ h.head \in Positive
      BY RunNumbers, Zenon
    <2> QED BY <2>1 DEF Positive
  <1>2. PICK x \in T : \A y \in T : x <= y
    <2>1. T \subseteq Nat /\ T # {}
      BY <1>1, Zenon
    <2> HIDE DEF T
    <2> QED BY <2>1, LeastNatural, ZenonT(30)
  <1>3. PICK r \in rs : x = age(r)
    BY <1>2, Zenon
  <1>4. \A s \in rs : age(r) <= age(s)
    BY <1>2, <1>3, Zenon
  <1>5. \A s \in rs : h.runs[s].claim <= h.runs[r].claim
    BY <1>1, <1>3, <1>4, SMTT(30)
  <1> QED BY <1>5, Zenon DEF Latest

\* The run of a DONE obligation is a run of that obligation with a DONE receipt.
LEMMA DoneRun ==
    ASSUME NEW h, IsHistory(h), \A r \in KnownRuns(h) : h.runs[r].claim <= h.head,
           NEW o \in Obligations, Lifecycle(h, o).status = "DONE"
    PROVE  LET r == Lifecycle(h, o).run
           IN  r \in KnownRuns(h) /\ h.runs[r].obligation = o /\ IsCurrent(h, r, {"DONE"})
  <1> DEFINE key == SemanticKeys(h)[o]
             candidates == Candidates(h, o, key)
             done == DoneRuns(h, candidates)
             l == LifecycleAt(h, o, key)
  <1>1. l = Lifecycle(h, o)
    BY Zenon DEF Lifecycle
  <1>3. candidates \subseteq KnownRuns(h) /\ done \subseteq candidates
    BY Zenon DEF Candidates, DoneRuns
  <1>4. candidates # {} => Latest(h, candidates) \in candidates
    BY <1>3, LatestExists, Zenon
  <1>5. done # {} => Latest(h, done) \in done
    BY <1>3, LatestExists, ZenonT(30)
  <1>6. l.run \in candidates
    <2> HIDE DEF key
    <2> QED BY <1>1, <1>3, <1>4, <1>5, SMTT(30) DEF LifecycleAt, Unrealized
  <1>7. l.run \in KnownRuns(h) /\ h.runs[l.run].obligation = o
    BY <1>6, Zenon DEF Candidates
  <1> HIDE DEF l
  <1> QED BY <1>1, <1>7, Zenon DEF IsCurrent

-----------------------------------------------------------------------------
(* The kernel appends nothing that replay rejects                          *)

\* A receipt without a binding is admitted when its kind's conditions hold.
LEMMA PlainReceiptAdmitted ==
    ASSUME NEW h, NEW r, NEW kind \in SettlementKinds \cup {"observation"}, NEW observed,
           h.runs[r] # NoRun, IsCurrent(h, r, InFlight),
           h.receipts[r].disposition \notin {"DONE", "READY"},
           kind \in ExecutingKinds => IsCurrent(h, r, {"EXECUTING"}),
           kind \in {"judgment-required", "source-retry"} => h.reservations[r] = NoReservation,
           kind \in SourceKinds => h.runs[r].definition.verifier = "source",
           kind = "source-integration" => h.reservations[r] # NoReservation
    PROVE  ReplayAdmits(h, ReceiptFact(h, r, kind, observed))
  <1> DEFINE fact == ReceiptFact(h, r, kind, observed)
  <1>1. /\ fact.type = "receipt" /\ fact.run = r /\ fact.kind = kind /\ fact.refreshes = 0
        /\ fact.generation = h.runs[r].generation /\ fact.authority = h.runs[r].authority
        /\ ~Released(fact)
    BY Zenon DEF ReceiptFact, Released
  <1>2. IsCurrent(h, r, InFlight \cup {"DONE"})
    BY Zenon DEF IsCurrent
  <1>3. kind # "effect-not-dispatched"
    BY Zenon DEF SettlementKinds
  <1> HIDE DEF fact
  <1>4. AdmitsReceipt(h, fact)
    BY <1>1, <1>2, <1>3, Zenon DEF AdmitsReceipt, CarriesCurrentAuthority, Unresolved
  <1>5. ReplayAdmits(h, fact)
    BY <1>1, <1>4, Zenon DEF ReplayAdmits
  <1> QED BY <1>5, Zenon DEF fact

\* resolve: the candidate was read at the head the append compares with.
LEMMA ResolutionAdmitted ==
    ASSUME KernelInvariant, NEW p \in Procs, ResolveCommit(p)
    PROVE  ReplayAdmits(history, newest')
  <1> DEFINE r == target[p]
  <1>1. r = permit[p].run /\ ResolutionCandidate(history, permit[p])
    BY Zenon DEF KernelInvariant, SnapshotsFaithful, ResolveCommit, CASSucceeds
  <1>2. newest' = ReceiptFact(history, r, "observation", seen[p])
    BY Zenon DEF ResolveCommit, Append
  <1>3. "observation" \notin ExecutingKinds /\ "observation" \notin SourceKinds
    BY Zenon DEF ExecutingKinds, SourceKinds
  <1> QED BY <1>1, <1>2, <1>3, PlainReceiptAdmitted, ZenonT(30) DEF ResolutionCandidate

\* deferForJudgment, recoverInterrupted and the two source settlements
LEMMA SettlementIsAdmitted ==
    ASSUME KernelInvariant, NEW p \in Procs, NEW kind \in SettlementKinds, Settle(p, kind)
    PROVE  ReplayAdmits(history, newest')
  <1> DEFINE r == permit[p].run
  <1>1. SettlementAdmitted(history, permit[p], kind)
    BY Zenon DEF Settle
  <1>2. newest' = ReceiptFact(history, r, kind, "none")
    BY Zenon DEF Settle, Append
  <1> QED BY <1>1, <1>2, PlainReceiptAdmitted, Zenon DEF SettlementAdmitted, ResolutionCandidate

\* refreshCurrentRealization: the DONE receipt it replaces is still current.
LEMMA RefreshAdmitted ==
    ASSUME KernelInvariant, NEW p \in Procs, RefreshCommit(p)
    PROVE  ReplayAdmits(history, newest')
  <1> DEFINE r == target[p]
             fact == RefreshFact(history, r, seen[p])
  <1>1. /\ r \in KnownRuns(history) /\ IsCurrent(history, r, {"DONE"})
        /\ history.receipts[r].disposition = "DONE"
        /\ history.receipts[r].kind # "source-integration"
        /\ history.reservations[r] = NoReservation
    BY Zenon DEF KernelInvariant, SnapshotsFaithful, RefreshCommit, CASSucceeds
  <1>2. newest' = fact
    BY Zenon DEF RefreshCommit, Append
  <1>3. /\ fact.type = "receipt" /\ fact.run = r /\ fact.kind = "observation"
        /\ fact.refreshes = history.receipts[r].commit
        /\ fact.generation = runs[r].generation /\ fact.authority = runs[r].authority
        /\ fact.release = NoRelease
    BY Zenon DEF RefreshFact, ReceiptFact, runs
  <1>4. fact.refreshes # 0
    <2>1. history.receipts[r] \in Receipts
      BY <1>1, SMTT(30) DEF KernelInvariant, TypeOK, IsHistory, KnownRuns, NoReceipt
    <2> QED BY <1>3, <2>1, ZenonT(30) DEF Receipts, Positive
  <1>5. IsCurrent(history, r, InFlight \cup {"DONE"}) /\ history.runs[r] # NoRun
    BY <1>1, Zenon DEF IsCurrent, KnownRuns
  <1> HIDE DEF fact
  <1>6. AdmitsRefresh(history, fact)
    BY <1>1, <1>3, Zenon DEF AdmitsRefresh, Unresolved
  <1>7. AdmitsReceipt(history, fact)
    BY Zenon, <1>3, <1>4, <1>5, <1>6
       DEF AdmitsReceipt, CarriesCurrentAuthority, Released, ExecutingKinds, SourceKinds, runs
  <1> QED BY <1>2, <1>3, <1>7, Zenon DEF ReplayAdmits

\* releaseEffectReservation: the reservation carries the generation of the
\* attempt, although an acquireExecution may have come in between.
LEMMA ReleaseIsAdmitted ==
    ASSUME KernelInvariant, NEW p \in Procs, ReleaseCommit(p)
    PROVE  ReplayAdmits(history, newest')
  <1> DEFINE r == permit[p].run
             a == attempt[p]
             reservation == history.reservations[r]
             fact == ReleaseFact(history, r, a.reservation)
  <1>1. ReleaseAdmitted(history, permit[p], a)
    BY Zenon DEF KernelInvariant, SnapshotsFaithful, ReleaseCommit, CASSucceeds
  <1>2. /\ IsCurrent(history, r, {"EXECUTING"}) /\ history.runs[r] # NoRun
        /\ reservation # NoReservation /\ reservation.commit = a.reservation
        /\ a.run = r /\ a.generation = history.runs[r].generation
        /\ a.authority = history.runs[r].authority
        /\ ReleaseWitnessSafe(history.runs[r].definition)
    BY <1>1, ZenonT(30) DEF ReleaseAdmitted, ExecutionPermits
  <1>3. Pending(p) /\ Holds(p) /\ r \in RunIds /\ a.reservation \in Positive
    BY SMTT(30) DEF KernelInvariant, EffectsAccounted, TypeOK, ReleaseCommit, Pending, Holds, Permits, Attempts
  <1>4. reservation.generation = a.generation /\ reservation.authority = a.authority
    BY <1>2, <1>3, ZenonT(30) DEF KernelInvariant, EffectsAccounted
  <1>5. newest' = fact
    BY Zenon DEF ReleaseCommit, Append
  <1>6. /\ fact.type = "receipt" /\ fact.run = r /\ fact.kind = "effect-not-dispatched"
        /\ fact.refreshes = 0 /\ fact.release = [reservation |-> a.reservation]
        /\ fact.generation = history.runs[r].generation
        /\ fact.authority = history.runs[r].authority
    BY Zenon DEF ReleaseFact, ReceiptFact
  <1>7. fact.release.reservation = a.reservation /\ Released(fact)
    BY <1>3, <1>6, SMTT(30) DEF Released, NoRelease, Positive
  <1>8. history.receipts[r].disposition \notin {"DONE", "READY"}
    BY <1>2, <1>3, ExecutingHasNoVerdict, SMTT(30) DEF KernelInvariant, TypeOK, NoReceipt
  <1>9. IsCurrent(history, r, InFlight \cup {"DONE"})
    BY <1>2, ZenonT(30) DEF IsCurrent, InFlight
  <1> HIDE DEF fact
  <1>10. CarriesCurrentAuthority(history, fact)
    BY <1>2, <1>6, Zenon DEF CarriesCurrentAuthority
  <1>11. AdmitsRelease(history, fact)
    BY <1>2, <1>4, <1>6, <1>7, <1>10, ZenonT(30) DEF AdmitsRelease
  <1>12. AdmitsReceipt(history, fact)
    BY <1>6, <1>7, <1>8, <1>9, <1>10, <1>11, ZenonT(30) DEF AdmitsReceipt, ExecutingKinds, SourceKinds
  <1> QED BY <1>5, <1>6, <1>12, Zenon DEF ReplayAdmits

\* A claim, a graph patch, a handoff and a reservation are decided and
\* appended at the same head.
LEMMA ImmediateFactAdmitted ==
    ASSUME KernelInvariant, NEW p \in Procs
    PROVE  /\ \A o \in Obligations, r \in RunIds : ClaimWork(p, o, r) => ReplayAdmits(history, newest')
           /\ \A bindings, retire : PatchGraph(p, bindings, retire) => ReplayAdmits(history, newest')
           /\ \A r \in RunIds : Acquire(p, r) => ReplayAdmits(history, newest')
           /\ Reserve(p) => ReplayAdmits(history, newest')
  <1>1. ASSUME NEW o \in Obligations, NEW r \in RunIds, ClaimWork(p, o, r)
        PROVE  ReplayAdmits(history, newest')
    <2>1. newest' = ClaimFact(history, o, r) /\ ClaimAdmitted(history, o, r)
      BY <1>1, Zenon DEF ClaimWork, Append
    <2> QED BY <2>1, Zenon DEF ClaimFact, ClaimAdmitted, Claimable, ReplayAdmits, AdmitsClaim
  <1>2. ASSUME NEW bindings, NEW retire, PatchGraph(p, bindings, retire)
        PROVE  ReplayAdmits(history, newest')
    <2> DEFINE fact == GraphPatchFact(history, bindings, retire)
    <2>1. newest' = fact /\ GraphPatchAdmitted(history, bindings, retire)
      BY <1>2, Zenon DEF PatchGraph, Append
    <2>2. fact.type = "patch" /\ fact.retire = retire
      BY Zenon DEF GraphPatchFact
    <2> HIDE DEF fact
    <2>3. AdmitsGraphPatch(history, fact)
      BY <2>1, <2>2, Zenon DEF AdmitsGraphPatch, GraphPatchAdmitted, GraphAdmissible, fact
    <2> QED BY <2>1, <2>2, <2>3, Zenon DEF ReplayAdmits
  <1>3. ASSUME NEW r \in RunIds, Acquire(p, r)
        PROVE  ReplayAdmits(history, newest')
    <2>1. newest' = ExecutionAuthorityFact(history, r) /\ AcquireAdmitted(history, r)
      BY <1>3, Zenon DEF Acquire, Append
    <2> QED BY <2>1, Zenon DEF ExecutionAuthorityFact, AcquireAdmitted, ReplayAdmits, AdmitsExecutionAuthority
  <1>4. ASSUME Reserve(p) PROVE ReplayAdmits(history, newest')
    <2>1. newest' = ReservationFact(history, permit[p].run) /\ EffectAdmitted(history, permit[p])
      BY <1>4, Zenon DEF Reserve, Append
    <2> QED BY <2>1, Zenon DEF ReservationFact, EffectAdmitted, ExecutionPermits, ReplayAdmits,
                        AdmitsReservation, CarriesCurrentAuthority
  <1> QED BY <1>1, <1>2, <1>3, <1>4, Zenon

-----------------------------------------------------------------------------
(* The run of a refresh                                                    *)

\* The refresh fixes its snapshot and the run it is about.
LEMMA RefreshObserveStep ==
    ASSUME KernelInvariant, NEW p \in Procs, NEW o \in Obligations, RefreshObserve(p, o)
    PROVE  KernelInvariant'
  <1> USE DEF RefreshObserve, Goto, CASSucceeds, storeVars, worldVars, head, runs, Holds, Pending
  <1> DEFINE run == Lifecycle(history, o).run
  <1>1. IsHistory(history) /\ \A r \in KnownRuns(history) : history.runs[r].claim <= history.head
    BY Zenon DEF KernelInvariant, TypeOK, SnapshotsFaithful
  <1>2. run \in KnownRuns(history) /\ IsCurrent(history, run, {"DONE"})
    BY <1>1, DoneRun, ZenonT(30) DEF RefreshCandidate
  <1>3. TypeOK'
    <2>1. run \in RunIds /\ seen' \in [Procs -> Observations]
      BY <1>2, ObservedType, ZenonT(30) DEF KernelInvariant, TypeOK, KnownRuns
    <2> QED BY <2>1, ZenonT(30) DEF KernelInvariant, TypeOK, PCs
  <1>4. PermitsFenced'
    BY Zenon DEF KernelInvariant, PermitsFenced, TypeOK
  <1>5. SnapshotsFaithful'
    <2> SUFFICES ASSUME NEW q \in Procs
                 PROVE  SnapshotsFaithful!2!(q)'
      BY Zenon DEF KernelInvariant, SnapshotsFaithful
    <2>1. CASE q = p
      BY <1>2, <2>1, Zenon DEF KernelInvariant, SnapshotsFaithful, TypeOK, RefreshCandidate
    <2>2. CASE q # p
      BY <2>2, Zenon DEF KernelInvariant, SnapshotsFaithful, TypeOK
    <2> QED BY <2>1, <2>2, Zenon
  <1>6. EffectsAccounted'
    BY ZenonT(30) DEF KernelInvariant, EffectsAccounted, TypeOK
  <1> QED BY <1>3, <1>4, <1>5, <1>6, Zenon DEF KernelInvariant
=============================================================================
