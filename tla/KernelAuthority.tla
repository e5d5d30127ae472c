-------------------------- MODULE KernelAuthority ---------------------------
(* The steps of Kernel that mint execution authority or reserve an effect  *)
(* under it preserve the invariant.                                        *)
EXTENDS HistoryProofs, KernelSteps

\* A handoff mints a permit of a generation no other permit has.
LEMMA AcquireStep ==
    ASSUME KernelInvariant, NEW p \in Procs, NEW r \in RunIds, Acquire(p, r)
    PROVE  KernelInvariant'
  <1> USE DEF Acquire, Hold, worldVars, head, runs, Holds, Pending, Idle
  <1> DEFINE fact == ExecutionAuthorityFact(history, r)
             next == history.runs[r].generation + 1
  <1>1. IsHistory(history) /\ history.head \in Nat
    BY Zenon DEF KernelInvariant, TypeOK, IsHistory, Positive
  <1>2. r \in KnownRuns(history)
    BY Zenon DEF AcquireAdmitted, KnownRuns
  <1>3. history.runs[r].generation \in Positive /\ next \in Positive
    BY <1>1, <1>2, RunNumbers, SMTT(30) DEF Positive
  <1>4. fact.type = "authority" /\ fact.run = r /\ fact.generation = next
    BY Zenon DEF ExecutionAuthorityFact
  <1>5. history' = Advance(history, fact)
    BY Zenon DEF Append
  <1> HIDE DEF fact
  <1>6. IsHistory(history')
    BY <1>1, <1>2, <1>3, <1>4, <1>5, AuthorityHistory, Zenon
  <1>7. /\ history'.head = history.head + 1
        /\ history'.runs = [history.runs EXCEPT ![r] =
              [history.runs[r] EXCEPT !.generation = fact.generation,
                                      !.authority = history.head + 1]]
        /\ history'.receipts = history.receipts
        /\ history'.settled = history.settled
        /\ history'.reservations = history.reservations
    <2>1. history' =
            [head |-> history.head + 1, obligations |-> history.obligations,
             ordinals |-> history.ordinals,
             runs |-> [history.runs EXCEPT ![fact.run] =
                [history.runs[fact.run] EXCEPT !.generation = fact.generation,
                                               !.authority = history.head + 1]],
             receipts |-> history.receipts, settled |-> history.settled,
             reservations |-> history.reservations]
      BY <1>1, <1>4, <1>5, AuthorityAdvance, ZenonT(30)
    <2> QED BY <1>4, <2>1, Zenon
  <1>8. \A s \in RunIds \ {r} : history'.runs[s] = history.runs[s]
    BY <1>1, <1>7, Zenon DEF IsHistory
  <1>9. /\ history'.runs[r].generation = next
        /\ history'.runs[r].claim = history.runs[r].claim
        /\ history'.runs[r].obligation = history.runs[r].obligation
    <2>1. IsRun(history.runs[r])
      BY <1>1, <1>2, RunNumbers, Zenon
    <2>2. history'.runs[r] = [history.runs[r] EXCEPT !.generation = fact.generation,
                                                     !.authority = history.head + 1]
      BY <1>1, <1>7, Zenon DEF IsHistory
    <2> QED BY <1>4, <2>1, <2>2, ZenonT(30) DEF IsRun
  <1>10. KnownRuns(history') = KnownRuns(history)
    <2>1. history'.runs[r] # NoRun
      <3>1. history.runs[r].obligation # 0
        BY <1>1, <1>2, RunNumbers, ConstantsAssumption, ZenonT(30) DEF IsRun
      <3> QED BY <1>9, <3>1, SMTT(30) DEF NoRun
    <2> QED BY <1>2, <1>8, <2>1, Zenon DEF KnownRuns
  <1>11. permit' = [permit EXCEPT ![p] =
            [run |-> r, generation |-> next, authority |-> history.head + 1]]
    BY ZenonT(30) DEF PermitOf
  <1> HIDE DEF next
  <1>12. TypeOK'
    BY <1>1, <1>3, <1>6, <1>11, SMTT(30) DEF KernelInvariant, TypeOK, Permits, Positive
  <1>13. PermitsFenced'
    <2>1. \A q \in Procs \ {p} : permit'[q] = permit[q]
      BY <1>11, ZenonT(30) DEF KernelInvariant, TypeOK
    <2>2. permit'[p].run = r /\ permit'[p].generation = next
      BY <1>11, SMTT(30) DEF KernelInvariant, TypeOK
    <2> HIDE DEF Acquire
    <2>3. \A q \in Procs \ {p} : Holds(q) /\ permit[q].run = r =>
            permit[q].generation <= history.runs[r].generation /\ permit[q].generation \in Nat
      BY Zenon DEF KernelInvariant, PermitsFenced, TypeOK, Permits, Positive
    <2>4. \A q \in Procs \ {p} : Holds(q) /\ permit[q].run = r =>
            permit[q].generation <= next /\ permit[q].generation # next
      BY <1>3, <2>3, SMTT(30) DEF next, Positive
    <2>5. \A q \in Procs : Holds(q)' =>
            /\ permit'[q].run \in KnownRuns(history')
            /\ permit'[q].generation <= history'.runs[permit'[q].run].generation
      <3> SUFFICES ASSUME NEW q \in Procs, Holds(q)'
                   PROVE  /\ permit'[q].run \in KnownRuns(history')
                          /\ permit'[q].generation <= history'.runs[permit'[q].run].generation
        OBVIOUS
      <3>1. CASE q = p
        BY <1>2, <1>3, <1>9, <1>10, <2>2, <3>1, SMTT(30) DEF Positive
      <3>2. CASE q # p /\ permit[q].run = r
        BY <1>2, <1>9, <1>10, <2>1, <2>4, <3>2, Zenon
      <3>3. CASE q # p /\ permit[q].run # r
        BY <1>8, <1>10, <2>1, <3>3, ZenonT(30) DEF KernelInvariant, PermitsFenced, KnownRuns
      <3> QED BY <3>1, <3>2, <3>3, ZenonT(30)
    <2>6. \A q, s \in Procs :
            q # s /\ Holds(q)' /\ Holds(s)' /\ permit'[q].run = permit'[s].run
            => permit'[q].generation # permit'[s].generation
      BY <2>1, <2>2, <2>4, SMTT(30) DEF KernelInvariant, PermitsFenced
    <2> QED BY <2>5, <2>6, ZenonT(30) DEF PermitsFenced
  <1>14. SnapshotsFaithful'
    <2>1. \A s \in KnownRuns(history') : history'.runs[s].claim <= history'.head
      <3> HIDE DEF Acquire
      <3> SUFFICES ASSUME NEW s \in KnownRuns(history)
                   PROVE  history'.runs[s].claim <= history'.head
        BY <1>10, Zenon
      <3>1. history'.runs[s].claim = history.runs[s].claim
        BY <1>8, <1>9, Zenon DEF KnownRuns
      <3>2. history.runs[s].claim <= history.head /\ history.runs[s].claim \in Nat
        BY <1>1, RunNumbers, ZenonT(30) DEF KernelInvariant, SnapshotsFaithful, Positive
      <3> QED BY <1>1, <1>7, <3>1, <3>2, SMTT(30)
    <2> QED BY <1>7, <1>10, <1>12, <2>1, SnapshotsOutdated, Zenon
  <1>15. EffectsAccounted'
    <2>1. \A q \in Procs : Pending(q)' =>
            Pending(q) /\ attempt'[q] = attempt[q] /\ permit'[q] = permit[q]
      BY <1>11, Zenon DEF KernelInvariant, TypeOK
    <2> QED BY <1>7, <2>1, EffectsStayAccounted, Zenon
  <1> QED BY <1>12, <1>13, <1>14, <1>15, Zenon DEF KernelInvariant

\* beginEffect reserves the first effect of a run: a run that is EXECUTING
\* without a reservation has no effect pending and none dispatched.
LEMMA ReserveStep ==
    ASSUME KernelInvariant, NEW p \in Procs, Reserve(p)
    PROVE  KernelInvariant'
  <1> USE DEF Reserve, Goto, worldVars, head, runs, Holds, Pending, Idle
  <1> DEFINE r == permit[p].run
             fact == ReservationFact(history, r)
  <1>1. IsHistory(history) /\ history.head \in Nat
    BY Zenon DEF KernelInvariant, TypeOK, IsHistory, Positive
  <1>2. /\ r \in KnownRuns(history) /\ r \in RunIds
        /\ permit[p].generation \in Positive /\ permit[p].authority \in Positive
    BY Zenon DEF KernelInvariant, PermitsFenced, TypeOK, Permits
  <1>3. /\ fact.type = "reservation" /\ fact.run = r
        /\ fact.generation = permit[p].generation /\ fact.authority = permit[p].authority
    BY Zenon DEF ReservationFact, EffectAdmitted, ExecutionPermits
  <1>4. history' = Advance(history, fact)
    BY Zenon DEF Append
  <1>5. history.reservations[r] = NoReservation /\ IsCurrent(history, r, {"EXECUTING"})
    BY Zenon DEF EffectAdmitted
  <1>6. attempt' = [attempt EXCEPT ![p] =
          [run |-> r, generation |-> permit[p].generation,
           authority |-> permit[p].authority, reservation |-> history.head + 1]]
    OBVIOUS
  <1> HIDE DEF fact, r
  <1>7. r \notin history.settled
    BY <1>1, <1>2, <1>5, ExecutingHasNoVerdict, SMTT(30) DEF KernelInvariant, EffectsAccounted, NoReceipt
  <1>8. IsHistory(history')
    BY <1>1, <1>2, <1>3, <1>4, ReservationHistory, Zenon
  <1>9. /\ history'.head = history.head + 1
        /\ history'.runs = history.runs
        /\ history'.receipts = history.receipts
        /\ history'.settled = history.settled
        /\ history'.reservations = [history.reservations EXCEPT ![r] =
              [commit |-> history.head + 1, generation |-> permit[p].generation,
               authority |-> permit[p].authority]]
    <2>1. history' =
            [head |-> history.head + 1, obligations |-> history.obligations,
             ordinals |-> history.ordinals, runs |-> history.runs,
             receipts |-> history.receipts, settled |-> history.settled,
             reservations |-> [history.reservations EXCEPT ![fact.run] =
                [commit |-> history.head + 1, generation |-> fact.generation,
                 authority |-> fact.authority]]]
      BY <1>1, <1>3, <1>4, ReservationAdvance, ZenonT(30)
    <2> QED BY <1>3, <2>1, Zenon
  <1>10. KnownRuns(history') = KnownRuns(history)
    BY <1>9, ZenonT(30) DEF KnownRuns
  <1>11. TypeOK'
    BY <1>1, <1>2, <1>6, <1>8, SMTT(30) DEF KernelInvariant, TypeOK, PCs, Attempts, Positive
  <1>12. PermitsFenced'
    BY <1>9, <1>10, ZenonT(30) DEF KernelInvariant, PermitsFenced
  <1>13. SnapshotsFaithful'
    <2>1. \A s \in KnownRuns(history') : history'.runs[s].claim <= history'.head
      BY <1>1, <1>9, <1>10, RunNumbers, SMTT(30) DEF KernelInvariant, SnapshotsFaithful, Positive
    <2>2. pc'[p] = "reserved" /\ snap'[p] <= history.head
      BY Zenon DEF KernelInvariant, TypeOK, SnapshotsFaithful
    <2>3. \A q \in Procs \ {p} : pc'[q] = pc[q] /\ snap'[q] = snap[q] /\ target'[q] = target[q]
      BY Zenon DEF KernelInvariant, TypeOK
    <2> QED BY <1>9, <1>10, <1>11, <2>1, <2>2, <2>3, SnapshotsOutdated, ZenonT(30)
  <1>14. EffectsAccounted'
    <2>1. \A s \in RunIds : history'.reservations[s] =
            IF s = r THEN [commit |-> history.head + 1, generation |-> permit[p].generation,
                           authority |-> permit[p].authority]
            ELSE history.reservations[s]
      BY <1>1, <1>2, <1>9, Zenon DEF IsHistory
    <2>2. history'.reservations[r] # NoReservation
      BY <1>1, <1>2, <2>1, SMTT(30) DEF NoReservation
    <2>3. dispatches[r] = 0 /\ dispatches' = dispatches
      BY <1>2, <1>5, <1>7, SMTT(30) DEF KernelInvariant, EffectsAccounted, TypeOK
    <2>4. \A q \in Procs \ {p} : attempt'[q] = attempt[q] /\ pc'[q] = pc[q]
      BY <1>6, ZenonT(30) DEF KernelInvariant, TypeOK
    <2>5. \A q \in Procs \ {p} : Pending(q) => attempt[q].run # r /\ attempt[q].run \in RunIds
      BY <1>5, <1>7, SMTT(30) DEF KernelInvariant, EffectsAccounted, TypeOK, Attempts
    <2>6. /\ attempt'[p] # NoAttempt /\ attempt'[p].run = r /\ permit' = permit /\ Holds(p)
          /\ attempt'[p].generation = permit[p].generation
          /\ attempt'[p].authority = permit[p].authority
      BY <1>1, <1>6, SMTT(30) DEF KernelInvariant, TypeOK, NoAttempt
    <2> HIDE DEF Reserve
    <2>7. \A s \in RunIds : history'.reservations[s] # NoReservation =>
            history'.reservations[s].commit <= history'.head
      BY <1>1, <1>9, <2>1, SMTT(30) DEF KernelInvariant, EffectsAccounted, IsHistory, Reservations, Positive
    <2>8. \A q \in Procs : Pending(q)' => EffectsAccounted!5!(q)!2'
      <3> SUFFICES ASSUME NEW q \in Procs, Pending(q)'
                   PROVE  EffectsAccounted!5!(q)!2'
        OBVIOUS
      <3>1. CASE q = p
        BY <2>1, <2>2, <2>3, <2>6, <1>2, <3>1, SMTT(30) DEF r
      <3>2. CASE q # p
        <4>1. Pending(q) /\ attempt'[q] = attempt[q] /\ attempt[q].run # r
              /\ attempt[q].run \in RunIds
          BY <2>4, <2>5, <3>2, Zenon
        <4>2. history'.reservations[attempt[q].run] = history.reservations[attempt[q].run]
          BY <2>1, <4>1, ZenonT(30)
        <4> QED BY <1>9, <2>3, <2>6, <4>1, <4>2, PendingStays DEF KernelInvariant
      <3> QED BY <3>1, <3>2, ZenonT(30)
    <2>9. \A q, s \in Procs : q # s /\ Pending(q)' /\ Pending(s)' =>
            attempt'[q].run # attempt'[s].run
      BY <2>4, <2>5, <2>6, SMTT(30) DEF KernelInvariant, EffectsAccounted
    <2>10. /\ \A s \in history'.settled :
                 history'.receipts[s].disposition \in {"DONE", "READY", "RECOVERY_REQUIRED"}
           /\ \A s \in RunIds : dispatches'[s] > 0 =>
                 history'.reservations[s] # NoReservation \/ s \in history'.settled
           /\ \A s \in RunIds : dispatches'[s] <= 1
      BY <1>9, <2>1, <2>2, <2>3, Zenon DEF KernelInvariant, EffectsAccounted
    <2> QED BY <2>7, <2>8, <2>9, <2>10, Zenon DEF EffectsAccounted
  <1> QED BY <1>11, <1>12, <1>13, <1>14, Zenon DEF KernelInvariant
=============================================================================
