---------------------------- MODULE KernelAppends ---------------------------
(* Claims, graph patches and receipts preserve the invariant of Kernel.    *)
EXTENDS HistoryProofs, KernelSteps

\* A claim mints the first permit of a run nobody knew.
LEMMA ClaimWorkStep ==
    ASSUME KernelInvariant, NEW p \in Procs, NEW o \in Obligations, NEW r \in RunIds,
           ClaimWork(p, o, r)
    PROVE  KernelInvariant'
  <1> USE DEF ClaimWork, Return, Goto, Remember, Hold, worldVars, head, runs, Holds, Pending
  <1> DEFINE fact == ClaimFact(history, o, r)
  <1>1. IsHistory(history)
    BY Zenon DEF KernelInvariant, TypeOK
  <1>2. fact.type = "claim" /\ fact.run = r /\ fact.obligation = o
    BY Zenon DEF ClaimFact
  <1>3. history' = Advance(history, fact) /\ history.runs[r] = NoRun
        /\ o \in Bound(history.obligations)
    BY Zenon DEF Append, ClaimAdmitted, Claimable
  <1> HIDE DEF fact
  <1>4. IsHistory(history')
    BY <1>1, <1>2, <1>3, ClaimHistory, Zenon
  <1>5. /\ history'.head = history.head + 1
        /\ history'.runs = [history.runs EXCEPT ![r] =
              [obligation |-> o, definition |-> history.obligations[o],
               key |-> fact.key, claim |-> history.head + 1,
               generation |-> 1, authority |-> history.head + 1]]
        /\ history'.receipts = history.receipts
        /\ history'.settled = history.settled
        /\ history'.reservations = history.reservations
    <2>1. history' =
            [head |-> history.head + 1, obligations |-> history.obligations,
             ordinals |-> history.ordinals,
             runs |-> [history.runs EXCEPT ![fact.run] =
                [obligation |-> fact.obligation,
                 definition |-> history.obligations[fact.obligation],
                 key |-> fact.key, claim |-> history.head + 1,
                 generation |-> 1, authority |-> history.head + 1]],
             receipts |-> history.receipts, settled |-> history.settled,
             reservations |-> history.reservations]
      BY <1>1, <1>2, <1>3, ClaimAdvance, ZenonT(30)
    <2> QED BY <1>2, <2>1, Zenon
  <1>6. /\ history.head \in Nat
        /\ \A s \in RunIds : history'.runs[s] = IF s = r
              THEN [obligation |-> o, definition |-> history.obligations[o],
                    key |-> fact.key, claim |-> history.head + 1,
                    generation |-> 1, authority |-> history.head + 1]
              ELSE history.runs[s]
    BY <1>1, <1>5, Zenon DEF IsHistory, Positive
  <1>7. KnownRuns(history') = KnownRuns(history) \cup {r}
    BY <1>6, ConstantsAssumption DEF KnownRuns, NoRun
  <1>8. permit' = [permit EXCEPT ![p] = [run |-> r, generation |-> 1, authority |-> history.head + 1]]
    BY Zenon DEF PermitOf
  <1>9. TypeOK'
    BY <1>4, <1>6, <1>8, SMTT(30) DEF KernelInvariant, TypeOK, PCs, Observations, Permits, Positive
  <1>10. PermitsFenced'
    <2>1. \A q \in Procs \ {p} : Holds(q)' =>
            permit'[q] = permit[q] /\ Holds(q) /\ permit[q].run # r
            /\ permit[q].run \in KnownRuns(history)
      BY <1>3, <1>8, Zenon DEF KernelInvariant, PermitsFenced, KnownRuns, TypeOK
    <2>2. permit'[p].run = r /\ permit'[p].generation = 1 /\ history'.runs[r].generation = 1
      BY <1>6, <1>8, SMTT(30) DEF KernelInvariant, TypeOK
    <2> HIDE DEF ClaimWork, Return
    <2> QED BY <1>6, <1>7, <2>1, <2>2, SMTT(30) DEF KernelInvariant, PermitsFenced, KnownRuns
  <1>11. SnapshotsFaithful'
    <2>1. \A s \in KnownRuns(history') : history'.runs[s].claim <= history'.head
      <3> HIDE DEF ClaimWork, Return
      <3> SUFFICES ASSUME NEW s \in KnownRuns(history')
                   PROVE  history'.runs[s].claim <= history'.head
        OBVIOUS
      <3>1. CASE s = r
        BY <1>5, <1>6, <3>1, SMTT(30)
      <3>2. CASE s # r
        <4>1. s \in KnownRuns(history) /\ history'.runs[s] = history.runs[s]
          BY <1>6, <1>7, <3>2, Zenon DEF KnownRuns
        <4>2. history.runs[s].claim <= history.head /\ history.runs[s].claim \in Nat
          BY <1>1, <4>1, RunNumbers, ZenonT(30) DEF KernelInvariant, SnapshotsFaithful, Positive
        <4> QED BY <1>5, <1>6, <4>1, <4>2, SMTT(30)
      <3> QED BY <3>1, <3>2, Zenon
    <2>2. pc'[p] = "idle" /\ snap'[p] <= history.head
      BY <1>6, SMTT(30) DEF KernelInvariant, TypeOK
    <2>3. \A q \in Procs \ {p} : pc'[q] = pc[q] /\ snap'[q] = snap[q] /\ target'[q] = target[q]
      BY Zenon DEF KernelInvariant, TypeOK
    <2> QED BY <1>5, <1>7, <1>9, <2>1, <2>2, <2>3, SnapshotsOutdated, Zenon
  <1>12. EffectsAccounted'
    <2>1. \A q \in Procs : Pending(q)' =>
            Pending(q) /\ attempt'[q] = attempt[q] /\ permit'[q] = permit[q]
      BY <1>8, Zenon DEF KernelInvariant, TypeOK
    <2> QED BY <1>5, <2>1, EffectsStayAccounted, Zenon
  <1> QED BY <1>9, <1>10, <1>11, <1>12, Zenon DEF KernelInvariant

\* A patch binds the definitions it was given.
LEMMA PatchFact ==
    ASSUME NEW h, NEW bindings, NEW retire,
           \A o \in DOMAIN bindings : bindings[o] \in Definitions
    PROVE  LET fact == GraphPatchFact(h, bindings, retire)
           IN  /\ fact.type = "patch"
               /\ \A o \in DOMAIN fact.bindings : fact.bindings[o] \in Definitions
  BY Zenon DEF GraphPatchFact

\* A graph patch leaves runs, receipts and reservations alone.
LEMMA PatchGraphStep ==
    ASSUME KernelInvariant, NEW p \in Procs, NEW bindings, NEW retire,
           \A o \in DOMAIN bindings : bindings[o] \in Definitions,
           PatchGraph(p, bindings, retire)
    PROVE  KernelInvariant'
  <1> USE DEF PatchGraph, Return, Goto, Remember, worldVars, head, runs, Holds, Pending
  <1> DEFINE fact == GraphPatchFact(history, bindings, retire)
  <1>1. IsHistory(history) /\ history.head \in Nat
    BY Zenon DEF KernelInvariant, TypeOK, IsHistory, Positive
  <1>2. fact.type = "patch" /\ \A o \in DOMAIN fact.bindings : fact.bindings[o] \in Definitions
    BY PatchFact, Zenon
  <1>3. history' = Advance(history, fact)
    BY Zenon DEF Append
  <1> HIDE DEF fact
  <1>4. IsHistory(history')
    BY <1>1, <1>2, <1>3, GraphPatchHistory, Zenon
  <1>5. /\ history'.head = history.head + 1
        /\ history'.runs = history.runs
        /\ history'.receipts = history.receipts
        /\ history'.settled = history.settled
        /\ history'.reservations = history.reservations
    <2>1. PICK ordinals :
            history' =
               [head |-> history.head + 1, obligations |-> Patched(history, fact),
                ordinals |-> ordinals, runs |-> history.runs, receipts |-> history.receipts,
                settled |-> history.settled, reservations |-> history.reservations]
      BY <1>1, <1>2, <1>3, GraphPatchAdvance, Zenon
    <2> QED BY <2>1, Zenon
  <1>6. KnownRuns(history') = KnownRuns(history)
    BY <1>5, Zenon DEF KnownRuns
  <1>7. TypeOK'
    BY <1>4, Zenon DEF KernelInvariant, TypeOK, PCs, Observations
  <1>8. PermitsFenced'
    BY <1>5, <1>6, Zenon DEF KernelInvariant, PermitsFenced
  <1>9. SnapshotsFaithful'
    <2>1. \A s \in KnownRuns(history') : history'.runs[s].claim <= history'.head
      BY <1>5, ClaimsOutdated, Zenon
    <2>2. pc'[p] = "idle" /\ snap'[p] <= history.head
      BY <1>1, SMTT(30) DEF KernelInvariant, TypeOK
    <2>3. \A q \in Procs \ {p} : pc'[q] = pc[q] /\ snap'[q] = snap[q] /\ target'[q] = target[q]
      BY Zenon DEF KernelInvariant, TypeOK
    <2> QED BY <1>5, <1>6, <1>7, <2>1, <2>2, <2>3, SnapshotsOutdated, Zenon
  <1>10. EffectsAccounted'
    <2>1. \A q \in Procs : Pending(q)' =>
            Pending(q) /\ attempt'[q] = attempt[q] /\ permit'[q] = permit[q]
      BY Zenon DEF KernelInvariant, TypeOK
    <2> QED BY <1>5, <2>1, EffectsStayAccounted, Zenon
  <1> QED BY <1>7, <1>8, <1>9, <1>10, Zenon DEF KernelInvariant

\* A receipt preserves the invariant when a WAITING one is for a run that was
\* never verified, and one that resolves the reservation without verifying
\* it is for a run none of whose effects left or can still leave a process.
LEMMA ReceiptStep ==
    ASSUME KernelInvariant, NEW p \in Procs, NEW fact, fact.type = "receipt",
           fact.run \in KnownRuns(history), fact.kind \in ReceiptKinds,
           fact.generation \in Positive,
           history' = Advance(history, fact), permit' = permit, UNCHANGED worldVars,
           \/ Idle(p) /\ UNCHANGED processVars
           \/ Return(p),
           ReceiptDisposition(history, fact) = "WAITING" => fact.run \notin history.settled,
           Released(fact) \/ ReceiptDisposition(history, fact) = "READY" =>
              \/ history.reservations[fact.run] = NoReservation
              \/ /\ dispatches[fact.run] = 0
                 /\ \A q \in Procs : Pending(q)' => attempt'[q].run # fact.run
    PROVE  KernelInvariant'
  <1> USE DEF Return, Goto, Remember, worldVars, processVars, head, runs, Holds, Idle
  <1> DEFINE r == fact.run
             disposition == ReceiptDisposition(history, fact)
             receipt == [disposition |-> disposition, kind |-> fact.kind,
                         generation |-> fact.generation, commit |-> history.head + 1]
             resolved == Released(fact) \/ disposition \in {"DONE", "READY"}
  <1>1. IsHistory(history) /\ history.head \in Nat /\ r \in RunIds
    BY RunNumbers, Zenon DEF KernelInvariant, TypeOK, IsHistory, Positive
  <1>2. IsHistory(history')
    BY <1>1, ReceiptHistory, Zenon
  <1>3. disposition \in Dispositions
    BY DispositionType, Zenon
  <1>4. history' =
          [head |-> history.head + 1, obligations |-> history.obligations,
           ordinals |-> history.ordinals, runs |-> history.runs,
           receipts |-> [history.receipts EXCEPT ![r] = receipt],
           settled |-> IF disposition = "DONE" THEN history.settled \cup {r}
                       ELSE history.settled,
           reservations |-> [history.reservations EXCEPT ![r] =
              IF resolved THEN NoReservation ELSE history.reservations[r]]]
    BY <1>1, ReceiptAdvance, ZenonT(30)
  <1> HIDE DEF r, disposition, resolved
  <1>5. /\ history'.head = history.head + 1
        /\ history'.runs = history.runs
        /\ history'.receipts = [history.receipts EXCEPT ![r] = receipt]
        /\ history'.settled = IF disposition = "DONE" THEN history.settled \cup {r}
                              ELSE history.settled
        /\ history'.reservations = [history.reservations EXCEPT ![r] =
              IF resolved THEN NoReservation ELSE history.reservations[r]]
    BY <1>4, SMTT(30)
  <1>6. KnownRuns(history') = KnownRuns(history)
    BY <1>5, Zenon DEF KnownRuns
  <1>7. TypeOK'
    BY <1>2, SMTT(30) DEF KernelInvariant, TypeOK, PCs, Observations
  <1>8. PermitsFenced'
    BY <1>5, <1>6, SMTT(30) DEF KernelInvariant, PermitsFenced
  <1>9. SnapshotsFaithful'
    <2>1. \A s \in KnownRuns(history') : history'.runs[s].claim <= history'.head
      BY <1>5, ClaimsOutdated, Zenon
    <2>2. \/ pc'[p] = pc[p] /\ snap'[p] = snap[p] /\ target'[p] = target[p]
          \/ pc'[p] = "idle" /\ snap'[p] <= history.head
      BY <1>1, SMTT(30) DEF KernelInvariant, TypeOK
    <2>3. \A q \in Procs \ {p} : pc'[q] = pc[q] /\ snap'[q] = snap[q] /\ target'[q] = target[q]
      BY Zenon DEF KernelInvariant, TypeOK
    <2> QED BY <1>5, <1>6, <1>7, <2>1, <2>2, <2>3, SnapshotsOutdated, Zenon
  <1>10. EffectsAccounted'
    <2>1. \A s \in RunIds :
            /\ s # r => history'.reservations[s] = history.reservations[s]
            /\ s # r => history'.receipts[s] = history.receipts[s]
            /\ resolved => history'.reservations[r] = NoReservation
            /\ ~resolved => history'.reservations[r] = history.reservations[r]
            /\ history'.receipts[r].disposition = disposition
            /\ s \in history.settled => s \in history'.settled
            /\ s \in history'.settled =>
                  s \in history.settled \/ (s = r /\ disposition = "DONE")
      <3>1. /\ history.reservations \in [RunIds -> Reservations \cup {NoReservation}]
            /\ history.receipts \in [RunIds -> Receipts \cup {NoReceipt}]
        BY <1>1, Zenon DEF IsHistory
      <3>2. history'.receipts[r].disposition = disposition
        BY <1>1, <1>5, <3>1, SMTT(30)
      <3> HIDE DEF receipt
      <3>3. \A s \in RunIds \ {r} : /\ history'.reservations[s] = history.reservations[s]
                                   /\ history'.receipts[s] = history.receipts[s]
        BY <1>5, <3>1, Zenon
      <3>4. history'.reservations[r] =
              IF resolved THEN NoReservation ELSE history.reservations[r]
        BY <1>1, <1>5, <3>1, Zenon
      <3>5. /\ \A s \in history.settled : s \in history'.settled
            /\ \A s \in history'.settled :
                  s \in history.settled \/ (s = r /\ disposition = "DONE")
        <4>1. history'.settled = IF disposition = "DONE" THEN history.settled \cup {r}
                                 ELSE history.settled
          BY <1>5, Zenon
        <4> QED BY <4>1
      <3> QED BY <3>2, <3>3, <3>4, <3>5, Zenon
    <2>2. \A s \in history'.settled :
            history'.receipts[s].disposition \in {"DONE", "READY", "RECOVERY_REQUIRED"}
      <3> SUFFICES ASSUME NEW s \in history'.settled
                   PROVE  history'.receipts[s].disposition \in {"DONE", "READY", "RECOVERY_REQUIRED"}
        OBVIOUS
      <3>0. s \in RunIds
        BY <1>2, Zenon DEF IsHistory
      <3>1. CASE s = r
        BY <1>3, <2>1, <3>0, <3>1, Zenon DEF r, disposition, Dispositions
      <3>2. CASE s # r
        BY <2>1, <3>0, <3>2, Zenon DEF KernelInvariant, EffectsAccounted
      <3> QED BY <3>1, <3>2, Zenon
    <2>3. r \notin history'.settled /\ resolved =>
            \/ history.reservations[r] = NoReservation
            \/ /\ dispatches[r] = 0
               /\ \A q \in Procs : Pending(q)' => attempt'[q].run # r
      BY <1>1, <1>5, Zenon DEF r, disposition, resolved
    <2>4. \A q \in Procs : Pending(q)' => Pending(q) /\ attempt'[q] = attempt[q]
      BY ZenonT(30) DEF KernelInvariant, TypeOK, Pending
    <2> HIDE DEF Return, processVars
    <2>5. \A s \in RunIds : dispatches'[s] > 0 =>
            history'.reservations[s] # NoReservation \/ s \in history'.settled
      BY <1>1, <2>1, <2>3, SMTT(30) DEF KernelInvariant, EffectsAccounted, TypeOK
    <2>6. \A s \in RunIds : history'.reservations[s] # NoReservation =>
            history'.reservations[s].commit <= history'.head
      BY <1>1, <1>5, <2>1, SMTT(30) DEF KernelInvariant, EffectsAccounted, IsHistory, Reservations, Positive
    <2>7. \A q \in Procs : Pending(q)' => EffectsAccounted!5!(q)!2'
      <3> SUFFICES ASSUME NEW q \in Procs, Pending(q)'
                   PROVE  EffectsAccounted!5!(q)!2'
        OBVIOUS
      <3>1. Pending(q) /\ attempt'[q] = attempt[q] /\ attempt[q].run \in RunIds
        BY <2>4, SMTT(30) DEF KernelInvariant, EffectsAccounted, TypeOK, Attempts
      <3>2. EffectsAccounted!5!(q)!2
        BY <3>1, Zenon DEF KernelInvariant, EffectsAccounted
      <3>3. \/ history'.reservations[attempt[q].run] = history.reservations[attempt[q].run]
            \/ /\ history'.reservations[attempt[q].run] = NoReservation
               /\ attempt[q].run \in history'.settled
        <4>1. CASE attempt[q].run # r \/ ~resolved
          BY <2>1, <3>1, <4>1, Zenon
        <4>2. CASE attempt[q].run = r /\ resolved
          BY <2>1, <2>3, <3>1, <3>2, <4>2, ZenonT(30)
        <4> QED BY <4>1, <4>2, Zenon
      <3> QED BY <2>1, <3>1, <3>3, PendingStays, ZenonT(30) DEF KernelInvariant
    <2>8. \A q, s \in Procs : q # s /\ Pending(q)' /\ Pending(s)' =>
            attempt'[q].run # attempt'[s].run
      BY <2>4, SMTT(30) DEF KernelInvariant, EffectsAccounted
    <2>9. \A s \in RunIds : dispatches'[s] <= 1
      BY Zenon DEF KernelInvariant, EffectsAccounted
    <2> QED BY <2>2, <2>5, <2>6, <2>7, <2>8, <2>9, Zenon DEF EffectsAccounted
  <1> QED BY <1>7, <1>8, <1>9, <1>10, Zenon DEF KernelInvariant
=============================================================================
