--------------------------- MODULE HistoryProofs ----------------------------
(* What each kind of fact makes of the replayed history.                   *)
EXTENDS Kernel, TLAPS

-----------------------------------------------------------------------------
(* Lemmas about the projection                                             *)

\* The current run of an EXECUTING obligation has no receipt, or a WAITING
\* one that a later execution generation superseded.
LEMMA ExecutingHasNoVerdict ==
    ASSUME NEW h, IsHistory(h), NEW r \in RunIds, IsCurrent(h, r, {"EXECUTING"})
    PROVE  h.receipts[r] = NoReceipt \/ h.receipts[r].disposition = "WAITING"
  <1> DEFINE o == h.runs[r].obligation
             key == SemanticKeys(h)[o]
             l == LifecycleAt(h, o, key)
  <1>1. l.status = "EXECUTING" /\ l.run = r
    BY Zenon DEF IsCurrent, Lifecycle
  <1>2. RunStatus(h, r) = "EXECUTING"
    <2> HIDE DEF key
    <2> QED BY <1>1 DEF LifecycleAt, Unrealized
  <1> QED BY <1>2, Zenon DEF RunStatus, IsHistory, Receipts, Dispositions

-----------------------------------------------------------------------------
(* The history after each kind of fact (advanceProjection)                 *)

\* A graph patch changes the graph and the binding ordinals only.
LEMMA GraphPatchAdvance ==
    ASSUME NEW h, NEW fact, IsHistory(h), fact.type = "patch"
    PROVE  \E ordinals :
             Advance(h, fact) =
               [head |-> h.head + 1, obligations |-> Patched(h, fact), ordinals |-> ordinals,
                runs |-> h.runs, receipts |-> h.receipts, settled |-> h.settled,
                reservations |-> h.reservations]
             /\ ordinals \in [Obligations -> Nat]
  <1> DEFINE ordinals == [o \in Obligations |->
                             IF o \in DOMAIN fact.bindings THEN h.head + 1
                             ELSE IF o \in fact.retire THEN 0
                             ELSE h.ordinals[o]]
  <1>1. ordinals \in [Obligations -> Nat]
    BY DEF IsHistory, Positive
  <1>2. Advance(h, fact) =
          [h EXCEPT !.head = h.head + 1, !.obligations = Patched(h, fact), !.ordinals = ordinals]
    BY Zenon DEF Advance, AdvanceGraphPatch
  <1> HIDE DEF ordinals
  <1>3. Advance(h, fact) =
          [head |-> h.head + 1, obligations |-> Patched(h, fact), ordinals |-> ordinals,
           runs |-> h.runs, receipts |-> h.receipts, settled |-> h.settled,
           reservations |-> h.reservations]
    BY <1>2, ZenonT(30) DEF IsHistory
  <1> QED BY <1>1, <1>3, Zenon

\* A claim adds one run.
LEMMA ClaimAdvance ==
    ASSUME NEW h, NEW fact, IsHistory(h), fact.type = "claim"
    PROVE  Advance(h, fact) =
             [head |-> h.head + 1, obligations |-> h.obligations, ordinals |-> h.ordinals,
              runs |-> [h.runs EXCEPT ![fact.run] =
                  [obligation |-> fact.obligation, definition |-> h.obligations[fact.obligation],
                   key |-> fact.key, claim |-> h.head + 1,
                   generation |-> 1, authority |-> h.head + 1]],
              receipts |-> h.receipts, settled |-> h.settled, reservations |-> h.reservations]
  BY ZenonT(30) DEF Advance, AdvanceClaim, IsHistory

\* An execution authority changes the generation and authority of one run.
LEMMA AuthorityAdvance ==
    ASSUME NEW h, NEW fact, IsHistory(h), fact.type = "authority"
    PROVE  Advance(h, fact) =
             [head |-> h.head + 1, obligations |-> h.obligations, ordinals |-> h.ordinals,
              runs |-> [h.runs EXCEPT ![fact.run] =
                  [h.runs[fact.run] EXCEPT !.generation = fact.generation,
                                           !.authority = h.head + 1]],
              receipts |-> h.receipts, settled |-> h.settled, reservations |-> h.reservations]
  <1> DEFINE runs1 == [h.runs EXCEPT ![fact.run] =
                  [h.runs[fact.run] EXCEPT !.generation = fact.generation,
                                           !.authority = h.head + 1]]
  <1>1. Advance(h, fact) = [h EXCEPT !.head = h.head + 1, !.runs = runs1]
    BY ZenonT(30) DEF Advance, AdvanceExecutionAuthority, IsHistory
  <1> HIDE DEF runs1
  <1>2. Advance(h, fact) =
             [head |-> h.head + 1, obligations |-> h.obligations, ordinals |-> h.ordinals,
              runs |-> runs1,
              receipts |-> h.receipts, settled |-> h.settled, reservations |-> h.reservations]
    BY <1>1, ZenonT(30) DEF IsHistory
  <1> QED BY <1>2, Zenon DEF runs1

\* A reservation changes the reservation of one run.
LEMMA ReservationAdvance ==
    ASSUME NEW h, NEW fact, IsHistory(h), fact.type = "reservation"
    PROVE  Advance(h, fact) =
             [head |-> h.head + 1, obligations |-> h.obligations, ordinals |-> h.ordinals,
              runs |-> h.runs, receipts |-> h.receipts, settled |-> h.settled,
              reservations |-> [h.reservations EXCEPT ![fact.run] =
                  [commit |-> h.head + 1, generation |-> fact.generation,
                   authority |-> fact.authority]]]
  BY ZenonT(30) DEF Advance, AdvanceReservation, IsHistory

\* A receipt changes the receipt of one run and may resolve its reservation.
LEMMA ReceiptAdvance ==
    ASSUME NEW h, NEW fact, IsHistory(h), fact.type = "receipt"
    PROVE  LET disposition == ReceiptDisposition(h, fact)
           IN  Advance(h, fact) =
                 [head |-> h.head + 1, obligations |-> h.obligations, ordinals |-> h.ordinals,
                  runs |-> h.runs,
                  receipts |-> [h.receipts EXCEPT ![fact.run] =
                      [disposition |-> disposition, kind |-> fact.kind,
                       generation |-> fact.generation, commit |-> h.head + 1]],
                  settled |->
                      IF disposition = "DONE" THEN h.settled \cup {fact.run} ELSE h.settled,
                  reservations |-> [h.reservations EXCEPT ![fact.run] =
                      IF Released(fact) \/ disposition \in {"DONE", "READY"}
                      THEN NoReservation ELSE h.reservations[fact.run]]]
  <1> DEFINE disposition == ReceiptDisposition(h, fact)
             receipts1 == [h.receipts EXCEPT ![fact.run] =
                      [disposition |-> disposition, kind |-> fact.kind,
                       generation |-> fact.generation, commit |-> h.head + 1]]
             settled1 == IF disposition = "DONE" THEN h.settled \cup {fact.run} ELSE h.settled
             reservations1 == [h.reservations EXCEPT ![fact.run] =
                      IF Released(fact) \/ disposition \in {"DONE", "READY"}
                      THEN NoReservation ELSE h.reservations[fact.run]]
  <1> HIDE DEF disposition
  <1>1. Advance(h, fact) = [h EXCEPT !.head = h.head + 1, !.receipts = receipts1,
                                     !.settled = settled1, !.reservations = reservations1]
    BY Zenon DEF Advance, AdvanceReceipt, IsHistory, disposition
  <1> HIDE DEF receipts1, settled1, reservations1
  <1>2. Advance(h, fact) =
                 [head |-> h.head + 1, obligations |-> h.obligations, ordinals |-> h.ordinals,
                  runs |-> h.runs, receipts |-> receipts1, settled |-> settled1,
                  reservations |-> reservations1]
    BY <1>1, ZenonT(30) DEF IsHistory
  <1> QED BY <1>2, Zenon DEF disposition, receipts1, settled1, reservations1

-----------------------------------------------------------------------------
(* An accepted fact leads from a history to a history                      *)

\* A graph patch that binds known definitions.
LEMMA GraphPatchHistory ==
    ASSUME NEW h, NEW fact, IsHistory(h), fact.type = "patch",
           \A o \in DOMAIN fact.bindings : fact.bindings[o] \in Definitions
    PROVE  IsHistory(Advance(h, fact))
  <1>1. Patched(h, fact) \in [Obligations -> Definitions \cup {NoDefinition}]
    BY Zenon DEF Patched, IsHistory
  <1>2. h.head + 1 \in Positive
    BY DEF IsHistory, Positive
  <1> QED BY <1>1, <1>2, GraphPatchAdvance DEF IsHistory

\* A claim of a bound obligation.
LEMMA ClaimHistory ==
    ASSUME NEW h, NEW fact, IsHistory(h), fact.type = "claim", fact.run \in RunIds,
           fact.obligation \in Bound(h.obligations)
    PROVE  IsHistory(Advance(h, fact))
  <1> DEFINE run == [obligation |-> fact.obligation,
                     definition |-> h.obligations[fact.obligation],
                     key |-> fact.key, claim |-> h.head + 1,
                     generation |-> 1, authority |-> h.head + 1]
             runs1 == [h.runs EXCEPT ![fact.run] = run]
  <1>1. h.obligations[fact.obligation] \in Definitions
    BY Zenon DEF IsHistory, Bound
  <1>2. h.head + 1 \in Positive
    BY DEF IsHistory, Positive
  <1>3. IsRun(run)
    BY <1>1, <1>2 DEF Bound, IsRun, Positive
  <1> HIDE DEF run
  <1>4. runs1 = [r \in RunIds |-> runs1[r]]
        /\ \A r \in RunIds : runs1[r] = NoRun \/ IsRun(runs1[r])
    BY <1>3, Zenon DEF IsHistory
  <1>5. Advance(h, fact) =
             [head |-> h.head + 1, obligations |-> h.obligations, ordinals |-> h.ordinals,
              runs |-> runs1,
              receipts |-> h.receipts, settled |-> h.settled, reservations |-> h.reservations]
    BY ClaimAdvance, Zenon DEF run
  <1> HIDE DEF runs1
  <1> QED BY <1>2, <1>4, <1>5 DEF IsHistory

\* An execution authority for a known run.
LEMMA AuthorityHistory ==
    ASSUME NEW h, NEW fact, IsHistory(h), fact.type = "authority",
           fact.run \in KnownRuns(h), fact.generation \in Positive
    PROVE  IsHistory(Advance(h, fact))
  <1> DEFINE run == [h.runs[fact.run] EXCEPT !.generation = fact.generation,
                                             !.authority = h.head + 1]
             runs1 == [h.runs EXCEPT ![fact.run] = run]
  <1>1. h.head + 1 \in Positive
    BY DEF IsHistory, Positive
  <1>2. IsRun(h.runs[fact.run]) /\ fact.run \in RunIds
    BY Zenon DEF IsHistory, KnownRuns
  <1>3. IsRun(run)
    <2> DEFINE old == h.runs[fact.run]
    <2>1. PICK a, b, c, d, e, f :
            old = [obligation |-> a, definition |-> b, key |-> c, claim |-> d,
                   generation |-> e, authority |-> f]
      BY <1>2, ZenonT(30) DEF IsRun
    <2>2. a \in Obligations /\ b \in Definitions /\ d \in Positive
      BY <1>2, <2>1 DEF IsRun
    <2>3. run = [old EXCEPT !.generation = fact.generation, !.authority = h.head + 1]
      OBVIOUS
    <2> HIDE DEF run, old
    <2>4. run = [obligation |-> a, definition |-> b, key |-> c, claim |-> d,
                 generation |-> fact.generation, authority |-> h.head + 1]
      BY <2>1, <2>3, ZenonT(30)
    <2> QED BY <1>1, <2>2, <2>4, Zenon DEF IsRun
  <1> HIDE DEF run
  <1>4. runs1 = [r \in RunIds |-> runs1[r]]
        /\ \A r \in RunIds : runs1[r] = NoRun \/ IsRun(runs1[r])
    BY <1>2, <1>3, Zenon DEF IsHistory
  <1>5. Advance(h, fact) =
             [head |-> h.head + 1, obligations |-> h.obligations, ordinals |-> h.ordinals,
              runs |-> runs1,
              receipts |-> h.receipts, settled |-> h.settled, reservations |-> h.reservations]
    BY AuthorityAdvance, ZenonT(30) DEF run
  <1> HIDE DEF runs1
  <1> QED BY <1>1, <1>4, <1>5 DEF IsHistory

\* A reservation with a generation and an authority commit.
LEMMA ReservationHistory ==
    ASSUME NEW h, NEW fact, IsHistory(h), fact.type = "reservation", fact.run \in RunIds,
           fact.generation \in Positive, fact.authority \in Positive
    PROVE  IsHistory(Advance(h, fact))
  <1> DEFINE reservations1 == [h.reservations EXCEPT ![fact.run] =
                  [commit |-> h.head + 1, generation |-> fact.generation,
                   authority |-> fact.authority]]
  <1>1. h.head + 1 \in Positive
    BY DEF IsHistory, Positive
  <1>2. reservations1 \in [RunIds -> Reservations \cup {NoReservation}]
    BY <1>1, Zenon DEF IsHistory, Reservations
  <1>3. Advance(h, fact) =
             [head |-> h.head + 1, obligations |-> h.obligations, ordinals |-> h.ordinals,
              runs |-> h.runs, receipts |-> h.receipts, settled |-> h.settled,
              reservations |-> reservations1]
    BY ReservationAdvance, Zenon
  <1> HIDE DEF reservations1
  <1> QED BY <1>1, <1>2, <1>3 DEF IsHistory

\* projectReceipt always finds a disposition.
LEMMA DispositionType ==
    ASSUME NEW h, NEW fact
    PROVE  ReceiptDisposition(h, fact) \in Dispositions
  BY Zenon DEF ReceiptDisposition, Disposition, Dispositions

\* A receipt of a kind the engine appends.
LEMMA ReceiptHistory ==
    ASSUME NEW h, NEW fact, IsHistory(h), fact.type = "receipt", fact.run \in RunIds,
           fact.kind \in ReceiptKinds, fact.generation \in Positive
    PROVE  IsHistory(Advance(h, fact))
  <1> DEFINE g == Advance(h, fact)
             disposition == ReceiptDisposition(h, fact)
             receipts1 == [h.receipts EXCEPT ![fact.run] =
                      [disposition |-> disposition, kind |-> fact.kind,
                       generation |-> fact.generation, commit |-> h.head + 1]]
             settled1 == IF disposition = "DONE" THEN h.settled \cup {fact.run} ELSE h.settled
             reservations1 == [h.reservations EXCEPT ![fact.run] =
                      IF Released(fact) \/ disposition \in {"DONE", "READY"}
                      THEN NoReservation ELSE h.reservations[fact.run]]
  <1>1. h.head + 1 \in Positive
    BY DEF IsHistory, Positive
  <1>2. disposition \in Dispositions
    BY DispositionType, Zenon
  <1>3. g = [head |-> h.head + 1, obligations |-> h.obligations, ordinals |-> h.ordinals,
             runs |-> h.runs, receipts |-> receipts1, settled |-> settled1,
             reservations |-> reservations1]
    BY ReceiptAdvance, Zenon
  <1> HIDE DEF g, disposition
  <1>4. /\ receipts1 \in [RunIds -> Receipts \cup {NoReceipt}]
        /\ settled1 \subseteq RunIds
        /\ reservations1 \in [RunIds -> Reservations \cup {NoReservation}]
    BY <1>1, <1>2, Zenon DEF IsHistory, Receipts
  <1> HIDE DEF receipts1, settled1, reservations1
  <1>5. IsHistory(g)
    BY <1>1, <1>3, <1>4, Zenon DEF IsHistory
  <1> QED BY <1>5, Zenon DEF g

\* The numbers of a known run, and of the head, are positive.
LEMMA RunNumbers ==
    ASSUME NEW h, IsHistory(h), NEW r \in KnownRuns(h)
    PROVE  /\ r \in RunIds /\ IsRun(h.runs[r])
           /\ h.head \in Positive /\ h.runs[r].claim \in Positive
           /\ h.runs[r].generation \in Positive /\ h.runs[r].authority \in Positive
  <1>1. r \in RunIds /\ IsRun(h.runs[r]) /\ h.head \in Positive
    BY Zenon DEF KnownRuns, IsHistory
  <1> QED BY <1>1, Zenon DEF IsRun
=============================================================================
