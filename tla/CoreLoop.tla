------------------------------ MODULE CoreLoop ------------------------------
(***************************************************************************)
(* One call of runCoreLoop (src/execution/core-loop.ts) on a kernel that   *)
(* other processes use too.  The loop claims ready work one by one, starts *)
(* the effect of each claim without waiting for it, waits for all of them, *)
(* observes and settles them in order, and starts the next round.  The     *)
(* history and every decision of the kernel are those of Engine; a kernel  *)
(* call of the loop is one step, because it retries until its append wins. *)
(***************************************************************************)
EXTENDS Engine, Sequences, FiniteSets

CONSTANTS
    Concurrency,    \* options.concurrency
    MaxAdvances,    \* options.maxAdvances
    MaxOther        \* bound on the facts other processes append

ASSUME LoopAssumption ==
    /\ Concurrency \in Nat \ {0}
    /\ Cardinality(RunIds) >= MaxAdvances + MaxOther

VARIABLES
    trusted,        \* options.trustedEffects rather than options.effect
    history,        \* the replayed history at the head of the store
    pc,             \* where the loop is
    ready,          \* the work deriveReadyWork returned: [work, revision]
    permit,         \* the permit of the newest claim
    active,         \* the effects of this round: [permit, outcome]
    index,          \* the effect of the round that is drained next
    flags,          \* which of deferred, pendingError, noReady, recovery, drainError is set
    advances,
    claimed,        \* the runs this call claimed
    overtook,       \* overtook[o]: work the loop claimed since o is claimable
    others          \* facts other processes appended

storeVars == <<history, overtook>>
claimVars == <<ready, permit, advances, claimed>>
roundVars == <<active, index, flags>>
vars == <<trusted, storeVars, pc, claimVars, roundVars, others>>

Nothing == [work |-> 0, revision |-> 0]

Init ==
    /\ trusted \in BOOLEAN
    /\ history = InitialHistory
    /\ pc = "round"
    /\ ready = Nothing
    /\ permit = NoPermit
    /\ active = << >>
    /\ index = 0
    /\ flags = {}
    /\ advances = 0
    /\ claimed = {}
    /\ overtook = [o \in Obligations |-> {}]
    /\ others = 0

Goto(there) == pc' = there
Set(flag) == flags' = flags \cup {flag}
FreshRun == CHOOSE r \in RunIds : history.runs[r] = NoRun
Ended == {"IDLE", "BLOCKED", "RECOVERY_REQUIRED", "WAITING", "BUDGET_EXHAUSTED", "THROWN"}

\* o stays overtaken while it is claimable under the same service age.
Forgotten(o) ==
    \/ ~Claimable(history', o)
    \/ ServiceAge(history', o) # ServiceAge(history, o)

Overtaken(by) ==
    overtook' = [o \in Obligations |->
        IF Forgotten(o) THEN {}
        ELSE overtook[o] \cup {[work |-> p, key |-> SemanticKeys(history)[p]] : p \in by}]

\* One kernel call appends a fact.
Appends(fact) == history' = Advance(history, fact) /\ Overtaken({})

Disposed(d) == d \in {"DONE", "READY"}

\* A settlement of a run that is settled, or that is no longer in one of
\* these states, returns the receipt the run has.
ReturnsPrior(p, statuses) ==
    LET receipt == history.receipts[p.run]
    IN  \/ Disposed(receipt.disposition)
        \/ /\ receipt # NoReceipt
           /\ history.runs[p.run].obligation \in Bound(history.obligations)
           /\ ExecutionPermits(history, p)
           /\ ~IsCurrent(history, p.run, statuses)

-----------------------------------------------------------------------------
(* Claiming                                                                *)

Round ==
    /\ pc = "round"
    /\ Goto(IF advances < MaxAdvances THEN "claiming" ELSE "BUDGET_EXHAUSTED")
    /\ active' = << >>
    /\ flags' = {}
    /\ UNCHANGED <<storeVars, claimVars, index, others>>

\* Mutant: one effect too many
OneClaimMore == Len(active) <= Concurrency /\ advances < MaxAdvances
                /\ flags \cap {"deferred", "pendingError"} = {}

\* The condition of the inner loop
MoreClaims == Len(active) < Concurrency /\ advances < MaxAdvances
              /\ flags \cap {"deferred", "pendingError"} = {}

DeriveReadyWork ==
    /\ pc = "claiming" /\ MoreClaims
    /\ \E o \in Obligations :
          /\ IsReadyWork(history, o)
          /\ ready' = [work |-> o, revision |-> history.head]
    /\ Goto("ready")
    /\ UNCHANGED <<storeVars, permit, advances, claimed, roundVars, others>>

\* Mutant: the loop waits for work to become ready.
PollReadyWork ==
    /\ pc = "claiming" /\ MoreClaims
    /\ \A o \in Obligations : ~IsReadyWork(history, o)
    /\ UNCHANGED <<storeVars, pc, claimVars, roundVars, others>>

NoReadyWork ==
    /\ pc = "claiming" /\ MoreClaims
    /\ \A o \in Obligations : ~IsReadyWork(history, o)
    /\ Set("noReady")
    /\ Goto("started")
    /\ UNCHANGED <<storeVars, claimVars, active, index, others>>

StopClaiming ==
    /\ pc = "claiming" /\ ~MoreClaims
    /\ Goto("started")
    /\ UNCHANGED <<storeVars, claimVars, roundVars, others>>

Claim ==
    /\ pc = "ready" /\ ready.revision = history.head
    /\ LET r == FreshRun
       IN  /\ history' = Advance(history, ClaimFact(history, ready.work, r))
           /\ permit' = PermitOf(r, 1, history.head + 1)
           /\ claimed' = claimed \cup {r}
    /\ Overtaken({ready.work})
    /\ advances' = advances + 1
    /\ Goto("claimed")
    /\ UNCHANGED <<ready, roundVars, others>>

\* STALE_REVISION or CLAIM_LOST
ClaimLost ==
    /\ pc = "ready" /\ ready.revision # history.head
    /\ Goto("claiming")
    /\ UNCHANGED <<storeVars, claimVars, roundVars, others>>

\* The store or preflight fails, or the deferral is refused: claiming stops,
\* and the effects already started are drained first.
Throws ==
    /\ \/ pc \in {"ready", "claimed"}
       \/ /\ pc = "deferring"
          /\ ~SettlementAdmitted(history, permit, "judgment-required")
          /\ ~ReturnsPrior(permit, {"EXECUTING"})
    /\ Set("pendingError")
    /\ Goto("claiming")
    /\ UNCHANGED <<storeVars, claimVars, active, index, others>>

\* preflight resolves to execute, or there is no preflight
PreflightExecutes ==
    /\ pc = "claimed"
    /\ Goto("starting")
    /\ UNCHANGED <<storeVars, claimVars, roundVars, others>>

PreflightRequiresJudgment ==
    /\ pc = "claimed"
    /\ Goto("deferring")
    /\ UNCHANGED <<storeVars, claimVars, roundVars, others>>

Defer ==
    /\ pc = "deferring"
    /\ \/ /\ SettlementAdmitted(history, permit, "judgment-required")
          /\ Appends(ReceiptFact(history, permit.run, "judgment-required", "none"))
       \/ ReturnsPrior(permit, {"EXECUTING"}) /\ UNCHANGED storeVars
    /\ Set("deferred")
    /\ Goto("claiming")
    /\ UNCHANGED <<claimVars, active, index, others>>

-----------------------------------------------------------------------------
(* Effects                                                                 *)

Started(outcome) == active' = Append(active, [permit |-> permit, outcome |-> outcome])

\* The catch of a trusted dispatch asks the kernel for a reservation; when
\* that fails too, the effect may have happened.
Failures(r) ==
    {"error"} \cup (IF history.reservations[r] = NoReservation THEN {"clean-error"} ELSE {})

\* performEffect reserves before the first await of an effect, unless the
\* trusted status effect reads its repository first.  authorizeEffect has
\* not looked at the generation of the permit.
ReservesAtOnce == ~trusted \/ history.runs[permit.run].definition.verifier # "status"

StartEffect ==
    /\ pc = "starting" /\ ReservesAtOnce
    /\ EffectAdmitted(history, permit)
    /\ Appends(ReservationFact(history, permit.run))
    /\ Started("running")
    /\ Goto("claiming")
    /\ UNCHANGED <<claimVars, index, flags, others>>

\* beginEffect throws: the promise is rejected, unless a trusted dispatch
\* turns its error into an outcome.
StartFails ==
    /\ pc = "starting"
    /\ trusted \/ ~EffectAdmitted(history, permit)
    /\ \E outcome \in IF trusted THEN Failures(permit.run) ELSE {"rejected"} : Started(outcome)
    /\ Goto("claiming")
    /\ UNCHANGED <<storeVars, claimVars, index, flags, others>>

StartDispatch ==
    /\ pc = "starting" /\ ~ReservesAtOnce
    /\ Started("dispatching")
    /\ Goto("claiming")
    /\ UNCHANGED <<storeVars, claimVars, index, flags, others>>

Becomes(i, outcome) == active' = [active EXCEPT ![i].outcome = outcome]

DispatchReserves(i) ==
    /\ active[i].outcome = "dispatching"
    /\ EffectAdmitted(history, active[i].permit)
    /\ Appends(ReservationFact(history, active[i].permit.run))
    /\ Becomes(i, "running")
    /\ UNCHANGED <<pc, claimVars, index, flags, others>>

\* The read fails, or beginEffect throws.
DispatchFails(i) ==
    /\ active[i].outcome = "dispatching"
    /\ \E outcome \in Failures(active[i].permit.run) : Becomes(i, outcome)
    /\ UNCHANGED <<storeVars, pc, claimVars, index, flags, others>>

\* The request failed before it left: the reservation is released.
Release(i) ==
    LET r == active[i].permit.run
        reservation == history.reservations[r]
    IN  /\ trusted /\ active[i].outcome = "running"
        /\ ReleaseAdmitted(history, active[i].permit,
                           [run |-> r, generation |-> active[i].permit.generation,
                            authority |-> active[i].permit.authority,
                            reservation |-> reservation.commit])
        /\ Appends(ReleaseFact(history, r, reservation.commit))
        /\ Becomes(i, "clean-error")
        /\ UNCHANGED <<pc, claimVars, index, flags, others>>

\* The callback resolves, or its error is turned into an outcome.
Complete(i) ==
    /\ active[i].outcome = "running"
    /\ \E outcome \in {"done"} \cup (IF trusted THEN Failures(active[i].permit.run) ELSE {"error", "judgment"}) :
          Becomes(i, outcome)
    /\ UNCHANGED <<storeVars, pc, claimVars, index, flags, others>>

\* The process has one thread: effects go on while the loop awaits preflight
\* or the effects, or when it has ended.
Awaiting == pc \in {"claimed", "started"} \cup Ended

Effect(i) ==
    /\ Awaiting /\ i \in DOMAIN active
    /\ DispatchReserves(i) \/ DispatchFails(i) \/ Release(i) \/ Complete(i)
    /\ UNCHANGED trusted

-----------------------------------------------------------------------------
(* Draining                                                                *)

InProgress == {"dispatching", "running"}
Outcomes == {e.outcome : e \in {active[i] : i \in DOMAIN active}}

\* Promise.all is fulfilled.
AllEffectsEnded == Outcomes \cap InProgress = {} /\ "rejected" \notin Outcomes

AwaitAll ==
    /\ pc = "started"
    /\ AllEffectsEnded
    /\ index' = 1
    /\ Goto("draining")
    /\ UNCHANGED <<storeVars, claimVars, active, flags, others>>

\* Promise.all is rejected as soon as one of its promises is, and so is the
\* promise of the loop.
AwaitRejected ==
    /\ pc = "started"
    /\ "rejected" \in Outcomes
    /\ Goto("THROWN")
    /\ UNCHANGED <<storeVars, claimVars, roundVars, others>>

Draining == pc = "draining" /\ index <= Len(active)
Drained == active[index]
DrainedRun == Drained.permit.run

\* A judgment after the reservation: recoverInterrupted
DrainJudgment ==
    /\ Draining /\ Drained.outcome = "judgment"
    /\ IF SettlementAdmitted(history, Drained.permit, "execution-terminated")
       THEN /\ Appends(ReceiptFact(history, DrainedRun, "execution-terminated", "none"))
            /\ Set("recovery")
       ELSE /\ Set(IF ReturnsPrior(Drained.permit, {"EXECUTING"}) THEN "recovery" ELSE "drainError")
            /\ UNCHANGED storeVars
    /\ index' = index + 1
    /\ UNCHANGED <<pc, claimVars, active, others>>

\* Mutant: a receipt that requires recovery is passed over.
NotedErrors(outcome, receipt) ==
    IF outcome = "clean-error" /\ receipt.disposition # "DONE" THEN {"drainError"} ELSE {}

\* What becomes of a receipt of an effect with this outcome
Noted(outcome, receipt) ==
    IF /\ outcome = "clean-error"
       /\ receipt.disposition # "DONE"
       /\ ~(receipt.kind = "effect-not-dispatched" /\ receipt.disposition = "READY")
    THEN {"drainError"}
    ELSE IF ~Disposed(receipt.disposition) THEN {"recovery"} ELSE {}

\* resolveAsync returns the receipt the run has.
DrainSettled ==
    /\ Draining /\ Drained.outcome # "judgment"
    /\ ReturnsPrior(Drained.permit, InFlight)
    /\ flags' = flags \cup Noted(Drained.outcome, history.receipts[DrainedRun])
    /\ index' = index + 1
    /\ UNCHANGED <<storeVars, pc, claimVars, active, others>>

Observations(d) ==
    IF d.verifier = "configmap" THEN {"verified", "absent", "other"} ELSE {"verified", "other"}

\* resolveAsync observes and settles.
DrainObserve ==
    /\ Draining /\ Drained.outcome # "judgment"
    /\ ResolutionCandidate(history, Drained.permit)
    /\ \E observed \in Observations(history.runs[DrainedRun].definition) :
          Appends(ReceiptFact(history, DrainedRun, "observation", observed))
    /\ flags' = flags \cup Noted(Drained.outcome, history'.receipts[DrainedRun])
    /\ index' = index + 1
    /\ UNCHANGED <<pc, claimVars, active, others>>

\* The observer throws, or the permit is no longer honoured.
DrainThrows ==
    /\ Draining /\ Drained.outcome # "judgment"
    /\ ~ReturnsPrior(Drained.permit, InFlight)
    /\ Set("drainError")
    /\ index' = index + 1
    /\ UNCHANGED <<storeVars, pc, claimVars, active, others>>

\* inspect() reports some work as BLOCKED.
Blocked ==
    \E o \in Bound(history.obligations) :
        Lifecycle(history, o).status = "UNREALIZED" /\ ~Claimable(history, o)

EndRound ==
    /\ pc = "draining" /\ index > Len(active)
    /\ Goto(IF flags \cap {"pendingError", "drainError"} # {} THEN "THROWN"
            ELSE IF "recovery" \in flags THEN "RECOVERY_REQUIRED"
            ELSE IF "deferred" \in flags THEN "WAITING"
            ELSE IF active # << >> \/ "noReady" \notin flags THEN "round"
            ELSE IF Blocked THEN "BLOCKED" ELSE "IDLE")
    /\ UNCHANGED <<storeVars, claimVars, roundVars, others>>

-----------------------------------------------------------------------------
(* Other processes                                                         *)

\* The permit another process has: of a run this call did not claim, or that
\* was taken over.
Foreign == {r \in KnownRuns(history) : r \notin claimed \/ history.runs[r].generation > 1}
ForeignPermit(r) == PermitOf(r, history.runs[r].generation, history.runs[r].authority)

NoBindings == [x \in {} |-> NoDefinition]

OtherClaims ==
    \E o \in Obligations : Claimable(history, o) /\ Appends(ClaimFact(history, o, FreshRun))

OtherAcquires ==
    \E r \in RunIds : AcquireAdmitted(history, r) /\ Appends(ExecutionAuthorityFact(history, r))

OtherReserves ==
    \E r \in Foreign :
        EffectAdmitted(history, ForeignPermit(r)) /\ Appends(ReservationFact(history, r))

OtherObserves ==
    \E r \in Foreign :
        /\ ResolutionCandidate(history, ForeignPermit(r))
        /\ \E observed \in Observations(history.runs[r].definition) :
              Appends(ReceiptFact(history, r, "observation", observed))

\* deferForJudgment and recoverInterrupted
OtherSettles ==
    \E r \in Foreign, kind \in {"judgment-required", "execution-terminated"} :
        /\ SettlementAdmitted(history, ForeignPermit(r), kind)
        /\ Appends(ReceiptFact(history, r, kind, "none"))

\* Nobody needs a permit to observe the realization of DONE work again.
OtherRefreshes ==
    \E o \in Obligations :
        /\ RefreshCandidate(history, o)
        /\ LET r == Lifecycle(history, o).run
           IN  \E observed \in Observations(history.runs[r].definition) :
                  Appends(RefreshFact(history, r, observed))

\* A graph patch retires an obligation, or binds one to a definition.  A bound:
\* to one no obligation has yet.
OtherPatches ==
    \E o \in Obligations :
        \/ /\ GraphPatchAdmitted(history, NoBindings, {o})
           /\ Appends(GraphPatchFact(history, NoBindings, {o}))
        \/ \E d \in Definitions \ {history.obligations[p] : p \in Obligations} :
              /\ GraphPatchAdmitted(history, [x \in {o} |-> d], {})
              /\ Appends(GraphPatchFact(history, [x \in {o} |-> d], {}))

\* Another process of the project uses the kernel.
Other ==
    /\ pc \notin Ended
    /\ others < MaxOther
    /\ others' = others + 1
    /\ \/ OtherClaims \/ OtherAcquires \/ OtherReserves \/ OtherObserves \/ OtherSettles
       \/ OtherRefreshes \/ OtherPatches
    /\ UNCHANGED <<trusted, pc, claimVars, roundVars>>

Claiming ==
    \/ Round \/ DeriveReadyWork \/ NoReadyWork \/ StopClaiming \/ Claim \/ ClaimLost \/ Throws
    \/ PreflightExecutes \/ PreflightRequiresJudgment \/ Defer
    \/ StartEffect \/ StartFails \/ StartDispatch

Settling ==
    \/ AwaitAll \/ AwaitRejected
    \/ DrainJudgment \/ DrainSettled \/ DrainObserve \/ DrainThrows \/ EndRound

Loop == (Claiming \/ Settling) /\ UNCHANGED trusted

Effects == \E i \in 1 .. Concurrency : Effect(i)

Next == Loop \/ Effects \/ Other

Spec == Init /\ [][Next]_vars

\* The loop runs until it awaits; preflight, effects and observers settle
\* their promises.
FairSpec == Spec /\ WF_vars(Loop) /\ \A i \in 1 .. Concurrency : WF_vars(Effect(i))
-----------------------------------------------------------------------------
(* Properties                                                              *)

\* The type invariant.
TypeOK ==
    /\ history.head \in Nat
    /\ pc \in {"round", "claiming", "ready", "claimed", "deferring", "starting", "started",
              "draining"} \cup Ended
    /\ ready.work \in Obligations \cup {0}
    /\ Len(active) <= Concurrency
    /\ Outcomes \subseteq {"dispatching", "running", "rejected", "done", "error",
                          "clean-error", "judgment"}
    /\ index \in 0 .. Concurrency + 1
    /\ flags \subseteq {"deferred", "pendingError", "noReady", "recovery", "drainError"}
    /\ advances = Cardinality(claimed) /\ advances <= MaxAdvances
    /\ others \in 0 .. MaxOther

\* A result of the loop accounts for every run it claimed: each has a
\* receipt, and unless the result names a run that needs attention each was
\* settled, whatever other processes did meanwhile.  A refresh of theirs may
\* have found since that what was DONE is so no more.
ReturnAccountsForClaims ==
    pc \in Ended \ {"THROWN"} =>
        \A r \in claimed :
            /\ history.receipts[r] # NoReceipt
            /\ pc \in {"IDLE", "BLOCKED", "BUDGET_EXHAUSTED"} =>
                  Disposed(history.receipts[r].disposition) \/ r \in history.settled

\* Service age is fair: while an obligation stays claimable, the loop
\* claims no other semantic obligation twice.
NeverOvertakenTwice ==
    [][claimed' # claimed =>
          \A o \in Obligations \ {ready.work} :
              Claimable(history, o) =>
                  [work |-> ready.work, key |-> SemanticKeys(history)[ready.work]] \notin overtook[o]]_vars

\* The loop ends although lost claims make it start over.
LoopEnds == <>(pc \in Ended)

\* "Every started effect is drained before the loop returns."
EffectsDrained == pc \in Ended => Outcomes \cap InProgress = {}
=============================================================================
