# A verification of Overcenter in TLA+

Overcenter decides when work may act on the outside world.  Everything it knows
is an append-only log of facts with one head; every decision is made from a
replay of that log and becomes durable by one compare-and-swap on the head.
This directory models that authority and the processes that use it, checks the
models on small instances with TLC, and proves what matters most for every
instance with TLAPS.  Paths below are relative to the repository; production
code lives under `src/`.

## 1. The system

| Part | State | Operations | Talks to |
| --- | --- | --- | --- |
| Authority kernel (`authority/engine.ts`) | none of its own besides a cache; the permit a caller holds | initialize, define, applyGraphPatch, claim, acquireExecution, performEffect, releaseEffectReservation, resolve, refreshCurrentRealization, deferForJudgment, recoverInterrupted, settleSourceIntegration, retrySourceIntegration | fact store, observers, effect adapters |
| Replay (`authority/replay.ts`, `transaction-admission.ts`) | obligations, runs, receipts, unresolved reservations, ordinals | accept or reject one fact, advance | kernel |
| Projection (`authority/project-state.ts`, `graph/*`) | derived | lifecycles, semantic keys, claimability, ready work | replay, kernel |
| Fact stores (`storage/sqlite.ts`, `storage/git-store.ts`) | commits and a head | head, append(expected, files), history | kernel |
| Core loop (`execution/core-loop.ts`) | active effects, budget | claim, start, drain, return | kernel, adapters |
| Project agent (`authority/project-agent-protocol.ts`) | branches, assignment files | advance, submit | kernel, source broker |
| Effect adapters and observers (`providers/*`, `observation/*`) | the provider's | dispatch, witness, observe | GitHub, Kubernetes |
| Source broker (`source/*`) | remote branches | publish a candidate, inspect it | Git |
| Execution (`execution/executor`, `confinement`, `work-exchange.ts`) | processes, files | start, time out, reap, hand over | runner |
| Runner fleet (`transport/gcp-runner-*.ts`, `gce-runner-agent.ts`) | launch cache, builds, leases | poll, launch, run, acknowledge | GitHub, Cloud Build, Pub/Sub |
| Evidence (`evidence/*`) | content-addressed files | put, get | all |

What makes the system hard:

- processes (a core loop, the project agent, an operator's shell) share one log
  and may overtake each other between any two steps of a call;
- a permit lives in memory: a crash loses it, a successor acquires the run with
  a new generation, and the predecessor may still be running;
- a request that left the process may be applied late, or never, and nobody can
  tell which until its postcondition is observed;
- an observation takes time, and is committed after it was taken;
- the kernel decides with its own conditions and replay decides again with
  others; a fact replay rejects would make the project unreadable for good;
- the graph changes, and with it the semantic identity of work.

## 2. Modules

| Module | Models |
| --- | --- |
| `ProjectState` | the replayed history and the projection, as operators on a history `h` |
| `Replay` | what replay accepts (`ReplayAdmits`) and how it advances (`Advance`); adapter capabilities; `projectReceipt` |
| `Engine` | the decision and the fact of every kernel operation |
| `Kernel` | processes that run those operations in steps, crashes, and the provider |
| `MCKernel` | graphs and definitions for the runs of `Kernel` |
| `HistoryProofs`, `ReplayProofs` | lemmas about `Advance` and `ReplayAdmits` |
| `KernelSteps`, `KernelAppends`, `KernelAuthority` | one lemma for each action of `Kernel` |
| `KernelProofs` | the theorems about `Kernel` |
| `FactStore` | the contract of a fact store: an atomic compare-and-append |
| `SqliteStore`, `SqliteProofs` | `storage/sqlite.ts`, and that it implements `FactStore` |
| `GitStore`, `MCGitStore` | `storage/git-store.ts` and `git-authority-recovery.ts` with a remote |
| `CoreLoop`, `MCCoreLoop` | one call of `execution/core-loop.ts` among other processes |
| `RunnerFleet`, `MCRunnerFleet` | autoscaler, launcher and the builds they submit |
| `WarmRunner`, `MCWarmRunner` | the warm host's agent |

`Engine` extends `Replay`, which extends `ProjectState`; `Kernel` and `CoreLoop`
extend `Engine`.  `Kernel` takes the store to be atomic, which is `FactStore`;
`SqliteStore` is shown to implement it.  The runner modules stand alone: they
share no state with the authority.

### The authority

**State.**  A replayed history is a record `h` with the fields of the source's
`Projection`: `obligations`, `ordinals` (`currentBindingOrdinals`), `runs`,
`receipts` (`receiptsByRun`), `settled` (runs with a `DONE` receipt somewhere in
`receipts`), `reservations` (`unresolvedReservationsByRun`) and the number of
the head commit.  A commit identifier is its number, so the length of the
history is the head and a commit's replay ordinal.  A definition is a record of
an identity of packet and postcondition, the identity of the content the
postcondition verifies, the verifier, the upstreams it requires and the
upstreams it consumes with their selectors.  A capability is
identified by the commit that minted it.

**Steps.**  A call that reads the head, decides and appends with no await
between is one action when a lost compare-and-swap makes it start over
(`Acquire`, `Reserve`, `Settle`): only the iteration that wins leaves a trace.
A call bound to a revision the caller read earlier (`ClaimWork`, `PatchGraph`,
refresh) takes that revision from `Read` and loses the race in `LoseRace`.
Observation is a step between a read and an append (`ResolveRead`, `Observe`,
`ResolveCommit`; `RefreshObserve`, `RefreshCommit`), and so is the append of a
release after its witness was consumed (`ReleaseRead`, `ReleaseCommit`).
`Crash` may happen between any two of them.

**Environment.**  `Land` applies a request that left some process, however long
ago; `Drift` changes the provider without Overcenter.  An observer reports a
postcondition verified only when it holds, and a ConfigMap absent only when it
is absent, and may always fail to read.

### The stores

**SQLite.**  `authority` and `rows` are the two tables, `writer` the write lock.
Opening is `Open`, `InitializeAttempt`, `LockSchema` or `SchemaBusy`, and
`CreateTables` (the bounded retry of `initializeStorage`); an append is `BeginAppend`,
`BeginImmediate` or `BusyTimeout`, then `Stale`, or `Insert` and `Commit`.
`CreateFails`, `Rollback` and `Crash` end a transaction at any step.  A commit
identifier is the chain of facts it stands for, as its hash chain is.  The
refinement maps the head to the log and a client's call to pending, returned,
refused or thrown.

**Git.**  `remote` is the authority ref as the chain of its commits, `objects`
and `ref` a clone's objects and local ref.  `ListRemote` and `Fetch` are the two
halves of `head`, between which the ref may move; `CreateCommit`, `PushAppend`
(under a lease; its answer may be lost: `PushNotOk`) and `UpdateRef` are
`append`; `BeginRecovery`, `PushRecovery` and `EndRecovery` the recovery of an
invalid claim at the tail.

### The core loop

`pc` is where `runCoreLoop` is: claiming (`DeriveReadyWork`, `Claim`,
`ClaimLost`), preflight (`PreflightExecutes`, `PreflightRequiresJudgment`,
`Defer`), starting effects (`StartEffect`, `StartFails`, `StartDispatch`),
awaiting them (`AwaitAll`, `AwaitRejected`) and draining (`DrainJudgment`,
`DrainSettled`, `DrainObserve`, `DrainThrows`), then `EndRound`.  `active` holds
the effects of the round, which progress (`Effect`) only while the loop awaits
preflight or the effects, or after it ended: the program has one thread.  `trusted` chooses between the two modes of
dispatch.  `Other` is any other process, which uses the same engine on the same
obligations: it claims, takes over a run, reserves, observes, defers or recovers
a run of its own, refreshes DONE work (as the project agent does before it
claims) and patches the graph.  It has the permits of the runs it claimed or
took over.  `overtook` is a history variable:
for each obligation, the work this loop claimed while it stayed claimable.
A call of the kernel is one step, as in `Kernel`.

### The runners

`RunnerFleet`: `poll` is `pollOnce` (`StartPoll`, `Scan` or `ScanFails` for each
repository, `StartLaunches` or `PollFails`, `Launch`, `EndPoll`); a launcher
request lists (`Reuse`, `NothingToReuse`) and creates (`Create`), and outlives an
autoscaler that gives up on it or restarts; a build re-reads its job (`Register`,
`Skip`) and GitHub gives the runner any queued job its labels fit (`Assign`).
`WarmRunner`: `agent` is the place in `runForever`; containers, workspaces and
runners at GitHub are named after the message.  Containers and workspaces survive
a restart of the agent (`Restart`) but not of the host (`HostReplaced`); a
registration (`registered`) survives both, and while it lasts GitHub refuses the
name to a redelivered message (`NameRefused`).  A GitHub, Cloud Build, Docker or Pub/Sub
failure is a `Fault`, and their number is bounded.  A build that failed is no
build any more, so `Builds` bounds those that have not.

## 3. Runs

| Run | Checks | Bounds |
| --- | --- | --- |
| `effects` | `TypeOK`, `KernelInvariant`, `SingleAuthority`, `EffectOncePerRun`, `IssuedEffectNeverForgotten`, `EngineFactsReplay` | two processes, one obligation that may be rebound from a status to a ConfigMap, two runs, eight commits |
| `graph` | `ReservedRunStaysCurrent`, `EngineFactsReplay` | one process with crashes, two obligations of which one requires the other, three runs, eight commits |
| `refresh` | `NoUnresolvedPriorEffect` (violated) | a ConfigMap and a status that consumes its settlement receipt |
| `release` | `WitnessReleasesReservation` (violated) | two processes, a status and a ConfigMap |
| `sqlite` | `TypeOK`, `StoreInvariant`, `KnownHeadsReplay`, `ImplementsFactStore`, `AppendReturns` | two clients, two facts, two commits |
| `git` | `TypeOK`, `AcknowledgedCommitStays`, `KnownHeadReadable`, `AuthorityOnlyGrows` | two clones, an authority of at most three commits, out of two valid claims, a refused one and a refused one with a reservation |
| `git_release` | `HistoryReturnsFacts` (violated) | two clones, at most two commits, a claim and a release |
| `core_loop` | `TypeOK`, `ReturnAccountsForClaims`, `NeverOvertakenTwice`, `LoopEnds` | three obligations (one consumes the content of another), two effects at a time, three advances, two steps of others |
| `core_loop_drain` | `EffectsDrained` (violated) | the same |
| `fleet` | `TypeOK`, `SuppressedLaunchWasBuilt`, `SuccessfulPollLaunched`, `PollEnds`, `QueuedJobServed` | one job, two repositories, two requests, three builds, two failures |
| `fleet_shared` | `QueuedJobServed` (violated) | two jobs with one label, two requests, two builds, no failure |
| `warm` | `TypeOK`, `AcknowledgedJobIsServed`, `AcknowledgedWorkspaceAbsent`, `LeaseResolved` | two leases, each for one of two jobs, two failures |

Eight commits are the two that set the project up and six more: enough for a
claim, a handoff, a reservation, a settlement, a second claim and its
reservation, so that every property has room to fail; the mutants show that
each one does.  Run and process identifiers are symmetric: nothing compares
them except for equality.  Obligation identifiers are numbers and are not.
Two commits in `sqlite` let both clients append from the same head and one of
them append again; two facts make equal and different commits.  Three in `git`
are a commit, a refused tail from which one clone moves the ref back, and what
another clone appends then; no clone appends to a refused tail, because the
kernel replays the head first.  Two steps of others in `core_loop` are enough to
take over a run and settle it, to claim work and reserve its effect, and to
refresh a run of the loop twice or patch the graph after it; they allow two lost
claims, and contention that never ends is not examined.  A graph patch of theirs
retires one obligation or binds one to a definition that is not in use.  Two
failures in `fleet` and `warm` allow one while the first is being recovered from;
two requests and three builds let a
request that was given up create a build beside a newer one.  If the bound on
builds kept a request waiting, `PollEnds` would fail.  Two jobs at once make the
liveness instance too large, so `fleet` has one job and a second repository
whose scan fails independently.

**Fairness.**  `sqlite`: each client's next step, since a call is synchronous
code that runs to its end unless the process dies.  `core_loop`: the loop and
each effect, for the same reason and because a provider's call returns or is
aborted; no step of other processes is fair, and there are at most two of them.
`fleet`: polls start again
(`setInterval`, Cloud Scheduler), a call is answered when it does not fail, time
passes, builds run, GitHub assigns queued jobs to idle runners.  `warm`: the
agent's loop, Pub/Sub's redelivery of every unacknowledged message (expiry, and
strong fairness of `Pull`), that a job ends, and again GitHub, which also forgets
a runner that is not connected (`Unregister`).  Failures are
bounded instead of being excluded by fairness.  The runs `core_loop` and `warm` do not check deadlock:
the call ends, and the host may have nothing left to do.

**Assumptions about the environment.**  A runner leaves with exit code 0, and a
build that registered a runner succeeds, only after a job was run: an idle runner
never exits 0.  `AcknowledgedJobIsServed` and `QueuedJobServed` rest on it.
GitHub keeps the registration of a runner that is being started, keeps it while
the runner is connected, and forgets it some time after it is gone; if it never
did, a redelivered message could be refused for ever.

`LeaseResolved` has two exceptions, for behaviours in which they last for ever:
the agent waits for a runner that GitHub has no job for (`AgentStuck`), or a
container that does not run keeps the name of a lease whose job is still queued
(`NameTaken`).  A container, workspace or registration left behind for a while is
covered; section 4 says how the exceptions arise.

## 4. Findings

- **Refresh re-keys work in flight** (run `refresh`).
  `refreshCurrentRealization` (`src/authority/engine.ts:241`) does not look for
  work in flight, as a graph patch does.  A refreshed settlement changes the
  semantic key of everything that consumes the settlement receipt; a run of the
  old key, its unresolved reservation included, is no longer the current run.
  The obligation is claimable again and `beginEffect` looks for reservations of
  the same run only.  The one caller in production
  (`src/authority/project-agent-protocol.ts:413`) looks for unresolved effects
  first, in a projection that is older than the head it passes on, so it takes a
  reservation by another process between the two reads.
  `docs/trusted-computing-base.md:21` promises that no
  mutation crosses the effect boundary until "no unresolved prior effect
  exists".
- **A lost race spends the witness** (run `release`).
  `releaseEffectReservation` consumes its single-use witness
  (`src/authority/engine.ts:496`) in the iteration that then loses the append;
  the next iteration throws and the reservation stays.  `README.md:136` says
  the kernel "atomically releases that exact reservation".
- **The Git store drops release facts** (run `git_release`).  `history` reads a
  list of paths (`src/storage/git-store.ts:60`) in which `effect-release.json`
  is missing, although `append` writes it; replay then rejects the commit
  (`src/authority/replay.ts:408`).  `ARCHITECTURE.md:138` says "Git implements
  the same contract as a reference backend and independent replay oracle."  The
  run shows that the file is not read back; `Replays` has what follows, that no
  clone appends after such a commit.
- **A rejected effect leaves others undrained** (run `core_loop_drain`).
  `Promise.all` (`src/execution/core-loop.ts:128`) rejects with the first effect
  that cannot be reserved, and the loop throws, while others still run; the
  comment at line 130 says "Every started effect is drained before the loop
  returns." and the one at 106 that an error must not keep the loop from
  draining effects that already started.
- **A shared label starves a job** (run `fleet_shared`).  The runner started for
  one job may be given another with the same labels; its build succeeds, and
  `SUCCESS` builds are reused (`src/transport/gcp-runner-launcher.ts:59`), so the
  first job never gets a runner.  `docs/gcp-github-actions-runners.md:8` has
  jobs opt in with one label they all share; its line 39 documents the reuse, as
  what avoids duplicate compute after a restart.

More behaviours of the runners are reachable in the models, and no run of its
own states them:

- two builds for one job after a restart of the autoscaler, because the launcher
  lists and then creates (`src/transport/gcp-runner-launcher.ts:516`);
- a container whose deletion failed and whose message is acknowledged when it is
  redelivered, because its job is completed by then
  (`src/transport/gce-runner-agent.ts:476`);
- a runner whose job was cancelled after it registered, for which the agent
  waits without a limit (`gce-runner-agent.ts:437`);
- a container that outlives the agent's attempt while its job is still queued:
  every redelivery finds the name in use and fails.

## 5. Proofs

`KernelProofs` proves, for every set of processes, runs, obligations and
definitions, every initial graph and every bound on the history:

- `TypeCorrect`, `AuthorityIsSingle`, `EffectIsIssuedOnce`,
  `EffectIsRemembered`: the invariants of run `effects`;
- `AppendedFactsReplay`: `EngineFactsReplay`, i.e. the kernel's conditions imply
  replay's at every append.

The assumption is `ConstantsAssumption` of `ProjectState`: obligation
identifiers are positive numbers and the initial graph binds definitions.

None of the invariants is inductive.  `KernelInvariant` adds to the types what
the processes remember and why it is still true:

- `PermitsFenced`: a permit in memory is of a claimed run, not newer than the
  run's generation, and two permits of a run differ in generation.  With the
  guard of every operation this gives `SingleAuthority`.
- `SnapshotsFaithful`: if the head is still the one a pending append
  remembers, the decision taken then is still the decision.  This is what
  carries replay's conditions across an observation.
- `EffectsAccounted`: a run dispatched at most once; a process between
  reservation and dispatch has a reservation of the run in the history (or the
  run is settled) and nobody has dispatched for it; no two such processes are
  for the same run; a reservation carries the generation and authority of the
  attempt that made it.

One lemma per action shows that it preserves the invariant; one lemma per kind
of fact shows that replay admits it.  `HistoryProofs` says what `Advance` changes
in a history for each kind of fact, `ReplayProofs` that a fact the engine decided
on is admitted; `KernelSteps` has the actions that append nothing, `KernelAppends`
and `KernelAuthority` those that append, `KernelProofs` the rest and the theorems.

`SqliteProofs` proves, for every set of clients and facts and every number of
commits:

- `StoreIsInvariant`: `StoreInvariant`, the conjunction of `TypeOK`, `Exclusive`
  (the write lock is held exactly inside a transaction), `Transactions` (what a
  transaction staged follows from the head it read), `Chain` (the rows form one
  chain from the empty head to the head) and `Remembered` (a head that was given
  out is on the chain);
- `HeadsReplay`: `history` finds every head that was ever given out;
- `SqliteImplementsFactStore`: every behaviour of `SqliteStore` is one of
  `FactStore`.  `BeginAppend` maps to `Invoke`; `Commit`, the linearization
  point, to `Succeed`; `Stale` to `Refuse`; `BusyTimeout` and `Rollback` to
  `Throw`; a crash with a call or a result to `Forget`; everything else to a
  stutter.

It assumes `StoreAssumption`: the bound is a natural number and `NoClient` is
not a client.

## 6. What is only model-checked, and what is not modelled

Liveness under fairness (`AppendReturns`, `LoopEnds`, `PollEnds`,
`QueuedJobServed`, `LeaseResolved`) and what a recursive definition computes are
outside the prover's reach and rest on TLC; so do, for now, the properties of
`GitStore`, `CoreLoop`, `RunnerFleet` and `WarmRunner`, and
`ReservedRunStaysCurrent`.

Liveness is not checked for the kernel: it starts nothing by itself, and which
process calls it again is decided by its callers.  The structural validation of
facts (`facts.ts`), digests, evidence envelopes and explanations are data the
properties do not tell apart; so is the JSON form of a fact in the stores.

- A graph is bound by patches; every definition has an effect coordinate of its
  own, so static effect conflicts do not arise.
- `GitStore` has a remote; the mode without one is a single `update-ref` with an
  expected value.  An invalid claim at the tail stands for one an earlier
  release appended: this kernel appends none.
- In `RunnerFleet` and `WarmRunner` the runs give a job a label of its own,
  except `fleet_shared`.  A runner of `RunnerFleet` is named after its build, so
  GitHub refuses no name there.
- `CoreLoop` leaves out releases by other processes: one takes a claim, a
  reservation and the release, more steps than the bound.

The parts that are not modelled at all are listed in `PROJECT.json` with the
reason: generated code and type declarations, static analysis of the
repository, packing of archives, parsing and certification of provider
responses, confinement by system calls.

## 7. Plan

In this order; every module is kept free of `RECURSIVE` operators so that
theorems can be stated about it.

1. `ProjectAgent`: the commands advance and submit
   (`authority/project-agent-protocol.ts`) as clients of `Engine`: the sixteen
   attempts, refreshes before a claim, a crash between claim and receipt, a
   submission for a run that was taken over.  Properties: an assignment that was
   written is of a claimed run; a submission is settled at most once; an advance
   that fails for contention met some.
2. `SourceBroker`: publication of a candidate (`source/source-broker.ts`) against
   a remote that loses answers and another broker of the same run, composed with
   the settlement and retry of source integration in `Engine`.  Property: a
   published candidate is never replaced and is classified the same by everyone.
3. `Admission`: static effect conflicts (`authority/admission.ts`), recovery
   decisions (`authority/recovery.ts`), reuse (`authority/realization-reuse.ts`)
   and graph reconciliation as operators, checked against reference definitions
   over all small graphs and histories.
4. `PagedList`: absence concluded from a paged Kubernetes list
   (`providers/kubernetes/configmap.ts`), and GitHub's pages
   (`providers/github/page-collection.ts`), against a server that changes.
   Property: absence is concluded only if there was a moment at which it held.
5. `Executor`: start, output limits, timeout, cancellation and reaping of a
   process tree (`execution/executor/*.go`) with its client
   (`execution/go-client.ts`) and the hand-over of packets
   (`execution/work-exchange.ts`).  Properties: one result per request; no
   process of an attempt outlives its result; cancellation ends it.
6. `EvidenceStore`: concurrent puts, crashes and the sweep
   (`evidence/file-store.ts`).  Property: a reference that was returned is
   readable.
7. `EffectLedger`: an abstract specification of the kernel, in which a run is
   free, reserved, issued or settled, and `Kernel` shown to implement it.

Small independent modules (4, 6) share a run where one instance can hold both.

Proofs, after the models: `EffectLedger` refined by `Kernel`, from
`KernelInvariant`; `AcknowledgedCommitStays` and `KnownHeadReadable` of
`GitStore`; `SuppressedLaunchWasBuilt` and `SuccessfulPollLaunched` of
`RunnerFleet` and `AcknowledgedJobIsServed` of `WarmRunner`, whose inductive
invariants relate a request or an attempt in progress to what it will report;
the safety properties of modules 1 and 2.
