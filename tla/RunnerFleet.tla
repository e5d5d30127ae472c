----------------------------- MODULE RunnerFleet -----------------------------
(***************************************************************************)
(* Runners for queued GitHub jobs on Cloud Build: the autoscaler's poll    *)
(* (src/transport/gcp-runner-autoscaler.ts), the launcher's submission and *)
(* the build it submits (src/transport/gcp-runner-launcher.ts).  GitHub    *)
(* and Cloud Build are the environment.                                    *)
(*                                                                         *)
(* A launch the autoscaler remembers is recent, or old once                *)
(* redispatch_after_ms have passed.  A build that failed, expired or was   *)
(* cancelled is none: nothing looks at it any more.                        *)
(***************************************************************************)
EXTENDS Naturals

CONSTANTS
    Jobs, Repositories,
    RepositoryOf,   \* [Jobs -> Repositories]
    Takes,          \* Takes[j]: the jobs a runner with the labels of j may be given
    Requests,       \* bound: requests the launcher handles at a time
    Builds,         \* bound: builds that have not failed
    MaxFaults       \* bound: failures of a service, a build or a process

ASSUME FleetAssumption ==
    /\ RepositoryOf \in [Jobs -> Repositories]
    /\ Takes \in [Jobs -> SUBSET Jobs]
    /\ MaxFaults \in Nat

VARIABLES
    job,            \* what GitHub says of a job
    poll,           \* pollOnce: idle, scanning or launching
    pending,        \* repositories whose scan has not ended
    seen,           \* the queued jobs the scans of the last poll returned
    launches,       \* launches that have not been sent
    errors,         \* whether this poll has recorded an error
    launched,       \* state.launched
    lastError,      \* state.lastError # null
    requests,       \* the launcher's requests
    builds,
    built,          \* jobs for which a build was ever created
    faults          \* failures so far

pollVars == <<poll, pending, seen, launches>>
scalerVars == <<pollVars, errors, launched, lastError>>
cloudVars == <<builds, built>>
vars == <<job, scalerVars, requests, cloudVars, faults>>

Fault == faults < MaxFaults /\ faults' = faults + 1

NoRequest == [phase |-> "free"]
NoBuild == [status |-> "none"]

Init ==
    /\ job = [j \in Jobs |-> "absent"]
    /\ poll = "idle"
    /\ pending = {} /\ seen = {} /\ launches = {}
    /\ errors = FALSE
    /\ launched = [j \in Jobs |-> "none"]
    /\ lastError = FALSE
    /\ requests = [q \in Requests |-> NoRequest]
    /\ builds = [b \in Builds |-> NoBuild]
    /\ built = {}
    /\ faults = 0

-----------------------------------------------------------------------------
(* The autoscaler                                                          *)

\* Mutant: a launch is remembered for ever.
NeverPruned == launched

\* pruneLaunches
Pruned == [j \in Jobs |-> IF launched[j] = "old" THEN "none" ELSE launched[j]]

\* The timer, POST /reconcile or a webhook that is a wake hint.  A call of
\* pollOnce while another one runs changes nothing.
StartPoll ==
    /\ poll = "idle"
    /\ poll' = "scanning"
    /\ pending' = Repositories /\ seen' = {}
    /\ errors' = FALSE
    /\ launched' = Pruned
    /\ UNCHANGED <<job, launches, lastError, requests, cloudVars, faults>>

Scan(r) ==
    /\ poll = "scanning" /\ r \in pending
    /\ pending' = pending \ {r}
    /\ seen' = seen \cup {j \in Jobs : RepositoryOf[j] = r /\ job[j] = "queued"}
    /\ UNCHANGED <<job, poll, launches, errors, launched, lastError, requests, cloudVars, faults>>

\* The token, the identity of the repository or a page cannot be read.
ScanFails(r) ==
    /\ poll = "scanning" /\ r \in pending /\ Fault
    /\ pending' = pending \ {r}
    /\ errors' = TRUE
    /\ UNCHANGED <<job, poll, seen, launches, launched, lastError, requests, cloudVars>>

\* Mutant: the flag of a poll that threw stays set.
FinishOrStick(failed) ==
    /\ poll' = IF failed THEN poll ELSE "idle"
    /\ lastError' = failed

\* The outcome, and the finally block
Finish(failed) ==
    /\ poll' = "idle"
    /\ lastError' = failed

Launchable == {j \in seen : launched[j] = "none"}

\* The catch of pollOnce: cloudRunIdentityToken failed.
PollFails ==
    /\ poll = "scanning" /\ pending = {} /\ Launchable # {} /\ Fault
    /\ Finish(TRUE)
    /\ UNCHANGED <<job, pending, seen, launches, errors, launched, requests, cloudVars>>

StartLaunches ==
    /\ poll = "scanning" /\ pending = {}
    /\ poll' = "launching"
    /\ launches' = Launchable
    /\ UNCHANGED <<job, pending, seen, errors, launched, lastError, requests, cloudVars, faults>>

Launch(j, q) ==
    /\ j \in launches /\ requests[q] = NoRequest
    /\ launches' = launches \ {j}
    /\ requests' = [requests EXCEPT ![q] = [phase |-> "listing", job |-> j, awaited |-> TRUE]]
    /\ UNCHANGED <<job, poll, pending, seen, errors, launched, lastError, cloudVars, faults>>

Awaited(q) == requests[q] # NoRequest /\ requests[q].awaited

\* fetch fails; the launcher goes on.
LaunchUnanswered(q) ==
    /\ Awaited(q) /\ Fault
    /\ requests' = [requests EXCEPT ![q].awaited = FALSE]
    /\ errors' = TRUE
    /\ UNCHANGED <<job, pollVars, launched, lastError, cloudVars>>

\* Mutant: the launches are not awaited.
EndPollAtOnce ==
    /\ poll = "launching" /\ launches = {}
    /\ Finish(errors)
    /\ UNCHANGED <<job, pending, seen, launches, errors, launched, requests, cloudVars, faults>>

EndPoll ==
    /\ poll = "launching" /\ launches = {}
    /\ \A q \in Requests : ~Awaited(q)
    /\ Finish(errors)
    /\ UNCHANGED <<job, pending, seen, launches, errors, launched, requests, cloudVars, faults>>

\* redispatch_after_ms pass.
Ages(j) ==
    /\ launched[j] = "recent"
    /\ launched' = [launched EXCEPT ![j] = "old"]
    /\ UNCHANGED <<job, pollVars, errors, lastError, requests, cloudVars, faults>>

\* The process is replaced; the launcher keeps its requests.
Restart ==
    /\ Fault
    /\ poll' = "idle"
    /\ pending' = {} /\ seen' = {} /\ launches' = {}
    /\ errors' = FALSE
    /\ launched' = [j \in Jobs |-> "none"]
    /\ lastError' = FALSE
    /\ requests' = [q \in Requests |->
           IF Awaited(q) THEN [requests[q] EXCEPT !.awaited = FALSE] ELSE requests[q]]
    /\ UNCHANGED <<job, cloudVars>>

-----------------------------------------------------------------------------
(* The launcher                                                            *)

\* PENDING comes before QUEUED and is not told apart from it.
REUSABLE_RUNNER_BUILD_STATUSES == {"QUEUED", "WORKING", "SUCCESS"}

\* Mutant: a failed launch is remembered too.
RememberedAnyway(q, accepted) ==
    IF Awaited(q) THEN [launched EXCEPT ![requests[q].job] = "recent"] ELSE launched

\* state.launched.set, once the launcher has accepted
Remembered(q, accepted) ==
    IF Awaited(q) /\ accepted THEN [launched EXCEPT ![requests[q].job] = "recent"] ELSE launched

\* Mutant: a refused launch is not an error of the poll.
RefusalIgnored(q, accepted) == errors

\* errors.push, when it has not
Refused(q, accepted) == errors \/ (Awaited(q) /\ ~accepted)

Respond(q, accepted) ==
    /\ requests' = [requests EXCEPT ![q] = NoRequest]
    /\ launched' = Remembered(q, accepted)
    /\ errors' = Refused(q, accepted)
    /\ UNCHANGED <<job, pollVars, lastError>>

Reusable(j) ==
    \E b \in Builds :
        builds[b].status \in REUSABLE_RUNNER_BUILD_STATUSES /\ builds[b].job = j

Reuse(q) ==
    /\ requests[q].phase = "listing"
    /\ Reusable(requests[q].job)
    /\ Respond(q, TRUE)
    /\ UNCHANGED <<cloudVars, faults>>

NothingToReuse(q) ==
    /\ requests[q].phase = "listing"
    /\ ~Reusable(requests[q].job)
    /\ requests' = [requests EXCEPT ![q].phase = "creating"]
    /\ UNCHANGED <<job, scalerVars, cloudVars, faults>>

\* The build is created; its answer may be unreadable.
Create(q, accepted) ==
    /\ requests[q].phase = "creating"
    /\ \E b \in Builds :
          /\ builds[b] = NoBuild
          /\ builds' = [builds EXCEPT ![b] =
                           [status |-> "QUEUED", job |-> requests[q].job, runner |-> "none"]]
    /\ built' = built \cup {requests[q].job}
    /\ IF accepted THEN UNCHANGED faults ELSE Fault
    /\ Respond(q, accepted)

SubmissionFails(q) ==
    /\ Fault
    /\ requests[q] # NoRequest
    /\ Respond(q, FALSE)
    /\ UNCHANGED cloudVars

-----------------------------------------------------------------------------
(* Builds and GitHub                                                       *)

BuildStarts(b) ==
    /\ builds[b].status = "QUEUED"
    /\ builds' = [builds EXCEPT ![b].status = "WORKING"]
    /\ UNCHANGED <<job, scalerVars, requests, built, faults>>

Unregistered(b) == builds[b].status = "WORKING" /\ builds[b].runner = "none"
Idle(b) == builds[b].status = "WORKING" /\ builds[b].runner = "idle"
Busy(b) == builds[b].status = "WORKING" /\ builds[b].runner = "busy"

\* AUTHORIZE_JOB_SCRIPT registers a runner for a job that is still queued,
\* and otherwise the build ends with nothing to do.
Register(b) ==
    /\ Unregistered(b) /\ job[builds[b].job] = "queued"
    /\ builds' = [builds EXCEPT ![b] =
                     [status |-> "WORKING", job |-> builds[b].job, runner |-> "idle"]]
    /\ UNCHANGED <<job, scalerVars, requests, built, faults>>

Skip(b) ==
    /\ Unregistered(b) /\ job[builds[b].job] # "queued"
    /\ builds' = [builds EXCEPT ![b].status = "SUCCESS"]
    /\ UNCHANGED <<job, scalerVars, requests, built, faults>>

\* A step fails, or queueTtl passes.
BuildFails(b) ==
    /\ Fault
    /\ builds[b].status = "QUEUED" \/ Unregistered(b) \/ Idle(b)
    /\ builds' = [builds EXCEPT ![b] = NoBuild]
    /\ UNCHANGED <<job, scalerVars, requests, built>>

\* The timeout passes while GitHub has no job for the runner.
RunnerTimesOut(b) ==
    /\ Idle(b) /\ \A j \in Takes[builds[b].job] : job[j] # "queued"
    /\ builds' = [builds EXCEPT ![b] = NoBuild]
    /\ UNCHANGED <<job, scalerVars, requests, built, faults>>

\* GitHub gives an idle runner a queued job with the runner's labels.
Assign(b, j) ==
    /\ Idle(b) /\ j \in Takes[builds[b].job] /\ job[j] = "queued"
    /\ job' = [job EXCEPT ![j] = "in_progress"]
    /\ builds' = [builds EXCEPT ![b] = [status |-> "WORKING", job |-> builds[b].job,
                                        runner |-> "busy", runs |-> j]]
    /\ UNCHANGED <<scalerVars, requests, built, faults>>

\* The runner executes one job and exits.
RunnerExits(b, success) ==
    /\ Busy(b)
    /\ job' = [job EXCEPT ![builds[b].runs] = "completed"]
    /\ builds' = [builds EXCEPT ![b] =
                     IF success THEN [status |-> "SUCCESS", job |-> builds[b].job, runner |-> "none"]
                     ELSE NoBuild]
    /\ IF success THEN UNCHANGED faults ELSE Fault
    /\ UNCHANGED <<scalerVars, requests, built>>

JobQueued(j) ==
    /\ job[j] = "absent"
    /\ job' = [job EXCEPT ![j] = "queued"]
    /\ UNCHANGED <<scalerVars, requests, cloudVars, faults>>

JobCancelled(j) ==
    /\ job[j] = "queued"
    /\ job' = [job EXCEPT ![j] = "completed"]
    /\ UNCHANGED <<scalerVars, requests, cloudVars, faults>>

Autoscaler ==
    \/ StartPoll \/ PollFails \/ StartLaunches \/ EndPoll \/ Restart
    \/ \E r \in Repositories : Scan(r) \/ ScanFails(r)
    \/ \E j \in Jobs : Ages(j) \/ \E q \in Requests : Launch(j, q)

Launcher ==
    \E q \in Requests :
        \/ LaunchUnanswered(q) \/ Reuse(q) \/ NothingToReuse(q) \/ SubmissionFails(q)
        \/ \E accepted \in BOOLEAN : Create(q, accepted)

CloudBuild ==
    \E b \in Builds :
        \/ BuildStarts(b) \/ Register(b) \/ Skip(b) \/ BuildFails(b) \/ RunnerTimesOut(b)
        \/ \E j \in Jobs : Assign(b, j)
        \/ \E success \in BOOLEAN : RunnerExits(b, success)

GitHub == \E j \in Jobs : JobQueued(j) \/ JobCancelled(j)

Next == Autoscaler \/ Launcher \/ CloudBuild \/ GitHub

Spec == Init /\ [][Next]_vars

\* Polls are started again and again (setInterval, Cloud Scheduler), a call
\* is answered or fails, a build runs, and GitHub gives idle runners jobs.
Fairness ==
    /\ WF_vars(StartPoll) /\ WF_vars(StartLaunches) /\ WF_vars(EndPoll)
    /\ \A r \in Repositories : WF_vars(Scan(r))
    /\ \A j \in Jobs : WF_vars(Ages(j)) /\ WF_vars(\E q \in Requests : Launch(j, q))
    /\ \A q \in Requests : WF_vars(Reuse(q) \/ NothingToReuse(q) \/ Create(q, TRUE))
    /\ \A b \in Builds :
          /\ WF_vars(BuildStarts(b) \/ Register(b) \/ Skip(b) \/ RunnerExits(b, TRUE))
          /\ WF_vars(RunnerTimesOut(b) \/ \E j \in Jobs : Assign(b, j))

FairSpec == Spec /\ Fairness
-----------------------------------------------------------------------------
(* Properties                                                              *)

\* The type invariant.
TypeOK ==
    /\ job \in [Jobs -> {"absent", "queued", "in_progress", "completed"}]
    /\ poll \in {"idle", "scanning", "launching"}
    /\ pending \subseteq Repositories /\ seen \subseteq Jobs /\ launches \subseteq seen
    /\ launched \in [Jobs -> {"none", "recent", "old"}]
    /\ \A q \in Requests : requests[q] = NoRequest \/ requests[q].job \in Jobs
    /\ \A b \in Builds : builds[b] = NoBuild \/ builds[b].job \in Jobs
    /\ poll = "idle" => \A q \in Requests : ~Awaited(q)

\* A launch is suppressed only after a build was created for its job.
SuppressedLaunchWasBuilt == \A j \in Jobs : launched[j] # "none" => j \in built

\* pollOnce reports success only when every queued job it saw has a launch
\* that was accepted.
SuccessfulPollLaunched ==
    poll = "idle" /\ ~lastError => \A j \in seen : launched[j] # "none"

\* A poll ends, also when it throws, so that the next one can start.
PollEnds == poll # "idle" ~> poll = "idle"

\* A queued job does not stay queued: some runner takes it unless it is
\* cancelled.
QueuedJobServed == \A j \in Jobs : job[j] = "queued" ~> job[j] # "queued"
=============================================================================
