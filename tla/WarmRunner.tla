------------------------------ MODULE WarmRunner ------------------------------
(***************************************************************************)
(* The warm host (src/transport/gce-runner-agent.ts): one agent that takes *)
(* leases from a Pub/Sub subscription and runs each in a container.        *)
(* Pub/Sub, Docker and GitHub are the environment.  A runner, a container  *)
(* and a workspace are named after the message (dockerName, workspace), so *)
(* every delivery of a message uses the same names.                        *)
(***************************************************************************)
EXTENDS Naturals

CONSTANTS
    Jobs, Messages,
    Takes,          \* Takes[j]: the jobs a runner with the labels of j may be given
    MaxFaults       \* bound: failures of a call, a process or the host

NoJob == "none"

ASSUME WarmAssumption ==
    /\ NoJob \notin Jobs
    /\ Takes \in [Jobs -> SUBSET Jobs]
    /\ MaxFaults \in Nat

VARIABLES
    job,            \* what GitHub says of a job
    registered,     \* the messages whose runner name GitHub has a runner of
    lease,          \* what Pub/Sub has of a message
    jobOf,          \* the job its lease is for
    agent,          \* where runForever is, and in which message
    container,      \* the container named after a message
    workspace,      \* whether the workspace of a message exists
    faults

github == <<job, registered>>
pubsub == <<lease, jobOf>>
hostVars == <<container, workspace>>
vars == <<github, pubsub, agent, hostVars, faults>>

NoContainer == [status |-> "none"]
Pulling == [at |-> "pulling"]

Init ==
    /\ job = [j \in Jobs |-> "absent"]
    /\ registered = {}
    /\ lease = [m \in Messages |-> "unpublished"]
    /\ jobOf = [m \in Messages |-> NoJob]
    /\ agent = Pulling
    /\ container = [m \in Messages |-> NoContainer]
    /\ workspace = [m \in Messages |-> FALSE]
    /\ faults = 0

Fault == faults < MaxFaults /\ faults' = faults + 1

At(point) == agent.at = point
Goto(point, error) == agent' = [at |-> point, message |-> agent.message, error |-> error]
Handles(m) == agent # Pulling /\ agent.message = m
With(status) == [container EXCEPT ![agent.message] = [status |-> status]]

-----------------------------------------------------------------------------
(* The agent                                                               *)

Pull(m) ==
    /\ At("pulling") /\ lease[m] = "available"
    /\ lease' = [lease EXCEPT ![m] = "leased"]
    /\ agent' = [at |-> "extending", message |-> m, error |-> FALSE]
    /\ UNCHANGED <<github, jobOf, hostVars, faults>>

\* The first modifyAckDeadline, and the mkdir that follows it
Extend ==
    /\ At("extending")
    /\ workspace' = [workspace EXCEPT ![agent.message] = TRUE]
    /\ Goto("authorizing", FALSE)
    /\ UNCHANGED <<github, pubsub, container, faults>>

ExtendFails ==
    /\ At("extending") /\ Fault
    /\ agent' = Pulling
    /\ UNCHANGED <<github, pubsub, hostVars>>

Queued(m) == job[jobOf[m]] = "queued"
Register(m) == registered' = registered \cup {m}

\* Mutant: a job that is not queued any more is an error.
AuthorizeOrThrow ==
    /\ At("authorizing")
    /\ \/ ~Queued(agent.message) /\ UNCHANGED registered /\ Goto("cleaning", TRUE)
       \/ Queued(agent.message) /\ agent.message \notin registered
          /\ Register(agent.message) /\ Goto("creating", FALSE)
    /\ UNCHANGED <<job, pubsub, hostVars, faults>>

\* authorizeQueuedJob: a job that is not queued is stale; else GitHub makes a
\* runner of this name.
Authorize ==
    /\ At("authorizing")
    /\ \/ ~Queued(agent.message) /\ UNCHANGED registered /\ Goto("cleaning", FALSE)
       \/ Queued(agent.message) /\ agent.message \notin registered
          /\ Register(agent.message) /\ Goto("creating", FALSE)
    /\ UNCHANGED <<job, pubsub, hostVars, faults>>

\* generate-jitconfig is refused: a runner of this name exists.
NameRefused ==
    /\ At("authorizing") /\ Queued(agent.message) /\ agent.message \in registered
    /\ Goto("cleaning", TRUE)
    /\ UNCHANGED <<github, pubsub, hostVars, faults>>

\* A call fails, perhaps after GitHub made the runner, or the jit-config
\* cannot be written.
AuthorizeFails ==
    /\ At("authorizing") /\ Fault
    /\ UNCHANGED registered \/ (Queued(agent.message) /\ Register(agent.message))
    /\ Goto("cleaning", TRUE)
    /\ UNCHANGED <<job, pubsub, hostVars>>

Create ==
    /\ At("creating") /\ container[agent.message] = NoContainer
    /\ container' = With("created")
    /\ Goto("starting", FALSE)
    /\ UNCHANGED <<github, pubsub, workspace, faults>>

\* Mutant: the container of that name is taken for the one asked for.
CreateConflictsReused ==
    /\ At("creating") /\ container[agent.message] # NoContainer
    /\ Goto("starting", FALSE)
    /\ UNCHANGED <<github, pubsub, hostVars, faults>>

\* The name is in use: HTTP 409.
CreateConflicts ==
    /\ At("creating") /\ container[agent.message] # NoContainer
    /\ Goto("cleaning", TRUE)
    /\ UNCHANGED <<github, pubsub, hostVars, faults>>

\* Docker fails, or creates the container and its answer is unreadable.
CreateFails ==
    /\ At("creating") /\ container[agent.message] = NoContainer /\ Fault
    /\ container' \in {container, With("created")}
    /\ Goto("cleaning", TRUE)
    /\ UNCHANGED <<github, pubsub, workspace>>

Start ==
    /\ At("starting")
    /\ container' = With("idle")
    /\ Goto("waiting", FALSE)
    /\ UNCHANGED <<github, pubsub, workspace, faults>>

Exited == {"exit_zero", "exit_nonzero"}

\* Mutant: the exit code of the container is not looked at.
WaitForAnyExit ==
    /\ At("waiting") /\ container[agent.message].status \in Exited
    /\ Goto("removing", FALSE)
    /\ UNCHANGED <<github, pubsub, hostVars, faults>>

Wait ==
    /\ At("waiting") /\ container[agent.message].status \in Exited
    /\ Goto("removing", container[agent.message].status = "exit_nonzero")
    /\ UNCHANGED <<github, pubsub, hostVars, faults>>

\* The start or the wait fails; the container is removed all the same.
ExecutionFails ==
    /\ At("starting") \/ At("waiting")
    /\ Fault
    /\ Goto("removing", TRUE)
    /\ UNCHANGED <<github, pubsub, hostVars>>

\* A job whose runner is gone ends as far as GitHub is concerned.
Abandoned(ms) ==
    [j \in Jobs |->
        IF \E m \in ms : container[m].status = "busy" /\ container[m].runs = j
        THEN "completed" ELSE job[j]]

\* DELETE and GET; the GET may fail when the DELETE did not.
Remove(readback) ==
    /\ At("removing")
    /\ job' = Abandoned({agent.message})
    /\ container' = With("none")
    /\ Goto("cleaning", agent.error \/ ~readback)
    /\ IF readback THEN UNCHANGED faults ELSE Fault
    /\ UNCHANGED <<registered, pubsub, workspace>>

RemoveFails ==
    /\ At("removing") /\ Fault
    /\ Goto("cleaning", TRUE)
    /\ UNCHANGED <<github, pubsub, hostVars>>

AfterCleaning(error) ==
    IF error THEN agent' = Pulling ELSE Goto("acknowledging", FALSE)

Clean ==
    /\ At("cleaning")
    /\ workspace' = [workspace EXCEPT ![agent.message] = FALSE]
    /\ AfterCleaning(agent.error)
    /\ UNCHANGED <<github, pubsub, container, faults>>

\* Mutant: no lstat after the removal.
CleanFailsUnnoticed ==
    /\ At("cleaning") /\ Fault
    /\ AfterCleaning(agent.error)
    /\ UNCHANGED <<github, pubsub, hostVars>>

CleanFails ==
    /\ At("cleaning") /\ Fault
    /\ AfterCleaning(TRUE)
    /\ UNCHANGED <<github, pubsub, hostVars>>

\* A late acknowledgement, after the deadline, may come to nothing.
Acknowledge ==
    /\ At("acknowledging")
    /\ LET m == agent.message
       IN  lease' \in {[lease EXCEPT ![m] = "acked"]} \cup
                      (IF lease[m] = "available" THEN {lease} ELSE {})
    /\ agent' = Pulling
    /\ UNCHANGED <<github, jobOf, hostVars, faults>>

AcknowledgeFails ==
    /\ At("acknowledging") /\ Fault
    /\ agent' = Pulling
    /\ UNCHANGED <<github, pubsub, hostVars>>

\* The agent's container is restarted (--restart=always); all else stays.
Restart ==
    /\ Fault
    /\ agent' = Pulling
    /\ UNCHANGED <<github, pubsub, hostVars>>

\* The instance group replaces the host.
HostReplaced ==
    /\ Fault
    /\ agent' = Pulling
    /\ job' = Abandoned(Messages)
    /\ container' = [m \in Messages |-> NoContainer]
    /\ workspace' = [m \in Messages |-> FALSE]
    /\ UNCHANGED <<registered, pubsub>>

-----------------------------------------------------------------------------
(* Pub/Sub, containers and GitHub                                          *)

\* The launcher publishes a lease for a job it was told is queued.
Publish(m, j) ==
    /\ lease[m] = "unpublished" /\ job[j] # "absent"
    /\ lease' = [lease EXCEPT ![m] = "available"]
    /\ jobOf' = [jobOf EXCEPT ![m] = j]
    /\ UNCHANGED <<github, agent, hostVars, faults>>

\* The deadline passes: nobody extends it, or the extension fails.
Expire(m) ==
    /\ lease[m] = "leased"
    /\ IF Handles(m) THEN Fault ELSE UNCHANGED faults
    /\ lease' = [lease EXCEPT ![m] = "available"]
    /\ UNCHANGED <<github, jobOf, agent, hostVars>>

Assign(m, j) ==
    /\ container[m].status = "idle" /\ j \in Takes[jobOf[m]] /\ job[j] = "queued"
    /\ job' = [job EXCEPT ![j] = "in_progress"]
    /\ container' = [container EXCEPT ![m] = [status |-> "busy", runs |-> j]]
    /\ UNCHANGED <<registered, pubsub, agent, workspace, faults>>

RunnerExits(m, success) ==
    /\ \/ container[m].status = "busy"
       \/ container[m].status = "idle" /\ ~success
    /\ job' = Abandoned({m})
    /\ container' = [container EXCEPT ![m] =
                        [status |-> IF success THEN "exit_zero" ELSE "exit_nonzero"]]
    /\ IF success THEN UNCHANGED faults ELSE Fault
    /\ UNCHANGED <<registered, pubsub, agent, workspace>>

\* GitHub forgets a runner that is not connected, and one that had its job.
\* It does not while the agent is about to start it.
Unregister(m) ==
    /\ m \in registered /\ container[m].status \notin {"idle", "busy"}
    /\ ~(Handles(m) /\ agent.at \in {"creating", "starting"})
    /\ registered' = registered \ {m}
    /\ UNCHANGED <<job, pubsub, agent, hostVars, faults>>

JobQueued(j) ==
    /\ job[j] = "absent"
    /\ job' = [job EXCEPT ![j] = "queued"]
    /\ UNCHANGED <<registered, pubsub, agent, hostVars, faults>>

JobCancelled(j) ==
    /\ job[j] = "queued"
    /\ job' = [job EXCEPT ![j] = "completed"]
    /\ UNCHANGED <<registered, pubsub, agent, hostVars, faults>>

Agent ==
    \/ Extend \/ Authorize \/ NameRefused \/ Create \/ CreateConflicts \/ Start \/ Wait \/ Remove(TRUE)
    \/ Clean \/ Acknowledge
    \/ \E m \in Messages : Pull(m)

Failure ==
    \/ ExtendFails \/ AuthorizeFails \/ CreateFails \/ ExecutionFails \/ Remove(FALSE)
    \/ RemoveFails \/ CleanFails \/ AcknowledgeFails \/ Restart \/ HostReplaced

Environment ==
    \/ \E m \in Messages :
          \/ Expire(m) \/ Unregister(m)
          \/ \E j \in Jobs : Publish(m, j) \/ Assign(m, j)
          \/ \E success \in BOOLEAN : RunnerExits(m, success)
    \/ \E j \in Jobs : JobQueued(j) \/ JobCancelled(j)

Next == Agent \/ Failure \/ Environment

Spec == Init /\ [][Next]_vars

\* The agent's loop runs for ever; Pub/Sub delivers every message again and
\* again; GitHub gives jobs to idle runners, forgets runners that are gone,
\* and a job ends.
Fairness ==
    /\ WF_vars(Agent)
    /\ \A m \in Messages :
          /\ SF_vars(Pull(m))
          /\ WF_vars(~Handles(m) /\ Expire(m)) /\ WF_vars(Unregister(m))
          /\ WF_vars(\E j \in Jobs : Assign(m, j)) /\ WF_vars(RunnerExits(m, TRUE))

FairSpec == Spec /\ Fairness
-----------------------------------------------------------------------------
(* Properties                                                              *)

\* The type invariant.
TypeOK ==
    /\ job \in [Jobs -> {"absent", "queued", "in_progress", "completed"}]
    /\ registered \subseteq Messages
    /\ lease \in [Messages -> {"unpublished", "available", "leased", "acked"}]
    /\ \A m \in Messages : jobOf[m] \in Jobs \cup (IF lease[m] = "unpublished" THEN {NoJob} ELSE {})
    /\ workspace \in [Messages -> BOOLEAN]
    /\ \A m \in Messages : container[m].status \in
           {"none", "created", "idle", "busy"} \cup Exited
    /\ At("starting") => container[agent.message].status = "created"

\* runForever acknowledges a message only when its job is served: with labels
\* of its own, a job whose lease is gone is not left queued.
AcknowledgedJobIsServed ==
    \A m \in Messages : lease[m] = "acked" => job[jobOf[m]] \notin {"absent", "queued"}

\* processObservedMessage: no workspace is left of an acknowledged message.
AcknowledgedWorkspaceAbsent ==
    \A m \in Messages : lease[m] = "acked" => ~workspace[m]

\* The agent waits for a runner GitHub has no job for.
AgentStuck ==
    /\ At("waiting") /\ container[agent.message].status = "idle"
    /\ \A j \in Takes[jobOf[agent.message]] : job[j] # "queued"

\* A container that does not run has the name a queued job's runner needs.
NameTaken(m) == container[m].status \in {"created"} \cup Exited /\ Queued(m)

\* runForever: whatever call failed, whichever process or host was replaced
\* and whatever it left behind, a published lease is acknowledged in the end.
\* Two cases are excepted, and only if they last: the agent waits for a runner
\* that is given no job, or the name of the lease's container stays taken
\* while its job is queued.
LeaseResolved ==
    \A m \in Messages :
        \/ <>[](AgentStuck \/ NameTaken(m))
        \/ lease[m] = "available" ~> lease[m] = "acked"
=============================================================================
