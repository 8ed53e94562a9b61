--------------------------- MODULE KubernetesRuntime ---------------------------
(***************************************************************************)
(* KubernetesAgentRuntime: one Job per agent.  The adapter creates Jobs,   *)
(* deletes a project's Jobs and reads Jobs and pods; the Job controller,   *)
(* the kubelet and the TTL controller do the rest on their own time, as    *)
(* the manifest told them: BackoffLimit retries, a deadline for the whole  *)
(* Job, collection some time after it finished.                            *)
(***************************************************************************)
EXTENDS CrewDomain, FiniteSets

CONSTANTS
  Job,            \* Job names, each used at most once (random suffix)
  Poller,         \* requests that ask for an agent's status(), several at a time
  BackoffLimit    \* retries after the first attempt

ASSUME JobAssumption == /\ IsFiniteSet(Job)
                        /\ BackoffLimit \in Nat

VARIABLES
  jobs,     \* [Job -> the Job object and its newest pod]
  polls,    \* [Poller -> its status() call, under way or answered]
  settled,  \* the Jobs some status() call has reported finished
  stopping  \* the stop_project() call: where it is, and whose Jobs it deletes

vars == <<jobs, polls, settled, stopping>>

(* The newest pod: pending ("waiting", or "stuck" for one of               *)
(* _STUCK_REASONS), running, or its container has terminated.              *)
Pod == {"none", "waiting", "stuck", "running", "exit0", "crashed"}

(* phase is the Job's life ("gone": the object is deleted), active says    *)
(* whether status.active is not zero, result how it ended.                 *)
JobRecord ==
  [phase    : {"open", "complete", "failed", "gone"},
   active   : BOOLEAN,
   pod      : Pod,
   failures : 0..(BackoffLimit + 1),
   result   : {"none", "succeeded", "failed", "deleted"},
   role     : Role,
   project  : Project]

NoJob == [phase |-> "none", active |-> FALSE, pod |-> "none", failures |-> 0,
          result |-> "none", role |-> "none", project |-> "none"]

Report == {"none", "pending", "stuck", "running", "succeeded", "failed"}

(* One status() call: between its two reads or done, the Job it asks about, *)
(* whether that Job had been reported finished when this call read it, and  *)
(* the answer.                                                              *)
Poll == [at : {"idle", "readPod"}, job : Job, after : BOOLEAN, report : Report]

NoPoll == [at |-> "idle", job |-> "none", after |-> FALSE, report |-> "none"]

NotStopping == [at |-> "idle", project |-> "none"]

TypeOK ==
  /\ jobs \in [Job -> JobRecord \cup {NoJob}]
  /\ polls \in [Poller -> Poll \cup {NoPoll}]
  /\ settled \in SUBSET Job
  /\ stopping \in [at : {"delete"}, project : Project] \cup {NotStopping}

Init ==
  /\ jobs = [j \in Job |-> NoJob]
  /\ polls = [q \in Poller |-> NoPoll]
  /\ settled = {}
  /\ stopping = NotStopping
-------------------------------------------------------------------------------
Unfinished(j) == jobs[j].phase = "open"

Exists(j) == jobs[j].phase \in {"open", "complete", "failed"}

(* A slip: every Job the selector finds is counted, finished or not. *)
LiveJobsAny(role, p) ==
  {j \in Job : Exists(j) /\ jobs[j].role = role /\ jobs[j].project = p}

(* _live_jobs: the Jobs the selector finds whose status.active is not zero. *)
LiveJobs(role, p) ==
  {j \in Job : /\ Exists(j) /\ jobs[j].active
               /\ jobs[j].role = role /\ jobs[j].project = p}

JobsOf(p) == {j \in Job : Exists(j) /\ jobs[j].project = p}

(* launch(): one API call, which returns before there is any pod. *)
CreateJob(j, role, p) ==
  /\ jobs[j] = NoJob
  /\ jobs' = [jobs EXCEPT ![j] =
       [phase |-> "open", active |-> FALSE, pod |-> "none", failures |-> 0,
        result |-> "none", role |-> role, project |-> p]]
  /\ UNCHANGED <<polls, settled, stopping>>

(* stop_project(): list the Jobs, only to count them for the log, then     *)
(* delete the collection, which by then may hold others.  The deletion is  *)
(* propagated to the pods in the background.                               *)
StopList(p) ==
  /\ stopping = NotStopping
  /\ stopping' = [at |-> "delete", project |-> p]
  /\ UNCHANGED <<jobs, polls, settled>>

Deleted(job) ==
  [job EXCEPT !.phase = "gone", !.active = FALSE,
              !.result = IF @ = "none" THEN "deleted" ELSE @]

(* A slip: the selector names no project. *)
StopDeleteAll ==
  /\ stopping.at = "delete"
  /\ jobs' = [j \in Job |-> IF Exists(j) THEN Deleted(jobs[j]) ELSE jobs[j]]
  /\ stopping' = NotStopping
  /\ UNCHANGED <<polls, settled>>

StopDelete ==
  /\ stopping.at = "delete"
  /\ jobs' = [j \in Job |->
       IF j \in JobsOf(stopping.project) THEN Deleted(jobs[j]) ELSE jobs[j]]
  /\ stopping' = NotStopping
  /\ UNCHANGED <<polls, settled>>
-------------------------------------------------------------------------------
(* The cluster. *)
External == UNCHANGED <<polls, settled, stopping>>

(* The controller creates a pod, the first one or a retry; a pod that has  *)
(* been created counts as active although it may never start.              *)
CreatePod(j) ==
  /\ Unfinished(j) /\ ~jobs[j].active
  /\ jobs' = [jobs EXCEPT ![j].active = TRUE, ![j].pod = "waiting"]
  /\ External

PodSticks(j) ==
  /\ jobs[j].pod = "waiting"
  /\ jobs' = [jobs EXCEPT ![j].pod = "stuck"]
  /\ External

ContainerStarts(j) ==
  /\ jobs[j].pod \in {"waiting", "stuck"}
  /\ jobs' = [jobs EXCEPT ![j].pod = "running"]
  /\ External

ContainerExits(j, how) ==
  /\ jobs[j].pod = "running"
  /\ jobs' = [jobs EXCEPT ![j].pod = how]
  /\ External

(* The controller notices, a second or two later: done, failed for good,   *)
(* or between two attempts.                                                *)
AttemptSucceeds(j) ==
  /\ Unfinished(j) /\ jobs[j].active /\ jobs[j].pod = "exit0"
  /\ jobs' = [jobs EXCEPT ![j].active = FALSE, ![j].phase = "complete",
                          ![j].result = "succeeded"]
  /\ External

AttemptFails(j) ==
  /\ Unfinished(j) /\ jobs[j].active /\ jobs[j].pod = "crashed"
  /\ IF jobs[j].failures < BackoffLimit
     THEN jobs' = [jobs EXCEPT ![j].active = FALSE, ![j].failures = @ + 1]
     ELSE jobs' = [jobs EXCEPT ![j].active = FALSE, ![j].failures = @ + 1,
                               ![j].phase = "failed", ![j].result = "failed"]
  /\ External

(* activeDeadlineSeconds: the Job fails and its running pod is deleted. *)
Deadline(j) ==
  /\ Unfinished(j)
  /\ jobs' = [jobs EXCEPT ![j].active = FALSE, ![j].phase = "failed",
                ![j].result = "failed",
                ![j].pod = IF @ \in {"exit0", "crashed"} THEN @ ELSE "none"]
  /\ External

(* ttlSecondsAfterFinished, longer than any status() call takes. *)
Collect(j) ==
  /\ jobs[j].phase \in {"complete", "failed"}
  /\ \A q \in Poller : ~(polls[q].at = "readPod" /\ polls[q].job = j)
  /\ jobs' = [jobs EXCEPT ![j].phase = "gone"]
  /\ External

(* The pod of a deleted Job follows it some time later. *)
PodGone(j) ==
  /\ jobs[j].phase = "gone" /\ jobs[j].pod # "none"
  /\ jobs' = [jobs EXCEPT ![j].pod = "none"]
  /\ External

Cluster(j) ==
  \/ CreatePod(j) \/ PodSticks(j) \/ ContainerStarts(j)
  \/ \E how \in {"exit0", "crashed"} : ContainerExits(j, how)
  \/ AttemptSucceeds(j) \/ AttemptFails(j) \/ Deadline(j)
  \/ Collect(j) \/ PodGone(j)
-------------------------------------------------------------------------------
(* status(): read the Job; only an active one needs its newest pod read,   *)
(* by a second call.                                                       *)
JobReport(job) ==
  CASE job.phase = "gone"                      -> "succeeded"
    [] job.phase = "complete"                  -> "succeeded"
    [] job.phase = "failed"                    -> "failed"
    [] job.phase = "open" /\ ~job.active       -> "pending"
    [] OTHER                                   -> "none"

(* A slip: a crashed attempt is reported as the agent's end. *)
PodReportCrashed(pod) ==
  CASE pod = "stuck"    -> "stuck"
    [] pod = "running"  -> "running"
    [] pod = "exit0"    -> "succeeded"
    [] pod = "crashed"  -> "failed"
    [] OTHER            -> "pending"

(* _pod_status: a crash is "pending" ("Retrying"), as only the Job's own   *)
(* Failed condition ends an agent.                                         *)
PodReport(pod) ==
  CASE pod = "stuck"    -> "stuck"
    [] pod = "running"  -> "running"
    [] pod = "exit0"    -> "succeeded"
    [] OTHER            -> "pending"

Finished(report) == report \in {"succeeded", "failed"}

(* The call of q answers: report, about Job j. *)
Answer(q, j, after, report) ==
  /\ polls' = [polls EXCEPT ![q] =
       [at |-> "idle", job |-> j, after |-> after, report |-> report]]
  /\ settled' = IF Finished(report) THEN settled \cup {j} ELSE settled

ReadJob(q, j) ==
  /\ polls[q].at = "idle"
  /\ jobs[j] # NoJob
  /\ IF JobReport(jobs[j]) = "none"
     THEN /\ polls' = [polls EXCEPT ![q] =
               [at |-> "readPod", job |-> j, after |-> j \in settled, report |-> "none"]]
          /\ UNCHANGED settled
     ELSE Answer(q, j, j \in settled, JobReport(jobs[j]))
  /\ UNCHANGED <<jobs, stopping>>

ReadPod(q) ==
  /\ polls[q].at = "readPod"
  /\ Answer(q, polls[q].job, polls[q].after, PodReport(jobs[polls[q].job].pod))
  /\ UNCHANGED <<jobs, stopping>>
-------------------------------------------------------------------------------
Next ==
  \/ \E j \in Job, role \in Role, p \in Project : CreateJob(j, role, p)
  \/ \E p \in Project : StopList(p)
  \/ StopDelete
  \/ \E j \in Job : Cluster(j)
  \/ \E q \in Poller, j \in Job : ReadJob(q, j)
  \/ \E q \in Poller : ReadPod(q)

Spec == Init /\ [][Next]_vars
-------------------------------------------------------------------------------
(* The port these Jobs implement: an agent is live while its Job has an    *)
(* active pod, idle while the Job is unfinished and has none.              *)
AgentOf(job) ==
  IF job = NoJob THEN [phase |-> "unused", role |-> "none", project |-> "none"]
  ELSE [phase   |-> IF job.phase # "open" THEN "ended"
                    ELSE IF job.active THEN "live" ELSE "idle",
        role    |-> job.role,
        project |-> job.project]

Port == INSTANCE AgentRuntime WITH
          Agent           <- Job,
          CountedAtLaunch <- FALSE,
          agents          <- [j \in Job |-> AgentOf(jobs[j])]

(* The Jobs and the cluster behave as the AgentRuntime port lets agents    *)
(* behave: no step revives an ended agent, counts one twice or changes     *)
(* whom it works for.                                                      *)
ImplementsPort == Port!AgentsSpec

(* census() and handles() see exactly the agents the port calls live: an   *)
(* agent that is over, however it ended, occupies no slot                  *)
(* (k8s_runtime.py, census).                                               *)
CensusAgrees ==
  \A role \in Role, p \in Project : LiveJobs(role, p) = Port!LiveOn(role, p)

(* An agent is reported failed only when it is over: never while the       *)
(* cluster is already starting its replacement (k8s_runtime.py,            *)
(* _pod_status).                                                           *)
FailedIsForGood ==
  \A q \in Poller : polls[q].report = "failed" => ~Unfinished(polls[q].job)

(* Once the roster has said that an agent is finished, no status() call    *)
(* that begins afterwards says that it is coming up or working, although   *)
(* each is two reads of a moving cluster; only deleting the Job between    *)
(* the two can make it.  Calls that overlap may answer in either order.    *)
TerminalReportsSettle ==
  \A q \in Poller : polls[q].at = "idle" /\ polls[q].after =>
    Finished(polls[q].report) \/ jobs[polls[q].job].phase = "gone"

(* What ports/runtime.py says of an agent that is stuck: Kubernetes        *)
(* retries it "forever without ever counting a failure, so nothing times   *)
(* these out on our behalf".                                               *)
NothingTimesOutTheStuck ==
  [][\A j \in Job : Unfinished(j) /\ jobs[j].pod = "stuck" =>
       Unfinished(j)' \/ jobs'[j].result = "deleted"]_jobs
===============================================================================
