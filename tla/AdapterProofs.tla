----------------------------- MODULE AdapterProofs -----------------------------
(***************************************************************************)
(* What the two adapters promise the control plane.  KubernetesRuntime     *)
(* implements the AgentRuntime port for any number of Jobs, roles,         *)
(* projects and retries: every step of the adapter and of the cluster is a *)
(* step of the port or changes nothing the port shows.  RedisProjectStore  *)
(* keeps its index and the answers of list_active() in agreement with the  *)
(* records, for any number of callers and projects, although each          *)
(* operation is several commands.  The runtime comes first.                *)
(***************************************************************************)
EXTENDS KubernetesRuntime, RedisProjectStore, FiniteSetTheorems, TLAPS

FailedReported(j) == \E q \in Poller : polls[q].job = j /\ polls[q].report = "failed"

(* An unfinished Job has retries left, only an unfinished one has an       *)
(* active pod, and one reported failed is over.                            *)
JobOK(j) ==
  /\ jobs[j].phase = "open" => jobs[j].failures <= BackoffLimit
  /\ jobs[j].active => jobs[j].phase = "open"
  /\ FailedReported(j) => jobs[j].phase \in {"complete", "failed", "gone"}

JobsOK == \A j \in Job : JobOK(j)

(* The inductive invariant. *)
IInv == TypeOK /\ JobsOK
-------------------------------------------------------------------------------
LEMMA NoJobIsNone == NoJob \notin JobRecord
BY DEF NoJob, JobRecord

LEMMA InitEstablishes == Init => IInv
BY DEF Init, IInv, TypeOK, JobsOK, JobOK, FailedReported, NoJob, NoPoll, NotStopping

(* A step that replaces one Job, leaving alone what the adapter remembers. *)
LEMMA OneJobMoves ==
  ASSUME IInv, NEW j \in Job, NEW job \in JobRecord,
         jobs' = [jobs EXCEPT ![j] = job],
         job.phase = "open" => job.failures <= BackoffLimit,
         job.active => job.phase = "open",
         FailedReported(j) => job.phase \in {"complete", "failed", "gone"},
         UNCHANGED <<polls, settled, stopping>>
  PROVE  IInv'
<1>1. jobs' \in [Job -> JobRecord \cup {NoJob}]
  BY DEF IInv, TypeOK
<1>2. TypeOK'
  BY <1>1 DEF IInv, TypeOK
<1>3. ASSUME NEW i \in Job
      PROVE  JobOK(i)'
  <2>1. CASE i = j
    BY <2>1 DEF IInv, TypeOK, JobsOK, JobOK, FailedReported
  <2>2. CASE i # j
    <3>1. jobs'[i] = jobs[i]
      BY <2>2 DEF IInv, TypeOK
    <3>2. QED
      BY <3>1 DEF IInv, JobsOK, JobOK, FailedReported
  <2>3. QED
    BY <2>1, <2>2
<1>4. QED
  BY <1>2, <1>3 DEF IInv, JobsOK
-------------------------------------------------------------------------------
(* How the port sees a Job change on the cluster's side. *)
PhaseOf(j) == AgentOf(jobs[j]).phase

Moved(j) ==
  \/ AgentOf(jobs'[j]) = AgentOf(jobs[j])
  \/ /\ PhaseOf(j) = "idle"
     /\ AgentOf(jobs'[j]) = [AgentOf(jobs[j]) EXCEPT !.phase = "live"]
  \/ /\ PhaseOf(j) = "live"
     /\ AgentOf(jobs'[j]) = [AgentOf(jobs[j]) EXCEPT !.phase = "idle"]
  \/ /\ PhaseOf(j) \in {"idle", "live"}
     /\ AgentOf(jobs'[j]) = [AgentOf(jobs[j]) EXCEPT !.phase = "ended"]

LEMMA ClusterStep ==
  ASSUME IInv, NEW j \in Job, Cluster(j)
  PROVE  /\ jobs'[j] \in JobRecord
         /\ jobs' = [jobs EXCEPT ![j] = jobs'[j]]
         /\ jobs'[j].phase = "open" => jobs'[j].failures <= BackoffLimit
         /\ jobs'[j].active => jobs'[j].phase = "open"
         /\ FailedReported(j) => jobs'[j].phase \in {"complete", "failed", "gone"}
         /\ Moved(j)
         /\ UNCHANGED <<polls, settled, stopping>>
<1> USE JobAssumption DEF IInv, TypeOK, JobsOK, JobOK, External, Moved, PhaseOf, AgentOf,
                         JobRecord, NoJob, Pod, Unfinished
<1>1. CASE CreatePod(j)
  <2>1. jobs[j] \in JobRecord
    BY <1>1 DEF CreatePod
  <2>2. jobs'[j] = [jobs[j] EXCEPT !.active = TRUE, !.pod = "waiting"]
    BY <1>1 DEF CreatePod
  <2>3. jobs' = [jobs EXCEPT ![j] = jobs'[j]]
    BY <1>1, <2>2 DEF CreatePod
  <2>4. jobs[j].phase = "open" /\ jobs[j].active = FALSE
    BY <1>1, <2>1 DEF CreatePod
  <2>5. /\ jobs'[j] \in JobRecord
        /\ jobs'[j].phase = "open" /\ jobs'[j].active = TRUE
        /\ jobs'[j].failures = jobs[j].failures
        /\ jobs'[j].role = jobs[j].role /\ jobs'[j].project = jobs[j].project
    BY <2>1, <2>2, <2>4
  <2>6. /\ jobs[j] # NoJob /\ jobs'[j] # NoJob
    BY <2>4, <2>5
  <2>7. Moved(j)
    BY <2>4, <2>5, <2>6
  <2>8. QED
    BY <1>1, <2>3, <2>4, <2>5, <2>7 DEF CreatePod
<1>2. CASE PodSticks(j)
  BY <1>2 DEF PodSticks
<1>3. CASE ContainerStarts(j)
  BY <1>3 DEF ContainerStarts
<1>4. CASE \E how \in {"exit0", "crashed"} : ContainerExits(j, how)
  BY <1>4 DEF ContainerExits
<1>5. CASE AttemptSucceeds(j)
  BY <1>5 DEF AttemptSucceeds
<1>6. CASE AttemptFails(j)
  BY <1>6 DEF AttemptFails
<1>7. CASE Deadline(j)
  BY <1>7 DEF Deadline
<1>8. CASE Collect(j)
  <2>1. jobs[j] \in JobRecord
    BY <1>8 DEF Collect
  <2>2. jobs'[j] = [jobs[j] EXCEPT !.phase = "gone"]
    BY <1>8 DEF Collect
  <2>3. jobs' = [jobs EXCEPT ![j] = jobs'[j]]
    BY <1>8, <2>2 DEF Collect
  <2>4. QED
    BY <1>8, <2>1, <2>2, <2>3 DEF Collect
<1>9. CASE PodGone(j)
  BY <1>9 DEF PodGone
<1> HIDE DEF IInv, TypeOK, JobsOK, JobOK, External, Moved, PhaseOf, AgentOf, JobRecord,
             NoJob, Pod, Unfinished
<1>10. QED
  BY <1>1, <1>2, <1>3, <1>4, <1>5, <1>6, <1>7, <1>8, <1>9 DEF Cluster

LEMMA ClusterPreserves ==
  ASSUME IInv, NEW j \in Job, Cluster(j)
  PROVE  IInv'
BY ClusterStep, OneJobMoves

LEMMA CreateJobPreserves ==
  ASSUME IInv, NEW j \in Job, NEW role \in Role, NEW p \in Project, CreateJob(j, role, p)
  PROVE  IInv'
<1> DEFINE job == [phase |-> "open", active |-> FALSE, pod |-> "none", failures |-> 0,
                   result |-> "none", role |-> role, project |-> p]
<1>1. job \in JobRecord /\ job.failures <= BackoffLimit
  BY JobAssumption DEF JobRecord, Pod
<1>2. ~FailedReported(j)
  BY DEF IInv, JobsOK, JobOK, CreateJob, NoJob
<1>3. jobs' = [jobs EXCEPT ![j] = job] /\ UNCHANGED <<polls, settled, stopping>>
  BY DEF CreateJob
<1>4. ~job.active
  OBVIOUS
<1> HIDE DEF job
<1>5. QED
  BY <1>1, <1>2, <1>3, <1>4, OneJobMoves

LEMMA ListPreserves ==
  ASSUME IInv, NEW p \in Project, StopList(p)
  PROVE  IInv'
<1>1. TypeOK'
  BY DEF IInv, TypeOK, StopList
<1>2. JobsOK'
  BY DEF IInv, JobsOK, JobOK, FailedReported, StopList
<1>3. QED
  BY <1>1, <1>2 DEF IInv

(* What stop_project() makes of one Job it deletes. *)
LEMMA DeletedTyped ==
  ASSUME NEW job \in JobRecord
  PROVE  /\ Deleted(job) \in JobRecord
         /\ Deleted(job).phase = "gone" /\ ~Deleted(job).active
         /\ Deleted(job).role = job.role /\ Deleted(job).project = job.project
BY DEF Deleted, JobRecord, Pod

LEMMA DeletePreserves ==
  ASSUME IInv, StopDelete
  PROVE  IInv'
<1>1. jobs' = [j \in Job |-> IF j \in JobsOf(stopping.project) THEN Deleted(jobs[j]) ELSE jobs[j]]
  BY DEF StopDelete
<1>2. \A j \in JobsOf(stopping.project) : jobs[j] \in JobRecord
  BY DEF IInv, TypeOK, JobsOf, Exists, NoJob
<1>3. jobs' \in [Job -> JobRecord \cup {NoJob}]
  BY <1>1, <1>2, DeletedTyped DEF IInv, TypeOK
<1>4. TypeOK'
  BY <1>3 DEF IInv, TypeOK, StopDelete
<1>5. ASSUME NEW j \in Job
      PROVE  JobOK(j)'
  <2>1. FailedReported(j)' <=> FailedReported(j)
    BY DEF FailedReported, StopDelete
  <2>2. CASE j \in JobsOf(stopping.project)
    BY <1>1, <1>2, <2>1, <2>2, DeletedTyped DEF JobOK
  <2>3. CASE j \notin JobsOf(stopping.project)
    BY <1>1, <2>1, <2>3 DEF IInv, JobsOK, JobOK
  <2>4. QED
    BY <2>2, <2>3
<1>6. QED
  BY <1>4, <1>5 DEF IInv, JobsOK

(* What an answer may be, and what it does to the roster. *)
LEMMA JobReportTyped ==
  ASSUME NEW job \in JobRecord
  PROVE  /\ JobReport(job) \in Report
         /\ JobReport(job) = "failed" => job.phase = "failed"
         /\ JobReport(job) = "none" => job.phase = "open" /\ job.active
         /\ job.phase \in {"complete", "failed", "gone"} <=> Finished(JobReport(job))
BY DEF JobReport, JobRecord, Report, Finished

LEMMA AnswerPreserves ==
  ASSUME IInv, NEW q \in Poller, NEW j \in Job, NEW after \in BOOLEAN, NEW report \in Report,
         Answer(q, j, after, report), UNCHANGED <<jobs, stopping>>,
         report = "failed" => jobs[j].phase = "failed"
  PROVE  IInv'
<1> DEFINE answer == [at |-> "idle", job |-> j, after |-> after, report |-> report]
<1>1. polls' = [polls EXCEPT ![q] = answer] /\ answer \in Poll
  BY DEF Answer, Poll
<1>2. settled' \in SUBSET Job
  BY DEF IInv, TypeOK, Answer
<1>3. \A r \in Poller : polls'[r] = IF r = q THEN answer ELSE polls[r]
  BY <1>1 DEF IInv, TypeOK
<1>4. TypeOK'
  BY <1>1, <1>2 DEF IInv, TypeOK
<1>5. ASSUME NEW i \in Job
      PROVE  JobOK(i)'
  <2>1. FailedReported(i)' => FailedReported(i) \/ (i = j /\ jobs[j].phase = "failed")
    BY <1>3 DEF FailedReported
  <2>2. QED
    BY <2>1 DEF IInv, JobsOK, JobOK
<1>6. QED
  BY <1>4, <1>5 DEF IInv, JobsOK

LEMMA ReadJobPreserves ==
  ASSUME IInv, NEW q \in Poller, NEW j \in Job, ReadJob(q, j)
  PROVE  IInv'
<1>1. jobs[j] \in JobRecord /\ UNCHANGED <<jobs, stopping>>
  BY DEF IInv, TypeOK, ReadJob
<1>2. CASE JobReport(jobs[j]) = "none"
  <2> DEFINE call == [at |-> "readPod", job |-> j, after |-> j \in settled, report |-> "none"]
  <2>1. call \in Poll /\ polls' = [polls EXCEPT ![q] = call] /\ settled' = settled
    BY <1>2 DEF ReadJob, Poll, Report
  <2>2. \A r \in Poller : polls'[r] = IF r = q THEN call ELSE polls[r]
    BY <2>1 DEF IInv, TypeOK
  <2>3. TypeOK'
    BY <1>1, <2>1 DEF IInv, TypeOK
  <2>4. \A i \in Job : FailedReported(i)' => FailedReported(i)
    BY <2>2 DEF FailedReported
  <2>5. QED
    BY <1>1, <2>3, <2>4 DEF IInv, JobsOK, JobOK
<1>3. CASE JobReport(jobs[j]) # "none"
  <2>1. Answer(q, j, j \in settled, JobReport(jobs[j])) /\ (j \in settled) \in BOOLEAN
    BY <1>3 DEF ReadJob
  <2>2. QED
    BY <1>1, <2>1, JobReportTyped, AnswerPreserves
<1>4. QED
  BY <1>2, <1>3

LEMMA PollTyped ==
  ASSUME IInv, NEW q \in Poller, polls[q].at = "readPod"
  PROVE  polls[q] \in Poll /\ polls[q].job \in Job /\ polls[q].after \in BOOLEAN
BY DEF IInv, TypeOK, Poll, NoPoll

LEMMA ReadPodPreserves ==
  ASSUME IInv, NEW q \in Poller, ReadPod(q)
  PROVE  IInv'
<1>1. polls[q].job \in Job /\ polls[q].after \in BOOLEAN
  BY PollTyped DEF ReadPod
<1> PICK j \in Job : j = polls[q].job
  BY <1>1
<1> PICK after \in BOOLEAN : after = polls[q].after
  BY <1>1
<1>2. Answer(q, j, after, PodReport(jobs[j].pod)) /\ UNCHANGED <<jobs, stopping>>
  BY DEF ReadPod
<1>3. PodReport(jobs[j].pod) \in Report /\ PodReport(jobs[j].pod) # "failed"
  BY DEF PodReport, Report
<1>4. QED
  BY <1>2, <1>3, AnswerPreserves

(* Every state of every behaviour satisfies the invariant. *)
THEOREM Invariance == Spec => []IInv
<1>1. ASSUME IInv, [Next]_vars
      PROVE  IInv'
  <2>1. CASE Next
    BY <1>1, <2>1, ClusterPreserves, CreateJobPreserves, ListPreserves, DeletePreserves,
       ReadJobPreserves, ReadPodPreserves DEF Next
  <2>2. CASE UNCHANGED vars
    BY <1>1, <2>2 DEF vars, IInv, TypeOK, JobsOK, JobOK, FailedReported
  <2>3. QED
    BY <1>1, <2>1, <2>2
<1>2. QED
  BY InitEstablishes, <1>1, PTL DEF Spec
-------------------------------------------------------------------------------
(* The variables stay in their types: the cluster never drives a Job       *)
(* beyond its retries, whatever the adapter does meanwhile.                *)
THEOREM TypeCorrect == Spec => []TypeOK
BY Invariance, PTL DEF IInv

(* Only an agent that is over is ever reported failed (_pod_status), for   *)
(* any number of Jobs and retries.                                         *)
THEOREM FailedStaysFailed == Spec => []FailedIsForGood
<1>1. ASSUME IInv, NEW q \in Poller, polls[q].report = "failed"
      PROVE  ~Unfinished(polls[q].job)
  <2>1. polls[q].job \in Job
    BY <1>1 DEF IInv, TypeOK, Poll, NoPoll
  <2>2. QED
    BY <1>1, <2>1 DEF IInv, JobsOK, JobOK, FailedReported, Unfinished
<1>2. IInv => FailedIsForGood
  BY <1>1 DEF FailedIsForGood
<1>3. QED
  BY <1>2, Invariance, PTL

LEMMA AgentPhases ==
  ASSUME IInv, NEW j \in Job
  PROVE  /\ jobs[j] = NoJob \/ jobs[j] \in JobRecord
         /\ PhaseOf(j) = "live" <=> jobs[j].active
         /\ PhaseOf(j) = "live" => Exists(j)
         /\ PhaseOf(j) = "unused" <=> jobs[j] = NoJob
         /\ PhaseOf(j) \in {"idle", "live"} <=> Unfinished(j)
         /\ jobs[j] # NoJob => /\ AgentOf(jobs[j]).role = jobs[j].role
                               /\ AgentOf(jobs[j]).project = jobs[j].project
<1>1. jobs[j] = NoJob \/ jobs[j] \in JobRecord
  BY DEF IInv, TypeOK
<1>2. CASE jobs[j] = NoJob
  BY <1>2 DEF NoJob, AgentOf, PhaseOf, Exists, Unfinished
<1>3. CASE jobs[j] \in JobRecord
  <2>1. jobs[j] # NoJob
    BY <1>3, NoJobIsNone
  <2>2. jobs[j].active \in BOOLEAN /\ jobs[j].phase \in {"open", "complete", "failed", "gone"}
    BY <1>3 DEF JobRecord
  <2>3. jobs[j].active => jobs[j].phase = "open"
    BY DEF IInv, JobsOK, JobOK
  <2>4. QED
    BY <1>3, <2>1, <2>2, <2>3 DEF AgentOf, PhaseOf, Exists, Unfinished
<1>4. QED
  BY <1>1, <1>2, <1>3

(* census() and handles() see exactly the live agents of the port          *)
(* (k8s_runtime.py, _live_jobs), for any number of Jobs.                   *)
THEOREM CensusIsRight == Spec => []CensusAgrees
<1>1. ASSUME IInv
      PROVE  CensusAgrees
  <2> SUFFICES ASSUME NEW role \in Role, NEW p \in Project
               PROVE  LiveJobs(role, p) = Port!LiveOn(role, p)
    BY DEF CensusAgrees
  <2>1. ASSUME NEW j \in Job
        PROVE  j \in LiveJobs(role, p) <=> j \in Port!LiveOn(role, p)
    <3>1. CASE jobs[j] = NoJob
      BY <1>1, <3>1, AgentPhases DEF LiveJobs, NoJob, PhaseOf, Exists,
         Port!LiveOn, Port!LiveOf, Port!Live
    <3>2. CASE jobs[j] # NoJob
      BY <1>1, <3>2, AgentPhases DEF LiveJobs, PhaseOf,
         Port!LiveOn, Port!LiveOf, Port!Live
    <3>3. QED
      BY <3>1, <3>2
  <2>2. QED
    BY <2>1 DEF LiveJobs, Port!LiveOn, Port!LiveOf, Port!Live
<1>2. QED
  BY <1>1, Invariance, PTL
-------------------------------------------------------------------------------
(* The refinement, one lemma per kind of step. *)
Shown == [j \in Job |-> AgentOf(jobs[j])]

PortStep == Port!AgentsNext \/ UNCHANGED Shown

LEMMA CreateJobLaunches ==
  ASSUME IInv, NEW j \in Job, NEW role \in Role, NEW p \in Project, CreateJob(j, role, p)
  PROVE  Port!Launch(j, role, p)
<1> DEFINE job == [phase |-> "open", active |-> FALSE, pod |-> "none", failures |-> 0,
                   result |-> "none", role |-> role, project |-> p]
<1>1. job # NoJob
  BY DEF NoJob
<1>2. AgentOf(job) = [phase |-> "idle", role |-> role, project |-> p]
  BY <1>1 DEF AgentOf
<1>3. AgentOf(jobs[j]).phase = "unused"
  BY DEF CreateJob, AgentOf
<1>4. jobs' = [jobs EXCEPT ![j] = job]
  BY DEF CreateJob
<1> HIDE DEF job
<1>5. Shown' = [Shown EXCEPT ![j] = AgentOf(job)]
  BY <1>4 DEF Shown, IInv, TypeOK
<1>6. QED
  BY <1>2, <1>3, <1>5 DEF Port!Launch, Shown

LEMMA ClusterMovesAgents ==
  ASSUME IInv, NEW j \in Job, Cluster(j)
  PROVE  Port!AgentsMove(j) \/ UNCHANGED Shown
<1>1. jobs' = [jobs EXCEPT ![j] = jobs'[j]] /\ Moved(j)
  BY ClusterStep
<1>2. Shown' = [Shown EXCEPT ![j] = AgentOf(jobs'[j])] /\ Shown[j] = AgentOf(jobs[j])
  BY <1>1 DEF Shown, IInv, TypeOK
<1>3. CASE AgentOf(jobs'[j]) = AgentOf(jobs[j])
  BY <1>2, <1>3 DEF Shown
<1>4. ASSUME NEW phase, AgentOf(jobs'[j]) = [AgentOf(jobs[j]) EXCEPT !.phase = phase]
      PROVE  Port!SetPhase(j, phase)
  BY <1>2, <1>4 DEF Port!SetPhase, Shown
<1>5. QED
  BY <1>1, <1>3, <1>4 DEF Moved, PhaseOf, Port!AgentsMove, Port!BecomeLive, Port!LoseLive, Port!End

LEMMA StopsAProject ==
  ASSUME IInv, StopDelete
  PROVE  stopping.project \in Project
<1>1. stopping.at = "delete" /\ NotStopping.at = "idle"
  BY DEF StopDelete, NotStopping
<1>2. stopping \in [at : {"delete"}, project : Project]
  BY <1>1 DEF IInv, TypeOK
<1>3. QED
  BY <1>2

LEMMA DeleteStopsAgents ==
  ASSUME IInv, StopDelete
  PROVE  Port!StopAgents(stopping.project)
<1> DEFINE p == stopping.project
<1>1. jobs' = [j \in Job |-> IF j \in JobsOf(p) THEN Deleted(jobs[j]) ELSE jobs[j]]
  BY DEF StopDelete
<1>2. ASSUME NEW j \in Job
      PROVE  AgentOf(jobs'[j]) =
               IF j \in Port!Unfinished /\ AgentOf(jobs[j]).project = p
               THEN [AgentOf(jobs[j]) EXCEPT !.phase = "ended"]
               ELSE AgentOf(jobs[j])
  <2>1. CASE j \in JobsOf(p)
    <3>1. jobs[j] \in JobRecord /\ jobs[j].project = p
      BY <2>1 DEF IInv, TypeOK, JobsOf, Exists, NoJob
    <3>2. jobs'[j] = Deleted(jobs[j]) /\ jobs'[j] \in JobRecord
      BY <1>1, <2>1, <3>1, DeletedTyped
    <3>3. jobs[j] # NoJob /\ jobs'[j] # NoJob
      BY <3>1, <3>2, NoJobIsNone
    <3>4. AgentOf(jobs'[j]) = [phase |-> "ended", role |-> jobs[j].role, project |-> jobs[j].project]
      BY <3>1, <3>2, <3>3, DeletedTyped DEF AgentOf
    <3>5. AgentOf(jobs[j]).project = p /\ [AgentOf(jobs[j]) EXCEPT !.phase = "ended"] = AgentOf(jobs'[j])
      BY <3>1, <3>3, <3>4 DEF AgentOf
    <3>6. j \notin Port!Unfinished => AgentOf(jobs[j]) = AgentOf(jobs'[j])
      BY <3>1, <3>3, <3>4 DEF AgentOf, Port!Unfinished
    <3>7. QED
      BY <3>5, <3>6
  <2>2. CASE j \notin JobsOf(p)
    <3>1. jobs'[j] = jobs[j]
      BY <1>1, <2>2
    <3>2. ~(j \in Port!Unfinished /\ AgentOf(jobs[j]).project = p)
      BY <2>2, AgentPhases DEF Port!Unfinished, PhaseOf, JobsOf, Exists, Unfinished, NoJob
    <3>3. QED
      BY <3>1, <3>2
  <2>3. QED
    BY <2>1, <2>2
<1>3. QED
  BY <1>2 DEF Port!StopAgents

(* The adapter and the cluster together implement the AgentRuntime port:   *)
(* no step revives an ended agent, counts one twice or changes whom it     *)
(* works for (k8s_runtime.py against ports/runtime.py), for any number of  *)
(* Jobs, roles, projects and retries.                                      *)
THEOREM Implementation == Spec => ImplementsPort
<1>1. Init => Port!AgentsInit
  BY DEF Init, Port!AgentsInit, Port!Unused, AgentOf
<1>2. ASSUME IInv, [Next]_vars
      PROVE  PortStep
  <2>1. CASE \E j \in Job, role \in Role, p \in Project : CreateJob(j, role, p)
    BY <1>2, <2>1, CreateJobLaunches DEF PortStep, Port!AgentsNext
  <2>2. CASE \E j \in Job : Cluster(j)
    BY <1>2, <2>2, ClusterMovesAgents DEF PortStep, Port!AgentsNext
  <2>3. CASE StopDelete
    BY <1>2, <2>3, StopsAProject, DeleteStopsAgents DEF PortStep, Port!AgentsNext
  <2>4. UNCHANGED jobs => PortStep
    BY DEF Shown, PortStep
  <2>5. CASE \E p \in Project : StopList(p)
    BY <2>4, <2>5 DEF StopList
  <2>6. CASE \E q \in Poller, j \in Job : ReadJob(q, j)
    BY <2>4, <2>6 DEF ReadJob
  <2>7. CASE \E q \in Poller : ReadPod(q)
    BY <2>4, <2>7 DEF ReadPod
  <2>8. CASE UNCHANGED vars
    BY <2>4, <2>8 DEF vars
  <2>9. QED
    BY <1>2, <2>1, <2>2, <2>3, <2>5, <2>6, <2>7, <2>8 DEF Next
<1>3. QED
  BY Invariance, <1>1, <1>2, PTL DEF Spec, ImplementsPort, Port!AgentsSpec, Shown, PortStep
-------------------------------------------------------------------------------
(* Reports that settle.  A container that has exited with zero keeps its   *)
(* pod until the Job is over, so what status() concluded from the pod it   *)
(* goes on concluding, from the pod and then from the Job.                 *)
PodOK(j) == Unfinished(j) /\ ~jobs[j].active => jobs[j].pod \in {"none", "crashed"}

(* A Job reported finished is over, or about to be counted a success.      *)
ReportOK(j) ==
  j \in settled =>
    \/ jobs[j].phase \in {"complete", "failed", "gone"}
    \/ jobs[j].phase = "open" /\ jobs[j].active /\ jobs[j].pod = "exit0"

(* A call that began afterwards still finds that pod at its second read,   *)
(* unless the Job is deleted in between, and then answers what it must.    *)
PollOK(j) ==
  \A q \in Poller : polls[q].job = j /\ polls[q].after =>
    \/ jobs[j].phase = "gone"
    \/ polls[q].at = "readPod" /\ jobs[j].pod = "exit0"
    \/ polls[q].at = "idle" /\ Finished(polls[q].report)

SettledOK == \A j \in Job : PodOK(j) /\ ReportOK(j) /\ PollOK(j)

LEMMA ClusterSettles ==
  ASSUME IInv, SettledOK, NEW j \in Job, Cluster(j)
  PROVE  (PodOK(j) /\ ReportOK(j) /\ PollOK(j))'
<1>1. /\ jobs[j] = NoJob \/ jobs[j] \in JobRecord
      /\ UNCHANGED <<polls, settled>>
  BY ClusterStep DEF IInv, TypeOK
<1>2. /\ jobs[j].phase = "gone" => jobs'[j].phase = "gone"
      /\ jobs[j].pod = "exit0" /\ jobs'[j].pod # "exit0" =>
           \/ jobs'[j].phase = "gone"
           \/ Unfinished(j) /\ ~jobs[j].active
      /\ PodOK(j)' /\ ReportOK(j)'
  <2> USE DEF IInv, TypeOK, PodOK, ReportOK, SettledOK, External, Unfinished, JobRecord,
              NoJob, Pod
  <2>1. CASE CreatePod(j)
    BY <1>1, <2>1 DEF CreatePod
  <2>2. CASE PodSticks(j)
    BY <1>1, <2>2 DEF PodSticks
  <2>3. CASE ContainerStarts(j)
    BY <1>1, <2>3 DEF ContainerStarts
  <2>4. CASE \E how \in {"exit0", "crashed"} : ContainerExits(j, how)
    BY <1>1, <2>4 DEF ContainerExits
  <2>5. CASE AttemptSucceeds(j)
    BY <1>1, <2>5 DEF AttemptSucceeds
  <2>6. CASE AttemptFails(j)
    BY <1>1, <2>6 DEF AttemptFails
  <2>7. CASE Deadline(j)
    BY <1>1, <2>7 DEF Deadline
  <2>8. CASE Collect(j)
    BY <1>1, <2>8 DEF Collect
  <2>9. CASE PodGone(j)
    BY <1>1, <2>9 DEF PodGone
  <2> HIDE DEF IInv, TypeOK, PodOK, ReportOK, SettledOK, External, Unfinished, JobRecord,
               NoJob, Pod
  <2>10. QED
    BY <2>1, <2>2, <2>3, <2>4, <2>5, <2>6, <2>7, <2>8, <2>9 DEF Cluster
<1>3. ~(jobs[j].pod = "exit0" /\ Unfinished(j) /\ ~jobs[j].active)
  BY DEF SettledOK, PodOK
<1>4. PollOK(j)'
  BY <1>1, <1>2, <1>3 DEF SettledOK, PollOK
<1>5. QED
  BY <1>2, <1>4

(* What is said of a Job is about that Job.                                *)
LEMMA OtherJobsSettled ==
  ASSUME SettledOK, NEW i \in Job, jobs'[i] = jobs[i], UNCHANGED <<polls, settled>>
  PROVE  (PodOK(i) /\ ReportOK(i) /\ PollOK(i))'
BY DEF SettledOK, PodOK, ReportOK, PollOK, Unfinished

LEMMA DeleteSettles == ASSUME IInv, SettledOK, StopDelete PROVE SettledOK'
<1>1. ASSUME NEW j \in Job
      PROVE  (PodOK(j) /\ ReportOK(j) /\ PollOK(j))'
  <2>1. CASE j \notin JobsOf(stopping.project)
    BY <2>1, OtherJobsSettled DEF StopDelete
  <2>2. CASE j \in JobsOf(stopping.project)
    <3>1. jobs[j] \in JobRecord
      BY <2>2 DEF IInv, TypeOK, JobsOf, Exists, NoJob
    <3>2. jobs'[j] = Deleted(jobs[j])
      BY <2>2 DEF StopDelete
    <3>3. jobs'[j].phase = "gone"
      BY <3>1, <3>2, DeletedTyped
    <3>4. QED
      BY <3>3 DEF PodOK, ReportOK, PollOK, Unfinished
  <2>3. QED
    BY <2>1, <2>2
<1>2. QED
  BY <1>1 DEF SettledOK

(* An answer settles nothing before its time.                              *)
LEMMA AnswerSettles ==
  ASSUME IInv, SettledOK, NEW q \in Poller, NEW j \in Job, NEW after \in BOOLEAN, NEW report,
         Answer(q, j, after, report), UNCHANGED jobs,
         Finished(report) =>
           \/ jobs[j].phase \in {"complete", "failed", "gone"}
           \/ jobs[j].phase = "open" /\ jobs[j].active /\ jobs[j].pod = "exit0",
         after => Finished(report) \/ jobs[j].phase = "gone"
  PROVE  SettledOK'
<1> DEFINE answer == [at |-> "idle", job |-> j, after |-> after, report |-> report]
<1>1. \A r \in Poller : polls'[r] = IF r = q THEN answer ELSE polls[r]
  BY DEF Answer, IInv, TypeOK
<1>2. \A i \in Job : i \in settled' => i \in settled \/ (i = j /\ Finished(report))
  BY DEF Answer
<1>3. \A i \in Job : ReportOK(i)'
  BY <1>2 DEF SettledOK, ReportOK
<1>4. \A i \in Job : PollOK(i)'
  BY <1>1 DEF SettledOK, PollOK
<1>5. QED
  BY <1>3, <1>4 DEF SettledOK, PodOK, Unfinished

LEMMA ReadJobSettles ==
  ASSUME IInv, SettledOK, NEW q \in Poller, NEW j \in Job, ReadJob(q, j)
  PROVE  SettledOK'
<1>1. jobs[j] \in JobRecord /\ UNCHANGED jobs
  BY DEF IInv, TypeOK, ReadJob
<1>2. CASE JobReport(jobs[j]) = "none"
  <2> PICK after \in BOOLEAN : after <=> j \in settled
    OBVIOUS
  <2> DEFINE call == [at |-> "readPod", job |-> j, after |-> after, report |-> "none"]
  <2>1. UNCHANGED settled /\ polls' = [polls EXCEPT ![q] = call]
    BY <1>2 DEF ReadJob
  <2>2. \A r \in Poller : polls'[r] = IF r = q THEN call ELSE polls[r]
    BY <2>1 DEF IInv, TypeOK
  <2>3. j \in settled => jobs[j].pod = "exit0"
    BY <1>1, <1>2, JobReportTyped DEF SettledOK, ReportOK
  <2>4. \A i \in Job : PollOK(i)'
    BY <1>1, <2>2, <2>3 DEF SettledOK, PollOK
  <2>5. QED
    BY <1>1, <2>1, <2>4 DEF SettledOK, PodOK, ReportOK, Unfinished
<1>3. CASE JobReport(jobs[j]) # "none"
  <2>1. Answer(q, j, j \in settled, JobReport(jobs[j])) /\ (j \in settled) \in BOOLEAN
    BY <1>3 DEF ReadJob
  <2>2. Finished(JobReport(jobs[j])) <=> jobs[j].phase \in {"complete", "failed", "gone"}
    BY <1>1, JobReportTyped
  <2>3. jobs[j].phase = "open" => ~jobs[j].active
    BY <1>1, <1>3 DEF JobReport, JobRecord
  <2>4. j \in settled => Finished(JobReport(jobs[j]))
    BY <1>1, <2>2, <2>3 DEF SettledOK, ReportOK, JobRecord
  <2>5. QED
    BY <1>1, <2>1, <2>2, <2>4, AnswerSettles
<1>4. QED
  BY <1>2, <1>3

LEMMA ReadPodSettles ==
  ASSUME IInv, SettledOK, NEW q \in Poller, ReadPod(q)
  PROVE  SettledOK'
<1>1. polls[q].job \in Job /\ polls[q].after \in BOOLEAN /\ polls[q].at = "readPod"
  BY PollTyped DEF ReadPod
<1> PICK j \in Job : j = polls[q].job
  BY <1>1
<1> PICK after \in BOOLEAN : after = polls[q].after
  BY <1>1
<1>2. Answer(q, j, after, PodReport(jobs[j].pod)) /\ UNCHANGED jobs
  BY DEF ReadPod
<1>3. Finished(PodReport(jobs[j].pod)) <=> jobs[j].pod = "exit0"
  BY DEF PodReport, Finished
<1>4. jobs[j].pod = "exit0" =>
        \/ jobs[j].phase \in {"complete", "failed", "gone"}
        \/ jobs[j].phase = "open" /\ jobs[j].active
  BY DEF IInv, TypeOK, JobRecord, NoJob, SettledOK, PodOK, Unfinished
<1>5. after => jobs[j].pod = "exit0" \/ jobs[j].phase = "gone"
  BY <1>1 DEF SettledOK, PollOK
<1>6. QED
  BY <1>2, <1>3, <1>4, <1>5, AnswerSettles

LEMMA StepSettles ==
  ASSUME IInv, SettledOK, [Next]_vars
  PROVE  SettledOK'
<1>1. CASE UNCHANGED <<jobs, polls, settled>>
  BY <1>1, OtherJobsSettled DEF SettledOK
<1>2. ASSUME NEW j \in Job, NEW role \in Role, NEW p \in Project, CreateJob(j, role, p)
      PROVE  SettledOK'
  <2>1. /\ jobs'[j].phase = "open" /\ jobs'[j].pod = "none"
        /\ \A i \in Job \ {j} : jobs'[i] = jobs[i]
        /\ UNCHANGED <<polls, settled>>
    BY <1>2 DEF CreateJob, IInv, TypeOK
  <2>2. jobs[j].phase = "none" /\ jobs[j].pod = "none"
    BY <1>2 DEF CreateJob, NoJob
  <2>3. (PodOK(j) /\ ReportOK(j) /\ PollOK(j))'
    BY <2>1, <2>2 DEF SettledOK, PodOK, ReportOK, PollOK
  <2>4. QED
    BY <2>1, <2>3, OtherJobsSettled DEF SettledOK
<1>3. ASSUME NEW j \in Job, Cluster(j)
      PROVE  SettledOK'
  <2>1. jobs' = [jobs EXCEPT ![j] = jobs'[j]] /\ UNCHANGED <<polls, settled>>
    BY <1>3, ClusterStep
  <2>2. \A i \in Job \ {j} : jobs'[i] = jobs[i]
    BY <2>1 DEF IInv, TypeOK
  <2>3. QED
    BY <1>3, <2>1, <2>2, ClusterSettles, OtherJobsSettled DEF SettledOK
<1>4. CASE StopDelete
  BY <1>4, DeleteSettles
<1>5. ASSUME NEW q \in Poller, NEW j \in Job, ReadJob(q, j)
      PROVE  SettledOK'
  BY <1>5, ReadJobSettles
<1>6. ASSUME NEW q \in Poller, ReadPod(q)
      PROVE  SettledOK'
  BY <1>6, ReadPodSettles
<1>7. QED
  BY <1>1, <1>2, <1>3, <1>4, <1>5, <1>6 DEF Next, vars, StopList

(* Once the roster has said that an agent is finished, every status() call *)
(* that begins afterwards says so too, however many overlap and whatever   *)
(* the cluster does between their two reads, unless the Job is deleted     *)
(* there (k8s_runtime.py, status).                                         *)
THEOREM ReportsSettle == Spec => []TerminalReportsSettle
<1>1. Init => SettledOK
  BY DEF Init, SettledOK, PodOK, ReportOK, PollOK, Unfinished, NoJob, NoPoll
<1>2. IInv /\ SettledOK /\ [Next]_vars => SettledOK'
  BY StepSettles
<1>3. ASSUME IInv, SettledOK, NEW q \in Poller, polls[q].at = "idle", polls[q].after
      PROVE  Finished(polls[q].report) \/ jobs[polls[q].job].phase = "gone"
  <2>1. polls[q].job \in Job
    BY <1>3 DEF IInv, TypeOK, Poll, NoPoll
  <2>2. QED
    BY <1>3, <2>1 DEF SettledOK, PollOK
<1>4. IInv /\ SettledOK => TerminalReportsSettle
  BY <1>3 DEF TerminalReportsSettle
<1>5. QED
  BY <1>1, <1>2, <1>4, Invariance, PTL DEF Spec
-------------------------------------------------------------------------------
(* The store. *)
(* What a caller between two of its commands may rely on. *)
CreatingOK == \A c \in Caller : At(c, "createIndex") => ops[c].project \in Open

ClosingOK ==
  \A c \in Caller : At(c, "saveIndex") => ops[c].project \in Known \ (Open \ unlisted)

ListingOK ==
  \A c \in Caller : At(c, "listGet") =>
    throughout[c] \subseteq ops[c].ids /\ Open \subseteq sometime[c]

(* The inductive invariant. *)
StoreInv ==
  /\ CallersTypeOK
  /\ CreatingOK /\ ClosingOK /\ ListingOK
  /\ ListsWhatIsOpen /\ OpenIsIndexed /\ ClosedLeavesIndex
-------------------------------------------------------------------------------
LEMMA StoreBegins == CallersInit => StoreInv
BY DEF CallersInit, StoreInit, StoreInv, CallersTypeOK, StoreTypeOK, Op, NoOp, CreatingOK, ClosingOK, ListingOK,
       ListsWhatIsOpen, OpenIsIndexed, Listable, ClosedLeavesIndex, At, Open, Known

LEMMA RecordsExist == NoProject \notin ProjectRecord
BY DEF NoProject, ProjectRecord, ProjectStatus

(* The witnesses stay sets of projects. *)
LEMMA WitnessTyped ==
  ASSUME CallersTypeOK, Witness
  PROVE  throughout' \in [Caller -> SUBSET Project] /\ sometime' \in [Caller -> SUBSET Project]
BY DEF CallersTypeOK, Witness, Listable, Open, Known

(* Whatever the step, a listing that is not at its end keeps its bounds as *)
(* long as it keeps its ids.                                               *)
LEMMA ListingGoesOn ==
  ASSUME StoreInv, Witness, NEW d \in Caller, ops'[d] = ops[d]
  PROVE  /\ At(d, "listGet")' => throughout'[d] \subseteq ops'[d].ids /\ Open' \subseteq sometime'[d]
         /\ At(d, "listed")' => throughout'[d] \subseteq ops'[d].ids /\ ops'[d].ids \subseteq sometime'[d]
<1>1. CASE At(d, "listGet")
  BY <1>1 DEF StoreInv, ListingOK, Witness, At
<1>2. CASE At(d, "listed")
  BY <1>2 DEF StoreInv, ListsWhatIsOpen, Witness, At
<1>3. QED
  BY <1>1, <1>2 DEF At

(* The listings of all callers are in order after a step of one of them    *)
(* that leaves it neither reading nor answered.                            *)
LEMMA ListingsUndisturbed ==
  ASSUME StoreInv, Witness, NEW c \in Caller,
         \A d \in Caller \ {c} : ops'[d] = ops[d],
         ~At(c, "listGet")', ~At(c, "listed")'
  PROVE  ListingOK' /\ ListsWhatIsOpen'
BY ListingGoesOn DEF ListingOK, ListsWhatIsOpen
-------------------------------------------------------------------------------
LEMMA CreateKeyPreserves ==
  ASSUME StoreInv, Witness, NEW c \in Caller, NEW p \in Project, CreateKey(c, p)
  PROVE  StoreInv'
<1> DEFINE op == [at |-> "createIndex", project |-> p, ids |-> {}]
<1>1. NewProject \in ProjectRecord /\ ~IsTerminal(NewProject)
  BY DEF NewProject, ProjectRecord, ProjectStatus, IsTerminal, Terminal
<1>2. ops' = [ops EXCEPT ![c] = op] /\ op \in Op
  BY DEF CreateKey, Become, Op
<1>3. ops'[c] = op /\ \A d \in Caller \ {c} : ops'[d] = ops[d]
  BY <1>2 DEF StoreInv, CallersTypeOK
<1>4. /\ projects' = [projects EXCEPT ![p] = NewProject] /\ index' = index
      /\ unlisted' = unlisted /\ lingering' = lingering
  BY DEF CreateKey, SetKey, history
<1>5. Known' = Known \cup {p} /\ Open' = Open \cup {p} /\ p \notin Known
  BY <1>1, <1>4, RecordsExist DEF Known, Open, StoreInv, CallersTypeOK, StoreTypeOK, CreateKey
<1>6. CallersTypeOK'
  BY <1>1, <1>2, <1>4, WitnessTyped DEF StoreInv, CallersTypeOK, StoreTypeOK
<1>7. CreatingOK'
  BY <1>3, <1>5 DEF StoreInv, CreatingOK, At
<1>8. ClosingOK'
  BY <1>3, <1>4, <1>5 DEF StoreInv, ClosingOK, At, Open
<1>9. BeingCreated' = BeingCreated \cup {p}
  BY <1>3 DEF BeingCreated, At, CreateKey, Idle, NoOp
<1>10. OpenIsIndexed'
  BY <1>4, <1>5, <1>9 DEF StoreInv, OpenIsIndexed, Listable
<1>11. ClosedLeavesIndex'
  BY <1>3, <1>4, <1>5 DEF StoreInv, ClosedLeavesIndex, At, CreateKey, Idle, NoOp
<1>12. ListingOK' /\ ListsWhatIsOpen'
  BY <1>3, ListingsUndisturbed DEF At
<1>13. QED
  BY <1>6, <1>7, <1>8, <1>10, <1>11, <1>12 DEF StoreInv

LEMMA CreateIndexPreserves ==
  ASSUME StoreInv, Witness, NEW c \in Caller, CreateIndex(c)
  PROVE  StoreInv'
<1> DEFINE p == ops[c].project
<1>1. p \in Open
  BY DEF StoreInv, CreatingOK, CreateIndex
<1>2. ops' = [ops EXCEPT ![c] = NoOp]
  BY DEF CreateIndex, Become
<1>3. ops'[c] = NoOp /\ \A d \in Caller \ {c} : ops'[d] = ops[d]
  BY <1>2 DEF StoreInv, CallersTypeOK
<1>4. /\ index' = index \cup {p} /\ projects' = projects
      /\ unlisted' = unlisted /\ lingering' = lingering
  BY DEF CreateIndex, ZAdd, history
<1>5. Known' = Known /\ Open' = Open
  BY <1>4 DEF Known, Open
<1>6. CallersTypeOK'
  BY <1>1, <1>2, <1>4, WitnessTyped DEF StoreInv, CallersTypeOK, StoreTypeOK, Op, Open, Known
<1>7. CreatingOK' /\ ClosingOK'
  BY <1>3, <1>4, <1>5 DEF StoreInv, CreatingOK, ClosingOK, At, NoOp
<1>8. BeingCreated \subseteq BeingCreated' \cup {p}
  BY <1>3 DEF BeingCreated, At
<1>9. OpenIsIndexed'
  BY <1>4, <1>5, <1>8 DEF StoreInv, OpenIsIndexed, Listable
<1>10. ClosedLeavesIndex'
  BY <1>1, <1>3, <1>4, <1>5 DEF StoreInv, ClosedLeavesIndex, At, CreateIndex
<1>11. ListingOK' /\ ListsWhatIsOpen'
  BY <1>3, ListingsUndisturbed DEF At, NoOp
<1>12. QED
  BY <1>6, <1>7, <1>9, <1>10, <1>11 DEF StoreInv
-------------------------------------------------------------------------------
LEMMA SaveKeyPreserves ==
  ASSUME StoreInv, Witness, NEW c \in Caller, NEW p \in Project, NEW record \in ProjectRecord,
         SaveKey(c, p, record)
  PROVE  StoreInv'
<1> DEFINE op == [at |-> "saveIndex", project |-> p, ids |-> {}]
<1>1. ops' = [ops EXCEPT ![c] = op] \/ ops' = ops
  BY DEF SaveKey, Become
<1>2. op \in Op
  BY DEF Op
<1>3. /\ IsTerminal(record) => ops'[c] = op
      /\ ~IsTerminal(record) => ops' = ops
      /\ \A d \in Caller \ {c} : ops'[d] = ops[d]
  BY DEF StoreInv, CallersTypeOK, SaveKey, Become
<1>4. /\ ops[c] = NoOp /\ p \in Known \ BeingCreated
      /\ projects' = [projects EXCEPT ![p] = record] /\ index' = index
      /\ unlisted' = (IF IsTerminal(record) THEN unlisted \ {p}
                     ELSE IF p \in Open THEN unlisted
                     ELSE unlisted \cup {p})
      /\ lingering' = lingering
  BY DEF SaveKey, SetKey, Idle
<1>5. /\ Known' = Known
      /\ Open' = IF IsTerminal(record) THEN Open \ {p} ELSE Open \cup {p}
  BY <1>4, RecordsExist DEF Known, Open, StoreInv, CallersTypeOK, StoreTypeOK
<1>6. CallersTypeOK'
  BY <1>1, <1>2, <1>4, WitnessTyped DEF StoreInv, CallersTypeOK, StoreTypeOK
<1>7. BeingCreated' = BeingCreated
  BY <1>3, <1>4 DEF BeingCreated, At, NoOp
<1>8. CreatingOK'
  BY <1>3, <1>4, <1>5 DEF StoreInv, CreatingOK, At, BeingCreated, NoOp, Known
<1>9. ClosingOK'
  BY <1>3, <1>4, <1>5 DEF StoreInv, ClosingOK, At, NoOp
<1>10. OpenIsIndexed'
  <2>1. Listable' \subseteq Listable
    BY <1>4, <1>5, <1>7 DEF Listable
  <2>2. QED
    BY <1>4, <2>1 DEF StoreInv, OpenIsIndexed
<1>11. ClosedLeavesIndex'
  BY <1>3, <1>4, <1>5 DEF StoreInv, ClosedLeavesIndex, At, NoOp
<1>12. ListingOK' /\ ListsWhatIsOpen'
  BY <1>3, <1>4, ListingsUndisturbed DEF At, NoOp
<1>13. QED
  BY <1>6, <1>8, <1>9, <1>10, <1>11, <1>12 DEF StoreInv

LEMMA SaveIndexPreserves ==
  ASSUME StoreInv, Witness, NEW c \in Caller, SaveIndex(c)
  PROVE  StoreInv'
<1> DEFINE p == ops[c].project
<1>1. p \in Known \ (Open \ unlisted)
  BY DEF StoreInv, ClosingOK, SaveIndex
<1>2. ops' = [ops EXCEPT ![c] = NoOp]
  BY DEF SaveIndex, Become
<1>3. ops'[c] = NoOp /\ \A d \in Caller \ {c} : ops'[d] = ops[d]
  BY <1>2 DEF StoreInv, CallersTypeOK
<1>4. /\ index' = index \ {p} /\ projects' = projects
      /\ unlisted' = unlisted /\ lingering' = lingering \ {p}
  BY DEF SaveIndex, ZRem
<1>5. Known' = Known /\ Open' = Open
  BY <1>4 DEF Known, Open
<1>6. CallersTypeOK'
  BY <1>2, <1>4, WitnessTyped DEF StoreInv, CallersTypeOK, StoreTypeOK, Op
<1>7. CreatingOK' /\ ClosingOK'
  BY <1>3, <1>4, <1>5 DEF StoreInv, CreatingOK, ClosingOK, At, NoOp
<1>8. BeingCreated' = BeingCreated
  BY <1>3 DEF BeingCreated, At, SaveIndex, NoOp
<1>9. OpenIsIndexed'
  BY <1>1, <1>4, <1>5, <1>8 DEF StoreInv, OpenIsIndexed, Listable
<1>10. ClosedLeavesIndex'
  BY <1>3, <1>4, <1>5 DEF StoreInv, ClosedLeavesIndex, At
<1>11. ListingOK' /\ ListsWhatIsOpen'
  BY <1>3, ListingsUndisturbed DEF At, NoOp
<1>12. QED
  BY <1>6, <1>7, <1>9, <1>10, <1>11 DEF StoreInv
-------------------------------------------------------------------------------
(* The commands of list_active() change no record; what they may take out  *)
(* of the index has no record.                                             *)
LEMMA ListingPreserves ==
  ASSUME StoreInv, Witness, NEW c \in Caller, ListIds(c) \/ ListGet(c) \/ Use(c)
  PROVE  StoreInv'
<1>1. PICK op \in Op : /\ op.at \notin {"createIndex", "saveIndex"}
                       /\ ops' = [ops EXCEPT ![c] = op]
  <2>1. index \subseteq Project
    BY DEF StoreInv, CallersTypeOK, StoreTypeOK
  <2>2. Open \subseteq Project
    BY DEF Open, Known
  <2>3. CASE ListIds(c)
    <3>1. [at |-> "listed", project |-> "none", ids |-> index] \in Op
      BY <2>1 DEF Op
    <3>2. [at |-> "listGet", project |-> "none", ids |-> index] \in Op
      BY <2>1 DEF Op
    <3>3. QED
      BY <2>3, <3>1, <3>2 DEF ListIds, Become
  <2>4. CASE ListGet(c)
    <3>1. [at |-> "listed", project |-> "none", ids |-> Listed(ops[c].ids)] \in Op
      BY <2>2 DEF Op, Listed
    <3>2. QED
      BY <2>4, <3>1 DEF ListGet, Become
  <2>5. CASE Use(c)
    BY <2>5 DEF Use, Become, Op, NoOp
  <2>6. QED
    BY <2>3, <2>4, <2>5
<1>2. ops'[c] = op /\ \A d \in Caller \ {c} : ops'[d] = ops[d]
  BY <1>1 DEF StoreInv, CallersTypeOK
<1>3. ~At(c, "createIndex") /\ ~At(c, "saveIndex")
  BY DEF At, ListIds, ListGet, Use, Idle, NoOp
<1>4. /\ projects' = projects
      /\ index' \subseteq index /\ index \cap Known \subseteq index'
      /\ unlisted' = unlisted /\ lingering' = lingering
  BY DEF ListIds, ListGet, Use, Heal, store, history
<1>5. Known' = Known /\ Open' = Open /\ Open \subseteq Known
  BY <1>4 DEF Known, Open
<1>6. CallersTypeOK'
  BY <1>1, <1>4, WitnessTyped DEF StoreInv, CallersTypeOK, StoreTypeOK
<1>7. CreatingOK' /\ ClosingOK'
  BY <1>1, <1>2, <1>4, <1>5 DEF StoreInv, CreatingOK, ClosingOK, At
<1>8. BeingCreated' = BeingCreated /\ Listable' = Listable /\ Listable \subseteq Open
  BY <1>1, <1>2, <1>3, <1>4, <1>5 DEF BeingCreated, Listable, At
<1>9. OpenIsIndexed'
  BY <1>4, <1>5, <1>8 DEF StoreInv, OpenIsIndexed
<1>10. ClosedLeavesIndex'
  BY <1>2, <1>3, <1>4, <1>5 DEF StoreInv, ClosedLeavesIndex, At
<1>11. /\ At(c, "listGet")' => throughout'[c] \subseteq ops'[c].ids /\ Open' \subseteq sometime'[c]
       /\ At(c, "listed")' => throughout'[c] \subseteq ops'[c].ids /\ ops'[c].ids \subseteq sometime'[c]
  <2>1. CASE ListIds(c)
    <3>1. throughout'[c] = Listable /\ sometime'[c] = Open
      BY <1>5, <1>8, <2>1 DEF Witness, ListIds, Idle, At, NoOp
    <3>2. ops'[c].ids = index /\ (At(c, "listed")' => index = {})
      BY <1>2, <2>1 DEF StoreInv, CallersTypeOK, ListIds, Become, At
    <3>3. QED
      BY <1>5, <1>8, <3>1, <3>2 DEF StoreInv, OpenIsIndexed
  <2>2. CASE ListGet(c)
    <3>1. throughout[c] \subseteq ops[c].ids /\ Open \subseteq sometime[c]
      BY <2>2 DEF StoreInv, ListingOK, ListGet
    <3>2. /\ throughout'[c] = throughout[c] \cap Listable
          /\ sometime'[c] = sometime[c] \cup Open
      BY <1>5, <1>8, <2>2 DEF Witness, ListGet, At
    <3>3. ops'[c] = [at |-> "listed", project |-> "none", ids |-> ops[c].ids \cap Open]
      BY <2>2 DEF StoreInv, CallersTypeOK, ListGet, Become, Listed
    <3>4. QED
      BY <1>8, <3>1, <3>2, <3>3 DEF At
  <2>3. CASE Use(c)
    BY <2>3 DEF StoreInv, CallersTypeOK, Use, Become, At, NoOp
  <2>4. QED
    BY <2>1, <2>2, <2>3
<1>12. ListingOK' /\ ListsWhatIsOpen'
  BY <1>2, <1>11, ListingGoesOn DEF ListingOK, ListsWhatIsOpen
<1>13. QED
  BY <1>6, <1>7, <1>9, <1>10, <1>12 DEF StoreInv
-------------------------------------------------------------------------------
(* An operation that is cut off leaves a mark where it left something. *)
LEMMA RaisePreserves ==
  ASSUME StoreInv, Witness, NEW c \in Caller, Raise(c)
  PROVE  StoreInv'
<1> DEFINE p == ops[c].project
<1>1. ops' = [ops EXCEPT ![c] = NoOp]
  BY DEF Raise, Become
<1>2. ops'[c] = NoOp /\ \A d \in Caller \ {c} : ops'[d] = ops[d]
  BY <1>1 DEF StoreInv, CallersTypeOK
<1>3. /\ index' = index /\ projects' = projects
      /\ unlisted' = (IF At(c, "createIndex") THEN unlisted \cup {p} ELSE unlisted)
      /\ lingering' = (IF At(c, "saveIndex") THEN lingering \cup {p} ELSE lingering)
  BY DEF Raise, store
<1>4. Known' = Known /\ Open' = Open
  BY <1>3 DEF Known, Open
<1>5. At(c, "createIndex") \/ At(c, "saveIndex") => p \in Project
  BY DEF StoreInv, CreatingOK, ClosingOK, Open, Known
<1>6. CallersTypeOK'
  BY <1>1, <1>3, <1>5, WitnessTyped DEF StoreInv, CallersTypeOK, StoreTypeOK, Op
<1>7. CreatingOK' /\ ClosingOK'
  BY <1>2, <1>3, <1>4 DEF StoreInv, CreatingOK, ClosingOK, At, NoOp
<1>8. BeingCreated \subseteq BeingCreated' \cup (IF At(c, "createIndex") THEN {p} ELSE {})
  BY <1>2 DEF BeingCreated, At
<1>9. OpenIsIndexed'
  BY <1>3, <1>4, <1>8 DEF StoreInv, OpenIsIndexed, Listable
<1>10. ClosedLeavesIndex'
  BY <1>2, <1>3, <1>4 DEF StoreInv, ClosedLeavesIndex, At
<1>11. ListingOK' /\ ListsWhatIsOpen'
  BY <1>2, ListingsUndisturbed DEF At, NoOp
<1>12. QED
  BY <1>6, <1>7, <1>9, <1>10, <1>11 DEF StoreInv
-------------------------------------------------------------------------------
(* Every state of every behaviour satisfies the invariant. *)
THEOREM StoreInvariance == CallersSpec => []StoreInv
<1>1. ASSUME StoreInv, [CallersNext]_callersVars
      PROVE  StoreInv'
  <2>1. CASE CallersNext
    <3> PICK c \in Caller : Step(c) /\ Witness
      BY <2>1 DEF CallersNext
    <3>1. QED
      BY <1>1, CreateKeyPreserves, CreateIndexPreserves, SaveKeyPreserves, SaveIndexPreserves,
         ListingPreserves, RaisePreserves DEF Step
  <2>2. CASE UNCHANGED callersVars
    BY <1>1, <2>2 DEF callersVars, StoreInv, CallersTypeOK, StoreTypeOK, CreatingOK, ClosingOK, ListingOK,
       ListsWhatIsOpen, OpenIsIndexed, ClosedLeavesIndex, At, Open, Known, BeingCreated, Listable
  <2>3. QED
    BY <1>1, <2>1, <2>2
<1>2. QED
  BY StoreBegins, <1>1, PTL DEF CallersSpec

(* The keys, the index and what every caller holds are well typed          *)
(* (redis_store.py).                                                       *)
THEOREM StoreTypes == CallersSpec => []CallersTypeOK
BY StoreInvariance, PTL DEF StoreInv

(* list_active() answers with every project that was listable all along    *)
(* and none that was closed all along, for any number of callers creating, *)
(* saving old copies, raising and listing meanwhile (redis_store.py,       *)
(* list_active).                                                           *)
THEOREM ListingIsRight == CallersSpec => []ListsWhatIsOpen
BY StoreInvariance, PTL DEF StoreInv

(* An open project is in the index, or about to be, unless its create()    *)
(* raised half way or a save() reopened it (redis_store.py, create and     *)
(* save).                                                                  *)
THEOREM OpenStaysIndexed == CallersSpec => []OpenIsIndexed
BY StoreInvariance, PTL DEF StoreInv

(* A closed project is in the index only while the save() that closed it   *)
(* is under way, or after it raised half way (redis_store.py, save).       *)
THEOREM ClosedIsDropped == CallersSpec => []ClosedLeavesIndex
BY StoreInvariance, PTL DEF StoreInv
===============================================================================
