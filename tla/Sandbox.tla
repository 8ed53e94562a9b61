-------------------------------- MODULE Sandbox --------------------------------
(***************************************************************************)
(* Running a command: an agent's tool posts it to the sandbox service,     *)
(* whose handler makes a Job for it, polls the Job, reads what came of it  *)
(* and deletes it.  Beside it the cluster moves the Job and its pod, the   *)
(* Job's own deadline and its time to live run out, somebody destroys the  *)
(* project's sandboxes, any call of the API raises, and the service dies.  *)
(* The tool stops waiting after 30 seconds and may call again; no handler  *)
(* hears of that, so to the service it is one more call.  Time is counted  *)
(* in ticks.                                                               *)
(***************************************************************************)
EXTENDS Naturals

CONSTANTS
  Exec,           \* the calls of exec(): handlers, and the Jobs named after them
  Project,
  Timeout,        \* timeout_s, activeDeadlineSeconds
  Grace,          \* STARTUP_GRACE_S
  Ttl,            \* ttlSecondsAfterFinished
  MaxCrashes      \* bound: deaths of the service

ASSUME SandboxAssumption ==
  /\ Timeout \in Nat \ {0} /\ Grace \in Nat \ {0}
  /\ Ttl \in Nat /\ MaxCrashes \in Nat

VARIABLES
  handler,  \* [Exec -> the coroutine of exec_command]
  job,      \* [Exec -> its Job]
  pod,      \* [Exec -> the Job's pod]
  crashes

vars == <<handler, job, pod, crashes>>

cluster == <<job, pod>>

PollLimit == Timeout + Grace

(* "failed" is any exit code but zero. *)
Reply == {"none", "ok", "failed", "timed out", "error"}

(* said: what the Job's status was when it was seen to be finished. *)
Handler == [at : {"unused", "create", "read", "sleep", "late", "logs", "pods", "delete", "done"},
            project : Project \cup {"none"}, waited : 0..PollLimit,
            said : {"none", "succeeded", "failed"}, reply : Reply]

(* since: ticks since it started, and from its end on since it finished. *)
Job == [state : {"none", "active", "succeeded", "failed", "gone"}, since : Nat]

(* The container's exit code stays known here when the pod is gone. *)
Pod == [at : {"none", "pending", "running", "exited", "gone"},
        code : {"none", "zero", "nonzero"}]

TypeOK ==
  /\ handler \in [Exec -> Handler]
  /\ job \in [Exec -> Job]
  /\ pod \in [Exec -> Pod]
  /\ crashes \in 0..MaxCrashes
  /\ \A x \in Exec : /\ job[x].since <= (IF job[x].state = "active" THEN Timeout ELSE Ttl)
                     /\ pod[x].code # "none" => pod[x].at \in {"exited", "gone"}

Init ==
  /\ handler = [x \in Exec |-> [at |-> "unused", project |-> "none", waited |-> 0,
                                said |-> "none", reply |-> "none"]]
  /\ job = [x \in Exec |-> [state |-> "none", since |-> 0]]
  /\ pod = [x \in Exec |-> [at |-> "none", code |-> "none"]]
  /\ crashes = 0
-------------------------------------------------------------------------------
Gone == [state |-> "gone", since |-> 0]

Exists(x) == job[x].state \in {"active", "succeeded", "failed"}

Finished(x) == job[x].state \in {"succeeded", "failed"}

Listed(x) == pod[x].at \in {"pending", "running", "exited"}

Goto(x, stage) == handler' = [handler EXCEPT ![x] = [@ EXCEPT !.at = stage]]

(* A handler has its answer: the finally clause deletes the Job. *)
Answer(x, reply) ==
  handler' = [handler EXCEPT ![x] = [@ EXCEPT !.at = "delete", !.reply = reply]]

Done(coroutine, reply) ==
  [at |-> "done", project |-> coroutine.project, waited |-> 0, said |-> "none", reply |-> reply]

(* The response, if somebody still waits for it.  An error is an answer    *)
(* too: the tool turns it into a payload (_safe).                          *)
Respond(x, reply) == handler' = [handler EXCEPT ![x] = Done(@, reply)]

(* The sandbox_exec tool: one more command for a project, whatever became  *)
(* of those before.                                                        *)
CallTool(x, p) ==
  /\ handler[x].at = "unused"
  /\ handler' = [handler EXCEPT ![x] = [@ EXCEPT !.at = "create", !.project = p]]
  /\ UNCHANGED <<cluster, crashes>>

(* The Job is created, or the command is refused, or the API raises: with  *)
(* or without a Job, which then nobody deletes.                            *)
CreateJob(x) ==
  /\ handler[x].at = "create"
  /\ \/ /\ job' = [job EXCEPT ![x] = [state |-> "active", since |-> 0]]
        /\ \/ Goto(x, "read")
           \/ Respond(x, "error")
     \/ Respond(x, "error") /\ UNCHANGED job
  /\ UNCHANGED <<pod, crashes>>

(* A slip: only a success ends the wait, and the time waited is not kept. *)
ReadStatusForever(x) ==
  /\ handler[x].at = "read"
  /\ handler' = [handler EXCEPT ![x] =
       IF job[x].state = "succeeded" THEN [@ EXCEPT !.at = "logs"]
       ELSE [@ EXCEPT !.at = "sleep", !.waited = 0]]
  /\ UNCHANGED <<cluster, crashes>>

(* read_namespaced_job_status: a Job that is gone is a 404, which raises. *)
ReadStatus(x) ==
  /\ handler[x].at = "read"
  /\ \/ ~Exists(x) /\ Answer(x, "error")
     \/ Exists(x) /\ ~Finished(x) /\ Goto(x, "sleep")
     \/ /\ Finished(x)
        /\ handler' = [handler EXCEPT ![x] = [@ EXCEPT !.at = "logs", !.said = job[x].state]]
  /\ UNCHANGED <<cluster, crashes>>

(* _logs: what it returns is not looked at here. *)
ReadLogs(x) ==
  /\ handler[x].at \in {"logs", "late"}
  /\ IF handler[x].at = "logs" THEN Goto(x, "pods") ELSE Answer(x, "timed out")
  /\ UNCHANGED <<cluster, crashes>>

(* A slip: the exit code starts from zero whatever the Job says. *)
ListPodsFromZero(x) ==
  /\ handler[x].at = "pods"
  /\ Answer(x, IF Listed(x) /\ pod[x].code = "nonzero" THEN "failed" ELSE "ok")
  /\ UNCHANGED <<cluster, crashes>>

(* _collect: the exit code of the terminated container the list shows,     *)
(* else what the Job itself says.                                          *)
ListPods(x) ==
  /\ handler[x].at = "pods"
  /\ Answer(x, IF Listed(x) /\ pod[x].code # "none"
               THEN IF pod[x].code = "zero" THEN "ok" ELSE "failed"
               ELSE IF handler[x].said = "succeeded" THEN "ok" ELSE "failed")
  /\ UNCHANGED <<cluster, crashes>>

(* Any of these calls raises: what there was of a result is dropped. *)
ApiRaises(x) ==
  /\ handler[x].at \in {"read", "logs", "late", "pods"}
  /\ Answer(x, "error")
  /\ UNCHANGED <<cluster, crashes>>

(* A slip: whatever the deletion raises is swallowed. *)
DeleteJobAnyhow(x) ==
  /\ handler[x].at = "delete"
  /\ \/ job' = [job EXCEPT ![x] = Gone]
     \/ UNCHANGED job
  /\ Respond(x, handler[x].reply)
  /\ UNCHANGED <<pod, crashes>>

(* _delete: a Job already gone is fine, anything else raises. *)
DeleteJob(x) ==
  /\ handler[x].at = "delete"
  /\ \/ /\ job' = [job EXCEPT ![x] = Gone]
        /\ Respond(x, handler[x].reply)
     \/ Respond(x, "error") /\ UNCHANGED job
  /\ UNCHANGED <<pod, crashes>>

HandlerStep(x) ==
  CreateJob(x) \/ ReadStatus(x) \/ ReadLogs(x) \/ ListPods(x) \/ ApiRaises(x) \/ DeleteJob(x)

(* destroy(): every sandbox of a project, those being polled included. *)
Destroy(p) ==
  /\ \E x \in Exec : handler[x].project = p /\ Exists(x)
  /\ job' = [x \in Exec |->
       IF handler[x].project = p /\ Exists(x) THEN Gone ELSE job[x]]
  /\ UNCHANGED <<handler, pod, crashes>>

(* The service dies: its handlers with it, and their callers are told.     *)
Crash ==
  /\ crashes < MaxCrashes
  /\ crashes' = crashes + 1
  /\ handler' = [x \in Exec |-> IF handler[x].at \in {"unused", "done"} THEN handler[x]
                                ELSE Done(handler[x], "error")]
  /\ UNCHANGED cluster
-------------------------------------------------------------------------------
(* The cluster.  One pod and one run of its container: backoffLimit 0,     *)
(* restartPolicy Never.                                                    *)

PodMoves(x, before, after, code) ==
  /\ pod[x].at \in before
  /\ pod' = [pod EXCEPT ![x] = [at |-> after, code |-> code]]
  /\ UNCHANGED <<handler, job, crashes>>

CreatePod(x) == job[x].state = "active" /\ PodMoves(x, {"none"}, "pending", "none")

(* It may also wait for a node or an image for ever. *)
ContainerStarts(x) == PodMoves(x, {"pending"}, "running", "none")

(* By itself or because it is told to stop, it chooses its exit code. *)
ContainerExits(x) ==
  \E code \in {"zero", "nonzero"} : PodMoves(x, {"running"}, "exited", code)

(* A pod goes with its Job (background propagation), or when its Job has   *)
(* run out of time.                                                        *)
PodGoes(x) ==
  /\ job[x].state \in {"failed", "gone"}
  /\ PodMoves(x, {"pending", "exited"}, "gone", pod[x].code)

JobEnds(x, state) ==
  /\ job[x].state = "active"
  /\ job' = [job EXCEPT ![x] = [state |-> state, since |-> 0]]
  /\ UNCHANGED <<handler, pod, crashes>>

JobFinishes(x) ==
  \/ pod[x].code = "zero" /\ JobEnds(x, "succeeded")
  \/ pod[x].code = "nonzero" /\ JobEnds(x, "failed")

(* A slip: no deadline on the Job; the poll's own is thought to be enough. *)
DeadlineNever(x) == FALSE /\ JobEnds(x, "failed")

(* activeDeadlineSeconds: counts a pod that never started, too. *)
Deadline(x) == job[x].since = Timeout /\ JobEnds(x, "failed")

(* ttlSecondsAfterFinished *)
Collect(x) ==
  /\ Finished(x) /\ job[x].since = Ttl
  /\ job' = [job EXCEPT ![x] = Gone]
  /\ UNCHANGED <<handler, pod, crashes>>

Controller(x) == Deadline(x) \/ Collect(x)
-------------------------------------------------------------------------------
Sooner(t, limit) == IF t < limit THEN t + 1 ELSE limit

(* A handler that slept polls again, unless it has slept as long as it     *)
(* may; what a slow call takes it does not count.                          *)
Awake(coroutine) ==
  [coroutine EXCEPT !.waited = @ + 1,
                    !.at = IF coroutine.waited + 1 < PollLimit THEN "read" ELSE "late"]

(* A tick for everybody. *)
Tick ==
  /\ job' = [x \in Exec |->
       IF job[x].state = "active" THEN [job[x] EXCEPT !.since = Sooner(@, Timeout)]
       ELSE IF Finished(x) THEN [job[x] EXCEPT !.since = Sooner(@, Ttl)] ELSE job[x]]
  /\ handler' = [x \in Exec |->
       IF handler[x].at = "sleep" THEN Awake(handler[x]) ELSE handler[x]]
  /\ UNCHANGED <<pod, crashes>>

Next ==
  \/ \E x \in Exec : \/ \E p \in Project : CallTool(x, p)
                     \/ HandlerStep(x)
                     \/ CreatePod(x) \/ ContainerStarts(x) \/ ContainerExits(x) \/ PodGoes(x)
                     \/ JobFinishes(x) \/ Controller(x)
  \/ \E p \in Project : Destroy(p)
  \/ Crash
  \/ Tick

Spec == Init /\ [][Next]_vars

(* The event loop runs every handler, and time passes. *)
FairSpec == Spec /\ WF_vars(Tick) /\ \A x \in Exec : WF_vars(HandlerStep(x))

(* The Job controller enforces deadlines and times to live. *)
ControllerWorks == \A x \in Exec : WF_vars(Controller(x))
-------------------------------------------------------------------------------
(* exec() says that a command succeeded only of a command that ran to its  *)
(* end and exited with zero, whatever the deadline, destroy() or the       *)
(* cluster removed while it was asking (k8s_sandbox.py, _collect).         *)
SuccessIsReal == \A x \in Exec : handler[x].reply = "ok" => pod[x].code = "zero"

(* A command that has been answered, other than by an error, has no Job    *)
(* left: an agent that runs one command after another leaves nothing       *)
(* behind (k8s_sandbox.py, exec: "Delete eagerly").                        *)
AnsweredIsClean ==
  \A x \in Exec :
    handler[x].at = "done" /\ handler[x].reply # "error" => job[x].state = "gone"

(* Every call returns, whatever the cluster does or fails to do: the poll  *)
(* has its own limit (k8s_sandbox.py, _await_result).                      *)
ExecReturns ==
  \A x \in Exec : handler[x].at = "create" ~> handler[x].at = "done"

(* Every Job goes in the end, with nobody left to delete it too: its       *)
(* deadline ends it and its time to live removes it (k8s_sandbox.py,       *)
(* _manifest: "a runaway loop is the cluster's problem, not ours").        *)
JobsGo == ControllerWorks => \A x \in Exec : job[x].state = "active" ~> job[x].state = "gone"
===============================================================================
