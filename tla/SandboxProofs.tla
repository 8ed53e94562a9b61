----------------------------- MODULE SandboxProofs -----------------------------
(***************************************************************************)
(* Proofs about the sandbox, for any number of calls at once and any       *)
(* limits.  A success is only what the Job or the container said, and both *)
(* are right for good: the invariant says so of every call by itself, so   *)
(* an action is a question about the calls it changes.                     *)
(***************************************************************************)
EXTENDS Sandbox, TLAPS

(* What is true of a call, of its Job and of its pod.  Why an answer is    *)
(* right: the Job counts a success only after the container's, a handler   *)
(* that saw a Job succeed remembers it until it has an answer, and an exit *)
(* code never changes.  Why a wait ends: a poll is still within its limit. *)
Good(h, j, q) ==
  /\ j.since <= (IF j.state = "active" THEN Timeout ELSE Ttl)
  /\ q.code # "none" => q.at \in {"exited", "gone"}
  /\ j.state = "succeeded" => q.code = "zero"
  /\ h.at \in {"logs", "pods"} /\ h.said = "succeeded" => q.code = "zero"
  /\ h.reply = "ok" => q.code = "zero"
  /\ h.at = "done" /\ h.reply # "error" => j.state = "gone"
  /\ h.at \in {"unused", "create"} => h.waited = 0
  /\ h.at \in {"read", "sleep"} => h.waited < PollLimit

Shape ==
  /\ handler \in [Exec -> Handler]
  /\ job \in [Exec -> Job]
  /\ pod \in [Exec -> Pod]
  /\ crashes \in 0..MaxCrashes

IInv == Shape /\ \A x \in Exec : Good(handler[x], job[x], pod[x])

LEMMA LimitIsPositive == PollLimit \in Nat /\ PollLimit > 0
  BY SandboxAssumption DEF PollLimit

LEMMA InitIInv == Init => IInv
  BY LimitIsPositive, SandboxAssumption DEF Init, IInv, Shape, Good, Handler, Job, Pod, Reply

(* What there is to know of a call before a step of it. *)
LEMMA OfCall ==
  ASSUME IInv, NEW x \in Exec
  PROVE  /\ handler[x] \in Handler /\ job[x] \in Job /\ pod[x] \in Pod
         /\ Good(handler[x], job[x], pod[x])
  BY DEF IInv, Shape

(* A step that changes one call has to show that call good. *)
LEMMA OneCall ==
  ASSUME IInv, NEW x \in Exec, NEW h \in Handler, NEW j \in Job, NEW q \in Pod, Good(h, j, q),
         handler' = [handler EXCEPT ![x] = h],
         job' = [job EXCEPT ![x] = j],
         pod' = [pod EXCEPT ![x] = q],
         crashes' = crashes
  PROVE  IInv'
<1>1. Shape'
  BY DEF IInv, Shape
<1>2. \A y \in Exec : Good(handler[y], job[y], pod[y])'
  <2> TAKE y \in Exec
  <2>1. CASE y = x
    BY <2>1 DEF IInv, Shape
  <2>2. CASE y # x
    <3>1. handler'[y] = handler[y] /\ job'[y] = job[y] /\ pod'[y] = pod[y]
      BY <2>2 DEF IInv, Shape
    <3> QED BY <3>1 DEF IInv
  <2> QED BY <2>1, <2>2
<1> QED BY <1>1, <1>2 DEF IInv

(* The same of a step of the handler alone. *)
LEMMA OneHandler ==
  ASSUME IInv, NEW x \in Exec, NEW h \in Handler, Good(h, job[x], pod[x]),
         handler' = [handler EXCEPT ![x] = h], UNCHANGED <<job, pod, crashes>>
  PROVE  IInv'
<1>1. job' = [job EXCEPT ![x] = job[x]] /\ pod' = [pod EXCEPT ![x] = pod[x]]
  BY DEF IInv, Shape
<1>2. job[x] \in Job /\ pod[x] \in Pod /\ crashes' = crashes
  BY DEF IInv, Shape
<1> DEFINE j == job[x]
           q == pod[x]
<1>3. /\ j \in Job /\ q \in Pod /\ Good(h, j, q)
      /\ job' = [job EXCEPT ![x] = j] /\ pod' = [pod EXCEPT ![x] = q]
  BY <1>1, <1>2
<1> HIDE DEF j, q
<1> QED BY <1>2, <1>3, OneCall

-------------------------------------------------------------------------------
(* The handler's steps. *)

LEMMA CallToolKeeps ==
  ASSUME IInv, NEW x \in Exec, NEW p \in Project, CallTool(x, p)
  PROVE  IInv'
<1> DEFINE h == [handler[x] EXCEPT !.at = "create", !.project = p]
<1>1. h \in Handler /\ Good(h, job[x], pod[x])
  BY OfCall, LimitIsPositive, SandboxAssumption
  DEF CallTool, cluster, Good, Handler, Job, Pod, Reply
<1>2. handler' = [handler EXCEPT ![x] = h] /\ UNCHANGED <<job, pod, crashes>>
  BY DEF CallTool, cluster
<1> QED BY <1>1, <1>2, OneHandler

LEMMA OfDone ==
  ASSUME NEW h \in Handler, NEW reply \in Reply
  PROVE  /\ Done(h, reply) \in Handler
         /\ Done(h, reply).at = "done" /\ Done(h, reply).reply = reply
  BY LimitIsPositive DEF Done, Handler

LEMMA CreateJobKeeps ==
  ASSUME IInv, NEW x \in Exec, CreateJob(x)
  PROVE  IInv'
<1> DEFINE j == [state |-> "active", since |-> 0]
           go == [handler[x] EXCEPT !.at = "read"]
           no == Done(handler[x], "error")
<1> "error" \in Reply
  BY DEF Reply
<1> USE OfCall, OfDone, LimitIsPositive, SandboxAssumption DEF Good
<1>1. /\ go \in Handler /\ no \in Handler /\ j \in Job /\ job[x] \in Job /\ pod[x] \in Pod
      /\ Good(go, j, pod[x]) /\ Good(no, j, pod[x]) /\ Good(no, job[x], pod[x])
  <2>1. go \in Handler /\ Good(go, j, pod[x])
    BY DEF CreateJob, Handler
  <2>2. no \in Handler /\ no.at = "done" /\ no.reply = "error"
    OBVIOUS
  <2> HIDE DEF no
  <2>3. Good(no, j, pod[x]) /\ Good(no, job[x], pod[x])
    BY <2>2
  <2> QED BY <2>1, <2>2, <2>3 DEF Job
<1>2. pod' = [pod EXCEPT ![x] = pod[x]] /\ crashes' = crashes
  BY DEF CreateJob, IInv, Shape
<1>3. CASE job' = [job EXCEPT ![x] = j] /\ Goto(x, "read")
  <2>1. handler' = [handler EXCEPT ![x] = go]
    BY <1>3 DEF Goto
  <2> QED BY <1>1, <1>2, <1>3, <2>1, OneCall
<1>4. CASE job' = [job EXCEPT ![x] = j] /\ Respond(x, "error")
  <2>1. handler' = [handler EXCEPT ![x] = no]
    BY <1>4 DEF Respond
  <2> QED BY <1>1, <1>2, <1>4, <2>1, OneCall
<1>5. CASE Respond(x, "error") /\ UNCHANGED job
  <2>1. handler' = [handler EXCEPT ![x] = no] /\ UNCHANGED <<job, pod, crashes>>
    BY <1>5 DEF Respond, CreateJob
  <2> QED BY <1>1, <2>1, OneHandler
<1> QED BY <1>3, <1>4, <1>5 DEF CreateJob

LEMMA ReadStatusKeeps ==
  ASSUME IInv, NEW x \in Exec, ReadStatus(x)
  PROVE  IInv'
<1> DEFINE none == [handler[x] EXCEPT !.at = "delete", !.reply = "error"]
           wait == [handler[x] EXCEPT !.at = "sleep"]
           over == [handler[x] EXCEPT !.at = "logs", !.said = job[x].state]
<1>1. UNCHANGED <<job, pod, crashes>>
  BY DEF ReadStatus, cluster
<1>2. CASE Answer(x, "error")
  <2>1. none \in Handler /\ Good(none, job[x], pod[x])
    BY OfCall DEF Good, Handler, Job, Pod, Reply
  <2>2. handler' = [handler EXCEPT ![x] = none]
    BY <1>2 DEF Answer
  <2> QED BY <1>1, <2>1, <2>2, OneHandler
<1>3. CASE Goto(x, "sleep")
  <2>1. wait \in Handler /\ Good(wait, job[x], pod[x])
    BY OfCall DEF ReadStatus, Good, Handler, Job, Pod, Reply
  <2>2. handler' = [handler EXCEPT ![x] = wait]
    BY <1>3 DEF Goto
  <2> QED BY <1>1, <2>1, <2>2, OneHandler
<1>4. CASE Finished(x) /\ handler' = [handler EXCEPT ![x] = over]
  <2>1. over \in Handler /\ Good(over, job[x], pod[x])
    BY OfCall, <1>4 DEF Finished, Good, Handler, Job, Pod, Reply
  <2> QED BY <1>1, <1>4, <2>1, OneHandler
<1> QED BY <1>2, <1>3, <1>4 DEF ReadStatus

LEMMA ReadLogsKeeps ==
  ASSUME IInv, NEW x \in Exec, ReadLogs(x)
  PROVE  IInv'
<1> DEFINE next == [handler[x] EXCEPT !.at = "pods"]
           late == [handler[x] EXCEPT !.at = "delete", !.reply = "timed out"]
<1>1. UNCHANGED <<job, pod, crashes>>
  BY DEF ReadLogs, cluster
<1>2. CASE handler[x].at = "logs" /\ Goto(x, "pods")
  <2>1. next \in Handler /\ Good(next, job[x], pod[x])
    BY OfCall, <1>2 DEF Good, Handler, Job, Pod, Reply
  <2>2. handler' = [handler EXCEPT ![x] = next]
    BY <1>2 DEF Goto
  <2> QED BY <1>1, <2>1, <2>2, OneHandler
<1>3. CASE Answer(x, "timed out")
  <2>1. late \in Handler /\ Good(late, job[x], pod[x])
    BY OfCall DEF Good, Handler, Job, Pod, Reply
  <2>2. handler' = [handler EXCEPT ![x] = late]
    BY <1>3 DEF Answer
  <2> QED BY <1>1, <2>1, <2>2, OneHandler
<1> QED BY <1>2, <1>3 DEF ReadLogs

(* An exit code that is listed is the container's; without one the Job is  *)
(* believed, and the Job was right.                                        *)
LEMMA ListPodsKeeps ==
  ASSUME IInv, NEW x \in Exec, ListPods(x)
  PROVE  IInv'
<1> DEFINE reply == IF Listed(x) /\ pod[x].code # "none"
                    THEN IF pod[x].code = "zero" THEN "ok" ELSE "failed"
                    ELSE IF handler[x].said = "succeeded" THEN "ok" ELSE "failed"
           h == [handler[x] EXCEPT !.at = "delete", !.reply = reply]
<1>1. reply \in Reply
  BY DEF Reply
<1>2. reply = "ok" => pod[x].code = "zero"
  BY OfCall DEF ListPods, Good, Handler
<1> HIDE DEF reply
<1>3. h \in Handler /\ Good(h, job[x], pod[x])
  BY OfCall, <1>1, <1>2 DEF Good, Handler, Job, Pod
<1>4. handler' = [handler EXCEPT ![x] = h] /\ UNCHANGED <<job, pod, crashes>>
  BY DEF ListPods, Answer, cluster, reply
<1> QED BY <1>3, <1>4, OneHandler

LEMMA ApiRaisesKeeps ==
  ASSUME IInv, NEW x \in Exec, ApiRaises(x)
  PROVE  IInv'
<1> DEFINE h == [handler[x] EXCEPT !.at = "delete", !.reply = "error"]
<1>1. h \in Handler /\ Good(h, job[x], pod[x])
  BY OfCall, LimitIsPositive, SandboxAssumption
  DEF ApiRaises, Answer, cluster, Good, Handler, Job, Pod, Reply
<1>2. handler' = [handler EXCEPT ![x] = h] /\ UNCHANGED <<job, pod, crashes>>
  BY DEF ApiRaises, Answer, cluster
<1> QED BY <1>1, <1>2, OneHandler

LEMMA DeleteJobKeeps ==
  ASSUME IInv, NEW x \in Exec, DeleteJob(x)
  PROVE  IInv'
<1> DEFINE yes == Done(handler[x], handler[x].reply)
           no == Done(handler[x], "error")
<1> "error" \in Reply
  BY DEF Reply
<1>1. yes \in Handler /\ Gone \in Job /\ pod[x] \in Pod /\ Good(yes, Gone, pod[x])
  <2>1. handler[x].reply \in Reply
    BY OfCall DEF Handler
  <2>2. yes \in Handler /\ yes.at = "done" /\ yes.reply = handler[x].reply
    BY <2>1, OfCall, OfDone
  <2> HIDE DEF yes
  <2> QED BY <2>2, OfCall, SandboxAssumption DEF Good, Gone, Job
<1>2. no \in Handler /\ Good(no, job[x], pod[x])
  <2>1. no \in Handler /\ no.at = "done" /\ no.reply = "error"
    BY OfCall, OfDone
  <2> HIDE DEF no
  <2> QED BY <2>1, OfCall DEF Good
<1>3. CASE job' = [job EXCEPT ![x] = Gone] /\ Respond(x, handler[x].reply)
  <2>1. handler' = [handler EXCEPT ![x] = yes] /\ pod' = [pod EXCEPT ![x] = pod[x]]
        /\ crashes' = crashes
    BY <1>3 DEF Respond, DeleteJob, IInv, Shape
  <2> QED BY <1>1, <1>3, <2>1, OneCall
<1>4. CASE Respond(x, "error") /\ UNCHANGED job
  <2>1. handler' = [handler EXCEPT ![x] = no] /\ UNCHANGED <<job, pod, crashes>>
    BY <1>4 DEF Respond, DeleteJob
  <2> QED BY <1>2, <2>1, OneHandler
<1> QED BY <1>3, <1>4 DEF DeleteJob

-------------------------------------------------------------------------------
(* The steps of the others, call by call. *)

(* A step that changes many calls has to show each of them good. *)
LEMMA ManyCalls ==
  ASSUME IInv, Shape', \A x \in Exec : Good(handler'[x], job'[x], pod'[x])
  PROVE  IInv'
  BY DEF IInv

LEMMA DestroyKeeps ==
  ASSUME IInv, NEW p \in Project, Destroy(p)
  PROVE  IInv'
<1>1. Gone \in Job
  BY DEF Gone, Job
<1>2. UNCHANGED <<handler, pod, crashes>>
  BY DEF Destroy
<1>3. Shape'
  BY <1>1, <1>2 DEF Destroy, IInv, Shape
<1>4. ASSUME NEW x \in Exec
      PROVE  Good(handler'[x], job'[x], pod'[x])
  <2>1. Good(handler[x], Gone, pod[x])
    BY OfCall, SandboxAssumption DEF Good, Gone
  <2>2. job'[x] \in {Gone, job[x]}
    BY DEF Destroy
  <2> QED BY <1>2, <2>1, <2>2, OfCall
<1> QED BY <1>3, <1>4, ManyCalls

LEMMA CrashKeeps ==
  ASSUME IInv, Crash
  PROVE  IInv'
<1> "error" \in Reply
  BY DEF Reply
<1>1. UNCHANGED <<job, pod>>
  BY DEF Crash, cluster
<1>2. ASSUME NEW x \in Exec
      PROVE  handler'[x] \in Handler /\ Good(handler'[x], job'[x], pod'[x])
  <2> DEFINE no == Done(handler[x], "error")
  <2>1. no \in Handler /\ no.at = "done" /\ no.reply = "error"
    BY OfCall, OfDone
  <2>2. handler'[x] \in {no, handler[x]}
    BY DEF Crash
  <2> HIDE DEF no
  <2>3. Good(no, job[x], pod[x])
    BY <2>1, OfCall DEF Good
  <2> QED BY <1>1, <2>1, <2>2, <2>3, OfCall
<1>3. crashes' \in 0..MaxCrashes
  BY SandboxAssumption DEF Crash, IInv, Shape
<1>4. handler' \in [Exec -> Handler]
  BY <1>2 DEF Crash
<1>5. Shape'
  BY <1>1, <1>3, <1>4 DEF IInv, Shape
<1> QED BY <1>2, <1>5, ManyCalls

(* The pod only ever gets an exit code, and keeps it. *)
LEMMA PodKeeps ==
  ASSUME IInv, NEW x \in Exec,
         CreatePod(x) \/ ContainerStarts(x) \/ ContainerExits(x) \/ PodGoes(x)
  PROVE  IInv'
<1>1. PICK after, code : PodMoves(x, {pod[x].at}, after, code) /\ [at |-> after, code |-> code] \in Pod
        /\ (code # "none" => after \in {"exited", "gone"})
        /\ (pod[x].code # "none" => code = pod[x].code)
  BY OfCall DEF CreatePod, ContainerStarts, ContainerExits, PodGoes, PodMoves, Pod, Good
<1> DEFINE q == [at |-> after, code |-> code]
<1>2. Good(handler[x], job[x], q)
  BY <1>1, OfCall DEF Good
<1>3. /\ handler' = [handler EXCEPT ![x] = handler[x]] /\ job' = [job EXCEPT ![x] = job[x]]
      /\ pod' = [pod EXCEPT ![x] = q] /\ crashes' = crashes
  BY <1>1 DEF PodMoves, IInv, Shape
<1> QED BY <1>1, <1>2, <1>3, OfCall, OneCall

(* The Job ends as its container did, or by its deadline, or is collected. *)
LEMMA JobKeeps ==
  ASSUME IInv, NEW x \in Exec, JobFinishes(x) \/ Controller(x)
  PROVE  IInv'
<1>1. PICK j \in Job :
        /\ job' = [job EXCEPT ![x] = j]
        /\ \/ j = [state |-> "succeeded", since |-> 0] /\ pod[x].code = "zero"
           \/ j = [state |-> "failed", since |-> 0]
           \/ j = Gone
        /\ job[x].state # "gone"
  BY DEF JobFinishes, Controller, Deadline, Collect, JobEnds, Gone, Finished, Job
<1>2. Good(handler[x], j, pod[x])
  BY <1>1, OfCall, SandboxAssumption DEF Good, Gone
<1>3. /\ handler' = [handler EXCEPT ![x] = handler[x]] /\ pod' = [pod EXCEPT ![x] = pod[x]]
      /\ crashes' = crashes
  BY DEF JobFinishes, Controller, Deadline, Collect, JobEnds, IInv, Shape
<1> QED BY <1>1, <1>2, <1>3, OfCall, OneCall

(* A clock that stops at its limit stays within it. *)
LEMMA SoonerStays ==
  ASSUME NEW limit \in Nat, NEW t \in Nat, t <= limit
  PROVE  Sooner(t, limit) \in Nat /\ Sooner(t, limit) <= limit
  BY DEF Sooner

LEMMA TickKeeps ==
  ASSUME IInv, Tick
  PROVE  IInv'
<1>1. UNCHANGED <<pod, crashes>>
  BY DEF Tick
<1>2. ASSUME NEW x \in Exec
      PROVE  handler'[x] \in Handler /\ Good(handler'[x], job[x], pod[x])
  <2>1. CASE handler[x].at = "sleep"
    <3> DEFINE h == Awake(handler[x])
    <3>1. handler'[x] = h
      BY <2>1 DEF Tick
    <3>2. handler[x].waited \in Nat /\ handler[x].waited < PollLimit
      BY <2>1, OfCall, LimitIsPositive DEF Good, Handler
    <3>3. h \in Handler /\ h.at \in {"read", "late"} /\ h.reply = handler[x].reply
          /\ (h.at = "read" => h.waited < PollLimit)
      <4> DEFINE n == handler[x].waited + 1
                 stage == IF n < PollLimit THEN "read" ELSE "late"
      <4>1. n \in 0..PollLimit /\ stage \in {"read", "late"}
            /\ (stage = "read" => n < PollLimit)
        BY <3>2, LimitIsPositive
      <4>2. h = [handler[x] EXCEPT !.waited = n, !.at = stage]
        BY DEF Awake
      <4> HIDE DEF n, stage
      <4> QED BY <4>1, <4>2, OfCall DEF Handler
    <3> HIDE DEF h
    <3>4. Good(h, job[x], pod[x])
      BY <3>3, OfCall DEF Good
    <3> QED BY <3>1, <3>3, <3>4
  <2>2. CASE handler[x].at # "sleep"
    BY <2>2, OfCall DEF Tick
  <2> QED BY <2>1, <2>2
<1>3. ASSUME NEW x \in Exec
      PROVE  /\ job'[x] \in Job /\ job'[x].state = job[x].state
             /\ job'[x].since <= (IF job[x].state = "active" THEN Timeout ELSE Ttl)
  <2>1. job[x].since \in Nat /\ job[x].since <= (IF job[x].state = "active" THEN Timeout ELSE Ttl)
    BY OfCall DEF Good, Job
  <2>2. CASE job[x].state = "active"
    <3>1. job'[x] = [job[x] EXCEPT !.since = Sooner(job[x].since, Timeout)]
      BY <2>2 DEF Tick
    <3> QED BY <2>1, <2>2, <3>1, OfCall, SoonerStays, SandboxAssumption DEF Job
  <2>3. CASE Finished(x)
    <3>1. job'[x] = [job[x] EXCEPT !.since = Sooner(job[x].since, Ttl)]
      BY <2>3 DEF Tick, Finished
    <3>2. job[x].state # "active" /\ job[x].since <= Ttl
      BY <2>1, <2>3 DEF Finished
    <3> QED BY <2>1, <3>1, <3>2, OfCall, SoonerStays, SandboxAssumption DEF Job
  <2>4. CASE job[x].state # "active" /\ ~Finished(x)
    <3>1. job'[x] = job[x]
      BY <2>4 DEF Tick
    <3> QED BY <2>1, <2>4, <3>1, OfCall
  <2> QED BY <2>2, <2>3, <2>4
<1>4. \A x \in Exec : Good(handler'[x], job'[x], pod'[x])
  BY <1>1, <1>2, <1>3 DEF Good
<1>5. handler' \in [Exec -> Handler] /\ job' \in [Exec -> Job]
  BY <1>2, <1>3 DEF Tick
<1>6. Shape'
  BY <1>1, <1>5 DEF IInv, Shape
<1> QED BY <1>4, <1>6, ManyCalls

LEMMA NextIInv == IInv /\ [Next]_vars => IInv'
<1> SUFFICES ASSUME IInv, [Next]_vars PROVE IInv'
  OBVIOUS
<1>1. ASSUME NEW x \in Exec, NEW p \in Project, CallTool(x, p) PROVE IInv'
  BY <1>1, CallToolKeeps
<1>2. ASSUME NEW x \in Exec, HandlerStep(x) PROVE IInv'
  BY <1>2, CreateJobKeeps, ReadStatusKeeps, ReadLogsKeeps, ListPodsKeeps, ApiRaisesKeeps,
     DeleteJobKeeps DEF HandlerStep
<1>3. ASSUME NEW x \in Exec,
             CreatePod(x) \/ ContainerStarts(x) \/ ContainerExits(x) \/ PodGoes(x)
      PROVE  IInv'
  BY <1>3, PodKeeps
<1>4. ASSUME NEW x \in Exec, JobFinishes(x) \/ Controller(x) PROVE IInv'
  BY <1>4, JobKeeps
<1>5. ASSUME NEW p \in Project, Destroy(p) PROVE IInv'
  BY <1>5, DestroyKeeps
<1>6. CASE Crash
  BY <1>6, CrashKeeps
<1>7. CASE Tick
  BY <1>7, TickKeeps
<1>8. CASE UNCHANGED vars
  BY <1>8 DEF vars, IInv, Shape
<1> QED BY <1>1, <1>2, <1>3, <1>4, <1>5, <1>6, <1>7, <1>8 DEF Next

-------------------------------------------------------------------------------
(* What every call of exec() keeps, however many there are at once: see    *)
(* IInv.                                                                   *)
THEOREM SandboxInvariant == Spec => []IInv
<1>1. Spec => []IInv
  BY InitIInv, NextIInv, PTL DEF Spec
<1> QED BY <1>1

(* Every variable stays within its type: a poll never waits beyond the     *)
(* deadline and the grace, a Job is never older than its deadline.         *)
THEOREM SandboxTypes == Spec => []TypeOK
<1>1. IInv => TypeOK
  BY DEF IInv, Shape, Good, TypeOK
<1> QED BY <1>1, SandboxInvariant, PTL

(* A command is only ever said to have succeeded when its container exited *)
(* with zero, with any number of commands, deletions and crashes.          *)
THEOREM SuccessIsAlwaysReal == Spec => []SuccessIsReal
<1>1. IInv => SuccessIsReal
  BY DEF IInv, Shape, Good, SuccessIsReal
<1> QED BY <1>1, SandboxInvariant, PTL

(* A command answered without an error has left no Job. *)
THEOREM AnsweredIsAlwaysClean == Spec => []AnsweredIsClean
<1>1. IInv => AnsweredIsClean
  BY DEF IInv, Shape, Good, AnsweredIsClean
<1> QED BY <1>1, SandboxInvariant, PTL
===============================================================================
