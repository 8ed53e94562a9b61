----------------------------- MODULE AgentRuntime -----------------------------
(***************************************************************************)
(* The AgentRuntime port: somewhere agents run.  The control plane sees    *)
(* an agent only through census() and handles(), which list the agents the *)
(* runtime counts as live.  An agent it has accepted but does not count    *)
(* (no pod yet, or between two attempts) is "idle".  CountedAtLaunch tells *)
(* the two adapters apart: FakeAgentRuntime counts an agent from the       *)
(* moment launch() returns, KubernetesAgentRuntime only while the Job has  *)
(* an active pod.                                                          *)
(***************************************************************************)
EXTENDS CrewDomain, FiniteSets

CONSTANTS
  Agent,            \* names launch() hands out, each at most once
  CountedAtLaunch   \* TRUE: FakeAgentRuntime; FALSE: KubernetesAgentRuntime

ASSUME RuntimeAssumption == /\ IsFiniteSet(Agent)
                            /\ CountedAtLaunch \in BOOLEAN

VARIABLE agents     \* [Agent -> AgentRecord]

Phase == {"unused", "idle", "live", "ended"}

Unused == [phase |-> "unused", role |-> "none", project |-> "none"]

AgentRecord == [phase : Phase \ {"unused"}, role : Role, project : Project]

AgentsTypeOK == agents \in [Agent -> AgentRecord \cup {Unused}]

AgentsInit == agents = [a \in Agent |-> Unused]
-------------------------------------------------------------------------------
Launched == {a \in Agent : agents[a].phase # "unused"}

LaunchedFor(role, p) ==
  {a \in Launched : agents[a].role = role /\ agents[a].project = p}

Live == {a \in Agent : agents[a].phase = "live"}

(* Accepted and not finished, counted or not. *)
Unfinished == {a \in Agent : agents[a].phase \in {"idle", "live"}}

(* census(role) and census(role, project) count these sets; handles() lists *)
(* the second one.                                                          *)
LiveOf(role) == {a \in Live : agents[a].role = role}

LiveOn(role, p) == {a \in LiveOf(role) : agents[a].project = p}

SetPhase(a, phase) == agents' = [agents EXCEPT ![a].phase = phase]
-------------------------------------------------------------------------------
(* launch(): the request is accepted under a name never used before. *)
Launch(a, role, p) ==
  /\ agents[a].phase = "unused"
  /\ agents' = [agents EXCEPT ![a] =
       [phase   |-> IF CountedAtLaunch THEN "live" ELSE "idle",
        role    |-> role,
        project |-> p]]

(* The cluster gives the agent a pod. *)
BecomeLive(a) == agents[a].phase = "idle" /\ SetPhase(a, "live")

(* Its attempt ended and the next one has not begun. *)
LoseLive(a) ==
  /\ ~CountedAtLaunch
  /\ agents[a].phase = "live"
  /\ SetPhase(a, "idle")

(* Finished, failed for good, timed out or deleted. *)
End(a) == agents[a].phase \in {"idle", "live"} /\ SetPhase(a, "ended")

(* stop_project(): every agent of the project is deleted. *)
StopAgents(p) ==
  agents' = [a \in Agent |->
               IF a \in Unfinished /\ agents[a].project = p
               THEN [agents[a] EXCEPT !.phase = "ended"]
               ELSE agents[a]]

(* What happens to launched agents without the control plane. *)
AgentsMove(a) == BecomeLive(a) \/ LoseLive(a) \/ End(a)

AgentsNext ==
  \/ \E a \in Agent, role \in Role, p \in Project : Launch(a, role, p)
  \/ \E a \in Agent : AgentsMove(a)
  \/ \E p \in Project : StopAgents(p)

AgentsSpec == AgentsInit /\ [][AgentsNext]_agents
===============================================================================
