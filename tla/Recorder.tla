------------------------------- MODULE Recorder -------------------------------
(***************************************************************************)
(* CrewService.record(): the one task that hears every event of every      *)
(* project, writes it to the history and keeps the token bill, and that    *)
(* stops a project whose bill reaches the ceiling.  Around it: agents that *)
(* publish and end, spawns that land whenever their request gets there     *)
(* (spawn() looks at neither the bill nor the project's status), a founder *)
(* closing projects, and a bus that forgets what nobody is listening to.   *)
(***************************************************************************)
EXTENDS RedisStore, AgentRuntime, Sequences

CONSTANTS
  MaxTokens,    \* MAX_PROJECT_TOKENS, in usage events (each costs one)
  MaxHistory,   \* MAX_HISTORY_PER_PROJECT
  MaxEvents,    \* bound: events agents publish
  MaxFaults,    \* bound: awaits of the recorder that raise
  Outages,      \* TRUE: the recorder's connection to the bus may break
  Restarts      \* bound: restarts of the control plane

ASSUME RecorderAssumption ==
  /\ MaxTokens \in Nat \ {0}
  /\ MaxHistory \in Nat \ {0}
  /\ MaxEvents \in Nat /\ MaxFaults \in Nat /\ Restarts \in Nat
  /\ Outages \in BOOLEAN

VARIABLES
  bus,        \* events delivered to the recorder's subscription, unread
  history,    \* [Project -> the events recorded, oldest first]
  spend,      \* [Project -> tokens], _spend
  stopped,    \* the projects in _stopped
  rec,        \* the recorder: the await it is at, and the event in hand
  published,  \* number of events ever published
  faults,     \* number of awaits that have raised
  restarts    \* number of restarts

vars == <<projects, index, agents, bus, history, spend, stopped, rec,
          published, faults, restarts>>

world == <<projects, index, agents>>
meter == <<history, spend, stopped>>
bounds == <<faults, restarts>>

Kind == {"usage", "other", "error"}

(* n numbers events in the order they were published. *)
Event == [n : Nat, project : Project, kind : Kind]

NoEvent == [n |-> 0, project |-> "none", kind |-> "none"]

Listening == [at |-> "listening", event |-> NoEvent, snap |-> NoProject]
Dead      == [at |-> "dead", event |-> NoEvent, snap |-> NoProject]

(* Between two awaits of one event: the event, and the project it read. *)
Busy == [at    : {"append", "stop", "announce", "get", "saveKey", "saveIndex"},
         event : Event,
         snap  : ProjectRecord \cup {NoProject}]

TypeOK ==
  /\ StoreTypeOK
  /\ AgentsTypeOK
  /\ bus \in Seq(Event)
  /\ history \in [Project -> Seq(Event)]
  /\ spend \in [Project -> Nat]
  /\ stopped \in SUBSET Project
  /\ rec \in {Listening, Dead} \cup Busy
  /\ published \in Nat
  /\ faults \in 0..MaxFaults
  /\ restarts \in 0..Restarts

(* Every project has been opened and started. *)
Init ==
  /\ projects = [p \in Project |-> Start(NewProject)]
  /\ index = Project
  /\ AgentsInit
  /\ bus = <<>>
  /\ history = [p \in Project |-> <<>>]
  /\ spend = [p \in Project |-> 0]
  /\ stopped = {}
  /\ rec = Listening
  /\ published = 0
  /\ faults = 0
  /\ restarts = 0
-------------------------------------------------------------------------------
(* Pub/sub: delivered to the subscriber there is, else lost. *)
Publish(p, kind) ==
  /\ published' = published + 1
  /\ bus' = IF rec = Dead THEN bus
            ELSE Append(bus, [n |-> published + 1, project |-> p, kind |-> kind])

(* A live agent says something, or reports what a turn cost. *)
AgentPublishes(a, kind) ==
  /\ a \in Live
  /\ published < MaxEvents
  /\ Publish(agents[a].project, kind)
  /\ UNCHANGED <<world, meter, rec, bounds>>

AgentMoves(a) == AgentsMove(a) /\ UNCHANGED <<store, bus, meter, rec, published, bounds>>

SpawnLands(a, role, p) ==
  Launch(a, role, p) /\ UNCHANGED <<store, bus, meter, rec, published, bounds>>

FounderCloses(p) ==
  /\ p \in Open
  /\ projects' = [projects EXCEPT ![p] = Finish(@, TRUE)]
  /\ index' = index \ {p}
  /\ UNCHANGED <<agents, bus, meter, rec, published, bounds>>
-------------------------------------------------------------------------------
Receive ==
  /\ rec = Listening
  /\ bus # <<>>
  /\ rec' = [Listening EXCEPT !.at = "append", !.event = Head(bus)]
  /\ bus' = Tail(bus)
  /\ UNCHANGED <<world, meter, published, bounds>>

(* A slip: one event too many is kept. *)
TrimOneOver(log) ==
  SubSeq(log, IF Len(log) > MaxHistory THEN Len(log) - MaxHistory ELSE 1, Len(log))

(* LTRIM key -MaxHistory -1 *)
Trim(log) == SubSeq(log, IF Len(log) > MaxHistory THEN Len(log) - MaxHistory + 1 ELSE 1, Len(log))

(* A slip: a turn is credited to the project. *)
CostCredited(event) == IF event.kind = "usage" THEN -1 ELSE 0

Cost(event) == IF event.kind = "usage" THEN 1 ELSE 0

(* A slip: the ceiling has to be exceeded. *)
MustStopOver(event) ==
  /\ event.kind = "usage"
  /\ spend[event.project] + Cost(event) > MaxTokens
  /\ event.project \notin stopped

MustStop(event) ==
  /\ event.kind = "usage"
  /\ spend[event.project] + Cost(event) >= MaxTokens
  /\ event.project \notin stopped

(* RPUSH and LTRIM in one pipeline; then, once it has answered and with no *)
(* await between, _charge adds the tokens up and marks the project if they *)
(* reach the ceiling.  Only the recorder reads the bill, so what happens   *)
(* while the answer is on its way may as well come before the pipeline.    *)
AppendAndCharge ==
  LET e == rec.event
  IN /\ rec.at = "append"
     /\ history' = [history EXCEPT ![e.project] = Trim(Append(@, e))]
     /\ spend' = [spend EXCEPT ![e.project] = @ + Cost(e)]
     /\ IF MustStop(e)
        THEN stopped' = stopped \cup {e.project} /\ rec' = [rec EXCEPT !.at = "stop"]
        ELSE rec' = Listening /\ UNCHANGED stopped
     /\ UNCHANGED <<world, bus, published, bounds>>

(* A slip: a project already closed is taken to have nobody on it. *)
StopIfOpen ==
  /\ rec.at = "stop"
  /\ IF rec.event.project \in Open THEN StopAgents(rec.event.project) ELSE UNCHANGED agents
  /\ rec' = [rec EXCEPT !.at = "announce"]
  /\ UNCHANGED <<store, bus, meter, published, bounds>>

(* stop_project(): the list only counts, the deletion takes all there is. *)
Stop ==
  /\ rec.at = "stop"
  /\ StopAgents(rec.event.project)
  /\ rec' = [rec EXCEPT !.at = "announce"]
  /\ UNCHANGED <<store, bus, meter, published, bounds>>

(* A slip: the project is left as it was. *)
AnnounceAndLeave ==
  /\ rec.at = "announce"
  /\ Publish(rec.event.project, "error")
  /\ rec' = Listening
  /\ UNCHANGED <<world, meter, bounds>>

Announce ==
  /\ rec.at = "announce"
  /\ Publish(rec.event.project, "error")
  /\ rec' = [rec EXCEPT !.at = "get"]
  /\ UNCHANGED <<world, meter, bounds>>

GetProject ==
  /\ rec.at = "get"
  /\ rec' = IF rec.event.project \in Open
            THEN [rec EXCEPT !.at = "saveKey", !.snap = Finish(projects[rec.event.project], TRUE)]
            ELSE Listening
  /\ UNCHANGED <<world, bus, meter, published, bounds>>

SaveKey ==
  /\ rec.at = "saveKey"
  /\ SetKey(rec.event.project, rec.snap)
  /\ rec' = [rec EXCEPT !.at = "saveIndex"]
  /\ UNCHANGED <<agents, bus, meter, published, bounds>>

SaveIndex ==
  /\ rec.at = "saveIndex"
  /\ ZRem(rec.event.project)
  /\ rec' = Listening
  /\ UNCHANGED <<agents, bus, meter, published, bounds>>

(* A slip: an event that could not be recorded is charged all the same. *)
SwallowAndCharge ==
  /\ rec \notin {Listening, Dead}
  /\ faults < MaxFaults
  /\ faults' = faults + 1
  /\ spend' = IF rec.at = "append"
              THEN [spend EXCEPT ![rec.event.project] = @ + Cost(rec.event)]
              ELSE spend
  /\ rec' = Listening
  /\ UNCHANGED <<world, bus, history, stopped, published, restarts>>

(* The pipeline is applied and its answer lost: a client that retries by   *)
(* itself sends it again, one that does not raises.  The second outcome is *)
(* also the one of tokens int() does not take: recorded, then raised.      *)
LoseReply ==
  LET e == rec.event
  IN /\ rec.at = "append"
     /\ faults < MaxFaults
     /\ faults' = faults + 1
     /\ history' = [history EXCEPT ![e.project] = Trim(Append(@, e))]
     /\ rec' \in {rec, Listening}
     /\ UNCHANGED <<world, bus, spend, stopped, published, restarts>>

(* Any await on the way raises with no effect: logged, and on to the next  *)
(* event.  A later await whose effect was there all the same is its step,  *)
(* then this one.                                                          *)
Swallow ==
  /\ rec \notin {Listening, Dead}
  /\ faults < MaxFaults
  /\ faults' = faults + 1
  /\ rec' = Listening
  /\ UNCHANGED <<world, bus, meter, published, restarts>>

(* Reading the subscription raises something other than a read timeout:    *)
(* that is outside the try, and ends the task.                             *)
LoseConnection ==
  /\ Outages
  /\ rec = Listening
  /\ rec' = Dead
  /\ bus' = <<>>
  /\ UNCHANGED <<world, meter, published, bounds>>

(* A new process: nothing of the bill survives, and what was published     *)
(* while nobody was subscribed is gone.                                    *)
Restart ==
  /\ restarts < Restarts
  /\ restarts' = restarts + 1
  /\ rec' = Listening
  /\ bus' = <<>>
  /\ spend' = [p \in Project |-> 0]
  /\ stopped' = {}
  /\ UNCHANGED <<world, history, published, faults>>
-------------------------------------------------------------------------------
RecorderStep ==
  \/ Receive \/ AppendAndCharge \/ Stop \/ Announce \/ GetProject \/ SaveKey \/ SaveIndex

Next ==
  \/ RecorderStep
  \/ LoseReply
  \/ Swallow
  \/ LoseConnection
  \/ Restart
  \/ \E a \in Agent : AgentMoves(a) \/ \E kind \in {"usage", "other"} : AgentPublishes(a, kind)
  \/ \E a \in Agent, role \in Role, p \in Project : SpawnLands(a, role, p)
  \/ \E p \in Project : FounderCloses(p)

Spec == Init /\ [][Next]_vars

(* The event loop keeps running the recorder. *)
FairSpec == Spec /\ WF_vars(RecorderStep)
-------------------------------------------------------------------------------
UsageIn(log) == Cardinality({i \in DOMAIN log : log[i].kind = "usage"})

(* While nothing has been trimmed, a project is never billed for more than *)
(* its history says was used, across restarts; and until the first of them *)
(* for no less than that, but for one event for every answer lost: no      *)
(* event is charged that failed to be recorded, and none is charged twice  *)
(* (service.py, record and _charge).                                       *)
BillMatchesHistory ==
  \A p \in Project : Len(history[p]) < MaxHistory =>
    /\ spend[p] <= UsageIn(history[p])
    /\ restarts = 0 => UsageIn(history[p]) <= spend[p] + faults

(* A project's history keeps the order its events were published in and    *)
(* never outgrows its cap (ports/store.py); unless an answer was lost, it  *)
(* has each of them at most once.                                          *)
HistoryInOrder ==
  \A p \in Project :
    /\ Len(history[p]) <= MaxHistory
    /\ \A i, j \in DOMAIN history[p] : i < j =>
         /\ history[p][i].n <= history[p][j].n
         /\ faults = 0 => history[p][i].n # history[p][j].n

(* What the history shows decides who is torn down: nobody is whose        *)
(* recorded usage is below the ceiling, whatever raises, repeats or        *)
(* restarts; and until a restart forgets the bill, everybody is who has    *)
(* recorded more above it than answers were lost (service.py, _charge).    *)
StoppedByHistory ==
  \A p \in Project : Len(history[p]) < MaxHistory =>
    /\ p \in stopped => UsageIn(history[p]) >= MaxTokens
    /\ restarts = 0 /\ UsageIn(history[p]) >= MaxTokens + faults => p \in stopped

UnfinishedOn(p) == {a \in Unfinished : agents[a].project = p}

StoppingOf(p) == rec.at = "stop" /\ rec.event.project = p

\* Something has raised: from then on the teardown may stay half done.
Disturbed == rec = Dead \/ faults > 0 \/ restarts > 0

(* When a bill reaches the ceiling, every agent then on the project is     *)
(* ended and the project is closed, unless something raises: "a            *)
(* ceiling the control plane enforces by deleting the Jobs" (service.py,   *)
(* MAX_PROJECT_TOKENS).                                                    *)
OverBudgetIsStopped ==
  \A p \in Project, a \in Agent :
    StoppingOf(p) /\ a \in UnfinishedOn(p) ~> a \notin Unfinished \/ Disturbed

OverBudgetIsClosed == \A p \in Project : p \in stopped ~> p \notin Open \/ Disturbed

(* Once the recorder has dealt with a project over its ceiling, nobody     *)
(* works on it (service.py, MAX_PROJECT_TOKENS, the same comment).         *)
StoppedStaysStopped ==
  rec = Listening => \A p \in stopped : UnfinishedOn(p) = {}
===============================================================================
