------------------------------ MODULE CrewService ------------------------------
(***************************************************************************)
(* CrewService on RedisProjectStore and an AgentRuntime.  Every request is *)
(* a coroutine: between two awaits it runs alone, at an await any other    *)
(* request and the cluster may take steps.  calls[c] is the frame of the   *)
(* request c: the await it is suspended at, its arguments and the local    *)
(* variables it has read.  A step of c is what happens between two awaits, *)
(* and is named for the await it starts from.                              *)
(***************************************************************************)
EXTENDS RedisStore, AgentRuntime

CONSTANTS
  Call,        \* concurrent requests
  Kinds,       \* the requests clients issue
  Overrides,   \* the roles for which clients ask for an override
  MaxRequests, \* bound: how many requests are ever issued
  Faults       \* TRUE: any await may raise, the process may die

ASSUME ServiceAssumption ==
  /\ Kinds \subseteq {"open", "spawn", "rename", "finish"}
  /\ Overrides \subseteq Role
  /\ MaxRequests \in Nat
  /\ Faults \in BOOLEAN

\* At any time some number of requests may be in flight.
ASSUME CallAssumption == IsFiniteSet(Call) /\ Call # {}

VARIABLES
  calls,       \* [Call -> frame]
  issued       \* number of requests issued so far

vars == <<projects, index, agents, calls, issued>>

(* The awaits: list_active (two commands), create (two), _require, the two *)
(* counts of the census, launch, and save (two).                           *)
Await == {"listIds", "listGet", "createKey", "createIndex", "require",
          "censusProject", "censusAll", "launch", "saveKey", "saveIndex"}

Outcome == {"pending", "ok", "refused", "unknown", "rejected", "raised"}

NoId == "none"

Frame ==
  [at        : Await \cup {"returned"},
   kind      : {"open", "spawn", "rename", "finish"},
   outcome   : Outcome,
   project   : Project \cup {NoId},
   role      : Role,
   override  : BOOLEAN,
   name      : Name \cup {Placeholder},
   cancelled : BOOLEAN,
   ids       : SUBSET Project,                   \* list_active: ids read
   snap      : ProjectRecord \cup {NoProject},   \* the Project object held
   inProject : Nat]                              \* census.in_project

TypeOK ==
  /\ StoreTypeOK
  /\ AgentsTypeOK
  /\ calls \in [Call -> Frame]
  /\ issued \in 0..MaxRequests

(* A request that has returned keeps nothing but its kind and its outcome. *)
Returned(kind, outcome, p) ==
  [at |-> "returned", kind |-> kind, outcome |-> outcome, project |-> p,
   role |-> FirstRole, override |-> FALSE, name |-> Placeholder,
   cancelled |-> FALSE, ids |-> {}, snap |-> NoProject, inProject |-> 0]

Init ==
  /\ StoreInit
  /\ AgentsInit
  /\ calls = [c \in Call |-> Returned("open", "pending", NoId)]
  /\ issued = 0
-------------------------------------------------------------------------------
At(c, await) == calls[c].at = await

Goto(c, await) == calls' = [calls EXCEPT ![c].at = await]

Return(c, outcome) ==
  calls' = [calls EXCEPT ![c] =
              Returned(calls[c].kind, outcome, calls[c].project)]

(* store.save(record): suspends at SET, holding the object to be written. *)
Save(frame, record) == [frame EXCEPT !.at = "saveKey", !.snap = record]

(* A client's request reaches the service; its arguments come from outside. *)
Request(c, frame) ==
  /\ At(c, "returned")
  /\ frame.kind \in Kinds
  /\ issued < MaxRequests
  /\ issued' = issued + 1
  /\ calls' = [calls EXCEPT ![c] = frame]
  /\ UNCHANGED <<projects, index, agents>>

Fresh(kind, p) == [Returned(kind, "pending", p) EXCEPT !.at = "require"]

RequestOpen(c) ==
  Request(c, [Returned("open", "pending", NoId) EXCEPT !.at = "listIds"])

RequestSpawn(c, p, role, override) ==
  Request(c, [Fresh("spawn", p) EXCEPT !.role = role, !.override = override])

RequestRename(c, p, proposed) ==
  Request(c, [Fresh("rename", p) EXCEPT !.name = proposed])

RequestFinish(c, p, cancelled) ==
  Request(c, [Fresh("finish", p) EXCEPT !.cancelled = cancelled])
-------------------------------------------------------------------------------
(* open_project: ask how many projects are open, refuse or create one. *)
CheckOpen(c, active) ==
  IF MayOpenProject(Cardinality(active))
  THEN calls' = [calls EXCEPT ![c].at = "createKey", ![c].ids = {}]
  ELSE Return(c, "refused")

ListIds(c) ==
  /\ At(c, "listIds")
  /\ IF index = {}
     THEN CheckOpen(c, {})
     ELSE calls' = [calls EXCEPT ![c].at = "listGet", ![c].ids = index]
  /\ UNCHANGED <<projects, index, agents, issued>>

ListGet(c) ==
  /\ At(c, "listGet")
  /\ CheckOpen(c, Listed(calls[c].ids))
  /\ Heal(calls[c].ids)
  /\ UNCHANGED <<agents, issued>>

(* A slip: the index is written before the key. *)
CreateKeyIndexFirst(c, p) ==
  /\ At(c, "createKey")
  /\ p \notin Known
  /\ ZAdd(p)
  /\ calls' = [calls EXCEPT ![c].at = "createIndex", ![c].project = p]
  /\ UNCHANGED <<agents, issued>>

(* The id is random; SET NX refuses one that is taken. *)
CreateKey(c, p) ==
  /\ At(c, "createKey")
  /\ IF p \in Known
     THEN Return(c, "raised") /\ UNCHANGED store
     ELSE /\ SetKey(p, NewProject)
          /\ calls' = [calls EXCEPT ![c].at = "createIndex", ![c].project = p]
  /\ UNCHANGED <<agents, issued>>

(* ZADD; then the opening message is published and spawn() begins. *)
CreateIndex(c) ==
  /\ At(c, "createIndex")
  /\ ZAdd(calls[c].project)
  /\ Goto(c, "require")
  /\ UNCHANGED <<agents, issued>>
-------------------------------------------------------------------------------
(* _require: read the project; what the request does with the object it    *)
(* then holds depends on which request it is.                              *)
Require(c) ==
  LET f == calls[c]
      project == projects[f.project]
  IN /\ At(c, "require")
     /\ \/ /\ f.project \notin Known
           /\ Return(c, "unknown")
        \/ /\ f.project \in Known
           /\ f.kind \in {"open", "spawn"}
           /\ calls' = [calls EXCEPT ![c].at = "censusProject", ![c].snap = project]
        \/ /\ f.project \in Known
           /\ f.kind = "rename"
           /\ IF NameAccepted(f.name)
              THEN calls' = [calls EXCEPT ![c] = Save(f, Rename(project, f.name))]
              ELSE Return(c, "rejected")
        \/ /\ f.project \in Known
           /\ f.kind = "finish"
           /\ calls' = [calls EXCEPT ![c] = Save(f, Finish(project, f.cancelled))]
     /\ UNCHANGED <<projects, index, agents, issued>>

(* A slip: the count leaves one agent out, as if it were the caller. *)
CensusProjectLessOne(c) ==
  /\ At(c, "censusProject")
  /\ calls' = [calls EXCEPT ![c].at = "censusAll",
                 ![c].inProject = Cardinality(LiveOn(calls[c].role, calls[c].project)) - 1]
  /\ UNCHANGED <<projects, index, agents, issued>>

(* spawn: two counts, one after the other, and the caps between them and   *)
(* the launch.  A refusal is published and raised.                         *)
CensusProject(c) ==
  /\ At(c, "censusProject")
  /\ calls' = [calls EXCEPT ![c].at = "censusAll",
                 ![c].inProject = Cardinality(LiveOn(calls[c].role, calls[c].project))]
  /\ UNCHANGED <<projects, index, agents, issued>>

(* A slip: the project is started before anybody is launched. *)
CensusAllStartsFirst(c) ==
  LET f == calls[c]
      everywhere == Cardinality(LiveOf(f.role))
  IN /\ At(c, "censusAll")
     /\ IF CheckSpawn(f.role, f.inProject, everywhere, f.override) = "none"
        THEN calls' = [calls EXCEPT ![c] = Save(f, Start(f.snap))]
        ELSE Return(c, "refused")
     /\ UNCHANGED <<projects, index, agents, issued>>

CensusAll(c) ==
  LET f == calls[c]
      everywhere == Cardinality(LiveOf(f.role))
  IN /\ At(c, "censusAll")
     /\ IF CheckSpawn(f.role, f.inProject, everywhere, f.override) = "none"
        THEN calls' = [calls EXCEPT ![c].at = "launch", ![c].inProject = 0]
        ELSE Return(c, "refused")
     /\ UNCHANGED <<projects, index, agents, issued>>

(* A slip: the project is started whatever its status. *)
LaunchAgentStartsAny(c, a) ==
  LET f == calls[c]
  IN /\ At(c, "launch")
     /\ Launch(a, f.role, f.project)
     /\ calls' = [calls EXCEPT ![c] = Save(f, Start(f.snap))]
     /\ UNCHANGED <<projects, index, issued>>

(* launch, announce, and start the project if it was being scoped when it  *)
(* was read.                                                               *)
LaunchAgent(c, a) ==
  LET f == calls[c]
  IN /\ At(c, "launch")
     /\ Launch(a, f.role, f.project)
     /\ IF f.snap.status = "scoping"
        THEN calls' = [calls EXCEPT ![c] = Save(f, Start(f.snap))]
        ELSE Return(c, "ok")
     /\ UNCHANGED <<projects, index, issued>>
-------------------------------------------------------------------------------

(* save: SET XX of the object held; a closed project then leaves the index. *)
SaveKey(c) ==
  LET f == calls[c]
  IN /\ At(c, "saveKey")
     /\ IF f.project \in Known
        THEN /\ SetKey(f.project, f.snap)
             /\ IF IsTerminal(f.snap) THEN Goto(c, "saveIndex") ELSE Return(c, "ok")
        ELSE Return(c, "unknown") /\ UNCHANGED store
     /\ UNCHANGED <<agents, issued>>

SaveIndex(c) ==
  /\ At(c, "saveIndex")
  /\ ZRem(calls[c].project)
  /\ Return(c, "ok")
  /\ UNCHANGED <<agents, issued>>

(* Redis, the cluster or the bus fails the await, or the process dies with *)
(* every frame in it: the request ends where it is.                        *)
Raise(c) ==
  /\ Faults
  /\ ~At(c, "returned")
  /\ Return(c, "raised")
  /\ UNCHANGED <<projects, index, agents, issued>>
-------------------------------------------------------------------------------
(* Ids are random: a client names one it was told, so not one still being  *)
(* created, or a wrong one (NoId).                                         *)
Nameable == {p \in Known : \A c \in Call : ~(At(c, "createIndex") /\ calls[c].project = p)}
              \cup {NoId}

ClientRequest(c) ==
  \/ RequestOpen(c)
  \/ \E p \in Nameable :
       \/ \E role \in Role : RequestSpawn(c, p, role, FALSE)
       \/ \E role \in Overrides : RequestSpawn(c, p, role, TRUE)
       \/ \E proposed \in Name \cup {Placeholder} : RequestRename(c, p, proposed)
       \/ \E cancelled \in BOOLEAN : RequestFinish(c, p, cancelled)

Step(c) ==
  \/ ListIds(c)
  \/ ListGet(c)
  \/ \E p \in Project : CreateKey(c, p)
  \/ CreateIndex(c)
  \/ Require(c)
  \/ CensusProject(c)
  \/ CensusAll(c)
  \/ \E a \in Agent : LaunchAgent(c, a)
  \/ SaveKey(c)
  \/ SaveIndex(c)

Runtime(a) == AgentsMove(a) /\ UNCHANGED <<projects, index, calls, issued>>

Next ==
  \/ \E c \in Call : ClientRequest(c) \/ Step(c) \/ Raise(c)
  \/ \E a \in Agent : Runtime(a)

Spec == Init /\ [][Next]_vars
-------------------------------------------------------------------------------
(* list_active heals an id without a key and says only a key deleted by    *)
(* hand can cause one (redis_store.py): no operation, and no failure       *)
(* between the two commands of create or save, leaves such an id.          *)
IndexBacked == index \subseteq Known

(* A project is running only if some agent was launched for it: the save   *)
(* that starts it comes after the launch, and no stale save invents it.    *)
RunningWasStaffed ==
  \A p \in Project : projects[p].status = "running" =>
    \E a \in Launched : agents[a].project = p

(* A role the crew does not have (limit zero) never runs, override or not. *)
AbsentRoleNeverRuns ==
  \A a \in Launched : PerProjectLimit[agents[a].role] # 0

(* Counting and launching are not one step, so overlapping spawns can pass *)
(* the same count; but no more than the requests in flight can.  On a      *)
(* runtime that counts an agent from its launch, agents never outnumber    *)
(* the global ceiling, nor, for a role nobody overrides, the one of a      *)
(* project, by as many as there are concurrent calls (service.py, spawn).  *)
Slack == Cardinality(Call) - 1

OvershootBounded ==
  CountedAtLaunch =>
    \A role \in Role :
      /\ Cardinality(LiveOf(role)) <= GlobalLimit[role] + Slack
      /\ role \notin Overrides => \A p \in Project :
           Cardinality(LiveOn(role, p)) <= PerProjectLimit[role] + Slack

(* So do overlapping opens, and no more than the requests in flight can:   *)
(* the open projects the index knows of never outnumber the limit by as    *)
(* many as there are concurrent calls, although a list may be old when it  *)
(* is counted, a create() or a save() may be cut off half way, and a stale *)
(* save may reopen a project (service.py, open_project).                   *)
OpenBounded == Cardinality(Open \cap index) <= MaxConcurrentProjects + Slack

(* Once a project is closed, and no request is under way that read it when *)
(* it was open, it stays closed: spawn launches for a closed project too   *)
(* but starts only one it has seen being scoped, and a rename keeps the    *)
(* status (service.py, spawn; project.py, renamed).                        *)
Holds(c, p) ==
  calls[c].at \in {"censusProject", "censusAll", "launch", "saveKey"} /\ calls[c].project = p

Settled(p) ==
  /\ IsTerminal(projects[p])
  /\ \A c \in Call : Holds(c, p) => IsTerminal(calls[c].snap)

ClosedStaysClosed == [][\A p \in Project : Settled(p) => Settled(p)']_vars

Quiet == \A c \in Call : At(c, "returned")

(* Between requests, the active index is exactly the projects not in a     *)
(* terminal status (ports/store.py, list_active).                          *)
ActiveIsOpen == Quiet => index = Open
===============================================================================
