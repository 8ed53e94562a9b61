--------------------------- MODULE CrewServiceProofs ---------------------------
(***************************************************************************)
(* Safety of CrewService for any number of concurrent requests, projects,  *)
(* roles and agents, with any await failing and either runtime.            *)
(***************************************************************************)
EXTENDS CrewService, FiniteSetTheorems, TLAPS

(* An agent was launched for the project. *)
Staffed(p) == \E a \in Launched : agents[a].project = p

(* The awaits at which the request holds the id of an existing project. *)
Working == {"createIndex", "censusProject", "censusAll", "launch", "saveKey", "saveIndex"}

(* The awaits at which it also holds the project object it read or will    *)
(* write.                                                                  *)
Holding == {"censusProject", "censusAll", "launch", "saveKey"}

(* What a suspended request may rely on when it resumes: its project still *)
(* exists, the object it is about to write is one, a running one belongs   *)
(* to a staffed project, and the role it may launch exists.                *)
FrameOK(f) ==
  /\ f.at \in Working => f.project \in Known
  /\ f.at \in Holding => f.snap \in ProjectRecord
  /\ f.at \in Holding => (f.snap.status = "running" => Staffed(f.project))
  /\ f.at = "launch" => PerProjectLimit[f.role] # 0

FramesOK == \A c \in Call : FrameOK(calls[c])

(* The inductive invariant. *)
IInv ==
  /\ TypeOK
  /\ IndexBacked
  /\ RunningWasStaffed
  /\ AbsentRoleNeverRuns
  /\ FramesOK
-------------------------------------------------------------------------------
(* Replacing one frame by a well-typed one keeps calls well-typed. *)
LEMMA FrameUpdate ==
  ASSUME calls \in [Call -> Frame], NEW c \in Call, NEW f \in Frame
  PROVE  [calls EXCEPT ![c] = f] \in [Call -> Frame]
OBVIOUS

(* The frame a request returns with is a frame. *)
LEMMA ReturnedIsFrame ==
  ASSUME NEW kind \in {"open", "spawn", "rename", "finish"},
         NEW outcome \in Outcome, NEW p \in Project \cup {NoId}
  PROVE  Returned(kind, outcome, p) \in Frame
BY RoleAssumption DEF Returned, Frame, Outcome

(* Agents and requests are finitely many, so any of them can be counted. *)
LEMMA AgentsCount ==
  ASSUME NEW S \in SUBSET Agent
  PROVE  IsFiniteSet(S) /\ Cardinality(S) \in Nat
BY RuntimeAssumption, FS_Subset, FS_CardinalityType

LEMMA CallsCount ==
  ASSUME NEW S \in SUBSET Call
  PROVE  IsFiniteSet(S) /\ Cardinality(S) \in Nat /\ Cardinality(S) <= Cardinality(Call)
BY CallAssumption, FS_Subset, FS_CardinalityType

(* There is at least one request, so the bound of a role is not below its  *)
(* ceiling.                                                                *)
LEMMA SomeCall == Cardinality(Call) \in Nat \ {0}
BY CallAssumption, FS_CardinalityType, FS_EmptySet

(* The counts of a census are numbers. *)
LEMMA CensusCounts ==
  ASSUME NEW role, NEW p
  PROVE  /\ IsFiniteSet(LiveOf(role)) /\ Cardinality(LiveOf(role)) \in Nat
         /\ IsFiniteSet(LiveOn(role, p)) /\ Cardinality(LiveOn(role, p)) \in Nat
BY AgentsCount DEF LiveOf, LiveOn, Live

(* Adding one agent to a set of agents adds one to its number. *)
LEMMA OneMore ==
  ASSUME NEW S \in SUBSET Agent, NEW T \in SUBSET Agent, NEW a \in Agent,
         T \subseteq S \cup {a}
  PROVE  Cardinality(T) <= Cardinality(S) + 1
<1>1. IsFiniteSet(S) /\ IsFiniteSet(S \cup {a}) /\ S \cup {a} \in SUBSET Agent
  BY AgentsCount
<1>2. Cardinality(S \cup {a}) = IF a \in S THEN Cardinality(S) ELSE Cardinality(S) + 1
  BY <1>1, FS_AddElement
<1>3. Cardinality(T) <= Cardinality(S \cup {a})
  BY <1>1, FS_Subset
<1>4. Cardinality(S) \in Nat /\ Cardinality(T) \in Nat
  BY AgentsCount
<1>5. QED
  BY <1>2, <1>3, <1>4

(* Domain transitions turn project records into project records. *)
LEMMA TransitionsTyped ==
  ASSUME NEW project \in ProjectRecord
  PROVE  /\ Start(project) \in ProjectRecord
         /\ \A cancelled \in BOOLEAN : Finish(project, cancelled) \in ProjectRecord
         /\ \A proposed \in Name : Rename(project, proposed) \in ProjectRecord
BY DEF ProjectRecord, ProjectStatus, Start, Finish, Rename

(* No record is the mark of an absent key. *)
LEMMA RecordIsProject == NoProject \notin ProjectRecord /\ NewProject \in ProjectRecord
BY DEF NoProject, NewProject, ProjectRecord, ProjectStatus

(* A frame that only waits for its first await, or has returned, relies on *)
(* nothing.                                                                *)
LEMMA IdleFrameOK ==
  ASSUME NEW f, f.at \in {"returned", "listIds", "listGet", "createKey", "require"}
  PROVE  FrameOK(f)
BY DEF FrameOK, Working, Holding
-------------------------------------------------------------------------------
(* What every step of a request has in common: it replaces its own frame,  *)
(* and as keys and launches are never forgotten the other frames may go on *)
(* relying on what they relied on.                                         *)
LEMMA OthersUndisturbed ==
  ASSUME IInv, NEW c \in Call, NEW f \in Frame,
         calls' = [calls EXCEPT ![c] = f],
         Known \subseteq Known',
         \A p \in Project : Staffed(p) => Staffed(p)',
         FrameOK(f)'
  PROVE  calls' \in [Call -> Frame] /\ FramesOK'
<1>1. calls \in [Call -> Frame] /\ FramesOK
  BY DEF IInv, TypeOK
<1>2. calls' \in [Call -> Frame]
  BY <1>1, FrameUpdate
<1>3. ASSUME NEW d \in Call
      PROVE  FrameOK(calls[d])'
  <2>1. CASE d = c
    BY <2>1, <1>1
  <2>2. CASE d # c
    <3>1. calls'[d] = calls[d] /\ FrameOK(calls[d])
      BY <2>2, <1>1 DEF FramesOK
    <3>2. calls[d].at \in Holding => calls[d].at \in Working
      BY DEF Holding, Working
    <3>3. calls[d].at \in Working => calls[d].project \in Project
      BY <3>1 DEF FrameOK, Known
    <3>4. QED
      BY <3>1, <3>2, <3>3 DEF FrameOK
  <2>3. QED
    BY <2>1, <2>2
<1>4. QED
  BY <1>2, <1>3 DEF FramesOK

(* A step that touches only its frame, and at most shrinks the index.      *)
LEMMA FrameOnly ==
  ASSUME IInv, NEW c \in Call, NEW f \in Frame,
         calls' = [calls EXCEPT ![c] = f],
         UNCHANGED <<projects, agents>>, index' \subseteq index,
         issued' \in 0..MaxRequests,
         FrameOK(f)
  PROVE  IInv'
<1>1. Known' = Known /\ Launched' = Launched
  BY DEF Known, Launched
<1>2. \A p : Staffed(p)' = Staffed(p)
  BY <1>1 DEF Staffed
<1>3. FrameOK(f)'
  BY <1>1, <1>2 DEF FrameOK
<1>4. calls' \in [Call -> Frame] /\ FramesOK'
  BY <1>1, <1>2, <1>3, OthersUndisturbed
<1>5. TypeOK'
  BY <1>4 DEF IInv, TypeOK, StoreTypeOK, AgentsTypeOK
<1>6. IndexBacked'
  BY <1>1 DEF IInv, IndexBacked
<1>7. RunningWasStaffed' /\ AbsentRoleNeverRuns'
  BY <1>1 DEF IInv, RunningWasStaffed, AbsentRoleNeverRuns
<1>8. QED
  BY <1>4, <1>5, <1>6, <1>7 DEF IInv

(* Returning is such a step.                                               *)
LEMMA ReturnPreserves ==
  ASSUME IInv, NEW c \in Call, NEW outcome \in Outcome, Return(c, outcome),
         UNCHANGED <<projects, agents, issued>>, index' \subseteq index
  PROVE  IInv'
<1> DEFINE f == Returned(calls[c].kind, outcome, calls[c].project)
<1>1. calls[c] \in Frame
  BY DEF IInv, TypeOK
<1>2. f \in Frame
  BY <1>1, ReturnedIsFrame DEF Frame
<1>3. f.at = "returned"
  BY DEF Returned
<1>4. FrameOK(f)
  BY <1>3, IdleFrameOK
<1>5. calls' = [calls EXCEPT ![c] = f]
  BY DEF Return
<1>6. issued' \in 0..MaxRequests
  BY DEF IInv, TypeOK
<1>7. QED
  BY <1>2, <1>4, <1>5, <1>6, FrameOnly
-------------------------------------------------------------------------------
(* Each action preserves the invariant. *)
LEMMA RequestPreserves ==
  ASSUME IInv, NEW c \in Call, ClientRequest(c)
  PROVE  IInv'
<1>1. ASSUME NEW f \in Frame, f.at \in {"listIds", "require"}, Request(c, f)
      PROVE  IInv'
  <2>1. issued' \in 0..MaxRequests
    BY <1>1, ServiceAssumption DEF Request, IInv, TypeOK
  <2>2. FrameOK(f)
    BY <1>1, IdleFrameOK
  <2>3. QED
    BY <1>1, <2>1, <2>2, FrameOnly DEF Request
<1>2. CASE RequestOpen(c)
  <2> DEFINE f == [Returned("open", "pending", NoId) EXCEPT !.at = "listIds"]
  <2>1. f \in Frame /\ f.at = "listIds"
    BY RoleAssumption DEF Frame, Returned, Await, Outcome
  <2>2. QED
    BY <1>1, <1>2, <2>1 DEF RequestOpen
<1>3. ASSUME NEW p \in Nameable, NEW role \in Role, NEW override \in BOOLEAN,
             RequestSpawn(c, p, role, override)
      PROVE  IInv'
  <2> DEFINE f == [Fresh("spawn", p) EXCEPT !.role = role, !.override = override]
  <2>1. f \in Frame /\ f.at = "require"
    BY RoleAssumption, ServiceAssumption
    DEF Frame, Fresh, Returned, Await, Outcome, Nameable, Known
  <2>2. QED
    BY <1>1, <1>3, <2>1 DEF RequestSpawn
<1>4. ASSUME NEW p \in Nameable, NEW proposed \in Name \cup {Placeholder},
             RequestRename(c, p, proposed)
      PROVE  IInv'
  <2> DEFINE f == [Fresh("rename", p) EXCEPT !.name = proposed]
  <2>1. f \in Frame /\ f.at = "require"
    BY RoleAssumption DEF Frame, Fresh, Returned, Await, Outcome, Nameable, Known
  <2>2. QED
    BY <1>1, <1>4, <2>1 DEF RequestRename
<1>5. ASSUME NEW p \in Nameable, NEW cancelled \in BOOLEAN,
             RequestFinish(c, p, cancelled)
      PROVE  IInv'
  <2> DEFINE f == [Fresh("finish", p) EXCEPT !.cancelled = cancelled]
  <2>1. f \in Frame /\ f.at = "require"
    BY RoleAssumption DEF Frame, Fresh, Returned, Await, Outcome, Nameable, Known
  <2>2. QED
    BY <1>1, <1>5, <2>1 DEF RequestFinish
<1>6. QED
  BY <1>2, <1>3, <1>4, <1>5, ServiceAssumption DEF ClientRequest

LEMMA CheckOpenPreserves ==
  ASSUME IInv, NEW c \in Call, NEW active, CheckOpen(c, active),
         UNCHANGED <<projects, agents, issued>>, index' \subseteq index
  PROVE  IInv'
<1> DEFINE f == [calls[c] EXCEPT !.at = "createKey", !.ids = {}]
<1>1. CASE MayOpenProject(Cardinality(active))
  <2>1. f \in Frame /\ f.at = "createKey"
    BY DEF IInv, TypeOK, Frame, Await
  <2>2. calls' = [calls EXCEPT ![c] = f]
    BY <1>1 DEF CheckOpen, IInv, TypeOK, Frame
  <2>3. issued' \in 0..MaxRequests
    BY DEF IInv, TypeOK
  <2> HIDE DEF f
  <2>4. FrameOK(f)
    BY <2>1, IdleFrameOK
  <2>5. QED
    BY <2>1, <2>2, <2>3, <2>4, FrameOnly
<1>2. CASE ~MayOpenProject(Cardinality(active))
  BY <1>2, ReturnPreserves DEF CheckOpen, Outcome
<1>3. QED
  BY <1>1, <1>2

LEMMA ListIdsPreserves ==
  ASSUME IInv, NEW c \in Call, ListIds(c)
  PROVE  IInv'
<1> DEFINE f == [calls[c] EXCEPT !.at = "listGet", !.ids = index]
<1>1. CASE index = {}
  BY <1>1, CheckOpenPreserves DEF ListIds
<1>2. CASE index # {}
  <2>1. f \in Frame /\ f.at = "listGet"
    BY DEF IInv, TypeOK, StoreTypeOK, Frame, Await
  <2>2. calls' = [calls EXCEPT ![c] = f]
    BY <1>2 DEF ListIds, IInv, TypeOK, Frame
  <2>3. issued' \in 0..MaxRequests
    BY DEF IInv, TypeOK, ListIds
  <2> HIDE DEF f
  <2>4. FrameOK(f)
    BY <2>1, IdleFrameOK
  <2>5. QED
    BY <2>1, <2>2, <2>3, <2>4, FrameOnly DEF ListIds
<1>3. QED
  BY <1>1, <1>2

LEMMA ListGetPreserves ==
  ASSUME IInv, NEW c \in Call, ListGet(c)
  PROVE  IInv'
BY CheckOpenPreserves DEF ListGet, Heal

(* What is read from a key that exists may be relied upon. *)
LEMMA ReadProject ==
  ASSUME IInv, NEW p \in Known
  PROVE  /\ p \in Project
         /\ projects[p] \in ProjectRecord
         /\ projects[p].status = "running" => Staffed(p)
BY DEF IInv, TypeOK, StoreTypeOK, Known, RunningWasStaffed, Staffed

LEMMA RequirePreserves ==
  ASSUME IInv, NEW c \in Call, Require(c)
  PROVE  IInv'
<1> DEFINE f == calls[c]
           project == projects[f.project]
<1>1. f \in Frame /\ issued' \in 0..MaxRequests /\ index' \subseteq index
  BY DEF IInv, TypeOK, Require
<1>2. CASE f.project \notin Known
  BY <1>2, ReturnPreserves DEF Require, Outcome
<1>3. CASE f.project \in Known /\ f.kind \in {"open", "spawn"}
  <2> DEFINE g == [f EXCEPT !.at = "censusProject", !.snap = project]
  <2>1. project \in ProjectRecord /\ (project.status = "running" => Staffed(f.project))
    BY <1>3, ReadProject
  <2>2. /\ g \in Frame /\ g.at = "censusProject"
        /\ g.project = f.project /\ g.snap = project
    BY <1>1, <2>1 DEF Frame, Await
  <2>3. calls' = [calls EXCEPT ![c] = g]
    BY <1>1, <1>3 DEF Require, Frame, IInv, TypeOK
  <2> HIDE DEF g
  <2>4. FrameOK(g)
    BY <1>3, <2>1, <2>2 DEF FrameOK
  <2>5. QED
    BY <1>1, <2>2, <2>3, <2>4, FrameOnly DEF Require
<1>4. ASSUME NEW record \in ProjectRecord, f.project \in Known,
             record.status = "running" => Staffed(f.project),
             calls' = [calls EXCEPT ![c] = Save(f, record)]
      PROVE  IInv'
  <2> DEFINE g == Save(f, record)
  <2>1. /\ g \in Frame /\ g.at = "saveKey"
        /\ g.project = f.project /\ g.snap = record
    BY <1>1, <1>4 DEF Frame, Await, Save
  <2> HIDE DEF g
  <2>2. FrameOK(g)
    BY <1>4, <2>1 DEF FrameOK
  <2>3. calls' = [calls EXCEPT ![c] = g]
    BY <1>4 DEF g
  <2>4. QED
    BY <1>1, <2>1, <2>2, <2>3, FrameOnly DEF Require
<1>5. CASE f.project \in Known /\ f.kind = "rename"
  <2>1. CASE NameAccepted(f.name)
    <3>1. project \in ProjectRecord /\ (project.status = "running" => Staffed(f.project))
      BY <1>5, ReadProject
    <3>2. Rename(project, f.name) \in ProjectRecord
      BY <2>1, <3>1, TransitionsTyped DEF NameAccepted
    <3>3. Rename(project, f.name).status = project.status
      BY <3>1 DEF Rename, ProjectRecord
    <3>4. QED
      BY <1>4, <1>5, <2>1, <3>1, <3>2, <3>3 DEF Require
  <2>2. CASE ~NameAccepted(f.name)
    BY <1>1, <1>5, <2>2, ReturnPreserves DEF Require, Outcome
  <2>3. QED
    BY <2>1, <2>2
<1>6. CASE f.project \in Known /\ f.kind = "finish"
  <2>1. project \in ProjectRecord /\ f.cancelled \in BOOLEAN
    BY <1>1, <1>6, ReadProject DEF Frame
  <2>2. Finish(project, f.cancelled) \in ProjectRecord
    BY <2>1, TransitionsTyped
  <2>3. Finish(project, f.cancelled).status # "running"
    BY <2>1 DEF Finish, ProjectRecord
  <2>4. QED
    BY <1>4, <1>6, <2>2, <2>3 DEF Require
<1>7. QED
  BY <1>2, <1>3, <1>5, <1>6 DEF Require

LEMMA CensusProjectPreserves ==
  ASSUME IInv, NEW c \in Call, CensusProject(c)
  PROVE  IInv'
<1> DEFINE f == calls[c]
           g == [f EXCEPT !.at = "censusAll",
                   !.inProject = Cardinality(LiveOn(f.role, f.project))]
<1>1. f \in Frame /\ FrameOK(f) /\ f.at = "censusProject"
  BY DEF IInv, TypeOK, FramesOK, CensusProject, At
<1>2. Cardinality(LiveOn(f.role, f.project)) \in Nat
  BY CensusCounts
<1>3. g \in Frame /\ g.at = "censusAll" /\ g.project = f.project /\ g.snap = f.snap
  BY <1>1, <1>2 DEF Frame, Await
<1>4. calls' = [calls EXCEPT ![c] = g]
  BY <1>1 DEF CensusProject, Frame, IInv, TypeOK
<1> HIDE DEF g
<1>5. FrameOK(g)
  BY <1>1, <1>3 DEF FrameOK, Working, Holding
<1>6. issued' \in 0..MaxRequests /\ index' \subseteq index
  BY DEF CensusProject, IInv, TypeOK
<1>7. QED
  BY <1>3, <1>4, <1>5, <1>6, FrameOnly DEF CensusProject

LEMMA CensusAllPreserves ==
  ASSUME IInv, NEW c \in Call, CensusAll(c)
  PROVE  IInv'
<1> DEFINE f == calls[c]
           g == [f EXCEPT !.at = "launch", !.inProject = 0]
           verdict == CheckSpawn(f.role, f.inProject, Cardinality(LiveOf(f.role)), f.override)
<1>1. f \in Frame /\ FrameOK(f) /\ f.at = "censusAll"
  BY DEF IInv, TypeOK, FramesOK, CensusAll, At
<1>2. CASE verdict = "none"
  <2>1. PerProjectLimit[f.role] # 0
    BY <1>2 DEF CheckSpawn
  <2>2. /\ g \in Frame /\ g.at = "launch" /\ g.project = f.project
        /\ g.snap = f.snap /\ g.role = f.role
    BY <1>1 DEF Frame, Await
  <2>3. calls' = [calls EXCEPT ![c] = g]
    BY <1>1, <1>2 DEF CensusAll, Frame, IInv, TypeOK
  <2> HIDE DEF g
  <2>4. FrameOK(g)
    BY <1>1, <2>1, <2>2 DEF FrameOK, Working, Holding
  <2>5. issued' \in 0..MaxRequests /\ index' \subseteq index
    BY DEF CensusAll, IInv, TypeOK
  <2>6. QED
    BY <2>2, <2>3, <2>4, <2>5, FrameOnly DEF CensusAll
<1>3. CASE verdict # "none"
  BY <1>3, ReturnPreserves DEF CensusAll, Outcome
<1>4. QED
  BY <1>2, <1>3
-------------------------------------------------------------------------------
(* The steps that change the store or the agents. *)

(* Writing a project record over a key, with the frame that did it moving  *)
(* on.                                                                     *)
LEMMA KeyWrite ==
  ASSUME IInv, NEW c \in Call, NEW f \in Frame, NEW p \in Project,
         NEW record \in ProjectRecord,
         record.status = "running" => Staffed(p),
         SetKey(p, record),
         calls' = [calls EXCEPT ![c] = f],
         UNCHANGED <<agents, issued>>,
         FrameOK(f)'
  PROVE  IInv'
<1>1. projects' = [projects EXCEPT ![p] = record] /\ index' = index
  BY DEF SetKey
<1>2. projects \in [Project -> ProjectRecord \cup {NoProject}]
  BY DEF IInv, TypeOK, StoreTypeOK
<1>3. Known' = Known \cup {p}
  BY <1>1, <1>2, RecordIsProject DEF Known
<1>4. \A q : Staffed(q)' = Staffed(q)
  BY DEF Staffed, Launched
<1>5. calls' \in [Call -> Frame] /\ FramesOK'
  BY <1>3, <1>4, OthersUndisturbed
<1>6. TypeOK'
  BY <1>1, <1>2, <1>5 DEF IInv, TypeOK, StoreTypeOK, AgentsTypeOK
<1>7. IndexBacked'
  BY <1>1, <1>3 DEF IInv, IndexBacked
<1>8. RunningWasStaffed'
  BY <1>1, <1>2 DEF IInv, RunningWasStaffed, Staffed, Launched
<1>9. AbsentRoleNeverRuns'
  BY DEF IInv, AbsentRoleNeverRuns, Launched
<1>10. QED
  BY <1>5, <1>6, <1>7, <1>8, <1>9 DEF IInv

LEMMA CreateKeyPreserves ==
  ASSUME IInv, NEW c \in Call, NEW p \in Project, CreateKey(c, p)
  PROVE  IInv'
<1>0. PICK f : f = [calls[c] EXCEPT !.at = "createIndex", !.project = p]
  OBVIOUS
<1>1. calls[c] \in Frame
  BY DEF IInv, TypeOK
<1>2. CASE p \in Known
  <2>1. Return(c, "raised") /\ UNCHANGED <<projects, agents, issued>> /\ index' \subseteq index
    BY <1>2 DEF CreateKey, store
  <2>2. QED
    BY <2>1, ReturnPreserves DEF Outcome
<1>3. CASE p \notin Known
  <2>1. f \in Frame /\ f.at = "createIndex" /\ f.project = p
    BY <1>0, <1>1 DEF Frame, Await
  <2>2. calls' = [calls EXCEPT ![c] = f]
    BY <1>0, <1>1, <1>3 DEF CreateKey, Frame, IInv, TypeOK
  <2>3. SetKey(p, NewProject) /\ UNCHANGED <<agents, issued>>
    BY <1>3 DEF CreateKey
  <2>4. p \in Known'
    BY <2>3, RecordIsProject DEF SetKey, Known, IInv, TypeOK, StoreTypeOK
  <2>5. FrameOK(f)'
    BY <2>1, <2>4 DEF FrameOK, Holding
  <2>6. NewProject.status # "running"
    BY DEF NewProject
  <2>7. QED
    BY <2>1, <2>2, <2>3, <2>5, <2>6, RecordIsProject, KeyWrite
<1>4. QED
  BY <1>2, <1>3

LEMMA CreateIndexPreserves ==
  ASSUME IInv, NEW c \in Call, CreateIndex(c)
  PROVE  IInv'
<1>0. PICK f : f = [calls[c] EXCEPT !.at = "require"]
  OBVIOUS
<1>1. calls[c] \in Frame /\ calls[c].project \in Known
  BY DEF IInv, TypeOK, FramesOK, FrameOK, CreateIndex, At, Working
<1>2. f \in Frame /\ f.at = "require"
  BY <1>0, <1>1 DEF Frame, Await
<1>3. calls' = [calls EXCEPT ![c] = f]
  BY <1>0, <1>1 DEF CreateIndex, Goto, Frame, IInv, TypeOK
<1>4. UNCHANGED <<projects, agents, issued>> /\ index' = index \cup {calls[c].project}
  BY DEF CreateIndex, ZAdd
<1>5. Known' = Known /\ Launched' = Launched /\ (\A p : Staffed(p)' = Staffed(p))
  BY <1>4 DEF Known, Launched, Staffed
<1>6. FrameOK(f)'
  BY <1>2 DEF FrameOK, Working, Holding
<1>7. calls' \in [Call -> Frame] /\ FramesOK'
  BY <1>2, <1>3, <1>5, <1>6, OthersUndisturbed
<1>8. TypeOK'
  BY <1>1, <1>4, <1>7 DEF IInv, TypeOK, StoreTypeOK, AgentsTypeOK, Known
<1>9. IndexBacked' /\ RunningWasStaffed' /\ AbsentRoleNeverRuns'
  BY <1>1, <1>4, <1>5 DEF IInv, IndexBacked, RunningWasStaffed, AbsentRoleNeverRuns
<1>10. QED
  BY <1>7, <1>8, <1>9 DEF IInv

LEMMA SaveKeyPreserves ==
  ASSUME IInv, NEW c \in Call, SaveKey(c)
  PROVE  IInv'
<1> DEFINE f == calls[c]
<1>g. PICK g : g = [f EXCEPT !.at = "saveIndex"]
  OBVIOUS
<1>h. PICK h : h = Returned(f.kind, "ok", f.project)
  OBVIOUS
<1>1. /\ f \in Frame /\ f.project \in Known /\ f.snap \in ProjectRecord
      /\ f.snap.status = "running" => Staffed(f.project)
  BY DEF IInv, TypeOK, FramesOK, FrameOK, SaveKey, At, Working, Holding
<1>2. SetKey(f.project, f.snap) /\ UNCHANGED <<agents, issued>> /\ f.project \in Project
  BY <1>1 DEF SaveKey, Known
<1>3. f.project \in Known'
  BY <1>1, <1>2, RecordIsProject DEF SetKey, Known, IInv, TypeOK, StoreTypeOK
<1>4. CASE IsTerminal(f.snap)
  <2>1. g \in Frame /\ g.at = "saveIndex" /\ g.project = f.project
    BY <1>g, <1>1 DEF Frame, Await
  <2>2. calls' = [calls EXCEPT ![c] = g]
    BY <1>g, <1>1, <1>4 DEF SaveKey, Goto, Frame, IInv, TypeOK
  <2>3. FrameOK(g)'
    BY <1>3, <2>1 DEF FrameOK, Holding
  <2>4. QED
    BY <1>1, <1>2, <2>1, <2>2, <2>3, KeyWrite
<1>5. CASE ~IsTerminal(f.snap)
  <2>1. h \in Frame
    BY <1>h, <1>1, ReturnedIsFrame DEF Frame, Outcome
  <2>2. h.at = "returned"
    BY <1>h DEF Returned
  <2>3. calls' = [calls EXCEPT ![c] = h]
    BY <1>h, <1>1, <1>5 DEF SaveKey, Return
  <2>4. FrameOK(h)'
    BY <2>2 DEF FrameOK, Working, Holding
  <2>5. QED
    BY <1>1, <1>2, <2>1, <2>3, <2>4, KeyWrite
<1>6. QED
  BY <1>4, <1>5

LEMMA SaveIndexPreserves ==
  ASSUME IInv, NEW c \in Call, SaveIndex(c)
  PROVE  IInv'
BY ReturnPreserves DEF SaveIndex, ZRem, Outcome

LEMMA RaisePreserves ==
  ASSUME IInv, NEW c \in Call, Raise(c)
  PROVE  IInv'
BY ReturnPreserves DEF Raise, Outcome

LEMMA LaunchAgentPreserves ==
  ASSUME IInv, NEW c \in Call, NEW a \in Agent, LaunchAgent(c, a)
  PROVE  IInv'
<1> DEFINE f == calls[c]
<1>1. /\ f \in Frame /\ f.project \in Known /\ f.snap \in ProjectRecord
      /\ PerProjectLimit[f.role] # 0
  BY DEF IInv, TypeOK, FramesOK, FrameOK, LaunchAgent, At, Working, Holding
<1>2. agents \in [Agent -> AgentRecord \cup {Unused}] /\ f.role \in Role /\ f.project \in Project
  BY <1>1 DEF IInv, TypeOK, AgentsTypeOK, Frame, Known
<1>p. PICK p : p = f.project
  OBVIOUS
<1>r. PICK record : record = [phase   |-> IF CountedAtLaunch THEN "live" ELSE "idle",
                             role    |-> f.role,
                             project |-> f.project]
  OBVIOUS
<1>3. /\ agents' = [agents EXCEPT ![a] = record]
      /\ record \in AgentRecord
      /\ record.role = f.role /\ record.project = p
      /\ agents[a].phase = "unused"
  BY <1>p, <1>r, <1>2 DEF LaunchAgent, Launch, AgentRecord, Phase
<1>4. UNCHANGED <<projects, index, issued>> /\ Known' = Known
  BY DEF LaunchAgent, Known
<1>5. /\ agents' \in [Agent -> AgentRecord \cup {Unused}]
      /\ Launched' = Launched \cup {a}
      /\ \A b \in Launched : agents'[b] = agents[b]
      /\ agents'[a].role = record.role /\ agents'[a].project = p
  BY <1>2, <1>3 DEF AgentRecord, Launched
<1>6. (\A q : Staffed(q) => Staffed(q)') /\ Staffed(p)'
  BY <1>3, <1>5 DEF Staffed
<1>7. PICK g : g = IF f.snap.status = "scoping" THEN Save(f, Start(f.snap))
                   ELSE Returned(f.kind, "ok", f.project)
  OBVIOUS
<1>8. calls' = [calls EXCEPT ![c] = g]
  BY <1>7 DEF LaunchAgent, Return
<1>9. g \in Frame /\ FrameOK(g)'
  <2>1. CASE f.snap.status = "scoping"
    <3>1. Start(f.snap) \in ProjectRecord
      BY <1>1, TransitionsTyped
    <3>2. /\ g \in Frame /\ g.at = "saveKey"
          /\ g.project = p /\ g.snap \in ProjectRecord
      BY <1>1, <1>p, <1>7, <2>1, <3>1 DEF Save, Frame, Await
    <3>3. Staffed(g.project)' /\ g.project \in Known'
      BY <1>1, <1>p, <1>4, <1>6, <3>2
    <3>4. QED
      BY <3>2, <3>3 DEF FrameOK
  <2>2. CASE f.snap.status # "scoping"
    <3>1. g \in Frame /\ g.at = "returned"
      BY <1>1, <1>7, <2>2, ReturnedIsFrame DEF Frame, Outcome, Returned
    <3>2. QED
      BY <3>1 DEF FrameOK, Working, Holding
  <2>3. QED
    BY <2>1, <2>2
<1>10. calls' \in [Call -> Frame] /\ FramesOK'
  BY <1>4, <1>6, <1>8, <1>9, OthersUndisturbed
<1>11. TypeOK'
  BY <1>4, <1>5, <1>10 DEF IInv, TypeOK, StoreTypeOK, AgentsTypeOK
<1>12. IndexBacked'
  BY <1>4 DEF IInv, IndexBacked
<1>13. RunningWasStaffed'
  BY <1>4, <1>5 DEF IInv, RunningWasStaffed
<1>14. AbsentRoleNeverRuns'
  BY <1>1, <1>3, <1>5 DEF IInv, AbsentRoleNeverRuns
<1>15. QED
  BY <1>10, <1>11, <1>12, <1>13, <1>14 DEF IInv

(* The cluster only ever changes the phase of a launched agent.            *)
LEMMA RuntimePreserves ==
  ASSUME IInv, NEW a \in Agent, Runtime(a)
  PROVE  IInv'
<1>1. agents \in [Agent -> AgentRecord \cup {Unused}]
  BY DEF IInv, TypeOK, AgentsTypeOK
<1>2. PICK phase \in Phase \ {"unused"} :
        agents' = [agents EXCEPT ![a].phase = phase] /\ agents[a].phase # "unused"
  BY DEF Runtime, AgentsMove, BecomeLive, LoseLive, End, SetPhase, Phase
<1>3. /\ agents' \in [Agent -> AgentRecord \cup {Unused}]
      /\ Launched' = Launched
      /\ \A b \in Agent : /\ agents'[b].role = agents[b].role
                          /\ agents'[b].project = agents[b].project
  BY <1>1, <1>2 DEF AgentRecord, Unused, Launched
<1>4. UNCHANGED <<projects, index, calls, issued>> /\ Known' = Known
  BY DEF Runtime, Known
<1>5. \A p : Staffed(p)' = Staffed(p)
  BY <1>3 DEF Staffed, Launched
<1>6. TypeOK'
  BY <1>3, <1>4 DEF IInv, TypeOK, StoreTypeOK, AgentsTypeOK
<1>7. FramesOK'
  BY <1>4, <1>5 DEF IInv, FramesOK, FrameOK
<1>8. IndexBacked' /\ AbsentRoleNeverRuns'
  BY <1>3, <1>4 DEF IInv, IndexBacked, AbsentRoleNeverRuns, Launched
<1>9. RunningWasStaffed'
  BY <1>4, <1>5 DEF IInv, RunningWasStaffed, Staffed
<1>10. QED
  BY <1>6, <1>7, <1>8, <1>9 DEF IInv
-------------------------------------------------------------------------------
LEMMA InitEstablishes == Init => IInv
<1> SUFFICES ASSUME Init
             PROVE  IInv
  OBVIOUS
<1>1. Returned("open", "pending", NoId) \in Frame /\ Returned("open", "pending", NoId).at = "returned"
  BY ReturnedIsFrame DEF Outcome, Returned
<1>2. TypeOK
  BY <1>1, ServiceAssumption
  DEF Init, StoreInit, AgentsInit, TypeOK, StoreTypeOK, AgentsTypeOK
<1>3. FramesOK
  BY <1>1, IdleFrameOK DEF Init, FramesOK
<1>4. IndexBacked /\ RunningWasStaffed /\ AbsentRoleNeverRuns
  BY DEF Init, StoreInit, AgentsInit, IndexBacked, RunningWasStaffed,
         AbsentRoleNeverRuns, Launched, Unused, NoProject
<1>5. QED
  BY <1>2, <1>3, <1>4 DEF IInv

LEMMA StepPreserves ==
  ASSUME IInv, NEW c \in Call, Step(c)
  PROVE  IInv'
<1>1. CASE ListIds(c)
  BY <1>1, ListIdsPreserves
<1>2. CASE ListGet(c)
  BY <1>2, ListGetPreserves
<1>3. CASE \E p \in Project : CreateKey(c, p)
  BY <1>3, CreateKeyPreserves
<1>4. CASE CreateIndex(c)
  BY <1>4, CreateIndexPreserves
<1>5. CASE Require(c)
  BY <1>5, RequirePreserves
<1>6. CASE CensusProject(c)
  BY <1>6, CensusProjectPreserves
<1>7. CASE CensusAll(c)
  BY <1>7, CensusAllPreserves
<1>8. CASE \E a \in Agent : LaunchAgent(c, a)
  BY <1>8, LaunchAgentPreserves
<1>9. CASE SaveKey(c)
  BY <1>9, SaveKeyPreserves
<1>10. CASE SaveIndex(c)
  BY <1>10, SaveIndexPreserves
<1>11. QED
  BY <1>1, <1>2, <1>3, <1>4, <1>5, <1>6, <1>7, <1>8, <1>9, <1>10 DEF Step

LEMMA StutterPreserves ==
  ASSUME IInv, UNCHANGED vars
  PROVE  IInv'
BY DEF IInv, vars, TypeOK, StoreTypeOK, AgentsTypeOK, IndexBacked, RunningWasStaffed,
       AbsentRoleNeverRuns, FramesOK, FrameOK, Staffed, Known, Launched

(* The invariant holds in every state of every behaviour, overlapping      *)
(* requests, failing awaits and moving agents included.                    *)
THEOREM Invariance == Spec => []IInv
<1>1. IInv /\ [Next]_vars => IInv'
  BY RequestPreserves, StepPreserves, RaisePreserves, RuntimePreserves, StutterPreserves
  DEF Next
<1>2. QED
  BY InitEstablishes, <1>1, PTL DEF Spec

(* Every variable of the service keeps to its type. *)
THEOREM TypeCorrect == Spec => []TypeOK
<1>1. IInv => TypeOK
  BY DEF IInv
<1>2. QED
  BY Invariance, <1>1, PTL

(* No id without a key is ever in the active index, so the healing branch  *)
(* of list_active() is dead unless a key is deleted from outside.          *)
THEOREM IndexAlwaysBacked == Spec => []IndexBacked
<1>1. IInv => IndexBacked
  BY DEF IInv
<1>2. QED
  BY Invariance, <1>1, PTL

(* No interleaving and no failure makes a project running that nobody was  *)
(* ever launched for.                                                      *)
THEOREM RunningAlwaysStaffed == Spec => []RunningWasStaffed
<1>1. IInv => RunningWasStaffed
  BY DEF IInv
<1>2. QED
  BY Invariance, <1>1, PTL

(* A role with a per-project limit of zero is never launched. *)
THEOREM AbsentRoleStaysAbsent == Spec => []AbsentRoleNeverRuns
<1>1. IInv => AbsentRoleNeverRuns
  BY DEF IInv
<1>2. QED
  BY Invariance, <1>1, PTL
-------------------------------------------------------------------------------
(* Overlapping spawns.  An agent comes to life only at the launch of a     *)
(* request, so the requests whose count has passed a ceiling and that have *)
(* not launched yet are counted with the agents alive.                     *)
LaunchingOf(role) == {c \in Call : At(c, "launch") /\ calls[c].role = role}

(* The per-project count is taken one await earlier than the other one.    *)
WaitingOn(role, p) ==
  {c \in Call : /\ calls[c].role = role /\ calls[c].project = p
                /\ \/ At(c, "launch")
                   \/ At(c, "censusAll") /\ calls[c].inProject < PerProjectLimit[role]}

(* An agent accepted by the fake runtime is live from then on. *)
NoneIdle == \A a \in Agent : agents[a].phase # "idle"

(* Only clients ask for an override, and for no other role. *)
MayOverride(f) == f.override => f.role \in Overrides

OverridesOK == \A c \in Call : MayOverride(calls[c])

Within(live, waiting, limit) == Cardinality(live) + Cardinality(waiting) <= limit + Slack

CapsOK ==
  \A role \in Role :
    /\ Within(LiveOf(role), LaunchingOf(role), GlobalLimit[role])
    /\ role \notin Overrides => \A p \in Project :
         Within(LiveOn(role, p), WaitingOn(role, p), PerProjectLimit[role])

OvershootInv == OverridesOK /\ (CountedAtLaunch => NoneIdle /\ CapsOK)
-------------------------------------------------------------------------------
(* Three ways to stay within a limit: nothing grows, the count was below   *)
(* it, or one that waited has become one that lives.                       *)
LEMMA FewerKeepWithin ==
  \A live, live2 \in SUBSET Agent, waiting, waiting2 \in SUBSET Call, limit \in Nat :
    live2 \subseteq live /\ waiting2 \subseteq waiting /\ Within(live, waiting, limit)
      => Within(live2, waiting2, limit)
<1> SUFFICES ASSUME NEW live \in SUBSET Agent, NEW live2 \in SUBSET Agent,
                    NEW waiting \in SUBSET Call, NEW waiting2 \in SUBSET Call, NEW limit \in Nat,
                    live2 \subseteq live, waiting2 \subseteq waiting, Within(live, waiting, limit)
             PROVE  Within(live2, waiting2, limit)
  OBVIOUS
<1>1. /\ Cardinality(live2) <= Cardinality(live)
      /\ Cardinality(live2) \in Nat /\ Cardinality(live) \in Nat
  BY AgentsCount, FS_Subset
<1>2. /\ Cardinality(waiting2) <= Cardinality(waiting)
      /\ Cardinality(waiting2) \in Nat /\ Cardinality(waiting) \in Nat
  BY CallsCount, FS_Subset
<1>3. QED
  BY <1>1, <1>2, SomeCall DEF Within, Slack

LEMMA BelowIsWithin ==
  \A live \in SUBSET Agent, waiting \in SUBSET Call, limit \in Nat :
    Cardinality(live) < limit => Within(live, waiting, limit)
<1> SUFFICES ASSUME NEW live \in SUBSET Agent, NEW waiting \in SUBSET Call, NEW limit \in Nat,
                    Cardinality(live) < limit
             PROVE  Within(live, waiting, limit)
  OBVIOUS
<1>1. Cardinality(live) \in Nat
  BY AgentsCount
<1>2. Cardinality(waiting) \in Nat /\ Cardinality(waiting) <= Cardinality(Call)
  BY CallsCount
<1>3. QED
  BY <1>1, <1>2, SomeCall DEF Within, Slack

LEMMA LaunchedKeepsWithin ==
  \A live, live2 \in SUBSET Agent, waiting \in SUBSET Call, limit \in Nat :
    \A a \in Agent, c \in waiting :
      live2 \subseteq live \cup {a} /\ Within(live, waiting, limit)
        => Within(live2, waiting \ {c}, limit)
<1> SUFFICES ASSUME NEW live \in SUBSET Agent, NEW live2 \in SUBSET Agent,
                    NEW waiting \in SUBSET Call, NEW limit \in Nat,
                    NEW a \in Agent, NEW c \in waiting,
                    live2 \subseteq live \cup {a}, Within(live, waiting, limit)
             PROVE  Within(live2, waiting \ {c}, limit)
  OBVIOUS
<1>1. /\ Cardinality(live2) <= Cardinality(live) + 1
      /\ Cardinality(live2) \in Nat /\ Cardinality(live) \in Nat
  BY AgentsCount, OneMore
<1>2. IsFiniteSet(waiting) /\ Cardinality(waiting) \in Nat
  BY CallsCount
<1>3. Cardinality(waiting \ {c}) = Cardinality(waiting) - 1
  BY <1>2, FS_RemoveElement
<1>4. QED
  BY <1>1, <1>2, <1>3, SomeCall DEF Within, Slack

(* The sets that are counted. *)
LEMMA SetsTyped ==
  ASSUME NEW role \in Role
  PROVE  /\ LiveOf(role) \in SUBSET Agent /\ LiveOf(role)' \in SUBSET Agent
         /\ LaunchingOf(role) \in SUBSET Call /\ LaunchingOf(role)' \in SUBSET Call
         /\ GlobalLimit[role] \in Nat /\ PerProjectLimit[role] \in Nat
         /\ \A p \in Project :
              /\ LiveOn(role, p) \in SUBSET Agent /\ LiveOn(role, p)' \in SUBSET Agent
              /\ WaitingOn(role, p) \in SUBSET Call /\ WaitingOn(role, p)' \in SUBSET Call
BY LimitAssumption DEF LiveOf, LiveOn, Live, LaunchingOf, WaitingOn

(* Where no set grows the ceilings keep. *)
LEMMA FewerKeepCaps ==
  ASSUME CapsOK,
         \A role \in Role :
           /\ LiveOf(role)' \subseteq LiveOf(role) /\ LaunchingOf(role)' \subseteq LaunchingOf(role)
           /\ \A p \in Project : /\ LiveOn(role, p)' \subseteq LiveOn(role, p)
                                 /\ WaitingOn(role, p)' \subseteq WaitingOn(role, p)
  PROVE  CapsOK'
<1>1. ASSUME NEW role \in Role
      PROVE  Within(LiveOf(role), LaunchingOf(role), GlobalLimit[role])'
  <2>1. Within(LiveOf(role)', LaunchingOf(role)', GlobalLimit[role])
    BY SetsTyped, FewerKeepWithin DEF CapsOK
  <2>2. QED
    BY <2>1 DEF Within, Slack
<1>2. ASSUME NEW role \in Role, role \notin Overrides, NEW p \in Project
      PROVE  Within(LiveOn(role, p), WaitingOn(role, p), PerProjectLimit[role])'
  <2>1. Within(LiveOn(role, p)', WaitingOn(role, p)', PerProjectLimit[role])
    BY <1>2, SetsTyped, FewerKeepWithin DEF CapsOK
  <2>2. QED
    BY <2>1 DEF Within, Slack
<1>3. QED
  BY <1>1, <1>2 DEF CapsOK
-------------------------------------------------------------------------------
(* A step of a request replaces no frame but its own, takes that one to    *)
(* the second count and to the launch only by passing the first and the    *)
(* ceilings, and does not make an override of it.                          *)
LEMMA OwnFrameOnly ==
  ASSUME IInv, NEW c \in Call, ClientRequest(c) \/ Step(c) \/ Raise(c)
  PROVE  /\ \A d \in Call \ {c} : calls'[d] = calls[d]
         /\ ~CensusAll(c) => calls'[c].at # "launch"
         /\ ~CensusProject(c) => calls'[c].at # "censusAll"
         /\ MayOverride(calls[c]) => MayOverride(calls'[c])
<1> DEFINE Own == /\ \A d \in Call \ {c} : calls'[d] = calls[d]
                  /\ MayOverride(calls[c]) => MayOverride(calls'[c])
           Calm == Own /\ calls'[c].at \notin {"launch", "censusAll"}
<1>0. calls \in [Call -> Frame] /\ calls[c] \in Frame
  BY DEF IInv, TypeOK
<1>1. ASSUME NEW f, calls' = [calls EXCEPT ![c] = f], f.at \notin {"launch", "censusAll"},
             MayOverride(calls[c]) => MayOverride(f)
      PROVE  Calm
  BY <1>0, <1>1
<1>2. ASSUME NEW outcome, Return(c, outcome)
      PROVE  Calm
  <2>1. PICK f : f = Returned(calls[c].kind, outcome, calls[c].project)
    OBVIOUS
  <2>2. /\ f.at = "returned" /\ f.override = FALSE
        /\ calls' = [calls EXCEPT ![c] = f]
    BY <1>2, <2>1 DEF Return, Returned
  <2>3. QED
    BY <1>1, <2>2 DEF MayOverride
<1>3. ASSUME NEW record, calls' = [calls EXCEPT ![c] = Save(calls[c], record)]
      PROVE  Calm
  <2>1. PICK f : f = Save(calls[c], record)
    OBVIOUS
  <2>2. f.at = "saveKey" /\ f.override = calls[c].override /\ f.role = calls[c].role
    BY <1>0, <2>1 DEF Save, Frame
  <2>3. QED
    BY <1>1, <1>3, <2>1, <2>2 DEF MayOverride
<1>4. CASE ClientRequest(c)
  <2>1. ASSUME NEW f, f.at \notin {"launch", "censusAll"}, MayOverride(f), Request(c, f)
        PROVE  Calm
    BY <1>1, <2>1 DEF Request
  <2>2. CASE RequestOpen(c)
    <3>1. PICK f : f = [Returned("open", "pending", NoId) EXCEPT !.at = "listIds"]
      OBVIOUS
    <3>2. f.at = "listIds" /\ f.override = FALSE
      BY <3>1 DEF Returned
    <3>3. QED
      BY <2>1, <2>2, <3>1, <3>2 DEF RequestOpen, MayOverride
  <2>3. ASSUME NEW p, NEW role, NEW override \in BOOLEAN, RequestSpawn(c, p, role, override),
               override => role \in Overrides
        PROVE  Calm
    <3>1. PICK f : f = [Fresh("spawn", p) EXCEPT !.role = role, !.override = override]
      OBVIOUS
    <3>2. f.at = "require" /\ f.override = override /\ f.role = role
      BY <3>1 DEF Fresh, Returned
    <3>3. QED
      BY <2>1, <2>3, <3>1, <3>2 DEF RequestSpawn, MayOverride
  <2>4. ASSUME NEW p, NEW proposed, RequestRename(c, p, proposed)
        PROVE  Calm
    <3>1. PICK f : f = [Fresh("rename", p) EXCEPT !.name = proposed]
      OBVIOUS
    <3>2. f.at = "require" /\ f.override = FALSE
      BY <3>1 DEF Fresh, Returned
    <3>3. QED
      BY <2>1, <2>4, <3>1, <3>2 DEF RequestRename, MayOverride
  <2>5. ASSUME NEW p, NEW cancelled, RequestFinish(c, p, cancelled)
        PROVE  Calm
    <3>1. PICK f : f = [Fresh("finish", p) EXCEPT !.cancelled = cancelled]
      OBVIOUS
    <3>2. f.at = "require" /\ f.override = FALSE
      BY <3>1 DEF Fresh, Returned
    <3>3. QED
      BY <2>1, <2>5, <3>1, <3>2 DEF RequestFinish, MayOverride
  <2>6. QED
    BY <1>4, <2>2, <2>3, <2>4, <2>5 DEF ClientRequest
<1>5. CASE Raise(c)
  BY <1>2, <1>5 DEF Raise
<1>6. ASSUME NEW active, CheckOpen(c, active)
      PROVE  Calm
  BY <1>0, <1>2, <1>6 DEF CheckOpen, Frame, MayOverride
<1>7. CASE ListIds(c)
  BY <1>0, <1>6, <1>7 DEF ListIds, Frame, MayOverride
<1>8. CASE ListGet(c)
  BY <1>6, <1>8 DEF ListGet
<1>9. ASSUME NEW p, CreateKey(c, p)
      PROVE  Calm
  BY <1>0, <1>2, <1>9 DEF CreateKey, Frame, MayOverride
<1>10. CASE CreateIndex(c)
  BY <1>0, <1>10 DEF CreateIndex, Goto, Frame, MayOverride
<1>11. CASE Require(c)
  BY <1>0, <1>2, <1>3, <1>11 DEF Require, Frame, MayOverride
<1>12. CASE CensusProject(c)
  BY <1>0, <1>12 DEF CensusProject, Frame, MayOverride
<1>13. CASE CensusAll(c)
  <2>1. CASE CheckSpawn(calls[c].role, calls[c].inProject, Cardinality(LiveOf(calls[c].role)),
                        calls[c].override) = "none"
    BY <1>0, <1>13, <2>1 DEF CensusAll, Frame, MayOverride
  <2>2. CASE CheckSpawn(calls[c].role, calls[c].inProject, Cardinality(LiveOf(calls[c].role)),
                        calls[c].override) # "none"
    BY <1>2, <1>13, <2>2 DEF CensusAll
  <2>3. QED
    BY <1>13, <2>1, <2>2
<1>14. ASSUME NEW a, LaunchAgent(c, a)
       PROVE  Calm
  BY <1>2, <1>3, <1>14 DEF LaunchAgent
<1>15. CASE SaveKey(c)
  BY <1>0, <1>2, <1>15 DEF SaveKey, Goto, Frame, MayOverride
<1>16. CASE SaveIndex(c)
  BY <1>2, <1>16 DEF SaveIndex
<1>17. CASE Step(c)
  BY <1>7, <1>8, <1>9, <1>10, <1>11, <1>12, <1>13, <1>14, <1>15, <1>16, <1>17 DEF Step
<1>18. QED
  BY <1>4, <1>5, <1>17

(* The agents stay as they are but for a launch and the runtime.  *)
LEMMA OthersKeepAgents ==
  ASSUME NEW c \in Call, ClientRequest(c) \/ Step(c) \/ Raise(c),
         \A a \in Agent : ~LaunchAgent(c, a)
  PROVE  UNCHANGED agents
BY DEF ClientRequest, RequestOpen, RequestSpawn, RequestRename, RequestFinish, Request,
       Step, Raise, ListIds, ListGet, CreateKey, CreateIndex, Require,
       CensusProject, CensusAll, SaveKey, SaveIndex

(* The agents that are counted depend on nothing else. *)
LEMMA AgentsSame ==
  ASSUME UNCHANGED agents
  PROVE  \A role \in Role : /\ LiveOf(role)' = LiveOf(role)
                            /\ \A p \in Project : LiveOn(role, p)' = LiveOn(role, p)
BY DEF LiveOf, LiveOn, Live
-------------------------------------------------------------------------------
(* The first count: whoever finds room in the project waits beside fewer   *)
(* than may live there, and no more than all requests can wait.            *)
LEMMA CensusProjectKeepsCaps ==
  ASSUME IInv, CapsOK, NEW c \in Call, CensusProject(c)
  PROVE  CapsOK'
<1>1. /\ \A d \in Call \ {c} : calls'[d] = calls[d]
      /\ calls'[c].at = "censusAll" /\ calls[c].at = "censusProject"
      /\ calls'[c].role = calls[c].role /\ calls'[c].project = calls[c].project
      /\ calls'[c].inProject = Cardinality(LiveOn(calls[c].role, calls[c].project))
      /\ UNCHANGED agents
  BY DEF IInv, TypeOK, CensusProject, At, Frame
<1>2. ASSUME NEW role \in Role
      PROVE  Within(LiveOf(role), LaunchingOf(role), GlobalLimit[role])'
  <2>1. LaunchingOf(role)' \subseteq LaunchingOf(role) /\ LiveOf(role)' = LiveOf(role)
    BY <1>1, AgentsSame DEF LaunchingOf, At
  <2>2. Within(LiveOf(role)', LaunchingOf(role)', GlobalLimit[role])
    BY <2>1, SetsTyped, FewerKeepWithin DEF CapsOK
  <2>3. QED
    BY <2>2 DEF Within, Slack
<1>3. ASSUME NEW role \in Role, role \notin Overrides, NEW p \in Project
      PROVE  Within(LiveOn(role, p), WaitingOn(role, p), PerProjectLimit[role])'
  <2>1. LiveOn(role, p)' = LiveOn(role, p)
    BY <1>1, AgentsSame
  <2>2. Within(LiveOn(role, p)', WaitingOn(role, p)', PerProjectLimit[role])
    <3>1. CASE c \in WaitingOn(role, p)'
      <4>1. Cardinality(LiveOn(role, p)') < PerProjectLimit[role]
        BY <1>1, <2>1, <3>1 DEF WaitingOn, At
      <4>2. QED
        BY <4>1, SetsTyped, BelowIsWithin
    <3>2. CASE c \notin WaitingOn(role, p)'
      <4>1. WaitingOn(role, p)' \subseteq WaitingOn(role, p)
        BY <1>1, <3>2 DEF WaitingOn, At
      <4>2. QED
        BY <1>3, <2>1, <4>1, SetsTyped, FewerKeepWithin DEF CapsOK
    <3>3. QED
      BY <3>1, <3>2
  <2>3. QED
    BY <2>2 DEF Within, Slack
<1>4. QED
  BY <1>2, <1>3 DEF CapsOK

(* Passing the ceilings: whoever does was waiting in the project already,  *)
(* unless it overrides, and finds fewer alive than the other one allows.   *)
LEMMA CensusAllKeepsCaps ==
  ASSUME IInv, OverridesOK, CapsOK, NEW c \in Call, CensusAll(c)
  PROVE  CapsOK'
<1> DEFINE f == calls[c]
           everywhere == Cardinality(LiveOf(f.role))
<1>1. /\ f \in Frame /\ f.at = "censusAll" /\ calls \in [Call -> Frame]
      /\ UNCHANGED agents
      /\ \A d \in Call \ {c} : calls'[d] = calls[d]
  BY OwnFrameOnly DEF IInv, TypeOK, CensusAll, At, Step
<1>2. CASE CheckSpawn(f.role, f.inProject, everywhere, f.override) = "none"
  <2>1. calls'[c].at = "launch" /\ calls'[c].role = f.role /\ calls'[c].project = f.project
    BY <1>1, <1>2 DEF CensusAll, Frame
  <2>2. /\ ~(everywhere >= GlobalLimit[f.role])
        /\ ~f.override => ~(f.inProject >= PerProjectLimit[f.role])
    BY <1>2 DEF CheckSpawn
  <2>3. f.role \in Role /\ everywhere \in Nat /\ f.inProject \in Nat
    BY <1>1, SetsTyped, AgentsCount DEF Frame
  <2>4. /\ everywhere < GlobalLimit[f.role]
        /\ ~f.override => f.inProject < PerProjectLimit[f.role]
    BY <2>2, <2>3, LimitAssumption
  <2>5. ASSUME NEW role \in Role
        PROVE  Within(LiveOf(role)', LaunchingOf(role)', GlobalLimit[role])
    <3>1. LiveOf(role)' = LiveOf(role)
      BY <1>1, AgentsSame
    <3>2. CASE role = f.role
      BY <2>4, <3>1, <3>2, SetsTyped, BelowIsWithin
    <3>3. CASE role # f.role
      <4>1. LaunchingOf(role)' \subseteq LaunchingOf(role)
        BY <1>1, <2>1, <3>3 DEF LaunchingOf, At
      <4>2. QED
        BY <3>1, <4>1, SetsTyped, FewerKeepWithin DEF CapsOK
    <3>4. QED
      BY <3>2, <3>3
  <2>6. ASSUME NEW role \in Role, role \notin Overrides, NEW p \in Project
        PROVE  Within(LiveOn(role, p)', WaitingOn(role, p)', PerProjectLimit[role])
    <3>1. LiveOn(role, p)' = LiveOn(role, p)
      BY <1>1, AgentsSame
    <3>2. f.role = role => ~f.override
      BY <1>1, <2>6 DEF OverridesOK, MayOverride, Frame
    <3>3. WaitingOn(role, p)' \subseteq WaitingOn(role, p)
      BY <1>1, <2>1, <2>4, <3>2 DEF WaitingOn, At
    <3>4. QED
      BY <2>6, <3>1, <3>3, SetsTyped, FewerKeepWithin DEF CapsOK
  <2>7. QED
    BY <2>5, <2>6 DEF CapsOK, Within, Slack
<1>3. CASE CheckSpawn(f.role, f.inProject, everywhere, f.override) # "none"
  <2>1. calls'[c].at = "returned"
    BY <1>1, <1>3 DEF CensusAll, Return, Returned
  <2>2. \A role \in Role :
          /\ LaunchingOf(role)' \subseteq LaunchingOf(role)
          /\ \A p \in Project : WaitingOn(role, p)' \subseteq WaitingOn(role, p)
    BY <1>1, <2>1 DEF LaunchingOf, WaitingOn, At
  <2>3. QED
    BY <1>1, <2>2, AgentsSame, FewerKeepCaps
<1>4. QED
  BY <1>2, <1>3

(* A launch turns one that waited into one alive. *)
LEMMA LaunchKeepsCaps ==
  ASSUME IInv, CapsOK, NEW c \in Call, NEW a \in Agent, LaunchAgent(c, a)
  PROVE  CapsOK'
<1>1. /\ \A d \in Call \ {c} : calls'[d] = calls[d]
      /\ calls'[c].at \notin {"launch", "censusAll"} /\ calls[c].at = "launch"
  BY OwnFrameOnly DEF Step, CensusAll, CensusProject, LaunchAgent, At
<1>2. agents \in [Agent -> AgentRecord \cup {Unused}]
  BY DEF IInv, TypeOK, AgentsTypeOK
<1>3. /\ \A b \in Agent \ {a} : agents'[b] = agents[b]
      /\ agents'[a].role = calls[c].role /\ agents'[a].project = calls[c].project
  BY <1>2 DEF LaunchAgent, Launch
<1>4. ASSUME NEW role \in Role
      PROVE  Within(LiveOf(role)', LaunchingOf(role)', GlobalLimit[role])
  <2>1. LaunchingOf(role)' = LaunchingOf(role) \ {c}
    BY <1>1 DEF LaunchingOf, At
  <2>2. CASE calls[c].role = role
    <3>1. c \in LaunchingOf(role) /\ LiveOf(role)' \subseteq LiveOf(role) \cup {a}
      BY <1>1, <1>3, <2>2 DEF LaunchingOf, At, LiveOf, Live
    <3>2. QED
      BY <2>1, <3>1, SetsTyped, LaunchedKeepsWithin DEF CapsOK
  <2>3. CASE calls[c].role # role
    <3>1. LiveOf(role)' \subseteq LiveOf(role)
      BY <1>3, <2>3 DEF LiveOf, Live
    <3>2. QED
      BY <2>1, <3>1, SetsTyped, FewerKeepWithin DEF CapsOK
  <2>4. QED
    BY <2>2, <2>3
<1>5. ASSUME NEW role \in Role, role \notin Overrides, NEW p \in Project
      PROVE  Within(LiveOn(role, p)', WaitingOn(role, p)', PerProjectLimit[role])
  <2>1. WaitingOn(role, p)' = WaitingOn(role, p) \ {c}
    BY <1>1 DEF WaitingOn, At
  <2>2. CASE calls[c].role = role /\ calls[c].project = p
    <3>1. c \in WaitingOn(role, p) /\ LiveOn(role, p)' \subseteq LiveOn(role, p) \cup {a}
      BY <1>1, <1>3, <2>2 DEF WaitingOn, At, LiveOn, LiveOf, Live
    <3>2. QED
      BY <1>5, <2>1, <3>1, SetsTyped, LaunchedKeepsWithin DEF CapsOK
  <2>3. CASE ~(calls[c].role = role /\ calls[c].project = p)
    <3>1. LiveOn(role, p)' \subseteq LiveOn(role, p)
      BY <1>3, <2>3 DEF LiveOn, LiveOf, Live
    <3>2. QED
      BY <1>5, <2>1, <3>1, SetsTyped, FewerKeepWithin DEF CapsOK
  <2>4. QED
    BY <2>2, <2>3
<1>6. QED
  BY <1>4, <1>5 DEF CapsOK, Within, Slack

(* Left to itself the runtime only ends agents. *)
LEMMA RuntimeOnlyEnds ==
  ASSUME IInv, CountedAtLaunch, NoneIdle, NEW a \in Agent, Runtime(a)
  PROVE  /\ NoneIdle'
         /\ Live' \subseteq Live
         /\ \A b \in Agent : agents'[b].role = agents[b].role /\ agents'[b].project = agents[b].project
<1>1. agents \in [Agent -> AgentRecord \cup {Unused}]
  BY DEF IInv, TypeOK, AgentsTypeOK
<1>2. End(a)
  BY DEF Runtime, AgentsMove, BecomeLive, LoseLive, NoneIdle
<1>3. agents' = [agents EXCEPT ![a].phase = "ended"]
  BY <1>2 DEF End, SetPhase
<1>4. QED
  BY <1>1, <1>3 DEF NoneIdle, Live, AgentRecord, Unused

LEMMA RuntimeKeepsCaps ==
  ASSUME IInv, CountedAtLaunch, NoneIdle, CapsOK, NEW a \in Agent, Runtime(a)
  PROVE  CapsOK'
<1>1. /\ Live' \subseteq Live /\ UNCHANGED calls
      /\ \A b \in Agent : agents'[b].role = agents[b].role /\ agents'[b].project = agents[b].project
  BY RuntimeOnlyEnds DEF Runtime
<1>2. ASSUME NEW role \in Role
      PROVE  /\ LiveOf(role)' \subseteq LiveOf(role) /\ LaunchingOf(role)' \subseteq LaunchingOf(role)
             /\ \A p \in Project : /\ LiveOn(role, p)' \subseteq LiveOn(role, p)
                                   /\ WaitingOn(role, p)' \subseteq WaitingOn(role, p)
  <2>1. Live' \subseteq Agent
    BY DEF Live
  <2>2. LiveOf(role)' \subseteq LiveOf(role)
    BY <1>1, <2>1 DEF LiveOf
  <2>3. LaunchingOf(role)' \subseteq LaunchingOf(role)
    BY <1>1 DEF LaunchingOf, At
  <2>4. \A p \in Project : LiveOn(role, p)' \subseteq LiveOn(role, p)
    BY <1>1, <2>1, <2>2 DEF LiveOn, LiveOf
  <2>5. \A p \in Project : WaitingOn(role, p)' \subseteq WaitingOn(role, p)
    BY <1>1 DEF WaitingOn, At
  <2>6. QED
    BY <2>2, <2>3, <2>4, <2>5
<1>3. QED
  BY <1>2, FewerKeepCaps

(* A launched agent is live at once. *)
LEMMA LaunchLeavesNoneIdle ==
  ASSUME IInv, CountedAtLaunch, NoneIdle, NEW c \in Call, NEW a \in Agent, LaunchAgent(c, a)
  PROVE  NoneIdle'
<1>1. agents \in [Agent -> AgentRecord \cup {Unused}]
  BY DEF IInv, TypeOK, AgentsTypeOK
<1>2. QED
  BY <1>1 DEF NoneIdle, LaunchAgent, Launch

LEMMA OverridesStep == IInv /\ OverridesOK /\ [Next]_vars => OverridesOK'
<1> SUFFICES ASSUME IInv, OverridesOK, [Next]_vars
             PROVE  OverridesOK'
  OBVIOUS
<1>1. ASSUME NEW c \in Call, ClientRequest(c) \/ Step(c) \/ Raise(c)
      PROVE  OverridesOK'
  <2>1. /\ \A d \in Call \ {c} : calls'[d] = calls[d]
        /\ MayOverride(calls[c]) => MayOverride(calls'[c])
    BY <1>1, OwnFrameOnly
  <2>2. QED
    BY <2>1 DEF OverridesOK, MayOverride
<1>2. UNCHANGED calls => OverridesOK'
  BY DEF OverridesOK, MayOverride
<1>3. QED
  BY <1>1, <1>2 DEF Next, vars, Runtime

LEMMA CapsStep ==
  ASSUME IInv, CountedAtLaunch, OverridesOK, NoneIdle, CapsOK, [Next]_vars
  PROVE  NoneIdle' /\ CapsOK'
<1>1. ASSUME NEW c \in Call, ClientRequest(c) \/ Step(c) \/ Raise(c)
      PROVE  NoneIdle' /\ CapsOK'
  <2>1. ASSUME NEW a \in Agent, LaunchAgent(c, a)
        PROVE  NoneIdle' /\ CapsOK'
    BY <2>1, LaunchKeepsCaps, LaunchLeavesNoneIdle
  <2>2. CASE CensusAll(c)
    BY <2>2, CensusAllKeepsCaps DEF CensusAll, NoneIdle
  <2>3. CASE CensusProject(c)
    BY <2>3, CensusProjectKeepsCaps DEF CensusProject, NoneIdle
  <2>4. CASE ~CensusAll(c) /\ ~CensusProject(c) /\ \A a \in Agent : ~LaunchAgent(c, a)
    <3>1. UNCHANGED agents
      BY <1>1, <2>4, OthersKeepAgents
    <3>2. /\ \A d \in Call \ {c} : calls'[d] = calls[d]
          /\ calls'[c].at # "launch" /\ calls'[c].at # "censusAll"
      BY <1>1, <2>4, OwnFrameOnly
    <3>3. \A role \in Role :
            /\ LaunchingOf(role)' \subseteq LaunchingOf(role)
            /\ \A p \in Project : WaitingOn(role, p)' \subseteq WaitingOn(role, p)
      BY <3>2 DEF LaunchingOf, WaitingOn, At
    <3>4. QED
      BY <3>1, <3>3, AgentsSame, FewerKeepCaps DEF NoneIdle
  <2>5. QED
    BY <2>1, <2>2, <2>3, <2>4
<1>2. ASSUME NEW a \in Agent, Runtime(a)
      PROVE  NoneIdle' /\ CapsOK'
  BY <1>2, RuntimeKeepsCaps, RuntimeOnlyEnds
<1>3. CASE UNCHANGED vars
  BY <1>3 DEF vars, NoneIdle, CapsOK, Within, Slack, LiveOf, LiveOn, Live, LaunchingOf, WaitingOn, At
<1>4. QED
  BY <1>1, <1>2, <1>3 DEF Next

LEMMA OvershootInit == Init => OvershootInv
<1> SUFFICES ASSUME Init
             PROVE  OverridesOK /\ NoneIdle /\ CapsOK
  BY DEF OvershootInv
<1>1. OverridesOK /\ NoneIdle
  BY DEF Init, AgentsInit, NoneIdle, Unused, OverridesOK, MayOverride, Returned
<1>2. ASSUME NEW role \in Role
      PROVE  /\ Within(LiveOf(role), LaunchingOf(role), GlobalLimit[role])
             /\ \A p \in Project : Within(LiveOn(role, p), WaitingOn(role, p), PerProjectLimit[role])
  <2>1. /\ LiveOf(role) = {} /\ LaunchingOf(role) = {}
        /\ \A p \in Project : LiveOn(role, p) = {} /\ WaitingOn(role, p) = {}
    BY DEF Init, AgentsInit, Unused, LiveOf, LiveOn, Live, LaunchingOf, WaitingOn, At, Returned
  <2>2. QED
    BY <2>1, FS_EmptySet, SomeCall, LimitAssumption DEF Within, Slack
<1>3. QED
  BY <1>1, <1>2 DEF CapsOK

(* However spawns overlap and whatever fails, agents of a role exceed its  *)
(* global ceiling, and that of a project where nobody overrides it, by     *)
(* fewer than there are concurrent requests (service.py, spawn).           *)
THEOREM OvershootIsBounded == Spec => []OvershootBounded
<1>1. ASSUME OvershootInv, CountedAtLaunch, NEW role \in Role
      PROVE  /\ Cardinality(LiveOf(role)) <= GlobalLimit[role] + Slack
             /\ role \notin Overrides => \A p \in Project :
                  Cardinality(LiveOn(role, p)) <= PerProjectLimit[role] + Slack
  <2>1. \A live \in SUBSET Agent, waiting \in SUBSET Call, limit \in Nat :
          Within(live, waiting, limit) => Cardinality(live) <= limit + Slack
    BY AgentsCount, CallsCount, SomeCall DEF Within, Slack
  <2>2. QED
    BY <1>1, <2>1, SetsTyped DEF OvershootInv, CapsOK
<1>2. OvershootInv => OvershootBounded
  BY <1>1 DEF OvershootBounded
<1>3. IInv /\ OvershootInv /\ [Next]_vars => OvershootInv'
  BY OverridesStep, CapsStep DEF OvershootInv
<1>4. QED
  BY Invariance, OvershootInit, <1>2, <1>3, PTL DEF Spec
-------------------------------------------------------------------------------
(* A closed project stays closed once nobody holds an open copy of it.     *)
LEMMA SettledStep ==
  ASSUME IInv, NEW c \in Call, ClientRequest(c) \/ Step(c) \/ Raise(c),
         NEW p \in Project, Settled(p)
  PROVE  Settled(p)'
<1>1. /\ \A d \in Call \ {c} : calls'[d] = calls[d]
      /\ calls \in [Call -> Frame] /\ calls[c] \in Frame
      /\ projects \in [Project -> ProjectRecord \cup {NoProject}]
  BY OwnFrameOnly DEF IInv, TypeOK, StoreTypeOK
<1>2. p \in Known /\ IsTerminal(projects[p])
  BY DEF Settled, Known, IsTerminal, Terminal, NoProject
<1> DEFINE Mine == Holds(c, p)' => IsTerminal(calls'[c].snap)
<1>3. ASSUME IsTerminal(projects'[p]), Mine
      PROVE  Settled(p)'
  BY <1>1, <1>3 DEF Settled, Holds
<1>4. ASSUME NEW f, calls' = [calls EXCEPT ![c] = f],
             f.at \notin {"censusProject", "censusAll", "launch", "saveKey"}
      PROVE  Mine
  BY <1>1, <1>4 DEF Holds
<1>5. ASSUME NEW outcome, Return(c, outcome)
      PROVE  Mine
  <2>1. PICK f : f = Returned(calls[c].kind, outcome, calls[c].project)
    OBVIOUS
  <2>2. QED
    BY <1>4, <1>5, <2>1 DEF Return, Returned
<1>6. UNCHANGED projects => IsTerminal(projects'[p])
  BY <1>2
<1>7. CASE ClientRequest(c)
  <2>1. ASSUME NEW f, f.at \in {"listIds", "require"}, Request(c, f)
        PROVE  Settled(p)'
    BY <1>3, <1>4, <1>6, <2>1 DEF Request
  <2>2. CASE RequestOpen(c)
    <3>1. PICK f : f = [Returned("open", "pending", NoId) EXCEPT !.at = "listIds"]
      OBVIOUS
    <3>2. QED
      BY <2>1, <2>2, <3>1 DEF RequestOpen, Returned
  <2>3. ASSUME NEW q, NEW role, NEW override, RequestSpawn(c, q, role, override)
        PROVE  Settled(p)'
    <3>1. PICK f : f = [Fresh("spawn", q) EXCEPT !.role = role, !.override = override]
      OBVIOUS
    <3>2. f.at = "require"
      BY <3>1 DEF Fresh, Returned
    <3>3. Request(c, f)
      BY <2>3, <3>1 DEF RequestSpawn
    <3>4. QED
      BY <2>1, <3>2, <3>3
  <2>4. ASSUME NEW q, NEW proposed, RequestRename(c, q, proposed)
        PROVE  Settled(p)'
    <3>1. PICK f : f = [Fresh("rename", q) EXCEPT !.name = proposed]
      OBVIOUS
    <3>2. f.at = "require"
      BY <3>1 DEF Fresh, Returned
    <3>3. Request(c, f)
      BY <2>4, <3>1 DEF RequestRename
    <3>4. QED
      BY <2>1, <3>2, <3>3
  <2>5. ASSUME NEW q, NEW cancelled, RequestFinish(c, q, cancelled)
        PROVE  Settled(p)'
    <3>1. PICK f : f = [Fresh("finish", q) EXCEPT !.cancelled = cancelled]
      OBVIOUS
    <3>2. f.at = "require"
      BY <3>1 DEF Fresh, Returned
    <3>3. Request(c, f)
      BY <2>5, <3>1 DEF RequestFinish
    <3>4. QED
      BY <2>1, <3>2, <3>3
  <2>6. QED
    BY <1>7, <2>2, <2>3, <2>4, <2>5 DEF ClientRequest
<1>8. CASE Raise(c)
  BY <1>3, <1>5, <1>6, <1>8 DEF Raise
<1>9. ASSUME NEW active, CheckOpen(c, active)
      PROVE  Mine
  BY <1>1, <1>5, <1>9 DEF CheckOpen, Holds, Frame
<1>10. CASE ListIds(c)
  BY <1>1, <1>3, <1>6, <1>9, <1>10 DEF ListIds, Holds, Frame
<1>11. CASE ListGet(c)
  BY <1>3, <1>6, <1>9, <1>11 DEF ListGet, Heal
<1>12. ASSUME NEW q \in Project, CreateKey(c, q)
       PROVE  Settled(p)'
  <2>1. CASE q \in Known
    BY <1>3, <1>5, <1>6, <1>12, <2>1 DEF CreateKey, store
  <2>2. CASE q \notin Known
    <3>1. projects'[p] = projects[p]
      BY <1>1, <1>2, <1>12, <2>2 DEF CreateKey, SetKey
    <3>2. Mine
      BY <1>1, <1>12, <2>2 DEF CreateKey, Holds, Frame
    <3>3. QED
      BY <1>2, <1>3, <3>1, <3>2
  <2>3. QED
    BY <2>1, <2>2
<1>13. CASE CreateIndex(c)
  BY <1>1, <1>3, <1>6, <1>13 DEF CreateIndex, ZAdd, Goto, Holds, Frame
<1>14. CASE Require(c)
  <2>1. UNCHANGED projects
    BY <1>14 DEF Require
  <2>2. Mine
    <3>1. CASE calls[c].project \notin Known
      BY <1>5, <1>14, <3>1 DEF Require
    <3>2. CASE calls[c].project \in Known /\ calls[c].kind \in {"open", "spawn"}
      BY <1>1, <1>2, <1>14, <3>2 DEF Require, Holds, Frame
    <3>3. CASE calls[c].project \in Known /\ calls[c].kind = "rename"
      <4>1. CASE NameAccepted(calls[c].name)
        <5>1. calls'[c] = Save(calls[c], Rename(projects[calls[c].project], calls[c].name))
          BY <1>1, <1>14, <3>3, <4>1 DEF Require
        <5>2. Holds(c, p)' => calls[c].project = p
          BY <1>1, <5>1 DEF Holds, Save, Frame
        <5>3. IsTerminal(Rename(projects[p], calls[c].name))
          BY <1>1, <1>2, RecordIsProject DEF Rename, IsTerminal, ProjectRecord, Known
        <5>4. calls'[c].snap = Rename(projects[calls[c].project], calls[c].name)
          BY <1>1, <5>1 DEF Save, Frame
        <5>5. QED
          BY <5>2, <5>3, <5>4
      <4>2. CASE ~NameAccepted(calls[c].name)
        BY <1>5, <1>14, <3>3, <4>2 DEF Require
      <4>3. QED
        BY <4>1, <4>2
    <3>4. CASE calls[c].project \in Known /\ calls[c].kind = "finish"
      <4>1. calls'[c] = Save(calls[c], Finish(projects[calls[c].project], calls[c].cancelled))
        BY <1>1, <1>14, <3>4 DEF Require
      <4>2. Holds(c, p)' => calls[c].project = p
        BY <1>1, <4>1 DEF Holds, Save, Frame
      <4>3. IsTerminal(Finish(projects[p], calls[c].cancelled))
        BY <1>1, <1>2, RecordIsProject DEF Finish, IsTerminal, Terminal, ProjectRecord, Known
      <4>4. calls'[c].snap = Finish(projects[calls[c].project], calls[c].cancelled)
        BY <1>1, <4>1 DEF Save, Frame
      <4>5. QED
        BY <4>2, <4>3, <4>4
    <3>5. QED
      BY <1>14, <3>1, <3>2, <3>3, <3>4 DEF Require
  <2>3. QED
    BY <1>3, <1>6, <2>1, <2>2
<1>15. CASE CensusProject(c)
  <2>1. /\ At(c, "censusProject")
        /\ calls'[c].project = calls[c].project
        /\ calls'[c].snap = calls[c].snap
        /\ UNCHANGED projects
    BY <1>1, <1>15 DEF CensusProject, Frame
  <2>2. Mine
    BY <2>1 DEF Settled, Holds, At
  <2>3. QED
    BY <1>3, <1>6, <2>1, <2>2
<1>16. CASE CensusAll(c)
  <2>1. CASE CheckSpawn(calls[c].role, calls[c].inProject, Cardinality(LiveOf(calls[c].role)),
                        calls[c].override) = "none"
    <3>1. /\ At(c, "censusAll")
          /\ calls'[c].project = calls[c].project
          /\ calls'[c].snap = calls[c].snap
          /\ UNCHANGED projects
      BY <1>1, <1>16, <2>1 DEF CensusAll, Frame
    <3>2. Mine
      BY <3>1 DEF Settled, Holds, At
    <3>3. QED
      BY <1>3, <1>6, <3>1, <3>2
  <2>2. CASE CheckSpawn(calls[c].role, calls[c].inProject, Cardinality(LiveOf(calls[c].role)),
                        calls[c].override) # "none"
    BY <1>3, <1>5, <1>6, <1>16, <2>2 DEF CensusAll
  <2>3. QED
    BY <2>1, <2>2
<1>17. ASSUME NEW a \in Agent, LaunchAgent(c, a)
       PROVE  Settled(p)'
  <2>1. UNCHANGED projects
    BY <1>17 DEF LaunchAgent
  <2>2. CASE calls[c].snap.status = "scoping"
    <3>1. calls[c].project # p
      BY <1>17, <2>2 DEF LaunchAgent, At, Settled, Holds, IsTerminal, Terminal
    <3>2. calls'[c] = Save(calls[c], Start(calls[c].snap))
      BY <1>1, <1>17, <2>2 DEF LaunchAgent
    <3>3. calls'[c].project = calls[c].project
      BY <1>1, <3>2 DEF Save, Frame
    <3>4. QED
      BY <1>3, <1>6, <2>1, <3>1, <3>3 DEF Holds
  <2>3. CASE calls[c].snap.status # "scoping"
    BY <1>3, <1>5, <1>6, <1>17, <2>1, <2>3 DEF LaunchAgent
  <2>4. QED
    BY <2>2, <2>3
<1>18. CASE SaveKey(c)
  <2>1. CASE calls[c].project \in Known
    <3>1. projects' = [projects EXCEPT ![calls[c].project] = calls[c].snap]
      BY <1>18, <2>1 DEF SaveKey, SetKey
    <3>2. calls[c].project = p => IsTerminal(calls[c].snap)
      BY <1>18 DEF SaveKey, At, Settled, Holds
    <3>3. IsTerminal(projects'[p])
      BY <1>1, <1>2, <3>1, <3>2
    <3>4. Mine
      BY <1>1, <1>5, <1>18, <2>1 DEF SaveKey, Goto, Holds, Frame
    <3>5. QED
      BY <1>3, <3>3, <3>4
  <2>2. CASE calls[c].project \notin Known
    BY <1>3, <1>5, <1>6, <1>18, <2>2 DEF SaveKey, store
  <2>3. QED
    BY <2>1, <2>2
<1>19. CASE SaveIndex(c)
  BY <1>3, <1>5, <1>6, <1>19 DEF SaveIndex, ZRem
<1>20. CASE Step(c)
  BY <1>10, <1>11, <1>12, <1>13, <1>14, <1>15, <1>16, <1>17, <1>18, <1>19, <1>20 DEF Step
<1>21. QED
  BY <1>7, <1>8, <1>20

(* Whatever overlaps, raises or dies: once a project is closed and no      *)
(* request that read it open is under way, it is closed for good           *)
(* (service.py, spawn; project.py, renamed).                               *)
THEOREM ClosedIsForGood == Spec => ClosedStaysClosed
<1>1. ASSUME IInv, [Next]_vars, NEW p \in Project, Settled(p)
      PROVE  Settled(p)'
  <2>1. UNCHANGED <<projects, calls>> => Settled(p)'
    BY <1>1 DEF Settled, Holds
  <2>2. QED
    BY <1>1, <2>1, SettledStep DEF Next, Runtime, vars
<1>2. IInv /\ [Next]_vars => [\A p \in Project : Settled(p) => Settled(p)']_vars
  BY <1>1
<1>3. QED
  BY Invariance, <1>2, PTL DEF Spec, ClosedStaysClosed
-------------------------------------------------------------------------------
(* Seen from the runtime, the service is one of its users: whatever it     *)
(* does to the agents is a launch the port allows, or nothing.  So what    *)
(* holds of the port (KubernetesRuntime implements it) may be relied on.   *)
THEOREM ServiceUsesPort == Spec => AgentsSpec
<1>1. Init => AgentsInit
  BY DEF Init
<1>2. IInv /\ [Next]_vars => [AgentsNext]_agents
  <2> SUFFICES ASSUME IInv, [Next]_vars
               PROVE  [AgentsNext]_agents
    OBVIOUS
  <2>1. ASSUME NEW c \in Call, NEW a \in Agent, LaunchAgent(c, a)
        PROVE  AgentsNext
    <3>1. calls[c].role \in Role /\ calls[c].project \in Project
      BY <2>1 DEF IInv, TypeOK, Frame, FramesOK, FrameOK, LaunchAgent, At, Working, Known
    <3>2. Launch(a, calls[c].role, calls[c].project)
      BY <2>1 DEF LaunchAgent
    <3>3. QED
      BY <3>1, <3>2 DEF AgentsNext
  <2>2. ASSUME NEW a \in Agent, Runtime(a)
        PROVE  AgentsNext
    BY <2>2 DEF Runtime, AgentsNext
  <2>3. ASSUME NEW c \in Call, ClientRequest(c) \/ Step(c) \/ Raise(c),
               \A a \in Agent : ~LaunchAgent(c, a)
        PROVE  UNCHANGED agents
    BY <2>3, OthersKeepAgents
  <2>4. CASE UNCHANGED vars
    BY <2>4 DEF vars
  <2>5. QED
    BY <2>1, <2>2, <2>3, <2>4 DEF Next
<1>3. QED
  BY Invariance, <1>1, <1>2, PTL DEF Spec, AgentsSpec
===============================================================================
