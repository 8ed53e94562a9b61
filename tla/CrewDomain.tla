------------------------------ MODULE CrewDomain ------------------------------
(***************************************************************************)
(* The pure rules of the control plane: how many agents of a role may be   *)
(* alive and how many projects may be open (domain/caps.py), and what a    *)
(* project may become (domain/project.py).  No I/O happens here and no     *)
(* state is kept; every other module of the control plane builds on it.    *)
(***************************************************************************)
EXTENDS Integers

CONSTANTS
  Role,                   \* AgentRole, the specialists a crew may contain
  FirstRole,              \* the Engineering Manager, put on every new project
  PerProjectLimit,        \* [Role -> Nat], zero: the crew has no such role
  GlobalLimit,            \* [Role -> Nat], the resource ceiling
  MaxConcurrentProjects,  \* how many projects may be open at once
  Project,                \* project ids
  Name,                   \* names a project may be given
  Placeholder             \* PROVISIONAL_NAME: what nobody has named yet

ASSUME RoleAssumption == FirstRole \in Role
ASSUME LimitAssumption == /\ PerProjectLimit \in [Role -> Nat]
                          /\ GlobalLimit \in [Role -> Nat]
                          /\ MaxConcurrentProjects \in Nat
ASSUME NameAssumption == Placeholder \notin Name
-------------------------------------------------------------------------------
ProjectStatus == {"scoping", "running", "done", "cancelled"}

Terminal == {"done", "cancelled"}

ProjectRecord == [status : ProjectStatus, name : Name \cup {Placeholder}]

NewProject == [status |-> "scoping", name |-> Placeholder]

IsTerminal(project) == project.status \in Terminal

IsNamed(project) == project.name # Placeholder

(* A proposal that is empty, too long or the placeholder raises NamingError *)
(* before anything is replaced; Name holds the ones that pass.              *)
NameAccepted(proposed) == proposed \in Name

Rename(project, proposed) == [project EXCEPT !.name = proposed]

(* start() raises on a closed project; its one caller has seen "scoping". *)
Start(project) == [project EXCEPT !.status = "running"]

(* finish() has no precondition: a closed project may be closed again. *)
Finish(project, cancelled) ==
  [project EXCEPT !.status = IF cancelled THEN "cancelled" ELSE "done"]
-------------------------------------------------------------------------------
(* A slip: one agent too many at each ceiling. *)
CheckSpawnOneOver(role, inProject, everywhere, override) ==
  IF PerProjectLimit[role] = 0 THEN "role"
  ELSE IF everywhere > GlobalLimit[role] THEN "global"
  ELSE IF inProject > PerProjectLimit[role] /\ ~override THEN "project"
  ELSE "none"

(* check_spawn: the scope of the refusal, or "none" when the spawn may go   *)
(* ahead.  A role limited to zero is refused before the counts are looked   *)
(* at; only the per-project ceiling gives way to an override.               *)
CheckSpawn(role, inProject, everywhere, override) ==
  IF PerProjectLimit[role] = 0 THEN "role"
  ELSE IF everywhere >= GlobalLimit[role] THEN "global"
  ELSE IF inProject >= PerProjectLimit[role] /\ ~override THEN "project"
  ELSE "none"

(* A slip: one project too many. *)
MayOpenOneOver(active) == active <= MaxConcurrentProjects

(* check_new_project: may one more be opened beside these many. *)
MayOpenProject(active) == active < MaxConcurrentProjects
===============================================================================
