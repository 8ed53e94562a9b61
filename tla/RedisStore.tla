------------------------------ MODULE RedisStore ------------------------------
(***************************************************************************)
(* The state RedisProjectStore keeps for projects: one key per project     *)
(* (a JSON record) and the sorted set of active ids that list_active()     *)
(* starts from.  Each definition below is one Redis command, atomic on the *)
(* server; the adapter's operations are sequences of them, with other      *)
(* callers' commands in between.                                           *)
(***************************************************************************)
EXTENDS CrewDomain

VARIABLES
  projects,         \* [Project -> ProjectRecord or NoProject], the keys
  index             \* the ids in <prefix>:projects:active

store == <<projects, index>>

NoProject == [status |-> "none", name |-> Placeholder]

StoreTypeOK ==
  /\ projects \in [Project -> ProjectRecord \cup {NoProject}]
  /\ index \in SUBSET Project

StoreInit ==
  /\ projects = [p \in Project |-> NoProject]
  /\ index = {}

Known == {p \in Project : projects[p] # NoProject}

(* What ports/store.py calls active: not in a terminal status. *)
Open == {p \in Known : ~IsTerminal(projects[p])}
-------------------------------------------------------------------------------
(* SET key NX, SET key XX: the guard is the caller's, as the reply decides *)
(* what the adapter does next.                                             *)
SetKey(p, record) == projects' = [projects EXCEPT ![p] = record] /\ UNCHANGED index

ZAdd(p) == index' = index \cup {p} /\ UNCHANGED projects

ZRem(p) == index' = index \ {p} /\ UNCHANGED projects

(* The second half of list_active(): MGET of the ids read before, dropping *)
(* the closed projects from the answer and the keyless ids from the index. *)
(* The ZREM is a command of its own, sent only for keyless ids; a key is    *)
(* written before its id is indexed and never deleted, so there are none    *)
(* (IndexBacked) and nothing to interleave with.                            *)
Listed(ids) == ids \cap Open

Heal(ids) == index' = index \ (ids \ Known) /\ UNCHANGED projects
===============================================================================
