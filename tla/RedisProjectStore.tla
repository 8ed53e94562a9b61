--------------------------- MODULE RedisProjectStore ---------------------------
(***************************************************************************)
(* RedisProjectStore with several callers: create(), save() and            *)
(* list_active() as the sequences of Redis commands the adapter sends,     *)
(* with other callers' commands between them.  A caller may save what it   *)
(* read long ago, and any command may raise; two history variables keep    *)
(* what that leaves behind, for the properties only.                       *)
(***************************************************************************)
EXTENDS RedisStore

CONSTANT Caller   \* coroutines using the store

VARIABLES
  ops,        \* [Caller -> the operation it is in]
  throughout, \* [Caller -> projects open ever since its list_active() began]
  sometime,   \* [Caller -> projects open at some moment of it]
  unlisted,   \* open projects whose create() raised before its ZADD, or
              \* that a save() reopened after another one had closed them
  lingering   \* projects whose closing save() raised before its ZREM

history == <<unlisted, lingering>>

callersVars == <<projects, index, ops, throughout, sometime, unlisted, lingering>>

NoOp == [at |-> "idle", project |-> "none", ids |-> {}]

Op == [at : {"createIndex", "saveIndex"}, project : Project, ids : {{}}]
        \cup [at : {"listGet", "listed"}, project : {"none"}, ids : SUBSET Project]
        \cup {NoOp}

CallersTypeOK ==
  /\ StoreTypeOK
  /\ ops \in [Caller -> Op]
  /\ throughout \in [Caller -> SUBSET Project]
  /\ sometime \in [Caller -> SUBSET Project]
  /\ unlisted \in SUBSET Project
  /\ lingering \in SUBSET Project

CallersInit ==
  /\ StoreInit
  /\ ops = [c \in Caller |-> NoOp]
  /\ throughout = [c \in Caller |-> {}]
  /\ sometime = [c \in Caller |-> {}]
  /\ unlisted = {}
  /\ lingering = {}
-------------------------------------------------------------------------------
Idle(c) == ops[c] = NoOp

At(c, await) == ops[c].at = await

Become(c, op) == ops' = [ops EXCEPT ![c] = op]

BeingCreated == {p \in Project : \E c \in Caller : At(c, "createIndex") /\ ops[c].project = p}

(* The open projects no create() or save() has left out of the index. *)
Listable == Open \ (BeingCreated \cup unlisted)

(* A slip: the new project is not indexed. *)
CreateKeyOnly(c, p) ==
  /\ Idle(c)
  /\ p \notin Known
  /\ SetKey(p, NewProject)
  /\ UNCHANGED <<ops, history>>

(* create(): SET NX, then ZADD.  A taken id raises and changes nothing. *)
CreateKey(c, p) ==
  /\ Idle(c)
  /\ p \notin Known
  /\ SetKey(p, NewProject)
  /\ Become(c, [at |-> "createIndex", project |-> p, ids |-> {}])
  /\ UNCHANGED history

CreateIndex(c) ==
  /\ At(c, "createIndex")
  /\ ZAdd(ops[c].project)
  /\ Become(c, NoOp)
  /\ UNCHANGED history

(* A slip: the closed project stays in the index. *)
SaveKeyOnly(c, p, record) ==
  /\ Idle(c)
  /\ p \in Known \ BeingCreated
  /\ SetKey(p, record)
  /\ UNCHANGED <<ops, history>>

(* save(): SET XX, then ZREM for a closed project.  Nobody knows the id of *)
(* a project before its create() returned.  The record may be an old copy, *)
(* and an open one over a closed one is never put back into the index.     *)
SaveKey(c, p, record) ==
  /\ Idle(c)
  /\ p \in Known \ BeingCreated
  /\ SetKey(p, record)
  /\ unlisted' = IF IsTerminal(record) THEN unlisted \ {p}
                 ELSE IF p \in Open THEN unlisted
                 ELSE unlisted \cup {p}
  /\ UNCHANGED lingering
  /\ IF IsTerminal(record)
     THEN Become(c, [at |-> "saveIndex", project |-> p, ids |-> {}])
     ELSE UNCHANGED ops

SaveIndex(c) ==
  /\ At(c, "saveIndex")
  /\ ZRem(ops[c].project)
  /\ lingering' = lingering \ {ops[c].project}
  /\ Become(c, NoOp)
  /\ UNCHANGED unlisted

(* list_active(): ZREVRANGE, then MGET of those ids unless there are none. *)
ListIds(c) ==
  /\ Idle(c)
  /\ Become(c, [at |-> IF index = {} THEN "listed" ELSE "listGet",
                project |-> "none", ids |-> index])
  /\ UNCHANGED <<store, history>>

(* A slip: the ids are answered as they were read. *)
ListGetStale(c) ==
  /\ At(c, "listGet")
  /\ Become(c, [at |-> "listed", project |-> "none", ids |-> ops[c].ids])
  /\ Heal(ops[c].ids)
  /\ UNCHANGED history

ListGet(c) ==
  /\ At(c, "listGet")
  /\ Become(c, [at |-> "listed", project |-> "none", ids |-> Listed(ops[c].ids)])
  /\ Heal(ops[c].ids)
  /\ UNCHANGED history

(* The caller has used the answer. *)
Use(c) == At(c, "listed") /\ Become(c, NoOp) /\ UNCHANGED <<store, history>>

(* The command raises, and the operation ends where it is: a create() or a *)
(* save() after its SET, a list_active() after its ZREVRANGE.  When only   *)
(* the reply was lost the command was executed, and it is as if its caller *)
(* had raised at the next one.                                             *)
Raise(c) ==
  /\ ops[c].at \in {"createIndex", "saveIndex", "listGet"}
  /\ unlisted' = IF At(c, "createIndex") THEN unlisted \cup {ops[c].project} ELSE unlisted
  /\ lingering' = IF At(c, "saveIndex") THEN lingering \cup {ops[c].project} ELSE lingering
  /\ Become(c, NoOp)
  /\ UNCHANGED store

(* What was open while a list_active() was under way: a project counts     *)
(* while it is listable for what must be listed, from its first write for  *)
(* what may be.                                                            *)
Witness ==
  /\ throughout' = [c \in Caller |->
       IF At(c, "listed") THEN throughout[c]
       ELSE IF At(c, "listGet") THEN throughout[c] \cap Listable'
       ELSE Listable']
  /\ sometime' = [c \in Caller |->
       IF At(c, "listed") THEN sometime[c]
       ELSE IF At(c, "listGet") THEN sometime[c] \cup Open'
       ELSE Open']

Step(c) ==
  \/ \E p \in Project : CreateKey(c, p)
  \/ CreateIndex(c)
  \/ \E p \in Project, record \in ProjectRecord : SaveKey(c, p, record)
  \/ SaveIndex(c)
  \/ ListIds(c)
  \/ ListGet(c)
  \/ Use(c)
  \/ Raise(c)

CallersNext == \E c \in Caller : Step(c) /\ Witness

CallersSpec == CallersInit /\ [][CallersNext]_callersVars
-------------------------------------------------------------------------------
(* list_active() is not one command, but its answer is right for the time  *)
(* it took: it has every project that was listable all along and none that *)
(* was closed all along.  What "active" must mean, "not in a terminal      *)
(* status" (ports/store.py), is kept but for the projects of a create()    *)
(* cut off half way and those reopened by an old copy.                     *)
ListsWhatIsOpen ==
  \A c \in Caller : At(c, "listed") =>
    throughout[c] \subseteq ops[c].ids /\ ops[c].ids \subseteq sometime[c]

(* An open project is missing from the index only for one of three         *)
(* reasons: its create() is under way, its create() raised between the two *)
(* commands, or a save() reopened it (redis_store.py, create and save).    *)
OpenIsIndexed == Listable \subseteq index

(* A closed project is in the index only while the save() that closed it   *)
(* is between SET and ZREM, or after such a save() raised there: the cap   *)
(* check does not pay for the projects the crew has ever run               *)
(* (redis_store.py, save).                                                 *)
ClosedLeavesIndex ==
  \A p \in index \ Open :
    p \in lingering \/ \E c \in Caller : At(c, "saveIndex") /\ ops[c].project = p
===============================================================================
