----------------------------- MODULE AgentProcess -----------------------------
(***************************************************************************)
(* An agent's process: its turns, and the handler that ships what it logs  *)
(* of them.  The two meet where a step that fails is logged, and where the *)
(* loop ends and the interpreter exits, which closes the handler.  A pod   *)
(* that is deleted takes the process down at any moment.                   *)
(***************************************************************************)
EXTENDS AgentTurn, LogShipping

VARIABLE exited   \* the process is gone

vars == <<turn, log, exited>>

TypeOK == TurnTypeOK /\ LogTypeOK /\ exited \in BOOLEAN

Init == TurnInit /\ LogInit /\ exited = FALSE

(* telemetry.publish_failed, harness.turn_failed, agent.handler_failed *)
IsLogged ==
  \/ failures' # failures /\ at' # "down"
  \/ at # "sorry" /\ at' = "sorry"

Turn(step) ==
  /\ ~exited
  /\ step
  /\ IF IsLogged THEN EmitRecord ELSE UNCHANGED log
  /\ UNCHANGED exited

Ship == ~exited /\ Shipper /\ UNCHANGED <<turn, exited>>

(* The loop has ended: the interpreter exits, closing the handler. *)
Shutdown ==
  /\ ~exited /\ at = "down"
  /\ Close \/ Closer
  /\ UNCHANGED <<turn, exited>>

(* The process is gone once close() has returned, or when it is killed:    *)
(* the turn and what is still in the queue or in somebody's hands with it. *)
Exit ==
  /\ ~exited
  /\ exited' = TRUE
  /\ at' = "down" /\ calls' = 0 /\ tools' = NoTools /\ trail' = <<>> /\ unsaid' = {} /\ free' = {}
  /\ lost' = lost \cup ToSet(queue) \cup UNION {ToSet(batch[d]) : d \in Drainer}
  /\ queue' = <<>> /\ batch' = [d \in Drainer |-> <<>>]
  /\ doing' = [d \in Drainer |-> "over"]
  /\ UNCHANGED <<turns, failures, logged, shipped, dropped>>

Next == Turn(StartTurn) \/ Turn(TurnStep) \/ Ship \/ Shutdown \/ Exit

Spec == Init /\ [][Next]_vars

(* The model answers or raises, which is assumed of the provider, as its    *)
(* client is given no timeout; a tool returns or is timed out; the thread   *)
(* is scheduled and its push has a timeout of its own.                      *)
FairSpec ==
  /\ Spec
  /\ WF_vars(Turn(TurnStep)) /\ WF_vars(Ship) /\ WF_vars(Shutdown)
-------------------------------------------------------------------------------
(* Every turn comes to an end, whatever the model keeps asking for: the    *)
(* ceiling bounds it (agent_loop.py, "Nothing else bounds a turn").        *)
TurnEnds == at # "idle" ~> at \in {"idle", "down"}

(* A record that got into the queue leaves it, unless the thread has died  *)
(* of its push: then the queue fills, and nobody tells.  Only what is      *)
(* logged while the handler closes may find nobody to take it              *)
(* (logging_setup.py, _run).                                               *)
Shipped ==
  \A r \in Record : r \in ToSet(queue) ~>
    r \notin ToSet(queue) \/ doing["shipper"] = "dead" \/ doing["closer"] # "waiting"
===============================================================================
