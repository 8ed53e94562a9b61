------------------------------ MODULE LogShipping ------------------------------
(***************************************************************************)
(* The handler that ships a process's log records to Loki: emit() puts     *)
(* them into a bounded queue and never waits; a thread drains the queue    *)
(* once a second and pushes what it found; close(), called when the        *)
(* interpreter exits, drains it once more at the same time.  The thread is *)
(* a daemon: it ends with the process, wherever it is.                     *)
(***************************************************************************)
EXTENDS Naturals, Sequences, FiniteSets, SequencesExt

CONSTANTS
  MaxQueue,    \* max_queue
  MaxRecords   \* bound: records followed, the first ones logged

ASSUME LogAssumption == MaxQueue \in Nat \ {0} /\ MaxRecords \in Nat

Drainer == {"shipper", "closer"}

VARIABLES
  logged,   \* number of records followed, numbered as they are logged
  queue,    \* the records waiting
  batch,    \* [Drainer -> the records it has taken]
  doing,    \* [Drainer -> what it is doing]
  shipped,  \* [record -> how often Loki got it]
  dropped,  \* the records that found the queue full
  lost      \* the records taken and not delivered

log == <<logged, queue, batch, doing, shipped, dropped, lost>>

Record == 1..MaxRecords

LogTypeOK ==
  /\ logged \in 0..MaxRecords
  /\ queue \in Seq(Record) /\ Len(queue) <= MaxQueue
  /\ batch \in [Drainer -> Seq(Record)]
  /\ doing \in [Drainer -> {"waiting", "draining", "pushing", "over", "dead"}]
  /\ shipped \in [Record -> Nat]
  /\ dropped \subseteq Record /\ lost \subseteq Record

LogInit ==
  /\ logged = 0 /\ queue = <<>> /\ batch = [d \in Drainer |-> <<>>]
  /\ doing = [d \in Drainer |-> "waiting"]
  /\ shipped = [r \in Record |-> 0] /\ dropped = {} /\ lost = {}
-------------------------------------------------------------------------------
(* A slip: the queue has no limit. *)
EmitAlways ==
  IF logged = MaxRecords THEN UNCHANGED log
  ELSE /\ logged' = logged + 1
       /\ queue' = Append(queue, logged + 1)
       /\ UNCHANGED <<dropped, batch, doing, shipped, lost>>

(* emit(): put_nowait, and whatever it raises is swallowed. *)
EmitRecord ==
  IF logged = MaxRecords THEN UNCHANGED log
  ELSE /\ logged' = logged + 1
       /\ IF Len(queue) < MaxQueue
          THEN queue' = Append(queue, logged + 1) /\ UNCHANGED dropped
          ELSE dropped' = dropped \cup {logged + 1} /\ UNCHANGED queue
       /\ UNCHANGED <<batch, doing, shipped, lost>>

Does(d, before, after) == doing[d] = before /\ doing' = [doing EXCEPT ![d] = after]

(* The thread has slept; it looks whether to stop before, not after. *)
Wake ==
  /\ Does("shipper", "waiting", "draining")
  /\ doing["closer"] = "waiting"
  /\ UNCHANGED <<logged, queue, batch, shipped, dropped, lost>>

(* ... so it drains once more when it was asleep as close() began. *)
WakeLate ==
  /\ doing["closer"] # "waiting"
  /\ Does("shipper", "waiting", "draining") \/ Does("shipper", "waiting", "over")
  /\ UNCHANGED <<logged, queue, batch, shipped, dropped, lost>>

(* A slip: the queue is looked at, then emptied. *)
TakePeeking(d) ==
  /\ doing[d] = "draining" /\ queue # <<>>
  /\ \/ batch[d] = <<>> /\ batch' = [batch EXCEPT ![d] = queue] /\ UNCHANGED <<queue, doing>>
     \/ batch[d] # <<>> /\ queue' = <<>> /\ doing' = [doing EXCEPT ![d] = "pushing"]
        /\ UNCHANGED batch
  /\ UNCHANGED <<logged, shipped, dropped, lost>>

(* get_nowait, one by one, both drainers from one queue. *)
Take(d) ==
  /\ doing[d] = "draining" /\ queue # <<>>
  /\ batch' = [batch EXCEPT ![d] = Append(@, Head(queue))]
  /\ queue' = Tail(queue)
  /\ UNCHANGED <<logged, doing, shipped, dropped, lost>>

(* A slip: a thread that finds nothing ends. *)
TakenNone(d) ==
  /\ queue = <<>>
  /\ Does(d, "draining", IF batch[d] # <<>> THEN "pushing" ELSE "over")
  /\ UNCHANGED <<logged, queue, batch, shipped, dropped, lost>>

(* Empty: push what there is, or have nothing to push. *)
TakenAll(d) ==
  /\ queue = <<>>
  /\ Does(d, "draining", IF batch[d] # <<>> THEN "pushing"
                         ELSE IF d = "shipper" THEN "waiting" ELSE "over")
  /\ UNCHANGED <<logged, queue, batch, shipped, dropped, lost>>

(* The push: delivered; or not, and swallowed; or not, by something that   *)
(* is neither a URLError nor an OSError, which ends the thread.            *)
Push(d) ==
  /\ \/ /\ Does(d, "pushing", IF d = "shipper" THEN "waiting" ELSE "over")
        /\ \/ /\ shipped' = [r \in Record |-> shipped[r] + (IF r \in ToSet(batch[d]) THEN 1 ELSE 0)]
              /\ UNCHANGED lost
           \/ lost' = lost \cup ToSet(batch[d]) /\ UNCHANGED shipped
     \/ Does(d, "pushing", "dead") /\ lost' = lost \cup ToSet(batch[d]) /\ UNCHANGED shipped
  /\ batch' = [batch EXCEPT ![d] = <<>>]
  /\ UNCHANGED <<logged, queue, dropped>>

(* close(): the thread is told to stop, and the queue is drained here.     *)
Close ==
  /\ Does("closer", "waiting", "draining")
  /\ UNCHANGED <<logged, queue, batch, shipped, dropped, lost>>

Shipper == Wake \/ WakeLate \/ Take("shipper") \/ TakenAll("shipper") \/ Push("shipper")

Closer == Take("closer") \/ TakenAll("closer") \/ Push("closer")
-------------------------------------------------------------------------------
Times(r, records) == Cardinality({i \in DOMAIN records : records[i] = r})

(* Every record is in exactly one place: waiting, in the hands of one      *)
(* drainer, delivered once, dropped because the queue was full, or lost    *)
(* with its push -- also when close() drains the queue together with the   *)
(* thread (logging_setup.py, close).                                       *)
Accounted ==
  \A r \in 1..logged :
    Times(r, queue) + Times(r, batch["shipper"]) + Times(r, batch["closer"])
      + shipped[r]
      + (IF r \in dropped THEN 1 ELSE 0)
      + (IF r \in lost THEN 1 ELSE 0) = 1
===============================================================================
