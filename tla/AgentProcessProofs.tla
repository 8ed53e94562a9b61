-------------------------- MODULE AgentProcessProofs --------------------------
(***************************************************************************)
(* Safety of an agent's process for any number of tools, any ceiling of a  *)
(* turn, any queue and any number of turns, failures and records: what the *)
(* channel shows of a turn, what is billed of it, and where each record    *)
(* the process logs of it has gone.                                        *)
(***************************************************************************)
EXTENDS AgentProcess, FiniteSetTheorems, SequenceTheorems, TLAPS

(* An event of a turn goes out or is given up; either way it has been told. *)
Told == ToSet(trail) \cup unsaid

Tells(event) == Says(event) \/ Fails(event)

OfRound(kind, r, t) == [kind |-> kind, round |-> r, tool |-> t]

RoundKind == {"usage", "started", "finished", "error"}

Outcome(event) == event.kind \in {"finished", "error"}

Begun(event) == OfRound("started", event.round, event.tool)

Ended(event) == OfRound("finished", event.round, event.tool)

(* The calls of the model that have been billed. *)
Counted == IF at = "after" THEN calls - 1 ELSE calls

(* The steps of a turn know where they are. *)
InTurn ==
  /\ at \in {"after", "tools"} => calls >= 1
  /\ at # "tools" => tools = NoTools

(* An event is of a round there has been, and one of a tool names it. *)
RoundsTold ==
  \A event \in Told : event.kind \in RoundKind =>
    event.round <= Counted /\ (event.kind # "usage" => event.tool \in Tool)

StartedFirst ==
  \A i \in DOMAIN trail : Outcome(trail[i]) =>
    Begun(trail[i]) \in unsaid \/ \E j \in 1..i - 1 : trail[j] = Begun(trail[i])

OneOutcome ==
  \A i, j \in DOMAIN trail :
    /\ Outcome(trail[i]) /\ Outcome(trail[j])
    /\ trail[i].round = trail[j].round /\ trail[i].tool = trail[j].tool
    => i = j

(* In the round under way a tool has an outcome only once it has reported. *)
ReportedOnly ==
  at = "tools" => \A i \in DOMAIN trail :
    Outcome(trail[i]) /\ trail[i].round = calls => tools[trail[i].tool] = "reported"

RunningWasTold ==
  \A t \in Tool : tools[t] = "running" => OfRound("started", calls, t) \in Told

(* As long as the turn may still be answered, and once it has been, what   *)
(* was started is running now or has ended.                                *)
Answerable ==
  \/ at \in {"model", "after", "tools", "answer"}
  \/ \E i \in DOMAIN trail : trail[i].kind = "reply"

StartedEnds ==
  Answerable => \A i \in DOMAIN trail : trail[i].kind = "started" =>
    \/ Ended(trail[i]) \in Told
    \/ at = "tools" /\ trail[i].round = calls /\ tools[trail[i].tool] = "running"

ReplyIsLast ==
  \A i \in DOMAIN trail : trail[i].kind = "reply" => i = Len(trail) /\ at = "idle"

BillInOrder ==
  \A i, j \in DOMAIN trail :
    i < j /\ trail[i].kind = "usage" /\ trail[j].kind = "usage" => trail[i].round < trail[j].round

BillComplete ==
  /\ free \subseteq 1..Counted
  /\ \A r \in 1..Counted :
       r \in free <=> ~\E event \in Told : event.kind = "usage" /\ event.round = r

TurnInv ==
  /\ TurnTypeOK /\ InTurn /\ RoundsTold
  /\ StartedFirst /\ OneOutcome /\ ReportedOnly /\ RunningWasTold
  /\ StartedEnds /\ ReplyIsLast
  /\ BillInOrder /\ BillComplete

(* Every record logged is in one place, and only there. *)
Waiting == ToSet(queue)

Held(d) == ToSet(batch[d])

Delivered == {r \in Record : shipped[r] = 1}

Distinct(records) == \A i, j \in DOMAIN records : records[i] = records[j] => i = j

Apart ==
  /\ Waiting \cap (Held("shipper") \cup Held("closer") \cup Delivered \cup dropped \cup lost) = {}
  /\ Held("shipper") \cap (Held("closer") \cup Delivered \cup dropped \cup lost) = {}
  /\ Held("closer") \cap (Delivered \cup dropped \cup lost) = {}
  /\ Delivered \cap (dropped \cup lost) = {}
  /\ dropped \cap lost = {}

Everywhere ==
  Waiting \cup Held("shipper") \cup Held("closer") \cup Delivered \cup dropped \cup lost

LogInv ==
  /\ LogTypeOK
  /\ \A r \in Record : shipped[r] \in {0, 1}
  /\ Distinct(queue) /\ \A d \in Drainer : Distinct(batch[d])
  /\ Apart
  /\ Everywhere = 1..logged
-------------------------------------------------------------------------------
(* What an event of one kind looks like. *)
LEMMA EventShapes ==
  ASSUME NEW event \in Event
  PROVE  /\ event.kind \in RoundKind =>
              /\ event.round \in 1..Ceiling /\ event.tool \in 0..MaxTools
              /\ event = OfRound(event.kind, event.round, event.tool)
              /\ [event EXCEPT !.kind = "started"] = Begun(event)
              /\ [event EXCEPT !.kind = "finished"] = Ended(event)
         /\ event.kind \in RoundKind \cup {"reply", "model_call error", "handler error"}
<1>1. CASE event \in [kind : RoundKind, round : 1..Ceiling, tool : 0..MaxTools]
  <2>1. PICK kind \in RoundKind, r \in 1..Ceiling, t \in 0..MaxTools :
          event = [kind |-> kind, round |-> r, tool |-> t]
    BY <1>1, Zenon
  <2>2. event.kind = kind /\ event.round = r /\ event.tool = t
    BY <2>1
  <2>3. /\ [event EXCEPT !.kind = "started"] = [kind |-> "started", round |-> r, tool |-> t]
        /\ [event EXCEPT !.kind = "finished"] = [kind |-> "finished", round |-> r, tool |-> t]
    BY <2>1
  <2>4. QED
    BY <2>1, <2>2, <2>3 DEF OfRound, Begun, Ended
<1>2. CASE event \in [kind : {"reply", "model_call error", "handler error"}]
  BY <1>2 DEF RoundKind
<1>3. QED
  BY <1>1, <1>2 DEF Event, RoundKind

LEMMA RoundEvents ==
  ASSUME NEW kind \in RoundKind, NEW r \in 1..Ceiling, NEW t \in 0..MaxTools
  PROVE  /\ OfRound(kind, r, t) \in Event
         /\ OfRound(kind, r, t).kind = kind
         /\ OfRound(kind, r, t).round = r /\ OfRound(kind, r, t).tool = t
BY DEF OfRound, Event, RoundKind

LEMMA LastEvents ==
  ASSUME NEW kind \in {"reply", "model_call error", "handler error"}
  PROVE  [kind |-> kind] \in Event /\ [kind |-> kind].kind = kind
BY DEF Event

(* Telling adds the event to what has been told, and to the end of the     *)
(* trail if it is published.                                               *)
LEMMA TellingAdds ==
  ASSUME TurnTypeOK, NEW event \in Event, Tells(event)
  PROVE  /\ trail' \in Seq(Event) /\ unsaid' \subseteq Event
         /\ failures' \in 0..MaxFailures
         /\ Told' = Told \cup {event}
         /\ unsaid \subseteq unsaid'
         /\ \A i \in DOMAIN trail : i \in DOMAIN trail' /\ trail'[i] = trail[i]
         /\ \A i \in DOMAIN trail' :
              \/ i \in DOMAIN trail /\ Len(trail') >= Len(trail)
              \/ i = Len(trail) + 1 /\ i = Len(trail') /\ trail'[i] = event
<1>0. trail \in Seq(Event) /\ unsaid \subseteq Event /\ failures \in 0..MaxFailures
  BY DEF TurnTypeOK
<1>1. CASE Says(event)
  <2>1. trail' = Append(trail, event) /\ unsaid' = unsaid /\ failures' = failures
    BY <1>1 DEF Says
  <2>2. /\ trail' \in Seq(Event) /\ Len(trail') = Len(trail) + 1
        /\ DOMAIN trail = 1..Len(trail) /\ DOMAIN trail' = 1..Len(trail')
        /\ Len(trail) \in Nat
        /\ \A i \in 1..Len(trail) : trail'[i] = trail[i]
        /\ trail'[Len(trail) + 1] = event
    BY <1>0, <2>1, AppendProperties, LenProperties
  <2>3. ToSet(trail') = ToSet(trail) \cup {event}
    <3>1. \A e \in ToSet(trail') : e \in ToSet(trail) \cup {event}
      BY <2>2 DEF ToSet
    <3>2. \A e \in ToSet(trail) : e \in ToSet(trail')
      BY <2>2 DEF ToSet
    <3>3. event \in ToSet(trail')
      <4>1. Len(trail) + 1 \in DOMAIN trail'
        BY <2>2
      <4>2. QED
        BY <2>2, <4>1 DEF ToSet
    <3>4. QED
      BY <3>1, <3>2, <3>3
  <2>4. QED
    BY <1>0, <2>1, <2>2, <2>3 DEF Told
<1>2. CASE Fails(event)
  <2>1. trail' = trail /\ unsaid' = unsaid \cup {event} /\ failures' \in 0..MaxFailures
    BY <1>0, <1>2, TurnAssumption DEF Fails
  <2>2. DOMAIN trail = 1..Len(trail) /\ Len(trail) \in Nat
    BY <1>0, LenProperties
  <2>3. ToSet(trail') = ToSet(trail)
    BY <2>1
  <2>4. QED
    BY <1>0, <2>1, <2>2, <2>3 DEF Told
<1>3. QED
  BY <1>1, <1>2 DEF Tells
-------------------------------------------------------------------------------
(* What the types say of the trail. *)
LEMMA TrailTypes ==
  ASSUME TurnTypeOK
  PROVE  /\ Len(trail) \in Nat /\ DOMAIN trail = 1..Len(trail)
         /\ \A i \in DOMAIN trail : trail[i] \in Event /\ trail[i] \in Told
         /\ Told \subseteq Event
         /\ calls \in Nat /\ Counted \in Int
<1>1. trail \in Seq(Event) /\ unsaid \subseteq Event /\ calls \in 0..Ceiling
  BY DEF TurnTypeOK
<1>2. Len(trail) \in Nat /\ DOMAIN trail = 1..Len(trail)
  BY <1>1, LenProperties
<1>3. \A i \in DOMAIN trail : trail[i] \in Event
  BY <1>1, <1>2, ElementOfSeq
<1>4. \A i \in DOMAIN trail : trail[i] \in ToSet(trail)
  BY DEF ToSet
<1>5. ToSet(trail) \subseteq Event
  BY <1>3 DEF ToSet
<1>6. QED
  BY <1>1, <1>2, <1>3, <1>4, <1>5, TurnAssumption DEF Told, Counted

(* What is only about the trail survives one more event on it, if that one *)
(* keeps to the order.                                                     *)
LEMMA TrailGrowsInOrder ==
  ASSUME TurnTypeOK, StartedFirst, OneOutcome, BillInOrder,
         NEW event \in Event, Tells(event),
         Outcome(event) =>
           /\ Begun(event) \in Told
           /\ \A i \in DOMAIN trail :
                ~(/\ Outcome(trail[i])
                  /\ trail[i].round = event.round /\ trail[i].tool = event.tool),
         event.kind = "usage" =>
           \A i \in DOMAIN trail : trail[i].kind = "usage" => trail[i].round < event.round
  PROVE  StartedFirst' /\ OneOutcome' /\ BillInOrder'
<1>1. /\ unsaid \subseteq unsaid'
      /\ \A i \in DOMAIN trail : i \in DOMAIN trail' /\ trail'[i] = trail[i]
      /\ \A i \in DOMAIN trail' :
           i \in DOMAIN trail \/ (i = Len(trail) + 1 /\ trail'[i] = event)
  BY TellingAdds
<1>2. Len(trail) \in Nat /\ DOMAIN trail = 1..Len(trail)
  BY TrailTypes
<1>3. StartedFirst'
  <2>1. ASSUME NEW i \in DOMAIN trail', Outcome(trail'[i])
        PROVE  Begun(trail'[i]) \in unsaid' \/ \E j \in 1..i - 1 : trail'[j] = Begun(trail'[i])
    <3>1. CASE i \in DOMAIN trail
      <4>1. Begun(trail[i]) \in unsaid \/ \E j \in 1..i - 1 : trail[j] = Begun(trail[i])
        BY <1>1, <2>1, <3>1 DEF StartedFirst
      <4>2. \A j \in 1..i - 1 : trail'[j] = trail[j]
        BY <1>1, <1>2, <3>1
      <4>3. QED
        BY <1>1, <3>1, <4>1, <4>2
    <3>2. CASE i = Len(trail) + 1 /\ trail'[i] = event
      <4>1. Begun(event) \in unsaid \/ Begun(event) \in ToSet(trail)
        BY <2>1, <3>2 DEF Told
      <4>2. CASE Begun(event) \in ToSet(trail)
        <5>1. PICK j \in DOMAIN trail : trail[j] = Begun(event)
          BY <4>2 DEF ToSet
        <5>2. QED
          BY <1>1, <1>2, <3>2, <5>1
      <4>3. QED
        BY <1>1, <3>2, <4>1, <4>2
    <3>3. QED
      BY <1>1, <3>1, <3>2
  <2>2. QED
    BY <2>1 DEF StartedFirst, Outcome
<1>4. OneOutcome'
  <2>1. ASSUME NEW i \in DOMAIN trail', NEW j \in DOMAIN trail',
               Outcome(trail'[i]), Outcome(trail'[j]),
               trail'[i].round = trail'[j].round, trail'[i].tool = trail'[j].tool
        PROVE  i = j
    BY <1>1, <2>1 DEF OneOutcome
  <2>2. QED
    BY <2>1 DEF OneOutcome, Outcome
<1>5. BillInOrder'
  BY <1>1, <1>2 DEF BillInOrder
<1>6. QED
  BY <1>3, <1>4, <1>5

LEMMA TrailStays ==
  ASSUME UNCHANGED <<trail, unsaid>>
  PROVE  /\ Told' = Told
         /\ StartedFirst => StartedFirst'
         /\ OneOutcome => OneOutcome'
         /\ BillInOrder => BillInOrder'
BY DEF Told, StartedFirst, OneOutcome, BillInOrder, Outcome, Begun, ToSet

(* A turn that has nothing told yet. *)
LEMMA ClearedTurn ==
  ASSUME TurnTypeOK, at' \in {"model", "down"}, calls' = 0, tools' = NoTools,
         trail' = <<>>, unsaid' = {}, free' = {}, turns' \in 0..MaxTurns, failures' \in 0..MaxFailures
  PROVE  TurnInv'
<1>1. DOMAIN trail' = {} /\ ToSet(trail') = {} /\ trail' \in Seq(Event)
  BY EmptySeq DEF ToSet
<1>2. Told' = {}
  BY <1>1 DEF Told
<1>3. TurnTypeOK'
  BY <1>1, TurnAssumption DEF TurnTypeOK, NoTools
<1>4. InTurn' /\ RoundsTold' /\ RunningWasTold'
  BY <1>2 DEF InTurn, RoundsTold, RunningWasTold, NoTools
<1>5. StartedFirst' /\ OneOutcome' /\ ReportedOnly' /\ StartedEnds' /\ ReplyIsLast' /\ BillInOrder'
  BY <1>1 DEF StartedFirst, OneOutcome, ReportedOnly, StartedEnds, ReplyIsLast, BillInOrder
<1>6. BillComplete'
  <2>1. 1..Counted' = {}
    BY DEF Counted
  <2>2. QED
    BY <2>1 DEF BillComplete
<1>7. QED
  BY <1>3, <1>4, <1>5, <1>6 DEF TurnInv
-------------------------------------------------------------------------------
LEMMA StartTurnKeeps == TurnInv /\ StartTurn => TurnInv'
<1> SUFFICES ASSUME TurnInv, StartTurn PROVE TurnInv'
  OBVIOUS
<1>1. turns' \in 0..MaxTurns /\ failures' \in 0..MaxFailures /\ tools' = NoTools
  BY TurnAssumption DEF TurnInv, TurnTypeOK, InTurn, StartTurn
<1>2. QED
  BY <1>1, ClearedTurn DEF TurnInv, StartTurn

LEMMA CallModelKeeps == TurnInv /\ CallModel => TurnInv'
<1> SUFFICES ASSUME TurnInv, CallModel PROVE TurnInv'
  OBVIOUS
<1>1. /\ TurnTypeOK /\ InTurn /\ RoundsTold /\ StartedFirst /\ OneOutcome
      /\ StartedEnds /\ ReplyIsLast /\ BillInOrder /\ BillComplete
  BY DEF TurnInv
<1>2. at = "model" /\ at' \in {"after", "answer", "sorry"} /\ UNCHANGED <<trail, unsaid, free>>
  BY DEF CallModel
<1>3. Told' = Told /\ StartedFirst' /\ OneOutcome' /\ BillInOrder'
  BY <1>1, <1>2, TrailStays
<1>4. tools = NoTools /\ tools' = NoTools /\ calls \in 0..Ceiling
  BY <1>1, <1>2 DEF CallModel, InTurn, TurnTypeOK
<1>5. Counted' = Counted /\ calls' \in 0..Ceiling /\ InTurn'
  BY <1>2, <1>4, TurnAssumption DEF CallModel, Counted, InTurn
<1>6. TurnTypeOK'
  BY <1>1, <1>2, <1>4, <1>5 DEF CallModel, TurnTypeOK
<1>7. RoundsTold' /\ BillComplete'
  BY <1>1, <1>2, <1>3, <1>5 DEF RoundsTold, BillComplete
<1>8. ReportedOnly' /\ RunningWasTold'
  BY <1>2, <1>4 DEF ReportedOnly, RunningWasTold, NoTools
<1>9. ReplyIsLast'
  BY <1>1, <1>2 DEF ReplyIsLast
<1>10. StartedEnds'
  BY <1>1, <1>2, <1>3 DEF StartedEnds, Answerable, Ended
<1>11. QED
  BY <1>3, <1>5, <1>6, <1>7, <1>8, <1>9, <1>10 DEF TurnInv

LEMMA RoundEndsKeeps == TurnInv /\ RoundEnds => TurnInv'
<1> SUFFICES ASSUME TurnInv, RoundEnds PROVE TurnInv'
  OBVIOUS
<1>1. /\ TurnTypeOK /\ InTurn /\ RoundsTold /\ StartedFirst /\ OneOutcome
      /\ StartedEnds /\ ReplyIsLast /\ BillInOrder /\ BillComplete
  BY DEF TurnInv
<1>2. /\ at = "tools" /\ at' = "model" /\ UNCHANGED <<calls, trail, unsaid, free>>
      /\ tools' = NoTools /\ \A t \in Tool : tools[t] \in {"none", "reported"}
  BY DEF RoundEnds
<1>3. Told' = Told /\ StartedFirst' /\ OneOutcome' /\ BillInOrder'
  BY <1>1, <1>2, TrailStays
<1>4. Counted' = Counted /\ InTurn'
  BY <1>2 DEF Counted, InTurn
<1>5. TurnTypeOK'
  BY <1>1, <1>2 DEF RoundEnds, TurnTypeOK, NoTools
<1>6. RoundsTold' /\ BillComplete'
  BY <1>1, <1>2, <1>3, <1>4 DEF RoundsTold, BillComplete
<1>7. ReportedOnly' /\ RunningWasTold'
  BY <1>2 DEF ReportedOnly, RunningWasTold, NoTools
<1>8. ReplyIsLast'
  BY <1>1, <1>2 DEF ReplyIsLast
<1>9. StartedEnds'
  <2>1. ASSUME NEW i \in DOMAIN trail, trail[i].kind = "started"
        PROVE  Ended(trail[i]) \in Told
    <3>1. trail[i].tool \in Tool
      BY <1>1, <2>1, TrailTypes DEF RoundsTold, RoundKind
    <3>2. QED
      BY <1>1, <1>2, <2>1, <3>1 DEF StartedEnds, Answerable
  <2>2. QED
    BY <1>2, <1>3, <2>1 DEF StartedEnds, Ended
<1>10. QED
  BY <1>3, <1>4, <1>5, <1>6, <1>7, <1>8, <1>9 DEF TurnInv

(* Emit tells an event of the round under way. *)
LEMMA EmitTells ==
  ASSUME TurnTypeOK, calls >= 1, NEW kind \in RoundKind, NEW t \in 0..MaxTools, Emit(kind, t)
  PROVE  /\ OfRound(kind, calls, t) \in Event /\ Tells(OfRound(kind, calls, t))
         /\ OfRound(kind, calls, t).kind = kind
         /\ OfRound(kind, calls, t).round = calls /\ OfRound(kind, calls, t).tool = t
<1>1. calls \in 1..Ceiling
  BY TurnAssumption DEF TurnTypeOK
<1>2. QED
  BY <1>1, RoundEvents DEF Emit, Tells, OfRound

(* An answer that names its cost. *)
LEMMA MeteredKeeps ==
  ASSUME TurnInv, AfterModel, Emit("usage", 0), UNCHANGED free
  PROVE  TurnInv'
<1>1. /\ TurnTypeOK /\ InTurn /\ RoundsTold /\ StartedFirst /\ OneOutcome
      /\ StartedEnds /\ ReplyIsLast /\ BillInOrder /\ BillComplete
  BY DEF TurnInv
<1>2. PICK asked \in 0..MaxTools :
        /\ at' = IF asked = 0 THEN "answer" ELSE "tools"
        /\ tools' = [t \in Tool |-> IF t <= asked THEN "asked" ELSE "none"]
  BY DEF AfterModel
<1>3. at = "after" /\ UNCHANGED <<calls, turns>>
  BY DEF AfterModel
<1>4. calls >= 1 /\ calls \in 0..Ceiling /\ calls \in Nat
  BY <1>1, <1>3, TurnAssumption DEF InTurn, TurnTypeOK
<1> DEFINE event == OfRound("usage", calls, 0)
<1>5. /\ event \in Event /\ Tells(event)
      /\ event.kind = "usage" /\ event.round = calls
  BY <1>1, <1>3, <1>4, EmitTells, TurnAssumption DEF RoundKind
<1> HIDE DEF event
<1>6. /\ trail' \in Seq(Event) /\ unsaid' \subseteq Event /\ failures' \in 0..MaxFailures
      /\ Told' = Told \cup {event}
      /\ \A i \in DOMAIN trail : i \in DOMAIN trail' /\ trail'[i] = trail[i]
      /\ \A i \in DOMAIN trail' :
           i \in DOMAIN trail \/ (i = Len(trail) + 1 /\ trail'[i] = event)
  BY <1>1, <1>5, TellingAdds
<1>7. \A i \in DOMAIN trail :
        /\ trail[i] \in Event /\ trail[i] \in Told /\ trail[i].kind # "reply"
        /\ trail[i].kind \in RoundKind => trail[i].round \in 1..Ceiling /\ trail[i].round < calls
  <2>1. ASSUME NEW i \in DOMAIN trail
        PROVE  /\ trail[i] \in Event /\ trail[i] \in Told /\ trail[i].kind # "reply"
               /\ trail[i].kind \in RoundKind => trail[i].round \in 1..Ceiling /\ trail[i].round < calls
    <3>1. trail[i] \in Event /\ trail[i] \in Told
      BY <1>1, TrailTypes
    <3>2. trail[i].kind # "reply"
      BY <1>1, <1>3 DEF ReplyIsLast
    <3>3. ASSUME trail[i].kind \in RoundKind
          PROVE  trail[i].round \in 1..Ceiling /\ trail[i].round < calls
      <4>1. trail[i].round \in 1..Ceiling
        BY <3>1, <3>3, EventShapes
      <4>2. trail[i].round <= calls - 1
        BY <1>1, <1>3, <3>1, <3>3 DEF RoundsTold, Counted
      <4>3. QED
        BY <1>4, <4>1, <4>2, TurnAssumption
    <3>4. QED
      BY <3>1, <3>2, <3>3
  <2>2. QED
    BY <2>1
<1>8. StartedFirst' /\ OneOutcome' /\ BillInOrder'
  <2>1. ~Outcome(event)
    BY <1>5 DEF Outcome
  <2>2. \A i \in DOMAIN trail : trail[i].kind = "usage" => trail[i].round < event.round
    BY <1>5, <1>7 DEF RoundKind
  <2>3. QED
    BY <1>1, <1>5, <2>1, <2>2, TrailGrowsInOrder
<1>9. TurnTypeOK'
  <2>1. tools' \in [Tool -> {"none", "asked", "running", "reported"}]
    BY <1>2
  <2>2. at' \in {"answer", "tools"}
    BY <1>2
  <2>3. QED
    BY <1>1, <1>3, <1>6, <2>1, <2>2 DEF TurnTypeOK
<1>10. InTurn'
  <2>1. CASE asked = 0
    BY <1>2, <2>1 DEF InTurn, NoTools, Tool
  <2>2. CASE asked # 0
    BY <1>2, <1>3, <1>4, <2>2 DEF InTurn
  <2>3. QED
    BY <2>1, <2>2
<1>11. Counted' = calls /\ Counted = calls - 1
  BY <1>2, <1>3 DEF Counted
<1>12. RoundsTold'
  <2>1. ASSUME NEW e \in Told', e.kind \in RoundKind
        PROVE  e.round <= calls /\ (e.kind # "usage" => e.tool \in Tool)
    <3>1. CASE e \in Told
      <4>1. e.round <= calls - 1 /\ (e.kind # "usage" => e.tool \in Tool)
        BY <1>1, <1>11, <2>1, <3>1 DEF RoundsTold
      <4>2. e.round \in 1..Ceiling
        BY <1>1, <2>1, <3>1, TrailTypes, EventShapes
      <4>3. QED
        BY <1>4, <4>1, <4>2, TurnAssumption
    <3>2. CASE e = event
      BY <1>4, <1>5, <3>2
    <3>3. QED
      BY <1>6, <3>1, <3>2
  <2>2. QED
    BY <1>11, <2>1 DEF RoundsTold
<1>13. BillComplete'
  BY <1>1, <1>4, <1>5, <1>6, <1>11 DEF BillComplete
<1>14. ReportedOnly' /\ RunningWasTold'
  <2>1. \A i \in DOMAIN trail' : Outcome(trail'[i]) => trail'[i].round < calls
    BY <1>5, <1>6, <1>7 DEF Outcome, RoundKind
  <2>2. ReportedOnly'
    BY <1>3, <1>4, <1>5, <1>6, <1>7, <2>1 DEF ReportedOnly, Outcome, RoundKind
  <2>3. RunningWasTold'
    BY <1>2 DEF RunningWasTold
  <2>4. QED
    BY <2>2, <2>3
<1>15. ReplyIsLast'
  BY <1>5, <1>6, <1>7 DEF ReplyIsLast
<1>16. StartedEnds'
  BY <1>1, <1>3, <1>5, <1>6 DEF StartedEnds, Answerable, Ended
<1>17. QED
  BY <1>8, <1>9, <1>10, <1>12, <1>13, <1>14, <1>15, <1>16 DEF TurnInv

(* An answer that does not. *)
LEMMA FreeKeeps ==
  ASSUME TurnInv, AfterModel, free' = free \cup {calls}, UNCHANGED <<trail, unsaid, failures>>
  PROVE  TurnInv'
<1>1. /\ TurnTypeOK /\ InTurn /\ RoundsTold /\ StartedFirst /\ OneOutcome
      /\ StartedEnds /\ ReplyIsLast /\ BillInOrder /\ BillComplete
  BY DEF TurnInv
<1>2. PICK asked \in 0..MaxTools :
        /\ at' = IF asked = 0 THEN "answer" ELSE "tools"
        /\ tools' = [t \in Tool |-> IF t <= asked THEN "asked" ELSE "none"]
  BY DEF AfterModel
<1>3. at = "after" /\ UNCHANGED <<calls, turns>>
  BY DEF AfterModel
<1>4. calls >= 1 /\ calls \in 1..Ceiling
  BY <1>1, <1>3, TurnAssumption DEF InTurn, TurnTypeOK
<1>5. at' \in {"answer", "tools"} /\ Counted' = calls /\ Counted = calls - 1
  BY <1>2, <1>3 DEF Counted
<1>6. Told' = Told /\ StartedFirst' /\ OneOutcome' /\ BillInOrder'
  BY <1>1, TrailStays
<1>7. \A e \in Told : e.kind \in RoundKind => e.round \in 1..Ceiling /\ e.round < calls
  <2>1. ASSUME NEW e \in Told, e.kind \in RoundKind
        PROVE  e.round \in 1..Ceiling /\ e.round < calls
    <3>1. e.round \in 1..Ceiling
      BY <1>1, <2>1, TrailTypes, EventShapes
    <3>2. e.round <= calls - 1
      BY <1>1, <1>5, <2>1 DEF RoundsTold
    <3>3. QED
      BY <1>4, <3>1, <3>2, TurnAssumption
  <2>2. QED
    BY <2>1
<1>8. TurnTypeOK'
  <2>1. tools' \in [Tool -> {"none", "asked", "running", "reported"}]
    BY <1>2
  <2>2. QED
    BY <1>1, <1>3, <1>4, <1>5, <2>1 DEF TurnTypeOK
<1>9. InTurn'
  <2>1. CASE asked = 0
    BY <1>2, <2>1 DEF InTurn, NoTools, Tool
  <2>2. CASE asked # 0
    BY <1>2, <1>3, <1>4, <2>2 DEF InTurn
  <2>3. QED
    BY <2>1, <2>2
<1>10. RoundsTold'
  BY <1>1, <1>4, <1>5, <1>6, <1>7 DEF RoundsTold
<1>11. BillComplete'
  <2>1. free' \subseteq 1..calls
    BY <1>1, <1>4, <1>5 DEF BillComplete
  <2>2. ~\E event \in Told : event.kind = "usage" /\ event.round = calls
    BY <1>4, <1>7 DEF RoundKind
  <2>3. QED
    BY <1>1, <1>4, <1>5, <1>6, <2>1, <2>2 DEF BillComplete
<1>12. ReportedOnly' /\ RunningWasTold'
  <2>1. \A i \in DOMAIN trail : Outcome(trail[i]) => trail[i].round \in 1..Ceiling /\ trail[i].round < calls
    BY <1>1, <1>7, TrailTypes DEF Outcome, RoundKind
  <2>2. ReportedOnly'
    BY <1>3, <1>4, <2>1 DEF ReportedOnly, Outcome
  <2>3. RunningWasTold'
    BY <1>2 DEF RunningWasTold
  <2>4. QED
    BY <2>2, <2>3
<1>13. ReplyIsLast'
  BY <1>1, <1>3 DEF ReplyIsLast
<1>14. StartedEnds'
  BY <1>1, <1>3, <1>6 DEF StartedEnds, Answerable, Ended
<1>15. QED
  BY <1>6, <1>8, <1>9, <1>10, <1>11, <1>12, <1>13, <1>14 DEF TurnInv

LEMMA AfterModelKeeps == TurnInv /\ AfterModel => TurnInv'
<1> SUFFICES ASSUME TurnInv, AfterModel PROVE TurnInv'
  OBVIOUS
<1>1. \/ Emit("usage", 0) /\ UNCHANGED free
      \/ free' = free \cup {calls} /\ UNCHANGED <<trail, unsaid, failures>>
  BY DEF AfterModel
<1>2. QED
  BY <1>1, MeteredKeeps, FreeKeeps

LEMMA AnnounceKeeps == ASSUME NEW t \in Tool, TurnInv, Announce(t) PROVE TurnInv'
<1>1. /\ TurnTypeOK /\ InTurn /\ RoundsTold /\ StartedFirst /\ OneOutcome /\ ReportedOnly
      /\ RunningWasTold /\ StartedEnds /\ ReplyIsLast /\ BillInOrder /\ BillComplete
  BY DEF TurnInv
<1>2. /\ at = "tools" /\ tools[t] = "asked" /\ tools' = [tools EXCEPT ![t] = "running"]
      /\ UNCHANGED <<at, calls, free, turns>> /\ Emit("started", t)
  BY DEF Announce, Step
<1>3. /\ calls >= 1 /\ calls \in Nat /\ tools \in [Tool -> {"none", "asked", "running", "reported"}]
  BY <1>1, <1>2, TurnAssumption DEF InTurn, TurnTypeOK
<1> DEFINE event == OfRound("started", calls, t)
<1>4. /\ event \in Event /\ Tells(event)
      /\ event.kind = "started" /\ event.round = calls /\ event.tool = t
  BY <1>1, <1>2, <1>3, EmitTells, TurnAssumption DEF RoundKind, Tool
<1>5. OfRound("started", calls, t) = event
  OBVIOUS
<1> HIDE DEF event
<1>6. /\ trail' \in Seq(Event) /\ unsaid' \subseteq Event /\ failures' \in 0..MaxFailures
      /\ Told' = Told \cup {event}
      /\ \A i \in DOMAIN trail : i \in DOMAIN trail' /\ trail'[i] = trail[i]
      /\ \A i \in DOMAIN trail' :
           i \in DOMAIN trail \/ (i = Len(trail) + 1 /\ trail'[i] = event)
  BY <1>1, <1>4, TellingAdds
<1>7. StartedFirst' /\ OneOutcome' /\ BillInOrder'
  <2>1. ~Outcome(event) /\ event.kind # "usage"
    BY <1>4 DEF Outcome
  <2>2. QED
    BY <1>1, <1>4, <2>1, TrailGrowsInOrder
<1>8. TurnTypeOK'
  <2>1. tools' \in [Tool -> {"none", "asked", "running", "reported"}]
    BY <1>2, <1>3
  <2>2. QED
    BY <1>1, <1>2, <1>6, <2>1 DEF TurnTypeOK
<1>9. InTurn'
  BY <1>2, <1>3 DEF InTurn
<1>10. Counted' = calls /\ Counted = calls
  BY <1>2 DEF Counted
<1>11. RoundsTold' /\ BillComplete'
  BY <1>1, <1>2, <1>3, <1>4, <1>6, <1>10 DEF RoundsTold, BillComplete
<1>12. ReplyIsLast'
  BY <1>1, <1>2, <1>4, <1>6 DEF ReplyIsLast
<1>13. ReportedOnly'
  <2>1. ASSUME NEW i \in DOMAIN trail', Outcome(trail'[i]), trail'[i].round = calls
        PROVE  tools'[trail'[i].tool] = "reported"
    <3>1. i \in DOMAIN trail /\ trail'[i] = trail[i]
      BY <1>4, <1>6, <2>1 DEF Outcome
    <3>2. tools[trail[i].tool] = "reported"
      BY <1>1, <1>2, <2>1, <3>1 DEF ReportedOnly
    <3>3. trail[i].tool \in Tool
      BY <1>1, <2>1, <3>1, TrailTypes DEF RoundsTold, RoundKind, Outcome
    <3>4. QED
      BY <1>2, <1>3, <3>1, <3>2, <3>3
  <2>2. QED
    BY <1>2, <2>1 DEF ReportedOnly, Outcome
<1>14. RunningWasTold'
  BY <1>1, <1>2, <1>3, <1>5, <1>6 DEF RunningWasTold
<1>15. StartedEnds'
  <2>1. ASSUME NEW i \in DOMAIN trail', trail'[i].kind = "started"
        PROVE  \/ Ended(trail'[i]) \in Told'
               \/ trail'[i].round = calls /\ tools'[trail'[i].tool] = "running"
    <3>1. CASE i \in DOMAIN trail
      <4>1. trail'[i] = trail[i] /\ trail[i].tool \in Tool
        BY <1>1, <1>6, <2>1, <3>1, TrailTypes DEF RoundsTold, RoundKind
      <4>2. \/ Ended(trail[i]) \in Told
            \/ trail[i].round = calls /\ tools[trail[i].tool] = "running"
        BY <1>1, <1>2, <2>1, <3>1, <4>1 DEF StartedEnds, Answerable
      <4>3. QED
        BY <1>2, <1>3, <1>6, <4>1, <4>2
    <3>2. CASE trail'[i] = event
      BY <1>2, <1>3, <1>4, <3>2
    <3>3. QED
      BY <1>6, <3>1, <3>2
  <2>2. QED
    BY <1>2, <2>1 DEF StartedEnds, Ended
<1>16. QED
  BY <1>7, <1>8, <1>9, <1>11, <1>12, <1>13, <1>14, <1>15 DEF TurnInv

(* A tool that runs has no outcome in this round yet; the one it gets is   *)
(* the only one, and follows its start.                                    *)
LEMMA OutcomeIsNew ==
  ASSUME TurnInv, at = "tools", NEW t \in Tool, tools[t] = "running",
         NEW event, event.round = calls, event.tool = t
  PROVE  /\ Begun(event) \in Told
         /\ \A i \in DOMAIN trail :
              ~(/\ Outcome(trail[i])
                /\ trail[i].round = event.round /\ trail[i].tool = event.tool)
<1>1. Begun(event) \in Told
  BY DEF TurnInv, RunningWasTold, Begun
<1>2. ASSUME NEW i \in DOMAIN trail, Outcome(trail[i]), trail[i].round = calls, trail[i].tool = t
      PROVE  FALSE
  BY <1>2 DEF TurnInv, ReportedOnly
<1>3. QED
  BY <1>1, <1>2

LEMMA ToolReturnsKeeps ==
  ASSUME NEW t \in Tool, TurnInv, Step(t, "running", "reported"), Emit("finished", t)
  PROVE  TurnInv'
<1>1. /\ TurnTypeOK /\ InTurn /\ RoundsTold /\ StartedFirst /\ OneOutcome /\ ReportedOnly
      /\ RunningWasTold /\ StartedEnds /\ ReplyIsLast /\ BillInOrder /\ BillComplete
  BY DEF TurnInv
<1>2. /\ at = "tools" /\ tools[t] = "running" /\ tools' = [tools EXCEPT ![t] = "reported"]
      /\ UNCHANGED <<at, calls, free, turns>>
  BY DEF Step
<1>3. /\ calls >= 1 /\ calls \in Nat /\ tools \in [Tool -> {"none", "asked", "running", "reported"}]
  BY <1>1, <1>2, TurnAssumption DEF InTurn, TurnTypeOK
<1> DEFINE event == OfRound("finished", calls, t)
<1>4. /\ event \in Event /\ Tells(event)
      /\ event.kind = "finished" /\ event.round = calls /\ event.tool = t
  BY <1>1, <1>3, EmitTells, TurnAssumption DEF RoundKind, Tool
<1>5. \A e : e.round = calls /\ e.tool = t => Ended(e) = event
  BY DEF Ended
<1> HIDE DEF event
<1>6. /\ trail' \in Seq(Event) /\ unsaid' \subseteq Event /\ failures' \in 0..MaxFailures
      /\ Told' = Told \cup {event}
      /\ \A i \in DOMAIN trail : i \in DOMAIN trail' /\ trail'[i] = trail[i]
      /\ \A i \in DOMAIN trail' :
           i \in DOMAIN trail \/ (i = Len(trail) + 1 /\ trail'[i] = event)
  BY <1>1, <1>4, TellingAdds
<1>7. StartedFirst' /\ OneOutcome' /\ BillInOrder'
  <2>1. event.kind # "usage"
    BY <1>4
  <2>2. /\ Begun(event) \in Told
        /\ \A i \in DOMAIN trail :
             ~(/\ Outcome(trail[i])
               /\ trail[i].round = event.round /\ trail[i].tool = event.tool)
    BY <1>2, <1>4, OutcomeIsNew
  <2>3. QED
    BY <1>1, <1>4, <2>1, <2>2, TrailGrowsInOrder
<1>8. TurnTypeOK'
  <2>1. tools' \in [Tool -> {"none", "asked", "running", "reported"}]
    BY <1>2, <1>3
  <2>2. QED
    BY <1>1, <1>2, <1>6, <2>1 DEF TurnTypeOK
<1>9. InTurn'
  BY <1>2, <1>3 DEF InTurn
<1>10. Counted' = calls /\ Counted = calls
  BY <1>2 DEF Counted
<1>11. RoundsTold' /\ BillComplete'
  BY <1>1, <1>2, <1>3, <1>4, <1>6, <1>10 DEF RoundsTold, BillComplete
<1>12. ReplyIsLast'
  BY <1>1, <1>2, <1>4, <1>6 DEF ReplyIsLast
<1>13. ReportedOnly'
  <2>1. ASSUME NEW i \in DOMAIN trail', Outcome(trail'[i]), trail'[i].round = calls
        PROVE  tools'[trail'[i].tool] = "reported"
    <3>1. CASE i \in DOMAIN trail
      <4>1. trail'[i] = trail[i] /\ Outcome(trail[i]) /\ trail[i].round = calls
        BY <1>6, <2>1, <3>1
      <4>2. tools[trail[i].tool] = "reported"
        BY <1>1, <1>2, <3>1, <4>1 DEF ReportedOnly
      <4>3. trail[i].tool \in Tool
        BY <1>1, <3>1, <4>1, TrailTypes DEF RoundsTold, RoundKind, Outcome
      <4>4. QED
        BY <1>2, <1>3, <4>1, <4>2, <4>3
    <3>2. CASE trail'[i] = event
      BY <1>2, <1>3, <1>4, <3>2
    <3>3. QED
      BY <1>6, <3>1, <3>2
  <2>2. QED
    BY <1>2, <2>1 DEF ReportedOnly, Outcome
<1>14. RunningWasTold'
  BY <1>1, <1>2, <1>3, <1>6 DEF RunningWasTold
<1>15. StartedEnds'
  <2>1. ASSUME NEW i \in DOMAIN trail', trail'[i].kind = "started"
        PROVE  \/ Ended(trail'[i]) \in Told'
               \/ trail'[i].round = calls /\ tools'[trail'[i].tool] = "running"
    <3>1. i \in DOMAIN trail /\ trail'[i] = trail[i]
      BY <1>4, <1>6, <2>1
    <3>2. trail[i].tool \in Tool
      BY <1>1, <2>1, <3>1, TrailTypes DEF RoundsTold, RoundKind
    <3>3. \/ Ended(trail[i]) \in Told
          \/ trail[i].round = calls /\ tools[trail[i].tool] = "running"
      BY <1>1, <1>2, <2>1, <3>1 DEF StartedEnds, Answerable
    <3>4. CASE Ended(trail[i]) \in Told
      BY <1>6, <3>1, <3>4
    <3>5. CASE trail[i].round = calls /\ trail[i].tool = t
      BY <1>5, <1>6, <3>1, <3>5
    <3>6. CASE trail[i].round = calls /\ tools[trail[i].tool] = "running" /\ trail[i].tool # t
      BY <1>2, <1>3, <3>1, <3>2, <3>6
    <3>7. QED
      BY <3>3, <3>4, <3>5, <3>6
  <2>2. QED
    BY <1>2, <2>1 DEF StartedEnds, Ended
<1>16. QED
  BY <1>7, <1>8, <1>9, <1>11, <1>12, <1>13, <1>14, <1>15 DEF TurnInv

LEMMA ToolRaisesKeeps ==
  ASSUME NEW t \in Tool, TurnInv, at = "tools", tools[t] = "running",
         at' = "sorry", tools' = NoTools, Emit("error", t), UNCHANGED <<calls, free, turns>>
  PROVE  TurnInv'
<1>1. /\ TurnTypeOK /\ InTurn /\ RoundsTold /\ StartedFirst /\ OneOutcome
      /\ ReplyIsLast /\ BillInOrder /\ BillComplete
  BY DEF TurnInv
<1>2. calls >= 1 /\ calls \in Nat
  BY <1>1, TurnAssumption DEF InTurn, TurnTypeOK
<1> DEFINE event == OfRound("error", calls, t)
<1>3. /\ event \in Event /\ Tells(event)
      /\ event.kind = "error" /\ event.round = calls /\ event.tool = t
  BY <1>1, <1>2, EmitTells, TurnAssumption DEF RoundKind, Tool
<1> HIDE DEF event
<1>4. /\ trail' \in Seq(Event) /\ unsaid' \subseteq Event /\ failures' \in 0..MaxFailures
      /\ Told' = Told \cup {event}
      /\ \A i \in DOMAIN trail : i \in DOMAIN trail' /\ trail'[i] = trail[i]
      /\ \A i \in DOMAIN trail' :
           i \in DOMAIN trail \/ (i = Len(trail) + 1 /\ trail'[i] = event)
  BY <1>1, <1>3, TellingAdds
<1>5. StartedFirst' /\ OneOutcome' /\ BillInOrder'
  <2>1. event.kind # "usage"
    BY <1>3
  <2>2. /\ Begun(event) \in Told
        /\ \A i \in DOMAIN trail :
             ~(/\ Outcome(trail[i])
               /\ trail[i].round = event.round /\ trail[i].tool = event.tool)
    BY <1>3, OutcomeIsNew
  <2>3. QED
    BY <1>1, <1>3, <2>1, <2>2, TrailGrowsInOrder
<1>6. TurnTypeOK'
  <2>1. tools' \in [Tool -> {"none", "asked", "running", "reported"}]
    BY DEF NoTools
  <2>2. QED
    BY <1>1, <1>4, <2>1 DEF TurnTypeOK
<1>7. InTurn'
  BY DEF InTurn
<1>8. Counted' = calls /\ Counted = calls
  BY DEF Counted
<1>9. RoundsTold' /\ BillComplete'
  BY <1>1, <1>2, <1>3, <1>4, <1>8 DEF RoundsTold, BillComplete
<1>10. \A i \in DOMAIN trail' : trail'[i].kind # "reply"
  BY <1>1, <1>3, <1>4 DEF ReplyIsLast
<1>11. ReplyIsLast' /\ StartedEnds'
  BY <1>10 DEF ReplyIsLast, StartedEnds, Answerable
<1>12. ReportedOnly' /\ RunningWasTold'
  BY DEF ReportedOnly, RunningWasTold, NoTools
<1>13. QED
  BY <1>5, <1>6, <1>7, <1>9, <1>11, <1>12 DEF TurnInv

LEMMA ReportKeeps == ASSUME NEW t \in Tool, TurnInv, Report(t) PROVE TurnInv'
<1>1. CASE Step(t, "running", "reported") /\ Emit("finished", t)
  BY <1>1, ToolReturnsKeeps
<1>2. CASE /\ at = "tools" /\ tools[t] = "running" /\ at' = "sorry" /\ tools' = NoTools
           /\ Emit("error", t) /\ UNCHANGED <<calls, free, turns>>
  BY <1>2, ToolRaisesKeeps
<1>3. QED
  BY <1>1, <1>2 DEF Report

(* The turn's last word, published or not. *)
LEMMA LastWordKeeps ==
  ASSUME TurnInv, at \in {"answer", "sorry", "handler"}, at' \in {"idle", "handler", "down"},
         NEW kind \in {"reply", "model_call error", "handler error"},
         Tells([kind |-> kind]), trail' # trail => at' = "idle", kind = "reply" => at = "answer",
         UNCHANGED <<calls, tools, free, turns>>
  PROVE  TurnInv'
<1>1. /\ TurnTypeOK /\ InTurn /\ RoundsTold /\ StartedFirst /\ OneOutcome
      /\ StartedEnds /\ ReplyIsLast /\ BillInOrder /\ BillComplete
  BY DEF TurnInv
<1> DEFINE event == [kind |-> kind]
<1>2. event \in Event /\ event.kind = kind /\ Tells(event)
  BY LastEvents
<1> HIDE DEF event
<1>3. /\ trail' \in Seq(Event) /\ unsaid' \subseteq Event /\ failures' \in 0..MaxFailures
      /\ Told' = Told \cup {event}
      /\ \A i \in DOMAIN trail : i \in DOMAIN trail' /\ trail'[i] = trail[i]
      /\ \A i \in DOMAIN trail' :
           \/ i \in DOMAIN trail /\ Len(trail') >= Len(trail)
           \/ i = Len(trail) + 1 /\ i = Len(trail') /\ trail'[i] = event
  BY <1>1, <1>2, TellingAdds
<1>4. \A i \in DOMAIN trail : trail[i].kind # "reply"
  BY <1>1 DEF ReplyIsLast
<1>5. tools' = NoTools /\ InTurn'
  BY <1>1 DEF InTurn
<1>6. StartedFirst' /\ OneOutcome' /\ BillInOrder'
  <2>1. ~Outcome(event) /\ event.kind # "usage"
    BY <1>2 DEF Outcome
  <2>2. QED
    BY <1>1, <1>2, <2>1, TrailGrowsInOrder
<1>7. TurnTypeOK'
  BY <1>1, <1>3 DEF TurnTypeOK
<1>8. Counted' = Counted
  BY DEF Counted
<1>9. RoundsTold' /\ BillComplete'
  <2>1. event.kind \notin RoundKind
    BY <1>2 DEF RoundKind
  <2>2. RoundsTold'
    BY <1>1, <1>3, <1>8, <2>1 DEF RoundsTold
  <2>3. event.kind # "usage" /\ free' = free
    BY <2>1 DEF RoundKind
  <2>4. QED
    BY <1>1, <1>3, <1>8, <2>2, <2>3 DEF BillComplete
<1>10. ReplyIsLast'
  <2>1. ASSUME NEW i \in DOMAIN trail', trail'[i].kind = "reply"
        PROVE  i = Len(trail') /\ at' = "idle"
    <3>1. i \notin DOMAIN trail /\ i = Len(trail')
      BY <1>3, <1>4, <2>1
    <3>2. QED
      BY <2>1, <3>1
  <2>2. QED
    BY <2>1 DEF ReplyIsLast
<1>11. ReportedOnly' /\ RunningWasTold'
  BY <1>5 DEF ReportedOnly, RunningWasTold, NoTools
<1>12. StartedEnds'
  <2>1. CASE kind = "reply"
    <3>1. ASSUME NEW i \in DOMAIN trail', trail'[i].kind = "started"
          PROVE  Ended(trail'[i]) \in Told'
      BY <1>1, <1>2, <1>3, <2>1, <3>1 DEF StartedEnds, Answerable
    <3>2. QED
      BY <3>1 DEF StartedEnds, Ended
  <2>2. CASE kind # "reply"
    <3>1. ~Answerable'
      BY <1>2, <1>3, <1>4, <2>2 DEF Answerable
    <3>2. QED
      BY <3>1 DEF StartedEnds
  <2>3. QED
    BY <2>1, <2>2
<1>13. QED
  BY <1>5, <1>6, <1>7, <1>9, <1>10, <1>11, <1>12 DEF TurnInv

LEMMA SilentAnswerKeeps ==
  ASSUME TurnInv, at = "answer", at' = "idle",
         UNCHANGED <<calls, tools, trail, unsaid, free, turns, failures>>
  PROVE  TurnInv'
<1>1. Told' = Told /\ Counted' = Counted
  BY TrailStays DEF Counted
<1>2. StartedFirst' /\ OneOutcome' /\ BillInOrder'
  BY TrailStays DEF TurnInv
<1>3. TurnTypeOK' /\ InTurn' /\ RunningWasTold' /\ ReportedOnly'
  BY <1>1 DEF TurnInv, TurnTypeOK, InTurn, RunningWasTold, ReportedOnly
<1>4. RoundsTold' /\ BillComplete'
  BY <1>1 DEF TurnInv, RoundsTold, BillComplete
<1>5. ReplyIsLast' /\ StartedEnds'
  BY <1>1 DEF TurnInv, ReplyIsLast, StartedEnds, Answerable, Ended
<1>6. QED
  BY <1>2, <1>3, <1>4, <1>5 DEF TurnInv

LEMMA AnswerKeeps == TurnInv /\ Answer => TurnInv'
<1> SUFFICES ASSUME TurnInv, Answer PROVE TurnInv'
  OBVIOUS
<1>1. at = "answer" /\ UNCHANGED <<calls, tools, free, turns>>
  BY DEF Answer
<1>2. CASE at' = "idle" /\ UNCHANGED <<trail, unsaid, failures>>
  BY <1>1, <1>2, SilentAnswerKeeps
<1>3. CASE at' = "idle" /\ Says([kind |-> "reply"])
  BY <1>1, <1>3, LastWordKeeps DEF Tells
<1>4. CASE at' = "handler" /\ Fails([kind |-> "reply"])
  <2>1. trail' = trail
    BY <1>4 DEF Fails
  <2>2. QED
    BY <1>1, <1>4, <2>1, LastWordKeeps DEF Tells
<1>5. QED
  BY <1>2, <1>3, <1>4 DEF Answer

LEMMA ApologiseKeeps == TurnInv /\ Apologise => TurnInv'
<1> SUFFICES ASSUME TurnInv, Apologise PROVE TurnInv'
  OBVIOUS
<1>1. PICK kind \in {"model_call error", "handler error"} :
        /\ at \in {"sorry", "handler"}
        /\ \/ at' = "idle" /\ Says([kind |-> kind])
           \/ at' \in {"handler", "down"} /\ Fails([kind |-> kind])
  BY DEF Apologise
<1>2. UNCHANGED <<calls, tools, free, turns>>
  BY DEF Apologise
<1>3. at' \in {"idle", "handler", "down"} /\ (trail' # trail => at' = "idle")
  BY <1>1 DEF Fails
<1>4. Tells([kind |-> kind])
  BY <1>1 DEF Tells
<1>5. QED
  BY <1>1, <1>2, <1>3, <1>4, LastWordKeeps

LEMMA TurnStays == TurnInv /\ UNCHANGED turn => TurnInv'
<1> SUFFICES ASSUME TurnInv, UNCHANGED turn PROVE TurnInv'
  OBVIOUS
<1>0. UNCHANGED <<at, calls, tools, trail, unsaid, free, turns, failures>>
  BY DEF turn
<1>1. Told' = Told /\ Counted' = Counted
  BY <1>0, TrailStays DEF Counted
<1>2. StartedFirst' /\ OneOutcome' /\ BillInOrder'
  BY <1>0, TrailStays DEF TurnInv
<1>3. TurnTypeOK' /\ InTurn' /\ RunningWasTold' /\ ReportedOnly'
  BY <1>0, <1>1 DEF TurnInv, TurnTypeOK, InTurn, RunningWasTold, ReportedOnly, Outcome
<1>4. RoundsTold' /\ BillComplete'
  BY <1>0, <1>1 DEF TurnInv, RoundsTold, BillComplete
<1>5. ReplyIsLast' /\ StartedEnds'
  BY <1>0, <1>1 DEF TurnInv, ReplyIsLast, StartedEnds, Answerable, Ended
<1>6. QED
  BY <1>2, <1>3, <1>4, <1>5 DEF TurnInv

LEMMA TurnStepKeeps == TurnInv /\ TurnStep => TurnInv'
BY CallModelKeeps, AfterModelKeeps, RoundEndsKeeps, AnswerKeeps, ApologiseKeeps,
   AnnounceKeeps, ReportKeeps DEF TurnStep
-------------------------------------------------------------------------------
(* A record put at the end of a list, and one taken from its front. *)
LEMMA PuttingLast ==
  ASSUME NEW S, NEW records \in Seq(S), NEW r \in S, Distinct(records), r \notin ToSet(records)
  PROVE  /\ Append(records, r) \in Seq(S) /\ Len(Append(records, r)) = Len(records) + 1
         /\ ToSet(Append(records, r)) = ToSet(records) \cup {r}
         /\ Distinct(Append(records, r))
<1> DEFINE after == Append(records, r)
<1>1. /\ after \in Seq(S) /\ Len(after) = Len(records) + 1 /\ Len(records) \in Nat
      /\ DOMAIN records = 1..Len(records) /\ DOMAIN after = 1..Len(records) + 1
      /\ \A i \in 1..Len(records) : after[i] = records[i]
      /\ after[Len(records) + 1] = r
  BY AppendProperties, LenProperties
<1> HIDE DEF after
<1>2. \A i \in DOMAIN records : records[i] # r
  BY DEF ToSet
<1>3. Distinct(after)
  BY <1>1, <1>2 DEF Distinct
<1>4. ToSet(after) = ToSet(records) \cup {r}
  <2>1. \A e \in ToSet(after) : e \in ToSet(records) \cup {r}
    BY <1>1 DEF ToSet
  <2>2. \A e \in ToSet(records) : e \in ToSet(after)
    BY <1>1 DEF ToSet
  <2>3. Len(records) + 1 \in DOMAIN after
    BY <1>1
  <2>4. r \in ToSet(after)
    BY <1>1, <2>3 DEF ToSet
  <2>5. QED
    BY <2>1, <2>2, <2>4
<1>5. QED
  BY <1>1, <1>3, <1>4 DEF after

LEMMA TakingFirst ==
  ASSUME NEW S, NEW records \in Seq(S), records # <<>>, Distinct(records)
  PROVE  /\ Tail(records) \in Seq(S) /\ Len(Tail(records)) = Len(records) - 1
         /\ Len(records) \in Nat
         /\ Head(records) \in ToSet(records) /\ Head(records) \in S
         /\ ToSet(Tail(records)) = ToSet(records) \ {Head(records)}
         /\ Distinct(Tail(records))
<1> DEFINE rest == Tail(records)
<1>1. /\ rest \in Seq(S) /\ Len(rest) = Len(records) - 1 /\ Len(records) \in Nat
      /\ Len(records) >= 1 /\ Head(records) = records[1]
      /\ DOMAIN records = 1..Len(records) /\ DOMAIN rest = 1..Len(records) - 1
      /\ \A i \in 1..Len(records) - 1 : rest[i] = records[i + 1]
  BY HeadTailProperties, LenProperties, EmptySeq
<1>2. 1 \in DOMAIN records /\ records[1] \in S /\ records[1] \in ToSet(records)
  BY <1>1, ElementOfSeq DEF ToSet
<1> HIDE DEF rest
<1>3. Distinct(rest)
  BY <1>1 DEF Distinct
<1>4. \A e \in ToSet(rest) : e \in ToSet(records) /\ e # records[1]
  <2>1. ASSUME NEW i \in DOMAIN rest
        PROVE  rest[i] \in ToSet(records) /\ rest[i] # records[1]
    <3>1. i + 1 \in DOMAIN records /\ rest[i] = records[i + 1] /\ i + 1 # 1
      BY <1>1
    <3>2. QED
      BY <1>2, <3>1 DEF ToSet, Distinct
  <2>2. QED
    BY <2>1 DEF ToSet
<1>5. ASSUME NEW e \in ToSet(records), e # records[1]
      PROVE  e \in ToSet(rest)
  <2>1. PICK i \in DOMAIN records : records[i] = e
    BY DEF ToSet
  <2>2. i - 1 \in DOMAIN rest /\ rest[i - 1] = e
    BY <1>1, <1>5, <2>1
  <2>3. QED
    BY <2>2 DEF ToSet
<1>6. ToSet(rest) = ToSet(records) \ {records[1]}
  BY <1>4, <1>5
<1>7. QED
  BY <1>1, <1>2, <1>3, <1>6 DEF rest

LEMMA NothingListed == ToSet(<<>>) = {} /\ Distinct(<<>>) /\ <<>> \in Seq(Record) /\ Len(<<>>) = 0
BY EmptySeq DEF ToSet, Distinct

(* How often a record is on a list of distinct records. *)
LEMMA TimesOnList ==
  ASSUME NEW records, NEW r, Distinct(records)
  PROVE  Times(r, records) = IF r \in ToSet(records) THEN 1 ELSE 0
<1>1. CASE r \in ToSet(records)
  <2>1. PICK i \in DOMAIN records : records[i] = r
    BY <1>1 DEF ToSet
  <2>2. {j \in DOMAIN records : records[j] = r} = {i}
    BY <2>1 DEF Distinct
  <2>3. QED
    BY <1>1, <2>2, FS_Singleton DEF Times
<1>2. CASE r \notin ToSet(records)
  <2>1. {j \in DOMAIN records : records[j] = r} = {}
    BY <1>2 DEF ToSet
  <2>2. QED
    BY <1>2, <2>1, FS_EmptySet DEF Times
<1>3. QED
  BY <1>1, <1>2
-------------------------------------------------------------------------------
LEMMA RecordIsNew ==
  ASSUME LogInv, logged # MaxRecords
  PROVE  /\ logged + 1 \in Record /\ logged + 1 \in 0..MaxRecords
         /\ logged + 1 \notin Everywhere
         /\ 1..logged + 1 = Everywhere \cup {logged + 1}
<1>1. logged \in 0..MaxRecords /\ Everywhere = 1..logged /\ MaxRecords \in Nat
  BY LogAssumption DEF LogInv, LogTypeOK
<1>2. QED
  BY <1>1 DEF Record

LEMMA EmitRecordKeeps == LogInv /\ EmitRecord => LogInv'
<1> SUFFICES ASSUME LogInv, EmitRecord PROVE LogInv'
  OBVIOUS
<1>1. CASE logged = MaxRecords
  <2>1. UNCHANGED <<logged, queue, batch, doing, shipped, dropped, lost>>
    BY <1>1 DEF EmitRecord, log
  <2>2. QED
    BY <2>1 DEF LogInv, LogTypeOK, Distinct, Apart, Everywhere, Waiting, Held, Delivered
<1>2. CASE logged # MaxRecords
  <2> DEFINE r == logged + 1
  <2>1. r \in Record /\ r \in 0..MaxRecords /\ r \notin Everywhere /\ 1..r = Everywhere \cup {r}
    BY <1>2, RecordIsNew
  <2>2. logged' = r /\ UNCHANGED <<batch, doing, shipped, lost>>
    BY <1>2 DEF EmitRecord
  <2> HIDE DEF r
  <2>3. Held("shipper")' = Held("shipper") /\ Held("closer")' = Held("closer") /\ Delivered' = Delivered
    BY <2>2 DEF Held, Delivered
  <2>4. r \notin ToSet(queue)
    BY <2>1 DEF Everywhere, Waiting
  <2>5. CASE Len(queue) < MaxQueue /\ queue' = Append(queue, r) /\ UNCHANGED dropped
    <3>1. /\ queue' \in Seq(Record) /\ Len(queue') <= MaxQueue
          /\ Waiting' = Waiting \cup {r} /\ Distinct(queue')
      <4>1. queue \in Seq(Record) /\ Distinct(queue) /\ Len(queue) \in Nat
        BY LenProperties DEF LogInv, LogTypeOK
      <4>2. QED
        BY <2>1, <2>4, <2>5, <4>1, PuttingLast, LogAssumption DEF Waiting
    <3>2. Everywhere' = Everywhere \cup {r}
      BY <2>2, <2>3, <2>5, <3>1 DEF Everywhere
    <3>3. Apart'
      BY <2>1, <2>2, <2>3, <2>5, <3>1 DEF LogInv, Apart, Everywhere
    <3>4. LogTypeOK'
      BY <2>1, <2>2, <2>5, <3>1 DEF LogInv, LogTypeOK
    <3>5. QED
      BY <2>1, <2>2, <3>1, <3>2, <3>3, <3>4 DEF LogInv, Distinct
  <2>6. CASE dropped' = dropped \cup {r} /\ UNCHANGED queue
    <3>1. Waiting' = Waiting
      BY <2>6 DEF Waiting
    <3>2. Everywhere' = Everywhere \cup {r}
      BY <2>2, <2>3, <2>6, <3>1 DEF Everywhere
    <3>3. Apart'
      BY <2>1, <2>2, <2>3, <2>6, <3>1 DEF LogInv, Apart, Everywhere
    <3>4. LogTypeOK'
      BY <2>1, <2>2, <2>6 DEF LogInv, LogTypeOK
    <3>5. QED
      BY <2>1, <2>2, <2>6, <3>2, <3>3, <3>4 DEF LogInv, Distinct
  <2>7. QED
    BY <1>2, <2>5, <2>6 DEF EmitRecord, r
<1>3. QED
  BY <1>1, <1>2

(* A drainer that only goes on to do something else. *)
LEMMA GoingOnKeeps ==
  ASSUME LogInv, NEW d \in Drainer, NEW before,
         NEW after \in {"waiting", "draining", "pushing", "over", "dead"},
         Does(d, before, after), UNCHANGED <<logged, queue, batch, shipped, dropped, lost>>
  PROVE  LogInv'
<1>1. doing' \in [Drainer -> {"waiting", "draining", "pushing", "over", "dead"}]
  BY DEF LogInv, LogTypeOK, Does
<1>2. LogTypeOK'
  BY <1>1 DEF LogInv, LogTypeOK
<1>3. Apart' /\ Everywhere' = Everywhere
  BY DEF LogInv, Apart, Everywhere, Waiting, Held, Delivered
<1>4. QED
  BY <1>2, <1>3 DEF LogInv, Distinct

LEMMA TakeKeeps == ASSUME NEW d \in Drainer, LogInv, Take(d) PROVE LogInv'
<1> DEFINE r == Head(queue)
<1>1. /\ queue # <<>> /\ queue' = Tail(queue)
      /\ batch' = [batch EXCEPT ![d] = Append(@, r)]
      /\ UNCHANGED <<logged, doing, shipped, dropped, lost>>
  BY DEF Take
<1>2. /\ queue \in Seq(Record) /\ Len(queue) <= MaxQueue /\ Distinct(queue)
      /\ batch \in [Drainer -> Seq(Record)]
      /\ \A e \in Drainer : batch[e] \in Seq(Record) /\ Distinct(batch[e])
  BY DEF LogInv, LogTypeOK
<1>3. /\ queue' \in Seq(Record) /\ Len(queue') <= MaxQueue
      /\ r \in Waiting /\ r \in Record
      /\ Waiting' = Waiting \ {r} /\ Distinct(queue')
  BY <1>1, <1>2, TakingFirst, LogAssumption DEF Waiting
<1> HIDE DEF r
<1>4. r \notin ToSet(batch[d])
  BY <1>3 DEF LogInv, Apart, Held, Drainer
<1>5. /\ Append(batch[d], r) \in Seq(Record) /\ Distinct(Append(batch[d], r))
      /\ ToSet(Append(batch[d], r)) = ToSet(batch[d]) \cup {r}
  BY <1>2, <1>3, <1>4, PuttingLast
<1>6. batch'[d] = Append(batch[d], r) /\ \A e \in Drainer \ {d} : batch'[e] = batch[e]
  BY <1>1, <1>2
<1>7. /\ Held(d)' = Held(d) \cup {r}
      /\ \A e \in Drainer \ {d} : Held(e)' = Held(e)
  BY <1>5, <1>6 DEF Held
<1>8. Delivered' = Delivered
  BY <1>1 DEF Delivered
<1>9. Apart' /\ Everywhere' = Everywhere
  <2>1. CASE d = "shipper"
    BY <1>1, <1>3, <1>7, <1>8, <2>1 DEF LogInv, Apart, Everywhere, Drainer
  <2>2. CASE d = "closer"
    BY <1>1, <1>3, <1>7, <1>8, <2>2 DEF LogInv, Apart, Everywhere, Drainer
  <2>3. QED
    BY <2>1, <2>2 DEF Drainer
<1>10. batch' \in [Drainer -> Seq(Record)]
  BY <1>1, <1>2, <1>5
<1>11. LogTypeOK'
  BY <1>1, <1>3, <1>10 DEF LogInv, LogTypeOK
<1>12. \A e \in Drainer : Distinct(batch'[e])
  BY <1>2, <1>5, <1>6
<1>13. QED
  BY <1>1, <1>3, <1>9, <1>11, <1>12 DEF LogInv, Distinct

LEMMA PushKeeps == ASSUME NEW d \in Drainer, LogInv, Push(d) PROVE LogInv'
<1>1. /\ batch' = [batch EXCEPT ![d] = <<>>] /\ UNCHANGED <<logged, queue, dropped>>
      /\ batch \in [Drainer -> Seq(Record)]
      /\ \A e \in Drainer : batch[e] \in Seq(Record) /\ Distinct(batch[e])
  BY DEF Push, LogInv, LogTypeOK
<1>2. doing' \in [Drainer -> {"waiting", "draining", "pushing", "over", "dead"}]
  BY DEF LogInv, LogTypeOK, Push, Does
<1>3. /\ Held(d)' = {} /\ Waiting' = Waiting
      /\ \A e \in Drainer \ {d} : Held(e)' = Held(e)
      /\ \A e \in Drainer : Distinct(batch'[e])
      /\ batch' \in [Drainer -> Seq(Record)]
  BY <1>1, NothingListed DEF Held, Waiting
<1>4. Held(d) \subseteq Record
  BY <1>1, ElementOfSeq, LenProperties DEF Held, ToSet
<1>5. ASSUME shipped' = [r \in Record |-> shipped[r] + (IF r \in ToSet(batch[d]) THEN 1 ELSE 0)],
             UNCHANGED lost
      PROVE  LogInv'
  <2>1. \A r \in Record : shipped[r] \in {0, 1} /\ (r \in Held(d) => shipped[r] = 0)
    BY DEF LogInv, Apart, Delivered, Drainer
  <2>2. \A r \in Record : shipped'[r] = IF r \in Held(d) THEN 1 ELSE shipped[r]
    BY <1>5, <2>1 DEF Held
  <2>3. Delivered' = Delivered \cup Held(d)
    BY <1>4, <2>2 DEF Delivered
  <2>4. (\A r \in Record : shipped[r] \in {0, 1})' /\ shipped' \in [Record -> Nat]
    BY <1>5, <2>1, <2>2
  <2>5. Apart' /\ Everywhere' = Everywhere
    <3>1. CASE d = "shipper"
      BY <1>1, <1>3, <1>5, <2>3, <3>1 DEF LogInv, Apart, Everywhere, Drainer
    <3>2. CASE d = "closer"
      BY <1>1, <1>3, <1>5, <2>3, <3>2 DEF LogInv, Apart, Everywhere, Drainer
    <3>3. QED
      BY <3>1, <3>2 DEF Drainer
  <2>6. LogTypeOK'
    BY <1>1, <1>2, <1>3, <1>5, <2>4 DEF LogInv, LogTypeOK
  <2>7. QED
    BY <1>1, <1>3, <2>4, <2>5, <2>6 DEF LogInv, Distinct
<1>6. ASSUME lost' = lost \cup ToSet(batch[d]), UNCHANGED shipped
      PROVE  LogInv'
  <2>1. lost' = lost \cup Held(d) /\ Delivered' = Delivered
    BY <1>6 DEF Held, Delivered
  <2>2. Apart' /\ Everywhere' = Everywhere
    <3>1. CASE d = "shipper"
      BY <1>1, <1>3, <2>1, <3>1 DEF LogInv, Apart, Everywhere, Drainer
    <3>2. CASE d = "closer"
      BY <1>1, <1>3, <2>1, <3>2 DEF LogInv, Apart, Everywhere, Drainer
    <3>3. QED
      BY <3>1, <3>2 DEF Drainer
  <2>3. LogTypeOK'
    BY <1>1, <1>2, <1>3, <1>4, <1>6, <2>1 DEF LogInv, LogTypeOK
  <2>4. QED
    BY <1>1, <1>3, <1>6, <2>2, <2>3 DEF LogInv, Distinct
<1>7. QED
  BY <1>5, <1>6 DEF Push

LEMMA TakenAllKeeps == ASSUME NEW d \in Drainer, LogInv, TakenAll(d) PROVE LogInv'
BY GoingOnKeeps DEF TakenAll

LEMMA ShipperKeeps == LogInv /\ Shipper => LogInv'
<1> SUFFICES ASSUME LogInv, Shipper PROVE LogInv'
  OBVIOUS
<1>1. "shipper" \in Drainer
  BY DEF Drainer
<1>2. CASE Wake
  BY <1>1, <1>2, GoingOnKeeps DEF Wake
<1>3. CASE WakeLate
  BY <1>1, <1>3, GoingOnKeeps DEF WakeLate
<1>4. QED
  BY <1>1, <1>2, <1>3, TakeKeeps, TakenAllKeeps, PushKeeps DEF Shipper

LEMMA CloserKeeps == LogInv /\ (Close \/ Closer) => LogInv'
<1> SUFFICES ASSUME LogInv, Close \/ Closer PROVE LogInv'
  OBVIOUS
<1>1. "closer" \in Drainer
  BY DEF Drainer
<1>2. CASE Close
  BY <1>1, <1>2, GoingOnKeeps DEF Close
<1>3. QED
  BY <1>1, <1>2, TakeKeeps, TakenAllKeeps, PushKeeps DEF Closer

LEMMA LogStays == LogInv /\ UNCHANGED log => LogInv'
<1> SUFFICES ASSUME LogInv, UNCHANGED log PROVE LogInv'
  OBVIOUS
<1>1. UNCHANGED <<logged, queue, batch, doing, shipped, dropped, lost>>
  BY DEF log
<1>2. QED
  BY <1>1 DEF LogInv, LogTypeOK, Distinct, Apart, Everywhere, Waiting, Held, Delivered

(* When the process is gone, so is what it had not shipped. *)
LEMMA ExitKeepsLog == LogInv /\ Exit => LogInv'
<1> SUFFICES ASSUME LogInv, Exit PROVE LogInv'
  OBVIOUS
<1>1. /\ queue' = <<>> /\ batch' = [d \in Drainer |-> <<>>]
      /\ doing' = [d \in Drainer |-> "over"]
      /\ lost' = lost \cup ToSet(queue) \cup UNION {ToSet(batch[d]) : d \in Drainer}
      /\ UNCHANGED <<logged, shipped, dropped>>
  BY DEF Exit
<1>2. UNION {ToSet(batch[d]) : d \in Drainer} = Held("shipper") \cup Held("closer")
  BY DEF Held, Drainer
<1>3. lost' = lost \cup Waiting \cup Held("shipper") \cup Held("closer")
  BY <1>1, <1>2 DEF Waiting
<1>4. /\ Waiting' = {} /\ Held("shipper")' = {} /\ Held("closer")' = {} /\ Delivered' = Delivered
      /\ Distinct(queue') /\ \A d \in Drainer : Distinct(batch'[d])
      /\ queue' \in Seq(Record) /\ Len(queue') = 0 /\ batch' \in [Drainer -> Seq(Record)]
  BY <1>1, NothingListed DEF Waiting, Held, Delivered, Drainer
<1>5. Apart' /\ Everywhere' = Everywhere
  BY <1>1, <1>3, <1>4 DEF LogInv, Apart, Everywhere
<1>6. LogTypeOK'
  <2>1. Everywhere \subseteq Record
    BY LogAssumption DEF LogInv, LogTypeOK, Record
  <2>2. lost' \subseteq Record
    BY <1>3, <2>1 DEF Everywhere
  <2>3. doing' \in [Drainer -> {"waiting", "draining", "pushing", "over", "dead"}]
    BY <1>1
  <2>4. QED
    BY <1>1, <1>4, <2>2, <2>3, LogAssumption DEF LogInv, LogTypeOK
<1>7. QED
  BY <1>1, <1>4, <1>5, <1>6 DEF LogInv, Distinct

LEMMA ExitKeepsTurn == TurnInv /\ Exit => TurnInv'
<1> SUFFICES ASSUME TurnInv, Exit PROVE TurnInv'
  OBVIOUS
<1>1. turns' \in 0..MaxTurns /\ failures' \in 0..MaxFailures
  BY DEF TurnInv, TurnTypeOK, Exit
<1>2. QED
  BY <1>1, ClearedTurn DEF TurnInv, Exit
-------------------------------------------------------------------------------
ProcessInv == TurnInv /\ LogInv /\ exited \in BOOLEAN

LEMMA ProcessInit == Init => ProcessInv
<1> SUFFICES ASSUME Init PROVE ProcessInv
  OBVIOUS
<1>1. TurnInv
  <2>1. /\ at = "idle" /\ calls = 0 /\ tools = NoTools /\ trail = <<>> /\ unsaid = {}
        /\ free = {} /\ turns = 0 /\ failures = 0
    BY DEF Init, TurnInit
  <2>2. DOMAIN trail = {} /\ ToSet(trail) = {} /\ trail \in Seq(Event)
    BY <2>1, EmptySeq DEF ToSet
  <2>3. Told = {}
    BY <2>1, <2>2 DEF Told
  <2>4. TurnTypeOK
    BY <2>1, <2>2, TurnAssumption DEF TurnTypeOK, NoTools
  <2>5. InTurn /\ RoundsTold /\ RunningWasTold
    BY <2>1, <2>3 DEF InTurn, RoundsTold, RunningWasTold, NoTools
  <2>6. StartedFirst /\ OneOutcome /\ ReportedOnly /\ StartedEnds /\ ReplyIsLast /\ BillInOrder
    BY <2>2 DEF StartedFirst, OneOutcome, ReportedOnly, StartedEnds, ReplyIsLast, BillInOrder
  <2>7. 1..Counted = {}
    BY <2>1 DEF Counted
  <2>8. QED
    BY <2>1, <2>4, <2>5, <2>6, <2>7 DEF TurnInv, BillComplete
<1>2. LogInv
  <2>1. /\ logged = 0 /\ queue = <<>> /\ batch = [d \in Drainer |-> <<>>]
        /\ doing = [d \in Drainer |-> "waiting"]
        /\ shipped = [r \in Record |-> 0] /\ dropped = {} /\ lost = {}
    BY DEF Init, LogInit
  <2>2. /\ Waiting = {} /\ Held("shipper") = {} /\ Held("closer") = {} /\ Delivered = {}
        /\ Distinct(queue) /\ \A d \in Drainer : Distinct(batch[d])
    BY <2>1, NothingListed DEF Waiting, Held, Delivered, Drainer
  <2>3. LogTypeOK
    BY <2>1, NothingListed, LogAssumption DEF LogTypeOK
  <2>4. Apart /\ Everywhere = {} /\ 1..logged = {}
    BY <2>1, <2>2 DEF Apart, Everywhere
  <2>5. QED
    BY <2>1, <2>2, <2>3, <2>4 DEF LogInv
<1>3. QED
  BY <1>1, <1>2 DEF ProcessInv, Init

LEMMA ProcessNext == ProcessInv /\ [Next]_vars => ProcessInv'
<1> SUFFICES ASSUME TurnInv, LogInv, exited \in BOOLEAN, [Next]_vars PROVE ProcessInv'
  BY DEF ProcessInv
<1>1. CASE Turn(StartTurn)
  BY <1>1, StartTurnKeeps, EmitRecordKeeps, LogStays DEF Turn, ProcessInv
<1>2. CASE Turn(TurnStep)
  BY <1>2, TurnStepKeeps, EmitRecordKeeps, LogStays DEF Turn, ProcessInv
<1>3. CASE Ship
  BY <1>3, ShipperKeeps, TurnStays DEF Ship, ProcessInv
<1>4. CASE Shutdown
  BY <1>4, CloserKeeps, TurnStays DEF Shutdown, ProcessInv
<1>5. CASE Exit
  <2>1. exited' \in BOOLEAN
    BY <1>5 DEF Exit
  <2>2. QED
    BY <1>5, <2>1, ExitKeepsLog, ExitKeepsTurn DEF ProcessInv
<1>6. CASE UNCHANGED vars
  BY <1>6, TurnStays, LogStays DEF vars, ProcessInv
<1>7. QED
  BY <1>1, <1>2, <1>3, <1>4, <1>5, <1>6 DEF Next

LEMMA ProcessInvariant == Spec => []ProcessInv
BY ProcessInit, ProcessNext, PTL DEF Spec
-------------------------------------------------------------------------------
LEMMA PairedFollows == TurnInv => TrailPaired
<1> SUFFICES ASSUME TurnInv PROVE TrailPaired
  OBVIOUS
<1>0. /\ TurnTypeOK /\ StartedFirst /\ OneOutcome /\ StartedEnds /\ ReplyIsLast
      /\ trail \in Seq(Event)
  BY DEF TurnInv, TurnTypeOK
<1>1. /\ Len(trail) \in Nat /\ DOMAIN trail = 1..Len(trail)
      /\ \A i \in DOMAIN trail : trail[i] \in Event
  BY <1>0, TrailTypes
<1>2. ASSUME NEW i \in DOMAIN trail, trail[i].kind \in {"finished", "error"}
      PROVE  /\ [trail[i] EXCEPT !.kind = "started"] \in unsaid \cup ToSet(SubSeq(trail, 1, i - 1))
             /\ Outcomes(trail, trail[i].round, trail[i].tool) = {i}
  <2>1. [trail[i] EXCEPT !.kind = "started"] = Begun(trail[i])
    BY <1>1, <1>2, EventShapes DEF RoundKind
  <2>2. Begun(trail[i]) \in unsaid \/ \E j \in 1..i - 1 : trail[j] = Begun(trail[i])
    BY <1>0, <1>2 DEF StartedFirst, Outcome
  <2>3. ASSUME NEW j \in 1..i - 1
        PROVE  trail[j] \in ToSet(SubSeq(trail, 1, i - 1))
    <3>1. \A k \in 1..i - 1 : trail[k] \in Event
      BY <1>1
    <3>2. /\ DOMAIN SubSeq(trail, 1, i - 1) = 1..i - 1
          /\ SubSeq(trail, 1, i - 1)[j] = trail[j]
      BY <1>0, <1>1, <3>1, SubSeqProperties, LenProperties
    <3>3. QED
      BY <3>2 DEF ToSet
  <2>4. Outcomes(trail, trail[i].round, trail[i].tool) = {i}
    BY <1>0, <1>2 DEF Outcomes, OneOutcome, Outcome
  <2>5. QED
    BY <2>1, <2>2, <2>3, <2>4
<1>3. ASSUME trail # <<>> /\ Last(trail).kind = "reply",
             NEW i \in DOMAIN trail, trail[i].kind = "started"
      PROVE  [trail[i] EXCEPT !.kind = "finished"] \in unsaid \cup ToSet(trail)
  <2>1. Len(trail) \in DOMAIN trail /\ trail[Len(trail)].kind = "reply"
    BY <1>0, <1>1, <1>3, EmptySeq DEF Last
  <2>2. at = "idle" /\ Answerable
    BY <1>0, <2>1 DEF ReplyIsLast, Answerable
  <2>3. Ended(trail[i]) \in Told
    BY <1>0, <1>3, <2>2 DEF StartedEnds
  <2>4. [trail[i] EXCEPT !.kind = "finished"] = Ended(trail[i])
    BY <1>1, <1>3, EventShapes DEF RoundKind
  <2>5. QED
    BY <2>3, <2>4 DEF Told
<1>4. \A i \in DOMAIN trail : trail[i].kind = "reply" => i = Len(trail)
  BY <1>0 DEF ReplyIsLast
<1>5. QED
  BY <1>2, <1>3, <1>4 DEF TrailPaired

LEMMA BilledFollows == TurnInv => Billed
<1> SUFFICES ASSUME TurnInv PROVE Billed
  OBVIOUS
<1>0. TurnTypeOK /\ RoundsTold /\ BillInOrder /\ BillComplete
  BY DEF TurnInv
<1>1. ASSUME NEW event \in Told, event.kind = "usage"
      PROVE  event.round \in 1..Counted
  <2>1. event.round \in 1..Ceiling /\ event.round <= Counted
    BY <1>0, <1>1, TrailTypes, EventShapes DEF RoundsTold, RoundKind
  <2>2. QED
    BY <1>0, <2>1, TrailTypes, TurnAssumption
<1>2. {event.round : event \in {e \in Told : e.kind = "usage"}} = (1..Counted) \ free
  <2>1. \A r \in 1..Counted :
          r \in free <=> r \notin {event.round : event \in {e \in Told : e.kind = "usage"}}
    BY <1>0 DEF BillComplete
  <2>2. QED
    BY <1>1, <2>1
<1>3. QED
  BY <1>0, <1>2 DEF Billed, BillInOrder, Told, Counted

LEMMA AccountedFollows == LogInv => Accounted
<1> SUFFICES ASSUME LogInv, NEW r \in 1..logged
             PROVE  Times(r, queue) + Times(r, batch["shipper"]) + Times(r, batch["closer"])
                      + shipped[r] + (IF r \in dropped THEN 1 ELSE 0)
                      + (IF r \in lost THEN 1 ELSE 0) = 1
  BY DEF Accounted
<1>1. /\ Times(r, queue) = (IF r \in Waiting THEN 1 ELSE 0)
      /\ Times(r, batch["shipper"]) = (IF r \in Held("shipper") THEN 1 ELSE 0)
      /\ Times(r, batch["closer"]) = (IF r \in Held("closer") THEN 1 ELSE 0)
  BY TimesOnList DEF LogInv, Waiting, Held, Drainer
<1>2. r \in Record /\ r \in Everywhere /\ Apart
  BY LogAssumption DEF LogInv, LogTypeOK, Record
<1>3. shipped[r] = IF r \in Delivered THEN 1 ELSE 0
  BY <1>2 DEF LogInv, Delivered
<1>4. QED
  BY <1>1, <1>2, <1>3 DEF Apart, Everywhere

(* The process keeps its types: no turn goes over its ceiling, and the     *)
(* queue of records never gets longer than it may be (agent_loop.py,       *)
(* telemetry.py, logging_setup.py).                                        *)
THEOREM ProcessTypes == Spec => []TypeOK
<1>1. ProcessInv => TypeOK
  BY DEF ProcessInv, TurnInv, LogInv, TypeOK
<1>2. QED
  BY <1>1, ProcessInvariant, PTL

(* A tool's outcome follows its announcement and comes once, an answer     *)
(* comes last and leaves no tool without its outcome, whatever could not   *)
(* be published (telemetry.py, awrap_tool_call).                           *)
THEOREM TrailIsPaired == Spec => []TrailPaired
<1>1. ProcessInv => TrailPaired
  BY PairedFollows DEF ProcessInv
<1>2. QED
  BY <1>1, ProcessInvariant, PTL

(* Every call of the model that returned is on the turn's bill, once and   *)
(* in order, but for the events that could not be published (telemetry.py, *)
(* aafter_model).                                                          *)
THEOREM TurnIsBilled == Spec => []Billed
<1>1. ProcessInv => Billed
  BY BilledFollows DEF ProcessInv
<1>2. QED
  BY <1>1, ProcessInvariant, PTL

(* Every record the process logs is in exactly one place, with two         *)
(* drainers at one queue and the process ending at any moment              *)
(* (logging_setup.py, _drain and close).                                   *)
THEOREM RecordsAreAccounted == Spec => []Accounted
<1>1. ProcessInv => Accounted
  BY AccountedFollows DEF ProcessInv
<1>2. QED
  BY <1>1, ProcessInvariant, PTL
===============================================================================
