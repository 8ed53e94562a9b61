---------------------------- MODULE RecorderProofs ----------------------------
(***************************************************************************)
(* Safety of the recorder for any number of projects, agents and events,   *)
(* any ceiling and any length of history, whatever of its awaits raises,   *)
(* its connection breaking and the process restarting.                     *)
(***************************************************************************)
EXTENDS Recorder, FiniteSetTheorems, SequenceTheorems, TLAPS

(* What the agents of the port keep to, whoever moves them. *)
LEMMA PortKeepsTypes == AgentsTypeOK /\ [AgentsNext]_agents => AgentsTypeOK'
<1> SUFFICES ASSUME AgentsTypeOK, [AgentsNext]_agents
             PROVE  AgentsTypeOK'
  OBVIOUS
<1>0. agents \in [Agent -> AgentRecord \cup {Unused}]
  BY DEF AgentsTypeOK
<1>1. ASSUME NEW a \in Agent, NEW role \in Role, NEW p \in Project, Launch(a, role, p)
      PROVE  AgentsTypeOK'
  <2>1. [phase |-> IF CountedAtLaunch THEN "live" ELSE "idle", role |-> role, project |-> p]
          \in AgentRecord
    BY DEF AgentRecord, Phase
  <2>2. QED
    BY <1>0, <1>1, <2>1 DEF Launch, AgentsTypeOK
<1>2. ASSUME NEW a \in Agent, AgentsMove(a)
      PROVE  AgentsTypeOK'
  <2>1. PICK phase \in Phase \ {"unused"} :
          agents' = [agents EXCEPT ![a].phase = phase] /\ agents[a].phase # "unused"
    BY <1>2 DEF AgentsMove, BecomeLive, LoseLive, End, SetPhase, Phase
  <2>2. QED
    BY <1>0, <2>1 DEF AgentsTypeOK, AgentRecord, Unused
<1>3. ASSUME NEW p \in Project, StopAgents(p)
      PROVE  AgentsTypeOK'
  <2>1. ASSUME NEW a \in Agent
        PROVE  agents'[a] \in AgentRecord \cup {Unused}
    BY <1>0, <1>3 DEF StopAgents, Unfinished, AgentRecord, Unused, Phase
  <2>2. agents' = [a \in Agent |-> agents'[a]]
    BY <1>3 DEF StopAgents
  <2>3. QED
    BY <2>1, <2>2 DEF AgentsTypeOK
<1>4. CASE UNCHANGED agents
  BY <1>0, <1>4 DEF AgentsTypeOK
<1>5. QED
  BY <1>1, <1>2, <1>3, <1>4 DEF AgentsNext
-------------------------------------------------------------------------------
(* LTRIM keeps the newest events: all of them while there is room, and     *)
(* each as far behind the newest as it was.                                *)
LEMMA TrimKeepsNewest ==
  ASSUME NEW S, NEW log \in Seq(S)
  PROVE  /\ Trim(log) \in Seq(S)
         /\ Len(Trim(log)) <= MaxHistory
         /\ Len(log) <= MaxHistory => Trim(log) = log
         /\ Len(log) > MaxHistory => Len(Trim(log)) = MaxHistory
         /\ \E k \in Nat : \A i \in 1..Len(Trim(log)) :
              i + k \in 1..Len(log) /\ Trim(log)[i] = log[i + k]
<1>0. MaxHistory \in Nat \ {0} /\ Len(log) \in Nat /\ DOMAIN log = 1..Len(log)
  BY RecorderAssumption, LenProperties
<1>1. CASE Len(log) > MaxHistory
  <2> DEFINE k == Len(log) - MaxHistory
  <2>1. k \in Nat /\ Trim(log) = SubSeq(log, k + 1, Len(log))
    BY <1>0, <1>1 DEF Trim
  <2>2. \A i \in k + 1..Len(log) : log[i] \in S
    BY <1>0, <1>1, <2>1, ElementOfSeq
  <2>3. /\ Trim(log) \in Seq(S) /\ Len(Trim(log)) = MaxHistory
        /\ \A i \in 1..MaxHistory : Trim(log)[i] = log[i + k]
    <3>1. k + 1 \in Int /\ Len(log) \in Int /\ k + 1 <= Len(log)
          /\ Len(log) - (k + 1) + 1 = MaxHistory
      BY <1>0, <1>1, <2>1
    <3> HIDE DEF k
    <3>2. /\ SubSeq(log, k + 1, Len(log)) \in Seq(S)
          /\ Len(SubSeq(log, k + 1, Len(log))) = MaxHistory
          /\ \A i \in 1..MaxHistory : SubSeq(log, k + 1, Len(log))[i] = log[k + 1 + i - 1]
      BY <2>2, <3>1, SubSeqProperties
    <3>3. \A i \in 1..MaxHistory : k + 1 + i - 1 = i + k
      BY <1>0, <2>1
    <3>4. QED
      BY <2>1, <3>2, <3>3
  <2>4. \A i \in 1..MaxHistory : i + k \in 1..Len(log)
    BY <1>0, <1>1
  <2>5. \A i \in 1..Len(Trim(log)) : i + k \in 1..Len(log) /\ Trim(log)[i] = log[i + k]
    BY <2>3, <2>4
  <2> HIDE DEF k
  <2>6. Len(Trim(log)) <= MaxHistory /\ ~(Len(log) <= MaxHistory)
    BY <1>0, <1>1, <2>3
  <2>7. QED
    BY <2>1, <2>3, <2>5, <2>6
<1>2. CASE Len(log) <= MaxHistory
  <2>1. Trim(log) = SubSeq(log, 1, Len(log))
    <3>1. ~(Len(log) > MaxHistory)
      BY <1>0, <1>2
    <3>2. QED
      BY <3>1, Zenon DEF Trim
  <2>2. Trim(log) = log
    BY <2>1, SubSeqFull
  <2>3. \A i \in 1..Len(Trim(log)) : i + 0 \in 1..Len(log) /\ Trim(log)[i] = log[i + 0]
    BY <1>0, <2>2
  <2>4. Len(Trim(log)) <= MaxHistory /\ ~(Len(log) > MaxHistory)
    BY <1>0, <1>2, <2>2
  <2>5. 0 \in Nat
    OBVIOUS
  <2>6. QED
    BY <2>2, <2>3, <2>4, <2>5
<1>3. QED
  BY <1>0, <1>1, <1>2
-------------------------------------------------------------------------------
(* Type correctness. *)

(* A step of the recorder's await leaves its record one. *)
LEMMA BusyMoves ==
  ASSUME TypeOK, rec.at \in {"append", "stop", "announce", "get", "saveKey", "saveIndex"}
  PROVE  /\ rec \in Busy
         /\ rec.event \in Event /\ rec.event.project \in Project
         /\ rec.snap \in ProjectRecord \cup {NoProject}
         /\ \A at \in {"append", "stop", "announce", "get", "saveKey", "saveIndex"} :
              /\ [rec EXCEPT !.at = at] \in Busy
              /\ [rec EXCEPT !.at = at].at = at
              /\ [rec EXCEPT !.at = at].event = rec.event
              /\ \A record \in ProjectRecord :
                   /\ [rec EXCEPT !.at = at, !.snap = record] \in Busy
                   /\ [rec EXCEPT !.at = at, !.snap = record].at = at
                   /\ [rec EXCEPT !.at = at, !.snap = record].event = rec.event
<1>1. rec \in Busy
  BY DEF TypeOK, Listening, Dead
<1>2. rec.event \in Event /\ rec.event.project \in Project
  BY <1>1 DEF Busy, Event
<1>3. QED
  BY <1>1, <1>2 DEF Busy

LEMMA PublishTyped ==
  ASSUME TypeOK, NEW p \in Project, NEW kind \in Kind, Publish(p, kind)
  PROVE  bus' \in Seq(Event) /\ published' \in Nat
<1>1. [n |-> published + 1, project |-> p, kind |-> kind] \in Event
  BY DEF TypeOK, Event
<1>2. QED
  BY <1>1, AppendProperties DEF Publish, TypeOK

LEMMA TypeInit == Init => TypeOK
<1> SUFFICES ASSUME Init
             PROVE  TypeOK
  OBVIOUS
<1>1. Start(NewProject) \in ProjectRecord
  BY DEF Start, NewProject, ProjectRecord, ProjectStatus
<1>2. StoreTypeOK /\ AgentsTypeOK
  BY <1>1 DEF Init, StoreTypeOK, AgentsInit, AgentsTypeOK
<1>3. bus \in Seq(Event) /\ history \in [Project -> Seq(Event)]
  BY EmptySeq DEF Init
<1>4. QED
  BY <1>2, <1>3, RecorderAssumption DEF Init, TypeOK

(* Every step touches the agents as the port allows, or not at all. *)
LEMMA StepUsesPort ==
  ASSUME TypeOK, [Next]_vars
  PROVE  [AgentsNext]_agents
<1>1. CASE Stop
  <2>1. rec.event.project \in Project
    BY <1>1, BusyMoves DEF Stop
  <2>2. StopAgents(rec.event.project)
    BY <1>1 DEF Stop
  <2>3. QED
    BY <2>1, <2>2 DEF AgentsNext
<1>2. ASSUME NEW a \in Agent, AgentMoves(a)
      PROVE  AgentsNext
  BY <1>2 DEF AgentMoves, AgentsNext
<1>3. ASSUME NEW a \in Agent, NEW role \in Role, NEW p \in Project, SpawnLands(a, role, p)
      PROVE  AgentsNext
  BY <1>3 DEF SpawnLands, AgentsNext
<1>4. CASE \/ Receive \/ AppendAndCharge \/ Announce \/ GetProject \/ SaveKey \/ SaveIndex
           \/ LoseReply \/ Swallow \/ LoseConnection \/ Restart \/ UNCHANGED vars
           \/ (\E p \in Project : FounderCloses(p))
           \/ \E a \in Agent, kind \in {"usage", "other"} : AgentPublishes(a, kind)
  BY <1>4 DEF Receive, AppendAndCharge, Announce, GetProject, SaveKey, SaveIndex, LoseReply,
              Swallow, LoseConnection, Restart, vars, FounderCloses, AgentPublishes, world
<1>5. QED
  BY <1>1, <1>2, <1>3, <1>4 DEF Next, RecorderStep

(* A closed project is a project. *)
LEMMA FinishTyped ==
  ASSUME TypeOK, NEW p \in Open
  PROVE  Finish(projects[p], TRUE) \in ProjectRecord /\ p \in Project
BY DEF TypeOK, StoreTypeOK, Open, Known, Finish, ProjectRecord, ProjectStatus

LEMMA StoreStepTyped ==
  ASSUME TypeOK, [Next]_vars
  PROVE  StoreTypeOK'
<1>0. StoreTypeOK
  BY DEF TypeOK
<1>1. ASSUME NEW p \in Project, FounderCloses(p)
      PROVE  StoreTypeOK'
  BY <1>0, <1>1, FinishTyped DEF FounderCloses, StoreTypeOK
<1>2. CASE SaveKey
  <2>1. rec.event.project \in Project /\ rec.snap \in ProjectRecord \cup {NoProject}
    BY <1>2, BusyMoves DEF SaveKey
  <2>2. QED
    BY <1>0, <1>2, <2>1 DEF SaveKey, SetKey, StoreTypeOK
<1>3. CASE SaveIndex
  BY <1>0, <1>3 DEF SaveIndex, ZRem, StoreTypeOK
<1>4. CASE \/ Receive \/ AppendAndCharge \/ Stop \/ Announce \/ GetProject
           \/ LoseReply \/ Swallow \/ LoseConnection \/ Restart \/ UNCHANGED vars
           \/ (\E a \in Agent : AgentMoves(a))
           \/ (\E a \in Agent, role \in Role, p \in Project : SpawnLands(a, role, p))
           \/ \E a \in Agent, kind \in {"usage", "other"} : AgentPublishes(a, kind)
  <2>1. UNCHANGED <<projects, index>>
    BY <1>4 DEF Receive, AppendAndCharge, Stop, Announce, GetProject, LoseReply, Swallow,
                LoseConnection, Restart, vars, AgentMoves, SpawnLands, AgentPublishes, world, store
  <2>2. QED
    BY <1>0, <2>1 DEF StoreTypeOK
<1>5. QED
  BY <1>1, <1>2, <1>3, <1>4 DEF Next, RecorderStep

(* What the recorder keeps, apart from the store and the agents. *)
MeterTypeOK ==
  /\ bus \in Seq(Event)
  /\ history \in [Project -> Seq(Event)]
  /\ spend \in [Project -> Nat]
  /\ stopped \in SUBSET Project
  /\ rec \in {Listening, Dead} \cup Busy
  /\ published \in Nat
  /\ faults \in 0..MaxFaults
  /\ restarts \in 0..Restarts

LEMMA ChargeTyped ==
  ASSUME TypeOK, AppendAndCharge \/ LoseReply
  PROVE  MeterTypeOK'
<1> DEFINE e == rec.event
<1>1. e \in Event /\ e.project \in Project /\ [rec EXCEPT !.at = "stop"] \in Busy
  BY BusyMoves DEF AppendAndCharge, LoseReply
<1>2. Cost(e) \in Nat
  BY DEF Cost
<1>3. history' = [history EXCEPT ![e.project] = Trim(Append(history[e.project], e))]
  BY DEF AppendAndCharge, LoseReply
<1>4. Append(history[e.project], e) \in Seq(Event)
  BY <1>1, AppendProperties DEF TypeOK
<1>5. Trim(Append(history[e.project], e)) \in Seq(Event)
  BY <1>4, TrimKeepsNewest
<1> HIDE DEF e
<1>6. history' \in [Project -> Seq(Event)]
  BY <1>1, <1>3, <1>5 DEF TypeOK
<1>7. CASE AppendAndCharge
  <2>1. spend' \in [Project -> Nat]
    BY <1>1, <1>2, <1>7 DEF AppendAndCharge, TypeOK, e
  <2>2. stopped' \in SUBSET Project /\ rec' \in {Listening, Dead} \cup Busy
    BY <1>1, <1>7 DEF AppendAndCharge, TypeOK, e
  <2>3. QED
    BY <1>6, <1>7, <2>1, <2>2 DEF AppendAndCharge, TypeOK, MeterTypeOK, world, bounds
<1>8. CASE LoseReply
  <2>1. faults' \in 0..MaxFaults
    BY <1>8, RecorderAssumption DEF LoseReply, TypeOK
  <2>2. QED
    BY <1>6, <1>8, <2>1 DEF LoseReply, TypeOK, MeterTypeOK, world
<1>9. QED
  BY <1>7, <1>8

LEMMA MeterStepTyped ==
  ASSUME TypeOK, [Next]_vars
  PROVE  MeterTypeOK'
<1>0. MeterTypeOK
  BY DEF TypeOK, MeterTypeOK
<1>1. ASSUME NEW a \in Agent, NEW kind \in {"usage", "other"}, AgentPublishes(a, kind)
      PROVE  MeterTypeOK'
  <2>1. agents[a].project \in Project
    BY <1>1 DEF TypeOK, AgentsTypeOK, AgentPublishes, Live, AgentRecord, Unused
  <2>2. Publish(agents[a].project, kind) /\ kind \in Kind
    BY <1>1 DEF AgentPublishes, Kind
  <2>3. bus' \in Seq(Event) /\ published' \in Nat
    BY <2>1, <2>2, PublishTyped
  <2>4. QED
    BY <1>0, <1>1, <2>3 DEF AgentPublishes, MeterTypeOK, meter, bounds
<1>2. CASE Receive
  <2>1. Head(bus) \in Event /\ Tail(bus) \in Seq(Event)
    BY <1>2, HeadTailProperties DEF Receive, TypeOK
  <2>2. rec' \in Busy
    BY <1>2, <2>1 DEF Receive, Listening, Busy
  <2>3. QED
    BY <1>0, <1>2, <2>1, <2>2 DEF Receive, MeterTypeOK, meter, bounds
<1>3. CASE AppendAndCharge \/ LoseReply
  BY <1>3, ChargeTyped
<1>4. CASE Stop
  <2>1. rec' \in Busy
    BY <1>4, BusyMoves DEF Stop
  <2>2. QED
    BY <1>0, <1>4, <2>1 DEF Stop, MeterTypeOK, meter, bounds
<1>5. CASE Announce
  <2>1. rec' \in Busy /\ rec.event.project \in Project
    BY <1>5, BusyMoves DEF Announce
  <2>2. Publish(rec.event.project, "error") /\ "error" \in Kind
    BY <1>5 DEF Announce, Kind
  <2>3. bus' \in Seq(Event) /\ published' \in Nat
    BY <2>1, <2>2, PublishTyped
  <2>4. QED
    BY <1>0, <1>5, <2>1, <2>3 DEF Announce, MeterTypeOK, meter, bounds
<1>6. CASE GetProject
  <2>1. ASSUME rec.event.project \in Open
        PROVE  Finish(projects[rec.event.project], TRUE) \in ProjectRecord
    BY <2>1, FinishTyped
  <2>2. rec' \in Busy \cup {Listening}
    BY <1>6, <2>1, BusyMoves DEF GetProject
  <2>3. QED
    BY <1>0, <1>6, <2>2 DEF GetProject, MeterTypeOK, meter, bounds
<1>7. CASE SaveKey
  <2>1. rec' \in Busy
    BY <1>7, BusyMoves DEF SaveKey
  <2>2. QED
    BY <1>0, <1>7, <2>1 DEF SaveKey, MeterTypeOK, meter, bounds
<1>8. CASE SaveIndex
  BY <1>0, <1>8 DEF SaveIndex, MeterTypeOK, meter, bounds
<1>9. CASE Swallow
  <2>1. faults' \in 0..MaxFaults
    BY <1>0, <1>9, RecorderAssumption DEF Swallow, MeterTypeOK
  <2>2. QED
    BY <1>0, <1>9, <2>1 DEF Swallow, MeterTypeOK, meter
<1>10. CASE LoseConnection
  BY <1>0, <1>10, EmptySeq DEF LoseConnection, MeterTypeOK, meter, bounds
<1>11. CASE Restart
  <2>1. restarts' \in 0..Restarts
    BY <1>0, <1>11, RecorderAssumption DEF Restart, MeterTypeOK
  <2>2. QED
    BY <1>0, <1>11, <2>1, EmptySeq DEF Restart, MeterTypeOK
<1>12. CASE \/ UNCHANGED vars
            \/ (\E a \in Agent : AgentMoves(a))
            \/ (\E a \in Agent, role \in Role, p \in Project : SpawnLands(a, role, p))
            \/ \E p \in Project : FounderCloses(p)
  BY <1>0, <1>12 DEF vars, AgentMoves, SpawnLands, FounderCloses, MeterTypeOK, meter, bounds
<1>13. QED
  BY <1>1, <1>2, <1>3, <1>4, <1>5, <1>6, <1>7, <1>8, <1>9, <1>10, <1>11, <1>12
  DEF Next, RecorderStep

(* The recorder's variables keep to their types. *)
THEOREM RecorderTypes == Spec => []TypeOK
<1>1. TypeOK /\ [Next]_vars => TypeOK'
  <2>1. ASSUME TypeOK, [Next]_vars
        PROVE  TypeOK'
    <3>1. AgentsTypeOK'
      BY <2>1, StepUsesPort, PortKeepsTypes DEF TypeOK
    <3>2. StoreTypeOK' /\ MeterTypeOK'
      BY <2>1, StoreStepTyped, MeterStepTyped
    <3>3. QED
      BY <3>1, <3>2 DEF TypeOK, MeterTypeOK
  <2>2. QED
    BY <2>1
<1>2. QED
  BY TypeInit, <1>1, PTL DEF Spec

(* To the runtime the recorder, and what goes on around it, is a user of   *)
(* the port: its teardown is the port's, and nothing else touches agents.  *)
THEOREM RecorderUsesPort == Spec => AgentsSpec
<1>1. Init => AgentsInit
  BY DEF Init
<1>2. TypeOK /\ [Next]_vars => [AgentsNext]_agents
  BY StepUsesPort
<1>3. QED
  BY RecorderTypes, <1>1, <1>2, PTL DEF Spec, AgentsSpec
-------------------------------------------------------------------------------
(* The order of the history. *)

(* A history may repeat an event once an answer has been lost. *)
Again == IF faults = 0 THEN 0 ELSE 1

Ordered(log, again) == \A i, j \in DOMAIN log : i < j => log[i].n < log[j].n + again

Ascending(log) == \A i, j \in DOMAIN log : i < j => log[i].n < log[j].n

Below(log, n) == \A i \in DOMAIN log : log[i].n < n

(* What is recorded comes before what is in hand, and that before what     *)
(* waits on the bus, and nothing is later than the last event published.   *)
RecordedFirst(log, queue, hand, last, again) ==
  /\ Ordered(log, again)
  /\ Len(log) <= MaxHistory
  /\ Below(log, last + 1)
  /\ hand.at = "append" => Below(log, hand.event.n + again)
  /\ \A j \in DOMAIN queue : Below(log, queue[j].n)

InHandFirst(queue, hand, last) ==
  /\ Ascending(queue)
  /\ Below(queue, last + 1)
  /\ hand.at = "append" =>
       hand.event.n <= last /\ \A j \in DOMAIN queue : hand.event.n < queue[j].n

OrderInv ==
  /\ InHandFirst(bus, rec, published)
  /\ \A p \in Project : RecordedFirst(history[p], bus, rec, published, Again)

(* Positions of a sequence of events, and the numbers there.               *)
LEMMA EventsNumbered ==
  ASSUME NEW log \in Seq(Event)
  PROVE  /\ DOMAIN log = 1..Len(log) /\ Len(log) \in Nat
         /\ \A i \in DOMAIN log : log[i] \in Event /\ log[i].n \in Nat
<1>1. DOMAIN log = 1..Len(log) /\ Len(log) \in Nat
  BY LenProperties
<1>2. ASSUME NEW i \in DOMAIN log
      PROVE  log[i] \in Event
  BY <1>1, ElementOfSeq
<1>3. QED
  BY <1>1, <1>2 DEF Event

(* Nothing in hand, or the same as before: order is kept.                  *)
LEMMA NothingNewInHand ==
  ASSUME OrderInv, UNCHANGED <<bus, history, published, faults>>,
         rec'.at # "append" \/ rec' = rec
  PROVE  OrderInv'
<1>1. Again' = Again
  BY DEF Again
<1>2. QED
  BY <1>1 DEF OrderInv, InHandFirst, RecordedFirst

(* What raises leaves nothing in hand. *)
LEMMA SwallowKeepsOrder ==
  ASSUME TypeOK, OrderInv, Swallow
  PROVE  OrderInv'
<1>1. rec'.at # "append" /\ UNCHANGED <<bus, history, published>>
  BY DEF Swallow, Listening, meter
<1>2. Again \in {0, 1} /\ Again' \in {0, 1} /\ Again <= Again'
  BY RecorderAssumption DEF Again, Swallow, TypeOK
<1>3. ASSUME NEW p \in Project
      PROVE  RecordedFirst(history[p], bus, rec', published, Again')
  <2>1. RecordedFirst(history[p], bus, rec, published, Again)
    BY DEF OrderInv
  <2>2. Ordered(history[p], Again')
    <3>1. \A i \in DOMAIN history[p] : history[p][i].n \in Nat
      BY EventsNumbered DEF TypeOK
    <3>2. Ordered(history[p], Again)
      BY <2>1 DEF RecordedFirst
    <3> HIDE DEF Again
    <3>3. QED
      BY <1>2, <3>1, <3>2 DEF Ordered
  <2>3. QED
    BY <1>1, <2>1, <2>2 DEF RecordedFirst
<1>4. QED
  BY <1>1, <1>3 DEF OrderInv, InHandFirst

(* What is published is later than everything there is.                    *)
LEMMA PublishKeepsOrder ==
  ASSUME TypeOK, OrderInv, NEW p \in Project, NEW kind \in Kind, Publish(p, kind),
         UNCHANGED <<history, faults>>, rec'.at # "append" \/ rec' = rec
  PROVE  OrderInv'
<1> DEFINE e == [n |-> published + 1, project |-> p, kind |-> kind]
<1>0. published \in Nat /\ published' = published + 1
  BY DEF TypeOK, Publish
<1>a. Again' = Again
  BY DEF Again
<1>1. e \in Event /\ e.n = published + 1
  BY <1>0 DEF Event
<1>2. ASSUME NEW log \in Seq(Event), Below(log, published + 1)
      PROVE  Below(log, published + 2)
  BY <1>0, <1>2, EventsNumbered DEF Below
<1>3. bus' = bus \/ bus' = Append(bus, e)
  BY DEF Publish
<1> HIDE DEF e
<1>4. CASE bus' = bus
  <2>1. InHandFirst(bus, rec', published')
    <3>1. rec.at = "append" => rec.event.n \in Nat
      BY BusyMoves DEF Event
    <3>2. Below(bus, published + 1)
      BY DEF OrderInv, InHandFirst
    <3>3. Below(bus, published' + 1)
      BY <1>0, <1>2, <3>2 DEF TypeOK
    <3>4. QED
      BY <1>0, <3>1, <3>3 DEF OrderInv, InHandFirst
  <2>2. ASSUME NEW q \in Project
        PROVE  RecordedFirst(history[q], bus, rec', published', Again)
    <3>1. Below(history[q], published + 1) /\ history[q] \in Seq(Event)
      BY DEF OrderInv, RecordedFirst, TypeOK
    <3>2. Below(history[q], published' + 1)
      BY <1>0, <1>2, <3>1
    <3>3. QED
      BY <3>2 DEF OrderInv, RecordedFirst
  <2>3. QED
    BY <1>a, <1>4, <2>1, <2>2 DEF OrderInv
<1>5. CASE bus' = Append(bus, e)
  <2>0. bus \in Seq(Event) /\ DOMAIN bus = 1..Len(bus) /\ Len(bus) \in Nat
        /\ \A i \in 1..Len(bus) : bus[i].n \in Nat
    BY EventsNumbered DEF TypeOK
  <2>1. /\ bus' \in Seq(Event) /\ Len(bus') = Len(bus) + 1
        /\ \A i \in 1..Len(bus) : bus'[i] = bus[i]
        /\ bus'[Len(bus) + 1] = e
    BY <1>1, <1>5, <2>0, AppendProperties
  <2>2. DOMAIN bus' = 1..(Len(bus) + 1)
    BY <2>1, EventsNumbered
  <2>3. Ascending(bus) /\ Below(bus, published + 1)
    BY DEF OrderInv, InHandFirst
  <2>4. Ascending(bus')
    <3>1. ASSUME NEW i \in DOMAIN bus', NEW j \in DOMAIN bus', i < j
          PROVE  bus'[i].n < bus'[j].n
      <4>1. i \in 1..Len(bus) /\ bus'[i] = bus[i]
        BY <2>0, <2>1, <2>2, <3>1
      <4>2. CASE j = Len(bus) + 1
        BY <1>1, <2>0, <2>1, <2>3, <4>1, <4>2 DEF Below
      <4>3. CASE j # Len(bus) + 1
        <5>1. j \in 1..Len(bus) /\ bus'[j] = bus[j]
          BY <2>0, <2>1, <2>2, <4>3
        <5>2. QED
          BY <2>0, <2>3, <3>1, <4>1, <5>1 DEF Ascending
      <4>4. QED
        BY <4>2, <4>3
    <3>2. QED
      BY <3>1 DEF Ascending
  <2>5. \A j \in DOMAIN bus' : (j \in DOMAIN bus /\ bus'[j] = bus[j]) \/ bus'[j] = e
    BY <2>0, <2>1, <2>2
  <2>6. Below(bus', published' + 1)
    BY <1>0, <1>1, <2>0, <2>3, <2>5 DEF Below
  <2>7. rec.at = "append" =>
          rec.event.n \in Nat /\ rec.event.n <= published
          /\ \A j \in DOMAIN bus' : rec.event.n < bus'[j].n
    <3>1. rec.at = "append" => rec.event.n \in Nat /\ rec.event.n <= published
                              /\ \A j \in DOMAIN bus : rec.event.n < bus[j].n
      BY BusyMoves DEF Event, OrderInv, InHandFirst
    <3>2. QED
      BY <1>0, <1>1, <2>5, <3>1
  <2>8. InHandFirst(bus', rec', published')
    BY <1>0, <2>4, <2>6, <2>7 DEF InHandFirst
  <2>9. ASSUME NEW q \in Project
        PROVE  RecordedFirst(history[q], bus', rec', published', Again)
    <3>1. RecordedFirst(history[q], bus, rec, published, Again) /\ history[q] \in Seq(Event)
      BY DEF OrderInv, TypeOK
    <3>2. Below(history[q], published + 1)
      BY <3>1 DEF RecordedFirst
    <3>3. Below(history[q], published' + 1)
      BY <1>0, <1>2, <3>1, <3>2
    <3>4. \A j \in DOMAIN bus' : Below(history[q], bus'[j].n)
      BY <1>1, <2>5, <3>1, <3>2 DEF RecordedFirst
    <3>5. QED
      BY <3>1, <3>3, <3>4 DEF RecordedFirst
  <2>10. QED
    BY <1>a, <2>8, <2>9 DEF OrderInv
<1>6. QED
  BY <1>3, <1>4, <1>5

(* The event taken in hand is the first of those waiting.                  *)
LEMMA ReceiveKeepsOrder ==
  ASSUME TypeOK, OrderInv, Receive
  PROVE  OrderInv'
<1>1. bus \in Seq(Event) /\ bus # <<>> /\ UNCHANGED <<history, published, faults>>
  BY DEF TypeOK, Receive, meter, bounds
<1>2. /\ DOMAIN bus = 1..Len(bus) /\ Len(bus) \in Nat
      /\ \A i \in DOMAIN bus : bus[i].n \in Nat
  BY <1>1, EventsNumbered
<1>3. /\ bus' \in Seq(Event) /\ Len(bus') = Len(bus) - 1
      /\ \A i \in 1..Len(bus') : bus'[i] = bus[i + 1]
  BY <1>1, HeadTailProperties DEF Receive
<1>4. Len(bus) # 0 /\ Head(bus) = bus[1]
  BY <1>1, EmptySeq, HeadTailProperties
<1>5. DOMAIN bus' = 1..(Len(bus) - 1)
  BY <1>3, EventsNumbered
<1>6. \A j \in DOMAIN bus' : j + 1 \in DOMAIN bus /\ bus'[j] = bus[j + 1]
  BY <1>2, <1>3, <1>5
<1>7. 1 \in DOMAIN bus
  BY <1>2, <1>4
<1>8. rec'.at = "append" /\ rec'.event = bus[1]
  BY <1>4 DEF Receive, Listening
<1>9. InHandFirst(bus, rec, published) /\ published \in Nat
  BY DEF OrderInv, TypeOK
<1>10. Ascending(bus')
  <2>1. ASSUME NEW i \in DOMAIN bus', NEW j \in DOMAIN bus', i < j
        PROVE  bus'[i].n < bus'[j].n
    <3>1. i + 1 < j + 1
      BY <1>2, <1>5, <2>1
    <3>2. QED
      BY <1>6, <1>9, <3>1 DEF InHandFirst, Ascending
  <2>2. QED
    BY <2>1 DEF Ascending
<1>11. Below(bus', published + 1)
  BY <1>6, <1>9 DEF InHandFirst, Below
<1>12. bus[1].n <= published
  BY <1>2, <1>7, <1>9 DEF InHandFirst, Below
<1>13. ASSUME NEW j \in DOMAIN bus'
       PROVE  bus[1].n < bus'[j].n
  <2>1. 1 < j + 1
    BY <1>2, <1>5
  <2>2. QED
    BY <1>6, <1>7, <1>9, <2>1 DEF InHandFirst, Ascending
<1>14. InHandFirst(bus', rec', published)
  BY <1>8, <1>10, <1>11, <1>12, <1>13 DEF InHandFirst
<1>15. ASSUME NEW p \in Project
       PROVE  RecordedFirst(history[p], bus', rec', published, Again)
  <2>1. RecordedFirst(history[p], bus, rec, published, Again)
    BY DEF OrderInv
  <2>2. Again \in Nat /\ \A i \in DOMAIN history[p] : history[p][i].n \in Nat
    BY EventsNumbered DEF TypeOK, Again
  <2>3. Below(history[p], rec'.event.n + Again)
    BY <1>2, <1>7, <1>8, <2>1, <2>2 DEF RecordedFirst, Below
  <2>4. QED
    BY <1>6, <2>1, <2>3 DEF RecordedFirst
<1>16. Again' = Again
  BY <1>1 DEF Again
<1>17. QED
  BY <1>1, <1>14, <1>15, <1>16 DEF OrderInv

(* Recording puts it last, and trimming takes the first away.              *)
LEMMA RecordKeepsOrder ==
  ASSUME NEW log \in Seq(Event), NEW e \in Event, NEW again \in Nat,
         Ordered(log, again), Below(log, e.n + again)
  PROVE  LET kept == Trim(Append(log, e)) IN
         /\ Ordered(kept, again)
         /\ Len(kept) <= MaxHistory
         /\ \A n \in Nat : e.n + again <= n /\ e.n < n => Below(kept, n)
<1> DEFINE longer == Append(log, e)
           kept == Trim(longer)
<1>1. /\ longer \in Seq(Event) /\ Len(longer) = Len(log) + 1
      /\ \A i \in 1..Len(log) : longer[i] = log[i]
      /\ longer[Len(log) + 1] = e
  BY AppendProperties
<1>2. /\ DOMAIN log = 1..Len(log) /\ Len(log) \in Nat
      /\ \A i \in 1..Len(log) : log[i].n \in Nat
      /\ e.n \in Nat
  BY EventsNumbered DEF Event
<1> HIDE DEF longer
<1>3. /\ kept \in Seq(Event) /\ Len(kept) <= MaxHistory
      /\ \E k \in Nat : \A i \in 1..Len(kept) :
           i + k \in 1..Len(longer) /\ kept[i] = longer[i + k]
  <2>1. longer \in Seq(Event)
    BY <1>1
  <2>2. /\ Trim(longer) \in Seq(Event) /\ Len(Trim(longer)) <= MaxHistory
        /\ \E k \in Nat : \A i \in 1..Len(Trim(longer)) :
             i + k \in 1..Len(longer) /\ Trim(longer)[i] = longer[i + k]
    BY <2>1, TrimKeepsNewest, Zenon
  <2>3. QED
    BY <2>2, Zenon
<1> HIDE DEF kept
<1>4. DOMAIN kept = 1..Len(kept) /\ Len(kept) \in Nat
  BY <1>3, EventsNumbered
<1>5. PICK k \in Nat : \A i \in 1..Len(kept) :
        i + k \in 1..Len(longer) /\ kept[i] = longer[i + k]
  BY <1>3
<1>6. ASSUME NEW i \in 1..Len(longer), NEW j \in 1..Len(longer), i < j
      PROVE  longer[i].n < longer[j].n + again
  <2>1. i \in 1..Len(log) /\ longer[i] = log[i]
    BY <1>1, <1>2, <1>6
  <2>2. CASE j = Len(log) + 1
    BY <1>1, <1>2, <2>1, <2>2 DEF Below
  <2>3. CASE j # Len(log) + 1
    <3>1. j \in 1..Len(log) /\ longer[j] = log[j]
      BY <1>1, <1>2, <2>3
    <3>2. QED
      BY <1>2, <1>6, <2>1, <3>1 DEF Ordered
  <2>4. QED
    BY <2>2, <2>3
<1>7. Ordered(kept, again)
  <2>1. ASSUME NEW i \in DOMAIN kept, NEW j \in DOMAIN kept, i < j
        PROVE  kept[i].n < kept[j].n + again
    <3>1. i + k < j + k
      BY <1>4, <2>1
    <3>2. QED
      BY <1>4, <1>5, <1>6, <3>1
  <2>2. QED
    BY <2>1 DEF Ordered
<1>8. ASSUME NEW n \in Nat, e.n + again <= n, e.n < n
      PROVE  Below(kept, n)
  <2>1. \A i \in 1..Len(longer) : longer[i].n < n
    BY <1>1, <1>2, <1>8 DEF Below
  <2>2. QED
    BY <1>4, <1>5, <2>1 DEF Below
<1>9. QED
  BY <1>3, <1>7, <1>8 DEF kept, longer

LEMMA ChargeKeepsOrder ==
  ASSUME TypeOK, OrderInv, AppendAndCharge \/ LoseReply
  PROVE  OrderInv'
<1> DEFINE e == rec.event
<1>1. e \in Event /\ e.project \in Project /\ e.n \in Nat /\ rec.at = "append"
  BY BusyMoves DEF AppendAndCharge, LoseReply, Event
<1>2. UNCHANGED <<bus, published>> /\ published \in Nat
  BY DEF AppendAndCharge, LoseReply, TypeOK
<1>3. history' = [history EXCEPT ![e.project] = Trim(Append(history[e.project], e))]
  BY DEF AppendAndCharge, LoseReply
<1>a. /\ Again \in {0, 1} /\ Again' \in {0, 1} /\ Again <= Again'
      /\ rec'.at = "append" => rec' = rec /\ Again' = 1
  <2>1. CASE AppendAndCharge
    <3>1. Again' = Again /\ Again \in {0, 1}
      BY <2>1 DEF AppendAndCharge, Again, bounds
    <3>2. [rec EXCEPT !.at = "stop"].at = "stop"
      BY <1>1, BusyMoves
    <3>3. CASE rec' = [rec EXCEPT !.at = "stop"]
      BY <3>1, <3>2, <3>3
    <3>4. CASE rec' = Listening
      BY <3>1, <3>4 DEF Listening
    <3>5. QED
      BY <2>1, <3>3, <3>4 DEF AppendAndCharge
  <2>2. CASE LoseReply
    BY <2>2, RecorderAssumption DEF LoseReply, Again, TypeOK, Listening
  <2>3. QED
    BY <2>1, <2>2
<1> HIDE DEF e, Again
<1>4. InHandFirst(bus, rec, published)
  BY DEF OrderInv
<1>5. e.n < published + 1 /\ \A j \in DOMAIN bus : e.n < bus[j].n /\ bus[j].n \in Nat
  BY <1>1, <1>2, <1>4, EventsNumbered DEF InHandFirst, TypeOK, e
<1>6. InHandFirst(bus, rec', published)
  BY <1>4, <1>a DEF InHandFirst
<1>7. ASSUME NEW p \in Project
      PROVE  RecordedFirst(history'[p], bus, rec', published, Again')
  <2>1. RecordedFirst(history[p], bus, rec, published, Again) /\ history[p] \in Seq(Event)
    BY DEF OrderInv, TypeOK
  <2>0. \A i \in DOMAIN history[p] : history[p][i].n \in Nat
    BY <2>1, EventsNumbered
  <2>2. CASE p = e.project
    <3>1. Ordered(history[p], Again') /\ Below(history[p], e.n + Again')
      BY <1>1, <1>a, <2>0, <2>1 DEF RecordedFirst, Ordered, Below, e
    <3>2. /\ Ordered(Trim(Append(history[p], e)), Again')
          /\ Len(Trim(Append(history[p], e))) <= MaxHistory
          /\ \A n \in Nat : e.n + Again' <= n /\ e.n < n =>
               Below(Trim(Append(history[p], e)), n)
      <4>1. PICK again \in Nat : again = Again'
        BY <1>a
      <4>2. Ordered(history[p], again) /\ Below(history[p], e.n + again)
        BY <3>1, <4>1
      <4>3. /\ Ordered(Trim(Append(history[p], e)), again)
            /\ Len(Trim(Append(history[p], e))) <= MaxHistory
            /\ \A n \in Nat : e.n + again <= n /\ e.n < n =>
                 Below(Trim(Append(history[p], e)), n)
        BY <1>1, <2>1, <4>2, RecordKeepsOrder
      <4>4. QED
        BY <4>1, <4>3
    <3>3. history'[p] = Trim(Append(history[p], e))
      BY <1>1, <1>3, <2>2 DEF TypeOK
    <3>4. published + 1 \in Nat /\ e.n + 1 \in Nat
      BY <1>1, <1>2
    <3>5. \A n \in Nat : e.n < n => Below(history'[p], n)
      BY <1>1, <1>a, <3>2, <3>3
    <3>6. rec'.at = "append" => Below(history'[p], rec'.event.n + Again')
      BY <1>1, <1>a, <3>4, <3>5 DEF e
    <3>7. QED
      BY <1>5, <3>2, <3>3, <3>4, <3>5, <3>6 DEF RecordedFirst
  <2>3. CASE p # e.project
    <3>1. history'[p] = history[p]
      BY <1>3, <2>3 DEF TypeOK
    <3>2. Ordered(history[p], Again')
      BY <1>a, <2>0, <2>1 DEF RecordedFirst, Ordered
    <3>3. rec'.at = "append" => Below(history[p], rec'.event.n + Again')
      BY <1>1, <1>a, <2>0, <2>1 DEF RecordedFirst, Below, e
    <3>4. QED
      BY <2>1, <3>1, <3>2, <3>3 DEF RecordedFirst
  <2>4. QED
    BY <2>2, <2>3
<1>8. QED
  BY <1>2, <1>6, <1>7 DEF OrderInv

(* A subscription that ends takes what waited with it.                     *)
LEMMA DropKeepsOrder ==
  ASSUME OrderInv, bus' = <<>>, rec'.at # "append",
         UNCHANGED <<history, published, faults>>
  PROVE  OrderInv'
<1>1. DOMAIN bus' = {}
  BY LenProperties, EmptySeq
<1>2. Again' = Again
  BY DEF Again
<1>3. QED
  BY <1>1, <1>2 DEF OrderInv, InHandFirst, RecordedFirst, Ascending, Below

LEMMA OrderStep == TypeOK /\ OrderInv /\ [Next]_vars => OrderInv'
<1> SUFFICES ASSUME TypeOK, OrderInv, [Next]_vars
             PROVE  OrderInv'
  OBVIOUS
<1>1. ASSUME NEW a \in Agent, NEW kind \in {"usage", "other"}, AgentPublishes(a, kind)
      PROVE  OrderInv'
  <2>1. agents[a].project \in Project
    BY <1>1 DEF TypeOK, AgentsTypeOK, AgentPublishes, Live, AgentRecord, Unused
  <2>2. kind \in Kind /\ Publish(agents[a].project, kind) /\ UNCHANGED <<history, rec, faults>>
    BY <1>1 DEF Kind, AgentPublishes, meter, bounds
  <2>3. QED
    BY <2>1, <2>2, PublishKeepsOrder
<1>2. CASE Receive
  BY <1>2, ReceiveKeepsOrder
<1>3. CASE AppendAndCharge \/ LoseReply
  BY <1>3, ChargeKeepsOrder
<1>4. CASE Announce
  <2>1. rec.event.project \in Project /\ rec'.at = "get"
    BY <1>4, BusyMoves DEF Announce
  <2>2. "error" \in Kind /\ Publish(rec.event.project, "error") /\ UNCHANGED <<history, faults>>
    BY <1>4 DEF Kind, Announce, meter, bounds
  <2>3. QED
    BY <2>1, <2>2, PublishKeepsOrder
<1>5. CASE Stop \/ GetProject \/ SaveKey \/ SaveIndex
  <2>1. rec'.at # "append"
    <3>1. CASE Stop
      BY <3>1, BusyMoves DEF Stop
    <3>2. CASE GetProject
      <4>1. CASE rec.event.project \in Open
        <5>1. Finish(projects[rec.event.project], TRUE) \in ProjectRecord
          BY <4>1, FinishTyped
        <5>2. QED
          BY <3>2, <4>1, <5>1, BusyMoves DEF GetProject
      <4>2. CASE rec.event.project \notin Open
        BY <3>2, <4>2 DEF GetProject, Listening
      <4>3. QED
        BY <4>1, <4>2
    <3>3. CASE SaveKey
      BY <3>3, BusyMoves DEF SaveKey
    <3>4. CASE SaveIndex
      BY <3>4 DEF SaveIndex, Listening
    <3>5. QED
      BY <1>5, <3>1, <3>2, <3>3, <3>4
  <2>2. UNCHANGED <<bus, history, published, faults>>
    BY <1>5 DEF Stop, GetProject, SaveKey, SaveIndex, meter, bounds
  <2>3. QED
    BY <2>1, <2>2, NothingNewInHand
<1>6. CASE LoseConnection \/ Restart
  BY <1>6, DropKeepsOrder DEF LoseConnection, Restart, Listening, Dead, meter, bounds
<1>7. CASE \/ UNCHANGED vars
           \/ (\E a \in Agent : AgentMoves(a))
           \/ (\E a \in Agent, role \in Role, p \in Project : SpawnLands(a, role, p))
           \/ \E p \in Project : FounderCloses(p)
  BY <1>7, NothingNewInHand DEF vars, AgentMoves, SpawnLands, FounderCloses, meter, bounds
<1>8. CASE Swallow
  BY <1>8, SwallowKeepsOrder
<1>9. QED
  BY <1>1, <1>2, <1>3, <1>4, <1>5, <1>6, <1>7, <1>8 DEF Next, RecorderStep

(* Whatever raises, breaks or restarts: a history is in the order of       *)
(* publication and stays within its cap, and unless an answer was lost it  *)
(* has no event twice.                                                     *)
THEOREM HistoryStaysInOrder == Spec => []HistoryInOrder
<1>1. Init => OrderInv
  <2> SUFFICES ASSUME Init
               PROVE  OrderInv
    OBVIOUS
  <2>1. DOMAIN <<>> = {} /\ Len(<<>>) = 0
    BY EmptySeq
  <2>2. QED
    BY <2>1, RecorderAssumption
    DEF Init, Listening, OrderInv, InHandFirst, RecordedFirst, Ordered, Ascending,
        Below
<1>2. TypeOK /\ OrderInv => HistoryInOrder
  <2> SUFFICES ASSUME TypeOK, OrderInv
               PROVE  HistoryInOrder
    OBVIOUS
  <2>1. ASSUME NEW p \in Project
        PROVE  Ordered(history[p], Again) /\ Len(history[p]) <= MaxHistory
    BY DEF OrderInv, RecordedFirst
  <2>2. ASSUME NEW p \in Project
        PROVE  \A i \in DOMAIN history[p] : history[p][i].n \in Nat
    BY EventsNumbered DEF TypeOK
  <2>3. QED
    BY <2>1, <2>2 DEF Ordered, Again, HistoryInOrder
<1>3. QED
  BY RecorderTypes, OrderStep, <1>1, <1>2, PTL DEF Spec
-------------------------------------------------------------------------------
(* The bill. *)

(* A recorded turn is one more in the history's own count.                 *)
LEMMA RecordingCounts ==
  ASSUME NEW log \in Seq(Event), NEW e \in Event
  PROVE  UsageIn(Append(log, e)) = UsageIn(log) + Cost(e) /\ UsageIn(log) \in Nat
<1> DEFINE longer == Append(log, e)
           used == {i \in DOMAIN log : log[i].kind = "usage"}
           usedNow == {i \in DOMAIN longer : longer[i].kind = "usage"}
<1>1. /\ longer \in Seq(Event) /\ Len(longer) = Len(log) + 1
      /\ \A i \in 1..Len(log) : longer[i] = log[i]
      /\ longer[Len(log) + 1] = e
  BY AppendProperties
<1>2. DOMAIN log = 1..Len(log) /\ Len(log) \in Nat /\ DOMAIN longer = 1..Len(longer)
  BY <1>1, LenProperties
<1>3. IsFiniteSet(used) /\ Cardinality(used) \in Nat
  <2>1. IsFiniteSet(1..Len(log)) /\ used \subseteq 1..Len(log)
    BY <1>2, FS_Interval
  <2>2. QED
    BY <2>1, FS_Subset, FS_CardinalityType
<1>u. UsageIn(log) = Cardinality(used) /\ UsageIn(Append(log, e)) = Cardinality(usedNow)
  BY DEF UsageIn
<1> HIDE DEF longer
<1>4. CASE e.kind = "usage"
  <2>1. usedNow = used \cup {Len(log) + 1} /\ Len(log) + 1 \notin used
    BY <1>1, <1>2, <1>4
  <2>2. Cardinality(usedNow) = Cardinality(used) + 1
    BY <1>3, <2>1, FS_AddElement
  <2>3. QED
    BY <1>u, <1>3, <1>4, <2>2 DEF Cost
<1>5. CASE e.kind # "usage"
  <2>1. usedNow = used
    BY <1>1, <1>2, <1>5
  <2>2. Cardinality(usedNow) = Cardinality(used)
    BY <2>1, Zenon
  <2>3. Cost(e) = 0
    BY <1>5 DEF Cost
  <2> HIDE DEF used, usedNow
  <2>4. QED
    BY <1>u, <1>3, <2>2, <2>3
<1>6. QED
  BY <1>4, <1>5

(* A log that is not full has not been trimmed by its last event: it is    *)
(* one event longer, and counts it.                                        *)
LEMMA NotTrimmed ==
  ASSUME NEW log \in Seq(Event), NEW e \in Event,
         Len(Trim(Append(log, e))) < MaxHistory
  PROVE  /\ Len(log) < MaxHistory
         /\ UsageIn(log) \in Nat
         /\ UsageIn(Trim(Append(log, e))) = UsageIn(log) + Cost(e)
<1>1. /\ Append(log, e) \in Seq(Event)
      /\ Len(Append(log, e)) = Len(log) + 1 /\ Len(log) \in Nat
  BY AppendProperties, LenProperties
<1>2. ~(Len(Append(log, e)) > MaxHistory)
  <2>1. Len(Append(log, e)) > MaxHistory => Len(Trim(Append(log, e))) = MaxHistory
    BY <1>1, TrimKeepsNewest
  <2>2. QED
    BY <2>1, RecorderAssumption
<1>3. Len(Append(log, e)) <= MaxHistory /\ Len(log) < MaxHistory
  BY <1>1, <1>2, RecorderAssumption
<1>4. Trim(Append(log, e)) = Append(log, e)
  BY <1>1, <1>3, TrimKeepsNewest
<1>5. QED
  BY <1>3, <1>4, RecordingCounts

(* The step that records an event charges for it, and one whose answer was *)
(* lost records it and does not.                                           *)
LEMMA ChargeKeepsBill ==
  ASSUME TypeOK, BillMatchesHistory, AppendAndCharge \/ LoseReply
  PROVE  BillMatchesHistory'
<1> DEFINE e == rec.event
<1>1. e \in Event /\ e.project \in Project /\ Cost(e) \in {0, 1}
  BY BusyMoves DEF AppendAndCharge, LoseReply, Cost
<1>2. /\ history' = [history EXCEPT ![e.project] = Trim(Append(history[e.project], e))]
      /\ restarts' = restarts
  BY DEF AppendAndCharge, LoseReply, bounds
<1>3. faults \in Nat /\ spend \in [Project -> Nat] /\ history \in [Project -> Seq(Event)]
  BY RecorderAssumption DEF TypeOK
<1> HIDE DEF e
<1>4. /\ \/ faults' = faults /\ spend' = [spend EXCEPT ![e.project] = spend[e.project] + Cost(e)]
         \/ faults' = faults + 1 /\ spend' = spend
  BY DEF AppendAndCharge, LoseReply, bounds, e
<1>5. SUFFICES ASSUME NEW p \in Project, Len(history'[p]) < MaxHistory
               PROVE  /\ spend'[p] <= UsageIn(history'[p])
                      /\ restarts = 0 => UsageIn(history'[p]) <= spend'[p] + faults'
  BY <1>2 DEF BillMatchesHistory
<1>6. CASE p # e.project
  <2>1. history'[p] = history[p] /\ spend'[p] = spend[p]
    BY <1>2, <1>3, <1>4, <1>6
  <2>2. Len(history[p]) < MaxHistory
    BY <1>5, <2>1
  <2>3. spend[p] <= UsageIn(history[p]) /\ (restarts = 0 => UsageIn(history[p]) <= spend[p] + faults)
    BY <2>2 DEF BillMatchesHistory
  <2>4. UsageIn(history[p]) \in Nat
    BY <1>1, <1>3, RecordingCounts
  <2>5. QED
    BY <1>3, <1>4, <2>1, <2>3, <2>4
<1>7. CASE p = e.project
  <2>1. history'[p] = Trim(Append(history[p], e)) /\ history[p] \in Seq(Event)
    BY <1>1, <1>2, <1>3, <1>7
  <2>2. /\ Len(history[p]) < MaxHistory
        /\ UsageIn(history[p]) \in Nat
        /\ UsageIn(history'[p]) = UsageIn(history[p]) + Cost(e)
    BY <1>1, <1>5, <2>1, NotTrimmed
  <2>3. spend[p] <= UsageIn(history[p]) /\ (restarts = 0 => UsageIn(history[p]) <= spend[p] + faults)
    BY <2>2 DEF BillMatchesHistory
  <2>4. \/ faults' = faults /\ spend'[p] = spend[p] + Cost(e)
        \/ faults' = faults + 1 /\ spend'[p] = spend[p]
    BY <1>1, <1>3, <1>4, <1>7
  <2>5. QED
    BY <1>1, <1>3, <2>2, <2>3, <2>4
<1>8. QED
  BY <1>6, <1>7

(* While nothing has been trimmed, the bill never says more than the       *)
(* history, and until a restart no less but for the answers lost.          *)
THEOREM BillIsHistorys == Spec => []BillMatchesHistory
<1>1. Init => BillMatchesHistory
  <2> SUFFICES ASSUME Init, NEW p \in Project
               PROVE  spend[p] = 0 /\ UsageIn(history[p]) = 0 /\ faults = 0
    BY DEF BillMatchesHistory
  <2>1. {i \in DOMAIN history[p] : history[p][i].kind = "usage"} = {}
    BY EmptySeq DEF Init
  <2>2. QED
    BY <2>1, FS_EmptySet DEF Init, UsageIn
<1>2. TypeOK /\ BillMatchesHistory /\ [Next]_vars => BillMatchesHistory'
  <2> SUFFICES ASSUME TypeOK, BillMatchesHistory, [Next]_vars
               PROVE  BillMatchesHistory'
    OBVIOUS
  <2>0. /\ faults \in Nat /\ restarts \in Nat
        /\ \A p \in Project : spend[p] \in Nat /\ UsageIn(history[p]) \in Nat
    <3>1. ASSUME NEW p \in Project
          PROVE  UsageIn(history[p]) \in Nat
      <4>1. [n |-> 0, project |-> p, kind |-> "other"] \in Event /\ history[p] \in Seq(Event)
        BY DEF Event, Kind, TypeOK
      <4>2. QED
        BY <4>1, RecordingCounts
    <3>2. QED
      BY <3>1, RecorderAssumption DEF TypeOK
  <2>1. CASE AppendAndCharge \/ LoseReply
    BY <2>1, ChargeKeepsBill
  <2>2. CASE Restart
    <3>1. restarts' # 0 /\ history' = history /\ \A p \in Project : spend'[p] = 0
      BY <2>0, <2>2 DEF Restart
    <3>2. QED
      BY <2>0, <3>1 DEF BillMatchesHistory
  <2>3. CASE UNCHANGED <<history, spend, restarts>> /\ faults' \in {faults, faults + 1}
    BY <2>0, <2>3 DEF BillMatchesHistory
  <2>4. \/ AppendAndCharge \/ LoseReply \/ Restart
        \/ UNCHANGED <<history, spend, restarts>> /\ faults' \in {faults, faults + 1}
    BY DEF Next, RecorderStep, Receive, Stop, Announce, GetProject, SaveKey, SaveIndex, Swallow,
           LoseConnection, vars, AgentMoves, AgentPublishes, SpawnLands, FounderCloses, meter,
           bounds
  <2>5. QED
    BY <2>1, <2>2, <2>3, <2>4
<1>3. QED
  BY RecorderTypes, <1>1, <1>2, PTL DEF Spec

(* The mark is set by the very step whose charge reaches the ceiling, and  *)
(* only a restart takes it back, together with the bill.                   *)
Marked == stopped = {p \in Project : spend[p] >= MaxTokens}

LEMMA MarkedStep == TypeOK /\ Marked /\ [Next]_vars => Marked'
<1> SUFFICES ASSUME TypeOK, Marked, [Next]_vars
             PROVE  Marked'
  OBVIOUS
<1>1. CASE AppendAndCharge
  <2> DEFINE e == rec.event
  <2>1. e.project \in Project /\ Cost(e) \in Nat /\ (e.kind # "usage" => Cost(e) = 0)
    BY <1>1, BusyMoves DEF AppendAndCharge, Cost
  <2>2. spend \in [Project -> Nat] /\ stopped = {p \in Project : spend[p] >= MaxTokens}
    BY DEF TypeOK, Marked
  <2>3. spend' = [spend EXCEPT ![e.project] = spend[e.project] + Cost(e)]
    BY <1>1 DEF AppendAndCharge
  <2>4. stopped' = IF MustStop(e) THEN stopped \cup {e.project} ELSE stopped
    BY <1>1 DEF AppendAndCharge
  <2> HIDE DEF e
  <2>5. ASSUME NEW p \in Project
        PROVE  p \in stopped' <=> spend'[p] >= MaxTokens
    BY <2>1, <2>2, <2>3, <2>4, RecorderAssumption DEF MustStop
  <2>6. stopped' \subseteq Project
    BY <2>1, <2>2, <2>4
  <2>7. QED
    BY <2>5, <2>6 DEF Marked
<1>2. CASE Restart
  BY <1>2, RecorderAssumption DEF Restart, Marked
<1>3. CASE UNCHANGED <<spend, stopped>>
  BY <1>3 DEF Marked
<1>4. AppendAndCharge \/ Restart \/ UNCHANGED <<spend, stopped>>
  BY DEF Next, RecorderStep, Receive, Stop, Announce, GetProject, SaveKey, SaveIndex, Swallow,
         LoseReply, LoseConnection, vars, AgentMoves, AgentPublishes, SpawnLands, FounderCloses,
         meter
<1>5. QED
  BY <1>1, <1>2, <1>3, <1>4

(* The history, which survives what the bill and the marks do not, tells   *)
(* who is torn down: only a project whose recorded usage has reached the   *)
(* ceiling, and until a restart every one that is above it by more than    *)
(* the answers lost.                                                       *)
THEOREM StoppedIsByHistory == Spec => []StoppedByHistory
<1>1. Init => Marked
  BY RecorderAssumption DEF Init, Marked
<1>2. TypeOK /\ Marked /\ BillMatchesHistory => StoppedByHistory
  <2> SUFFICES ASSUME TypeOK, Marked, BillMatchesHistory,
                      NEW p \in Project, Len(history[p]) < MaxHistory
               PROVE  /\ p \in stopped => UsageIn(history[p]) >= MaxTokens
                      /\ restarts = 0 /\ UsageIn(history[p]) >= MaxTokens + faults => p \in stopped
    BY DEF StoppedByHistory
  <2>1. /\ spend[p] <= UsageIn(history[p])
        /\ restarts = 0 => UsageIn(history[p]) <= spend[p] + faults
    BY DEF BillMatchesHistory
  <2>2. spend[p] \in Nat /\ faults \in Nat /\ UsageIn(history[p]) \in Nat /\ MaxTokens \in Nat
    <3>1. [n |-> 0, project |-> p, kind |-> "other"] \in Event /\ history[p] \in Seq(Event)
      BY DEF Event, Kind, TypeOK
    <3>2. QED
      BY <3>1, RecordingCounts, RecorderAssumption DEF TypeOK
  <2>3. p \in stopped <=> spend[p] >= MaxTokens
    BY DEF Marked
  <2>4. QED
    BY <2>1, <2>2, <2>3
<1>3. QED
  BY RecorderTypes, BillIsHistorys, MarkedStep, <1>1, <1>2, PTL DEF Spec
===============================================================================
