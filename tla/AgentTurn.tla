------------------------------- MODULE AgentTurn -------------------------------
(***************************************************************************)
(* The inside of an agent's turns: respond() runs the harness, which asks  *)
(* the model, runs the tools it asks for at the same time, and asks again, *)
(* until there is an answer or the turn has used up its calls.  The        *)
(* telemetry around each step publishes what happens on the channel, and   *)
(* goes on when it cannot.  What the model thinks is published in the same *)
(* way just before what it cost, and left out; so are the calls the        *)
(* summariser makes, which no event reports.                               *)
(***************************************************************************)
EXTENDS Naturals, Sequences, SequencesExt

CONSTANTS
  MaxTools,    \* bound: tool calls a model asks for at once
  Ceiling,     \* calls_per_turn(role)
  MaxTurns,    \* bound: turns
  MaxFailures  \* bound: events that could not be published

ASSUME TurnAssumption ==
  Ceiling \in Nat \ {0} /\ MaxTools \in Nat /\ MaxTurns \in Nat /\ MaxFailures \in Nat

VARIABLES
  at,       \* where the process is: between turns, at a step of one, or down
  calls,    \* model calls made in this turn
  tools,    \* [Tool -> the call of it under way]
  trail,    \* what the channel has carried of this turn
  unsaid,   \* events of this turn that were not published
  free,     \* the model calls of this turn whose answer named no cost
  turns,    \* number of turns begun
  failures  \* number of events that could not be published

turn == <<at, calls, tools, trail, unsaid, free, turns, failures>>

Tool == 1..MaxTools

(* A tool's events tell its call apart: which round of the turn it is of. *)
Event ==
  [kind : {"usage", "started", "finished", "error"}, round : 1..Ceiling, tool : 0..MaxTools]
    \cup [kind : {"reply", "model_call error", "handler error"}]

TurnTypeOK ==
  /\ at \in {"idle", "model", "after", "tools", "answer", "sorry", "handler", "down"}
  /\ calls \in 0..Ceiling
  /\ tools \in [Tool -> {"none", "asked", "running", "reported"}]
  /\ trail \in Seq(Event)
  /\ unsaid \subseteq Event
  /\ free \subseteq 1..Ceiling
  /\ turns \in 0..MaxTurns /\ failures \in 0..MaxFailures

NoTools == [t \in Tool |-> "none"]

TurnInit ==
  /\ at = "idle" /\ calls = 0 /\ tools = NoTools /\ trail = <<>> /\ unsaid = {}
  /\ free = {} /\ turns = 0 /\ failures = 0
-------------------------------------------------------------------------------
Says(event) == trail' = Append(trail, event) /\ UNCHANGED <<unsaid, failures>>

Fails(event) ==
  /\ failures < MaxFailures /\ failures' = failures + 1
  /\ unsaid' = unsaid \cup {event}
  /\ UNCHANGED trail

(* _emit: published, or given up. *)
Emit(kind, tool) ==
  LET event == [kind |-> kind, round |-> calls, tool |-> tool]
  IN Says(event) \/ Fails(event)

(* An event to act on. *)
StartTurn ==
  /\ at = "idle" /\ turns < MaxTurns
  /\ turns' = turns + 1
  /\ at' = "model" /\ calls' = 0 /\ trail' = <<>> /\ unsaid' = {} /\ free' = {}
  /\ UNCHANGED <<tools, failures>>

(* A slip: at its ceiling the turn is not answered. *)
CallModelUpToCeiling ==
  /\ at = "model" /\ calls < Ceiling
  /\ \/ calls' = calls + 1 /\ at' = "after"
     \/ at' = "sorry" /\ UNCHANGED calls
  /\ UNCHANGED <<tools, trail, unsaid, free, turns, failures>>

(* The model answers; or is not asked, and the turn is answered for it; or *)
(* raises.                                                                 *)
CallModel ==
  /\ at = "model"
  /\ \/ calls < Ceiling /\ calls' = calls + 1 /\ at' = "after"
     \/ calls = Ceiling /\ at' = "answer" /\ UNCHANGED calls
     \/ calls < Ceiling /\ at' = "sorry" /\ UNCHANGED calls
  /\ UNCHANGED <<tools, trail, unsaid, free, turns, failures>>

(* A slip: what all calls so far have cost is reported every time. *)
AfterModelAll ==
  /\ at = "after"
  /\ trail' = trail \o [i \in 1..calls |-> [kind |-> "usage", round |-> i, tool |-> 0]]
  /\ \E asked \in 0..MaxTools :
       /\ at' = IF asked = 0 THEN "answer" ELSE "tools"
       /\ tools' = [t \in Tool |-> IF t <= asked THEN "asked" ELSE "none"]
  /\ UNCHANGED <<calls, turns, unsaid, free, failures>>

(* aafter_model reports what it cost, if the answer says so; then come the *)
(* tools it asked for, or the end.                                         *)
AfterModel ==
  /\ at = "after"
  /\ \/ Emit("usage", 0) /\ UNCHANGED free
     \/ free' = free \cup {calls} /\ UNCHANGED <<trail, unsaid, failures>>
  /\ \E asked \in 0..MaxTools :
       /\ at' = IF asked = 0 THEN "answer" ELSE "tools"
       /\ tools' = [t \in Tool |-> IF t <= asked THEN "asked" ELSE "none"]
  /\ UNCHANGED <<calls, turns>>

Step(t, before, after) ==
  /\ at = "tools" /\ tools[t] = before
  /\ tools' = [tools EXCEPT ![t] = after]
  /\ UNCHANGED <<at, calls, free, turns>>

(* awrap_tool_call: announced, *)
Announce(t) == Step(t, "asked", "running") /\ Emit("started", t)

(* run -- a role's own tool answers, with an error if need be (_safe), the *)
(* harness's may raise -- and reported.  What was raised goes on up: the   *)
(* turn ends with it, the other tools wherever they are.                   *)
Report(t) ==
  \/ Step(t, "running", "reported") /\ Emit("finished", t)
  \/ /\ at = "tools" /\ tools[t] = "running"
     /\ at' = "sorry" /\ tools' = NoTools
     /\ Emit("error", t)
     /\ UNCHANGED <<calls, free, turns>>

(* A slip: the model goes on with the first result there is. *)
RoundEndsEarly ==
  /\ at = "tools" /\ \E t \in Tool : tools[t] = "reported"
  /\ at' = "model" /\ tools' = NoTools
  /\ UNCHANGED <<calls, trail, unsaid, free, turns, failures>>

(* All that were asked have reported: the model is asked again. *)
RoundEnds ==
  /\ at = "tools" /\ \A t \in Tool : tools[t] \in {"none", "reported"}
  /\ at' = "model" /\ tools' = NoTools
  /\ UNCHANGED <<calls, trail, unsaid, free, turns, failures>>

(* respond() publishes the answer, if there is one; publishing it may      *)
(* raise, which is for handle() to report.                                 *)
Answer ==
  /\ at = "answer"
  /\ \/ at' = "idle" /\ Says([kind |-> "reply"])
     \/ at' = "idle" /\ UNCHANGED <<trail, unsaid, failures>>
     \/ at' = "handler" /\ Fails([kind |-> "reply"])
  /\ UNCHANGED <<calls, tools, free, turns>>

(* respond() reports what the harness has raised; handle() what that       *)
(* raises; and what that raises ends the loop.                             *)
Apologise ==
  /\ \/ /\ at = "sorry"
        /\ \/ at' = "idle" /\ Says([kind |-> "model_call error"])
           \/ at' = "handler" /\ Fails([kind |-> "model_call error"])
     \/ /\ at = "handler"
        /\ \/ at' = "idle" /\ Says([kind |-> "handler error"])
           \/ at' = "down" /\ Fails([kind |-> "handler error"])
  /\ UNCHANGED <<calls, tools, free, turns>>

TurnStep ==
  \/ CallModel \/ AfterModel \/ RoundEnds \/ Answer \/ Apologise
  \/ \E t \in Tool : Announce(t) \/ Report(t)
-------------------------------------------------------------------------------
Outcomes(events, round, t) ==
  {i \in DOMAIN events : /\ events[i].kind \in {"finished", "error"}
                         /\ events[i].round = round /\ events[i].tool = t}

(* What the channel shows of a turn can be relied on: a tool's outcome     *)
(* comes after its announcement and once; an answer comes last, when       *)
(* everything announced has its outcome -- unless that very event could    *)
(* not be published.  Only a turn that failed leaves tools without one     *)
(* (telemetry.py, awrap_tool_call: "a call that vanishes from the trail is *)
(* worse than one that failed loudly").                                    *)
TrailPaired ==
  /\ \A i \in DOMAIN trail :
       /\ trail[i].kind \in {"finished", "error"} =>
            LET started == [trail[i] EXCEPT !.kind = "started"]
            IN /\ started \in unsaid \cup ToSet(SubSeq(trail, 1, i - 1))
               /\ Outcomes(trail, trail[i].round, trail[i].tool) = {i}
       /\ trail[i].kind = "reply" => i = Len(trail)
  /\ trail # <<>> /\ Last(trail).kind = "reply" =>
       \A i \in DOMAIN trail : trail[i].kind = "started" =>
         [trail[i] EXCEPT !.kind = "finished"] \in unsaid \cup ToSet(trail)

(* Every call the turn made of the model that returned is on the bill, in  *)
(* order and once, but for those whose answer named no cost and those      *)
(* whose event could not be published: what these cost is never told       *)
(* (telemetry.py, aafter_model).                                           *)
Billed ==
  LET Bill(event) == event.kind = "usage"
      counted == IF at = "after" THEN calls - 1 ELSE calls
  IN /\ \A i, j \in DOMAIN trail :
          i < j /\ Bill(trail[i]) /\ Bill(trail[j]) => trail[i].round < trail[j].round
     /\ {event.round : event \in {e \in ToSet(trail) \cup unsaid : Bill(e)}}
          = (1..counted) \ free
===============================================================================
