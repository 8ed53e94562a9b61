----------------------------- MODULE Conversation -----------------------------
(***************************************************************************)
(* Who hears what on a project.  The control plane and the agents publish  *)
(* on one Redis channel per project, which forgets what nobody is          *)
(* subscribed to; an agent's process boots some time after its Job, takes  *)
(* its assignment from its environment, then acts on one message at a      *)
(* time.  The agents are those of AgentRuntime: a process lives no longer  *)
(* than an attempt, and the next attempt starts over.                      *)
(***************************************************************************)
EXTENDS AgentRuntime, Sequences

CONSTANTS
  Assignments,  \* what clients have spawned agents do first, or "nothing"
  Poster,       \* concurrent calls of founder_says() and deliver()
  MaxLog,       \* MAX_HISTORY_MESSAGES
  MaxMessages,  \* bound: events of the kinds modelled, over all projects
  MaxLosses     \* bound: subscriptions cut, attempts ended before the last

ASSUME ConversationAssumption ==
  /\ Assignments \subseteq {"other", "nothing"}
  /\ MaxLog \in Nat \ {0}
  /\ MaxMessages \in Nat /\ MaxLosses \in Nat
  /\ Project \cap Agent = {}

VARIABLES
  opening,   \* [Project -> how far open_project() is]
  assigned,  \* [Agent -> what its environment tells it to do]
  procs,     \* [Agent -> its process]
  posts,     \* [Poster -> the event about to be published]
  sent,      \* every event published so far, in order
  losses     \* number of losses so far

vars == <<agents, opening, assigned, procs, posts, sent, losses>>

Kind == {"founder_message", "assignment", "agent_message", "error"}

ACTIONABLE_KINDS == {"founder_message", "assignment", "agent_message"}

Everyone == "everyone"   \* the empty address

Text == {"request", "other"}   \* is this the message that opened the project

(* Sources and addresses are agents, the founder and the control plane.    *)
Message == [n : Nat, project : Project, kind : Kind, source : Agent \cup {"founder", "control-plane"},
            to : Agent \cup {Everyone}, text : Text]

NoMessage == [n |-> 0, project |-> "none", kind |-> "error", source |-> "control-plane",
              to |-> Everyone, text |-> "other"]

(* line: the subscription ("none" yet, "up", or "cut" and not noticed);    *)
(* inbox: delivered and unread; log: the length of the transcript; since   *)
(* and taken are for the properties: the last event published before it    *)
(* subscribed, and the events it has acted on since.                       *)
Process == [at : {"listening", "turn"}, line : {"none", "up", "cut"},
            inbox : Seq(Message), log : Nat,
            since : Nat, taken : Seq(Message)]

Down == [at |-> "down", line |-> "none", inbox |-> <<>>, log |-> 0,
         since |-> 0, taken |-> <<>>]

NoPost == [at |-> "idle", event |-> NoMessage]

TypeOK ==
  /\ AgentsTypeOK
  /\ opening \in [Project -> {"created", "published", "staffed"}]
  /\ assigned \in [Agent -> Text \cup {"nothing"}]
  /\ procs \in [Agent -> Process \cup {Down}]
  /\ posts \in [Poster -> [at : {"publish"}, event : Message] \cup {NoPost}]
  /\ sent \in Seq(Message)
  /\ losses \in 0..MaxLosses

(* create() has returned for every project: each can be named. *)
Init ==
  /\ AgentsInit
  /\ opening = [p \in Project |-> "created"]
  /\ assigned = [a \in Agent |-> "nothing"]
  /\ procs = [a \in Agent |-> Down]
  /\ posts = [r \in Poster |-> NoPost]
  /\ sent = <<>>
  /\ losses = 0
-------------------------------------------------------------------------------
Running(a) == procs[a].at \in {"listening", "turn"}

Subscribed(a) == Running(a) /\ procs[a].line = "up"

Set(a, proc) == procs' = [procs EXCEPT ![a] = proc]

(* An event; publishing it gives it its number. *)
Say(p, kind, source, to, text) ==
  [n |-> 0, project |-> p, kind |-> kind, source |-> source, to |-> to, text |-> text]

(* PUBLISH: each process subscribed to the channel gets it; the others     *)
(* never will.  after is what the publisher itself has become.             *)
Publish(said, after) ==
  LET event == [said EXCEPT !.n = Len(sent) + 1]
  IN /\ Len(sent) < MaxMessages
     /\ sent' = Append(sent, event)
     /\ procs' = [a \in Agent |->
          IF Subscribed(a) /\ agents[a].project = event.project
          THEN [after[a] EXCEPT !.inbox = Append(@, event)]
          ELSE after[a]]
-------------------------------------------------------------------------------
(* The control plane. *)

LaunchWith(a, role, p, assignment) ==
  /\ Launch(a, role, p)
  /\ assigned' = [assigned EXCEPT ![a] = assignment]

(* A slip: the request is published once somebody is there to read it. *)
OpenProjectLaunchFirst(p) ==
  \/ /\ opening[p] = "created"
     /\ \E a \in Agent : LaunchWith(a, FirstRole, p, "request")
     /\ opening' = [opening EXCEPT ![p] = "published"]
     /\ UNCHANGED <<procs, posts, sent, losses>>
  \/ /\ opening[p] = "published"
     /\ Publish(Say(p, "founder_message", "founder", Everyone, "request"), procs)
     /\ opening' = [opening EXCEPT ![p] = "staffed"]
     /\ UNCHANGED <<agents, assigned, posts, losses>>

(* open_project: the founder's request is published to whoever is there,   *)
(* then the EM is launched with it as its assignment.                      *)
OpenProject(p) ==
  \/ /\ opening[p] = "created"
     /\ Publish(Say(p, "founder_message", "founder", Everyone, "request"), procs)
     /\ opening' = [opening EXCEPT ![p] = "published"]
     /\ UNCHANGED <<agents, assigned, posts, losses>>
  \/ /\ opening[p] = "published"
     /\ \E a \in Agent : LaunchWith(a, FirstRole, p, "request")
     /\ opening' = [opening EXCEPT ![p] = "staffed"]
     /\ UNCHANGED <<procs, posts, sent, losses>>

(* spawn(), with an assignment or without. *)
Spawn(a, role, p, assignment) ==
  /\ LaunchWith(a, role, p, assignment)
  /\ UNCHANGED <<opening, procs, posts, sent, losses>>

(* _role_address: one of the live agents holding the role. *)
Addresses(role, p) == LiveOn(role, p)

Post(r, event) == posts' = [posts EXCEPT ![r] = [at |-> "publish", event |-> event]]

(* founder_says: to the EM, or to the empty address when there is none. *)
FounderSays(r, p) ==
  /\ posts[r] = NoPost
  /\ Len(sent) < MaxMessages
  /\ \E to \in IF Addresses(FirstRole, p) = {} THEN {Everyone} ELSE Addresses(FirstRole, p) :
       Post(r, Say(p, "founder_message", "founder", to, "other"))
  /\ UNCHANGED <<agents, opening, assigned, procs, sent, losses>>

(* deliver, called by delegate_to in a turn of an EM: refused at once when *)
(* nobody holds the role.                                                  *)
Deliver(r, sender, role) ==
  LET p == agents[sender].project
  IN /\ posts[r] = NoPost
     /\ Len(sent) < MaxMessages
     /\ procs[sender].at = "turn" /\ agents[sender].role = FirstRole
     /\ \E to \in Addresses(role, p) : Post(r, Say(p, "assignment", sender, to, "other"))
     /\ UNCHANGED <<agents, opening, assigned, procs, sent, losses>>

(* The event goes out, whatever became of its addressee meanwhile. *)
PublishPost(r) ==
  /\ posts[r] # NoPost
  /\ Publish(posts[r].event, procs)
  /\ posts' = [posts EXCEPT ![r] = NoPost]
  /\ UNCHANGED <<agents, opening, assigned, losses>>
-------------------------------------------------------------------------------
(* An agent's process. *)
Alone == UNCHANGED <<agents, opening, assigned, posts, losses>>

(* handle(): a turn begins, and the transcript has one entry more. *)
Take(proc) == [proc EXCEPT !.at = "turn", !.log = @ + 1]

(* A slip: the subscription waits until the assignment is done. *)
SubscribeAfterBootstrap(a) ==
  LET proc == [procs[a] EXCEPT !.at = "listening", !.since = Len(sent)]
  IN /\ a \in Live /\ procs[a] = Down
     /\ Set(a, IF assigned[a] # "nothing" THEN Take(proc)
               ELSE [proc EXCEPT !.line = "up"])
     /\ UNCHANGED sent
     /\ Alone

(* The container, started once for an attempt, has subscribed: what it has *)
(* done before nobody waits for.  Then the assignment, if there is one: an *)
(* event of its own, which is not on the channel.                          *)
Subscribe(a) ==
  LET proc == [procs[a] EXCEPT !.at = "listening", !.line = "up", !.since = Len(sent)]
  IN /\ a \in Live /\ procs[a] = Down
     /\ Set(a, IF assigned[a] # "nothing" THEN Take(proc) ELSE proc)
     /\ UNCHANGED sent
     /\ Alone

(* Event.is_for. *)
IsFor(event, a) == event.source # a /\ event.to \in {a, Everyone}

(* get_message: one is read; it starts a turn if it is for this agent and  *)
(* of a kind to act on, and is dropped otherwise.                          *)
GetMessage(a) ==
  LET event == Head(procs[a].inbox)
      proc == [procs[a] EXCEPT !.inbox = Tail(@)]
  IN /\ procs[a].at = "listening"
     /\ procs[a].inbox # <<>>
     /\ Set(a, IF IsFor(event, a) /\ event.kind \in ACTIONABLE_KINDS
               THEN [Take(proc) EXCEPT !.taken = Append(@, event)]
               ELSE proc)
     /\ UNCHANGED sent
     /\ Alone

EndTurn(proc) == [proc EXCEPT !.at = "listening"]

Trimmed(log) == IF log > MaxLog THEN MaxLog ELSE log

(* respond() is done: it publishes the reply to everyone, if there is one, *)
(* and trims the transcript.                                               *)
TurnReplies(a) ==
  /\ procs[a].at = "turn"
  /\ Publish(Say(agents[a].project, "agent_message", a, Everyone, "other"),
             [procs EXCEPT ![a] = [EndTurn(procs[a]) EXCEPT !.log = Trimmed(@ + 1)]])
  /\ Alone


TurnIsSilent(a) ==
  /\ procs[a].at = "turn"
  /\ Set(a, [EndTurn(procs[a]) EXCEPT !.log = Trimmed(@)])
  /\ UNCHANGED sent
  /\ Alone

(* The model call raises: an error is published, and respond() returns at  *)
(* once, the transcript as it is.  A reply that cannot be published ends   *)
(* in the same way, in handle().                                           *)
TurnFails(a) ==
  /\ procs[a].at = "turn"
  /\ Publish(Say(agents[a].project, "error", a, Everyone, "other"),
             [procs EXCEPT ![a] = EndTurn(procs[a])])
  /\ Alone

EndsTurn(a) == TurnReplies(a) \/ TurnIsSilent(a) \/ TurnFails(a)

(* The connection breaks with the last messages still on their way; it is  *)
(* noticed when the inbox is empty, and subscribed again after a pause.    *)
LoseLine(a) ==
  /\ Subscribed(a) /\ losses < MaxLosses
  /\ \E kept \in 0..Len(procs[a].inbox) :
       Set(a, [procs[a] EXCEPT !.line = "cut", !.inbox = SubSeq(@, 1, kept)])
  /\ losses' = losses + 1
  /\ UNCHANGED <<agents, opening, assigned, posts, sent>>

Resubscribe(a) ==
  /\ procs[a].at = "listening" /\ procs[a].line # "up" /\ procs[a].inbox = <<>>
  /\ Set(a, [procs[a] EXCEPT !.line = "up", !.since = Len(sent), !.taken = <<>>])
  /\ UNCHANGED sent
  /\ Alone

(* The cluster moves: a process and the attempt it belongs to end together, *)
(* killed, finished, or because neither a reply nor the report that the     *)
(* reply failed could be published.                                         *)
ClusterMoves(a) ==
  /\ \/ (BecomeLive(a) \/ End(a)) /\ UNCHANGED losses
     \/ LoseLive(a) /\ losses < MaxLosses /\ losses' = losses + 1
  /\ Set(a, Down)
  /\ UNCHANGED <<opening, assigned, posts, sent>>
-------------------------------------------------------------------------------
ControlPlane ==
  \/ \E p \in Project : OpenProject(p)
  \/ \E a \in Agent, role \in Role, p \in Project, assignment \in Assignments :
       Spawn(a, role, p, assignment)
  \/ \E r \in Poster : \/ \E p \in Project : FounderSays(r, p)
                       \/ \E sender \in Agent, role \in Role : Deliver(r, sender, role)
                       \/ PublishPost(r)

ProcessStep(a) ==
  Subscribe(a) \/ GetMessage(a) \/ EndsTurn(a) \/ LoseLine(a) \/ Resubscribe(a)

Next == ControlPlane \/ \E a \in Agent : ProcessStep(a) \/ ClusterMoves(a)

Spec == Init /\ [][Next]_vars
-------------------------------------------------------------------------------
(* What an agent is due: what is said on its project, to it or to everyone, *)
(* by somebody else, and is work rather than telemetry.                    *)
Concerns(a, event) ==
  /\ event.project = agents[a].project
  /\ event.source # a /\ (event.to = a \/ event.to = Everyone)
  /\ event.kind # "error"

Concerning(a, events) ==
  {events[i] : i \in {j \in DOMAIN events : Concerns(a, events[j])}}

Ordered(events) == \A i, j \in DOMAIN events : i < j => events[i].n < events[j].n

(* From the moment it takes up its assignment an agent acts on every       *)
(* message for it, in the order they were published, once each, and on     *)
(* nothing else: neither on its own output nor on telemetry.  What is      *)
(* published while it is busy waits; only a broken connection loses        *)
(* messages, and never from the middle (agent_loop.py, listen).            *)
HeardInOrder ==
  \A a \in Agent : Running(a) =>
    LET proc == procs[a]
        heard == proc.taken \o proc.inbox
    IN /\ Ordered(heard)
       /\ \A i \in DOMAIN proc.taken : Concerns(a, proc.taken[i])
       /\ \E upto \in proc.since..Len(sent) :
            /\ proc.line # "cut" => upto = Len(sent)
            /\ Concerning(a, heard) = Concerning(a, SubSeq(sent, proc.since + 1, upto))

(* The EM acts on the request that opened the project only as its          *)
(* assignment: published before the EM is launched, it is never heard over *)
(* the channel as well (service.py, open_project).                         *)
RequestActedOnOnce ==
  \A a \in Agent : assigned[a] = "request" =>
    \A i \in DOMAIN procs[a].taken :
      procs[a].taken[i].project = agents[a].project => procs[a].taken[i].text = "other"

(* A turn that fails returns before the transcript is trimmed; only such   *)
(* turns, and the one under way, make it longer than its bound, each by    *)
(* one entry (agent_loop.py, respond).                                     *)
ErrorsOf(a, events) ==
  Cardinality({i \in DOMAIN events : events[i].kind = "error" /\ events[i].source = a})

===============================================================================
