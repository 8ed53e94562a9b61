-------------------------------- MODULE Console --------------------------------
(***************************************************************************)
(* What the founder's tab shows of a project: the page that opens it, the  *)
(* hook's WebSocket with its retry, the control plane's stream (history    *)
(* first, then the channel), and the recorder that writes the history a    *)
(* little after the channel has carried it.  Events of a project are       *)
(* numbered in the order they are published.                               *)
(***************************************************************************)
EXTENDS Naturals, Sequences, FiniteSets, SequencesExt

CONSTANTS
  Project,
  Socket,        \* the WebSockets the tab opens, each at most once
  HistoryLimit,  \* limit of history(), in events
  MaxStarts,     \* bound: requests to open a project
  MaxEvents,     \* bound: events published, over all projects
  MaxDrops       \* bound: connections lost

Nobody == "none"   \* no project, no socket

ASSUME ConsoleAssumption ==
  /\ HistoryLimit \in Nat \ {0}
  /\ MaxStarts \in Nat /\ MaxEvents \in Nat /\ MaxDrops \in Nat
  /\ IsFiniteSet(Project) /\ Cardinality(Project) >= MaxStarts
  /\ IsFiniteSet(Socket) /\ Cardinality(Socket) >= MaxStarts + MaxDrops
  /\ Nobody \notin Project \cup Socket

VARIABLES
  sent,      \* [Project -> number of its events published]
  recorded,  \* [Project -> number of them in the history]
  sock,      \* [Socket -> the browser's end, and what is on its way to it]
  stream,    \* [Socket -> the handler at the other end]
  task,      \* the project the page shows
  effect,    \* the project the hook's effect runs for
  ws,        \* the socket the hook opened last: its `ws`
  closed,    \* the projects whose effect was cleaned up: its `closed` flag
  retry,     \* the project the reconnect timer is set for
  posts,     \* number of POST /projects under way
  answers,   \* the projects whose POST has its answer under way
  starts,    \* number of those ever made
  drops      \* number of connections lost

vars == <<sent, recorded, sock, stream, task, effect, ws, closed, retry, posts, answers, starts, drops>>

server == <<sent, recorded, stream>>
page == <<task, effect, ws, closed, retry, posts, answers, starts>>

Event == Nat \ {0}   \* its number

Sock == [at : {"unused", "connecting", "open", "closing", "closed"},
         project : Project \cup {Nobody}, frames : Seq(Event), seen : Seq(Event)]

(* since: how many events had been published when it subscribed. *)
Stream == [at : {"none", "history", "send", "subscribe", "live", "ended"},
           past : Seq(Event), inbox : Seq(Event), since : Nat]

NoStream == [at |-> "none", past |-> <<>>, inbox |-> <<>>, since |-> 0]

TypeOK ==
  /\ sent \in [Project -> Nat]
  /\ recorded \in [Project -> Nat]
  /\ sock \in [Socket -> Sock]
  /\ stream \in [Socket -> Stream]
  /\ \A s \in Socket : Len(stream[s].past) <= HistoryLimit
  /\ {task, effect, retry} \subseteq Project \cup {Nobody}
  /\ ws \in Socket \cup {Nobody}
  /\ closed \subseteq Project /\ answers \subseteq Project
  /\ posts \in 0..starts /\ starts \in 0..MaxStarts /\ drops \in 0..MaxDrops

Init ==
  /\ sent = [p \in Project |-> 0]
  /\ recorded = [p \in Project |-> 0]
  /\ sock = [s \in Socket |-> [at |-> "unused", project |-> Nobody, frames |-> <<>>, seen |-> <<>>]]
  /\ stream = [s \in Socket |-> NoStream]
  /\ task = Nobody /\ effect = Nobody /\ ws = Nobody /\ closed = {} /\ retry = Nobody
  /\ posts = 0 /\ answers = {} /\ starts = 0 /\ drops = 0
-------------------------------------------------------------------------------
(* The control plane. *)

Published == FoldFunction(+, 0, sent)

(* PUBLISH reaches the handlers subscribed, whoever is left behind them. *)
Publish(p) ==
  /\ sent[p] > 0 /\ Published < MaxEvents
  /\ sent' = [sent EXCEPT ![p] = @ + 1]
  /\ stream' = [s \in Socket |->
       IF stream[s].at = "live" /\ sock[s].project = p
       THEN [stream[s] EXCEPT !.inbox = Append(@, sent[p] + 1)] ELSE stream[s]]
  /\ UNCHANGED <<recorded, sock, page, drops>>

(* record(): one event after the other, some time after it was published. *)
Record(p) ==
  /\ recorded[p] < sent[p]
  /\ recorded' = [recorded EXCEPT ![p] = @ + 1]
  /\ UNCHANGED <<sent, sock, stream, page, drops>>

Set(s, handler) == stream' = [stream EXCEPT ![s] = handler]

(* A slip: all there is, whatever the limit. *)
WholeHistory(p) == [i \in 1..recorded[p] |-> i]

(* A slip: as the list has it, the newest first. *)
NewestFirst(p) ==
  LET n == recorded[p]
  IN [i \in 1..(IF n > HistoryLimit THEN HistoryLimit ELSE n) |-> n + 1 - i]

(* The latest events recorded, oldest first. *)
History(p) ==
  LET n == recorded[p]
      first == IF n > HistoryLimit THEN n - HistoryLimit ELSE 0
  IN [i \in 1..(n - first) |-> first + i]

ReadHistory(s) ==
  /\ stream[s].at = "history"
  /\ Set(s, [stream[s] EXCEPT !.at = "send", !.past = History(sock[s].project)])
  /\ UNCHANGED <<sent, recorded, sock, page, drops>>

(* send_text raises when the browser is gone, and the handler ends: its    *)
(* subscription with it, if it has one.                                    *)
Send(s, events, next) ==
  IF sock[s].at = "open"
  THEN /\ sock' = [sock EXCEPT ![s].frames = @ \o events]
       /\ Set(s, next)
  ELSE Set(s, [NoStream EXCEPT !.at = "ended"]) /\ UNCHANGED sock

SendPast(s) ==
  /\ stream[s].at = "send"
  /\ IF stream[s].past = <<>>
     THEN Set(s, [stream[s] EXCEPT !.at = "subscribe"]) /\ UNCHANGED sock
     ELSE Send(s, stream[s].past, [stream[s] EXCEPT !.at = "subscribe", !.past = <<>>])
  /\ UNCHANGED <<sent, recorded, page, drops>>

(* watch(): from here on the channel is heard. *)
Subscribe(s) ==
  /\ stream[s].at = "subscribe"
  /\ Set(s, [stream[s] EXCEPT !.at = "live", !.since = sent[sock[s].project]])
  /\ UNCHANGED <<sent, recorded, sock, page, drops>>

Forward(s) ==
  /\ stream[s].at = "live" /\ stream[s].inbox # <<>>
  /\ Send(s, <<Head(stream[s].inbox)>>, [stream[s] EXCEPT !.inbox = Tail(@)])
  /\ UNCHANGED <<sent, recorded, page, drops>>
-------------------------------------------------------------------------------
(* The page and its hook. *)

(* The next socket the tab opens, the next project it is given. *)
FreshSocket == CHOOSE s \in Socket : sock[s].at = "unused"

FreshProject == CHOOSE p \in Project : sent[p] = 0

(* Pressing Start again before the first request has been answered makes   *)
(* another: the page knows no task yet.                                    *)
Submit ==
  /\ task = Nobody /\ starts < MaxStarts
  /\ starts' = starts + 1 /\ posts' = posts + 1
  /\ UNCHANGED <<server, sock, task, effect, ws, closed, retry, answers, drops>>

(* A project of its own for every request that is accepted; its first      *)
(* event, the founder's message, is out before it is answered.             *)
PostAccepted ==
  /\ posts > 0 /\ Published < MaxEvents
  /\ sent' = [sent EXCEPT ![FreshProject] = 1]
  /\ posts' = posts - 1 /\ answers' = answers \cup {FreshProject}
  /\ UNCHANGED <<recorded, stream, sock, task, effect, ws, closed, retry, starts, drops>>

(* The answer to one of them shows its project, whichever is shown.        *)
PostReturns(p) ==
  /\ p \in answers
  /\ answers' = answers \ {p} /\ task' = p
  /\ UNCHANGED <<server, sock, effect, ws, closed, retry, posts, starts, drops>>

(* Refused, or failed on the way there or on the way back. *)
PostFails ==
  /\ \/ posts > 0 /\ posts' = posts - 1 /\ UNCHANGED answers
     \/ \E p \in answers : answers' = answers \ {p} /\ UNCHANGED posts
  /\ UNCHANGED <<server, sock, task, effect, ws, closed, retry, starts, drops>>

Current(s) == sock[s].at \in {"connecting", "open"}

Connecting(p) == [at |-> "connecting", project |-> p, frames |-> <<>>, seen |-> <<>>]

(* close() on a socket: what is still on its way is not delivered, and     *)
(* what it has shown no longer matters here.                               *)
Closing(socket) == [socket EXCEPT !.at = "closing", !.frames = <<>>, !.seen = <<>>]

(* The effect runs for a new task: the old one is cleaned up (the flag,    *)
(* the timer, the socket), and a socket is opened for the new one.         *)
RunEffect ==
  /\ task # effect
  /\ effect' = task
  /\ closed' = closed \cup ({effect} \ {Nobody})
  /\ retry' = Nobody
  /\ sock' = [s \in Socket |-> IF s = FreshSocket THEN Connecting(task)
                               ELSE IF s = ws /\ Current(s) THEN Closing(sock[s]) ELSE sock[s]]
  /\ ws' = FreshSocket
  /\ UNCHANGED <<server, task, posts, answers, starts, drops>>

(* The timer: connect() again, into the state there is. *)
Retry ==
  /\ retry # Nobody
  /\ sock' = [sock EXCEPT ![FreshSocket] = Connecting(retry)]
  /\ ws' = FreshSocket /\ retry' = Nobody
  /\ UNCHANGED <<server, task, effect, closed, posts, answers, starts, drops>>

Accept(s) ==
  /\ sock[s].at = "connecting"
  /\ sock' = [sock EXCEPT ![s].at = "open"]
  /\ Set(s, [NoStream EXCEPT !.at = "history"])
  /\ UNCHANGED <<sent, recorded, page, drops>>

(* onmessage: apply() *)
OnMessage(s) ==
  /\ sock[s].at = "open" /\ sock[s].frames # <<>>
  /\ sock' = [sock EXCEPT ![s].frames = Tail(@), ![s].seen = Append(@, Head(sock[s].frames))]
  /\ UNCHANGED <<server, page, drops>>

Drop(s) ==
  /\ Current(s) /\ drops < MaxDrops
  /\ drops' = drops + 1
  /\ sock' = [sock EXCEPT ![s] = Closing(@)]
  /\ UNCHANGED <<server, page>>

(* A slip: every socket that closes is opened again. *)
OnCloseAlways(s) ==
  /\ sock[s].at = "closing"
  /\ sock' = [sock EXCEPT ![s].at = "closed"]
  /\ retry' = sock[s].project
  /\ UNCHANGED <<server, task, effect, ws, closed, posts, answers, starts, drops>>

(* A slip: a socket that was lost is given up. *)
OnCloseNever(s) ==
  /\ sock[s].at = "closing"
  /\ sock' = [sock EXCEPT ![s].at = "closed"]
  /\ UNCHANGED <<server, page, drops>>

(* onclose, some time after: try again, unless the effect was cleaned up. *)
OnClose(s) ==
  /\ sock[s].at = "closing"
  /\ sock' = [sock EXCEPT ![s].at = "closed"]
  /\ retry' = IF sock[s].project \in closed THEN retry ELSE sock[s].project
  /\ UNCHANGED <<server, task, effect, ws, closed, posts, answers, starts, drops>>
-------------------------------------------------------------------------------
StreamStep(s) == ReadHistory(s) \/ SendPast(s) \/ Subscribe(s) \/ Forward(s)

SocketStep(s) == Accept(s) \/ OnMessage(s) \/ OnClose(s)

Next ==
  \/ \E p \in Project : Publish(p) \/ Record(p) \/ PostReturns(p)
  \/ \E s \in Socket : StreamStep(s) \/ SocketStep(s) \/ Drop(s)
  \/ Submit \/ PostAccepted \/ PostFails \/ RunEffect \/ Retry

Spec == Init /\ [][Next]_vars

(* The browser runs its effects, timers and events; the control plane runs *)
(* its handlers.  Nothing is assumed of the founder or of the agents.      *)
FairSpec ==
  /\ Spec
  /\ WF_vars(RunEffect) /\ WF_vars(Retry)
  /\ \A s \in Socket : WF_vars(SocketStep(s)) /\ WF_vars(StreamStep(s))
-------------------------------------------------------------------------------
(* The tab has at most one socket open or about to be, counting the timer, *)
(* and it is the one its effect runs for: a socket closed on purpose never *)
(* comes back, however late its close event is (crew.js, the effect's      *)
(* cleanup and `closed`).                                                  *)
OneSocket ==
  LET current == {s \in Socket : Current(s)}
  IN /\ \A s \in current : sock[s].project = effect
     /\ Cardinality(current) + (IF retry = Nobody THEN 0 ELSE 1) <= 1

Increasing(log) == \A i, j \in DOMAIN log : i < j => log[i] < log[j]

(* What one connection shows is in the order it was published, nothing     *)
(* twice, the history before the live feed; and from the moment its        *)
(* handler has subscribed nothing is left out (routes.py, stream: "History *)
(* first, then the live feed").  Only what was published between the two   *)
(* and not recorded by then is missing, and a connection after this one    *)
(* starts over.                                                            *)
ShownInOrder ==
  \A s \in Socket :
    LET all == sock[s].seen \o sock[s].frames \o stream[s].past \o stream[s].inbox
        since == stream[s].since
    IN /\ Increasing(all)
       /\ sock[s].at = "open" /\ stream[s].at = "live" =>
            {n \in ToSet(all) : n > since} = (since + 1)..sent[sock[s].project]

(* A tab that shows a project is connected to it in the end, however often *)
(* the connection was lost (crew.js: "auto-reconnect if it drops").        *)
Reconnects ==
  \A p \in Project :
    effect = p ~> effect # p \/ \E s \in Socket : sock[s].project = p /\ stream[s].at = "live"
===============================================================================
