----------------------------- MODULE ConsoleProofs -----------------------------
(***************************************************************************)
(* The founder's tab and the control plane's stream, for any number of     *)
(* projects, sockets, requests, events and lost connections and any limit  *)
(* of the history: the tab has one socket, and what a socket shows is in   *)
(* order and has no gap from its subscription on.                          *)
(***************************************************************************)
EXTENDS Console, FiniteSetTheorems, SequenceTheorems, TLAPS

Unused(s) == sock[s].at = "unused"

Fresh == [at |-> "unused", project |-> Nobody, frames |-> <<>>, seen |-> <<>>]

(* A socket that is current, or whose end will set the timer.              *)
Lost(s) == sock[s].at = "closing" /\ sock[s].project \notin closed

Active(s) == Current(s) \/ Lost(s)

(* The projects the page has been told of, or is being told of.            *)
Given == (answers \cup closed \cup {task, effect, retry}) \ {Nobody}

(* Only the socket of the effect that runs is active, and only one, and    *)
(* none while the timer is set; every other belongs to an effect that was  *)
(* cleaned up.                                                             *)
Tab ==
  /\ \A s \in Socket : ~Unused(s) => sock[s].project \in (closed \cup {effect}) \ {Nobody}
  /\ \A s \in Socket : Active(s) => sock[s].project = effect
  /\ \A s, s2 \in Socket : Active(s) /\ Active(s2) => s = s2
  /\ retry # Nobody => retry = effect /\ \A s \in Socket : ~Active(s)
  /\ task = Nobody => effect = Nobody
  /\ \A p \in Given : sent[p] > 0

(* A socket opened is one of those asked for: the effect's, one for every  *)
(* request, or the timer's, one for every connection lost.                 *)
Owed == IF retry # Nobody \/ \E s \in Socket : Lost(s) THEN 1 ELSE 0

Due == IF task # effect THEN 1 ELSE 0

UsedSockets == {s \in Socket : ~Unused(s)}

UsedProjects == {p \in Project : sent[p] > 0}

Supply ==
  /\ Cardinality(UsedSockets) + Due + Owed + Cardinality(answers) + posts <= starts + drops
  /\ Cardinality(UsedProjects) + posts <= starts

(* One log comes before another.                                           *)
Below(log, more) == \A n \in ToSet(log), m \in ToSet(more) : n < m

(* What a handler has put on its way and what it still holds, of a project *)
(* of which count events have been published.                              *)
Flows(socket, handler, count) ==
  /\ socket.at # "open" => socket.seen = <<>> /\ socket.frames = <<>>
  /\ socket.at \in {"unused", "connecting"} => handler = NoStream
  /\ handler.at # "send" => handler.past = <<>>
  /\ handler.at # "live" => handler.inbox = <<>>
  /\ handler.at \in {"none", "history", "send", "ended"} =>
       socket.seen = <<>> /\ socket.frames = <<>>
  /\ Increasing(socket.seen) /\ Increasing(socket.frames)
  /\ Increasing(handler.past) /\ Increasing(handler.inbox)
  /\ Below(socket.seen, socket.frames)
  /\ Below(socket.seen, handler.inbox) /\ Below(socket.frames, handler.inbox)
  /\ ToSet(socket.seen) \cup ToSet(socket.frames) \cup ToSet(handler.past)
       \cup ToSet(handler.inbox) \subseteq 1..count
  /\ handler.since \in 0..count
  /\ socket.at = "open" /\ handler.at = "live" =>
       {n \in ToSet(socket.seen) \cup ToSet(socket.frames) \cup ToSet(handler.inbox) :
          n > handler.since} = (handler.since + 1)..count

Count(s) == IF Unused(s) THEN 0 ELSE sent[sock[s].project]

Streams ==
  /\ \A p \in Project : recorded[p] <= sent[p]
  /\ \A s \in Socket : (Unused(s) => sock[s] = Fresh) /\ Flows(sock[s], stream[s], Count(s))

ConsoleInv == TypeOK /\ Tab /\ Supply /\ Streams

(* The socket that is current is the one the hook opened last.             *)
Latest == \A s \in Socket : Current(s) => s = ws
-------------------------------------------------------------------------------
(* Logs: sequences of events, by their numbers.                            *)
LEMMA LogFacts ==
  ASSUME NEW log \in Seq(Event)
  PROVE  /\ Len(log) \in Nat /\ DOMAIN log = 1..Len(log)
         /\ ToSet(log) \subseteq Event
         /\ \A i \in DOMAIN log : log[i] \in Event
<1>1. Len(log) \in Nat /\ DOMAIN log = 1..Len(log)
  BY LenProperties
<1>2. \A i \in DOMAIN log : log[i] \in Event
  BY <1>1, ElementOfSeq
<1>3. QED
  BY <1>1, <1>2 DEF ToSet

LEMMA EmptyLog ==
  /\ <<>> \in Seq(Event) /\ ToSet(<<>>) = {} /\ Increasing(<<>>) /\ Len(<<>>) = 0
  /\ \A log : Below(<<>>, log) /\ Below(log, <<>>)
BY EmptySeq DEF ToSet, Increasing, Below

LEMMA OneLog ==
  ASSUME NEW n \in Event
  PROVE  <<n>> \in Seq(Event) /\ ToSet(<<n>>) = {n} /\ Increasing(<<n>>)
<1>1. <<n>> \in Seq(Event) /\ DOMAIN <<n>> = {1} /\ <<n>>[1] = n
  OBVIOUS
<1>2. QED
  BY <1>1 DEF ToSet, Increasing

LEMMA LongerLog ==
  ASSUME NEW log \in Seq(Event), NEW n \in Event
  PROVE  /\ Append(log, n) \in Seq(Event)
         /\ ToSet(Append(log, n)) = ToSet(log) \cup {n}
         /\ Increasing(log) /\ (\A m \in ToSet(log) : m < n) => Increasing(Append(log, n))
<1> DEFINE longer == Append(log, n)
<1>1. /\ longer \in Seq(Event) /\ Len(log) \in Nat
      /\ DOMAIN log = 1..Len(log) /\ DOMAIN longer = 1..Len(log) + 1
      /\ \A i \in 1..Len(log) : longer[i] = log[i]
      /\ longer[Len(log) + 1] = n
  BY AppendProperties, LenProperties
<1> HIDE DEF longer
<1>2. ToSet(longer) = ToSet(log) \cup {n}
  <2>1. \A m \in ToSet(longer) : m \in ToSet(log) \cup {n}
    BY <1>1 DEF ToSet
  <2>2. \A m \in ToSet(log) : m \in ToSet(longer)
    BY <1>1 DEF ToSet
  <2>3. Len(log) + 1 \in DOMAIN longer
    BY <1>1
  <2>4. n \in ToSet(longer)
    BY <1>1, <2>3 DEF ToSet
  <2>5. QED
    BY <2>1, <2>2, <2>4
<1>3. ASSUME Increasing(log), \A m \in ToSet(log) : m < n
      PROVE  Increasing(longer)
  <2>1. \A i \in DOMAIN log : log[i] < n
    BY <1>3 DEF ToSet
  <2>2. QED
    BY <1>1, <1>3, <2>1 DEF Increasing
<1>4. QED
  BY <1>1, <1>2, <1>3 DEF longer

LEMMA ShorterLog ==
  ASSUME NEW log \in Seq(Event), log # <<>>, Increasing(log)
  PROVE  /\ Tail(log) \in Seq(Event) /\ Head(log) \in Event
         /\ ToSet(log) = ToSet(Tail(log)) \cup {Head(log)}
         /\ Increasing(Tail(log))
         /\ \A m \in ToSet(Tail(log)) : Head(log) < m
<1> DEFINE rest == Tail(log)
<1>1. /\ rest \in Seq(Event) /\ Len(rest) = Len(log) - 1 /\ Len(log) \in Nat
      /\ Len(log) >= 1 /\ Head(log) = log[1]
      /\ DOMAIN log = 1..Len(log) /\ DOMAIN rest = 1..Len(log) - 1
      /\ \A i \in 1..Len(log) - 1 : rest[i] = log[i + 1]
  BY HeadTailProperties, LenProperties, EmptySeq
<1>2. 1 \in DOMAIN log /\ log[1] \in Event /\ log[1] \in ToSet(log)
  BY <1>1, ElementOfSeq DEF ToSet
<1> HIDE DEF rest
<1>3. \A i \in DOMAIN rest : /\ i + 1 \in DOMAIN log /\ 1 < i + 1
                             /\ rest[i] = log[i + 1]
  BY <1>1
<1>4. Increasing(rest)
  <2>1. ASSUME NEW i \in DOMAIN rest, NEW j \in DOMAIN rest, i < j
        PROVE  rest[i] < rest[j]
    <3>1. i \in Int /\ j \in Int /\ i + 1 < j + 1
      BY <1>1, <2>1
    <3>2. QED
      BY <1>3, <3>1 DEF Increasing
  <2>2. QED
    BY <2>1 DEF Increasing
<1>5. ASSUME NEW m \in ToSet(rest)
      PROVE  m \in ToSet(log) /\ log[1] < m
  BY <1>2, <1>3 DEF ToSet, Increasing
<1>6. ASSUME NEW m \in ToSet(log), m # log[1]
      PROVE  m \in ToSet(rest)
  <2>1. PICK i \in DOMAIN log : log[i] = m
    BY DEF ToSet
  <2>2. i - 1 \in DOMAIN rest /\ rest[i - 1] = m
    BY <1>1, <1>6, <2>1
  <2>3. QED
    BY <2>2 DEF ToSet
<1>7. ToSet(log) = ToSet(rest) \cup {log[1]}
  BY <1>2, <1>5, <1>6
<1>8. QED
  BY <1>1, <1>2, <1>4, <1>5, <1>7 DEF rest

LEMMA JoinedLogs ==
  ASSUME NEW log \in Seq(Event), NEW more \in Seq(Event)
  PROVE  /\ log \o more \in Seq(Event)
         /\ ToSet(log \o more) = ToSet(log) \cup ToSet(more)
         /\ Increasing(log) /\ Increasing(more) /\ Below(log, more) => Increasing(log \o more)
<1> DEFINE both == log \o more
<1>1. /\ both \in Seq(Event) /\ Len(log) \in Nat /\ Len(more) \in Nat
      /\ DOMAIN log = 1..Len(log) /\ DOMAIN more = 1..Len(more)
      /\ DOMAIN both = 1..Len(log) + Len(more)
      /\ \A i \in 1..Len(log) + Len(more) :
           both[i] = IF i <= Len(log) THEN log[i] ELSE more[i - Len(log)]
  BY ConcatProperties, LenProperties
<1> HIDE DEF both
<1>2. \A i \in DOMAIN both :
        \/ i \in DOMAIN log /\ both[i] = log[i]
        \/ i - Len(log) \in DOMAIN more /\ both[i] = more[i - Len(log)] /\ i > Len(log)
  BY <1>1
<1>3. \A n \in ToSet(both) : n \in ToSet(log) \cup ToSet(more)
  BY <1>2 DEF ToSet
<1>4. \A i \in DOMAIN log : i \in DOMAIN both /\ both[i] = log[i]
  BY <1>1
<1>5. \A i \in DOMAIN more : Len(log) + i \in DOMAIN both /\ both[Len(log) + i] = more[i]
  BY <1>1
<1>6. \A n \in ToSet(log) \cup ToSet(more) : n \in ToSet(both)
  BY <1>4, <1>5 DEF ToSet
<1>7. ASSUME Increasing(log), Increasing(more), Below(log, more)
      PROVE  Increasing(both)
  <2>1. \A i \in DOMAIN log, j \in DOMAIN more : log[i] < more[j]
    BY <1>7 DEF ToSet, Below
  <2>2. ASSUME NEW i \in DOMAIN both, NEW j \in DOMAIN both, i < j
        PROVE  both[i] < both[j]
    <3>1. CASE i \in DOMAIN log /\ j \in DOMAIN log
      BY <1>4, <1>7, <2>2, <3>1 DEF Increasing
    <3>2. CASE i \in DOMAIN log /\ j \notin DOMAIN log
      BY <1>2, <1>4, <2>1, <3>2
    <3>3. CASE i \notin DOMAIN log
      <4>1. j > Len(log) /\ i > Len(log) /\ j \notin DOMAIN log
        BY <1>1, <2>2, <3>3
      <4>2. /\ i - Len(log) \in DOMAIN more /\ both[i] = more[i - Len(log)]
            /\ j - Len(log) \in DOMAIN more /\ both[j] = more[j - Len(log)]
            /\ i - Len(log) < j - Len(log)
        BY <1>1, <1>2, <2>2, <3>3, <4>1
      <4>3. QED
        BY <1>7, <4>2 DEF Increasing
    <3>4. QED
      BY <3>1, <3>2, <3>3
  <2>3. QED
    BY <2>2 DEF Increasing
<1>8. QED
  BY <1>1, <1>3, <1>6, <1>7 DEF both

(* history() answers no more than its limit, in the order of publication.  *)
LEMMA HistoryLog ==
  ASSUME NEW p, recorded[p] \in Nat
  PROVE  /\ History(p) \in Seq(Event) /\ Len(History(p)) <= HistoryLimit
         /\ Increasing(History(p)) /\ ToSet(History(p)) \subseteq 1..recorded[p]
<1> PICK n \in Nat : n = recorded[p]
  OBVIOUS
<1> PICK first \in Nat : first = IF n > HistoryLimit THEN n - HistoryLimit ELSE 0
  BY ConsoleAssumption
<1>1. first <= n /\ n - first <= HistoryLimit /\ n - first \in Nat
  BY ConsoleAssumption
<1>2. PICK log : log = [i \in 1..(n - first) |-> first + i]
  OBVIOUS
<1>3. History(p) = log
  BY <1>2 DEF History
<1>4. \A i \in 1..(n - first) : first + i \in Event /\ first + i \in 1..n
  BY <1>1 DEF Event
<1>5. DOMAIN log = 1..(n - first) /\ \A i \in 1..(n - first) : log[i] = first + i
  BY <1>2
<1>6. log \in Seq(Event) /\ Len(log) = n - first
  BY <1>1, <1>2, <1>4
<1>7. Increasing(log)
  BY <1>1, <1>5 DEF Increasing
<1>8. ToSet(log) \subseteq 1..n
  BY <1>4, <1>5 DEF ToSet
<1>9. QED
  BY <1>1, <1>3, <1>6, <1>7, <1>8
-------------------------------------------------------------------------------
(* One connection: what its handler and the tab do next leaves it in order. *)
LEMMA FlowsFields ==
  ASSUME NEW k \in Sock, NEW h \in Stream
  PROVE  /\ k.frames \in Seq(Event) /\ k.seen \in Seq(Event)
         /\ h.past \in Seq(Event) /\ h.inbox \in Seq(Event) /\ h.since \in Nat
         /\ k.at \in {"unused", "connecting", "open", "closing", "closed"}
         /\ h.at \in {"none", "history", "send", "subscribe", "live", "ended"}
BY DEF Sock, Stream

(* A socket just opened has no handler, one just accepted the first.       *)
LEMMA StartFlows ==
  ASSUME NEW k \in Sock, NEW h \in Stream, NEW count \in Nat,
         k.frames = <<>>, k.seen = <<>>, h.past = <<>>, h.inbox = <<>>, h.since = 0,
         h.at # "live", k.at \in {"unused", "connecting"} => h = NoStream
  PROVE  Flows(k, h, count)
<1>1. 0 \in 0..count
  OBVIOUS
<1>2. QED
  BY <1>1, EmptyLog DEF Flows

(* A socket that closes has nothing on its way and shows nothing.          *)
LEMMA CloseFlows ==
  ASSUME NEW k \in Sock, NEW h \in Stream, NEW q, NEW count \in Nat, Flows(k, h, count),
         q.at \in {"closing", "closed"}, q.frames = <<>>, q.seen = <<>>
  PROVE  Flows(q, h, count)
<1>1. ToSet(h.past) \cup ToSet(h.inbox) \subseteq 1..count
  BY DEF Flows
<1>2. QED
  BY <1>1, EmptyLog DEF Flows

(* More is published; the handler, if it is subscribed, has it.            *)
LEMMA GrowFlows ==
  ASSUME NEW k \in Sock, NEW h \in Stream, NEW count \in Nat, NEW more \in Nat,
         Flows(k, h, count), count <= more, h.at = "live" => more = count
  PROVE  Flows(k, h, more)
<1>1. \A n \in 1..count : n \in 1..more
  OBVIOUS
<1>2. h.since \in 0..more
  BY DEF Flows
<1>3. h.at = "live" => Flows(k, h, more)
  OBVIOUS
<1>4. CASE h.at # "live"
  BY <1>1, <1>2, <1>4 DEF Flows
<1>5. QED
  BY <1>3, <1>4

LEMMA PublishFlows ==
  ASSUME NEW k \in Sock, NEW h \in Stream, NEW q, NEW count \in Nat, Flows(k, h, count),
         h.at = "live", q.at = "live", q.past = h.past, q.since = h.since,
         q.inbox = Append(h.inbox, count + 1), k.at \notin {"unused", "connecting"}
  PROVE  Flows(k, q, count + 1)
<1>1. PICK n \in Event : n = count + 1
  BY DEF Event
<1>2. h.inbox \in Seq(Event) /\ ToSet(k.seen) \cup ToSet(k.frames) \cup ToSet(h.inbox) \subseteq 1..count
  BY FlowsFields DEF Flows
<1>3. \A m \in 1..count : m < n /\ m \in 1..n
  BY <1>1
<1>4. q.inbox = Append(h.inbox, n)
  BY <1>1
<1>5. /\ ToSet(q.inbox) = ToSet(h.inbox) \cup {n}
      /\ Increasing(q.inbox)
  BY <1>2, <1>3, <1>4, LongerLog DEF Flows
<1>6. Below(k.seen, q.inbox) /\ Below(k.frames, q.inbox)
  BY <1>2, <1>3, <1>5 DEF Flows, Below
<1>7. q.since \in 0..n /\ n \in 1..n /\ q.since < n
  BY <1>1 DEF Flows
<1>8. ToSet(k.seen) \cup ToSet(k.frames) \cup ToSet(q.past) \cup ToSet(q.inbox) \subseteq 1..n
  BY <1>2, <1>3, <1>5, <1>7 DEF Flows
<1>9. ASSUME k.at = "open"
      PROVE  {m \in ToSet(k.seen) \cup ToSet(k.frames) \cup ToSet(q.inbox) : m > q.since}
               = (q.since + 1)..n
  <2>1. {m \in ToSet(k.seen) \cup ToSet(k.frames) \cup ToSet(h.inbox) : m > h.since}
          = (h.since + 1)..count
    BY <1>9 DEF Flows
  <2>2. {m \in ToSet(k.seen) \cup ToSet(k.frames) \cup ToSet(q.inbox) : m > q.since}
          = (h.since + 1)..count \cup {n}
    BY <1>5, <1>7, <2>1
  <2>3. h.since \in 0..count
    BY DEF Flows
  <2>4. (h.since + 1)..count \cup {n} = (h.since + 1)..n
    BY <1>1, <2>3
  <2>5. QED
    BY <2>2, <2>4
<1>10. Flows(k, q, n)
  BY <1>5, <1>6, <1>7, <1>8, <1>9 DEF Flows
<1>11. QED
  BY <1>1, <1>10

LEMMA ReadFlows ==
  ASSUME NEW k \in Sock, NEW h \in Stream, NEW q, NEW count \in Nat, Flows(k, h, count),
         h.at = "history", q.at = "send", q.inbox = h.inbox, q.since = h.since,
         Increasing(q.past), ToSet(q.past) \subseteq 1..count
  PROVE  Flows(k, q, count)
<1>1. k.at \notin {"unused", "connecting"} /\ k.seen = <<>> /\ k.frames = <<>> /\ h.inbox = <<>>
  BY DEF Flows, NoStream
<1>2. QED
  BY <1>1, EmptyLog DEF Flows

(* The history goes out before the handler subscribes.                     *)
LEMMA SendFlows ==
  ASSUME NEW k \in Sock, NEW h \in Stream, NEW k2, NEW q, NEW count \in Nat,
         Flows(k, h, count), h.at = "send", q.at = "subscribe", q.inbox = h.inbox,
         q.since = h.since, q.past = <<>>, k2.at = k.at, k2.seen = k.seen,
         \/ k2.frames = k.frames /\ h.past = <<>>
         \/ k2.frames = k.frames \o h.past /\ k.at = "open"
  PROVE  Flows(k2, q, count)
<1>1. /\ k.at \notin {"unused", "connecting"} /\ k.seen = <<>> /\ k.frames = <<>>
      /\ h.inbox = <<>> /\ h.past \in Seq(Event)
  BY FlowsFields DEF Flows, NoStream
<1>2. k.at # "open" => k2.frames = <<>>
  BY <1>1
<1>3. k2.frames = h.past
  BY <1>1, ConcatEmptySeq
<1>4. /\ Increasing(k2.frames) /\ ToSet(k2.frames) \subseteq 1..count
  BY <1>3 DEF Flows
<1>5. QED
  BY <1>1, <1>2, <1>4, EmptyLog DEF Flows

LEMMA EndFlows ==
  ASSUME NEW k \in Sock, NEW h \in Stream, NEW q, NEW count \in Nat, Flows(k, h, count),
         k.at # "open", h.at \in {"send", "live"},
         q.at = "ended", q.past = <<>>, q.inbox = <<>>, q.since = 0
  PROVE  Flows(k, q, count)
<1>1. /\ k.at \notin {"unused", "connecting"} /\ k.seen = <<>> /\ k.frames = <<>>
      /\ 0 \in 0..count
  BY DEF Flows, NoStream
<1>2. QED
  BY <1>1, EmptyLog DEF Flows

LEMMA SubscribeFlows ==
  ASSUME NEW k \in Sock, NEW h \in Stream, NEW q, NEW count \in Nat, Flows(k, h, count),
         h.at = "subscribe", q.at = "live", q.past = h.past, q.inbox = h.inbox, q.since = count
  PROVE  Flows(k, q, count)
<1>1. /\ k.at \notin {"unused", "connecting"} /\ h.past = <<>> /\ h.inbox = <<>>
      /\ ToSet(k.seen) \cup ToSet(k.frames) \cup ToSet(h.inbox) \subseteq 1..count
  BY DEF Flows, NoStream
<1>2. {n \in ToSet(k.seen) \cup ToSet(k.frames) \cup ToSet(q.inbox) : n > q.since} = {}
  BY <1>1
<1>3. (q.since + 1)..count = {} /\ q.since \in 0..count
  OBVIOUS
<1>4. QED
  BY <1>1, <1>2, <1>3, EmptyLog DEF Flows

(* The next event moves from the handler to the wire, then to the page.    *)
LEMMA ForwardFlows ==
  ASSUME NEW k \in Sock, NEW h \in Stream, NEW k2, NEW q, NEW count \in Nat,
         Flows(k, h, count), h.at = "live", h.inbox # <<>>, k.at = "open",
         k2.at = k.at, k2.seen = k.seen, k2.frames = k.frames \o <<Head(h.inbox)>>,
         q.at = "live", q.past = h.past, q.since = h.since, q.inbox = Tail(h.inbox)
  PROVE  Flows(k2, q, count)
<1>1. h.inbox \in Seq(Event) /\ k.frames \in Seq(Event) /\ Increasing(h.inbox)
  BY FlowsFields DEF Flows
<1>2. PICK n \in Event : n = Head(h.inbox)
  BY <1>1, ShorterLog
<1>3. /\ ToSet(h.inbox) = ToSet(q.inbox) \cup {n} /\ Increasing(q.inbox)
      /\ \A m \in ToSet(q.inbox) : n < m
  BY <1>1, <1>2, ShorterLog
<1>4. \A m \in ToSet(k.seen) \cup ToSet(k.frames) : m < n
  BY <1>3 DEF Flows, Below
<1>5. <<n>> \in Seq(Event) /\ ToSet(<<n>>) = {n} /\ Increasing(<<n>>)
  BY OneLog
<1>6. Below(k.frames, <<n>>)
  BY <1>4, <1>5 DEF Below
<1>7. ToSet(k2.frames) = ToSet(k.frames) \cup {n} /\ Increasing(k2.frames)
  BY <1>1, <1>2, <1>5, <1>6, JoinedLogs DEF Flows
<1>8. Below(k2.seen, k2.frames) /\ Below(k2.seen, q.inbox) /\ Below(k2.frames, q.inbox)
  BY <1>3, <1>4, <1>7 DEF Flows, Below
<1>9. ToSet(k2.seen) \cup ToSet(k2.frames) \cup ToSet(q.inbox)
        = ToSet(k.seen) \cup ToSet(k.frames) \cup ToSet(h.inbox)
  BY <1>3, <1>7
<1>10. QED
  BY <1>3, <1>7, <1>8, <1>9 DEF Flows

LEMMA MessageFlows ==
  ASSUME NEW k \in Sock, NEW h \in Stream, NEW k2, NEW count \in Nat,
         Flows(k, h, count), k.at = "open", k.frames # <<>>, k2.at = k.at,
         k2.frames = Tail(k.frames), k2.seen = Append(k.seen, Head(k.frames))
  PROVE  Flows(k2, h, count)
<1>1. k.seen \in Seq(Event) /\ k.frames \in Seq(Event) /\ Increasing(k.frames)
  BY FlowsFields DEF Flows
<1>2. PICK n \in Event : n = Head(k.frames)
  BY <1>1, ShorterLog
<1>3. /\ ToSet(k.frames) = ToSet(k2.frames) \cup {n} /\ Increasing(k2.frames)
      /\ \A m \in ToSet(k2.frames) : n < m
  BY <1>1, <1>2, ShorterLog
<1>4. \A m \in ToSet(k.seen) : m < n
  BY <1>3 DEF Flows, Below
<1>5. ToSet(k2.seen) = ToSet(k.seen) \cup {n} /\ Increasing(k2.seen)
  BY <1>1, <1>2, <1>4, LongerLog DEF Flows
<1>6. Below(k2.seen, k2.frames) /\ Below(k2.seen, h.inbox) /\ Below(k2.frames, h.inbox)
  BY <1>3, <1>5 DEF Flows, Below
<1>7. ToSet(k2.seen) \cup ToSet(k2.frames) = ToSet(k.seen) \cup ToSet(k.frames)
  BY <1>3, <1>5
<1>8. h.at \notin {"none", "history", "send", "ended"}
  BY DEF Flows
<1>9. QED
  BY <1>3, <1>5, <1>6, <1>7, <1>8 DEF Flows

(* What one connection has, in the order it was, is it, or will be shown.  *)
LEMMA AllFlows ==
  ASSUME NEW k \in Sock, NEW h \in Stream, NEW count \in Nat, Flows(k, h, count)
  PROVE  /\ Increasing(k.seen \o k.frames \o h.past \o h.inbox)
         /\ k.at = "open" /\ h.at = "live" =>
              {n \in ToSet(k.seen \o k.frames \o h.past \o h.inbox) : n > h.since}
                = (h.since + 1)..count
<1>1. /\ k.seen \in Seq(Event) /\ k.frames \in Seq(Event)
      /\ h.past \in Seq(Event) /\ h.inbox \in Seq(Event)
  BY FlowsFields
<1>2. PICK a \in Seq(Event) : a = k.seen \o k.frames
  BY <1>1, JoinedLogs
<1>3. ToSet(a) = ToSet(k.seen) \cup ToSet(k.frames) /\ Increasing(a)
  BY <1>1, <1>2, JoinedLogs DEF Flows
<1>4. h.past = <<>> \/ (h.inbox = <<>> /\ ToSet(a) = {})
  BY <1>3, EmptyLog DEF Flows
<1>5. Below(a, h.past) /\ Below(a, h.inbox) /\ Below(h.past, h.inbox)
  <2>1. Below(a, h.inbox)
    BY <1>3 DEF Flows, Below
  <2>2. QED
    BY <1>4, <2>1, EmptyLog DEF Below
<1>6. PICK b \in Seq(Event) : b = a \o h.past
  BY <1>1, JoinedLogs
<1>7. ToSet(b) = ToSet(a) \cup ToSet(h.past) /\ Increasing(b)
  BY <1>1, <1>3, <1>5, <1>6, JoinedLogs DEF Flows
<1>8. Below(b, h.inbox)
  BY <1>5, <1>7 DEF Below
<1>9. PICK c \in Seq(Event) : c = b \o h.inbox
  BY <1>1, JoinedLogs
<1>10. ToSet(c) = ToSet(b) \cup ToSet(h.inbox) /\ Increasing(c)
  BY <1>1, <1>7, <1>8, <1>9, JoinedLogs DEF Flows
<1>11. c = k.seen \o k.frames \o h.past \o h.inbox
  BY <1>2, <1>6, <1>9
<1>12. ASSUME k.at = "open", h.at = "live"
       PROVE  {n \in ToSet(c) : n > h.since} = (h.since + 1)..count
  <2>1. ToSet(h.past) = {}
    BY <1>12, EmptyLog DEF Flows
  <2>2. ToSet(c) = ToSet(k.seen) \cup ToSet(k.frames) \cup ToSet(h.inbox)
    BY <1>3, <1>7, <1>10, <2>1
  <2>3. QED
    BY <1>12, <2>2 DEF Flows
<1>13. QED
  BY <1>10, <1>11, <1>12
-------------------------------------------------------------------------------
(* What is there when it is wanted.                                        *)
LEMMA Counted ==
  ASSUME ConsoleInv
  PROVE  /\ IsFiniteSet(UsedSockets) /\ Cardinality(UsedSockets) \in Nat
         /\ IsFiniteSet(UsedProjects) /\ Cardinality(UsedProjects) \in Nat
         /\ IsFiniteSet(answers) /\ Cardinality(answers) \in Nat
         /\ Due \in {0, 1} /\ Owed \in {0, 1}
         /\ posts \in Nat /\ starts \in Nat /\ drops \in Nat
         /\ starts <= MaxStarts /\ drops <= MaxDrops
         /\ MaxStarts \in Nat /\ MaxDrops \in Nat
<1>1. UsedSockets \subseteq Socket /\ UsedProjects \subseteq Project /\ answers \subseteq Project
  BY DEF UsedSockets, UsedProjects, ConsoleInv, TypeOK
<1>2. IsFiniteSet(Socket) /\ IsFiniteSet(Project)
  BY ConsoleAssumption
<1>3. IsFiniteSet(UsedSockets) /\ IsFiniteSet(UsedProjects) /\ IsFiniteSet(answers)
  BY <1>1, <1>2, FS_Subset
<1>4. /\ Cardinality(UsedSockets) \in Nat /\ Cardinality(UsedProjects) \in Nat
      /\ Cardinality(answers) \in Nat
  BY <1>3, FS_CardinalityType
<1>5. Due \in {0, 1} /\ Owed \in {0, 1}
  BY DEF Due, Owed
<1>6. /\ posts \in Nat /\ starts \in Nat /\ drops \in Nat
      /\ starts <= MaxStarts /\ drops <= MaxDrops
      /\ MaxStarts \in Nat /\ MaxDrops \in Nat
  BY ConsoleAssumption DEF ConsoleInv, TypeOK
<1>7. QED
  BY <1>3, <1>4, <1>5, <1>6

LEMMA SocketLeft ==
  ASSUME ConsoleInv, task # effect \/ retry # Nobody
  PROVE  FreshSocket \in Socket /\ Unused(FreshSocket)
<1>1. Due = 1 \/ Owed = 1
  BY DEF Due, Owed
<1>2. Cardinality(UsedSockets) + Due + Owed + Cardinality(answers) + posts <= starts + drops
  BY DEF ConsoleInv, Supply
<1>3. Cardinality(UsedSockets) < MaxStarts + MaxDrops
  BY <1>1, <1>2, Counted
<1>4. Cardinality(Socket) >= MaxStarts + MaxDrops /\ Cardinality(Socket) \in Nat
  BY ConsoleAssumption, FS_CardinalityType
<1>5. Cardinality(UsedSockets) # Cardinality(Socket)
  BY <1>3, <1>4, Counted
<1>6. \E s \in Socket : sock[s].at = "unused"
  BY <1>5 DEF UsedSockets, Unused
<1>7. QED
  BY <1>6 DEF FreshSocket, Unused

LEMMA ProjectLeft ==
  ASSUME ConsoleInv, posts > 0
  PROVE  FreshProject \in Project /\ sent[FreshProject] = 0
<1>1. Cardinality(UsedProjects) + posts <= starts
  BY DEF ConsoleInv, Supply
<1>2. Cardinality(UsedProjects) < MaxStarts
  BY <1>1, Counted
<1>3. Cardinality(Project) >= MaxStarts /\ Cardinality(Project) \in Nat
  BY ConsoleAssumption, FS_CardinalityType
<1>4. Cardinality(UsedProjects) # Cardinality(Project)
  BY <1>2, <1>3, Counted
<1>5. PICK p \in Project : ~(sent[p] > 0)
  BY <1>4 DEF UsedProjects
<1>6. sent[p] = 0
  BY <1>5 DEF ConsoleInv, TypeOK
<1>7. QED
  BY <1>6 DEF FreshProject

(* What the invariant says of one socket.                                  *)
LEMMA SocketFacts ==
  ASSUME ConsoleInv, NEW s \in Socket
  PROVE  /\ sock[s] \in Sock /\ stream[s] \in Stream /\ Len(stream[s].past) <= HistoryLimit
         /\ Count(s) \in Nat /\ Flows(sock[s], stream[s], Count(s))
         /\ ~Unused(s) => /\ sock[s].project \in Project /\ sock[s].project \in Given
                          /\ Count(s) = sent[sock[s].project] /\ sent[sock[s].project] > 0
         /\ stream[s].at # "none" => ~Unused(s) /\ ~(sock[s].at = "connecting")
<1>1. sock[s] \in Sock /\ stream[s] \in Stream /\ Len(stream[s].past) <= HistoryLimit
  BY DEF ConsoleInv, TypeOK
<1>2. Flows(sock[s], stream[s], Count(s))
  BY DEF ConsoleInv, Streams
<1>3. ASSUME ~Unused(s)
      PROVE  /\ sock[s].project \in Project /\ sock[s].project \in Given
             /\ sent[sock[s].project] > 0
  BY <1>3 DEF ConsoleInv, TypeOK, Tab, Given
<1>4. Count(s) \in Nat
  BY <1>3 DEF ConsoleInv, TypeOK, Count
<1>5. stream[s].at # "none" => ~Unused(s) /\ ~(sock[s].at = "connecting")
  BY <1>2 DEF Flows, NoStream, Unused
<1>6. QED
  BY <1>1, <1>2, <1>3, <1>4, <1>5 DEF Count
-------------------------------------------------------------------------------
(* Steps that open and close no socket.                                    *)
Stay == \A s \in Socket : sock'[s].at = sock[s].at /\ sock'[s].project = sock[s].project

LEMMA StayFacts ==
  ASSUME Stay, UNCHANGED <<closed, retry>>
  PROVE  /\ \A s \in Socket : /\ Unused(s)' <=> Unused(s)
                              /\ Active(s)' <=> Active(s)
                              /\ Lost(s)' <=> Lost(s)
         /\ UsedSockets' = UsedSockets /\ Owed' = Owed
<1>1. \A s \in Socket : /\ Unused(s)' <=> Unused(s)
                        /\ Active(s)' <=> Active(s)
                        /\ Lost(s)' <=> Lost(s)
  BY DEF Stay, Unused, Active, Lost, Current
<1>2. UsedSockets' = UsedSockets
  BY <1>1 DEF UsedSockets
<1>3. Owed' = Owed
  BY <1>1 DEF Owed
<1>4. QED
  BY <1>1, <1>2, <1>3

LEMMA StayTab ==
  ASSUME ConsoleInv, Stay, UNCHANGED <<effect, ws, closed, retry>>,
         task' = Nobody => effect = Nobody, \A p \in Given' : sent'[p] > 0
  PROVE  Tab'
<1>1. \A s \in Socket : /\ Unused(s)' <=> Unused(s)
                        /\ Active(s)' <=> Active(s)
                        /\ sock'[s].project = sock[s].project
  BY StayFacts DEF Stay
<1>2. QED
  BY <1>1 DEF ConsoleInv, Tab

(* The tab or the handler of one socket works on what it has.              *)
LEMMA OneMoves ==
  ASSUME ConsoleInv, NEW s \in Socket, NEW k \in Sock, NEW h \in Stream,
         sock' = [sock EXCEPT ![s] = k], stream' = [stream EXCEPT ![s] = h],
         UNCHANGED <<sent, recorded, task, effect, ws, closed, retry, posts, answers, starts, drops>>,
         k.at = sock[s].at, k.project = sock[s].project, Unused(s) => k = sock[s],
         Len(h.past) <= HistoryLimit, Flows(k, h, Count(s))
  PROVE  ConsoleInv'
<1>1. /\ sock \in [Socket -> Sock] /\ stream \in [Socket -> Stream]
      /\ \A x \in Socket : sock'[x] = IF x = s THEN k ELSE sock[x]
      /\ \A x \in Socket : stream'[x] = IF x = s THEN h ELSE stream[x]
  BY DEF ConsoleInv, TypeOK
<1>2. TypeOK'
  <2>1. sock' \in [Socket -> Sock] /\ stream' \in [Socket -> Stream]
    BY <1>1
  <2>2. \A x \in Socket : Len(stream'[x].past) <= HistoryLimit
    BY <1>1 DEF ConsoleInv, TypeOK
  <2>3. QED
    BY <2>1, <2>2 DEF ConsoleInv, TypeOK
<1>3. Stay
  BY <1>1 DEF Stay
<1>4. Given' = Given
  BY DEF Given
<1>5. Tab'
  BY <1>3, <1>4, StayTab DEF ConsoleInv, Tab
<1>6. Supply'
  <2>1. UsedSockets' = UsedSockets /\ Owed' = Owed
    BY <1>3, StayFacts
  <2>2. Due' = Due /\ UsedProjects' = UsedProjects
    BY DEF Due, UsedProjects
  <2>3. QED
    BY <2>1, <2>2 DEF ConsoleInv, Supply
<1>7. \A x \in Socket : Count(x)' = Count(x) /\ (Unused(x)' <=> Unused(x))
  BY <1>3 DEF Count, Unused, Stay
<1>8. Streams'
  BY <1>1, <1>7 DEF ConsoleInv, Streams, Unused
<1>9. QED
  BY <1>2, <1>5, <1>6, <1>8 DEF ConsoleInv

LEMMA NoHandler ==
  /\ NoStream \in Stream
  /\ NoStream.past = <<>> /\ NoStream.inbox = <<>> /\ NoStream.since = 0 /\ NoStream.at = "none"
<1>1. <<>> \in Seq(Event)
  BY EmptyLog
<1>2. QED
  BY <1>1 DEF NoStream, Stream

LEMMA ClosingSocket ==
  ASSUME NEW k \in Sock
  PROVE  /\ Closing(k) \in Sock /\ Closing(k).at = "closing" /\ Closing(k).project = k.project
         /\ Closing(k).frames = <<>> /\ Closing(k).seen = <<>>
<1>1. <<>> \in Seq(Event)
  BY EmptyLog
<1>2. QED
  BY <1>1 DEF Closing, Sock

LEMMA ConnectingSocket ==
  ASSUME NEW p \in Project
  PROVE  /\ Connecting(p) \in Sock /\ Connecting(p).at = "connecting" /\ Connecting(p).project = p
         /\ Connecting(p).frames = <<>> /\ Connecting(p).seen = <<>>
<1>1. <<>> \in Seq(Event)
  BY EmptyLog
<1>2. QED
  BY <1>1 DEF Connecting, Sock
-------------------------------------------------------------------------------
(* The handlers. *)
LEMMA ReadHistoryKeeps == ASSUME NEW s \in Socket, ConsoleInv, ReadHistory(s) PROVE ConsoleInv'
<1>1. PICK k \in Sock, h \in Stream : k = sock[s] /\ h = stream[s]
  BY SocketFacts
<1>2. /\ h.at = "history" /\ ~Unused(s) /\ UNCHANGED <<sent, recorded, sock, page, drops>>
      /\ Len(h.past) <= HistoryLimit /\ Flows(k, h, Count(s)) /\ Count(s) \in Nat
      /\ k.project \in Project /\ Count(s) = sent[k.project]
  BY <1>1, SocketFacts DEF ReadHistory
<1>3. /\ recorded[k.project] \in Nat /\ recorded[k.project] <= Count(s)
  BY <1>2 DEF ConsoleInv, TypeOK, Streams
<1>4. PICK log \in Seq(Event) : log = History(k.project)
  BY <1>3, HistoryLog
<1>5. Len(log) <= HistoryLimit /\ Increasing(log) /\ ToSet(log) \subseteq 1..Count(s)
  <2>1. \A n \in 1..recorded[k.project] : n \in 1..Count(s)
    BY <1>2, <1>3
  <2>2. QED
    BY <1>3, <1>4, <2>1, HistoryLog
<1>6. PICK q : q = [h EXCEPT !.at = "send", !.past = log]
  OBVIOUS
<1>7. /\ q \in Stream /\ q.at = "send" /\ q.past = log /\ q.inbox = h.inbox /\ q.since = h.since
  BY <1>6 DEF Stream
<1>8. Flows(k, q, Count(s))
  BY <1>2, <1>5, <1>7, ReadFlows
<1>9. stream' = [stream EXCEPT ![s] = q] /\ sock' = [sock EXCEPT ![s] = k]
  BY <1>1, <1>2, <1>4, <1>6 DEF ReadHistory, Set, ConsoleInv, TypeOK
<1>10. QED
  BY <1>1, <1>2, <1>5, <1>7, <1>8, <1>9, OneMoves DEF page

(* A handler whose browser is gone ends. *)
LEMMA EndKeeps ==
  ASSUME NEW s \in Socket, ConsoleInv, sock[s].at # "open", stream[s].at \in {"send", "live"},
         Set(s, [NoStream EXCEPT !.at = "ended"]),
         UNCHANGED <<sent, recorded, sock, page, drops>>
  PROVE  ConsoleInv'
<1>1. PICK k \in Sock, h \in Stream : k = sock[s] /\ h = stream[s]
  BY SocketFacts
<1>2. Flows(k, h, Count(s)) /\ Count(s) \in Nat
  BY <1>1, SocketFacts
<1>3. PICK q : q = [NoStream EXCEPT !.at = "ended"]
  OBVIOUS
<1>4. q \in Stream /\ q.at = "ended" /\ q.past = <<>> /\ q.inbox = <<>> /\ q.since = 0
  <2>1. /\ q \in Stream /\ q.at = "ended" /\ q.past = NoStream.past
        /\ q.inbox = NoStream.inbox /\ q.since = NoStream.since
    BY <1>3, NoHandler DEF Stream
  <2>2. QED
    BY <2>1, NoHandler
<1>5. Flows(k, q, Count(s))
  BY <1>1, <1>2, <1>4, EndFlows
<1>6. Len(q.past) <= HistoryLimit
  BY <1>4, EmptyLog, ConsoleAssumption
<1>7. stream' = [stream EXCEPT ![s] = q] /\ sock' = [sock EXCEPT ![s] = k]
  BY <1>1, <1>3 DEF Set, ConsoleInv, TypeOK
<1>8. QED
  BY <1>1, <1>4, <1>5, <1>6, <1>7, OneMoves DEF page

LEMMA SendPastKeeps == ASSUME NEW s \in Socket, ConsoleInv, SendPast(s) PROVE ConsoleInv'
<1>1. PICK k \in Sock, h \in Stream : k = sock[s] /\ h = stream[s]
  BY SocketFacts
<1>2. /\ h.at = "send" /\ ~Unused(s) /\ UNCHANGED <<sent, recorded, page, drops>>
      /\ Len(h.past) <= HistoryLimit /\ Flows(k, h, Count(s)) /\ Count(s) \in Nat
      /\ k.frames \in Seq(Event) /\ h.past \in Seq(Event) /\ k.seen \in Seq(Event)
  BY <1>1, SocketFacts, FlowsFields DEF SendPast
<1>3. Len(<<>>) <= HistoryLimit /\ <<>> \in Seq(Event)
  BY EmptyLog, ConsoleAssumption
<1>4. CASE h.past = <<>>
  <2>1. PICK q : q = [h EXCEPT !.at = "subscribe"]
    OBVIOUS
  <2>2. /\ q \in Stream /\ q.at = "subscribe" /\ q.past = <<>> /\ q.inbox = h.inbox
        /\ q.since = h.since
    <3>1. /\ q \in Stream /\ q.at = "subscribe" /\ q.past = h.past /\ q.inbox = h.inbox
          /\ q.since = h.since
      BY <2>1 DEF Stream
    <3>2. QED
      BY <1>4, <3>1
  <2>3. Flows(k, q, Count(s))
    BY <1>2, <1>4, <2>2, SendFlows
  <2>4. stream' = [stream EXCEPT ![s] = q] /\ sock' = [sock EXCEPT ![s] = k]
    BY <1>1, <1>2, <1>4, <2>1 DEF SendPast, Set, ConsoleInv, TypeOK
  <2>5. QED
    BY <1>1, <1>2, <1>3, <2>2, <2>3, <2>4, OneMoves DEF page
<1>5. CASE h.past # <<>> /\ k.at = "open"
  <2>1. PICK q : q = [h EXCEPT !.at = "subscribe", !.past = <<>>]
    OBVIOUS
  <2>2. /\ q \in Stream /\ q.at = "subscribe" /\ q.past = <<>> /\ q.inbox = h.inbox
        /\ q.since = h.since
    BY <2>1, <1>3 DEF Stream
  <2>3. PICK log \in Seq(Event) : log = k.frames \o h.past
    BY <1>2, JoinedLogs
  <2>4. PICK k2 : k2 = [k EXCEPT !.frames = log]
    OBVIOUS
  <2>5. /\ k2 \in Sock /\ k2.at = k.at /\ k2.project = k.project
        /\ k2.frames = log /\ k2.seen = k.seen
    BY <2>4 DEF Sock
  <2>6. Flows(k2, q, Count(s))
    BY <1>2, <1>5, <2>2, <2>3, <2>5, SendFlows
  <2>7. Send(s, stream[s].past, [stream[s] EXCEPT !.at = "subscribe", !.past = <<>>])
    BY <1>1, <1>5 DEF SendPast
  <2>8. stream' = [stream EXCEPT ![s] = q] /\ sock' = [sock EXCEPT ![s] = k2]
    <3>1. /\ sock' = [sock EXCEPT ![s].frames = @ \o stream[s].past]
          /\ stream' = [stream EXCEPT ![s] = q]
      BY <1>1, <1>5, <2>1, <2>7 DEF Send, Set
    <3>2. QED
      BY <1>1, <2>3, <2>4, <3>1
  <2>9. QED
    BY <1>1, <1>2, <1>3, <2>2, <2>5, <2>6, <2>8, OneMoves DEF page, Unused
<1>6. CASE h.past # <<>> /\ k.at # "open"
  <2>1. Send(s, stream[s].past, [stream[s] EXCEPT !.at = "subscribe", !.past = <<>>])
    BY <1>1, <1>6 DEF SendPast
  <2>2. Set(s, [NoStream EXCEPT !.at = "ended"]) /\ UNCHANGED sock
    BY <1>1, <1>6, <2>1 DEF Send
  <2>3. QED
    BY <1>1, <1>2, <1>6, <2>2, EndKeeps
<1>7. QED
  BY <1>4, <1>5, <1>6

LEMMA SubscribeKeeps == ASSUME NEW s \in Socket, ConsoleInv, Subscribe(s) PROVE ConsoleInv'
<1>1. PICK k \in Sock, h \in Stream : k = sock[s] /\ h = stream[s]
  BY SocketFacts
<1>2. /\ h.at = "subscribe" /\ ~Unused(s) /\ UNCHANGED <<sent, recorded, sock, page, drops>>
      /\ Len(h.past) <= HistoryLimit /\ Flows(k, h, Count(s)) /\ Count(s) \in Nat
      /\ Count(s) = sent[sock[s].project]
  BY <1>1, SocketFacts DEF Subscribe
<1>3. PICK n \in Nat : n = Count(s)
  BY <1>2
<1>4. PICK q : q = [h EXCEPT !.at = "live", !.since = n]
  OBVIOUS
<1>5. q \in Stream /\ q.at = "live" /\ q.past = h.past /\ q.inbox = h.inbox /\ q.since = n
  BY <1>4 DEF Stream
<1>6. Flows(k, q, Count(s))
  BY <1>2, <1>3, <1>5, SubscribeFlows
<1>7. stream' = [stream EXCEPT ![s] = q] /\ sock' = [sock EXCEPT ![s] = k]
  BY <1>1, <1>2, <1>3, <1>4 DEF Subscribe, Set, ConsoleInv, TypeOK
<1>8. QED
  BY <1>1, <1>2, <1>5, <1>6, <1>7, OneMoves DEF page

LEMMA ForwardKeeps == ASSUME NEW s \in Socket, ConsoleInv, Forward(s) PROVE ConsoleInv'
<1>1. PICK k \in Sock, h \in Stream : k = sock[s] /\ h = stream[s]
  BY SocketFacts
<1>2. /\ h.at = "live" /\ h.inbox # <<>> /\ ~Unused(s) /\ UNCHANGED <<sent, recorded, page, drops>>
      /\ Len(h.past) <= HistoryLimit /\ Flows(k, h, Count(s)) /\ Count(s) \in Nat
      /\ k.frames \in Seq(Event) /\ h.inbox \in Seq(Event)
      /\ Send(s, <<Head(h.inbox)>>, [stream[s] EXCEPT !.inbox = Tail(@)])
  BY <1>1, SocketFacts, FlowsFields DEF Forward
<1>3. CASE k.at # "open"
  <2>1. Set(s, [NoStream EXCEPT !.at = "ended"]) /\ UNCHANGED sock
    BY <1>1, <1>2, <1>3 DEF Send
  <2>2. QED
    BY <1>1, <1>2, <1>3, <2>1, EndKeeps
<1>4. CASE k.at = "open"
  <2>1. PICK n \in Event, rest \in Seq(Event) : n = Head(h.inbox) /\ rest = Tail(h.inbox)
    BY <1>2, ShorterLog DEF Flows
  <2>2. PICK log \in Seq(Event) : log = k.frames \o <<n>>
    BY <1>2, <2>1, OneLog, JoinedLogs
  <2>3. PICK q : q = [h EXCEPT !.inbox = rest]
    OBVIOUS
  <2>4. q \in Stream /\ q.at = h.at /\ q.past = h.past /\ q.inbox = rest /\ q.since = h.since
    BY <2>3 DEF Stream
  <2>5. PICK k2 : k2 = [k EXCEPT !.frames = log]
    OBVIOUS
  <2>6. /\ k2 \in Sock /\ k2.at = k.at /\ k2.project = k.project
        /\ k2.frames = log /\ k2.seen = k.seen
    BY <2>5 DEF Sock
  <2>7. Flows(k2, q, Count(s))
    BY <1>2, <1>4, <2>1, <2>2, <2>4, <2>6, ForwardFlows
  <2>8. stream' = [stream EXCEPT ![s] = q] /\ sock' = [sock EXCEPT ![s] = k2]
    <3>1. /\ sock' = [sock EXCEPT ![s].frames = @ \o <<n>>]
          /\ stream' = [stream EXCEPT ![s] = [stream[s] EXCEPT !.inbox = Tail(@)]]
      BY <1>1, <1>2, <1>4, <2>1 DEF Send, Set
    <3>2. sock' = [sock EXCEPT ![s] = k2]
      BY <1>1, <2>2, <2>5, <3>1
    <3>3. stream' = [stream EXCEPT ![s] = q]
      BY <1>1, <2>1, <2>3, <3>1
    <3>4. QED
      BY <3>2, <3>3
  <2>9. QED
    BY <1>1, <1>2, <2>4, <2>6, <2>7, <2>8, OneMoves DEF page, Unused
<1>5. QED
  BY <1>3, <1>4

LEMMA OnMessageKeeps == ASSUME NEW s \in Socket, ConsoleInv, OnMessage(s) PROVE ConsoleInv'
<1>1. PICK k \in Sock, h \in Stream : k = sock[s] /\ h = stream[s]
  BY SocketFacts
<1>2. /\ k.at = "open" /\ k.frames # <<>> /\ UNCHANGED <<server, page, drops>>
      /\ Len(h.past) <= HistoryLimit /\ Flows(k, h, Count(s)) /\ Count(s) \in Nat
      /\ k.frames \in Seq(Event) /\ k.seen \in Seq(Event)
  BY <1>1, SocketFacts, FlowsFields DEF OnMessage
<1>3. PICK n \in Event, rest \in Seq(Event) : n = Head(k.frames) /\ rest = Tail(k.frames)
  BY <1>2, ShorterLog DEF Flows
<1>4. PICK log \in Seq(Event) : log = Append(k.seen, n)
  BY <1>2, <1>3, LongerLog
<1>5. PICK k2 : k2 = [k EXCEPT !.frames = rest, !.seen = log]
  OBVIOUS
<1>6. /\ k2 \in Sock /\ k2.at = k.at /\ k2.project = k.project
      /\ k2.frames = rest /\ k2.seen = log
  BY <1>5 DEF Sock
<1>7. Flows(k2, h, Count(s))
  BY <1>2, <1>3, <1>4, <1>6, MessageFlows
<1>8. stream' = [stream EXCEPT ![s] = h] /\ sock' = [sock EXCEPT ![s] = k2]
  <2>1. stream' = [stream EXCEPT ![s] = h]
    BY <1>1, <1>2 DEF server, ConsoleInv, TypeOK
  <2>2. sock' = [sock EXCEPT ![s].frames = Tail(@), ![s].seen = Append(@, n)]
    BY <1>1, <1>3 DEF OnMessage
  <2>3. sock' = [sock EXCEPT ![s] = k2]
    BY <1>1, <1>3, <1>4, <1>5, <2>2
  <2>4. QED
    BY <2>1, <2>3
<1>9. QED
  BY <1>1, <1>2, <1>6, <1>7, <1>8, OneMoves DEF page, server, Unused
-------------------------------------------------------------------------------
(* The channel and the history. *)
LEMMA RecordKeeps == ASSUME NEW p \in Project, ConsoleInv, Record(p) PROVE ConsoleInv'
<1>1. /\ recorded \in [Project -> Nat] /\ sent \in [Project -> Nat] /\ recorded[p] < sent[p]
      /\ recorded' = [recorded EXCEPT ![p] = recorded[p] + 1]
      /\ UNCHANGED <<sent, sock, stream, task, effect, ws, closed, retry, posts, answers, starts, drops>>
  BY DEF Record, page, ConsoleInv, TypeOK
<1>2. PICK n \in Nat : n = recorded[p] + 1
  BY <1>1
<1>3. recorded' = [recorded EXCEPT ![p] = n]
  BY <1>1, <1>2
<1>4. recorded' \in [Project -> Nat] /\ \A x \in Project : recorded'[x] <= sent'[x]
  BY <1>1, <1>2, <1>3 DEF ConsoleInv, Streams
<1>5. TypeOK'
  BY <1>1, <1>4 DEF ConsoleInv, TypeOK
<1>6. Tab' /\ Supply'
  BY <1>1 DEF ConsoleInv, Tab, Supply, Given, Unused, Active, Lost, Current, UsedSockets,
             UsedProjects, Due, Owed
<1>7. Streams'
  BY <1>1, <1>4 DEF ConsoleInv, Streams, Count, Unused
<1>8. QED
  BY <1>5, <1>6, <1>7 DEF ConsoleInv

LEMMA PublishKeeps == ASSUME NEW p \in Project, ConsoleInv, Publish(p) PROVE ConsoleInv'
<1>1. /\ sent \in [Project -> Nat] /\ sent[p] > 0
      /\ sent' = [sent EXCEPT ![p] = sent[p] + 1]
      /\ UNCHANGED <<recorded, sock, task, effect, ws, closed, retry, posts, answers, starts, drops>>
  BY DEF Publish, page, ConsoleInv, TypeOK
<1>2. PICK n \in Nat : n = sent[p]
  BY <1>1
<1>3. PICK e \in Event : e = n + 1
  BY DEF Event
<1>4. /\ \A x \in Project : sent'[x] = IF x = p THEN e ELSE sent[x]
      /\ sent' \in [Project -> Nat] /\ \A x \in Project : sent[x] <= sent'[x]
  BY <1>1, <1>2, <1>3
<1>5. stream' = [s \in Socket |->
        IF stream[s].at = "live" /\ sock[s].project = p
        THEN [stream[s] EXCEPT !.inbox = Append(@, e)] ELSE stream[s]]
  BY <1>2, <1>3 DEF Publish
<1>6. ASSUME NEW s \in Socket
      PROVE  /\ stream'[s] \in Stream /\ Len(stream'[s].past) <= HistoryLimit
             /\ Flows(sock[s], stream'[s], Count(s)')
  <2>1. PICK k \in Sock, h \in Stream : k = sock[s] /\ h = stream[s]
    BY SocketFacts
  <2>2. /\ Len(h.past) <= HistoryLimit /\ Flows(k, h, Count(s)) /\ Count(s) \in Nat
        /\ ~Unused(s) => /\ k.project \in Project /\ Count(s) = sent[k.project]
        /\ h.at = "live" => ~Unused(s) /\ k.at # "connecting"
        /\ h.inbox \in Seq(Event)
    BY <2>1, SocketFacts, FlowsFields
  <2>3. /\ Unused(s) => Count(s)' = Count(s)
        /\ ~Unused(s) => Count(s)' = sent'[k.project]
    BY <1>1, <2>1 DEF Count, Unused
  <2>4. CASE h.at = "live" /\ k.project = p
    <3>1. Count(s) = n /\ Count(s)' = n + 1
      BY <1>1, <1>2, <1>3, <1>4, <2>2, <2>3, <2>4
    <3>2. PICK log \in Seq(Event) : log = Append(h.inbox, e)
      BY <2>2, LongerLog
    <3>3. PICK q : q = [h EXCEPT !.inbox = log]
      OBVIOUS
    <3>4. /\ q \in Stream /\ q.at = h.at /\ q.past = h.past /\ q.since = h.since
          /\ q.inbox = log
      BY <3>3 DEF Stream
    <3>5. stream'[s] = q
      BY <1>5, <2>1, <2>4, <3>2, <3>3
    <3>6. Flows(k, q, n + 1)
      <4>1. q.inbox = Append(h.inbox, n + 1) /\ Flows(k, h, n)
        BY <1>3, <2>2, <3>1, <3>2, <3>4
      <4>2. k.at \notin {"unused", "connecting"} /\ q.at = "live"
        BY <2>1, <2>2, <2>4, <3>4 DEF Unused
      <4>3. QED
        BY <2>4, <3>4, <4>1, <4>2, PublishFlows
    <3>7. Len(q.past) <= HistoryLimit
      BY <2>2, <3>4
    <3>8. QED
      BY <2>1, <3>1, <3>4, <3>5, <3>6, <3>7
  <2>5. CASE ~(h.at = "live" /\ k.project = p)
    <3>1. stream'[s] = h
      BY <1>5, <2>1, <2>5
    <3>2. Count(s)' \in Nat /\ Count(s) <= Count(s)' /\ (h.at = "live" => Count(s)' = Count(s))
      BY <1>4, <2>2, <2>3, <2>5
    <3>3. Flows(k, h, Count(s)')
      BY <2>2, <3>2, GrowFlows
    <3>4. QED
      BY <2>1, <2>2, <3>1, <3>3
  <2>6. QED
    BY <2>4, <2>5
<1>7. stream' \in [Socket -> Stream]
  BY <1>5, <1>6
<1>8. TypeOK'
  BY <1>1, <1>4, <1>6, <1>7 DEF ConsoleInv, TypeOK
<1>9. Stay /\ Given' = Given /\ Given \subseteq Project
  BY <1>1 DEF Stay, Given, ConsoleInv, TypeOK, Tab
<1>10. \A x \in Given' : sent'[x] > 0
  BY <1>1, <1>4, <1>9 DEF ConsoleInv, Tab
<1>11. Tab'
  BY <1>1, <1>9, <1>10, StayTab DEF ConsoleInv, Tab
<1>12. Supply'
  <2>1. UsedSockets' = UsedSockets /\ Owed' = Owed
    BY <1>1, <1>9, StayFacts
  <2>2. \A x \in Project : sent'[x] > 0 <=> sent[x] > 0
    BY <1>1, <1>2, <1>3, <1>4
  <2>3. UsedProjects' = UsedProjects /\ Due' = Due
    BY <1>1, <2>2 DEF UsedProjects, Due
  <2>4. QED
    BY <1>1, <2>1, <2>3 DEF ConsoleInv, Supply
<1>13. Streams'
  <2>1. \A x \in Project : recorded'[x] <= sent'[x]
    BY <1>1, <1>4 DEF ConsoleInv, TypeOK, Streams
  <2>2. QED
    BY <1>1, <1>6, <2>1 DEF ConsoleInv, Streams, Unused
<1>14. QED
  BY <1>8, <1>11, <1>12, <1>13 DEF ConsoleInv
-------------------------------------------------------------------------------
(* Requests. *)

(* A step of the page before there is a socket of its project.             *)
LEMMA RequestKeeps ==
  ASSUME ConsoleInv,
         UNCHANGED <<sock, stream, recorded, effect, ws, closed, retry, drops>>,
         sent' \in [Project -> Nat], \A p \in Project : sent[p] <= sent'[p],
         \A p \in Project : sent[p] > 0 => sent'[p] = sent[p],
         \A p \in Given' : sent'[p] > 0,
         task' \in Project \cup {Nobody}, task' = Nobody => effect = Nobody,
         answers' \subseteq Project, starts' \in 0..MaxStarts, posts' \in 0..starts',
         Supply'
  PROVE  ConsoleInv'
<1>1. TypeOK'
  BY DEF ConsoleInv, TypeOK
<1>2. Stay
  BY DEF Stay
<1>3. Tab'
  BY <1>2, StayTab
<1>4. \A s \in Socket : Count(s)' = Count(s)
  <2>1. ASSUME NEW s \in Socket
        PROVE  Count(s)' = Count(s)
    <3>1. ~Unused(s) => sock[s].project \in Project /\ sent[sock[s].project] > 0
      BY SocketFacts
    <3>2. QED
      BY <3>1 DEF Count, Unused
  <2>2. QED
    BY <2>1
<1>5. \A p \in Project : recorded'[p] <= sent'[p]
  BY DEF ConsoleInv, TypeOK, Streams
<1>6. Streams'
  BY <1>4, <1>5 DEF ConsoleInv, Streams, Unused
<1>7. QED
  BY <1>1, <1>3, <1>6 DEF ConsoleInv

LEMMA SameSupply ==
  ASSUME UNCHANGED <<sock, closed, retry>>
  PROVE  UsedSockets' = UsedSockets /\ Owed' = Owed
<1>1. Stay
  BY DEF Stay
<1>2. QED
  BY <1>1, StayFacts

LEMMA SubmitKeeps == ConsoleInv /\ Submit => ConsoleInv'
<1> SUFFICES ASSUME ConsoleInv, Submit
             PROVE  ConsoleInv'
  OBVIOUS
<1>1. /\ starts < MaxStarts /\ starts' = starts + 1 /\ posts' = posts + 1
      /\ UNCHANGED <<sent, recorded, stream, sock, task, effect, ws, closed, retry, answers, drops>>
  BY DEF Submit, server
<1>2. starts' \in 0..MaxStarts /\ posts' \in 0..starts'
  BY <1>1, Counted DEF ConsoleInv, TypeOK
<1>3. Supply'
  <2>1. UsedSockets' = UsedSockets /\ Owed' = Owed /\ Due' = Due /\ UsedProjects' = UsedProjects
    BY <1>1, SameSupply DEF Due, UsedProjects
  <2>2. QED
    BY <1>1, <2>1, Counted DEF ConsoleInv, Supply
<1>4. Given' = Given
  BY <1>1 DEF Given
<1>5. /\ sent' \in [Project -> Nat] /\ (\A p \in Project : sent[p] <= sent'[p])
      /\ (\A p \in Project : sent[p] > 0 => sent'[p] = sent[p])
      /\ (\A p \in Given' : sent'[p] > 0)
      /\ task' \in Project \cup {Nobody} /\ (task' = Nobody => effect = Nobody)
      /\ answers' \subseteq Project
  BY <1>1, <1>4 DEF ConsoleInv, TypeOK, Tab
<1>6. QED
  BY <1>1, <1>2, <1>3, <1>5, RequestKeeps

LEMMA OneMore ==
  ASSUME NEW S, IsFiniteSet(S), NEW x
  PROVE  Cardinality(S \cup {x}) \in Nat /\ Cardinality(S \cup {x}) <= Cardinality(S) + 1
<1>1. Cardinality(S) \in Nat
  BY FS_CardinalityType
<1>2. Cardinality(S \cup {x}) = IF x \in S THEN Cardinality(S) ELSE Cardinality(S) + 1
  BY FS_AddElement
<1>3. QED
  BY <1>1, <1>2

LEMMA PostAcceptedKeeps == ConsoleInv /\ PostAccepted => ConsoleInv'
<1> SUFFICES ASSUME ConsoleInv, PostAccepted
             PROVE  ConsoleInv'
  OBVIOUS
<1>1. PICK p \in Project : p = FreshProject /\ sent[p] = 0
  BY ProjectLeft DEF PostAccepted
<1>2. /\ posts > 0 /\ sent' = [sent EXCEPT ![p] = 1] /\ posts' = posts - 1
      /\ answers' = answers \cup {p}
      /\ UNCHANGED <<recorded, stream, sock, task, effect, ws, closed, retry, starts, drops>>
  BY <1>1 DEF PostAccepted
<1>3. /\ sent \in [Project -> Nat] /\ sent' \in [Project -> Nat]
      /\ \A x \in Project : sent'[x] = IF x = p THEN 1 ELSE sent[x]
  BY <1>2 DEF ConsoleInv, TypeOK
<1>4. /\ \A x \in Project : sent[x] <= sent'[x]
      /\ \A x \in Project : sent[x] > 0 => sent'[x] = sent[x]
  BY <1>1, <1>3
<1>5. \A x \in Given' : sent'[x] > 0
  <2>1. Given' \subseteq Given \cup {p} /\ Given \subseteq Project
    BY <1>2 DEF Given, ConsoleInv, TypeOK, Tab
  <2>2. QED
    BY <1>3, <2>1 DEF ConsoleInv, Tab
<1>6. /\ starts' \in 0..MaxStarts /\ posts' \in 0..starts' /\ answers' \subseteq Project
      /\ task' \in Project \cup {Nobody} /\ (task' = Nobody => effect = Nobody)
  BY <1>2 DEF ConsoleInv, TypeOK, Tab
<1>7. Supply'
  <2>1. UsedSockets' = UsedSockets /\ Owed' = Owed /\ Due' = Due
    BY <1>2, SameSupply DEF Due
  <2>2. UsedProjects' = UsedProjects \cup {p}
    BY <1>3 DEF UsedProjects
  <2>3. /\ Cardinality(UsedProjects') \in Nat
        /\ Cardinality(UsedProjects') <= Cardinality(UsedProjects) + 1
    BY <2>2, Counted, OneMore
  <2>4. /\ Cardinality(answers') \in Nat
        /\ Cardinality(answers') <= Cardinality(answers) + 1
    BY <1>2, Counted, OneMore
  <2>5. QED
    BY <1>2, <2>1, <2>3, <2>4, Counted DEF ConsoleInv, Supply
<1>8. QED
  BY <1>2, <1>3, <1>4, <1>5, <1>6, <1>7, RequestKeeps

(* Answers that are read, or lost. *)
LEMMA FewerAnswers ==
  ASSUME ConsoleInv, NEW p \in answers, answers' = answers \ {p}
  PROVE  Cardinality(answers') \in Nat /\ Cardinality(answers') = Cardinality(answers) - 1
BY Counted, FS_RemoveElement, FS_CardinalityType

LEMMA PostReturnsKeeps == ASSUME NEW p \in Project, ConsoleInv, PostReturns(p) PROVE ConsoleInv'
<1>1. /\ p \in answers /\ answers' = answers \ {p} /\ task' = p
      /\ UNCHANGED <<sent, recorded, stream, sock, effect, ws, closed, retry, posts, starts, drops>>
  BY DEF PostReturns, server
<1>2. p # Nobody /\ Given' \subseteq Given
  BY <1>1, ConsoleAssumption DEF Given
<1>3. /\ sent' \in [Project -> Nat] /\ (\A x \in Project : sent[x] <= sent'[x])
      /\ (\A x \in Project : sent[x] > 0 => sent'[x] = sent[x])
      /\ (\A x \in Given' : sent'[x] > 0)
      /\ task' \in Project \cup {Nobody} /\ task' # Nobody
      /\ answers' \subseteq Project /\ starts' \in 0..MaxStarts /\ posts' \in 0..starts'
  BY <1>1, <1>2 DEF ConsoleInv, TypeOK, Tab
<1>4. Supply'
  <2>1. UsedSockets' = UsedSockets /\ Owed' = Owed /\ UsedProjects' = UsedProjects
    BY <1>1, SameSupply DEF UsedProjects
  <2>2. Due' \in {0, 1}
    BY DEF Due
  <2>3. QED
    BY <1>1, <2>1, <2>2, Counted, FewerAnswers DEF ConsoleInv, Supply
<1>5. QED
  BY <1>1, <1>3, <1>4, RequestKeeps

LEMMA PostFailsKeeps == ConsoleInv /\ PostFails => ConsoleInv'
<1> SUFFICES ASSUME ConsoleInv, PostFails
             PROVE  ConsoleInv'
  OBVIOUS
<1>1. UNCHANGED <<sent, recorded, stream, sock, task, effect, ws, closed, retry, starts, drops>>
  BY DEF PostFails, server
<1>2. /\ answers' \subseteq answers /\ Cardinality(answers') \in Nat /\ posts' \in 0..starts
      /\ Cardinality(answers') <= Cardinality(answers) /\ posts' <= posts
  <2>1. CASE posts > 0 /\ posts' = posts - 1 /\ UNCHANGED answers
    BY <2>1, Counted DEF ConsoleInv, TypeOK
  <2>2. ASSUME NEW p \in answers, answers' = answers \ {p}, UNCHANGED posts
        PROVE  /\ answers' \subseteq answers /\ Cardinality(answers') \in Nat
               /\ posts' \in 0..starts
               /\ Cardinality(answers') <= Cardinality(answers) /\ posts' <= posts
    <3>1. /\ Cardinality(answers') \in Nat
          /\ Cardinality(answers') = Cardinality(answers) - 1
      BY <2>2, FewerAnswers
    <3>2. posts \in 0..starts /\ posts \in Nat
      BY Counted DEF ConsoleInv, TypeOK
    <3>3. QED
      BY <2>2, <3>1, <3>2, Counted
  <2>3. QED
    BY <2>1, <2>2 DEF PostFails
<1>3. Given' \subseteq Given
  BY <1>1, <1>2 DEF Given
<1>4. /\ sent' \in [Project -> Nat] /\ (\A p \in Project : sent[p] <= sent'[p])
      /\ (\A p \in Project : sent[p] > 0 => sent'[p] = sent[p])
      /\ (\A p \in Given' : sent'[p] > 0)
      /\ task' \in Project \cup {Nobody} /\ (task' = Nobody => effect = Nobody)
      /\ answers' \subseteq Project /\ starts' \in 0..MaxStarts /\ posts' \in 0..starts'
  BY <1>1, <1>2, <1>3 DEF ConsoleInv, TypeOK, Tab
<1>5. Supply'
  <2>1. /\ UsedSockets' = UsedSockets /\ Owed' = Owed /\ UsedProjects' = UsedProjects
        /\ Due' = Due
    BY <1>1, SameSupply DEF UsedProjects, Due
  <2>2. posts' \in Nat
    BY <1>2
  <2>3. QED
    BY <1>1, <1>2, <2>1, <2>2, Counted DEF ConsoleInv, Supply
<1>6. QED
  BY <1>1, <1>4, <1>5, RequestKeeps
-------------------------------------------------------------------------------
(* Sockets that are accepted, lost and closed. *)
LEMMA PhaseMoves ==
  ASSUME ConsoleInv, NEW s \in Socket, NEW k \in Sock, NEW h \in Stream, ~Unused(s),
         sock' = [sock EXCEPT ![s] = k], stream' = [stream EXCEPT ![s] = h],
         UNCHANGED <<sent, recorded, task, effect, ws, closed, posts, answers, starts>>,
         k.at # "unused", k.project = sock[s].project,
         Len(h.past) <= HistoryLimit, Flows(k, h, Count(s)),
         retry' \in Project \cup {Nobody}, drops' \in 0..MaxDrops
  PROVE  /\ TypeOK' /\ Streams'
         /\ UsedSockets' = UsedSockets /\ UsedProjects' = UsedProjects /\ Due' = Due
         /\ \A x \in Socket : /\ Unused(x)' <=> Unused(x)
                              /\ sock'[x].project = sock[x].project
         /\ \A x \in Socket \ {s} : /\ Active(x)' <=> Active(x)
                                    /\ Lost(x)' <=> Lost(x)
         /\ sock'[s] = k
<1>1. /\ sock \in [Socket -> Sock] /\ stream \in [Socket -> Stream]
      /\ \A x \in Socket : sock'[x] = IF x = s THEN k ELSE sock[x]
      /\ \A x \in Socket : stream'[x] = IF x = s THEN h ELSE stream[x]
  BY DEF ConsoleInv, TypeOK
<1>2. TypeOK'
  <2>1. sock' \in [Socket -> Sock] /\ stream' \in [Socket -> Stream]
    BY <1>1
  <2>2. \A x \in Socket : Len(stream'[x].past) <= HistoryLimit
    BY <1>1 DEF ConsoleInv, TypeOK
  <2>3. QED
    BY <2>1, <2>2 DEF ConsoleInv, TypeOK
<1>3. \A x \in Socket : /\ Unused(x)' <=> Unused(x)
                        /\ sock'[x].project = sock[x].project
  BY <1>1 DEF Unused
<1>4. \A x \in Socket \ {s} : /\ Active(x)' <=> Active(x)
                              /\ Lost(x)' <=> Lost(x)
  BY <1>1 DEF Active, Lost, Current
<1>5. UsedSockets' = UsedSockets
  BY <1>3 DEF UsedSockets
<1>6. UsedProjects' = UsedProjects /\ Due' = Due
  BY DEF UsedProjects, Due
<1>7. \A x \in Socket : Count(x)' = Count(x)
  BY <1>3 DEF Count
<1>8. Streams'
  BY <1>1, <1>3, <1>7 DEF ConsoleInv, Streams
<1>9. sock'[s] = k
  BY <1>1
<1>10. QED
  BY <1>2, <1>3, <1>4, <1>5, <1>6, <1>8, <1>9

LEMMA AcceptKeeps == ASSUME NEW s \in Socket, ConsoleInv, Accept(s) PROVE ConsoleInv'
<1>1. PICK k \in Sock, h \in Stream : k = sock[s] /\ h = stream[s]
  BY SocketFacts
<1>2. /\ k.at = "connecting" /\ ~Unused(s) /\ Flows(k, h, Count(s)) /\ Count(s) \in Nat
      /\ UNCHANGED <<sent, recorded, task, effect, ws, closed, retry, posts, answers, starts, drops>>
  BY <1>1, SocketFacts DEF Accept, page, Unused
<1>3. PICK k2 : k2 = [k EXCEPT !.at = "open"]
  OBVIOUS
<1>4. /\ k2 \in Sock /\ k2.at = "open" /\ k2.project = k.project
      /\ k2.frames = k.frames /\ k2.seen = k.seen
  BY <1>3 DEF Sock
<1>5. PICK q : q = [NoStream EXCEPT !.at = "history"]
  OBVIOUS
<1>6. q \in Stream /\ q.at = "history" /\ q.past = <<>> /\ q.inbox = <<>> /\ q.since = 0
  <2>1. /\ q \in Stream /\ q.at = "history" /\ q.past = NoStream.past
        /\ q.inbox = NoStream.inbox /\ q.since = NoStream.since
    BY <1>5, NoHandler DEF Stream
  <2>2. QED
    BY <2>1, NoHandler
<1>7. k2.frames = <<>> /\ k2.seen = <<>>
  BY <1>2, <1>4 DEF Flows
<1>8. Flows(k2, q, Count(s))
  BY <1>2, <1>4, <1>6, <1>7, StartFlows
<1>9. Len(q.past) <= HistoryLimit
  BY <1>6, EmptyLog, ConsoleAssumption
<1>10. sock' = [sock EXCEPT ![s] = k2] /\ stream' = [stream EXCEPT ![s] = q]
  BY <1>1, <1>3, <1>5 DEF Accept, Set
<1>11. retry' \in Project \cup {Nobody} /\ drops' \in 0..MaxDrops
  BY <1>2 DEF ConsoleInv, TypeOK
<1>12. /\ TypeOK' /\ Streams' /\ UsedSockets' = UsedSockets
       /\ UsedProjects' = UsedProjects /\ Due' = Due
       /\ \A x \in Socket : /\ Unused(x)' <=> Unused(x)
                            /\ sock'[x].project = sock[x].project
       /\ \A x \in Socket \ {s} : /\ Active(x)' <=> Active(x)
                                  /\ Lost(x)' <=> Lost(x)
       /\ sock'[s] = k2
  BY <1>1, <1>2, <1>4, <1>6, <1>8, <1>9, <1>10, <1>11, PhaseMoves
<1>13. /\ \A x \in Socket : /\ Active(x)' <=> Active(x)
                            /\ Lost(x)' <=> Lost(x)
  BY <1>1, <1>2, <1>4, <1>12 DEF Active, Lost, Current
<1>14. Tab'
  <2>1. Given' = Given
    BY <1>2 DEF Given
  <2>2. QED
    BY <1>2, <1>12, <1>13, <2>1 DEF ConsoleInv, Tab
<1>15. Owed' = Owed
  BY <1>2, <1>13 DEF Owed
<1>16. Supply'
  BY <1>2, <1>12, <1>15 DEF ConsoleInv, Supply
<1>17. QED
  BY <1>12, <1>14, <1>16 DEF ConsoleInv

(* What is owed after the step was owed before it, or is one more for one  *)
(* more connection lost.                                                   *)
LEMMA Borrowed ==
  ASSUME ConsoleInv, UsedSockets' = UsedSockets, UsedProjects' = UsedProjects, Due' = Due,
         UNCHANGED <<answers, posts, starts>>, Owed' \in {0, 1},
         \/ drops' = drops /\ Owed = 1
         \/ drops' = drops + 1 /\ Owed = 0
  PROVE  Supply'
<1>1. PICK u, a, d, p, t, r \in Nat :
        /\ u = Cardinality(UsedSockets) /\ a = Cardinality(answers) /\ d = Due
        /\ p = posts /\ t = starts /\ r = drops
  BY Counted DEF Due
<1>2. u + d + Owed + a + p <= t + r /\ Cardinality(UsedProjects) + p <= t
  BY <1>1 DEF ConsoleInv, Supply
<1>3. u + d + Owed' + a + p <= t + drops'
  <2>1. CASE drops' = drops /\ Owed = 1
    BY <1>1, <1>2, <2>1
  <2>2. CASE drops' = drops + 1 /\ Owed = 0
    BY <1>1, <1>2, <2>2
  <2>3. QED
    BY <2>1, <2>2
<1>4. /\ u = Cardinality(UsedSockets') /\ a = Cardinality(answers') /\ d = Due'
      /\ p = posts' /\ t = starts' /\ UsedProjects' = UsedProjects
  BY <1>1
<1>5. QED
  BY <1>2, <1>3, <1>4 DEF Supply

LEMMA DropKeeps == ASSUME NEW s \in Socket, ConsoleInv, Drop(s) PROVE ConsoleInv'
<1>1. PICK k \in Sock, h \in Stream : k = sock[s] /\ h = stream[s]
  BY SocketFacts
<1>2. /\ Current(s) /\ ~Unused(s) /\ Flows(k, h, Count(s)) /\ Count(s) \in Nat
      /\ Len(h.past) <= HistoryLimit /\ drops < MaxDrops /\ drops' = drops + 1
      /\ UNCHANGED <<sent, recorded, stream, task, effect, ws, closed, retry, posts, answers, starts>>
  BY <1>1, SocketFacts DEF Drop, Current, page, server, Unused
<1>3. PICK k2 : k2 = Closing(k)
  OBVIOUS
<1>4. /\ k2 \in Sock /\ k2.at = "closing" /\ k2.project = k.project
      /\ k2.frames = <<>> /\ k2.seen = <<>>
  BY <1>3, ClosingSocket
<1>5. Flows(k2, h, Count(s))
  BY <1>2, <1>4, CloseFlows
<1>6. sock' = [sock EXCEPT ![s] = k2] /\ stream' = [stream EXCEPT ![s] = h]
  BY <1>1, <1>2, <1>3 DEF Drop, ConsoleInv, TypeOK
<1>7. retry' \in Project \cup {Nobody} /\ drops' \in 0..MaxDrops
  BY <1>2, Counted DEF ConsoleInv, TypeOK
<1>8. /\ TypeOK' /\ Streams' /\ UsedSockets' = UsedSockets
      /\ UsedProjects' = UsedProjects /\ Due' = Due
      /\ \A x \in Socket : /\ Unused(x)' <=> Unused(x)
                           /\ sock'[x].project = sock[x].project
      /\ \A x \in Socket \ {s} : /\ Active(x)' <=> Active(x)
                                 /\ Lost(x)' <=> Lost(x)
      /\ sock'[s] = k2
  BY <1>1, <1>2, <1>4, <1>5, <1>6, <1>7, PhaseMoves
<1>9. Active(s) /\ \A x \in Socket : Active(x)' => Active(x)
  BY <1>2, <1>8 DEF Active
<1>10. Tab'
  <2>1. Given' = Given
    BY <1>2 DEF Given
  <2>2. QED
    BY <1>2, <1>8, <1>9, <2>1 DEF ConsoleInv, Tab
<1>11. Owed = 0
  <2>1. retry = Nobody
    BY <1>9 DEF ConsoleInv, Tab
  <2>2. \A x \in Socket : ~Lost(x)
    <3>1. \A x \in Socket : Lost(x) => x = s
      BY <1>9 DEF ConsoleInv, Tab, Active
    <3>2. ~Lost(s)
      BY <1>2 DEF Lost, Current
    <3>3. QED
      BY <3>1, <3>2
  <2>3. QED
    BY <2>1, <2>2 DEF Owed
<1>12. Owed' \in {0, 1}
  BY DEF Owed
<1>13. Supply'
  BY <1>2, <1>8, <1>11, <1>12, Borrowed
<1>14. QED
  BY <1>8, <1>10, <1>13 DEF ConsoleInv

LEMMA OnCloseKeeps == ASSUME NEW s \in Socket, ConsoleInv, OnClose(s) PROVE ConsoleInv'
<1>1. PICK k \in Sock, h \in Stream : k = sock[s] /\ h = stream[s]
  BY SocketFacts
<1>2. /\ k.at = "closing" /\ ~Unused(s) /\ Flows(k, h, Count(s)) /\ Count(s) \in Nat
      /\ Len(h.past) <= HistoryLimit /\ k.project \in Project
      /\ retry' = IF k.project \in closed THEN retry ELSE k.project
      /\ UNCHANGED <<sent, recorded, stream, task, effect, ws, closed, posts, answers, starts, drops>>
  BY <1>1, SocketFacts DEF OnClose, server, Unused
<1>3. PICK k2 : k2 = [k EXCEPT !.at = "closed"]
  OBVIOUS
<1>4. /\ k2 \in Sock /\ k2.at = "closed" /\ k2.project = k.project
      /\ k2.frames = k.frames /\ k2.seen = k.seen
  BY <1>3 DEF Sock
<1>5. k2.frames = <<>> /\ k2.seen = <<>>
  BY <1>2, <1>4 DEF Flows
<1>6. Flows(k2, h, Count(s))
  BY <1>2, <1>4, <1>5, CloseFlows
<1>7. sock' = [sock EXCEPT ![s] = k2] /\ stream' = [stream EXCEPT ![s] = h]
  BY <1>1, <1>2, <1>3 DEF OnClose, ConsoleInv, TypeOK
<1>8. retry' \in Project \cup {Nobody} /\ drops' \in 0..MaxDrops
  BY <1>2 DEF ConsoleInv, TypeOK
<1>9. /\ TypeOK' /\ Streams' /\ UsedSockets' = UsedSockets
      /\ UsedProjects' = UsedProjects /\ Due' = Due
      /\ \A x \in Socket : /\ Unused(x)' <=> Unused(x)
                           /\ sock'[x].project = sock[x].project
      /\ \A x \in Socket \ {s} : /\ Active(x)' <=> Active(x)
                                 /\ Lost(x)' <=> Lost(x)
      /\ sock'[s] = k2
  BY <1>1, <1>2, <1>4, <1>6, <1>7, <1>8, PhaseMoves
<1>10. ~Active(s)' /\ ~Lost(s)'
  BY <1>4, <1>9 DEF Active, Lost, Current
<1>11. \A x \in Socket : Active(x)' => Active(x) /\ x # s
  BY <1>9, <1>10
<1>12. Given' \subseteq Given \cup {k.project}
  BY <1>2 DEF Given
<1>13. sent'[k.project] > 0
  BY <1>1, <1>2, SocketFacts
<1>14. CASE k.project \in closed
  <2>1. retry' = retry /\ ~Lost(s)
    BY <1>1, <1>2, <1>14 DEF Lost
  <2>2. Tab'
    BY <1>2, <1>9, <1>11, <1>12, <1>13, <2>1 DEF ConsoleInv, Tab
  <2>3. \A x \in Socket : Lost(x)' <=> Lost(x)
    BY <1>9, <1>10, <2>1
  <2>4. Owed' = Owed
    BY <2>1, <2>3 DEF Owed
  <2>5. Supply'
    BY <1>2, <1>9, <2>4 DEF ConsoleInv, Supply
  <2>6. QED
    BY <1>9, <2>2, <2>5 DEF ConsoleInv
<1>15. CASE k.project \notin closed
  <2>1. Lost(s) /\ Active(s)
    BY <1>1, <1>2, <1>15 DEF Lost, Active
  <2>2. retry' = k.project /\ k.project = effect
    BY <1>1, <1>2, <1>15, <2>1 DEF ConsoleInv, Tab
  <2>3. \A x \in Socket : ~Active(x)'
    BY <1>11, <2>1 DEF ConsoleInv, Tab
  <2>4. Tab'
    BY <1>2, <1>9, <1>12, <1>13, <2>2, <2>3 DEF ConsoleInv, Tab
  <2>5. Owed = 1 /\ Owed' \in {0, 1}
    BY <2>1 DEF Owed
  <2>6. Supply'
    BY <1>2, <1>9, <2>5, Borrowed
  <2>7. QED
    BY <1>9, <2>4, <2>6 DEF ConsoleInv
<1>16. QED
  BY <1>14, <1>15
-------------------------------------------------------------------------------
(* Sockets that are opened. *)

(* A socket never used is opened for a project the page shows; others are  *)
(* at most closed.                                                         *)
LEMMA Opens ==
  ASSUME ConsoleInv, NEW s \in Socket, Unused(s), NEW p \in Project, sent[p] > 0,
         sock' \in [Socket -> Sock], sock'[s] = Connecting(p),
         \A x \in Socket \ {s} :
           \/ sock'[x] = sock[x]
           \/ Current(x) /\ sock'[x] = Closing(sock[x]),
         UNCHANGED <<sent, recorded, stream, posts, answers, starts, drops>>
  PROVE  /\ Streams' /\ UsedSockets' = UsedSockets \cup {s}
         /\ Cardinality(UsedSockets') = Cardinality(UsedSockets) + 1
         /\ \A x \in Socket \ {s} : /\ sock'[x].project = sock[x].project
                                    /\ Unused(x)' <=> Unused(x)
         /\ Current(s)' /\ ~Lost(s)' /\ ~Unused(s)' /\ sock'[s].project = p
<1>1. /\ Connecting(p) \in Sock /\ Connecting(p).at = "connecting" /\ Connecting(p).project = p
      /\ Connecting(p).frames = <<>> /\ Connecting(p).seen = <<>>
  BY ConnectingSocket
<1>2. Current(s)' /\ ~Lost(s)' /\ ~Unused(s)' /\ sock'[s].project = p
  BY <1>1 DEF Current, Lost, Unused
<1>3. ASSUME NEW x \in Socket \ {s}
      PROVE  /\ sock'[x].project = sock[x].project
             /\ Unused(x)' <=> Unused(x)
             /\ Unused(x) => sock'[x] = sock[x]
             /\ Count(x)' = Count(x)
             /\ Flows(sock'[x], stream'[x], Count(x)')
  <2>1. PICK k \in Sock, h \in Stream : k = sock[x] /\ h = stream[x]
    BY SocketFacts
  <2>2. Flows(k, h, Count(x)) /\ Count(x) \in Nat
    BY <2>1, SocketFacts
  <2>3. CASE sock'[x] = sock[x]
    <3>1. (Unused(x)' <=> Unused(x)) /\ Count(x)' = Count(x)
      BY <2>3 DEF Unused, Count
    <3>2. QED
      BY <2>1, <2>2, <2>3, <3>1
  <2>4. CASE Current(x) /\ sock'[x] = Closing(sock[x])
    <3>1. PICK q : q = Closing(k)
      OBVIOUS
    <3>2. /\ q \in Sock /\ q.at = "closing" /\ q.project = k.project
          /\ q.frames = <<>> /\ q.seen = <<>>
      BY <3>1, ClosingSocket
    <3>3. sock'[x] = q /\ ~Unused(x) /\ ~Unused(x)'
      BY <2>1, <2>4, <3>1, <3>2 DEF Current, Unused
    <3>4. Count(x)' = Count(x)
      BY <2>1, <3>2, <3>3 DEF Count
    <3>5. Flows(q, h, Count(x))
      BY <2>2, <3>2, CloseFlows
    <3>6. QED
      BY <2>1, <3>2, <3>3, <3>4, <3>5
  <2>5. QED
    BY <2>3, <2>4
<1>4. Flows(sock'[s], stream'[s], Count(s)')
  <2>1. Count(s)' = sent[p] /\ sent[p] \in Nat
    BY <1>2 DEF Count, ConsoleInv, TypeOK
  <2>2. stream[s] = NoStream
    BY SocketFacts DEF Flows, Unused
  <2>3. Flows(Connecting(p), NoStream, sent[p])
    BY <1>1, <2>1, NoHandler, StartFlows
  <2>4. QED
    BY <2>1, <2>2, <2>3
<1>5. Streams'
  BY <1>2, <1>3, <1>4 DEF ConsoleInv, Streams
<1>6. UsedSockets' = UsedSockets \cup {s} /\ s \notin UsedSockets
  BY <1>2, <1>3 DEF UsedSockets
<1>7. Cardinality(UsedSockets \cup {s}) = Cardinality(UsedSockets) + 1
  BY <1>6, Counted, FS_AddElement
<1>8. QED
  BY <1>2, <1>3, <1>5, <1>6, <1>7

LEMMA RunEffectKeeps == ConsoleInv /\ Latest /\ RunEffect => ConsoleInv' /\ Latest'
<1> SUFFICES ASSUME ConsoleInv, Latest, RunEffect
             PROVE  ConsoleInv' /\ Latest'
  OBVIOUS
<1>1. /\ task # effect /\ effect' = task /\ closed' = closed \cup ({effect} \ {Nobody})
      /\ retry' = Nobody
      /\ UNCHANGED <<sent, recorded, stream, task, posts, answers, starts, drops>>
  BY DEF RunEffect, server
<1>2. task \in Project /\ sent[task] > 0
  BY <1>1 DEF ConsoleInv, TypeOK, Tab, Given
<1>3. PICK s \in Socket : s = FreshSocket /\ Unused(s) /\ ws' = s
  BY <1>1, SocketLeft DEF RunEffect
<1>4. sock' = [x \in Socket |-> IF x = s THEN Connecting(task)
                               ELSE IF Current(x) THEN Closing(sock[x]) ELSE sock[x]]
  BY <1>3 DEF RunEffect, Latest
<1>5. sock' \in [Socket -> Sock]
  <2>1. \A x \in Socket : sock[x] \in Sock
    BY SocketFacts
  <2>2. Connecting(task) \in Sock /\ \A x \in Socket : Closing(sock[x]) \in Sock
    BY <1>2, <2>1, ConnectingSocket, ClosingSocket
  <2>3. QED
    BY <1>4, <2>1, <2>2
<1>6. /\ sock'[s] = Connecting(task)
      /\ \A x \in Socket \ {s} :
           \/ sock'[x] = sock[x]
           \/ Current(x) /\ sock'[x] = Closing(sock[x])
  BY <1>4
<1>7. /\ Streams' /\ UsedSockets' = UsedSockets \cup {s}
      /\ Cardinality(UsedSockets') = Cardinality(UsedSockets) + 1
      /\ \A x \in Socket \ {s} : /\ sock'[x].project = sock[x].project
                                 /\ Unused(x)' <=> Unused(x)
      /\ Current(s)' /\ ~Lost(s)' /\ ~Unused(s)' /\ sock'[s].project = task
  BY <1>1, <1>2, <1>3, <1>5, <1>6, Opens
<1>8. TypeOK'
  BY <1>1, <1>3, <1>5 DEF ConsoleInv, TypeOK
<1>9. \A x \in Socket \ {s} : ~Unused(x) => sock[x].project \in closed' \ {Nobody}
  BY <1>1 DEF ConsoleInv, Tab
<1>10. \A x \in Socket \ {s} : ~Current(x)'
  <2>1. ASSUME NEW x \in Socket \ {s}
        PROVE  ~Current(x)'
    <3>1. CASE Current(x)
      <4>1. sock'[x] = Closing(sock[x]) /\ sock[x] \in Sock
        BY <1>4, <3>1, SocketFacts
      <4>2. sock'[x].at = "closing"
        BY <4>1, ClosingSocket
      <4>3. QED
        BY <4>2 DEF Current
    <3>2. CASE ~Current(x)
      <4>1. sock'[x] = sock[x]
        BY <1>4, <3>2
      <4>2. QED
        BY <3>2, <4>1 DEF Current
    <3>3. QED
      BY <3>1, <3>2
  <2>2. QED
    BY <2>1
<1>11. \A x \in Socket \ {s} : ~Lost(x)'
  <2>1. ASSUME NEW x \in Socket \ {s}, Lost(x)'
        PROVE  FALSE
    <3>1. ~Unused(x)'
      BY <2>1 DEF Lost, Unused
    <3>2. sock'[x].project \in closed'
      BY <1>7, <1>9, <3>1
    <3>3. QED
      BY <2>1, <3>2 DEF Lost
  <2>2. QED
    BY <2>1
<1>12. Given' \subseteq Given
  BY <1>1 DEF Given
<1>13. Tab'
  <2>1. \A x \in Socket : ~Unused(x)' => sock'[x].project \in (closed' \cup {effect'}) \ {Nobody}
    BY <1>1, <1>2, <1>7, <1>9, ConsoleAssumption
  <2>2. \A x \in Socket : Active(x)' => x = s
    BY <1>10, <1>11 DEF Active
  <2>3. \A p \in Given' : sent'[p] > 0
    BY <1>1, <1>12 DEF ConsoleInv, Tab
  <2>4. task' # Nobody
    BY <1>1, <1>2, ConsoleAssumption
  <2>5. QED
    BY <1>1, <1>7, <2>1, <2>2, <2>3, <2>4 DEF Tab
<1>14. Supply'
  <2>1. Due = 1 /\ Due' = 0
    BY <1>1 DEF Due
  <2>2. Owed' = 0
    BY <1>1, <1>7, <1>11 DEF Owed
  <2>3. UsedProjects' = UsedProjects
    BY <1>1 DEF UsedProjects
  <2>4. QED
    BY <1>1, <1>7, <2>1, <2>2, <2>3, Counted DEF ConsoleInv, Supply
<1>15. Latest'
  BY <1>3, <1>10 DEF Latest
<1>16. QED
  BY <1>7, <1>8, <1>13, <1>14, <1>15 DEF ConsoleInv

LEMMA RetryKeeps == ConsoleInv /\ Retry => ConsoleInv' /\ Latest'
<1> SUFFICES ASSUME ConsoleInv, Retry
             PROVE  ConsoleInv' /\ Latest'
  OBVIOUS
<1>1. /\ retry # Nobody /\ retry' = Nobody
      /\ UNCHANGED <<sent, recorded, stream, task, effect, closed, posts, answers, starts, drops>>
  BY DEF Retry, server
<1>2. /\ retry \in Project /\ sent[retry] > 0 /\ retry = effect
      /\ \A x \in Socket : ~Active(x)
  BY <1>1 DEF ConsoleInv, TypeOK, Tab, Given
<1>3. PICK s \in Socket : s = FreshSocket /\ Unused(s) /\ ws' = s
  BY <1>1, SocketLeft DEF Retry
<1>4. PICK k \in Sock : k = Connecting(retry)
  BY <1>2, ConnectingSocket
<1>5. sock' = [sock EXCEPT ![s] = k] /\ sock \in [Socket -> Sock]
  BY <1>3, <1>4 DEF Retry, ConsoleInv, TypeOK
<1>6. /\ sock' \in [Socket -> Sock] /\ sock'[s] = Connecting(retry)
      /\ \A x \in Socket \ {s} : sock'[x] = sock[x]
  BY <1>4, <1>5
<1>7. /\ Streams' /\ UsedSockets' = UsedSockets \cup {s}
      /\ Cardinality(UsedSockets') = Cardinality(UsedSockets) + 1
      /\ \A x \in Socket \ {s} : /\ sock'[x].project = sock[x].project
                                 /\ Unused(x)' <=> Unused(x)
      /\ Current(s)' /\ ~Lost(s)' /\ ~Unused(s)' /\ sock'[s].project = retry
  BY <1>1, <1>2, <1>3, <1>6, Opens
<1>8. TypeOK'
  BY <1>1, <1>3, <1>6 DEF ConsoleInv, TypeOK
<1>9. \A x \in Socket \ {s} : ~Active(x)' /\ ~Lost(x)'
  BY <1>1, <1>2, <1>6 DEF Active, Lost, Current
<1>10. Given' \subseteq Given
  BY <1>1 DEF Given
<1>11. Tab'
  <2>1. \A x \in Socket : ~Unused(x)' => sock'[x].project \in (closed' \cup {effect'}) \ {Nobody}
    BY <1>1, <1>2, <1>7 DEF ConsoleInv, Tab
  <2>2. \A p \in Given' : sent'[p] > 0
    BY <1>1, <1>10 DEF ConsoleInv, Tab
  <2>3. QED
    BY <1>1, <1>2, <1>7, <1>9, <2>1, <2>2 DEF ConsoleInv, Tab
<1>12. Supply'
  <2>1. Owed = 1
    BY <1>1 DEF Owed
  <2>2. Owed' = 0
    BY <1>1, <1>7, <1>9 DEF Owed
  <2>3. UsedProjects' = UsedProjects /\ Due' = Due
    BY <1>1 DEF UsedProjects, Due
  <2>4. QED
    BY <1>1, <1>7, <2>1, <2>2, <2>3, Counted DEF ConsoleInv, Supply
<1>13. Latest'
  BY <1>3, <1>9 DEF Latest, Active
<1>14. QED
  BY <1>7, <1>8, <1>11, <1>12, <1>13 DEF ConsoleInv
-------------------------------------------------------------------------------
LEMMA ConsoleStarts == Init => ConsoleInv /\ Latest
<1> SUFFICES ASSUME Init
             PROVE  ConsoleInv /\ Latest
  OBVIOUS
<1>1. /\ sent = [p \in Project |-> 0] /\ recorded = [p \in Project |-> 0]
      /\ sock = [s \in Socket |-> Fresh] /\ stream = [s \in Socket |-> NoStream]
      /\ task = Nobody /\ effect = Nobody /\ ws = Nobody /\ closed = {} /\ retry = Nobody
      /\ posts = 0 /\ answers = {} /\ starts = 0 /\ drops = 0
  BY DEF Init, Fresh
<1>2. /\ Fresh \in Sock /\ Fresh.at = "unused" /\ Fresh.frames = <<>> /\ Fresh.seen = <<>>
  <2>1. <<>> \in Seq(Event)
    BY EmptyLog
  <2>2. QED
    BY <2>1 DEF Fresh, Sock
<1>3. TypeOK
  <2>1. sock \in [Socket -> Sock] /\ stream \in [Socket -> Stream]
    BY <1>1, <1>2, NoHandler
  <2>2. \A s \in Socket : Len(stream[s].past) <= HistoryLimit
    BY <1>1, NoHandler, EmptyLog, ConsoleAssumption
  <2>3. QED
    BY <1>1, <2>1, <2>2, ConsoleAssumption DEF TypeOK
<1>4. \A s \in Socket : Unused(s) /\ ~Active(s) /\ ~Lost(s)
  BY <1>1, <1>2 DEF Unused, Active, Lost, Current
<1>5. Tab
  BY <1>1, <1>4 DEF Tab, Given
<1>6. Supply
  <2>1. UsedSockets = {} /\ UsedProjects = {} /\ Due = 0 /\ Owed = 0
    BY <1>1, <1>4 DEF UsedSockets, UsedProjects, Due, Owed
  <2>2. Cardinality({}) = 0
    BY FS_EmptySet
  <2>3. QED
    BY <1>1, <2>1, <2>2 DEF Supply
<1>7. Flows(Fresh, NoStream, 0)
  BY <1>2, NoHandler, StartFlows
<1>8. Streams
  BY <1>1, <1>4, <1>7 DEF Streams, Count
<1>9. Latest
  BY <1>4 DEF Latest, Active
<1>10. QED
  BY <1>3, <1>5, <1>6, <1>8, <1>9 DEF ConsoleInv

(* Only the effect and the timer open a socket.                            *)
LEMMA NoneOpens ==
  ASSUME ConsoleInv, Latest,
         \/ \E p \in Project : Publish(p) \/ Record(p) \/ PostReturns(p)
         \/ \E s \in Socket : StreamStep(s) \/ SocketStep(s) \/ Drop(s)
         \/ Submit \/ PostAccepted \/ PostFails
  PROVE  Latest'
<1>1. sock \in [Socket -> Sock]
  BY DEF ConsoleInv, TypeOK
<1>2. UNCHANGED ws
  BY DEF Publish, Record, PostReturns, StreamStep, SocketStep, ReadHistory, SendPast, Subscribe,
         Forward, Accept, OnMessage, OnClose, Drop, Submit, PostAccepted, PostFails, page
<1>3. ASSUME NEW x \in Socket, StreamStep(x) \/ SocketStep(x) \/ Drop(x)
      PROVE  \A s \in Socket : Current(s)' => Current(s)
  <2>1. CASE UNCHANGED sock
    BY <2>1 DEF Current
  <2>2. CASE Accept(x)
    BY <1>1, <2>2 DEF Accept, Current
  <2>3. CASE OnMessage(x)
    BY <1>1, <2>3 DEF OnMessage, Current, Sock
  <2>4. CASE OnClose(x)
    BY <1>1, <2>4 DEF OnClose, Current
  <2>5. CASE Drop(x)
    BY <1>1, <2>5 DEF Drop, Closing, Current, Sock
  <2>6. CASE SendPast(x) \/ Forward(x)
    <3>1. \/ UNCHANGED sock
          \/ \E events : sock' = [sock EXCEPT ![x].frames = @ \o events]
      BY <2>6 DEF SendPast, Forward, Send
    <3>2. ASSUME NEW events, sock' = [sock EXCEPT ![x].frames = @ \o events]
          PROVE  \A s \in Socket : Current(s)' => Current(s)
      <4>1. PICK k : k = [sock[x] EXCEPT !.frames = @ \o events]
        OBVIOUS
      <4>2. sock[x] \in Sock /\ sock' = [sock EXCEPT ![x] = k]
        BY <1>1, <3>2, <4>1
      <4>3. k.at = sock[x].at
        BY <4>1, <4>2 DEF Sock
      <4>4. QED
        BY <1>1, <4>2, <4>3 DEF Current
    <3>3. QED
      BY <2>1, <3>1, <3>2
  <2>7. QED
    BY <1>3, <2>1, <2>2, <2>3, <2>4, <2>5, <2>6
       DEF StreamStep, SocketStep, ReadHistory, Subscribe
<1>4. CASE UNCHANGED sock
  BY <1>2, <1>4 DEF Latest, Current
<1>5. QED
  BY <1>2, <1>3, <1>4 DEF Latest, Publish, Record, PostReturns, Submit, PostAccepted, PostFails

LEMMA ConsoleStays == ConsoleInv /\ Latest /\ UNCHANGED vars => ConsoleInv' /\ Latest'
BY DEF vars, ConsoleInv, TypeOK, Tab, Supply, Streams, Given, Unused, Active, Lost, Current,
       UsedSockets, UsedProjects, Due, Owed, Count, Latest

LEMMA ConsoleInvariant == Spec => []ConsoleInv
<1>1. ConsoleInv /\ Latest /\ [Next]_vars => ConsoleInv' /\ Latest'
  <2> SUFFICES ASSUME ConsoleInv, Latest, [Next]_vars
               PROVE  ConsoleInv' /\ Latest'
    OBVIOUS
  <2>1. CASE \E p \in Project : Publish(p) \/ Record(p) \/ PostReturns(p)
    BY <2>1, PublishKeeps, RecordKeeps, PostReturnsKeeps, NoneOpens
  <2>2. CASE \E s \in Socket : StreamStep(s)
    BY <2>2, ReadHistoryKeeps, SendPastKeeps, SubscribeKeeps, ForwardKeeps, NoneOpens DEF StreamStep
  <2>3. CASE \E s \in Socket : SocketStep(s) \/ Drop(s)
    BY <2>3, AcceptKeeps, OnMessageKeeps, OnCloseKeeps, DropKeeps, NoneOpens DEF SocketStep
  <2>4. CASE Submit \/ PostAccepted \/ PostFails
    BY <2>4, SubmitKeeps, PostAcceptedKeeps, PostFailsKeeps, NoneOpens
  <2>5. CASE UNCHANGED vars
    BY <2>5, ConsoleStays
  <2>6. CASE RunEffect \/ Retry
    BY <2>6, RunEffectKeeps, RetryKeeps
  <2>7. QED
    BY <2>1, <2>2, <2>3, <2>4, <2>5, <2>6 DEF Next
<1>2. QED
  BY <1>1, ConsoleStarts, PTL DEF Spec
-------------------------------------------------------------------------------
(* The tab, the handlers and what is on its way between them are of their  *)
(* kinds, a handler holds no more of the history than its limit, and the   *)
(* page has a socket and a project left for every request it may make      *)
(* (crew.js; routes.py, stream).                                           *)
THEOREM ConsoleTypes == Spec => []TypeOK
<1>1. ConsoleInv => TypeOK
  BY DEF ConsoleInv
<1>2. QED
  BY <1>1, ConsoleInvariant, PTL

(* The tab has at most one socket open or about to be, for the project its *)
(* effect runs for, however many requests overlap and however late a       *)
(* socket closes (crew.js, the effect's cleanup and `closed`).             *)
THEOREM AlwaysOneSocket == Spec => []OneSocket
<1>1. ConsoleInv => OneSocket
  <2> SUFFICES ASSUME ConsoleInv
               PROVE  OneSocket
    OBVIOUS
  <2> DEFINE current == {s \in Socket : Current(s)}
  <2>1. /\ \A s \in current : sock[s].project = effect
        /\ \A s, s2 \in current : s = s2
        /\ retry # Nobody => current = {}
    BY DEF ConsoleInv, Tab, Active
  <2>2. Cardinality({}) = 0 /\ \A s : Cardinality({s}) = 1
    BY FS_EmptySet, FS_Singleton
  <2>3. current = {} \/ \E s : current = {s}
    BY <2>1
  <2>4. /\ Cardinality(current) \in {0, 1}
        /\ retry # Nobody => Cardinality(current) = 0
    BY <2>1, <2>2, <2>3
  <2>5. Cardinality(current) + (IF retry = Nobody THEN 0 ELSE 1) <= 1
    BY <2>4
  <2>6. QED
    BY <2>1, <2>5 DEF OneSocket
<1>2. QED
  BY <1>1, ConsoleInvariant, PTL

(* What a connection shows is in the order it was published, nothing twice *)
(* and without a gap from its subscription on (routes.py, stream).         *)
THEOREM AlwaysShownInOrder == Spec => []ShownInOrder
<1>1. ConsoleInv => ShownInOrder
  <2> SUFFICES ASSUME ConsoleInv, NEW s \in Socket
               PROVE  LET all == sock[s].seen \o sock[s].frames \o stream[s].past \o stream[s].inbox
                          since == stream[s].since
                      IN /\ Increasing(all)
                         /\ sock[s].at = "open" /\ stream[s].at = "live" =>
                              {n \in ToSet(all) : n > since} = (since + 1)..sent[sock[s].project]
    BY DEF ShownInOrder
  <2>1. PICK k \in Sock, h \in Stream : k = sock[s] /\ h = stream[s]
    BY SocketFacts
  <2>2. Flows(k, h, Count(s)) /\ Count(s) \in Nat
    BY <2>1, SocketFacts
  <2>3. k.at = "open" => Count(s) = sent[k.project]
    BY <2>1, SocketFacts DEF Unused
  <2>4. /\ Increasing(k.seen \o k.frames \o h.past \o h.inbox)
        /\ k.at = "open" /\ h.at = "live" =>
             {n \in ToSet(k.seen \o k.frames \o h.past \o h.inbox) : n > h.since}
               = (h.since + 1)..Count(s)
    BY <2>2, AllFlows
  <2>5. QED
    BY <2>1, <2>3, <2>4
<1>2. QED
  BY <1>1, ConsoleInvariant, PTL
===============================================================================
