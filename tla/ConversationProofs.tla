-------------------------- MODULE ConversationProofs --------------------------
(***************************************************************************)
(* Who hears what, for any number of projects, agents, calls of the        *)
(* control plane, messages and losses: an agent acts on what is for it, in *)
(* order and once, and the EM once on the request that opened its project. *)
(***************************************************************************)
EXTENDS Conversation, SequenceTheorems, TLAPS

Elements(events) == {events[i] : i \in DOMAIN events}

(* Concerns, of an agent on project p. *)
DueTo(a, p, event) ==
  /\ event.project = p
  /\ event.source # a /\ (event.to = a \/ event.to = Everyone)
  /\ event.kind # "error"

(* A process has heard what was published from its subscription up to some *)
(* event: the last one, while it is subscribed.  What it has not acted on  *)
(* is still in its inbox, if it is for it.                                 *)
Follows(a, p, proc, events) ==
  /\ proc.line \in {"up", "cut"} /\ proc.since \in 0..Len(events)
  /\ Ordered(proc.taken) /\ Ordered(proc.inbox)
  /\ \A x \in Elements(proc.taken), y \in Elements(proc.inbox) : x.n < y.n
  /\ Elements(proc.taken) \cup Elements(proc.inbox) \subseteq Elements(events)
  /\ \A x \in Elements(proc.taken) : DueTo(a, p, x)
  /\ \A x \in Elements(proc.inbox) : x.project = p
  /\ \E upto \in proc.since..Len(events) :
       /\ proc.line = "up" => upto = Len(events)
       /\ \A x \in Elements(proc.taken) \cup Elements(proc.inbox) : proc.since < x.n /\ x.n <= upto
       /\ \A x \in Elements(events) :
            proc.since < x.n /\ x.n <= upto /\ DueTo(a, p, x) =>
              x \in Elements(proc.taken) \cup Elements(proc.inbox)

Numbered(events) == \A i \in DOMAIN events : events[i].n = i

(* Only the attempt that is under way has a process. *)
RunningIsLive == \A a \in Agent : Running(a) => agents[a].phase = "live"

EachFollows == \A a \in Agent : Running(a) => Follows(a, agents[a].project, procs[a], sent)

(* Opening a project is what publishes its request, before it launches the *)
(* one agent that gets it as its assignment.                               *)
RequestOpens ==
  /\ \A r \in Poster : posts[r] # NoPost => posts[r].event.text = "other"
  /\ \A x \in Elements(sent) : x.text = "request" => opening[x.project] # "created"
  /\ \A a \in Agent : assigned[a] = "request" =>
       agents[a].phase # "unused" /\ opening[agents[a].project] = "staffed"

RequestIsPast ==
  \A a \in Agent : Running(a) /\ assigned[a] = "request" =>
    \A x \in Elements(sent) :
      x.text = "request" /\ x.project = agents[a].project => x.n <= procs[a].since

ConversationInv ==
  /\ TypeOK /\ Numbered(sent)
  /\ RunningIsLive /\ EachFollows /\ RequestOpens /\ RequestIsPast
-------------------------------------------------------------------------------
(* Lists of messages in the order they were published. *)
LEMMA Listed ==
  ASSUME NEW events \in Seq(Message)
  PROVE  /\ Len(events) \in Nat /\ DOMAIN events = 1..Len(events)
         /\ Elements(events) \subseteq Message
         /\ \A x \in Elements(events) : x.n \in Nat
<1>1. Len(events) \in Nat /\ DOMAIN events = 1..Len(events)
  BY LenProperties
<1>2. \A i \in DOMAIN events : events[i] \in Message
  BY <1>1, ElementOfSeq
<1>3. \A x \in Message : x.n \in Nat
  BY DEF Message
<1>4. QED
  BY <1>1, <1>2, <1>3 DEF Elements

LEMMA NoneListed ==
  /\ <<>> \in Seq(Message) /\ Len(<<>>) = 0 /\ Elements(<<>>) = {} /\ Ordered(<<>>)
BY EmptySeq DEF Elements, Ordered

LEMMA OneMoreListed ==
  ASSUME NEW events \in Seq(Message), NEW event \in Message
  PROVE  /\ Append(events, event) \in Seq(Message)
         /\ Len(Append(events, event)) = Len(events) + 1
         /\ Elements(Append(events, event)) = Elements(events) \cup {event}
         /\ Ordered(events) /\ (\A x \in Elements(events) : x.n < event.n) =>
              Ordered(Append(events, event))
         /\ Numbered(events) /\ event.n = Len(events) + 1 => Numbered(Append(events, event))
<1> DEFINE longer == Append(events, event)
<1>1. /\ longer \in Seq(Message) /\ Len(longer) = Len(events) + 1 /\ Len(events) \in Nat
      /\ DOMAIN events = 1..Len(events) /\ DOMAIN longer = 1..Len(events) + 1
      /\ \A i \in 1..Len(events) : longer[i] = events[i]
      /\ longer[Len(events) + 1] = event
  BY AppendProperties, LenProperties
<1> HIDE DEF longer
<1>2. Elements(longer) = Elements(events) \cup {event}
  <2>1. \A x \in Elements(longer) : x \in Elements(events) \cup {event}
    BY <1>1 DEF Elements
  <2>2. \A x \in Elements(events) : x \in Elements(longer)
    BY <1>1 DEF Elements
  <2>3. Len(events) + 1 \in DOMAIN longer
    BY <1>1
  <2>4. event \in Elements(longer)
    BY <1>1, <2>3 DEF Elements
  <2>5. QED
    BY <2>1, <2>2, <2>4
<1>3. ASSUME Ordered(events), \A x \in Elements(events) : x.n < event.n
      PROVE  Ordered(longer)
  <2>1. \A i \in DOMAIN events : events[i].n < event.n
    BY <1>3 DEF Elements
  <2>2. QED
    BY <1>1, <1>3, <2>1 DEF Ordered
<1>4. Numbered(events) /\ event.n = Len(events) + 1 => Numbered(longer)
  BY <1>1 DEF Numbered
<1>5. QED
  BY <1>1, <1>2, <1>3, <1>4 DEF longer

LEMMA FirstTaken ==
  ASSUME NEW events \in Seq(Message), events # <<>>, Ordered(events)
  PROVE  /\ Tail(events) \in Seq(Message)
         /\ Head(events) \in Elements(events) /\ Head(events) \in Message
         /\ Elements(events) = Elements(Tail(events)) \cup {Head(events)}
         /\ \A x \in Elements(Tail(events)) : Head(events).n < x.n
         /\ Ordered(Tail(events))
<1> DEFINE rest == Tail(events)
<1>1. /\ rest \in Seq(Message) /\ Len(rest) = Len(events) - 1 /\ Len(events) \in Nat
      /\ Len(events) >= 1 /\ Head(events) = events[1]
      /\ DOMAIN events = 1..Len(events) /\ DOMAIN rest = 1..Len(events) - 1
      /\ \A i \in 1..Len(events) - 1 : rest[i] = events[i + 1]
  BY HeadTailProperties, LenProperties, EmptySeq
<1>2. 1 \in DOMAIN events /\ events[1] \in Message /\ events[1] \in Elements(events)
  BY <1>1, ElementOfSeq DEF Elements
<1> HIDE DEF rest
<1>3. \A i \in DOMAIN rest : /\ i + 1 \in DOMAIN events /\ 1 < i + 1
                             /\ rest[i] = events[i + 1]
  BY <1>1
<1>4. Ordered(rest)
  <2>1. ASSUME NEW i \in DOMAIN rest, NEW j \in DOMAIN rest, i < j
        PROVE  rest[i].n < rest[j].n
    <3>1. i \in Int /\ j \in Int /\ i + 1 < j + 1
      BY <1>1, <2>1
    <3>2. QED
      BY <1>3, <3>1 DEF Ordered
  <2>2. QED
    BY <2>1 DEF Ordered
<1>5. ASSUME NEW x \in Elements(rest)
      PROVE  x \in Elements(events) /\ events[1].n < x.n
  BY <1>2, <1>3 DEF Elements, Ordered
<1>6. ASSUME NEW x \in Elements(events), x # events[1]
      PROVE  x \in Elements(rest)
  <2>1. PICK i \in DOMAIN events : events[i] = x
    BY DEF Elements
  <2>2. i - 1 \in DOMAIN rest /\ rest[i - 1] = x
    BY <1>1, <1>6, <2>1
  <2>3. QED
    BY <2>2 DEF Elements
<1>7. Elements(events) = Elements(rest) \cup {events[1]}
  BY <1>2, <1>5, <1>6
<1>8. QED
  BY <1>1, <1>2, <1>4, <1>5, <1>7 DEF rest

(* The first messages of a list: all before the first one that is missing. *)
LEMMA FirstKept ==
  ASSUME NEW events \in Seq(Message), Ordered(events), NEW kept \in 0..Len(events)
  PROVE  /\ SubSeq(events, 1, kept) \in Seq(Message)
         /\ Ordered(SubSeq(events, 1, kept))
         /\ Elements(SubSeq(events, 1, kept)) \subseteq Elements(events)
         /\ \/ SubSeq(events, 1, kept) = events
            \/ \E cut \in Elements(events) :
                 Elements(SubSeq(events, 1, kept)) = {x \in Elements(events) : x.n < cut.n}
<1> DEFINE first == SubSeq(events, 1, kept)
<1>0. Len(events) \in Nat /\ DOMAIN events = 1..Len(events)
  BY LenProperties
<1>1. /\ Len(events) \in Nat /\ DOMAIN events = 1..Len(events)
      /\ kept \in Nat /\ kept <= Len(events)
  BY <1>0
<1>2. \A i \in 1..kept : events[i] \in Message
  BY <1>1, ElementOfSeq
<1>3. /\ first \in Seq(Message) /\ DOMAIN first = 1..kept
      /\ \A i \in 1..kept : first[i] = events[i]
  BY <1>1, <1>2, SubSeqProperties, LenProperties
<1>4. kept = Len(events) => first = events
  BY SubSeqFull
<1> HIDE DEF first
<1>5. Ordered(first) /\ Elements(first) \subseteq Elements(events)
  BY <1>1, <1>3 DEF Ordered, Elements
<1>6. CASE kept < Len(events)
  <2> DEFINE cut == events[kept + 1]
  <2>1. kept + 1 \in DOMAIN events
    <3>1. kept + 1 \in 1..Len(events)
      BY <1>1, <1>6
    <3>2. QED
      BY <1>1, <3>1
  <2>2. cut \in Elements(events)
    BY <2>1 DEF Elements
  <2>3. \A x \in Elements(first) : x.n < cut.n
    BY <1>1, <1>3, <2>1 DEF Elements, Ordered
  <2>4. ASSUME NEW x \in Elements(events), x.n < cut.n
        PROVE  x \in Elements(first)
    <3>1. PICK i \in DOMAIN events : events[i] = x
      BY DEF Elements
    <3>2. events[i].n \in Nat /\ cut.n \in Nat
      BY <2>2, <3>1, Listed
    <3>3. ~(kept + 1 < i) /\ i # kept + 1
      BY <1>1, <2>1, <2>4, <3>1, <3>2 DEF Ordered
    <3>4. i \in 1..kept
      BY <1>1, <3>1, <3>3
    <3>5. QED
      BY <1>3, <3>1, <3>4 DEF Elements
  <2>5. Elements(first) = {x \in Elements(events) : x.n < cut.n}
    BY <1>5, <2>3, <2>4
  <2>6. QED
    BY <1>3, <1>5, <2>2, <2>5 DEF first
<1>7. kept = Len(events) \/ kept < Len(events)
  <2>1. \A k, m \in Nat : k <= m => k = m \/ k < m
    OBVIOUS
  <2>2. QED
    BY <1>1, <2>1, Zenon
<1>8. QED
  BY <1>3, <1>4, <1>5, <1>6, <1>7 DEF first

LEMMA TwoListed ==
  ASSUME NEW events \in Seq(Message), NEW more \in Seq(Message), Ordered(events), Ordered(more),
         \A x \in Elements(events), y \in Elements(more) : x.n < y.n
  PROVE  /\ Ordered(events \o more)
         /\ Elements(events \o more) = Elements(events) \cup Elements(more)
<1> DEFINE both == events \o more
<1>1. /\ both \in Seq(Message) /\ Len(both) = Len(events) + Len(more)
      /\ Len(events) \in Nat /\ Len(more) \in Nat
      /\ DOMAIN events = 1..Len(events) /\ DOMAIN more = 1..Len(more)
      /\ DOMAIN both = 1..Len(events) + Len(more)
      /\ \A i \in 1..Len(events) + Len(more) :
           both[i] = IF i <= Len(events) THEN events[i] ELSE more[i - Len(events)]
  BY ConcatProperties, LenProperties
<1> HIDE DEF both
<1>2. \A i \in DOMAIN both :
        \/ i \in DOMAIN events /\ both[i] = events[i]
        \/ i - Len(events) \in DOMAIN more /\ both[i] = more[i - Len(events)] /\ i > Len(events)
  BY <1>1
<1>3. \A x \in Elements(both) : x \in Elements(events) \cup Elements(more)
  BY <1>2 DEF Elements
<1>4. \A i \in DOMAIN events : i \in DOMAIN both /\ both[i] = events[i]
  BY <1>1
<1>5. \A i \in DOMAIN more : Len(events) + i \in DOMAIN both /\ both[Len(events) + i] = more[i]
  BY <1>1
<1>6. \A x \in Elements(events) \cup Elements(more) : x \in Elements(both)
  BY <1>4, <1>5 DEF Elements
<1>7. \A i \in DOMAIN events, j \in DOMAIN more : events[i].n < more[j].n
  BY DEF Elements
<1>8. ASSUME NEW i \in DOMAIN both, NEW j \in DOMAIN both, i < j
      PROVE  both[i].n < both[j].n
  <2>1. CASE i \in DOMAIN events /\ j \in DOMAIN events
    BY <1>4, <1>8, <2>1 DEF Ordered
  <2>2. CASE i \in DOMAIN events /\ j \notin DOMAIN events
    BY <1>2, <1>4, <1>7, <2>2
  <2>3. CASE i \notin DOMAIN events
    <3>1. j > Len(events) /\ i > Len(events) /\ j \notin DOMAIN events
      BY <1>1, <1>8, <2>3
    <3>2. /\ i - Len(events) \in DOMAIN more /\ both[i] = more[i - Len(events)]
          /\ j - Len(events) \in DOMAIN more /\ both[j] = more[j - Len(events)]
          /\ i - Len(events) < j - Len(events)
      BY <1>1, <1>2, <1>8, <2>3, <3>1
    <3>3. QED
      BY <3>2 DEF Ordered
  <2>4. QED
    BY <2>1, <2>2, <2>3
<1>9. QED
  BY <1>3, <1>6, <1>8 DEF both, Ordered
-------------------------------------------------------------------------------
(* A process that subscribes has everything before it and nothing to do;   *)
(* each later step leaves it following what is published.                  *)
LEMMA SubscriberFollows ==
  ASSUME NEW events \in Seq(Message), NEW a, NEW p, NEW proc,
         proc.line = "up", proc.since = Len(events), proc.inbox = <<>>, proc.taken = <<>>
  PROVE  Follows(a, p, proc, events)
<1>1. Len(events) \in Nat /\ \A x \in Elements(events) : x.n \in Nat
  BY Listed
<1>2. Elements(proc.inbox) = {} /\ Elements(proc.taken) = {} /\ Ordered(proc.inbox) /\ Ordered(proc.taken)
  BY NoneListed
<1>3. Len(events) \in proc.since..Len(events) /\ proc.since \in 0..Len(events)
  BY <1>1
<1>4. \A x \in Elements(events) : ~(proc.since < x.n /\ x.n <= Len(events))
  BY <1>1
<1>5. QED
  BY <1>2, <1>3, <1>4 DEF Follows

LEMMA SameFollows ==
  ASSUME NEW events, NEW a, NEW p, NEW proc, NEW q, Follows(a, p, proc, events),
         q.line = proc.line, q.since = proc.since, q.inbox = proc.inbox, q.taken = proc.taken
  PROVE  Follows(a, p, q, events)
BY DEF Follows

LEMMA TakerFollows ==
  ASSUME NEW events \in Seq(Message), NEW a, NEW p, NEW proc, NEW q, Follows(a, p, proc, events),
         proc.inbox \in Seq(Message), proc.taken \in Seq(Message), proc.inbox # <<>>,
         q.line = proc.line, q.since = proc.since, q.inbox = Tail(proc.inbox),
         \/ DueTo(a, p, Head(proc.inbox)) /\ q.taken = Append(proc.taken, Head(proc.inbox))
         \/ ~DueTo(a, p, Head(proc.inbox)) /\ q.taken = proc.taken
  PROVE  Follows(a, p, q, events)
<1> DEFINE event == Head(proc.inbox)
<1>1. /\ proc.line \in {"up", "cut"} /\ proc.since \in 0..Len(events)
      /\ Ordered(proc.taken) /\ Ordered(proc.inbox)
      /\ \A x \in Elements(proc.taken), y \in Elements(proc.inbox) : x.n < y.n
      /\ Elements(proc.taken) \cup Elements(proc.inbox) \subseteq Elements(events)
      /\ \A x \in Elements(proc.taken) : DueTo(a, p, x)
      /\ \A x \in Elements(proc.inbox) : x.project = p
  BY DEF Follows
<1>2. /\ event \in Elements(proc.inbox) /\ event \in Message
      /\ Elements(proc.inbox) = Elements(q.inbox) \cup {event}
      /\ \A x \in Elements(q.inbox) : event.n < x.n
      /\ Ordered(q.inbox)
  BY <1>1, FirstTaken
<1>3. /\ Elements(q.taken) = Elements(proc.taken) \cup (IF DueTo(a, p, event) THEN {event} ELSE {})
      /\ Ordered(q.taken)
  <2>1. CASE DueTo(a, p, event) /\ q.taken = Append(proc.taken, event)
    BY <1>1, <1>2, <2>1, OneMoreListed
  <2>2. CASE ~DueTo(a, p, event) /\ q.taken = proc.taken
    BY <1>1, <2>2
  <2>3. QED
    BY <2>1, <2>2
<1> HIDE DEF event
<1>4. PICK upto \in proc.since..Len(events) :
        /\ proc.line = "up" => upto = Len(events)
        /\ \A x \in Elements(proc.taken) \cup Elements(proc.inbox) : proc.since < x.n /\ x.n <= upto
        /\ \A x \in Elements(events) :
             proc.since < x.n /\ x.n <= upto /\ DueTo(a, p, x) =>
               x \in Elements(proc.taken) \cup Elements(proc.inbox)
  BY DEF Follows
<1>5. /\ q.line = "up" => upto = Len(events)
      /\ \A x \in Elements(q.taken) \cup Elements(q.inbox) : q.since < x.n /\ x.n <= upto
      /\ \A x \in Elements(events) :
           q.since < x.n /\ x.n <= upto /\ DueTo(a, p, x) =>
             x \in Elements(q.taken) \cup Elements(q.inbox)
  BY <1>2, <1>3, <1>4
<1>6. \A x \in Elements(q.taken), y \in Elements(q.inbox) : x.n < y.n
  BY <1>1, <1>2, <1>3
<1>7. /\ Elements(q.taken) \cup Elements(q.inbox) \subseteq Elements(events)
      /\ \A x \in Elements(q.taken) : DueTo(a, p, x)
      /\ \A x \in Elements(q.inbox) : x.project = p
  BY <1>1, <1>2, <1>3
<1>8. upto \in q.since..Len(events)
  BY <1>4
<1>9. QED
  BY <1>1, <1>2, <1>3, <1>5, <1>6, <1>7, <1>8 DEF Follows

LEMMA HearerFollows ==
  ASSUME NEW events \in Seq(Message), Numbered(events),
         NEW event \in Message, event.n = Len(events) + 1,
         NEW a, NEW p, NEW proc, NEW q, Follows(a, p, proc, events),
         proc.inbox \in Seq(Message), q.line = proc.line, q.since = proc.since, q.taken = proc.taken,
         IF proc.line = "up" /\ event.project = p
         THEN q.inbox = Append(proc.inbox, event) ELSE q.inbox = proc.inbox
  PROVE  Follows(a, p, q, Append(events, event))
<1> DEFINE after == Append(events, event)
<1>1. /\ proc.line \in {"up", "cut"} /\ proc.since \in 0..Len(events)
      /\ Ordered(proc.taken) /\ Ordered(proc.inbox)
      /\ \A x \in Elements(proc.taken), y \in Elements(proc.inbox) : x.n < y.n
      /\ Elements(proc.taken) \cup Elements(proc.inbox) \subseteq Elements(events)
      /\ \A x \in Elements(proc.taken) : DueTo(a, p, x)
      /\ \A x \in Elements(proc.inbox) : x.project = p
  BY DEF Follows
<1>2. PICK upto \in proc.since..Len(events) :
        /\ proc.line = "up" => upto = Len(events)
        /\ \A x \in Elements(proc.taken) \cup Elements(proc.inbox) : proc.since < x.n /\ x.n <= upto
        /\ \A x \in Elements(events) :
             proc.since < x.n /\ x.n <= upto /\ DueTo(a, p, x) =>
               x \in Elements(proc.taken) \cup Elements(proc.inbox)
  BY DEF Follows
<1>3. /\ Len(events) \in Nat /\ Len(after) = Len(events) + 1
      /\ Elements(after) = Elements(events) \cup {event}
      /\ \A x \in Elements(events) : x.n \in Nat
  BY Listed, OneMoreListed
<1>4. \A x \in Elements(proc.taken) \cup Elements(proc.inbox) : x.n < event.n /\ x.n \in Nat
  BY <1>1, <1>2, <1>3
<1>5. Ordered(Append(proc.inbox, event)) /\ Elements(Append(proc.inbox, event)) = Elements(proc.inbox) \cup {event}
  BY <1>1, <1>4, OneMoreListed
<1> HIDE DEF after
<1>6. CASE proc.line = "up"
  <2>1. /\ Elements(q.inbox) = Elements(proc.inbox) \cup (IF event.project = p THEN {event} ELSE {})
        /\ Ordered(q.inbox)
    BY <1>1, <1>5, <1>6
  <2>2. Len(after) \in q.since..Len(after) /\ q.since \in 0..Len(after)
    BY <1>1, <1>3
  <2>3. \A x \in Elements(q.taken) \cup Elements(q.inbox) : q.since < x.n /\ x.n <= Len(after)
    BY <1>1, <1>2, <1>3, <1>6, <2>1
  <2>4. \A x \in Elements(after) :
          q.since < x.n /\ x.n <= Len(after) /\ DueTo(a, p, x) =>
            x \in Elements(q.taken) \cup Elements(q.inbox)
    <3>1. ASSUME NEW x \in Elements(after), q.since < x.n, x.n <= Len(after), DueTo(a, p, x)
          PROVE  x \in Elements(q.taken) \cup Elements(q.inbox)
      <4>1. CASE x = event
        <5>1. event.project = p
          BY <3>1, <4>1 DEF DueTo
        <5>2. QED
          BY <2>1, <4>1, <5>1
      <4>2. CASE x \in Elements(events)
        <5>1. x.n <= Len(events)
          BY <4>2, Listed DEF Elements, Numbered
        <5>2. QED
          BY <1>2, <1>6, <2>1, <3>1, <4>2, <5>1
      <4>3. QED
        BY <1>3, <3>1, <4>1, <4>2
    <3>2. QED
      BY <3>1
  <2>5. \A x \in Elements(q.taken), y \in Elements(q.inbox) : x.n < y.n
    BY <1>1, <1>4, <2>1
  <2>6. /\ Elements(q.taken) \cup Elements(q.inbox) \subseteq Elements(after)
        /\ \A x \in Elements(q.taken) : DueTo(a, p, x)
        /\ \A x \in Elements(q.inbox) : x.project = p
    BY <1>1, <1>3, <2>1
  <2>7. QED
    BY <1>1, <2>1, <2>2, <2>3, <2>4, <2>5, <2>6 DEF Follows, after
<1>7. CASE proc.line # "up"
  <2>1. q.inbox = proc.inbox
    BY <1>7
  <2>2. upto \in q.since..Len(after) /\ q.since \in 0..Len(after) /\ upto < event.n
    BY <1>1, <1>2, <1>3
  <2>3. \A x \in Elements(after) :
          q.since < x.n /\ x.n <= upto /\ DueTo(a, p, x) =>
            x \in Elements(q.taken) \cup Elements(q.inbox)
    BY <1>2, <1>3, <2>1, <2>2
  <2>4. QED
    BY <1>1, <1>2, <1>3, <1>7, <2>1, <2>2, <2>3 DEF Follows, after
<1>8. QED
  BY <1>6, <1>7

LEMMA LoserFollows ==
  ASSUME NEW events \in Seq(Message), NEW a, NEW p, NEW proc, NEW q, Follows(a, p, proc, events),
         proc.inbox \in Seq(Message), NEW kept \in 0..Len(proc.inbox),
         q.line = "cut", q.since = proc.since, q.taken = proc.taken,
         q.inbox = SubSeq(proc.inbox, 1, kept)
  PROVE  Follows(a, p, q, events)
<1>1. /\ proc.line \in {"up", "cut"} /\ proc.since \in 0..Len(events)
      /\ Ordered(proc.taken) /\ Ordered(proc.inbox)
      /\ \A x \in Elements(proc.taken), y \in Elements(proc.inbox) : x.n < y.n
      /\ Elements(proc.taken) \cup Elements(proc.inbox) \subseteq Elements(events)
      /\ \A x \in Elements(proc.taken) : DueTo(a, p, x)
      /\ \A x \in Elements(proc.inbox) : x.project = p
  BY DEF Follows
<1>2. PICK upto \in proc.since..Len(events) :
        /\ proc.line = "up" => upto = Len(events)
        /\ \A x \in Elements(proc.taken) \cup Elements(proc.inbox) : proc.since < x.n /\ x.n <= upto
        /\ \A x \in Elements(events) :
             proc.since < x.n /\ x.n <= upto /\ DueTo(a, p, x) =>
               x \in Elements(proc.taken) \cup Elements(proc.inbox)
  BY DEF Follows
<1>3. /\ Ordered(q.inbox) /\ Elements(q.inbox) \subseteq Elements(proc.inbox)
      /\ \/ q.inbox = proc.inbox
         \/ \E cut \in Elements(proc.inbox) :
              Elements(q.inbox) = {x \in Elements(proc.inbox) : x.n < cut.n}
  BY <1>1, FirstKept
<1>4. Len(events) \in Nat /\ \A x \in Elements(events) : x.n \in Nat
  BY Listed
<1>5. CASE q.inbox = proc.inbox
  BY <1>1, <1>2, <1>5 DEF Follows
<1>6. CASE q.inbox # proc.inbox
  <2>1. PICK cut \in Elements(proc.inbox) :
          Elements(q.inbox) = {x \in Elements(proc.inbox) : x.n < cut.n}
    BY <1>3, <1>6
  <2>2. /\ cut.n \in Nat /\ proc.since < cut.n /\ cut.n <= upto
        /\ cut.n - 1 \in q.since..Len(events)
    BY <1>1, <1>2, <1>4, <2>1
  <2>3. \A x \in Elements(q.taken) \cup Elements(q.inbox) :
          q.since < x.n /\ x.n <= cut.n - 1
    <3>1. ASSUME NEW x \in Elements(q.taken) \cup Elements(q.inbox)
          PROVE  q.since < x.n /\ x.n <= cut.n - 1
      <4>1. x \in Elements(events) /\ x.n < cut.n /\ proc.since < x.n
        BY <1>1, <1>2, <2>1
      <4>2. QED
        BY <1>4, <2>2, <4>1
    <3>2. QED
      BY <3>1
  <2>4. ASSUME NEW x \in Elements(events),
               q.since < x.n, x.n <= cut.n - 1, DueTo(a, p, x)
        PROVE  x \in Elements(q.taken) \cup Elements(q.inbox)
    <3>1. x.n < cut.n /\ x.n <= upto
      BY <1>2, <1>4, <2>2, <2>4
    <3>2. QED
      BY <1>2, <2>1, <2>4, <3>1
  <2>5. \A x \in Elements(q.taken), y \in Elements(q.inbox) : x.n < y.n
    BY <1>1, <1>3
  <2>6. Elements(q.taken) \cup Elements(q.inbox) \subseteq Elements(events)
    BY <1>1, <1>3
  <2>7. QED
    BY <1>1, <1>3, <2>2, <2>3, <2>4, <2>5, <2>6 DEF Follows
<1>7. QED
  BY <1>5, <1>6
-------------------------------------------------------------------------------
LEMMA MessageFields ==
  ASSUME NEW event \in Message, NEW n \in Nat
  PROVE  /\ [event EXCEPT !.n = n] \in Message /\ [event EXCEPT !.n = n].n = n
         /\ [event EXCEPT !.n = n].project = event.project
         /\ [event EXCEPT !.n = n].text = event.text
         /\ event.project \in Project /\ event.kind \in Kind /\ event.text \in Text
BY DEF Message

LEMMA SaysMessage ==
  ASSUME NEW p \in Project, NEW kind \in Kind, NEW source \in Agent \cup {"founder", "control-plane"},
         NEW to \in Agent \cup {Everyone}, NEW text \in Text
  PROVE  /\ Say(p, kind, source, to, text) \in Message
         /\ Say(p, kind, source, to, text).text = text
         /\ Say(p, kind, source, to, text).project = p
BY DEF Say, Message

LEMMA ProcessFields ==
  ASSUME NEW proc \in Process \cup {Down}
  PROVE  /\ proc.inbox \in Seq(Message) /\ proc.taken \in Seq(Message)
         /\ proc.log \in Nat /\ proc.since \in Nat /\ proc.line \in {"none", "up", "cut"}
         /\ proc.at \in {"down", "listening", "turn"}
         /\ proc.at = "down" <=> proc = Down
         /\ proc.at # "down" => proc \in Process
<1>1. CASE proc \in Process
  BY <1>1 DEF Process, Down
<1>2. CASE proc = Down
  BY <1>2, NoneListed DEF Down
<1>3. QED
  BY <1>1, <1>2

(* One more message in the inbox; or some of it lost with the connection. *)
LEMMA InboxOf ==
  ASSUME NEW proc \in Process, NEW inbox \in Seq(Message)
  PROVE  /\ [proc EXCEPT !.inbox = inbox] \in Process
         /\ [proc EXCEPT !.inbox = inbox].inbox = inbox
         /\ [proc EXCEPT !.inbox = inbox].line = proc.line
         /\ [proc EXCEPT !.inbox = inbox].since = proc.since
         /\ [proc EXCEPT !.inbox = inbox].taken = proc.taken
         /\ [proc EXCEPT !.inbox = inbox].at = proc.at
BY DEF Process

LEMMA InboxOfCut ==
  ASSUME NEW proc \in Process, NEW inbox \in Seq(Message)
  PROVE  /\ [proc EXCEPT !.line = "cut", !.inbox = inbox] \in Process
         /\ [proc EXCEPT !.line = "cut", !.inbox = inbox].inbox = inbox
         /\ [proc EXCEPT !.line = "cut", !.inbox = inbox].line = "cut"
         /\ [proc EXCEPT !.line = "cut", !.inbox = inbox].since = proc.since
         /\ [proc EXCEPT !.line = "cut", !.inbox = inbox].taken = proc.taken
         /\ [proc EXCEPT !.line = "cut", !.inbox = inbox].at = proc.at
BY DEF Process

(* The end of a turn leaves what the process follows as it was. *)
Alike(proc, q) ==
  /\ q.line = proc.line /\ q.since = proc.since /\ q.inbox = proc.inbox /\ q.taken = proc.taken
  /\ q.at = "down" <=> proc.at = "down"

LEMMA TurnEnded ==
  ASSUME NEW proc \in Process, NEW log \in Nat
  PROVE  /\ EndTurn(proc) \in Process /\ Alike(proc, EndTurn(proc))
         /\ EndTurn(proc).log = proc.log
         /\ [EndTurn(proc) EXCEPT !.log = log] \in Process
         /\ Alike(proc, [EndTurn(proc) EXCEPT !.log = log])
BY DEF Process, EndTurn, Alike

LEMMA TakenUp ==
  ASSUME NEW proc \in Process, NEW taken \in Seq(Message)
  PROVE  /\ Take(proc) \in Process /\ Take(proc).at = "turn"
         /\ Take(proc).line = proc.line /\ Take(proc).since = proc.since
         /\ Take(proc).inbox = proc.inbox /\ Take(proc).taken = proc.taken
         /\ [Take(proc) EXCEPT !.taken = taken] \in Process
         /\ [Take(proc) EXCEPT !.taken = taken].at = "turn"
         /\ [Take(proc) EXCEPT !.taken = taken].line = proc.line
         /\ [Take(proc) EXCEPT !.taken = taken].since = proc.since
         /\ [Take(proc) EXCEPT !.taken = taken].inbox = proc.inbox
         /\ [Take(proc) EXCEPT !.taken = taken].taken = taken
<1>1. PICK took \in Process :
        /\ took = Take(proc) /\ took.at = "turn"
        /\ took.line = proc.line /\ took.since = proc.since
        /\ took.inbox = proc.inbox /\ took.taken = proc.taken
  <2>1. PICK log \in Nat : log = proc.log + 1
    BY DEF Process
  <2>2. Take(proc) = [proc EXCEPT !.at = "turn", !.log = log]
    BY <2>1 DEF Take
  <2>3. PICK took : took = [proc EXCEPT !.at = "turn", !.log = log]
    OBVIOUS
  <2>4. /\ took \in Process /\ took.at = "turn"
        /\ took.line = proc.line /\ took.since = proc.since
        /\ took.inbox = proc.inbox /\ took.taken = proc.taken
    BY <2>3 DEF Process
  <2>5. QED
    BY <2>2, <2>3, <2>4
<1>2. /\ [took EXCEPT !.taken = taken] \in Process
      /\ [took EXCEPT !.taken = taken].at = took.at
      /\ [took EXCEPT !.taken = taken].line = took.line
      /\ [took EXCEPT !.taken = taken].since = took.since
      /\ [took EXCEPT !.taken = taken].inbox = took.inbox
      /\ [took EXCEPT !.taken = taken].taken = taken
  BY DEF Process
<1>3. QED
  BY <1>1, <1>2

LEMMA SubscribedAt ==
  ASSUME NEW n \in Nat
  PROVE  /\ [Down EXCEPT !.at = "listening", !.line = "up", !.since = n] \in Process
         /\ [Down EXCEPT !.at = "listening", !.line = "up", !.since = n].at = "listening"
         /\ [Down EXCEPT !.at = "listening", !.line = "up", !.since = n].line = "up"
         /\ [Down EXCEPT !.at = "listening", !.line = "up", !.since = n].since = n
         /\ [Down EXCEPT !.at = "listening", !.line = "up", !.since = n].inbox = <<>>
         /\ [Down EXCEPT !.at = "listening", !.line = "up", !.since = n].taken = <<>>
BY NoneListed DEF Down, Process

LEMMA SubscribedAgain ==
  ASSUME NEW proc \in Process, NEW n \in Nat
  PROVE  /\ [proc EXCEPT !.line = "up", !.since = n, !.taken = <<>>] \in Process
         /\ [proc EXCEPT !.line = "up", !.since = n, !.taken = <<>>].at = proc.at
         /\ [proc EXCEPT !.line = "up", !.since = n, !.taken = <<>>].line = "up"
         /\ [proc EXCEPT !.line = "up", !.since = n, !.taken = <<>>].since = n
         /\ [proc EXCEPT !.line = "up", !.since = n, !.taken = <<>>].inbox = proc.inbox
         /\ [proc EXCEPT !.line = "up", !.since = n, !.taken = <<>>].taken = <<>>
BY NoneListed DEF Process
-------------------------------------------------------------------------------
(* What the invariant says of one running process. *)
LEMMA RunningFacts ==
  ASSUME ConversationInv, NEW a \in Agent, Running(a)
  PROVE  /\ procs[a] \in Process /\ agents[a].phase = "live" /\ agents[a] \in AgentRecord
         /\ agents[a].project \in Project
         /\ procs[a].inbox \in Seq(Message) /\ procs[a].taken \in Seq(Message)
         /\ Follows(a, agents[a].project, procs[a], sent)
<1>1. procs[a] \in Process \cup {Down} /\ agents[a] \in AgentRecord \cup {Unused}
  BY DEF ConversationInv, TypeOK, AgentsTypeOK
<1>2. procs[a].at # "down" /\ agents[a].phase = "live"
  BY DEF ConversationInv, Running, RunningIsLive
<1>3. procs[a] \in Process /\ procs[a].inbox \in Seq(Message) /\ procs[a].taken \in Seq(Message)
  BY <1>1, <1>2, ProcessFields
<1>4. agents[a] \in AgentRecord /\ agents[a].project \in Project
  BY <1>1, <1>2 DEF Unused, AgentRecord
<1>5. QED
  BY <1>2, <1>3, <1>4 DEF ConversationInv, EachFollows

LEMMA SentIsListed ==
  ASSUME ConversationInv
  PROVE  /\ sent \in Seq(Message) /\ Numbered(sent) /\ Len(sent) \in Nat
         /\ Elements(sent) \subseteq Message
         /\ \A x \in Elements(sent) : x.n \in 1..Len(sent)
<1>1. sent \in Seq(Message) /\ Numbered(sent)
  BY DEF ConversationInv, TypeOK
<1>2. QED
  BY <1>1, Listed DEF Elements, Numbered

(* A message published: every process that has only ended a turn, or done  *)
(* nothing, still follows, with the message in its inbox if it hears it.   *)
LEMMA PublishKeeps ==
  ASSUME ConversationInv, NEW said \in Message, NEW after \in [Agent -> Process \cup {Down}],
         Publish(said, after), UNCHANGED <<agents, assigned>>,
         \A a \in Agent : Alike(procs[a], after[a]),
         said.text = "request" =>
           \A a \in Agent : assigned[a] = "request" => agents[a].project # said.project
  PROVE  /\ procs' \in [Agent -> Process \cup {Down}]
         /\ sent' \in Seq(Message) /\ Numbered(sent')
         /\ \A x \in Elements(sent') :
              x \in Elements(sent) \/ (x.text = said.text /\ x.project = said.project)
         /\ RunningIsLive' /\ EachFollows' /\ RequestIsPast'
<1>1. /\ sent \in Seq(Message) /\ Numbered(sent) /\ Len(sent) \in Nat
      /\ procs \in [Agent -> Process \cup {Down}]
  BY SentIsListed DEF ConversationInv, TypeOK
<1>2. PICK event : event = [said EXCEPT !.n = Len(sent) + 1]
  OBVIOUS
<1>3. /\ event \in Message /\ event.n = Len(sent) + 1
      /\ event.text = said.text /\ event.project = said.project
  <2>1. Len(sent) + 1 \in Nat
    BY <1>1
  <2>2. QED
    BY <1>2, <2>1, MessageFields
<1>4. /\ sent' = Append(sent, event)
      /\ procs' = [a \in Agent |->
           IF Subscribed(a) /\ agents[a].project = event.project
           THEN [after[a] EXCEPT !.inbox = Append(@, event)] ELSE after[a]]
  BY <1>2 DEF Publish
<1>5. /\ sent' \in Seq(Message) /\ Numbered(sent') /\ Len(sent') = Len(sent) + 1
      /\ Elements(sent') = Elements(sent) \cup {event}
  BY <1>1, <1>3, <1>4, OneMoreListed
<1>6. ASSUME NEW a \in Agent
      PROVE  /\ procs'[a] \in Process \cup {Down}
             /\ Running(a)' => Running(a)
             /\ Running(a)' => /\ Follows(a, agents[a].project, procs'[a], sent')
                              /\ procs'[a].since = procs[a].since
  <2>1. /\ after[a] \in Process \cup {Down} /\ procs[a] \in Process \cup {Down}
        /\ Alike(procs[a], after[a])
    BY <1>1
  <2>2. CASE ~Running(a)
    <3>1. procs[a] = Down /\ after[a] = Down
      BY <2>1, <2>2, ProcessFields DEF Running, Alike
    <3>2. procs'[a] = Down
      BY <1>4, <2>2, <3>1 DEF Subscribed
    <3>3. QED
      BY <3>2 DEF Running, Down
  <2>3. CASE Running(a)
    <3>1. /\ procs[a] \in Process /\ procs[a].at # "down" /\ after[a].at # "down"
          /\ procs[a].inbox \in Seq(Message)
          /\ Follows(a, agents[a].project, procs[a], sent)
      BY <2>1, <2>3, RunningFacts DEF Running, Alike
    <3>2. after[a] \in Process /\ after[a].inbox = procs[a].inbox
      BY <2>1, <3>1, ProcessFields DEF Alike
    <3>3. Append(procs[a].inbox, event) \in Seq(Message)
      BY <1>3, <3>1, OneMoreListed
    <3>4. PICK q \in Process :
            /\ q = procs'[a] /\ q.at = after[a].at
            /\ q.line = after[a].line /\ q.since = after[a].since /\ q.taken = after[a].taken
            /\ IF procs[a].line = "up" /\ event.project = agents[a].project
               THEN q.inbox = Append(procs[a].inbox, event) ELSE q.inbox = procs[a].inbox
      <4>1. CASE procs[a].line = "up" /\ event.project = agents[a].project
        <5>1. procs'[a] = [after[a] EXCEPT !.inbox = Append(procs[a].inbox, event)]
          BY <1>4, <2>3, <3>2, <4>1 DEF Subscribed
        <5>2. PICK inbox \in Seq(Message) : inbox = Append(procs[a].inbox, event)
          BY <3>3
        <5>3. PICK q : q = [after[a] EXCEPT !.inbox = inbox]
          OBVIOUS
        <5>4. /\ q \in Process /\ q.at = after[a].at
              /\ q.line = after[a].line /\ q.since = after[a].since /\ q.taken = after[a].taken
              /\ q.inbox = inbox
          BY <3>2, <5>3, InboxOf
        <5>5. q = procs'[a]
          BY <5>1, <5>2, <5>3
        <5>6. QED
          BY <4>1, <5>2, <5>4, <5>5
      <4>2. CASE ~(procs[a].line = "up" /\ event.project = agents[a].project)
        <5>1. procs'[a] = after[a]
          BY <1>4, <4>2 DEF Subscribed
        <5>2. QED
          BY <3>2, <4>2, <5>1
      <4>3. QED
        BY <4>1, <4>2
    <3>5. q.line = procs[a].line /\ q.since = procs[a].since /\ q.taken = procs[a].taken
      BY <2>1, <3>4 DEF Alike
    <3>6. Follows(a, agents[a].project, q, Append(sent, event))
      BY <1>1, <1>3, <3>1, <3>4, <3>5, HearerFollows
    <3>7. QED
      BY <1>4, <2>3, <3>4, <3>5, <3>6
  <2>4. QED
    BY <2>2, <2>3
<1>7. procs' \in [Agent -> Process \cup {Down}]
  BY <1>4, <1>6
<1>8. RunningIsLive' /\ EachFollows'
  BY <1>6 DEF ConversationInv, RunningIsLive, EachFollows
<1>9. RequestIsPast'
  <2>1. ASSUME NEW a \in Agent, Running(a)', assigned[a] = "request",
               NEW x \in Elements(sent'), x.text = "request", x.project = agents[a].project
        PROVE  x.n <= procs'[a].since
    <3>1. x # event
      BY <1>3, <2>1
    <3>2. QED
      BY <1>5, <1>6, <2>1, <3>1 DEF ConversationInv, RequestIsPast
  <2>2. QED
    BY <2>1 DEF RequestIsPast
<1>10. QED
  BY <1>3, <1>5, <1>6, <1>7, <1>8, <1>9

(* A step of one process by itself. *)
LEMMA ProcessMoves ==
  ASSUME ConversationInv, NEW a \in Agent, NEW q \in Process, agents[a].phase = "live",
         procs' = [procs EXCEPT ![a] = q], losses' \in 0..MaxLosses,
         UNCHANGED <<agents, opening, assigned, posts, sent>>,
         Follows(a, agents[a].project, q, sent),
         q.since = Len(sent) \/ (Running(a) /\ q.since = procs[a].since)
  PROVE  ConversationInv'
<1>1. procs \in [Agent -> Process \cup {Down}] /\ procs'[a] = q
  BY DEF ConversationInv, TypeOK
<1>2. /\ procs' \in [Agent -> Process \cup {Down}]
      /\ \A b \in Agent : b # a => procs'[b] = procs[b]
  BY <1>1
<1>3. TypeOK'
  BY <1>2 DEF ConversationInv, TypeOK, AgentsTypeOK
<1>4. RunningIsLive' /\ EachFollows'
  BY <1>1, <1>2 DEF ConversationInv, RunningIsLive, EachFollows, Running
<1>5. RequestOpens' /\ Numbered(sent)'
  BY DEF ConversationInv, RequestOpens, Numbered
<1>6. RequestIsPast'
  <2>1. ASSUME NEW b \in Agent, Running(b)', assigned[b] = "request",
               NEW x \in Elements(sent), x.text = "request", x.project = agents[b].project
        PROVE  x.n <= procs'[b].since
    <3>1. CASE b # a
      BY <1>2, <2>1, <3>1 DEF ConversationInv, RequestIsPast, Running
    <3>2. CASE b = a /\ q.since = Len(sent)
      BY <1>1, <2>1, <3>2, SentIsListed
    <3>3. CASE b = a /\ Running(a) /\ q.since = procs[a].since
      BY <1>1, <2>1, <3>3 DEF ConversationInv, RequestIsPast
    <3>4. QED
      BY <3>1, <3>2, <3>3
  <2>2. QED
    BY <2>1 DEF RequestIsPast
<1>7. QED
  BY <1>3, <1>4, <1>5, <1>6 DEF ConversationInv
-------------------------------------------------------------------------------
LEMMA SubscribeKeeps == ASSUME NEW a \in Agent, ConversationInv, Subscribe(a) PROVE ConversationInv'
<1>1. /\ agents[a].phase = "live" /\ procs[a] = Down
      /\ UNCHANGED <<agents, opening, assigned, posts, sent, losses>>
  BY DEF Subscribe, Live, Alone
<1>2. /\ sent \in Seq(Message) /\ Len(sent) \in Nat /\ losses' \in 0..MaxLosses
      /\ agents[a] \in AgentRecord \cup {Unused} /\ assigned[a] \in Text \cup {"nothing"}
  BY <1>1, SentIsListed DEF ConversationInv, TypeOK, AgentsTypeOK
<1>3. PICK proc : proc = [Down EXCEPT !.at = "listening", !.line = "up", !.since = Len(sent)]
  OBVIOUS
<1>4. /\ proc \in Process /\ proc.at = "listening"
      /\ proc.line = "up" /\ proc.since = Len(sent) /\ proc.inbox = <<>> /\ proc.taken = <<>>
  BY <1>2, <1>3, SubscribedAt
<1>5. PICK q \in Process :
        /\ procs' = [procs EXCEPT ![a] = q]
        /\ q.line = "up" /\ q.since = Len(sent) /\ q.inbox = <<>> /\ q.taken = <<>>
  <2>1. procs' = [procs EXCEPT ![a] = IF assigned[a] # "nothing" THEN Take(proc) ELSE proc]
    BY <1>1, <1>3 DEF Subscribe, Set
  <2>2. CASE assigned[a] # "nothing"
    <3>1. PICK q : q = Take(proc)
      OBVIOUS
    <3>2. /\ q \in Process /\ q.at = "turn" /\ q.line = "up" /\ q.since = Len(sent)
          /\ q.inbox = <<>> /\ q.taken = <<>>
      BY <1>4, <2>2, <3>1, NoneListed, TakenUp
    <3>3. procs' = [procs EXCEPT ![a] = q]
      BY <2>1, <2>2, <3>1
    <3>4. QED
      BY <3>2, <3>3
  <2>3. CASE assigned[a] = "nothing"
    BY <1>4, <2>1, <2>3
  <2>4. QED
    BY <2>2, <2>3
<1>6. PICK p : p = agents[a].project
  OBVIOUS
<1>7. Follows(a, p, q, sent)
  BY <1>2, <1>5, SubscriberFollows
<1>8. QED
  BY <1>1, <1>2, <1>5, <1>6, <1>7, ProcessMoves

LEMMA GetMessageKeeps == ASSUME NEW a \in Agent, ConversationInv, GetMessage(a) PROVE ConversationInv'
<1>1. /\ procs[a].at = "listening" /\ procs[a].inbox # <<>>
      /\ UNCHANGED <<agents, opening, assigned, posts, sent, losses>>
  BY DEF GetMessage, Alone
<1>2. Running(a)
  BY <1>1 DEF Running
<1>3. PICK mine, p, event : mine = procs[a] /\ p = agents[a].project /\ event = Head(procs[a].inbox)
  OBVIOUS
<1>4. /\ mine \in Process /\ agents[a].phase = "live"
      /\ mine.inbox \in Seq(Message) /\ mine.taken \in Seq(Message)
      /\ Follows(a, p, mine, sent)
      /\ mine.at = "listening" /\ mine.inbox # <<>>
  BY <1>1, <1>2, <1>3, RunningFacts DEF ConversationInv, TypeOK
<1>5. /\ sent \in Seq(Message) /\ losses' \in 0..MaxLosses
  BY <1>1 DEF ConversationInv, TypeOK
<1>6. /\ Tail(mine.inbox) \in Seq(Message) /\ event \in Elements(mine.inbox) /\ event \in Message
  BY <1>3, <1>4, FirstTaken DEF Follows
<1>7. DueTo(a, p, event) <=> IsFor(event, a) /\ event.kind \in ACTIONABLE_KINDS
  <2>1. event.project = p
    BY <1>4, <1>6 DEF Follows
  <2>2. event.kind \in Kind
    BY <1>6, MessageFields
  <2>3. QED
    BY <2>1, <2>2 DEF DueTo, IsFor, ACTIONABLE_KINDS, Kind
<1>8. PICK proc : proc = [mine EXCEPT !.inbox = Tail(mine.inbox)]
  OBVIOUS
<1>9. /\ proc \in Process /\ proc.inbox = Tail(mine.inbox) /\ proc.line = mine.line
      /\ proc.since = mine.since /\ proc.taken = mine.taken
      /\ proc.at = "listening"
  BY <1>4, <1>6, <1>8, InboxOf
<1>10. procs' = [procs EXCEPT ![a] =
         IF IsFor(event, a) /\ event.kind \in ACTIONABLE_KINDS
         THEN [Take(proc) EXCEPT !.taken = Append(@, event)] ELSE proc]
  BY <1>3, <1>8 DEF GetMessage, Set
<1>11. PICK q \in Process :
         /\ procs' = [procs EXCEPT ![a] = q]
         /\ q.line = mine.line /\ q.since = mine.since /\ q.inbox = Tail(mine.inbox)
         /\ \/ DueTo(a, p, event) /\ q.taken = Append(mine.taken, event)
            \/ ~DueTo(a, p, event) /\ q.taken = mine.taken
  <2>1. CASE DueTo(a, p, event)
    <3>1. PICK taken \in Seq(Message) : taken = Append(mine.taken, event)
      BY <1>4, <1>6, OneMoreListed
    <3>2. PICK q : q = [Take(proc) EXCEPT !.taken = taken]
      OBVIOUS
    <3>3. /\ q \in Process /\ q.at = "turn" /\ q.line = mine.line /\ q.since = mine.since
          /\ q.inbox = Tail(mine.inbox) /\ q.taken = taken
      BY <1>6, <1>9, <3>2, TakenUp
    <3>4. Take(proc).taken = mine.taken
      BY <1>4, <1>6, <1>9, TakenUp
    <3>5. procs' = [procs EXCEPT ![a] = q]
      BY <1>7, <1>10, <2>1, <3>1, <3>2, <3>4
    <3>6. QED
      BY <2>1, <3>1, <3>3, <3>5
  <2>2. CASE ~DueTo(a, p, event)
    BY <1>7, <1>9, <1>10, <2>2
  <2>3. QED
    BY <2>1, <2>2
<1>12. Follows(a, p, q, sent)
  BY <1>3, <1>4, <1>5, <1>11, TakerFollows
<1>13. QED
  BY <1>1, <1>2, <1>3, <1>4, <1>5, <1>11, <1>12, ProcessMoves

(* The end of a turn that publishes something, whatever it is. *)
LEMMA LastWordKeeps ==
  ASSUME NEW a \in Agent, ConversationInv, procs[a].at = "turn",
         NEW q \in Process, Alike(procs[a], q), NEW kind \in Kind,
         Publish(Say(agents[a].project, kind, a, Everyone, "other"), [procs EXCEPT ![a] = q]), Alone
  PROVE  ConversationInv'
<1>1. UNCHANGED <<agents, opening, assigned, posts, losses>>
  BY DEF Alone
<1>2. Running(a) /\ procs \in [Agent -> Process \cup {Down}]
  BY DEF Running, ConversationInv, TypeOK
<1>3. PICK said, after : /\ said = Say(agents[a].project, kind, a, Everyone, "other")
                         /\ after = [procs EXCEPT ![a] = q]
  OBVIOUS
<1>4. said \in Message /\ said.text = "other"
  BY <1>2, <1>3, RunningFacts, SaysMessage DEF Text
<1>5. after \in [Agent -> Process \cup {Down}] /\ Publish(said, after)
  BY <1>2, <1>3
<1>6. \A b \in Agent : Alike(procs[b], after[b])
  BY <1>2, <1>3 DEF ConversationInv, TypeOK, Alike
<1>7. /\ procs' \in [Agent -> Process \cup {Down}]
      /\ sent' \in Seq(Message) /\ Numbered(sent')
      /\ \A x \in Elements(sent') :
           x \in Elements(sent) \/ (x.text = said.text /\ x.project = said.project)
      /\ RunningIsLive' /\ EachFollows' /\ RequestIsPast'
  BY <1>1, <1>4, <1>5, <1>6, PublishKeeps
<1>8. TypeOK'
  BY <1>1, <1>7 DEF ConversationInv, TypeOK, AgentsTypeOK
<1>9. RequestOpens'
  BY <1>1, <1>4, <1>7 DEF ConversationInv, RequestOpens
<1>10. QED
  BY <1>7, <1>8, <1>9 DEF ConversationInv

LEMMA EndsTurnKeeps == ASSUME NEW a \in Agent, ConversationInv, EndsTurn(a) PROVE ConversationInv'
<1>1. procs[a].at = "turn" /\ Alone
  BY DEF EndsTurn, TurnReplies, TurnIsSilent, TurnFails
<1>2. Running(a)
  BY <1>1 DEF Running
<1>3. PICK mine, p : mine = procs[a] /\ p = agents[a].project
  OBVIOUS
<1>4. /\ mine \in Process /\ agents[a].phase = "live" /\ mine.log \in Nat
      /\ Follows(a, p, mine, sent)
  BY <1>2, <1>3, RunningFacts, ProcessFields
<1>5. /\ Trimmed(mine.log + 1) \in Nat /\ Trimmed(mine.log) \in Nat
  BY <1>4, ConversationAssumption DEF Trimmed
<1>6. EndTurn(mine).log = mine.log
  BY <1>4, TurnEnded
<1>7. CASE TurnReplies(a)
  <2>1. PICK q : q = [EndTurn(mine) EXCEPT !.log = Trimmed(mine.log + 1)]
    OBVIOUS
  <2>2. q \in Process /\ Alike(mine, q)
    BY <1>4, <1>5, <2>1, TurnEnded
  <2>3. Publish(Say(agents[a].project, "agent_message", a, Everyone, "other"), [procs EXCEPT ![a] = q])
    BY <1>3, <1>6, <1>7, <2>1 DEF TurnReplies
  <2>4. QED
    BY <1>1, <1>3, <2>2, <2>3, LastWordKeeps DEF Kind
<1>8. CASE TurnFails(a)
  <2>1. PICK q : q = EndTurn(mine)
    OBVIOUS
  <2>2. q \in Process /\ Alike(mine, q)
    BY <1>4, <2>1, TurnEnded
  <2>3. Publish(Say(agents[a].project, "error", a, Everyone, "other"), [procs EXCEPT ![a] = q])
    BY <1>3, <1>8, <2>1 DEF TurnFails
  <2>4. QED
    BY <1>1, <1>3, <2>2, <2>3, LastWordKeeps DEF Kind
<1>9. CASE TurnIsSilent(a)
  <2>1. PICK q : q = [EndTurn(mine) EXCEPT !.log = Trimmed(mine.log)]
    OBVIOUS
  <2>2. q \in Process /\ Alike(mine, q)
    BY <1>4, <1>5, <2>1, TurnEnded
  <2>3. /\ procs' = [procs EXCEPT ![a] = q] /\ losses' \in 0..MaxLosses
        /\ UNCHANGED <<agents, opening, assigned, posts, sent>>
    BY <1>3, <1>6, <1>9, <2>1 DEF TurnIsSilent, Set, Alone, ConversationInv, TypeOK
  <2>4. Follows(a, p, q, sent)
    BY <1>4, <2>2, SameFollows DEF Alike
  <2>5. q.since = procs[a].since
    BY <1>3, <2>2 DEF Alike
  <2>6. QED
    BY <1>2, <1>3, <1>4, <2>2, <2>3, <2>4, <2>5, ProcessMoves
<1>10. QED
  BY <1>7, <1>8, <1>9 DEF EndsTurn

LEMMA LoseLineKeeps == ASSUME NEW a \in Agent, ConversationInv, LoseLine(a) PROVE ConversationInv'
<1>1. /\ Running(a) /\ losses' \in 0..MaxLosses
      /\ UNCHANGED <<agents, opening, assigned, posts, sent>>
  BY ConversationAssumption DEF LoseLine, Subscribed, ConversationInv, TypeOK
<1>2. PICK mine, p : mine = procs[a] /\ p = agents[a].project
  OBVIOUS
<1>3. /\ mine \in Process /\ agents[a].phase = "live" /\ mine.inbox \in Seq(Message)
      /\ Follows(a, p, mine, sent)
      /\ sent \in Seq(Message)
  BY <1>1, <1>2, RunningFacts DEF ConversationInv, TypeOK
<1>4. PICK kept \in 0..Len(mine.inbox) :
        procs' = [procs EXCEPT ![a] = [mine EXCEPT !.line = "cut", !.inbox = SubSeq(mine.inbox, 1, kept)]]
  BY <1>2 DEF LoseLine, Set
<1>5. PICK inbox \in Seq(Message) : inbox = SubSeq(mine.inbox, 1, kept)
  BY <1>3, FirstKept DEF Follows
<1>6. PICK q : q = [mine EXCEPT !.line = "cut", !.inbox = inbox]
  OBVIOUS
<1>7. /\ q \in Process /\ q.line = "cut" /\ q.since = mine.since /\ q.taken = mine.taken
      /\ q.inbox = inbox
  BY <1>3, <1>6, InboxOfCut
<1>8. Follows(a, p, q, sent)
  BY <1>3, <1>5, <1>7, LoserFollows
<1>9. procs' = [procs EXCEPT ![a] = q]
  BY <1>4, <1>5, <1>6
<1>10. QED
  BY <1>1, <1>2, <1>3, <1>7, <1>8, <1>9, ProcessMoves

LEMMA ResubscribeKeeps == ASSUME NEW a \in Agent, ConversationInv, Resubscribe(a) PROVE ConversationInv'
<1>1. /\ procs[a].at = "listening" /\ Running(a) /\ procs[a].inbox = <<>>
      /\ losses' \in 0..MaxLosses /\ UNCHANGED <<agents, opening, assigned, posts, sent>>
  BY DEF Resubscribe, Running, Alone, ConversationInv, TypeOK
<1>2. PICK mine, p : mine = procs[a] /\ p = agents[a].project
  OBVIOUS
<1>3. /\ mine \in Process /\ agents[a].phase = "live"
      /\ sent \in Seq(Message) /\ Len(sent) \in Nat
  BY <1>1, <1>2, RunningFacts, SentIsListed DEF ConversationInv, TypeOK
<1>4. PICK n \in Nat : n = Len(sent)
  BY <1>3
<1>5. PICK q : q = [mine EXCEPT !.line = "up", !.since = n, !.taken = <<>>]
  OBVIOUS
<1>6. /\ q \in Process /\ q.line = "up" /\ q.since = Len(sent)
      /\ q.inbox = <<>> /\ q.taken = <<>>
  <2>1. mine \in Process /\ mine.inbox = <<>>
    BY <1>1, <1>2, <1>3
  <2>2. /\ q \in Process /\ q.inbox = mine.inbox
        /\ q.line = "up" /\ q.since = n /\ q.taken = <<>>
    BY <2>1, <1>5, SubscribedAgain
  <2>3. QED
    BY <1>4, <2>1, <2>2
<1>7. procs' = [procs EXCEPT ![a] = q]
  BY <1>2, <1>4, <1>5 DEF Resubscribe, Set
<1>8. Follows(a, p, q, sent)
  BY <1>3, <1>6, SubscriberFollows
<1>9. QED
  BY <1>1, <1>2, <1>3, <1>6, <1>7, <1>8, ProcessMoves

LEMMA ProcessStepKeeps == ASSUME NEW a \in Agent, ConversationInv, ProcessStep(a) PROVE ConversationInv'
BY SubscribeKeeps, GetMessageKeeps, EndsTurnKeeps, LoseLineKeeps, ResubscribeKeeps DEF ProcessStep

(* The attempt ends, or the next one begins: there is no process. *)
LEMMA ClusterMovesKeeps == ASSUME NEW a \in Agent, ConversationInv, ClusterMoves(a) PROVE ConversationInv'
<1>1. PICK phase \in Phase \ {"unused"} :
        agents' = [agents EXCEPT ![a].phase = phase] /\ agents[a].phase # "unused"
  BY DEF ClusterMoves, BecomeLive, LoseLive, End, SetPhase, Phase
<1>2. /\ procs' = [procs EXCEPT ![a] = Down] /\ losses' \in 0..MaxLosses
      /\ UNCHANGED <<opening, assigned, posts, sent>>
  BY ConversationAssumption DEF ClusterMoves, Set, ConversationInv, TypeOK
<1>3. /\ agents \in [Agent -> AgentRecord \cup {Unused}] /\ procs \in [Agent -> Process \cup {Down}]
  BY DEF ConversationInv, TypeOK, AgentsTypeOK
<1>4. AgentsTypeOK'
  BY <1>1, <1>3 DEF AgentsTypeOK, AgentRecord, Unused
<1>5. /\ \A b \in Agent : b # a => agents'[b] = agents[b] /\ procs'[b] = procs[b]
      /\ agents'[a].phase # "unused" /\ agents'[a].project = agents[a].project
      /\ procs'[a] = Down /\ ~Running(a)'
  BY <1>1, <1>2, <1>3 DEF AgentRecord, Unused, Running, Down
<1>6. /\ procs' \in [Agent -> Process \cup {Down}]
  BY <1>2, <1>3, <1>5 DEF Down
<1>7. TypeOK'
  BY <1>2, <1>4, <1>6 DEF ConversationInv, TypeOK
<1>8. RunningIsLive' /\ EachFollows' /\ RequestIsPast'
  BY <1>2, <1>5 DEF ConversationInv, RunningIsLive, EachFollows, RequestIsPast, Running
<1>9. RequestOpens' /\ Numbered(sent)'
  BY <1>2, <1>5 DEF ConversationInv, RequestOpens, Numbered
<1>10. QED
  BY <1>7, <1>8, <1>9 DEF ConversationInv
-------------------------------------------------------------------------------
(* An agent launched, with what it is to do first: with the request, only  *)
(* by open_project, which has published it before.                         *)
LEMMA LaunchKeeps ==
  ASSUME ConversationInv, NEW a \in Agent, NEW role \in Role, NEW p \in Project,
         NEW assignment \in Text \cup {"nothing"}, LaunchWith(a, role, p, assignment),
         opening' = opening \/ opening' = [opening EXCEPT ![p] = "staffed"],
         assignment = "request" => opening' = [opening EXCEPT ![p] = "staffed"],
         UNCHANGED <<procs, posts, sent, losses>>
  PROVE  ConversationInv'
<1>1. /\ agents[a].phase = "unused"
      /\ agents' = [agents EXCEPT ![a] =
           [phase |-> IF CountedAtLaunch THEN "live" ELSE "idle", role |-> role, project |-> p]]
      /\ assigned' = [assigned EXCEPT ![a] = assignment]
  BY DEF LaunchWith, Launch
<1>2. /\ agents \in [Agent -> AgentRecord \cup {Unused}] /\ assigned \in [Agent -> Text \cup {"nothing"}]
      /\ opening \in [Project -> {"created", "published", "staffed"}]
  BY DEF ConversationInv, TypeOK, AgentsTypeOK
<1>3. /\ agents'[a] \in AgentRecord /\ agents'[a].phase # "unused" /\ agents'[a].project = p
      /\ assigned'[a] = assignment
      /\ \A b \in Agent : b # a => agents'[b] = agents[b] /\ assigned'[b] = assigned[b]
  BY <1>1, <1>2 DEF AgentRecord, Phase
<1>4. /\ AgentsTypeOK' /\ assigned' \in [Agent -> Text \cup {"nothing"}]
      /\ opening' \in [Project -> {"created", "published", "staffed"}]
  BY <1>1, <1>2, <1>3 DEF AgentsTypeOK
<1>5. TypeOK'
  BY <1>4 DEF ConversationInv, TypeOK
<1>6. ~Running(a)
  BY <1>1 DEF ConversationInv, RunningIsLive
<1>7. RunningIsLive' /\ EachFollows' /\ RequestIsPast'
  BY <1>3, <1>6 DEF ConversationInv, RunningIsLive, EachFollows, RequestIsPast, Running
<1>8. \A x \in Project : opening[x] # "created" => opening'[x] # "created"
  BY <1>2
<1>9. \A x \in Project : opening[x] = "staffed" => opening'[x] = "staffed"
  BY <1>2
<1>10. RequestOpens'
  <2>1. \A x \in Elements(sent) : x.text = "request" => opening'[x.project] # "created"
    BY <1>8, SentIsListed, MessageFields DEF ConversationInv, RequestOpens
  <2>2. ASSUME NEW b \in Agent, assigned'[b] = "request"
        PROVE  agents'[b].phase # "unused" /\ opening'[agents'[b].project] = "staffed"
    <3>1. CASE b = a
      BY <1>2, <1>3, <2>2, <3>1
    <3>2. CASE b # a
      <4>1. agents[b].phase # "unused" /\ opening[agents[b].project] = "staffed"
        BY <1>3, <2>2, <3>2 DEF ConversationInv, RequestOpens
      <4>2. agents[b].project \in Project
        BY <1>2, <4>1 DEF Unused, AgentRecord
      <4>3. QED
        BY <1>3, <1>9, <3>2, <4>1, <4>2
    <3>3. QED
      BY <3>1, <3>2
  <2>3. QED
    BY <2>1, <2>2 DEF ConversationInv, RequestOpens
<1>11. QED
  BY <1>5, <1>7, <1>10 DEF ConversationInv, Numbered

LEMMA OpenProjectKeeps == ASSUME NEW p \in Project, ConversationInv, OpenProject(p) PROVE ConversationInv'
<1>1. CASE /\ opening[p] = "created"
           /\ Publish(Say(p, "founder_message", "founder", Everyone, "request"), procs)
           /\ opening' = [opening EXCEPT ![p] = "published"]
           /\ UNCHANGED <<agents, assigned, posts, losses>>
  <2>1. PICK said, after : /\ said = Say(p, "founder_message", "founder", Everyone, "request")
                           /\ after = procs
    OBVIOUS
  <2>2. said \in Message /\ said.text = "request" /\ said.project = p /\ Publish(said, after)
    BY <1>1, <2>1, SaysMessage DEF Text, Kind
  <2>3. /\ after \in [Agent -> Process \cup {Down}] /\ \A b \in Agent : Alike(procs[b], after[b])
        /\ opening \in [Project -> {"created", "published", "staffed"}]
        /\ agents \in [Agent -> AgentRecord \cup {Unused}]
    BY <2>1 DEF ConversationInv, TypeOK, AgentsTypeOK, Alike
  <2>4. \A b \in Agent : assigned[b] = "request" => agents[b].project # p
    BY <1>1 DEF ConversationInv, RequestOpens
  <2>5. /\ procs' \in [Agent -> Process \cup {Down}]
        /\ sent' \in Seq(Message) /\ Numbered(sent')
        /\ \A x \in Elements(sent') :
             x \in Elements(sent) \/ (x.text = said.text /\ x.project = said.project)
        /\ RunningIsLive' /\ EachFollows' /\ RequestIsPast'
    BY <1>1, <2>2, <2>3, <2>4, PublishKeeps
  <2>6. TypeOK'
    BY <1>1, <2>3, <2>5 DEF ConversationInv, TypeOK, AgentsTypeOK
  <2>7. \A x \in Elements(sent') : x.text = "request" => opening'[x.project] # "created"
    <3>1. ASSUME NEW x \in Elements(sent'), x.text = "request"
          PROVE  opening'[x.project] # "created"
      <4>1. CASE x.project = p
        BY <1>1, <2>3, <4>1
      <4>2. CASE x \in Elements(sent) /\ x.project # p
        BY <1>1, <2>3, <3>1, <4>2 DEF ConversationInv, RequestOpens
      <4>3. QED
        BY <2>2, <2>5, <4>1, <4>2
    <3>2. QED
      BY <3>1
  <2>8. \A b \in Agent : assigned[b] = "request" => opening'[agents[b].project] = "staffed"
    BY <1>1, <2>3, <2>4 DEF ConversationInv, RequestOpens
  <2>9. RequestOpens'
    BY <1>1, <2>7, <2>8 DEF ConversationInv, RequestOpens
  <2>10. QED
    BY <2>5, <2>6, <2>9 DEF ConversationInv
<1>2. CASE /\ opening[p] = "published"
           /\ \E a \in Agent : LaunchWith(a, FirstRole, p, "request")
           /\ opening' = [opening EXCEPT ![p] = "staffed"]
           /\ UNCHANGED <<procs, posts, sent, losses>>
  BY <1>2, LaunchKeeps, RoleAssumption DEF Text
<1>3. QED
  BY <1>1, <1>2 DEF OpenProject

LEMMA SpawnKeeps ==
  ASSUME NEW a \in Agent, NEW role \in Role, NEW p \in Project, NEW assignment \in Assignments,
         ConversationInv, Spawn(a, role, p, assignment)
  PROVE  ConversationInv'
<1>1. assignment \in Text \cup {"nothing"} /\ assignment # "request"
  BY ConversationAssumption DEF Text
<1>2. QED
  BY <1>1, LaunchKeeps DEF Spawn

(* A call that has made up its event, still to be published. *)
LEMMA PostKeeps ==
  ASSUME ConversationInv, NEW r \in Poster, NEW event \in Message, event.text = "other",
         Post(r, event), UNCHANGED <<agents, opening, assigned, procs, sent, losses>>
  PROVE  ConversationInv'
<1>1. posts \in [Poster -> [at : {"publish"}, event : Message] \cup {NoPost}]
  BY DEF ConversationInv, TypeOK
<1>2. posts' = [posts EXCEPT ![r] = [at |-> "publish", event |-> event]]
  BY DEF Post
<1>3. TypeOK'
  <2>1. posts' \in [Poster -> [at : {"publish"}, event : Message] \cup {NoPost}]
    BY <1>1, <1>2
  <2>2. QED
    BY <2>1 DEF ConversationInv, TypeOK, AgentsTypeOK
<1>4. RequestOpens'
  <2>1. \A q \in Poster : posts'[q] # NoPost => posts'[q].event.text = "other"
    BY <1>1, <1>2 DEF ConversationInv, RequestOpens
  <2>2. QED
    BY <2>1 DEF ConversationInv, RequestOpens
<1>5. RunningIsLive' /\ EachFollows' /\ RequestIsPast' /\ Numbered(sent)'
  BY DEF ConversationInv, RunningIsLive, EachFollows, RequestIsPast, Running, Numbered
<1>6. QED
  BY <1>3, <1>4, <1>5 DEF ConversationInv

LEMMA FounderSaysKeeps ==
  ASSUME NEW r \in Poster, NEW p \in Project, ConversationInv, FounderSays(r, p)
  PROVE  ConversationInv'
<1>1. PICK to \in IF Addresses(FirstRole, p) = {} THEN {Everyone} ELSE Addresses(FirstRole, p) :
        Post(r, Say(p, "founder_message", "founder", to, "other"))
  BY DEF FounderSays
<1>2. to \in Agent \cup {Everyone}
  BY DEF Addresses, LiveOn, LiveOf, Live
<1>3. PICK event : event = Say(p, "founder_message", "founder", to, "other")
  OBVIOUS
<1>4. event \in Message /\ event.text = "other"
  BY <1>2, <1>3, SaysMessage DEF Kind, Text
<1>5. QED
  BY <1>1, <1>3, <1>4, PostKeeps DEF FounderSays

LEMMA DeliverKeeps ==
  ASSUME NEW r \in Poster, NEW sender \in Agent, NEW role \in Role,
         ConversationInv, Deliver(r, sender, role)
  PROVE  ConversationInv'
<1>1. PICK to \in Addresses(role, agents[sender].project) :
        Post(r, Say(agents[sender].project, "assignment", sender, to, "other"))
  BY DEF Deliver
<1>2. to \in Agent /\ Running(sender)
  BY DEF Deliver, Addresses, LiveOn, LiveOf, Live, Running
<1>3. agents[sender].project \in Project
  BY <1>2, RunningFacts
<1>4. PICK event : event = Say(agents[sender].project, "assignment", sender, to, "other")
  OBVIOUS
<1>5. event \in Message /\ event.text = "other"
  BY <1>2, <1>3, <1>4, SaysMessage DEF Kind, Text
<1>6. QED
  BY <1>1, <1>4, <1>5, PostKeeps DEF Deliver

LEMMA PublishPostKeeps == ASSUME NEW r \in Poster, ConversationInv, PublishPost(r) PROVE ConversationInv'
<1>1. /\ posts[r] # NoPost /\ posts' = [posts EXCEPT ![r] = NoPost]
      /\ UNCHANGED <<agents, opening, assigned, losses>>
      /\ posts \in [Poster -> [at : {"publish"}, event : Message] \cup {NoPost}]
  BY DEF PublishPost, ConversationInv, TypeOK
<1>2. PICK said, after : said = posts[r].event /\ after = procs
  OBVIOUS
<1>3. said \in Message /\ said.text = "other" /\ Publish(said, after)
  BY <1>1, <1>2 DEF PublishPost, ConversationInv, RequestOpens
<1>4. after \in [Agent -> Process \cup {Down}] /\ \A b \in Agent : Alike(procs[b], after[b])
  BY <1>2 DEF ConversationInv, TypeOK, Alike
<1>5. /\ procs' \in [Agent -> Process \cup {Down}]
      /\ sent' \in Seq(Message) /\ Numbered(sent')
      /\ \A x \in Elements(sent') :
           x \in Elements(sent) \/ (x.text = said.text /\ x.project = said.project)
      /\ RunningIsLive' /\ EachFollows' /\ RequestIsPast'
  BY <1>1, <1>3, <1>4, PublishKeeps
<1>6. TypeOK'
  <2>1. posts' \in [Poster -> [at : {"publish"}, event : Message] \cup {NoPost}]
    BY <1>1
  <2>2. QED
    BY <1>1, <1>5, <2>1 DEF ConversationInv, TypeOK, AgentsTypeOK
<1>7. RequestOpens'
  BY <1>1, <1>3, <1>5 DEF ConversationInv, RequestOpens
<1>8. QED
  BY <1>5, <1>6, <1>7 DEF ConversationInv

LEMMA ControlPlaneKeeps == ConversationInv /\ ControlPlane => ConversationInv'
BY OpenProjectKeeps, SpawnKeeps, FounderSaysKeeps, DeliverKeeps, PublishPostKeeps DEF ControlPlane
-------------------------------------------------------------------------------
LEMMA ConversationInit == Init => ConversationInv
<1> SUFFICES ASSUME Init PROVE ConversationInv
  OBVIOUS
<1>1. /\ agents = [a \in Agent |-> Unused] /\ opening = [p \in Project |-> "created"]
      /\ assigned = [a \in Agent |-> "nothing"] /\ procs = [a \in Agent |-> Down]
      /\ posts = [r \in Poster |-> NoPost] /\ sent = <<>> /\ losses = 0
  BY DEF Init, AgentsInit
<1>2. sent \in Seq(Message) /\ Elements(sent) = {} /\ DOMAIN sent = {}
  BY <1>1, NoneListed, EmptySeq
<1>3. AgentsTypeOK /\ losses \in 0..MaxLosses
  BY <1>1, ConversationAssumption DEF AgentsTypeOK
<1>4. \A a \in Agent : ~Running(a) /\ procs[a].at # "listening"
  BY <1>1 DEF Running, Down
<1>5. TypeOK
  BY <1>1, <1>2, <1>3, <1>4 DEF TypeOK
<1>6. Numbered(sent) /\ RunningIsLive /\ EachFollows /\ RequestIsPast
  BY <1>2, <1>4 DEF Numbered, RunningIsLive, EachFollows, RequestIsPast
<1>7. RequestOpens
  BY <1>1, <1>2 DEF RequestOpens
<1>8. QED
  BY <1>5, <1>6, <1>7 DEF ConversationInv

LEMMA ConversationStays == ConversationInv /\ UNCHANGED vars => ConversationInv'
<1> SUFFICES ASSUME ConversationInv, UNCHANGED vars PROVE ConversationInv'
  OBVIOUS
<1>1. UNCHANGED <<agents, opening, assigned, procs, posts, sent, losses>>
  BY DEF vars
<1>2. TypeOK' /\ Numbered(sent)'
  BY <1>1 DEF ConversationInv, TypeOK, AgentsTypeOK, Numbered
<1>3. RunningIsLive' /\ EachFollows' /\ RequestOpens' /\ RequestIsPast'
  BY <1>1 DEF ConversationInv, RunningIsLive, EachFollows, RequestOpens, RequestIsPast, Running
<1>4. QED
  BY <1>2, <1>3 DEF ConversationInv

LEMMA ConversationInvariant == Spec => []ConversationInv
<1>1. ConversationInv /\ [Next]_vars => ConversationInv'
  BY ControlPlaneKeeps, ProcessStepKeeps, ClusterMovesKeeps, ConversationStays DEF Next
<1>2. QED
  BY <1>1, ConversationInit, PTL DEF Spec
-------------------------------------------------------------------------------
(* The messages published from one number to another. *)
LEMMA Between ==
  ASSUME NEW events \in Seq(Message), Numbered(events),
         NEW since \in 0..Len(events), NEW upto \in since..Len(events)
  PROVE  Elements(SubSeq(events, since + 1, upto))
           = {x \in Elements(events) : since < x.n /\ x.n <= upto}
<1>0. Len(events) \in Nat /\ DOMAIN events = 1..Len(events)
  BY LenProperties
<1>1. since \in Nat /\ upto \in Nat /\ since <= upto /\ upto <= Len(events)
  BY <1>0
<1> DEFINE part == SubSeq(events, since + 1, upto)
<1>2. \A i \in since + 1..upto : events[i] \in Message
  BY <1>0, <1>1, ElementOfSeq
<1>3. /\ since + 1 \in 1..Len(events) + 1 /\ upto \in since + 1 - 1..Len(events)
      /\ upto - (since + 1) + 1 = upto - since
  BY <1>0, <1>1
<1>4. /\ DOMAIN part = 1..upto - since
      /\ \A i \in 1..upto - since : part[i] = events[since + i]
  <2>1. /\ part \in Seq(Message) /\ Len(part) = upto - (since + 1) + 1
        /\ \A i \in 1..upto - (since + 1) + 1 : part[i] = events[since + 1 + i - 1]
    BY <1>2, <1>3, <1>1, SubSeqProperties
  <2>2. Len(part) = upto - since /\ DOMAIN part = 1..Len(part)
    BY <1>3, <2>1, LenProperties
  <2>3. \A i \in 1..upto - since : since + 1 + i - 1 = since + i
    BY <1>1
  <2>4. QED
    BY <1>3, <2>1, <2>2, <2>3
<1> HIDE DEF part
<1>5. ASSUME NEW i \in DOMAIN part
      PROVE  part[i] \in Elements(events) /\ since < part[i].n /\ part[i].n <= upto
  <2>1. since + i \in DOMAIN events /\ since < since + i /\ since + i <= upto
    BY <1>0, <1>1, <1>4
  <2>2. QED
    BY <1>4, <2>1 DEF Elements, Numbered
<1>6. ASSUME NEW x \in Elements(events), since < x.n, x.n <= upto
      PROVE  x \in Elements(part)
  <2>1. PICK i \in DOMAIN events : events[i] = x /\ x.n = i
    BY DEF Elements, Numbered
  <2>2. i - since \in DOMAIN part /\ since + (i - since) = i
    BY <1>0, <1>1, <1>4, <1>6, <2>1
  <2>3. part[i - since] = x
    BY <1>4, <2>1, <2>2
  <2>4. QED
    BY <2>2, <2>3 DEF Elements
<1>7. QED
  BY <1>5, <1>6 DEF Elements, part

LEMMA HeardFollows == ConversationInv => HeardInOrder
<1> SUFFICES ASSUME ConversationInv PROVE HeardInOrder
  OBVIOUS
<1>1. ASSUME NEW a \in Agent, Running(a)
      PROVE  LET proc == procs[a]
                 heard == proc.taken \o proc.inbox
             IN /\ Ordered(heard)
                /\ \A i \in DOMAIN proc.taken : Concerns(a, proc.taken[i])
                /\ \E upto \in proc.since..Len(sent) :
                     /\ proc.line # "cut" => upto = Len(sent)
                     /\ Concerning(a, heard) = Concerning(a, SubSeq(sent, proc.since + 1, upto))
  <2> DEFINE proc == procs[a]
             heard == proc.taken \o proc.inbox
             p == agents[a].project
  <2>1. \A x : Concerns(a, x) <=> DueTo(a, p, x)
    BY DEF Concerns, DueTo
  <2>2. /\ proc.inbox \in Seq(Message) /\ proc.taken \in Seq(Message) /\ Follows(a, p, proc, sent)
        /\ sent \in Seq(Message) /\ Numbered(sent)
    BY <1>1, RunningFacts, SentIsListed
  <2> HIDE DEF proc, p
  <2>3. Ordered(heard) /\ Elements(heard) = Elements(proc.taken) \cup Elements(proc.inbox)
    BY <2>2, TwoListed DEF Follows
  <2> HIDE DEF heard
  <2>4. \A i \in DOMAIN proc.taken : Concerns(a, proc.taken[i])
    BY <2>1, <2>2 DEF Follows, Elements
  <2>5. PICK upto \in proc.since..Len(sent) :
          /\ proc.line = "up" => upto = Len(sent)
          /\ \A x \in Elements(heard) : proc.since < x.n /\ x.n <= upto
          /\ \A x \in Elements(sent) :
               proc.since < x.n /\ x.n <= upto /\ DueTo(a, p, x) => x \in Elements(heard)
    BY <2>2, <2>3 DEF Follows
  <2>6. \A events : Concerning(a, events) = {x \in Elements(events) : DueTo(a, p, x)}
    BY <2>1 DEF Concerning, Elements
  <2>7. /\ proc.since \in 0..Len(sent) /\ proc.line \in {"up", "cut"}
        /\ Elements(heard) \subseteq Elements(sent)
    BY <2>2, <2>3 DEF Follows
  <2>8. Elements(SubSeq(sent, proc.since + 1, upto))
          = {x \in Elements(sent) : proc.since < x.n /\ x.n <= upto}
    BY <2>2, <2>5, <2>7, Between
  <2>9. Concerning(a, heard) = Concerning(a, SubSeq(sent, proc.since + 1, upto))
    BY <2>5, <2>6, <2>7, <2>8
  <2>10. proc.line # "cut" => upto = Len(sent)
    BY <2>5, <2>7
  <2>11. QED
    BY <2>3, <2>4, <2>9, <2>10 DEF heard, proc
<1>2. QED
  BY <1>1 DEF HeardInOrder

LEMMA OnceFollows == ConversationInv => RequestActedOnOnce
<1> SUFFICES ASSUME ConversationInv,
                    NEW a \in Agent, assigned[a] = "request", NEW i \in DOMAIN procs[a].taken,
                    procs[a].taken[i].project = agents[a].project
             PROVE  procs[a].taken[i].text = "other"
  BY DEF RequestActedOnOnce
<1>1. procs[a] \in Process \cup {Down}
  BY DEF ConversationInv, TypeOK
<1>2. CASE ~Running(a)
  <2>1. procs[a] = Down
    BY <1>1, <1>2, ProcessFields DEF Running
  <2>2. DOMAIN procs[a].taken = {}
    BY <2>1, EmptySeq DEF Down
  <2>3. QED
    BY <2>2
<1>3. CASE Running(a)
  <2> DEFINE x == procs[a].taken[i]
  <2>1. x \in Elements(procs[a].taken)
    BY DEF Elements
  <2>2. Follows(a, agents[a].project, procs[a], sent)
    BY <1>3, RunningFacts
  <2>3. x \in Elements(sent) /\ procs[a].since < x.n
    BY <2>1, <2>2 DEF Follows
  <2>4. procs[a].since \in Nat /\ x.n \in Nat /\ x.text \in Text
    <3>1. x \in Message /\ x.n \in 1..Len(sent) /\ Len(sent) \in Nat
      BY <2>3, SentIsListed
    <3>2. procs[a].since \in Nat
      BY <1>1, ProcessFields
    <3>3. x.text \in Text
      BY <3>1 DEF Message
    <3>4. QED
      BY <3>1, <3>2, <3>3
  <2>5. x.text # "request"
    BY <1>3, <2>3, <2>4 DEF ConversationInv, RequestIsPast
  <2>6. QED
    BY <2>4, <2>5 DEF Text
<1>4. QED
  BY <1>2, <1>3

(* Every process, post and message is of its kind, whatever the control    *)
(* plane, the agents and the cluster do in between (agent_loop.py,         *)
(* service.py).                                                            *)
THEOREM ConversationTypes == Spec => []TypeOK
<1>1. ConversationInv => TypeOK
  BY DEF ConversationInv
<1>2. QED
  BY <1>1, ConversationInvariant, PTL

(* An agent acts on every message for it, in order, once, and on nothing   *)
(* else, for as long as its connection holds (agent_loop.py, listen).      *)
THEOREM HeardAlwaysInOrder == Spec => []HeardInOrder
<1>1. ConversationInv => HeardInOrder
  BY HeardFollows
<1>2. QED
  BY <1>1, ConversationInvariant, PTL

(* The EM acts on the request that opened its project as its assignment,   *)
(* and does not hear it again (service.py, open_project).                  *)
THEOREM RequestIsActedOnOnce == Spec => []RequestActedOnOnce
<1>1. ConversationInv => RequestActedOnOnce
  BY OnceFollows
<1>2. QED
  BY <1>1, ConversationInvariant, PTL
===============================================================================
