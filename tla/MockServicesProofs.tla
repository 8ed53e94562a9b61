--------------------------- MODULE MockServicesProofs ---------------------------
(***************************************************************************)
(* Proofs about the mock services, for any number of requests and agents.  *)
(* Each service has an invariant of its own, and a step of another service *)
(* leaves it alone: to a service only its own requests matter.             *)
(***************************************************************************)
EXTENDS MockServices, FiniteSetTheorems, TLAPS

Requests == call \in [Call -> Request \cup {Unused}]

(* An agent is only told of a success by a handler that has returned, and  *)
(* only a request of a series is stored.                                   *)
Staged ==
  \A c \in Call : call[c] # Unused =>
    /\ call[c].tool = "ok" => call[c].at = "done"
    /\ call[c].at = "store" => call[c].kind \in Series

(* The requests of a series that have a number. *)
Numbered(s) == {c \in Call : call[c].kind = s /\ call[c].at \in {"store", "done"}}

(* As many numbers are used up as there are requests that have one, each   *)
(* has its own, and the one that has been answered is found there.         *)
SeriesOK ==
  /\ stored \in [Series -> [Number -> Call \cup {None}]]
  /\ next \in [Series -> Nat]
  /\ \A s \in Series :
       /\ next[s] = Cardinality(Numbered(s)) + 1
       /\ \A c \in Numbered(s) :
            /\ call[c].held \in Nat /\ call[c].held >= 1 /\ call[c].held < next[s]
            /\ call[c].at = "done" => stored[s][call[c].held] = c
            /\ \A d \in Numbered(s) : call[d].held = call[c].held => d = c

(* At most one write began before there was a ticket. *)
Single == \A c, d \in early : c = d

Writing(c) == At(c, {"write"}, "assign")

Commenting(c) == At(c, {"comment"}, "append")

Commented(c) == At(c, {"comment"}, "done")

Once(c, list) == \E i \in DOMAIN list : {j \in DOMAIN list : list[j] = c} = {i}

(* Why a comment stays: unless there were two first writes, every write    *)
(* under way holds the list the ticket has, or will have.                  *)
TicketOK ==
  /\ ticket \in Call \cup {None} /\ comments \in [Call -> Seq(Call)] /\ early \subseteq Call
  /\ \A c \in Call : Writing(c) =>
       /\ call[c].held \in Call
       /\ ticket = None => c \in early /\ call[c].held = c
       /\ ticket # None /\ Single => call[c].held = ticket
  /\ \A c \in Call : Commenting(c) => ticket # None
  /\ \A c, w \in Call : \A i \in DOMAIN comments[w] : comments[w][i] = c => Commented(c)
  /\ \A c \in Call : Answered(c, "comment") =>
       ticket # None /\ (Single => Once(c, comments[ticket]))

InContext(c) == At(c, Browsing, "context")

Shutting(c) == At(c, {"close"}, "closing")

(* It has made a context, or got the agent's. *)
Made(request) == request.kind \in Browsing /\ request.at \notin {"start", "context"}

(* Why no context gets lost: as long as no two requests of an agent were   *)
(* making one at once, the one that makes one is alone, and the table has  *)
(* none.  A context is in the table of its agent only, and never there     *)
(* while somebody is about to close it; what close() raised on is known.   *)
BrowserOK ==
  /\ contexts \in [Agent -> Call \cup {None}]
  /\ open \subseteq Call /\ evidence \subseteq Call /\ overlap \subseteq Agent
  /\ dead \subseteq Call /\ unclosed \subseteq Call
  /\ \A c \in open : Made(call[c])
  /\ \A a \in Agent : contexts[a] # None => contexts[a] \in open /\ call[contexts[a]].agent = a
  /\ \A c \in Call : Shutting(c) =>
       call[c].held \in Call /\ Made(call[call[c].held])
       /\ \A a \in Agent : contexts[a] # call[c].held
  /\ \A c \in open : \/ \E d \in Call : Shutting(d) /\ call[d].held = c
                     \/ contexts[call[c].agent] = c
                     \/ call[c].agent \in overlap
                     \/ c \in unclosed
  /\ \A c \in Call : InContext(c) /\ call[c].agent \notin overlap =>
       /\ contexts[call[c].agent] = None
       /\ \A d \in Call : InContext(d) /\ call[d].agent = call[c].agent => d = c

EvidenceOK ==
  /\ \A c \in evidence : call[c].kind = "screenshot" /\ call[c].shot
  /\ \A c \in Call : Answered(c, "screenshot") => c \in evidence

LEMMA NumberedFinite ==
  ASSUME NEW s
  PROVE  IsFiniteSet(Numbered(s)) /\ Cardinality(Numbered(s)) \in Nat
         /\ Cardinality(Numbered(s)) <= Cardinality(Call) /\ Cardinality(Call) \in Nat
<1>1. Numbered(s) \subseteq Call
  BY DEF Numbered
<1> QED BY <1>1, MocksAssumption, FS_Subset, FS_CardinalityType

(* While somebody of the series still waits for a number there is one. *)
LEMMA NumberLeft ==
  ASSUME SeriesOK, NEW s \in Series, NEW c \in Call, c \notin Numbered(s)
  PROVE  next[s] \in Number
<1>1. Numbered(s) \subseteq Call \ {c}
  BY DEF Numbered
<1>2. IsFiniteSet(Call \ {c}) /\ Cardinality(Call \ {c}) = Cardinality(Call) - 1
  BY MocksAssumption, FS_RemoveElement
<1>3. Cardinality(Numbered(s)) <= Cardinality(Call) - 1
  BY <1>1, <1>2, FS_Subset
<1> QED BY <1>3, NumberedFinite DEF SeriesOK, Number

(* A step that leaves the numbers alone. *)
LEMMA SeriesUndisturbed ==
  ASSUME SeriesOK, UNCHANGED <<next, stored>>,
         \A s \in Series : Numbered(s)' = Numbered(s),
         \A s \in Series : \A c \in Numbered(s) :
           call'[c].held = call[c].held /\ call'[c].at = call[c].at
  PROVE  SeriesOK'
BY DEF SeriesOK

LEMMA TakeNumberKeepsSeries ==
  ASSUME Requests, SeriesOK, NEW c \in Call, TakeNumber(c)
  PROVE  SeriesOK'
<1> DEFINE k == call[c].kind
<1>1. k \in Series /\ call[c].at = "start" /\ call[c] \in Request
  BY DEF TakeNumber, At, Requests, Unused, Series
<1>2. /\ call'[c].kind = k /\ call'[c].at = "store" /\ call'[c].held = next[k]
      /\ \A d \in Call \ {c} : call'[d] = call[d]
      /\ next' = [next EXCEPT ![k] = @ + 1] /\ stored' = stored
  BY <1>1 DEF TakeNumber, Hold, Requests, Request
<1> HIDE DEF k
<1>3. \A s \in Series : s = k => c \notin Numbered(s) /\ Numbered(s)' = Numbered(s) \cup {c}
  BY <1>1, <1>2 DEF Numbered, k
<1>4. \A s \in Series : s # k => Numbered(s)' = Numbered(s) /\ c \notin Numbered(s)
  BY <1>1, <1>2 DEF Numbered, k
<1>5. /\ stored' \in [Series -> [Number -> Call \cup {None}]]
      /\ next' \in [Series -> Nat]
      /\ next'[k] = next[k] + 1 /\ next[k] \in Nat /\ next[k] >= 1
      /\ \A s \in Series : s # k => next'[s] = next[s]
  BY <1>1, <1>2, NumberedFinite DEF SeriesOK
<1>6. ASSUME NEW s \in Series
      PROVE  /\ next'[s] = Cardinality(Numbered(s)') + 1
             /\ \A d \in Numbered(s)' :
                  /\ call'[d].held \in Nat /\ call'[d].held >= 1 /\ call'[d].held < next'[s]
                  /\ call'[d].at = "done" => stored'[s][call'[d].held] = d
                  /\ \A e \in Numbered(s)' : call'[e].held = call'[d].held => e = d
  <2>1. CASE s # k
    <3>1. \A d \in Numbered(s) : call'[d] = call[d]
      BY <1>2, <1>4, <2>1 DEF Numbered
    <3> QED BY <1>2, <1>4, <1>5, <2>1, <3>1 DEF SeriesOK
  <2>2. CASE s = k
    <3>1. \A d \in Numbered(s) : call'[d] = call[d]
      BY <1>2, <1>3, <2>2 DEF Numbered
    <3>2. Cardinality(Numbered(s)') = Cardinality(Numbered(s)) + 1
      BY <1>3, <2>2, NumberedFinite, FS_AddElement
    <3>3. next'[s] = Cardinality(Numbered(s)') + 1
      BY <1>5, <2>2, <3>2, NumberedFinite DEF SeriesOK
    <3>4. \A d \in Numbered(s) :
            /\ call'[d].held \in Nat /\ call'[d].held >= 1 /\ call'[d].held < next[s]
            /\ call'[d].at = "done" => stored[s][call'[d].held] = d
            /\ \A e \in Numbered(s) : call'[e].held = call'[d].held => e = d
      BY <3>1 DEF SeriesOK
    <3> QED BY <1>2, <1>3, <1>5, <2>2, <3>3, <3>4
  <2> QED BY <2>1, <2>2
<1> QED BY <1>5, <1>6 DEF SeriesOK

LEMMA StoreKeepsSeries ==
  ASSUME Requests, SeriesOK, NEW c \in Call, Store(c)
  PROVE  SeriesOK'
<1> DEFINE k == call[c].kind
           n == call[c].held
<1>1. k \in Series /\ call[c].at = "store" /\ call[c] \in Request /\ c \in Numbered(k)
  BY DEF Store, At, Requests, Unused, Series, Numbered
<1>2. /\ call'[c].kind = k /\ call'[c].at = "done" /\ call'[c].held = n
      /\ \A d \in Call \ {c} : call'[d] = call[d]
      /\ next' = next /\ stored' = [stored EXCEPT ![k][n] = c]
  BY <1>1 DEF Store, Return, Requests, Request
<1>3. n \in Number
  <2>1. n \in Nat /\ n >= 1 /\ n < next[k] /\ next[k] = Cardinality(Numbered(k)) + 1
    BY <1>1 DEF SeriesOK
  <2> QED BY <2>1, NumberedFinite DEF Number
<1> HIDE DEF k, n
<1>4. \A s \in Series : Numbered(s)' = Numbered(s)
  BY <1>1, <1>2 DEF Numbered, k
<1>5. stored' \in [Series -> [Number -> Call \cup {None}]]
  BY <1>1, <1>2, <1>3 DEF SeriesOK
<1>6. ASSUME NEW s \in Series, NEW d \in Numbered(s)
      PROVE  call'[d].held = call[d].held
             /\ (call'[d].at = "done" => stored'[s][call[d].held] = d)
  <2>1. d \in Call /\ call[d].kind = s
    BY DEF Numbered
  <2>2. CASE d = c
    BY <1>1, <1>2, <1>3, <2>1, <2>2 DEF SeriesOK, k, n
  <2>3. CASE d # c /\ s = k
    <3>1. call[d].held # n
      BY <1>1, <2>3 DEF SeriesOK, n
    <3>2. stored'[s][call[d].held] = stored[s][call[d].held]
      BY <1>1, <1>2, <1>3, <2>3, <3>1 DEF SeriesOK
    <3> QED BY <1>2, <2>1, <2>3, <3>2 DEF SeriesOK
  <2>4. CASE s # k
    <3>1. d # c
      BY <2>1, <2>4 DEF k
    <3>2. stored'[s] = stored[s]
      BY <1>1, <1>2, <2>4 DEF SeriesOK
    <3> QED BY <1>2, <2>1, <3>1, <3>2 DEF SeriesOK
  <2> QED BY <2>2, <2>3, <2>4
<1> QED BY <1>2, <1>4, <1>5, <1>6 DEF SeriesOK
-------------------------------------------------------------------------------
(* Tickets. *)

LEMMA TicketUndisturbed ==
  ASSUME TicketOK, UNCHANGED <<ticket, comments, early>>,
         \A c \in Call :
           /\ Writing(c)' => Writing(c) /\ call'[c].held = call[c].held
           /\ Commenting(c)' => Commenting(c)
           /\ Commented(c) => Commented(c)'
           /\ Answered(c, "comment")' => Answered(c, "comment")
  PROVE  TicketOK'
<1>1. Single' = Single
  BY DEF Single
<1>2. \A c \in Call : Answered(c, "comment")' =>
       ticket' # None /\ (Single' => Once(c, comments'[ticket']))
  BY <1>1 DEF TicketOK
<1>3. \A c, w \in Call : \A i \in DOMAIN comments'[w] : comments'[w][i] = c => Commented(c)'
  BY DEF TicketOK
<1> QED BY <1>1, <1>2, <1>3 DEF TicketOK

LEMMA ReadCommentsKeepsTicket ==
  ASSUME Requests, TicketOK, NEW c \in Call, ReadComments(c)
  PROVE  TicketOK'
<1>1. /\ call[c] \in Request /\ call[c].kind = "write" /\ call[c].at = "start"
      /\ call'[c].kind = "write" /\ call'[c].at = "assign"
      /\ call'[c].held = (IF ticket = None THEN c ELSE ticket)
      /\ \A d \in Call \ {c} : call'[d] = call[d]
      /\ ticket' = ticket /\ comments' = comments
      /\ early' = IF ticket = None THEN early \cup {c} ELSE early
  BY DEF ReadComments, At, Hold, Early, Requests, Request, Unused
<1>2. Single' => Single
  BY <1>1 DEF Single
<1>3. \A d \in Call : d # c => /\ Writing(d)' = Writing(d) /\ Commenting(d)' = Commenting(d)
                              /\ Commented(d)' = Commented(d)
                              /\ Answered(d, "comment")' = Answered(d, "comment")
  BY <1>1 DEF Writing, Commenting, Commented, Answered, At
<1>4. ~Commenting(c)' /\ ~Commented(c) /\ ~Answered(c, "comment")'
  BY <1>1 DEF Commenting, Commented, Answered, At
<1>5. ticket # None => ticket \in Call
  BY DEF TicketOK
<1>6. \A d \in Call : Writing(d)' =>
       /\ call'[d].held \in Call
       /\ ticket' = None => d \in early' /\ call'[d].held = d
       /\ ticket' # None /\ Single' => call'[d].held = ticket'
  <2> TAKE d \in Call
  <2>1. CASE d = c
    BY <1>1, <1>5, <2>1
  <2>2. CASE d # c
    BY <1>1, <1>2, <1>3, <2>2 DEF TicketOK
  <2> QED BY <2>1, <2>2
<1>7. \A d \in Call : Answered(d, "comment")' =>
       ticket' # None /\ (Single' => Once(d, comments'[ticket']))
  BY <1>1, <1>2, <1>3, <1>4 DEF TicketOK
<1>8. \A d, w \in Call : \A i \in DOMAIN comments'[w] : comments'[w][i] = d => Commented(d)'
  BY <1>1, <1>3, <1>4 DEF TicketOK
<1>9. early' \subseteq Call
  BY <1>1 DEF TicketOK
<1> QED BY <1>1, <1>3, <1>4, <1>6, <1>7, <1>8, <1>9 DEF TicketOK

LEMMA AssignTicketKeepsTicket ==
  ASSUME Requests, TicketOK, NEW c \in Call, AssignTicket(c)
  PROVE  TicketOK'
<1>1. /\ call[c] \in Request /\ Writing(c) /\ call[c].kind = "write" /\ call[c].at = "assign"
      /\ call'[c].kind = "write" /\ call'[c].at = "done"
      /\ \A d \in Call \ {c} : call'[d] = call[d]
      /\ ticket' = call[c].held /\ comments' = comments /\ early' = early
  BY DEF AssignTicket, Writing, At, Return, Requests, Request, Unused
<1>2. Single' = Single
  BY <1>1 DEF Single
<1>3. \A d \in Call : d # c => /\ Writing(d)' = Writing(d) /\ Commenting(d)' = Commenting(d)
                              /\ Commented(d)' = Commented(d)
                              /\ Answered(d, "comment")' = Answered(d, "comment")
  BY <1>1 DEF Writing, Commenting, Commented, Answered, At
<1>4. ~Writing(c)' /\ ~Commenting(c)' /\ ~Commented(c) /\ ~Answered(c, "comment")'
  BY <1>1 DEF Writing, Commenting, Commented, Answered, At
<1>5. ticket' \in Call /\ ticket' # None
  BY <1>1, MocksAssumption DEF TicketOK
<1>6. \A d \in Call : d # c /\ Writing(d) /\ Single => call[d].held = ticket'
  BY <1>1 DEF TicketOK, Single
<1>7. ticket # None /\ Single => ticket' = ticket
  BY <1>1 DEF TicketOK
<1>8. \A d \in Call : Writing(d)' =>
       /\ call'[d].held \in Call
       /\ ticket' = None => d \in early' /\ call'[d].held = d
       /\ ticket' # None /\ Single' => call'[d].held = ticket'
  BY <1>1, <1>2, <1>3, <1>4, <1>5, <1>6 DEF TicketOK
<1>9. \A d \in Call : Answered(d, "comment")' =>
       ticket' # None /\ (Single' => Once(d, comments'[ticket']))
  BY <1>1, <1>2, <1>3, <1>4, <1>5, <1>7 DEF TicketOK
<1>10. \A d, w \in Call : \A i \in DOMAIN comments'[w] : comments'[w][i] = d => Commented(d)'
  BY <1>1, <1>3, <1>4 DEF TicketOK
<1> QED BY <1>1, <1>3, <1>4, <1>5, <1>8, <1>9, <1>10 DEF TicketOK

LEMMA FindTicketKeepsTicket ==
  ASSUME Requests, Staged, TicketOK, NEW c \in Call, FindTicket(c)
  PROVE  TicketOK'
<1>1. /\ call[c] \in Request /\ call[c].kind = "comment" /\ call[c].at = "start"
      /\ call'[c].kind = "comment" /\ call[c].tool # "ok" /\ call'[c].tool # "ok"
      /\ \/ call'[c].at = "append" /\ ticket # None
         \/ call'[c].at = "done" /\ ticket = None
      /\ \A d \in Call \ {c} : call'[d] = call[d]
      /\ UNCHANGED <<ticket, comments, early>>
  BY DEF FindTicket, At, Return, Goto, Staged, Requests, Request, Unused, tables
<1>2. \A d \in Call : /\ Writing(d)' => Writing(d) /\ call'[d].held = call[d].held
                      /\ Commenting(d)' => Commenting(d) \/ ticket # None
                      /\ Commented(d) => Commented(d)'
                      /\ Answered(d, "comment")' => Answered(d, "comment")
  <2> TAKE d \in Call
  <2>1. CASE d = c
    BY <1>1, <2>1 DEF Writing, Commenting, Commented, Answered, At
  <2>2. CASE d # c
    BY <1>1, <2>2 DEF Writing, Commenting, Commented, Answered, At
  <2> QED BY <2>1, <2>2
<1>3. Single' = Single
  BY <1>1 DEF Single
<1> QED BY <1>1, <1>2, <1>3 DEF TicketOK, Once

(* A list that gets one more entry has the others where they were. *)
LEMMA AppendOnce ==
  ASSUME NEW list \in Seq(Call), NEW c \in Call, NEW d \in Call
  PROVE  /\ d # c /\ Once(d, list) => Once(d, Append(list, c))
         /\ (\A i \in DOMAIN list : list[i] # c) => Once(c, Append(list, c))
         /\ \A i \in DOMAIN Append(list, c) :
              Append(list, c)[i] = c \/ (i \in DOMAIN list /\ Append(list, c)[i] = list[i])
<1> DEFINE more == Append(list, c)
           n == Len(list) + 1
<1>1. /\ DOMAIN list = 1..Len(list) /\ Len(list) \in Nat
      /\ DOMAIN more = 1..n /\ more[n] = c
      /\ \A i \in DOMAIN list : more[i] = list[i]
  OBVIOUS
<1>2. DOMAIN more = DOMAIN list \cup {n} /\ n \notin DOMAIN list
  BY <1>1
<1> HIDE DEF more, n
<1>3. ASSUME d # c, Once(d, list) PROVE Once(d, more)
  <2>1. {j \in DOMAIN more : more[j] = d} = {j \in DOMAIN list : list[j] = d}
    BY <1>1, <1>2, <1>3
  <2> QED BY <1>2, <1>3, <2>1 DEF Once
<1>4. ASSUME \A i \in DOMAIN list : list[i] # c PROVE Once(c, more)
  <2>1. {j \in DOMAIN more : more[j] = c} = {n}
    BY <1>1, <1>2, <1>4
  <2> QED BY <1>2, <2>1 DEF Once
<1>5. \A i \in DOMAIN more : more[i] = c \/ (i \in DOMAIN list /\ more[i] = list[i])
  BY <1>1, <1>2
<1> QED BY <1>3, <1>4, <1>5 DEF more

LEMMA AppendCommentKeepsTicket ==
  ASSUME Requests, TicketOK, NEW c \in Call, AppendComment(c)
  PROVE  TicketOK'
<1>1. /\ call[c] \in Request /\ Commenting(c) /\ call[c].kind = "comment" /\ call[c].at = "append"
      /\ call'[c].kind = "comment" /\ call'[c].at = "done"
      /\ \A d \in Call \ {c} : call'[d] = call[d]
      /\ ticket' = ticket /\ early' = early
      /\ comments' = [comments EXCEPT ![ticket] = Append(@, c)]
  BY DEF AppendComment, Commenting, At, Return, Requests, Request, Unused
<1>2. ticket \in Call /\ ticket # None /\ comments[ticket] \in Seq(Call)
  BY <1>1 DEF TicketOK
<1>3. /\ comments' \in [Call -> Seq(Call)]
      /\ comments'[ticket] = Append(comments[ticket], c)
      /\ \A w \in Call : w # ticket => comments'[w] = comments[w]
  BY <1>1, <1>2 DEF TicketOK
<1>4. \A d \in Call : d # c => /\ Writing(d)' = Writing(d) /\ Commenting(d)' = Commenting(d)
                              /\ Commented(d)' = Commented(d)
                              /\ Answered(d, "comment")' = Answered(d, "comment")
  BY <1>1 DEF Writing, Commenting, Commented, Answered, At
<1>5. ~Writing(c)' /\ ~Commenting(c)' /\ Commented(c)' /\ ~Commented(c)
  BY <1>1 DEF Writing, Commenting, Commented, At
<1>6. \A i \in DOMAIN comments[ticket] : comments[ticket][i] # c
  BY <1>2, <1>5 DEF TicketOK
<1>7. Single' = Single
  BY <1>1 DEF Single
<1> DEFINE list == comments[ticket]
           more == Append(list, c)
<1>8. \A d \in Call :
         /\ d # c /\ Once(d, list) => Once(d, more)
         /\ (\A i \in DOMAIN list : list[i] # c) => Once(c, more)
         /\ \A i \in DOMAIN more : more[i] = c \/ (i \in DOMAIN list /\ more[i] = list[i])
  BY <1>2, AppendOnce
<1> HIDE DEF more
<1>9. comments'[ticket] = more
  BY <1>3 DEF more
<1>10. ASSUME NEW d \in Call, Answered(d, "comment")', Single
      PROVE  Once(d, comments'[ticket'])
  <2>1. d # c => Once(d, list)
    BY <1>4, <1>10 DEF TicketOK
  <2> QED BY <1>1, <1>6, <1>8, <1>9, <2>1
<1>11. ASSUME NEW d \in Call, NEW w \in Call, NEW i \in DOMAIN comments'[w], comments'[w][i] = d
      PROVE  Commented(d)'
  <2>1. CASE w # ticket
    BY <1>3, <1>4, <1>5, <1>11, <2>1 DEF TicketOK
  <2>2. CASE w = ticket
    <3>1. d = c \/ (i \in DOMAIN comments[ticket] /\ comments[ticket][i] = d)
      BY <1>11, <1>8, <1>9, <2>2
    <3> QED BY <1>2, <1>4, <1>5, <3>1 DEF TicketOK
  <2> QED BY <2>1, <2>2
<1>12. \A d \in Call : Writing(d)' =>
       /\ call'[d].held \in Call
       /\ ticket' = None => d \in early' /\ call'[d].held = d
       /\ ticket' # None /\ Single' => call'[d].held = ticket'
  BY <1>1, <1>4, <1>5, <1>7 DEF TicketOK
<1> QED BY <1>1, <1>2, <1>3, <1>7, <1>10, <1>11, <1>12 DEF TicketOK
-------------------------------------------------------------------------------
(* The browser. *)

(* A step that opens and closes no context and puts none into the table.   *)
LEMMA BrowserUndisturbed ==
  ASSUME BrowserOK, UNCHANGED <<contexts, open, overlap, unclosed>>,
         evidence' \subseteq Call, dead' \subseteq Call,
         \A c \in Call :
           /\ Shutting(c)' = Shutting(c) /\ InContext(c)' = InContext(c)
           /\ Shutting(c) => call'[c].held = call[c].held
           /\ call[c].kind \in Browsing => call'[c].agent = call[c].agent
           /\ Made(call[c]) => Made(call'[c])
  PROVE  BrowserOK'
<1>1. \A c \in open : Made(call'[c]) /\ call'[c].agent = call[c].agent
  BY DEF BrowserOK, Made
<1>2. \A a \in Agent : contexts'[a] # None =>
                        contexts'[a] \in open' /\ call'[contexts'[a]].agent = a
  BY <1>1 DEF BrowserOK
<1>3. \A c \in Call : Shutting(c)' =>
        call'[c].held \in Call /\ Made(call'[call'[c].held])
        /\ \A a \in Agent : contexts'[a] # call'[c].held
  <2> TAKE c \in Call
  <2> HAVE Shutting(c)'
  <2>1. Shutting(c) /\ call'[c].held = call[c].held
    OBVIOUS
  <2>2. call[c].held \in Call /\ Made(call[call[c].held]) /\ \A a \in Agent : contexts[a] # call[c].held
    BY <2>1 DEF BrowserOK
  <2> QED BY <2>1, <2>2
<1>4. \A c \in open' : \/ \E d \in Call : Shutting(d)' /\ call'[d].held = c
                      \/ contexts'[call'[c].agent] = c
                      \/ call'[c].agent \in overlap'
                      \/ c \in unclosed'
  BY <1>1 DEF BrowserOK
<1>5. \A c \in Call : InContext(c)' => InContext(c) /\ call'[c].agent = call[c].agent
  BY DEF InContext, At
<1>6. \A c \in Call : InContext(c)' /\ call'[c].agent \notin overlap' =>
        /\ contexts'[call'[c].agent] = None
        /\ \A d \in Call : InContext(d)' /\ call'[d].agent = call'[c].agent => d = c
  BY <1>5 DEF BrowserOK
<1> QED BY <1>1, <1>2, <1>3, <1>4, <1>6 DEF BrowserOK

LEMMA GetContextKeepsBrowser ==
  ASSUME Requests, BrowserOK, NEW c \in Call, GetContext(c)
  PROVE  BrowserOK'
<1> DEFINE a == call[c].agent
<1>1. /\ call[c] \in Request /\ call[c].kind \in Browsing /\ call[c].at = "start" /\ a \in Agent
      /\ call'[c].kind = call[c].kind /\ call'[c].agent = a
      /\ \A d \in Call \ {c} : call'[d] = call[d]
      /\ UNCHANGED <<contexts, open, dead, unclosed, evidence>>
  BY DEF GetContext, At, Hold, Goto, Requests, Request, Unused, Browsing
<1>2. \A d \in Call : d # c => Shutting(d)' = Shutting(d) /\ InContext(d)' = InContext(d)
  BY <1>1 DEF Shutting, InContext, At
<1>3. ~Shutting(c) /\ ~Shutting(c)' /\ ~InContext(c) /\ ~Made(call[c]) /\ c \notin open
  BY <1>1 DEF Shutting, InContext, At, Browsing, BrowserOK, Made
<1>4. CASE contexts[a] # None
  <2>1. call'[c].at = "page" /\ UNCHANGED overlap
    BY <1>1, <1>4 DEF GetContext, Hold, Requests, Request
  <2>2. ~InContext(c)'
    BY <2>1 DEF InContext, At
  <2>3. ASSUME NEW d \in Call
        PROVE  /\ Shutting(d)' = Shutting(d) /\ InContext(d)' = InContext(d)
               /\ Shutting(d) => call'[d].held = call[d].held
               /\ call[d].kind \in Browsing => call'[d].agent = call[d].agent
               /\ Made(call[d]) => Made(call'[d])
    <3>1. CASE d = c
      BY <1>1, <1>3, <2>2, <3>1 DEF Shutting, InContext, At
    <3>2. CASE d # c
      BY <1>1, <1>2, <3>2
    <3> QED BY <3>1, <3>2
  <2>4. evidence' \subseteq Call /\ dead' \subseteq Call
    BY <1>1 DEF BrowserOK
  <2> QED BY <1>1, <2>1, <2>3, <2>4, BrowserUndisturbed
<1>5. CASE contexts[a] = None
  <2>1. /\ call'[c].at = "context"
        /\ overlap' = IF Making(a) = {} THEN overlap ELSE overlap \cup {a}
    BY <1>1, <1>5 DEF GetContext, Goto, Requests, Request
  <2>2. \A d \in open : d # c /\ call'[d] = call[d]
    BY <1>1, <1>3 DEF BrowserOK
  <2>3. overlap \subseteq overlap' /\ overlap' \subseteq Agent
    BY <1>1, <2>1 DEF BrowserOK
  <2>4. \A b \in Agent : contexts'[b] # None =>
          contexts'[b] \in open' /\ call'[contexts'[b]].agent = b
    BY <1>1, <2>2 DEF BrowserOK
  <2>5. \A d \in Call : Shutting(d)' =>
          call'[d].held \in Call /\ Made(call'[call'[d].held])
          /\ \A b \in Agent : contexts'[b] # call'[d].held
    BY <1>1, <1>2, <1>3 DEF BrowserOK
  <2>6. \A d \in open' : \/ \E e \in Call : Shutting(e)' /\ call'[e].held = d
                        \/ contexts'[call'[d].agent] = d
                        \/ call'[d].agent \in overlap'
                        \/ d \in unclosed'
    BY <1>1, <1>2, <1>3, <2>2, <2>3 DEF BrowserOK
  <2>7. a \notin overlap' => \A d \in Call : InContext(d) => call[d].agent # a
    BY <2>1 DEF Making, InContext
  <2>8. \A d \in Call : InContext(d)' /\ call'[d].agent \notin overlap' =>
          /\ contexts'[call'[d].agent] = None
          /\ \A e \in Call : InContext(e)' /\ call'[e].agent = call'[d].agent => e = d
    BY <1>1, <1>2, <1>5, <2>3, <2>7 DEF BrowserOK
  <2> QED BY <1>1, <2>2, <2>3, <2>4, <2>5, <2>6, <2>8 DEF BrowserOK
<1> QED BY <1>4, <1>5

LEMMA NewContextKeepsBrowser ==
  ASSUME Requests, BrowserOK, NEW c \in Call, NewContext(c)
  PROVE  BrowserOK'
<1> DEFINE a == call[c].agent
<1>1. /\ call[c] \in Request /\ call[c].kind \in Browsing /\ call[c].at = "context" /\ a \in Agent
      /\ call'[c].kind = call[c].kind /\ call'[c].agent = a
      /\ \A d \in Call \ {c} : call'[d] = call[d]
      /\ call'[c].at \in {"page", "done"}
      /\ UNCHANGED <<dead, unclosed, evidence, overlap>>
  BY DEF NewContext, At, Hold, Return, Requests, Request, Unused, Browsing
<1>2. \A d \in Call : d # c => Shutting(d)' = Shutting(d) /\ InContext(d)' = InContext(d)
  BY <1>1 DEF Shutting, InContext, At
<1>3. ~Shutting(c) /\ ~Shutting(c)' /\ InContext(c) /\ ~InContext(c)' /\ c \notin open
      /\ ~Made(call[c]) /\ Made(call'[c])
  BY <1>1 DEF Shutting, InContext, At, Browsing, BrowserOK, Made
<1>4. \/ contexts' = [contexts EXCEPT ![a] = c] /\ open' = open \cup {c}
      \/ UNCHANGED <<contexts, open>>
  BY DEF NewContext
<1>5. \A d \in Call : InContext(d)' /\ call'[d].agent \notin overlap' =>
        d # c /\ call[d].agent # a /\ InContext(d)
  BY <1>1, <1>2, <1>3 DEF BrowserOK
<1>6. \A d \in open' : Made(call'[d]) /\ (d # c => call'[d] = call[d] /\ d \in open)
  BY <1>1, <1>3, <1>4 DEF BrowserOK
<1>7. /\ contexts' \in [Agent -> Call \cup {None}] /\ open' \subseteq Call
      /\ \A b \in Agent : contexts'[b] = contexts[b] \/ (b = a /\ contexts'[b] = c /\ c \in open')
  BY <1>1, <1>4 DEF BrowserOK
<1>8. \A b \in Agent : contexts'[b] # None =>
        contexts'[b] \in open' /\ call'[contexts'[b]].agent = b
  BY <1>1, <1>3, <1>4, <1>7 DEF BrowserOK
<1>9. \A d \in Call : Shutting(d)' =>
        /\ call'[d].held = call[d].held /\ call[d].held \in Call /\ Made(call'[call[d].held])
        /\ \A b \in Agent : contexts'[b] # call[d].held
  <2> TAKE d \in Call
  <2> HAVE Shutting(d)'
  <2>1. d # c /\ Shutting(d) /\ call'[d] = call[d]
    BY <1>1, <1>2, <1>3
  <2>2. call[d].held \in Call /\ Made(call[call[d].held])
        /\ \A b \in Agent : contexts[b] # call[d].held
    BY <2>1 DEF BrowserOK
  <2>3. call[d].held # c
    BY <1>3, <2>2
  <2> QED BY <1>1, <1>7, <2>1, <2>2, <2>3
<1>10. ASSUME NEW d \in open'
       PROVE  \/ \E e \in Call : Shutting(e)' /\ call'[e].held = d
              \/ contexts'[call'[d].agent] = d
              \/ call'[d].agent \in overlap'
              \/ d \in unclosed'
  <2>1. CASE d = c
    BY <1>1, <1>3, <1>4, <2>1 DEF BrowserOK
  <2>2. CASE d # c /\ \E e \in Call : Shutting(e) /\ call[e].held = d
    BY <1>1, <1>2, <1>3, <2>2
  <2>3. CASE d # c /\ call[d].agent \in overlap
    BY <1>1, <1>6, <2>3
  <2>4. CASE d # c /\ contexts[call[d].agent] = d /\ call[d].agent # a
    <3>1. call'[d] = call[d] /\ Made(call[d]) /\ d \in Call
      BY <1>6, <1>7, <2>4
    <3>2. call[d].agent \in Agent
      BY <3>1 DEF Made, Browsing, Requests, Request, Unused
    <3> QED BY <1>7, <2>4, <3>1, <3>2
  <2>5. CASE d # c /\ contexts[a] = d /\ call[d].agent = a
    <3>1. contexts[a] # None
      BY <1>6, <2>5, MocksAssumption DEF BrowserOK
    <3>2. a \in overlap
      BY <1>1, <1>3, <3>1 DEF BrowserOK
    <3>3. call'[d].agent = a /\ overlap' = overlap
      BY <1>1, <1>6, <2>5
    <3> QED BY <3>2, <3>3
  <2> QED BY <1>1, <1>6, <2>1, <2>2, <2>3, <2>4, <2>5 DEF BrowserOK
<1>11. \A d \in Call : InContext(d)' /\ call'[d].agent \notin overlap' =>
         /\ contexts'[call'[d].agent] = None
         /\ \A e \in Call : InContext(e)' /\ call'[e].agent = call'[d].agent => e = d
  <2> TAKE d \in Call
  <2> HAVE InContext(d)' /\ call'[d].agent \notin overlap'
  <2>1. d # c /\ call[d].agent # a /\ InContext(d) /\ call'[d] = call[d] /\ overlap' = overlap
    BY <1>1, <1>5
  <2>2. /\ contexts[call[d].agent] = None
        /\ \A e \in Call : InContext(e) /\ call[e].agent = call[d].agent => e = d
    BY <2>1 DEF BrowserOK
  <2>3. call[d].agent \in Agent
    BY <2>1 DEF InContext, At, Requests, Request, Unused, Browsing
  <2> QED BY <1>1, <1>2, <1>3, <1>7, <2>1, <2>2, <2>3
<1>12. /\ evidence' \subseteq Call /\ overlap' \subseteq Agent
       /\ dead' \subseteq Call /\ unclosed' \subseteq Call
  BY <1>1 DEF BrowserOK
<1> QED BY <1>6, <1>7, <1>8, <1>9, <1>10, <1>11, <1>12 DEF BrowserOK

(* From its page on a request neither makes nor closes contexts. *)
PageStep(c) == NewPage(c) \/ LoadPage(c) \/ TakeScreenshot(c) \/ ShutPage(c)

LEMMA OfPageStep ==
  ASSUME Requests, NEW c \in Call, PageStep(c)
  PROVE  /\ call[c] \in Request /\ call[c].kind \in Browsing
         /\ call[c].at \in {"page", "goto", "shoot", "shut"}
         /\ call'[c].kind = call[c].kind /\ call'[c].agent = call[c].agent
         /\ call'[c].at \in {"goto", "shoot", "shut", "done"}
         /\ \A d \in Call \ {c} : call'[d] = call[d]
         /\ UNCHANGED <<contexts, open, overlap, dead, unclosed>>
<1>1. CASE NewPage(c)
  BY <1>1 DEF NewPage, At, Goto, Return, Requests, Request, Unused, Browsing, browser
<1>2. CASE LoadPage(c)
  BY <1>2 DEF LoadPage, At, Goto, Requests, Request, Unused, Browsing, browser
<1>3. CASE TakeScreenshot(c)
  BY <1>3 DEF TakeScreenshot, At, Goto, Requests, Request, Unused, Browsing, browser
<1>4. CASE ShutPage(c)
  BY <1>4 DEF ShutPage, At, Return, Requests, Request, Unused, Browsing
<1> QED BY <1>1, <1>2, <1>3, <1>4 DEF PageStep

LEMMA PageStepKeepsBrowser ==
  ASSUME Requests, BrowserOK, NEW c \in Call, PageStep(c)
  PROVE  BrowserOK'
<1>1. ASSUME NEW d \in Call
      PROVE  /\ Shutting(d)' = Shutting(d) /\ InContext(d)' = InContext(d)
             /\ Shutting(d) => call'[d].held = call[d].held
             /\ call[d].kind \in Browsing => call'[d].agent = call[d].agent
             /\ Made(call[d]) => Made(call'[d])
  <2>1. CASE d = c
    BY <2>1, OfPageStep DEF Shutting, InContext, At, Made, Browsing
  <2>2. CASE d # c
    BY <2>2, OfPageStep DEF Shutting, InContext, At
  <2> QED BY <2>1, <2>2
<1>2. evidence' \subseteq Call /\ dead' \subseteq Call
  BY OfPageStep DEF PageStep, NewPage, LoadPage, TakeScreenshot, ShutPage, browser, BrowserOK
<1> QED BY <1>1, <1>2, OfPageStep, BrowserUndisturbed

LEMMA PopContextKeepsBrowser ==
  ASSUME Requests, BrowserOK, NEW c \in Call, PopContext(c)
  PROVE  BrowserOK'
<1> DEFINE a == call[c].agent
<1>1. /\ call[c] \in Request /\ call[c].kind = "close" /\ call[c].at = "start" /\ a \in Agent
      /\ call'[c].kind = "close" /\ call'[c].agent = a
      /\ \A d \in Call \ {c} : call'[d] = call[d]
      /\ UNCHANGED <<open, dead, unclosed, evidence, overlap>>
      /\ \/ contexts[a] = None /\ call'[c].at = "done" /\ UNCHANGED contexts
         \/ /\ contexts[a] # None /\ call'[c].at = "closing" /\ call'[c].held = contexts[a]
            /\ contexts' = [contexts EXCEPT ![a] = None]
  BY DEF PopContext, At, Hold, Return, Requests, Request, Unused
<1>2. \A d \in Call : d # c => Shutting(d)' = Shutting(d) /\ InContext(d)' = InContext(d)
  BY <1>1 DEF Shutting, InContext, At
<1>3. ~Shutting(c) /\ ~InContext(c) /\ ~InContext(c)' /\ ~Made(call[c]) /\ c \notin open
  BY <1>1 DEF Shutting, InContext, At, Browsing, BrowserOK, Made
<1>4. \A d \in open : d # c /\ d \in Call /\ Made(call'[d]) /\ call'[d] = call[d]
  BY <1>1, <1>3 DEF BrowserOK
<1>5. /\ contexts' \in [Agent -> Call \cup {None}]
      /\ \A b \in Agent : contexts'[b] = None \/ contexts'[b] = contexts[b]
      /\ \A b \in Agent : b # a => contexts'[b] = contexts[b]
  BY <1>1 DEF BrowserOK
<1>6. \A b \in Agent : contexts'[b] # None =>
        contexts'[b] \in open' /\ call'[contexts'[b]].agent = b
  BY <1>1, <1>4, <1>5 DEF BrowserOK
<1>7. ASSUME NEW d \in Call, Shutting(d)'
      PROVE  /\ call'[d].held \in Call /\ Made(call'[call'[d].held])
             /\ \A b \in Agent : contexts'[b] # call'[d].held
  <2>1. CASE d # c
    <3>1. Shutting(d) /\ call'[d] = call[d]
      BY <1>1, <1>2, <1>7, <2>1
    <3>2. /\ call[d].held \in Call /\ Made(call[call[d].held])
          /\ \A b \in Agent : contexts[b] # call[d].held
      BY <3>1 DEF BrowserOK
    <3>3. call[d].held # c /\ call[d].held # None
      BY <1>3, <3>2, MocksAssumption
    <3> QED BY <1>1, <1>5, <3>1, <3>2, <3>3
  <2>2. CASE d = c
    <3>1. /\ call'[c].held = contexts[a] /\ contexts[a] # None /\ contexts'[a] = None
      BY <1>1, <1>7, <2>2 DEF Shutting, At, BrowserOK
    <3>2. contexts[a] \in open /\ call[contexts[a]].agent = a
      BY <1>1, <3>1 DEF BrowserOK
    <3>3. \A b \in Agent : contexts'[b] # contexts[a]
      BY <1>1, <1>5, <3>1, <3>2 DEF BrowserOK
    <3> QED BY <1>4, <2>2, <3>1, <3>2, <3>3
  <2> QED BY <2>1, <2>2
<1>8. ASSUME NEW d \in open'
      PROVE  \/ \E e \in Call : Shutting(e)' /\ call'[e].held = d
             \/ contexts'[call'[d].agent] = d
             \/ call'[d].agent \in overlap'
             \/ d \in unclosed'
  <2>1. d \in open /\ call'[d] = call[d] /\ d \in Call
    BY <1>1, <1>4
  <2>2. CASE \E e \in Call : Shutting(e) /\ call[e].held = d
    BY <1>1, <1>2, <1>3, <2>2
  <2>3. CASE call[d].agent \in overlap
    BY <1>1, <2>1, <2>3
  <2>4. CASE contexts[call[d].agent] = d
    <3>1. call[d].agent \in Agent
      BY <2>1 DEF BrowserOK, Made, Browsing, Requests, Request, Unused
    <3>2. CASE call[d].agent # a
      BY <1>5, <2>1, <2>4, <3>1, <3>2
    <3>3. CASE call[d].agent = a
      <4>1. call'[c].at = "closing" /\ call'[c].held = d
        BY <1>1, <2>1, <2>4, <3>3, MocksAssumption
      <4> QED BY <1>1, <4>1 DEF Shutting, At
    <3> QED BY <3>2, <3>3
  <2> QED BY <1>1, <2>1, <2>2, <2>3, <2>4 DEF BrowserOK
<1>9. ASSUME NEW d \in Call, InContext(d)', call'[d].agent \notin overlap'
      PROVE  /\ contexts'[call'[d].agent] = None
             /\ \A e \in Call : InContext(e)' /\ call'[e].agent = call'[d].agent => e = d
  <2>1. d # c /\ InContext(d) /\ call'[d] = call[d] /\ overlap' = overlap
    BY <1>1, <1>2, <1>3, <1>9
  <2>2. /\ contexts[call[d].agent] = None
        /\ \A e \in Call : InContext(e) /\ call[e].agent = call[d].agent => e = d
    BY <1>9, <2>1 DEF BrowserOK
  <2>3. call[d].agent \in Agent
    BY <2>1 DEF InContext, At, Requests, Request, Unused, Browsing
  <2> QED BY <1>1, <1>2, <1>3, <1>5, <2>1, <2>2, <2>3
<1>10. /\ open' \subseteq Call /\ evidence' \subseteq Call /\ overlap' \subseteq Agent
       /\ dead' \subseteq Call /\ unclosed' \subseteq Call
  BY <1>1 DEF BrowserOK
<1> QED BY <1>1, <1>4, <1>5, <1>6, <1>7, <1>8, <1>9, <1>10 DEF BrowserOK

(* Nothing of the service's changes when a context dies. *)
LEMMA ContextDiesKeeps ==
  ASSUME BrowserOK, EvidenceOK, NEW c \in Call, ContextDies(c)
  PROVE  /\ BrowserOK' /\ EvidenceOK'
         /\ UNCHANGED <<call, ticket, comments, early, next, stored>>
<1>1. /\ UNCHANGED <<call, contexts, open, unclosed, evidence, overlap>> /\ dead' \subseteq Call
      /\ UNCHANGED tables
  BY DEF ContextDies, BrowserOK
<1>2. BrowserOK'
  BY <1>1 DEF BrowserOK, Shutting, InContext, At
<1> QED BY <1>1, <1>2 DEF EvidenceOK, Answered, tables

LEMMA CloseContextKeepsBrowser ==
  ASSUME Requests, BrowserOK, NEW c \in Call, CloseContext(c)
  PROVE  BrowserOK'
<1> DEFINE h == call[c].held
<1>1. /\ call[c] \in Request /\ call[c].kind = "close" /\ call[c].at = "closing"
      /\ call'[c].kind = "close" /\ call'[c].at = "done" /\ call'[c].held = h
      /\ \A d \in Call \ {c} : call'[d] = call[d]
      /\ UNCHANGED <<contexts, dead, evidence, overlap>> /\ open' \in {open, open \ {h}}
      /\ \/ unclosed' = unclosed /\ open' = open \ {h}
         \/ unclosed' = unclosed \cup {h}
  BY DEF CloseContext, At, Return, Requests, Request, Unused
<1>2. \A d \in Call : d # c => Shutting(d)' = Shutting(d) /\ InContext(d)' = InContext(d)
  BY <1>1 DEF Shutting, InContext, At
<1>3. Shutting(c) /\ ~Shutting(c)' /\ ~InContext(c)' /\ ~Made(call[c]) /\ c \notin open
  BY <1>1 DEF Shutting, InContext, At, Browsing, BrowserOK, Made
<1>4. h \in Call /\ \A a \in Agent : contexts[a] # h
  BY <1>3 DEF BrowserOK
<1>5. \A d \in open : d # c /\ d \in Call /\ Made(call'[d]) /\ call'[d] = call[d]
  BY <1>1, <1>3 DEF BrowserOK
<1>6. \A a \in Agent : contexts'[a] # None =>
        contexts'[a] \in open' /\ call'[contexts'[a]].agent = a
  BY <1>1, <1>4, <1>5 DEF BrowserOK
<1>7. ASSUME NEW d \in Call, Shutting(d)'
      PROVE  /\ call'[d].held \in Call /\ Made(call'[call'[d].held])
             /\ \A a \in Agent : contexts'[a] # call'[d].held
  <2>1. Shutting(d) /\ call'[d] = call[d]
    BY <1>1, <1>2, <1>3, <1>7
  <2>2. /\ call[d].held \in Call /\ Made(call[call[d].held])
        /\ \A a \in Agent : contexts[a] # call[d].held
    BY <2>1 DEF BrowserOK
  <2>3. call[d].held # c
    BY <1>3, <2>2
  <2> QED BY <1>1, <2>1, <2>2, <2>3
<1>8. ASSUME NEW d \in open'
      PROVE  \/ \E e \in Call : Shutting(e)' /\ call'[e].held = d
             \/ contexts'[call'[d].agent] = d
             \/ call'[d].agent \in overlap'
             \/ d \in unclosed'
  <2>1. d \in open /\ call'[d] = call[d] /\ (d = h => d \in unclosed')
    BY <1>1, <1>5
  <2>2. CASE \E e \in Call : Shutting(e) /\ call[e].held = d
    BY <1>1, <1>2, <2>1, <2>2
  <2>4. CASE d \in unclosed
    BY <1>1, <2>4
  <2>3. CASE call[d].agent \in overlap \/ contexts[call[d].agent] = d
    BY <1>1, <2>1, <2>3
  <2> QED BY <2>1, <2>2, <2>3, <2>4 DEF BrowserOK
<1>9. \A d \in Call : InContext(d)' => d # c /\ InContext(d) /\ call'[d] = call[d]
  BY <1>1, <1>2, <1>3
<1>10. \A d \in Call : InContext(d)' /\ call'[d].agent \notin overlap' =>
         /\ contexts'[call'[d].agent] = None
         /\ \A e \in Call : InContext(e)' /\ call'[e].agent = call'[d].agent => e = d
  BY <1>1, <1>9 DEF BrowserOK
<1>11. /\ open' \subseteq Call /\ evidence' \subseteq Call /\ overlap' \subseteq Agent
       /\ dead' \subseteq Call /\ unclosed' \subseteq Call
       /\ contexts' \in [Agent -> Call \cup {None}]
  BY <1>1, <1>4 DEF BrowserOK
<1>12. \A d \in open' : Made(call'[d])
  BY <1>1, <1>5
<1> QED BY <1>6, <1>7, <1>8, <1>10, <1>11, <1>12 DEF BrowserOK

-------------------------------------------------------------------------------
(* The evidence. *)

(* A request that is no screenshot, or does not list its picture. *)
LEMMA EvidenceUndisturbed ==
  ASSUME EvidenceOK, evidence' = evidence,
         \A c \in Call :
           /\ call[c].kind = "screenshot" =>
                call'[c].kind = "screenshot" /\ (call[c].shot => call'[c].shot)
           /\ Answered(c, "screenshot")' => Answered(c, "screenshot"),
         evidence \subseteq Call
  PROVE  EvidenceOK'
BY DEF EvidenceOK

LEMMA TakeScreenshotKeepsEvidence ==
  ASSUME Requests, Staged, BrowserOK, EvidenceOK, NEW c \in Call, TakeScreenshot(c)
  PROVE  EvidenceOK'
<1> DEFINE shot == [call[c] EXCEPT !.shot = TRUE, !.at = "shut"]
           gone == [call[c] EXCEPT !.at = "shut"]
<1>1. /\ call[c] \in Request /\ call[c].tool # "ok"
      /\ \A d \in Call \ {c} : call'[d] = call[d]
      /\ call'[c] = shot \/ call'[c] = gone
      /\ evidence' = evidence /\ evidence \subseteq Call
  BY DEF TakeScreenshot, At, Goto, Staged, Requests, Request, Unused, Browsing, browser,
     BrowserOK
<1>2. /\ shot.kind = call[c].kind /\ shot.tool = call[c].tool /\ shot.shot = TRUE
      /\ gone.kind = call[c].kind /\ gone.tool = call[c].tool /\ gone.shot = call[c].shot
  BY <1>1 DEF Request
<1> HIDE DEF shot, gone
<1>3. /\ call'[c].kind = call[c].kind /\ call'[c].tool # "ok"
      /\ call[c].shot => call'[c].shot
      /\ \A d \in Call \ {c} : call'[d] = call[d]
      /\ evidence' = evidence /\ evidence \subseteq Call
  BY <1>1, <1>2
<1>4. \A d \in Call :
        /\ call[d].kind = "screenshot" =>
             call'[d].kind = "screenshot" /\ (call[d].shot => call'[d].shot)
        /\ Answered(d, "screenshot")' => Answered(d, "screenshot")
  <2> TAKE d \in Call
  <2>1. CASE d = c
    BY <1>3, <2>1 DEF Answered
  <2>2. CASE d # c
    BY <1>3, <2>2 DEF Answered
  <2> QED BY <2>1, <2>2
<1> QED BY <1>3, <1>4, EvidenceUndisturbed

LEMMA ShutPageKeepsEvidence ==
  ASSUME Requests, Staged, BrowserOK, EvidenceOK, NEW c \in Call, ShutPage(c)
  PROVE  EvidenceOK'
<1>1. /\ call[c] \in Request /\ call'[c].kind = call[c].kind /\ call'[c].shot = call[c].shot
      /\ call[c].tool # "ok"
      /\ \A d \in Call \ {c} : call'[d] = call[d]
      /\ evidence \subseteq Call
  BY DEF ShutPage, At, Return, Staged, Requests, Request, Unused, Browsing, BrowserOK
<1>2. \/ call[c].kind = "screenshot" /\ call[c].shot /\ evidence' = evidence \cup {c}
      \/ evidence' = evidence /\ (call[c].kind = "screenshot" => call'[c].tool # "ok")
  BY <1>1 DEF ShutPage, Return, Requests, Request
<1>3. \A d \in evidence' : call'[d].kind = "screenshot" /\ call'[d].shot
  BY <1>1, <1>2 DEF EvidenceOK
<1>4. \A d \in Call : Answered(d, "screenshot")' => d \in evidence'
  <2> TAKE d \in Call
  <2>1. CASE d = c
    BY <1>1, <1>2, <2>1 DEF Answered
  <2>2. CASE d # c
    BY <1>1, <1>2, <2>2 DEF Answered, EvidenceOK
  <2> QED BY <2>1, <2>2
<1> QED BY <1>3, <1>4 DEF EvidenceOK
-------------------------------------------------------------------------------
(* Every step is one request's. *)

Alone(c) == call' = [d \in Call |-> IF d = c THEN call'[c] ELSE call[d]]

(* A step of the handler, which still answers the same request. *)
Handled(c) ==
  /\ Alone(c) /\ call[c] \in Request /\ call'[c] \in Request /\ call'[c].kind = call[c].kind
  /\ call'[c].tool = "ok" => call'[c].at = "done"
  /\ call'[c].at = "store" => call'[c].kind \in Series

LEMMA ReturnHandled ==
  ASSUME Requests, NEW c \in Call, call[c] \in Request,
         NEW answer \in {"ok", "error"}, Return(c, answer)
  PROVE  Handled(c)
<1> DEFINE r == [call[c] EXCEPT !.at = "done",
                                !.tool = IF @ = "waiting" THEN answer ELSE @]
<1>1. call' = [call EXCEPT ![c] = r]
  BY DEF Return
<1>2. r \in Request /\ r.kind = call[c].kind /\ r.at = "done"
  BY DEF Request
<1> HIDE DEF r
<1> QED BY <1>1, <1>2 DEF Requests, Handled, Alone

LEMMA HoldHandled ==
  ASSUME Requests, Staged, NEW c \in Call, call[c] \in Request, call[c].at # "done",
         NEW stage \in {"assign", "append", "store", "context", "page", "goto", "shoot",
                        "shut", "closing"},
         stage = "store" => call[c].kind \in Series,
         NEW thing \in Call \cup {None} \cup Number,
         Goto(c, stage) \/ Hold(c, thing, stage)
  PROVE  Handled(c)
<1> DEFINE r == [call[c] EXCEPT !.at = stage]
           q == [call[c] EXCEPT !.held = thing, !.at = stage]
<1>1. call' = [call EXCEPT ![c] = r] \/ call' = [call EXCEPT ![c] = q]
  BY DEF Goto, Hold
<1>2. call[c].tool # "ok"
  BY DEF Staged, Request, Unused
<1>3. /\ r \in Request /\ r.kind = call[c].kind /\ r.tool # "ok" /\ r.at = stage
      /\ q \in Request /\ q.kind = call[c].kind /\ q.tool # "ok" /\ q.at = stage
  BY <1>2 DEF Request
<1> HIDE DEF r, q
<1> QED BY <1>1, <1>3 DEF Requests, Handled, Alone

LEMMA TicketHandled ==
  ASSUME Requests, Staged, TicketOK, NEW c \in Call, TicketStep(c)
  PROVE  Handled(c) /\ call[c].kind \in {"write", "comment"}
         /\ UNCHANGED <<next, stored, browser>>
<1>1. /\ call[c] \in Request /\ call[c].kind \in {"write", "comment"}
      /\ UNCHANGED <<next, stored, browser>>
  BY DEF TicketStep, ReadComments, AssignTicket, FindTicket, AppendComment, At, Requests, Unused,
     tables
<1>2. CASE ReadComments(c)
  <2>1. call[c].at = "start" /\ ticket \in Call \cup {None}
    BY <1>2 DEF ReadComments, At, TicketOK
  <2> QED BY <1>1, <1>2, <2>1, HoldHandled DEF ReadComments
<1>3. CASE AssignTicket(c)
  BY <1>1, <1>3, ReturnHandled DEF AssignTicket
<1>4. CASE FindTicket(c)
  BY <1>1, <1>4, ReturnHandled, HoldHandled DEF FindTicket, At
<1>5. CASE AppendComment(c)
  BY <1>1, <1>5, ReturnHandled DEF AppendComment
<1> QED BY <1>1, <1>2, <1>3, <1>4, <1>5 DEF TicketStep

LEMMA SeriesHandled ==
  ASSUME Requests, Staged, SeriesOK, NEW c \in Call, SeriesStep(c)
  PROVE  Handled(c) /\ call[c].kind \in Series /\ UNCHANGED <<ticket, comments, early, browser>>
<1>1. /\ call[c] \in Request /\ call[c].kind \in Series
      /\ UNCHANGED <<ticket, comments, early, browser>>
  BY DEF SeriesStep, TakeNumber, Store, At, Requests, Unused, Series
<1>2. CASE TakeNumber(c)
  <2>1. call[c].at = "start"
    BY <1>2 DEF TakeNumber, At
  <2>2. next[call[c].kind] \in Number
    BY <1>1, <2>1, NumberLeft DEF Numbered
  <2> QED BY <1>1, <1>2, <2>1, <2>2, HoldHandled DEF TakeNumber
<1>3. CASE Store(c)
  BY <1>1, <1>3, ReturnHandled DEF Store
<1> QED BY <1>1, <1>2, <1>3 DEF SeriesStep

LEMMA BrowserHandled ==
  ASSUME Requests, Staged, BrowserOK, NEW c \in Call, BrowserStep(c)
  PROVE  Handled(c) /\ call[c].kind \in Browsing \cup {"close"} /\ UNCHANGED tables
<1>1. call[c] \in Request /\ call[c].kind \in Browsing \cup {"close"} /\ UNCHANGED tables
  BY DEF BrowserStep, GetContext, NewContext, NewPage, LoadPage, TakeScreenshot, ShutPage,
     PopContext, CloseContext, At, Requests, Unused, Browsing
<1>2. contexts[call[c].agent] \in Call \cup {None}
  BY <1>1 DEF BrowserOK, Request
<1>3. CASE GetContext(c)
  BY <1>1, <1>2, <1>3, HoldHandled DEF GetContext, At
<1>4. CASE NewContext(c)
  BY <1>1, <1>4, ReturnHandled, HoldHandled DEF NewContext, At
<1>5. CASE NewPage(c)
  BY <1>1, <1>5, ReturnHandled, HoldHandled DEF NewPage, At
<1>6. CASE LoadPage(c)
  BY <1>1, <1>6, HoldHandled DEF LoadPage, At
<1>7. CASE TakeScreenshot(c)
  <2> DEFINE r == [call[c] EXCEPT !.shot = TRUE, !.at = "shut"]
  <2>1. call[c].tool # "ok" /\ call[c].at = "shoot"
    BY <1>1, <1>7 DEF TakeScreenshot, At, Staged, Unused, Request
  <2>2. r \in Request /\ r.kind = call[c].kind /\ r.tool # "ok" /\ r.at = "shut"
    BY <1>1, <2>1 DEF Request
  <2>3. CASE call' = [call EXCEPT ![c] = r]
    <3> HIDE DEF r
    <3> QED BY <1>1, <2>2, <2>3 DEF Requests, Handled, Alone
  <2>4. CASE Goto(c, "shut")
    BY <1>1, <2>1, <2>4, HoldHandled
  <2> QED BY <1>7, <2>3, <2>4 DEF TakeScreenshot
<1>8. CASE ShutPage(c)
  BY <1>1, <1>8, ReturnHandled DEF ShutPage
<1>9. CASE PopContext(c)
  BY <1>1, <1>2, <1>9, ReturnHandled, HoldHandled DEF PopContext, At
<1>10. CASE CloseContext(c)
  BY <1>1, <1>10, ReturnHandled DEF CloseContext
<1> QED BY <1>1, <1>3, <1>4, <1>5, <1>6, <1>7, <1>8, <1>9, <1>10 DEF BrowserStep
-------------------------------------------------------------------------------
(* A step that is nothing to the handlers of these kinds: another kind's,  *)
(* a new request, or a tool that gives up.                                 *)
Outside(c, kinds) ==
  /\ \A d \in Call \ {c} : call'[d] = call[d]
  /\ \/ call[c].kind \notin kinds /\ call'[c].kind \notin kinds
     \/ /\ call[c] = Unused /\ call'[c] \in Request
        /\ call'[c].at = "start" /\ call'[c].tool = "waiting"
     \/ /\ call[c] \in Request /\ call'[c] \in Request /\ call'[c].tool = "error"
        /\ call'[c].kind = call[c].kind /\ call'[c].agent = call[c].agent
        /\ call'[c].at = call[c].at /\ call'[c].held = call[c].held
        /\ call'[c].shot = call[c].shot

LEMMA CallToolOutside ==
  ASSUME Requests, Staged, NEW c \in Call, NEW kind \in Kind, NEW a \in Agent,
         CallTool(c, kind, a), NEW kinds
  PROVE  Requests' /\ Staged' /\ Outside(c, kinds) /\ UNCHANGED <<tables, browser>>
<1> DEFINE r == [kind |-> kind, agent |-> a, tool |-> "waiting", at |-> "start",
                 held |-> None, shot |-> FALSE]
<1>1. r \in Request /\ r.at = "start" /\ r.tool = "waiting"
  BY DEF Request
<1>2. call' = [call EXCEPT ![c] = r] /\ call[c] = Unused /\ UNCHANGED <<tables, browser>>
  BY DEF CallTool
<1> HIDE DEF r
<1>3. /\ call'[c] = r /\ \A d \in Call \ {c} : call'[d] = call[d]
      /\ call' \in [Call -> Request \cup {Unused}]
  BY <1>1, <1>2 DEF Requests
<1> QED BY <1>1, <1>2, <1>3 DEF Requests, Staged, Outside

LEMMA GiveUpOutside ==
  ASSUME Requests, Staged, NEW c \in Call, GiveUp(c), NEW kinds
  PROVE  Requests' /\ Staged' /\ Outside(c, kinds) /\ UNCHANGED <<tables, browser>>
<1> DEFINE r == [call[c] EXCEPT !.tool = "error"]
<1>1. call[c] \in Request /\ call[c] # Unused
  BY DEF GiveUp, Requests
<1>2. /\ r \in Request /\ r.tool = "error" /\ r.kind = call[c].kind /\ r.agent = call[c].agent
      /\ r.at = call[c].at /\ r.held = call[c].held /\ r.shot = call[c].shot
  BY <1>1 DEF Request
<1>3. call' = [call EXCEPT ![c] = r] /\ UNCHANGED <<tables, browser>>
  BY DEF GiveUp
<1> HIDE DEF r
<1>4. /\ call'[c] = r /\ \A d \in Call \ {c} : call'[d] = call[d]
      /\ call' \in [Call -> Request \cup {Unused}]
  BY <1>2, <1>3 DEF Requests
<1>5. Staged'
  BY <1>1, <1>2, <1>4 DEF Staged
<1> QED BY <1>1, <1>2, <1>3, <1>4, <1>5 DEF Requests, Outside

LEMMA HandledOutside ==
  ASSUME Requests, Staged, NEW c \in Call, Handled(c)
  PROVE  /\ Requests' /\ Staged'
         /\ \A kinds : call[c].kind \notin kinds => Outside(c, kinds)
<1>1. call'[c] \in Request /\ \A d \in Call \ {c} : call'[d] = call[d]
  BY DEF Handled, Alone
<1>2. Requests'
  BY <1>1 DEF Handled, Alone, Requests
<1> QED BY <1>1, <1>2 DEF Handled, Staged, Outside

LEMMA OutsideSeries ==
  ASSUME SeriesOK, NEW c \in Call, Outside(c, Series), UNCHANGED <<next, stored>>
  PROVE  SeriesOK'
<1>1. \A s \in Series, d \in Call :
        /\ (d \in Numbered(s))' <=> d \in Numbered(s)
        /\ d \in Numbered(s) => call'[d].held = call[d].held /\ call'[d].at = call[d].at
  <2> TAKE s \in Series, d \in Call
  <2>1. CASE d # c
    BY <2>1 DEF Outside, Numbered
  <2>2. CASE d = c
    BY <2>2 DEF Outside, Numbered, Unused
  <2> QED BY <2>1, <2>2
<1>2. \A s \in Series : Numbered(s)' = Numbered(s) /\ Numbered(s) \subseteq Call
  BY <1>1 DEF Numbered
<1> QED BY <1>1, <1>2, SeriesUndisturbed

LEMMA OutsideTicket ==
  ASSUME TicketOK, NEW c \in Call, Outside(c, {"write", "comment"}),
         UNCHANGED <<ticket, comments, early>>
  PROVE  TicketOK'
<1>1. \A d \in Call :
        /\ Writing(d)' => Writing(d) /\ call'[d].held = call[d].held
        /\ Commenting(d)' => Commenting(d)
        /\ Commented(d) => Commented(d)'
        /\ Answered(d, "comment")' => Answered(d, "comment")
  <2> TAKE d \in Call
  <2>1. CASE d # c
    BY <2>1 DEF Outside, Writing, Commenting, Commented, Answered, At
  <2>2. CASE d = c
    BY <2>2 DEF Outside, Writing, Commenting, Commented, Answered, At, Unused
  <2> QED BY <2>1, <2>2
<1> QED BY <1>1, TicketUndisturbed

LEMMA OutsideBrowser ==
  ASSUME BrowserOK, EvidenceOK, NEW c \in Call, Outside(c, Browsing \cup {"close"}),
         UNCHANGED browser
  PROVE  BrowserOK' /\ EvidenceOK'
<1>1. /\ UNCHANGED <<contexts, open, dead, unclosed, evidence, overlap>>
      /\ evidence' \subseteq Call /\ dead' \subseteq Call
  BY DEF browser, BrowserOK
<1>2. ASSUME NEW d \in Call
      PROVE  /\ Shutting(d)' = Shutting(d) /\ InContext(d)' = InContext(d)
             /\ Shutting(d) => call'[d].held = call[d].held
             /\ call[d].kind \in Browsing => call'[d].agent = call[d].agent
             /\ Made(call[d]) => Made(call'[d])
             /\ call[d].kind = "screenshot" =>
                  call'[d].kind = "screenshot" /\ (call[d].shot => call'[d].shot)
             /\ Answered(d, "screenshot")' => Answered(d, "screenshot")
  <2>1. CASE d # c
    BY <2>1 DEF Outside, Shutting, InContext, At, Answered
  <2>2. CASE d = c
    BY <2>2 DEF Outside, Shutting, InContext, At, Made, Answered, Unused, Browsing
  <2> QED BY <2>1, <2>2
<1>3. BrowserOK'
  BY <1>1, <1>2, BrowserUndisturbed
<1>4. EvidenceOK'
  BY <1>1, <1>2, EvidenceUndisturbed
<1> QED BY <1>3, <1>4

(* The browser's other steps list nothing, and acknowledge no screenshot. *)
LEMMA OthersKeepEvidence ==
  ASSUME Requests, Staged, BrowserOK, EvidenceOK, NEW c \in Call,
         GetContext(c) \/ NewContext(c) \/ NewPage(c) \/ LoadPage(c)
         \/ PopContext(c) \/ CloseContext(c)
  PROVE  EvidenceOK'
<1>1. /\ call[c] \in Request /\ evidence' = evidence /\ evidence \subseteq Call
      /\ call[c].kind \in Browsing \cup {"close"}
      /\ call[c].kind = "screenshot" => call[c].at # "done"
      /\ \/ \E stage \in {"context", "page", "goto", "shoot", "shut", "closing"} :
              Goto(c, stage) \/ \E thing \in Call \cup {None} : Hold(c, thing, stage)
         \/ Return(c, "error")
         \/ call[c].kind = "close" /\ Return(c, "ok")
  <2>1. evidence' = evidence
    BY DEF GetContext, NewContext, NewPage, LoadPage, PopContext, CloseContext, browser
  <2>2. call[c] \in Request /\ call[c].kind \in Browsing \cup {"close"} /\ call[c].at # "done"
    BY DEF GetContext, NewContext, NewPage, LoadPage, PopContext, CloseContext, At, Requests,
       Unused, Browsing
  <2>3. evidence \subseteq Call /\ contexts[call[c].agent] \in Call \cup {None}
    BY <2>2 DEF BrowserOK, Request
  <2>4. \/ \E stage \in {"context", "page", "goto", "shoot", "shut", "closing"} :
              Goto(c, stage) \/ \E thing \in Call \cup {None} : Hold(c, thing, stage)
        \/ Return(c, "error")
        \/ call[c].kind = "close" /\ Return(c, "ok")
    <3>1. CASE GetContext(c) \/ NewContext(c)
      BY <2>3, <3>1 DEF GetContext, NewContext
    <3>2. CASE NewPage(c) \/ LoadPage(c)
      BY <3>2 DEF NewPage, LoadPage
    <3>3. CASE PopContext(c) \/ CloseContext(c)
      BY <2>3, <3>3 DEF PopContext, CloseContext, At
    <3> QED BY <3>1, <3>2, <3>3
  <2> QED BY <2>1, <2>2, <2>3, <2>4
<1>2. /\ \A d \in Call \ {c} : call'[d] = call[d]
      /\ call'[c].kind = call[c].kind /\ call'[c].shot = call[c].shot
      /\ call[c].kind = "screenshot" /\ call'[c].tool = "ok" => call[c].tool = "ok"
  <2>1. CASE \E stage \in {"context", "page", "goto", "shoot", "shut", "closing"} :
              Goto(c, stage) \/ \E thing \in Call \cup {None} : Hold(c, thing, stage)
    <3>1. PICK stage \in {"context", "page", "goto", "shoot", "shut", "closing"} :
            Goto(c, stage) \/ \E thing \in Call \cup {None} : Hold(c, thing, stage)
      BY <2>1
    <3>2. CASE Goto(c, stage)
      BY <1>1, <3>2 DEF Goto, Requests, Request
    <3>3. ASSUME NEW thing \in Call \cup {None}, Hold(c, thing, stage)
          PROVE  call'[c] = [call[c] EXCEPT !.held = thing, !.at = stage]
                 /\ \A d \in Call \ {c} : call'[d] = call[d]
      BY <1>1, <3>3 DEF Hold, Requests
    <3>4. CASE \E thing \in Call \cup {None} : Hold(c, thing, stage)
      BY <1>1, <3>3, <3>4 DEF Request
    <3> QED BY <3>1, <3>2, <3>4
  <2>2. CASE Return(c, "error") \/ (call[c].kind = "close" /\ Return(c, "ok"))
    BY <1>1, <2>2 DEF Return, Requests, Request
  <2> QED BY <1>1, <2>1, <2>2
<1>3. \A d \in Call :
        /\ call[d].kind = "screenshot" =>
             call'[d].kind = "screenshot" /\ (call[d].shot => call'[d].shot)
        /\ Answered(d, "screenshot")' => Answered(d, "screenshot")
  <2> TAKE d \in Call
  <2>1. CASE d = c
    BY <1>2, <2>1 DEF Answered
  <2>2. CASE d # c
    BY <1>2, <2>2 DEF Answered
  <2> QED BY <2>1, <2>2
<1> QED BY <1>1, <1>3, EvidenceUndisturbed
-------------------------------------------------------------------------------
(* The inductive invariant: the services' invariants together. *)
IInv == Requests /\ Staged /\ SeriesOK /\ TicketOK /\ BrowserOK /\ EvidenceOK

LEMMA InitIInv == Init => IInv
<1> SUFFICES ASSUME Init PROVE IInv
  OBVIOUS
<1>1. \A c \in Call : call[c] = Unused
  BY DEF Init
<1>2. Requests /\ Staged
  BY <1>1 DEF Init, Requests, Staged
<1>3. \A s \in Series : Numbered(s) = {}
  BY <1>1 DEF Numbered, Unused
<1>4. SeriesOK
  <2>1. Cardinality({}) = 0
    BY FS_EmptySet
  <2>2. \A s \in Series : next[s] = 1 /\ Cardinality(Numbered(s)) = 0
    BY <1>3, <2>1 DEF Init
  <2>3. /\ stored \in [Series -> [Number -> Call \cup {None}]]
        /\ next \in [Series -> Nat]
    BY DEF Init
  <2> QED BY <1>3, <2>2, <2>3 DEF SeriesOK
<1>5. TicketOK
  BY <1>1 DEF Init, TicketOK, Writing, Commenting, Commented, Answered, At, Unused
<1>6. BrowserOK
  BY <1>1 DEF Init, BrowserOK, Shutting, InContext, At, Unused
<1>7. EvidenceOK
  BY <1>1 DEF Init, EvidenceOK, Answered, Unused
<1> QED BY <1>2, <1>4, <1>5, <1>6, <1>7 DEF IInv

LEMMA TicketStepKeeps ==
  ASSUME IInv, NEW c \in Call, TicketStep(c)
  PROVE  IInv'
<1> USE DEF IInv
<1>1. TicketOK'
  BY ReadCommentsKeepsTicket, AssignTicketKeepsTicket, FindTicketKeepsTicket,
     AppendCommentKeepsTicket DEF TicketStep
<1>2. Handled(c) /\ call[c].kind \in {"write", "comment"} /\ UNCHANGED <<next, stored, browser>>
  BY TicketHandled
<1>3. call[c].kind \notin Series /\ call[c].kind \notin Browsing \cup {"close"}
  BY <1>2 DEF Series, Browsing
<1>4. Requests' /\ Staged' /\ Outside(c, Series) /\ Outside(c, Browsing \cup {"close"})
  BY <1>2, <1>3, HandledOutside
<1> QED BY <1>1, <1>2, <1>4, OutsideSeries, OutsideBrowser

LEMMA SeriesStepKeeps ==
  ASSUME IInv, NEW c \in Call, SeriesStep(c)
  PROVE  IInv'
<1> USE DEF IInv
<1>1. SeriesOK'
  BY TakeNumberKeepsSeries, StoreKeepsSeries DEF SeriesStep
<1>2. Handled(c) /\ call[c].kind \in Series /\ UNCHANGED <<ticket, comments, early, browser>>
  BY SeriesHandled
<1>3. call[c].kind \notin {"write", "comment"} /\ call[c].kind \notin Browsing \cup {"close"}
  BY <1>2 DEF Series, Browsing
<1>4. /\ Requests' /\ Staged' /\ Outside(c, {"write", "comment"})
      /\ Outside(c, Browsing \cup {"close"})
  BY <1>2, <1>3, HandledOutside
<1> QED BY <1>1, <1>2, <1>4, OutsideTicket, OutsideBrowser

LEMMA BrowserStepKeeps ==
  ASSUME IInv, NEW c \in Call, BrowserStep(c)
  PROVE  IInv'
<1> USE DEF IInv
<1>1. BrowserOK'
  BY GetContextKeepsBrowser, NewContextKeepsBrowser, PageStepKeepsBrowser,
     PopContextKeepsBrowser, CloseContextKeepsBrowser DEF BrowserStep, PageStep
<1>2. EvidenceOK'
  BY TakeScreenshotKeepsEvidence, ShutPageKeepsEvidence, OthersKeepEvidence DEF BrowserStep
<1>3. Handled(c) /\ call[c].kind \in Browsing \cup {"close"} /\ UNCHANGED tables
  BY BrowserHandled
<1>4. call[c].kind \notin {"write", "comment"} /\ call[c].kind \notin Series
  BY <1>3 DEF Series, Browsing
<1>5. Requests' /\ Staged' /\ Outside(c, {"write", "comment"}) /\ Outside(c, Series)
  BY <1>3, <1>4, HandledOutside
<1>6. UNCHANGED <<ticket, comments, early, next, stored>>
  BY <1>3 DEF tables
<1> QED BY <1>1, <1>2, <1>5, <1>6, OutsideTicket, OutsideSeries

LEMMA ToolKeeps ==
  ASSUME IInv, NEW c \in Call,
         (\E kind \in Kind, a \in Agent : CallTool(c, kind, a)) \/ GiveUp(c)
  PROVE  IInv'
<1> USE DEF IInv
<1>1. /\ Requests' /\ Staged' /\ UNCHANGED <<tables, browser>>
      /\ \A kinds : Outside(c, kinds)
  BY CallToolOutside, GiveUpOutside
<1>2. UNCHANGED <<ticket, comments, early, next, stored>>
  BY <1>1 DEF tables
<1>3. /\ Outside(c, {"write", "comment"}) /\ Outside(c, Series)
      /\ Outside(c, Browsing \cup {"close"})
  BY <1>1
<1> QED BY <1>1, <1>2, <1>3, OutsideTicket, OutsideSeries, OutsideBrowser

LEMMA DeathKeeps ==
  ASSUME IInv, NEW c \in Call, ContextDies(c)
  PROVE  IInv'
<1>1. BrowserOK' /\ EvidenceOK' /\ UNCHANGED <<call, ticket, comments, early, next, stored>>
  BY ContextDiesKeeps DEF IInv
<1>2. Requests' /\ Staged'
  BY <1>1 DEF IInv, Requests, Staged
<1>3. SeriesOK'
  BY <1>1, SeriesUndisturbed DEF IInv, Numbered
<1>4. TicketOK'
  BY <1>1, TicketUndisturbed DEF IInv, Writing, Commenting, Commented, Answered, At
<1> QED BY <1>1, <1>2, <1>3, <1>4 DEF IInv

LEMMA NextIInv == IInv /\ [Next]_vars => IInv'
<1> SUFFICES ASSUME IInv, [Next]_vars PROVE IInv'
  OBVIOUS
<1>1. CASE Next
  BY <1>1, TicketStepKeeps, SeriesStepKeeps, BrowserStepKeeps, ToolKeeps, DeathKeeps DEF Next
<1>2. CASE UNCHANGED vars
  <2>1. Requests' /\ Staged' /\ EvidenceOK'
    BY <1>2 DEF vars, IInv, Requests, Staged, EvidenceOK, Answered
  <2>2. SeriesOK'
    BY <1>2 DEF vars, IInv, SeriesOK, Numbered
  <2>3. TicketOK'
    BY <1>2, TicketUndisturbed DEF vars, IInv, Writing, Commenting, Commented, Answered, At
  <2>4. BrowserOK'
    BY <1>2 DEF vars, IInv, BrowserOK, Shutting, InContext, At
  <2> QED BY <2>1, <2>2, <2>3, <2>4 DEF IInv
<1> QED BY <1>1, <1>2

(* What the services keep, with any number of requests: see IInv. *)
THEOREM MockServicesInvariant == Spec => []IInv
<1> QED BY InitIInv, NextIInv, PTL DEF Spec

(* Every variable stays within its type: there is a number for every       *)
(* request that will be stored, and it has been used up.                   *)
THEOREM MockServicesTypes == Spec => []TypeOK
<1>1. ASSUME IInv PROVE TypeOK
  <2>1. next \in [Series -> Number \cup {Cardinality(Call) + 1}]
    <3>1. ASSUME NEW s \in Series PROVE next[s] \in Number \cup {Cardinality(Call) + 1}
      BY <1>1, NumberedFinite DEF IInv, SeriesOK, Number
    <3> QED BY <1>1, <3>1 DEF IInv, SeriesOK
  <2>2. ASSUME NEW c \in Call, call[c].at = "store" PROVE call[c].held < next[call[c].kind]
    <3>1. call[c] \in Request
      BY <1>1, <2>2 DEF IInv, Requests, Unused
    <3>2. call[c].kind \in Series
      BY <1>1, <2>2, <3>1 DEF IInv, Staged, Request, Unused
    <3> QED BY <1>1, <2>2, <3>2 DEF IInv, SeriesOK, Numbered
  <2>3. /\ call \in [Call -> Request \cup {Unused}] /\ ticket \in Call \cup {None}
        /\ comments \in [Call -> Seq(Call)] /\ early \subseteq Call
        /\ stored \in [Series -> [Number -> Call \cup {None}]]
        /\ contexts \in [Agent -> Call \cup {None}]
        /\ open \subseteq Call /\ evidence \subseteq Call /\ overlap \subseteq Agent
        /\ dead \subseteq Call /\ unclosed \subseteq Call
    BY <1>1 DEF IInv, Requests, SeriesOK, TicketOK, BrowserOK
  <2> QED BY <2>1, <2>2, <2>3 DEF TypeOK
<1> QED BY <1>1, MockServicesInvariant, PTL

(* A pull request or an issue that was acknowledged is found under its     *)
(* number, however many are opened at once.                                *)
THEOREM NumbersAreOwn == Spec => []NumbersOwn
<1>1. IInv => NumbersOwn
  BY DEF IInv, Requests, Staged, SeriesOK, Numbered, NumbersOwn, Answered, Unused, Series
<1> QED BY <1>1, MockServicesInvariant, PTL

(* A comment that was acknowledged is on the ticket, once, unless two      *)
(* writes began before there was a ticket.                                 *)
THEOREM CommentsAreKept == Spec => []CommentsKept
<1>1. ASSUME IInv, NEW c \in Call, Answered(c, "comment"), ~(Cardinality(early) > 1)
      PROVE  Cardinality({i \in DOMAIN comments[ticket] : comments[ticket][i] = c}) = 1
  <2>1. early \subseteq Call
    BY <1>1 DEF IInv, TicketOK
  <2>2. IsFiniteSet(early) /\ Cardinality(early) \in Nat
    BY <2>1, MocksAssumption, FS_Subset, FS_CardinalityType
  <2>3. Single
    <3>1. CASE early = {}
      BY <3>1 DEF Single
    <3>2. CASE early # {}
      <4>1. Cardinality(early) = 1
        BY <1>1, <2>2, <3>2, FS_EmptySet
      <4> QED BY <2>2, <4>1, FS_Singleton DEF Single
    <3> QED BY <3>1, <3>2
  <2>4. PICK i \in DOMAIN comments[ticket] :
          {j \in DOMAIN comments[ticket] : comments[ticket][j] = c} = {i}
    BY <1>1, <2>3 DEF IInv, TicketOK, Once
  <2> QED BY <2>4, FS_Singleton
<1>2. IInv => CommentsKept
  BY <1>1 DEF CommentsKept
<1> QED BY <1>2, MockServicesInvariant, PTL

(* The browser's table offers no context that was closed, and one that     *)
(* runs is lost only when two requests of its agent were making one at     *)
(* once, or its close() raised (mcp_browser, _get_context, close_agent).   *)
THEOREM ContextsAreHeld == Spec => []ContextsHeld
<1>1. ASSUME IInv PROVE ContextsHeld
  <2>1. \A d \in Call : Shutting(d) => call[d].held \in Closing
    BY DEF Shutting, Closing, At
  <2>2. \A a \in Agent : contexts[a] \in open \cup {None}
    BY <1>1 DEF IInv, BrowserOK
  <2>3. ASSUME NEW c \in open
        PROVE  \/ c \in Closing \cup unclosed \cup {contexts[call[c].agent]}
               \/ call[c].agent \in overlap
    <3>1. \/ \E d \in Call : Shutting(d) /\ call[d].held = c
          \/ contexts[call[c].agent] = c
          \/ call[c].agent \in overlap
          \/ c \in unclosed
      BY <1>1 DEF IInv, BrowserOK
    <3> QED BY <2>1, <3>1
  <2> QED BY <2>2, <2>3 DEF ContextsHeld
<1> QED BY <1>1, MockServicesInvariant, PTL

(* Every piece of evidence has its picture, and a screenshot that was      *)
(* acknowledged is listed.                                                 *)
THEOREM EvidenceIsAlwaysReal == Spec => []EvidenceIsReal
<1>1. IInv => EvidenceIsReal
  BY DEF IInv, EvidenceOK, EvidenceIsReal
<1> QED BY <1>1, MockServicesInvariant, PTL
===============================================================================
