----------------------------- MODULE MockServices -----------------------------
(***************************************************************************)
(* The services behind the agents' tools, and the tools' way of calling    *)
(* them.  Tickets, pull requests and issues are dictionaries of a process  *)
(* whose plain handlers run in a thread pool: a handler can be interrupted *)
(* where it calls something, not in between.  The browser's handlers are   *)
(* coroutines, interrupted where they await.  A tool gives up after 30     *)
(* seconds and reports a failure; its handler goes on.  One project, and   *)
(* so one ticket.                                                          *)
(***************************************************************************)
EXTENDS Naturals, FiniteSets, Sequences, SequencesExt

CONSTANTS
  Call,    \* the requests, and what each of them creates
  Agent,   \* the agents a browser context is for
  None     \* no call's doing

ASSUME MocksAssumption == IsFiniteSet(Call) /\ None \notin Call

Series == {"pr", "issue"}

Dictionary == {"write", "comment"} \cup Series

Browsing == {"navigate", "screenshot"}

Kind == Dictionary \cup Browsing \cup {"close"}

VARIABLES
  call,      \* [Call -> the request: its tool's end and its handler]
  ticket,    \* the write whose list of comments the ticket has
  comments,  \* [Call -> that list, for the write that made one]
  early,     \* the writes that began before there was a ticket
  next,      \* [Series -> the number of the next one]
  stored,    \* [Series -> [number -> the request stored under it]]
  contexts,  \* [Agent -> the request whose context is in the table]
  open,      \* the contexts made and not closed, by the request that made them
  dead,      \* those that have died in Chromium
  unclosed,  \* those whose close() has raised
  evidence,  \* the screenshots listed
  overlap    \* the agents two of whose requests were making a context at once

vars == <<call, ticket, comments, early, next, stored,
          contexts, open, dead, unclosed, evidence, overlap>>

tables == <<ticket, comments, early, next, stored>>
browser == <<contexts, open, dead, unclosed, evidence, overlap>>

Number == 1..Cardinality(Call)

(* tool: what the agent has been told.  held: the list, number or context  *)
(* the handler has in hand.                                                *)
Request ==
  [kind : Kind, agent : Agent, tool : {"waiting", "ok", "error"},
   at : {"start", "assign", "append", "store", "context", "page", "goto", "shoot", "shut",
         "closing", "done"},
   held : Call \cup {None} \cup Number, shot : BOOLEAN]

Unused == [kind |-> "unused", at |-> "unused"]

TypeOK ==
  /\ call \in [Call -> Request \cup {Unused}]
  /\ ticket \in Call \cup {None}
  /\ comments \in [Call -> Seq(Call)]
  /\ next \in [Series -> Number \cup {Cardinality(Call) + 1}]
  /\ stored \in [Series -> [Number -> Call \cup {None}]]
  /\ \A c \in Call : call[c].at = "store" => call[c].held < next[call[c].kind]
  /\ contexts \in [Agent -> Call \cup {None}]
  /\ early \subseteq Call /\ evidence \subseteq Call /\ overlap \subseteq Agent
  /\ open \subseteq Call /\ dead \subseteq Call /\ unclosed \subseteq Call

Init ==
  /\ call = [c \in Call |-> Unused]
  /\ ticket = None /\ comments = [c \in Call |-> <<>>] /\ early = {}
  /\ next = [s \in Series |-> 1]
  /\ stored = [s \in Series |-> [n \in Number |-> None]]
  /\ contexts = [a \in Agent |-> None]
  /\ open = {} /\ dead = {} /\ unclosed = {} /\ evidence = {} /\ overlap = {}
-------------------------------------------------------------------------------
At(c, kinds, stage) == call[c].kind \in kinds /\ call[c].at = stage

Goto(c, stage) == call' = [call EXCEPT ![c].at = stage]

Hold(c, thing, stage) == call' = [call EXCEPT ![c].held = thing, ![c].at = stage]

(* The handler returns or raises; the tool hears of it if it still waits.  *)
Return(c, answer) ==
  call' = [call EXCEPT ![c].at = "done",
                       ![c].tool = IF @ = "waiting" THEN answer ELSE @]

(* A tool is called: by an agent's model, which may call several at once,  *)
(* and again what has failed.                                              *)
CallTool(c, kind, a) ==
  /\ call[c] = Unused
  /\ call' = [call EXCEPT ![c] = [kind |-> kind, agent |-> a, tool |-> "waiting",
                                  at |-> "start", held |-> None, shot |-> FALSE]]
  /\ UNCHANGED <<tables, browser>>

(* The client's timeout, which _safe turns into a payload. *)
GiveUp(c) ==
  /\ call[c] # Unused
  /\ call[c].tool = "waiting"
  /\ call' = [call EXCEPT ![c].tool = "error"]
  /\ UNCHANGED <<tables, browser>>
-------------------------------------------------------------------------------
(* Tickets. *)

Early(c) == early' = IF ticket = None THEN early \cup {c} ELSE early

(* A slip: the comments so far are copied. *)
CopyComments(c) ==
  /\ At(c, {"write"}, "start")
  /\ comments' = IF ticket = None THEN comments ELSE [comments EXCEPT ![c] = comments[ticket]]
  /\ Hold(c, c, "assign") /\ Early(c)
  /\ UNCHANGED <<ticket, next, stored, browser>>

(* write_ticket: the list of the ticket there is, or a new one ... *)
ReadComments(c) ==
  /\ At(c, {"write"}, "start")
  /\ Hold(c, IF ticket = None THEN c ELSE ticket, "assign") /\ Early(c)
  /\ UNCHANGED <<ticket, comments, next, stored, browser>>

(* ... goes into the new ticket once the time has been asked. *)
AssignTicket(c) ==
  /\ At(c, {"write"}, "assign")
  /\ ticket' = call[c].held
  /\ Return(c, "ok")
  /\ UNCHANGED <<comments, early, next, stored, browser>>

(* add_comment: 404 without a ticket ... *)
FindTicket(c) ==
  /\ At(c, {"comment"}, "start")
  /\ IF ticket = None THEN Return(c, "error") ELSE Goto(c, "append")
  /\ UNCHANGED <<tables, browser>>

(* ... or the entry goes to the list the ticket has by then. *)
AppendComment(c) ==
  /\ At(c, {"comment"}, "append")
  /\ comments' = [comments EXCEPT ![ticket] = Append(@, c)]
  /\ Return(c, "ok")
  /\ UNCHANGED <<ticket, early, next, stored, browser>>
-------------------------------------------------------------------------------
(* Pull requests and issues. *)

(* A slip: something is called between the number and its increment. *)
TakeNumberSlowly(c) ==
  /\ call[c].kind \in Series
  /\ \/ At(c, Series, "start") /\ Hold(c, next[call[c].kind], "append") /\ UNCHANGED next
     \/ /\ At(c, Series, "append")
        /\ next' = [next EXCEPT ![call[c].kind] = call[c].held + 1]
        /\ Goto(c, "store")
  /\ UNCHANGED <<ticket, comments, early, stored, browser>>

(* A slip: the number is not used up. *)
TakeNumberOnly(c) ==
  /\ At(c, Series, "start")
  /\ Hold(c, next[call[c].kind], "store")
  /\ UNCHANGED <<tables, browser>>

(* open_pr, create_issue: the number is read and increased with no call in *)
(* between ...                                                             *)
TakeNumber(c) ==
  /\ At(c, Series, "start")
  /\ Hold(c, next[call[c].kind], "store")
  /\ next' = [next EXCEPT ![call[c].kind] = @ + 1]
  /\ UNCHANGED <<ticket, comments, early, stored, browser>>

(* ... and is used after the time has been asked. *)
Store(c) ==
  /\ At(c, Series, "store")
  /\ stored' = [stored EXCEPT ![call[c].kind][call[c].held] = c]
  /\ Return(c, "ok")
  /\ UNCHANGED <<ticket, comments, early, next, browser>>
-------------------------------------------------------------------------------
(* The browser. *)

Making(a) == {c \in Call : At(c, Browsing, "context") /\ call[c].agent = a}

(* A slip: a context of its own for every request. *)
GetContextAnew(c) ==
  /\ At(c, Browsing, "start")
  /\ Goto(c, "context")
  /\ overlap' = IF Making(call[c].agent) = {} THEN overlap ELSE overlap \cup {call[c].agent}
  /\ UNCHANGED <<tables, contexts, open, dead, unclosed, evidence>>

(* _get_context: the agent's context, if it has one ... *)
GetContext(c) ==
  LET a == call[c].agent
  IN /\ At(c, Browsing, "start")
     /\ IF contexts[a] # None THEN Hold(c, contexts[a], "page") /\ UNCHANGED overlap
        ELSE /\ Goto(c, "context")
             /\ overlap' = IF Making(a) = {} THEN overlap ELSE overlap \cup {a}
     /\ UNCHANGED <<tables, contexts, open, dead, unclosed, evidence>>

(* ... or one that is made, and put into the table whatever is there by    *)
(* then.  Chromium may refuse.                                             *)
NewContext(c) ==
  /\ At(c, Browsing, "context")
  /\ \/ /\ contexts' = [contexts EXCEPT ![call[c].agent] = c]
        /\ open' = open \cup {c}
        /\ Hold(c, c, "page")
     \/ Return(c, "error") /\ UNCHANGED <<contexts, open>>
  /\ UNCHANGED <<tables, dead, unclosed, evidence, overlap>>

(* A context dies in Chromium, and its pages with it: nobody is told.      *)
ContextDies(c) ==
  /\ c \in open \ dead
  /\ dead' = dead \cup {c}
  /\ UNCHANGED <<call, tables, contexts, open, unclosed, evidence, overlap>>

Alive(c) == call[c].held \in open \ dead

(* A context that has died, or been closed since, has no pages to give:    *)
(* this raises.                                                            *)
NewPage(c) ==
  /\ At(c, Browsing, "page")
  /\ IF Alive(c) THEN Goto(c, "goto") ELSE Return(c, "error")
  /\ UNCHANGED <<tables, browser>>

(* goto: the page loads, or not; a page goes with its context. *)
LoadPage(c) ==
  /\ At(c, Browsing, "goto")
  /\ \/ /\ Alive(c)
        /\ Goto(c, IF call[c].kind = "screenshot" THEN "shoot" ELSE "shut")
     \/ Goto(c, "shut")
  /\ UNCHANGED <<tables, browser>>

(* The picture is written, or not; what comes after it may still fail. *)
TakeScreenshot(c) ==
  /\ At(c, Browsing, "shoot")
  /\ \/ Alive(c) /\ call' = [call EXCEPT ![c].shot = TRUE, ![c].at = "shut"]
     \/ Goto(c, "shut")
  /\ UNCHANGED <<tables, browser>>

(* A slip: what was looked for is listed, found or not. *)
ShutPageListing(c) ==
  /\ At(c, Browsing, "shut")
  /\ evidence' = IF call[c].kind = "screenshot" THEN evidence \cup {c} ELSE evidence
  /\ Return(c, "ok")
  /\ UNCHANGED <<tables, contexts, open, dead, unclosed, overlap>>

(* The page is closed in any case, which may raise instead of what follows. *)
(* A screenshot that was taken is listed, one that was not is a 500; a page *)
(* that was not reached is an answer.                                      *)
ShutPage(c) ==
  /\ At(c, Browsing, "shut")
  /\ \/ /\ call[c].kind = "screenshot" /\ call[c].shot
        /\ evidence' = evidence \cup {c} /\ Return(c, "ok")
     \/ call[c].kind = "navigate" /\ Return(c, "ok") /\ UNCHANGED evidence
     \/ Return(c, "error") /\ UNCHANGED evidence
  /\ UNCHANGED <<tables, contexts, open, dead, unclosed, overlap>>

(* close_agent: out of the table first ... *)
PopContext(c) ==
  LET a == call[c].agent
  IN /\ At(c, {"close"}, "start")
     /\ IF contexts[a] = None THEN Return(c, "ok") /\ UNCHANGED contexts
        ELSE Hold(c, contexts[a], "closing") /\ contexts' = [contexts EXCEPT ![a] = None]
     /\ UNCHANGED <<tables, open, dead, unclosed, evidence, overlap>>

(* ... then closed, with its pages; or close() raises, and who knows.      *)
CloseContext(c) ==
  /\ At(c, {"close"}, "closing")
  /\ \/ open' = open \ {call[c].held} /\ Return(c, "ok") /\ UNCHANGED unclosed
     \/ /\ open' \in {open, open \ {call[c].held}}
        /\ unclosed' = unclosed \cup {call[c].held}
        /\ Return(c, "error")
  /\ UNCHANGED <<tables, contexts, dead, evidence, overlap>>
-------------------------------------------------------------------------------
TicketStep(c) == ReadComments(c) \/ AssignTicket(c) \/ FindTicket(c) \/ AppendComment(c)

SeriesStep(c) == TakeNumber(c) \/ Store(c)

BrowserStep(c) ==
  \/ GetContext(c) \/ NewContext(c) \/ NewPage(c) \/ LoadPage(c) \/ TakeScreenshot(c)
  \/ ShutPage(c) \/ PopContext(c) \/ CloseContext(c)

Next ==
  \E c \in Call :
    \/ \E kind \in Kind, a \in Agent : CallTool(c, kind, a)
    \/ GiveUp(c) \/ ContextDies(c)
    \/ TicketStep(c) \/ SeriesStep(c) \/ BrowserStep(c)

Spec == Init /\ [][Next]_vars
-------------------------------------------------------------------------------
Answered(c, kind) == call[c].kind = kind /\ call[c].tool = "ok"

(* However often the ticket is rewritten, a comment that was acknowledged  *)
(* stays on it, once, also one added while it was being rewritten: only    *)
(* when two writes began before there was a ticket is the list not the     *)
(* same one (mcp_tickets, write_ticket).                                   *)
CommentsKept ==
  \A c \in Call : Answered(c, "comment") =>
    \/ Cardinality(early) > 1
    \/ Cardinality({i \in DOMAIN comments[ticket] : comments[ticket][i] = c}) = 1

(* A pull request or an issue that was acknowledged is found under the     *)
(* number it was told, whoever else was opening one (mcp_github, open_pr;  *)
(* mcp_jira, create_issue).                                                *)
NumbersOwn ==
  \A c \in Call, s \in Series : Answered(c, s) => stored[s][call[c].held] = c

Closing == {call[c].held : c \in {d \in Call : At(d, {"close"}, "closing")}}

(* The table never offers a context that has been closed, though it goes   *)
(* on offering one that died; and a context that still runs is in the      *)
(* table or about to be closed: it is lost only when two requests of one   *)
(* agent were making one at the same time, or when its close() raised      *)
(* after it had left the table (mcp_browser, "isolated context per agent"). *)
ContextsHeld ==
  /\ \A a \in Agent : contexts[a] \in open \cup {None}
  /\ \A c \in open \ dead :
       \/ c \in Closing \cup unclosed \cup {contexts[call[c].agent]}
       \/ call[c].agent \in overlap

(* Every piece of evidence has its picture, and every screenshot that was  *)
(* acknowledged is listed: also when its context was closed under it.      *)
EvidenceIsReal ==
  \A c \in Call : /\ c \in evidence => call[c].shot
                  /\ Answered(c, "screenshot") => c \in evidence
===============================================================================
