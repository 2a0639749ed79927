----------------------------- MODULE HostAgent ------------------------------
(***************************************************************************)
(* The collectors of the Python agent, in the order of its main loop.      *)
(*                                                                         *)
(*   main, LogCollector.collect, FileTailer, collect_url_visit_events,     *)
(*   _load_url_state, _save_url_state, send_event          agent/agent.py  *)
(*                                                                         *)
(* The agent is enrolled.  It follows the same file as the sensor and the  *)
(* history of one browser; the place in the file is only in its memory.    *)
(***************************************************************************)
EXTENDS LogFile

CONSTANTS
  Urls,
  VisitLimit    \* rows of a query: 200

ASSUME AgentConstants ==
  IsFiniteSet(Urls) /\ VisitLimit \in Nat \ {0}

VARIABLES
  agent,        \* what the agent does, and its place in the file
  lastVisit,    \* last_visit_time of the rows of the browser, 0 for none
  urlState,     \* browser_history_state.json: the newest visit that was read
  sent,         \* sent[n]: how often line n was sent since the agent started
  misread,      \* history: lines of which one half was read, or all under the
                \*   inode of another file
  read          \* history: the rows that were read, url and time

agentVars == <<agent, lastVisit, urlState, sent, misread, read>>

AgentInit ==
  /\ agent = [at |-> "logs", place |-> Nowhere]
  /\ lastVisit = [u \in Urls |-> 0]
  /\ urlState = 0
  /\ sent = [n \in LineIds |-> 0]
  /\ misread = {} /\ read = {}

\* A page is opened, in the instant of the visit before or in a later one.
Visit(u) ==
  /\ Happens
  /\ \E step \in {0, 1} :
       LET now == Max({lastVisit[v] : v \in Urls}) + step IN
       now > 0 /\ lastVisit' = [lastVisit EXCEPT ![u] = now]
  /\ UNCHANGED <<agent, urlState, sent, misread, read, faults>>

\* read_new_lines, up to its stat
AgentStats ==
  /\ agent.at = "logs"
  /\ agent' = [at |-> "open", place |-> [inode |-> file.inode, offset |-> StartAt(agent.place)]]
  /\ UNCHANGED <<lastVisit, urlState, sent, misread, read, faults>>

\* The loop over what was collected, and what comes after it
Sending(what, todo, place) ==
  IF todo = {} THEN [at |-> IF what = "lines" THEN "visits" ELSE "logs", place |-> place]
  ELSE [at |-> what, todo |-> todo, place |-> place]

\* A half of a line is a line to the agent.
AgentReads ==
  LET start == agent.place.offset
      pieces == ReadFrom(start)
      lines == LinesIn(pieces)
  IN
  /\ agent.at = "open"
  /\ agent' = Sending("lines", lines, [agent.place EXCEPT !.offset = EndsAt(start)])
  /\ misread' = misread \cup {n \in lines : ~IsWhole(pieces, n)
                                          \/ agent.place.inode # file.inode}
  /\ UNCHANGED <<lastVisit, urlState, sent, read, faults>>

\* send_event of the next line; it tries once.
SendLine ==
  /\ agent.at = "lines"
  /\ LET line == Min(agent.todo) IN
       /\ agent' = Sending("lines", agent.todo \ {line}, agent.place)
       /\ \/ sent' = [sent EXCEPT ![line] = @ + 1] /\ UNCHANGED faults
          \/ Fault /\ UNCHANGED sent
  /\ UNCHANGED <<lastVisit, urlState, misread, read>>

\* send_event of the next visit, in the order of the page
SendVisit ==
  /\ agent.at = "rows"
  /\ \E row \in agent.todo :
       /\ \A other \in agent.todo : row[2] <= other[2]
       /\ agent' = Sending("rows", agent.todo \ {row}, agent.place)
  /\ Fault \/ UNCHANGED faults
  /\ UNCHANGED <<lastVisit, urlState, sent, misread, read>>

PageSize(rows) ==
  IF Cardinality(rows) < VisitLimit THEN Cardinality(rows) ELSE VisitLimit

\* ORDER BY last_visit_time ASC LIMIT; what falls together comes in any order,
\* and any of it is left out.
Pages(rows) ==
  {page \in SUBSET rows : /\ Cardinality(page) = PageSize(rows)
                          /\ \A u \in page, v \in rows \ page : u[2] <= v[2]}

NewVisits == {<<u, lastVisit[u]>> : u \in {v \in Urls : lastVisit[v] > urlState}}

\* collect_url_visit_events: the place is saved before anything is sent.
CollectVisits ==
  /\ agent.at = "visits"
  /\ \E page \in Pages(NewVisits) :
       /\ read' = read \cup page
       /\ urlState' = Max({row[2] : row \in page} \cup {urlState})
       /\ agent' = Sending("rows", page, agent.place)
  /\ UNCHANGED <<lastVisit, sent, misread, faults>>

\* The interval between two looks at the browser is not over.
SkipVisits ==
  /\ agent.at = "visits"
  /\ agent' = [agent EXCEPT !.at = "logs"]
  /\ UNCHANGED <<lastVisit, urlState, sent, misread, read, faults>>

\* It dies and is started again; a state file that was being written is empty.
AgentRestarts ==
  /\ Fault
  /\ agent' = [at |-> "logs", place |-> Nowhere]
  /\ urlState' \in IF agent.at = "visits" THEN {0, urlState} ELSE {urlState}
  /\ sent' = [n \in LineIds |-> 0]
  /\ UNCHANGED <<lastVisit, misread, read>>

AgentStep ==
  \/ AgentStats \/ AgentReads \/ SendLine \/ SendVisit \/ CollectVisits
  \/ SkipVisits \/ AgentRestarts
=============================================================================
