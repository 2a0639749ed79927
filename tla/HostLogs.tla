------------------------------ MODULE HostLogs ------------------------------
(***************************************************************************)
(* A host whose log file both the network sensor's collector and the       *)
(* Python agent follow, each at its own pace, while it is written, rotated *)
(* and truncated.                                                          *)
(***************************************************************************)
EXTENDS SensorCollector, HostAgent

vars == <<fileVars, faults, sensorVars, agentVars>>

Place == [inode : Nat, offset : Nat]

SensorStates ==
  [at : {"sleep", "open"}, place : Place] \cup [at : {"down"}]
    \cup [at : {"add", "post"}, place : Place, todo : SUBSET LineIds, batch : SUBSET LineIds]

AgentStates ==
  [at : {"logs", "open", "visits"}, place : Place]
    \cup [at : {"lines"}, todo : (SUBSET LineIds) \ {{}}, place : Place]
    \cup [at : {"rows"}, todo : (SUBSET (Urls \X Nat)) \ {{}}, place : Place]

TypeOK ==
  /\ file \in [inode : Nat, pieces : Seq(LineIds \X {1, 2})]
  /\ written \in Nat /\ turns \in Nat
  /\ happenings \in 0 .. MaxHappenings /\ faults \in 0 .. MaxFaults
  /\ sensor \in SensorStates /\ state \in Place
  /\ arrived \in [LineIds -> Nat]
  /\ UNION {lost, broken, passed, repeated, raced} \subseteq LineIds
  /\ tears \in Nat /\ lastRead \in Nat
  /\ agent \in AgentStates
  /\ lastVisit \in [Urls -> Nat] /\ urlState \in Nat
  /\ sent \in [LineIds -> Nat]
  /\ misread \subseteq LineIds /\ read \subseteq Urls \X Nat

Init == FileInit /\ SensorInit /\ AgentInit

Next ==
  \/ FileStep /\ UNCHANGED <<sensorVars, agentVars>>
  \/ (SensorStep \/ PostFails \/ SensorDies) /\ UNCHANGED <<fileVars, agentVars>>
  \/ AgentStep /\ UNCHANGED <<fileVars, sensorVars>>
  \/ (\E u \in Urls : Visit(u)) /\ UNCHANGED <<file, written, turns, sensorVars>>

Spec == Init /\ [][Next]_vars

\* The collector's loop runs, its posts come through in the end, and its
\* container is restarted.
FairSpec == Spec /\ WF_vars(SensorStep /\ UNCHANGED <<fileVars, agentVars>>)

-----------------------------------------------------------------------------
InFile(n) == HalvesOf(file.pieces, n) = {1, 2}

\* Again and again the collector has caught up: each line that stands in the
\* file has reached the backend, unless the collector died with it, read one
\* half of it, or took the file for the one it knew.
CatchesUp ==
  []<>(\A n \in LineIds : InFile(n) => arrived[n] > 0 \/ n \in lost \cup broken \cup passed)

\* The backend takes a line twice only when a post was not answered, state.json
\* was torn, or the file was rotated between stat and open: a restart, a full
\* batch and an idle file repeat nothing.
OnceUnlessFault ==
  \A n \in LineIds : arrived[n] > 1 => n \in repeated \cup raced \/ tears > 0

\* As long as it runs the agent sends a line at most once, unless it read it by
\* halves or the file was rotated between stat and open.
OncePerStart == \A n \in LineIds : sent[n] > 1 => n \in misread

\* A line goes out once from the collector and once from each start of the
\* agent, unless a fault repeats it.
LinesAreSentOnce == OnceUnlessFault /\ OncePerStart

\* A visit behind the agent's place in the history was read, or another visit of
\* the same instant was: also when more is new than a query returns, and when a
\* page is visited again meanwhile.
NoVisitSkipped ==
  \A u \in Urls : lastVisit[u] \in 1 .. urlState =>
    \E v \in Urls : <<v, lastVisit[u]>> \in read

\* A line has arrived, is held, died with the collector, was read by halves, or
\* lay before an offset that was about another file.
IsAccounted(n) == arrived[n] > 0 \/ n \in Held \cup lost \cup broken \cup passed

\* The place of the collector, and the one it starts at when it dies
Places == {state} \cup (IF sensor.at = "down" THEN {} ELSE {sensor.place})

\* The collector skips nothing: each line that lies before its place in the file
\* it last read, or before the place it has saved, is accounted for.
NoLineSkipped ==
  lastRead = turns =>
    \A place \in Places, i \in DOMAIN file.pieces :
      i <= place.offset => IsAccounted(file.pieces[i][1])

\* What a host tells is neither repeated nor skipped.
HostIsReadOnce == LinesAreSentOnce /\ NoVisitSkipped /\ NoLineSkipped
=============================================================================
