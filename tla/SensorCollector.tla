-------------------------- MODULE SensorCollector ---------------------------
(***************************************************************************)
(* The network sensor's collector.                                         *)
(*                                                                         *)
(*   NetworkCollector.run, _iter_suricata_events, _post_batch              *)
(*                                        sensors/collector/main.py        *)
(*   Batcher.add, flush                   sensors/collector/batcher.py     *)
(*   CollectorState.load, save            sensors/collector/state.py       *)
(*                                                                         *)
(* It follows one file.  A half of a line is no JSON and is left out.      *)
(***************************************************************************)
EXTENDS LogFile

CONSTANTS
  MaxBatch      \* MAX_BATCH_EVENTS

ASSUME SensorConstants == MaxBatch \in Nat \ {0}

VARIABLES
  sensor,       \* what the collector does, and its place in the file
  state,        \* state.json
  arrived,      \* arrived[n]: how often the backend took line n
  lost,         \* history: lines that a dead collector held,
  broken,       \*   of which it read one half,
  passed,       \*   that lay before its offset when the file was another,
  repeated,     \*   whose post arrived and was not answered,
  raced,        \*   that were read under the inode of another file
  tears,        \* history: deaths while state.json was written
  lastRead      \* history: the turn of the file its offset is about

sensorHistory == <<lost, broken, passed, repeated, raced, tears, lastRead>>
sensorVars == <<sensor, state, arrived, sensorHistory>>

SensorInit ==
  /\ sensor = [at |-> "sleep", place |-> Nowhere]
  /\ state = Nowhere
  /\ arrived = [n \in LineIds |-> 0]
  /\ lost = {} /\ broken = {} /\ passed = {} /\ repeated = {} /\ raced = {}
  /\ tears = 0 /\ lastRead = 0

\* iter_new_lines, up to its stat
SensorStats ==
  /\ sensor.at = "sleep"
  /\ sensor' = [at |-> "open", place |-> [inode |-> file.inode, offset |-> StartAt(sensor.place)]]
  /\ UNCHANGED <<state, arrived, sensorHistory, faults>>

\* A round of the loop goes on while there is something to add or to send.
Round(place, todo, batch) ==
  IF todo = {} /\ batch = {} THEN [at |-> "sleep", place |-> place]
  ELSE [at |-> "add", place |-> place, todo |-> todo, batch |-> batch]

\* The rest of it: the place is saved before any of the lines is used.
SensorReads ==
  LET start  == sensor.place.offset
      pieces == ReadFrom(start)
      place  == [sensor.place EXCEPT !.offset = EndsAt(start)]
      whole  == {n \in LinesIn(pieces) : IsWhole(pieces, n)}
  IN
  /\ sensor.at = "open"
  /\ sensor' = Round(place, whole, {})
  /\ state' = place
  /\ broken' = broken \cup {n \in LineIds : Cardinality(HalvesOf(pieces, n)) = 1}
  /\ passed' = IF lastRead = turns THEN passed
               ELSE passed \cup LinesIn(Before(start))
  /\ raced' = IF place.inode = file.inode THEN raced ELSE raced \cup whole
  /\ lastRead' = IF start > Size THEN lastRead ELSE turns
  /\ UNCHANGED <<arrived, lost, repeated, tears, faults>>

\* Batcher.add: at its limit, or when the interval is over, the batch is sent.
AddToBatch ==
  /\ sensor.at = "add" /\ sensor.todo # {}
  /\ LET line  == Min(sensor.todo)
         batch == sensor.batch \cup {line}
     IN  \E at \in (IF Cardinality(batch) >= MaxBatch THEN {"post"} ELSE {"add", "post"}) :
           sensor' = [sensor EXCEPT !.at = at, !.todo = @ \ {line}, !.batch = batch]
  /\ UNCHANGED <<state, arrived, sensorHistory, faults>>

\* At the end of the round what is left is sent.
EndRound ==
  /\ sensor.at = "add" /\ sensor.todo = {}
  /\ sensor' = [sensor EXCEPT !.at = "post"]
  /\ UNCHANGED <<state, arrived, sensorHistory, faults>>

ArrivedOnceMore ==
  [n \in LineIds |-> IF n \in sensor.batch THEN arrived[n] + 1 ELSE arrived[n]]

PostSucceeds ==
  /\ sensor.at = "post"
  /\ arrived' = ArrivedOnceMore
  /\ sensor' = Round(sensor.place, sensor.todo, {})
  /\ UNCHANGED <<state, sensorHistory, faults>>

\* Mutation of AfterError: the batch is given up.
AfterErrorNext(job) == Round(job.place, job.todo, {})

\* The loop of _post_batch tries the same batch again.
AfterError(job) == job

PostFails ==
  /\ sensor.at = "post"
  /\ Fault
  /\ sensor' = AfterError(sensor)
  /\ \/ UNCHANGED <<arrived, repeated>>
     \/ /\ arrived' = ArrivedOnceMore
        /\ repeated' = repeated \cup sensor.batch
  /\ UNCHANGED <<state, lost, broken, passed, raced, tears, lastRead>>

\* The lines it has read and not sent
Held == IF sensor.at \in {"add", "post"} THEN sensor.todo \cup sensor.batch ELSE {}

\* It dies at any point, also while it writes its state; the file is then empty
\* or cut off, and load begins with nothing.
SensorDies ==
  /\ sensor.at # "down"
  /\ Fault
  /\ sensor' = [at |-> "down"]
  /\ \/ UNCHANGED <<state, tears>>
     \/ sensor.at = "open" /\ state' = Nowhere /\ tears' = tears + 1
  /\ lost' = lost \cup Held
  /\ UNCHANGED <<arrived, broken, passed, repeated, raced, lastRead>>

\* The container's restart policy
SensorStarts ==
  /\ sensor.at = "down"
  /\ sensor' = [at |-> "sleep", place |-> state]
  /\ UNCHANGED <<state, arrived, sensorHistory, faults>>

SensorStep ==
  \/ SensorStats \/ SensorReads \/ AddToBatch \/ EndRound \/ PostSucceeds \/ SensorStarts
=============================================================================
