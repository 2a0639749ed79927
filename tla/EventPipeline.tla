---------------------------- MODULE EventPipeline ----------------------------
(***************************************************************************)
(* From an accepted event to its alerts: the ingest handlers of the        *)
(* backend, the three detection queues and the workers that drain them.    *)
(*                                                                         *)
(*   POST /events                 routers/events_router.py ingest_event    *)
(*   POST /ingest/network/bulk    routers/network_router.py                *)
(*   process_event_queue, process_db_event_queue, _process_event_id        *)
(*                                main.py                                  *)
(*   prune                        maintenance.py (the retention service)   *)
(*                                                                         *)
(* Several backend processes share one database (deploy/k8s/backend.yaml   *)
(* runs two).  Inside a process there is one event loop: a coroutine keeps *)
(* it until it awaits, and neither the evaluation of an event nor a whole  *)
(* batch of the database worker ever awaits.  task[p] is the coroutine     *)
(* that has the loop of p.  Other processes, the retention service and a   *)
(* crash come in between any two commits.                                  *)
(***************************************************************************)
EXTENDS DetectionSteps, Sequences, FiniteSets

CONSTANTS
  Procs,          \* backend processes
  Modes,          \* the values of DETECTION_QUEUE_MODE to consider
  QueueCap,       \* EVENT_QUEUE_MAXSIZE
  MaxQueueRetries,\* MAX_QUEUE_RETRIES
  BatchLimit,     \* rows fetched by one poll of process_db_event_queue
  BulkLimit,      \* observations in one bulk request
  CountCap,       \* commits of one step and attempts are counted up to here
  MaxCrashes,     \* bounds of a run: processes that die,
  MaxFaults,      \*   database errors no event is to blame for,
  MaxPrunes,      \*   passes of the retention service
  NoEvent         \* cur[p] when no evaluation is running

ASSUME PipelineConstants ==
  /\ IsFiniteSet(Procs) /\ Procs # {}
  /\ Modes \subseteq {"memory", "db", "inline"}
  /\ QueueCap \in Nat \ {0}
  /\ MaxQueueRetries \in Nat \ {0}
  /\ BatchLimit \in Nat \ {0}
  /\ BulkLimit \in Nat \ {0}
  /\ CountCap \in Nat \ {0}
  /\ MaxCrashes \in Nat /\ MaxFaults \in Nat /\ MaxPrunes \in Nat
  /\ NoEvent \notin Events

VARIABLES
  mode,      \* settings.detection_queue_mode, the same in every process
  \* --- the database -----------------------------------------------------
  clock,     \* number of inserts so far: the source of created_at
  born,      \* born[e]: Event.created_at, 0 before e is accepted
  stored,    \* events with a row in the table events
  row,       \* row[e]: the PendingEvent of e
  stamp,     \* stamp[e]: PendingEvent.created_at
  attempts,  \* attempts[e]: PendingEvent.attempts
  effects,   \* effects[e][s]: how often step s of e has been committed
  \* --- the memory of each process ---------------------------------------
  queue,     \* app.state.event_queue
  waiting,   \* waiting[p][e]: refused puts of a suspended handler, 0 if none
  task,      \* the coroutine that has the event loop
  hand,      \* hand[p][e]: what that coroutine has done about e
  cur,       \* the event whose evaluation is running
  done,      \* its steps committed so far in this evaluation
  seen,      \* attempts as the database worker read them with the batch
  \* --- counters ---------------------------------------------------------
  counted,   \* events counted by EVENT_QUEUE_DROPPED
  overflow,  \* events that met a full queue for good, counted or not
  crashes, faults, prunes

dbVars   == <<clock, born, stored, row, stamp, attempts>>
loopVars == <<task, hand, cur, done, seen>>
history  == <<counted, overflow>>
budgets  == <<crashes, faults, prunes>>
vars == <<mode, dbVars, effects, queue, waiting, loopVars, history, budgets>>

Tasks == {"idle", "single", "bulk", "worker"}
RowStates == {"none", "unprocessed", "processed", "deleted"}
HandStates == {"out", "todo", "ok", "failed"}

DbTypes ==
  /\ mode \in Modes
  /\ clock \in Nat
  /\ born \in [Events -> Nat]
  /\ stored \subseteq Events
  /\ row \in [Events -> RowStates]
  /\ stamp \in [Events -> Nat]
  /\ attempts \in [Events -> 0 .. CountCap]

EffectTypes ==
  /\ DOMAIN effects = Events
  /\ \A e \in Events : effects[e] \in [Steps(e) -> 0 .. CountCap]

QueueTypes ==
  /\ queue \in [Procs -> Seq(Events)]
  /\ \A p \in Procs : Len(queue[p]) <= QueueCap
  /\ waiting \in [Procs -> [Events -> 0 .. MaxQueueRetries]]

LoopTypes ==
  /\ task \in [Procs -> Tasks]
  /\ hand \in [Procs -> [Events -> HandStates]]
  /\ cur \in [Procs -> Events \cup {NoEvent}]
  /\ DOMAIN done = Procs
  /\ \A p \in Procs : cur[p] # NoEvent => done[p] \subseteq Steps(cur[p])
  /\ seen \in [Procs -> [Events -> 0 .. CountCap]]

CounterTypes ==
  /\ counted \subseteq Events
  /\ overflow \subseteq Events
  /\ crashes \in 0 .. MaxCrashes
  /\ faults \in 0 .. MaxFaults
  /\ prunes \in 0 .. MaxPrunes

\* The types, and the bound asyncio.Queue(maxsize) puts on a queue.
TypeOK == DbTypes /\ EffectTypes /\ QueueTypes /\ LoopTypes /\ CounterTypes

-----------------------------------------------------------------------------
Empty == [e \in Events |-> "out"]
In(p, how) == {e \in Events : hand[p][e] = how}
Todo(p) == In(p, "todo")
Bump(n) == IF n < CountCap THEN n + 1 ELSE n

\* Every step of e has been committed at least once.
Evaluated(e) == \A s \in Steps(e) : effects[e][s] > 0

Init ==
  /\ mode \in Modes
  /\ clock = 0
  /\ born = [e \in Events |-> 0]
  /\ stored = {}
  /\ row = [e \in Events |-> "none"]
  /\ stamp = [e \in Events |-> 0]
  /\ attempts = [e \in Events |-> 0]
  /\ effects = [e \in Events |-> [s \in Steps(e) |-> 0]]
  /\ queue = [p \in Procs |-> <<>>]
  /\ waiting = [p \in Procs |-> [e \in Events |-> 0]]
  /\ task = [p \in Procs |-> "idle"]
  /\ hand = [p \in Procs |-> Empty]
  /\ cur = [p \in Procs |-> NoEvent]
  /\ done = [p \in Procs |-> {}]
  /\ seen = [p \in Procs |-> [e \in Events |-> 0]]
  /\ counted = {}
  /\ overflow = {}
  /\ crashes = 0 /\ faults = 0 /\ prunes = 0

-----------------------------------------------------------------------------
(***************************************************************************)
(* Ingest.  The events are committed first, in one transaction; what       *)
(* becomes of them is decided afterwards, by the mode, in the same         *)
(* handler.                                                                *)
(***************************************************************************)
Accept(p, new, handler) ==
  /\ task[p] = "idle"
  /\ \A e \in new : born[e] = 0
  /\ clock' = clock + 1
  /\ born' = [e \in Events |-> IF e \in new THEN clock + 1 ELSE born[e]]
  /\ stored' = stored \cup new
  /\ task' = [task EXCEPT ![p] = handler]
  /\ hand' = [hand EXCEPT ![p] = [e \in Events |-> IF e \in new THEN "todo" ELSE "out"]]
  /\ UNCHANGED <<mode, row, stamp, attempts, effects, queue, waiting, cur, done,
                 seen, history, budgets>>

\* ingest_event, up to and with crud.create_event.
IngestEvent(p) == \E e \in Events : Accept(p, {e}, "single")

\* ingest_network_bulk, up to and with the commit of event_records.  The
\* NetworkEvent rows committed just before play no part in detection.
IngestNetworkBulk(p) ==
  \E new \in SUBSET Events :
    /\ new # {}
    /\ Cardinality(new) <= BulkLimit
    /\ Accept(p, new, "bulk")

\* The handler is over, or has died with an exception: the loop is free.
Release(p) ==
  /\ task' = [task EXCEPT ![p] = "idle"]
  /\ hand' = [hand EXCEPT ![p] = Empty]

Handling(p) == task[p] \in {"single", "bulk"}

\* mode db: one PendingEvent per event, all in one more commit.  It fails as
\* a whole when the retention service has deleted one of the events (foreign
\* key) or the database is down; the caller gets an error, the events stay.
InsertPending(p) ==
  /\ mode = "db"
  /\ Handling(p)
  /\ Todo(p) \subseteq stored
  /\ row' = [e \in Events |-> IF e \in Todo(p) THEN "unprocessed" ELSE row[e]]
  /\ stamp' = [e \in Events |-> IF e \in Todo(p) THEN clock + 1 ELSE stamp[e]]
  /\ clock' = clock + 1
  /\ Release(p)
  /\ UNCHANGED <<mode, born, stored, attempts, effects, queue, waiting, cur, done,
                 seen, history, budgets>>

InsertPendingFails(p) ==
  /\ mode = "db"
  /\ Handling(p)
  /\ \/ /\ ~ (Todo(p) \subseteq stored)
        /\ UNCHANGED faults
     \/ /\ faults < MaxFaults
        /\ faults' = faults + 1
  /\ Release(p)
  /\ UNCHANGED <<mode, dbVars, effects, queue, waiting, cur, done, seen, history,
                 crashes, prunes>>

-----------------------------------------------------------------------------
(***************************************************************************)
(* mode memory: put_nowait on the queue of the same process.  ingest_event *)
(* tries MaxQueueRetries times and sleeps after each refusal, the last one *)
(* included; the sleep gives the loop away.  ingest_network_bulk tries     *)
(* once per event and counts nothing.                                      *)
(***************************************************************************)
\* Mutation of HasRoom: the bound is off by one.
HasRoomPlusOne(p) == Len(queue[p]) <= QueueCap

HasRoom(p) == Len(queue[p]) < QueueCap

\* The handler's work on e is finished; with its last event it returns.
Settle(p, e) ==
  IF Todo(p) = {e}
  THEN Release(p)
  ELSE /\ hand' = [hand EXCEPT ![p][e] = "out"]
       /\ UNCHANGED task

PutNowait(p, e) ==
  /\ mode = "memory"
  /\ Handling(p)
  /\ e \in Todo(p)
  /\ HasRoom(p)
  /\ queue' = [queue EXCEPT ![p] = Append(@, e)]
  /\ Settle(p, e)
  /\ UNCHANGED <<mode, dbVars, effects, waiting, cur, done, seen, history, budgets>>

PutRefused(p, e) ==
  /\ mode = "memory"
  /\ Handling(p)
  /\ e \in Todo(p)
  /\ ~ HasRoom(p)
  /\ IF task[p] = "single"
     THEN /\ waiting' = [waiting EXCEPT ![p][e] = 1]
          /\ UNCHANGED overflow
     ELSE /\ overflow' = overflow \cup {e}
          /\ UNCHANGED waiting
  /\ Settle(p, e)
  /\ UNCHANGED <<mode, dbVars, effects, queue, cur, done, seen, counted, budgets>>

\* Mutation of RetryPut: the handler gives up at the second refusal, and
\* forgets to say so.
RetryPutOnce(p, e) ==
  /\ task[p] = "idle"
  /\ waiting[p][e] \in 1 .. MaxQueueRetries - 1
  /\ queue' = IF HasRoom(p) THEN [queue EXCEPT ![p] = Append(@, e)] ELSE queue
  /\ waiting' = [waiting EXCEPT ![p][e] = 0]
  /\ UNCHANGED <<mode, dbVars, effects, loopVars, history, budgets>>

\* A handler of ingest_event wakes from its sleep.
RetryPut(p, e) ==
  /\ task[p] = "idle"
  /\ waiting[p][e] \in 1 .. MaxQueueRetries - 1
  /\ IF HasRoom(p)
     THEN /\ queue' = [queue EXCEPT ![p] = Append(@, e)]
          /\ waiting' = [waiting EXCEPT ![p][e] = 0]
     ELSE /\ waiting' = [waiting EXCEPT ![p][e] = @ + 1]
          /\ UNCHANGED queue
  /\ UNCHANGED <<mode, dbVars, effects, loopVars, history, budgets>>

\* It wakes from the sleep after the last refusal: the else of the for loop,
\* which does not look at the queue again.
DropEvent(p, e) ==
  /\ task[p] = "idle"
  /\ waiting[p][e] = MaxQueueRetries
  /\ waiting' = [waiting EXCEPT ![p][e] = 0]
  /\ counted' = counted \cup {e}
  /\ overflow' = overflow \cup {e}
  /\ UNCHANGED <<mode, dbVars, effects, queue, loopVars, budgets>>

-----------------------------------------------------------------------------
(***************************************************************************)
(* The workers take events to evaluate.                                    *)
(***************************************************************************)
\* process_event_queue: queue.get()
TakeFromQueue(p) ==
  /\ mode = "memory"
  /\ task[p] = "idle"
  /\ queue[p] # <<>>
  /\ queue' = [queue EXCEPT ![p] = Tail(@)]
  /\ task' = [task EXCEPT ![p] = "worker"]
  /\ hand' = [hand EXCEPT ![p] = [Empty EXCEPT ![Head(queue[p])] = "todo"]]
  /\ UNCHANGED <<mode, dbVars, effects, waiting, cur, done, seen, history, budgets>>

Unprocessed == {e \in Events : row[e] = "unprocessed"}

\* Mutation of OldestBatch: one row per poll, so that a single failing event
\* is enough to fill the batch.
OldestRow(batch) ==
  \E e \in Unprocessed : batch = {e} /\ \A f \in Unprocessed : stamp[e] <= stamp[f]

\* process_db_event_queue: the oldest BatchLimit unprocessed rows, with their
\* attempts.  No lock: another process may have fetched the same rows.
OldestBatch(batch) ==
  /\ batch \subseteq Unprocessed
  /\ \A e \in batch, f \in Unprocessed \ batch : stamp[e] <= stamp[f]
  /\ \/ Cardinality(batch) = BatchLimit
     \/ Cardinality(batch) < BatchLimit /\ batch = Unprocessed

FetchBatch(p) ==
  /\ mode = "db"
  /\ task[p] = "idle"
  /\ \E batch \in SUBSET Unprocessed :
       /\ batch # {}
       /\ OldestBatch(batch)
       /\ hand' = [hand EXCEPT ![p] =
                     [e \in Events |-> IF e \in batch THEN "todo" ELSE "out"]]
  /\ task' = [task EXCEPT ![p] = "worker"]
  /\ seen' = [seen EXCEPT ![p] = attempts]
  /\ UNCHANGED <<mode, dbVars, effects, queue, waiting, cur, done, history, budgets>>

\* The event loop of p is in the part of its coroutine that evaluates.
Evaluating(p) == task[p] = "worker" \/ (mode = "inline" /\ Handling(p))

\* _process_event_id: db.get.  An event that is gone counts as evaluated.
StartEvaluation(p, e) ==
  /\ Evaluating(p)
  /\ cur[p] = NoEvent
  /\ e \in Todo(p)
  /\ mode = "db" => \A f \in Todo(p) : stamp[e] <= stamp[f]
  /\ IF e \in stored
     THEN /\ cur' = [cur EXCEPT ![p] = e]
          /\ done' = [done EXCEPT ![p] = {}]
          /\ UNCHANGED hand
     ELSE /\ hand' = [hand EXCEPT ![p][e] = "ok"]
          /\ UNCHANGED <<cur, done>>
  /\ UNCHANGED <<mode, dbVars, effects, queue, waiting, task, seen, history, budgets>>

\* The UPDATE of a raised severity finds no row (StaleDataError) when the
\* event has been deleted since db.get and the severity is not raised yet.
Stale(e, s) == s.kind = "severity" /\ e \notin stored /\ effects[e][s] = 0

Refused(e, s) == <<e, s>> \in Rejected \/ Stale(e, s)

\* One commit of _process_event_id.  The severity is set, not counted up.
CommitStep(p) ==
  /\ cur[p] # NoEvent
  /\ \E s \in NextSteps(cur[p], done[p]) :
       /\ ~ Refused(cur[p], s)
       /\ effects' = [effects EXCEPT ![cur[p]][s] =
                        IF s.kind = "severity" THEN 1 ELSE Bump(@)]
       /\ done' = [done EXCEPT ![p] = @ \cup {s}]
  /\ UNCHANGED <<mode, dbVars, queue, waiting, task, hand, cur, seen, history, budgets>>

\* The evaluation is over.  process_event_queue and the bulk handler log an
\* exception and go on, ingest_event ends with it, process_db_event_queue
\* notes it for the row.
EndEvaluation(p, outcome) ==
  /\ hand' = [hand EXCEPT ![p][cur[p]] = outcome]
  /\ cur' = [cur EXCEPT ![p] = NoEvent]
  /\ done' = [done EXCEPT ![p] = {}]

FinishEvaluation(p) ==
  /\ cur[p] # NoEvent
  /\ done[p] = Steps(cur[p])
  /\ EndEvaluation(p, "ok")
  /\ UNCHANGED <<mode, dbVars, effects, queue, waiting, task, seen, history, budgets>>

\* Mutation of RaiseStep: the exception is logged where it is raised, and the
\* caller takes the evaluation for complete.
RaiseStepSwallowed(p) ==
  /\ cur[p] # NoEvent
  /\ \E s \in NextSteps(cur[p], done[p]) : Refused(cur[p], s)
  /\ EndEvaluation(p, "ok")
  /\ UNCHANGED <<mode, dbVars, effects, queue, waiting, task, seen, history, budgets>>

\* A step raises: this step of this event always does, or the database fails.
RaiseStep(p) ==
  /\ cur[p] # NoEvent
  /\ \E s \in NextSteps(cur[p], done[p]) : Refused(cur[p], s)
  /\ EndEvaluation(p, "failed")
  /\ UNCHANGED <<mode, dbVars, effects, queue, waiting, task, seen, history, budgets>>

FaultStep(p) ==
  /\ cur[p] # NoEvent
  /\ \E s \in NextSteps(cur[p], done[p]) : s.kind # "index"
  /\ faults < MaxFaults
  /\ faults' = faults + 1
  /\ EndEvaluation(p, "failed")
  /\ UNCHANGED <<mode, dbVars, effects, queue, waiting, task, seen, history,
                 crashes, prunes>>

\* Mutation of EndTask: an exception ends the worker itself.
EndTaskUnlessFailed(p) ==
  /\ Evaluating(p)
  /\ mode # "db"
  /\ cur[p] = NoEvent
  /\ Todo(p) = {} /\ In(p, "failed") = {}
  /\ Release(p)
  /\ UNCHANGED <<mode, dbVars, effects, queue, waiting, cur, done, seen, history, budgets>>

\* Nothing is left to evaluate: back to queue.get(), or the response.
EndTask(p) ==
  /\ Evaluating(p)
  /\ mode # "db"
  /\ cur[p] = NoEvent
  /\ Todo(p) = {}
  /\ Release(p)
  /\ UNCHANGED <<mode, dbVars, effects, queue, waiting, cur, done, seen, history, budgets>>

\* process_db_event_queue: the one commit at the end of a batch.  Only the
\* columns that changed are written, attempts as the number computed from
\* what was read with the batch.
BatchEvaluated(p) ==
  /\ mode = "db"
  /\ task[p] = "worker"
  /\ cur[p] = NoEvent
  /\ Todo(p) = {}

RowGone(p) == \E e \in In(p, "ok") \cup In(p, "failed") : row[e] = "deleted"

CommitRows(p, rows, tries) ==
  /\ BatchEvaluated(p)
  /\ ~ RowGone(p)
  /\ row' = rows
  /\ attempts' = tries
  /\ Release(p)
  /\ UNCHANGED <<mode, clock, born, stored, stamp, effects, queue, waiting, cur, done,
                 seen, history, budgets>>

\* Mutation of CommitBatch: one failure spoils the batch.
CommitBatchIfAllOk(p) ==
  CommitRows(p,
    [e \in Events |-> IF In(p, "failed") = {} /\ e \in In(p, "ok") THEN "processed" ELSE row[e]],
    attempts)

\* Mutation of CommitBatch: the failure is booked on every row of the batch.
CommitBatchBlamingAll(p) ==
  CommitRows(p,
    [e \in Events |-> IF e \in In(p, "ok") THEN "processed" ELSE row[e]],
    [e \in Events |-> IF hand[p][e] # "out" /\ In(p, "failed") # {}
                      THEN Bump(seen[p][e]) ELSE attempts[e]])

\* Mutation of CommitBatch: whole rows are written, processed_at as it was
\* when the batch was fetched.
CommitBatchWholeRows(p) ==
  CommitRows(p,
    [e \in Events |-> CASE hand[p][e] = "ok" -> "processed"
                        [] hand[p][e] = "failed" -> "unprocessed"
                        [] OTHER -> row[e]],
    [e \in Events |-> IF hand[p][e] = "failed" THEN Bump(seen[p][e]) ELSE attempts[e]])

\* Mutation of CommitBatch: a failed row is closed as well.
CommitBatchClosingAll(p) ==
  CommitRows(p, [e \in Events |-> IF hand[p][e] # "out" THEN "processed" ELSE row[e]], attempts)

CommitBatch(p) ==
  CommitRows(p,
    [e \in Events |-> IF e \in In(p, "ok") THEN "processed" ELSE row[e]],
    [e \in Events |-> IF e \in In(p, "failed") THEN Bump(seen[p][e]) ELSE attempts[e]])

\* An UPDATE of a deleted row, or a database error: the whole batch is rolled
\* back, the exception logged, and the next poll fetches what is left again.
RollbackBatch(p) ==
  /\ BatchEvaluated(p)
  /\ \/ /\ RowGone(p)
        /\ UNCHANGED faults
     \/ /\ faults < MaxFaults
        /\ faults' = faults + 1
  /\ Release(p)
  /\ UNCHANGED <<mode, dbVars, effects, queue, waiting, cur, done, seen, history,
                 crashes, prunes>>

-----------------------------------------------------------------------------
(***************************************************************************)
(* The environment.                                                        *)
(***************************************************************************)
\* maintenance.prune: every event older than the cutoff is deleted, and its
\* PendingEvent with it (ON DELETE CASCADE).  Alerts and incidents stay.
Prune ==
  /\ prunes < MaxPrunes
  /\ prunes' = prunes + 1
  /\ \E cutoff \in 2 .. clock + 1 :
       LET old == {e \in stored : born[e] < cutoff}
       IN /\ old # {}
          /\ stored' = stored \ old
          /\ row' = [e \in Events |->
                       IF e \in old /\ row[e] # "none" THEN "deleted" ELSE row[e]]
  /\ UNCHANGED <<mode, clock, born, stamp, attempts, effects, queue, waiting,
                 loopVars, history, crashes, faults>>

\* A process dies and comes back with startup_event: a new, empty queue.  A
\* shutdown_event is the case of an idle loop: it does not drain the queue.
Crash(p) ==
  /\ crashes < MaxCrashes
  /\ crashes' = crashes + 1
  /\ queue' = [queue EXCEPT ![p] = <<>>]
  /\ waiting' = [waiting EXCEPT ![p] = [e \in Events |-> 0]]
  /\ Release(p)
  /\ cur' = [cur EXCEPT ![p] = NoEvent]
  /\ done' = [done EXCEPT ![p] = {}]
  /\ seen' = [seen EXCEPT ![p] = [e \in Events |-> 0]]
  /\ UNCHANGED <<mode, dbVars, effects, history, faults, prunes>>

\* What the coroutine that has the loop of p does next.
Run(p) ==
  \/ InsertPending(p)
  \/ InsertPendingFails(p)
  \/ \E e \in Events : PutNowait(p, e) \/ PutRefused(p, e)
  \/ TakeFromQueue(p)
  \/ FetchBatch(p)
  \/ \E e \in Events : StartEvaluation(p, e)
  \/ CommitStep(p)
  \/ FinishEvaluation(p)
  \/ RaiseStep(p)
  \/ FaultStep(p)
  \/ EndTask(p)
  \/ CommitBatch(p)
  \/ RollbackBatch(p)

\* The sleep of a handler of ingest_event ends.
Wake(p, e) == RetryPut(p, e) \/ DropEvent(p, e)

Next ==
  \/ \E p \in Procs : \/ IngestEvent(p)
                      \/ IngestNetworkBulk(p)
                      \/ Run(p)
                      \/ \E e \in Events : Wake(p, e)
                      \/ Crash(p)
  \/ Prune

Spec == Init /\ [][Next]_vars

(***************************************************************************)
(* asyncio runs every ready coroutine in turn and the database worker      *)
(* polls for ever, so a process keeps taking its steps and a sleep ends.   *)
(* Nothing is assumed of requests, crashes or the retention service.       *)
(***************************************************************************)
Fairness ==
  \A p \in Procs : WF_vars(Run(p)) /\ \A e \in Events : WF_vars(Wake(p, e))

FairSpec == Spec /\ Fairness

-----------------------------------------------------------------------------
(***************************************************************************)
(* Properties.                                                             *)
(***************************************************************************)
Calm == crashes = 0 /\ faults = 0 /\ prunes = 0

\* Mode db keeps its promise of persistence: processed_at is set only on a
\* row whose event went through every commit of _process_event_id, whatever
\* crashed, failed, was fetched twice or was pruned in between.
ProcessedIsEvaluated ==
  \A e \in Events : row[e] = "processed" => Evaluated(e)

\* Outside mode db an event is in one place at a time and is never tried
\* again: no alert, incident or notification of it is written twice, in spite
\* of retries of the put, bulk requests, several processes and restarts.
AtMostOnceOutsideDb ==
  mode # "db" => \A e \in Events : \A s \in Steps(e) : effects[e][s] <= 1

\* Mode db has no lock on the rows a worker fetched.  While nothing fails,
\* the price is at most one evaluation per backend process, even with an
\* event in the same batch that always raises.
OneEvaluationPerProcess ==
  Calm => \A e \in Events \ Poisoned : \A s \in Steps(e) :
            effects[e][s] <= Cardinality(Procs)

\* What an event is evaluated for is written once outside mode db, and at most
\* once per backend process in it.
EvaluationsAreBounded == AtMostOnceOutsideDb /\ OneEvaluationPerProcess

\* There are never more items than incidents, nor more incidents than alerts,
\* of one rule and event: every link written has something to point to.
LinksHaveTargets ==
  \A e \in Events : \A s, t \in Steps(e) :
    DependsOn(s, t) => effects[e][s] <= effects[e][t]

\* PendingEvent.attempts blames the event that fails, not its neighbours in
\* the batch, although the batch has a single commit.
OnlyFailuresAreBlamed ==
  \A e \in Events : attempts[e] > 0 => e \in Poisoned \/ faults > 0

\* Where an accepted event may wait for its evaluation.
Held(e) ==
  \/ row[e] = "unprocessed"
  \/ \E p \in Procs : \/ hand[p][e] = "todo"
                      \/ cur[p] = e
                      \/ waiting[p][e] > 0
                      \/ \E i \in DOMAIN queue[p] : queue[p][i] = e

\* While nothing fails, an accepted event that can be evaluated is evaluated,
\* waits somewhere, or has met a full queue: no hand-over forgets one.
NothingIsForgotten ==
  Calm => \A e \in stored \ Poisoned : Evaluated(e) \/ Held(e) \/ e \in overflow

\* The pipeline keeps the contract: an event with a PendingEvent is never
\* lost, and an event once lost is never evaluated.
Fate(e) ==
  CASE born[e] = 0 -> "unseen"
    [] born[e] > 0 /\ Evaluated(e) -> "evaluated"
    [] OTHER -> IF e \notin stored THEN "expired"
                ELSE IF row[e] = "unprocessed" THEN "promised"
                ELSE IF Held(e) THEN "accepted" ELSE "lost"

Contract == INSTANCE DetectionContract WITH fate <- [e \in Events |-> Fate(e)]

KeepsContract == Contract!Spec

\* EVENT_QUEUE_DROPPED is the "Number of events dropped because the queue is
\* full" (metrics.py): every event a full queue turned away is counted.
DropsAreCounted == overflow \subseteq counted

\* docs/network_ids/rules.md tunes noisy rules by "disabling those rules":
\* a disabled rule raises no alert.
DisabledRulesAreSilent ==
  \A e \in Events : \A s \in Steps(e) :
    s.kind = "alert" /\ s.by \in DisabledRules => effects[e][s] = 0

\* A worker that fetched a row before another process finished it, and failed
\* where the other succeeded, does not put the row back.
ProcessedIsFinal ==
  [][\A e \in Events : row[e] = "processed" => row'[e] \in {"processed", "deleted"}]_vars

\* With fewer failing events than BatchLimit, a healthy row is processed in
\* the end, also after crashes, unless the retention service deletes it.
RowsAreProcessed ==
  \A e \in Events \ Poisoned :
    row[e] = "unprocessed" ~> row[e] \in {"processed", "deleted"}

\* In every mode an accepted event comes to an end, as long as nothing fails.
AcceptedIsSettled ==
  \A e \in Events \ Poisoned :
    e \in stored ~> (Evaluated(e) \/ e \in overflow \/ ~ Calm)
=============================================================================
