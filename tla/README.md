# EVENTSEC: specifications and proofs

TLA+ models of the EVENTSEC backend, agents and e-mail gateway, checked with TLC,
with theorems proved with TLAPS. Every definition is translated from the source; the
file and lines it stands for are in `PROJECT.json` under `map`.

- [Inventory](#inventory): the parts of the system and how they interact
- [Modules and runs](#modules-and-runs): what models what, what is checked on which instance
- [The event pipeline](#the-event-pipeline): the core
- [Agents and collectors](#agents-and-collectors): spool, enrollment, log tailing, actions, the desktop
- [Cases, records and notifications](#cases-records-and-notifications)
- [The vulnerability worker](#the-vulnerability-worker)
- [E-mail protection](#e-mail-protection)
- [Parts of Services](#parts-of-services): threat map, password guard, rules, search and others
- [What is proved](#what-is-proved), from which assumptions and along which argument
- [What the code does that its documents do not say](#what-the-code-does-that-its-documents-do-not-say)
- [Not modelled](#not-modelled) and [Plan](#plan)

## Inventory

EVENTSEC is a security monitoring platform. Agents and network sensors send
observations to a FastAPI backend. It stores them in PostgreSQL, sends them to
OpenSearch, evaluates them against indicators and rules, and opens alerts,
incidents and notifications. Around that core there are a vulnerability worker, a
retention service, a threat map fed over WebSockets, an e-mail gateway with its own
SQLite database, and a web frontend.

| component | state | operations | hard behaviour | correct when |
|---|---|---|---|---|
| **Event pipeline** (`main.py`, `events_router.py`, `network_router.py`, `maintenance.py`) | tables `events`, `pending_events`, alerts and incidents written; per process an `asyncio.Queue` and handlers asleep in a retry | ingest, bulk ingest, put/retry/drop, take, fetch a batch, evaluate, close the batch, prune, restart | two replicas on one table without locks; an evaluation is many commits; batches closed by one commit; full queues; crashes; rows deleted under a worker | a processed row was evaluated, nothing else is lost silently, failures stay with the event that fails |
| **Detection rules** (`rules_router.py`, `import_rules.py`, `_seed_detection_rules`) | `detection_rules`, the rule library | create, import, toggle, seed at start | two starts see an empty table; an interrupted seeding is never completed; a start that cannot read the table or the file serves unseeded; `enabled` is stored and not read | a rule applies exactly while it is enabled, and is there once |
| **Network ingestion** (`network_router.py`, `parsers/`) | sensors, network events, ingest errors | parse, record, hand to the pipeline | several commits per request | accepted + rejected = sent |
| **Sensor collector** (`sensors/collector`) | offsets on disk, batches in memory | tail, batch, post with backoff | offsets saved per round; rotation; truncation; a line read in two halves | every line is posted, and a line is repeated only after a failure |
| **Go agent** (`agent/common`, `agent/cmd`) | spool directory, saved key and id | enroll, collect, enqueue, flush, acknowledge | crash between two of these; size and age limits; duplicates | a snapshot is delivered or evicted by age or size, the oldest first |
| **Python agent** (`agent/`) | key, cursors, indicator cache, configuration and status files, a lock and a child per launcher | enroll, heartbeat, poll and execute actions, tail logs, watch connections | completion lost after the execution; cursor of equal timestamps; stale files; two launchers | an action is executed once; what a host tells is neither repeated nor skipped |
| **Agent endpoints** (`agents_router.py`, `inventory_router.py`, `services/endpoints.py`) | `agents`, `endpoints`, inventory | enroll, heartbeat, snapshot, register a host | check then insert | one row per name |
| **Endpoint actions** (`main.py`, `actions_router.py`) | `endpoint_actions`, endpoint status | create, pull, complete | completion and endpoint state in two commits; late and repeated completions; executions that raise | the state of an endpoint follows the last completed action |
| **Notification service** (`notifications.py`) | `notification_events` | insert, send, mark | three commits; unique per bucket; two processes | one mail per recipient and bucket |
| **Vulnerability worker** (`worker.py`, `jobs/`) | findings with the risk they were last notified with | match, alert, notify, digest every 300 s | an exception ends the process; marked as notified whatever happened to the mail | every finding is told once per risk level |
| **Alerts, workplans, incidents, handovers** (`main.py`, `crud.py`, routers) | the tables of these names | create, update, escalate, delete, link | several commits per request; check then insert; two requests on one row; a log line that cannot be written | an assigned alert has its workplan, a closed one is announced, an update takes nothing back |
| **Threat map** (`threatmap/`, `threatmap_router.py`) | sequence number, replay ring, subscriber queues | publish, subscribe, trim, aggregate, switch mode, reconnect | slow subscribers; the moment between replay and live queue | nothing is missing from a stream without being counted |
| **Password guard** (`password_guard_router.py`) | events, alerts, a window of times per host and process | ingest with a rate limit | the limit lives in one process; several commits | never more than the limit per window |
| **E-mail protection** (`email_protection/`) | SQLite: messages, assessments, quarantine, policies; tokens and OAuth states in memory | link, sync, rescan, webhook, ingest, release | one history cursor for webhooks that overlap, repeat and fail; threads; a state consumed before the code is checked | nothing behind the cursor is unseen; harmful mail is held |
| **Search** (`search.py`) | OpenSearch indices and alias | prepare, index, search | two processes create one index; retries without a document id; bulks of which documents or later days are dropped | a document is stored once |
| **KQL, read-only routers, authentication, frontend, deployment** | none of their own that interacts | | | not modelled, see below |

**Interactions.** Agents and collectors reach the backend over HTTP and retry on
their own. The handlers, the worker coroutine of each process, the vulnerability
worker and the retention service share the database and nothing else; inside a
process all coroutines share one event loop, and code without `await` runs
undisturbed by the others of its process, while handlers declared with `def` run on
threads and interleave between any two commits. The pipeline calls the notification
service and the search client from within an evaluation. The e-mail gateway is a
program of its own. The hazards of each part, at the line where they bite, with the
properties that cover them, are in `PROJECT.json` under `hazards`.

## Modules and runs

| module | models | composed in |
|---|---|---|
| `DetectionSteps` | the commits one evaluation makes and their order (`_process_event_id`) | `EventPipeline` |
| `EventPipeline` | ingest handlers, three queue modes, both workers, crash, retention | |
| `DetectionContract` | abstract: the fate of one event, as its sender may understand it | refined by `EventPipeline` |
| `DiskSpool` | the spool directory as a set of files: limits, batches | `GoAgent` |
| `GoAgent` | enrollment, collection, flush and spool of the Go agent against the backend | |
| `LogFile` | a log that grows, rotates and is truncated, and readers by inode and offset | the next two |
| `SensorCollector`, `HostAgent` | the two programs that tail it; the browser history | `HostLogs` |
| `Notifications` | insert, send, mark of an emission, per recipient | `CaseWork`, `VulnWatch` |
| `CaseWork` | alerts, their workplans and announcements, from several threads | `Backoffice` |
| `Records` | rows that concurrent requests create, update and delete, of 22 kinds | `Backoffice` |
| `VulnWatch` | the cycle of the vulnerability worker | |
| `MailVerdicts` | threat score and policy verdict of a mail: pure operators | `EmailProtection` |
| `EmailProtection` | mailboxes, webhook, cursor, gateway, quarantine | |
| `EndpointActions`, `ThreatMap`, `PasswordGuard`, `RuleSeeding`, `Launcher`, `WorkerFiles`, `NetWatch`, `MailLinks`, `SearchIndex` | one part each | `Services` |
| `MC*` | the small instances for TLC | |
| `EventPipelineProofs`, `BackofficeProofs`, `EmailProtectionProofs`, `VulnWatchProofs`, `GoAgentProofs`, `HostLogsProofs` | theorems about the module of that name and those it composes | |
| `BackendProofs` | theorems about `RuleSeeding`, `SearchIndex`, `ThreatMap`, `PasswordGuard` | `ServicesProofs` |
| `ServicesProofs` | theorems about `EndpointActions`, `Launcher`, `WorkerFiles`, `NetWatch`, `MailLinks`, and about `Services` | |

`Services` and `Backoffice` compose parts that share no state. A behaviour of
`Services` is one of one of its parts: what holds of each part alone holds of all of
them, and TLC needs the sum of their states and not the product.

Deadlock is not checked (`CHECK_DEADLOCK FALSE`) where a behaviour ends because every
input was used up; the bounds below stop it, not the code.

| run | instance | what it shows |
|---|---|---|
| `replicas` | `EventPipeline`: 2 processes, 1 crash, 2 events (one always raises), 3 modes | nothing is evaluated twice outside mode db; in mode db a healthy event is evaluated at most once per process while nothing fails, also beside a failing one (`EvaluationsAreBounded`); the pipeline implements `DetectionContract` |
| `overlap` | mode db, 2 processes, 1 crash, 1 database error, 1 retention pass | `attempts` blames only the failing event; processed rows stay processed, also when a slower replica fails where the other succeeded; the contract holds with deletion too |
| `failures` | 1 process, 1 database error, 1 retention pass, 3 events | types and queue bounds; a processed row was evaluated completely; incident items have their incident; no hand-over forgets an event |
| `live` | 2 processes, 1 crash, fair | every healthy row is processed in the end; every healthy event is settled unless something failed |
| `drops` | 1 process, memory | **violated**: a bulk request drops events that the drop counter does not count |
| `disabled` | 1 process | **violated**: a disabled rule raises alerts |
| `go_agent` | 4 snapshots of 1 or 2 units, a spool of 3, batches of 2, 1 crash, 2 calls without an answer | an agent in its loop is enrolled; a snapshot vanishes or is stored twice only for a limit, a crash or a lost answer; losses are the oldest; the backlog drains |
| `host_logs` | 3 happenings (lines, turns, truncations), 2 visits, 1 fault, batch 2 | a line is sent again, or skipped, only for a reason that is named; no visit is skipped; the collector catches up |
| `cases` | `CaseWork`: 2 users, 2 emitters, 1 alert, 3 plans, 3 requests, 1 cut. `Records`: 2 requests on one row of two fields, 3 calls, 1 failure | an assignment brings its plan and a closing its announcement; one mail per key; an update takes nothing back; alone, requests leave a coherent row |
| `vulnerabilities` | 2 components, 2 changes of the feeds, 1 refused mail, 1 death, fair worker | a mark stands for what was told, once; exploited stays critical; critical is announced |
| `email` | 2 threads and the webhook, 2 Gmail and 1 Graph messages, `HookLimit` 1, 3 requests, 1 failure, 1 crash | nothing behind the cursor is unseen; a synced mailbox shows assessed mail; harmful mail is held; what is published is analysed |
| `services` | nine parts, see [below](#parts-of-services) | the properties of each part |

The instances are the smallest in which two actors meet on one thing with one failure
between any two of their steps: two processes, threads, launchers or desks, one
crash or cut, a queue or window or spool smaller than what is offered to it. Every
property has a plausible bug of the code, in `PROJECT.json` under `mutants`, for
which the same instance violates it. Most modules with state also define a type
invariant (`TypeOK`, `ActionTypeOK`, ...), which holds on these instances too and is
[proved](#what-is-proved) where something else is.

## The event pipeline

**State.** `stored`, `row`, `stamp`, `attempts` are the tables `events` and
`pending_events`; `effects[e][s]` counts how often commit `s` of the evaluation of
`e` has been made, which stands for the alerts, incidents, items and notifications
in the database. `queue[p]` is the queue of process `p`; `waiting[p][e]` is a
handler of `ingest_event` asleep after that many refused puts. `task[p]` says which
coroutine holds the event loop of `p`; `hand[p]` what it has done about each event
of its request or batch; `cur[p]` and `done[p]` are the evaluation that is running;
`seen[p]` is what the worker read of `attempts` with the batch. `counted` is the
drop counter of `metrics.py`; `overflow` is a history variable.

**Granularity.** One action is one database commit or one stretch of code between
two suspension points. `process_db_event_queue` never awaits inside a batch, nor
does `_process_event_id`, so the handlers of the same process do not interleave
with them: `task[p]` is held. Other processes, `Prune` and `Crash` do interleave,
between any two commits.

**Actions and code.** `IngestEvent` and `IngestNetworkBulk` end with the commit of
the events. What follows in the same handler depends on the mode: `InsertPending`
(or `InsertPendingFails`) in mode db; `PutNowait`, `PutRefused`, then `RetryPut`
and `DropEvent` in mode memory; `StartEvaluation` in mode inline. Workers start with
`TakeFromQueue` or `FetchBatch`. `StartEvaluation`, `CommitStep`,
`FinishEvaluation`, `RaiseStep` and `FaultStep` are `_process_event_id`; `EndTask`,
`CommitBatch` and `RollbackBatch` are what its callers do afterwards. A step that
always raises for some event is data (`Rejected`): the instance uses an incident
title longer than its column, which an alert with a long rule name produces.

**Abstracted.** Which indicators and rules an event matches (constants); the
content of alerts; metrics; index documents, whose failure is caught; raw and
network event records; the endpoint row registered before the event. Numbers
written by several commits are counted up to `CountCap`. Times are insertion
numbers; ties inside one bulk request are left open.

### Bounds and fairness

All runs of the pipeline use queues of one place, three puts, batches of two rows, and bulk
requests of at most two events. That is enough for a queue to be full, for a put to
be refused and retried, for a batch to mix a healthy and a failing row and for two
replicas to hold overlapping batches. `CHECK_DEADLOCK` is off because a run with
every event accepted and settled has nothing left to do.

`CountCap` is 3 in `replicas`, one more than the number of processes, so that
`OneEvaluationPerProcess`, a part of `EvaluationsAreBounded`, can fail; `overlap`, whose
properties only ask whether a count is positive, has 1.

**Fairness.** `Run(p)` and `Wake(p, e)` are weakly fair: asyncio runs every ready
coroutine in turn, a sleep ends, and the database worker polls for ever. Ingest,
crashes, errors and retention passes are not fair. `RowsAreProcessed` assumes fewer
failing rows than `BatchLimit`; with as many, the code starves newer rows, since
failing rows stay oldest and nothing bounds `attempts`.

**Two disagreements** between the code and its documentation came up; see
`findings` in `PROJECT.json`. The bulk handler does not count the events it drops,
although the metric is described as counting drops on a full queue. The detection
loop ignores `DetectionRule.enabled`, although the tuning guide relies on disabling
rules.

## Agents and collectors

### Go agent: `DiskSpool`, `GoAgent` (run `go_agent`)

`DiskSpool` has no variables: a file is a record of its snapshot, time and whether it
is torn, a spool is a set of files, and `Enforced`, `Batch` and `Payload` are
`enforceLimits`, `DequeueBatch` and what `flushSpool` makes of a batch. Snapshots are
numbered as they are collected; their files are named and dated in that order, so "the
oldest" and "the first by name" are the least numbers. The loop of `enforceLimits` is
given by where it stops: the first snapshot before which enough is removed (`Enough`). `GoAgent` follows `main.go` with a program counter:
read or create the two saved files, enroll, then the loop of flush, collect, post,
and enqueue on error. A call that ends without an answer may still be served later
(`orphans`). A rival may take the name first.

*Checked.* `SnapshotsAreKept`: the directory stays within the limit, a snapshot
vanishes only by the limits or by a crash that held it in memory, and is stored
twice only after a fault. `LosesOldestFirst`: whatever is lost or delivered, the
files before it went first. `RunningMeansEnrolled`: a crash between the enrollment
and the two files never ends in an agent that reports without key. `BacklogDrains`,
with `WF(AgentStep)` and `WF(StoreSnapshot)`: the service manager restarts the agent
(`agent/packaging/linux/eventsec-agent.service:8`), the loop runs for ever, and a
request that was received is served.

*Abstracted.* The clock advances at least once between two enqueues; a torn file is
one that was created and left empty; configuration and heartbeats are left out.
`Deliverable` excludes bodies from the size on at which the client compresses them:
the backend does not read `Content-Encoding`, and such a batch never gets through.

### Logs: `LogFile`, `SensorCollector`, `HostAgent` (run `host_logs`)

`LogFile` is the file as it is on disk, in lines that are written in two halves, and
what a reader at an offset of an inode gets. `SensorCollector` is the loop of the
collector: tail, batch, post with backoff, save the offsets. `HostAgent` is the tail
of the Python agent and its page of visits of a browser history, whose cursor is a
timestamp that several visits may share.

Lines are numbered as they are written; what a reader holds is a set of them, from
which the least comes next.

*Checked.* `HostIsReadOnce`: a line reaches the backend again only after a fault, and at
most once per start of the agent; a line behind the offset of the collector, or behind
the one it has saved, has arrived, is held, or was lost in a way that a history names
(the offset is saved before the lines are used); no visit behind the cursor is skipped
but for another one of the same instant. `CatchesUp`: again and again each line in the file was sent,
except those lost in memory, read in halves, or passed because the file was taken for
the one already read. Fairness is `WF` of the steps of the collector, which loops for
ever.

*Abstracted.* Inodes are not reused; one log, one history; the Zeek source of the
collector differs in its file names only.

### Endpoint actions: `EndpointActions` (in `services`)

One endpoint. The backend side is the request, the poll and the completion in its two
commits (the verdict, then the state of the endpoint); `request[0]` is the completion the
agent waits for, and `request[n]` the one it gave up at the n-th fault, on which the backend
goes on alone. The agent side polls, works through the set `todo`, reports, and remembers
nothing over a restart. *Checked:* `VerdictIsFinal`, a settled verdict changes only by a
completion that had passed its check before; `ActionsShow`, an action is repeated only
if its report got no answer or its execution raised, and the endpoint shows what its settled actions lead to, in
their order, unless a completion was cut between its commits or raced a later one;
`ActionsAreSettled`, with `WF` of the agent's loop and of the server, whatever number of
reports is lost within the bound. Two pending actions are executed newest first, so
isolate and release asked together end isolated.

A malware scan can raise: `int()` of its parameters (`agent.py:1142-1143`), which the API
does not validate, or the scanner itself (`subprocess.run`, `1169`, `1214`). `process_actions`
does not catch it, the handler of the main loop logs it (`1697-1702`), nothing is completed
and the rest of the list is dropped. A scan that raises this once (`ExecutionFails`) is one of
the faults; one that raises every time is in `unfit`, is executed at every poll without bound
(`ExecutionRaises`), and is never settled, nor is what was requested before it, because the
list is newest first: the two properties except exactly these. The fairness assumes that the
loop comes to `process_actions` again, which it does after a pause of five seconds.

### The desktop: `Launcher`, `WorkerFiles`, `NetWatch` (in `services`)

`Launcher` is `launcher.py` with its lock file (the POSIX branch) and the worker it
starts; inode numbers may be reused when they are free. `OneWorkerPerDesktop`: two
launchers are up only when one locked a file that another was about to unlink
(`launcher.py:53-54`), and a worker without launcher was orphaned by a kill.
`WorkerFiles` is the configuration and status files that workers write and the health
check reads; two workers at once come from an orphan and its successor. Checked
(`HostKeepsItsWord`): once its name is taken a host has its key in a file or in a worker,
unless the answer was lost or the write failed; and the health check does not call a
host healthy when its last worker ended as long ago as the age it allows. `NetWatch` is the
connection monitor with its caches of indicators, names and hits: `ListedIsReported`
bounds how stale they may be together.

## Cases, records and notifications

`Notifications` models one `emit`: per recipient the insert of the unique key, the
mail, the mark, each a commit of its own, by several emitters. A key is (type, entity,
recipient, bucket); `SkipDuplicate` is the unique violation. `CaseWork` models the
update of an alert (`main.py`) with what it brings: the automatic workplan and the
announcement of a closing, next to deletes and workplans made by hand. `Records` models
the handlers of 22 kinds of rows, one action per handler, over one row of two fields: a
request reads, then writes what it was sent (the ORM writes the fields that changed, the
e-mail service all that is sent), then commits a line of the audit log or a second row.

*Checked (run `cases`).* `DecisionsAreFollowed`: an assignment has a workplan unless it
was cut or refused, a thread adds at most one, a closing is announced. Two threads may
each add one, after which `get_workplan_by_alert_id` raises: the model keeps this case.
`MailedOnce`: one mail per key, and a row that stays unsent has a reason.
`NothingIsTakenBack`: a concurrent update changes no field it did not mention.
`UncontendedIsCoherent`: without concurrent requests the row is what was written last, its
paired row is there, and its audit tells of every write, but for one kind of write: an
update of a workplan that sets `due_at` commits the row, then raises in `log_action`
(`main.py:1723-1724`: a `datetime` does not go into a JSON column), every time, so that the
caller gets an error for what was stored and the log has no line (`LogFails`). `untold`
counts these, and the property says that the lines and they are together all updates. With
two requests at once fields mix, the order of a handover's shift included.

*Abstracted.* Refused requests, which change nothing; content; the notification of an
escalation, which is one more `emit`. The instances have one alert and one row: requests
on different rows do not interact. `MCBackoffice` uses the symmetry of threads and of users,
which is sound, as only safety is checked.

## The vulnerability worker

`VulnWatch` is `loop_worker` (`worker.py:58`) with `_run_match_and_notify` and `_run_digest`,
commit by commit: fetch each component's feed, through a cache,
record and score, alert, send the immediate notification, mark, digest. Feeds change,
components appear and age, alerts are deleted, mail is refused; the worker has no `try`
and dies with any exception; compose restarts it, hence `WF(WorkerStep)`.

*Checked (run `vulnerabilities`).* `ToldAsMarked`: a finding is marked with a risk only
after that risk was emitted to every admin, or a row of the same bucket stood in its
way (of a mail about other findings, or about this one at another risk: a rise within a
window of the deduplication is marked and not mailed), and none is told twice unless the worker died (or both mails of a cycle name it, which
the default threshold excludes). The mark does not say that a mail
went out: it is written whatever became of it. `ExploitedIsCritical`: a vulnerability
that was known as exploited stays critical. `CriticalIsAnnounced`: a component that
stays seen, open and critical is announced. Version matching is data.

## E-mail protection

`MailVerdicts` are the pure score and policy operators; `EmailProtection` is `app.py` with
two request threads and the webhook, a coroutine that does not await once it has its body,
so that one is at work at a time. The history cursor is one number; pushes arrive in any
order, repeatedly, and fail: Pub/Sub delivers what is not acknowledged again, hence
`WF(Hook)`.

*Checked (run `email`).* `NothingSkipped`: behind the cursor lies nothing unanalysed but
what was beyond the limit of one call or was jumped by a new link or watch. The cursor
may be set back by a push that comes late (`app.py:2166`), which analyses mail again and
skips none. `MailboxIsTrue`: a mailbox that shows ok was assessed and a verdict can be
explained. `HarmfulIsHeld`: mail with a malicious attachment or URL is in quarantine.
`WatchedIsAnalysed`: what is published is analysed. Failures of a push are transient in the
model. Two are not, and are excluded: a message that was deleted before the push
(`app.py:2136`), and a cursor so old that Gmail has dropped that part of the history and
answers 404 (`app.py:2123`). Either makes the webhook fail for ever, the second until the
mailbox is linked or watched anew.
`MailLinks` (in `services`) is the OAuth round trip: `LinksHold` says that a state is
spent once unless two callbacks of it came together, and that the newest login stays against a late refresh.

## Parts of Services

| part | instance | properties |
|---|---|---|
| `EndpointActions` | 2 actions of 4 types, any scans of them unfit, 2 faults | `ActionsShow`, `VerdictIsFinal`, `ActionsAreSettled` |
| `ThreatMap` | 1 connection, 4 events, a queue of 3 | `StreamIsWhole`, `DropsSwitchMode` |
| `PasswordGuard` | 2 processes, window 1, limit 1, 2 reports, 1 crash | `ReportsAreHandled` |
| `RuleSeeding` | 2 processes, 2 rules, 4 starts | `SeededOncePerEmptyTable` |
| `Launcher` | 2 launchers, 2 workers, 1 kill or failed start | `OneWorkerPerDesktop` |
| `WorkerFiles` | 3 agents, `MaxAge` 1, 1 loss | `HostKeepsItsWord` |
| `NetWatch` | 2 sockets, lifetimes 1 and 2, suppression 2, 4 instants | `ListedIsReported` |
| `MailLinks` | 2 callbacks, 2 logins, 4 calls, 1 restart, 1 hour | `LinksHold` |
| `SearchIndex` | 2 processes, 2 starts, 1 event, a bulk for two days and one for a day of them, 2 tries, 1 outage | `IndexIsWhole` |

**`ThreatMap`** is the bus with its ring, the subscription of a connection between the
snapshot of the ring and the live queue, and the mode switch. `StreamIsWhole`: what a
connection lacks was refused or skipped, and then it is counted for the aggregates. The
locks are never contended (no `await` under them), posted events are fresh, heartbeats
carry no event; the bus is one per process. The ring is trimmed on publish alone, and a
future timestamp at its head stops the trimming.

**`PasswordGuard`** is a coroutine that does not await, so that a process handles one
report at a time. `ReportsAreHandled` bounds the reports of one process in a window and
says that each detection of a finished report has an alert of its own that is linked.
The documented limit per host (`docs/passwordguard.md:36`) is a limit per process: the
property counts per process.

**`RuleSeeding`**: one commit per rule; two starts may both see an empty table, and an
interrupted seeding is never resumed. A start that cannot list the rules, or whose file is
missing or does not parse, logs a warning and serves without seeding (`SkipSeeding`,
`main.py:659-676`); nothing seeds again while it is up, and a rule that an analyst makes
through it (`early`) keeps every later start from seeding. `SeededOncePerEmptyTable` says
exactly when that shows: how many copies there are, and on what a process that is up and did
not skip may rely.

**`SearchIndex`**: prepare the indices, send documents with retries, two processes. Events
are sent alone to the alias; network events in bulk, sorted by the index of their day, one
call per index. Of a bulk OpenSearch may refuse documents in its answer, which the code only
logs (`search.py:354`; `PutAnswered`, `badItems`), and when the call for one day fails for good,
the exception leaves the later days unsent (`search.py:347`). `IndexIsWhole`: a document is
missing only when its call, or one before it of its bulk, failed as often as it is tried, its
process died, it lost the race to create its index, or the answer to its bulk refused it; it
is there twice only for a lost answer. The instance has no raw events, which go the way of a
bulk of one document without refusals in the answer. One outage is enough to use up the tries
when it loses the answer of a call whose repetition fails on what the first one left; two plain
failures in a row need a second one, with which this part alone holds too (458,951 states) and
`IndexCorrect` covers every number. A document of events without the mappings exists only when a process indexed before the alias was there (`unprepared`).

## What is proved

Every safety property that a passing run checks, invariant or action property, is proved for all
values of the constants, and so is the refinement of `DetectionContract`. Only the liveness
properties rest on the runs alone. The
entries of `theorems` in `PROJECT.json` list the results.

**Assumptions.** The theorems assume the `ASSUME` of each module and nothing else, with one
exception (`ToldOnceCorrect`, a corollary about a default, below). These are types of the constants (`DetectionConstants`,
`CaseConstants`, ...), finiteness of the sets of actors where a proof counts them (processes,
threads, handlers), and three relations that come from the code: capacities and limits are positive
(`PipelineConstants`), there is a process at all, and the suppression of repeated hits is
no longer than the two caches of the connection monitor together (`WatchConstants`;
`Suppression <= Ttl + DnsTtl`, 300 and 300 + 600 seconds in the code). The numbers
that bound a run (`MaxCrashes`, `MaxFaults`, `MaxRequests`, ...) are arbitrary
naturals, so that the theorems hold however often things go wrong. TLC evaluates all assumptions.

**Form.** For each component an invariant is found that every step keeps, checked by TLC on
the instance of a run, and proved: a lemma per action or group of actions, under it a step
per conjunct that the action can disturb. The invariants add to the property what an actor
holds in memory between two commits; that is the part no table shows.

### Pipeline (`EventPipelineProofs`)

`ProcessedIsEvaluated` is not inductive. A worker closes rows on the strength of
what it holds in memory, so the invariant `IInv` says what a hand may hold:
`BatchIsJustified` (an event with outcome ok has been evaluated or its row is gone),
which rests on `DoneIsCommitted` (the steps counted are committed, and effects never
shrink) and on `RowsNeedEvents` (an event that is gone while its row was fetched has
taken the row along, by the cascade); `HandlersAreApart` keeps a handler from
inserting a row that exists, and `LoopIsConsistent` ties the evaluation to the
coroutine that holds the loop. `TypeCorrect` (which bounds each memory queue in spite
of sleeping handlers), `ProcessedCorrect` and `FinalCorrect` follow. The others extend `IInv`:

- `BlameCorrect` adds `FailuresHaveReasons`. The interesting case is an evaluation that
  failed because its event was deleted: its row is gone, so `RowGone` rolls the batch back
  before `attempts` is written.
- `ContractKept` is the refinement: `Spec => KeepsContract`. `KnownAreBorn` says that whatever
  a process knows of an event, it knows of an accepted one; `Moves` says how one step may change
  what the contract sees of an event, and each such change is one of its steps.
- `NothingForgotten` adds `CalmInv`: as long as no failure has been noted, stored events stay.
- `LinksCorrect` counts. For a step `s` and the step `t` it points to, `LinksFollow` says
  that the commits of `s` and the evaluations `Ahead` (which have made `t` and not yet `s`)
  are together at most the commits of `t`, because every evaluation follows `InProgramOrder`.
- `BoundsCorrect` has two parts. Outside mode db `OnePlace` says that an accepted event is in
  one queue, one hand or one sleeping handler, and `EffectsFollow` that its effects come from
  there. In mode db, while nothing fails, `TurnInv` counts turns: until its row is closed, an
  event has been through a step at most once for each worker that still holds it (`HadTurns`);
  afterwards only those that fetched it before may follow (`TurnsDue`), and both together
  are no more than the processes.

### Cases, records, notifications (`BackofficeProofs`)

- `MailedCorrect`: who is about to send inserted the row of the key, and nobody else did
  (`SenderIsFirst`), since a key without a row was never mailed and is nobody's (`NoRowNoMail`).
- `DecisionsCorrect`: an assignment that has come to its announcement has a plan
  (`AnnouncedIsPlanned`), and plans made and about to be made of one alert are as many as threads
  that found none (`AutoPlansAreCounted`).
- `CoherentCorrect`: as long as no two requests met, the one at work knows the row
  (`AloneWithRow`, `RowIsWritten`) and the log lacks exactly its line (`LogTells`) and
  the updates of a workplan that set its due date, which `LogFailsStep` shows to be counted.
- `KeptCorrect`: what a request writes it was sent, or it wrote back what is there.
- `DeskCorrect` carries the four over to `OfficeSpec`, which the run `cases` checks: a step of the
  whole is one of the cases or of the records and a stutter of the other.

### Vulnerability worker (`VulnWatchProofs`)

The worker carries what it knows of the findings through a whole cycle while the tables
change. `FactInv` says what stays true of it: a label and a mark that it holds are those of the
table (`FoundIsFresh`), and what is due is due at the risk the finding has (`DueIsFresh`).
`MailInv` says what the mail under way has told of it (`EmittingIsMailing`). Hence
`ExploitedCorrect` and `MarkedCorrect` (the first half of `ToldAsMarked`). That nothing is told
twice, `OnceInv`, rests on `DueIsNew`: what is due in a cycle was not marked at its risk before,
except what the immediate mail has just told. The first attempt, that no admin is told the same
twice while the worker lives, is false for a threshold below the default, for a good reason: the
digest is built from all findings labelled HIGH or MEDIUM that were due when the cycle began, so
that one notification tells such a finding in both mails (`vuln_notifications.py:76-80`,
`115-119`). `ToldOnce` says that this is the only way, and `ToldCorrect` proves it for every
threshold; `ToldOnceCorrect` is the case of the default (`MinImmediate = "CRITICAL"`,
`config.py:111`), where there is none.

### E-mail protection (`EmailProtectionProofs`)

`TInv` are the types, and that the identifiers requests hold exist. `SkippedCorrect` adds
`CallIsSound`: a webhook call has read every change from the cursor as it was to the announced
one, and what lay before was settled. `MailboxCorrect` adds what a sync and a rescan hold:
listed messages are shown or still to come (`SyncIsSound`), and who writes a verdict without
having seen the attachments is remembered (`RescanIsSound`, `BareIsBlind`). `HarmfulCorrect` uses
that the score of a harmful mail alone sends it to quarantine whatever the policies
(`HarmfulIsSeen`) and that an ingest which has not come there is under way or was cut.

### Go agent (`GoAgentProofs`)

- `EnrollmentCorrect`: the id is on disk only with the key, and the key only with the row
  (`IdComesLast`, `EnrolledWhileSaving`).
- `KeptCorrect` follows a snapshot from the hand of the agent to the backend or the spool, and
  from there through a batch. A whole file of the spool was not stored without a fault
  (`NotStoredYet`), except between the answer to a flush and its acknowledgements; what
  a call carries is still in hand or on disk (`ServingIsHeld`), so that nothing vanishes
  with it. That the limit is kept needs what `Enforced` leaves: the bytes of a set of
  files are the cardinality of a set of pairs, finite sets add up, and the least number
  of evictions that is enough exists, by well-founded induction (`EnforcedLeaves`).
- `OrderCorrect` is an action property from the same invariant: what `Fresh`, `Enforced` and
  the acknowledgements take away is older than what they leave (`SpoolIsOrdered`: age
  follows the number, and what the agent holds is younger than all files).

### Logs (`HostLogsProofs`)

`ReadOnceCorrect` is one inductive invariant for the file, the collector and the agent. Its core
is `Behind(p, n)`: line n is complete, and its pieces lie before offset p in the file of p's
inode or are gone. `FileInOrder` (numbers rise along the file, a line that is begun is the
last) makes this stable while the file grows or turns. A line that the collector read in its
place is behind it and behind what it saved (`SensorIsAhead`), unless `state.json` was
torn, and it is in one place, the rest of the round or the batch, or has arrived
(`SensorHoldsOnce`); the same for one start of the agent (`AgentIsAhead`).
`SkipInv` is the other direction: once the collector has read this turn of the file, no offset
it has or saved lies behind the end (`OffsetInFile`), and what lies before one is
accounted for. `VisitsAreKnown` says that the cursor is the time of a row that was read and
not after the last visit, so that no visit falls before it later.

### Endpoint actions and the desktop (`ServicesProofs`)

- `ShownCorrect`, `VerdictCorrect`: an action that waits has been executed no more often
  than reports of it were lost (`WaitingIsUnreported`, of actions that do not raise every time); a request beyond its first commit is
  about a settled action, and one before it about a pending one or one that was overtaken
  (`BeyondIsSettled`, `PassedIsPending`); the endpoint lags by the commit in between
  (`LagsByOne`). That a poll returns something when something is pending needs the least of a set of
  numbers, by well-founded induction.
- `DesktopCorrect`: without a race the file at the path is that of the launcher that is up
  (`LockIsAtItsPath`). `HostCorrect`: `KeysAreWritten`, `StatusIsOfWorkers`.
- `WatchCorrect`: an answer had after the last change, and not expired, is true
  (`CachesAreTrue`). `LinksCorrect` of the mailboxes: a state that was accepted and is still
  there is about to be popped (`AcceptedIsPopped`).

### Backend services (`BackendProofs`)

- `SeedingCorrect`: copies of a rule and starts that have still to make it
  (`SeedsAreCounted`) are as many as starts found the table empty, fewer after one cut short.
  `SomeoneSeeded`: a rule, or a process that did not skip the seeding, comes after a start that
  seeded, or after a rule made through one that skipped it.
- `IndexCorrect`: a document is in one place (`DocumentsAreOne`), and stored at most once
  more than answers were lost (`StoredUnanswered`). What is neither waiting nor in hand was
  stored, refused in an answer, or excused.
- `StreamCorrect`: sent, being sent, replay and queue of a connection are one rising
  sequence, which with the skipped and the refused makes an interval (`StreamsRise`).
  `DropsCorrect` is an action property from the same invariant.
- `ReportsCorrect`: a bucket holds the reports of the window and no others
  (`BucketIsRecent`), and the alerts without a link are no more than handlers that are about to
  link one, and reports that were broken off (`FewUnlinked`, a count over an injection).

### All together (`ServicesProofs`)

`PartsKeepTheirWord`: a behaviour of `Services` is one of each of its nine parts, because a step
of the whole is a step of one part and a stutter of the eight others. `ServicesHold`,
`ServicesStepWell` and `ServicesAreTyped` are the theorems of the parts carried over to the
specification that the run `services` checks.

### Only model-checked

- The liveness properties (`RowsAreProcessed`, `AcceptedIsSettled`, `BacklogDrains`,
  `CatchesUp`, `ActionsAreSettled`, `CriticalIsAnnounced`, `WatchedIsAnalysed`): fairness and
  ENABLED are beyond the prover.

What the code computes by a loop, the eviction of files and the page of visits, is modelled by
the set it ends with; that a Go loop or an SQL query computes that set is read, not proved.

## What the code does that its documents do not say

Two disagreements are runs of their own (`findings`). Others came up while reading; where a
module is affected it follows the code.

- `scripts/smoke_end_to_end.sh:145` requests a `triage_scan`, and `agent.py:695` handles it,
  but `schemas.py:1095` refuses it.
- `docs/email_protection.md:21` stores history ids "to avoid duplicates"; a late push sets
  the cursor back.
- "Shift end must be after shift start" (`main.py:1556-1557`) holds for an update only when it
  sends both ends (`main.py:1621-1640`).
- A map client that reports 0 frames per second is taken for one with 60
  (`threatmap_router.py:257`).
- `launcher.py:333` says the worker continues; `run()` stops it (`launcher.py:352-355`).
- `launcher.py:28`, "Prevent multiple launcher instances", does not hold while another
  launcher removes the lock file.
- The agent logs that it re-enrolls on an invalid key, and does not.
- With `vuln_intel_notify_immediate_min_risk` below CRITICAL a finding labelled HIGH or MEDIUM is
  in the immediate mail and in the digest of the same cycle (`vuln_notifications.py:76-80`,
  `115-119`); the run about it has the default threshold, the theorem any.
- `search.py:285-316` calls `client.index(document=...)`, while the pinned client
  (`opensearch-py==2.5.0`) names that parameter `body`. The model takes the call as the code
  means it; where the client refuses it, it is a call that fails at every try, which
  `IndexIsWhole` excuses.
- A `PATCH` of a workplan with `due_at` is stored and answered with an error
  (`main.py:1723-1724`, `1788-1789`).
- A malware scan whose parameters the agent cannot use is executed at every poll and starves
  the actions requested before it (`agent.py:687-718`, `1142-1143`).
- The sandbox handler drops the file name when the metadata is empty (`main.py:2250-2254`, an
  operator precedence).
- The audit row of a completed action stores the id of the agent, or 0, where the column is a
  foreign key to users (`main.py:2823-2837`), after both commits.
- Nothing starts the e-mail gateway's `workers.py`: rows of its queue stay pending.
- A triage result becomes an event that is never evaluated; the actions of an alert, such as
  isolating a device, write an audit line only (`main.py:1377-1464`).

## Not modelled

- **Authentication, settings**: token checks that keep no state.
- **KQL and search reads**: a pure translation to queries whose meaning lies in OpenSearch.
- **Parsers** (`parsers/`) and the rows of network events and ingest errors: pure functions,
  and rows that nothing in the pipeline reads again. What matches what is a constant.
- **XDR adapters**: products outside the repository. The row of an active response
  (`xdr_router.py:33-98`), pending until the adapter has answered, is a kind of `Records`.
- **Inventory and configuration samples of the Python agent, Go collectors**: pure input.
- **Triage scan and `protoxol_triage`**: no request of the API can ask for it.
- **Reports, exports, subscriptions of the e-mail gateway, catalogue reads**: reads.
- **Web frontend**: presentation. What its map client filters and aggregates by itself is local.
- **Deployment, migrations, tools**: configuration. What they fix for the models is used: two
  replicas, restart policies, cascades and unique keys of the tables.

## Plan

The modules of the inventory are written, no module declares a RECURSIVE operator, and every safety
property of the runs is proved. What is left are the liveness properties, when a prover
of fairness and ENABLED is available: the measures are those of the pipeline (rows before a
row in the batch order), of the spool (files before a file) and of the log (pieces behind an
offset).
