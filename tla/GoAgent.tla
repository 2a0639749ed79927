------------------------------ MODULE GoAgent ------------------------------
(***************************************************************************)
(* One Go agent and the backend it reports to: enrollment, the inventory   *)
(* loop, the disk spool, and the handlers that store snapshots.            *)
(*                                                                         *)
(*   runCmd, ensureEnrollment, sendInventory, flushSpool                   *)
(*                                 agent/cmd/eventsec-agent/main.go        *)
(*   SaveAPIKey, SaveServerAgentID agent/common/config/state.go            *)
(*   doJSON                        agent/common/transport/client.go        *)
(*   enroll_agent                  backend/app/routers/agents_router.py    *)
(*   ingest_inventory_snapshots    backend/app/routers/inventory_router.py *)
(*                                                                         *)
(* The agent has one thread: pc says what it does.  A request it waits for *)
(* is "serving"; one it gave up on, or died over, may still be worked on   *)
(* by the backend and is one of the "orphans".  The backend commits every  *)
(* snapshot of a request by itself.                                        *)
(***************************************************************************)
EXTENDS DiskSpool

CONSTANTS
  TickSize,    \* bound: snapshots of one inventory
  GzipAt,      \* doJSON compresses bodies of this size and up
  MaxTime,     \* bounds of a run: how far the clock gets,
  MaxCrashes,  \*   deaths of the agent,
  MaxFaults    \*   calls that end in an error although the backend takes them

ASSUME AgentConstants ==
  /\ TickSize \in Nat \ {0}
  /\ GzipAt \in Nat
  /\ MaxTime \in Nat /\ MaxCrashes \in Nat /\ MaxFaults \in Nat

VARIABLES
  pc,         \* what the agent is doing
  key,        \* apiKey of the client, in memory
  hand,       \* snapshots it holds: being sent, spooled or acknowledged
  batch,      \* files a flush has read and will acknowledge
  spool,      \* the spool directory
  keyFile,    \* state_dir/api_key
  idFile,     \* state_dir/server_agent_id
  owner,      \* whose row has this host name in the table agents
  serving,    \* what is left to store of the request the agent waits for
  orphans,    \* the same for requests nobody waits for any more
  copies,     \* copies[s]: rows of inventory_snapshots that hold s
  collected,  \* snapshots collected so far
  shed,       \* history: snapshots given up for the limits of the spool,
  died,       \*   and those in memory only when the agent or a write died
  now, crashes, faults

state   == <<keyFile, idFile>>
backend == <<owner, serving, orphans, copies>>
history == <<shed, died>>
budgets == <<now, crashes, faults>>
vars == <<pc, key, hand, batch, spool, state, backend, collected, history, budgets>>

FileStates == {"none", "empty", "saved"}
Calling == {"sending", "flushing"}
InLoop == {"loop", "spooling", "acking"} \cup Calling
PCs == {"down", "enrolling", "save_key", "save_id"} \cup InLoop

TypeOK ==
  /\ pc \in PCs
  /\ key \in {"none", "issued"}
  /\ hand \subseteq Snaps
  /\ batch \subseteq File
  /\ spool \subseteq File
  /\ keyFile \in FileStates /\ idFile \in FileStates
  /\ owner \in {"nobody", "agent", "rival"}
  /\ serving \subseteq Snaps
  /\ orphans \in Seq(SUBSET Snaps)
  /\ copies \in [Snaps -> Nat]
  /\ collected \in 0 .. MaxSnaps
  /\ shed \subseteq Snaps /\ died \subseteq Snaps
  /\ now \in 0 .. MaxTime
  /\ crashes \in 0 .. MaxCrashes
  /\ faults \in 0 .. MaxFaults

Init ==
  /\ pc = "down" /\ key = "none"
  /\ hand = {} /\ batch = {} /\ spool = {}
  /\ keyFile = "none" /\ idFile = "none"
  /\ owner = "nobody"
  /\ serving = {} /\ orphans = <<>>
  /\ copies = [s \in Snaps |-> 0]
  /\ collected = 0
  /\ shed = {} /\ died = {}
  /\ now = 0 /\ crashes = 0 /\ faults = 0

-----------------------------------------------------------------------------
(***************************************************************************)
(* Start and enrollment, with an enrollment key and no API key in the      *)
(* configuration.  Every error of ensureEnrollment ends the process; the   *)
(* service manager starts it again.                                        *)
(***************************************************************************)
Start ==
  /\ pc = "down"
  /\ key' = IF keyFile = "saved" THEN "issued" ELSE "none"
  /\ pc' = IF idFile = "saved" /\ keyFile # "none" THEN "loop" ELSE "enrolling"
  /\ UNCHANGED <<hand, batch, spool, state, backend, collected, history, budgets>>

\* Mutation of FirstSave: the id is saved before the key.
FirstSaveId == "save_id"

FirstSave == "save_key"

\* enroll_agent answers: the row is committed before the key leaves.
Enroll ==
  /\ pc = "enrolling"
  /\ owner = "nobody"
  /\ owner' = "agent"
  /\ key' = "issued"
  /\ pc' = FirstSave
  /\ UNCHANGED <<hand, batch, spool, state, serving, orphans, copies, collected,
                 history, budgets>>

\* "Agent name already registered"
EnrollRefused ==
  /\ pc = "enrolling"
  /\ owner # "nobody"
  /\ pc' = "down"
  /\ UNCHANGED <<key, hand, batch, spool, state, backend, collected, history, budgets>>

\* The call fails before the backend has the request, or after its commit.
EnrollFails ==
  /\ pc = "enrolling"
  /\ faults < MaxFaults
  /\ faults' = faults + 1
  /\ owner' \in IF owner = "nobody" THEN {"nobody", "agent"} ELSE {owner}
  /\ pc' = "down"
  /\ UNCHANGED <<key, hand, batch, spool, state, serving, orphans, copies, collected,
                 history, now, crashes>>

\* Another host with the same host name enrolls first.
RivalEnrolls ==
  /\ owner = "nobody"
  /\ owner' = "rival"
  /\ UNCHANGED <<pc, key, hand, batch, spool, state, serving, orphans, copies,
                 collected, history, budgets>>

AfterSave(file) ==
  IF file = FirstSave THEN (IF file = "save_key" THEN "save_id" ELSE "save_key") ELSE "loop"

SaveAPIKey ==
  /\ pc = "save_key"
  /\ keyFile' = "saved"
  /\ pc' = AfterSave("save_key")
  /\ UNCHANGED <<key, hand, batch, spool, idFile, backend, collected, history, budgets>>

SaveServerAgentID ==
  /\ pc = "save_id"
  /\ idFile' = "saved"
  /\ pc' = AfterSave("save_id")
  /\ UNCHANGED <<key, hand, batch, spool, keyFile, backend, collected, history, budgets>>

-----------------------------------------------------------------------------
(***************************************************************************)
(* Calls.  The backend reads no Content-Encoding, so it cannot parse a     *)
(* compressed body, and it refuses a wrong key; both before it stores      *)
(* anything.                                                               *)
(***************************************************************************)
Accepts(snaps) ==
  /\ key = "issued" /\ owner = "agent"
  /\ Bytes(snaps) < GzipAt

Post(snaps, next) ==
  /\ hand' = snaps
  /\ serving' = IF Accepts(snaps) THEN snaps ELSE {}
  /\ pc' = next

\* sendInventory up to the call
CollectInventory ==
  /\ pc = "loop"
  /\ \E n \in 1 .. TickSize :
       /\ collected + n <= MaxSnaps
       /\ collected' = collected + n
       /\ Post(collected + 1 .. collected + n, "sending")
  /\ UNCHANGED <<key, batch, spool, state, owner, orphans, copies, history, budgets>>

\* flushSpool up to the call: files that are no JSON are removed at once.
FlushSpool ==
  /\ pc = "loop"
  /\ Due(spool)
  /\ batch' = Batch(spool)
  /\ Post(Payload(batch'), "flushing")
  /\ spool' = (spool \ batch') \cup Readable(batch')
  /\ UNCHANGED <<key, state, owner, orphans, copies, collected, history, budgets>>

\* ingest_inventory_snapshots: one commit of the handler.
StoreSnapshot ==
  /\ serving # {}
  /\ copies' = [copies EXCEPT ![Min(serving)] = @ + 1]
  /\ serving' = serving \ {Min(serving)}
  /\ UNCHANGED <<pc, key, hand, batch, spool, state, owner, orphans, collected, history,
                 budgets>>

StoreOrphan ==
  \E i \in DOMAIN orphans :
    /\ copies' = [copies EXCEPT ![Min(orphans[i])] = @ + 1]
    /\ orphans' = IF orphans[i] = {Min(orphans[i])} THEN RemoveAt(orphans, i)
                  ELSE [orphans EXCEPT ![i] = @ \ {Min(@)}]
    /\ UNCHANGED <<pc, key, hand, batch, spool, state, owner, serving, collected,
                   history, budgets>>

AfterAnswer == IF pc = "flushing" THEN "acking" ELSE "loop"

\* The call ends well: everything was stored.
CallSucceeds ==
  /\ pc \in Calling
  /\ serving = {}
  /\ Accepts(hand)
  /\ hand' = {}
  /\ pc' = AfterAnswer
  /\ UNCHANGED <<key, batch, spool, state, backend, collected, history, budgets>>

\* Mutation of AfterError: a failed flush is acknowledged all the same.
AfterErrorAck == IF pc = "flushing" THEN "acking" ELSE "spooling"

AfterError == IF pc = "flushing" THEN "loop" ELSE "spooling"

OnError ==
  /\ pc' = AfterError
  /\ hand' = IF pc = "flushing" THEN {} ELSE hand
  /\ UNCHANGED <<key, batch, spool, state, owner, copies, collected, history, now, crashes>>

CallRefused ==
  /\ pc \in Calling
  /\ ~ Accepts(hand)
  /\ OnError
  /\ UNCHANGED <<serving, orphans, faults>>

\* What the backend has not stored yet is never stored (it did not get the
\* request, or failed in the middle of it), or is stored later (a timeout).
Abandon ==
  /\ serving' = {}
  /\ orphans' \in IF serving = {} THEN {orphans} ELSE {orphans, Append(orphans, serving)}

CallFails ==
  /\ pc \in Calling
  /\ Accepts(hand)
  /\ faults < MaxFaults
  /\ faults' = faults + 1
  /\ Abandon
  /\ OnError

-----------------------------------------------------------------------------
\* sendInventory after an error: Enqueue for the next snapshot in hand.
Enqueue ==
  /\ pc = "spooling"
  /\ hand # {}
  /\ LET s == Min(hand)
         left == Enforced(spool, now, Size[s])
         full == IsFull(spool, now, Size[s])
     IN  /\ spool' = IF full THEN left
                     ELSE left \cup {[snap |-> s, at |-> now, torn |-> FALSE]}
         /\ shed' = shed \cup (SnapsOf(spool) \ SnapsOf(left))
                         \cup (IF full THEN {s} ELSE {})
         /\ hand' = hand \ {s}
  /\ UNCHANGED <<pc, key, batch, state, backend, collected, died, budgets>>

\* WriteFile stops after it has created the file.
Tear ==
  /\ pc = "spooling"
  /\ hand # {}
  /\ LET s == Min(hand)
         left == Enforced(spool, now, Size[s])
     IN  /\ ~ IsFull(spool, now, Size[s])
         /\ spool' = left \cup {[snap |-> s, at |-> now, torn |-> TRUE]}
         /\ shed' = shed \cup (SnapsOf(spool) \ SnapsOf(left))

\* The disk is full: the error is logged and the snapshot is gone.
EnqueueFails ==
  /\ faults < MaxFaults
  /\ faults' = faults + 1
  /\ Tear
  /\ hand' = hand \ {Min(hand)}
  /\ died' = died \cup {Min(hand)}
  /\ UNCHANGED <<pc, key, batch, state, backend, collected, now, crashes>>

\* flushSpool after the answer: Ack of the next file; an error is ignored.
Ack ==
  /\ pc = "acking"
  /\ batch # {}
  /\ spool' = spool \ {First(batch)}
  /\ batch' = batch \ {First(batch)}
  /\ UNCHANGED <<pc, key, hand, state, backend, collected, history, budgets>>

BackToLoop ==
  /\ \/ pc = "spooling" /\ hand = {}
     \/ pc = "acking" /\ batch = {}
  /\ pc' = "loop"
  /\ UNCHANGED <<key, hand, batch, spool, state, backend, collected, history, budgets>>

-----------------------------------------------------------------------------
\* The agent dies; the file it was writing may be left empty, and the request
\* it was waiting for goes on or not.
Crash ==
  /\ pc # "down"
  /\ crashes < MaxCrashes
  /\ crashes' = crashes + 1
  /\ pc' = "down"
  /\ key' = "none"
  /\ hand' = {}
  /\ batch' = {}
  /\ died' = IF pc \in {"sending", "spooling"} THEN died \cup hand ELSE died
  /\ keyFile' \in IF pc = "save_key" THEN {keyFile, "empty"} ELSE {keyFile}
  /\ idFile' \in IF pc = "save_id" THEN {idFile, "empty"} ELSE {idFile}
  /\ Tear \/ UNCHANGED <<spool, shed>>
  /\ Abandon
  /\ UNCHANGED <<owner, copies, collected, now, faults>>

Tick ==
  /\ now < MaxTime
  /\ now' = now + 1
  /\ UNCHANGED <<pc, key, hand, batch, spool, state, backend, collected, history,
                 crashes, faults>>

AgentStep ==
  \/ Start \/ Enroll \/ EnrollRefused \/ SaveAPIKey \/ SaveServerAgentID
  \/ FlushSpool \/ CallSucceeds \/ CallRefused \/ Enqueue \/ Ack \/ BackToLoop

Next ==
  \/ AgentStep \/ CollectInventory \/ EnrollFails \/ RivalEnrolls
  \/ StoreSnapshot \/ StoreOrphan \/ CallFails \/ EnqueueFails \/ Crash \/ Tick

Spec == Init /\ [][Next]_vars

\* The loop of runCmd never stops by itself, the service manager restarts the
\* agent, and the backend works on what it has begun.
FairSpec == Spec /\ WF_vars(AgentStep) /\ WF_vars(StoreSnapshot)

-----------------------------------------------------------------------------
\* The spool never outgrows max_spool_mb, whatever is evicted, torn or refused.
SpoolWithinLimit == DirSize(spool) <= MaxBytes

\* An agent that reports does so under the row and with the key it was given,
\* also when it died between the answer and the two files.
RunningMeansEnrolled ==
  pc \in InLoop =>
    owner = "agent" /\ key = "issued" /\ keyFile = "saved" /\ idFile = "saved"

Spooled(s) == \E f \in spool : f.snap = s /\ ~ f.torn
InMemory(s) == pc \in {"sending", "spooling"} /\ s \in hand

\* A snapshot that was collected is stored by the backend, waits on the disk
\* or is at work, unless a limit of the spool shed it, or the agent died or the
\* disk failed with it in memory: no failed call and no acknowledgement loses one.
NothingVanishes ==
  \A s \in 1 .. collected :
    copies[s] > 0 \/ Spooled(s) \/ InMemory(s) \/ s \in shed \/ s \in died

\* Without a death and a lost answer the backend stores nothing twice: what a
\* direct call stored is not spooled, what a flush stored is acknowledged.
NoDuplicateWithoutFault ==
  crashes = 0 /\ faults = 0 => \A s \in Snaps : copies[s] <= 1

\* The spool loses nothing and repeats nothing that its limits or a fault do not
\* account for, and keeps to max_spool_mb.
SnapshotsAreKept == SpoolWithinLimit /\ NothingVanishes /\ NoDuplicateWithoutFault

\* The spool loses its oldest files first: by eviction, age and delivery.
LosesOldestFirst ==
  [][\A f, g \in spool :
       f.snap < g.snap /\ ~ g.torn /\ f \in spool' => g \in spool']_vars

\* The body of the next flush is small enough to be sent as it is.
Deliverable == Bytes(Payload(Batch(spool))) < GzipAt

\* The backlog drains, after crashes and errors, as long as the flushes of it
\* stay below the size from which the client compresses.
BacklogDrains ==
  \A s \in Snaps : Spooled(s) ~> (copies[s] > 0 \/ s \in shed \/ ~ Deliverable)
=============================================================================
