----------------------------- MODULE WorkerFiles ------------------------------
(***************************************************************************)
(* The files of a workstation that the Python agents on it share: the      *)
(* configuration with the key they were given, and the status a health     *)
(* check reads.                                                            *)
(*                                                                         *)
(*   load_agent_config, enroll_if_needed, persist_config, _update_status,  *)
(*   main, healthcheck                               agent/agent.py        *)
(*                                                                         *)
(* Usually one worker runs; one that a dead launcher left behind runs next *)
(* to that of its successor.  At first the name of the host is free on the *)
(* backend and there is no file.                                           *)
(***************************************************************************)
EXTENDS Naturals, FiniteSets

CONSTANTS
  Agents,        \* bound: workers, each of which is started once
  MaxAge,        \* HEARTBEAT_MAX_AGE_SECONDS, in units of the clock
  MaxClock,      \* bounds: how far the clock gets,
  MaxLosses      \*   calls without an answer and writes that fail

ASSUME WorkerConstants ==
  /\ IsFiniteSet(Agents)
  /\ MaxAge \in Nat \ {0} /\ MaxClock \in Nat /\ MaxLosses \in Nat

VARIABLES
  worker,     \* worker[w]: where it is, and whether it has the key in memory
  config,     \* agent_config.json: none, blank (no key), key, or torn
  nameTaken,  \* the backend has a row of this host name
  statusFile,     \* status.json: running and the time of its writing
  wall, losses,
  keyLost,    \* history: an answer, a write or a race lost the key
  lastAlive   \* history: when a worker last ended

agentFiles == <<config, nameTaken, keyLost>>
healthVars == <<statusFile, lastAlive>>
workerVars == <<worker, agentFiles, healthVars, wall, losses>>

TornStatus == [running |-> FALSE, written |-> 0]

Steps    == {"config", "create", "read", "enroll", "persist", "loop"}
InMain   == {w \in Agents : worker[w].at \in Steps}

WorkerTypeOK ==
  /\ worker \in [Agents -> [at : Steps \cup {"unused", "ended"}, key : BOOLEAN]]
  /\ config \in {"none", "blank", "key", "torn"}
  /\ nameTaken \in BOOLEAN /\ keyLost \in BOOLEAN
  /\ statusFile \in [running : BOOLEAN, written : 0 .. MaxClock]
  /\ {wall, lastAlive} \subseteq 0 .. MaxClock /\ losses \in 0 .. MaxLosses

WorkerInit ==
  /\ worker = [w \in Agents |-> [at |-> "unused", key |-> FALSE]]
  /\ config = "none" /\ nameTaken = FALSE /\ statusFile = TornStatus
  /\ wall = 0 /\ losses = 0
  /\ keyLost = FALSE /\ lastAlive = 0

Goes(w, at) == worker' = [worker EXCEPT ![w].at = at]

Writes(running) == statusFile' = [running |-> running, written |-> wall]

\* Something fails that loses the key.
LosesKey == losses < MaxLosses /\ losses' = losses + 1 /\ keyLost' = TRUE

-----------------------------------------------------------------------------
StartAgent(w) ==
  /\ worker[w].at = "unused"
  /\ Goes(w, "config")
  /\ UNCHANGED <<agentFiles, healthVars, wall, losses>>

\* _ensure_config_file looks whether there is a file,
FindConfig(w) ==
  /\ worker[w].at = "config"
  /\ Goes(w, IF config = "none" THEN "create" ELSE "read")
  /\ UNCHANGED <<agentFiles, healthVars, wall, losses>>

\* and writes the defaults when there was none.
CreateConfig(w) ==
  /\ worker[w].at = "create"
  /\ config' = "blank"
  /\ keyLost' = (keyLost \/ config # "none")
  /\ Goes(w, "read")
  /\ UNCHANGED <<nameTaken, healthVars, wall, losses>>

\* load_agent_config takes a torn file for the defaults; main reports running.
LoadConfig(w) ==
  /\ worker[w].at = "read"
  /\ worker' = [worker EXCEPT ![w] = [at |-> IF config = "key" THEN "loop" ELSE "enroll",
                                      key |-> config = "key"]]
  /\ Writes(TRUE)
  /\ UNCHANGED <<agentFiles, lastAlive, wall, losses>>

\* Mutation of AfterEnroll: the key stays in memory.
AfterEnrollInMemory == "loop"

AfterEnroll == "persist"

\* enroll_if_needed; an answer that does not come is an error of the worker.
EnrollAgent(w) ==
  /\ worker[w].at = "enroll" /\ ~nameTaken
  /\ nameTaken' = TRUE
  /\ \/ /\ worker' = [worker EXCEPT ![w] = [at |-> AfterEnroll, key |-> TRUE]]
        /\ UNCHANGED <<keyLost, statusFile, losses>>
     \/ LosesKey /\ Writes(TRUE) /\ UNCHANGED worker
  /\ UNCHANGED <<config, lastAlive, wall>>

\* "Agent name already registered", or the backend is not there; main tries
\* again.
EnrollDenied(w) ==
  /\ worker[w].at = "enroll"
  /\ Writes(TRUE)
  /\ UNCHANGED <<worker, agentFiles, lastAlive, wall, losses>>

\* persist_config logs what it cannot write.
PersistConfig(w) ==
  /\ worker[w].at = "persist"
  /\ Goes(w, "loop")
  /\ \/ config' = "key" /\ UNCHANGED <<keyLost, losses>>
     \/ LosesKey /\ UNCHANGED config
  /\ UNCHANGED <<nameTaken, healthVars, wall>>

\* send_heartbeat, and an error of the loop
Beat(w) ==
  /\ worker[w].at = "loop"
  /\ Writes(TRUE)
  /\ UNCHANGED <<worker, agentFiles, lastAlive, wall, losses>>

\* KeyboardInterrupt leaves the loop.
LeaveLoop(w) ==
  /\ worker[w].at \in {"enroll", "loop"}
  /\ Goes(w, "ended")
  /\ Writes(FALSE)
  /\ lastAlive' = wall
  /\ UNCHANGED <<agentFiles, wall, losses>>

\* A worker is terminated or killed: of the file it writes a part may be left.
KillAgent(w) ==
  /\ w \in InMain
  /\ Goes(w, "ended")
  /\ lastAlive' = wall
  /\ statusFile' \in {statusFile, TornStatus}
  /\ config' \in {config} \cup {c \in {"torn"} : worker[w].at \in {"create", "persist"}}
  /\ keyLost' = (keyLost \/ worker[w].at = "persist" \/ (config = "key" /\ config' # "key"))
  /\ UNCHANGED <<nameTaken, wall, losses>>

WorkerTick ==
  /\ wall < MaxClock /\ wall' = wall + 1
  /\ UNCHANGED <<worker, agentFiles, healthVars, losses>>

WorkerNext ==
  \/ \E w \in Agents :
       \/ StartAgent(w) \/ FindConfig(w) \/ CreateConfig(w) \/ LoadConfig(w)
       \/ EnrollAgent(w) \/ EnrollDenied(w) \/ PersistConfig(w)
       \/ Beat(w) \/ LeaveLoop(w) \/ KillAgent(w)
  \/ WorkerTick

WorkerSpec == WorkerInit /\ [][WorkerNext]_workerVars

-----------------------------------------------------------------------------
\* A host whose name is taken can authenticate, now or after a restart: its key
\* is in the configuration or in a worker, unless the answer that brought it
\* was lost, it was not written, or two first starts made the configuration.
KeyIsKept ==
  nameTaken /\ ~keyLost => config = "key" \/ \E w \in InMain : worker[w].key

\* Mutation of Fresh: at the limit a heartbeat is fresh.
FreshAtLimit == wall - statusFile.written <= MaxAge

Fresh == wall - statusFile.written < MaxAge

\* healthcheck exits with 0.
Healthy == statusFile.running /\ Fresh

\* A host is not reported healthy when its last worker ended MaxAge ago or
\* earlier, however it ended and whatever it left in status.json.
HealthIsCurrent == Healthy /\ InMain = {} => wall - lastAlive < MaxAge

HostKeepsItsWord == KeyIsKept /\ HealthIsCurrent
=============================================================================
