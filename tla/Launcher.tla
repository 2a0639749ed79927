------------------------------- MODULE Launcher -------------------------------
(***************************************************************************)
(* The tray launchers of a workstation and the Python agents they start as *)
(* worker processes.                                                       *)
(*                                                                         *)
(*   SingletonLock, AgentLauncher                    agent/launcher.py     *)
(*                                                                         *)
(* A file lock belongs to an inode, not to a path (fcntl), and is gone     *)
(* with the process that has it.  The menu runs in one thread.  What a     *)
(* worker does is WorkerFiles.                                             *)
(***************************************************************************)
EXTENDS Naturals, FiniteSets

CONSTANTS
  Launchers,
  Workers,       \* bound: worker processes, each of which is started once
  MaxMishaps     \* bound: processes that are killed

ASSUME LauncherConstants ==
  /\ IsFiniteSet(Launchers) /\ IsFiniteSet(Workers)
  /\ MaxMishaps \in Nat

VARIABLES
  launcher,   \* launcher[l]: where it is, the inode it has open, its child, and
              \*   where it goes once the child has ended
  lockFile,   \* the inode at the path of the lock, NoFile for none
  unused,     \* workers that were not started yet
  alive,      \* workers that run
  mishaps,
  raced,      \* history: a lock was taken of a file that was being removed
  orphaned    \* history: workers whose launcher was killed

launchVars == <<launcher, lockFile, unused, alive, mishaps, raced, orphaned>>

NoFile  == 0
Inodes  == 1 .. Cardinality(Launchers) + 1
NoChild == "no worker"
Off == [at |-> "off", handle |-> NoFile, child |-> NoChild, next |-> "up"]

InIcon(l)  == launcher[l].at \in {"up", "stopping", "starting"}
Holder(i)  == {l \in Launchers : InIcon(l) /\ launcher[l].handle = i}
Running(l) == launcher[l].child \in alive

LaunchTypeOK ==
  /\ launcher \in [Launchers -> [at : {"off", "open", "up", "stopping", "starting", "left"},
                                 handle : Inodes \cup {NoFile},
                                 child : Workers \cup {NoChild},
                                 next : {"up", "starting", "left"}]]
  /\ lockFile \in Inodes \cup {NoFile}
  /\ unused \subseteq Workers /\ alive \subseteq Workers \ unused
  /\ mishaps \in 0 .. MaxMishaps
  /\ raced \in BOOLEAN /\ orphaned \subseteq Workers

LaunchInit ==
  /\ launcher = [l \in Launchers |-> Off]
  /\ lockFile = NoFile
  /\ unused = Workers /\ alive = {}
  /\ mishaps = 0 /\ raced = FALSE /\ orphaned = {}

Mishap == mishaps < MaxMishaps /\ mishaps' = mishaps + 1

SameWorkers == UNCHANGED <<unused, alive, orphaned>>

-----------------------------------------------------------------------------
\* SingletonLock.acquire opens the file, which makes it when there is none,
OpenLock(l) ==
  /\ launcher[l] = Off
  /\ \E i \in IF lockFile # NoFile THEN {lockFile}
              ELSE Inodes \ {launcher[m].handle : m \in Launchers} :
       /\ lockFile' = i
       /\ launcher' = [launcher EXCEPT ![l].at = "open", ![l].handle = i]
  /\ UNCHANGED <<mishaps, raced>> /\ SameWorkers

\* Mutation of Refused: it leaves like one that held the lock.
RefusedLeaves(l) == [launcher[l] EXCEPT !.at = "left", !.handle = NoFile]

\* "Another launcher instance is already running."
Refused(l) == Off

\* and locks its inode.
TakeLock(l) ==
  LET i == launcher[l].handle
      free == Holder(i) = {}
  IN
  /\ launcher[l].at = "open"
  /\ launcher' = [launcher EXCEPT ![l] = IF free THEN [@ EXCEPT !.at = "up"] ELSE Refused(l)]
  /\ raced' = (raced \/ (free /\ (\/ lockFile # i
                                  \/ \E m \in Launchers : launcher[m].at = "left")))
  /\ UNCHANGED <<lockFile, mishaps>> /\ SameWorkers

\* _start_worker, from the menu or as the second half of _restart_worker
StartWorker(l) ==
  /\ launcher[l].at \in {"up", "starting"} /\ ~Running(l)
  /\ \E w \in unused :
       /\ unused' = unused \ {w} /\ alive' = alive \cup {w}
       /\ launcher' = [launcher EXCEPT ![l].at = "up", ![l].child = w]
  /\ UNCHANGED <<lockFile, mishaps, raced, orphaned>>

\* Popen fails.
StartFails(l) ==
  /\ launcher[l].at = "starting"
  /\ launcher' = [launcher EXCEPT ![l].at = "up"]
  /\ UNCHANGED <<lockFile, mishaps, raced>> /\ SameWorkers

\* The menu stops or restarts the worker, or quits and asks first: whether the
\* answer was yes or no, run ends with _stop_worker.
Terminate(l) ==
  /\ launcher[l].at = "up" /\ Running(l)
  /\ \E next \in {"up", "starting", "left"} :
       launcher' = [launcher EXCEPT ![l].at = "stopping", ![l].next = next]
  /\ UNCHANGED <<lockFile, mishaps, raced>> /\ SameWorkers

\* Mutation of AfterWait: a worker that has not ended in time is let go.
AfterWaitLetGo(w) == alive

\* It ends within the five seconds, or is killed after them.
AfterWait(w) == alive \ {w}

ChildStopped(l) ==
  LET r == launcher[l] IN
  /\ r.at = "stopping"
  /\ alive' = AfterWait(r.child)
  /\ launcher' = [launcher EXCEPT ![l] =
       [r EXCEPT !.at = r.next, !.child = NoChild, !.next = "up",
                 !.handle = IF r.next = "left" THEN NoFile ELSE @]]
  /\ UNCHANGED <<lockFile, unused, mishaps, raced, orphaned>>

\* SingletonLock.release closes the file, which gives up the lock,
QuitIdle(l) ==
  /\ launcher[l].at = "up" /\ ~Running(l)
  /\ launcher' = [launcher EXCEPT ![l] = [Off EXCEPT !.at = "left"]]
  /\ UNCHANGED <<lockFile, mishaps, raced>> /\ SameWorkers

\* and then removes what is at its path.
UnlinkLock(l) ==
  /\ launcher[l].at = "left"
  /\ lockFile' = NoFile
  /\ launcher' = [launcher EXCEPT ![l] = Off]
  /\ UNCHANGED <<mishaps, raced>> /\ SameWorkers

\* The desktop kills a launcher: the lock goes, its file and its worker stay.
KillLauncher(l) ==
  /\ launcher[l] # Off
  /\ Mishap
  /\ launcher' = [launcher EXCEPT ![l] = Off]
  /\ orphaned' = orphaned \cup ({launcher[l].child} \cap alive)
  /\ UNCHANGED <<lockFile, unused, alive, raced>>

\* A worker ends by itself.
WorkerEnds(w) ==
  /\ w \in alive
  /\ alive' = alive \ {w}
  /\ UNCHANGED <<launcher, lockFile, unused, mishaps, raced, orphaned>>

LaunchNext ==
  \/ \E l \in Launchers :
       \/ OpenLock(l) \/ TakeLock(l) \/ StartWorker(l) \/ StartFails(l) \/ Terminate(l)
       \/ ChildStopped(l) \/ QuitIdle(l) \/ UnlinkLock(l) \/ KillLauncher(l)
  \/ \E w \in Workers : WorkerEnds(w)

LaunchSpec == LaunchInit /\ [][LaunchNext]_launchVars

-----------------------------------------------------------------------------
\* Two launchers are up at once only when one took the lock of a file that
\* another was just removing; and a worker that runs is the child of a launcher
\* that is up, unless its launcher was killed.
OneWorkerPerDesktop ==
  /\ Cardinality({l \in Launchers : InIcon(l)}) > 1 => raced
  /\ \A w \in alive \ orphaned : \E l \in Launchers : InIcon(l) /\ launcher[l].child = w
=============================================================================
