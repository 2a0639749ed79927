------------------------- MODULE EventPipelineProofs -------------------------
(***************************************************************************)
(* Theorems about EventPipeline, for every set of events, processes, rules *)
(* and every value of the bounds.                                          *)
(*                                                                         *)
(* TypeCorrect comes first.  ProcessedIsEvaluated is not inductive: it     *)
(* speaks of rows, while what makes it true is what a worker holds in      *)
(* memory about events whose rows, and events, others may delete.  IInv    *)
(* adds those facts, and everything after rests on it:                     *)
(*                                                                         *)
(*   BlameCorrect      adds what a failed evaluation failed for;           *)
(*   ContractKept      what is known of an event only if it was accepted,  *)
(*                     then a step of the contract for every step;         *)
(*   NothingForgotten  that no event is deleted while nothing fails;       *)
(*   LinksCorrect      counts, for a step and one it points to, the        *)
(*                     evaluations that are between the two;               *)
(*   BoundsCorrect     that an event is in one place outside mode db, and  *)
(*                     counts the turns of the workers in it.              *)
(***************************************************************************)
EXTENDS EventPipeline, FiniteSetTheorems, TLAPS

\* The lifecycle of a row: it needs its event (the foreign key and its
\* cascade), and its event was accepted before.
RowsNeedEvents ==
  \A e \in Events :
    /\ row[e] \in {"unprocessed", "processed"} => e \in stored
    /\ row[e] = "deleted" => e \notin stored
    /\ e \in stored => born[e] > 0
    /\ row[e] # "none" => born[e] > 0

\* The steps a running evaluation counts as done have been committed.
DoneIsCommitted ==
  \A p \in Procs :
    cur[p] # NoEvent => \A s \in done[p] : effects[cur[p]][s] > 0

\* In mode db only events with a row are in the hand of a worker, and an
\* event evaluated there has been evaluated or is gone.
BatchIsJustified ==
  mode = "db" =>
    \A p \in Procs : \A e \in Events :
      /\ task[p] = "worker" /\ hand[p][e] # "out" => row[e] # "none"
      /\ hand[p][e] = "ok" => Evaluated(e) \/ row[e] = "deleted"

\* In mode db what a handler has in hand has no row yet, and no other
\* handler has it.
HandlersAreApart ==
  mode = "db" =>
    \A p \in Procs : \A e \in Events :
      Handling(p) /\ hand[p][e] = "todo" =>
        /\ row[e] = "none"
        /\ born[e] > 0
        /\ \A q \in Procs : Handling(q) /\ hand[q][e] = "todo" => q = p

\* An idle loop has nothing in hand; an evaluation runs only in a coroutine
\* that evaluates, and its event is one of those the coroutine has in hand.
LoopIsConsistent ==
  \A p \in Procs :
    /\ task[p] = "idle" => hand[p] = Empty /\ cur[p] = NoEvent
    /\ cur[p] # NoEvent => Evaluating(p) /\ hand[p][cur[p]] = "todo"

IInv ==
  /\ TypeOK
  /\ ProcessedIsEvaluated
  /\ RowsNeedEvents
  /\ DoneIsCommitted
  /\ BatchIsJustified
  /\ HandlersAreApart
  /\ LoopIsConsistent

-----------------------------------------------------------------------------
(***************************************************************************)
(* Case analysis of Next, stated once.                                     *)
(***************************************************************************)
LEMMA NextCases ==
  ASSUME Next
  PROVE  \/ \E p \in Procs :
              \/ \E new \in SUBSET Events, handler \in {"single", "bulk"} : Accept(p, new, handler)
              \/ InsertPending(p) \/ InsertPendingFails(p)
              \/ \E e \in Events : PutNowait(p, e) \/ PutRefused(p, e)
              \/ TakeFromQueue(p) \/ FetchBatch(p)
              \/ \E e \in Events : StartEvaluation(p, e)
              \/ CommitStep(p) \/ FinishEvaluation(p) \/ RaiseStep(p) \/ FaultStep(p)
              \/ EndTask(p) \/ CommitBatch(p) \/ RollbackBatch(p)
              \/ \E e \in Events : RetryPut(p, e) \/ DropEvent(p, e)
              \/ Crash(p)
         \/ Prune
<1>1. ASSUME NEW p \in Procs, IngestEvent(p)
      PROVE  \E new \in SUBSET Events, handler \in {"single", "bulk"} : Accept(p, new, handler)
  BY <1>1 DEF IngestEvent
<1>2. ASSUME NEW p \in Procs, IngestNetworkBulk(p)
      PROVE  \E new \in SUBSET Events, handler \in {"single", "bulk"} : Accept(p, new, handler)
  BY <1>2 DEF IngestNetworkBulk
<1>3. QED
  BY <1>1, <1>2, Zenon DEF Next, Run, Wake

(***************************************************************************)
(* Facts about the small operators.                                        *)
(***************************************************************************)
LEMMA EmptyType == Empty \in [Events -> HandStates] /\ \A e \in Events : Empty[e] = "out"
  BY DEF Empty, HandStates

\* A capped count stays a count.
LEMMA BumpType ==
  ASSUME NEW n \in 0 .. CountCap
  PROVE  Bump(n) \in 0 .. CountCap /\ Bump(n) > 0 /\ Bump(n) >= n
  BY PipelineConstants DEF Bump

\* Changing one entry of a table of tables keeps its type.
LEMMA EntryType ==
  ASSUME NEW S, NEW T, NEW V, NEW f \in [S -> [T -> V]],
         NEW p \in S, NEW e \in T, NEW v \in V
  PROVE  /\ [f EXCEPT ![p][e] = v] \in [S -> [T -> V]]
         /\ [f EXCEPT ![p][e] = v] = [f EXCEPT ![p] = [f[p] EXCEPT ![e] = v]]
  OBVIOUS

\* What a handler leaves in hand has the types of a loop.
LEMMA SettleType ==
  ASSUME LoopTypes, NEW p \in Procs, NEW e \in Events, Settle(p, e),
         UNCHANGED <<cur, done, seen>>
  PROVE  LoopTypes'
<1>1. task' \in [Procs -> Tasks]
  BY DEF Settle, Release, LoopTypes, Tasks
<1>2. hand' \in [Procs -> [Events -> HandStates]]
  <2>1. [hand EXCEPT ![p][e] = "out"] \in [Procs -> [Events -> HandStates]]
    BY EntryType DEF LoopTypes, HandStates
  <2>2. [hand EXCEPT ![p] = Empty] \in [Procs -> [Events -> HandStates]]
    BY EmptyType DEF LoopTypes
  <2> QED  BY <2>1, <2>2, Zenon DEF Settle, Release
<1> QED  BY <1>1, <1>2 DEF LoopTypes

\* A put to a queue that has room keeps its type and its bound.
LEMMA AppendType ==
  ASSUME QueueTypes, NEW p \in Procs, NEW e \in Events, HasRoom(p),
         queue' = [queue EXCEPT ![p] = Append(@, e)]
  PROVE  queue' \in [Procs -> Seq(Events)] /\ \A q \in Procs : Len(queue'[q]) <= QueueCap
<1>1. queue[p] \in Seq(Events) /\ Append(queue[p], e) \in Seq(Events)
  BY DEF QueueTypes
<1>2. Len(Append(queue[p], e)) <= QueueCap
  BY <1>1, PipelineConstants DEF HasRoom, QueueTypes
<1>3. queue' \in [Procs -> Seq(Events)]
  BY <1>1, Zenon DEF QueueTypes
<1>4. ASSUME NEW q \in Procs PROVE Len(queue'[q]) <= QueueCap
  <2>1. CASE q = p  BY <2>1, <1>2 DEF QueueTypes
  <2>2. CASE q # p  BY <2>2 DEF QueueTypes
  <2> QED  BY <2>1, <2>2
<1> QED  BY <1>3, <1>4

(***************************************************************************)
(* Every step keeps the types: for each action the groups of variables it  *)
(* leaves alone first, then one step per group it changes.                 *)
(***************************************************************************)
LEMMA TypeStep == TypeOK /\ [Next]_vars => TypeOK'
<1> SUFFICES ASSUME TypeOK, [Next]_vars PROVE TypeOK'
  OBVIOUS
<1>1. CASE UNCHANGED vars
  BY <1>1 DEF vars, TypeOK, DbTypes, dbVars, EffectTypes, QueueTypes, LoopTypes, loopVars,
              CounterTypes, history, budgets
<1>2. CASE Next
  <2>1. ASSUME NEW p \in Procs, NEW new \in SUBSET Events,
               NEW handler \in {"single", "bulk"}, Accept(p, new, handler)
        PROVE  TypeOK'
    BY <2>1 DEF Accept, TypeOK, DbTypes, EffectTypes, QueueTypes, LoopTypes, CounterTypes,
                history, budgets, HandStates, Tasks
  <2>2. ASSUME NEW p \in Procs, InsertPending(p)
        PROVE  TypeOK'
    <3>1. EffectTypes' /\ QueueTypes' /\ CounterTypes'
      BY <2>2 DEF TypeOK, InsertPending, EffectTypes, QueueTypes, CounterTypes, history, budgets
    <3>2. DbTypes'
      BY <2>2 DEF TypeOK, InsertPending, DbTypes, dbVars, Release, RowStates
    <3>3. LoopTypes'
      BY <2>2, EmptyType DEF TypeOK, InsertPending, LoopTypes, loopVars, Release, Tasks
    <3> QED  BY <3>1, <3>2, <3>3 DEF TypeOK
  <2>3. ASSUME NEW p \in Procs, InsertPendingFails(p)
        PROVE  TypeOK'
    <3>1. DbTypes' /\ EffectTypes' /\ QueueTypes'
      BY <2>3 DEF TypeOK, InsertPendingFails, DbTypes, dbVars, EffectTypes, QueueTypes
    <3>2. LoopTypes'
      BY <2>3, EmptyType DEF TypeOK, InsertPendingFails, LoopTypes, loopVars, Release, Tasks
    <3>3. CounterTypes'
      BY <2>3, PipelineConstants DEF TypeOK, InsertPendingFails, CounterTypes, history, budgets
    <3> QED  BY <3>1, <3>2, <3>3 DEF TypeOK
  <2>4. ASSUME NEW p \in Procs, NEW e \in Events, PutNowait(p, e)
        PROVE  TypeOK'
    <3>1. DbTypes' /\ EffectTypes' /\ CounterTypes'
      BY <2>4 DEF TypeOK, PutNowait, DbTypes, dbVars, EffectTypes, CounterTypes, history, budgets
    <3>2. QueueTypes'
      BY <2>4, AppendType DEF TypeOK, PutNowait, QueueTypes
    <3>3. LoopTypes'
      BY <2>4, SettleType, Zenon DEF TypeOK, PutNowait
    <3> QED  BY <3>1, <3>2, <3>3 DEF TypeOK
  <2>5. ASSUME NEW p \in Procs, NEW e \in Events, PutRefused(p, e)
        PROVE  TypeOK'
    <3>1. DbTypes' /\ EffectTypes'
      BY <2>5 DEF TypeOK, PutRefused, DbTypes, dbVars, EffectTypes
    <3>2. QueueTypes'
      <4>1. [waiting EXCEPT ![p][e] = 1] \in [Procs -> [Events -> 0 .. MaxQueueRetries]]
        BY EntryType, PipelineConstants DEF TypeOK, QueueTypes
      <4> QED  BY <4>1, <2>5, Zenon DEF TypeOK, PutRefused, QueueTypes
    <3>3. LoopTypes'
      BY <2>5, SettleType, Zenon DEF TypeOK, PutRefused
    <3>4. CounterTypes'
      BY <2>5 DEF TypeOK, PutRefused, CounterTypes, history, budgets
    <3> QED  BY <3>1, <3>2, <3>3, <3>4 DEF TypeOK
  <2>6. ASSUME NEW p \in Procs, TakeFromQueue(p)
        PROVE  TypeOK'
    <3>1. DbTypes' /\ EffectTypes' /\ CounterTypes'
      BY <2>6 DEF TypeOK, TakeFromQueue, DbTypes, dbVars, EffectTypes, CounterTypes, history, budgets
    <3>2. QueueTypes'
      <4>1. queue[p] \in Seq(Events) /\ Tail(queue[p]) \in Seq(Events)
            /\ Len(Tail(queue[p])) <= QueueCap
        BY <2>6, PipelineConstants DEF TypeOK, TakeFromQueue, QueueTypes
      <4>2. queue' = [queue EXCEPT ![p] = Tail(queue[p])]
        BY <2>6, Zenon DEF TakeFromQueue
      <4>3. queue' \in [Procs -> Seq(Events)]
        BY <4>1, <4>2, Zenon DEF TypeOK, QueueTypes
      <4>4. ASSUME NEW q \in Procs PROVE Len(queue'[q]) <= QueueCap
        BY <4>1, <4>2 DEF TypeOK, QueueTypes
      <4> QED  BY <2>6, <4>3, <4>4, Zenon DEF TypeOK, TakeFromQueue, QueueTypes
    <3>3. LoopTypes'
      BY <2>6, EmptyType DEF TypeOK, TakeFromQueue, LoopTypes, loopVars, Tasks, HandStates
    <3> QED  BY <3>1, <3>2, <3>3 DEF TypeOK
  <2>7. ASSUME NEW p \in Procs, FetchBatch(p)
        PROVE  TypeOK'
    <3>1. DbTypes' /\ EffectTypes' /\ QueueTypes' /\ CounterTypes'
      BY <2>7 DEF TypeOK, FetchBatch, DbTypes, dbVars, EffectTypes, QueueTypes, CounterTypes, history, budgets
    <3>2. LoopTypes'
      BY <2>7 DEF TypeOK, FetchBatch, LoopTypes, loopVars, DbTypes, Tasks, HandStates
    <3> QED  BY <3>1, <3>2 DEF TypeOK
  <2>8. ASSUME NEW p \in Procs, NEW e \in Events, StartEvaluation(p, e)
        PROVE  TypeOK'
    <3>1. DbTypes' /\ EffectTypes' /\ QueueTypes' /\ CounterTypes'
      BY <2>8 DEF TypeOK, StartEvaluation, DbTypes, dbVars, EffectTypes, QueueTypes, CounterTypes, history, budgets
    <3>2. LoopTypes'
      <4>1. CASE e \in stored
        BY <2>8, <4>1 DEF TypeOK, StartEvaluation, LoopTypes
      <4>2. CASE e \notin stored
        <5>1. [hand EXCEPT ![p][e] = "ok"] \in [Procs -> [Events -> HandStates]]
          BY EntryType DEF TypeOK, LoopTypes, HandStates
        <5> QED  BY <2>8, <4>2, <5>1, Zenon DEF TypeOK, StartEvaluation, LoopTypes
      <4> QED  BY <4>1, <4>2
    <3> QED  BY <3>1, <3>2 DEF TypeOK
  <2>9. ASSUME NEW p \in Procs, CommitStep(p)
        PROVE  TypeOK'
    <3>1. DbTypes' /\ QueueTypes' /\ CounterTypes'
      BY <2>9 DEF TypeOK, CommitStep, DbTypes, dbVars, QueueTypes, CounterTypes, history, budgets
    <3>2. EffectTypes'
      <4>1. cur[p] \in Events
        BY <2>9 DEF TypeOK, CommitStep, LoopTypes
      <4>2. PICK s \in Steps(cur[p]) :
              effects' = [effects EXCEPT ![cur[p]][s] = IF s.kind = "severity" THEN 1 ELSE Bump(@)]
        BY <2>9, Zenon DEF CommitStep, NextSteps
      <4>3. (IF s.kind = "severity" THEN 1 ELSE Bump(effects[cur[p]][s])) \in 0 .. CountCap
        BY <4>1, BumpType, PipelineConstants DEF TypeOK, EffectTypes
      <4>4. DOMAIN effects' = Events
        BY <4>2 DEF TypeOK, EffectTypes
      <4>5. ASSUME NEW x \in Events PROVE effects'[x] \in [Steps(x) -> 0 .. CountCap]
        <5>1. CASE x = cur[p]
          BY <4>1, <4>2, <4>3, <5>1 DEF TypeOK, EffectTypes
        <5>2. CASE x # cur[p]
          BY <4>1, <4>2, <5>2 DEF TypeOK, EffectTypes
        <5> QED  BY <5>1, <5>2
      <4> QED  BY <4>4, <4>5 DEF EffectTypes
    <3>3. LoopTypes'
      BY <2>9 DEF TypeOK, CommitStep, LoopTypes, loopVars, NextSteps
    <3> QED  BY <3>1, <3>2, <3>3 DEF TypeOK
  <2>10. ASSUME NEW p \in Procs, FinishEvaluation(p)
        PROVE  TypeOK'
    <3>1. DbTypes' /\ EffectTypes' /\ QueueTypes' /\ CounterTypes'
      BY <2>10 DEF TypeOK, FinishEvaluation, DbTypes, dbVars, EffectTypes, QueueTypes, CounterTypes, history, budgets
    <3>2. LoopTypes'
      BY <2>10 DEF TypeOK, FinishEvaluation, LoopTypes, loopVars, EndEvaluation, HandStates
    <3> QED  BY <3>1, <3>2 DEF TypeOK
  <2>11. ASSUME NEW p \in Procs, RaiseStep(p)
        PROVE  TypeOK'
    <3>1. DbTypes' /\ EffectTypes' /\ QueueTypes' /\ CounterTypes'
      BY <2>11 DEF TypeOK, RaiseStep, DbTypes, dbVars, EffectTypes, QueueTypes, CounterTypes, history, budgets
    <3>2. LoopTypes'
      BY <2>11 DEF TypeOK, RaiseStep, LoopTypes, loopVars, EndEvaluation, HandStates
    <3> QED  BY <3>1, <3>2 DEF TypeOK
  <2>12. ASSUME NEW p \in Procs, FaultStep(p)
        PROVE  TypeOK'
    <3>1. DbTypes' /\ EffectTypes' /\ QueueTypes'
      BY <2>12 DEF TypeOK, FaultStep, DbTypes, dbVars, EffectTypes, QueueTypes
    <3>2. LoopTypes'
      BY <2>12 DEF TypeOK, FaultStep, LoopTypes, loopVars, EndEvaluation, HandStates
    <3>3. CounterTypes'
      BY <2>12, PipelineConstants DEF TypeOK, FaultStep, CounterTypes, history, budgets
    <3> QED  BY <3>1, <3>2, <3>3 DEF TypeOK
  <2>13. ASSUME NEW p \in Procs, EndTask(p)
        PROVE  TypeOK'
    <3>1. DbTypes' /\ EffectTypes' /\ QueueTypes' /\ CounterTypes'
      BY <2>13 DEF TypeOK, EndTask, DbTypes, dbVars, EffectTypes, QueueTypes, CounterTypes, history, budgets
    <3>2. LoopTypes'
      BY <2>13, EmptyType DEF TypeOK, EndTask, LoopTypes, loopVars, Release, Tasks
    <3> QED  BY <3>1, <3>2 DEF TypeOK
  <2>14. ASSUME NEW p \in Procs, CommitBatch(p)
        PROVE  TypeOK'
    <3>1. EffectTypes' /\ QueueTypes' /\ CounterTypes'
      BY <2>14 DEF TypeOK, CommitBatch, CommitRows, EffectTypes, QueueTypes, CounterTypes, history, budgets
    <3>2. DbTypes'
      BY <2>14, BumpType DEF TypeOK, CommitBatch, DbTypes, dbVars, CommitRows, LoopTypes, RowStates
    <3>3. LoopTypes'
      BY <2>14, EmptyType DEF TypeOK, CommitBatch, LoopTypes, loopVars, CommitRows, Release, Tasks
    <3> QED  BY <3>1, <3>2, <3>3 DEF TypeOK
  <2>15. ASSUME NEW p \in Procs, RollbackBatch(p)
        PROVE  TypeOK'
    <3>1. DbTypes' /\ EffectTypes' /\ QueueTypes'
      BY <2>15 DEF TypeOK, RollbackBatch, DbTypes, dbVars, EffectTypes, QueueTypes
    <3>2. LoopTypes'
      BY <2>15, EmptyType DEF TypeOK, RollbackBatch, LoopTypes, loopVars, Release, Tasks
    <3>3. CounterTypes'
      BY <2>15, PipelineConstants DEF TypeOK, RollbackBatch, CounterTypes, history, budgets
    <3> QED  BY <3>1, <3>2, <3>3 DEF TypeOK
  <2>16. ASSUME NEW p \in Procs, NEW e \in Events, RetryPut(p, e)
        PROVE  TypeOK'
    <3>1. DbTypes' /\ EffectTypes' /\ LoopTypes' /\ CounterTypes'
      BY <2>16 DEF TypeOK, RetryPut, DbTypes, dbVars, EffectTypes, LoopTypes, loopVars, CounterTypes, history, budgets
    <3>2. QueueTypes'
      <4>1. [waiting EXCEPT ![p][e] = 0] \in [Procs -> [Events -> 0 .. MaxQueueRetries]]
        BY EntryType, PipelineConstants DEF TypeOK, QueueTypes
      <4>2. [waiting EXCEPT ![p][e] = waiting[p][e] + 1]
              \in [Procs -> [Events -> 0 .. MaxQueueRetries]]
        <5>1. waiting[p][e] + 1 \in 0 .. MaxQueueRetries
          BY <2>16, PipelineConstants DEF RetryPut
        <5> QED  BY <5>1, EntryType, Zenon DEF TypeOK, QueueTypes
      <4>3. CASE HasRoom(p)
        BY <2>16, <4>1, <4>3, AppendType DEF TypeOK, RetryPut, QueueTypes
      <4>4. CASE ~ HasRoom(p)
        BY <2>16, <4>2, <4>4, Zenon DEF TypeOK, RetryPut, QueueTypes
      <4> QED  BY <4>3, <4>4
    <3> QED  BY <3>1, <3>2 DEF TypeOK
  <2>17. ASSUME NEW p \in Procs, NEW e \in Events, DropEvent(p, e)
        PROVE  TypeOK'
    <3>1. DbTypes' /\ EffectTypes' /\ LoopTypes'
      BY <2>17 DEF TypeOK, DropEvent, DbTypes, dbVars, EffectTypes, LoopTypes, loopVars
    <3>2. QueueTypes'
      BY <2>17, PipelineConstants DEF TypeOK, DropEvent, QueueTypes
    <3>3. CounterTypes'
      BY <2>17 DEF TypeOK, DropEvent, CounterTypes, history, budgets
    <3> QED  BY <3>1, <3>2, <3>3 DEF TypeOK
  <2>18. ASSUME NEW p \in Procs, Crash(p)
        PROVE  TypeOK'
    <3>1. DbTypes' /\ EffectTypes'
      BY <2>18 DEF TypeOK, Crash, DbTypes, dbVars, EffectTypes
    <3>2. QueueTypes'
      BY <2>18, PipelineConstants DEF TypeOK, Crash, QueueTypes
    <3>3. LoopTypes'
      BY <2>18, EmptyType, PipelineConstants DEF TypeOK, Crash, LoopTypes, loopVars, Release, Tasks
    <3>4. CounterTypes'
      BY <2>18, PipelineConstants DEF TypeOK, Crash, CounterTypes, history, budgets
    <3> QED  BY <3>1, <3>2, <3>3, <3>4 DEF TypeOK
  <2>19. CASE Prune
    <3>1. EffectTypes' /\ QueueTypes' /\ LoopTypes'
      BY <2>19 DEF TypeOK, Prune, EffectTypes, QueueTypes, LoopTypes, loopVars
    <3>2. DbTypes'
      BY <2>19 DEF TypeOK, Prune, DbTypes, dbVars, RowStates
    <3>3. CounterTypes'
      BY <2>19, PipelineConstants DEF TypeOK, Prune, CounterTypes, history, budgets
    <3> QED  BY <3>1, <3>2, <3>3 DEF TypeOK
  <2> QED
    BY <1>2, <2>1, <2>2, <2>3, <2>4, <2>5, <2>6, <2>7, <2>8, <2>9, <2>10, <2>11, <2>12, <2>13, <2>14, <2>15, <2>16, <2>17, <2>18, <2>19, NextCases, Zenon
<1> QED  BY <1>1, <1>2

\* The types hold in every reachable state, and no memory queue outgrows
\* EVENT_QUEUE_MAXSIZE in spite of the sleeping handlers that retry.
THEOREM TypeCorrect == Spec => []TypeOK
<1>1. Init => TypeOK
  BY PipelineConstants, EmptyType DEF Init, TypeOK, DbTypes, EffectTypes, QueueTypes,
     LoopTypes, CounterTypes, RowStates, Tasks
<1> QED
  BY <1>1, TypeStep, PTL DEF Spec

-----------------------------------------------------------------------------
(***************************************************************************)
(* What the parts of IInv lose and keep when a coroutine lets go.          *)
(***************************************************************************)
LEMMA ReleaseKeeps ==
  ASSUME TypeOK, BatchIsJustified, HandlersAreApart, LoopIsConsistent,
         NEW p \in Procs, Release(p), cur[p] = NoEvent,
         UNCHANGED <<mode, born, row, effects, cur>>
  PROVE  BatchIsJustified' /\ HandlersAreApart' /\ LoopIsConsistent'
<1>1. /\ task'[p] = "idle" /\ hand'[p] = Empty
      /\ \A q \in Procs \ {p} : task'[q] = task[q] /\ hand'[q] = hand[q]
  BY DEF Release, TypeOK, LoopTypes
<1>2. BatchIsJustified'
  BY <1>1, EmptyType DEF BatchIsJustified, Evaluated
<1>3. HandlersAreApart'
  BY <1>1, EmptyType DEF HandlersAreApart, Handling
<1>4. LoopIsConsistent'
  BY <1>1 DEF LoopIsConsistent, Evaluating, Handling, Empty
<1> QED  BY <1>2, <1>3, <1>4

\* An evaluation that ends leaves its outcome; "ok" needs a reason.
LEMMA OutcomeKeeps ==
  ASSUME TypeOK, DoneIsCommitted, BatchIsJustified, HandlersAreApart, LoopIsConsistent,
         NEW p \in Procs, cur[p] # NoEvent,
         NEW outcome \in {"ok", "failed"}, EndEvaluation(p, outcome),
         outcome = "ok" => Evaluated(cur[p]),
         UNCHANGED <<mode, born, row, effects, task>>
  PROVE  DoneIsCommitted' /\ BatchIsJustified' /\ HandlersAreApart' /\ LoopIsConsistent'
<1>1. cur[p] \in Events /\ Evaluating(p) /\ hand[p][cur[p]] = "todo" /\ task[p] # "idle"
  BY PipelineConstants DEF TypeOK, LoopTypes, LoopIsConsistent
<1>2. /\ cur'[p] = NoEvent
      /\ \A q \in Procs \ {p} : cur'[q] = cur[q] /\ hand'[q] = hand[q] /\ done'[q] = done[q]
      /\ hand'[p][cur[p]] = outcome
      /\ \A e \in Events \ {cur[p]} : hand'[p][e] = hand[p][e]
  BY <1>1 DEF EndEvaluation, TypeOK, LoopTypes
<1>3. DoneIsCommitted'
  BY <1>2 DEF DoneIsCommitted
<1>4. BatchIsJustified'
  BY <1>1, <1>2 DEF BatchIsJustified, Evaluated, Evaluating
<1>5. HandlersAreApart'
  BY <1>1, <1>2 DEF HandlersAreApart, Handling
<1>6. LoopIsConsistent'
  BY <1>1, <1>2 DEF LoopIsConsistent, Evaluating, Handling, Empty
<1> QED  BY <1>3, <1>4, <1>5, <1>6

\* No step is ever uncommitted, and the one just committed counts.
LEMMA EffectsGrow ==
  ASSUME TypeOK, NEW p \in Procs, CommitStep(p)
  PROVE  /\ \A e \in Events : \A s \in Steps(e) : effects[e][s] > 0 => effects'[e][s] > 0
         /\ \A s \in done'[p] : s \in done[p] \/ effects'[cur[p]][s] > 0
         /\ \A q \in Procs \ {p} : done'[q] = done[q]
<1>1. cur[p] \in Events
  BY DEF TypeOK, LoopTypes, CommitStep
<1>2. PICK s \in Steps(cur[p]) :
        /\ effects' = [effects EXCEPT ![cur[p]][s] = IF s.kind = "severity" THEN 1 ELSE Bump(@)]
        /\ done' = [done EXCEPT ![p] = @ \cup {s}]
  BY Zenon DEF CommitStep, NextSteps
<1>3. (IF s.kind = "severity" THEN 1 ELSE Bump(effects[cur[p]][s])) > 0
  BY <1>1, BumpType DEF TypeOK, EffectTypes
<1>4. effects'[cur[p]][s] > 0
  BY <1>1, <1>2, <1>3 DEF TypeOK, EffectTypes
<1>5. ASSUME NEW e \in Events, NEW t \in Steps(e), effects[e][t] > 0
      PROVE  effects'[e][t] > 0
  <2>1. CASE e = cur[p] /\ t = s
    BY <1>4, <2>1
  <2>2. CASE ~ (e = cur[p] /\ t = s)
    BY <1>1, <1>2, <1>5, <2>2 DEF TypeOK, EffectTypes
  <2> QED  BY <2>1, <2>2
<1>6. /\ \A t \in done'[p] : t \in done[p] \/ t = s
      /\ \A q \in Procs \ {p} : done'[q] = done[q]
  BY <1>2 DEF TypeOK, LoopTypes
<1> QED  BY <1>4, <1>5, <1>6

-----------------------------------------------------------------------------
(***************************************************************************)
(* IInv is inductive: one step per action, and under it one per part of    *)
(* IInv the action can disturb.                                            *)
(***************************************************************************)
LEMMA InvStep == IInv /\ [Next]_vars => IInv'
<1> SUFFICES ASSUME IInv, [Next]_vars PROVE IInv'
  OBVIOUS
<1> USE DEF IInv
<1>t. TypeOK'
  BY TypeStep
<1>h. /\ task \in [Procs -> Tasks]
      /\ hand \in [Procs -> [Events -> HandStates]]
      /\ cur \in [Procs -> Events \cup {NoEvent}]
      /\ row \in [Events -> RowStates]
      /\ born \in [Events -> Nat]
      /\ clock \in Nat
  BY DEF TypeOK, LoopTypes, DbTypes
<1>1. CASE UNCHANGED vars
  BY <1>1, <1>t DEF vars, dbVars, loopVars, ProcessedIsEvaluated, Evaluated, RowsNeedEvents,
     DoneIsCommitted, BatchIsJustified, HandlersAreApart, Handling, LoopIsConsistent, Evaluating
<1>2. CASE Next
  <2>1. ASSUME NEW p \in Procs, NEW new \in SUBSET Events,
               NEW handler \in {"single", "bulk"}, Accept(p, new, handler)
        PROVE  IInv'
    <3>1. /\ task[p] = "idle" /\ cur[p] = NoEvent /\ task'[p] = handler
          /\ \A e \in Events : hand'[p][e] = IF e \in new THEN "todo" ELSE "out"
          /\ \A q \in Procs \ {p} : task'[q] = task[q] /\ hand'[q] = hand[q]
          /\ \A e \in Events : born'[e] = IF e \in new THEN clock + 1 ELSE born[e]
          /\ \A e \in new : born[e] = 0 /\ row[e] = "none"
          /\ UNCHANGED <<mode, row, effects, cur, done>>
      BY <2>1, <1>h DEF Accept, LoopIsConsistent, RowsNeedEvents
    <3>2. ProcessedIsEvaluated' /\ DoneIsCommitted'
      BY <3>1 DEF ProcessedIsEvaluated, Evaluated, DoneIsCommitted
    <3>3. RowsNeedEvents'
      BY <2>1, <3>1, <1>h DEF RowsNeedEvents, Accept
    <3>4. BatchIsJustified'
      BY <3>1 DEF BatchIsJustified, Evaluated
    <3>5. HandlersAreApart'
      BY <3>1, <1>h DEF HandlersAreApart, Handling
    <3>6. LoopIsConsistent'
      BY <3>1 DEF LoopIsConsistent, Evaluating, Handling, Empty
    <3> QED  BY <1>t, <3>2, <3>3, <3>4, <3>5, <3>6
  <2>2. ASSUME NEW p \in Procs, InsertPending(p)
        PROVE  IInv'
    <3>1. /\ mode = "db" /\ Handling(p) /\ cur[p] = NoEvent
          /\ task'[p] = "idle" /\ hand'[p] = Empty
          /\ \A q \in Procs \ {p} : task'[q] = task[q] /\ hand'[q] = hand[q]
          /\ \A e \in Events : row'[e] = IF e \in Todo(p) THEN "unprocessed" ELSE row[e]
          /\ UNCHANGED <<mode, born, stored, effects, cur, done>>
      BY <2>2, <1>h DEF InsertPending, Release, LoopIsConsistent, Evaluating, Handling
    <3>2. \A e \in Todo(p) : /\ e \in stored /\ row[e] = "none" /\ born[e] > 0
                             /\ \A q \in Procs \ {p} : ~ (Handling(q) /\ hand[q][e] = "todo")
      BY <2>2, <3>1 DEF InsertPending, HandlersAreApart, Todo, In
    <3>3. ProcessedIsEvaluated' /\ DoneIsCommitted'
      BY <3>1 DEF ProcessedIsEvaluated, Evaluated, DoneIsCommitted
    <3>4. RowsNeedEvents'
      BY <3>1, <3>2 DEF RowsNeedEvents
    <3>5. BatchIsJustified'
      BY <3>1, <3>2, EmptyType DEF BatchIsJustified, Evaluated
    <3>6. HandlersAreApart'
      BY <3>1, <3>2, EmptyType DEF HandlersAreApart, Handling
    <3>7. LoopIsConsistent'
      BY <3>1 DEF LoopIsConsistent, Evaluating, Handling, Empty
    <3> QED  BY <1>t, <3>3, <3>4, <3>5, <3>6, <3>7
  <2>3. ASSUME NEW p \in Procs, InsertPendingFails(p) \/ EndTask(p) \/ RollbackBatch(p)
        PROVE  IInv'
    <3>1. Release(p) /\ cur[p] = NoEvent /\ UNCHANGED <<mode, dbVars, effects, cur, done>>
      BY <2>3 DEF InsertPendingFails, EndTask, RollbackBatch, BatchEvaluated, LoopIsConsistent,
         Evaluating, Handling
    <3>2. BatchIsJustified' /\ HandlersAreApart' /\ LoopIsConsistent'
      BY <3>1, ReleaseKeeps DEF dbVars
    <3>3. ProcessedIsEvaluated' /\ RowsNeedEvents' /\ DoneIsCommitted'
      BY <3>1 DEF dbVars, ProcessedIsEvaluated, Evaluated, RowsNeedEvents, DoneIsCommitted
    <3> QED  BY <1>t, <3>2, <3>3
  <2>4. ASSUME NEW p \in Procs, NEW e \in Events, PutNowait(p, e) \/ PutRefused(p, e)
        PROVE  IInv'
    <3>1. /\ mode = "memory" /\ Handling(p) /\ cur[p] = NoEvent /\ Settle(p, e)
          /\ UNCHANGED <<mode, dbVars, effects, cur, done>>
      BY <2>4 DEF PutNowait, PutRefused, LoopIsConsistent, Evaluating, Handling
    <3>2. ProcessedIsEvaluated' /\ RowsNeedEvents' /\ DoneIsCommitted'
      BY <3>1 DEF dbVars, ProcessedIsEvaluated, Evaluated, RowsNeedEvents, DoneIsCommitted
    <3>3. BatchIsJustified' /\ HandlersAreApart'
      BY <3>1 DEF BatchIsJustified, HandlersAreApart
    <3>4. LoopIsConsistent'
      <4>1. /\ task'[p] = "idle" => hand'[p] = Empty
            /\ \A q \in Procs \ {p} : task'[q] = task[q] /\ hand'[q] = hand[q]
        BY <3>1, <1>h DEF Settle, Release, Handling
      <4> QED  BY <3>1, <4>1 DEF LoopIsConsistent, Evaluating, Handling, Empty
    <3> QED  BY <1>t, <3>2, <3>3, <3>4
  <2>5. ASSUME NEW p \in Procs, TakeFromQueue(p) \/ FetchBatch(p)
        PROVE  IInv'
    <3>1. /\ task[p] = "idle" /\ cur[p] = NoEvent /\ task'[p] = "worker"
          /\ \A q \in Procs \ {p} : task'[q] = task[q] /\ hand'[q] = hand[q]
          /\ UNCHANGED <<mode, dbVars, effects, cur, done>>
      BY <2>5, <1>h DEF TakeFromQueue, FetchBatch, LoopIsConsistent
    <3>2. mode = "db" => \A e \in Events :
            hand'[p][e] # "out" => hand'[p][e] = "todo" /\ row[e] = "unprocessed"
      BY <2>5, <1>h DEF TakeFromQueue, FetchBatch, Unprocessed
    <3>3. ProcessedIsEvaluated' /\ RowsNeedEvents' /\ DoneIsCommitted'
      BY <3>1 DEF dbVars, ProcessedIsEvaluated, Evaluated, RowsNeedEvents, DoneIsCommitted
    <3>4. BatchIsJustified'
      BY <3>1, <3>2 DEF dbVars, BatchIsJustified, Evaluated
    <3>5. HandlersAreApart'
      BY <3>1 DEF dbVars, HandlersAreApart, Handling
    <3>6. LoopIsConsistent'
      BY <3>1 DEF LoopIsConsistent, Evaluating, Handling, Empty
    <3> QED  BY <1>t, <3>3, <3>4, <3>5, <3>6
  <2>6. ASSUME NEW p \in Procs, NEW e \in Events, StartEvaluation(p, e)
        PROVE  IInv'
    <3>1. /\ Evaluating(p) /\ cur[p] = NoEvent /\ hand[p][e] = "todo" /\ task[p] # "idle"
          /\ UNCHANGED <<mode, dbVars, effects, task>>
      BY <2>6 DEF StartEvaluation, Todo, In, Evaluating, Handling
    <3>2. ProcessedIsEvaluated' /\ RowsNeedEvents'
      BY <3>1 DEF dbVars, ProcessedIsEvaluated, Evaluated, RowsNeedEvents
    <3>3. CASE e \in stored
      <4>1. /\ cur'[p] = e /\ done'[p] = {} /\ hand' = hand
            /\ \A q \in Procs \ {p} : cur'[q] = cur[q] /\ done'[q] = done[q]
        BY <2>6, <3>3, <1>h DEF StartEvaluation, TypeOK, LoopTypes
      <4>2. DoneIsCommitted'
        BY <3>1, <4>1 DEF DoneIsCommitted
      <4>3. BatchIsJustified' /\ HandlersAreApart'
        BY <3>1, <4>1 DEF dbVars, BatchIsJustified, Evaluated, HandlersAreApart, Handling
      <4>4. LoopIsConsistent'
        BY <3>1, <4>1 DEF LoopIsConsistent, Evaluating, Handling, Empty
      <4> QED  BY <1>t, <3>2, <4>2, <4>3, <4>4
    <3>4. CASE e \notin stored
      <4>1. /\ hand'[p][e] = "ok" /\ cur' = cur /\ done' = done
            /\ \A f \in Events \ {e} : hand'[p][f] = hand[p][f]
            /\ \A q \in Procs \ {p} : hand'[q] = hand[q]
        BY <2>6, <3>4, <1>h DEF StartEvaluation
      <4>2. mode = "db" => task[p] = "worker" /\ row[e] = "deleted"
        BY <3>1, <3>4, <1>h DEF Evaluating, BatchIsJustified, RowsNeedEvents, RowStates
      <4>3. DoneIsCommitted'
        BY <3>1, <4>1 DEF DoneIsCommitted
      <4>4. BatchIsJustified'
        BY <3>1, <4>1, <4>2 DEF dbVars, BatchIsJustified, Evaluated
      <4>5. HandlersAreApart'
        BY <3>1, <4>1, <4>2 DEF dbVars, HandlersAreApart, Handling
      <4>6. LoopIsConsistent'
        BY <3>1, <4>1 DEF LoopIsConsistent, Evaluating, Handling, Empty
      <4> QED  BY <1>t, <3>2, <4>3, <4>4, <4>5, <4>6
    <3> QED  BY <3>3, <3>4
  <2>7. ASSUME NEW p \in Procs, CommitStep(p)
        PROVE  IInv'
    <3>1. UNCHANGED <<mode, dbVars, task, hand, cur>>
      BY <2>7 DEF CommitStep
    <3>2. \A e \in Events : Evaluated(e) => Evaluated(e)'
      BY <2>7, EffectsGrow DEF Evaluated
    <3>3. ProcessedIsEvaluated' /\ RowsNeedEvents' /\ BatchIsJustified'
      BY <3>1, <3>2 DEF dbVars, ProcessedIsEvaluated, RowsNeedEvents, BatchIsJustified
    <3>4. DoneIsCommitted'
      <4>1. ASSUME NEW q \in Procs, cur[q] # NoEvent, NEW s \in done'[q]
            PROVE  effects'[cur[q]][s] > 0
        <5>1. cur[q] \in Events
          BY <4>1, <1>h
        <5>2. s \in done[q] => s \in Steps(cur[q]) /\ effects[cur[q]][s] > 0
          BY <4>1 DEF DoneIsCommitted, TypeOK, LoopTypes
        <5>3. CASE q = p  BY <4>1, <5>1, <5>2, <5>3, <2>7, EffectsGrow
        <5>4. CASE q # p  BY <4>1, <5>1, <5>2, <5>4, <2>7, EffectsGrow
        <5> QED  BY <5>3, <5>4
      <4> QED  BY <3>1, <4>1 DEF DoneIsCommitted
    <3>5. HandlersAreApart' /\ LoopIsConsistent'
      BY <3>1 DEF dbVars, HandlersAreApart, LoopIsConsistent, Evaluating, Handling, Empty
    <3> QED  BY <1>t, <3>3, <3>4, <3>5
  <2>8. ASSUME NEW p \in Procs, FinishEvaluation(p) \/ RaiseStep(p) \/ FaultStep(p)
        PROVE  IInv'
    <3>1. PICK outcome \in {"ok", "failed"} :
            /\ cur[p] # NoEvent /\ EndEvaluation(p, outcome)
            /\ outcome = "ok" => done[p] = Steps(cur[p])
            /\ UNCHANGED <<mode, dbVars, effects, task>>
      BY <2>8 DEF FinishEvaluation, RaiseStep, FaultStep
    <3>2. outcome = "ok" => Evaluated(cur[p])
      BY <3>1 DEF DoneIsCommitted, Evaluated
    <3>3. DoneIsCommitted' /\ BatchIsJustified' /\ HandlersAreApart' /\ LoopIsConsistent'
      BY <3>1, <3>2, OutcomeKeeps DEF dbVars
    <3>4. ProcessedIsEvaluated' /\ RowsNeedEvents'
      BY <3>1 DEF dbVars, ProcessedIsEvaluated, Evaluated, RowsNeedEvents
    <3> QED  BY <1>t, <3>3, <3>4
  <2>9. ASSUME NEW p \in Procs, CommitBatch(p)
        PROVE  IInv'
    <3>1. /\ mode = "db" /\ task[p] = "worker" /\ cur[p] = NoEvent
          /\ task'[p] = "idle" /\ hand'[p] = Empty
          /\ \A q \in Procs \ {p} : task'[q] = task[q] /\ hand'[q] = hand[q]
          /\ \A e \in Events : row'[e] = IF hand[p][e] = "ok" THEN "processed" ELSE row[e]
          /\ UNCHANGED <<mode, born, stored, effects, cur, done>>
      BY <2>9, <1>h DEF CommitBatch, CommitRows, BatchEvaluated, Release, In
    <3>2. \A e \in Events : hand[p][e] = "ok" =>
            Evaluated(e) /\ row[e] \in {"unprocessed", "processed"}
      BY <2>9, <3>1, <1>h DEF CommitBatch, CommitRows, RowGone, In, BatchIsJustified, RowStates
    <3>3. ProcessedIsEvaluated' /\ DoneIsCommitted'
      BY <3>1, <3>2 DEF ProcessedIsEvaluated, Evaluated, DoneIsCommitted
    <3>4. RowsNeedEvents'
      BY <3>1, <3>2 DEF RowsNeedEvents
    <3>5. BatchIsJustified'
      BY <3>1, <3>2, EmptyType DEF BatchIsJustified, Evaluated
    <3>6. HandlersAreApart'
      BY <3>1, <3>2, EmptyType DEF HandlersAreApart, Handling
    <3>7. LoopIsConsistent'
      BY <3>1 DEF LoopIsConsistent, Evaluating, Handling, Empty
    <3> QED  BY <1>t, <3>3, <3>4, <3>5, <3>6, <3>7
  <2>10. ASSUME NEW p \in Procs, NEW e \in Events, RetryPut(p, e) \/ DropEvent(p, e)
         PROVE  IInv'
    <3>1. UNCHANGED <<mode, dbVars, effects, loopVars>>
      BY <2>10 DEF RetryPut, DropEvent
    <3>2. ProcessedIsEvaluated' /\ RowsNeedEvents' /\ DoneIsCommitted'
      BY <3>1 DEF dbVars, loopVars, ProcessedIsEvaluated, Evaluated, RowsNeedEvents, DoneIsCommitted
    <3>3. BatchIsJustified' /\ HandlersAreApart' /\ LoopIsConsistent'
      BY <3>1 DEF dbVars, loopVars, BatchIsJustified, Evaluated, HandlersAreApart, Handling,
         LoopIsConsistent, Evaluating, Empty
    <3> QED  BY <1>t, <3>2, <3>3
  <2>11. ASSUME NEW p \in Procs, Crash(p)
         PROVE  IInv'
    <3>1. /\ task'[p] = "idle" /\ hand'[p] = Empty /\ cur'[p] = NoEvent
          /\ \A q \in Procs \ {p} : /\ task'[q] = task[q] /\ hand'[q] = hand[q]
                                    /\ cur'[q] = cur[q] /\ done'[q] = done[q]
          /\ UNCHANGED <<mode, dbVars, effects>>
      BY <2>11, <1>h DEF Crash, Release, TypeOK, LoopTypes
    <3>2. ProcessedIsEvaluated' /\ RowsNeedEvents' /\ DoneIsCommitted'
      BY <3>1 DEF dbVars, ProcessedIsEvaluated, Evaluated, RowsNeedEvents, DoneIsCommitted
    <3>3. BatchIsJustified' /\ HandlersAreApart'
      BY <3>1, EmptyType DEF dbVars, BatchIsJustified, Evaluated, HandlersAreApart, Handling
    <3>4. LoopIsConsistent'
      BY <3>1 DEF LoopIsConsistent, Evaluating, Handling, Empty
    <3> QED  BY <1>t, <3>2, <3>3, <3>4
  <2>12. CASE Prune
    <3>1. /\ UNCHANGED <<mode, born, effects, task, hand, cur, done>>
          /\ \A e \in Events :
               \/ (e \in stored' <=> e \in stored) /\ row'[e] = row[e]
               \/ e \notin stored' /\ row'[e] = IF row[e] = "none" THEN "none" ELSE "deleted"
      BY <2>12, <1>h DEF Prune, loopVars
    <3>2. ProcessedIsEvaluated' /\ RowsNeedEvents' /\ DoneIsCommitted'
      BY <3>1 DEF ProcessedIsEvaluated, Evaluated, RowsNeedEvents, DoneIsCommitted
    <3>3. BatchIsJustified' /\ HandlersAreApart' /\ LoopIsConsistent'
      BY <3>1 DEF BatchIsJustified, Evaluated, HandlersAreApart, Handling, LoopIsConsistent,
         Evaluating, Empty
    <3> QED  BY <1>t, <3>2, <3>3
  <2> QED
    BY <1>2, <2>1, <2>2, <2>3, <2>4, <2>5, <2>6, <2>7, <2>8, <2>9, <2>10, <2>11, <2>12,
       NextCases, Zenon
<1> QED  BY <1>1, <1>2

\* The initial states satisfy it.
LEMMA InvInit == Init => IInv
<1> SUFFICES ASSUME Init PROVE IInv
  OBVIOUS
<1>1. TypeOK
  BY PipelineConstants, EmptyType DEF Init, TypeOK, DbTypes, EffectTypes, QueueTypes,
     LoopTypes, CounterTypes, RowStates, Tasks
<1>2. ProcessedIsEvaluated /\ RowsNeedEvents /\ DoneIsCommitted
  BY DEF Init, ProcessedIsEvaluated, RowsNeedEvents, DoneIsCommitted
<1>3. BatchIsJustified /\ HandlersAreApart /\ LoopIsConsistent
  BY EmptyType DEF Init, BatchIsJustified, HandlersAreApart, Handling, LoopIsConsistent
<1> QED  BY <1>1, <1>2, <1>3 DEF IInv

\* Mode db keeps its promise: whatever crashes, fails, is fetched twice or is
\* deleted in between, process_db_event_queue sets processed_at only on rows
\* whose event has been through every commit of _process_event_id.
THEOREM ProcessedCorrect == Spec => []ProcessedIsEvaluated
<1>1. IInv => ProcessedIsEvaluated
  BY DEF IInv
<1> QED
  BY <1>1, InvInit, InvStep, PTL DEF Spec

-----------------------------------------------------------------------------
\* A row once processed is never unprocessed again, by a slower worker that
\* fetched it too, by a handler, or by anything else: only deletion follows.
THEOREM FinalCorrect == Spec => ProcessedIsFinal
<1>1. ASSUME IInv, [Next]_vars
      PROVE  [\A e \in Events : row[e] = "processed" => row'[e] \in {"processed", "deleted"}]_vars
  <2> SUFFICES ASSUME Next, NEW e \in Events, row[e] = "processed"
               PROVE  row'[e] \in {"processed", "deleted"}
    BY <1>1
  <2>1. ASSUME NEW p \in Procs, InsertPending(p)
        PROVE  row'[e] = row[e]
    <3>1. e \notin Todo(p)
      BY <1>1, <2>1 DEF IInv, InsertPending, HandlersAreApart, Todo, In
    <3> QED  BY <2>1, <3>1 DEF InsertPending
  <2>2. ASSUME NEW p \in Procs, CommitBatch(p)
        PROVE  row'[e] = "processed"
    BY <2>2 DEF CommitBatch, CommitRows
  <2>3. CASE Prune
    BY <2>3 DEF Prune
  <2>4. ASSUME UNCHANGED row
        PROVE  row'[e] = "processed"
    BY <2>4
  <2> QED
    BY <2>1, <2>2, <2>3, <2>4, NextCases DEF Accept, InsertPendingFails, PutNowait, PutRefused,
       TakeFromQueue, FetchBatch, StartEvaluation, CommitStep, FinishEvaluation, RaiseStep,
       FaultStep, EndTask, RollbackBatch, RetryPut, DropEvent, Crash, dbVars
<1> QED
  BY <1>1, InvInit, InvStep, PTL DEF Spec, ProcessedIsFinal

-----------------------------------------------------------------------------
(***************************************************************************)
(* Whom PendingEvent.attempts blames.                                      *)
(***************************************************************************)
\* In mode db an evaluation fails by its own event, by a database error, or
\* because its event, and with it its row, has been deleted.
FailuresHaveReasons ==
  mode = "db" =>
    \A p \in Procs : \A e \in Events :
      hand[p][e] = "failed" => e \in Poisoned \/ faults > 0 \/ row[e] = "deleted"

BlameInv == IInv /\ FailuresHaveReasons /\ OnlyFailuresAreBlamed

\* An evaluation of mode db raises for its event, or because the event is gone.
LEMMA RaiseHasReason ==
  ASSUME IInv, mode = "db", NEW p \in Procs, RaiseStep(p)
  PROVE  cur[p] \in Poisoned \/ row[cur[p]] = "deleted"
<1>1. cur[p] \in Events /\ row[cur[p]] # "none"
  BY DEF IInv, TypeOK, LoopTypes, RaiseStep, LoopIsConsistent, BatchIsJustified, Evaluating
<1>2. PICK s \in Steps(cur[p]) : Refused(cur[p], s)
  BY DEF RaiseStep, NextSteps
<1>3. CASE <<cur[p], s>> \in Rejected
  BY <1>1, <1>3 DEF Poisoned
<1>4. CASE Stale(cur[p], s)
  BY <1>1, <1>4 DEF Stale, IInv, TypeOK, DbTypes, RowStates, RowsNeedEvents
<1> QED  BY <1>2, <1>3, <1>4 DEF Refused

\* With the reasons in hand, nobody else is blamed: one step per action again.
LEMMA BlameStep == BlameInv /\ [Next]_vars => BlameInv'
<1> SUFFICES ASSUME BlameInv, [Next]_vars PROVE BlameInv'
  OBVIOUS
<1> USE DEF BlameInv
<1>i. IInv'
  BY InvStep
<1>h. /\ hand \in [Procs -> [Events -> HandStates]]
      /\ cur \in [Procs -> Events \cup {NoEvent}]
      /\ faults \in Nat
  BY PipelineConstants DEF IInv, TypeOK, LoopTypes, CounterTypes
\* Any step that lets the failures in hand, rows, attempts and faults grow
\* only in this way keeps both parts.
<1>k. ASSUME UNCHANGED <<mode, attempts>>, faults' >= faults, faults' \in Nat,
             mode = "db" =>
               /\ \A e \in Events : row[e] = "deleted" => row'[e] = "deleted"
               /\ \A p \in Procs : \A e \in Events :
                    hand'[p][e] = "failed" => \/ hand[p][e] = "failed"
                                              \/ e \in Poisoned \/ faults' > 0
                                              \/ row[e] = "deleted"
      PROVE  BlameInv'
  BY <1>k, <1>i, <1>h DEF FailuresHaveReasons, OnlyFailuresAreBlamed
<1>1. CASE UNCHANGED vars
  BY <1>1, <1>k, <1>h DEF vars, dbVars, loopVars, budgets
<1>2. CASE Next
  <2>1. ASSUME NEW p \in Procs, NEW new \in SUBSET Events,
               NEW handler \in {"single", "bulk"}, Accept(p, new, handler)
        PROVE  BlameInv'
    BY <2>1, <1>k, <1>h DEF Accept, budgets
  <2>2. ASSUME NEW p \in Procs, InsertPending(p)
        PROVE  BlameInv'
    <3>1. \A e \in Todo(p) : row[e] = "none"
      BY <2>2 DEF IInv, InsertPending, HandlersAreApart, Todo, In
    <3> QED  BY <2>2, <3>1, <1>k, <1>h, EmptyType DEF InsertPending, Release, budgets
  <2>3. ASSUME NEW p \in Procs, InsertPendingFails(p) \/ EndTask(p) \/ RollbackBatch(p)
        PROVE  BlameInv'
    <3>1. /\ Release(p) /\ UNCHANGED <<mode, attempts, row>>
          /\ faults' \in Nat /\ faults' >= faults
      BY <2>3, <1>h DEF InsertPendingFails, EndTask, RollbackBatch, dbVars, budgets
    <3> QED  BY <3>1, <1>k, <1>h, EmptyType DEF Release
  <2>4. ASSUME NEW p \in Procs, NEW e \in Events,
               PutNowait(p, e) \/ PutRefused(p, e) \/ RetryPut(p, e) \/ DropEvent(p, e)
        PROVE  BlameInv'
    <3>1. /\ UNCHANGED <<mode, attempts, faults>>
          /\ mode = "db" => UNCHANGED <<row, hand>>
      BY <2>4 DEF PutNowait, PutRefused, RetryPut, DropEvent, dbVars, loopVars, budgets
    <3> QED  BY <3>1, <1>k, <1>h
  <2>5. ASSUME NEW p \in Procs, TakeFromQueue(p) \/ FetchBatch(p)
        PROVE  BlameInv'
    <3>1. /\ UNCHANGED <<mode, attempts, row, faults>>
          /\ mode = "db" => \A q \in Procs : \A e \in Events :
               hand'[q][e] = "failed" => hand[q][e] = "failed"
      BY <2>5, <1>h DEF TakeFromQueue, FetchBatch, dbVars, budgets
    <3> QED  BY <3>1, <1>k, <1>h
  <2>6. ASSUME NEW p \in Procs, NEW e \in Events, StartEvaluation(p, e)
        PROVE  BlameInv'
    <3>1. /\ UNCHANGED <<mode, attempts, row, faults>>
          /\ \A q \in Procs : \A f \in Events :
               hand'[q][f] = "failed" => hand[q][f] = "failed"
      BY <2>6, <1>h DEF StartEvaluation, dbVars, budgets
    <3> QED  BY <3>1, <1>k, <1>h
  <2>7. ASSUME NEW p \in Procs, CommitStep(p)
        PROVE  BlameInv'
    BY <2>7, <1>k, <1>h DEF CommitStep, dbVars, budgets
  <2>8. ASSUME NEW p \in Procs, FinishEvaluation(p)
        PROVE  BlameInv'
    BY <2>8, <1>k, <1>h DEF FinishEvaluation, EndEvaluation, dbVars, budgets
  <2>9. ASSUME NEW p \in Procs, RaiseStep(p)
        PROVE  BlameInv'
    <3>1. mode = "db" => cur[p] \in Poisoned \/ row[cur[p]] = "deleted"
      BY <2>9, RaiseHasReason
    <3>2. /\ UNCHANGED <<mode, attempts, row, faults>>
          /\ \A q \in Procs : \A e \in Events :
               hand'[q][e] = "failed" => hand[q][e] = "failed" \/ (q = p /\ e = cur[p])
      BY <2>9, <1>h DEF RaiseStep, EndEvaluation, dbVars, budgets
    <3> QED  BY <3>1, <3>2, <1>k, <1>h
  <2>10. ASSUME NEW p \in Procs, FaultStep(p)
         PROVE  BlameInv'
    BY <2>10, <1>k, <1>h DEF FaultStep, EndEvaluation, dbVars, budgets
  <2>11. ASSUME NEW p \in Procs, CommitBatch(p)
         PROVE  BlameInv'
    <3>1. /\ mode = "db" /\ UNCHANGED <<mode, faults>> /\ Release(p)
          /\ \A e \in Events : hand[p][e] = "failed" => row[e] # "deleted"
          /\ \A e \in Events : row[e] = "deleted" => row'[e] = "deleted"
          /\ \A e \in Events : hand[p][e] # "failed" => attempts'[e] = attempts[e]
      BY <2>11, <1>h DEF CommitBatch, CommitRows, BatchEvaluated, RowGone, In, budgets
    <3>2. OnlyFailuresAreBlamed'
      BY <3>1 DEF OnlyFailuresAreBlamed, FailuresHaveReasons
    <3>3. FailuresHaveReasons'
      BY <3>1, <1>h, EmptyType DEF FailuresHaveReasons, Release
    <3> QED  BY <1>i, <3>2, <3>3
  <2>12. ASSUME NEW p \in Procs, Crash(p)
         PROVE  BlameInv'
    BY <2>12, <1>k, <1>h, EmptyType DEF Crash, Release, dbVars
  <2>13. CASE Prune
    BY <2>13, <1>k, <1>h DEF Prune, loopVars
  <2> QED
    BY <1>2, <2>1, <2>2, <2>3, <2>4, <2>5, <2>6, <2>7, <2>8, <2>9, <2>10, <2>11, <2>12, <2>13,
       NextCases, Zenon
<1> QED  BY <1>1, <1>2

\* PendingEvent.attempts blames an event that always fails, or dates from a
\* database error: never the neighbours of a failing event in its batch, and
\* never an event that was deleted while it was evaluated.
THEOREM BlameCorrect == Spec => []OnlyFailuresAreBlamed
<1>1. Init => BlameInv
  BY InvInit, EmptyType DEF Init, BlameInv, FailuresHaveReasons, OnlyFailuresAreBlamed
<1>2. BlameInv => OnlyFailuresAreBlamed
  BY DEF BlameInv
<1> QED
  BY <1>1, <1>2, BlameStep, PTL DEF Spec

-----------------------------------------------------------------------------
(***************************************************************************)
(* Where an accepted event can be, and what its effects say.               *)
(***************************************************************************)
Among(s, e) == \E i \in DOMAIN s : s[i] = e
Queued(p, e) == Among(queue[p], e)

\* p has e in memory and has yet to evaluate it, or does.
Has(p, e) == hand[p][e] = "todo" \/ waiting[p][e] > 0 \/ Queued(p, e)

\* Whatever is known of an event, it was accepted.
KnownAreBorn ==
  \A e \in Events :
    born[e] = 0 => /\ e \notin stored /\ row[e] = "none"
                   /\ \A p \in Procs : ~ Has(p, e) /\ cur[p] # e
                   /\ \A s \in Steps(e) : effects[e][s] = 0

\* The elements of a queue when one is put to the end or taken from the front
LEMMA QueuedAppend ==
  ASSUME NEW S, NEW q \in Seq(S), NEW x \in S, NEW r, r = Append(q, x), NEW e
  PROVE  Among(r, e) <=> e = x \/ Among(q, e)
<1>1. /\ r \in Seq(S) /\ Len(r) = Len(q) + 1 /\ r[Len(q) + 1] = x /\ Len(q) \in Nat
      /\ \A i \in 1 .. Len(q) : r[i] = q[i]
      /\ DOMAIN r = 1 .. Len(r) /\ DOMAIN q = 1 .. Len(q)
  OBVIOUS
<1>2. DOMAIN r = DOMAIN q \cup {Len(q) + 1}
  BY <1>1
<1> QED  BY <1>1, <1>2 DEF Among

\* and taken from the front
LEMMA QueuedTail ==
  ASSUME NEW S, NEW q \in Seq(S), q # <<>>, NEW r, r = Tail(q), NEW e
  PROVE  Among(q, e) <=> e = Head(q) \/ Among(r, e)
<1>1. /\ r \in Seq(S) /\ Len(r) = Len(q) - 1 /\ Head(q) = q[1] /\ Len(q) \in Nat /\ Len(q) >= 1
      /\ \A i \in 1 .. Len(q) - 1 : r[i] = q[i + 1]
      /\ DOMAIN r = 1 .. Len(r) /\ DOMAIN q = 1 .. Len(q)
  OBVIOUS
<1>2. \A i \in 1 .. Len(q) - 1 : i + 1 \in 1 .. Len(q)
  BY <1>1
<1>3. \A i \in 1 .. Len(q) : i = 1 \/ (i - 1 \in 1 .. Len(q) - 1 /\ (i - 1) + 1 = i)
  BY <1>1
<1>4. (\E i \in DOMAIN r : r[i] = e) => (\E i \in DOMAIN q : q[i] = e)
  BY <1>1, <1>2
<1>5. (\E i \in DOMAIN q : q[i] = e) => e = q[1] \/ (\E i \in DOMAIN r : r[i] = e)
  <2> SUFFICES ASSUME NEW i \in DOMAIN q, q[i] = e  PROVE e = q[1] \/ (\E j \in DOMAIN r : r[j] = e)
    OBVIOUS
  <2>1. CASE i = 1
    BY <2>1
  <2>2. CASE i # 1
    <3> DEFINE j == i - 1
    <3>1. j \in 1 .. Len(q) - 1 /\ j + 1 = i
      BY <1>1, <1>3, <2>2
    <3> HIDE DEF j
    <3>2. r[j] = q[i] /\ j \in DOMAIN r
      BY <1>1, <3>1
    <3> QED  BY <3>2
  <2> QED  BY <2>1, <2>2
<1>6. 1 \in DOMAIN q /\ q[1] \in S
  BY <1>1
<1> QED  BY <1>1, <1>4, <1>5, <1>6 DEF Among

\* The same for the queue of one process
LEMMA QueuedPut ==
  ASSUME QueueTypes, NEW p \in Procs, NEW f \in Events,
         queue' = [queue EXCEPT ![p] = Append(queue[p], f)]
  PROVE  \A q \in Procs : \A e \in Events : Queued(q, e)' <=> Queued(q, e) \/ (q = p /\ e = f)
<1> SUFFICES ASSUME NEW q \in Procs, NEW e \in Events
             PROVE  Queued(q, e)' <=> Queued(q, e) \/ (q = p /\ e = f)
  OBVIOUS
<1>h. queue \in [Procs -> Seq(Events)]
  BY DEF QueueTypes
<1>1. CASE q = p
  <2>1. queue'[p] = Append(queue[p], f) /\ queue[p] \in Seq(Events)
    BY <1>h
  <2>2. Among(queue'[p], e) <=> e = f \/ Among(queue[p], e)
    <3> DEFINE s == queue[p]
               r == queue'[p]
    <3>1. s \in Seq(Events) /\ r = Append(s, f)
      BY <2>1
    <3> HIDE DEF s, r
    <3>2. Among(r, e) <=> e = f \/ Among(s, e)
      BY <3>1, QueuedAppend
    <3> QED  BY <3>2 DEF s, r
  <2> QED  BY <1>1, <2>2 DEF Queued
<1>2. CASE q # p
  <2>1. queue'[q] = queue[q]
    BY <1>h, <1>2
  <2> QED  BY <1>2, <2>1 DEF Queued
<1> QED  BY <1>1, <1>2

\* and when the worker takes the first
LEMMA QueuedGet ==
  ASSUME QueueTypes, NEW p \in Procs, queue[p] # <<>>,
         queue' = [queue EXCEPT ![p] = Tail(queue[p])]
  PROVE  /\ Head(queue[p]) \in Events
         /\ \A q \in Procs : \A e \in Events :
              Queued(q, e) <=> Queued(q, e)' \/ (q = p /\ e = Head(queue[p]))
<1>h. queue \in [Procs -> Seq(Events)]
  BY DEF QueueTypes
<1>t. queue'[p] = Tail(queue[p]) /\ queue[p] \in Seq(Events)
  BY <1>h
<1>1. Head(queue[p]) \in Events
  BY <1>t
<1>2. ASSUME NEW q \in Procs, NEW e \in Events
      PROVE  Queued(q, e) <=> Queued(q, e)' \/ (q = p /\ e = Head(queue[p]))
  <2>1. CASE q = p
    <3> DEFINE s == queue[p]
               r == queue'[p]
    <3>1. s \in Seq(Events) /\ s # <<>> /\ r = Tail(s)
      BY <1>t
    <3> HIDE DEF s, r
    <3>2. Among(s, e) <=> e = Head(s) \/ Among(r, e)
      BY <3>1, QueuedTail
    <3> QED  BY <2>1, <3>2 DEF Queued, s, r
  <2>2. CASE q # p
    <3>1. queue'[q] = queue[q]
      BY <1>h, <2>2
    <3> QED  BY <2>2, <3>1 DEF Queued
  <2> QED  BY <2>1, <2>2
<1> QED  BY <1>1, <1>2

\* A handler that has put an event, or gives it up, has it in hand no more.
LEMMA SettleFacts ==
  ASSUME LoopTypes, NEW p \in Procs, NEW e \in Events, Settle(p, e), hand[p][e] = "todo"
  PROVE  /\ \A f \in Events : hand'[p][f] = "todo" <=> f # e /\ hand[p][f] = "todo"
         /\ \A q \in Procs \ {p} : hand'[q] = hand[q]
<1>1. CASE Todo(p) = {e}
  BY <1>1, EmptyType DEF Settle, Release, LoopTypes, Todo, In
<1>2. CASE Todo(p) # {e}
  BY <1>2 DEF Settle, LoopTypes
<1> QED  BY <1>1, <1>2

\* Who has an event in memory after a step had it before, or accepted it, or
\* fetched its row.
LEMMA HasMoves ==
  ASSUME IInv, [Next]_vars, NEW q \in Procs, NEW e \in Events, Has(q, e)'
  PROVE  Has(q, e) \/ (born[e] = 0 /\ born'[e] > 0) \/ row[e] = "unprocessed"
<1> USE DEF IInv
<1>q. QueueTypes
  BY DEF TypeOK
<1>h. /\ hand \in [Procs -> [Events -> HandStates]] /\ task \in [Procs -> Tasks]
      /\ waiting \in [Procs -> [Events -> 0 .. MaxQueueRetries]]
      /\ queue \in [Procs -> Seq(Events)] /\ clock \in Nat /\ LoopTypes
  BY DEF TypeOK, LoopTypes, QueueTypes, DbTypes
<1>k. ASSUME UNCHANGED <<queue, waiting>>, hand'[q][e] = "todo" => hand[q][e] = "todo"
      PROVE  Has(q, e)
  BY <1>k DEF Has, Queued
<1>1. CASE UNCHANGED vars
  BY <1>1, <1>k DEF vars, loopVars
<1>2. CASE Next
  <2>1. ASSUME NEW p \in Procs, NEW new \in SUBSET Events,
               NEW handler \in {"single", "bulk"}, Accept(p, new, handler)
        PROVE  Has(q, e) \/ (born[e] = 0 /\ born'[e] > 0)
    BY <2>1, <1>h DEF Accept, Has, Queued
  <2>2. ASSUME NEW p \in Procs, InsertPending(p) \/ InsertPendingFails(p) \/ EndTask(p)
                                \/ CommitBatch(p) \/ RollbackBatch(p)
        PROVE  Has(q, e)
    BY <2>2, <1>h, <1>k, EmptyType DEF InsertPending, InsertPendingFails, EndTask, CommitBatch,
       CommitRows, RollbackBatch, Release
  <2>3. ASSUME NEW p \in Procs, NEW f \in Events, PutNowait(p, f)
        PROVE  Has(q, e)
    <3>1. hand[p][f] = "todo" /\ waiting' = waiting
          /\ queue' = [queue EXCEPT ![p] = Append(queue[p], f)]
          /\ (hand'[q][e] = "todo" => hand[q][e] = "todo")
      BY <2>3, <1>h, SettleFacts DEF PutNowait, Todo, In
    <3>2. Queued(q, e)' => Queued(q, e) \/ (q = p /\ e = f)
      BY <3>1, <1>h, <1>q, QueuedPut
    <3> QED  BY <3>1, <3>2 DEF Has
  <2>4. ASSUME NEW p \in Procs, NEW f \in Events, PutRefused(p, f)
        PROVE  Has(q, e)
    <3>1. hand[p][f] = "todo" /\ queue' = queue
          /\ (waiting' = waiting \/ waiting' = [waiting EXCEPT ![p][f] = 1])
          /\ (hand'[q][e] = "todo" => hand[q][e] = "todo")
      BY <2>4, <1>h, SettleFacts DEF PutRefused, Todo, In
    <3>2. waiting'[q][e] > 0 => waiting[q][e] > 0 \/ (q = p /\ e = f)
      BY <3>1, <1>h
    <3> QED  BY <3>1, <3>2 DEF Has, Queued
  <2>5. ASSUME NEW p \in Procs, TakeFromQueue(p)
        PROVE  Has(q, e)
    <3>1. queue[p] # <<>> /\ queue' = [queue EXCEPT ![p] = Tail(queue[p])] /\ waiting' = waiting
          /\ (hand'[q][e] = "todo" => hand[q][e] = "todo" \/ (q = p /\ e = Head(queue[p])))
      BY <2>5, <1>h, EmptyType DEF TakeFromQueue
    <3>2. (q = p /\ e = Head(queue[p]) => Queued(q, e)) /\ (Queued(q, e)' => Queued(q, e))
      BY <3>1, <1>h, <1>q, QueuedGet
    <3> QED  BY <3>1, <3>2 DEF Has
  <2>6. ASSUME NEW p \in Procs, FetchBatch(p)
        PROVE  Has(q, e) \/ row[e] = "unprocessed"
    BY <2>6, <1>h DEF FetchBatch, Unprocessed, Has, Queued
  <2>7. ASSUME NEW p \in Procs, NEW f \in Events, StartEvaluation(p, f)
        PROVE  Has(q, e)
    <3>1. (hand' = hand \/ hand' = [hand EXCEPT ![p][f] = "ok"]) /\ UNCHANGED <<queue, waiting>>
      BY <2>7 DEF StartEvaluation
    <3>3. ASSUME hand' = [hand EXCEPT ![p][f] = "ok"]
          PROVE  hand'[q][e] = "todo" => hand[q][e] = "todo"
      BY <3>3, <1>h
    <3>2. hand'[q][e] = "todo" => hand[q][e] = "todo"
      BY <3>1, <3>3
    <3> QED  BY <3>1, <3>2, <1>k
  <2>8. ASSUME NEW p \in Procs, CommitStep(p)
        PROVE  Has(q, e)
    BY <2>8, <1>k DEF CommitStep
  <2>9. ASSUME NEW p \in Procs, FinishEvaluation(p) \/ RaiseStep(p) \/ FaultStep(p)
        PROVE  Has(q, e)
    <3>1. PICK outcome \in {"ok", "failed"} :
            hand' = [hand EXCEPT ![p][cur[p]] = outcome] /\ UNCHANGED <<queue, waiting>>
      BY <2>9 DEF FinishEvaluation, RaiseStep, FaultStep, EndEvaluation
    <3>2. hand'[q][e] = "todo" => hand[q][e] = "todo"
      BY <3>1, <1>h
    <3> QED  BY <3>1, <3>2, <1>k
  <2>10. ASSUME NEW p \in Procs, NEW f \in Events, RetryPut(p, f)
         PROVE  Has(q, e)
    <3>1. waiting[p][f] > 0 /\ hand' = hand
      BY <2>10, <1>h DEF RetryPut, loopVars
    <3>2. CASE HasRoom(p)
      <4>1. queue' = [queue EXCEPT ![p] = Append(queue[p], f)] /\ waiting' = [waiting EXCEPT ![p][f] = 0]
        BY <2>10, <3>2 DEF RetryPut
      <4>2. Queued(q, e)' => Queued(q, e) \/ (q = p /\ e = f)
        BY <4>1, <1>h, <1>q, QueuedPut
      <4>3. waiting'[q][e] > 0 => waiting[q][e] > 0
        BY <4>1, <1>h
      <4> QED  BY <3>1, <4>2, <4>3 DEF Has
    <3>3. CASE ~ HasRoom(p)
      <4>1. queue' = queue /\ waiting' = [waiting EXCEPT ![p][f] = @ + 1]
        BY <2>10, <3>3 DEF RetryPut
      <4>2. waiting'[q][e] > 0 => waiting[q][e] > 0 \/ (q = p /\ e = f)
        BY <4>1, <1>h
      <4> QED  BY <3>1, <4>1, <4>2 DEF Has, Queued
    <3> QED  BY <3>2, <3>3
  <2>11. ASSUME NEW p \in Procs, NEW f \in Events, DropEvent(p, f)
         PROVE  Has(q, e)
    <3>1. hand' = hand /\ queue' = queue /\ (waiting'[q][e] > 0 => waiting[q][e] > 0)
      BY <2>11, <1>h DEF DropEvent, loopVars
    <3> QED  BY <3>1 DEF Has, Queued
  <2>12. ASSUME NEW p \in Procs, Crash(p)
         PROVE  Has(q, e)
    <3>1. hand'[q][e] = "todo" => hand[q][e] = "todo"
      BY <2>12, <1>h, EmptyType DEF Crash, Release
    <3>2. (waiting'[q][e] > 0 => waiting[q][e] > 0) /\ (queue'[q] = queue[q] \/ queue'[q] = <<>>)
      BY <2>12, <1>h DEF Crash
    <3> QED  BY <3>1, <3>2 DEF Has, Queued, Among
  <2>13. CASE Prune
    BY <2>13, <1>k DEF Prune, loopVars
  <2> QED
    BY <1>2, <2>1, <2>2, <2>3, <2>4, <2>5, <2>6, <2>7, <2>8, <2>9, <2>10, <2>11, <2>12, <2>13,
       NextCases, Zenon
<1> QED  BY <1>1, <1>2


\* What a step may do to what is known of one event
Moves(e) ==
  /\ \/ born'[e] = born[e]
     \/ /\ born[e] = 0 /\ born'[e] > 0 /\ e \in stored'
        /\ \E q \in Procs : hand'[q][e] = "todo"
  /\ e \in stored' => e \in stored \/ (born[e] = 0 /\ born'[e] > 0)
  /\ \A q \in Procs : cur'[q] = e => cur[q] = e \/ (e \in stored /\ hand[q][e] = "todo")
  /\ \A s \in Steps(e) : effects'[e][s] # effects[e][s] => \E q \in Procs : cur[q] = e
  /\ Evaluated(e) => Evaluated(e)'
  /\ \/ row'[e] = row[e]
     \/ row[e] = "none" /\ row'[e] = "unprocessed" /\ \E q \in Procs : hand[q][e] = "todo"
     \/ row[e] = "unprocessed" /\ row'[e] = "processed" /\ Evaluated(e)
     \/ row[e] # "none" /\ row'[e] = "deleted"

\* Every step moves it so.
LEMMA EventMoves ==
  ASSUME IInv, [Next]_vars, NEW e \in Events
  PROVE  Moves(e)
<1> USE DEF IInv
<1>h. /\ hand \in [Procs -> [Events -> HandStates]] /\ task \in [Procs -> Tasks]
      /\ cur \in [Procs -> Events \cup {NoEvent}] /\ clock \in Nat
      /\ born \in [Events -> Nat] /\ row \in [Events -> RowStates] /\ e # NoEvent
  BY PipelineConstants DEF TypeOK, LoopTypes, DbTypes
<1>k. ASSUME UNCHANGED <<born, stored, row, effects>>,
             \A q \in Procs : cur'[q] = e => cur[q] = e \/ (e \in stored /\ hand[q][e] = "todo")
      PROVE  Moves(e)
  BY <1>k DEF Moves, Evaluated
<1>1. CASE UNCHANGED vars
  BY <1>1, <1>k DEF vars, loopVars, dbVars
<1>2. CASE Next
  <2>1. ASSUME NEW p \in Procs, NEW new \in SUBSET Events,
               NEW handler \in {"single", "bulk"}, Accept(p, new, handler)
        PROVE  Moves(e)
    BY <2>1, <1>h DEF Accept, Moves, Evaluated
  <2>2. ASSUME NEW p \in Procs, InsertPending(p)
        PROVE  Moves(e)
    <3>1. e \in Todo(p) => row[e] = "none" /\ hand[p][e] = "todo"
      BY <2>2 DEF InsertPending, HandlersAreApart, Todo, In
    <3> QED  BY <2>2, <3>1, <1>h DEF InsertPending, Moves, Evaluated
  <2>3. ASSUME NEW p \in Procs, InsertPendingFails(p) \/ EndTask(p) \/ RollbackBatch(p)
        PROVE  Moves(e)
    BY <2>3, <1>k DEF InsertPendingFails, EndTask, RollbackBatch, dbVars
  <2>4. ASSUME NEW p \in Procs, NEW f \in Events,
               PutNowait(p, f) \/ PutRefused(p, f) \/ RetryPut(p, f) \/ DropEvent(p, f)
        PROVE  Moves(e)
    BY <2>4, <1>k DEF PutNowait, PutRefused, RetryPut, DropEvent, dbVars, loopVars
  <2>5. ASSUME NEW p \in Procs, TakeFromQueue(p) \/ FetchBatch(p)
        PROVE  Moves(e)
    BY <2>5, <1>k DEF TakeFromQueue, FetchBatch, dbVars
  <2>6. ASSUME NEW p \in Procs, NEW f \in Events, StartEvaluation(p, f)
        PROVE  Moves(e)
    <3>1. \A q \in Procs : cur'[q] = e => cur[q] = e \/ (e \in stored /\ hand[q][e] = "todo")
      BY <2>6, <1>h DEF StartEvaluation, Todo, In
    <3> QED  BY <2>6, <3>1, <1>k DEF StartEvaluation, dbVars
  <2>7. ASSUME NEW p \in Procs, CommitStep(p)
        PROVE  Moves(e)
    <3>1. /\ UNCHANGED <<born, stored, row, cur>>
          /\ \A s \in Steps(e) : effects[e][s] > 0 => effects'[e][s] > 0
      BY <2>7, EffectsGrow DEF CommitStep, dbVars
    <3>2. \A s \in Steps(e) : effects'[e][s] # effects[e][s] => cur[p] = e
      BY <2>7, <1>h DEF CommitStep, TypeOK, EffectTypes
    <3> QED  BY <3>1, <3>2 DEF Moves, Evaluated
  <2>8. ASSUME NEW p \in Procs, FinishEvaluation(p) \/ RaiseStep(p) \/ FaultStep(p)
        PROVE  Moves(e)
    <3>1. \A q \in Procs : cur'[q] = e => cur[q] = e
      BY <2>8, <1>h DEF FinishEvaluation, RaiseStep, FaultStep, EndEvaluation
    <3> QED  BY <2>8, <3>1, <1>k DEF FinishEvaluation, RaiseStep, FaultStep, dbVars
  <2>9. ASSUME NEW p \in Procs, CommitBatch(p)
        PROVE  Moves(e)
    <3>1. /\ mode = "db" /\ task[p] = "worker"
          /\ row'[e] = IF hand[p][e] = "ok" THEN "processed" ELSE row[e]
          /\ hand[p][e] = "ok" => row[e] # "deleted"
          /\ UNCHANGED <<born, stored, effects, cur>>
      BY <2>9, <1>h DEF CommitBatch, CommitRows, BatchEvaluated, RowGone, In
    <3>2. hand[p][e] = "ok" => Evaluated(e) /\ row[e] \in {"unprocessed", "processed"}
      BY <3>1, <1>h DEF BatchIsJustified, RowStates
    <3> QED  BY <3>1, <3>2 DEF Moves, Evaluated
  <2>10. ASSUME NEW p \in Procs, Crash(p)
         PROVE  Moves(e)
    <3>1. \A q \in Procs : cur'[q] = e => cur[q] = e
      BY <2>10, <1>h DEF Crash
    <3> QED  BY <2>10, <3>1, <1>k DEF Crash, dbVars
  <2>11. CASE Prune
    BY <2>11 DEF Prune, loopVars, Moves, Evaluated
  <2> QED
    BY <1>2, <2>1, <2>2, <2>3, <2>4, <2>5, <2>6, <2>7, <2>8, <2>9, <2>10, <2>11, NextCases, Zenon
<1> QED  BY <1>1, <1>2

\* What is known of an event stays known of accepted events only.
LEMMA KnownStep ==
  ASSUME IInv, KnownAreBorn, [Next]_vars
  PROVE  KnownAreBorn'
<1> SUFFICES ASSUME NEW e \in Events, born'[e] = 0
             PROVE  /\ e \notin stored' /\ row'[e] = "none"
                    /\ \A p \in Procs : ~ Has(p, e)' /\ cur'[p] # e
                    /\ \A s \in Steps(e) : effects'[e][s] = 0
  BY DEF KnownAreBorn
<1>1. Moves(e)
  BY EventMoves
<1>2. born[e] = 0
  BY <1>1 DEF Moves
<1>3. /\ e \notin stored /\ row[e] = "none"
      /\ \A p \in Procs : ~ Has(p, e) /\ cur[p] # e
      /\ \A s \in Steps(e) : effects[e][s] = 0
  BY <1>2 DEF KnownAreBorn
<1>4. \A p \in Procs : ~ Has(p, e)'
  BY <1>2, <1>3, HasMoves
<1> QED  BY <1>1, <1>2, <1>3, <1>4 DEF Moves, Has


-----------------------------------------------------------------------------
(***************************************************************************)
(* The contract.                                                           *)
(***************************************************************************)
\* Held, in the terms of this module
LEMMA HeldMeans ==
  ASSUME NEW e \in Events
  PROVE  /\ Held(e) <=> row[e] = "unprocessed" \/ \E p \in Procs : Has(p, e) \/ cur[p] = e
         /\ Held(e)' <=> row'[e] = "unprocessed" \/ \E p \in Procs : Has(p, e)' \/ cur'[p] = e
  BY DEF Held, Has, Queued, Among

\* Who is not held is not held later, unless it is accepted; and what is not held is
\* not evaluated.
LEMMA NotHeldStays ==
  ASSUME IInv, KnownAreBorn, [Next]_vars, NEW e \in Events, born[e] > 0, ~ Held(e)
  PROVE  ~ Held(e)' /\ (Evaluated(e)' => Evaluated(e))
<1>1. Moves(e) /\ born[e] # 0
  BY EventMoves DEF IInv, TypeOK, DbTypes
<1>2. row[e] # "unprocessed" /\ \A p \in Procs : ~ Has(p, e) /\ cur[p] # e
  BY HeldMeans
<1>3. \A p \in Procs : ~ Has(p, e)'
  BY <1>1, <1>2, HasMoves
<1>4. \A p \in Procs : hand[p][e] # "todo"
  BY <1>2 DEF Has
<1>5. row'[e] # "unprocessed" /\ \A p \in Procs : cur'[p] # e
  BY <1>1, <1>2, <1>4 DEF Moves
<1>6. Evaluated(e)' => Evaluated(e)
  BY <1>1, <1>2 DEF Moves, Evaluated
<1> QED  BY <1>3, <1>5, <1>6, HeldMeans

\* Every step moves every event along its lifecycle.
LEMMA FateStep ==
  ASSUME IInv, KnownAreBorn, [Next]_vars, NEW e \in Events
  PROVE  Fate(e)' = Fate(e) \/ <<Fate(e), Fate(e)'>> \in Contract!Lifecycle
<1>1. Moves(e) /\ born[e] \in Nat /\ born'[e] \in Nat
  BY EventMoves, InvStep DEF IInv, TypeOK, DbTypes
<1>2. CASE born[e] = 0
  <2>1. /\ e \notin stored /\ row[e] = "none"
        /\ \A p \in Procs : ~ Has(p, e) /\ cur[p] # e
        /\ \A s \in Steps(e) : effects[e][s] = 0
    BY <1>2 DEF KnownAreBorn
  <2>2. ~ Evaluated(e)'
    <3>1. [kind |-> "index", by |-> NoDetector] \in Steps(e)
      BY DEF Steps
    <3> QED  BY <1>1, <2>1, <3>1 DEF Moves, Evaluated
  <2>3. CASE born'[e] = 0
    BY <1>2, <2>3 DEF Fate
  <2>4. CASE born'[e] # 0
    <3>1. e \in stored' /\ born'[e] > 0 /\ \E q \in Procs : hand'[q][e] = "todo"
      BY <1>1, <1>2, <2>4 DEF Moves
    <3>2. row'[e] = "none"
      BY <1>1, <2>1 DEF Moves, Has
    <3>3. Held(e)'
      BY <3>1 DEF Held
    <3>4. Fate(e) = "unseen" /\ Fate(e)' = "accepted"
      BY <1>2, <2>2, <2>4, <3>1, <3>2, <3>3 DEF Fate
    <3> QED  BY <3>4 DEF Contract!Lifecycle
  <2> QED  BY <2>3, <2>4
<1>3. CASE born[e] # 0
  <2>1. born[e] > 0 /\ born'[e] > 0
    BY <1>1, <1>3 DEF Moves
  <2>2. /\ Evaluated(e) => Evaluated(e)'
        /\ e \in stored' => e \in stored
        /\ row[e] = "unprocessed" => row'[e] = "unprocessed" \/ Evaluated(e) \/ e \notin stored'
    BY <1>1, <1>3, InvStep DEF Moves, IInv, RowsNeedEvents
  <2>3. ~ Held(e) => ~ Held(e)' /\ (Evaluated(e)' => Evaluated(e))
    BY <2>1, NotHeldStays
  <2>4. (row[e] = "unprocessed" => Held(e)) /\ (row'[e] = "unprocessed" => Held(e)')
    BY DEF Held
  <2>5. Fate(e) = IF Evaluated(e) THEN "evaluated" ELSE IF e \notin stored THEN "expired"
                  ELSE IF row[e] = "unprocessed" THEN "promised"
                  ELSE IF Held(e) THEN "accepted" ELSE "lost"
    BY <2>1 DEF Fate
  <2>6. Fate(e)' = IF Evaluated(e)' THEN "evaluated" ELSE IF e \notin stored' THEN "expired"
                   ELSE IF row'[e] = "unprocessed" THEN "promised"
                   ELSE IF Held(e)' THEN "accepted" ELSE "lost"
    BY <2>1 DEF Fate
  <2> QED  BY <2>2, <2>3, <2>4, <2>5, <2>6 DEF Contract!Lifecycle
<1> QED  BY <1>2, <1>3

\* At first nothing is known of any event.
LEMMA KnownInit == Init => KnownAreBorn
<1> SUFFICES ASSUME Init, NEW e \in Events
             PROVE  /\ e \notin stored /\ row[e] = "none"
                    /\ \A p \in Procs : ~ Has(p, e) /\ cur[p] # e
                    /\ \A s \in Steps(e) : effects[e][s] = 0
  BY DEF KnownAreBorn
<1>1. \A p \in Procs : hand[p][e] = "out" /\ waiting[p][e] = 0 /\ queue[p] = <<>> /\ cur[p] = NoEvent
  BY EmptyType DEF Init
<1>2. \A p \in Procs : ~ Has(p, e) /\ cur[p] # e
  BY <1>1, PipelineConstants DEF Has, Queued, Among
<1> QED  BY <1>2 DEF Init

\* The pipeline keeps the contract of DetectionContract in every mode: what has
\* a row is never lost, and what is lost is never evaluated, whatever crashes,
\* fails and is deleted.
THEOREM ContractKept == Spec => KeepsContract
<1>1. Init => Contract!Init
  <2> SUFFICES ASSUME Init  PROVE Contract!Init
    OBVIOUS
  <2>1. \A e \in Events : Fate(e) = "unseen"
    <3> SUFFICES ASSUME NEW e \in Events  PROVE Fate(e) = "unseen"
      OBVIOUS
    <3>1. born[e] = 0
      BY DEF Init
    <3> QED  BY <3>1 DEF Fate
  <2> QED  BY <2>1 DEF Contract!Init
<1>2. IInv /\ KnownAreBorn /\ [Next]_vars => [Contract!Next]_([e \in Events |-> Fate(e)])
  <2> SUFFICES ASSUME IInv, KnownAreBorn, [Next]_vars  PROVE Contract!Next
    OBVIOUS
  <2>1. \A e \in Events : Fate(e)' = Fate(e) \/ <<Fate(e), Fate(e)'>> \in Contract!Lifecycle
    BY FateStep
  <2>2. \A e \in Events : Fate(e)' \in Contract!Fates
    BY DEF Fate, Contract!Fates
  <2> QED  BY <2>1, <2>2 DEF Contract!Next
<1> QED  BY <1>1, <1>2, InvInit, InvStep, KnownInit, KnownStep, PTL DEF Spec, KeepsContract, Contract!Spec


-----------------------------------------------------------------------------
(***************************************************************************)
(* While nothing fails.                                                    *)
(***************************************************************************)
AllAreStored == \A e \in Events : born[e] > 0 => e \in stored

CalmInv == Calm => AllAreStored /\ NothingIsForgotten

\* What is calm was calm before, and nothing is deleted.
LEMMA CalmMoves ==
  ASSUME IInv, [Next]_vars
  PROVE  /\ overflow \subseteq overflow'
         /\ Calm' => /\ Calm /\ stored \subseteq stored' /\ UNCHANGED <<crashes, faults, prunes>>
<1> USE DEF IInv
<1>h. crashes \in Nat /\ faults \in Nat /\ prunes \in Nat
  BY PipelineConstants DEF TypeOK, CounterTypes
<1>k. ASSUME UNCHANGED <<crashes, faults, prunes>>, stored \subseteq stored', overflow \subseteq overflow'
      PROVE  /\ overflow \subseteq overflow'
             /\ Calm' => /\ Calm /\ stored \subseteq stored' /\ UNCHANGED <<crashes, faults, prunes>>
  BY <1>k DEF Calm
<1>n. ASSUME ~ Calm', overflow \subseteq overflow'
      PROVE  /\ overflow \subseteq overflow'
             /\ Calm' => /\ Calm /\ stored \subseteq stored' /\ UNCHANGED <<crashes, faults, prunes>>
  BY <1>n
<1>1. CASE UNCHANGED vars
  BY <1>1, <1>k DEF vars, dbVars, budgets, history
<1>2. CASE Next
  <2> DEFINE Goal == /\ overflow \subseteq overflow'
                     /\ Calm' => /\ Calm /\ stored \subseteq stored' /\ UNCHANGED <<crashes, faults, prunes>>
  <2> SUFFICES Goal
    OBVIOUS
  <2>1. ASSUME NEW p \in Procs, NEW new \in SUBSET Events,
               NEW handler \in {"single", "bulk"}, Accept(p, new, handler)
        PROVE  Goal
    BY <2>1, <1>k DEF Accept, history, budgets
  <2>2. ASSUME NEW p \in Procs, InsertPending(p) \/ TakeFromQueue(p) \/ FetchBatch(p) \/ CommitStep(p)
                                \/ FinishEvaluation(p) \/ RaiseStep(p) \/ EndTask(p) \/ CommitBatch(p)
        PROVE  Goal
    BY <2>2, <1>k DEF InsertPending, TakeFromQueue, FetchBatch, CommitStep, FinishEvaluation, RaiseStep,
       EndTask, CommitBatch, CommitRows, dbVars, history, budgets
  <2>3. ASSUME NEW p \in Procs, InsertPendingFails(p) \/ FaultStep(p) \/ RollbackBatch(p)
        PROVE  Goal
    <3>1. /\ UNCHANGED <<stored, overflow, crashes, prunes>>
          /\ faults' = faults \/ faults' = faults + 1
      BY <2>3 DEF InsertPendingFails, FaultStep, RollbackBatch, dbVars, history
    <3>2. faults' = faults + 1 => ~ Calm'
      BY <1>h DEF Calm
    <3> QED  BY <3>1, <3>2, <1>k, <1>n
  <2>4. ASSUME NEW p \in Procs, NEW e \in Events,
               PutNowait(p, e) \/ PutRefused(p, e) \/ RetryPut(p, e) \/ DropEvent(p, e)
               \/ StartEvaluation(p, e)
        PROVE  Goal
    BY <2>4, <1>k DEF PutNowait, PutRefused, RetryPut, DropEvent, StartEvaluation, dbVars, history, budgets
  <2>5. ASSUME NEW p \in Procs, Crash(p)
        PROVE  Goal
    BY <2>5, <1>h, <1>n DEF Crash, history, Calm
  <2>6. CASE Prune
    BY <2>6, <1>h, <1>n DEF Prune, history, Calm
  <2> QED
    BY <1>2, <2>1, <2>2, <2>3, <2>4, <2>5, <2>6, NextCases, Zenon
<1> QED  BY <1>1, <1>2

\* In calm, whoever has an event to evaluate keeps it, hands it on or evaluates it.
LEMMA HasKept ==
  ASSUME IInv, KnownAreBorn, AllAreStored, Calm', [Next]_vars,
         NEW q \in Procs, NEW e \in Events, e \notin Poisoned, Has(q, e)
  PROVE  Has(q, e)' \/ row'[e] = "unprocessed" \/ Evaluated(e)' \/ e \in overflow'
<1> USE DEF IInv
<1>q. QueueTypes
  BY DEF TypeOK
<1>h. /\ hand \in [Procs -> [Events -> HandStates]] /\ task \in [Procs -> Tasks]
      /\ cur \in [Procs -> Events \cup {NoEvent}]
      /\ waiting \in [Procs -> [Events -> 0 .. MaxQueueRetries]]
      /\ queue \in [Procs -> Seq(Events)] /\ LoopTypes
  BY DEF TypeOK, LoopTypes, QueueTypes
<1>s. /\ UNCHANGED <<crashes, faults, prunes>> /\ faults \in Nat /\ crashes \in Nat /\ prunes \in Nat
      /\ Moves(e) /\ born[e] \in Nat
      /\ \A p \in Procs : Todo(p) \subseteq stored /\ (cur[p] # NoEvent => cur[p] \in stored)
      /\ \A p \in Procs : task[p] = "idle" => \A f \in Events : hand[p][f] = "out"
  <2>1. \A f \in Events : born[f] # 0 => f \in stored
    BY DEF AllAreStored, TypeOK, DbTypes
  <2>2. \A p \in Procs : \A f \in Events : Has(p, f) \/ cur[p] = f => born[f] # 0
    BY DEF KnownAreBorn
  <2>3. \A p \in Procs : Todo(p) \subseteq stored /\ (cur[p] # NoEvent => cur[p] \in stored)
    BY <2>1, <2>2, <1>h DEF Todo, In, Has
  <2> QED  BY <2>3, CalmMoves, EventMoves, EmptyType, PipelineConstants DEF TypeOK, CounterTypes, DbTypes, LoopIsConsistent
<1>k. ASSUME UNCHANGED <<queue, waiting>>, hand[q][e] = "todo" => hand'[q][e] = "todo"
      PROVE  Has(q, e)'
  BY <1>k DEF Has, Queued
<1>1. CASE UNCHANGED vars
  BY <1>1, <1>k DEF vars, loopVars
<1>2. CASE Next
  <2> DEFINE Goal == Has(q, e)' \/ row'[e] = "unprocessed" \/ Evaluated(e)' \/ e \in overflow'
  <2> SUFFICES Goal
    OBVIOUS
  <2>1. ASSUME NEW p \in Procs, NEW new \in SUBSET Events,
               NEW handler \in {"single", "bulk"}, Accept(p, new, handler)
        PROVE  Goal
    <3>1. hand[q][e] = "todo" => hand'[q][e] = "todo"
      BY <2>1, <1>h, <1>s DEF Accept
    <3> QED  BY <2>1, <3>1, <1>k DEF Accept
  <2>2. ASSUME NEW p \in Procs, InsertPending(p)
        PROVE  Goal
    <3>1. CASE q = p /\ hand[q][e] = "todo"
      BY <2>2, <3>1 DEF InsertPending, Todo, In
    <3>2. CASE ~ (q = p /\ hand[q][e] = "todo")
      <4>1. hand[q][e] = "todo" => hand'[q][e] = "todo"
        BY <2>2, <3>2, <1>h DEF InsertPending, Release
      <4> QED  BY <2>2, <4>1, <1>k DEF InsertPending
    <3> QED  BY <3>1, <3>2
  <2>3. ASSUME NEW p \in Procs, InsertPendingFails(p) \/ FaultStep(p)
        PROVE  Goal
    BY <2>3, <1>s DEF InsertPendingFails, FaultStep
  <2>4. ASSUME NEW p \in Procs, NEW f \in Events, PutNowait(p, f)
        PROVE  Goal
    <3>1. waiting' = waiting /\ queue' = [queue EXCEPT ![p] = Append(queue[p], f)]
      BY <2>4 DEF PutNowait
    <3>2. Queued(q, e)' <=> Queued(q, e) \/ (q = p /\ e = f)
      BY <3>1, <1>q, QueuedPut
    <3>3. hand[q][e] = "todo" => hand'[q][e] = "todo" \/ (q = p /\ e = f)
      BY <2>4, <1>h, SettleFacts DEF PutNowait, Todo, In
    <3> QED  BY <3>1, <3>2, <3>3 DEF Has
  <2>5. ASSUME NEW p \in Procs, NEW f \in Events, PutRefused(p, f)
        PROVE  Goal
    <3>1. /\ queue' = queue /\ waiting[p][f] \in Nat
          /\ hand[q][e] = "todo" => hand'[q][e] = "todo" \/ (q = p /\ e = f)
      BY <2>5, <1>h, SettleFacts DEF PutRefused, Todo, In
    <3>2. \/ waiting' = waiting /\ f \in overflow'
          \/ waiting' = [waiting EXCEPT ![p][f] = 1]
      BY <2>5 DEF PutRefused
    <3>3. CASE waiting' = waiting /\ f \in overflow'
      BY <3>1, <3>3 DEF Has, Queued
    <3>4. CASE waiting' = [waiting EXCEPT ![p][f] = 1]
      <4>1. (waiting[q][e] > 0 \/ (q = p /\ e = f)) => waiting'[q][e] > 0
        BY <3>4, <1>h
      <4> QED  BY <3>1, <4>1 DEF Has, Queued
    <3> QED  BY <3>2, <3>3, <3>4
  <2>6. ASSUME NEW p \in Procs, TakeFromQueue(p)
        PROVE  Goal
    <3>1. /\ queue[p] # <<>> /\ queue' = [queue EXCEPT ![p] = Tail(queue[p])] /\ waiting' = waiting
          /\ hand[q][e] = "todo" => hand'[q][e] = "todo"
          /\ q = p /\ e = Head(queue[p]) => hand'[q][e] = "todo"
      BY <2>6, <1>h, <1>s, EmptyType DEF TakeFromQueue
    <3>2. Queued(q, e) => Queued(q, e)' \/ (q = p /\ e = Head(queue[p]))
      BY <3>1, <1>h, <1>q, QueuedGet
    <3> QED  BY <3>1, <3>2 DEF Has
  <2>7. ASSUME NEW p \in Procs, FetchBatch(p)
        PROVE  Goal
    <3>1. hand[q][e] = "todo" => hand'[q][e] = "todo"
      BY <2>7, <1>h, <1>s DEF FetchBatch
    <3> QED  BY <2>7, <3>1, <1>k DEF FetchBatch
  <2>8. ASSUME NEW p \in Procs, NEW f \in Events, StartEvaluation(p, f)
        PROVE  Goal
    <3>1. f \in stored
      BY <2>8, <1>s DEF StartEvaluation
    <3> QED  BY <2>8, <3>1, <1>k DEF StartEvaluation
  <2>9. ASSUME NEW p \in Procs, CommitStep(p)
        PROVE  Goal
    BY <2>9, <1>k DEF CommitStep
  <2>10. ASSUME NEW p \in Procs, FinishEvaluation(p) \/ RaiseStep(p)
         PROVE  Goal
    <3>1. PICK outcome \in {"ok", "failed"} :
            hand' = [hand EXCEPT ![p][cur[p]] = outcome] /\ UNCHANGED <<queue, waiting>>
      BY <2>10 DEF FinishEvaluation, RaiseStep, EndEvaluation
    <3>2. CASE cur[p] = e
      <4>1. CASE FinishEvaluation(p)
        BY <4>1, <3>2, <1>s, PipelineConstants DEF FinishEvaluation, DoneIsCommitted, Evaluated
      <4>2. CASE RaiseStep(p)
        <5>1. PICK s \in Steps(e) : Refused(e, s)
          BY <4>2, <3>2 DEF RaiseStep, NextSteps
        <5>2. e \in stored /\ ~ Stale(e, s)
          BY <2>10, <3>2, <1>s DEF Stale, FinishEvaluation, RaiseStep
        <5> QED  BY <5>1, <5>2 DEF Refused, Poisoned
      <4> QED  BY <2>10, <4>1, <4>2
    <3>3. CASE cur[p] # e
      <4>1. hand[q][e] = "todo" => hand'[q][e] = "todo"
        BY <3>1, <3>3, <1>h
      <4> QED  BY <3>1, <4>1, <1>k
    <3> QED  BY <3>2, <3>3
  <2>11. ASSUME NEW p \in Procs, EndTask(p) \/ CommitBatch(p) \/ RollbackBatch(p)
         PROVE  Goal
    <3>1. /\ hand' = [hand EXCEPT ![p] = Empty] /\ UNCHANGED <<queue, waiting>> /\ Todo(p) = {}
      BY <2>11 DEF EndTask, CommitBatch, CommitRows, RollbackBatch, BatchEvaluated, Release
    <3>2. hand[q][e] = "todo" => hand'[q][e] = "todo"
      BY <3>1, <1>h DEF Todo, In
    <3> QED  BY <3>1, <3>2, <1>k
  <2>12. ASSUME NEW p \in Procs, NEW f \in Events, RetryPut(p, f)
         PROVE  Goal
    <3>1. hand' = hand
      BY <2>12 DEF RetryPut, loopVars
    <3>2. CASE HasRoom(p)
      <4>1. queue' = [queue EXCEPT ![p] = Append(queue[p], f)] /\ waiting' = [waiting EXCEPT ![p][f] = 0]
        BY <2>12, <3>2 DEF RetryPut
      <4>2. Queued(q, e)' <=> Queued(q, e) \/ (q = p /\ e = f)
        BY <4>1, <1>q, QueuedPut
      <4>3. waiting[q][e] > 0 => waiting'[q][e] > 0 \/ (q = p /\ e = f)
        BY <4>1, <1>h
      <4> QED  BY <3>1, <4>2, <4>3 DEF Has
    <3>3. CASE ~ HasRoom(p)
      <4>1. queue' = queue /\ waiting' = [waiting EXCEPT ![p][f] = @ + 1]
        BY <2>12, <3>3 DEF RetryPut
      <4>2. waiting[q][e] > 0 => waiting'[q][e] > 0
        BY <4>1, <1>h
      <4> QED  BY <3>1, <4>1, <4>2 DEF Has, Queued
    <3> QED  BY <3>2, <3>3
  <2>13. ASSUME NEW p \in Procs, NEW f \in Events, DropEvent(p, f)
         PROVE  Goal
    <3>1. /\ hand' = hand /\ queue' = queue /\ f \in overflow'
          /\ waiting[q][e] > 0 => waiting'[q][e] > 0 \/ e = f
      BY <2>13, <1>h DEF DropEvent, loopVars
    <3> QED  BY <3>1 DEF Has, Queued
  <2>14. ASSUME NEW p \in Procs, Crash(p)
         PROVE  Goal
    BY <2>14, <1>s DEF Crash
  <2>15. CASE Prune
    BY <2>15, <1>s DEF Prune
  <2> QED
    BY <1>2, <2>1, <2>2, <2>3, <2>4, <2>5, <2>6, <2>7, <2>8, <2>9, <2>10, <2>11, <2>12, <2>13, <2>14,
       <2>15, NextCases, Zenon
<1> QED  BY <1>1, <1>2

\* Every step forgets nothing.
LEMMA CalmStep ==
  ASSUME IInv, KnownAreBorn, CalmInv, [Next]_vars
  PROVE  CalmInv'
<1> SUFFICES ASSUME Calm'  PROVE AllAreStored' /\ NothingIsForgotten'
  BY DEF CalmInv
<1>1. Calm /\ stored \subseteq stored' /\ overflow \subseteq overflow' /\ AllAreStored /\ NothingIsForgotten
  BY CalmMoves DEF CalmInv
<1>2. AllAreStored'
  <2> SUFFICES ASSUME NEW e \in Events, born'[e] > 0  PROVE e \in stored'
    BY DEF AllAreStored
  <2> QED  BY <1>1, EventMoves DEF Moves, AllAreStored
<1>3. NothingIsForgotten'
  <2> SUFFICES ASSUME NEW e \in Events, e \in stored', e \notin Poisoned
               PROVE  Evaluated(e)' \/ Held(e)' \/ e \in overflow'
    <3>1. stored' \subseteq Events
      BY InvStep DEF IInv, TypeOK, DbTypes
    <3> QED  BY <3>1 DEF NothingIsForgotten
  <2>1. Moves(e)
    BY EventMoves
  <2>2. CASE e \notin stored
    BY <2>1, <2>2 DEF Moves, Held
  <2>3. CASE e \in stored
    <3>1. Evaluated(e) \/ Held(e) \/ e \in overflow
      BY <1>1, <2>3 DEF NothingIsForgotten
    <3>2. CASE Evaluated(e) \/ e \in overflow
      BY <1>1, <2>1, <3>2 DEF Moves
    <3>3. CASE row[e] = "unprocessed"
      <4>1. row'[e] # "deleted"
        BY InvStep DEF IInv, RowsNeedEvents
      <4>2. row'[e] = "unprocessed" \/ Evaluated(e)'
        BY <2>1, <3>3, <4>1 DEF Moves
      <4> QED  BY <4>2 DEF Held
    <3>4. ASSUME NEW q \in Procs, Has(q, e) \/ cur[q] = e
          PROVE  Evaluated(e)' \/ Held(e)' \/ e \in overflow'
      <4>1. Has(q, e)
        BY <3>4, PipelineConstants DEF IInv, LoopIsConsistent, Has
      <4> QED  BY <4>1, <1>1, HasKept, HeldMeans
    <3> QED  BY <3>1, <3>2, <3>3, <3>4, HeldMeans
  <2> QED  BY <2>2, <2>3
<1> QED  BY <1>2, <1>3

\* No hand-over forgets an event: while nothing fails, in every mode, an accepted
\* event that can be evaluated has been, waits somewhere, or met a full queue
\* (ingest_event, ingest_network_bulk, process_event_queue, process_db_event_queue).
THEOREM NothingForgotten == Spec => []NothingIsForgotten
<1>1. Init => CalmInv
  BY DEF Init, CalmInv, AllAreStored, NothingIsForgotten
<1>2. CalmInv => NothingIsForgotten
  BY DEF CalmInv, NothingIsForgotten
<1> QED  BY <1>1, <1>2, InvInit, InvStep, KnownInit, KnownStep, CalmStep, PTL DEF Spec

-----------------------------------------------------------------------------
(***************************************************************************)
(* Links and their targets.                                                *)
(***************************************************************************)
\* An evaluation commits in program order.
InProgramOrder ==
  \A p \in Procs : cur[p] # NoEvent =>
    \A s \in done[p] : \A t \in Steps(cur[p]) : Precedes(t, s) => t \in done[p]

\* The evaluations of e that have written t and not yet s
Ahead(e, s, t) == {p \in Procs : cur[p] = e /\ t \in done[p] /\ s \notin done[p]}

\* What points to t has been written as often as t, but for the evaluations that
\* are between the two.
LinksFollow ==
  \A e \in Events : \A s, t \in Steps(e) : DependsOn(s, t) =>
    \/ effects[e][s] + Cardinality(Ahead(e, s, t)) <= effects[e][t]
    \/ effects[e][t] = CountCap

\* What a step refers to comes before it.
LEMMA TargetsComeFirst ==
  ASSUME NEW s, NEW t, DependsOn(s, t)
  PROVE  Precedes(t, s) /\ s # t /\ s.kind # "severity" /\ t.kind # "severity"
<1>1. /\ Phase["alert"] = 5 /\ Phase["incident"] = 5 /\ Phase["item_alert"] = 5
      /\ Phase["item_event"] = 5 /\ Phase["notify"] = 5
  BY DEF Phase
<1>2. /\ Stage["alert"] = 1 /\ Stage["incident"] = 2 /\ Stage["item_alert"] = 3
      /\ Stage["item_event"] = 4 /\ Stage["notify"] = 5
  BY DEF Stage
<1>3. s.by = t.by /\ \/ s.kind = "incident" /\ t.kind = "alert"
                     \/ s.kind = "item_alert" /\ t.kind = "incident"
                     \/ s.kind = "item_alert" /\ t.kind = "alert"
                     \/ s.kind = "item_event" /\ t.kind = "incident"
                     \/ s.kind = "notify" /\ t.kind = "incident"
  BY DEF DependsOn, References
<1>4. Phase[s.kind] = 5 /\ Phase[t.kind] = 5 /\ Stage[t.kind] < Stage[s.kind]
  BY <1>1, <1>2, <1>3
<1> QED  BY <1>3, <1>4 DEF Precedes

\* Every evaluation goes on in program order.
LEMMA OrderStep ==
  ASSUME IInv, InProgramOrder, [Next]_vars
  PROVE  InProgramOrder'
<1> SUFFICES ASSUME NEW p \in Procs, cur'[p] # NoEvent, NEW s \in done'[p], NEW t \in Steps(cur'[p]),
                    Precedes(t, s)
             PROVE  t \in done'[p]
  BY DEF InProgramOrder
<1>h. /\ cur \in [Procs -> Events \cup {NoEvent}] /\ DOMAIN done = Procs
  BY DEF IInv, TypeOK, LoopTypes
<1>k. ASSUME cur'[p] = cur[p], done'[p] = done[p]
      PROVE  t \in done'[p]
  BY <1>k DEF InProgramOrder
<1>1. CASE UNCHANGED <<cur, done>>
  BY <1>1, <1>k
<1>2. ASSUME NEW q \in Procs, NEW f \in Events, StartEvaluation(q, f)
      PROVE  t \in done'[p]
  <2>1. CASE p = q /\ f \in stored
    BY <1>2, <2>1, <1>h DEF StartEvaluation
  <2>2. CASE ~ (p = q /\ f \in stored)
    BY <1>2, <2>2, <1>h, <1>k DEF StartEvaluation
  <2> QED  BY <2>1, <2>2
<1>3. ASSUME NEW q \in Procs, CommitStep(q)
      PROVE  t \in done'[p]
  <2>1. PICK x \in NextSteps(cur[q], done[q]) : done' = [done EXCEPT ![q] = done[q] \cup {x}]
    BY <1>3 DEF CommitStep
  <2>2. cur' = cur
    BY <1>3 DEF CommitStep
  <2>3. CASE p = q
    <3>1. done'[p] = done[p] \cup {x} /\ cur'[p] = cur[p]
      BY <2>1, <2>2, <2>3, <1>h
    <3>2. CASE s \in done[p]
      BY <2>2, <3>1, <3>2 DEF InProgramOrder
    <3>3. CASE s = x
      BY <2>1, <2>2, <2>3, <3>1, <3>3 DEF NextSteps
    <3> QED  BY <3>1, <3>2, <3>3
  <2>4. CASE p # q
    BY <2>1, <2>2, <2>4, <1>h, <1>k
  <2> QED  BY <2>3, <2>4
<1>4. ASSUME NEW q \in Procs, cur' = [cur EXCEPT ![q] = NoEvent] /\ done' = [done EXCEPT ![q] = {}]
      PROVE  t \in done'[p]
  BY <1>4, <1>h, <1>k
<1>5. CASE UNCHANGED vars
  BY <1>5, <1>1 DEF vars, loopVars
<1>6. CASE Next
  <2>1. ASSUME NEW q \in Procs, FinishEvaluation(q) \/ RaiseStep(q) \/ FaultStep(q) \/ Crash(q)
        PROVE  t \in done'[p]
    BY <2>1, <1>4 DEF FinishEvaluation, RaiseStep, FaultStep, EndEvaluation, Crash
  <2>2. CASE Prune
    BY <2>2, <1>1 DEF Prune, loopVars
  <2> QED
    BY <1>1, <1>2, <1>3, <1>6, <2>1, <2>2, NextCases DEF Accept, InsertPending, InsertPendingFails,
       PutNowait, PutRefused, TakeFromQueue, FetchBatch, EndTask, CommitBatch, CommitRows,
       RollbackBatch, RetryPut, DropEvent, loopVars
<1> QED  BY <1>5, <1>6

\* What is counted, bumped: the sum of one side does not outgrow the other.
LEMMA BumpKeepsOrder ==
  ASSUME NEW a \in 0 .. CountCap, NEW b \in 0 .. CountCap, NEW n \in Nat,
         a + n <= b \/ b = CountCap
  PROVE  /\ n > 0 => Bump(a) + (n - 1) <= b \/ b = CountCap
         /\ a + (n + 1) <= Bump(b) \/ Bump(b) = CountCap
  BY PipelineConstants DEF Bump

\* With fewer ahead the order holds all the more.
LEMMA FewerAhead ==
  ASSUME NEW a \in Nat, NEW b \in Nat, NEW n \in Nat, NEW m \in Nat, m <= n,
         a + n <= b \/ b = CountCap
  PROVE  a + m <= b \/ b = CountCap
  OBVIOUS

\* There are finitely many processes.
LEMMA AheadIsFinite ==
  \A e, s, t : IsFiniteSet(Ahead(e, s, t)) /\ Cardinality(Ahead(e, s, t)) \in Nat
<1> SUFFICES ASSUME NEW e, NEW s, NEW t
             PROVE  IsFiniteSet(Ahead(e, s, t)) /\ Cardinality(Ahead(e, s, t)) \in Nat
  OBVIOUS
<1>1. Ahead(e, s, t) \subseteq Procs
  BY DEF Ahead
<1>2. IsFiniteSet(Ahead(e, s, t))
  BY <1>1, PipelineConstants, FS_Subset
<1> QED  BY <1>2, FS_CardinalityType

\* A commit of an evaluation keeps the links behind their targets.
LEMMA LinkCommitted ==
  ASSUME IInv, InProgramOrder, LinksFollow, NEW p \in Procs, CommitStep(p),
         NEW e \in Events, NEW s \in Steps(e), NEW t \in Steps(e), DependsOn(s, t)
  PROVE  \/ effects'[e][s] + Cardinality(Ahead(e, s, t)') <= effects'[e][t]
         \/ effects'[e][t] = CountCap
<1> DEFINE A == Ahead(e, s, t)
           B == Ahead(e, s, t)'
           a == effects[e][s]
           b == effects[e][t]
<1>h. /\ cur \in [Procs -> Events \cup {NoEvent}] /\ DOMAIN done = Procs /\ DOMAIN effects = Events
      /\ \A f \in Events : effects[f] \in [Steps(f) -> 0 .. CountCap]
  BY DEF IInv, TypeOK, LoopTypes, EffectTypes
<1>1. PICK x \in NextSteps(cur[p], done[p]) :
        /\ effects' = [effects EXCEPT ![cur[p]][x] = IF x.kind = "severity" THEN 1 ELSE Bump(@)]
        /\ done' = [done EXCEPT ![p] = done[p] \cup {x}]
  BY DEF CommitStep
<1>2. cur' = cur /\ cur[p] \in Events /\ x \in Steps(cur[p]) /\ x \notin done[p]
  BY <1>1, <1>h DEF CommitStep, NextSteps
<1>3. /\ a \in 0 .. CountCap /\ b \in 0 .. CountCap
      /\ a + Cardinality(A) <= b \/ b = CountCap
  BY <1>h DEF LinksFollow
<1>4. IsFiniteSet(A) /\ Cardinality(A) \in Nat
  BY AheadIsFinite
<1>5. Precedes(t, s) /\ s # t /\ s.kind # "severity" /\ t.kind # "severity"
  BY TargetsComeFirst
<1>6. B = {q \in Procs : cur[q] = e /\ t \in done'[q] /\ s \notin done'[q]}
  BY <1>2 DEF Ahead
<1>7. done'[p] = done[p] \cup {x} /\ \A q \in Procs \ {p} : done'[q] = done[q]
  BY <1>1, <1>h
<1>8. CASE cur[p] = e /\ x = s
  <2>1. t \in done[p]
    BY <1>1, <1>5, <1>8 DEF NextSteps
  <2>2. p \in A /\ B = A \ {p}
    BY <1>2, <1>6, <1>7, <1>8, <2>1 DEF Ahead
  <2>3. effects'[e][s] = Bump(a) /\ effects'[e][t] = b
    BY <1>1, <1>5, <1>8, <1>h
  <2>4. Cardinality(B) = Cardinality(A) - 1 /\ Cardinality(A) > 0
    <3> HIDE DEF A, B
    <3>1. IsFiniteSet(A \ {p}) /\ Cardinality(A \ {p}) = Cardinality(A) - 1
      BY <1>4, <2>2, FS_RemoveElement
    <3>2. Cardinality(B) \in Nat
      BY <2>2, <3>1, FS_CardinalityType
    <3> QED  BY <1>4, <2>2, <3>1, <3>2
  <2> HIDE DEF A, B, a, b
  <2>5. Bump(a) + (Cardinality(A) - 1) <= b \/ b = CountCap
    BY <1>3, <1>4, <2>4, BumpKeepsOrder
  <2> QED  BY <2>3, <2>4, <2>5 DEF B
<1>9. CASE cur[p] = e /\ x = t
  <2>1. s \notin done[p]
    BY <1>2, <1>5, <1>9, PipelineConstants DEF InProgramOrder
  <2>2. p \notin A /\ B = A \cup {p}
    BY <1>2, <1>5, <1>6, <1>7, <1>9, <2>1 DEF Ahead
  <2>3. effects'[e][s] = a /\ effects'[e][t] = Bump(b)
    BY <1>1, <1>5, <1>9, <1>h
  <2>4. Cardinality(B) = Cardinality(A) + 1
    <3> HIDE DEF A, B
    <3> QED  BY <1>4, <2>2, FS_AddElement
  <2> HIDE DEF A, B, a, b
  <2>5. a + (Cardinality(A) + 1) <= Bump(b) \/ Bump(b) = CountCap
    BY <1>3, <1>4, BumpKeepsOrder
  <2> QED  BY <2>3, <2>4, <2>5 DEF B
<1>10. CASE cur[p] # e \/ (x # s /\ x # t)
  <2>1. B = A
    BY <1>2, <1>6, <1>7, <1>10 DEF Ahead
  <2>2. effects'[e][s] = a /\ effects'[e][t] = b
    BY <1>1, <1>2, <1>10, <1>h
  <2> QED  BY <1>3, <2>1, <2>2
<1> QED  BY <1>8, <1>9, <1>10

\* So does every other step.
LEMMA LinksStep ==
  ASSUME IInv, InProgramOrder, LinksFollow, [Next]_vars
  PROVE  LinksFollow'
<1> SUFFICES ASSUME NEW e \in Events, NEW s \in Steps(e), NEW t \in Steps(e), DependsOn(s, t)
             PROVE  \/ effects'[e][s] + Cardinality(Ahead(e, s, t)') <= effects'[e][t]
                    \/ effects'[e][t] = CountCap
  BY DEF LinksFollow
<1> DEFINE Goal == \/ effects'[e][s] + Cardinality(Ahead(e, s, t)') <= effects'[e][t]
                   \/ effects'[e][t] = CountCap
<1> SUFFICES Goal
  OBVIOUS
<1>h. /\ cur \in [Procs -> Events \cup {NoEvent}] /\ DOMAIN done = Procs
      /\ effects[e][s] \in Nat /\ effects[e][t] \in Nat
  BY DEF IInv, TypeOK, LoopTypes, EffectTypes
<1>k. ASSUME effects' = effects,
             \A q \in Procs : cur'[q] = e /\ t \in done'[q] => cur[q] = e /\ done'[q] = done[q]
      PROVE  Goal
  <2>1. Ahead(e, s, t)' \subseteq Ahead(e, s, t)
    BY <1>k DEF Ahead
  <2>2. /\ Cardinality(Ahead(e, s, t)') <= Cardinality(Ahead(e, s, t))
        /\ Cardinality(Ahead(e, s, t)') \in Nat /\ Cardinality(Ahead(e, s, t)) \in Nat
    BY <2>1, AheadIsFinite, FS_Subset, FS_CardinalityType
  <2>3. effects[e][s] + Cardinality(Ahead(e, s, t)) <= effects[e][t] \/ effects[e][t] = CountCap
    BY DEF LinksFollow
  <2>4. effects[e][s] + Cardinality(Ahead(e, s, t)') <= effects[e][t] \/ effects[e][t] = CountCap
    BY <1>h, <2>2, <2>3, FewerAhead
  <2> QED  BY <1>k, <2>4
<1>1. CASE UNCHANGED <<cur, done, effects>>
  BY <1>1, <1>k
<1>2. ASSUME NEW p \in Procs, NEW f \in Events, StartEvaluation(p, f)
      PROVE  Goal
  <2>1. effects' = effects /\ \A q \in Procs \ {p} : cur'[q] = cur[q] /\ done'[q] = done[q]
    BY <1>2, <1>h DEF StartEvaluation
  <2>2. done'[p] = {} \/ (cur'[p] = cur[p] /\ done'[p] = done[p])
    BY <1>2, <1>h DEF StartEvaluation
  <2> QED  BY <2>1, <2>2, <1>k
<1>3. ASSUME NEW p \in Procs, CommitStep(p)
      PROVE  Goal
  BY <1>3, LinkCommitted
<1>4. ASSUME NEW p \in Procs, FinishEvaluation(p) \/ RaiseStep(p) \/ FaultStep(p) \/ Crash(p)
      PROVE  Goal
  <2>1. cur' = [cur EXCEPT ![p] = NoEvent] /\ done' = [done EXCEPT ![p] = {}] /\ effects' = effects
    BY <1>4 DEF FinishEvaluation, RaiseStep, FaultStep, EndEvaluation, Crash
  <2>2. \A q \in Procs : t \in done'[q] => cur'[q] = cur[q] /\ done'[q] = done[q]
    BY <2>1, <1>h
  <2> QED  BY <2>1, <2>2, <1>k
<1>5. CASE UNCHANGED vars
  BY <1>5, <1>1 DEF vars, loopVars
<1>6. CASE Next
  <2>1. \/ UNCHANGED <<cur, done, effects>>
        \/ \E p \in Procs : \/ \E f \in Events : StartEvaluation(p, f)
                           \/ CommitStep(p)
                           \/ FinishEvaluation(p) \/ RaiseStep(p) \/ FaultStep(p) \/ Crash(p)
    BY <1>6, NextCases DEF Accept, InsertPending, InsertPendingFails, PutNowait, PutRefused,
       TakeFromQueue, FetchBatch, EndTask, CommitBatch, CommitRows, RollbackBatch, RetryPut, DropEvent,
       Prune, loopVars
  <2> HIDE DEF Goal
  <2> QED  BY <1>1, <1>2, <1>3, <1>4, <2>1
<1> QED  BY <1>5, <1>6

\* Every link written has something to point to: an incident its alert, an item
\* its incident, a message its incident (_process_event_id), however many
\* processes evaluate the event and wherever their evaluations break off.
THEOREM LinksCorrect == Spec => []LinksHaveTargets
<1>1. Init => InProgramOrder /\ LinksFollow
  <2> SUFFICES ASSUME Init  PROVE InProgramOrder /\ LinksFollow
    OBVIOUS
  <2>1. \A p \in Procs : cur[p] = NoEvent
    BY DEF Init
  <2>2. ASSUME NEW e \in Events, NEW s \in Steps(e), NEW t \in Steps(e)
        PROVE  effects[e][s] + Cardinality(Ahead(e, s, t)) <= effects[e][t]
    <3>1. Ahead(e, s, t) = {}
      BY <2>1, PipelineConstants DEF Ahead
    <3>2. effects[e][s] = 0 /\ effects[e][t] = 0
      BY DEF Init
    <3>3. Cardinality(Ahead(e, s, t)) = 0
      BY <3>1, FS_EmptySet
    <3> QED  BY <3>2, <3>3
  <2> QED  BY <2>1, <2>2 DEF InProgramOrder, LinksFollow
<1>2. IInv /\ LinksFollow => LinksHaveTargets
  <2> SUFFICES ASSUME IInv, LinksFollow, NEW e \in Events, NEW s \in Steps(e), NEW t \in Steps(e),
                      DependsOn(s, t)
               PROVE  effects[e][s] <= effects[e][t]
    BY DEF LinksHaveTargets
  <2>1. effects[e][s] \in 0 .. CountCap /\ effects[e][t] \in 0 .. CountCap /\ CountCap \in Nat
    BY PipelineConstants DEF IInv, TypeOK, EffectTypes
  <2>2. effects[e][s] + Cardinality(Ahead(e, s, t)) <= effects[e][t] \/ effects[e][t] = CountCap
    BY DEF LinksFollow
  <2>3. Cardinality(Ahead(e, s, t)) \in Nat
    BY AheadIsFinite
  <2> QED  BY <2>1, <2>2, <2>3
<1> QED  BY <1>1, <1>2, InvInit, InvStep, OrderStep, LinksStep, PTL DEF Spec

-----------------------------------------------------------------------------
(***************************************************************************)
(* Outside mode db an event is in one place at a time.                     *)
(***************************************************************************)
Distinct(s) == \A i, j \in DOMAIN s : s[i] = s[j] => i = j

\* At most one of the places of p has e.
OneOf(p, e) ==
  /\ hand[p][e] = "todo" => waiting[p][e] = 0 /\ ~ Queued(p, e)
  /\ waiting[p][e] > 0 => ~ Queued(p, e)

\* Where an event is, without the rows
OnePlace ==
  mode # "db" =>
    /\ \A e \in Events : row[e] = "none"
    /\ \A p \in Procs : Distinct(queue[p]) /\ \A e \in Events : OneOf(p, e)
    /\ \A p, q \in Procs : \A e \in Events : Has(p, e) /\ Has(q, e) => p = q

\* What is to be evaluated has no effects yet, and a running evaluation has had
\* those of the steps it has made.
EffectsFollow ==
  mode # "db" =>
    /\ \A p \in Procs : \A e \in Events : Has(p, e) /\ cur[p] # e => \A s \in Steps(e) : effects[e][s] = 0
    /\ \A p \in Procs : \A e \in Events : cur[p] = e =>
         \A s \in Steps(e) : effects[e][s] = IF s \in done[p] THEN 1 ELSE 0

\* A queue without repetitions, when another element is put to its end
LEMMA DistinctAppend ==
  ASSUME NEW S, NEW q \in Seq(S), NEW x \in S, NEW r, r = Append(q, x), Distinct(q), ~ Among(q, x)
  PROVE  Distinct(r)
<1>1. /\ r[Len(q) + 1] = x /\ Len(q) \in Nat /\ \A i \in 1 .. Len(q) : r[i] = q[i]
      /\ DOMAIN r = 1 .. Len(q) + 1 /\ DOMAIN q = 1 .. Len(q)
  OBVIOUS
<1>2. \A i \in DOMAIN r : i = Len(q) + 1 \/ i \in DOMAIN q
  BY <1>1
<1>3. \A i \in DOMAIN q : r[i] = q[i] /\ q[i] # x
  BY <1>1 DEF Among
<1> SUFFICES ASSUME NEW i \in DOMAIN r, NEW j \in DOMAIN r, r[i] = r[j]  PROVE i = j
  BY DEF Distinct
<1>4. CASE i \in DOMAIN q /\ j \in DOMAIN q
  BY <1>3, <1>4 DEF Distinct
<1>5. CASE i = Len(q) + 1 \/ j = Len(q) + 1
  BY <1>1, <1>2, <1>3, <1>5
<1> QED  BY <1>2, <1>4, <1>5

\* and when the first is taken
LEMMA DistinctTail ==
  ASSUME NEW S, NEW q \in Seq(S), q # <<>>, NEW r, r = Tail(q), Distinct(q)
  PROVE  Distinct(r) /\ ~ Among(r, Head(q))
<1>1. /\ Len(r) = Len(q) - 1 /\ Head(q) = q[1] /\ Len(q) \in Nat /\ Len(q) >= 1
      /\ \A i \in 1 .. Len(q) - 1 : r[i] = q[i + 1]
      /\ DOMAIN r = 1 .. Len(q) - 1 /\ DOMAIN q = 1 .. Len(q)
  OBVIOUS
<1>2. \A i \in 1 .. Len(q) - 1 : i + 1 \in 1 .. Len(q) /\ i + 1 # 1
  BY <1>1
<1>3. 1 \in DOMAIN q
  BY <1>1
<1>4. \A i \in DOMAIN r : i + 1 \in DOMAIN q /\ i + 1 # 1 /\ r[i] = q[i + 1]
  BY <1>1, <1>2
<1>5. ASSUME NEW i \in DOMAIN r, NEW j \in DOMAIN r, r[i] = r[j]  PROVE i = j
  <2>1. i + 1 = j + 1
    BY <1>4, <1>5 DEF Distinct
  <2>2. i \in Int /\ j \in Int
    BY <1>1
  <2> QED  BY <2>1, <2>2
<1>6. ASSUME NEW i \in DOMAIN r, r[i] = Head(q)  PROVE FALSE
  BY <1>1, <1>3, <1>4, <1>6 DEF Distinct
<1> QED  BY <1>5, <1>6 DEF Distinct, Among

\* settings.detection_queue_mode is read once, at the start.
LEMMA ModeStays ==
  ASSUME [Next]_vars
  PROVE  mode' = mode
  BY NextCases DEF vars, Accept, InsertPending, InsertPendingFails, PutNowait, PutRefused, TakeFromQueue,
     FetchBatch, StartEvaluation, CommitStep, FinishEvaluation, RaiseStep, FaultStep, EndTask,
     CommitBatch, CommitRows, RollbackBatch, RetryPut, DropEvent, Crash, Prune

\* Nothing changes about rows outside mode db.
LEMMA NoRowsStep ==
  ASSUME IInv, [Next]_vars, mode # "db", \A e \in Events : row[e] = "none"
  PROVE  mode' = mode /\ \A e \in Events : row'[e] = "none"
<1>1. CASE UNCHANGED vars
  BY <1>1 DEF vars, dbVars
<1>2. CASE Next
  <2>1. CASE Prune
    BY <2>1 DEF Prune
  <2>2. ASSUME NEW p \in Procs, InsertPending(p) \/ CommitBatch(p)
        PROVE  FALSE
    BY <2>2 DEF InsertPending, CommitBatch, CommitRows, BatchEvaluated
  <2> QED
    BY <1>2, <2>1, <2>2, NextCases DEF Accept, InsertPendingFails, PutNowait, PutRefused,
       TakeFromQueue, FetchBatch, StartEvaluation, CommitStep, FinishEvaluation, RaiseStep,
       FaultStep, EndTask, RollbackBatch, RetryPut, DropEvent, Crash, dbVars
<1> QED  BY <1>1, <1>2

\* Only one process comes to have events in a step, and only new ones.
LEMMA OneAccepts ==
  ASSUME IInv, [Next]_vars, mode # "db", \A e \in Events : row[e] = "none"
  PROVE  \E p \in Procs : \A q \in Procs : \A e \in Events :
           Has(q, e)' => Has(q, e) \/ (q = p /\ born[e] = 0)
<1>h. hand \in [Procs -> [Events -> HandStates]] /\ born \in [Events -> Nat]
  BY DEF IInv, TypeOK, LoopTypes, DbTypes
<1>1. CASE UNCHANGED born
  <2>1. \A q \in Procs : \A e \in Events : Has(q, e)' => Has(q, e)
    BY <1>1, <1>h, HasMoves
  <2> QED  BY <2>1, PipelineConstants
<1>2. ASSUME NEW p \in Procs, NEW new \in SUBSET Events,
             NEW handler \in {"single", "bulk"}, Accept(p, new, handler)
      PROVE  \A q \in Procs : \A e \in Events : Has(q, e)' => Has(q, e) \/ (q = p /\ born[e] = 0)
  BY <1>2, <1>h DEF Accept, Has, Queued
<1>3. CASE UNCHANGED vars
  BY <1>1, <1>3 DEF vars, dbVars
<1>4. CASE Next
  <2>1. \/ UNCHANGED born
        \/ \E p \in Procs, new \in SUBSET Events, handler \in {"single", "bulk"} : Accept(p, new, handler)
    BY <1>4, NextCases DEF InsertPending, InsertPendingFails, PutNowait, PutRefused,
       TakeFromQueue, FetchBatch, StartEvaluation, CommitStep, FinishEvaluation, RaiseStep,
       FaultStep, EndTask, CommitBatch, CommitRows, RollbackBatch, RetryPut, DropEvent, Crash, Prune, dbVars
  <2> QED  BY <1>1, <1>2, <2>1
<1> QED  BY <1>3, <1>4

\* A step moves an event from one place to another.
LEMMA PlacesStep ==
  ASSUME IInv, KnownAreBorn, OnePlace, [Next]_vars, mode # "db", NEW q \in Procs
  PROVE  Distinct(queue'[q]) /\ \A e \in Events : OneOf(q, e)'
<1> USE DEF IInv
<1>h. /\ hand \in [Procs -> [Events -> HandStates]] /\ task \in [Procs -> Tasks]
      /\ waiting \in [Procs -> [Events -> 0 .. MaxQueueRetries]] /\ MaxQueueRetries \in Nat
      /\ queue \in [Procs -> Seq(Events)] /\ LoopTypes
  BY PipelineConstants DEF TypeOK, LoopTypes, QueueTypes
<1>q. QueueTypes
  BY DEF TypeOK
<1>o. \A p \in Procs : Distinct(queue[p]) /\ \A e \in Events : OneOf(p, e)
  BY DEF OnePlace
<1> DEFINE Goal == Distinct(queue'[q]) /\ \A e \in Events : OneOf(q, e)'
<1> SUFFICES Goal
  OBVIOUS
<1>k. ASSUME queue'[q] = queue[q] \/ queue'[q] = <<>>,
             \A e \in Events : /\ hand'[q][e] = "todo" => hand[q][e] = "todo"
                               /\ waiting'[q][e] = waiting[q][e] \/ waiting'[q][e] = 0
      PROVE  Goal
  <2>1. Distinct(queue'[q]) /\ \A e \in Events : Queued(q, e)' => Queued(q, e)
    BY <1>k, <1>o DEF Distinct, Queued, Among
  <2>2. ASSUME NEW e \in Events  PROVE OneOf(q, e)'
    BY <1>k, <1>o, <1>h, <2>1 DEF OneOf
  <2> QED  BY <2>1, <2>2
<1>1. CASE UNCHANGED <<hand, queue, waiting>>
  BY <1>1, <1>k
<1>2. CASE Next
  <2>1. ASSUME NEW p \in Procs, NEW new \in SUBSET Events,
               NEW handler \in {"single", "bulk"}, Accept(p, new, handler)
        PROVE  Goal
    <3>1. /\ UNCHANGED <<queue, waiting>>
          /\ \A e \in Events : hand'[q][e] = "todo" => hand[q][e] = "todo" \/ e \in new
      BY <2>1, <1>h DEF Accept
    <3>2. \A e \in new : ~ Has(q, e)
      BY <2>1 DEF Accept, KnownAreBorn
    <3>3. ASSUME NEW e \in Events  PROVE OneOf(q, e)'
      <4>1. CASE e \in new
        BY <3>1, <3>2, <4>1, <1>h DEF OneOf, Has, Queued
      <4>2. CASE e \notin new
        BY <3>1, <4>2, <1>o DEF OneOf, Queued
      <4> QED  BY <4>1, <4>2
    <3> QED  BY <3>1, <3>3, <1>o
  <2>2. ASSUME NEW p \in Procs, InsertPendingFails(p) \/ EndTask(p) \/ RollbackBatch(p)
        PROVE  Goal
    <3>1. UNCHANGED <<queue, waiting>> /\ \A e \in Events : hand'[q][e] = "todo" => hand[q][e] = "todo"
      BY <2>2, <1>h, EmptyType DEF InsertPendingFails, EndTask, RollbackBatch, Release
    <3> QED  BY <3>1, <1>k
  <2>3. ASSUME NEW p \in Procs, NEW f \in Events, PutNowait(p, f)
        PROVE  Goal
    <3>1. hand[p][f] = "todo" /\ waiting' = waiting /\ queue' = [queue EXCEPT ![p] = Append(queue[p], f)]
      BY <2>3 DEF PutNowait, Todo, In
    <3>2. \A e \in Events : Queued(q, e)' <=> Queued(q, e) \/ (q = p /\ e = f)
      BY <3>1, <1>q, QueuedPut
    <3>3. \A e \in Events : hand'[q][e] = "todo" => hand[q][e] = "todo" /\ ~ (q = p /\ e = f)
      BY <2>3, <3>1, <1>h, SettleFacts DEF PutNowait
    <3>4. waiting[p][f] = 0 /\ ~ Queued(p, f)
      BY <3>1, <1>o DEF OneOf
    <3>5. Distinct(queue'[q])
      <4>1. CASE q = p
        <5> DEFINE s == queue[p]
                   r == queue'[p]
        <5>1. s \in Seq(Events) /\ r = Append(s, f) /\ Distinct(s) /\ ~ Among(s, f)
          BY <3>1, <3>4, <1>h, <1>o DEF Queued
        <5> HIDE DEF s, r
        <5>2. Distinct(r)
          BY <5>1, DistinctAppend
        <5> QED  BY <4>1, <5>2 DEF r
      <4>2. CASE q # p
        BY <3>1, <4>2, <1>h, <1>o
      <4> QED  BY <4>1, <4>2
    <3>6. ASSUME NEW e \in Events  PROVE OneOf(q, e)'
      BY <3>1, <3>2, <3>3, <3>4, <1>o, <1>h DEF OneOf
    <3> QED  BY <3>5, <3>6
  <2>4. ASSUME NEW p \in Procs, NEW f \in Events, PutRefused(p, f)
        PROVE  Goal
    <3>1. hand[p][f] = "todo" /\ queue' = queue
      BY <2>4 DEF PutRefused, Todo, In
    <3>2. waiting' = waiting \/ waiting' = [waiting EXCEPT ![p][f] = 1]
      BY <2>4 DEF PutRefused
    <3>3. \A e \in Events : hand'[q][e] = "todo" => hand[q][e] = "todo" /\ ~ (q = p /\ e = f)
      BY <2>4, <3>1, <1>h, SettleFacts DEF PutRefused
    <3>4. \A e \in Events : waiting'[q][e] = waiting[q][e] \/ (q = p /\ e = f)
      BY <3>2, <1>h
    <3>5. ~ Queued(p, f)
      BY <3>1, <1>o DEF OneOf
    <3>6. ASSUME NEW e \in Events  PROVE OneOf(q, e)'
      <4>1. Queued(q, e)' <=> Queued(q, e)
        BY <3>1 DEF Queued
      <4> QED  BY <3>3, <3>4, <3>5, <4>1, <1>o DEF OneOf
    <3> QED  BY <3>1, <3>6, <1>o
  <2>5. ASSUME NEW p \in Procs, TakeFromQueue(p)
        PROVE  Goal
    <3> DEFINE s == queue[p]
               r == queue'[p]
               f == Head(s)
    <3>1. /\ s # <<>> /\ queue' = [queue EXCEPT ![p] = Tail(s)] /\ waiting' = waiting
          /\ hand' = [hand EXCEPT ![p] = [Empty EXCEPT ![f] = "todo"]]
      BY <2>5 DEF TakeFromQueue
    <3>2. f \in Events /\ \A e \in Events : Queued(q, e) <=> Queued(q, e)' \/ (q = p /\ e = f)
      BY <3>1, <1>q, QueuedGet
    <3>3. s \in Seq(Events) /\ r = Tail(s) /\ Distinct(s)
      BY <3>1, <1>h, <1>o
    <3>4. Distinct(r) /\ ~ Among(r, f)
      <4> HIDE DEF s, r
      <4> QED  BY <3>1, <3>3, DistinctTail
    <3>5. Distinct(queue'[q])
      BY <3>1, <3>4, <1>h, <1>o
    <3>6. \A e \in Events : hand'[q][e] = "todo" => (q = p /\ e = f) \/ (q # p /\ hand[q][e] = "todo")
      BY <3>1, <1>h, EmptyType
    <3>7. waiting[p][f] = 0
      <4>1. Queued(p, f)
        BY <3>1, <3>2, <1>q, QueuedGet
      <4>2. OneOf(p, f) /\ waiting[p][f] \in 0 .. MaxQueueRetries
        BY <3>2, <1>o, <1>h
      <4> HIDE DEF f
      <4> QED  BY <4>1, <4>2, <1>h DEF OneOf
    <3>8. ASSUME NEW e \in Events  PROVE OneOf(q, e)'
      <4>1. CASE q = p
        <5>1. hand'[q][e] = "todo" => waiting'[q][e] = 0 /\ ~ Queued(q, e)'
          BY <3>1, <3>4, <3>6, <3>7, <4>1 DEF Queued
        <5> QED  BY <3>1, <3>2, <4>1, <5>1, <1>o DEF OneOf
      <4>2. CASE q # p
        BY <3>1, <3>2, <3>6, <4>2, <1>o DEF OneOf
      <4> QED  BY <4>1, <4>2
    <3> QED  BY <3>5, <3>8
  <2>6. ASSUME NEW p \in Procs, NEW f \in Events, StartEvaluation(p, f)
        PROVE  Goal
    <3>1. (hand' = hand \/ hand' = [hand EXCEPT ![p][f] = "ok"]) /\ UNCHANGED <<queue, waiting>>
      BY <2>6 DEF StartEvaluation
    <3>2. ASSUME hand' = [hand EXCEPT ![p][f] = "ok"]
          PROVE  \A e \in Events : hand'[q][e] = "todo" => hand[q][e] = "todo"
      BY <3>2, <1>h
    <3>3. \A e \in Events : hand'[q][e] = "todo" => hand[q][e] = "todo"
      BY <3>1, <3>2
    <3> QED  BY <3>1, <3>3, <1>k
  <2>7. ASSUME NEW p \in Procs, FinishEvaluation(p) \/ RaiseStep(p) \/ FaultStep(p)
        PROVE  Goal
    <3>1. PICK outcome \in {"ok", "failed"} :
            hand' = [hand EXCEPT ![p][cur[p]] = outcome] /\ UNCHANGED <<queue, waiting>>
      BY <2>7 DEF FinishEvaluation, RaiseStep, FaultStep, EndEvaluation
    <3>2. \A e \in Events : hand'[q][e] = "todo" => hand[q][e] = "todo"
      BY <3>1, <1>h
    <3> QED  BY <3>1, <3>2, <1>k
  <2>8. ASSUME NEW p \in Procs, NEW f \in Events, RetryPut(p, f)
        PROVE  Goal
    <3>1. hand' = hand /\ waiting[p][f] > 0 /\ hand[p][f] # "todo" /\ ~ Queued(p, f)
      BY <2>8, <1>h, <1>o DEF RetryPut, loopVars, OneOf
    <3>2. CASE HasRoom(p)
      <4>1. queue' = [queue EXCEPT ![p] = Append(queue[p], f)] /\ waiting' = [waiting EXCEPT ![p][f] = 0]
        BY <2>8, <3>2 DEF RetryPut
      <4>2. \A e \in Events : Queued(q, e)' <=> Queued(q, e) \/ (q = p /\ e = f)
        BY <4>1, <1>q, QueuedPut
      <4>3. \A e \in Events : waiting'[q][e] = IF q = p /\ e = f THEN 0 ELSE waiting[q][e]
        BY <4>1, <1>h
      <4>4. Distinct(queue'[q])
        <5>1. CASE q = p
          <6> DEFINE s == queue[p]
                     r == queue'[p]
          <6>1. s \in Seq(Events) /\ r = Append(s, f) /\ Distinct(s) /\ ~ Among(s, f)
            BY <3>1, <4>1, <1>h, <1>o DEF Queued
          <6> HIDE DEF s, r
          <6>2. Distinct(r)
            BY <6>1, DistinctAppend
          <6> QED  BY <5>1, <6>2 DEF r
        <5>2. CASE q # p
          BY <4>1, <5>2, <1>h, <1>o
        <5> QED  BY <5>1, <5>2
      <4>5. ASSUME NEW e \in Events  PROVE OneOf(q, e)'
        BY <3>1, <4>2, <4>3, <1>o, <1>h DEF OneOf
      <4> QED  BY <4>4, <4>5
    <3>3. CASE ~ HasRoom(p)
      <4>1. queue' = queue /\ waiting' = [waiting EXCEPT ![p][f] = @ + 1]
        BY <2>8, <3>3 DEF RetryPut
      <4>2. \A e \in Events : waiting'[q][e] = waiting[q][e] \/ (q = p /\ e = f)
        BY <4>1, <1>h
      <4>3. ASSUME NEW e \in Events  PROVE OneOf(q, e)'
        <5>1. Queued(q, e)' <=> Queued(q, e)
          BY <4>1 DEF Queued
        <5> QED  BY <3>1, <4>2, <5>1, <1>o DEF OneOf
      <4> QED  BY <4>1, <4>3, <1>o
    <3> QED  BY <3>2, <3>3
  <2>9. ASSUME NEW p \in Procs, NEW f \in Events, DropEvent(p, f)
        PROVE  Goal
    <3>1. /\ UNCHANGED <<queue, hand>>
          /\ \A e \in Events : waiting'[q][e] = waiting[q][e] \/ waiting'[q][e] = 0
      BY <2>9, <1>h DEF DropEvent, loopVars
    <3> QED  BY <3>1, <1>k
  <2>10. ASSUME NEW p \in Procs, Crash(p)
         PROVE  Goal
    <3>1. \A e \in Events : hand'[q][e] = "todo" => hand[q][e] = "todo"
      BY <2>10, <1>h, EmptyType DEF Crash, Release
    <3>2. queue'[q] = queue[q] \/ queue'[q] = <<>>
      BY <2>10, <1>h DEF Crash
    <3>3. \A e \in Events : waiting'[q][e] = waiting[q][e] \/ waiting'[q][e] = 0
      BY <2>10, <1>h DEF Crash
    <3> QED  BY <3>1, <3>2, <3>3, <1>k
  <2>11. ASSUME NEW p \in Procs, InsertPending(p) \/ FetchBatch(p) \/ CommitBatch(p)
         PROVE  FALSE
    BY <2>11 DEF InsertPending, FetchBatch, CommitBatch, CommitRows, BatchEvaluated
  <2>12. ASSUME NEW p \in Procs, CommitStep(p)
         PROVE  Goal
    BY <2>12, <1>1 DEF CommitStep
  <2>13. CASE Prune
    BY <2>13, <1>1 DEF Prune, loopVars
  <2> HIDE DEF Goal
  <2> QED
    BY <1>2, <2>1, <2>2, <2>3, <2>4, <2>5, <2>6, <2>7, <2>8, <2>9, <2>10, <2>11, <2>12, <2>13,
       NextCases, Zenon
<1>3. CASE UNCHANGED vars
  BY <1>1, <1>3 DEF vars, loopVars
<1> QED  BY <1>2, <1>3

\* Outside mode db every event stays in one place.
LEMMA OnePlaceStep ==
  ASSUME IInv, KnownAreBorn, OnePlace, [Next]_vars
  PROVE  OnePlace'
<1>m. mode' = mode
  BY ModeStays
<1> SUFFICES ASSUME mode # "db"
             PROVE  /\ \A e \in Events : row'[e] = "none"
                    /\ \A p \in Procs : Distinct(queue'[p]) /\ \A e \in Events : OneOf(p, e)'
                    /\ \A p, q \in Procs : \A e \in Events : Has(p, e)' /\ Has(q, e)' => p = q
  BY <1>m DEF OnePlace
<1>1. \A e \in Events : row[e] = "none"
  BY DEF OnePlace
<1>2. \A e \in Events : row'[e] = "none"
  BY <1>1, NoRowsStep
<1>3. \A p \in Procs : Distinct(queue'[p]) /\ \A e \in Events : OneOf(p, e)'
  BY PlacesStep
<1>4. PICK a \in Procs : \A q \in Procs : \A e \in Events :
           Has(q, e)' => Has(q, e) \/ (q = a /\ born[e] = 0)
  BY <1>1, OneAccepts
<1>5. \A p, q \in Procs : \A e \in Events : Has(p, e)' /\ Has(q, e)' => p = q
  BY <1>4 DEF OnePlace, KnownAreBorn
<1> QED  BY <1>2, <1>3, <1>5

\* What a commit outside mode db writes, it writes for the first time.
LEMMA CommitsOnce ==
  ASSUME IInv, OnePlace, EffectsFollow, mode # "db", NEW p \in Procs, CommitStep(p)
  PROVE  /\ cur[p] \in Events /\ Has(p, cur[p]) /\ cur' = cur
         /\ \E x \in Steps(cur[p]) :
              /\ done'[p] = done[p] \cup {x}
              /\ effects'[cur[p]][x] = 1
              /\ \A t \in Steps(cur[p]) \ {x} : effects'[cur[p]][t] = effects[cur[p]][t]
         /\ \A q \in Procs \ {p} : done'[q] = done[q]
         /\ \A e \in Events \ {cur[p]} : effects'[e] = effects[e]
<1>h. /\ cur \in [Procs -> Events \cup {NoEvent}] /\ DOMAIN done = Procs /\ DOMAIN effects = Events
      /\ \A f \in Events : effects[f] \in [Steps(f) -> 0 .. CountCap]
  BY DEF IInv, TypeOK, LoopTypes, EffectTypes
<1>1. PICK x \in NextSteps(cur[p], done[p]) :
        /\ effects' = [effects EXCEPT ![cur[p]][x] = IF x.kind = "severity" THEN 1 ELSE Bump(@)]
        /\ done' = [done EXCEPT ![p] = done[p] \cup {x}]
  BY DEF CommitStep
<1>2. cur' = cur /\ cur[p] \in Events /\ x \in Steps(cur[p]) /\ x \notin done[p]
  BY <1>1, <1>h DEF CommitStep, NextSteps
<1>3. Has(p, cur[p])
  BY <1>2, PipelineConstants DEF IInv, LoopIsConsistent, Has
<1>4. effects[cur[p]][x] = 0
  BY <1>2 DEF EffectsFollow
<1>5. Bump(0) = 1
  BY PipelineConstants DEF Bump
<1>6. effects'[cur[p]][x] = 1
  BY <1>1, <1>2, <1>4, <1>5, <1>h
<1>7. /\ \A t \in Steps(cur[p]) \ {x} : effects'[cur[p]][t] = effects[cur[p]][t]
      /\ \A e \in Events \ {cur[p]} : effects'[e] = effects[e]
  BY <1>1, <1>2, <1>h
<1>8. done'[p] = done[p] \cup {x} /\ \A q \in Procs \ {p} : done'[q] = done[q]
  BY <1>1, <1>h
<1> QED  BY <1>2, <1>3, <1>6, <1>7, <1>8

\* The steps that change neither what runs nor what has been written
LEMMA QuietCases ==
  ASSUME [Next]_vars
  PROVE  \/ UNCHANGED <<cur, done, effects>>
         \/ \E p \in Procs : \/ \E f \in Events : StartEvaluation(p, f)
                            \/ CommitStep(p)
                            \/ FinishEvaluation(p) \/ RaiseStep(p) \/ FaultStep(p) \/ Crash(p)
<1>1. CASE UNCHANGED vars
  BY <1>1 DEF vars, loopVars
<1>2. CASE Next
  BY <1>2, NextCases DEF Accept, InsertPending, InsertPendingFails, PutNowait, PutRefused,
     TakeFromQueue, FetchBatch, EndTask, CommitBatch, CommitRows, RollbackBatch, RetryPut, DropEvent,
     Prune, loopVars
<1> QED  BY <1>1, <1>2

\* What is to be evaluated has no effects until it is.
LEMMA EffectsFollowStep ==
  ASSUME IInv, KnownAreBorn, OnePlace, EffectsFollow, [Next]_vars
  PROVE  EffectsFollow'
<1>m. mode' = mode
  BY ModeStays
<1> SUFFICES ASSUME mode # "db", NEW q \in Procs, NEW e \in Events, NEW s \in Steps(e)
             PROVE  /\ Has(q, e)' /\ cur'[q] # e => effects'[e][s] = 0
                    /\ cur'[q] = e => effects'[e][s] = IF s \in done'[q] THEN 1 ELSE 0
  BY <1>m DEF EffectsFollow
<1> DEFINE Goal == /\ Has(q, e)' /\ cur'[q] # e => effects'[e][s] = 0
                   /\ cur'[q] = e => effects'[e][s] = IF s \in done'[q] THEN 1 ELSE 0
<1> SUFFICES Goal
  OBVIOUS
<1>h. /\ cur \in [Procs -> Events \cup {NoEvent}] /\ DOMAIN done = Procs /\ e # NoEvent
      /\ hand \in [Procs -> [Events -> HandStates]]
      /\ waiting \in [Procs -> [Events -> 0 .. MaxQueueRetries]]
  BY PipelineConstants DEF IInv, TypeOK, LoopTypes, QueueTypes
<1>f. /\ Has(q, e) /\ cur[q] # e => effects[e][s] = 0
      /\ cur[q] = e => effects[e][s] = IF s \in done[q] THEN 1 ELSE 0
  BY DEF EffectsFollow
<1>b. born[e] = 0 => effects[e][s] = 0 /\ \A p \in Procs : cur[p] # e
  BY DEF KnownAreBorn
<1>n. Has(q, e)' => Has(q, e) \/ born[e] = 0
  BY OneAccepts DEF OnePlace
<1>1. CASE UNCHANGED <<cur, done, effects>>
  BY <1>1, <1>f, <1>b, <1>n
<1>2. ASSUME NEW p \in Procs, NEW f \in Events, StartEvaluation(p, f)
      PROVE  Goal
  <2>1. effects' = effects
    BY <1>2 DEF StartEvaluation
  <2>2. CASE q = p /\ f \in stored
    <3>1. cur[q] = NoEvent /\ cur'[q] = f /\ done'[q] = {} /\ hand[q][f] = "todo"
      BY <1>2, <2>2, <1>h DEF StartEvaluation, Todo, In
    <3>2. Has(q, f)
      BY <3>1 DEF Has
    <3> QED  BY <2>1, <3>1, <3>2, <1>h, <1>f, <1>b, <1>n
  <2>3. CASE ~ (q = p /\ f \in stored)
    <3>1. cur'[q] = cur[q] /\ done'[q] = done[q]
      BY <1>2, <2>3, <1>h DEF StartEvaluation
    <3> QED  BY <2>1, <3>1, <1>f, <1>b, <1>n
  <2> QED  BY <2>2, <2>3
<1>3. ASSUME NEW p \in Procs, CommitStep(p)
      PROVE  Goal
  <2>1. /\ cur[p] \in Events /\ Has(p, cur[p]) /\ cur' = cur
        /\ \E x \in Steps(cur[p]) :
             /\ done'[p] = done[p] \cup {x}
             /\ effects'[cur[p]][x] = 1
             /\ \A t \in Steps(cur[p]) \ {x} : effects'[cur[p]][t] = effects[cur[p]][t]
        /\ \A r \in Procs \ {p} : done'[r] = done[r]
        /\ \A g \in Events \ {cur[p]} : effects'[g] = effects[g]
    BY <1>3, CommitsOnce
  <2>2. CASE e = cur[p]
    <3>1. Has(q, e)' => q = p
      BY <2>1, <2>2, <1>b, <1>n DEF OnePlace
    <3>2. cur[q] = e => q = p
      <4>1. cur[q] = e => Has(q, e)
        BY <1>h DEF IInv, LoopIsConsistent, Has
      <4> QED  BY <2>1, <2>2, <4>1 DEF OnePlace
    <3>3. q = p => cur'[q] = e /\ effects'[e][s] = IF s \in done'[p] THEN 1 ELSE 0
      BY <2>1, <2>2, <1>f
    <3> QED  BY <2>1, <3>1, <3>2, <3>3
  <2>3. CASE e # cur[p]
    <3>1. effects'[e] = effects[e] /\ cur' = cur /\ (cur[q] = e => done'[q] = done[q])
      BY <2>1, <2>3
    <3> QED  BY <3>1, <1>f, <1>b, <1>n
  <2> QED  BY <2>2, <2>3
<1>4. ASSUME NEW p \in Procs, FinishEvaluation(p) \/ RaiseStep(p) \/ FaultStep(p)
      PROVE  Goal
  <2>1. PICK outcome \in {"ok", "failed"} :
          /\ cur[p] # NoEvent /\ hand' = [hand EXCEPT ![p][cur[p]] = outcome]
          /\ cur' = [cur EXCEPT ![p] = NoEvent] /\ done' = [done EXCEPT ![p] = {}]
          /\ UNCHANGED <<queue, waiting, effects>>
    BY <1>4 DEF FinishEvaluation, RaiseStep, FaultStep, EndEvaluation
  <2>2. /\ cur'[p] = NoEvent
        /\ \A r \in Procs \ {p} : cur'[r] = cur[r] /\ done'[r] = done[r]
    BY <2>1, <1>h
  <2>3. CASE e = cur[p]
    <3>1. hand[p][e] = "todo" /\ hand'[p][e] # "todo" /\ Has(p, e)
      <4>1. hand[p][e] = "todo"
        BY <2>3, <1>h DEF IInv, LoopIsConsistent
      <4>2. hand'[p][e] = outcome
        BY <2>1, <2>3, <1>h
      <4> QED  BY <4>1, <4>2 DEF Has
    <3>2. waiting[p][e] = 0 /\ ~ Queued(p, e)
      BY <3>1 DEF OnePlace, OneOf
    <3>3. ~ Has(p, e)'
      BY <2>1, <3>1, <3>2 DEF Has, Queued
    <3>4. \A r \in Procs \ {p} : ~ Has(r, e) /\ cur[r] # e
      <4>1. \A r \in Procs : cur[r] = e => Has(r, e)
        BY <1>h DEF IInv, LoopIsConsistent, Has
      <4> QED  BY <3>1, <4>1 DEF OnePlace
    <3> QED  BY <2>2, <2>3, <3>3, <3>4, <1>b, <1>n, <1>h
  <2>4. CASE e # cur[p]
    <3>1. CASE q = p
      BY <2>1, <2>2, <2>4, <3>1, <1>f, <1>b, <1>n, <1>h
    <3>2. CASE q # p
      BY <2>1, <2>2, <3>2, <1>f, <1>b, <1>n
    <3> QED  BY <3>1, <3>2
  <2> QED  BY <2>3, <2>4
<1>5. ASSUME NEW p \in Procs, Crash(p)
      PROVE  Goal
  <2>1. effects' = effects /\ cur'[p] = NoEvent /\ \A r \in Procs \ {p} : cur'[r] = cur[r] /\ done'[r] = done[r]
    BY <1>5, <1>h DEF Crash
  <2>2. ~ Has(p, e)'
    <3>1. hand'[p][e] = "out"
      BY <1>5, <1>h, EmptyType DEF Crash, Release
    <3>2. waiting'[p][e] = 0
      BY <1>5, <1>h DEF Crash
    <3>3. queue'[p] = <<>>
      BY <1>5 DEF Crash, IInv, TypeOK, QueueTypes
    <3> QED  BY <3>1, <3>2, <3>3 DEF Has, Queued, Among
  <2>3. CASE q = p
    BY <2>1, <2>2, <2>3, <1>h
  <2>4. CASE q # p
    BY <2>1, <2>4, <1>f, <1>b, <1>n
  <2> QED  BY <2>3, <2>4
<1> HIDE DEF Goal
<1> QED  BY <1>1, <1>2, <1>3, <1>4, <1>5, QuietCases

\* Nothing is committed a second time.
LEMMA OnceStep ==
  ASSUME IInv, OnePlace, EffectsFollow, AtMostOnceOutsideDb, [Next]_vars
  PROVE  AtMostOnceOutsideDb'
<1>m. mode' = mode
  BY ModeStays
<1> SUFFICES ASSUME mode # "db", NEW e \in Events, NEW s \in Steps(e)
             PROVE  effects'[e][s] <= 1
  BY <1>m DEF AtMostOnceOutsideDb
<1>1. effects[e][s] <= 1
  BY DEF AtMostOnceOutsideDb
<1>2. CASE UNCHANGED effects
  BY <1>1, <1>2
<1>3. ASSUME NEW p \in Procs, CommitStep(p)
      PROVE  effects'[e][s] <= 1
  BY <1>1, <1>3, CommitsOnce
<1> QED
  BY <1>2, <1>3, QuietCases DEF StartEvaluation, FinishEvaluation, RaiseStep, FaultStep, Crash

-----------------------------------------------------------------------------
(***************************************************************************)
(* In mode db every worker may have one turn at a step of an event.        *)
(***************************************************************************)
\* The worker of p has committed step s of e in the batch it is at,
HadTurn(p, e, s) == /\ task[p] = "worker"
                    /\ hand[p][e] = "ok" \/ (cur[p] = e /\ s \in done[p])

\* or has yet to.
TurnDue(p, e, s) == /\ task[p] = "worker" /\ hand[p][e] = "todo"
                    /\ ~ (cur[p] = e /\ s \in done[p])

HadTurns(e, s) == {p \in Procs : HadTurn(p, e, s)}
TurnsDue(e, s) == {p \in Procs : TurnDue(p, e, s)}

\* Until a row is closed, whoever committed a step still has the event in hand;
\* once it is closed, only those who fetched it before will commit it again.
TurnsOf(e, s) ==
  /\ row[e] = "none" => effects[e][s] = 0
  /\ row[e] = "unprocessed" => effects[e][s] <= Cardinality(HadTurns(e, s))
  /\ row[e] = "processed" =>
       effects[e][s] + Cardinality(TurnsDue(e, s)) <= Cardinality(Procs)

TurnInv == mode = "db" /\ Calm => \A e \in Events \ Poisoned : \A s \in Steps(e) : TurnsOf(e, s)

\* The numbers of turns, of a process and without it
LEMMA TurnsAreFinite ==
  ASSUME NEW e, NEW s
  PROVE  /\ IsFiniteSet(HadTurns(e, s)) /\ IsFiniteSet(TurnsDue(e, s))
         /\ Cardinality(HadTurns(e, s)) \in Nat /\ Cardinality(TurnsDue(e, s)) \in Nat
         /\ Cardinality(Procs) \in Nat
         /\ Cardinality(HadTurns(e, s)) + Cardinality(TurnsDue(e, s)) <= Cardinality(Procs)
<1> DEFINE H == HadTurns(e, s)
           D == TurnsDue(e, s)
<1>1. H \subseteq Procs /\ D \subseteq Procs /\ H \cap D = {}
  BY DEF HadTurns, TurnsDue, HadTurn, TurnDue
<1> HIDE DEF H, D
<1>2. IsFiniteSet(H) /\ IsFiniteSet(D) /\ IsFiniteSet(Procs)
  BY <1>1, PipelineConstants, FS_Subset
<1>3. Cardinality(H) \in Nat /\ Cardinality(D) \in Nat /\ Cardinality(Procs) \in Nat
  BY <1>2, FS_CardinalityType
<1>4. Cardinality(H \cup D) = Cardinality(H) + Cardinality(D) - Cardinality(H \cap D)
  BY <1>2, FS_Union
<1>5. Cardinality(H \cap D) = 0
  BY <1>1, FS_EmptySet
<1>6. Cardinality(H \cup D) <= Cardinality(Procs)
  <2>1. (H \cup D) \in SUBSET Procs
    BY <1>1
  <2> QED  BY <2>1, <1>2, FS_Subset
<1>7. Cardinality(H) + Cardinality(D) <= Cardinality(Procs)
  BY <1>3, <1>4, <1>5, <1>6
<1> QED  BY <1>2, <1>3, <1>7 DEF H, D

\* The turns about an event that a step neither starts nor ends.
LEMMA SameTurns ==
  ASSUME NEW e, NEW s, NEW q \in Procs,
         task'[q] = task[q], hand'[q][e] = hand[q][e], cur'[q] = cur[q], done'[q] = done[q]
  PROVE  /\ HadTurn(q, e, s)' <=> HadTurn(q, e, s)
         /\ TurnDue(q, e, s)' <=> TurnDue(q, e, s)
  BY DEF HadTurn, TurnDue

\* What a step can do to the turns of a step of e, and to its row
Quiet(e, s) ==
  /\ effects'[e][s] = effects[e][s] /\ row'[e] = row[e]
  /\ \A q \in Procs : /\ HadTurn(q, e, s) => HadTurn(q, e, s)'
                      /\ TurnDue(q, e, s)' => TurnDue(q, e, s) \/ row[e] # "processed"

Opened(e, s) ==
  /\ effects'[e][s] = effects[e][s] /\ row[e] = "none" /\ row'[e] = "unprocessed"

Closed(e, s) ==
  /\ effects'[e][s] = effects[e][s] /\ row[e] # "none" /\ row'[e] = "processed"
  /\ \A q \in Procs : TurnDue(q, e, s)' => TurnDue(q, e, s)

TurnTaken(p, e, s) ==
  /\ effects'[e][s] <= effects[e][s] + 1 /\ row'[e] = row[e] /\ row[e] # "none"
  /\ TurnDue(p, e, s) /\ ~ TurnDue(p, e, s)'
  /\ ~ HadTurn(p, e, s) /\ HadTurn(p, e, s)'
  /\ \A q \in Procs \ {p} : /\ HadTurn(q, e, s) => HadTurn(q, e, s)'
                            /\ TurnDue(q, e, s)' => TurnDue(q, e, s)

TurnMoves(e, s) ==
  Quiet(e, s) \/ Opened(e, s) \/ Closed(e, s) \/ \E p \in Procs : TurnTaken(p, e, s)

\* Each of them keeps the count.
LEMMA MovesKeepTurns ==
  ASSUME IInv, NEW e \in Events, NEW s \in Steps(e), TurnsOf(e, s), TurnMoves(e, s),
         row[e] # "deleted", effects'[e][s] \in Nat
  PROVE  TurnsOf(e, s)'
<1>h. effects[e][s] \in Nat /\ row[e] \in {"none", "unprocessed", "processed"}
  BY DEF IInv, TypeOK, EffectTypes, DbTypes, RowStates
<1> DEFINE H == HadTurns(e, s)
           D == TurnsDue(e, s)
           H2 == HadTurns(e, s)'
           D2 == TurnsDue(e, s)'
           c == Cardinality(H)
           d == Cardinality(D)
           c2 == Cardinality(H2)
           d2 == Cardinality(D2)
           n == Cardinality(Procs)
           k == effects[e][s]
           k2 == effects'[e][s]
<1>f. IsFiniteSet(H) /\ IsFiniteSet(D) /\ c \in Nat /\ d \in Nat /\ n \in Nat /\ c + d <= n
  BY TurnsAreFinite
<1>g. IsFiniteSet(H2) /\ IsFiniteSet(D2) /\ c2 \in Nat /\ d2 \in Nat
  <2>1. H2 \subseteq Procs /\ D2 \subseteq Procs
    BY DEF HadTurns, TurnsDue
  <2> HIDE DEF H2, D2
  <2>2. IsFiniteSet(H2) /\ IsFiniteSet(D2)
    BY <2>1, PipelineConstants, FS_Subset
  <2> QED  BY <2>2, FS_CardinalityType
<1>t. /\ row[e] = "none" => k = 0
      /\ row[e] = "unprocessed" => k <= c
      /\ row[e] = "processed" => k + d <= n
  BY DEF TurnsOf
<1> DEFINE Goal == /\ row'[e] = "none" => k2 = 0
                   /\ row'[e] = "unprocessed" => k2 <= c2
                   /\ row'[e] = "processed" => k2 + d2 <= n
<1> SUFFICES Goal
  BY DEF TurnsOf
<1>1. CASE Quiet(e, s)
  <2>1. H \subseteq H2 /\ (row[e] = "processed" => D2 \subseteq D)
    BY <1>1 DEF Quiet, HadTurns, TurnsDue
  <2>2. c <= c2 /\ (row[e] = "processed" => d2 <= d)
    <3> HIDE DEF H, D, H2, D2
    <3> QED  BY <2>1, <1>f, <1>g, FS_Subset
  <2>3. k2 = k /\ row'[e] = row[e] /\ k2 \in Nat
    BY <1>1 DEF Quiet
  <2> HIDE DEF c, d, c2, d2, n, k, k2
  <2> QED  BY <2>2, <2>3, <1>f, <1>g, <1>t, <1>h
<1>2. CASE Opened(e, s)
  <2>1. k2 = 0 /\ row'[e] = "unprocessed"
    BY <1>2, <1>t DEF Opened
  <2> HIDE DEF c, d, c2, d2, n, k, k2
  <2> QED  BY <2>1, <1>g
<1>3. CASE Closed(e, s)
  <2>1. D2 \subseteq D
    BY <1>3 DEF Closed, TurnsDue
  <2>2. d2 <= d
    <3> HIDE DEF D, D2
    <3> QED  BY <2>1, <1>f, FS_Subset
  <2>3. k2 = k /\ row[e] \in {"unprocessed", "processed"} /\ row'[e] = "processed" /\ k \in Nat
    BY <1>3, <1>h DEF Closed
  <2> HIDE DEF c, d, c2, d2, n, k, k2
  <2> QED  BY <2>2, <2>3, <1>f, <1>g, <1>t
<1>4. ASSUME NEW p \in Procs, TurnTaken(p, e, s)
      PROVE  Goal
  <2>1. H \cup {p} \subseteq H2 /\ p \notin H /\ D2 \subseteq (D \ {p}) /\ p \in D
    BY <1>4 DEF TurnTaken, HadTurns, TurnsDue
  <2>2. c + 1 <= c2 /\ d2 <= d - 1
    <3> HIDE DEF H, D, H2, D2
    <3>1. IsFiniteSet(D \ {p}) /\ Cardinality(H \cup {p}) = c + 1 /\ Cardinality(D \ {p}) = d - 1
      BY <2>1, <1>f, FS_AddElement, FS_RemoveElement
    <3>2. (H \cup {p}) \in SUBSET H2 /\ D2 \in SUBSET (D \ {p})
      BY <2>1
    <3> QED  BY <3>1, <3>2, <1>g, FS_Subset
  <2>3. k2 <= k + 1 /\ row'[e] = row[e] /\ row[e] # "none" /\ k2 \in Nat /\ k \in Nat
    BY <1>4, <1>h DEF TurnTaken
  <2> HIDE DEF c, d, c2, d2, n, k, k2
  <2> QED  BY <2>2, <2>3, <1>f, <1>g, <1>t
<1> HIDE DEF Goal
<1> QED  BY <1>1, <1>2, <1>3, <1>4 DEF TurnMoves

\* Nothing else happens to them while nothing fails.
LEMMA TurnsFollow ==
  ASSUME IInv, [Next]_vars, mode = "db", Calm, Calm', AllAreStored,
         NEW e \in Events, e \notin Poisoned, NEW s \in Steps(e)
  PROVE  TurnMoves(e, s)
<1> USE DEF IInv
<1>h. /\ hand \in [Procs -> [Events -> HandStates]] /\ task \in [Procs -> Tasks]
      /\ cur \in [Procs -> Events \cup {NoEvent}] /\ DOMAIN done = Procs
      /\ DOMAIN effects = Events /\ \A f \in Events : effects[f] \in [Steps(f) -> 0 .. CountCap]
      /\ row \in [Events -> RowStates] /\ e # NoEvent
  BY PipelineConstants DEF TypeOK, LoopTypes, EffectTypes, DbTypes
<1>k. ASSUME effects' = effects, row' = row,
             \A q \in Procs : /\ HadTurn(q, e, s) => HadTurn(q, e, s)'
                              /\ TurnDue(q, e, s)' => TurnDue(q, e, s) \/ row[e] # "processed"
      PROVE  TurnMoves(e, s)
  BY <1>k DEF TurnMoves, Quiet
<1>w. ASSUME NEW p \in Procs, cur[p] # NoEvent
      PROVE  cur[p] \in Events /\ task[p] = "worker" /\ hand[p][cur[p]] = "todo" /\ row[cur[p]] # "none"
  BY <1>w, <1>h DEF LoopIsConsistent, BatchIsJustified, Evaluating
<1>i. ASSUME NEW p \in Procs, task[p] # "worker"
      PROVE  ~ HadTurn(p, e, s) /\ ~ TurnDue(p, e, s)
  BY <1>i DEF HadTurn, TurnDue
<1>1. CASE UNCHANGED vars
  BY <1>1, <1>k, SameTurns DEF vars, dbVars, loopVars
<1>2. CASE Next
  <2> DEFINE Goal == TurnMoves(e, s)
  <2> SUFFICES Goal
    OBVIOUS
  <2>1. ASSUME NEW p \in Procs, NEW new \in SUBSET Events,
               NEW handler \in {"single", "bulk"}, Accept(p, new, handler)
        PROVE  Goal
    <3>1. /\ effects' = effects /\ row' = row /\ cur' = cur /\ done' = done
          /\ task[p] = "idle" /\ task'[p] # "worker"
          /\ \A q \in Procs \ {p} : task'[q] = task[q] /\ hand'[q] = hand[q]
      BY <2>1, <1>h DEF Accept
    <3>2. ~ HadTurn(p, e, s) /\ ~ TurnDue(p, e, s)'
      BY <3>1 DEF HadTurn, TurnDue
    <3>3. \A q \in Procs \ {p} : /\ HadTurn(q, e, s)' <=> HadTurn(q, e, s)
                                 /\ TurnDue(q, e, s)' <=> TurnDue(q, e, s)
      BY <3>1, SameTurns
    <3> QED  BY <3>1, <3>2, <3>3, <1>k
  <2>2. ASSUME NEW p \in Procs, InsertPending(p) \/ InsertPendingFails(p)
        PROVE  Goal
    <3>1. /\ effects' = effects /\ cur' = cur /\ done' = done
          /\ task[p] # "worker" /\ task'[p] # "worker"
          /\ \A q \in Procs \ {p} : task'[q] = task[q] /\ hand'[q] = hand[q]
      BY <2>2, <1>h DEF InsertPending, InsertPendingFails, Release, Handling
    <3>2. ~ HadTurn(p, e, s) /\ ~ TurnDue(p, e, s)'
      BY <3>1 DEF HadTurn, TurnDue
    <3>3. \A q \in Procs \ {p} : /\ HadTurn(q, e, s)' <=> HadTurn(q, e, s)
                                 /\ TurnDue(q, e, s)' <=> TurnDue(q, e, s)
      BY <3>1, SameTurns
    <3>4. CASE row'[e] = row[e]
      BY <3>1, <3>2, <3>3, <3>4 DEF TurnMoves, Quiet
    <3>5. CASE row'[e] # row[e]
      <4>1. row[e] = "none" /\ row'[e] = "unprocessed"
        BY <2>2, <3>5, <1>h DEF InsertPending, InsertPendingFails, Todo, In, HandlersAreApart, dbVars
      <4> QED  BY <3>1, <4>1 DEF TurnMoves, Opened
    <3> QED  BY <3>4, <3>5
  <2>3. ASSUME NEW p \in Procs, NEW f \in Events,
               PutNowait(p, f) \/ PutRefused(p, f)
        PROVE  FALSE
    BY <2>3 DEF PutNowait, PutRefused
  <2>4. ASSUME NEW p \in Procs, TakeFromQueue(p) \/ EndTask(p)
        PROVE  FALSE
    BY <2>4 DEF TakeFromQueue, EndTask
  <2>5. ASSUME NEW p \in Procs, FetchBatch(p)
        PROVE  Goal
    <3>1. /\ effects' = effects /\ row' = row /\ cur' = cur /\ done' = done /\ task[p] = "idle"
          /\ hand'[p][e] = "todo" => row[e] = "unprocessed"
          /\ \A q \in Procs \ {p} : task'[q] = task[q] /\ hand'[q] = hand[q]
      BY <2>5, <1>h DEF FetchBatch, dbVars, Unprocessed
    <3>2. ~ HadTurn(p, e, s) /\ (TurnDue(p, e, s)' => row[e] # "processed")
      BY <3>1 DEF HadTurn, TurnDue
    <3>3. \A q \in Procs \ {p} : /\ HadTurn(q, e, s)' <=> HadTurn(q, e, s)
                                 /\ TurnDue(q, e, s)' <=> TurnDue(q, e, s)
      BY <3>1, SameTurns
    <3> QED  BY <3>1, <3>2, <3>3, <1>k
  <2>6. ASSUME NEW p \in Procs, NEW f \in Events, StartEvaluation(p, f)
        PROVE  Goal
    <3>1. /\ effects' = effects /\ row' = row /\ task' = task /\ cur[p] = NoEvent
          /\ \A q \in Procs \ {p} : cur'[q] = cur[q] /\ done'[q] = done[q] /\ hand'[q] = hand[q]
      BY <2>6, <1>h DEF StartEvaluation, dbVars
    <3>2. \A q \in Procs \ {p} : /\ HadTurn(q, e, s)' <=> HadTurn(q, e, s)
                                 /\ TurnDue(q, e, s)' <=> TurnDue(q, e, s)
      BY <3>1, SameTurns
    <3>3. CASE f \in stored
      <4>1. hand' = hand /\ done'[p] = {}
        BY <2>6, <3>3, <1>h DEF StartEvaluation
      <4>2. (HadTurn(p, e, s) => HadTurn(p, e, s)') /\ (TurnDue(p, e, s)' => TurnDue(p, e, s))
        BY <3>1, <4>1, <1>h DEF HadTurn, TurnDue
      <4> QED  BY <3>1, <3>2, <4>2, <1>k
    <3>4. CASE f \notin stored
      <4>1. /\ cur' = cur /\ done' = done /\ hand'[p][f] = "ok"
            /\ \A g \in Events \ {f} : hand'[p][g] = hand[p][g]
        BY <2>6, <3>4, <1>h DEF StartEvaluation
      <4>2. (HadTurn(p, e, s) => HadTurn(p, e, s)') /\ (TurnDue(p, e, s)' => TurnDue(p, e, s))
        BY <3>1, <4>1 DEF HadTurn, TurnDue
      <4> QED  BY <3>1, <3>2, <4>2, <1>k
    <3> QED  BY <3>3, <3>4
  <2>7. ASSUME NEW p \in Procs, CommitStep(p)
        PROVE  Goal
    <3>1. PICK x \in NextSteps(cur[p], done[p]) :
            /\ effects' = [effects EXCEPT ![cur[p]][x] = IF x.kind = "severity" THEN 1 ELSE Bump(@)]
            /\ done' = [done EXCEPT ![p] = done[p] \cup {x}]
      BY <2>7 DEF CommitStep
    <3>2. cur' = cur /\ row' = row /\ task' = task /\ hand' = hand /\ cur[p] # NoEvent
      BY <2>7 DEF CommitStep, dbVars
    <3>3. x \in Steps(cur[p]) /\ x \notin done[p]
      BY <3>1 DEF NextSteps
    <3>4. /\ done'[p] = done[p] \cup {x} /\ \A q \in Procs \ {p} : done'[q] = done[q]
          /\ \A q \in Procs \ {p} : /\ HadTurn(q, e, s)' <=> HadTurn(q, e, s)
                                    /\ TurnDue(q, e, s)' <=> TurnDue(q, e, s)
      BY <3>1, <3>2, <1>h, SameTurns
    <3>5. CASE cur[p] = e /\ x = s
      <4>1. effects'[e][s] <= effects[e][s] + 1
        <5>1. effects'[e][s] = IF s.kind = "severity" THEN 1 ELSE Bump(effects[e][s])
          BY <3>1, <3>3, <3>5, <1>h
        <5>2. effects[e][s] \in Nat
          BY <1>h
        <5> QED  BY <5>1, <5>2, PipelineConstants DEF Bump
      <4>2. task[p] = "worker" /\ hand[p][e] = "todo" /\ row[e] # "none"
        BY <3>2, <3>5, <1>w
      <4>3. /\ TurnDue(p, e, s) /\ ~ TurnDue(p, e, s)' /\ ~ HadTurn(p, e, s) /\ HadTurn(p, e, s)'
        BY <3>2, <3>3, <3>4, <3>5, <4>2 DEF HadTurn, TurnDue
      <4> QED  BY <3>2, <3>4, <4>1, <4>2, <4>3 DEF TurnMoves, TurnTaken
    <3>6. CASE ~ (cur[p] = e /\ x = s)
      <4>1. effects'[e][s] = effects[e][s]
        BY <3>1, <3>3, <3>6, <1>h
      <4>2. (HadTurn(p, e, s) => HadTurn(p, e, s)') /\ (TurnDue(p, e, s)' => TurnDue(p, e, s))
        BY <3>2, <3>4 DEF HadTurn, TurnDue
      <4> QED  BY <3>2, <3>4, <4>1, <4>2 DEF TurnMoves, Quiet
    <3> QED  BY <3>5, <3>6
  <2>8. ASSUME NEW p \in Procs, FinishEvaluation(p) \/ RaiseStep(p) \/ FaultStep(p)
        PROVE  Goal
    <3>1. PICK outcome \in {"ok", "failed"} :
            /\ hand' = [hand EXCEPT ![p][cur[p]] = outcome] /\ cur[p] # NoEvent
            /\ cur' = [cur EXCEPT ![p] = NoEvent] /\ done' = [done EXCEPT ![p] = {}]
            /\ effects' = effects /\ row' = row /\ task' = task
            /\ outcome = "failed" => RaiseStep(p) \/ FaultStep(p)
            /\ outcome = "ok" => done[p] = Steps(cur[p])
      BY <2>8 DEF FinishEvaluation, RaiseStep, FaultStep, EndEvaluation, dbVars
    <3>2. cur[p] \in Events /\ task[p] = "worker" /\ hand[p][cur[p]] = "todo" /\ row[cur[p]] # "none"
      BY <3>1, <1>w
    <3>3. /\ cur'[p] = NoEvent /\ hand'[p][cur[p]] = outcome
          /\ \A g \in Events \ {cur[p]} : hand'[p][g] = hand[p][g]
          /\ \A q \in Procs \ {p} : cur'[q] = cur[q] /\ done'[q] = done[q] /\ hand'[q] = hand[q]
      BY <3>1, <3>2, <1>h
    <3>4. \A q \in Procs \ {p} : /\ HadTurn(q, e, s)' <=> HadTurn(q, e, s)
                                 /\ TurnDue(q, e, s)' <=> TurnDue(q, e, s)
      BY <3>1, <3>3, SameTurns
    <3>5. CASE cur[p] = e
      <4>1. outcome = "ok"
        <5>1. ~ FaultStep(p)
          <6>1. faults' = faults /\ faults \in Nat
            BY CalmMoves, PipelineConstants DEF TypeOK, CounterTypes
          <6> QED  BY <6>1 DEF FaultStep
        <5>2. ~ RaiseStep(p)
          <6>1. row[e] # "deleted"
            BY <1>h, <3>2, <3>5 DEF RowsNeedEvents, AllAreStored
          <6> QED  BY <6>1, <3>5, RaiseHasReason
        <5> QED  BY <3>1, <5>1, <5>2
      <4>2. (HadTurn(p, e, s) => HadTurn(p, e, s)') /\ (TurnDue(p, e, s)' => TurnDue(p, e, s))
        BY <3>1, <3>2, <3>3, <3>5, <4>1 DEF HadTurn, TurnDue
      <4> QED  BY <3>1, <3>4, <4>2, <1>k
    <3>6. CASE cur[p] # e
      <4>1. hand'[p][e] = hand[p][e]
        BY <3>3, <3>6
      <4>2. (HadTurn(p, e, s) => HadTurn(p, e, s)') /\ (TurnDue(p, e, s)' => TurnDue(p, e, s))
        BY <3>1, <3>3, <3>6, <4>1 DEF HadTurn, TurnDue
      <4> QED  BY <3>1, <3>4, <4>2, <1>k
    <3> QED  BY <3>5, <3>6
  <2>9. ASSUME NEW p \in Procs, CommitBatch(p)
        PROVE  Goal
    <3>1. /\ effects' = effects /\ cur' = cur /\ done' = done /\ task'[p] = "idle"
          /\ task[p] = "worker" /\ cur[p] = NoEvent
          /\ row'[e] = IF hand[p][e] = "ok" THEN "processed" ELSE row[e]
          /\ \A q \in Procs \ {p} : task'[q] = task[q] /\ hand'[q] = hand[q]
      BY <2>9, <1>h DEF CommitBatch, CommitRows, BatchEvaluated, Release, In
    <3>2. ~ TurnDue(p, e, s)' /\ (HadTurn(p, e, s) => hand[p][e] = "ok")
      BY <3>1, <1>h DEF HadTurn, TurnDue
    <3>3. \A q \in Procs \ {p} : /\ HadTurn(q, e, s)' <=> HadTurn(q, e, s)
                                 /\ TurnDue(q, e, s)' <=> TurnDue(q, e, s)
      BY <3>1, SameTurns
    <3>4. CASE hand[p][e] = "ok"
      <4>1. row[e] # "none" /\ row'[e] = "processed"
        BY <3>1, <3>4 DEF BatchIsJustified
      <4> QED  BY <3>1, <3>2, <3>3, <4>1 DEF TurnMoves, Closed
    <3>5. CASE hand[p][e] # "ok"
      BY <3>1, <3>2, <3>3, <3>5 DEF TurnMoves, Quiet
    <3> QED  BY <3>4, <3>5
  <2>10. ASSUME NEW p \in Procs, RollbackBatch(p)
         PROVE  FALSE
    <3>1. faults' = faults /\ faults \in Nat
      BY CalmMoves, PipelineConstants DEF TypeOK, CounterTypes
    <3>2. RowGone(p)
      BY <2>10, <3>1 DEF RollbackBatch
    <3> QED  BY <3>2 DEF RowGone, In, RowsNeedEvents, AllAreStored
  <2>11. ASSUME NEW p \in Procs, NEW f \in Events, RetryPut(p, f) \/ DropEvent(p, f)
         PROVE  Goal
    BY <2>11, <1>k, SameTurns DEF RetryPut, DropEvent, dbVars, loopVars
  <2>12. ASSUME NEW p \in Procs, Crash(p)
         PROVE  FALSE
    <3>1. crashes' = crashes /\ crashes \in Nat
      BY CalmMoves, PipelineConstants DEF TypeOK, CounterTypes
    <3> QED  BY <2>12, <3>1 DEF Crash
  <2>13. CASE Prune
    <3>1. prunes' = prunes /\ prunes \in Nat
      BY CalmMoves, PipelineConstants DEF TypeOK, CounterTypes
    <3> QED  BY <2>13, <3>1 DEF Prune
  <2> HIDE DEF Goal
  <2> QED
    BY <1>2, <2>1, <2>2, <2>3, <2>4, <2>5, <2>6, <2>7, <2>8, <2>9, <2>10, <2>11, <2>12, <2>13,
       NextCases, Zenon
<1> QED  BY <1>1, <1>2

\* The turns of every event stay within bounds.
LEMMA TurnStep ==
  ASSUME IInv, CalmInv, TurnInv, [Next]_vars
  PROVE  TurnInv'
<1>1. mode' = mode
  BY ModeStays
<1> SUFFICES ASSUME mode = "db", Calm', NEW e \in Events, e \notin Poisoned, NEW s \in Steps(e)
             PROVE  TurnsOf(e, s)'
  BY <1>1 DEF TurnInv
<1>2. Calm /\ AllAreStored
  BY CalmMoves DEF CalmInv
<1>3. TurnsOf(e, s) /\ TurnMoves(e, s)
  BY <1>2, TurnsFollow DEF TurnInv
<1>4. row[e] # "deleted"
  BY <1>2 DEF IInv, RowsNeedEvents, AllAreStored
<1>5. effects'[e][s] \in Nat
  BY InvStep, PipelineConstants DEF IInv, TypeOK, EffectTypes
<1> QED  BY <1>3, <1>4, <1>5, MovesKeepTurns

\* What they amount to
LEMMA TurnsMean ==
  ASSUME IInv, CalmInv, TurnInv, AtMostOnceOutsideDb
  PROVE  EvaluationsAreBounded
<1> SUFFICES ASSUME Calm, NEW e \in Events, e \notin Poisoned, NEW s \in Steps(e)
             PROVE  effects[e][s] <= Cardinality(Procs)
  BY DEF EvaluationsAreBounded, OneEvaluationPerProcess
<1>1. effects[e][s] \in Nat
  BY DEF IInv, TypeOK, EffectTypes
<1>2. CASE mode # "db"
  <2>1. effects[e][s] <= 1
    BY <1>2 DEF AtMostOnceOutsideDb
  <2>2. Cardinality(Procs) \in Nat /\ Cardinality(Procs) # 0
    BY PipelineConstants, FS_CardinalityType, FS_EmptySet
  <2> QED  BY <1>1, <2>1, <2>2
<1>3. CASE mode = "db"
  <2>1. TurnsOf(e, s)
    BY <1>3 DEF TurnInv
  <2>2. row[e] \in {"none", "unprocessed", "processed"}
    BY DEF IInv, TypeOK, DbTypes, RowStates, RowsNeedEvents, CalmInv, AllAreStored
  <2> DEFINE c == Cardinality(HadTurns(e, s))
             d == Cardinality(TurnsDue(e, s))
             n == Cardinality(Procs)
             k == effects[e][s]
  <2>3. c \in Nat /\ d \in Nat /\ n \in Nat /\ c + d <= n
    BY TurnsAreFinite
  <2>4. k = 0 \/ k <= c \/ k + d <= n
    BY <2>1, <2>2 DEF TurnsOf
  <2>5. k \in Nat
    BY <1>1
  <2> HIDE DEF c, d, n, k
  <2>6. k <= n
    BY <2>3, <2>4, <2>5
  <2> QED  BY <2>6 DEF n, k
<1> QED  BY <1>2, <1>3

\* No event is evaluated more often than it should be: no commit of an evaluation
\* is made twice outside mode db, and in mode db, where no lock keeps two workers
\* from fetching the same row, at most once per backend process while nothing fails
\* (process_event_queue, process_db_event_queue, ingest_event, ingest_network_bulk).
THEOREM BoundsCorrect == Spec => []EvaluationsAreBounded
<1>1. Init => OnePlace /\ EffectsFollow /\ AtMostOnceOutsideDb
  <2> SUFFICES ASSUME Init  PROVE OnePlace /\ EffectsFollow /\ AtMostOnceOutsideDb
    OBVIOUS
  <2>1. /\ \A p \in Procs : /\ queue[p] = <<>> /\ cur[p] = NoEvent
                            /\ \A e \in Events : hand[p][e] = "out" /\ waiting[p][e] = 0
        /\ \A e \in Events : row[e] = "none" /\ \A s \in Steps(e) : effects[e][s] = 0
    BY DEF Init, Empty
  <2>2. \A p \in Procs : Distinct(queue[p]) /\ \A e \in Events : ~ Queued(p, e)
    BY <2>1 DEF Distinct, Queued, Among
  <2>3. OnePlace
    BY <2>1, <2>2 DEF OnePlace, OneOf, Has
  <2>4. EffectsFollow
    BY <2>1, PipelineConstants DEF EffectsFollow
  <2>5. AtMostOnceOutsideDb
    BY <2>1 DEF AtMostOnceOutsideDb
  <2> QED  BY <2>3, <2>4, <2>5
<1>2. Init => CalmInv /\ TurnInv
  BY DEF Init, CalmInv, AllAreStored, NothingIsForgotten, TurnInv, TurnsOf
<1> QED
  BY <1>1, <1>2, InvInit, InvStep, KnownInit, KnownStep, CalmStep, OnePlaceStep, EffectsFollowStep,
     OnceStep, TurnStep, TurnsMean, PTL DEF Spec
=============================================================================
