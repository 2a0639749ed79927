------------------------ MODULE EmailProtectionProofs ------------------------
(***************************************************************************)
(* Theorems about EmailProtection, for every set of threads, messages,     *)
(* mails and policies and every value of the bounds.                       *)
(*                                                                         *)
(* The webhook, the connectors and the gateway share the threads and       *)
(* little else, so each part has an inductive invariant of its own: what   *)
(* a property says of the tables, and what the requests under way hold     *)
(* of it.                                                                  *)
(***************************************************************************)
EXTENDS EmailProtection, TLAPS

Box == Gmail \cup Graph

-----------------------------------------------------------------------------
(***************************************************************************)
(* Case analysis of Next, stated once.                                     *)
(***************************************************************************)
LEMMA NextCases ==
  ASSUME Next
  PROVE  \/ \E p \in Providers : Arrives(p)
         \/ \E t \in Threads :
              \/ \E p \in Providers : \/ LinkMailbox(t, p) \/ RefuseSync(t, p)
                                      \/ \E attachments \in BOOLEAN : BeginSync(t, p, attachments)
              \/ SaveCursor(t) \/ SubscribeWatch(t)
              \/ StoreMessage(t) \/ StoreAssessment(t) \/ EndSync(t)
              \/ \E m \in Box : BeginRescan(t, m)
              \/ EndRescan(t) \/ CreatePolicy(t)
              \/ \E mail \in Mails : BeginIngest(t, mail)
              \/ RecordMessage(t) \/ EnqueueMessage(t) \/ CreateQuarantine(t) \/ RecordSiemEvent(t)
              \/ \E id \in DOMAIN messages : ReleaseQuarantine(t, id)
              \/ ThreadFails(t)
         \/ HookReads \/ HookEnds \/ HookBegins \/ HookFails
         \/ Crash
  BY Zenon DEF Next, Connector, Gateway, Hook, Box

-----------------------------------------------------------------------------
(***************************************************************************)
(* What the requests under way know, and the tables.                       *)
(***************************************************************************)
SyncJobs   == [at : {"message", "assess"}, p : Providers, todo : Nat, attachments : BOOLEAN,
               listed : SUBSET Box]
IngestJobs == [at : {"enqueue", "quarantine", "received", "released"}, id : Nat]

Messages == [mail : Mails, verdict : {"allowed", "quarantined", "blocked"},
             held : {"no", "quarantined", "released"}, queued : BOOLEAN,
             events : SUBSET {"received", "released"}]

JobType(job) ==
  /\ job.at \in {"message", "assess"} => job \in SyncJobs
  /\ job.at = "assess" => job.todo > 0
  /\ job.at \in {"enqueue", "quarantine", "received", "released"} => job \in IngestJobs
  /\ job.at = "link" => job.id \in Nat
  /\ job.at = "rescan" => job.m \in Box /\ job.row \in {"bare", "whole"}
  /\ job.at = "record" => job.mail \in Mails

ThreadTypes == DOMAIN thread = Threads /\ \A t \in Threads : JobType(thread[t])

TableTypes ==
  /\ inbox \in [Providers -> Seq(Box)]
  /\ rows \in [Box -> {"none", "bare", "whole"}]
  /\ DOMAIN verdicts = Box
  /\ mailbox \in [Providers -> [ok : BOOLEAN, listed : SUBSET Box]]
  /\ messages \in Seq(Messages)

Types == ThreadTypes /\ TableTypes

\* A thread that comes to do a job of its type leaves the others alone.
LEMMA JobStep ==
  ASSUME ThreadTypes, NEW t \in Threads, NEW job, JobType(job),
         thread' = [thread EXCEPT ![t] = job]
  PROVE  ThreadTypes'
  BY DEF ThreadTypes, JobType

\* An idle thread holds nothing.
LEMMA IdleType == JobType(Idle)
  BY DEF JobType, Idle

\* What an update of one column makes of the messages
LEMMA MessageTypes ==
  ASSUME messages \in Seq(Messages), NEW id \in DOMAIN messages, NEW row \in Messages,
         messages' = [messages EXCEPT ![id] = row]
  PROVE  /\ messages' \in Seq(Messages) /\ DOMAIN messages' = DOMAIN messages
         /\ messages'[id] = row
         /\ \A k \in DOMAIN messages : k # id => messages'[k] = messages[k]
  OBVIOUS

\* The ingest of a message knows it by its number.
IdsExist ==
  \A t \in Threads : thread[t].at \in {"enqueue", "quarantine", "received", "released"} =>
    thread[t].id \in DOMAIN messages

TInv == Types /\ IdsExist

\* A step that changes no message
LEMMA MessagesStay ==
  ASSUME TInv, messages' = messages, NEW t \in Threads, NEW job, JobType(job),
         thread' = [thread EXCEPT ![t] = job],
         job.at \in {"enqueue", "quarantine", "received", "released"} =>
           thread[t].at \in {"enqueue", "quarantine", "received", "released"} /\ job.id = thread[t].id
  PROVE  ThreadTypes' /\ IdsExist' /\ (messages \in Seq(Messages))'
<1>1. ThreadTypes'
  BY JobStep DEF TInv, Types
<1>2. IdsExist'
  BY DEF TInv, Types, ThreadTypes, IdsExist
<1> QED  BY <1>1, <1>2 DEF TInv, Types, TableTypes

\* A step of the ingest or the release of message id, which changes one column of it
LEMMA MessageChanges ==
  ASSUME TInv, NEW t \in Threads, NEW job, JobType(job), thread' = [thread EXCEPT ![t] = job],
         NEW id \in DOMAIN messages, NEW row \in Messages, messages' = [messages EXCEPT ![id] = row],
         job.at \in {"enqueue", "quarantine", "received", "released"} => job.id = id
  PROVE  ThreadTypes' /\ IdsExist' /\ (messages \in Seq(Messages))'
<1>1. ThreadTypes'
  BY JobStep DEF TInv, Types
<1>2. messages' \in Seq(Messages) /\ DOMAIN messages' = DOMAIN messages
  BY MessageTypes DEF TInv, Types, TableTypes
<1>3. IdsExist'
  BY <1>2 DEF TInv, Types, ThreadTypes, IdsExist
<1> QED  BY <1>1, <1>2, <1>3

\* What the ingest and the release of a message make of it
LEMMA ColumnChanges ==
  ASSUME TInv, NEW t \in Threads
  PROVE  /\ EnqueueMessage(t) =>
              /\ thread[t].at = "enqueue" /\ thread[t] \in IngestJobs /\ thread[t].id \in DOMAIN messages
              /\ messages' = [messages EXCEPT ![thread[t].id] = [messages[thread[t].id] EXCEPT !.queued = TRUE]]
              /\ thread' = [thread EXCEPT ![t] = [thread[t] EXCEPT
                   !.at = IF messages[thread[t].id].verdict \in {"quarantined", "blocked"}
                          THEN "quarantine" ELSE "received"]]
         /\ CreateQuarantine(t) =>
              /\ thread[t].at = "quarantine" /\ thread[t] \in IngestJobs /\ thread[t].id \in DOMAIN messages
              /\ messages' = [messages EXCEPT ![thread[t].id] = [messages[thread[t].id] EXCEPT !.held = "quarantined"]]
              /\ thread' = [thread EXCEPT ![t] = [thread[t] EXCEPT !.at = "received"]]
         /\ RecordSiemEvent(t) =>
              /\ thread[t].at \in {"received", "released"}
              /\ thread[t] \in IngestJobs /\ thread[t].id \in DOMAIN messages
              /\ messages' = [messages EXCEPT ![thread[t].id] =
                   [messages[thread[t].id] EXCEPT !.events = @ \cup {thread[t].at}]]
              /\ thread' = [thread EXCEPT ![t] = Idle]
         /\ \A id \in DOMAIN messages : ReleaseQuarantine(t, id) =>
              /\ messages[id].held # "no"
              /\ messages' = [messages EXCEPT ![id] = [messages[id] EXCEPT !.held = "released"]]
              /\ thread' = [thread EXCEPT ![t] = [at |-> "released", id |-> id]]
<1> USE DEF TInv, Types, ThreadTypes, JobType, IdsExist
<1>1. ASSUME EnqueueMessage(t)
      PROVE  /\ thread[t].at = "enqueue" /\ thread[t] \in IngestJobs /\ thread[t].id \in DOMAIN messages
             /\ messages' = [messages EXCEPT ![thread[t].id] = [messages[thread[t].id] EXCEPT !.queued = TRUE]]
             /\ thread' = [thread EXCEPT ![t] = [thread[t] EXCEPT
                   !.at = IF messages[thread[t].id].verdict \in {"quarantined", "blocked"}
                          THEN "quarantine" ELSE "received"]]
  <2>1. thread[t].at = "enqueue"
    BY <1>1 DEF EnqueueMessage
  <2> QED  BY <1>1, <2>1 DEF EnqueueMessage, Goes
<1>2. ASSUME CreateQuarantine(t)
      PROVE  /\ thread[t].at = "quarantine" /\ thread[t] \in IngestJobs /\ thread[t].id \in DOMAIN messages
             /\ messages' = [messages EXCEPT ![thread[t].id] = [messages[thread[t].id] EXCEPT !.held = "quarantined"]]
             /\ thread' = [thread EXCEPT ![t] = [thread[t] EXCEPT !.at = "received"]]
  <2>1. thread[t].at = "quarantine"
    BY <1>2 DEF CreateQuarantine
  <2> QED  BY <1>2, <2>1 DEF CreateQuarantine, Goes
<1>3. ASSUME RecordSiemEvent(t)
      PROVE  /\ thread[t].at \in {"received", "released"}
             /\ thread[t] \in IngestJobs /\ thread[t].id \in DOMAIN messages
             /\ messages' = [messages EXCEPT ![thread[t].id] =
                  [messages[thread[t].id] EXCEPT !.events = @ \cup {thread[t].at}]]
             /\ thread' = [thread EXCEPT ![t] = Idle]
  <2>1. thread[t].at \in {"received", "released"}
    BY <1>3 DEF RecordSiemEvent
  <2> QED  BY <1>3, <2>1 DEF RecordSiemEvent, Ends, Goes
<1>4. ASSUME NEW id \in DOMAIN messages, ReleaseQuarantine(t, id)
      PROVE  /\ messages[id].held # "no"
             /\ messages' = [messages EXCEPT ![id] = [messages[id] EXCEPT !.held = "released"]]
             /\ thread' = [thread EXCEPT ![t] = [at |-> "released", id |-> id]]
  BY <1>4 DEF ReleaseQuarantine, Begin
<1> QED  BY <1>1, <1>2, <1>3, <1>4, Zenon

\* Every step keeps the types and the numbers.
LEMMA TypeStep ==
  ASSUME TInv, [Next]_vars
  PROVE  TInv'
<1> USE DEF TInv, Types
<1>h. ThreadTypes /\ TableTypes /\ IdsExist
  OBVIOUS
<1>d. /\ DOMAIN thread = Threads /\ messages \in Seq(Messages)
      /\ \A k \in DOMAIN messages : messages[k] \in Messages /\ k \in Nat
  BY DEF ThreadTypes, TableTypes
<1>1. CASE UNCHANGED vars
  BY <1>1 DEF vars, connectors, gateway, ThreadTypes, TableTypes, IdsExist
<1>2. CASE Next
  <2> DEFINE Goal == TInv'
  <2> SUFFICES Goal
    OBVIOUS
  <2>1. ASSUME NEW p \in Providers, Arrives(p)
        PROVE  Goal
    <3>1. PICK m \in Box : inbox' = [inbox EXCEPT ![p] = Append(inbox[p], m)]
      <4>1. MayReach[p] \subseteq Box
        BY DEF MayReach, Providers, Box
      <4> QED  BY <2>1, <4>1 DEF Arrives
    <3>2. inbox' \in [Providers -> Seq(Box)]
      <4>1. inbox[p] \in Seq(Box) /\ Append(inbox[p], m) \in Seq(Box)
        BY DEF TableTypes
      <4> QED  BY <3>1, <4>1 DEF TableTypes
    <3>3. UNCHANGED <<rows, verdicts, mailbox, messages, thread>>
      BY <2>1 DEF Arrives, gateway
    <3> QED  BY <3>2, <3>3 DEF ThreadTypes, TableTypes, IdsExist
  <2>2. ASSUME NEW t \in Threads,
               \/ \E p \in Providers : LinkMailbox(t, p) \/ RefuseSync(t, p)
               \/ SubscribeWatch(t) \/ CreatePolicy(t)
               \/ \E m \in Box : BeginRescan(t, m)
               \/ \E mail \in Mails : BeginIngest(t, mail)
        PROVE  Goal
    <3>1. /\ UNCHANGED <<inbox, rows, verdicts, messages>>
          /\ mailbox' = mailbox \/ \E p \in Providers : mailbox' = [mailbox EXCEPT ![p] = NotSynced]
      BY <2>2 DEF LinkMailbox, RefuseSync, SubscribeWatch, BeginRescan, CreatePolicy, BeginIngest,
         connectors, gateway
    <3>2. TableTypes'
      <4>1. NotSynced \in [ok : BOOLEAN, listed : SUBSET Box]
        BY DEF NotSynced
      <4>2. mailbox' \in [Providers -> [ok : BOOLEAN, listed : SUBSET Box]]
        BY <3>1, <4>1 DEF TableTypes
      <4> QED  BY <3>1, <4>2 DEF TableTypes
    <3>3. PICK job : /\ thread' = [thread EXCEPT ![t] = job]
                     /\ \/ job = [at |-> "link", id |-> HistoryId] \/ job = Idle
                        \/ \E m \in Box : job = [at |-> "rescan", m |-> m, row |-> rows[m]] /\ rows[m] # "none"
                        \/ \E mail \in Mails : job = [at |-> "record", mail |-> mail, policies |-> policies]
      BY <2>2 DEF LinkMailbox, RefuseSync, SubscribeWatch, BeginRescan, CreatePolicy, BeginIngest, Begin
    <3>4. JobType(job) /\ job.at \notin {"enqueue", "quarantine", "received", "released"}
      <4>1. HistoryId \in Nat
        BY DEF HistoryId, TableTypes, Providers
      <4> QED  BY <3>3, <4>1 DEF JobType, TableTypes, Idle
    <3> QED  BY <3>1, <3>2, <3>3, <3>4, MessagesStay
  <2>3. ASSUME NEW t \in Threads, NEW p \in Providers, NEW attachments \in BOOLEAN,
               BeginSync(t, p, attachments)
        PROVE  Goal
    <3>1. UNCHANGED <<inbox, rows, verdicts, mailbox, messages>>
      BY <2>3 DEF BeginSync, connectors, gateway
    <3> DEFINE job == [at |-> "message", p |-> p, todo |-> Len(inbox[p]), attachments |-> attachments,
                       listed |-> {inbox[p][i] : i \in DOMAIN inbox[p]}]
    <3>2. thread' = [thread EXCEPT ![t] = job]
      BY <2>3 DEF BeginSync, Begin
    <3>3. JobType(job) /\ job.at = "message"
      <4>1. Len(inbox[p]) \in Nat /\ {inbox[p][i] : i \in DOMAIN inbox[p]} \subseteq Box
        BY DEF TableTypes
      <4> QED  BY <4>1 DEF JobType, SyncJobs
    <3> HIDE DEF job
    <3> QED  BY <3>1, <3>2, <3>3, MessagesStay DEF TableTypes
  <2>4. ASSUME NEW t \in Threads, SaveCursor(t) \/ EndSync(t) \/ EndRescan(t) \/ ThreadFails(t)
        PROVE  Goal
    <3>1. thread' = [thread EXCEPT ![t] = Idle] /\ UNCHANGED <<inbox, rows, messages>>
      BY <2>4 DEF SaveCursor, EndSync, EndRescan, ThreadFails, Ends, Goes, AfterSyncError,
         connectors, gateway
    <3>2. DOMAIN verdicts' = Box /\ mailbox' \in [Providers -> [ok : BOOLEAN, listed : SUBSET Box]]
      <4>1. CASE EndSync(t)
        <5> DEFINE new == [ok |-> TRUE, listed |-> thread[t].listed]
        <5>1. thread[t] \in SyncJobs /\ mailbox' = [mailbox EXCEPT ![thread[t].p] = new] /\ verdicts' = verdicts
          BY <4>1 DEF EndSync, ThreadTypes, JobType
        <5>2. new \in [ok : BOOLEAN, listed : SUBSET Box]
          BY <5>1 DEF SyncJobs
        <5> HIDE DEF new
        <5> QED  BY <5>1, <5>2 DEF TableTypes, SyncJobs
      <4>2. CASE SaveCursor(t) \/ EndRescan(t) \/ ThreadFails(t)
        BY <4>2 DEF SaveCursor, EndRescan, ThreadFails, UpsertAssessment, connectors, TableTypes
      <4> QED  BY <2>4, <4>1, <4>2
    <3> QED  BY <3>1, <3>2, IdleType, MessagesStay DEF TableTypes, Idle
  <2>5. ASSUME NEW t \in Threads, StoreMessage(t) \/ StoreAssessment(t)
        PROVE  Goal
    <3>1. thread[t].at \in {"message", "assess"} /\ thread[t] \in SyncJobs /\ (thread[t].at = "message" => thread[t].todo > 0)
      BY <2>5 DEF StoreMessage, StoreAssessment, ThreadTypes, JobType
    <3>2. UNCHANGED <<inbox, mailbox, messages>>
      BY <2>5 DEF StoreMessage, StoreAssessment, gateway
    <3>3. rows' \in [Box -> {"none", "bare", "whole"}] /\ DOMAIN verdicts' = Box
      BY <2>5 DEF StoreMessage, StoreAssessment, UpsertAssessment, TableTypes
    <3>4. ASSUME NEW job \in SyncJobs, job.at = "assess" => job.todo > 0, thread' = [thread EXCEPT ![t] = job]
          PROVE  ThreadTypes' /\ IdsExist' /\ (messages \in Seq(Messages))'
      <4>1. JobType(job) /\ job.at \notin {"enqueue", "quarantine", "received", "released"}
        BY <3>4 DEF JobType, SyncJobs
      <4> QED  BY <3>2, <3>4, <4>1, MessagesStay
    <3>5. CASE StoreMessage(t)
      <4>1. LET job == [thread[t] EXCEPT !.at = "assess"] IN job \in SyncJobs /\ job.todo > 0
        BY <3>1, <3>5 DEF SyncJobs, StoreMessage
      <4>2. thread' = [thread EXCEPT ![t] = [thread[t] EXCEPT !.at = "assess"]]
        BY <3>5 DEF StoreMessage, Goes
      <4> QED  BY <3>2, <3>3, <3>4, <4>1, <4>2 DEF TableTypes
    <3>6. CASE StoreAssessment(t)
      <4>1. thread[t].at = "assess" /\ thread[t].todo > 0
        BY <3>6 DEF StoreAssessment, ThreadTypes, JobType
      <4> DEFINE n == thread[t].todo - 1
                 job == [thread[t] EXCEPT !.at = "message", !.todo = n]
      <4>2. thread' = [thread EXCEPT ![t] = job]
        BY <3>6 DEF StoreAssessment, Goes
      <4>3. n \in Nat
        BY <3>1, <4>1 DEF SyncJobs
      <4> HIDE DEF n
      <4>4. job \in SyncJobs /\ job.at = "message"
        BY <3>1, <4>3 DEF SyncJobs
      <4> HIDE DEF job
      <4> QED  BY <3>2, <3>3, <3>4, <4>2, <4>4 DEF TableTypes
    <3> QED  BY <2>5, <3>5, <3>6
  <2>6. ASSUME NEW t \in Threads, RecordMessage(t)
        PROVE  Goal
    <3> DEFINE row == [mail |-> thread[t].mail, verdict |-> MailVerdict(thread[t].mail, thread[t].policies),
                       held |-> "no", queued |-> FALSE, events |-> {}]
               job == [at |-> "enqueue", id |-> Len(messages) + 1]
    <3>1. /\ thread[t].at = "record" /\ messages' = Append(messages, row)
          /\ thread' = [thread EXCEPT ![t] = job] /\ UNCHANGED <<inbox, rows, verdicts, mailbox>>
      BY <2>6 DEF RecordMessage, Goes, connectors
    <3>2. row \in Messages
      BY <3>1 DEF ThreadTypes, JobType, Messages, MailVerdict
    <3> HIDE DEF row
    <3>3. /\ messages' \in Seq(Messages) /\ DOMAIN messages \subseteq DOMAIN messages'
          /\ Len(messages) + 1 \in DOMAIN messages'
      BY <3>1, <3>2, <1>d
    <3>4. JobType(job)
      BY <1>d DEF JobType, IngestJobs
    <3>5. job.id \in DOMAIN messages'
      BY <3>3
    <3> HIDE DEF job
    <3>6. ThreadTypes'
      BY <3>1, <3>4, JobStep
    <3>7. IdsExist'
      BY <3>1, <3>3, <3>5, <1>d DEF IdsExist
    <3> QED  BY <3>1, <3>3, <3>6, <3>7 DEF TableTypes
  <2>7. ASSUME NEW t \in Threads, EnqueueMessage(t)
        PROVE  Goal
    <3> DEFINE id == thread[t].id
               row == [messages[id] EXCEPT !.queued = TRUE]
    <3> DEFINE job == [thread[t] EXCEPT !.at = IF messages[id].verdict \in {"quarantined", "blocked"}
                                               THEN "quarantine" ELSE "received"]
    <3>1. /\ id \in DOMAIN messages /\ messages' = [messages EXCEPT ![id] = row]
          /\ thread' = [thread EXCEPT ![t] = job] /\ thread[t] \in IngestJobs
      BY <2>7, ColumnChanges
    <3>4. JobType(job) /\ job.id = id
      BY <3>1 DEF JobType, IngestJobs
    <3>2. row \in Messages
      <4>1. \A m \in Messages : [m EXCEPT !.queued = TRUE] \in Messages
        BY DEF Messages
      <4> QED  BY <3>1, <4>1, <1>d
    <3>3. UNCHANGED <<inbox, rows, verdicts, mailbox>>
      BY <2>7 DEF EnqueueMessage, connectors
    <3> HIDE DEF id, row, job
    <3> QED  BY <3>1, <3>2, <3>3, <3>4, MessageChanges DEF TableTypes
  <2>8. ASSUME NEW t \in Threads, CreateQuarantine(t)
        PROVE  Goal
    <3> DEFINE id == thread[t].id
               row == [messages[id] EXCEPT !.held = "quarantined"]
    <3> DEFINE job == [thread[t] EXCEPT !.at = "received"]
    <3>1. /\ id \in DOMAIN messages /\ messages' = [messages EXCEPT ![id] = row]
          /\ thread' = [thread EXCEPT ![t] = job] /\ thread[t] \in IngestJobs
      BY <2>8, ColumnChanges
    <3>4. JobType(job) /\ job.id = id
      BY <3>1 DEF JobType, IngestJobs
    <3>2. row \in Messages
      <4>1. \A m \in Messages : [m EXCEPT !.held = "quarantined"] \in Messages
        BY DEF Messages
      <4> QED  BY <3>1, <4>1, <1>d
    <3>3. UNCHANGED <<inbox, rows, verdicts, mailbox>>
      BY <2>8 DEF CreateQuarantine, connectors
    <3> HIDE DEF id, row, job
    <3> QED  BY <3>1, <3>2, <3>3, <3>4, MessageChanges DEF TableTypes
  <2>9. ASSUME NEW t \in Threads, RecordSiemEvent(t)
        PROVE  Goal
    <3> DEFINE id == thread[t].id
               row == [messages[id] EXCEPT !.events = @ \cup {thread[t].at}]
    <3>1. /\ id \in DOMAIN messages /\ messages' = [messages EXCEPT ![id] = row]
          /\ thread' = [thread EXCEPT ![t] = Idle] /\ thread[t].at \in {"received", "released"}
      BY <2>9, ColumnChanges
    <3>2. row \in Messages
      <4>1. \A m \in Messages : \A x \in {"received", "released"} :
              [m EXCEPT !.events = @ \cup {x}] \in Messages
        BY DEF Messages
      <4> QED  BY <3>1, <4>1, <1>d
    <3>3. UNCHANGED <<inbox, rows, verdicts, mailbox>> /\ Idle.at = "idle"
      BY <2>9 DEF RecordSiemEvent, connectors, Idle
    <3> HIDE DEF id, row
    <3> QED  BY <3>1, <3>2, <3>3, IdleType, MessageChanges DEF TableTypes
  <2>10. ASSUME NEW t \in Threads, NEW id \in DOMAIN messages, ReleaseQuarantine(t, id)
         PROVE  Goal
    <3> DEFINE row == [messages[id] EXCEPT !.held = "released"]
               job == [at |-> "released", id |-> id]
    <3>1. messages' = [messages EXCEPT ![id] = row] /\ thread' = [thread EXCEPT ![t] = job]
      BY <2>10, ColumnChanges
    <3>2. row \in Messages
      <4>1. \A m \in Messages : [m EXCEPT !.held = "released"] \in Messages
        BY DEF Messages
      <4> QED  BY <4>1, <1>d
    <3>4. JobType(job) /\ job.id = id
      BY <1>d DEF JobType, IngestJobs
    <3>3. UNCHANGED <<inbox, rows, verdicts, mailbox>>
      BY <2>10 DEF ReleaseQuarantine, connectors
    <3> HIDE DEF row, job
    <3> QED  BY <3>1, <3>2, <3>3, <3>4, MessageChanges DEF TableTypes
  <2>11. CASE HookReads \/ HookEnds \/ HookBegins \/ HookFails
    <3>1. UNCHANGED <<inbox, rows, verdicts, mailbox, messages, thread>>
      BY <2>11 DEF HookReads, HookEnds, HookBegins, HookFails, connectors, gateway
    <3> QED  BY <3>1 DEF ThreadTypes, TableTypes, IdsExist
  <2>12. CASE Crash
    <3>1. UNCHANGED <<inbox, rows, verdicts, mailbox, messages>> /\ thread' = [t \in Threads |-> Idle]
      BY <2>12 DEF Crash, connectors
    <3> QED  BY <3>1, IdleType DEF ThreadTypes, TableTypes, IdsExist, Idle
  <2> HIDE DEF Goal
  <2> QED
    BY <1>2, <2>1, <2>2, <2>3, <2>4, <2>5, <2>6, <2>7, <2>8, <2>9, <2>10, <2>11, <2>12, NextCases, Zenon
<1> QED  BY <1>1, <1>2

\* The initial states have these types.
LEMMA TypeInit == Init => TInv
<1> SUFFICES ASSUME Init  PROVE TInv
  OBVIOUS
<1>1. ThreadTypes /\ IdsExist
  BY IdleType DEF Init, ThreadTypes, IdsExist, Idle
<1>2. TableTypes
  <2>1. NotSynced \in [ok : BOOLEAN, listed : SUBSET Box]
    BY DEF NotSynced
  <2>2. mailbox \in [Providers -> [ok : BOOLEAN, listed : SUBSET Box]]
    BY <2>1 DEF Init
  <2> QED  BY <2>2 DEF Init, TableTypes, Box
<1> QED  BY <1>1, <1>2 DEF TInv, Types

-----------------------------------------------------------------------------
(***************************************************************************)
(* The webhook.                                                            *)
(***************************************************************************)
Settled(i) == i \in analysed \cup cutoff \cup jumped

\* A call that analyses has read every change between the cursor as it was and
\* the announced one; what lay behind the cursor then was settled.
CallIsSound ==
  /\ hook # Idle => hook.id \in Nat
  /\ hook.at = "analyse" =>
       /\ hook.last \in Nat
       /\ \A i \in 1 .. hook.last - 1 : Settled(i)
       /\ \A i \in hook.last .. hook.id - 1 : i \in hook.changed

PushInv ==
  /\ cursor \in Nat
  /\ \A id \in notices : id \in Nat /\ id <= HistoryId
  /\ CallIsSound
  /\ NothingSkipped

\* Nothing is unsettled again.
LEMMA StaySettled ==
  ASSUME [Next]_vars
  PROVE  \A i : Settled(i) => Settled(i)'
<1> DEFINE Goal == analysed \subseteq analysed' /\ cutoff \subseteq cutoff' /\ jumped \subseteq jumped'
<1> SUFFICES Goal
  BY DEF Settled
<1>1. CASE UNCHANGED <<analysed, cutoff, jumped>>
  BY <1>1
<1>2. CASE Next
  <2>1. ASSUME NEW p \in Providers, Arrives(p)
        PROVE  Goal
    BY <2>1 DEF Arrives, pushes
  <2>2. ASSUME NEW t \in Threads,
               \/ \E p \in Providers : \/ LinkMailbox(t, p) \/ RefuseSync(t, p)
                                       \/ \E attachments \in BOOLEAN : BeginSync(t, p, attachments)
               \/ SubscribeWatch(t) \/ CreatePolicy(t)
               \/ \E m \in Box : BeginRescan(t, m)
               \/ \E mail \in Mails : BeginIngest(t, mail)
        PROVE  Goal
    BY <2>2 DEF LinkMailbox, RefuseSync, BeginSync, SubscribeWatch, CreatePolicy, BeginRescan,
       BeginIngest, pushes
  <2>3. ASSUME NEW t \in Threads, SaveCursor(t)
        PROVE  Goal
    BY <2>3 DEF SaveCursor, Jumped
  <2>4. ASSUME NEW t \in Threads,
               \/ StoreMessage(t) \/ StoreAssessment(t) \/ EndSync(t) \/ EndRescan(t)
               \/ RecordMessage(t) \/ EnqueueMessage(t) \/ CreateQuarantine(t) \/ RecordSiemEvent(t)
               \/ \E id \in DOMAIN messages : ReleaseQuarantine(t, id)
               \/ ThreadFails(t)
        PROVE  Goal
    BY <2>4 DEF StoreMessage, StoreAssessment, EndSync, EndRescan, RecordMessage, EnqueueMessage,
       CreateQuarantine, RecordSiemEvent, ReleaseQuarantine, ThreadFails, pushes
  <2>5. CASE HookReads \/ HookEnds \/ HookBegins \/ HookFails
    BY <2>5 DEF HookReads, HookEnds, HookBegins, HookFails, Jumped
  <2>6. CASE Crash
    BY <2>6 DEF Crash
  <2> HIDE DEF Goal
  <2> QED  BY <1>2, NextCases, <2>1, <2>2, <2>3, <2>4, <2>5, <2>6
<1> QED  BY <1>1, <1>2 DEF vars, pushes

\* The webhook, and whoever places the cursor, keep what is settled behind it.
LEMMA PushStep ==
  ASSUME TInv, PushInv, [Next]_vars
  PROVE  PushInv'
<1> USE DEF PushInv
<1>s. \A i : Settled(i) => Settled(i)'
  BY StaySettled
<1>i. inbox \in [Providers -> Seq(Box)] /\ "google" \in Providers
  BY DEF TInv, Types, TableTypes, Providers
<1>h. HistoryId \in Nat /\ inbox["google"] \in Seq(Box)
  BY <1>i DEF HistoryId
<1>l. \A t \in Threads : thread[t].at = "link" => thread[t].id \in Nat
  BY DEF TInv, Types, ThreadTypes, JobType
<1>u. ASSUME UNCHANGED <<inbox, notices, cursor, hook, analysed, cutoff, jumped>>
      PROVE  PushInv'
  BY <1>u DEF HistoryId, CallIsSound, Settled, NothingSkipped
<1>1. CASE UNCHANGED vars
  BY <1>1, <1>u DEF vars, connectors, pushes
<1>2. CASE Next
  <2> DEFINE Goal == PushInv'
  <2> SUFFICES Goal
    OBVIOUS
  <2>1. ASSUME NEW p \in Providers, Arrives(p)
        PROVE  Goal
    <3>1. PICK m \in Box : inbox' = [inbox EXCEPT ![p] = Append(inbox[p], m)]
      <4>1. MayReach[p] \subseteq Box
        BY DEF MayReach, Providers, Box
      <4> QED  BY <2>1, <4>1 DEF Arrives
    <3>2. /\ UNCHANGED <<cursor, hook, analysed, cutoff, jumped>>
          /\ notices' = notices \/ (p = "google" /\ notices' = notices \cup {HistoryId + 1})
      BY <2>1 DEF Arrives, pushes
    <3>3. HistoryId' = IF p = "google" THEN HistoryId + 1 ELSE HistoryId
      <4>1. CASE p = "google"
        <5>1. Len(inbox'["google"]) = Len(inbox["google"]) + 1
          BY <3>1, <4>1, <1>i, <1>h
        <5> QED  BY <4>1, <5>1 DEF HistoryId
      <4>2. CASE p # "google"
        BY <3>1, <4>2, <1>i DEF HistoryId
      <4> QED  BY <4>1, <4>2
    <3>4. \A id \in notices' : id \in Nat /\ id <= HistoryId'
      <4> DEFINE h == HistoryId
                 k == HistoryId'
      <4>1. h \in Nat /\ k \in Nat /\ h <= k /\ (p = "google" => k = h + 1)
        BY <1>h, <3>3
      <4>2. \A id \in notices : id \in Nat /\ id <= h
        OBVIOUS
      <4>3. \A id \in notices' : id \in notices \/ (p = "google" /\ id = h + 1)
        BY <3>2
      <4> HIDE DEF h, k
      <4>4. \A id \in notices' : id \in Nat /\ id <= k
        BY <4>1, <4>2, <4>3
      <4> QED  BY <4>4 DEF k
    <3>5. CallIsSound' /\ NothingSkipped'
      BY <3>2 DEF CallIsSound, Settled, NothingSkipped
    <3> QED  BY <3>2, <3>4, <3>5
  <2>2. ASSUME NEW t \in Threads,
               \/ \E p \in Providers : \/ LinkMailbox(t, p) \/ RefuseSync(t, p)
                                       \/ \E attachments \in BOOLEAN : BeginSync(t, p, attachments)
               \/ SubscribeWatch(t)
               \/ \E m \in Box : BeginRescan(t, m)
               \/ CreatePolicy(t)
               \/ \E mail \in Mails : BeginIngest(t, mail)
               \/ \E id \in DOMAIN messages : ReleaseQuarantine(t, id)
        PROVE  Goal
    BY <2>2, <1>u DEF LinkMailbox, RefuseSync, BeginSync, SubscribeWatch, BeginRescan, CreatePolicy,
       BeginIngest, ReleaseQuarantine, connectors, pushes
  <2>3. ASSUME NEW t \in Threads,
               \/ StoreMessage(t) \/ StoreAssessment(t) \/ EndSync(t) \/ EndRescan(t)
               \/ RecordMessage(t) \/ EnqueueMessage(t) \/ CreateQuarantine(t) \/ RecordSiemEvent(t)
               \/ ThreadFails(t)
        PROVE  Goal
    BY <2>3, <1>u DEF StoreMessage, StoreAssessment, EndSync, EndRescan, RecordMessage, EnqueueMessage,
       CreateQuarantine, RecordSiemEvent, ThreadFails, connectors, pushes
  <2>4. ASSUME NEW t \in Threads, SaveCursor(t)
        PROVE  Goal
    <3>1. /\ cursor' = thread[t].id /\ thread[t].at = "link"
          /\ jumped' = jumped \cup ((1 .. cursor' - 1) \ analysed)
          /\ UNCHANGED <<inbox, notices, hook, analysed, cutoff>>
      BY <2>4 DEF SaveCursor, Jumped
    <3>2. cursor' \in Nat
      BY <3>1, <1>l
    <3>4. CallIsSound'
      BY <3>1, <1>s DEF CallIsSound
    <3>5. NothingSkipped'
      BY <3>1 DEF NothingSkipped
    <3> QED  BY <3>1, <3>2, <3>4, <3>5 DEF HistoryId
  <2>5. CASE HookReads
    <3>1. PICK id \in notices :
            hook' = IF cursor = 0 THEN [at |-> "first", id |-> id]
                    ELSE [at |-> "analyse", id |-> id, last |-> cursor, changed |-> cursor .. HistoryId - 1]
      BY <2>5 DEF HookReads, Changed
    <3>2. UNCHANGED <<inbox, notices, cursor, thread, analysed, cutoff, jumped>>
      BY <2>5 DEF HookReads, connectors
    <3>3. CallIsSound'
      <4>1. id \in Nat /\ id <= HistoryId /\ hook'.id = id
        BY <3>1
      <4>2. CASE cursor = 0
        BY <3>1, <4>1, <4>2 DEF CallIsSound
      <4>3. CASE cursor # 0
        <5>1. /\ hook'.at = "analyse" /\ hook'.last = cursor
              /\ hook'.changed = cursor .. HistoryId - 1
          BY <3>1, <4>3
        <5>2. \A i \in 1 .. cursor - 1 : Settled(i)'
          BY <1>s DEF NothingSkipped, Settled
        <5>3. \A i \in cursor .. id - 1 : i \in cursor .. HistoryId - 1
          BY <4>1, <1>h
        <5> QED  BY <4>1, <5>1, <5>2, <5>3 DEF CallIsSound
      <4> QED  BY <4>2, <4>3
    <3> QED  BY <3>2, <3>3 DEF HistoryId, NothingSkipped
  <2>6. CASE HookEnds
    <3>1. /\ hook.at = "analyse" /\ hook' = Idle /\ cursor' = hook.id
          /\ \A i \in hook.changed : Settled(i)'
          /\ notices' \subseteq notices
          /\ UNCHANGED <<inbox, thread, jumped>>
      BY <2>6 DEF HookEnds, Settled
    <3>2. hook.id \in Nat /\ hook.last \in Nat
      BY <3>1 DEF CallIsSound, Idle
    <3>3. NothingSkipped'
      <4> SUFFICES ASSUME NEW i \in 1 .. hook.id - 1  PROVE Settled(i)'
        BY <3>1 DEF NothingSkipped, Settled
      <4>1. i \in 1 .. hook.last - 1 \/ i \in hook.last .. hook.id - 1
        BY <3>2
      <4> QED  BY <3>1, <4>1, <1>s DEF CallIsSound
    <3>4. CallIsSound'
      BY <3>1 DEF CallIsSound, Idle
    <3> QED  BY <3>1, <3>2, <3>3, <3>4 DEF HistoryId
  <2>7. CASE HookBegins
    <3>1. /\ hook.at = "first" /\ hook' = Idle /\ cursor' = hook.id
          /\ jumped' = jumped \cup ((1 .. cursor' - 1) \ analysed)
          /\ notices' \subseteq notices
          /\ UNCHANGED <<inbox, thread, analysed, cutoff>>
      BY <2>7 DEF HookBegins, Jumped
    <3>2. hook.id \in Nat
      BY <3>1 DEF CallIsSound, Idle
    <3>3. NothingSkipped'
      BY <3>1 DEF NothingSkipped
    <3>4. CallIsSound'
      BY <3>1 DEF CallIsSound, Idle
    <3> QED  BY <3>1, <3>2, <3>3, <3>4 DEF HistoryId
  <2>8. CASE HookFails
    <3>1. hook' = Idle /\ UNCHANGED <<inbox, notices, cursor, thread, analysed, cutoff, jumped>>
      BY <2>8 DEF HookFails, Unacknowledged
    <3>2. CallIsSound'
      BY <3>1 DEF CallIsSound, Idle
    <3> QED  BY <3>1, <3>2 DEF HistoryId, NothingSkipped
  <2>9. CASE Crash
    <3>1. /\ hook' = Idle /\ thread' = [t \in Threads |-> Idle]
          /\ UNCHANGED <<inbox, notices, cursor, analysed, cutoff, jumped>>
      BY <2>9 DEF Crash, connectors
    <3>2. CallIsSound'
      BY <3>1 DEF CallIsSound, Idle
    <3> QED  BY <3>1, <3>2 DEF HistoryId, NothingSkipped
  <2> HIDE DEF Goal
  <2> QED
    BY <1>2, <2>1, <2>2, <2>3, <2>4, <2>5, <2>6, <2>7, <2>8, <2>9, NextCases, Zenon
<1> QED  BY <1>1, <1>2

\* No published change is passed over: behind the cursor lies only what a webhook
\* analysed, left at its limit, or what the cursor was placed after, in whatever
\* order pushes, failures, new links and watches and crashes come
\* (webhook_google_pubsub, google_callback, subscribe_google_watch).
THEOREM SkippedCorrect == Spec => []NothingSkipped
<1>1. Init => PushInv
  BY DEF Init, PushInv, CallIsSound, NothingSkipped, HistoryId, Idle, Providers
<1>2. PushInv => NothingSkipped
  BY DEF PushInv
<1> QED  BY <1>1, <1>2, TypeInit, TypeStep, PushStep, PTL DEF Spec

-----------------------------------------------------------------------------
(***************************************************************************)
(* The mailboxes.  A sync shows what it listed, from the newest on, and    *)
(* nothing shown is taken back; a verdict that is not the one of the whole *)
(* message was written by someone who did not see the whole of it.         *)
(***************************************************************************)
Shown(m) == rows[m] # "none" /\ verdicts[m] # Unassessed

\* What a sync has listed is shown or still to come, in the order of the inbox,
\* and of the message it is at, the row is stored.
SyncIsSound(t) ==
  LET job == thread[t]
      m == inbox[job.p][job.todo]
  IN
  job.at \in {"message", "assess"} =>
    /\ job.todo <= Len(inbox[job.p])
    /\ \A n \in job.listed : Shown(n) \/ \E i \in 1 .. job.todo : inbox[job.p][i] = n
    /\ job.at = "assess" => rows[m] # "none" /\ (~ job.attachments => m \in blind)

\* A rescan that misses attachments reads what a sync stored without them.
RescanIsSound(t) == thread[t].at = "rescan" /\ thread[t].row = "bare" => thread[t].m \in blind

BareIsBlind == \A m \in Box : rows[m] = "bare" => m \in blind

JobsAreSound == \A t \in Threads : SyncIsSound(t) /\ RescanIsSound(t)

BoxInv == JobsAreSound /\ BareIsBlind /\ MailboxIsTrue

\* An assessment is always one, and its verdict that of the traits.
LEMMA AssessmentsTell ==
  ASSUME NEW x
  PROVE  AssessThreat(x) # Unassessed /\ AssessThreat(x).verdict = ThreatVerdict(x)
<1>1. ThreatVerdict(x) \in {"malware", "spoofing", "phishing", "suspicious", "low"}
  <2> DEFINE s == ThreatScore(x)
             d == x.dangerous
  <2>1. CASE d > 0
    BY <2>1 DEF ThreatVerdict
  <2> HIDE DEF s, d
  <2> QED  BY Zenon DEF ThreatVerdict, s, d
<1>2. AssessThreat(x) = [verdict |-> ThreatVerdict(x), action |-> ActionRecommended(x)]
  BY DEF AssessThreat
<1> QED  BY <1>1, <1>2 DEF Unassessed

\* A sync with attachments sees a message as it is; a rescan of its row forgets
\* the reply-to, which says nothing where an attachment is dangerous.
LEMMA WholeIsSeen ==
  ASSUME NEW m \in Box
  PROVE  /\ Seen(m, "whole", TRUE) = TraitsOf[m]
         /\ TraitsOf[m].dangerous # 0 =>
              ThreatVerdict(Seen(m, "whole", FALSE)) = ThreatVerdict(TraitsOf[m])
<1>1. TraitsOf[m] \in Traits
  BY EmailConstants DEF Box
<1>2. Seen(m, "whole", TRUE) = TraitsOf[m]
  BY <1>1 DEF Seen, Traits
<1>3. ASSUME TraitsOf[m].dangerous # 0
      PROVE  ThreatVerdict(Seen(m, "whole", FALSE)) = ThreatVerdict(TraitsOf[m])
  <2>1. TraitsOf[m].dangerous > 0 /\ Seen(m, "whole", FALSE).dangerous > 0
    BY <1>1, <1>3 DEF Seen, Traits
  <2>2. \A x : x.dangerous > 0 => ThreatVerdict(x) = "malware"
    BY DEF ThreatVerdict
  <2> QED  BY <2>1, <2>2
<1> QED  BY <1>2, <1>3

\* A step takes nothing away of what was stored and read.
Grows ==
  /\ \A p \in Providers : Len(inbox[p]) <= Len(inbox'[p])
  /\ \A p \in Providers : \A i \in DOMAIN inbox[p] : inbox'[p][i] = inbox[p][i]
  /\ \A m \in Box : Shown(m) => Shown(m)'
  /\ \A m \in Box : rows[m] # "none" => rows'[m] # "none"
  /\ blind \subseteq blind'

\* A request that a step leaves alone stays sound, and so do all of them if the one
\* it does not is.
LEMMA SoundStays ==
  ASSUME TInv, TInv', BoxInv, Grows, NEW t \in Threads, thread'[t] = thread[t]
  PROVE  SyncIsSound(t)' /\ RescanIsSound(t)'
<1> DEFINE job == thread[t]
<1>1. JobType(job) /\ SyncIsSound(t) /\ RescanIsSound(t)
  BY DEF TInv, Types, ThreadTypes, BoxInv, JobsAreSound
<1>2. RescanIsSound(t)'
  BY <1>1 DEF RescanIsSound, Grows
<1>3. CASE job.at \notin {"message", "assess"}
  BY <1>2, <1>3 DEF SyncIsSound
<1>4. CASE job.at \in {"message", "assess"}
  <2>1. job \in SyncJobs /\ (job.at = "assess" => job.todo > 0)
    BY <1>1, <1>4 DEF JobType
  <2> DEFINE p == job.p
             k == job.todo
             q == inbox[p]
             r == inbox'[p]
  <2>2. p \in Providers /\ k \in Nat /\ q \in Seq(Box) /\ job.listed \subseteq Box
    BY <2>1 DEF SyncJobs, TInv, Types, TableTypes
  <2>3. /\ k <= Len(q)
        /\ \A n \in job.listed : Shown(n) \/ \E i \in 1 .. k : q[i] = n
        /\ job.at = "assess" => k > 0 /\ rows[q[k]] # "none" /\ (~ job.attachments => q[k] \in blind)
    BY <1>1, <1>4, <2>1 DEF SyncIsSound
  <2>4. Len(q) <= Len(r) /\ \A i \in DOMAIN q : r[i] = q[i]
    BY <2>2 DEF Grows
  <2>5. r \in Seq(Box)
    BY <2>2 DEF TInv, Types, TableTypes
  <2>6. \A i \in 1 .. k : i \in DOMAIN q /\ q[i] \in Box
    BY <2>2, <2>3
  <2>7. k <= Len(r)
    <3>1. Len(r) \in Nat /\ Len(q) \in Nat
      BY <2>2, <2>5
    <3> QED  BY <2>2, <2>3, <2>4, <3>1
  <2>8. \A n \in job.listed : Shown(n)' \/ \E i \in 1 .. k : r[i] = n
    <3> HIDE DEF job, k, q, r
    <3> SUFFICES ASSUME NEW n \in job.listed  PROVE Shown(n)' \/ \E i \in 1 .. k : r[i] = n
      OBVIOUS
    <3>1. n \in Box
      BY <2>2
    <3> QED  BY <2>3, <2>4, <2>6, <3>1 DEF Grows
  <2>9. job.at = "assess" => rows'[r[k]] # "none" /\ (~ job.attachments => r[k] \in blind')
    <3>1. k > 0 => k \in 1 .. k
      BY <2>2
    <3> HIDE DEF job, k, q, r
    <3> QED  BY <2>3, <2>4, <2>6, <3>1 DEF Grows
  <2> QED  BY <1>2, <2>7, <2>8, <2>9 DEF SyncIsSound
<1> QED  BY <1>3, <1>4

\* A step of one thread that unshows nothing leaves the jobs of the others sound.
LEMMA OthersStaySound ==
  ASSUME TInv, TInv', BoxInv, Grows, NEW t \in Threads, NEW job, thread' = [thread EXCEPT ![t] = job],
         SyncIsSound(t)' /\ RescanIsSound(t)'
  PROVE  JobsAreSound'
<1>1. \A u \in Threads \ {t} : thread'[u] = thread[u]
  BY DEF TInv, Types, ThreadTypes
<1>2. ASSUME NEW u \in Threads
      PROVE  SyncIsSound(u)' /\ RescanIsSound(u)'
  BY <1>1, SoundStays
<1> QED  BY <1>2 DEF JobsAreSound

\* What a step leaves of the verdicts and of what a sync has shown
LEMMA BoxKept ==
  ASSUME TInv, BoxInv, Grows, UNCHANGED <<verdicts, mailbox, rescanned>>
  PROVE  MailboxIsTrue'
<1>1. OkMeansAssessed'
  BY DEF TInv, Types, TableTypes, BoxInv, MailboxIsTrue, OkMeansAssessed, Grows, Shown
<1>2. VerdictIsExplained'
  BY DEF BoxInv, MailboxIsTrue, VerdictIsExplained, Grows
<1> QED  BY <1>1, <1>2 DEF MailboxIsTrue

\* A verdict that an assessment replaces is explained if the new one is.
LEMMA VerdictReplaced ==
  ASSUME TInv, BoxInv, NEW m \in Box, NEW x, UpsertAssessment(m, AssessThreat(x)),
         rescanned \subseteq rescanned', blind \subseteq blind',
         \/ ThreatVerdict(x) = ThreatVerdict(TraitsOf[m])
         \/ m \in blind'
         \/ m \in rescanned' /\ TraitsOf[m].dangerous = 0
  PROVE  /\ VerdictIsExplained' /\ verdicts'[m] # Unassessed
         /\ \A n \in Box : verdicts[n] # Unassessed => verdicts'[n] # Unassessed
<1>1. DOMAIN verdicts = Box /\ verdicts' = [verdicts EXCEPT ![m] = AssessThreat(x)]
  BY DEF TInv, Types, TableTypes, UpsertAssessment
<1>2. /\ verdicts'[m] = AssessThreat(x)
      /\ \A n \in Box \ {m} : verdicts'[n] = verdicts[n]
  BY <1>1
<1>3. verdicts'[m] # Unassessed /\ verdicts'[m].verdict = ThreatVerdict(x)
  BY <1>2, AssessmentsTell
<1>4. \A n \in Box : verdicts[n] # Unassessed => verdicts'[n] # Unassessed
  BY <1>2, <1>3
<1>5. ASSUME NEW n \in Box, verdicts'[n] # Unassessed
      PROVE  \/ verdicts'[n].verdict = ThreatVerdict(TraitsOf[n])
             \/ n \in blind'
             \/ n \in rescanned' /\ TraitsOf[n].dangerous = 0
  <2>1. CASE n = m
    BY <2>1, <1>3
  <2>2. CASE n # m
    <3>1. verdicts'[n] = verdicts[n]
      BY <1>2, <2>2
    <3> QED  BY <1>5, <3>1 DEF BoxInv, MailboxIsTrue, VerdictIsExplained, Box
  <2> QED  BY <2>1, <2>2
<1> QED  BY <1>3, <1>4, <1>5 DEF VerdictIsExplained, Box

\* Every step keeps what the mailboxes show: one step per action or group of actions.
LEMMA BoxStep ==
  ASSUME TInv, BoxInv, [Next]_vars
  PROVE  BoxInv'
<1>t. TInv'
  BY TypeStep
<1>h. /\ DOMAIN thread = Threads /\ \A t \in Threads : JobType(thread[t])
      /\ inbox \in [Providers -> Seq(Box)] /\ DOMAIN verdicts = Box
      /\ rows \in [Box -> {"none", "bare", "whole"}]
      /\ mailbox \in [Providers -> [ok : BOOLEAN, listed : SUBSET Box]]
  BY DEF TInv, Types, ThreadTypes, TableTypes
<1>i. JobsAreSound /\ BareIsBlind /\ OkMeansAssessed /\ VerdictIsExplained
  BY DEF BoxInv, MailboxIsTrue
<1>u. ASSUME UNCHANGED <<inbox, rows, verdicts, mailbox, blind, rescanned>>, JobsAreSound'
      PROVE  BoxInv'
  BY <1>u, <1>i DEF BoxInv, BareIsBlind, MailboxIsTrue, OkMeansAssessed, VerdictIsExplained
<1>g. ASSUME UNCHANGED <<inbox, rows, verdicts, blind>>
      PROVE  Grows
  BY <1>g, <1>h DEF Grows, Shown
<1>j. ASSUME NEW t \in Threads, NEW job, thread' = [thread EXCEPT ![t] = job],
             job.at \notin {"message", "assess", "rescan"}, UNCHANGED <<inbox, rows, verdicts, blind>>
      PROVE  JobsAreSound'
  <2>1. thread'[t] = job
    BY <1>j, <1>h
  <2>2. SyncIsSound(t)' /\ RescanIsSound(t)'
    BY <1>j, <2>1 DEF SyncIsSound, RescanIsSound
  <2> QED  BY <1>j, <1>g, <1>t, <2>2, OthersStaySound
<1>1. ASSUME UNCHANGED <<inbox, rows, verdicts, mailbox, blind, rescanned, thread>>
      PROVE  BoxInv'
  <2>1. JobsAreSound'
    BY <1>1, <1>i DEF JobsAreSound, SyncIsSound, RescanIsSound, Shown
  <2> QED  BY <1>1, <2>1, <1>u
<1>2. CASE UNCHANGED vars
  BY <1>1, <1>2 DEF vars, connectors, rescans
<1>3. CASE Next
  <2> DEFINE Goal == BoxInv'
  <2> SUFFICES Goal
    OBVIOUS
  <2>1. ASSUME NEW p \in Providers, Arrives(p)
        PROVE  Goal
    <3>1. PICK m \in Box : inbox' = [inbox EXCEPT ![p] = Append(inbox[p], m)]
      <4>1. MayReach[p] \subseteq Box
        BY DEF MayReach, Providers, Box
      <4> QED  BY <2>1, <4>1 DEF Arrives
    <3>2. UNCHANGED <<rows, verdicts, mailbox, blind, rescanned, thread>>
      BY <2>1 DEF Arrives, rescans
    <3>3. ASSUME NEW r \in Providers
          PROVE  Len(inbox[r]) <= Len(inbox'[r]) /\ \A i \in DOMAIN inbox[r] : inbox'[r][i] = inbox[r][i]
      <4> DEFINE a == inbox[r]
      <4>1. a \in Seq(Box) /\ (inbox'[r] = a \/ inbox'[r] = Append(a, m))
        BY <3>1, <1>h
      <4> HIDE DEF a
      <4>2. /\ Len(Append(a, m)) = Len(a) + 1 /\ Len(a) \in Nat
            /\ \A i \in DOMAIN a : Append(a, m)[i] = a[i]
        BY <4>1
      <4> QED  BY <4>1, <4>2 DEF a
    <3>4. Grows
      BY <3>2, <3>3 DEF Grows, Shown
    <3>5. JobsAreSound'
      <4>1. ASSUME NEW t \in Threads
            PROVE  SyncIsSound(t)' /\ RescanIsSound(t)'
        BY <3>2, <3>4, <1>t, SoundStays
      <4> QED  BY <4>1 DEF JobsAreSound
    <3>6. BareIsBlind' /\ MailboxIsTrue'
      BY <3>2, <3>4, <1>i, BoxKept DEF BareIsBlind
    <3> QED  BY <3>5, <3>6 DEF BoxInv
  <2>2. ASSUME NEW t \in Threads,
               \/ \E p \in Providers : LinkMailbox(t, p)
               \/ SaveCursor(t) \/ SubscribeWatch(t) \/ CreatePolicy(t) \/ ThreadFails(t)
               \/ \E mail \in Mails : BeginIngest(t, mail)
               \/ RecordMessage(t)
        PROVE  Goal
    <3>1. UNCHANGED <<inbox, rows, verdicts, mailbox, blind, rescanned>>
      BY <2>2 DEF LinkMailbox, SaveCursor, SubscribeWatch, CreatePolicy, ThreadFails, BeginIngest,
         RecordMessage, connectors, rescans
    <3>2. PICK job : thread' = [thread EXCEPT ![t] = job] /\ job.at \notin {"message", "assess", "rescan"}
      BY <2>2 DEF LinkMailbox, SaveCursor, SubscribeWatch, CreatePolicy, ThreadFails, BeginIngest,
         RecordMessage, Begin, Goes, Ends, AfterSyncError, Idle
    <3> QED  BY <3>1, <3>2, <1>j, <1>u
  <2>3. ASSUME NEW t \in Threads,
               \/ EnqueueMessage(t) \/ CreateQuarantine(t) \/ RecordSiemEvent(t)
               \/ \E id \in DOMAIN messages : ReleaseQuarantine(t, id)
        PROVE  Goal
    <3>1. UNCHANGED <<inbox, rows, verdicts, mailbox, blind, rescanned>>
      BY <2>3 DEF EnqueueMessage, CreateQuarantine, RecordSiemEvent, ReleaseQuarantine, connectors, rescans
    <3>2. ASSUME NEW job, thread' = [thread EXCEPT ![t] = job], job.at \notin {"message", "assess", "rescan"}
          PROVE  Goal
      BY <3>1, <3>2, <1>j, <1>u
    <3>3. \A job \in IngestJobs : \A x : [job EXCEPT !.at = x].at = x
      BY DEF IngestJobs
    <3>4. CASE EnqueueMessage(t)
      <4> DEFINE job == [thread[t] EXCEPT !.at = IF messages[thread[t].id].verdict \in {"quarantined", "blocked"}
                                                 THEN "quarantine" ELSE "received"]
      <4>1. thread' = [thread EXCEPT ![t] = job] /\ thread[t] \in IngestJobs
        BY <3>4, ColumnChanges
      <4>2. job.at \in {"quarantine", "received"}
        BY <3>3, <4>1
      <4> HIDE DEF job
      <4> QED  BY <3>2, <4>1, <4>2
    <3>5. CASE CreateQuarantine(t)
      <4> DEFINE job == [thread[t] EXCEPT !.at = "received"]
      <4>1. thread' = [thread EXCEPT ![t] = job] /\ thread[t] \in IngestJobs
        BY <3>5, ColumnChanges
      <4>2. job.at = "received"
        BY <3>3, <4>1
      <4> HIDE DEF job
      <4> QED  BY <3>2, <4>1, <4>2
    <3>6. CASE RecordSiemEvent(t)
      <4>1. thread' = [thread EXCEPT ![t] = Idle] /\ Idle.at = "idle"
        BY <3>6, ColumnChanges DEF Idle
      <4> QED  BY <3>2, <4>1
    <3>7. ASSUME NEW id \in DOMAIN messages, ReleaseQuarantine(t, id)
          PROVE  Goal
      <4> DEFINE job == [at |-> "released", id |-> id]
      <4>1. thread' = [thread EXCEPT ![t] = job] /\ job.at = "released"
        BY <3>7, ColumnChanges
      <4> HIDE DEF job
      <4> QED  BY <3>2, <4>1
    <3> QED  BY <2>3, <3>4, <3>5, <3>6, <3>7
  <2>4. ASSUME NEW t \in Threads, NEW p \in Providers, RefuseSync(t, p)
        PROVE  Goal
    <3>1. /\ UNCHANGED <<inbox, rows, verdicts, blind, rescanned>>
          /\ thread' = [thread EXCEPT ![t] = Idle] /\ mailbox' = [mailbox EXCEPT ![p] = NotSynced]
      BY <2>4 DEF RefuseSync, Begin, rescans
    <3>2. JobsAreSound'
      BY <3>1, <1>j DEF Idle
    <3>3. OkMeansAssessed'
      BY <3>1, <1>h, <1>i DEF OkMeansAssessed, NotSynced
    <3>4. BareIsBlind' /\ VerdictIsExplained'
      BY <3>1, <1>i DEF BareIsBlind, VerdictIsExplained
    <3> QED  BY <3>2, <3>3, <3>4 DEF BoxInv, MailboxIsTrue
  <2>5. ASSUME NEW t \in Threads, NEW p \in Providers, NEW attachments \in BOOLEAN,
               BeginSync(t, p, attachments)
        PROVE  Goal
    <3> DEFINE job == [at |-> "message", p |-> p, todo |-> Len(inbox[p]), attachments |-> attachments,
                       listed |-> {inbox[p][i] : i \in DOMAIN inbox[p]}]
    <3>1. /\ UNCHANGED <<inbox, rows, verdicts, mailbox, blind, rescanned>>
          /\ thread' = [thread EXCEPT ![t] = job]
      BY <2>5 DEF BeginSync, Begin, connectors, rescans
    <3>2. /\ thread'[t].at = "message" /\ thread'[t].p = p /\ thread'[t].todo = Len(inbox'[p])
          /\ thread'[t].listed = {inbox'[p][i] : i \in DOMAIN inbox'[p]}
      BY <3>1, <1>h
    <3>3. inbox'[p] \in Seq(Box)
      BY <3>1, <1>h
    <3>4. Len(inbox'[p]) <= Len(inbox'[p]) /\ DOMAIN inbox'[p] = 1 .. Len(inbox'[p])
      BY <3>3
    <3>5. SyncIsSound(t)' /\ RescanIsSound(t)'
      BY <3>2, <3>4 DEF SyncIsSound, RescanIsSound
    <3> HIDE DEF job
    <3> QED  BY <3>1, <3>5, <1>g, <1>t, <1>u, OthersStaySound
  <2>6. ASSUME NEW t \in Threads, StoreMessage(t)
        PROVE  Goal
    <3> DEFINE p == thread[t].p
               k == thread[t].todo
               m == inbox[p][k]
               whole == thread[t].attachments
               job == [thread[t] EXCEPT !.at = "assess"]
    <3>1. /\ thread[t].at = "message" /\ k > 0 /\ thread' = [thread EXCEPT ![t] = job]
          /\ rows' = [rows EXCEPT ![m] = IF whole THEN "whole" ELSE "bare"]
          /\ blind' = IF whole THEN blind ELSE blind \cup {m}
          /\ UNCHANGED <<inbox, verdicts, mailbox, rescanned>>
      BY <2>6 DEF StoreMessage, Goes
    <3>2. thread[t] \in SyncJobs /\ SyncIsSound(t)
      BY <3>1, <1>h, <1>i DEF JobType, JobsAreSound
    <3>3. /\ p \in Providers /\ k \in Nat /\ k <= Len(inbox[p])
          /\ \A n \in thread[t].listed : Shown(n) \/ \E i \in 1 .. k : inbox[p][i] = n
      BY <3>1, <3>2 DEF SyncJobs, SyncIsSound
    <3>4. m \in Box
      BY <3>1, <3>3, <1>h
    <3>5. /\ thread'[t].at = "assess" /\ thread'[t].p = p /\ thread'[t].todo = k
          /\ thread'[t].listed = thread[t].listed /\ thread'[t].attachments = whole
      BY <3>1, <3>2, <1>h DEF SyncJobs
    <3> HIDE DEF p, k, m, whole, job
    <3>6. rows'[m] # "none" /\ \A n \in Box : rows[n] # "none" => rows'[n] # "none"
      BY <3>1, <3>4, <1>h
    <3>7. Grows
      BY <3>1, <3>6, <1>h DEF Grows, Shown
    <3>8. BareIsBlind'
      BY <3>1, <3>4, <1>h, <1>i DEF BareIsBlind
    <3>9. SyncIsSound(t)' /\ RescanIsSound(t)'
      <4>1. inbox'[p][k] = m /\ inbox' = inbox
        BY <3>1 DEF m
      <4>2. ~ whole => m \in blind'
        BY <3>1
      <4>3. \A n \in thread[t].listed : Shown(n)' \/ \E i \in 1 .. k : inbox'[p][i] = n
        <5>1. thread[t].listed \subseteq Box
          BY <3>2 DEF SyncJobs
        <5> QED  BY <3>3, <3>7, <4>1, <5>1 DEF Grows
      <4>4. k <= Len(inbox'[p])
        BY <3>3, <4>1
      <4> QED  BY <3>5, <3>6, <4>1, <4>2, <4>3, <4>4 DEF SyncIsSound, RescanIsSound
    <3> QED  BY <3>1, <3>7, <3>8, <3>9, <1>t, OthersStaySound, BoxKept DEF BoxInv
  <2>7. ASSUME NEW t \in Threads, StoreAssessment(t)
        PROVE  Goal
    <3> DEFINE p == thread[t].p
               k == thread[t].todo
               n == k - 1
               m == inbox[p][k]
               whole == thread[t].attachments
               x == Seen(m, IF whole THEN "whole" ELSE "bare", TRUE)
               job == [thread[t] EXCEPT !.at = "message", !.todo = n]
    <3>1. /\ thread[t].at = "assess" /\ thread' = [thread EXCEPT ![t] = job]
          /\ UpsertAssessment(m, AssessThreat(x))
          /\ UNCHANGED <<inbox, rows, mailbox, blind, rescanned>>
      BY <2>7 DEF StoreAssessment, Goes, rescans
    <3>2. thread[t] \in SyncJobs /\ k > 0 /\ SyncIsSound(t)
      BY <3>1, <1>h, <1>i DEF JobType, JobsAreSound
    <3>3. /\ p \in Providers /\ k \in Nat /\ k <= Len(inbox[p])
          /\ \A l \in thread[t].listed : Shown(l) \/ \E i \in 1 .. k : inbox[p][i] = l
          /\ rows[m] # "none" /\ (~ whole => m \in blind)
      BY <3>1, <3>2 DEF SyncJobs, SyncIsSound
    <3>4. m \in Box /\ n \in Nat /\ n <= Len(inbox[p]) /\ n # k
      BY <3>2, <3>3, <1>h
    <3>5. /\ thread'[t].at = "message" /\ thread'[t].p = p /\ thread'[t].todo = n
          /\ thread'[t].listed = thread[t].listed
      <4> HIDE DEF n
      <4> QED  BY <3>1, <3>2, <1>h DEF SyncJobs
    <3>6. \A i \in 1 .. k : i \in 1 .. n \/ i = k
      BY <3>3
    <3> HIDE DEF p, k, n, job
    <3>7. ThreatVerdict(x) = ThreatVerdict(TraitsOf[m]) \/ m \in blind'
      <4>1. CASE whole
        BY <3>4, <4>1, WholeIsSeen
      <4>2. CASE ~ whole
        BY <3>1, <3>3, <4>2
      <4> QED  BY <4>1, <4>2
    <3> HIDE DEF m, whole, x
    <3>8. /\ VerdictIsExplained' /\ verdicts'[m] # Unassessed
          /\ \A l \in Box : verdicts[l] # Unassessed => verdicts'[l] # Unassessed
      BY <3>1, <3>4, <3>7, VerdictReplaced
    <3>9. Grows
      BY <3>1, <3>8, <1>h DEF Grows, Shown
    <3>10. BareIsBlind' /\ OkMeansAssessed'
      BY <3>1, <3>8, <1>h, <1>i DEF BareIsBlind, OkMeansAssessed
    <3>11. SyncIsSound(t)' /\ RescanIsSound(t)'
      <4>1. inbox[p][k] = m /\ inbox' = inbox
        BY <3>1 DEF m
      <4>2. rows'[m] # "none" /\ verdicts'[m] # Unassessed
        BY <3>1, <3>3, <3>8
      <4>3. \A l \in thread[t].listed : Shown(l)' \/ \E i \in 1 .. n : inbox'[p][i] = l
        <5> SUFFICES ASSUME NEW l \in thread[t].listed
                     PROVE  Shown(l)' \/ \E i \in 1 .. n : inbox'[p][i] = l
          OBVIOUS
        <5>1. l \in Box
          BY <3>2 DEF SyncJobs
        <5>2. CASE Shown(l)
          BY <3>9, <5>1, <5>2 DEF Grows
        <5>3. ASSUME NEW i \in 1 .. k, inbox[p][i] = l
              PROVE  Shown(l)' \/ \E j \in 1 .. n : inbox'[p][j] = l
          <6>1. CASE i = k
            <7>1. rows'[l] # "none" /\ verdicts'[l] # Unassessed
              BY <4>1, <4>2, <5>3, <6>1
            <7> QED  BY <7>1 DEF Shown
          <6>2. CASE i # k
            BY <3>6, <4>1, <5>3, <6>2
          <6> QED  BY <6>1, <6>2
        <5> QED  BY <3>3, <5>2, <5>3
      <4>4. n <= Len(inbox'[p])
        BY <3>4, <4>1
      <4> QED  BY <3>5, <4>3, <4>4 DEF SyncIsSound, RescanIsSound
    <3>12. JobsAreSound'
      BY <3>1, <3>9, <3>11, <1>t, OthersStaySound
    <3> QED  BY <3>8, <3>10, <3>12 DEF BoxInv, MailboxIsTrue
  <2>8. ASSUME NEW t \in Threads, EndSync(t)
        PROVE  Goal
    <3>1. /\ thread[t].at = "message" /\ thread[t].todo = 0 /\ thread' = [thread EXCEPT ![t] = Idle]
          /\ mailbox' = [mailbox EXCEPT ![thread[t].p] = [ok |-> TRUE, listed |-> thread[t].listed]]
          /\ UNCHANGED <<inbox, rows, verdicts, blind, rescanned>>
      BY <2>8 DEF EndSync, Ends, Goes, rescans
    <3>2. SyncIsSound(t) /\ thread[t] \in SyncJobs
      BY <3>1, <1>h, <1>i DEF JobsAreSound, JobType
    <3>3. \A n \in thread[t].listed : Shown(n)
      BY <3>1, <3>2 DEF SyncIsSound
    <3>4. ASSUME NEW p \in Providers, mailbox'[p].ok, NEW n \in mailbox'[p].listed
          PROVE  Shown(n)
      <4>1. CASE p = thread[t].p
        BY <3>1, <3>3, <3>4, <4>1, <1>h
      <4>2. CASE p # thread[t].p
        BY <3>1, <3>4, <4>2, <1>h, <1>i DEF OkMeansAssessed, Shown
      <4> QED  BY <4>1, <4>2
    <3>5. OkMeansAssessed'
      BY <3>1, <3>4 DEF OkMeansAssessed, Shown
    <3>6. JobsAreSound'
      BY <3>1, <1>j DEF Idle
    <3>7. BareIsBlind' /\ VerdictIsExplained'
      BY <3>1, <1>i DEF BareIsBlind, VerdictIsExplained
    <3> QED  BY <3>5, <3>6, <3>7 DEF BoxInv, MailboxIsTrue
  <2>9. ASSUME NEW t \in Threads, NEW m \in Box, BeginRescan(t, m)
        PROVE  Goal
    <3> DEFINE job == [at |-> "rescan", m |-> m, row |-> rows[m]]
    <3>1. /\ UNCHANGED <<inbox, rows, verdicts, mailbox, blind, rescanned>>
          /\ thread' = [thread EXCEPT ![t] = job]
      BY <2>9 DEF BeginRescan, Begin, connectors, rescans
    <3>2. thread'[t].at = "rescan" /\ thread'[t].m = m /\ thread'[t].row = rows[m]
      BY <3>1, <1>h
    <3>3. SyncIsSound(t)' /\ RescanIsSound(t)'
      BY <3>1, <3>2, <1>i DEF SyncIsSound, RescanIsSound, BareIsBlind
    <3> HIDE DEF job
    <3> QED  BY <3>1, <3>3, <1>g, <1>t, <1>u, OthersStaySound
  <2>10. ASSUME NEW t \in Threads, EndRescan(t)
         PROVE  Goal
    <3> DEFINE m == thread[t].m
               x == Seen(m, thread[t].row, FALSE)
    <3>1. /\ thread[t].at = "rescan" /\ UpsertAssessment(m, AssessThreat(x))
          /\ rescanned' = rescanned \cup {m} /\ thread' = [thread EXCEPT ![t] = Idle]
          /\ UNCHANGED <<inbox, rows, mailbox, blind>>
      BY <2>10 DEF EndRescan, Ends, Goes
    <3>2. m \in Box /\ thread[t].row \in {"bare", "whole"} /\ RescanIsSound(t)
      BY <3>1, <1>h, <1>i DEF JobType, JobsAreSound
    <3>3. \/ ThreatVerdict(x) = ThreatVerdict(TraitsOf[m])
          \/ m \in blind' \/ (m \in rescanned' /\ TraitsOf[m].dangerous = 0)
      <4>1. CASE thread[t].row = "bare"
        BY <3>1, <3>2, <4>1 DEF RescanIsSound
      <4>2. CASE thread[t].row = "whole"
        BY <3>1, <3>2, <4>2, WholeIsSeen
      <4> QED  BY <3>2, <4>1, <4>2
    <3> HIDE DEF m, x
    <3>4. /\ VerdictIsExplained' /\ verdicts'[m] # Unassessed
          /\ \A l \in Box : verdicts[l] # Unassessed => verdicts'[l] # Unassessed
      BY <3>1, <3>2, <3>3, VerdictReplaced
    <3>5. Grows
      BY <3>1, <3>4, <1>h DEF Grows, Shown
    <3>6. BareIsBlind' /\ OkMeansAssessed'
      BY <3>1, <3>4, <1>h, <1>i DEF BareIsBlind, OkMeansAssessed
    <3>7. thread'[t].at = "idle"
      BY <3>1, <1>h DEF Idle
    <3>8. SyncIsSound(t)' /\ RescanIsSound(t)'
      BY <3>7 DEF SyncIsSound, RescanIsSound
    <3>9. JobsAreSound'
      BY <3>1, <3>5, <3>8, <1>t, OthersStaySound
    <3> QED  BY <3>4, <3>6, <3>9 DEF BoxInv, MailboxIsTrue
  <2>11. CASE HookReads \/ HookEnds \/ HookBegins \/ HookFails
    BY <2>11, <1>1 DEF HookReads, HookEnds, HookBegins, HookFails, connectors, rescans
  <2>12. CASE Crash
    <3>1. UNCHANGED <<inbox, rows, verdicts, mailbox, blind, rescanned>> /\ thread' = [t \in Threads |-> Idle]
      BY <2>12 DEF Crash, connectors, rescans
    <3>2. JobsAreSound'
      BY <3>1 DEF JobsAreSound, SyncIsSound, RescanIsSound, Idle
    <3> QED  BY <3>1, <3>2, <1>u
  <2> HIDE DEF Goal
  <2> QED
    BY <1>3, <2>1, <2>2, <2>3, <2>4, <2>5, <2>6, <2>7, <2>8, <2>9, <2>10, <2>11, <2>12, NextCases, Zenon
<1> QED  BY <1>2, <1>3

\* A mailbox that is shown as synced has every message of that sync stored and
\* assessed, and a verdict differs from what the message deserves only after a rescan
\* or a sync without attachments (sync_google, sync_microsoft, rescan_message).
THEOREM MailboxCorrect == Spec => []MailboxIsTrue
<1>1. Init => BoxInv
  BY DEF Init, BoxInv, JobsAreSound, SyncIsSound, RescanIsSound, BareIsBlind, MailboxIsTrue,
     OkMeansAssessed, VerdictIsExplained, NotSynced, Idle, Box
<1>2. BoxInv => MailboxIsTrue
  BY DEF BoxInv
<1> QED  BY <1>1, <1>2, TypeInit, TypeStep, BoxStep, PTL DEF Spec

-----------------------------------------------------------------------------
(***************************************************************************)
(* The gateway.  The score of a harmful mail alone sends it to quarantine, *)
(* whatever the policies say; its ingest reports it only once it is there; *)
(* and an ingest that ends before that is remembered as cut.               *)
(***************************************************************************)
Harmful(mail) == mail.hits \cap {"attachments", "urls"} # {}

\* A thread has yet to write something of the ingest of message id.
UnderWay(id) == \E t \in Threads : thread[t] # Idle /\ id \in CutBy(thread[t])

Accounted(id) == messages[id].held # "no" \/ id \in cut \/ UnderWay(id)

HarmfulIsSeen ==
  \A id \in DOMAIN messages : Harmful(messages[id].mail) =>
    messages[id].verdict \in {"quarantined", "blocked"}

ReportedIsHeld ==
  \A t \in Threads : thread[t].at = "received" /\ Harmful(messages[thread[t].id].mail) =>
    messages[thread[t].id].held # "no"

GateInv ==
  /\ HarmfulIsSeen
  /\ ReportedIsHeld
  /\ \A id \in DOMAIN messages : Harmful(messages[id].mail) => Accounted(id)

\* Policies can make the verdict of a harmful mail harsher, never milder.
LEMMA HarmfulVerdict ==
  ASSUME NEW mail \in Mails, NEW ps, Harmful(mail)
  PROVE  MailVerdict(mail, ps) \in {"quarantined", "blocked"}
<1>1. MailScore(mail) >= 40
  <2>1. /\ Points("attachments" \in mail.hits, 60) \in Nat
        /\ Points("dlp" \in mail.hits, 30) \in Nat
        /\ Points("urls" \in mail.hits, 40) \in Nat
    BY DEF Points
  <2>2. \/ Points("attachments" \in mail.hits, 60) = 60
        \/ Points("urls" \in mail.hits, 40) = 40
    BY DEF Harmful, Points
  <2> QED  BY <2>1, <2>2 DEF MailScore
<1> HIDE DEF Harmful
<1> QED  BY <1>1 DEF MailVerdict

\* What is not the ingest of a message does not end one.
LEMMA GateStays ==
  ASSUME TInv, GateInv, UNCHANGED <<messages, cut>>, NEW t \in Threads, NEW job,
         thread' = [thread EXCEPT ![t] = job],
         thread[t].at \notin {"enqueue", "quarantine", "received"},
         job.at \notin {"enqueue", "quarantine", "received"}
  PROVE  GateInv'
<1>1. \A q \in Threads : q # t => thread'[q] = thread[q]
  BY DEF TInv, Types, ThreadTypes
<1>2. thread'[t] = job
  BY DEF TInv, Types, ThreadTypes
<1>3. ReportedIsHeld'
  <2> SUFFICES ASSUME NEW q \in Threads, thread'[q].at = "received",
                      Harmful(messages'[thread'[q].id].mail)
               PROVE  messages'[thread'[q].id].held # "no"
    BY DEF ReportedIsHeld, Harmful
  <2>1. thread'[q] = thread[q]
    BY <1>1, <1>2
  <2> QED  BY <2>1 DEF GateInv, ReportedIsHeld
<1>4. ASSUME NEW id \in DOMAIN messages, Accounted(id)
      PROVE  Accounted(id)'
  <2>1. UnderWay(id) => UnderWay(id)'
    <3>1. ASSUME NEW q \in Threads, thread[q] # Idle, id \in CutBy(thread[q])
          PROVE  UnderWay(id)'
      <4>1. q # t
        BY <3>1 DEF CutBy
      <4>2. thread'[q] = thread[q]
        BY <4>1, <1>1
      <4> QED  BY <3>1, <4>2 DEF UnderWay, CutBy, Idle
    <3> QED  BY <3>1 DEF UnderWay
  <2> QED  BY <1>4, <2>1 DEF Accounted
<1>5. HarmfulIsSeen'
  BY DEF GateInv, HarmfulIsSeen, Harmful
<1>6. ASSUME NEW id \in DOMAIN messages', Harmful(messages'[id].mail)
      PROVE  Accounted(id)'
  BY <1>4, <1>6 DEF GateInv
<1> QED  BY <1>3, <1>5, <1>6 DEF GateInv, Harmful

\* A step of the ingest or the release of message id
LEMMA GateMessage ==
  ASSUME TInv, GateInv, cut' = cut, NEW t \in Threads, NEW job,
         thread' = [thread EXCEPT ![t] = job],
         NEW id \in DOMAIN messages, NEW row \in Messages, messages' = [messages EXCEPT ![id] = row],
         row.mail = messages[id].mail, row.verdict = messages[id].verdict,
         messages[id].held # "no" => row.held # "no",
         thread[t].at \in {"enqueue", "quarantine", "received"} => thread[t].id = id,
         job.at = "received" => job.id = id /\ (Harmful(row.mail) => row.held # "no"),
         Harmful(row.mail) =>
           \/ row.held # "no"
           \/ job.at \in {"enqueue", "quarantine", "received"} /\ job.id = id
           \/ thread[t].at \notin {"enqueue", "quarantine", "received"}
  PROVE  GateInv'
<1>1. \A q \in Threads : q # t => thread'[q] = thread[q]
  BY DEF TInv, Types, ThreadTypes
<1>2. thread'[t] = job
  BY DEF TInv, Types, ThreadTypes
<1>3. /\ DOMAIN messages' = DOMAIN messages /\ messages'[id] = row
      /\ \A k \in DOMAIN messages : k # id => messages'[k] = messages[k]
  BY MessageTypes DEF TInv, Types, TableTypes
<1>4. \A k \in DOMAIN messages :
        /\ messages'[k].mail = messages[k].mail /\ messages'[k].verdict = messages[k].verdict
        /\ messages[k].held # "no" => messages'[k].held # "no"
  BY <1>3
<1>5. HarmfulIsSeen'
  BY <1>3, <1>4 DEF GateInv, HarmfulIsSeen, Harmful
<1>6. ReportedIsHeld'
  <2> SUFFICES ASSUME NEW q \in Threads, thread'[q].at = "received",
                      Harmful(messages'[thread'[q].id].mail)
               PROVE  messages'[thread'[q].id].held # "no"
    BY DEF ReportedIsHeld, Harmful
  <2>1. CASE q = t
    BY <1>2, <1>3, <2>1
  <2>2. CASE q # t
    <3>1. thread'[q] = thread[q]
      BY <1>1, <2>2
    <3>2. thread[q].id \in DOMAIN messages
      BY <3>1 DEF TInv, IdsExist
    <3>3. Harmful(messages[thread[q].id].mail)
      BY <1>4, <3>1, <3>2
    <3> QED  BY <1>4, <3>1, <3>2, <3>3 DEF GateInv, ReportedIsHeld
  <2> QED  BY <2>1, <2>2
<1>7. ASSUME NEW k \in DOMAIN messages', Harmful(messages'[k].mail)
      PROVE  Accounted(k)'
  <2>1. k \in DOMAIN messages /\ Harmful(messages[k].mail)
    BY <1>3, <1>4, <1>7
  <2>2. messages[k].held # "no" \/ k \in cut \/ UnderWay(k)
    BY <2>1 DEF GateInv, Accounted
  <2>3. ASSUME NEW q \in Threads, q # t, thread[q] # Idle, k \in CutBy(thread[q])
        PROVE  UnderWay(k)'
    <3>1. thread'[q] = thread[q]
      BY <1>1, <2>3
    <3> QED  BY <2>3, <3>1 DEF UnderWay, CutBy, Idle
  <2>4. CASE k \in CutBy(thread[t])
    <3>1. thread[t].at \in {"enqueue", "quarantine", "received"} /\ k = id
      BY <2>4 DEF CutBy
    <3>2. row.held # "no" \/ (job.at \in {"enqueue", "quarantine", "received"} /\ job.id = id)
      BY <2>1, <3>1
    <3>3. ASSUME job.at \in {"enqueue", "quarantine", "received"}, job.id = id
          PROVE  UnderWay(k)'
      <4>1. thread'[t].at \in {"enqueue", "quarantine", "received"} /\ thread'[t].id = k
        BY <1>2, <3>1, <3>3
      <4> QED  BY <4>1 DEF UnderWay, CutBy, Idle
    <3> QED  BY <1>3, <3>1, <3>2, <3>3 DEF Accounted
  <2>5. CASE k \notin CutBy(thread[t])
    <3>1. messages'[k].held # "no" \/ k \in cut' \/ UnderWay(k)'
      BY <1>4, <2>1, <2>2, <2>3, <2>5 DEF UnderWay
    <3> QED  BY <3>1 DEF Accounted
  <2> QED  BY <2>4, <2>5
<1> QED  BY <1>5, <1>6, <1>7 DEF GateInv, Harmful

\* Every step of the service keeps the account of harmful mails.
LEMMA GateStep ==
  ASSUME TInv, TInv', GateInv, [Next]_vars
  PROVE  GateInv'
<1>d. /\ DOMAIN thread = Threads /\ messages \in Seq(Messages)
      /\ \A k \in DOMAIN messages : messages[k] \in Messages /\ k \in Nat
  BY DEF TInv, Types, ThreadTypes, TableTypes
<1>1. CASE UNCHANGED <<messages, cut, thread>>
  BY <1>1 DEF GateInv, HarmfulIsSeen, ReportedIsHeld, Accounted, UnderWay, CutBy, Harmful, Idle
<1>2. CASE Next
  <2> DEFINE Goal == GateInv'
  <2> SUFFICES Goal
    OBVIOUS
  <2>1. ASSUME NEW p \in Providers, Arrives(p)
        PROVE  Goal
    BY <2>1, <1>1 DEF Arrives, gateway
  <2>2. ASSUME NEW t \in Threads,
               \/ \E p \in Providers : \/ LinkMailbox(t, p) \/ RefuseSync(t, p)
                                       \/ \E attachments \in BOOLEAN : BeginSync(t, p, attachments)
               \/ SubscribeWatch(t) \/ CreatePolicy(t)
               \/ \E m \in Box : BeginRescan(t, m)
               \/ \E mail \in Mails : BeginIngest(t, mail)
        PROVE  Goal
    <3>1. UNCHANGED <<messages, cut>>
      BY <2>2 DEF LinkMailbox, RefuseSync, BeginSync, SubscribeWatch, CreatePolicy, BeginRescan,
         BeginIngest, gateway
    <3>2. thread[t] = Idle
      BY <2>2 DEF LinkMailbox, RefuseSync, BeginSync, SubscribeWatch, CreatePolicy, BeginRescan,
         BeginIngest, Begin
    <3>3. PICK job : /\ thread' = [thread EXCEPT ![t] = job]
                     /\ job.at \notin {"enqueue", "quarantine", "received"}
      <4>1. Idle.at = "idle"
        BY DEF Idle
      <4> QED  BY <2>2, <4>1 DEF LinkMailbox, RefuseSync, BeginSync, SubscribeWatch, CreatePolicy,
                  BeginRescan, BeginIngest, Begin
    <3>4. thread[t].at \notin {"enqueue", "quarantine", "received"}
      BY <3>2 DEF Idle
    <3> QED  BY <3>1, <3>3, <3>4, GateStays
  <2>3. ASSUME NEW t \in Threads, SaveCursor(t) \/ EndSync(t) \/ EndRescan(t)
        PROVE  Goal
    <3>1. /\ UNCHANGED <<messages, cut>> /\ thread' = [thread EXCEPT ![t] = Idle]
          /\ thread[t].at \in {"link", "message", "rescan"}
      BY <2>3 DEF SaveCursor, EndSync, EndRescan, Ends, Goes, gateway
    <3>2. Idle.at = "idle"
      BY DEF Idle
    <3> QED  BY <3>1, <3>2, GateStays
  <2>4. ASSUME NEW t \in Threads, StoreMessage(t) \/ StoreAssessment(t)
        PROVE  Goal
    <3>1. UNCHANGED <<messages, cut>> /\ thread[t].at \in {"message", "assess"}
      BY <2>4 DEF StoreMessage, StoreAssessment, gateway
    <3>2. thread[t] \in SyncJobs
      BY <3>1, <1>d DEF TInv, Types, ThreadTypes, JobType
    <3>3. PICK job : thread' = [thread EXCEPT ![t] = job] /\ job.at \in {"message", "assess"}
      BY <2>4, <3>2 DEF StoreMessage, StoreAssessment, Goes, SyncJobs
    <3> QED  BY <3>1, <3>3, GateStays
  <2>5. ASSUME NEW t \in Threads, RecordMessage(t)
        PROVE  Goal
    <3> DEFINE mail == thread[t].mail
               new == Len(messages) + 1
               verdict == MailVerdict(mail, thread[t].policies)
               row == [mail |-> mail, verdict |-> verdict, held |-> "no", queued |-> FALSE,
                       events |-> {}]
               job == [at |-> "enqueue", id |-> new]
    <3>1. /\ thread[t].at = "record" /\ messages' = Append(messages, row)
          /\ thread' = [thread EXCEPT ![t] = job] /\ cut' = cut
      BY <2>5 DEF RecordMessage, Goes
    <3>2. mail \in Mails /\ row.mail = mail /\ row.verdict = verdict
      BY <3>1, <1>d DEF TInv, Types, ThreadTypes, JobType
    <3>3. Harmful(mail) => verdict \in {"quarantined", "blocked"}
      BY <3>2, HarmfulVerdict
    <3>4. job.at = "enqueue" /\ job.id = new
      OBVIOUS
    <3> HIDE DEF row, verdict
    <3>5. /\ messages'[new] = row
          /\ \A k \in DOMAIN messages' : k \in DOMAIN messages \/ k = new
          /\ \A k \in DOMAIN messages : k \in DOMAIN messages' /\ messages'[k] = messages[k]
      BY <3>1, <1>d
    <3> HIDE DEF new, job, mail
    <3>6. /\ \A q \in Threads : q # t => thread'[q] = thread[q]
          /\ thread'[t] = job
      BY <3>1, <1>d
    <3>7. HarmfulIsSeen'
      <4> SUFFICES ASSUME NEW k \in DOMAIN messages', Harmful(messages'[k].mail)
                   PROVE  messages'[k].verdict \in {"quarantined", "blocked"}
        BY DEF HarmfulIsSeen, Harmful
      <4>1. CASE k = new
        BY <3>2, <3>3, <3>5, <4>1
      <4>2. CASE k # new
        BY <3>5, <4>2 DEF GateInv, HarmfulIsSeen
      <4> QED  BY <4>1, <4>2
    <3>8. ReportedIsHeld'
      <4> SUFFICES ASSUME NEW q \in Threads, thread'[q].at = "received",
                          Harmful(messages'[thread'[q].id].mail)
                   PROVE  messages'[thread'[q].id].held # "no"
        BY DEF ReportedIsHeld, Harmful
      <4>1. thread'[q] = thread[q]
        BY <3>4, <3>6
      <4>2. thread[q].id \in DOMAIN messages
        BY <4>1 DEF TInv, IdsExist
      <4> QED  BY <3>5, <4>1, <4>2 DEF GateInv, ReportedIsHeld
    <3>9. ASSUME NEW k \in DOMAIN messages', Harmful(messages'[k].mail)
          PROVE  Accounted(k)'
      <4>1. CASE k = new
        <5>1. thread'[t].at = "enqueue" /\ thread'[t].id = k
          BY <3>4, <3>6, <4>1
        <5>2. UnderWay(k)'
          BY <5>1 DEF UnderWay, CutBy, Idle
        <5> QED  BY <5>2 DEF Accounted
      <4>2. CASE k # new
        <5>1. k \in DOMAIN messages /\ messages'[k] = messages[k]
          BY <3>5, <4>2
        <5>2. Accounted(k)
          BY <5>1, <3>9 DEF GateInv
        <5>3. ASSUME NEW q \in Threads, thread[q] # Idle, k \in CutBy(thread[q])
              PROVE  UnderWay(k)'
          <6>1. q # t
            BY <3>1, <5>3 DEF CutBy
          <6>2. thread'[q] = thread[q]
            BY <3>6, <6>1
          <6> QED  BY <5>3, <6>2 DEF UnderWay, CutBy, Idle
        <5>4. messages'[k].held # "no" \/ k \in cut' \/ UnderWay(k)'
          BY <3>1, <5>1, <5>2, <5>3 DEF Accounted, UnderWay
        <5> QED  BY <5>4 DEF Accounted
      <4> QED  BY <4>1, <4>2
    <3> QED  BY <3>7, <3>8, <3>9 DEF GateInv, Harmful
  <2>6. ASSUME NEW t \in Threads, EnqueueMessage(t)
        PROVE  Goal
    <3> DEFINE id == thread[t].id
               row == [messages[id] EXCEPT !.queued = TRUE]
               held == messages[id].verdict \in {"quarantined", "blocked"}
               job == [thread[t] EXCEPT !.at = IF held THEN "quarantine" ELSE "received"]
    <3>1. /\ thread[t].at = "enqueue" /\ id \in DOMAIN messages
          /\ messages' = [messages EXCEPT ![id] = row]
          /\ thread' = [thread EXCEPT ![t] = job] /\ thread[t] \in IngestJobs /\ cut' = cut
      BY <2>6, ColumnChanges DEF EnqueueMessage
    <3>2. messages[id] \in Messages
      BY <3>1, <1>d
    <3>3. /\ row \in Messages /\ row.mail = messages[id].mail
          /\ row.verdict = messages[id].verdict /\ row.held = messages[id].held
      BY <3>2 DEF Messages
    <3>4. job.id = id /\ job.at = IF held THEN "quarantine" ELSE "received"
      BY <3>1 DEF IngestJobs
    <3>5. Harmful(messages[id].mail) => held
      BY <3>1 DEF GateInv, HarmfulIsSeen
    <3>6. thread[t].id = id /\ cut' = cut
      BY <3>1
    <3> HIDE DEF id, row, held, job
    <3>7. /\ job.at = "received" => ~ Harmful(row.mail)
          /\ Harmful(row.mail) => job.at = "quarantine"
      BY <3>3, <3>4, <3>5
    <3>8. messages[id].held # "no" => row.held # "no"
      BY <3>3
    <3> QED  BY <3>1, <3>3, <3>4, <3>6, <3>7, <3>8, GateMessage
  <2>7. ASSUME NEW t \in Threads, CreateQuarantine(t)
        PROVE  Goal
    <3> DEFINE id == thread[t].id
               row == [messages[id] EXCEPT !.held = "quarantined"]
               job == [thread[t] EXCEPT !.at = "received"]
    <3>1. /\ thread[t].at = "quarantine" /\ id \in DOMAIN messages
          /\ messages' = [messages EXCEPT ![id] = row]
          /\ thread' = [thread EXCEPT ![t] = job] /\ thread[t] \in IngestJobs /\ cut' = cut
      BY <2>7, ColumnChanges DEF CreateQuarantine
    <3>2. messages[id] \in Messages
      BY <3>1, <1>d
    <3>3. /\ row \in Messages /\ row.mail = messages[id].mail
          /\ row.verdict = messages[id].verdict /\ row.held = "quarantined"
      BY <3>2 DEF Messages
    <3>4. job.id = id
      BY <3>1 DEF IngestJobs
    <3>5. thread[t].id = id /\ cut' = cut /\ row.held # "no"
      BY <3>1, <3>3
    <3> HIDE DEF row, job, id
    <3> QED  BY <3>1, <3>3, <3>4, <3>5, GateMessage
  <2>8. ASSUME NEW t \in Threads, RecordSiemEvent(t)
        PROVE  Goal
    <3> DEFINE id == thread[t].id
               row == [messages[id] EXCEPT !.events = @ \cup {thread[t].at}]
    <3>1. /\ thread[t].at \in {"received", "released"} /\ id \in DOMAIN messages
          /\ messages' = [messages EXCEPT ![id] = row]
          /\ thread' = [thread EXCEPT ![t] = Idle] /\ cut' = cut
      BY <2>8, ColumnChanges DEF RecordSiemEvent
    <3>2. messages[id] \in Messages
      BY <3>1, <1>d
    <3>3. /\ row \in Messages /\ row.mail = messages[id].mail
          /\ row.verdict = messages[id].verdict /\ row.held = messages[id].held
      BY <3>1, <3>2 DEF Messages
    <3>4. Idle.at = "idle"
      BY DEF Idle
    <3>5. thread[t].at = "received" => (Harmful(row.mail) => row.held # "no")
      BY <3>3 DEF GateInv, ReportedIsHeld
    <3>6. thread[t].id = id /\ cut' = cut /\ row.held = messages[id].held
      BY <3>1, <3>3
    <3> HIDE DEF row, id
    <3> QED  BY <3>1, <3>3, <3>4, <3>5, <3>6, GateMessage
  <2>9. ASSUME NEW t \in Threads, NEW id \in DOMAIN messages, ReleaseQuarantine(t, id)
        PROVE  Goal
    <3> DEFINE row == [messages[id] EXCEPT !.held = "released"]
               job == [at |-> "released", id |-> id]
    <3>1. /\ thread[t] = Idle /\ cut' = cut
          /\ messages' = [messages EXCEPT ![id] = row] /\ thread' = [thread EXCEPT ![t] = job]
      BY <2>9, ColumnChanges DEF ReleaseQuarantine, Begin
    <3>2. messages[id] \in Messages
      BY <1>d
    <3>3. /\ row \in Messages /\ row.mail = messages[id].mail
          /\ row.verdict = messages[id].verdict /\ row.held = "released"
      BY <3>2 DEF Messages
    <3>4. job.at = "released" /\ thread[t].at = "idle"
      BY <3>1 DEF Idle
    <3> HIDE DEF row, job
    <3> QED  BY <3>1, <3>3, <3>4, GateMessage
  <2>10. ASSUME NEW t \in Threads, ThreadFails(t)
         PROVE  Goal
    <3>1. /\ messages' = messages /\ cut' = cut \cup CutBy(thread[t])
          /\ thread' = [thread EXCEPT ![t] = Idle]
      BY <2>10 DEF ThreadFails, AfterSyncError
    <3>2. /\ \A q \in Threads : q # t => thread'[q] = thread[q]
          /\ thread'[t].at = "idle"
      BY <3>1, <1>d DEF Idle
    <3>3. HarmfulIsSeen'
      BY <3>1 DEF GateInv, HarmfulIsSeen, Harmful
    <3>4. ReportedIsHeld'
      <4> SUFFICES ASSUME NEW q \in Threads, thread'[q].at = "received",
                          Harmful(messages'[thread'[q].id].mail)
                   PROVE  messages'[thread'[q].id].held # "no"
        BY DEF ReportedIsHeld, Harmful
      <4>1. thread'[q] = thread[q]
        BY <3>2
      <4> QED  BY <3>1, <4>1 DEF GateInv, ReportedIsHeld
    <3>5. ASSUME NEW k \in DOMAIN messages', Harmful(messages'[k].mail)
          PROVE  Accounted(k)'
      <4>1. Accounted(k)
        BY <3>1, <3>5 DEF GateInv
      <4>2. ASSUME NEW q \in Threads, thread[q] # Idle, k \in CutBy(thread[q]), q # t
            PROVE  UnderWay(k)'
        <5>1. thread'[q] = thread[q]
          BY <3>2, <4>2
        <5> QED  BY <4>2, <5>1 DEF UnderWay, CutBy, Idle
      <4>3. messages'[k].held # "no" \/ k \in cut' \/ UnderWay(k)'
        BY <3>1, <4>1, <4>2 DEF Accounted, UnderWay
      <4> QED  BY <4>3 DEF Accounted
    <3> QED  BY <3>3, <3>4, <3>5 DEF GateInv, Harmful
  <2>11. CASE HookReads \/ HookEnds \/ HookBegins \/ HookFails
    BY <2>11, <1>1 DEF HookReads, HookEnds, HookBegins, HookFails, gateway
  <2>12. CASE Crash
    <3>1. /\ messages' = messages /\ cut' = cut \cup UNION {CutBy(thread[t]) : t \in Threads}
          /\ thread' = [t \in Threads |-> Idle]
      BY <2>12 DEF Crash
    <3>2. \A q \in Threads : thread'[q].at = "idle"
      BY <3>1 DEF Idle
    <3>3. HarmfulIsSeen'
      BY <3>1 DEF GateInv, HarmfulIsSeen, Harmful
    <3>4. ReportedIsHeld'
      BY <3>2 DEF ReportedIsHeld
    <3>5. ASSUME NEW k \in DOMAIN messages', Harmful(messages'[k].mail)
          PROVE  Accounted(k)'
      <4>1. Accounted(k)
        BY <3>1, <3>5 DEF GateInv
      <4>2. messages'[k].held # "no" \/ k \in cut'
        BY <3>1, <4>1 DEF Accounted, UnderWay
      <4> QED  BY <4>2 DEF Accounted
    <3> QED  BY <3>3, <3>4, <3>5 DEF GateInv, Harmful
  <2> HIDE DEF Goal
  <2> QED  BY <1>2, NextCases, <2>1, <2>2, <2>3, <2>4, <2>5, <2>6, <2>7, <2>8, <2>9, <2>10, <2>11, <2>12
<1>3. CASE UNCHANGED vars
  BY <1>3, <1>1 DEF vars, gateway
<1> QED  BY <1>2, <1>3

\* A mail with a malicious attachment or URL is in quarantine until someone
\* releases it, unless its ingest failed or crashed after recording it: for any
\* mails and policies, created and changed beside any number of ingests.
THEOREM HarmfulCorrect == Spec => []HarmfulIsHeld
<1>1. Init => TInv /\ GateInv
  <2> SUFFICES ASSUME Init
               PROVE  TInv /\ GateInv
    OBVIOUS
  <2>1. messages = <<>> /\ \A t \in Threads : thread[t] = Idle
    BY DEF Init
  <2> QED  BY <2>1, TypeInit DEF GateInv, HarmfulIsSeen, ReportedIsHeld, Idle
<1>2. TInv /\ GateInv /\ [Next]_vars => (TInv /\ GateInv)'
  BY TypeStep, GateStep
<1>3. GateInv => HarmfulIsHeld
  BY DEF GateInv, Accounted, UnderWay, Harmful, HarmfulIsHeld
<1> QED  BY <1>1, <1>2, <1>3, PTL DEF Spec
=============================================================================
