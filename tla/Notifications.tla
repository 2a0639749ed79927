---------------------------- MODULE Notifications ----------------------------
(***************************************************************************)
(* NotificationService.emit and the table notification_events.             *)
(*                                                                         *)
(*   emit, bucket_time                       backend/app/notifications.py  *)
(*   create_notification_event               backend/app/crud.py           *)
(*   NotificationEvent                       backend/app/models.py         *)
(*   unique (type, entity, recipient, bucket)   alembic 202503110001       *)
(*                                                                         *)
(* An emission belongs to an emitter: a request thread of the API, or the  *)
(* vulnerability worker.  For each recipient it commits a queued row,      *)
(* sends, and commits the outcome; a row that exists already is marked as  *)
(* skipped, unless it has left the queue.  The rows are those of the       *)
(* current window of deduplication.  Modules that emit EXTEND this.        *)
(***************************************************************************)
EXTENDS Naturals, FiniteSets

CONSTANTS
  Emitters,
  Recipients,
  EventTypes,
  Entities,
  MaxRefused    \* bound of a run: mails that are refused in one window

VARIABLES
  rows,         \* rows[k]: the status of the row with key k, "none" without one
  emission,     \* emission[e]: what emitter e does
  mails,        \* history: mails[k]: how often the mail of row k was handed over
  failed,       \* history: rows whose mail was refused
  orphans       \* history: rows whose emitter died between its commits

notificationVars == <<rows, emission, mails, failed, orphans>>

Keys == [type : EventTypes, entity : Entities, to : Recipients]

RowStatuses == {"none", "queued", "sent", "failed", "skipped_dedup"}

Silent == [at |-> "silent"]
Emissions ==
  [at : {"next"}, todo : SUBSET Recipients, key : [type : EventTypes, entity : Entities]]
    \cup [at : {"next", "send", "skip", "sent", "failed"}, todo : SUBSET Recipients,
          key : [type : EventTypes, entity : Entities], to : Recipients]

NotificationTypeOK ==
  /\ rows \in [Keys -> RowStatuses]
  /\ emission \in [Emitters -> Emissions \cup {Silent}]
  /\ mails \in [Keys -> Nat]
  /\ failed \subseteq Keys /\ orphans \subseteq Keys

NotificationInit ==
  /\ rows = [k \in Keys |-> "none"]
  /\ emission = [e \in Emitters |-> Silent]
  /\ mails = [k \in Keys |-> 0]
  /\ failed = {} /\ orphans = {}

\* The minutes of bucket_time pass: no later key equals one of these rows.  An
\* emission keeps the bucket it began with; none is under way here.
NewBucket ==
  /\ \A e \in Emitters : emission[e] = Silent
  /\ rows' = [k \in Keys |-> "none"]
  /\ mails' = [k \in Keys |-> 0]
  /\ failed' = {} /\ orphans' = {}
  /\ UNCHANGED emission

\* emit goes through its recipients one by one.
Emission(e, type, entity, recipients) ==
  /\ emission' = [emission EXCEPT ![e] =
       [at |-> "next", todo |-> recipients,
        key |-> [type |-> type, entity |-> entity]]]
  /\ UNCHANGED <<rows, mails, failed, orphans>>

Emitted(e) == emission[e].at = "next" /\ emission[e].todo = {}

EndEmit(e) ==
  /\ emission' = [emission EXCEPT ![e] = Silent]
  /\ UNCHANGED <<rows, mails, failed, orphans>>

KeyOf(m, to) == [type |-> m.key.type, entity |-> m.key.entity, to |-> to]

At(m, at, to) == [at |-> at, todo |-> m.todo \ {to}, key |-> m.key, to |-> to]

\* Mutation of Inserts: the row is looked for among those already sent.
InsertsUnlessSent(k) == rows[k] # "sent"

\* The unique constraint lets one INSERT of a key pass.
Inserts(k) == rows[k] = "none"

InsertEvent(e) ==
  LET m == emission[e] IN
  /\ m.at = "next"
  /\ \E to \in m.todo :
       LET k == KeyOf(m, to) IN
       IF Inserts(k)
       THEN /\ rows' = [rows EXCEPT ![k] = "queued"]
            /\ emission' = [emission EXCEPT ![e] = At(m, "send", to)]
       ELSE /\ emission' = [emission EXCEPT ![e] =
                 At(m, IF rows[k] = "queued" THEN "skip" ELSE "next", to)]
            /\ UNCHANGED rows
  /\ UNCHANGED <<mails, failed, orphans>>

\* What was read as queued is written as skipped, whatever it has become.
SkipDuplicate(e) ==
  LET m == emission[e] IN
  /\ m.at = "skip"
  /\ rows' = [rows EXCEPT ![KeyOf(m, m.to)] = "skipped_dedup"]
  /\ emission' = [emission EXCEPT ![e] = At(m, "next", m.to)]
  /\ UNCHANGED <<mails, failed, orphans>>

Sends(k) == TRUE

Send(e) ==
  LET m == emission[e]
      k == KeyOf(m, m.to)
  IN
  /\ m.at = "send"
  /\ \/ /\ mails' = [mails EXCEPT ![k] = IF Sends(k) THEN @ + 1 ELSE @]
        /\ emission' = [emission EXCEPT ![e] = At(m, "sent", m.to)]
        /\ UNCHANGED failed
     \/ /\ Cardinality(failed) < MaxRefused
        /\ failed' = failed \cup {k}
        /\ emission' = [emission EXCEPT ![e] = At(m, "failed", m.to)]
        /\ UNCHANGED mails
  /\ UNCHANGED <<rows, orphans>>

MarkEvent(e) ==
  LET m == emission[e] IN
  /\ m.at \in {"sent", "failed"}
  /\ rows' = [rows EXCEPT ![KeyOf(m, m.to)] = m.at]
  /\ emission' = [emission EXCEPT ![e] = At(m, "next", m.to)]
  /\ UNCHANGED <<mails, failed, orphans>>

EmitStep(e) == InsertEvent(e) \/ SkipDuplicate(e) \/ Send(e) \/ MarkEvent(e)

\* The emitter dies: nothing takes its emission up again.
CutEmission(e) ==
  /\ emission' = [emission EXCEPT ![e] = Silent]
  /\ orphans' = IF emission[e].at \in {"send", "sent", "failed"}
                THEN orphans \cup {KeyOf(emission[e], emission[e].to)} ELSE orphans
  /\ UNCHANGED <<rows, mails, failed>>

-----------------------------------------------------------------------------
\* However many emitters announce the same thing in one window, die and come
\* back, a recipient gets one mail of it.
OneMailPerKey == \A k \in Keys : mails[k] <= 1

\* A row stands for a mail: it was handed over or refused, its emitter is about
\* to send it, or died.  A duplicate that marks the row in between loses nothing.
RowsAreMailed ==
  \A k \in Keys :
    \/ rows[k] = "none" \/ mails[k] > 0 \/ k \in failed \cup orphans
    \/ \E e \in Emitters : emission[e].at = "send" /\ KeyOf(emission[e], emission[e].to) = k

\* What is announced is mailed once and not more, also to a recipient for whom
\* another emitter has put the row first.
MailedOnce == OneMailPerKey /\ RowsAreMailed
=============================================================================
