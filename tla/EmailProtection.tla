--------------------------- MODULE EmailProtection ---------------------------
(***************************************************************************)
(* The email service: one process with mailbox connectors and a gateway.   *)
(*                                                                         *)
(*   google_callback, sync_google, sync_microsoft, rescan_message,         *)
(*   subscribe_google_watch, webhook_google_pubsub    email_protection/app *)
(*   ingest_message, release_quarantine_endpoint     email_security/routes *)
(*   record_message, enqueue_message, ...           email_security/storage *)
(*                                                                         *)
(* A handler declared with def runs on a thread of the pool and commits    *)
(* each of its writes alone; the Gmail webhook is async and runs on the    *)
(* event loop, so there is one of it at a time, beside the threads.  One   *)
(* mailbox is linked, with one account of each provider.                   *)
(***************************************************************************)
EXTENDS MailVerdicts, Sequences

CONSTANTS
  Threads,
  Gmail, Graph,     \* messages that may reach the inbox of each provider
  TraitsOf,
  Mails,            \* messages that senders hand to the gateway
  NewPolicies,      \* policies that an operator may create
  FirstLinked,      \* providers linked when the run begins: sets of them
  HookLimit,        \* changes one webhook call analyses: 20
  MaxRequests,      \* bounds of a run: requests to the pool,
  MaxFailures,      \*   exceptions, redeliveries
  MaxCrashes

Providers == {"google", "microsoft"}
MayReach  == [google |-> Gmail, microsoft |-> Graph]

ASSUME EmailConstants ==
  /\ TraitsOf \in [Gmail \cup Graph -> Traits] /\ Gmail \cap Graph = {}
  /\ Mails \subseteq Mail /\ NewPolicies \subseteq Policies
  /\ FirstLinked \subseteq SUBSET Providers
  /\ HookLimit \in Nat \ {0}
  /\ {MaxRequests, MaxFailures, MaxCrashes} \subseteq Nat

VARIABLES
  inbox,        \* inbox[p]: the messages of a provider, oldest first
  watched,      \* Gmail publishes the changes of its mailbox
  notices,      \* history ids published and not yet acknowledged
  linked,       \* providers with a token
  cursor,       \* gmail_history: the last history id seen, 0 if none
  rows,         \* email_messages: rows[m].attached, whether with its attachments
  verdicts,     \* email_assessments
  mailbox,      \* mailbox_integration: mailbox[p]
  policies,     \* ep_policies
  messages,     \* ep_messages, each with its rows of the other tables
  thread,       \* thread[t]: the request a thread handles
  hook,         \* the webhook call the event loop handles
  analysed,     \* history: indices of the Gmail inbox that a webhook analysed,
  cutoff,       \*   that were beyond the limit of one,
  jumped,       \*   that lay behind where the cursor was placed
  rescanned,    \* history: messages that were rescanned,
  blind,        \*   that were stored without their attachments
  cut,          \* history: messages of the gateway whose ingest did not end
  requests, failures, crashes

connectors == <<inbox, watched, notices, linked, cursor, rows, verdicts, mailbox>>
gateway    == <<policies, messages, cut>>
pushes     == <<hook, analysed, cutoff, jumped>>
rescans    == <<rescanned, blind>>
counters   == <<requests, failures, crashes>>
vars == <<connectors, gateway, thread, pushes, rescans, counters>>

Idle       == [at |-> "idle"]
NotSynced  == [ok |-> FALSE, listed |-> {}]
Unassessed == [verdict |-> "none", action |-> "none"]

\* The history id Gmail stands at: the i-th arrival is change i + 1.
HistoryId == Len(inbox["google"]) + 1

Init ==
  /\ inbox = [p \in Providers |-> <<>>]
  /\ watched = FALSE /\ notices = {}
  /\ linked \in FirstLinked
  /\ cursor = IF "google" \in linked THEN HistoryId ELSE 0
  /\ rows = [m \in Gmail \cup Graph |-> "none"]
  /\ verdicts = [m \in Gmail \cup Graph |-> Unassessed]
  /\ mailbox = [p \in Providers |-> NotSynced]
  /\ policies = {} /\ messages = <<>> /\ cut = {}
  /\ thread = [t \in Threads |-> Idle]
  /\ hook = Idle /\ analysed = {} /\ cutoff = {} /\ jumped = {}
  /\ rescanned = {} /\ blind = {}
  /\ requests = 0 /\ failures = 0 /\ crashes = 0

-----------------------------------------------------------------------------
(* The providers *)

Arrives(p) ==
  /\ \E m \in MayReach[p] \ {inbox[p][i] : i \in DOMAIN inbox[p]} :
       inbox' = [inbox EXCEPT ![p] = Append(@, m)]
  /\ notices' = IF p = "google" /\ watched THEN notices \cup {HistoryId + 1} ELSE notices
  /\ UNCHANGED <<watched, linked, cursor, rows, verdicts, mailbox, gateway, thread, pushes,
                 rescans, counters>>

-----------------------------------------------------------------------------
(* Requests, each on a thread *)

Begin(t, job) ==
  /\ thread[t] = Idle
  /\ requests < MaxRequests /\ requests' = requests + 1
  /\ thread' = [thread EXCEPT ![t] = job]
  /\ UNCHANGED <<failures, crashes>>

Goes(t, job) == thread' = [thread EXCEPT ![t] = job] /\ UNCHANGED counters

Ends(t) == Goes(t, Idle)

\* The cursor is placed at id: what lies behind it will not be listed.
Jumped(id) == jumped \cup ((1 .. id - 1) \ analysed)

\* google_callback and microsoft_callback; Google also says where history stands.
LinkMailbox(t, p) ==
  /\ Begin(t, IF p = "google" THEN [at |-> "link", id |-> HistoryId] ELSE Idle)
  /\ linked' = linked \cup {p}
  /\ UNCHANGED <<inbox, watched, notices, cursor, rows, verdicts, mailbox, gateway, pushes,
                 rescans>>

SaveCursor(t) ==
  /\ thread[t].at = "link"
  /\ cursor' = thread[t].id
  /\ jumped' = Jumped(thread[t].id)
  /\ Ends(t)
  /\ UNCHANGED <<inbox, watched, notices, linked, rows, verdicts, mailbox, gateway, hook,
                 analysed, cutoff, rescans>>

\* subscribe_google_watch
SubscribeWatch(t) ==
  /\ "google" \in linked
  /\ watched' = TRUE
  /\ Begin(t, [at |-> "link", id |-> HistoryId])
  /\ UNCHANGED <<inbox, notices, linked, cursor, rows, verdicts, mailbox, gateway, pushes,
                 rescans>>

\* sync_google and sync_microsoft: the newest are listed first, all of them.
BeginSync(t, p, attachments) ==
  /\ p \in linked
  /\ p = "google" => attachments
  /\ Begin(t, [at |-> "message", p |-> p, todo |-> Len(inbox[p]), attachments |-> attachments,
               listed |-> {inbox[p][i] : i \in DOMAIN inbox[p]}])
  /\ UNCHANGED <<connectors, gateway, pushes, rescans>>

\* An HTTPException, no token here, is written down.
RefuseSync(t, p) ==
  /\ p \notin linked
  /\ Begin(t, Idle)
  /\ mailbox' = [mailbox EXCEPT ![p] = NotSynced]
  /\ UNCHANGED <<inbox, watched, notices, linked, cursor, rows, verdicts, gateway, pushes,
                 rescans>>

\* upsert_email_message
StoreMessage(t) ==
  LET job == thread[t]
      m == inbox[job.p][job.todo]
  IN
  /\ job.at = "message" /\ job.todo > 0
  /\ rows' = [rows EXCEPT ![m] = IF job.attachments THEN "whole" ELSE "bare"]
  /\ blind' = IF job.attachments THEN blind ELSE blind \cup {m}
  /\ Goes(t, [job EXCEPT !.at = "assess"])
  /\ UNCHANGED <<inbox, watched, notices, linked, cursor, verdicts, mailbox, gateway, pushes,
                 rescanned>>

\* The traits of message m as one who knows its row and its reply-to sees them.
\* Mutation of Seen: attachments are not read back.
SeenBare(m, row, replyTo) ==
  [TraitsOf[m] EXCEPT !.mismatch = @ /\ replyTo, !.dangerous = IF replyTo THEN @ ELSE 0]

Seen(m, row, replyTo) ==
  [TraitsOf[m] EXCEPT !.mismatch = @ /\ replyTo, !.dangerous = IF row = "whole" THEN @ ELSE 0]

\* upsert_email_assessment: the last assessment of a message replaces the one before.
UpsertAssessment(m, verdict) == verdicts' = [verdicts EXCEPT ![m] = verdict]

\* The second commit of a synced message
StoreAssessment(t) ==
  LET job == thread[t]
      m == inbox[job.p][job.todo]
      row == IF job.attachments THEN "whole" ELSE "bare"
  IN
  /\ job.at = "assess"
  /\ UpsertAssessment(m, AssessThreat(Seen(m, row, TRUE)))
  /\ Goes(t, [job EXCEPT !.at = "message", !.todo = @ - 1])
  /\ UNCHANGED <<inbox, watched, notices, linked, cursor, rows, mailbox, gateway, pushes,
                 rescans>>

\* upsert_mailbox_state
EndSync(t) ==
  LET job == thread[t] IN
  /\ job.at = "message" /\ job.todo = 0
  /\ mailbox' = [mailbox EXCEPT ![job.p] = [ok |-> TRUE, listed |-> job.listed]]
  /\ Ends(t)
  /\ UNCHANGED <<inbox, watched, notices, linked, cursor, rows, verdicts, gateway, pushes,
                 rescans>>

\* rescan_message: the row is read, and later what it tells is written.
BeginRescan(t, m) ==
  /\ rows[m] # "none"
  /\ Begin(t, [at |-> "rescan", m |-> m, row |-> rows[m]])
  /\ UNCHANGED <<connectors, gateway, pushes, rescans>>

EndRescan(t) ==
  LET job == thread[t] IN
  /\ job.at = "rescan"
  /\ UpsertAssessment(job.m, AssessThreat(Seen(job.m, job.row, FALSE)))
  /\ rescanned' = rescanned \cup {job.m}
  /\ Ends(t)
  /\ UNCHANGED <<inbox, watched, notices, linked, cursor, rows, mailbox, gateway, pushes, blind>>

-----------------------------------------------------------------------------
(* The gateway *)

CreatePolicy(t) ==
  /\ \E p \in NewPolicies \ policies : policies' = policies \cup {p}
  /\ Begin(t, Idle)
  /\ UNCHANGED <<connectors, messages, cut, pushes, rescans>>

\* ingest_message: the policies are read; a sender may hand in a mail again.
BeginIngest(t, mail) ==
  /\ Begin(t, [at |-> "record", mail |-> mail, policies |-> policies])
  /\ UNCHANGED <<connectors, gateway, pushes, rescans>>

RecordMessage(t) ==
  LET job == thread[t]
      verdict == MailVerdict(job.mail, job.policies)
  IN
  /\ job.at = "record"
  /\ messages' = Append(messages, [mail |-> job.mail, verdict |-> verdict, held |-> "no",
                                   queued |-> FALSE, events |-> {}])
  /\ Goes(t, [at |-> "enqueue", id |-> Len(messages) + 1])
  /\ UNCHANGED <<connectors, policies, cut, pushes, rescans>>

\* What remains of an ingest is a write each, in this order.
EnqueueMessage(t) ==
  LET job == thread[t]
      held == messages[job.id].verdict \in {"quarantined", "blocked"}
  IN
  /\ job.at = "enqueue"
  /\ messages' = [messages EXCEPT ![job.id].queued = TRUE]
  /\ Goes(t, [job EXCEPT !.at = IF held THEN "quarantine" ELSE "received"])
  /\ UNCHANGED <<connectors, policies, cut, pushes, rescans>>

CreateQuarantine(t) ==
  LET job == thread[t] IN
  /\ job.at = "quarantine"
  /\ messages' = [messages EXCEPT ![job.id].held = "quarantined"]
  /\ Goes(t, [job EXCEPT !.at = "received"])
  /\ UNCHANGED <<connectors, policies, cut, pushes, rescans>>

RecordSiemEvent(t) ==
  LET job == thread[t] IN
  /\ job.at \in {"received", "released"}
  /\ messages' = [messages EXCEPT ![job.id].events = @ \cup {job.at}]
  /\ Ends(t)
  /\ UNCHANGED <<connectors, policies, cut, pushes, rescans>>

\* release_quarantine, also of what is released; its audit row and its event
\* follow it.
ReleaseQuarantine(t, id) ==
  /\ messages[id].held # "no"
  /\ messages' = [messages EXCEPT ![id].held = "released"]
  /\ Begin(t, [at |-> "released", id |-> id])
  /\ UNCHANGED <<connectors, policies, cut, pushes, rescans>>

-----------------------------------------------------------------------------
(* webhook_google_pubsub, on the event loop *)

\* Mutation of Changed: history is asked from the change that is announced.
ChangedFromNotice(last, id) == id .. HistoryId - 1

Changed(last, id) == last .. HistoryId - 1

\* Pub/Sub delivers in any order, and again what was not acknowledged.
HookReads ==
  /\ hook = Idle
  /\ "google" \in linked
  /\ \E id \in notices :
       hook' = IF cursor = 0 THEN [at |-> "first", id |-> id]
               ELSE [at |-> "analyse", id |-> id, last |-> cursor,
                     changed |-> Changed(cursor, id)]
  /\ UNCHANGED <<connectors, gateway, thread, analysed, cutoff, jumped, rescans, counters>>

\* Of what changed only the first are analysed; the cursor becomes what was
\* announced, whatever the threads have made of it meanwhile.
HookEnds ==
  LET done == {i \in hook.changed : i < hook.last + HookLimit} IN
  /\ hook.at = "analyse"
  /\ analysed' = analysed \cup done
  /\ cutoff' = cutoff \cup (hook.changed \ done)
  /\ cursor' = hook.id
  /\ notices' = notices \ {hook.id}
  /\ hook' = Idle
  /\ UNCHANGED <<inbox, watched, linked, rows, verdicts, mailbox, gateway, thread, jumped,
                 rescans, counters>>

\* There was no cursor: the announced change is where it begins.
HookBegins ==
  /\ hook.at = "first"
  /\ cursor' = hook.id
  /\ jumped' = Jumped(hook.id)
  /\ notices' = notices \ {hook.id}
  /\ hook' = Idle
  /\ UNCHANGED <<inbox, watched, linked, rows, verdicts, mailbox, gateway, thread, analysed,
                 cutoff, rescans, counters>>

\* Mutation of Unacknowledged: a failure is answered with success.
UnacknowledgedNever(id) == notices \ {id}

Unacknowledged(id) == notices

\* A message cannot be fetched: the call ends with an error.
HookFails ==
  /\ hook # Idle
  /\ failures < MaxFailures /\ failures' = failures + 1
  /\ hook' = Idle
  /\ notices' = Unacknowledged(hook.id)
  /\ UNCHANGED <<inbox, watched, linked, cursor, rows, verdicts, mailbox, gateway, thread,
                 analysed, cutoff, jumped, rescans, requests, crashes>>

-----------------------------------------------------------------------------
\* The messages that the handler of a request leaves as they are.
CutBy(job) == IF job.at \in {"enqueue", "quarantine", "received"} THEN {job.id} ELSE {}

\* Mutation of AfterSyncError: the message is left out and the sync goes on.
AfterSyncErrorNext(job) == [job EXCEPT !.at = "message", !.todo = @ - 1]

\* An exception other than HTTPException ends a sync; the state stays.
AfterSyncError(job) == Idle

\* A provider that does not answer, a locked database
ThreadFails(t) ==
  LET job == thread[t] IN
  /\ job # Idle
  /\ failures < MaxFailures /\ failures' = failures + 1
  /\ thread' = [thread EXCEPT ![t] = IF job.at \in {"message", "assess"} /\ job.todo > 0
                                     THEN AfterSyncError(job) ELSE Idle]
  /\ cut' = cut \cup CutBy(job)
  /\ UNCHANGED <<connectors, policies, messages, pushes, rescans, requests, crashes>>

Crash ==
  /\ crashes < MaxCrashes /\ crashes' = crashes + 1
  /\ thread' = [t \in Threads |-> Idle]
  /\ hook' = Idle
  /\ cut' = cut \cup UNION {CutBy(thread[t]) : t \in Threads}
  /\ UNCHANGED <<connectors, policies, messages, analysed, cutoff, jumped, rescans, requests,
                 failures>>

Connector(t) ==
  \/ \E p \in Providers : LinkMailbox(t, p) \/ RefuseSync(t, p)
  \/ SaveCursor(t) \/ SubscribeWatch(t)
  \/ \E p \in Providers, attachments \in BOOLEAN : BeginSync(t, p, attachments)
  \/ StoreMessage(t) \/ StoreAssessment(t) \/ EndSync(t)
  \/ \E m \in Gmail \cup Graph : BeginRescan(t, m)
  \/ EndRescan(t)

Gateway(t) ==
  \/ CreatePolicy(t)
  \/ \E mail \in Mails : BeginIngest(t, mail)
  \/ RecordMessage(t) \/ EnqueueMessage(t) \/ CreateQuarantine(t) \/ RecordSiemEvent(t)
  \/ \E id \in DOMAIN messages : ReleaseQuarantine(t, id)

Hook == HookReads \/ HookEnds \/ HookBegins

Next ==
  \/ \E p \in Providers : Arrives(p)
  \/ \E t \in Threads : Connector(t) \/ Gateway(t) \/ ThreadFails(t)
  \/ Hook \/ HookFails
  \/ Crash

Spec == Init /\ [][Next]_vars

\* Pub/Sub delivers what is not acknowledged, and the event loop runs.
FairSpec == Spec /\ WF_vars(Hook)

-----------------------------------------------------------------------------
\* Behind the cursor lies no change that a webhook did not analyse, except what
\* was beyond its limit and what a link or a new watch placed the cursor after:
\* also when pushes come out of order, fail, or race with a new watch.
NothingSkipped == \A i \in 1 .. cursor - 1 : i \in analysed \cup cutoff \cup jumped

\* A message whose arrival is published comes to be analysed, although webhook
\* calls fail and are repeated.
WatchedIsAnalysed ==
  \A i \in 1 .. Cardinality(Gmail) : i + 1 \in notices ~> i \in analysed \cup cutoff \cup jumped

\* Where a mailbox is shown as synced, all that the sync listed is stored and
\* assessed, whatever other syncs and rescans did meanwhile or failed to do.
OkMeansAssessed ==
  \A p \in Providers : mailbox[p].ok =>
    \A m \in mailbox[p].listed : rows[m] # "none" /\ verdicts[m] # Unassessed

\* Only a rescan forgets that the reply-to is not the sender's domain, and only
\* a sync without attachments forgets a dangerous one, in whatever order the
\* reads and the writes of rescans and syncs fall.
VerdictIsExplained ==
  \A m \in Gmail \cup Graph : verdicts[m] # Unassessed =>
    \/ verdicts[m].verdict = ThreatVerdict(TraitsOf[m])
    \/ m \in blind
    \/ m \in rescanned /\ TraitsOf[m].dangerous = 0

\* What the page of a mailbox shows can be relied on.
MailboxIsTrue == OkMeansAssessed /\ VerdictIsExplained

\* A mail with a malicious attachment or URL is in quarantine until someone
\* releases it, unless its ingest was cut after it was recorded.
HarmfulIsHeld ==
  \A id \in DOMAIN messages : messages[id].mail.hits \cap {"attachments", "urls"} # {} =>
    \/ messages[id].held # "no"
    \/ id \in cut
    \/ \E t \in Threads : thread[t] # Idle /\ id \in CutBy(thread[t])
=============================================================================
