------------------------------- MODULE Records -------------------------------
(***************************************************************************)
(* The records people keep by hand: handovers, workplans with their items  *)
(* and flow, indicators, BIOC and analytics rules, the rule library,       *)
(* incidents, escalations, users, storage policies, response actions,      *)
(* active responses, vulnerability definitions; the rows of network        *)
(* sensors and of agents; the domains, analyzer jobs and identity          *)
(* providers of the email service; and rows that are written once.         *)
(*                                                                         *)
(*   the handlers of these records     backend/app/main.py and the routers *)
(*                                     of incidents, actions, datalake,    *)
(*                                     vulnerabilities, network and agents *)
(*   create_..., update_..., upsert_...   backend/app/crud.py              *)
(*   the handlers of routes.py and of soft actions in app.py, and what     *)
(*   they call in storage.py           email_protection                    *)
(*                                                                         *)
(* A handler runs in a thread of one or another process.  It reads the row *)
(* it is to change, sets the fields that were sent, and commits: what the  *)
(* ORM writes are the fields whose value is not the one it had read.  Some *)
(* then commit a line of the audit log.  A record is two fields, and its   *)
(* kind says what its handlers ask and do.  One record is followed.  What  *)
(* is refused changes nothing and is left out: a record of someone else, a *)
(* workplan that does not exist, a null.                                   *)
(***************************************************************************)
EXTENDS Naturals, Sequences, FiniteSets

CONSTANTS
  Desks,          \* threads
  Drafts,         \* bound: what a record is created with
  MaxCalls,       \* bound: requests
  MaxFailures     \* bound: requests cut by a crash or by the database

ASSUME RecordConstants ==
  /\ IsFiniteSet(Desks)
  /\ Drafts \subseteq [{"first", "second"} -> {1, 2}]
  /\ MaxCalls \in Nat /\ MaxFailures \in Nat

VARIABLES
  entry,      \* the record, or Absent
  audit,      \* the audit log of it: how many lines, and what they come to
  desk,       \* desk[d]: the request thread d works on
  calls, failures,
  written,    \* history: how many writes were committed, and what they come to
  untold,     \* history: how many of them the log cannot tell of
  contended,  \* history: two requests worked on the record at once
  lopsided    \* history: an update sent one end of a shift without the other

recordVars == <<entry, audit, desk, calls, failures, written, untold, contended, lopsided>>

Kinds == {"handover", "workplan", "item", "flow", "indicator", "bioc", "analytics",
          "library", "incident", "escalation", "user", "policy", "response",
          "definition", "sensor", "agent", "triage", "domain", "job", "identity",
          "xdr", "note"}

\* The email service writes with SQL of its own, and not by way of an ORM.
RawKinds == {"domain", "job", "identity"}

\* first and second: shift_start and shift_end of a handover, nodes and edges of
\* a flow, content and enabled of a library rule, any other field of a workplan
\* and its due_at, any two fields of the others.
Fields == {"first", "second"}
Values == {1, 2}
Full   == [Fields -> Values]
Sent   == UNION {[S -> Values] : S \in (SUBSET Fields) \ {{}}}

\* Of the values of due_at one is no date.
Date == 2

Absent  == [kind |-> "none"]
Deleted == [kind |-> "deleted"]
Record  == [kind : Kinds, value : Full, paired : BOOLEAN]
Free    == [at |-> "free"]

\* A handler that inserts has read nothing of the row, and one that deletes
\* needs nothing of it.
Unread   == [f \in Fields |-> 0]
Deletion == [at |-> "delete"]
Requests == [at : {"insert", "update", "pair", "log"}, kind : Kinds, sent : Sent,
             loaded : Full \cup {Unread}] \cup {Deletion}

Exists == entry.kind \in Kinds

\* Writes or lines of the log: their number, and the last one of each field
Nothing  == [number |-> 0, last |-> [f \in Fields |-> 0]]
Add(sum, sent) ==
  [number |-> sum.number + 1,
   last   |-> [f \in Fields |-> IF f \in DOMAIN sent THEN sent[f] ELSE sum.last[f]]]

\* The log of analyzer jobs is that of SIEM events.
CreatesLogged == {"indicator", "bioc", "analytics", "escalation", "job"}
UpdatesLogged == {"indicator", "bioc", "analytics", "workplan", "job"}

\* Records of which a later commit tells: the items of an incident, the endpoint
\* of an agent, the event of a triage result, the outcome of an active response
Paired == {"incident", "agent", "triage", "xdr"}

RecordTypeOK ==
  /\ entry \in Record \cup {Absent, Deleted}
  /\ {audit, written} \subseteq [number : Nat, last : [Fields -> Values \cup {0}]]
  /\ desk \in [Desks -> Requests \cup {Free}]
  /\ untold \in Nat
  /\ calls \in 0 .. MaxCalls /\ failures \in 0 .. MaxFailures
  /\ contended \in BOOLEAN /\ lopsided \in BOOLEAN

RecordInit ==
  /\ entry = Absent /\ audit = Nothing /\ written = Nothing
  /\ desk = [d \in Desks |-> Free]
  /\ untold = 0 /\ calls = 0 /\ failures = 0
  /\ contended = FALSE /\ lopsided = FALSE

-----------------------------------------------------------------------------
\* A request of kind that sends fields arrives at thread d.
Arrive(d, request) ==
  /\ desk[d] = Free
  /\ calls < MaxCalls /\ calls' = calls + 1
  /\ desk' = [desk EXCEPT ![d] = request]
  /\ contended' = (contended \/ \E e \in Desks : desk[e] # Free)

Finish(d) == desk' = [desk EXCEPT ![d] = Free]

\* Mutation of ShiftInOrder: the ends of a shift are not compared.
ShiftUnchecked(sent) == TRUE

\* "Shift end must be after shift start", when both are sent
ShiftInOrder(sent) == DOMAIN sent = Fields => sent["first"] < sent["second"]

Lopsided(kind, sent) == kind = "handover" /\ DOMAIN sent # Fields

\* A handler that inserts: everything is checked before, and nothing read.
BeginCreate(d, kind) ==
  \E sent \in Drafts :
    /\ entry = Absent
    /\ kind = "handover" => ShiftInOrder(sent)
    /\ Arrive(d, [at |-> "insert", kind |-> kind, sent |-> sent, loaded |-> Unread])
    /\ UNCHANGED <<entry, audit, failures, written, untold, lopsided>>

\* A handler that updates has read the row and checked the request.  A request
\* it refuses changes nothing.
BeginUpdate(d, kind, domains) ==
  \E sent \in Sent :
    /\ entry.kind = kind
    /\ DOMAIN sent \in domains
    /\ kind = "handover" => ShiftInOrder(sent)
    /\ Arrive(d, [at |-> "update", kind |-> kind, sent |-> sent, loaded |-> entry.value])
    /\ lopsided' = (lopsided \/ Lopsided(kind, sent))
    /\ UNCHANGED <<entry, audit, failures, written, untold>>

\* One that puts a record whole inserts it when there is none.
BeginPut(d, kind) ==
  \/ BeginCreate(d, kind)
  \/ BeginUpdate(d, kind, {Fields})

AnyFields == SUBSET Fields

CreateHandover(d)      == BeginCreate(d, "handover")
UpdateHandover(d)      == BeginUpdate(d, "handover", AnyFields)
AddWorkplan(d)         == BeginCreate(d, "workplan")
UpdateWorkplan(d)      == BeginUpdate(d, "workplan", AnyFields)
CreateWorkplanItem(d)  == BeginCreate(d, "item")
UpdateWorkplanItem(d)  == BeginUpdate(d, "item", AnyFields)
UpdateWorkplanFlow(d)  == BeginPut(d, "flow")
CreateIndicator(d)     == BeginCreate(d, "indicator")
UpdateIndicator(d)     == BeginUpdate(d, "indicator", AnyFields)
CreateBiocRule(d)      == BeginCreate(d, "bioc")
UpdateBiocRule(d)      == BeginUpdate(d, "bioc", AnyFields)
CreateAnalyticsRule(d) == BeginCreate(d, "analytics")
UpdateAnalyticsRule(d) == BeginUpdate(d, "analytics", AnyFields)
CreateIncident(d)      == BeginCreate(d, "incident")
UpdateIncident(d)      == BeginUpdate(d, "incident", AnyFields)
EscalateAlert(d)       == BeginCreate(d, "escalation")
CreateUser(d)          == BeginCreate(d, "user")
UpdateUser(d)          == BeginUpdate(d, "user", AnyFields)
CreateResponse(d)      == BeginCreate(d, "response")
UpdateResponse(d)      == BeginUpdate(d, "response", AnyFields)
CreateDefinition(d)    == BeginCreate(d, "definition")

\* Of a result of a triage and of the rows that are written once nothing is
\* ever changed.
IngestTriageResult(d)  == BeginCreate(d, "triage")
CreateWarroomNote(d)   == BeginCreate(d, "note")
CreateWorkgroup(d)     == BeginCreate(d, "note")
CreateTenant(d)        == BeginCreate(d, "note")
CreateConnector(d)     == BeginCreate(d, "note")
RecordEmailAction(d)   == BeginCreate(d, "note")
RecordThreatAudit(d)   == BeginCreate(d, "note")
AnalyzeSandbox(d)      == BeginCreate(d, "note")
IngestScaResult(d)     == BeginCreate(d, "note")
EvaluateAgent(d)       == BeginCreate(d, "note")

\* Blocking a URL, a sender or a session and isolating a device from an alert
\* do no more than this: they write that they were asked to.  So do the email
\* service's quarantine, release, block and allow.
RecordAlertAction(d)   == BeginCreate(d, "note")
ActOnMessage(d)        == RecordEmailAction(d)
ActOnThreat(d)         == RecordThreatAudit(d)

\* An active response is written as pending, asked of the Software API, and
\* written as completed or failed.
TriggerXdrAction(d)    == BeginCreate(d, "xdr")

\* An agent knows its key once its enrollment is answered.  A heartbeat sets the
\* times, and the address when there is one.
EnrollAgentRow(d) == BeginCreate(d, "agent")
AgentHeartbeat(d) ==
  /\ entry.kind = "agent" /\ entry.paired
  /\ BeginUpdate(d, "agent", {{"first"}, Fields})

\* Verifying a domain sets that it is verified, and when.
CreateDomain(d) == BeginCreate(d, "domain")
VerifyDomain(d) == BeginUpdate(d, "domain", {{"second"}})

\* A verdict sets all that is known of a job.
SubmitSample(d)    == BeginCreate(d, "job")
AnalyzerVerdict(d) == BeginUpdate(d, "job", {Fields})

\* The provider of a tenant is put as a whole.
PutIdentityProvider(d) == BeginPut(d, "identity")

\* Each bulk of a sensor puts its row.
ReportSensor(d)        == BeginPut(d, "sensor")

\* Reading the policy of a tenant that has none inserts the defaults; what an
\* update does not mention has them too, when there was no policy.
ReadStoragePolicy(d)   == BeginCreate(d, "policy")
UpdateStoragePolicy(d) == BeginCreate(d, "policy") \/ BeginUpdate(d, "policy", AnyFields)

\* Toggling a library rule sends enabled alone; an import puts rule after rule,
\* each in a commit of its own, and so does the script that imports a pack.
ToggleLibraryRule(d) == BeginUpdate(d, "library", {{"second"}})
ImportLibraryRule(d) == BeginPut(d, "library")
ImportRulePack(d)    == BeginPut(d, "library")

-----------------------------------------------------------------------------
\* Where a request goes after its commit
AfterInsert(kind) ==
  IF kind \in CreatesLogged THEN "log" ELSE IF kind \in Paired THEN "pair" ELSE "end"

AfterUpdate(kind) == IF kind \in UpdatesLogged THEN "log" ELSE "end"

GoesOn(d, at) ==
  IF at = "end" THEN Finish(d) ELSE desk' = [desk EXCEPT ![d].at = at]

\* A second row of the same flow, library rule, policy, user, definition,
\* sensor or agent breaks its unique key, and a second identity provider of a
\* tenant is never read; of the other kinds it would be another record.
InsertRow(d) ==
  LET r == desk[d] IN
  /\ r.at = "insert"
  /\ IF entry = Absent
     THEN /\ entry' = [kind |-> r.kind, value |-> r.sent, paired |-> FALSE]
          /\ written' = Add(written, r.sent)
          /\ GoesOn(d, AfterInsert(r.kind))
     ELSE /\ UNCHANGED <<entry, written>>
          /\ Finish(d)
  /\ UNCHANGED <<audit, calls, failures, untold, contended, lopsided>>

\* Mutation of AfterWrite: every field is written, as read or as sent.
AfterWriteWhole(r) ==
  [f \in Fields |-> IF f \in DOMAIN r.sent THEN r.sent[f] ELSE r.loaded[f]]

\* What the row is after the commit of r
AfterWrite(r) ==
  [f \in Fields |->
     IF f \in DOMAIN r.sent /\ (r.kind \in RawKinds \/ r.sent[f] # r.loaded[f])
     THEN r.sent[f] ELSE entry.value[f]]

\* A workplan is logged with what was sent for it, and a date is not JSON.
NotJson(r) ==
  r.kind = "workplan" /\ "second" \in DOMAIN r.sent /\ r.sent["second"] = Date

\* An update of a row that was deleted meanwhile fails.
UpdateRow(d) ==
  LET r == desk[d] IN
  /\ r.at = "update"
  /\ IF entry = Deleted
     THEN UNCHANGED <<entry, written, untold>> /\ Finish(d)
     ELSE /\ entry' = [entry EXCEPT !.value = AfterWrite(r)]
          /\ written' = Add(written, r.sent)
          /\ untold' = IF NotJson(r) THEN untold + 1 ELSE untold
          /\ GoesOn(d, AfterUpdate(r.kind))
  /\ UNCHANGED <<audit, calls, failures, contended, lopsided>>

\* log_action
LogAction(d) ==
  /\ desk[d].at = "log" /\ ~ NotJson(desk[d])
  /\ audit' = Add(audit, desk[d].sent)
  /\ Finish(d)
  /\ UNCHANGED <<entry, calls, failures, written, untold, contended, lopsided>>

\* The line cannot be written, and the request is answered with an error, after
\* the row was committed.
LogFails(d) ==
  /\ desk[d].at = "log" /\ NotJson(desk[d])
  /\ Finish(d)
  /\ UNCHANGED <<entry, audit, calls, failures, written, untold, contended, lopsided>>

\* The Software API may refuse or not answer, however often it is asked; only a
\* response that was given is logged.
AfterPair(kind) == IF kind = "xdr" THEN {"log", "end"} ELSE {"end"}

\* The items of an incident, the alert or event it was made from among them;
\* ensure_endpoint_registered; create_event; the outcome of a response
CreatePair(d) ==
  /\ desk[d].at = "pair"
  /\ entry' = [entry EXCEPT !.paired = TRUE]
  /\ \E at \in AfterPair(desk[d].kind) : GoesOn(d, at)
  /\ UNCHANGED <<audit, calls, failures, written, untold, contended, lopsided>>

\* Only items are deleted; read, then deleted whatever became of the row.
BeginDelete(d) ==
  /\ entry.kind = "item"
  /\ Arrive(d, Deletion)
  /\ UNCHANGED <<entry, audit, failures, written, untold, lopsided>>

DeleteRow(d) ==
  /\ desk[d].at = "delete"
  /\ entry' = Deleted
  /\ Finish(d)
  /\ UNCHANGED <<audit, calls, failures, written, untold, contended, lopsided>>

\* A crash, a database that fails, or an active response that nothing is
\* configured for: it stays pending.
CutRequest(d) ==
  /\ desk[d] # Free
  /\ failures < MaxFailures /\ failures' = failures + 1
  /\ Finish(d)
  /\ UNCHANGED <<entry, audit, calls, written, untold, contended, lopsided>>

Creates(d) ==
  \/ CreateHandover(d) \/ AddWorkplan(d) \/ CreateWorkplanItem(d) \/ CreateIndicator(d)
  \/ CreateBiocRule(d) \/ CreateAnalyticsRule(d) \/ CreateIncident(d) \/ EscalateAlert(d)
  \/ CreateUser(d) \/ CreateResponse(d) \/ ReadStoragePolicy(d) \/ CreateDefinition(d)
  \/ EnrollAgentRow(d) \/ CreateDomain(d) \/ SubmitSample(d) \/ TriggerXdrAction(d)
  \/ IngestTriageResult(d)

\* Rows that are written once
Notes(d) ==
  \/ CreateWarroomNote(d) \/ CreateWorkgroup(d) \/ CreateTenant(d) \/ CreateConnector(d)
  \/ ActOnMessage(d) \/ ActOnThreat(d) \/ RecordAlertAction(d)
  \/ AnalyzeSandbox(d) \/ IngestScaResult(d) \/ EvaluateAgent(d)

Updates(d) ==
  \/ UpdateHandover(d) \/ UpdateWorkplan(d) \/ UpdateWorkplanItem(d) \/ UpdateIndicator(d)
  \/ UpdateBiocRule(d) \/ UpdateAnalyticsRule(d) \/ UpdateIncident(d)
  \/ UpdateUser(d) \/ UpdateResponse(d) \/ ToggleLibraryRule(d)
  \/ AgentHeartbeat(d) \/ VerifyDomain(d) \/ AnalyzerVerdict(d)

Puts(d) ==
  \/ UpdateWorkplanFlow(d) \/ ImportLibraryRule(d) \/ ImportRulePack(d)
  \/ UpdateStoragePolicy(d) \/ ReportSensor(d) \/ PutIdentityProvider(d)

RecordNext ==
  \E d \in Desks :
    \/ Creates(d) \/ Notes(d) \/ Updates(d) \/ Puts(d) \/ BeginDelete(d)
    \/ InsertRow(d) \/ UpdateRow(d) \/ LogAction(d) \/ LogFails(d)
    \/ CreatePair(d) \/ DeleteRow(d) \/ CutRequest(d)

RecordSpec == RecordInit /\ [][RecordNext]_recordVars

-----------------------------------------------------------------------------
\* However requests interleave, a field changes only to a value that a request
\* sent for it: an update takes nothing back that it did not mention.
NothingIsTakenBack ==
  [][ Exists /\ Exists' =>
        \A f \in Fields : entry'.value[f] # entry.value[f] =>
          \E d \in Desks : /\ desk[d] # Free /\ desk'[d] # desk[d]
                           /\ f \in DOMAIN desk[d].sent
                           /\ entry'.value[f] = desk[d].sent[f] ]_recordVars

\* A record that no two requests worked on at once is what was written last,
\* its shift is in order unless an update sent one end alone, and, unless a
\* request was cut, the log tells of every write there is a log for, but for the
\* updates of a workplan that set when it is due, and what is told by another
\* row is.  With two requests at once the fields of both mix.
UncontendedIsCoherent ==
  Exists /\ ~ contended /\ (\A d \in Desks : desk[d] = Free) =>
    /\ entry.value = written.last
    /\ entry.kind = "handover" /\ ~ lopsided => entry.value["first"] < entry.value["second"]
    /\ failures = 0 /\ entry.kind \in CreatesLogged => audit = written
    /\ failures = 0 /\ entry.kind = "workplan" => audit.number + untold = written.number - 1
    /\ failures = 0 /\ entry.kind \in Paired => entry.paired
=============================================================================
