--------------------------- MODULE EndpointActions ---------------------------
(***************************************************************************)
(* The remote actions of one endpoint: an operator requests them, the      *)
(* Python agent polls, executes and reports them, the backend settles them *)
(* and keeps the state of the endpoint.                                    *)
(*                                                                         *)
(*   create_endpoint_action, pull_agent_actions, complete_agent_action     *)
(*                                         backend/app/main.py             *)
(*   process_actions, complete_action      agent/agent.py                  *)
(*                                                                         *)
(* A request is [act, ok, stage]; its stage is the next thing the handler  *)
(* does, one commit each.  "read" is apart from "settle": the handlers run *)
(* in threads, and complete_agent_action checks a status that another      *)
(* completion may change before it commits.  The events a malware scan     *)
(* sends are left out: send_event swallows their failures, and the action  *)
(* is completed whatever became of them.  A scan that raises is not        *)
(* completed: the agent drops the rest of its list and polls again.        *)
(***************************************************************************)
EXTENDS Naturals, Sequences, FiniteSetsExt

CONSTANTS
  MaxActions,  \* bound: actions requested
  Types,       \* action types in use
  MaxFaults    \* bound: calls without an answer, and deaths of the agent

Acts == 1 .. MaxActions

\* One more than the faults of a run can excuse.
RunCap == MaxFaults + 2

\* What EndpointActionCreate lets through.  The agent would execute a
\* triage_scan as well, but none can be requested.
AllTypes == {"isolate", "release", "reboot", "command", "malware_scan"}

ASSUME ActionConstants ==
  /\ MaxActions \in Nat
  /\ Types \subseteq AllTypes
  /\ MaxFaults \in Nat

VARIABLES
  kind,      \* kind[a]: the type of action a; actions are numbered as requested
  unfit,     \* scans that raise every time: parameters the agent cannot use
  status,    \* status[a]: its column status
  endpoint,  \* the endpoint's row: status and agent_status, or Unknown
  todo,      \* the actions the last poll returned and the agent has not begun
  request,   \* request[0]: the completion the agent waits for; request[n]: the
             \* one it gave up at the n-th fault and the backend still works on
  ran,       \* ran[a]: how often the agent has executed a, up to RunCap
  lost,      \* history: lost[a]: executions of a that failed this once, or whose
             \* report had no answer
  due,       \* history: what the endpoint should be by the settled actions
  overtaken, \* history: settled while another completion was about to settle it
  torn,      \* history: a completion was cut in two, or outlived its caller
  faults

table      == <<kind, unfit, status, endpoint, due, overtaken>>
agent      == <<todo, ran, lost>>
actionVars == <<table, agent, request, torn, faults>>

Unknown    == [status |-> "none", agent |-> "none"]
Registered == [status |-> "monitoring", agent |-> "connected"]

EndpointStates == [status : {"none", "monitoring", "isolated", "protected"},
                   agent  : {"none", "connected", "isolated", "rebooting"}]

Stages    == {"read", "settle", "state", "done"}
NoRequest == [act |-> 0, ok |-> FALSE, stage |-> "done"]
Requests  == [act : DOMAIN kind, ok : BOOLEAN, stage : Stages]
Given     == 0 .. MaxFaults

ActionTypeOK ==
  /\ kind \in Seq(Types) /\ Len(kind) <= MaxActions
  /\ unfit \subseteq DOMAIN kind
  /\ status \in Seq({"pending", "completed", "failed"}) /\ Len(status) = Len(kind)
  /\ endpoint \in EndpointStates /\ due \in EndpointStates
  /\ overtaken \subseteq DOMAIN kind /\ todo \subseteq DOMAIN kind
  /\ ran \in [Acts -> 0 .. RunCap] /\ lost \in [Acts -> Nat]
  /\ request \in [Given -> Requests \cup {NoRequest}]
  /\ torn \in BOOLEAN
  /\ faults \in Given

ActionInit ==
  /\ kind = <<>> /\ status = <<>> /\ unfit = {}
  /\ endpoint = Unknown /\ due = Unknown
  /\ overtaken = {} /\ todo = {}
  /\ request = [n \in Given |-> NoRequest]
  /\ ran = [a \in Acts |-> 0] /\ lost = [a \in Acts |-> 0]
  /\ torn = FALSE /\ faults = 0

-----------------------------------------------------------------------------
(* The operator *)

CreateAction ==
  /\ endpoint # Unknown
  /\ Len(kind) < MaxActions
  /\ \E type \in Types :
       /\ kind' = Append(kind, type)
       /\ \/ unfit' = unfit
          \/ type = "malware_scan" /\ unfit' = unfit \cup {Len(kind) + 1}
  /\ status' = Append(status, "pending")
  /\ UNCHANGED <<endpoint, due, overtaken, agent, request, torn, faults>>

-----------------------------------------------------------------------------
(* The backend's side of a request *)

\* update_endpoint_state as complete_agent_action calls it
Apply(type, state) ==
  CASE type = "isolate" -> [status |-> "isolated", agent |-> "isolated"]
    [] type = "release" -> [status |-> "protected", agent |-> "connected"]
    [] type = "reboot"  -> [state EXCEPT !.agent = "rebooting"]
    [] OTHER            -> state

Settled(r) == IF r.ok THEN "completed" ELSE "failed"

\* Mutation of AfterSettle: the state of the endpoint follows only isolation.
AfterSettleIsolate(r) == IF r.ok /\ kind[r.act] = "isolate" THEN "state" ELSE "done"

AfterSettle(r) == IF r.ok THEN "state" ELSE "done"

\* Mutation of StillPending: the status is not looked at.
StillPendingBlind(r) == TRUE

StillPending(r) == status[r.act] = "pending"

\* Request n goes on.  Who waits for request 0 has yet to see that it is done.
Proceeds(n, stage) ==
  request' = [request EXCEPT ![n] =
                IF stage = "done" /\ n > 0 THEN NoRequest ELSE [@ EXCEPT !.stage = stage]]

CheckPending(n) ==
  /\ request[n].stage = "read"
  /\ Proceeds(n, IF StillPending(request[n]) THEN "settle" ELSE "done")
  /\ UNCHANGED table

\* Another completion of the action has passed the check too.
Contended(n) ==
  \E other \in Given \ {n} :
    request[other].act = request[n].act /\ request[other].stage = "settle"

SettleAction(n) ==
  LET r == request[n] IN
  /\ r.stage = "settle"
  /\ status' = [status EXCEPT ![r.act] = Settled(r)]
  /\ due' = IF r.ok THEN Apply(kind[r.act], due) ELSE due
  /\ overtaken' = IF Contended(n) THEN overtaken \cup {r.act} ELSE overtaken
  /\ Proceeds(n, AfterSettle(r))
  /\ UNCHANGED <<kind, unfit, endpoint>>

UpdateEndpoint(n) ==
  /\ request[n].stage = "state"
  /\ endpoint' = Apply(kind[request[n].act], endpoint)
  /\ Proceeds(n, "done")
  /\ UNCHANGED <<kind, unfit, status, due, overtaken>>

Serve(n) ==
  /\ CheckPending(n) \/ SettleAction(n) \/ UpdateEndpoint(n)
  /\ UNCHANGED <<agent, torn, faults>>

-----------------------------------------------------------------------------
(* The agent *)

Idle == request[0] = NoRequest

\* Mutation of ToDo: whatever did not succeed is handed out again.
ToDoUnlessCompleted == {a \in DOMAIN kind : status[a] # "completed"}

\* Mutation of ToDo: an action is handed out once.
ToDoOnce == {a \in DOMAIN kind : status[a] = "pending" /\ ran[a] = 0}

\* pull_agent_actions: the pending actions
ToDo == {a \in DOMAIN kind : status[a] = "pending"}

\* A poll also registers the endpoint.  One that fails changes nothing.
PollActions ==
  /\ Idle /\ todo = {}
  /\ todo' = ToDo
  /\ IF endpoint = Unknown
     THEN endpoint' = Registered /\ due' = Registered
     ELSE UNCHANGED <<endpoint, due>>
  /\ UNCHANGED <<kind, unfit, status, overtaken, request, ran, lost, torn, faults>>

\* The scan may fail; the other types are acknowledged without doing anything.
Outcomes(type) == IF type = "malware_scan" THEN BOOLEAN ELSE {TRUE}

Executes(a) == ran' = [ran EXCEPT ![a] = IF @ < RunCap THEN @ + 1 ELSE @]

\* process_actions, the next action of the list: it is listed newest first.
ExecuteAction ==
  /\ Idle /\ todo # {}
  /\ LET a == Max(todo) IN
     /\ a \notin unfit
     /\ todo' = todo \ {a}
     /\ Executes(a)
     /\ \E ok \in Outcomes(kind[a]) :
          request' = [request EXCEPT ![0] = [act |-> a, ok |-> ok, stage |-> "read"]]
  /\ UNCHANGED <<table, lost, torn, faults>>

\* A scan that raises leaves process_actions for the handler of the main loop:
\* nothing is reported, and the rest of the list is dropped.
ExecutionRaises ==
  /\ Idle /\ todo # {} /\ Max(todo) \in unfit
  /\ todo' = {}
  /\ Executes(Max(todo))
  /\ UNCHANGED <<table, request, lost, torn, faults>>

\* A scan that could not be run this time
ExecutionFails ==
  /\ Idle /\ todo # {} /\ kind[Max(todo)] = "malware_scan" /\ Max(todo) \notin unfit
  /\ faults < MaxFaults /\ faults' = faults + 1
  /\ todo' = {}
  /\ Executes(Max(todo))
  /\ lost' = [lost EXCEPT ![Max(todo)] = @ + 1]
  /\ UNCHANGED <<table, request, torn>>

CompletionAnswered ==
  /\ ~ Idle /\ request[0].stage = "done"
  /\ request' = [request EXCEPT ![0] = NoRequest]
  /\ UNCHANGED <<table, agent, torn, faults>>

\* A call ends without its answer: the handler is cut off where it stands, or
\* goes on without the agent.
Abandon ==
  /\ ~ Idle
  /\ faults < MaxFaults
  /\ faults' = faults + 1
  /\ lost' = [lost EXCEPT ![request[0].act] = @ + 1]
  /\ \/ /\ request' = [request EXCEPT ![0] = NoRequest]
        /\ torn' = (torn \/ request[0].stage = "state")
     \/ /\ request[0].stage # "done"
        /\ request' = [request EXCEPT ![0] = NoRequest, ![faults + 1] = request[0]]
        /\ torn' = TRUE

\* complete_action logs the error, and the loop goes on.
CompletionFails == Abandon /\ UNCHANGED <<table, todo, ran>>

\* The agent dies and is started again: the list is in memory only.
AgentDies == Abandon /\ todo' = {} /\ UNCHANGED <<table, ran>>

AgentStep == PollActions \/ ExecuteAction \/ ExecutionRaises \/ CompletionAnswered

ActionNext ==
  \/ AgentStep \/ CreateAction \/ (\E n \in Given : Serve(n))
  \/ ExecutionFails \/ CompletionFails \/ AgentDies

\* The main loop of the agent polls for ever, and the backend finishes the
\* requests it serves.
ActionFairness == WF_actionVars(AgentStep) /\ WF_actionVars(Serve(0))

ActionSpec == ActionInit /\ [][ActionNext]_actionVars /\ ActionFairness

-----------------------------------------------------------------------------
\* An action is executed again only after an execution whose report got no
\* answer, or that raised: polls, late completions and other actions never
\* repeat one.  One that raises every time is executed at every poll.
RepeatsOnlyTheUnanswered ==
  \A a \in (DOMAIN kind) \ unfit : ran[a] <= 1 + lost[a]

\* What a settled action came to is changed only by a completion that had
\* passed its check before the action was settled: an answer that comes late, or
\* that of a repeated execution, changes nothing.
VerdictIsFinal ==
  [][ \A a \in DOMAIN kind :
        status[a] # "pending" /\ status'[a] # status[a] => a \in overtaken ]_actionVars

Quiet == \A n \in Given : request[n].stage = "done"

\* Between requests the state of the endpoint is the one its settled actions
\* lead to, in the order they were settled, unless a completion was cut off
\* between its two commits or raced a later one.
EndpointFollows == Quiet /\ ~ torn => endpoint = due

\* What is asked of an endpoint is done once and shows, as far as the calls
\* between the two get their answers.
ActionsShow == RepeatsOnlyTheUnanswered /\ EndpointFollows

\* Every action is settled in the end, as completed or as failed, however many
\* reports get lost, unless it raises every time, or one that does was requested
\* after it: that one comes first at every poll and takes the list with it.
ActionsAreSettled ==
  \A a \in Acts :
    (a \in DOMAIN kind)
      ~> (a \in DOMAIN kind /\ status[a] # "pending") \/ (\E b \in unfit : b >= a)
=============================================================================
