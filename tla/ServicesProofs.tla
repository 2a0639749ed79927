---------------------------- MODULE ServicesProofs ----------------------------
(***************************************************************************)
(* Theorems about the actions of endpoints, about the launchers, the files *)
(* of agents and the connection monitor of a workstation, about the links  *)
(* to mailboxes, and about all the parts together.                         *)
(*                                                                         *)
(* A request about an action knows whether it has still to be settled,     *)
(* whether the endpoint has still to follow, and that nobody else is about *)
(* to execute it.  A launcher that holds the lock file holds the one at    *)
(* its path, unless two raced; a worker that has a key found it in the     *)
(* file or wrote it; a state of a login that was used and is still there   *)
(* is about to be taken away; an answer had after the last change, and not *)
(* expired, is true.  What holds of each part alone holds of all of them   *)
(* together, for none touches what another keeps.                          *)
(***************************************************************************)
EXTENDS Services, BackendProofs, WellFoundedInduction

-----------------------------------------------------------------------------
(* The actions of endpoints: EndpointActions *)

\* An action that waits to be executed, in the backend or in the list of the
\* agent, and does not raise every time, has been executed no more often than it
\* failed or reports of it were lost; the one being reported, once more.
WaitingIsUnreported ==
  \A a \in Acts \ unfit :
    /\ ran[a] <= 1 + lost[a]
    /\ a \notin DOMAIN kind => ran[a] <= lost[a]
    /\ a \in DOMAIN kind /\ status[a] = "pending" /\ request[0].act # a => ran[a] <= lost[a]
    /\ a \in todo => ran[a] <= lost[a] /\ request[0].act # a

\* A request beyond its first commit, and one that had nothing to commit, is
\* about a settled action.
BeyondIsSettled ==
  \A n \in Given :
    request[n] # NoRequest /\ request[n].stage \in {"state", "done"}
      => status[request[n].act] # "pending"

\* A request about to settle its action has not been overtaken unnoticed.
PassedIsPending ==
  \A n \in Given :
    request[n].stage = "settle" =>
      status[request[n].act] = "pending" \/ request[n].act \in overtaken

\* Before anything is cut, the agent's request is the only one, and the
\* endpoint lags behind the settled actions by that request at most.
LagsByOne ==
  ~ torn =>
    /\ \A n \in Given \ {0} : request[n] = NoRequest
    /\ IF request[0].stage = "state"
       THEN due = Apply(kind[request[0].act], endpoint)
       ELSE due = endpoint

IInv ==
  /\ ActionTypeOK
  /\ WaitingIsUnreported
  /\ BeyondIsSettled
  /\ PassedIsPending
  /\ LagsByOne

-----------------------------------------------------------------------------
(***************************************************************************)
(* Facts about the small operators.                                        *)
(***************************************************************************)
LEMMA ApplyType ==
  ASSUME NEW type, NEW state \in EndpointStates
  PROVE  Apply(type, state) \in EndpointStates
  BY DEF Apply, EndpointStates

\* Every set of numbers that is not empty has a least one.
LEMMA LeastNumber ==
  ASSUME NEW T \in SUBSET Nat, T # {}
  PROVE  \E x \in T : \A y \in T : x <= y
<1> DEFINE R == {ss \in Nat \X Nat : ss[1] < ss[2]}
<1>1. IsWellFoundedOn(R, Nat)
  BY NatLessThanWellFounded DEF OpToRel
<1>2. \A x, y \in Nat : y < x => <<y, x>> \in R
  OBVIOUS
<1>3. \E x \in T : \A y \in T : ~ (<<y, x>> \in R)
  <2> HIDE DEF R
  <2> QED  BY <1>1, WFMin, Zenon
<1>4. \A x, y \in Nat : ~ (y < x) => x <= y
  OBVIOUS
<1> HIDE DEF R
<1> QED  BY <1>2, <1>3, <1>4, Zenon

\* The newest action of a list is one of it.
LEMMA NewestIsListed ==
  ASSUME NEW n \in Nat, NEW S \in SUBSET (1 .. n), S # {}
  PROVE  Max(S) \in S
<1> DEFINE above == {b \in Nat : \A x \in S : x <= b}
<1>1. PICK b \in above : \A c \in above : b <= c
  <2>1. n \in above  OBVIOUS
  <2> QED  BY <2>1, LeastNumber, Zenon
<1>2. b \in S
  <2> SUFFICES ASSUME b \notin S PROVE FALSE
    OBVIOUS
  <2>1. PICK x \in S : TRUE
    OBVIOUS
  <2>2. b - 1 \in above
    BY <2>1
  <2> QED  BY <2>2, <1>1
<1>3. \E x \in S : \A y \in S : x >= y
  BY <1>1, <1>2
<1> QED  BY <1>3 DEF Max

\* Requesting an action appends to both columns.
LEMMA CreateType ==
  ASSUME ActionTypeOK, CreateAction
  PROVE  /\ kind' \in Seq(Types) /\ Len(kind') = Len(kind) + 1 /\ Len(kind') <= MaxActions
         /\ status' \in Seq({"pending", "completed", "failed"}) /\ Len(status') = Len(kind')
         /\ DOMAIN kind' = DOMAIN kind \cup {Len(kind) + 1}
         /\ \A a \in DOMAIN kind : kind'[a] = kind[a] /\ status'[a] = status[a]
  BY ActionConstants DEF ActionTypeOK, CreateAction

LEMMA ServeType ==
  ASSUME ActionTypeOK, NEW n \in Given, Serve(n)
  PROVE  ActionTypeOK'
<1> DEFINE r == request[n]
<1>a. r \in Requests \cup {NoRequest}
  BY DEF ActionTypeOK
<1>b. r # NoRequest => r \in Requests /\ r.act \in DOMAIN kind
  BY <1>a DEF Requests
<1>c. r.stage # "done" => r # NoRequest
  BY DEF NoRequest
<1>d. Requests' = Requests
  BY DEF Requests, Serve, CheckPending, SettleAction, UpdateEndpoint, table
<1>0. /\ r # NoRequest => r \in Requests /\ r.act \in DOMAIN kind
      /\ r.stage # "done" => r # NoRequest
      /\ Requests' = Requests
  BY <1>b, <1>c, <1>d
<1>1. ASSUME NEW stage \in Stages, r.stage # "done", Proceeds(n, stage)
      PROVE  request' \in [Given -> Requests' \cup {NoRequest}]
  BY <1>0, <1>1 DEF Proceeds, ActionTypeOK, Requests
<1>2. CASE CheckPending(n)
  BY <1>0, <1>1, <1>2 DEF CheckPending, Serve, ActionTypeOK, Stages, table, agent
<1>3. CASE SettleAction(n)
  <2>1. status' \in Seq({"pending", "completed", "failed"}) /\ Len(status') = Len(kind)
    BY <1>0, <1>3 DEF SettleAction, Settled, ActionTypeOK
  <2>2. due' \in EndpointStates
    BY <1>3, ApplyType DEF SettleAction, ActionTypeOK
  <2>3. request' \in [Given -> Requests' \cup {NoRequest}]
    BY <1>0, <1>1, <1>3 DEF SettleAction, AfterSettle, Stages
  <2>4. overtaken' \subseteq DOMAIN kind
    BY <1>0, <1>3 DEF SettleAction, ActionTypeOK
  <2> QED  BY <1>3, <2>1, <2>2, <2>3, <2>4 DEF SettleAction, Serve, ActionTypeOK, agent
<1>4. CASE UpdateEndpoint(n)
  BY <1>0, <1>1, <1>4, ApplyType DEF UpdateEndpoint, Serve, ActionTypeOK, Stages, agent
<1> QED  BY <1>2, <1>3, <1>4 DEF Serve

LEMMA NewestOfList ==
  ASSUME ActionTypeOK, todo # {}
  PROVE  Max(todo) \in todo /\ Max(todo) \in DOMAIN kind /\ Max(todo) \in Acts
<1>1. /\ todo \subseteq DOMAIN kind /\ kind \in Seq(Types) /\ Len(kind) <= MaxActions
  BY DEF ActionTypeOK
<1>2. DOMAIN kind = 1 .. Len(kind) /\ Len(kind) \in Nat /\ MaxActions \in Nat
  BY <1>1, ActionConstants
<1>3. Max(todo) \in todo
  BY <1>1, <1>2, NewestIsListed
<1> QED  BY <1>1, <1>2, <1>3 DEF Acts

\* An execution counts for its action alone.
LEMMA ExecutesOnce ==
  ASSUME ActionTypeOK, NEW a \in Acts, Executes(a)
  PROVE  /\ ran' \in [Acts -> 0 .. RunCap]
         /\ ran'[a] <= ran[a] + 1
         /\ \A b \in Acts \ {a} : ran'[b] = ran[b]
<1> DEFINE n == IF ran[a] < RunCap THEN ran[a] + 1 ELSE ran[a]
<1>1. ran \in [Acts -> 0 .. RunCap] /\ ran' = [ran EXCEPT ![a] = n]
  BY DEF ActionTypeOK, Executes
<1>2. RunCap \in Nat
  BY ActionConstants DEF RunCap
<1>3. n \in 0 .. RunCap /\ n <= ran[a] + 1
  BY <1>1, <1>2
<1> HIDE DEF n
<1> QED  BY <1>1, <1>3

\* What executing an action does, without the choice of the action.
LEMMA ExecuteType ==
  ASSUME ActionTypeOK, ExecuteAction
  PROVE  /\ Max(todo) \in todo
         /\ \E ok \in BOOLEAN :
              request' = [request EXCEPT ![0] = [act |-> Max(todo), ok |-> ok, stage |-> "read"]]
         /\ ActionTypeOK'
<1>1. Max(todo) \in todo /\ Max(todo) \in Acts
  BY NewestOfList DEF ExecuteAction
<1>2. PICK ok \in BOOLEAN :
        request' = [request EXCEPT ![0] = [act |-> Max(todo), ok |-> ok, stage |-> "read"]]
  BY DEF ExecuteAction, Outcomes
<1>3. 0 \in Given /\ Requests' = Requests
  BY ActionConstants DEF Given, ExecuteAction, Requests, table
<1>4. request' \in [Given -> Requests' \cup {NoRequest}]
  BY <1>1, <1>2, <1>3 DEF ActionTypeOK, Requests, Stages
<1>5. Executes(Max(todo)) /\ todo' = todo \ {Max(todo)} /\ UNCHANGED <<table, lost, torn, faults>>
  BY DEF ExecuteAction
<1>6. ran' \in [Acts -> 0 .. RunCap]
  BY <1>1, <1>5, ExecutesOnce
<1>7. ActionTypeOK'
  BY <1>4, <1>5, <1>6 DEF ActionTypeOK, table
<1> QED  BY <1>1, <1>2, <1>7

\* What an execution that raises does: it is counted, and the list is dropped.
LEMMA RaiseType ==
  ASSUME ActionTypeOK, ExecutionRaises \/ ExecutionFails
  PROVE  /\ Max(todo) \in todo /\ Max(todo) \in Acts /\ Executes(Max(todo))
         /\ todo' = {} /\ Idle /\ UNCHANGED <<table, request, torn>>
         /\ ActionTypeOK'
<1>1. /\ Idle /\ todo # {} /\ todo' = {} /\ Executes(Max(todo))
      /\ UNCHANGED <<table, request, torn>>
  BY DEF ExecutionRaises, ExecutionFails
<1>2. Max(todo) \in todo /\ Max(todo) \in Acts
  BY <1>1, NewestOfList
<1>3. ran' \in [Acts -> 0 .. RunCap]
  BY <1>1, <1>2, ExecutesOnce
<1>4. lost' \in [Acts -> Nat] /\ faults' \in Given
  <2>1. CASE ExecutionRaises
    BY <2>1 DEF ExecutionRaises, ActionTypeOK
  <2>2. CASE ExecutionFails
    BY <1>2, <2>2, ActionConstants DEF ExecutionFails, ActionTypeOK, Given
  <2> QED  BY <2>1, <2>2
<1>5. Requests' = Requests
  BY <1>1 DEF Requests, table
<1>6. ActionTypeOK'
  BY <1>1, <1>3, <1>4, <1>5 DEF ActionTypeOK, table
<1> QED  BY <1>1, <1>2, <1>6

LEMMA AbandonType ==
  ASSUME ActionTypeOK, Abandon, UNCHANGED <<table, ran>>, todo' \subseteq todo
  PROVE  ActionTypeOK' /\ request[0] \in Requests /\ request[0].act \in Acts
<1>1. 0 \in Given /\ Requests' = Requests /\ faults + 1 \in Given
  BY ActionConstants DEF Given, Requests, table, Abandon, ActionTypeOK
<1>2. request[0] \in Requests /\ request[0].act \in Acts
  <2>1. request[0] \in Requests
    BY <1>1 DEF Abandon, Idle, ActionTypeOK
  <2>2. DOMAIN kind \subseteq Acts
    BY ActionConstants DEF ActionTypeOK, Acts
  <2> QED  BY <2>1, <2>2 DEF Requests
<1>3. request' \in [Given -> Requests' \cup {NoRequest}]
  BY <1>1, <1>2 DEF ActionTypeOK, Abandon
<1>4. lost' \in [Acts -> Nat]
  BY <1>2 DEF ActionTypeOK, Abandon
<1>5. faults' \in Given /\ torn' \in BOOLEAN
  BY <1>1 DEF Abandon, ActionTypeOK
<1> QED  BY <1>2, <1>3, <1>4, <1>5 DEF ActionTypeOK, table

\* Every step keeps the types.
LEMMA TypeStep == ActionTypeOK /\ [ActionNext]_actionVars => ActionTypeOK'
<1> SUFFICES ASSUME ActionTypeOK, [ActionNext]_actionVars
             PROVE  ActionTypeOK'
  OBVIOUS
<1>1. CASE CreateAction
  <2>1. Requests \subseteq Requests' /\ DOMAIN kind \subseteq DOMAIN kind'
    BY <1>1, CreateType DEF Requests
  <2>2. unfit' \subseteq DOMAIN kind'
    BY <1>1, CreateType DEF ActionTypeOK, CreateAction
  <2>3. UNCHANGED <<endpoint, due, overtaken, todo, ran, lost, request, torn, faults>>
    BY <1>1 DEF CreateAction, agent
  <2> QED  BY <1>1, <2>1, <2>2, <2>3, CreateType DEF ActionTypeOK
<1>2. ASSUME NEW n \in Given, Serve(n)
      PROVE  ActionTypeOK'
  BY <1>2, ServeType
<1>3. CASE PollActions
  BY <1>3 DEF PollActions, ActionTypeOK, ToDo, Registered, EndpointStates, Requests
<1>4. CASE ExecuteAction
  BY <1>4, ExecuteType
<1>5. CASE CompletionAnswered
  BY <1>5 DEF CompletionAnswered, ActionTypeOK, table, agent, Requests
<1>6. CASE CompletionFails
  BY <1>6, AbandonType DEF CompletionFails
<1>7. CASE AgentDies
  BY <1>7, AbandonType DEF AgentDies
<1>8. CASE ExecutionRaises \/ ExecutionFails
  BY <1>8, RaiseType
<1>9. CASE UNCHANGED actionVars
  BY <1>9 DEF ActionTypeOK, actionVars, table, agent, Requests
<1> QED
  BY <1>1, <1>2, <1>3, <1>4, <1>5, <1>6, <1>7, <1>8, <1>9 DEF ActionNext, AgentStep

-----------------------------------------------------------------------------
(***************************************************************************)
(* The inductive invariant, one conjunct at a time.                        *)
(***************************************************************************)
LEMMA InitIsInductive == ActionInit => IInv
<1> SUFFICES ASSUME ActionInit PROVE IInv
  OBVIOUS
<1>0. 0 \in Given /\ \A n \in Given : request[n] = NoRequest
  BY ActionConstants DEF Given, ActionInit
<1>1. ActionTypeOK
  <2>1. kind \in Seq(Types) /\ Len(kind) = 0 /\ Len(status) = 0
        /\ status \in Seq({"pending", "completed", "failed"})
    BY DEF ActionInit
  <2>2. endpoint \in EndpointStates /\ due \in EndpointStates
    BY DEF ActionInit, Unknown, EndpointStates
  <2>3. ran \in [Acts -> 0 .. RunCap] /\ lost \in [Acts -> Nat] /\ faults \in Given
    BY ActionConstants DEF ActionInit, RunCap, Given
  <2>4. request \in [Given -> Requests \cup {NoRequest}]
    BY DEF ActionInit
  <2> QED  BY <2>1, <2>2, <2>3, <2>4, ActionConstants DEF ActionInit, ActionTypeOK
<1>2. WaitingIsUnreported
  BY DEF ActionInit, WaitingIsUnreported
<1>3. BeyondIsSettled /\ PassedIsPending /\ LagsByOne
  BY <1>0 DEF ActionInit, BeyondIsSettled, PassedIsPending, LagsByOne, NoRequest
<1> QED  BY <1>1, <1>2, <1>3 DEF IInv

\* What a request does to the column status: it never becomes pending again.
LEMMA ServeStatus ==
  ASSUME IInv, NEW n \in Given, Serve(n)
  PROVE  /\ request[n] \in Requests /\ kind' = kind
         /\ \E stage \in Stages : Proceeds(n, stage)
         /\ \A a \in DOMAIN kind : a # request[n].act => status'[a] = status[a]
         /\ status' # status => status'[request[n].act] # "pending"
<1>1. request[n] \in Requests
  BY DEF IInv, ActionTypeOK, Serve, CheckPending, SettleAction, UpdateEndpoint, NoRequest
<1>2. \E stage \in Stages : Proceeds(n, stage)
  BY DEF Serve, CheckPending, SettleAction, UpdateEndpoint, AfterSettle, Stages
<1>3. CASE CheckPending(n) \/ UpdateEndpoint(n)
  BY <1>1, <1>2, <1>3 DEF CheckPending, UpdateEndpoint, table
<1>4. CASE SettleAction(n)
  BY <1>1, <1>2, <1>4 DEF SettleAction, Settled, Requests, IInv, ActionTypeOK
<1> QED  BY <1>3, <1>4 DEF Serve

\* What a request becomes: it keeps its action, or it is gone.
LEMMA ProceedsKeeps ==
  ASSUME IInv, NEW n \in Given, NEW stage \in Stages, Proceeds(n, stage), request[n] \in Requests
  PROVE  /\ \A m \in Given \ {n} : request'[m] = request[m]
         /\ \/ request'[n] = NoRequest /\ stage = "done" /\ n > 0
            \/ request'[n].act = request[n].act /\ request'[n].stage = stage
         /\ request'[0].act = request[0].act \/ n # 0
  BY DEF Proceeds, IInv, ActionTypeOK, Requests

LEMMA WaitingStep == IInv /\ [ActionNext]_actionVars => WaitingIsUnreported'
<1> SUFFICES ASSUME IInv, [ActionNext]_actionVars
             PROVE  WaitingIsUnreported'
  OBVIOUS
<1> USE DEF IInv
<1>0. 0 \in Given /\ DOMAIN kind \subseteq Acts
  BY ActionConstants DEF Given, ActionTypeOK, Acts
<1>1. CASE CreateAction
  <2>1. todo \subseteq DOMAIN kind /\ (request[0].act = 0 \/ request[0].act \in DOMAIN kind)
    BY <1>0 DEF ActionTypeOK, Requests, NoRequest
  <2>2. unfit \subseteq unfit' /\ UNCHANGED <<todo, ran, lost, request>>
    BY <1>1 DEF CreateAction, agent
  <2> QED  BY <1>1, <2>1, <2>2, CreateType DEF WaitingIsUnreported
<1>2. ASSUME NEW n \in Given, Serve(n)
      PROVE  WaitingIsUnreported'
  <2>1. request'[0].act = request[0].act
    BY <1>0, <1>2, ServeStatus, ProceedsKeeps DEF Given
  <2>2. \A a \in DOMAIN kind : status'[a] = "pending" => status[a] = "pending"
    BY <1>2, ServeStatus
  <2>3. UNCHANGED <<unfit, todo, ran, lost>>
    BY <1>2 DEF Serve, agent, CheckPending, SettleAction, UpdateEndpoint, table
  <2> QED  BY <1>2, <2>1, <2>2, <2>3, ServeStatus DEF WaitingIsUnreported
<1>3. CASE PollActions
  BY <1>0, <1>3 DEF PollActions, ToDo, Idle, NoRequest, WaitingIsUnreported, Acts
<1>4. CASE ExecuteAction
  <2>1. Max(todo) \in todo /\ Max(todo) \in Acts /\ request'[0].act = Max(todo)
    BY <1>0, <1>4, ExecuteType DEF ActionTypeOK
  <2>2. request[0].act \notin Acts
    BY <1>4 DEF ExecuteAction, Idle, NoRequest, Acts
  <2>3. ran'[Max(todo)] <= ran[Max(todo)] + 1 /\ \A a \in Acts \ {Max(todo)} : ran'[a] = ran[a]
    BY <1>4, <2>1, ExecutesOnce DEF ExecuteAction
  <2>4. lost \in [Acts -> Nat] /\ ran \in [Acts -> Nat]
    BY ActionConstants DEF ActionTypeOK, RunCap
  <2>5. /\ Max(todo) \in DOMAIN kind /\ Max(todo) \notin unfit
        /\ todo' = todo \ {Max(todo)} /\ UNCHANGED <<unfit, kind, status, lost>>
    BY <1>4, <2>1 DEF ExecuteAction, table, ActionTypeOK
  <2>6. ran'[Max(todo)] \in 0 .. RunCap /\ RunCap \in Nat
    BY <1>4, <2>1, ExecutesOnce, ActionConstants DEF ExecuteAction, RunCap
  <2> QED
    <3> SUFFICES ASSUME NEW b \in Acts \ unfit
        PROVE  /\ ran'[b] <= 1 + lost[b]
               /\ b \notin DOMAIN kind => ran'[b] <= lost[b]
               /\ b \in DOMAIN kind /\ status[b] = "pending" /\ request'[0].act # b => ran'[b] <= lost[b]
               /\ b \in todo' => ran'[b] <= lost[b] /\ request'[0].act # b
      BY <2>5 DEF WaitingIsUnreported
    <3>1. CASE b = Max(todo)
      <4>1. ran[b] <= lost[b]
        BY <2>1, <3>1 DEF WaitingIsUnreported
      <4> QED  BY <2>1, <2>3, <2>4, <2>5, <2>6, <3>1, <4>1
    <3>2. CASE b # Max(todo)
      <4>1. ran'[b] = ran[b] /\ request[0].act # b
        BY <2>2, <2>3, <3>2
      <4> QED  BY <2>1, <2>5, <3>2, <4>1 DEF WaitingIsUnreported
    <3> QED  BY <3>1, <3>2
<1>5. CASE CompletionAnswered
  <2>1. status[request[0].act] # "pending"
    BY <1>0, <1>5 DEF CompletionAnswered, Idle, BeyondIsSettled
  <2> QED  BY <1>0, <1>5, <2>1 DEF CompletionAnswered, WaitingIsUnreported, table, agent, ActionTypeOK, NoRequest, Acts
<1>6. ASSUME Abandon, UNCHANGED <<table, ran>>, todo' \subseteq todo
      PROVE  WaitingIsUnreported'
  <2>1. request[0].act \in Acts
    BY <1>6, AbandonType
  <2>2. request'[0].act \notin Acts
    BY <1>0, <1>6, ActionConstants DEF Abandon, ActionTypeOK, NoRequest, Acts, Given
  <2>3. lost'[request[0].act] = lost[request[0].act] + 1
        /\ \A a \in Acts \ {request[0].act} : lost'[a] = lost[a]
    BY <1>6, <2>1 DEF Abandon, ActionTypeOK
  <2>4. lost \in [Acts -> Nat] /\ ran \in [Acts -> Nat]
    BY ActionConstants DEF ActionTypeOK, RunCap
  <2> QED  BY <1>6, <2>1, <2>2, <2>3, <2>4 DEF WaitingIsUnreported, table
<1>7. CASE ExecutionRaises
  <2>1. /\ Max(todo) \in unfit /\ lost' = lost
        /\ \A a \in Acts \ {Max(todo)} : ran'[a] = ran[a]
    BY <1>7, RaiseType, ExecutesOnce DEF ExecutionRaises
  <2> QED  BY <1>7, <2>1, RaiseType DEF WaitingIsUnreported, table
<1>8. CASE ExecutionFails
  <2> DEFINE a == Max(todo)
  <2>1. /\ a \in todo /\ a \in Acts /\ a \in DOMAIN kind /\ todo' = {} /\ UNCHANGED <<table, request>>
    BY <1>8, RaiseType DEF ActionTypeOK
  <2>2. ran'[a] <= ran[a] + 1 /\ \A b \in Acts \ {a} : ran'[b] = ran[b]
    BY <1>8, RaiseType, ExecutesOnce
  <2>3. lost'[a] = lost[a] + 1 /\ \A b \in Acts \ {a} : lost'[b] = lost[b]
    BY <1>8, <2>1 DEF ExecutionFails, ActionTypeOK
  <2>4. lost \in [Acts -> Nat] /\ ran \in [Acts -> Nat]
    BY ActionConstants DEF ActionTypeOK, RunCap
  <2>5. ran' \in [Acts -> 0 .. RunCap] /\ RunCap \in Nat
    BY <1>8, RaiseType, ExecutesOnce, ActionConstants DEF RunCap
  <2> HIDE DEF a
  <2> QED  BY <2>1, <2>2, <2>3, <2>4, <2>5 DEF WaitingIsUnreported, table
<1>9. CASE UNCHANGED actionVars
  BY <1>9 DEF actionVars, table, agent, WaitingIsUnreported
<1> QED
  BY <1>1, <1>2, <1>3, <1>4, <1>5, <1>6, <1>7, <1>8, <1>9
  DEF ActionNext, AgentStep, CompletionFails, AgentDies

LEMMA BeyondStep == IInv /\ [ActionNext]_actionVars => BeyondIsSettled'
<1> SUFFICES ASSUME IInv, [ActionNext]_actionVars, NEW m \in Given,
                    request'[m] # NoRequest, request'[m].stage \in {"state", "done"}
             PROVE  status'[request'[m].act] # "pending"
  BY DEF BeyondIsSettled
<1> USE DEF IInv
<1>0. 0 \in Given /\ (request[m] = NoRequest \/ request[m].act \in DOMAIN kind)
  BY ActionConstants DEF Given, ActionTypeOK, Requests
<1>1. CASE CreateAction
  BY <1>0, <1>1, CreateType DEF CreateAction, BeyondIsSettled
<1>2. ASSUME NEW n \in Given, Serve(n)
      PROVE  status'[request'[m].act] # "pending"
  <2>0. request[n] \in Requests
    BY <1>2, ServeStatus
  <2>1. CASE m # n
    <3>1. request'[m] = request[m]
      BY <1>2, <2>1, ServeStatus, ProceedsKeeps
    <3>2. status[request[m].act] # "pending"
      BY <3>1 DEF BeyondIsSettled
    <3> QED  BY <1>0, <1>2, <3>1, <3>2, ServeStatus
  <2>2. CASE m = n
    <3>1. request'[n].act = request[n].act
      BY <1>2, <2>2, ServeStatus, ProceedsKeeps
    <3>2. CASE CheckPending(n)
      <4>1. ~ StillPending(request[n])
        BY <2>0, <2>2, <3>2 DEF CheckPending, Proceeds, ActionTypeOK, Requests
      <4> QED  BY <2>2, <3>1, <3>2, <4>1 DEF CheckPending, StillPending, table
    <3>3. CASE SettleAction(n)
      BY <2>0, <2>2, <3>1, <3>3 DEF SettleAction, Settled, ActionTypeOK, Requests
    <3>4. CASE UpdateEndpoint(n)
      BY <2>0, <2>2, <3>1, <3>4 DEF UpdateEndpoint, BeyondIsSettled, NoRequest
    <3> QED  BY <1>2, <3>2, <3>3, <3>4 DEF Serve
  <2> QED  BY <2>1, <2>2
<1>3. CASE ExecuteAction
  <2>1. m = 0 => request'[m].stage = "read"
    BY <1>0, <1>3, ExecuteType DEF ActionTypeOK
  <2> QED  BY <1>3, <2>1, ExecuteType DEF ExecuteAction, BeyondIsSettled, table, ActionTypeOK
<1>4. CASE CompletionAnswered
  BY <1>0, <1>4 DEF CompletionAnswered, BeyondIsSettled, table, ActionTypeOK
<1>5. ASSUME Abandon, UNCHANGED table
      PROVE  status'[request'[m].act] # "pending"
  <2>1. request'[m] \in {NoRequest, request[m], request[0]}
    BY <1>5 DEF Abandon, ActionTypeOK
  <2> QED  BY <1>0, <1>5, <2>1 DEF BeyondIsSettled, table
<1>6. CASE PollActions \/ UNCHANGED actionVars
  BY <1>6 DEF PollActions, actionVars, table, BeyondIsSettled
<1>7. CASE ExecutionRaises \/ ExecutionFails
  BY <1>7, RaiseType DEF table, BeyondIsSettled
<1> QED
  BY <1>1, <1>2, <1>3, <1>4, <1>5, <1>6, <1>7 DEF ActionNext, AgentStep, CompletionFails, AgentDies

LEMMA PassedStep == IInv /\ [ActionNext]_actionVars => PassedIsPending'
<1> SUFFICES ASSUME IInv, [ActionNext]_actionVars, NEW m \in Given,
                    request'[m].stage = "settle"
             PROVE  status'[request'[m].act] = "pending" \/ request'[m].act \in overtaken'
  BY DEF PassedIsPending
<1> USE DEF IInv
<1>0. 0 \in Given /\ (request[m] = NoRequest \/ request[m].act \in DOMAIN kind)
      /\ NoRequest.stage # "settle"
  BY ActionConstants DEF Given, ActionTypeOK, Requests, NoRequest
<1>1. CASE CreateAction
  BY <1>0, <1>1, CreateType DEF CreateAction, PassedIsPending
<1>2. ASSUME NEW n \in Given, Serve(n)
      PROVE  status'[request'[m].act] = "pending" \/ request'[m].act \in overtaken'
  <2>0. request[n] \in Requests
    BY <1>2, ServeStatus
  <2>1. overtaken \subseteq overtaken'
    BY <1>2 DEF Serve, CheckPending, SettleAction, UpdateEndpoint, table
  <2>2. CASE m # n
    <3>1. request'[m] = request[m]
      BY <1>2, <2>2, ServeStatus, ProceedsKeeps
    <3>2. CASE SettleAction(n) /\ request[m].act = request[n].act
      BY <2>2, <3>1, <3>2 DEF SettleAction, Contended
    <3>3. CASE ~ SettleAction(n) \/ request[m].act # request[n].act
      <4>1. status'[request[m].act] = status[request[m].act]
        BY <1>0, <1>2, <3>1, <3>3, ServeStatus DEF Serve, CheckPending, UpdateEndpoint, table
      <4> QED  BY <2>1, <3>1, <4>1 DEF PassedIsPending
    <3> QED  BY <3>2, <3>3
  <2>3. CASE m = n
    <3>1. CASE CheckPending(n)
      <4>1. StillPending(request[n]) /\ request'[n].act = request[n].act
        BY <1>0, <2>0, <2>3, <3>1 DEF CheckPending, Proceeds, ActionTypeOK, Requests
      <4> QED  BY <2>3, <3>1, <4>1 DEF CheckPending, StillPending, table
    <3>2. CASE SettleAction(n) \/ UpdateEndpoint(n)
      BY <1>0, <2>0, <2>3, <3>2
      DEF SettleAction, UpdateEndpoint, AfterSettle, Proceeds, ActionTypeOK, Requests
    <3> QED  BY <1>2, <3>1, <3>2 DEF Serve
  <2> QED  BY <2>2, <2>3
<1>3. CASE ExecuteAction
  <2>1. m = 0 => request'[m].stage = "read"
    BY <1>0, <1>3, ExecuteType DEF ActionTypeOK
  <2> QED  BY <1>3, <2>1, ExecuteType DEF ExecuteAction, PassedIsPending, table, ActionTypeOK
<1>4. CASE CompletionAnswered
  BY <1>0, <1>4 DEF CompletionAnswered, PassedIsPending, table, ActionTypeOK
<1>5. ASSUME Abandon, UNCHANGED table
      PROVE  status'[request'[m].act] = "pending" \/ request'[m].act \in overtaken'
  <2>1. request'[m] \in {NoRequest, request[m], request[0]}
    BY <1>5 DEF Abandon, ActionTypeOK
  <2> QED  BY <1>0, <1>5, <2>1 DEF PassedIsPending, table
<1>6. CASE PollActions \/ UNCHANGED actionVars
  BY <1>6 DEF PollActions, actionVars, table, PassedIsPending
<1>7. CASE ExecutionRaises \/ ExecutionFails
  BY <1>7, RaiseType DEF table, PassedIsPending
<1> QED
  BY <1>1, <1>2, <1>3, <1>4, <1>5, <1>6, <1>7 DEF ActionNext, AgentStep, CompletionFails, AgentDies

LEMMA LagsStep == IInv /\ [ActionNext]_actionVars => LagsByOne'
<1> SUFFICES ASSUME IInv, [ActionNext]_actionVars, ~ torn'
             PROVE  /\ \A n \in Given \ {0} : request'[n] = NoRequest
                    /\ IF request'[0].stage = "state"
                       THEN due' = Apply(kind'[request'[0].act], endpoint')
                       ELSE due' = endpoint'
  BY DEF LagsByOne
<1> USE DEF IInv
<1>0. 0 \in Given /\ (request[0] = NoRequest \/ request[0].act \in DOMAIN kind)
      /\ NoRequest.stage = "done"
  BY ActionConstants DEF Given, ActionTypeOK, Requests, NoRequest
<1>1. CASE CreateAction
  BY <1>0, <1>1, CreateType DEF CreateAction, LagsByOne
<1>2. ASSUME NEW n \in Given, Serve(n)
      PROVE  LagsByOne'
  <2>1. ~ torn
    BY <1>2 DEF Serve
  <2>2. request[n] \in Requests /\ n = 0
    BY <1>0, <1>2, <2>1, ServeStatus DEF LagsByOne, Serve, CheckPending, SettleAction, UpdateEndpoint
  <2>3. \A k \in Given \ {0} : request'[k] = NoRequest
    BY <1>2, <2>1, <2>2, ServeStatus, ProceedsKeeps DEF LagsByOne
  <2>4. CASE CheckPending(0)
    <3>1. request[0].stage = "read" /\ request'[0].stage # "state"
      BY <1>0, <2>2, <2>4 DEF CheckPending, Proceeds, ActionTypeOK, Requests
    <3> QED  BY <2>1, <2>3, <2>4, <3>1 DEF CheckPending, LagsByOne, table
  <2>5. CASE SettleAction(0)
    <3>1. request'[0].act = request[0].act
      BY <1>0, <1>2, <2>2, ServeStatus, ProceedsKeeps
    <3>2. request'[0].stage = IF request[0].ok THEN "state" ELSE "done"
      BY <1>0, <2>2, <2>5 DEF SettleAction, AfterSettle, Proceeds, ActionTypeOK, Requests
    <3> QED  BY <2>1, <2>3, <2>5, <3>1, <3>2 DEF SettleAction, LagsByOne
  <2>6. CASE UpdateEndpoint(0)
    <3>1. request'[0].stage = "done"
      BY <1>0, <2>2, <2>6 DEF UpdateEndpoint, Proceeds, ActionTypeOK, Requests
    <3> QED  BY <2>1, <2>3, <2>6, <3>1 DEF UpdateEndpoint, LagsByOne
  <2> QED  BY <1>2, <2>2, <2>4, <2>5, <2>6 DEF Serve
<1>3. CASE ExecuteAction
  <2>1. request'[0].stage = "read" /\ request[0].stage = "done"
        /\ \A n \in Given \ {0} : request'[n] = request[n]
    BY <1>0, <1>3, ExecuteType DEF ActionTypeOK, ExecuteAction, Idle
  <2> QED  BY <1>3, <2>1 DEF ExecuteAction, LagsByOne, table
<1>4. CASE CompletionAnswered
  BY <1>0, <1>4 DEF CompletionAnswered, LagsByOne, table, ActionTypeOK
<1>5. ASSUME Abandon, UNCHANGED table
      PROVE  LagsByOne'
  BY <1>0, <1>5 DEF Abandon, LagsByOne, table, ActionTypeOK
<1>6. CASE PollActions
  BY <1>0, <1>6 DEF PollActions, Idle, LagsByOne
<1>7. CASE UNCHANGED actionVars
  BY <1>7 DEF actionVars, table, LagsByOne
<1>8. CASE ExecutionRaises \/ ExecutionFails
  BY <1>8, RaiseType DEF table, LagsByOne
<1> QED
  BY <1>1, <1>2, <1>3, <1>4, <1>5, <1>6, <1>7, <1>8
  DEF ActionNext, AgentStep, CompletionFails, AgentDies, LagsByOne

\* Every conjunct is kept by every step.
LEMMA Inductive == IInv /\ [ActionNext]_actionVars => IInv'
<1> SUFFICES ASSUME IInv, [ActionNext]_actionVars PROVE IInv'
  OBVIOUS
<1>1. ActionTypeOK'
  BY TypeStep DEF IInv
<1>2. WaitingIsUnreported' /\ BeyondIsSettled' /\ PassedIsPending' /\ LagsByOne'
  BY WaitingStep, BeyondStep, PassedStep, LagsStep
<1> QED  BY <1>1, <1>2 DEF IInv

LEMMA InductiveCorrect == ActionSpec => []IInv
<1>1. ActionInit => IInv
  BY InitIsInductive
<1>2. IInv /\ [ActionNext]_actionVars => IInv'
  BY Inductive
<1> QED  BY <1>1, <1>2, PTL DEF ActionSpec

-----------------------------------------------------------------------------
(***************************************************************************)
(* The theorems.                                                           *)
(***************************************************************************)
\* The columns have a row per requested action, and the agent's list and every
\* request in flight are about actions that were requested.
THEOREM TypeCorrect == ActionSpec => []ActionTypeOK
<1>1. IInv => ActionTypeOK
  BY DEF IInv
<1> QED  BY <1>1, InductiveCorrect, PTL

\* However many calls go without an answer, an agent executes an action again
\* only after an execution that raised or whose report had none; and between requests the
\* endpoint is in the state its settled actions lead to, unless a completion was
\* cut off or outlived its call (process_actions, complete_agent_action).
THEOREM ShownCorrect == ActionSpec => []ActionsShow
<1>1. IInv => RepeatsOnlyTheUnanswered
  BY ActionConstants DEF IInv, ActionTypeOK, WaitingIsUnreported, RepeatsOnlyTheUnanswered, Acts
<1>2. IInv => EndpointFollows
  BY ActionConstants DEF IInv, LagsByOne, EndpointFollows, Quiet, Given
<1> QED  BY <1>1, <1>2, InductiveCorrect, PTL DEF ActionsShow

\* A settled action keeps its verdict, whatever late or repeated completions
\* arrive, unless one had passed the check for "pending" before it was settled
\* (complete_agent_action).
THEOREM VerdictCorrect == ActionSpec => VerdictIsFinal
<1>1. ASSUME IInv, [ActionNext]_actionVars
      PROVE  [ \A a \in DOMAIN kind :
                 status[a] # "pending" /\ status'[a] # status[a] => a \in overtaken ]_actionVars
  <2> SUFFICES ASSUME ActionNext, NEW a \in DOMAIN kind,
                      status[a] # "pending", status'[a] # status[a]
               PROVE  a \in overtaken
    BY <1>1
  <2>1. CASE CreateAction
    BY <1>1, <2>1, CreateType DEF IInv
  <2>2. ASSUME NEW n \in Given, Serve(n)
        PROVE  a \in overtaken
    <3>1. request[n].act = a /\ SettleAction(n)
      BY <1>1, <2>2, ServeStatus DEF Serve, CheckPending, UpdateEndpoint, table
    <3> QED  BY <1>1, <3>1 DEF SettleAction, IInv, PassedIsPending
  <2>3. CASE AgentStep \/ ExecutionFails \/ CompletionFails \/ AgentDies
    BY <2>3 DEF AgentStep, PollActions, ExecuteAction, ExecutionRaises, CompletionAnswered,
                ExecutionFails, CompletionFails, AgentDies, table
  <2> QED  BY <2>1, <2>2, <2>3 DEF ActionNext
<1> QED  BY <1>1, InductiveCorrect, PTL DEF ActionSpec, VerdictIsFinal

-----------------------------------------------------------------------------
(* The files of agents: WorkerFiles *)

\* A worker that has not come to enrollment has no key in memory, and one that
\* has come to its loop with one found it in the file or wrote it.
KeysAreWritten ==
  \A w \in Agents :
    /\ worker[w].key => worker[w].at \in {"persist", "loop", "ended"}
    /\ worker[w].key /\ worker[w].at = "loop" => config = "key" \/ keyLost

\* What status.json says it said while a worker was there.
StatusIsOfWorkers ==
  /\ statusFile.written <= wall /\ lastAlive <= wall
  /\ InMain = {} /\ statusFile.running => statusFile.written <= lastAlive

FilesInv ==
  /\ WorkerTypeOK
  /\ KeyIsKept /\ KeysAreWritten
  /\ StatusIsOfWorkers

\* What becomes of the workers, when one of them goes on.
LEMMA FilesOf ==
  ASSUME FilesInv, NEW w \in Agents, NEW at \in Steps \cup {"ended"}, NEW key \in BOOLEAN,
         worker[w].at # "unused" \/ at = "config",
         worker' = [worker EXCEPT ![w] = [at |-> at, key |-> key]],
         config' \in {"none", "blank", "key", "torn"}, nameTaken' \in BOOLEAN, keyLost' \in BOOLEAN,
         statusFile' \in [running : BOOLEAN, written : 0 .. MaxClock],
         lastAlive' \in 0 .. MaxClock, UNCHANGED wall, losses' \in 0 .. MaxLosses
  PROVE  /\ WorkerTypeOK'
         /\ worker'[w].at = at /\ worker'[w].key = key
         /\ \A v \in Agents \ {w} : worker'[v] = worker[v]
         /\ InMain' = IF at = "ended" THEN InMain \ {w} ELSE InMain \cup {w}
  BY DEF FilesInv, WorkerTypeOK, InMain, Steps

\* The status of a worker that is there after its step
LEMMA StatusKept ==
  ASSUME FilesInv, InMain' # {}, UNCHANGED <<wall, lastAlive>>,
         statusFile' = statusFile \/ statusFile'.written = wall
  PROVE  StatusIsOfWorkers'
  BY WorkerConstants DEF FilesInv, StatusIsOfWorkers, WorkerTypeOK

\* Every step of an agent keeps its files.
LEMMA FilesStep ==
  ASSUME FilesInv, [WorkerNext]_workerVars
  PROVE  FilesInv'
<1> USE DEF FilesInv, agentFiles, healthVars, Goes, Writes, LosesKey
<1>0. ASSUME NEW w \in Agents
      PROVE  /\ worker[w].key \in BOOLEAN
             /\ \A at : [worker EXCEPT ![w].at = at] = [worker EXCEPT ![w] = [at |-> at, key |-> worker[w].key]]
  BY DEF WorkerTypeOK
<1>1. \A r \in BOOLEAN : /\ [running |-> r, written |-> wall].written = wall
                         /\ [running |-> r, written |-> wall] \in [running : BOOLEAN, written : 0 .. MaxClock]
  BY DEF WorkerTypeOK
<1>2. \A l \in 0 .. MaxLosses : l < MaxLosses => l + 1 \in 0 .. MaxLosses
  BY WorkerConstants
<1>3. ASSUME NEW w \in Agents, StartAgent(w) \/ FindConfig(w) \/ CreateConfig(w)
      PROVE  FilesInv'
  <2>1. PICK at \in {"config", "create", "read"} :
          worker' = [worker EXCEPT ![w] = [at |-> at, key |-> worker[w].key]]
          /\ (worker[w].at # "unused" \/ at = "config")
    BY <1>0, <1>3 DEF StartAgent, FindConfig, CreateConfig
  <2>2. /\ UNCHANGED <<nameTaken, statusFile, lastAlive, wall, losses>> /\ keyLost' \in BOOLEAN
        /\ config' \in {"none", "blank", "key", "torn"} /\ worker[w].at \notin {"persist", "loop", "ended"}
        /\ (keyLost => keyLost') /\ (config = "key" => config' = "key" \/ keyLost')
    BY <1>3 DEF StartAgent, FindConfig, CreateConfig, WorkerTypeOK
  <2>3. /\ WorkerTypeOK' /\ worker'[w].at = at /\ worker'[w].key = worker[w].key
        /\ \A v \in Agents \ {w} : worker'[v] = worker[v]
        /\ InMain' = InMain \cup {w}
    <3> DEFINE key == worker[w].key
    <3>1. key \in BOOLEAN /\ at \in Steps \cup {"ended"}
      BY <1>0 DEF Steps
    <3>2. /\ nameTaken' \in BOOLEAN /\ lastAlive' \in 0 .. MaxClock /\ losses' \in 0 .. MaxLosses
          /\ statusFile' \in [running : BOOLEAN, written : 0 .. MaxClock]
      BY <2>2 DEF WorkerTypeOK
    <3>3. worker' = [worker EXCEPT ![w] = [at |-> at, key |-> key]]
      BY <2>1
    <3> HIDE DEF key
    <3>4. /\ WorkerTypeOK' /\ worker'[w].at = at /\ worker'[w].key = key
          /\ \A v \in Agents \ {w} : worker'[v] = worker[v]
          /\ InMain' = InMain \cup {w}
      BY <2>1, <2>2, <3>1, <3>2, <3>3, FilesOf
    <3> QED  BY <3>4 DEF key
  <2>4. KeyIsKept'
    BY <2>2, <2>3 DEF KeyIsKept, InMain
  <2>5. KeysAreWritten'
    BY <2>2, <2>3 DEF KeysAreWritten
  <2> QED  BY <2>2, <2>3, <2>4, <2>5, StatusKept
<1>4. ASSUME NEW w \in Agents, LoadConfig(w)
      PROVE  FilesInv'
  <2> DEFINE at == IF config = "key" THEN "loop" ELSE "enroll"
  <2>1. /\ worker' = [worker EXCEPT ![w] = [at |-> at, key |-> (config = "key")]]
        /\ worker[w].at = "read" /\ statusFile' = [running |-> TRUE, written |-> wall]
        /\ UNCHANGED <<config, nameTaken, keyLost, lastAlive, wall, losses>>
    BY <1>4 DEF LoadConfig
  <2>2. /\ WorkerTypeOK' /\ worker'[w].at = at /\ worker'[w].key = (config = "key")
        /\ \A v \in Agents \ {w} : worker'[v] = worker[v]
        /\ InMain' = InMain \cup {w}
    <3> DEFINE key == config = "key"
    <3>1. key \in BOOLEAN /\ at \in Steps \cup {"ended"} /\ at # "ended" /\ worker[w].at # "unused"
      BY <2>1 DEF Steps
    <3>2. /\ nameTaken' \in BOOLEAN /\ keyLost' \in BOOLEAN /\ lastAlive' \in 0 .. MaxClock
          /\ statusFile' \in [running : BOOLEAN, written : 0 .. MaxClock]
          /\ config' \in {"none", "blank", "key", "torn"} /\ losses' \in 0 .. MaxLosses /\ wall' = wall
      BY <1>1, <2>1 DEF WorkerTypeOK
    <3>3. worker' = [worker EXCEPT ![w] = [at |-> at, key |-> key]]
      BY <2>1
    <3> HIDE DEF key, at
    <3>4. /\ WorkerTypeOK' /\ worker'[w].at = at /\ worker'[w].key = key
          /\ \A v \in Agents \ {w} : worker'[v] = worker[v]
          /\ InMain' = InMain \cup {w}
      BY <3>1, <3>2, <3>3, FilesOf
    <3> QED  BY <3>4 DEF key
  <2>3. ~ worker[w].key
    BY <2>1 DEF KeysAreWritten
  <2>4. KeyIsKept'
    BY <2>1, <2>2, <2>3 DEF KeyIsKept, InMain
  <2>5. KeysAreWritten'
    BY <2>1, <2>2 DEF KeysAreWritten
  <2> QED  BY <1>1, <2>1, <2>2, <2>4, <2>5, StatusKept
<1>5. ASSUME NEW w \in Agents, EnrollAgent(w)
      PROVE  FilesInv'
  <2>1. PICK at \in {"persist", "enroll"}, key \in BOOLEAN :
          /\ worker' = [worker EXCEPT ![w] = [at |-> at, key |-> key]]
          /\ \/ at = "persist" /\ key
             \/ at = "enroll" /\ keyLost' /\ key = worker[w].key
    <3>1. CASE worker' = [worker EXCEPT ![w] = [at |-> AfterEnroll, key |-> TRUE]]
      BY <3>1 DEF AfterEnroll
    <3>2. CASE LosesKey /\ UNCHANGED worker
      <4>1. worker' = [worker EXCEPT ![w] = [at |-> "enroll", key |-> worker[w].key]]
        BY <1>5, <3>2 DEF EnrollAgent, WorkerTypeOK
      <4> QED  BY <1>0, <3>2, <4>1
    <3> QED  BY <1>5, <3>1, <3>2 DEF EnrollAgent
  <2>2. /\ worker[w].at = "enroll" /\ nameTaken' = TRUE /\ UNCHANGED <<config, lastAlive, wall>>
        /\ keyLost' \in BOOLEAN /\ losses' \in 0 .. MaxLosses /\ (keyLost => keyLost')
        /\ statusFile' \in {statusFile, [running |-> TRUE, written |-> wall]}
    <3>1. CASE LosesKey /\ Writes(TRUE)
      BY <1>2, <1>5, <3>1 DEF EnrollAgent, WorkerTypeOK
    <3>2. CASE UNCHANGED <<keyLost, statusFile, losses>>
      BY <1>5, <3>2 DEF EnrollAgent, WorkerTypeOK
    <3> QED  BY <1>5, <3>1, <3>2 DEF EnrollAgent
  <2>3. statusFile' \in [running : BOOLEAN, written : 0 .. MaxClock]
    BY <1>1, <2>2 DEF WorkerTypeOK
  <2>4. /\ WorkerTypeOK' /\ worker'[w].at = at /\ worker'[w].key = key
        /\ \A v \in Agents \ {w} : worker'[v] = worker[v]
        /\ InMain' = InMain \cup {w}
    BY <2>1, <2>2, <2>3, FilesOf DEF Steps, WorkerTypeOK
  <2>5. KeyIsKept'
    BY <2>1, <2>2, <2>4 DEF KeyIsKept, InMain
  <2>6. KeysAreWritten'
    BY <2>1, <2>2, <2>4 DEF KeysAreWritten
  <2> QED  BY <1>1, <2>2, <2>4, <2>5, <2>6, StatusKept
<1>6. ASSUME NEW w \in Agents, PersistConfig(w)
      PROVE  FilesInv'
  <2>1. /\ worker' = [worker EXCEPT ![w] = [at |-> "loop", key |-> worker[w].key]]
        /\ worker[w].at = "persist" /\ UNCHANGED <<nameTaken, statusFile, lastAlive, wall>>
        /\ \/ config' = "key" /\ UNCHANGED keyLost
           \/ UNCHANGED config /\ keyLost' = TRUE
        /\ losses' \in 0 .. MaxLosses
    BY <1>0, <1>2, <1>6 DEF PersistConfig, WorkerTypeOK
  <2>2. /\ WorkerTypeOK' /\ worker'[w].at = "loop" /\ worker'[w].key = worker[w].key
        /\ \A v \in Agents \ {w} : worker'[v] = worker[v]
        /\ InMain' = InMain \cup {w}
    <3> DEFINE key == worker[w].key
    <3>1. key \in BOOLEAN /\ "loop" \in Steps \cup {"ended"} /\ worker[w].at # "unused"
      BY <1>0, <2>1 DEF Steps
    <3> DEFINE at == "loop"
    <3>2. /\ nameTaken' \in BOOLEAN /\ keyLost' \in BOOLEAN /\ lastAlive' \in 0 .. MaxClock
          /\ statusFile' \in [running : BOOLEAN, written : 0 .. MaxClock]
          /\ config' \in {"none", "blank", "key", "torn"} /\ losses' \in 0 .. MaxLosses /\ wall' = wall
      BY <2>1 DEF WorkerTypeOK
    <3>3. worker' = [worker EXCEPT ![w] = [at |-> at, key |-> key]] /\ at \in Steps \cup {"ended"} /\ at # "ended"
      BY <2>1, <3>1
    <3> HIDE DEF key, at
    <3>4. /\ WorkerTypeOK' /\ worker'[w].at = at /\ worker'[w].key = key
          /\ \A v \in Agents \ {w} : worker'[v] = worker[v]
          /\ InMain' = InMain \cup {w}
      BY <3>1, <3>2, <3>3, FilesOf
    <3> QED  BY <3>4 DEF key, at
  <2>3. KeyIsKept' /\ KeysAreWritten'
    BY <2>1, <2>2 DEF KeyIsKept, KeysAreWritten, InMain
  <2> QED  BY <2>1, <2>2, <2>3, StatusKept
<1>7. ASSUME NEW w \in Agents, EnrollDenied(w) \/ Beat(w)
      PROVE  FilesInv'
  <2>1. /\ UNCHANGED <<worker, config, nameTaken, keyLost, lastAlive, wall, losses>>
        /\ statusFile' = [running |-> TRUE, written |-> wall] /\ w \in InMain
    BY <1>7 DEF EnrollDenied, Beat, InMain, Steps
  <2>2. WorkerTypeOK' /\ KeyIsKept' /\ KeysAreWritten' /\ InMain' = InMain
    BY <1>1, <2>1 DEF WorkerTypeOK, KeyIsKept, KeysAreWritten, InMain
  <2> QED  BY <1>1, <2>1, <2>2, StatusKept
<1>8. ASSUME NEW w \in Agents, LeaveLoop(w) \/ KillAgent(w)
      PROVE  FilesInv'
  <2>1. /\ worker' = [worker EXCEPT ![w] = [at |-> "ended", key |-> worker[w].key]]
        /\ w \in InMain /\ lastAlive' = wall /\ UNCHANGED <<nameTaken, wall, losses>>
        /\ config' \in {"none", "blank", "key", "torn"} /\ keyLost' \in BOOLEAN /\ (keyLost => keyLost')
        /\ config = "key" => config' = "key" \/ keyLost'
        /\ worker[w].at = "persist" => keyLost'
    BY <1>0, <1>8 DEF LeaveLoop, KillAgent, WorkerTypeOK, InMain, Steps
  <2>2. statusFile' \in {statusFile, TornStatus, [running |-> FALSE, written |-> wall]}
    BY <1>8 DEF LeaveLoop, KillAgent
  <2>3. /\ statusFile' \in [running : BOOLEAN, written : 0 .. MaxClock]
        /\ statusFile'.written <= wall
    <3>1. /\ TornStatus \in [running : BOOLEAN, written : 0 .. MaxClock] /\ TornStatus.written <= wall
          /\ statusFile \in [running : BOOLEAN, written : 0 .. MaxClock] /\ statusFile.written <= wall
      BY WorkerConstants DEF TornStatus, WorkerTypeOK, StatusIsOfWorkers
    <3>2. wall <= wall
      BY DEF WorkerTypeOK
    <3> QED  BY <1>1, <2>2, <3>1, <3>2
  <2>4. /\ WorkerTypeOK' /\ worker'[w].at = "ended" /\ worker'[w].key = worker[w].key
        /\ \A v \in Agents \ {w} : worker'[v] = worker[v]
        /\ InMain' = InMain \ {w} /\ worker[w].at # "unused"
    BY <1>0, <2>1, <2>3, FilesOf DEF Steps, WorkerTypeOK, InMain
  <2>5. worker[w].key => config' = "key" \/ keyLost'
    BY <2>1 DEF KeysAreWritten, InMain, Steps
  <2>6. KeyIsKept'
    BY <2>1, <2>4, <2>5 DEF KeyIsKept, InMain
  <2>7. KeysAreWritten'
    BY <2>1, <2>4 DEF KeysAreWritten
  <2>8. StatusIsOfWorkers'
    BY <2>1, <2>3 DEF StatusIsOfWorkers, WorkerTypeOK
  <2> QED  BY <2>4, <2>6, <2>7, <2>8
<1>9. CASE WorkerTick
  BY <1>9, WorkerConstants DEF WorkerTick, WorkerTypeOK, KeyIsKept, KeysAreWritten, StatusIsOfWorkers, InMain
<1>10. CASE UNCHANGED workerVars
  BY <1>10 DEF workerVars, WorkerTypeOK, KeyIsKept, KeysAreWritten, StatusIsOfWorkers, InMain
<1> QED
  BY <1>3, <1>4, <1>5, <1>6, <1>7, <1>8, <1>9, <1>10 DEF WorkerNext

\* However workers of one host start, overlap, are killed and leave torn files:
\* the host keeps its key, and a dead one is not taken for healthy (load_agent_config,
\* enroll_if_needed, persist_config, healthcheck).
THEOREM HostCorrect == WorkerSpec => [](WorkerTypeOK /\ HostKeepsItsWord)
<1>1. WorkerInit => FilesInv
  <2> SUFFICES ASSUME WorkerInit PROVE FilesInv
    OBVIOUS
  <2>1. 0 \in 0 .. MaxClock /\ 0 \in 0 .. MaxLosses /\ 0 <= 0
    BY WorkerConstants
  <2>2. WorkerTypeOK
    BY <2>1 DEF WorkerInit, WorkerTypeOK, TornStatus
  <2> QED  BY <2>1, <2>2 DEF WorkerInit, FilesInv, KeyIsKept, KeysAreWritten, StatusIsOfWorkers, TornStatus
<1>2. FilesInv /\ [WorkerNext]_workerVars => FilesInv'
  BY FilesStep
<1>3. FilesInv => HostKeepsItsWord
  <2> SUFFICES ASSUME FilesInv, Healthy, InMain = {} PROVE wall - lastAlive < MaxAge
    BY DEF FilesInv, HostKeepsItsWord, HealthIsCurrent
  <2> QED  BY WorkerConstants DEF FilesInv, StatusIsOfWorkers, Healthy, Fresh, WorkerTypeOK
<1>4. FilesInv => WorkerTypeOK
  BY DEF FilesInv
<1> QED  BY <1>1, <1>2, <1>3, <1>4, PTL DEF WorkerSpec

-----------------------------------------------------------------------------
(* The launchers: Launcher *)

\* Without a race the file at the path is that of the launcher that is up, which
\* is the only one, and nobody is about to remove it.
LockIsAtItsPath ==
  /\ \A l \in Launchers : launcher[l].at \notin {"off", "left"} => launcher[l].handle # NoFile
  /\ ~ raced =>
       /\ \A l, m \in Launchers : InIcon(l) /\ InIcon(m) => l = m
       /\ \A l \in Launchers : InIcon(l) => launcher[l].handle = lockFile
       /\ \A l, m \in Launchers : InIcon(l) => launcher[m].at # "left"

WorkersHaveLaunchers ==
  \A w \in alive \ orphaned : \E l \in Launchers : InIcon(l) /\ launcher[l].child = w

LaunchInv == LaunchTypeOK /\ LockIsAtItsPath /\ WorkersHaveLaunchers

Places == [at : {"off", "open", "up", "stopping", "starting", "left"},
           handle : Inodes \cup {NoFile}, child : Workers \cup {NoChild},
           next : {"up", "starting", "left"}]

\* One launcher goes on, and the others stay as they are.
LEMMA Moved ==
  ASSUME LaunchTypeOK, NEW l \in Launchers, NEW r \in Places,
         launcher' = [launcher EXCEPT ![l] = r]
  PROVE  /\ launcher' \in [Launchers -> Places] /\ launcher'[l] = r
         /\ \A m \in Launchers \ {l} : launcher'[m] = launcher[m] /\ (InIcon(m)' <=> InIcon(m))
         /\ InIcon(l)' <=> r.at \in {"up", "stopping", "starting"}
  BY DEF LaunchTypeOK, Places, InIcon

\* A launcher, and where it is
LEMMA PlaceType ==
  ASSUME LaunchTypeOK
  PROVE  /\ launcher \in [Launchers -> Places] /\ Off \in Places
         /\ 0 \notin Inodes
  BY LauncherConstants, FS_CardinalityType DEF LaunchTypeOK, Places, Off, NoFile, Inodes

\* A step of a launcher that is up before or not after it, and leaves the lock.
LEMMA LaunchGoesOn ==
  ASSUME LaunchInv, NEW l \in Launchers, NEW r \in Places, InIcon(l),
         launcher' = [launcher EXCEPT ![l] = r],
         r.at \in {"up", "stopping", "starting"} => r.handle = launcher[l].handle,
         r.at \in {"up", "stopping", "starting", "left", "off"},
         UNCHANGED <<lockFile, raced>>,
         unused' \subseteq Workers, alive' \subseteq Workers \ unused', mishaps' \in 0 .. MaxMishaps,
         orphaned \subseteq orphaned', orphaned' \subseteq Workers,
         \A w \in alive' \ orphaned' :
           \/ w \in alive /\ w # launcher[l].child
           \/ w = r.child /\ r.at \in {"up", "stopping", "starting"}
  PROVE  LaunchInv'
<1> USE DEF LaunchInv
<1>1. /\ launcher' \in [Launchers -> Places] /\ launcher'[l] = r
      /\ \A m \in Launchers \ {l} : launcher'[m] = launcher[m] /\ (InIcon(m)' <=> InIcon(m))
      /\ InIcon(l)' <=> r.at \in {"up", "stopping", "starting"}
  BY Moved
<1>2. LaunchTypeOK'
  BY <1>1 DEF LaunchTypeOK, Places
<1>3. launcher[l].handle # NoFile
  BY DEF LockIsAtItsPath, InIcon
<1>4. LockIsAtItsPath'
  BY <1>1, <1>3 DEF LockIsAtItsPath
<1>5. WorkersHaveLaunchers'
  BY <1>1 DEF WorkersHaveLaunchers
<1> QED  BY <1>2, <1>4, <1>5

\* A launcher that is not up before it, nor after it
LEMMA LaunchAside ==
  ASSUME LaunchInv, NEW l \in Launchers, NEW r \in Places, ~ InIcon(l),
         launcher' = [launcher EXCEPT ![l] = r],
         r.at \in {"off", "open"}, r.at = "open" => r.handle # NoFile,
         lockFile' \in Inodes \cup {NoFile},
         \/ lockFile' = lockFile
         \/ lockFile = NoFile
         \/ lockFile' = NoFile /\ launcher[l].at = "left",
         raced => raced', raced' \in BOOLEAN, mishaps' \in 0 .. MaxMishaps,
         UNCHANGED <<unused, alive>>, orphaned \subseteq orphaned', orphaned' \subseteq Workers
  PROVE  LaunchInv'
<1> USE DEF LaunchInv
<1>1. /\ launcher' \in [Launchers -> Places] /\ launcher'[l] = r
      /\ \A m \in Launchers \ {l} : launcher'[m] = launcher[m] /\ (InIcon(m)' <=> InIcon(m))
      /\ ~ InIcon(l)'
  BY Moved
<1>2. LaunchTypeOK'
  BY <1>1 DEF LaunchTypeOK, Places
<1>3. \A m \in Launchers : InIcon(m)' => InIcon(m) /\ m # l /\ launcher'[m] = launcher[m]
  BY <1>1
<1>4. \A m \in Launchers : InIcon(m) => launcher[m].handle # NoFile
  BY DEF LockIsAtItsPath, InIcon
<1>5. ~ raced' => \A m \in Launchers : InIcon(m)' => lockFile' = lockFile
  BY <1>3, <1>4 DEF LockIsAtItsPath
<1>6. LockIsAtItsPath'
  BY <1>1, <1>3, <1>5 DEF LockIsAtItsPath
<1>7. WorkersHaveLaunchers'
  BY <1>1 DEF WorkersHaveLaunchers
<1> QED  BY <1>2, <1>6, <1>7

\* A launcher takes the lock, or does not get it.
LEMMA LaunchLock ==
  ASSUME LaunchInv, NEW l \in Launchers, TakeLock(l)
  PROVE  LaunchInv'
<1> USE DEF LaunchInv
<1> DEFINE i == launcher[l].handle
<1>1. /\ launcher[l].at = "open" /\ launcher[l] \in Places /\ i # NoFile
      /\ UNCHANGED <<lockFile, mishaps, unused, alive, orphaned>>
      /\ raced' = (raced \/ (Holder(i) = {} /\ (\/ lockFile # i
                                  \/ \E m \in Launchers : launcher[m].at = "left")))
  BY PlaceType DEF TakeLock, SameWorkers, LockIsAtItsPath
<1>2. CASE Holder(i) = {}
  <2> DEFINE r == [launcher[l] EXCEPT !.at = "up"]
  <2>1. /\ launcher' = [launcher EXCEPT ![l] = r] /\ r \in Places /\ r.at = "up"
        /\ r.handle = i /\ r.child = launcher[l].child
    BY <1>1, <1>2 DEF TakeLock, LaunchTypeOK, Places
  <2> HIDE DEF r
  <2>2. /\ launcher' \in [Launchers -> Places] /\ launcher'[l] = r
        /\ \A m \in Launchers \ {l} : launcher'[m] = launcher[m] /\ (InIcon(m)' <=> InIcon(m))
        /\ InIcon(l)'
    BY <2>1, Moved
  <2>3. raced' \in BOOLEAN /\ (raced => raced')
    BY <1>1 DEF LaunchTypeOK
  <2>4. LaunchTypeOK'
    BY <1>1, <2>2, <2>3 DEF LaunchTypeOK, Places
  <2>5. ASSUME ~ raced'
        PROVE  /\ \A m \in Launchers \ {l} : ~ InIcon(m)
               /\ lockFile = i /\ \A m \in Launchers : launcher[m].at # "left"
    <3>1. lockFile = i /\ (\A m \in Launchers : launcher[m].at # "left") /\ ~ raced
      BY <1>1, <1>2, <2>5, Zenon
    <3> QED  BY <1>2, <3>1 DEF LockIsAtItsPath, Holder
  <2>6. LockIsAtItsPath'
    BY <1>1, <2>1, <2>2, <2>5 DEF LockIsAtItsPath
  <2>7. WorkersHaveLaunchers'
    BY <1>1, <2>2 DEF WorkersHaveLaunchers, InIcon
  <2> QED  BY <2>4, <2>6, <2>7
<1>3. CASE Holder(i) # {}
  <2>1. launcher' = [launcher EXCEPT ![l] = Off]
    BY <1>3 DEF TakeLock, Refused
  <2>2. raced' \in BOOLEAN /\ (raced => raced')
    BY <1>1 DEF LaunchTypeOK
  <2> QED  BY <1>1, <2>1, <2>2, PlaceType, LaunchAside DEF Off, InIcon, LaunchTypeOK
<1> QED  BY <1>2, <1>3

\* Every step of a launcher
LEMMA LaunchStep ==
  ASSUME LaunchInv, [LaunchNext]_launchVars
  PROVE  LaunchInv'
<1> USE DEF LaunchInv
<1>1. ASSUME NEW l \in Launchers, OpenLock(l)
      PROVE  LaunchInv'
  <2>1. PICK i \in Inodes \cup {NoFile} :
          /\ i # NoFile /\ (lockFile # NoFile => i = lockFile) /\ lockFile' = i
          /\ launcher' = [launcher EXCEPT ![l] = [launcher[l] EXCEPT !.at = "open", !.handle = i]]
          /\ launcher[l] = Off
          /\ UNCHANGED <<mishaps, raced, unused, alive, orphaned>>
    BY <1>1, PlaceType DEF OpenLock, SameWorkers, LaunchTypeOK, NoFile
  <2>2. [launcher[l] EXCEPT !.at = "open", !.handle = i] \in Places
    BY <2>1, PlaceType DEF Places
  <2>3. /\ [launcher[l] EXCEPT !.at = "open", !.handle = i].at = "open"
        /\ [launcher[l] EXCEPT !.at = "open", !.handle = i].handle = i
        /\ ~ InIcon(l)
    BY <2>1 DEF Off, InIcon
  <2> QED  BY <2>1, <2>2, <2>3, LaunchAside DEF LaunchTypeOK
<1>2. ASSUME NEW l \in Launchers, StartWorker(l)
      PROVE  LaunchInv'
  <2>1. PICK w \in unused :
          /\ unused' = unused \ {w} /\ alive' = alive \cup {w}
          /\ launcher' = [launcher EXCEPT ![l] = [launcher[l] EXCEPT !.at = "up", !.child = w]]
          /\ launcher[l].at \in {"up", "starting"} /\ launcher[l].child \notin alive
          /\ UNCHANGED <<lockFile, mishaps, raced, orphaned>>
    BY <1>2 DEF StartWorker, LaunchTypeOK, Running
  <2> DEFINE r == [launcher[l] EXCEPT !.at = "up", !.child = w]
  <2>2. r \in Places /\ r.at = "up" /\ r.child = w /\ r.handle = launcher[l].handle
        /\ launcher' = [launcher EXCEPT ![l] = r]
    BY <2>1, PlaceType DEF LaunchTypeOK, Places
  <2> HIDE DEF r
  <2>3. /\ unused' \subseteq Workers /\ alive' \subseteq Workers \ unused'
        /\ mishaps' \in 0 .. MaxMishaps /\ orphaned' \subseteq Workers
        /\ InIcon(l) /\ UNCHANGED <<lockFile, raced, orphaned>>
    BY <2>1 DEF LaunchTypeOK, InIcon
  <2>4. \A v \in alive' \ orphaned' : (v \in alive /\ v # launcher[l].child) \/ v = r.child
    BY <2>1, <2>2
  <2> QED  BY <2>2, <2>3, <2>4, LaunchGoesOn
<1>3. ASSUME NEW l \in Launchers, StartFails(l)
      PROVE  LaunchInv'
  <2> DEFINE r == [launcher[l] EXCEPT !.at = "up"]
  <2>1. /\ launcher' = [launcher EXCEPT ![l] = r] /\ launcher[l].at = "starting"
        /\ UNCHANGED <<lockFile, mishaps, raced, unused, alive, orphaned>>
    BY <1>3 DEF StartFails, SameWorkers, LaunchTypeOK
  <2>2. r \in Places /\ r.at = "up" /\ r.child = launcher[l].child /\ r.handle = launcher[l].handle
    BY <2>1, PlaceType DEF Places
  <2> HIDE DEF r
  <2>3. /\ unused' \subseteq Workers /\ alive' \subseteq Workers \ unused'
        /\ mishaps' \in 0 .. MaxMishaps /\ orphaned \subseteq orphaned' /\ orphaned' \subseteq Workers
        /\ InIcon(l)
    BY <2>1 DEF LaunchTypeOK, InIcon
  <2>4. \A v \in alive' \ orphaned' : v \in alive /\ (v # launcher[l].child \/ (v = r.child /\ r.at = "up"))
    BY <2>1, <2>2
  <2> QED  BY <2>1, <2>2, <2>3, <2>4, LaunchGoesOn
<1>4. ASSUME NEW l \in Launchers, Terminate(l)
      PROVE  LaunchInv'
  <2>1. PICK next \in {"up", "starting", "left"} :
          /\ launcher' = [launcher EXCEPT ![l] = [launcher[l] EXCEPT !.at = "stopping", !.next = next]]
          /\ launcher[l].at = "up"
          /\ UNCHANGED <<lockFile, mishaps, raced, unused, alive, orphaned>>
    BY <1>4 DEF Terminate, SameWorkers, LaunchTypeOK
  <2> DEFINE r == [launcher[l] EXCEPT !.at = "stopping", !.next = next]
  <2>2. r \in Places /\ r.at = "stopping" /\ r.child = launcher[l].child /\ r.handle = launcher[l].handle
    BY <2>1, PlaceType DEF Places
  <2> HIDE DEF r
  <2> QED  BY <2>1, <2>2, LaunchGoesOn DEF LaunchTypeOK, InIcon, r
<1>5. ASSUME NEW l \in Launchers, ChildStopped(l)
      PROVE  LaunchInv'
  <2> DEFINE r == [launcher[l] EXCEPT !.at = launcher[l].next, !.child = NoChild, !.next = "up",
                    !.handle = IF launcher[l].next = "left" THEN NoFile ELSE @]
  <2>1. /\ launcher' = [launcher EXCEPT ![l] = r] /\ launcher[l].at = "stopping"
        /\ alive' = alive \ {launcher[l].child}
        /\ UNCHANGED <<lockFile, unused, mishaps, raced, orphaned>>
    BY <1>5 DEF ChildStopped, AfterWait
  <2>2. /\ r \in Places /\ r.at = launcher[l].next /\ r.at \in {"up", "starting", "left"}
        /\ r.at # "left" => r.handle = launcher[l].handle
    BY <2>1, PlaceType DEF Places
  <2> HIDE DEF r
  <2> QED  BY <2>1, <2>2, LaunchGoesOn DEF LaunchTypeOK, InIcon
<1>6. ASSUME NEW l \in Launchers, QuitIdle(l)
      PROVE  LaunchInv'
  <2> DEFINE r == [Off EXCEPT !.at = "left"]
  <2>1. /\ launcher' = [launcher EXCEPT ![l] = r] /\ launcher[l].at = "up"
        /\ launcher[l].child \notin alive
        /\ UNCHANGED <<lockFile, mishaps, raced, unused, alive, orphaned>>
    BY <1>6 DEF QuitIdle, SameWorkers, Running
  <2>2. r \in Places /\ r.at = "left"
    BY PlaceType DEF Places
  <2> HIDE DEF r
  <2>3. /\ unused' \subseteq Workers /\ alive' \subseteq Workers \ unused'
        /\ mishaps' \in 0 .. MaxMishaps /\ orphaned \subseteq orphaned' /\ orphaned' \subseteq Workers
        /\ InIcon(l)
    BY <2>1 DEF LaunchTypeOK, InIcon
  <2>4. \A v \in alive' \ orphaned' : v \in alive /\ (v # launcher[l].child \/ (v = r.child /\ r.at = "up"))
    BY <2>1, <2>2
  <2> QED  BY <2>1, <2>2, <2>3, <2>4, LaunchGoesOn
<1>7. ASSUME NEW l \in Launchers, UnlinkLock(l)
      PROVE  LaunchInv'
  <2>1. /\ launcher' = [launcher EXCEPT ![l] = Off] /\ launcher[l].at = "left" /\ lockFile' = NoFile
        /\ UNCHANGED <<mishaps, raced, unused, alive, orphaned>>
    BY <1>7 DEF UnlinkLock, SameWorkers
  <2> QED  BY <2>1, PlaceType, LaunchAside DEF LaunchTypeOK, InIcon, Off
<1>8. ASSUME NEW l \in Launchers, KillLauncher(l)
      PROVE  LaunchInv'
  <2>1. /\ launcher' = [launcher EXCEPT ![l] = Off] /\ mishaps' \in 0 .. MaxMishaps
        /\ orphaned' = orphaned \cup ({launcher[l].child} \cap alive)
        /\ UNCHANGED <<lockFile, unused, alive, raced>>
    BY <1>8, LauncherConstants DEF KillLauncher, Mishap, LaunchTypeOK
  <2>2. CASE InIcon(l)
    BY <2>1, <2>2, PlaceType, LaunchGoesOn DEF LaunchTypeOK, Off
  <2>3. CASE ~ InIcon(l)
    BY <2>1, <2>3, PlaceType, LaunchAside DEF LaunchTypeOK, Off
  <2> QED  BY <2>2, <2>3
<1>9. ASSUME NEW w \in Workers, WorkerEnds(w)
      PROVE  LaunchInv'
  BY <1>9 DEF WorkerEnds, LaunchTypeOK, LockIsAtItsPath, WorkersHaveLaunchers, InIcon
<1>10. CASE UNCHANGED launchVars
  BY <1>10 DEF launchVars, LaunchTypeOK, LockIsAtItsPath, WorkersHaveLaunchers, InIcon
<1> QED
  BY <1>1, <1>2, <1>3, <1>4, <1>5, <1>6, <1>7, <1>8, <1>9, <1>10, LaunchLock DEF LaunchNext

\* However launchers start, quit and are killed: two are up at once only after a
\* race for a file that was being removed, and no worker runs without its own
\* (SingletonLock, AgentLauncher).
THEOREM DesktopCorrect == LaunchSpec => [](LaunchTypeOK /\ OneWorkerPerDesktop)
<1>1. LaunchInit => LaunchInv
  <2> SUFFICES ASSUME LaunchInit PROVE LaunchInv
    OBVIOUS
  <2>1. Off.at = "off" /\ \A l \in Launchers : launcher[l] = Off
    BY DEF LaunchInit, Off
  <2>2. 0 \in 0 .. MaxMishaps /\ Off \in Places
    BY LauncherConstants DEF Off, Places, NoFile
  <2>3. LaunchTypeOK
    BY <2>2 DEF LaunchInit, LaunchTypeOK, Places
  <2> QED  BY <2>1, <2>3 DEF LaunchInit, LaunchInv, LockIsAtItsPath, WorkersHaveLaunchers, InIcon
<1>2. LaunchInv /\ [LaunchNext]_launchVars => LaunchInv'
  BY LaunchStep
<1>3. LaunchInv => OneWorkerPerDesktop
  <2> SUFFICES ASSUME LaunchInv, ~ raced
               PROVE  ~ (Cardinality({l \in Launchers : InIcon(l)}) > 1)
    BY DEF LaunchInv, OneWorkerPerDesktop, WorkersHaveLaunchers
  <2>1. CASE {l \in Launchers : InIcon(l)} = {}
    BY <2>1, FS_EmptySet
  <2>2. ASSUME NEW l \in Launchers, InIcon(l)
        PROVE  ~ (Cardinality({m \in Launchers : InIcon(m)}) > 1)
    <3>1. {m \in Launchers : InIcon(m)} = {l}
      BY <2>2 DEF LaunchInv, LockIsAtItsPath
    <3> QED  BY <3>1, FS_Singleton
  <2> QED  BY <2>1, <2>2
<1>4. LaunchInv => LaunchTypeOK
  BY DEF LaunchInv
<1> QED  BY <1>1, <1>2, <1>3, <1>4, PTL DEF LaunchSpec

-----------------------------------------------------------------------------
(* The links to mailboxes: MailLinks *)

\* A state that was accepted and is still there is about to be popped.
AcceptedIsPopped ==
  \A s \in Logins :
    /\ s \notin begun => uses[s] = 0
    /\ uses[s] > 0 /\ oauth[s] # Absent =>
         \E h \in Handlers : handler[h].at = "pop" /\ handler[h].login = s

\* Whoever refreshes a token refreshes that of the mailbox.
RefreshesTheToken ==
  ~ overlapped =>
    \A h \in Handlers : handler[h].at \in {"refresh", "save"} => handler[h].login = token

LinkInv ==
  /\ LinkTypeOK
  /\ AcceptedIsPopped /\ StatesAreSpent
  /\ RefreshesTheToken /\ NewestLoginStays

\* A handler takes up what it works on, or something else, or rests.
LEMMA HandlerType ==
  ASSUME LinkTypeOK, NEW h \in Handlers, NEW job \in Jobs \cup {AtRest},
         handler' = [handler EXCEPT ![h] = job]
  PROVE  /\ handler' \in [Handlers -> Jobs \cup {AtRest}] /\ handler'[h] = job
         /\ \A g \in Handlers \ {h} : handler'[g] = handler[g]
  BY DEF LinkTypeOK

\* A handler that is at work has a login.
LEMMA JobType ==
  ASSUME LinkTypeOK, NEW h \in Handlers, handler[h].at # "rest"
  PROVE  /\ handler[h] \in Jobs /\ handler[h].login \in Logins
         /\ \A at \in {"save"} : [handler[h] EXCEPT !.at = at] \in Jobs
                                 /\ [handler[h] EXCEPT !.at = at].at = at
                                 /\ [handler[h] EXCEPT !.at = at].login = handler[h].login
  BY DEF LinkTypeOK, Jobs, AtRest

\* A login begins, or a call for one.
LEMMA LinkStart ==
  ASSUME LinkInv, NEW s \in Logins, StartLogin(s)
  PROVE  LinkInv'
<1> USE DEF LinkInv
<1>1. /\ s \notin begun /\ begun' = begun \cup {s} /\ codes' = codes \cup {s}
      /\ oauth' = [r \in Logins |-> IF r = s THEN hour ELSE IF Expired(r) THEN Absent ELSE oauth[r]]
      /\ UNCHANGED <<token, handler, hour, served, restarts, uses, together, newest, overlapped>>
  BY DEF StartLogin, linkBounds, linkHistory
<1>2. LinkTypeOK'
  BY <1>1 DEF LinkTypeOK, Jobs
<1>3. AcceptedIsPopped'
  BY <1>1 DEF AcceptedIsPopped, LinkTypeOK
<1> QED  BY <1>1, <1>2, <1>3 DEF StatesAreSpent, RefreshesTheToken, NewestLoginStays

\* A call finds the state of its login, or none.
LEMMA LinkCheck ==
  ASSUME LinkInv, NEW h \in Handlers, NEW s \in Logins, CheckState(h, s)
  PROVE  LinkInv'
<1> USE DEF LinkInv
<1>1. /\ s \in begun /\ UNCHANGED <<begun, codes, token, newest, overlapped, hour, restarts>>
      /\ handler[h] = AtRest /\ served' \in 0 .. MaxCalls
  BY LinkConstants DEF CheckState, Takes, LinkTypeOK
<1>2. CASE oauth[s] # Absent /\ ~Expired(s)
  <2> DEFINE job == [at |-> "pop", login |-> s]
  <2>1. /\ handler' = [handler EXCEPT ![h] = job] /\ job \in Jobs /\ UNCHANGED oauth
        /\ uses' = [uses EXCEPT ![s] = @ + 1]
        /\ together' = together \cup {r \in {s} :
             \E g \in Handlers : handler[g].at = "pop" /\ handler[g].login = r}
    BY <1>2 DEF CheckState, Takes, Jobs
  <2>2. /\ handler' \in [Handlers -> Jobs \cup {AtRest}] /\ handler'[h] = job
        /\ \A g \in Handlers \ {h} : handler'[g] = handler[g]
    BY <2>1, HandlerType
  <2>3. LinkTypeOK'
    BY <1>1, <2>1, <2>2 DEF LinkTypeOK
  <2>4. AcceptedIsPopped'
    BY <1>1, <2>1, <2>2 DEF AcceptedIsPopped, AtRest, LinkTypeOK
  <2>5. StatesAreSpent'
    BY <1>1, <1>2, <2>1 DEF StatesAreSpent, AcceptedIsPopped, LinkTypeOK
  <2> QED  BY <1>1, <2>1, <2>2, <2>3, <2>4, <2>5 DEF RefreshesTheToken, NewestLoginStays
<1>3. CASE ~ (oauth[s] # Absent /\ ~Expired(s))
  <2>1. /\ handler' = handler /\ UNCHANGED <<uses, together>>
        /\ oauth' = [oauth EXCEPT ![s] = Absent]
    BY <1>1, <1>3 DEF CheckState, Takes, LinkTypeOK
  <2>2. LinkTypeOK'
    BY <1>1, <2>1 DEF LinkTypeOK, Jobs
  <2>3. AcceptedIsPopped'
    BY <1>1, <2>1 DEF AcceptedIsPopped, LinkTypeOK
  <2> QED  BY <1>1, <2>1, <2>2, <2>3 DEF StatesAreSpent, RefreshesTheToken, NewestLoginStays
<1> QED  BY <1>2, <1>3

\* The state that was accepted is taken away.
LEMMA LinkPop ==
  ASSUME LinkInv, NEW h \in Handlers, PopState(h)
  PROVE  LinkInv'
<1> USE DEF LinkInv
<1> DEFINE s == handler[h].login
<1>1. /\ handler[h].at = "pop" /\ oauth' = [oauth EXCEPT ![s] = Absent] /\ s \in Logins
      /\ UNCHANGED <<begun, codes, token, uses, together, newest, overlapped, hour, served, restarts>>
  BY JobType DEF PopState, AfterPop, Answers, linkBounds, linkHistory
<1>2. PICK job \in Jobs \cup {AtRest} :
        handler' = [handler EXCEPT ![h] = job] /\ job.at \notin {"refresh", "save"}
  BY <1>1 DEF PopState, Answers, Jobs, AtRest
<1>3. /\ handler' \in [Handlers -> Jobs \cup {AtRest}] /\ handler'[h] = job
      /\ \A g \in Handlers \ {h} : handler'[g] = handler[g]
  BY <1>2, HandlerType
<1>4. LinkTypeOK'
  BY <1>1, <1>3 DEF LinkTypeOK
<1>5. AcceptedIsPopped'
  BY <1>1, <1>3 DEF AcceptedIsPopped, LinkTypeOK
<1> QED  BY <1>1, <1>2, <1>3, <1>4, <1>5 DEF StatesAreSpent, RefreshesTheToken, NewestLoginStays

\* Handlers that are not about to pop a state leave the states as they are.
LEMMA LinkToken ==
  ASSUME LinkInv, NEW h \in Handlers,
         ExchangeCode(h) \/ StoreToken(h) \/ ReadToken(h) \/ RefreshToken(h) \/ SaveRefreshed(h)
  PROVE  LinkInv'
<1> USE DEF LinkInv
<1>1. UNCHANGED <<oauth, begun, uses, together, hour, restarts>> /\ codes' \subseteq codes
      /\ handler[h].at # "pop" /\ served' \in 0 .. MaxCalls
  BY LinkConstants DEF ExchangeCode, StoreToken, ReadToken, RefreshToken, SaveRefreshed, Takes, Answers,
         linkBounds, linkHistory, linkState, AtRest, LinkTypeOK
<1> DEFINE Fits(job) == job.at \in {"refresh", "save"} =>
                          /\ UNCHANGED <<token, newest, overlapped>>
                          /\ job.login = IF handler[h].at = "rest" THEN token ELSE handler[h].login
                          /\ handler[h].at \in {"rest", "refresh"}
<1>2. PICK job \in Jobs \cup {AtRest} : handler' = [handler EXCEPT ![h] = job] /\ Fits(job)
  <2>1. Fits(AtRest)
    BY DEF AtRest
  <2>2. CASE handler' = [handler EXCEPT ![h] = AtRest]
    BY <2>1, <2>2
  <2>3. ASSUME ExchangeCode(h), handler' = [handler EXCEPT ![h] = [at |-> "store", login |-> handler[h].login]]
        PROVE  \E job \in Jobs \cup {AtRest} : handler' = [handler EXCEPT ![h] = job] /\ Fits(job)
    <3> DEFINE job == [at |-> "store", login |-> handler[h].login]
    <3>1. job \in Jobs /\ job.at = "store"
      BY <2>3, JobType DEF ExchangeCode, Jobs
    <3> QED  BY <2>3, <3>1
  <2>4. CASE ReadToken(h)
    <3>1. UNCHANGED <<token, newest, overlapped>> /\ handler[h] = AtRest /\ token \in Logins
      BY <2>4 DEF ReadToken, Takes, linkState, linkHistory, LinkTypeOK
    <3> DEFINE job == [at |-> "refresh", login |-> token]
    <3>2. job \in Jobs /\ job.login = token /\ handler[h].at = "rest"
      BY <3>1 DEF Jobs, AtRest
    <3> HIDE DEF job
    <3>3. Fits(job)
      BY <3>1, <3>2
    <3>4. handler' = [handler EXCEPT ![h] = AtRest] \/ handler' = [handler EXCEPT ![h] = job]
      BY <2>4 DEF ReadToken, Takes, job
    <3> QED  BY <2>2, <3>2, <3>3, <3>4
  <2>5. CASE RefreshToken(h) /\ handler' = [handler EXCEPT ![h] = [handler[h] EXCEPT !.at = "save"]]
    <3> DEFINE job == [handler[h] EXCEPT !.at = "save"]
    <3>1. job \in Jobs /\ job.login = handler[h].login /\ handler[h].at = "refresh"
      BY <2>5, JobType DEF RefreshToken
    <3>2. UNCHANGED <<token, newest, overlapped>>
      BY <2>5 DEF RefreshToken, linkState, linkHistory
    <3> HIDE DEF job
    <3>3. Fits(job)
      BY <3>1, <3>2
    <3> QED  BY <2>5, <3>1, <3>3 DEF job
  <2> HIDE DEF Fits
  <2> QED
    BY <2>2, <2>3, <2>4, <2>5 DEF ExchangeCode, StoreToken, RefreshToken, SaveRefreshed, Answers
<1>3. /\ handler' \in [Handlers -> Jobs \cup {AtRest}] /\ handler'[h] = job
      /\ \A g \in Handlers \ {h} : handler'[g] = handler[g]
  BY <1>2, HandlerType
<1>4. /\ {token', newest'} \subseteq Logins \cup {NoToken} /\ overlapped' \in BOOLEAN
      /\ ~ overlapped' => ~ overlapped
  BY JobType DEF ExchangeCode, StoreToken, ReadToken, RefreshToken, SaveRefreshed, AfterSet,
         linkHistory, linkState, LinkTypeOK
<1>5. LinkTypeOK'
  BY <1>1, <1>3, <1>4 DEF LinkTypeOK
<1>6. AcceptedIsPopped' /\ StatesAreSpent'
  BY <1>1, <1>3 DEF AcceptedIsPopped, StatesAreSpent
<1>7. CASE StoreToken(h)
  <2>1. /\ token' = newest' /\ handler' = [handler EXCEPT ![h] = AtRest]
        /\ ~ overlapped' => \A g \in Handlers : handler[g].at \notin {"refresh", "save"}
    BY <1>7 DEF StoreToken, AfterSet, Answers
  <2> QED  BY <1>3, <1>5, <1>6, <2>1 DEF RefreshesTheToken, NewestLoginStays, LinkTypeOK, AtRest
<1>8. CASE SaveRefreshed(h)
  <2>1. /\ token' = handler[h].login /\ UNCHANGED <<newest, overlapped>> /\ handler[h].at = "save"
        /\ handler' = [handler EXCEPT ![h] = AtRest]
    BY <1>8 DEF SaveRefreshed, AfterSet, Answers, linkHistory
  <2> QED  BY <1>3, <1>5, <1>6, <2>1 DEF RefreshesTheToken, NewestLoginStays, LinkTypeOK, AtRest
<1>9. CASE UNCHANGED <<token, newest, overlapped>>
  BY <1>2, <1>3, <1>5, <1>6, <1>9 DEF RefreshesTheToken, NewestLoginStays
<1> QED
  BY <1>7, <1>8, <1>9 DEF ExchangeCode, ReadToken, RefreshToken, linkState, linkHistory

\* What the other calls do leaves the logins alone.
LEMMA LinkOther ==
  ASSUME LinkInv, PurgeStates \/ RestartLinks \/ HourPasses \/ UNCHANGED linkVars
  PROVE  LinkInv'
<1> USE DEF LinkInv
<1>1. CASE PurgeStates
  <2>1. /\ oauth' = [s \in Logins |-> IF Expired(s) THEN Absent ELSE oauth[s]]
        /\ UNCHANGED <<begun, codes, token, handler, hour, served, restarts, uses, together, newest, overlapped>>
    BY <1>1 DEF PurgeStates, linkBounds, linkHistory
  <2>2. LinkTypeOK' /\ AcceptedIsPopped'
    BY <2>1 DEF LinkTypeOK, Jobs, AcceptedIsPopped
  <2> QED  BY <2>1, <2>2 DEF StatesAreSpent, RefreshesTheToken, NewestLoginStays
<1>2. CASE RestartLinks
  <2>1. LinkTypeOK'
    BY <1>2, LinkConstants DEF RestartLinks, linkHistory, LinkTypeOK
  <2> QED  BY <1>2, <2>1 DEF RestartLinks, linkHistory, AcceptedIsPopped, StatesAreSpent,
                            RefreshesTheToken, NewestLoginStays, AtRest, LinkTypeOK
<1>3. CASE HourPasses
  <2>1. LinkTypeOK'
    BY <1>3, LinkConstants DEF HourPasses, linkHistory, linkState, LinkTypeOK, Jobs
  <2> QED  BY <1>3, <2>1 DEF HourPasses, linkHistory, linkState, AcceptedIsPopped, StatesAreSpent,
                            RefreshesTheToken, NewestLoginStays
<1>4. CASE UNCHANGED linkVars
  <2>1. LinkTypeOK'
    BY <1>4 DEF linkVars, linkHistory, linkState, linkBounds, LinkTypeOK, Jobs
  <2> QED  BY <1>4, <2>1 DEF linkVars, linkHistory, linkState, linkBounds, AcceptedIsPopped,
                            StatesAreSpent, RefreshesTheToken, NewestLoginStays
<1> QED  BY <1>1, <1>2, <1>3, <1>4

\* However callbacks of one login overlap and refreshes of the token go on
\* meanwhile: a login is accepted once, and the newest is the one that stays
\* (google_callback, microsoft_callback, graph_get_access_token).
THEOREM LinksCorrect == LinkSpec => [](LinkTypeOK /\ LinksHold)
<1>1. LinkInit => LinkInv
  <2> SUFFICES ASSUME LinkInit PROVE LinkInv
    OBVIOUS
  <2>1. LinkTypeOK
    <3>1. 0 \in 0 .. MaxHour /\ 0 \in 0 .. MaxCalls /\ 0 \in 0 .. MaxRestarts
      BY LinkConstants
    <3> QED  BY <3>1 DEF LinkInit, LinkTypeOK
  <2> QED  BY <2>1 DEF LinkInit, LinkInv, AcceptedIsPopped, StatesAreSpent, RefreshesTheToken,
                      NewestLoginStays, AtRest
<1>2. LinkInv /\ [LinkNext]_linkVars => LinkInv'
  BY LinkStart, LinkCheck, LinkPop, LinkToken, LinkOther DEF LinkNext
<1>3. LinkInv => LinksHold
  BY DEF LinkInv, LinksHold
<1>4. LinkInv => LinkTypeOK
  BY DEF LinkInv
<1> QED  BY <1>1, <1>2, <1>3, <1>4, PTL DEF LinkSpec

-----------------------------------------------------------------------------
(* The connection monitor: NetWatch *)

\* What the agent holds was made before now, and lives as long as it may.
TimesArePast ==
  /\ upset <= instant
  /\ \A i \in Indicators : hitAt[i] <= instant
  /\ iocCache.expires <= instant + Ttl /\ iocCache.dnsUntil <= instant + DnsTtl

\* An answer of the DNS from after the last upset is true, an indicator made of
\* such answers alone is the one there is, and a hit emitted after the last upset
\* was taken.
CachesAreTrue ==
  /\ iocCache.dnsUntil > upset + DnsTtl => iocCache.resolved = points
  /\ iocCache.expires > upset + Ttl + DnsTtl => iocCache.flags = IndicatorIf(points)
  /\ \A i \in Indicators : hitAt[i] > upset => reported >= hitAt[i]

WatchInv == WatchTypeOK /\ TimesArePast /\ CachesAreTrue

\* The lifetimes are positive numbers.
LEMMA WatchNumbers ==
  /\ Ttl \in Nat /\ Ttl > 0 /\ DnsTtl \in Nat /\ DnsTtl > 0 /\ Suppression \in Nat /\ Suppression > 0
  /\ PruneAfter \in Nat /\ Suppression <= Ttl + DnsTtl /\ MaxTurns \in Nat
BY WatchConstants

\* A cache that is refreshed, or still lives
LEMMA MatchedFacts ==
  ASSUME WatchInv, NEW fetched \in BOOLEAN, NEW resolves \in BOOLEAN,
         NEW cache, cache = Matched(fetched, resolves)
  PROVE  /\ cache \in [flags : Indicators \cup {"none"}, expires : Nat, resolved : BOOLEAN, dnsUntil : Nat]
         /\ cache.expires <= instant + Ttl /\ cache.dnsUntil <= instant + DnsTtl
         /\ fetched /\ resolves =>
              /\ cache.dnsUntil > upset + DnsTtl => cache.resolved = points
              /\ cache.expires > upset + Ttl + DnsTtl => cache.flags = IndicatorIf(points)
         /\ fetched /\ resolves /\ instant - upset >= Ttl + DnsTtl => cache.flags = IndicatorIf(points)
<1> USE WatchNumbers DEF WatchInv
<1>1. /\ listed \in Indicators \cup {"none"} /\ points \in BOOLEAN
      /\ iocCache \in [flags : Indicators \cup {"none"}, expires : Nat, resolved : BOOLEAN, dnsUntil : Nat]
      /\ instant \in Nat /\ upset \in Nat
  BY DEF WatchTypeOK
<1>2. \A b \in BOOLEAN : IndicatorIf(b) \in Indicators \cup {"none"}
  BY <1>1 DEF IndicatorIf
<1>3. CASE instant >= iocCache.expires
  <2> DEFINE dns == IF fetched /\ listed = "domain" THEN Resolved(resolves)
                    ELSE [resolved |-> iocCache.resolved, dnsUntil |-> iocCache.dnsUntil]
  <2>1. /\ cache.flags = IF fetched THEN IndicatorIf(dns.resolved) ELSE "none"
        /\ cache.expires = instant + Ttl /\ cache.resolved = dns.resolved /\ cache.dnsUntil = dns.dnsUntil
        /\ cache = [flags |-> IF fetched THEN IndicatorIf(dns.resolved) ELSE "none", expires |-> instant + Ttl,
                    resolved |-> dns.resolved, dnsUntil |-> dns.dnsUntil]
    BY <1>3 DEF Matched, Refreshed
  <2>2. CASE fetched /\ listed = "domain" /\ ~ (iocCache.dnsUntil > instant)
    <3>1. dns.resolved = (points /\ resolves) /\ dns.dnsUntil = instant + DnsTtl
      BY <2>2 DEF Resolved
    <3>2. dns.resolved \in BOOLEAN /\ (resolves => dns.resolved = points)
      BY <1>1, <3>1
    <3> HIDE DEF dns
    <3> QED  BY <1>1, <1>2, <2>1, <2>2, <3>1, <3>2
  <2>3. CASE ~ (fetched /\ listed = "domain" /\ ~ (iocCache.dnsUntil > instant))
    <3>1. dns.resolved = iocCache.resolved /\ dns.dnsUntil = iocCache.dnsUntil
      BY <2>3 DEF Resolved
    <3> HIDE DEF dns
    <3>2. /\ cache \in [flags : Indicators \cup {"none"}, expires : Nat, resolved : BOOLEAN, dnsUntil : Nat]
          /\ cache.expires <= instant + Ttl /\ cache.dnsUntil <= instant + DnsTtl
          /\ cache.dnsUntil > upset + DnsTtl => cache.resolved = points
      BY <1>1, <1>2, <2>1, <3>1 DEF TimesArePast, CachesAreTrue
    <3>3. fetched /\ instant > upset + DnsTtl => cache.flags = IndicatorIf(points)
      <4> SUFFICES ASSUME fetched, instant > upset + DnsTtl  PROVE cache.flags = IndicatorIf(points)
        OBVIOUS
      <4>1. CASE listed = "domain"
        <5>1. iocCache.resolved = points
          BY <1>1, <2>3, <4>1 DEF CachesAreTrue
        <5> QED  BY <2>1, <3>1, <5>1
      <4>2. CASE listed # "domain"
        BY <2>1, <3>1, <4>2 DEF IndicatorIf
      <4> QED  BY <4>1, <4>2
    <3>4. /\ cache.expires > upset + Ttl + DnsTtl => instant > upset + DnsTtl
          /\ instant - upset >= Ttl + DnsTtl => instant > upset + DnsTtl
      BY <1>1, <2>1
    <3> QED  BY <3>2, <3>3, <3>4
  <2> QED  BY <2>2, <2>3
<1>4. CASE ~ (instant >= iocCache.expires)
  <2>1. cache = iocCache
    BY <1>4 DEF Matched
  <2>2. instant - upset >= Ttl + DnsTtl => iocCache.expires > upset + Ttl + DnsTtl
    BY <1>1, <1>4
  <2> QED  BY <1>1, <2>1, <2>2 DEF TimesArePast, CachesAreTrue
<1> QED  BY <1>3, <1>4

\* The world changes, or the agent starts again: what it holds is of before.
LEMMA TurnKeeps ==
  ASSUME WatchInv, ListingChanges \/ DomainMoves \/ WatchRestarts
  PROVE  WatchInv'
<1> USE WatchNumbers DEF WatchInv
<1>1. /\ turns < MaxTurns /\ turns' = turns + 1 /\ upset' = instant /\ instant' = instant /\ reported' = reported
      /\ listed' \in Indicators \cup {"none"} /\ points' \in BOOLEAN
  BY DEF ListingChanges, DomainMoves, WatchRestarts, Turns, world, WatchTypeOK
<1>2. /\ hitAt' = hitAt \/ hitAt' = NoHits
      /\ iocCache' = iocCache \/ iocCache' = NoCache
      /\ monitor' = monitor \/ monitor' = [seen |-> [s \in Sockets |-> Never], todo |-> {}]
  BY DEF ListingChanges, DomainMoves, WatchRestarts
<1>3. /\ instant \in Nat /\ upset \in Nat /\ reported \in Nat /\ turns \in 0 .. MaxTurns
      /\ hitAt \in [Indicators -> Nat]
      /\ iocCache \in [flags : Indicators \cup {"none"}, expires : Nat, resolved : BOOLEAN, dnsUntil : Nat]
      /\ monitor \in [seen : [Sockets -> Nat], todo : SUBSET Sockets]
  BY DEF WatchTypeOK
<1>4. /\ hitAt' \in [Indicators -> Nat] /\ \A i \in Indicators : hitAt'[i] <= instant
  BY <1>2, <1>3 DEF NoHits, Never, TimesArePast
<1>5. /\ iocCache' \in [flags : Indicators \cup {"none"}, expires : Nat, resolved : BOOLEAN, dnsUntil : Nat]
      /\ iocCache'.expires <= instant + Ttl /\ iocCache'.dnsUntil <= instant + DnsTtl
  <2>1. CASE iocCache' = iocCache
    BY <1>3, <2>1 DEF TimesArePast
  <2>2. CASE iocCache' = [flags |-> "none", expires |-> 0, resolved |-> FALSE, dnsUntil |-> 0]
    BY <1>3, <2>2
  <2> QED  BY <1>2, <2>1, <2>2 DEF NoCache, Never
<1>6. monitor' \in [seen : [Sockets -> Nat], todo : SUBSET Sockets]
  BY <1>2, <1>3 DEF Never
<1>7. WatchTypeOK'
  BY <1>1, <1>3, <1>4, <1>5, <1>6 DEF WatchTypeOK
<1>8. TimesArePast'
  BY <1>1, <1>3, <1>4, <1>5 DEF TimesArePast
<1>9. CachesAreTrue'
  BY <1>1, <1>3, <1>4, <1>5 DEF CachesAreTrue
<1> QED  BY <1>7, <1>8, <1>9

\* Time passes, or connections are taken to be examined.
LEMMA PollKeeps ==
  ASSUME WatchInv, NetTick \/ Poll
  PROVE  WatchInv'
<1> USE WatchNumbers DEF WatchInv
<1>1. /\ instant' \in {instant, instant + 1}
      /\ UNCHANGED <<listed, points, iocCache, hitAt, turns, upset, reported>>
  BY DEF NetTick, Poll, world
<1>2. /\ instant \in Nat /\ upset \in Nat /\ reported \in Nat
      /\ monitor \in [seen : [Sockets -> Nat], todo : SUBSET Sockets]
      /\ hitAt \in [Indicators -> Nat]
      /\ iocCache \in [flags : Indicators \cup {"none"}, expires : Nat, resolved : BOOLEAN, dnsUntil : Nat]
  BY DEF WatchTypeOK
<1>3. monitor' \in [seen : [Sockets -> Nat], todo : SUBSET Sockets]
  <2>1. CASE NetTick
    BY <1>2, <2>1 DEF NetTick
  <2>2. CASE Poll
    <3> DEFINE kept(s) == monitor.seen[s] # Never /\ instant - monitor.seen[s] < PruneAfter
    <3>1. PICK new \in SUBSET Sockets :
            monitor' = [todo |-> new,
                        seen |-> [s \in Sockets |-> IF s \in new THEN instant
                                             ELSE IF kept(s) THEN monitor.seen[s] ELSE Never]]
      BY <2>2 DEF Poll
    <3>2. \A s \in Sockets : monitor.seen[s] \in Nat
      BY <1>2
    <3> HIDE DEF kept
    <3> QED  BY <1>2, <3>1, <3>2 DEF Never
  <2> QED  BY <2>1, <2>2
<1>4. WatchTypeOK'
  BY <1>1, <1>2, <1>3 DEF WatchTypeOK
<1>5. TimesArePast'
  BY <1>1, <1>2 DEF TimesArePast
<1>6. CachesAreTrue'
  BY <1>1 DEF CachesAreTrue, IndicatorIf
<1> QED  BY <1>4, <1>5, <1>6

\* A connection is examined.
LEMMA ExamineFacts ==
  ASSUME WatchInv, NEW s \in Sockets, Examine(s)
  PROVE  /\ WatchInv'
         /\ (IndicatorIf(points) # "none" /\ instant - upset' >= Ttl + DnsTtl)
              => instant - reported' < Suppression
<1> USE WatchNumbers DEF WatchInv
<1>1. PICK fetched \in BOOLEAN, resolves \in BOOLEAN, taken \in BOOLEAN :
        LET cache == Matched(fetched, resolves)
            hit == cache.flags # "none"
            emitted == hit /\ Emits(cache.flags)
        IN
        /\ s \in monitor.todo
        /\ monitor' = [monitor EXCEPT !.todo = @ \ {s}]
        /\ iocCache' = cache
        /\ hitAt' = IF hit THEN AfterHit(cache.flags) ELSE hitAt
        /\ reported' = IF emitted /\ taken THEN instant ELSE reported
        /\ IF fetched /\ resolves /\ taken THEN UNCHANGED <<turns, upset>> ELSE Turns
        /\ UNCHANGED <<world, instant>>
  BY DEF Examine
<1> DEFINE cache == Matched(fetched, resolves)
           good == fetched /\ resolves /\ taken
           f == cache.flags
<1>2. /\ cache \in [flags : Indicators \cup {"none"}, expires : Nat, resolved : BOOLEAN, dnsUntil : Nat]
      /\ cache.expires <= instant + Ttl /\ cache.dnsUntil <= instant + DnsTtl
      /\ fetched /\ resolves =>
           /\ cache.dnsUntil > upset + DnsTtl => cache.resolved = points
           /\ cache.expires > upset + Ttl + DnsTtl => f = IndicatorIf(points)
      /\ fetched /\ resolves /\ instant - upset >= Ttl + DnsTtl => f = IndicatorIf(points)
  BY MatchedFacts
<1>3. /\ monitor' = [monitor EXCEPT !.todo = @ \ {s}]
      /\ iocCache' = cache
      /\ hitAt' = IF f # "none" THEN AfterHit(f) ELSE hitAt
      /\ reported' = IF f # "none" /\ Emits(f) /\ taken THEN instant ELSE reported
      /\ IF good THEN UNCHANGED <<turns, upset>> ELSE Turns
      /\ UNCHANGED <<listed, points, instant>>
  BY <1>1 DEF world
<1>4. /\ instant \in Nat /\ upset \in Nat /\ reported \in Nat /\ turns \in 0 .. MaxTurns
      /\ hitAt \in [Indicators -> Nat] /\ f \in Indicators \cup {"none"}
      /\ monitor \in [seen : [Sockets -> Nat], todo : SUBSET Sockets]
      /\ upset <= instant /\ \A i \in Indicators : hitAt[i] <= instant
      /\ listed \in Indicators \cup {"none"} /\ points \in BOOLEAN
  BY <1>2 DEF WatchTypeOK, TimesArePast
<1> HIDE DEF cache, good
<1>5. IF good THEN turns' = turns /\ upset' = upset ELSE turns < MaxTurns /\ turns' = turns + 1 /\ upset' = instant
  BY <1>3 DEF Turns
<1>6. /\ hitAt' \in [Indicators -> Nat]
      /\ \A i \in Indicators : hitAt'[i] = IF i = f /\ Emits(f) THEN instant ELSE hitAt[i]
  BY <1>3, <1>4 DEF AfterHit, Indicators
<1>7. WatchTypeOK'
  <2>1. upset' \in Nat /\ reported' \in Nat /\ turns' \in 0 .. MaxTurns
    BY <1>3, <1>4, <1>5
  <2>2. monitor' \in [seen : [Sockets -> Nat], todo : SUBSET Sockets]
    BY <1>3, <1>4
  <2> QED  BY <1>2, <1>3, <1>4, <1>6, <2>1, <2>2 DEF WatchTypeOK
<1>8. TimesArePast'
  BY <1>2, <1>3, <1>4, <1>5, <1>6 DEF TimesArePast
<1>9. CASE ~ good
  <2>1. upset' = instant
    BY <1>5, <1>9
  <2>2. CachesAreTrue'
    BY <1>2, <1>3, <1>4, <1>6, <2>1 DEF CachesAreTrue
  <2>3. ~ (instant - upset' >= Ttl + DnsTtl)
    BY <1>4, <2>1
  <2> QED  BY <1>7, <1>8, <2>2, <2>3
<1>10. CASE good
  <2>1. upset' = upset /\ fetched /\ resolves /\ taken
    BY <1>5, <1>10 DEF good
  <2>2. \A i \in Indicators : hitAt'[i] > upset => reported' >= hitAt'[i]
    <3> SUFFICES ASSUME NEW i \in Indicators, hitAt'[i] > upset  PROVE reported' >= hitAt'[i]
      OBVIOUS
    <3>1. CASE i = f /\ Emits(f)
      BY <1>3, <1>4, <1>6, <2>1, <3>1 DEF Indicators
    <3>2. CASE ~ (i = f /\ Emits(f))
      <4>1. hitAt'[i] = hitAt[i] /\ reported >= hitAt[i] /\ hitAt[i] <= instant
        BY <1>4, <1>6, <3>2 DEF CachesAreTrue
      <4> QED  BY <1>3, <1>4, <4>1
    <3> QED  BY <3>1, <3>2
  <2>3. CachesAreTrue'
    BY <1>2, <1>3, <2>1, <2>2 DEF CachesAreTrue, IndicatorIf
  <2>4. ASSUME IndicatorIf(points) # "none", instant - upset >= Ttl + DnsTtl
        PROVE  instant - reported' < Suppression
    <3>1. f = IndicatorIf(points) /\ f \in Indicators /\ f # "none"
      BY <1>2, <1>4, <2>1, <2>4
    <3>2. CASE Emits(f)
      BY <1>3, <1>4, <2>1, <3>1, <3>2
    <3>3. CASE ~ Emits(f)
      <4>1. instant - hitAt[f] < Suppression /\ hitAt[f] \in Nat
        BY <1>4, <3>1, <3>3 DEF Emits
      <4>2. hitAt[f] > upset
        BY <1>4, <2>4, <4>1
      <4>3. reported >= hitAt[f] /\ reported' = reported
        BY <1>3, <3>1, <3>3, <4>2 DEF CachesAreTrue
      <4> QED  BY <1>4, <4>1, <4>3
    <3> QED  BY <3>2, <3>3
  <2> QED  BY <1>7, <1>8, <2>1, <2>3, <2>4
<1> QED  BY <1>9, <1>10

\* However lists change, names move and caches age: a connection to an address that
\* has been listed for as long as the caches live is reported, unless it was lately
\* (EdrNetworkMonitor.poll, IocCache.match_ip, should_emit_hit).
THEOREM WatchCorrect == WatchSpec => []WatchTypeOK /\ ListedIsReported
<1>1. WatchInit => WatchInv
  <2> SUFFICES ASSUME WatchInit  PROVE WatchInv
    OBVIOUS
  <2>1. Start \in Nat /\ Start >= 0
    BY WatchNumbers DEF Start
  <2>2. /\ instant = Start /\ turns = 0 /\ upset = 0 /\ reported = 0
        /\ listed \in Indicators \cup {"none"} /\ points \in BOOLEAN
        /\ monitor = [seen |-> [s \in Sockets |-> 0], todo |-> {}]
        /\ iocCache = [flags |-> "none", expires |-> 0, resolved |-> FALSE, dnsUntil |-> 0]
        /\ hitAt = [i \in Indicators |-> 0]
    BY DEF WatchInit, NoCache, NoHits, Never
  <2>3. WatchTypeOK
    BY <2>1, <2>2, WatchNumbers DEF WatchTypeOK
  <2>4. TimesArePast
    BY <2>1, <2>2, WatchNumbers DEF TimesArePast
  <2>5. CachesAreTrue
    <3>1. /\ iocCache.expires = 0 /\ iocCache.dnsUntil = 0 /\ upset = 0
          /\ \A i \in Indicators : hitAt[i] = 0
      BY <2>2
    <3>2. ~ (0 > 0 + DnsTtl) /\ ~ (0 > 0 + Ttl + DnsTtl) /\ ~ (0 > 0)
      BY WatchNumbers
    <3> QED  BY <3>1, <3>2 DEF CachesAreTrue
  <2> QED  BY <2>3, <2>4, <2>5 DEF WatchInv
<1>2. WatchInv /\ [WatchNext]_netVars => WatchInv'
  <2> SUFFICES ASSUME WatchInv, [WatchNext]_netVars  PROVE WatchInv'
    OBVIOUS
  <2>1. CASE UNCHANGED netVars
    BY <2>1 DEF WatchInv, WatchTypeOK, TimesArePast, CachesAreTrue, IndicatorIf, netVars, world
  <2> QED  BY <2>1, TurnKeeps, PollKeeps, ExamineFacts DEF WatchNext
<1>3. WatchInv /\ [WatchNext]_netVars =>
        [\A s \in monitor.todo \ monitor'.todo :
           /\ IndicatorIf(points) # "none"
           /\ instant - upset' >= Ttl + DnsTtl
           => instant - reported' < Suppression]_netVars
  <2> SUFFICES ASSUME WatchInv, WatchNext, NEW s \in monitor.todo \ monitor'.todo,
                      IndicatorIf(points) # "none", instant - upset' >= Ttl + DnsTtl
               PROVE  instant - reported' < Suppression
    BY DEF netVars
  <2>1. instant \in Nat /\ ~ (instant - instant >= Ttl + DnsTtl)
    BY WatchNumbers DEF WatchInv, WatchTypeOK
  <2>2. CASE ListingChanges \/ DomainMoves \/ WatchRestarts
    BY <2>1, <2>2 DEF ListingChanges, DomainMoves, WatchRestarts, Turns
  <2>3. CASE NetTick \/ Poll
    BY <2>3 DEF NetTick, Poll
  <2> QED  BY <2>2, <2>3, ExamineFacts DEF WatchNext
<1>4. WatchInv => WatchTypeOK
  BY DEF WatchInv
<1> QED  BY <1>1, <1>2, <1>3, <1>4, PTL DEF WatchSpec, ListedIsReported

-----------------------------------------------------------------------------
(* All the parts: Services *)

\* At first each part is as its own specification begins.
LEMMA PartsBegin ==
  ASSUME Init
  PROVE  /\ ActionInit /\ MapInit /\ GuardInit /\ SeedInit /\ LaunchInit
         /\ WorkerInit /\ WatchInit /\ LinkInit /\ SearchInit
BY DEF Init

\* Whichever part is at work, each makes a step of its own or none.
LEMMA PartsStep ==
  ASSUME [Next]_vars
  PROVE  /\ [ActionNext]_actionVars /\ [MapNext]_mapVars /\ [GuardNext]_guardVars
         /\ [SeedNext]_seedVars /\ [LaunchNext]_launchVars /\ [WorkerNext]_workerVars
         /\ [WatchNext]_netVars /\ [LinkNext]_linkVars /\ [SearchNext]_searchVars
<1>1. CASE UNCHANGED vars
  BY <1>1 DEF vars
<1>2. CASE Next
  BY <1>2 DEF Next, others
<1> QED  BY <1>1, <1>2

\* The system is each of its parts: a behaviour of all of them is one of each, so
\* that what a part promises by itself, it promises here.
THEOREM PartsKeepTheirWord ==
  Spec => ActionSpec /\ MapSpec /\ GuardSpec /\ SeedSpec /\ LaunchSpec
          /\ WorkerSpec /\ WatchSpec /\ LinkSpec /\ SearchSpec
<1>1. Init => /\ ActionInit /\ MapInit /\ GuardInit /\ SeedInit /\ LaunchInit
              /\ WorkerInit /\ WatchInit /\ LinkInit /\ SearchInit
  BY PartsBegin
<1>2. [Next]_vars =>
        /\ [ActionNext]_actionVars /\ [MapNext]_mapVars /\ [GuardNext]_guardVars
        /\ [SeedNext]_seedVars /\ [LaunchNext]_launchVars /\ [WorkerNext]_workerVars
        /\ [WatchNext]_netVars /\ [LinkNext]_linkVars /\ [SearchNext]_searchVars
  BY PartsStep
<1> QED  BY <1>1, <1>2, PTL
         DEF Spec, ActionSpec, MapSpec, GuardSpec, SeedSpec, LaunchSpec, WorkerSpec,
             WatchSpec, LinkSpec, SearchSpec

\* What the run of all the parts checks of their states is so for any number of
\* actions, connections, reports, starts, launchers, agents, logins and documents.
THEOREM ServicesHold ==
  Spec => [](/\ ActionsShow /\ StreamIsWhole /\ ReportsAreHandled
             /\ SeededOncePerEmptyTable /\ OneWorkerPerDesktop /\ HostKeepsItsWord
             /\ LinksHold /\ IndexIsWhole)
BY PartsKeepTheirWord, ShownCorrect, StreamCorrect, ReportsCorrect, SeedingCorrect,
   DesktopCorrect, HostCorrect, LinksCorrect, IndexCorrect, PTL

\* And what it checks of their steps, but that actions are settled at last
THEOREM ServicesStepWell ==
  Spec => VerdictIsFinal /\ DropsSwitchMode /\ ListedIsReported
BY PartsKeepTheirWord, VerdictCorrect, DropsCorrect, WatchCorrect, PTL

\* Each part keeps its types.
THEOREM ServicesAreTyped == Spec => []TypeOK
<1>1. Init => service \in Parts
  BY DEF Init
<1>2. service \in Parts /\ [Next]_vars => (service \in Parts)'
  BY DEF Next, vars
<1> QED  BY <1>1, <1>2, PartsKeepTheirWord, TypeCorrect, StreamCorrect, ReportsCorrect, SeedingCorrect,
            DesktopCorrect, HostCorrect, LinksCorrect, WatchCorrect, IndexCorrect, PTL
            DEF Spec, TypeOK
=============================================================================
