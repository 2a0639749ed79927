------------------------------ MODULE CaseWork ------------------------------
(***************************************************************************)
(* Analysts at work on alerts and workplans, and the mails this causes.    *)
(*                                                                         *)
(*   create_alert, update_alert, delete_alert, create_workplan,            *)
(*   update_workplan_entry                          backend/app/main.py    *)
(*   get_alert, get_workplan_by_alert_id, create_... and update_...        *)
(*                                                  backend/app/crud.py    *)
(*                                                                         *)
(* The handlers are plain functions and run in a pool of threads, of one   *)
(* or of several processes: the emitters of Notifications.  req[t] is the  *)
(* request that thread t serves; its field at names the next commit or     *)
(* query.  A request is cut when its process dies or the database refuses  *)
(* its commit.                                                             *)
(***************************************************************************)
EXTENDS Notifications, Sequences

CONSTANTS
  Users, NoUser,
  MaxAlerts,    \* bounds of a run: alerts,
  MaxPlans,     \*   workplans,
  MaxRequests,  \*   requests,
  MaxCuts       \*   requests that are cut

Threads == Emitters

CaseEvents == {"ALERT_CREATED", "ALERT_UPDATED", "ALERT_CLOSED", "ALERT_ESCALATED",
               "ALERT_DEESCALATED"}

ASSUME CaseConstants ==
  /\ NoUser \notin Users
  /\ IsFiniteSet(Threads)
  /\ MaxAlerts \in Nat \ {0} /\ MaxPlans \in Nat /\ MaxRequests \in Nat /\ MaxCuts \in Nat
  /\ CaseEvents \subseteq EventTypes /\ 1 .. MaxAlerts \subseteq Entities

VARIABLES
  alerts,       \* alerts[a]: owner_id, assigned_to and status, or Gone
  plans,        \* plans[p]: the alert in context_id of workplan p, 0 for no alert
  req,          \* req[t]: what thread t does
  auto,         \* history: auto[a]: workplans made by update_alert
  announced,    \* history: alerts whose closing was announced since they were open
  interrupted,  \* history: alerts whose last assignment did not come to its end
  hushed,       \* history: alerts whose closing was cut before the announcement
  moved,        \* history: alerts that lost a workplan to another context
  requests, cuts

tables   == <<alerts, plans>>
history  == <<auto, announced, interrupted, hushed, moved>>
caseVars == <<tables, req, history, requests, cuts>>
vars     == <<caseVars, notificationVars>>

Statuses == {"open", "closed"}
Row  == [owner : Users \cup {NoUser}, assigned : Users \cup {NoUser}, status : Statuses]
Gone == [owner |-> NoUser, assigned |-> NoUser, status |-> "gone"]
Idle == [at |-> "idle"]

\* The bodies of PATCH requests: a value for each field that is sent.
AlertUpdates == [assigned : Users \cup {NoUser}] \cup [status : Statuses]
                  \cup [assigned : Users \cup {NoUser}, status : Statuses]

\* What a thread works on; a handler that has updated an alert, or created one
\* with nothing set, has emissions before it.
AlertRequests ==
  [at : {"update"}, alert : DOMAIN alerts, set : AlertUpdates, was : Row]
    \cup [at : {"check", "insert", "emit"}, alert : DOMAIN alerts,
          set : AlertUpdates \cup {<<>>}, emits : Seq(CaseEvents) \ {<<>>}]
    \cup [at : {"delete"}, alert : DOMAIN alerts]

CaseTypeOK ==
  /\ alerts \in Seq(Row \cup {Gone}) /\ Len(alerts) <= MaxAlerts
  /\ plans \in Seq({0} \cup DOMAIN alerts)
  /\ req \in [Threads -> AlertRequests \cup {Idle}]
  /\ auto \in [1 .. MaxAlerts -> Nat]
  /\ announced \cup interrupted \cup hushed \subseteq DOMAIN alerts
  /\ moved \subseteq {0} \cup DOMAIN alerts
  /\ requests \in 0 .. MaxRequests /\ cuts \in 0 .. MaxCuts

Init ==
  /\ \/ alerts = <<>>
     \/ \E u \in Users : alerts = <<[owner |-> u, assigned |-> NoUser, status |-> "open"]>>
  /\ plans = <<>>
  /\ req = [t \in Threads |-> Idle]
  /\ auto = [a \in 1 .. MaxAlerts |-> 0]
  /\ announced = {} /\ interrupted = {} /\ hushed = {} /\ moved = {}
  /\ requests = 0 /\ cuts = 0
  /\ NotificationInit

\* Thread t takes a request.
Arrives(t, r) ==
  /\ req[t] = Idle
  /\ requests < MaxRequests
  /\ requests' = requests + 1
  /\ req' = [req EXCEPT ![t] = r]

Goes(t, at) == req' = [req EXCEPT ![t].at = at]
Ends(t)     == req' = [req EXCEPT ![t] = Idle]

\* What an UPDATE of the ORM does to a row: it writes the fields whose new
\* value differs from the one that was loaded.
Written(row, loaded, set) ==
  [f \in DOMAIN row |-> IF f \in DOMAIN set /\ set[f] # loaded[f] THEN set[f] ELSE row[f]]

PlansOf(a) == {p \in DOMAIN plans : plans[p] = a}

-----------------------------------------------------------------------------
(* Alerts *)

\* get_alert with the id of the user
Visible(a, user) ==
  a \in DOMAIN alerts /\ alerts[a] # Gone /\ user \in {alerts[a].owner, alerts[a].assigned}

\* create_alert, by a user or, without an owner, by an agent
CreateAlert(t) ==
  /\ Len(alerts) < MaxAlerts
  /\ Arrives(t, [at |-> "emit", alert |-> Len(alerts) + 1, set |-> <<>>,
                 emits |-> <<"ALERT_CREATED">>])
  /\ \E owner \in Users \cup {NoUser} :
       alerts' = Append(alerts, [owner |-> owner, assigned |-> NoUser, status |-> "open"])
  /\ UNCHANGED <<plans, history, cuts, notificationVars>>

AssignsUser(set)        == "assigned" \in DOMAIN set /\ set.assigned # NoUser
Unassigns(set, was)     == "assigned" \in DOMAIN set /\ set.assigned = NoUser
                             /\ was.assigned # NoUser
ClosesAlert(set)        == "status" \in DOMAIN set /\ set.status = "closed"

\* Mutation of Announcement: the previous status is taken when the fields are set.
AnnouncementLate(set, was) ==
  IF ClosesAlert(set) /\ Written(was, was, set).status # "closed" THEN "ALERT_CLOSED" ELSE "ALERT_UPDATED"

Announcement(set, was) ==
  IF ClosesAlert(set) /\ was.status # "closed" THEN "ALERT_CLOSED" ELSE "ALERT_UPDATED"

\* The emissions of update_alert, in their order.
Emits(set, was) ==
  <<Announcement(set, was)>>
    \o (IF AssignsUser(set) THEN <<"ALERT_ESCALATED">> ELSE <<>>)
    \o (IF Unassigns(set, was) THEN <<"ALERT_DEESCALATED">> ELSE <<>>)

ReadAlert(t) ==
  /\ \E a \in DOMAIN alerts, user \in Users, set \in AlertUpdates :
       /\ Visible(a, user)
       /\ Arrives(t, [at |-> "update", alert |-> a, set |-> set, was |-> alerts[a]])
  /\ UNCHANGED <<tables, history, cuts, notificationVars>>

\* The first commit of update_alert; the row may be gone.
UpdateAlert(t) ==
  LET r == req[t] IN
  /\ r.at = "update"
  /\ IF alerts[r.alert] = Gone
     THEN Ends(t) /\ UNCHANGED <<alerts, announced, interrupted>>
     ELSE /\ alerts' = [alerts EXCEPT ![r.alert] = Written(@, r.was, r.set)]
          /\ announced' = IF alerts'[r.alert].status = "open" THEN announced \ {r.alert}
                          ELSE announced
          /\ interrupted' = IF AssignsUser(r.set) THEN interrupted \cup {r.alert}
                            ELSE interrupted
          /\ req' = [req EXCEPT ![t] =
               [at |-> IF AssignsUser(r.set) THEN "check" ELSE "emit", alert |-> r.alert,
                set |-> r.set, emits |-> Emits(r.set, r.was)]]
  /\ UNCHANGED <<plans, auto, hushed, moved, requests, cuts, notificationVars>>

\* Mutation of NeedsPlan: only an alert without an assignee gets a workplan.
NeedsPlanIfNew(a) == PlansOf(a) = {} /\ alerts[a].assigned = NoUser

NeedsPlan(a) == PlansOf(a) = {}

\* The closing that request r has not announced yet is never announced.
Hushes(r) ==
  IF "emits" \in DOMAIN r /\ r.emits # <<>> /\ Head(r.emits) = "ALERT_CLOSED"
  THEN {r.alert} ELSE {}

\* get_workplan_by_alert_id raises when it finds more than one.
CheckPlan(t) ==
  LET r == req[t] IN
  /\ r.at = "check"
  /\ IF Cardinality(PlansOf(r.alert)) > 1
     THEN Ends(t) /\ hushed' = hushed \cup Hushes(r)
     ELSE Goes(t, IF NeedsPlan(r.alert) THEN "insert" ELSE "emit") /\ UNCHANGED hushed
  /\ UNCHANGED <<tables, auto, announced, interrupted, moved, requests, cuts, notificationVars>>

InsertPlan(t) ==
  LET a == req[t].alert IN
  /\ req[t].at = "insert"
  /\ Len(plans) < MaxPlans
  /\ plans' = Append(plans, a)
  /\ auto' = [auto EXCEPT ![a] = @ + 1]
  /\ Goes(t, "emit")
  /\ UNCHANGED <<alerts, announced, interrupted, hushed, moved, requests, cuts,
                 notificationVars>>

BeginAnnouncement(t) ==
  LET r == req[t] IN
  /\ r.at = "emit" /\ emission[t] = Silent
  /\ Emission(t, Head(r.emits), r.alert, Recipients)
  /\ UNCHANGED caseVars

\* An emission is over: the next one begins, or the handler responds.
EndAnnouncement(t) ==
  LET r    == req[t]
      rest == Tail(r.emits)
  IN
  /\ Emitted(t)
  /\ announced' = announced \cup Hushes(r)
  /\ IF rest # <<>>
     THEN /\ req' = [req EXCEPT ![t].emits = rest]
          /\ Emission(t, Head(rest), r.alert, Recipients)
          /\ UNCHANGED interrupted
     ELSE /\ Ends(t)
          /\ EndEmit(t)
          /\ interrupted' = IF AssignsUser(r.set) THEN interrupted \ {r.alert}
                            ELSE interrupted
  /\ UNCHANGED <<tables, auto, hushed, moved, requests, cuts>>

\* delete_alert reads the alert, logs, and deletes what it has read.
ReadToDelete(t) ==
  /\ \E a \in DOMAIN alerts, user \in Users :
       Visible(a, user) /\ Arrives(t, [at |-> "delete", alert |-> a])
  /\ UNCHANGED <<tables, history, cuts, notificationVars>>

DeleteAlert(t) ==
  /\ req[t].at = "delete"
  /\ alerts' = [alerts EXCEPT ![req[t].alert] = Gone]
  /\ Ends(t)
  /\ UNCHANGED <<plans, history, requests, cuts, notificationVars>>

-----------------------------------------------------------------------------
(* Workplans *)

\* create_workplan looks at nothing: any alert, with or without a workplan.
CreateWorkplan(t) ==
  /\ Len(plans) < MaxPlans
  /\ Arrives(t, Idle)
  /\ \E a \in DOMAIN alerts : plans' = Append(plans, a)
  /\ UNCHANGED <<alerts, history, cuts, notificationVars>>

\* update_workplan_entry may give a workplan another context.
MoveWorkplan(t) ==
  /\ Arrives(t, Idle)
  /\ \E p \in DOMAIN plans, a \in {0} \cup DOMAIN alerts :
       /\ a # plans[p]
       /\ plans' = [plans EXCEPT ![p] = a]
       /\ moved' = moved \cup {plans[p]}
  /\ UNCHANGED <<alerts, auto, announced, interrupted, hushed, cuts, notificationVars>>

-----------------------------------------------------------------------------
\* The process of thread t dies, or the database refuses its next commit.
Cut(t) ==
  /\ req[t] # Idle
  /\ cuts < MaxCuts
  /\ cuts' = cuts + 1
  /\ Ends(t)
  /\ hushed' = hushed \cup Hushes(req[t])
  /\ CutEmission(t)
  /\ UNCHANGED <<tables, auto, announced, interrupted, moved, requests>>

Next ==
  \/ \E t \in Threads :
       \/ CreateAlert(t) \/ ReadAlert(t) \/ UpdateAlert(t) \/ CheckPlan(t) \/ InsertPlan(t)
       \/ BeginAnnouncement(t) \/ EndAnnouncement(t)
       \/ ReadToDelete(t) \/ DeleteAlert(t)
       \/ CreateWorkplan(t) \/ MoveWorkplan(t)
       \/ Cut(t)
       \/ EmitStep(t) /\ UNCHANGED caseVars
  \/ NewBucket /\ UNCHANGED caseVars

Spec == Init /\ [][Next]_vars

-----------------------------------------------------------------------------
\* An alert that is assigned has a workplan, also when an earlier assignment of
\* it was cut and repeated, unless its last assignment did not come to its end
\* or the workplan was moved elsewhere.
AssignedHasWorkplan ==
  \A a \in DOMAIN alerts :
    \/ alerts[a] = Gone \/ alerts[a].assigned = NoUser
    \/ PlansOf(a) # {} \/ a \in interrupted \cup moved

\* However many assignments of one alert race, each thread makes at most one
\* workplan for it, once and for all.
OneAutoPlanPerThread ==
  \A a \in DOMAIN alerts : a \notin moved => auto[a] <= Cardinality(Threads)

\* However assignments race, are cut and repeated, an assigned alert has a
\* workplan, and no more of them than threads.
AssignmentsArePlanned == AssignedHasWorkplan /\ OneAutoPlanPerThread

\* The closing of a closed alert was announced, once its handler is done: also
\* when two close it at a time, or it is closed again after it was opened.
ClosedIsAnnounced ==
  \A a \in DOMAIN alerts :
    \/ alerts[a] = Gone \/ alerts[a].status = "open"
    \/ a \in announced \cup hushed
    \/ \E t \in Threads : req[t] # Idle /\ a \in Hushes(req[t])

\* What the update of an alert brings with it comes with it.
DecisionsAreFollowed == AssignmentsArePlanned /\ ClosedIsAnnounced
=============================================================================
