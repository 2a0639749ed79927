--------------------------- MODULE DetectionSteps ---------------------------
(***************************************************************************)
(* What the evaluation of one event writes, and in which order.            *)
(*                                                                         *)
(* _process_event_id (backend/app/main.py) runs one event through the      *)
(* active indicators, the malware check, the search index and every        *)
(* detection rule.  It is a straight line of database commits, each        *)
(* durable by itself: there is no transaction around the evaluation.  This *)
(* module names those commits ("steps") and orders them; EventPipeline     *)
(* executes them one by one.                                               *)
(*                                                                         *)
(* Which indicators and rules an event matches is data: the CONSTANTS say  *)
(* it, and the conditions language itself is not modelled.                 *)
(***************************************************************************)
EXTENDS Naturals

CONSTANTS
  Events,         \* rows of the table events, one per accepted observation
  Indicators,     \* active url and domain indicators
  Rules,          \* detection rules, numbered by age: the newest is largest
  DisabledRules,  \* the rules whose column enabled is false
  IocHits,        \* IocHits[e]: indicators whose value is e's url or domain
  Raised,         \* events whose severity an indicator match raises
  MalwareEvents,  \* edr.malware_detection, or edr.malware_scan with a finding
  RuleHits,       \* RuleHits[e]: rules whose conditions e satisfies
  IncidentRules,  \* rules for which _should_create_incident answers True
  Rejected,       \* pairs <<e, s>>: step s of e always raises (see Poisoned)
  NoDetector      \* stands in "by" for steps that no indicator or rule owns

ASSUME DetectionConstants ==
  /\ Rules \subseteq Nat
  /\ DisabledRules \subseteq Rules
  /\ IncidentRules \subseteq Rules
  /\ IocHits \in [Events -> SUBSET Indicators]
  /\ RuleHits \in [Events -> SUBSET Rules]
  /\ Raised \subseteq Events
  /\ MalwareEvents \subseteq Events

-----------------------------------------------------------------------------
(***************************************************************************)
(* The steps.  "severity" is the commit of the raised severity, "ioc" and  *)
(* "malware" an alert each, "index" the call that sends the event document *)
(* to the search index (its own failure is caught; building the document   *)
(* is not), "alert" a rule's alert and the next four what follows it when  *)
(* the rule opens an incident.                                             *)
(***************************************************************************)
Phase == [severity |-> 1, ioc |-> 2, malware |-> 3, index |-> 4,
          alert |-> 5, incident |-> 5, item_alert |-> 5, item_event |-> 5,
          notify |-> 5]

\* Mutation of Stage: the item of the alert is written before its incident.
StageItemFirst == [severity |-> 0, ioc |-> 0, malware |-> 0, index |-> 0,
                   alert |-> 1, incident |-> 3, item_alert |-> 2, item_event |-> 4,
                   notify |-> 5]

Stage == [severity |-> 0, ioc |-> 0, malware |-> 0, index |-> 0,
          alert |-> 1, incident |-> 2, item_alert |-> 3, item_event |-> 4,
          notify |-> 5]

StepKinds == DOMAIN Phase

Step == [kind : StepKinds, by : Indicators \cup Rules \cup {NoDetector}]

\* The alerts of an indicator and of the malware check
AlertForIoc(i)  == [kind |-> "ioc", by |-> i]
AlertForMalware == [kind |-> "malware", by |-> NoDetector]

\* _apply_ioc_matches: one commit for the event, then one alert per match.
IocSteps(e) ==
  {AlertForIoc(i) : i \in IocHits[e]}
    \cup (IF e \in Raised /\ IocHits[e] # {}
          THEN {[kind |-> "severity", by |-> NoDetector]} ELSE {})

\* _apply_malware_alerts
MalwareSteps(e) ==
  IF e \in MalwareEvents THEN {AlertForMalware} ELSE {}

\* The loop over list_detection_rules.  The column enabled is not read.
RuleSteps(e) ==
  {[kind |-> "alert", by |-> r] : r \in RuleHits[e]}
    \cup {[kind |-> k, by |-> r] :
            k \in {"incident", "item_alert", "item_event", "notify"},
            r \in RuleHits[e] \cap IncidentRules}

Steps(e) ==
  IocSteps(e) \cup MalwareSteps(e)
    \cup {[kind |-> "index", by |-> NoDetector]} \cup RuleSteps(e)

\* Program order.  Indicators are read without ORDER BY, so their alerts come
\* in any order; rules come newest first, each finished before the next.
Precedes(s, t) ==
  \/ Phase[s.kind] < Phase[t.kind]
  \/ /\ Phase[s.kind] = 5
     /\ Phase[t.kind] = 5
     /\ \/ s.by > t.by
        \/ s.by = t.by /\ Stage[s.kind] < Stage[t.kind]

\* The steps an evaluation of e that has made "done" may make next.
NextSteps(e, done) ==
  {s \in Steps(e) \ done : \A t \in Steps(e) \ done : ~ Precedes(t, s)}

\* Events whose evaluation never succeeds: a details value that cannot be a
\* column, a url urlparse refuses, an incident title over 255 characters.
Poisoned == {e \in Events : \E s \in Steps(e) : <<e, s>> \in Rejected}

\* What the row or message of one step names another step's row by.
References ==
  {<<"incident", "alert">>, <<"item_alert", "incident">>, <<"item_alert", "alert">>,
   <<"item_event", "incident">>, <<"notify", "incident">>}

DependsOn(s, t) == s.by = t.by /\ <<s.kind, t.kind>> \in References
=============================================================================
