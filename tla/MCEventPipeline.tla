--------------------------- MODULE MCEventPipeline ---------------------------
(***************************************************************************)
(* Small instances of EventPipeline.  The observations are chosen so that  *)
(* every kind of step occurs:                                              *)
(*   visit   a url on the indicator list, of higher severity than the      *)
(*           event: severity, ioc, index                                   *)
(*   attack  matches rule 2, which opens an incident, and the newer but    *)
(*           disabled rule 3                                               *)
(*   broken  a malware finding that matches rule 2 too, under a host name  *)
(*           so long that the title of the incident is refused             *)
(***************************************************************************)
EXTENDS EventPipeline, TLC

CONSTANTS visit, attack, broken, listed, p1, p2

\* What the observations match, restricted to the events of a configuration.
PerEvent(v, a, b) ==
  [e \in Events |-> CASE e = visit -> v [] e = attack -> a [] e = broken -> b]

MCRules == {2, 3}
MCDisabledRules == {3}
MCIncidentRules == {2}
MCIocHits == PerEvent({listed}, {}, {})
MCRuleHits == PerEvent({}, {2, 3}, {2})
MCRaised == {visit} \cap Events
MCMalwareEvents == {broken} \cap Events
MCRejected == {<<broken, [kind |-> "incident", by |-> 2]>>}

\* The processes are interchangeable.
ProcSymmetry == Permutations(Procs)
=============================================================================
