------------------------------- MODULE Services -------------------------------
(***************************************************************************)
(* The parts of the system that share nothing that is modelled.  Of the    *)
(* backend: the actions of endpoints, the live threat map, PasswordGuard,  *)
(* the first detection rules, the documents sent to OpenSearch.  Of a      *)
(* workstation: the launchers, the files of its agents, the connection     *)
(* monitor.  Of the email service: the links to mailboxes.  What holds of  *)
(* each alone holds of all together, and a behaviour here is one of one of *)
(* them.                                                                   *)
(***************************************************************************)
EXTENDS EndpointActions, ThreatMap, PasswordGuard, RuleSeeding,
        Launcher, WorkerFiles, NetWatch, MailLinks, SearchIndex

VARIABLE service  \* the part that is at work

Parts == {"actions", "map", "guard", "rules", "desktop", "worker", "network", "links",
          "search"}

others(part) ==
  /\ part # "actions" => UNCHANGED actionVars
  /\ part # "map"     => UNCHANGED mapVars
  /\ part # "guard"   => UNCHANGED guardVars
  /\ part # "rules"   => UNCHANGED seedVars
  /\ part # "desktop" => UNCHANGED launchVars
  /\ part # "worker"  => UNCHANGED workerVars
  /\ part # "network" => UNCHANGED netVars
  /\ part # "links"   => UNCHANGED linkVars
  /\ part # "search"  => UNCHANGED searchVars

vars == <<service, actionVars, mapVars, guardVars, seedVars,
          launchVars, workerVars, netVars, linkVars, searchVars>>

Init ==
  /\ service \in Parts
  /\ ActionInit /\ MapInit /\ GuardInit /\ SeedInit
  /\ LaunchInit /\ WorkerInit /\ LinkInit
  /\ WatchInit /\ (service # "network" => listed = "none" /\ ~points)
  /\ SearchInit /\ (service # "search" => alias = "nothing")

Next ==
  /\ \/ service = "actions" /\ ActionNext
     \/ service = "map"     /\ MapNext
     \/ service = "guard"   /\ GuardNext
     \/ service = "rules"   /\ SeedNext
     \/ service = "desktop" /\ LaunchNext
     \/ service = "worker"  /\ WorkerNext
     \/ service = "network" /\ WatchNext
     \/ service = "links"   /\ LinkNext
     \/ service = "search"  /\ SearchNext
  /\ others(service)
  /\ UNCHANGED service

Spec == Init /\ [][Next]_vars /\ ActionFairness

TypeOK ==
  /\ service \in Parts
  /\ ActionTypeOK /\ MapTypeOK /\ GuardTypeOK /\ SeedTypeOK
  /\ LaunchTypeOK /\ WorkerTypeOK /\ WatchTypeOK /\ LinkTypeOK /\ SearchTypeOK
=============================================================================
