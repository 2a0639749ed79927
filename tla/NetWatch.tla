------------------------------- MODULE NetWatch -------------------------------
(***************************************************************************)
(* The connection monitor of the Python agent and its cache of indicators. *)
(*                                                                         *)
(*   EdrNetworkMonitor.poll, IocCache, fetch_agent_iocs, main              *)
(*                                                    agent/agent.py       *)
(*                                                                         *)
(* Connections of one process to one address are followed.  The address is *)
(* an indicator of the backend, or a domain is one that resolves to it.    *)
(***************************************************************************)
EXTENDS Naturals, FiniteSets

CONSTANTS
  Sockets,      \* connections, told apart by their ports
  Ttl,          \* ttl_seconds, in units of the clock
  DnsTtl,       \* dns_ttl_seconds
  Suppression,  \* how long a hit is not repeated
  PruneAfter,   \* prune_after_seconds
  MaxInstant,   \* bounds: how far the clock gets,
  MaxTurns      \*   changes of indicator or domain, restarts, calls that fail

ASSUME WatchConstants ==
  /\ IsFiniteSet(Sockets)
  /\ {Ttl, DnsTtl, Suppression, PruneAfter} \subseteq Nat \ {0}
  /\ Suppression <= Ttl + DnsTtl  \* 300, 300 and 600 in the code
  /\ MaxInstant \in Nat /\ MaxTurns \in Nat

VARIABLES
  listed,     \* the indicator of the backend: none, ip or domain
  points,     \* the domain resolves to the address
  monitor,    \* seen: when each connection was first seen, or Never;
              \*   todo: those of this poll that are not examined yet
  iocCache,   \* what the agent holds: the indicator of the address, and until when;
              \*   the answer of the DNS, and until when
  hitAt,      \* hit_cache: when a hit of each indicator was last emitted, or Never
  instant, turns,
  upset,      \* history: the last change, restart or failure of a call,
  reported    \*   and the last hit the backend took

world   == <<listed, points>>
netVars == <<world, monitor, iocCache, hitAt, instant, turns, upset, reported>>

\* Time zero of the model is one at which nothing has expired.
Start == 1 + Ttl + DnsTtl + Suppression + PruneAfter
Never == 0

Indicators == {"ip", "domain"}

NoCache == [flags |-> "none", expires |-> Never, resolved |-> FALSE, dnsUntil |-> Never]

NoHits  == [i \in Indicators |-> Never]

WatchTypeOK ==
  /\ listed \in Indicators \cup {"none"} /\ points \in BOOLEAN
  /\ monitor \in [seen : [Sockets -> Nat], todo : SUBSET Sockets]
  /\ iocCache \in [flags : Indicators \cup {"none"}, expires : Nat, resolved : BOOLEAN, dnsUntil : Nat]
  /\ hitAt \in [Indicators -> Nat]
  /\ {instant, upset, reported} \subseteq Nat
  /\ turns \in 0 .. MaxTurns

WatchInit ==
  /\ listed \in Indicators \cup {"none"} /\ points \in BOOLEAN
  /\ monitor = [seen |-> [s \in Sockets |-> Never], todo |-> {}]
  /\ iocCache = NoCache /\ hitAt = NoHits
  /\ instant = Start /\ turns = 0
  /\ upset = Never /\ reported = Never

\* The indicator of the address, when its domain resolves to it or not
IndicatorIf(resolves) == IF listed = "domain" /\ ~resolves THEN "none" ELSE listed

-----------------------------------------------------------------------------
Turns == turns < MaxTurns /\ turns' = turns + 1 /\ upset' = instant

ListingChanges ==
  /\ Turns
  /\ listed' \in (Indicators \cup {"none"}) \ {listed}
  /\ UNCHANGED <<points, monitor, iocCache, hitAt, instant, reported>>

DomainMoves ==
  /\ Turns
  /\ points' = ~points
  /\ UNCHANGED <<listed, monitor, iocCache, hitAt, instant, reported>>

\* What the agent remembers is in its memory.
WatchRestarts ==
  /\ Turns
  /\ monitor' = [seen |-> [s \in Sockets |-> Never], todo |-> {}]
  /\ iocCache' = NoCache /\ hitAt' = NoHits
  /\ UNCHANGED <<world, instant, reported>>

NetTick ==
  /\ instant < Start + MaxInstant
  /\ instant' = instant + 1
  /\ UNCHANGED <<world, monitor, iocCache, hitAt, turns, upset, reported>>

\* poll: any connections are open; those not seen yet are taken, and those seen
\* long ago are forgotten.
Poll ==
  LET kept(s) == monitor.seen[s] # Never /\ instant - monitor.seen[s] < PruneAfter IN
  \E new \in SUBSET {s \in Sockets : monitor.seen[s] = Never} :
  /\ monitor.todo = {}
  /\ monitor' = [todo |-> new,
                 seen |-> [s \in Sockets |-> IF s \in new THEN instant
                                             ELSE IF kept(s) THEN monitor.seen[s] ELSE Never]]
  /\ UNCHANGED <<world, iocCache, hitAt, instant, turns, upset, reported>>

\* _resolve_domain; a lookup that fails is an empty answer, and as good.
Resolved(ok) ==
  IF iocCache.dnsUntil > instant
  THEN [resolved |-> iocCache.resolved, dnsUntil |-> iocCache.dnsUntil]
  ELSE [resolved |-> points /\ ok, dnsUntil |-> instant + DnsTtl]

\* refresh; of a call that fails nothing is left.
Refreshed(fetched, resolves) ==
  LET dns == IF fetched /\ listed = "domain" THEN Resolved(resolves)
             ELSE [resolved |-> iocCache.resolved, dnsUntil |-> iocCache.dnsUntil]
  IN [flags |-> IF fetched THEN IndicatorIf(dns.resolved) ELSE "none", expires |-> instant + Ttl,
      resolved |-> dns.resolved, dnsUntil |-> dns.dnsUntil]

\* match_ip
Matched(fetched, resolves) ==
  IF instant >= iocCache.expires THEN Refreshed(fetched, resolves) ELSE iocCache

\* Mutation of AfterHit: a suppressed hit counts as one that was emitted.
AfterHitSliding(i) == [hitAt EXCEPT ![i] = instant]

\* should_emit_hit
Emits(i) == instant - hitAt[i] >= Suppression

AfterHit(i) == IF Emits(i) THEN [hitAt EXCEPT ![i] = instant] ELSE hitAt

\* main takes the events of a poll one by one: the connection goes to the
\* backend, and a hit with it.  send_event tries once.
Examine(s) ==
  \E fetched, resolves, taken \in BOOLEAN :
    LET cache == Matched(fetched, resolves)
        hit == cache.flags # "none"
        emitted == hit /\ Emits(cache.flags)
    IN
    /\ s \in monitor.todo
    /\ monitor' = [monitor EXCEPT !.todo = @ \ {s}]
    /\ iocCache' = cache
    /\ hitAt' = IF hit THEN AfterHit(cache.flags) ELSE hitAt
    /\ reported' = IF emitted /\ taken THEN instant ELSE reported
    /\ IF fetched /\ resolves /\ taken THEN UNCHANGED <<turns, upset>> ELSE Turns
    /\ UNCHANGED <<world, instant>>

WatchNext ==
  \/ ListingChanges \/ DomainMoves \/ WatchRestarts \/ NetTick \/ Poll
  \/ \E s \in Sockets : Examine(s)

WatchSpec == WatchInit /\ [][WatchNext]_netVars

-----------------------------------------------------------------------------
\* A connection to an address that has been an indicator for as long as the
\* caches live is reported when it is examined, or was reported less than the
\* suppression ago, whatever the connections before; unless a call failed
\* within that time.
ListedIsReported ==
  [][ \A s \in monitor.todo \ monitor'.todo :
        /\ IndicatorIf(points) # "none"
        /\ instant - upset' >= Ttl + DnsTtl
        => instant - reported' < Suppression ]_netVars
=============================================================================
