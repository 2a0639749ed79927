------------------------------ MODULE ThreatMap ------------------------------
(***************************************************************************)
(* The live threat map of one backend process: events are posted, given a  *)
(* stable id, numbered and handed to every WebSocket connection.           *)
(*                                                                         *)
(*   ThreatMapRuntime       backend/app/threatmap/runtime.py               *)
(*   ThreatEventBus         backend/app/threatmap/bus.py                   *)
(*   ThreatAggregator       backend/app/threatmap/aggregator.py            *)
(*   ingest, ws_threatmap   backend/app/routers/threatmap_router.py        *)
(*                                                                         *)
(* The tasks of one event loop change only where they await something that *)
(* is not there yet: posting an event is one step (its locks are never     *)
(* contended), and a connection gives way wherever it sends.  An event is  *)
(* its sequence number, and its id is left out: a merged event is sent and *)
(* counted like any other.  Left out too are the numbers that heartbeats   *)
(* and aggregates take, for no one looks at what they skip, and what       *)
(* connections filter: filters thin out the aggregates and no event.       *)
(* Events are posted as they happen, and none is an hour old.              *)
(***************************************************************************)
EXTENDS Naturals, Sequences, SequencesExt

CONSTANTS
  Conns,      \* connections, each with one life
  Keys,       \* (source, target, type, tags) that duplicates share
  MaxEvents,  \* bound: events posted
  QueueMax,   \* room in the queue of a connection (2000)
  AggAt,      \* more left in the queue than this: aggregates only (1500)
  HybridAt    \* more than this: major events only (600)

ASSUME ThreatMapConstants ==
  /\ MaxEvents \in Nat
  /\ QueueMax \in Nat /\ AggAt \in Nat /\ HybridAt \in Nat
  /\ HybridAt < AggAt /\ AggAt + 1 < QueueMax

VARIABLES
  published,  \* published[n]: whether the event with sequence number n is major
  recent,     \* keys of the last thirty seconds: an event of one is merged
  oldest,     \* first number in the replay ring, which ends with the last event
  counted,    \* the events the aggregator holds
  conn,       \* conn[c]: the connection, see Connections
  first,      \* history: first[c]: number of the first event c has a claim to
  got,        \* history: got[c]: the events sent to c, in order
  skipped,    \* history: skipped[c]: taken from the queue and not sent
  refused     \* history: refused[c]: the queue of c was full

bus  == <<published, recent, oldest, counted>>
past == <<first, got, skipped, refused>>
mapVars == <<bus, conn, past>>

Events == 1 .. MaxEvents
Newest == Len(published)
Modes  == {"raw", "hybrid", "agg_only"}

\* What a client reports of its fps and its queue: the rule it meets
Telemetry == {"fine", "degraded", "stuck"}

Connections == [phase : {"off", "replay", "live", "gone"},
                replay : Seq(Events),     \* the copy of the ring, what is left to send
                queue : Seq(Events),
                sending : Events \cup {0},
                mode : Modes, telemetry : Telemetry]

NoConnection == [phase |-> "off", replay |-> <<>>, queue |-> <<>>, sending |-> 0,
                 mode |-> "raw", telemetry |-> "fine"]

MapTypeOK ==
  /\ published \in Seq(BOOLEAN) /\ Newest <= MaxEvents
  /\ recent \subseteq Keys
  /\ oldest \in 1 .. Newest + 1
  /\ counted \subseteq 1 .. Newest
  /\ conn \in [Conns -> Connections]
  /\ \A c \in Conns : Len(conn[c].queue) <= QueueMax

MapInit ==
  /\ published = <<>> /\ recent = {} /\ oldest = 1 /\ counted = {}
  /\ conn = [c \in Conns |-> NoConnection]
  /\ first = [c \in Conns |-> 0] /\ got = [c \in Conns |-> <<>>]
  /\ skipped = [c \in Conns |-> {}] /\ refused = [c \in Conns |-> {}]

-----------------------------------------------------------------------------
(* Posting an event: dedupe_merge_or_publish *)

\* Mutation of Subscribed: the queue is made when the replay has been sent.
SubscribedLate(c) == conn[c].phase = "live"

Subscribed(c) == conn[c].phase \in {"replay", "live"}

HasRoom(c) == Len(conn[c].queue) < QueueMax

\* Mutation of Counted: what is merged into an earlier event is not counted.
CountedOnce(n, merged) == IF merged THEN counted ELSE counted \cup {n}

Counted(n, merged) == counted \cup {n}

\* kept: the keys still recent.  from: the first event of the ring that is not
\* older than the replay window.  Both are looked through only here.
Ingest(key, major, kept, from) ==
  LET n == Newest + 1 IN
  /\ n <= MaxEvents
  /\ published' = Append(published, major)
  /\ recent' = kept \cup {key}
  /\ oldest' = from
  /\ counted' = Counted(n, key \in kept)
  /\ conn' = [c \in Conns |-> IF Subscribed(c) /\ HasRoom(c)
                              THEN [conn[c] EXCEPT !.queue = Append(@, n)] ELSE conn[c]]
  /\ refused' = [c \in Conns |-> IF Subscribed(c) /\ ~ HasRoom(c)
                                 THEN refused[c] \cup {n} ELSE refused[c]]
  /\ UNCHANGED <<first, got, skipped>>

IngestAny ==
  \E key \in Keys, major \in BOOLEAN, kept \in SUBSET recent,
     from \in oldest .. Newest + 1 : Ingest(key, major, kept, from)

-----------------------------------------------------------------------------
(* A connection: ws_threatmap *)

\* Subscribed, and the ring copied, before anything is sent.
Connect(c) ==
  /\ conn[c].phase = "off"
  /\ conn' = [conn EXCEPT ![c].phase = "replay",
                          ![c].replay = [i \in 1 .. (Newest + 1 - oldest) |-> oldest + i - 1]]
  /\ first' = [first EXCEPT ![c] = oldest]
  /\ UNCHANGED <<bus, got, skipped, refused>>

SendReplay(c) ==
  /\ conn[c].phase = "replay" /\ conn[c].replay # <<>>
  /\ got' = [got EXCEPT ![c] = Append(@, Head(conn[c].replay))]
  /\ conn' = [conn EXCEPT ![c].replay = Tail(@)]
  /\ UNCHANGED <<bus, first, skipped, refused>>

\* The replay is over: an aggregate of what is counted is sent, the first of
\* many, and the three loops of the connection begin.
SendSnapshot(c) ==
  /\ conn[c].phase = "replay" /\ conn[c].replay = <<>>
  /\ conn' = [conn EXCEPT ![c].phase = "live"]
  /\ UNCHANGED <<bus, past>>

\* recv_loop
Receive(c) ==
  /\ conn[c].phase = "live"
  /\ \E t \in Telemetry : conn' = [conn EXCEPT ![c].telemetry = t]
  /\ UNCHANGED <<bus, past>>

\* Mutation of ModeFor: the milder rule is looked at first.
ModeForMild(left, telemetry) ==
  IF left > HybridAt \/ telemetry # "fine" THEN "hybrid" ELSE "raw"

ModeFor(left, telemetry) ==
  IF left > AggAt \/ telemetry = "stuck" THEN "agg_only"
  ELSE IF left > HybridAt \/ telemetry = "degraded" THEN "hybrid" ELSE "raw"

Wanted(mode, n) == mode = "raw" \/ (mode = "hybrid" /\ published[n])

\* pub_loop: an event is taken, and the mode decided by what is left
TakeEvent(c) ==
  LET n    == Head(conn[c].queue)
      mode == ModeFor(Len(conn[c].queue) - 1, conn[c].telemetry)
  IN
  /\ conn[c].phase = "live" /\ conn[c].sending = 0 /\ conn[c].queue # <<>>
  /\ conn' = [conn EXCEPT ![c].queue = Tail(@), ![c].mode = mode,
                          ![c].sending = IF Wanted(mode, n) THEN n ELSE 0]
  /\ skipped' = IF Wanted(mode, n) THEN skipped ELSE [skipped EXCEPT ![c] = @ \cup {n}]
  /\ UNCHANGED <<bus, first, got, refused>>

SendEvent(c) ==
  /\ conn[c].sending # 0
  /\ got' = [got EXCEPT ![c] = Append(@, conn[c].sending)]
  /\ conn' = [conn EXCEPT ![c].sending = 0]
  /\ UNCHANGED <<bus, first, skipped, refused>>

\* The client goes away, at any point; the connection unsubscribes.
Disconnect(c) ==
  /\ Subscribed(c)
  /\ conn' = [conn EXCEPT ![c] = [NoConnection EXCEPT !.phase = "gone"]]
  /\ first' = [first EXCEPT ![c] = 0] /\ got' = [got EXCEPT ![c] = <<>>]
  /\ skipped' = [skipped EXCEPT ![c] = {}] /\ refused' = [refused EXCEPT ![c] = {}]
  /\ UNCHANGED bus

MapNext ==
  \/ IngestAny
  \/ \E c \in Conns : \/ Connect(c) \/ SendReplay(c) \/ SendSnapshot(c)
                      \/ TakeEvent(c) \/ SendEvent(c) \/ Receive(c) \/ Disconnect(c)

MapSpec == MapInit /\ [][MapNext]_mapVars

-----------------------------------------------------------------------------
\* What a connection has sent, is sending, and has in store
Stream(c) ==
  got[c] \o (IF conn[c].sending = 0 THEN <<>> ELSE <<conn[c].sending>>)
         \o conn[c].replay \o conn[c].queue

\* From the ring it was opened on, a connection gets every event once and in
\* order; what is missing was refused by a full queue or skipped under load, and
\* then it is counted for the aggregates, duplicates that were merged included.
\* In particular, nothing falls between the replay and the queue.
StreamIsWhole ==
  \A c \in Conns : Subscribed(c) =>
    /\ \A i \in 1 .. Len(Stream(c)) - 1 : Stream(c)[i] < Stream(c)[i + 1]
    /\ ToSet(Stream(c)) \cup skipped[c] \cup refused[c] = first[c] .. Newest
    /\ skipped[c] \cup refused[c] \subseteq counted

\* "drop for that subscriber; server will switch them to agg-only": what is
\* taken first after the queue refused an event is taken in that mode.
DropsSwitchMode ==
  [][ \A c \in Conns :
        Len(conn[c].queue) = QueueMax /\ Len(conn'[c].queue) = QueueMax - 1
        => conn'[c].mode = "agg_only" ]_mapVars
=============================================================================
