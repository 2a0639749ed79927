----------------------------- MODULE SearchIndex ------------------------------
(***************************************************************************)
(* The documents the backend puts into OpenSearch: the index with the      *)
(* mappings of events and its alias, the indices that are made for a day,  *)
(* and the documents that go into them, alone or in bulk.                  *)
(*                                                                         *)
(*   startup_event                                backend/app/main.py      *)
(*   _retry_operation, _ensure_index, _ensure_alias, index_event,          *)
(*   index_raw_event, bulk_index_network_events   backend/app/search.py    *)
(*                                                                         *)
(* Every call is tried again when it fails.  OpenSearch takes each at      *)
(* once; it makes an index when a document is sent to a name that it does  *)
(* not know, and refuses an index or an alias whose name is taken.  Of a   *)
(* bulk it may refuse single documents in an answer like any other.        *)
(* Alerts are sent as events are, dead letters as raw events.              *)
(***************************************************************************)
EXTENDS Naturals, FiniteSets

CONSTANTS
  Backends,     \* processes
  EventDocs,    \* bounds: documents of events, sent to the alias,
  RawDocs,      \*   raw events, each sent alone to the index of its day,
  Bulks,        \*   and network events, sent in bulk to those of their days
  Days,         \* the indices of a day and a kind
  IndexOf,      \* IndexOf[d]: the index a document goes to
  Tries,        \* opensearch_max_retries
  MaxOutages,   \* bounds: tries that fail or have no answer,
  MaxBoots      \*   and starts of a process

NetDocs   == UNION Bulks
Docs      == EventDocs \cup RawDocs \cup NetDocs
AliasName == "events"

ASSUME SearchConstants ==
  /\ EventDocs \cap (RawDocs \cup NetDocs) = {} /\ RawDocs \cap NetDocs = {}
  /\ {} \notin Bulks
  /\ IndexOf \in [Docs -> Days \cup {AliasName}]
  /\ Days \cap {AliasName, "typed", "bare"} = {}
  /\ \A d \in Docs : d \in EventDocs <=> IndexOf[d] = AliasName
  /\ Tries \in Nat \ {0} /\ MaxOutages \in Nat /\ MaxBoots \in Nat

VARIABLES
  made,        \* the indices there are: typed (events-v2), bare, which has the
               \*   name of the alias, and those of the days
  alias,       \* what the alias of events stands for: nothing, old or typed
  indexed,     \* how often each document is stored,
  stray,       \*   and those that are where the mappings are not
  backend,     \* backend[p]: its step, how often it tried, the documents of its
               \*   call and their index, those of the bulk for later days, and
               \*   the indices it remembers to be there
  waiting,     \* documents no process has taken yet
  outages, boots,
  unprepared,  \* history: a process went on while the alias was not there
  unanswered,  \* history: how often storing each document had no answer
  badItems,    \* history: documents refused in a bulk that was answered
  excused,     \* history: documents of which a call, or one before it of their
               \*   bulk, failed as often as it is tried, or whose process died
  slipped      \* history: who was to make which index when another made it

cluster    == <<made, alias, indexed, stray>>
searchPast == <<unprepared, unanswered, badItems, excused, slipped>>
searchVars == <<cluster, backend, waiting, outages, boots, searchPast>>

Preparing == {"look", "make", "find", "link"}
Storing   == {"lookDay", "makeDay", "put"}
Indices   == {"typed", "bare"} \cup Days
Stopped   == [at |-> "down", tried |-> 0, index |-> AliasName,
              now |-> {}, later |-> {}, knows |-> {}]

SearchTypeOK ==
  /\ made \subseteq Indices /\ alias \in {"nothing", "old", "typed"}
  /\ indexed \in [Docs -> Nat] /\ stray \subseteq EventDocs
  /\ backend \in [Backends -> [at : {"down", "idle"} \cup Preparing \cup Storing,
                               tried : 0 .. Tries, index : Days \cup {AliasName},
                               now : SUBSET Docs, later : SUBSET NetDocs,
                               knows : SUBSET Days]]
  /\ waiting \subseteq Docs
  /\ outages \in 0 .. MaxOutages /\ boots \in 0 .. MaxBoots
  /\ unprepared \in BOOLEAN /\ unanswered \in [Docs -> Nat]
  /\ badItems \subseteq NetDocs /\ excused \subseteq Docs
  /\ slipped \subseteq Backends \X Days

\* At first the cluster is empty, or of an older release.
SearchInit ==
  /\ made = {} /\ alias \in {"nothing", "old"}
  /\ indexed = [d \in Docs |-> 0] /\ stray = {}
  /\ backend = [p \in Backends |-> Stopped]
  /\ waiting = Docs
  /\ outages = 0 /\ boots = 0
  /\ unprepared = FALSE /\ unanswered = indexed
  /\ badItems = {} /\ excused = {} /\ slipped = {}

-----------------------------------------------------------------------------
(* What OpenSearch does with the call of a process *)

\* It refuses it;
Taken(b) ==
  \/ b.at = "make" /\ "typed" \in made
  \/ b.at = "makeDay" /\ b.index \in made
  \/ b.at = "link" /\ "bare" \in made

\* it makes an index or an alias, or tells what there is;
Prepares(p) ==
  LET b == backend[p]
      rivals == {q \in Backends : backend[q].at = "makeDay" /\ backend[q].index = b.index}
  IN
  /\ made' = made \cup (CASE b.at = "make"    -> {"typed"}
                          [] b.at = "makeDay" -> {b.index}
                          [] OTHER            -> {})
  /\ alias' = IF b.at = "link" THEN "typed" ELSE alias
  /\ slipped' = IF b.at = "makeDay" THEN slipped \cup (rivals \X {b.index}) ELSE slipped
  /\ UNCHANGED <<indexed, stray>>

\* it stores some of the documents.
Stores(p, stored) ==
  LET events == stored \cap EventDocs IN
  /\ indexed' = [d \in Docs |-> IF d \in stored THEN indexed[d] + 1 ELSE indexed[d]]
  /\ made' = IF events # {} /\ alias = "nothing" THEN made \cup {"bare"} ELSE made
  /\ stray' = IF alias # "typed" THEN stray \cup events ELSE stray
  /\ UNCHANGED <<alias, slipped>>

-----------------------------------------------------------------------------
(* What a process does next *)

AfterLook(b) == IF b.index \in made THEN "put" ELSE "makeDay"

\* ensure_indices, and _ensure_index before the documents of a day
Onward(b) ==
  CASE b.at = "look"    -> IF "typed" \in made THEN "find" ELSE "make"
    [] b.at = "make"    -> "find"
    [] b.at = "find"    -> IF alias = "typed" THEN "idle" ELSE "link"
    [] b.at = "lookDay" -> AfterLook(b)
    [] b.at = "makeDay" -> "put"
    [] OTHER            -> "idle"

Moves(p, at) ==
  backend' = [backend EXCEPT ![p] =
    [backend[p] EXCEPT !.at = at, !.tried = 0,
       !.knows = IF at = "put" THEN @ \cup {backend[p].index} ELSE @]]

Rests(p) ==
  backend' = [backend EXCEPT ![p] =
    [at |-> "idle", tried |-> 0, index |-> AliasName,
     now |-> {}, later |-> {}, knows |-> backend[p].knows]]

\* Documents go index by index.
Sends(p, docs) ==
  \E i \in {IndexOf[d] : d \in docs} :
    backend' = [backend EXCEPT ![p] =
      [at |-> IF i \in Days \ backend[p].knows THEN "lookDay" ELSE "put",
       tried |-> 0, index |-> i,
       now |-> {d \in docs : IndexOf[d] = i}, later |-> {d \in docs : IndexOf[d] # i},
       knows |-> backend[p].knows]]

-----------------------------------------------------------------------------
StartBackend(p) ==
  /\ backend[p] = Stopped
  /\ boots < MaxBoots /\ boots' = boots + 1
  /\ Moves(p, "look")
  /\ UNCHANGED <<cluster, waiting, outages, searchPast>>

\* What one call brings: index_event, index_raw_event and their like a document,
\* bulk_index_network_events several
Batches == Bulks \cup {{d} : d \in EventDocs \cup RawDocs}

TakeDocuments(p, docs) ==
  /\ backend[p].at = "idle" /\ docs \subseteq waiting
  /\ waiting' = waiting \ docs
  /\ Sends(p, docs)
  /\ UNCHANGED <<cluster, outages, boots, searchPast>>

CallAnswered(p) ==
  LET b == backend[p] IN
  /\ b.at \in Preparing \cup {"lookDay", "makeDay"}
  /\ ~Taken(b)
  /\ Prepares(p)
  /\ IF Onward(b) = "idle" THEN Rests(p) ELSE Moves(p, Onward(b))
  /\ UNCHANGED <<waiting, outages, boots, unprepared, unanswered, badItems, excused>>

\* What a bulk refuses is logged, and no more.
PutAnswered(p) ==
  LET b == backend[p] IN
  /\ b.at = "put"
  /\ \E items \in SUBSET (b.now \cap NetDocs) :
       /\ Stores(p, b.now \ items)
       /\ badItems' = badItems \cup items
  /\ IF b.later = {} THEN Rests(p) ELSE Sends(p, b.later)
  /\ UNCHANGED <<waiting, outages, boots, unprepared, unanswered, excused>>

\* Mutation of LastTry: the count is one short.
LastTryEarly(b) == b.tried + 2 >= Tries

\* _retry_operation
LastTry(b) == b.tried + 1 >= Tries

\* A call that failed is tried again or given up, which is logged: a start goes
\* on with what there is, documents are dropped with the later ones of the bulk.
RetryOrGiveUp(p) ==
  LET b == backend[p]
      enough == b.tried + 1 >= Tries
  IN
  /\ IF LastTry(b) THEN Rests(p)
     ELSE backend' = [backend EXCEPT ![p].tried = @ + 1]
  /\ unprepared' = (unprepared \/ (enough /\ b.at \in Preparing /\ alias # "typed"))
  /\ excused' = IF enough /\ (Taken(b) => <<p, b.index>> \in slipped)
                THEN excused \cup b.now \cup b.later ELSE excused

CallRefused(p) ==
  /\ Taken(backend[p])
  /\ RetryOrGiveUp(p)
  /\ UNCHANGED <<cluster, waiting, outages, boots, unanswered, badItems, slipped>>

Outage == outages < MaxOutages /\ outages' = outages + 1

CallFails(p) ==
  /\ backend[p].at \in Preparing \cup Storing
  /\ Outage
  /\ RetryOrGiveUp(p)
  /\ UNCHANGED <<cluster, waiting, boots, unanswered, badItems, slipped>>

\* The answer of a call that was taken does not come.
AnswerLost(p) ==
  LET b == backend[p] IN
  /\ ~Taken(b)
  /\ Outage
  /\ \/ /\ b.at \in {"make", "makeDay", "link"}
        /\ Prepares(p)
        /\ unanswered' = unanswered
     \/ /\ b.at = "put"
        /\ \E items \in SUBSET (b.now \cap NetDocs) :
             /\ Stores(p, b.now \ items)
             /\ unanswered' = [d \in Docs |->
                  IF d \in b.now \ items THEN unanswered[d] + 1 ELSE unanswered[d]]
  /\ RetryOrGiveUp(p)
  /\ UNCHANGED <<waiting, boots, badItems>>

KillBackend(p) ==
  /\ backend[p] # Stopped
  /\ backend' = [backend EXCEPT ![p] = Stopped]
  /\ excused' = excused \cup backend[p].now \cup backend[p].later
  /\ UNCHANGED <<cluster, waiting, outages, boots, unprepared, unanswered, badItems, slipped>>

SearchNext ==
  \E p \in Backends :
    \/ StartBackend(p) \/ KillBackend(p)
    \/ \E docs \in Batches : TakeDocuments(p, docs)
    \/ CallAnswered(p) \/ PutAnswered(p)
    \/ CallRefused(p) \/ CallFails(p) \/ AnswerLost(p)

SearchSpec == SearchInit /\ [][SearchNext]_searchVars

-----------------------------------------------------------------------------
Finished(d) ==
  d \notin waiting /\ \A p \in Backends : d \notin backend[p].now \cup backend[p].later

\* A document is stored, and once, however often its index is looked for and
\* made.  It is missing only when a call of its own, or one before it of its
\* bulk, failed as often as it is tried, or its process died, or the answer to
\* the bulk refused it; an index made by another process between the look and
\* the making is such a failure, one that was there all along is not.  It is
\* there again only for an answer that was lost.  Documents of events have their
\* mappings unless a process was at work before the alias.
IndexIsWhole ==
  /\ \A d \in Docs : Finished(d) => indexed[d] > 0 \/ d \in excused \cup badItems
  /\ \A d \in Docs : indexed[d] <= 1 + unanswered[d]
  /\ stray # {} => unprepared
=============================================================================
