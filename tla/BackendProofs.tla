---------------------------- MODULE BackendProofs -----------------------------
(***************************************************************************)
(* Theorems about four parts of the backend, each for any number of its    *)
(* processes, connections, documents, reports and starts, and any limits.  *)
(*                                                                         *)
(* The first rules: what a start that found the table empty still has to   *)
(* make is counted with what it made.  The documents of OpenSearch: each is*)
(* in one place, waiting, at work, stored or excused, and what is stored   *)
(* and still at work was stored without an answer.  The threat map: what a *)
(* connection has sent, is sending and has in store is one sequence that   *)
(* rises, and every step adds to its end or leaves one out.  The reports of*)
(* passwords: the bucket is the end of what was let through, and alerts    *)
(* nobody links are no more than the handlers that are to link them.       *)
(***************************************************************************)
EXTENDS RuleSeeding, SearchIndex, ThreatMap, PasswordGuard,
        SequenceTheorems, FiniteSetTheorems, TLAPS

-----------------------------------------------------------------------------
(* The first detection rules: RuleSeeding *)

\* The starts that will still make rule r
YetToSeed(r) == {p \in Starters : process[p] \in 1 .. r}

\* What a start that found the table empty has made or will make of a rule; a
\* start that was cut short takes what it would have made with it.
SeedsAreCounted ==
  \A r \in Seeds :
    /\ copies[r] + Cardinality(YetToSeed(r)) <= sawEmpty
    /\ ~ cutShort => copies[r] + Cardinality(YetToSeed(r)) = sawEmpty

\* Who is up and did not skip the seeding came after a start that seeded, or
\* after a rule that was there before any; so did the rules of analysts.
SomeoneSeeded ==
  added \/ (\E p \in Starters : process[p] # Down /\ p \notin blind) => sawEmpty >= 1 \/ early

\* No more starts found the table empty than there were.
StartsAreCounted == starts \in 0 .. MaxStarts /\ sawEmpty \in 0 .. starts

SeedInv ==
  /\ copies \in [Seeds -> Nat] /\ added \in BOOLEAN /\ cutShort \in BOOLEAN
  /\ early \in BOOLEAN /\ blind \subseteq Starters
  /\ process \in [Starters -> Down .. Up]
  /\ sawEmpty \in Nat
  /\ SeedsAreCounted
  /\ SomeoneSeeded

\* Finitely many starts are left.
LEMMA YetFinite ==
  \A r : /\ IsFiniteSet(YetToSeed(r)) /\ IsFiniteSet(YetToSeed(r)')
         /\ Cardinality(YetToSeed(r)) \in Nat /\ Cardinality(YetToSeed(r)') \in Nat
<1>1. \A r : YetToSeed(r) \subseteq Starters /\ YetToSeed(r)' \subseteq Starters
  BY DEF YetToSeed
<1> QED  BY <1>1, SeedingConstants, FS_Subset, FS_CardinalityType

\* A start that looks at the table, then one that makes a rule, then one that stops
LEMMA SeedStart ==
  ASSUME SeedInv, NEW p \in Starters, StartProcess(p)
  PROVE  SeedInv'
<1> USE DEF SeedInv
<1>1. /\ process[p] = Down /\ UNCHANGED <<copies, added, cutShort, blind, early>>
      /\ process' = [process EXCEPT ![p] = IF NoRules THEN 1 ELSE Up]
      /\ sawEmpty' = IF NoRules THEN sawEmpty + 1 ELSE sawEmpty
  BY DEF StartProcess, SeesNoRules
<1>2. \A r \in Seeds : p \notin YetToSeed(r)
  BY <1>1 DEF YetToSeed, Down
<1>3. CASE NoRules
  <2>1. \A r \in Seeds : YetToSeed(r)' = YetToSeed(r) \cup {p}
    BY <1>1, <1>3, SeedingConstants DEF YetToSeed, Seeds, Down
  <2>2. \A r \in Seeds : Cardinality(YetToSeed(r)') = Cardinality(YetToSeed(r)) + 1
    BY <1>2, <2>1, YetFinite, FS_AddElement
  <2>3. SeedsAreCounted'
    BY <1>1, <1>3, <2>2, YetFinite DEF SeedsAreCounted
  <2>4. process' \in [Starters -> Down .. Up]
    BY <1>1, <1>3, SeedingConstants DEF Down, Up
  <2> QED  BY <1>1, <1>3, <2>3, <2>4 DEF SomeoneSeeded
<1>4. CASE ~ NoRules
  <2>1. \A r \in Seeds : YetToSeed(r)' = YetToSeed(r)
    BY <1>1, <1>4, SeedingConstants DEF YetToSeed, Seeds, Down, Up
  <2>2. SeedsAreCounted'
    BY <1>1, <1>4, <2>1 DEF SeedsAreCounted
  <2>3. process' \in [Starters -> Down .. Up]
    BY <1>1, <1>4, SeedingConstants DEF Down, Up
  <2>4. sawEmpty >= 1 \/ early
    <3>1. \A r \in Seeds : copies[r] # 0 => sawEmpty >= 1
      BY YetFinite DEF SeedsAreCounted
    <3> QED  BY <1>4, <3>1 DEF NoRules, SomeoneSeeded
  <2> QED  BY <1>1, <1>4, <2>2, <2>3, <2>4 DEF SomeoneSeeded
<1> QED  BY <1>3, <1>4

\* One that skips the seeding makes none.
LEMMA SeedSkip ==
  ASSUME SeedInv, NEW p \in Starters, SkipSeeding(p)
  PROVE  SeedInv'
<1> USE DEF SeedInv
<1>1. /\ process[p] = Down /\ process' = [process EXCEPT ![p] = Up] /\ blind' = blind \cup {p}
      /\ UNCHANGED <<copies, added, sawEmpty, cutShort, early>>
  BY DEF SkipSeeding
<1>2. \A r \in Seeds : YetToSeed(r)' = YetToSeed(r)
  BY <1>1, SeedingConstants DEF YetToSeed, Seeds, Down, Up
<1>3. SeedsAreCounted'
  BY <1>1, <1>2 DEF SeedsAreCounted
<1>4. process' \in [Starters -> Down .. Up]
  BY <1>1, SeedingConstants DEF Down, Up
<1>5. SomeoneSeeded'
  BY <1>1 DEF SomeoneSeeded
<1> QED  BY <1>1, <1>3, <1>4, <1>5

\* One rule is made by the start whose turn it is.
LEMMA SeedCommit ==
  ASSUME SeedInv, NEW p \in Starters, SeedRule(p), NEW k, k = process[p]
  PROVE  SeedInv'
<1> USE DEF SeedInv
<1>1. /\ k \in Seeds /\ copies' = [copies EXCEPT ![k] = @ + 1]
      /\ process' = [process EXCEPT ![p] = k + 1]
      /\ UNCHANGED <<added, sawEmpty, cutShort, blind, early>>
  BY DEF SeedRule
<1>2. YetToSeed(k)' = YetToSeed(k) \ {p} /\ p \in YetToSeed(k)
  BY <1>1 DEF YetToSeed, Seeds
<1>3. \A r \in Seeds \ {k} : YetToSeed(r)' = YetToSeed(r)
  BY <1>1 DEF YetToSeed, Seeds
<1>4. Cardinality(YetToSeed(k)') = Cardinality(YetToSeed(k)) - 1
  BY <1>2, YetFinite, FS_RemoveElement
<1>5. \A r \in Seeds : copies'[r] + Cardinality(YetToSeed(r)') = copies[r] + Cardinality(YetToSeed(r))
  <2> SUFFICES ASSUME NEW r \in Seeds
               PROVE  copies'[r] + Cardinality(YetToSeed(r)') = copies[r] + Cardinality(YetToSeed(r))
    OBVIOUS
  <2>1. CASE r = k
    BY <1>1, <1>4, <2>1, YetFinite
  <2>2. CASE r # k
    BY <1>1, <1>3, <2>2
  <2> QED  BY <2>1, <2>2
<1>6. SeedsAreCounted'
  BY <1>1, <1>5 DEF SeedsAreCounted
<1>7. process' \in [Starters -> Down .. Up] /\ copies' \in [Seeds -> Nat]
  BY <1>1, SeedingConstants DEF Down, Up, Seeds
<1>8. SomeoneSeeded'
  BY <1>1, SeedingConstants DEF SomeoneSeeded, Seeds, Down
<1> QED  BY <1>1, <1>6, <1>7, <1>8

\* A start that ends or is cut short makes no more.
LEMMA SeedStop ==
  ASSUME SeedInv, NEW p \in Starters, StopProcess(p)
  PROVE  SeedInv'
<1> USE DEF SeedInv
<1>1. /\ process' = [process EXCEPT ![p] = Down] /\ process[p] # Down
      /\ cutShort' = (cutShort \/ process[p] \in Seeds)
      /\ blind' = blind \ {p}
      /\ UNCHANGED <<copies, added, sawEmpty, early>>
  BY DEF StopProcess
<1>2. \A r \in Seeds : YetToSeed(r)' = YetToSeed(r) \ {p}
  BY <1>1 DEF YetToSeed, Down
<1>3. \A r \in Seeds : Cardinality(YetToSeed(r)') <= Cardinality(YetToSeed(r))
  BY <1>2, YetFinite, FS_Subset
<1>4. ~ cutShort' => \A r \in Seeds : YetToSeed(r)' = YetToSeed(r)
  <2> SUFFICES ASSUME ~ cutShort', NEW r \in Seeds PROVE YetToSeed(r)' = YetToSeed(r)
    OBVIOUS
  <2>1. process[p] \notin 1 .. r
    <3>1. process[p] \notin Seeds
      BY <1>1, Zenon
    <3> QED  BY <3>1, SeedingConstants DEF Seeds
  <2> QED  BY <1>2, <2>1 DEF YetToSeed
<1>5. SeedsAreCounted'
  BY <1>1, <1>3, <1>4, YetFinite DEF SeedsAreCounted
<1>6. process' \in [Starters -> Down .. Up] /\ cutShort' \in BOOLEAN
  BY <1>1, SeedingConstants DEF Down, Up
<1>7. SomeoneSeeded'
  BY <1>1 DEF SomeoneSeeded
<1> QED  BY <1>1, <1>5, <1>6, <1>7

\* However the starts of processes overlap, skip the seeding, die and are
\* repeated: no rule is there more often than starts found the table empty, and
\* none is missing of those that came to their end; who did not skip came after
\* one of them, or after a rule an analyst made first (_seed_detection_rules).
THEOREM SeedingCorrect == SeedSpec => [](SeedTypeOK /\ SeededOncePerEmptyTable)
<1>1. SeedInit => SeedInv
  <2> SUFFICES ASSUME SeedInit PROVE SeedInv
    OBVIOUS
  <2>1. \A r \in Seeds : YetToSeed(r) = {}
    BY DEF SeedInit, YetToSeed, Down
  <2>2. SeedsAreCounted
    BY <2>1, FS_EmptySet DEF SeedInit, SeedsAreCounted
  <2>3. copies \in [Seeds -> Nat] /\ process \in [Starters -> Down .. Up]
    BY SeedingConstants DEF SeedInit, Down, Up
  <2> QED  BY <2>2, <2>3 DEF SeedInit, SeedInv, SomeoneSeeded
<1>2. SeedInv /\ [SeedNext]_seedVars => SeedInv'
  <2> SUFFICES ASSUME SeedInv, [SeedNext]_seedVars PROVE SeedInv'
    OBVIOUS
  <2>1. ASSUME NEW p \in Starters, AddRule(p) PROVE SeedInv'
    <3>1. YetToSeed(0)' = YetToSeed(0) /\ \A r : YetToSeed(r)' = YetToSeed(r)
      BY <2>1 DEF AddRule, YetToSeed
    <3>2. sawEmpty >= 1 \/ early'
      <4>1. process[p] # Down
        BY <2>1, SeedingConstants DEF AddRule, Up, Down
      <4>2. early' = (early \/ (p \in blind /\ sawEmpty = 0))
        BY <2>1, Zenon DEF AddRule
      <4>3. p \notin blind => sawEmpty >= 1 \/ early
        BY <4>1 DEF SeedInv, SomeoneSeeded
      <4>4. sawEmpty >= 1 \/ sawEmpty = 0
        BY DEF SeedInv
      <4> QED  BY <4>2, <4>3, <4>4, Zenon
    <3>3. early' \in BOOLEAN
      BY <2>1, Zenon DEF AddRule
    <3>4. SeedsAreCounted'
      BY <2>1, <3>1 DEF AddRule, SeedInv, SeedsAreCounted
    <3> QED  BY <2>1, <3>2, <3>3, <3>4 DEF AddRule, SeedInv, SomeoneSeeded
  <2>2. CASE UNCHANGED seedVars
    <3>1. \A r : YetToSeed(r)' = YetToSeed(r)
      BY <2>2 DEF seedVars, YetToSeed
    <3> QED  BY <2>2, <3>1 DEF seedVars, SeedInv, SeedsAreCounted, SomeoneSeeded
  <2> QED  BY <2>1, <2>2, SeedStart, SeedSkip, SeedCommit, SeedStop DEF SeedNext
<1>3. SeedInv => SeededOncePerEmptyTable
  <2> SUFFICES ASSUME SeedInv PROVE SeededOncePerEmptyTable
    OBVIOUS
  <2>1. \A r \in Seeds : copies[r] <= sawEmpty
    BY YetFinite DEF SeedInv, SeedsAreCounted
  <2>2. ASSUME ~ cutShort, \A q \in Starters : process[q] \notin Seeds, NEW r \in Seeds
        PROVE  copies[r] = sawEmpty
    <3>1. YetToSeed(r) = {}
      <4>1. \A q \in Starters : process[q] \notin 1 .. r
        BY <2>2, SeedingConstants DEF Seeds
      <4> QED  BY <4>1 DEF YetToSeed
    <3>2. copies[r] + Cardinality(YetToSeed(r)) = sawEmpty
      BY <2>2, Zenon DEF SeedInv, SeedsAreCounted
    <3>3. Cardinality(YetToSeed(r)) = 0 /\ copies[r] \in Nat
      BY <3>1, FS_EmptySet DEF SeedInv
    <3> QED  BY <3>2, <3>3
  <2>3. ASSUME NEW p \in Starters, process[p] = Up, p \notin blind
        PROVE  sawEmpty >= 1 \/ early
    BY <2>3, SeedingConstants DEF SeedInv, SomeoneSeeded, Up, Down
  <2> QED  BY <2>1, <2>2, <2>3 DEF SeededOncePerEmptyTable
<1>4. SeedInit => StartsAreCounted
  BY SeedingConstants DEF SeedInit, StartsAreCounted
<1>5. StartsAreCounted /\ [SeedNext]_seedVars => StartsAreCounted'
  BY SeedingConstants DEF StartsAreCounted, SeedNext, StartProcess, SkipSeeding, SeedRule, AddRule, StopProcess, seedVars
<1>6. SeedInv /\ StartsAreCounted => SeedTypeOK
  <2> SUFFICES ASSUME SeedInv, StartsAreCounted  PROVE SeedTypeOK
    OBVIOUS
  <2>1. \A r \in Seeds : copies[r] <= sawEmpty
    BY YetFinite DEF SeedInv, SeedsAreCounted
  <2>2. copies \in [Seeds -> 0 .. MaxStarts]
    BY <2>1, SeedingConstants DEF SeedInv, StartsAreCounted
  <2> QED  BY <2>2, SeedingConstants DEF SeedInv, StartsAreCounted, SeedTypeOK
<1> QED  BY <1>1, <1>2, <1>3, <1>4, <1>5, <1>6, PTL DEF SeedSpec

-----------------------------------------------------------------------------
(* The documents of OpenSearch: SearchIndex *)

Works(p) == backend[p].now \cup backend[p].later
Held(d)  == \E p \in Backends : d \in Works(p)

\* A document waits, or one process works on it, or it is stored, excused or
\* refused.
DocumentsAreOne ==
  /\ \A d \in Docs : d \in waiting \/ Held(d) \/ indexed[d] > 0 \/ d \in excused \cup badItems
  /\ \A d \in waiting : ~ Held(d)
  /\ \A p, q \in Backends : \A d \in Docs : d \in Works(p) /\ d \in Works(q) => p = q
  /\ \A p \in Backends :
       /\ backend[p].now \cap backend[p].later = {}
       /\ backend[p].at \notin Storing => Works(p) = {}
       /\ backend[p].at \in {"lookDay", "makeDay"} => backend[p].index \in Days

\* What is stored of a document that was not finished was stored without answer.
StoredUnanswered ==
  \A d \in Docs :
    /\ indexed[d] <= 1 + unanswered[d]
    /\ d \in waiting \/ Held(d) => indexed[d] <= unanswered[d]

\* A process that makes an index after it was made has slipped.
MakersSlipped ==
  \A p \in Backends :
    backend[p].at = "makeDay" /\ backend[p].index \in made => <<p, backend[p].index>> \in slipped

\* A process serves when the alias is there, or has given up to make it.
ServesPrepared ==
  /\ (\E p \in Backends : backend[p].at \in {"idle"} \cup Storing) => alias = "typed" \/ unprepared
  /\ stray # {} => unprepared

SearchInv ==
  /\ SearchTypeOK
  /\ DocumentsAreOne /\ StoredUnanswered /\ MakersSlipped /\ ServesPrepared

States == [at : {"down", "idle"} \cup Preparing \cup Storing, tried : 0 .. Tries,
           index : Days \cup {AliasName}, now : SUBSET Docs, later : SUBSET NetDocs,
           knows : SUBSET Days]

\* What a process that goes on leaves of its documents is stored, excused or
\* refused.
LeavesNone(p, kept) ==
  \A d \in Works(p) :
    IF d \in kept THEN indexed'[d] <= unanswered'[d]
    ELSE /\ indexed'[d] <= 1 + unanswered'[d]
         /\ indexed'[d] > 0 \/ d \in excused' \cup badItems'

\* A process goes on with its documents or without some.
LEMMA SearchGoesOn ==
  ASSUME SearchInv, NEW p \in Backends, NEW b \in States, NEW kept, kept = b.now \cup b.later,
         backend' = [backend EXCEPT ![p] = b], UNCHANGED waiting,
         kept \subseteq Works(p), b.now \cap b.later = {},
         b.at \notin Storing => kept = {},
         b.at \in {"lookDay", "makeDay"} => b.index \in Days,
         made' \subseteq Indices, alias' \in {"nothing", "old", "typed"},
         stray' \subseteq EventDocs, outages' \in 0 .. MaxOutages, boots' \in 0 .. MaxBoots,
         unprepared' \in BOOLEAN, slipped' \subseteq Backends \X Days,
         indexed' \in [Docs -> Nat], unanswered' \in [Docs -> Nat],
         excused \subseteq excused', excused' \subseteq Docs,
         badItems \subseteq badItems', badItems' \subseteq NetDocs,
         \A d \in Docs \ Works(p) : indexed'[d] = indexed[d] /\ unanswered'[d] = unanswered[d],
         LeavesNone(p, kept),
         \A q \in Backends \ {p} :
           backend[q].at = "makeDay" /\ backend[q].index \in made' => <<q, backend[q].index>> \in slipped',
         b.at = "makeDay" /\ b.index \in made' => <<p, b.index>> \in slipped',
         alias = "typed" => alias' = "typed", unprepared => unprepared',
         b.at \in {"idle"} \cup Storing => alias' = "typed" \/ unprepared',
         stray' # {} => unprepared'
  PROVE  SearchInv'
<1> USE DEF SearchInv
<1>1. /\ backend'[p] = b /\ \A q \in Backends \ {p} : backend'[q] = backend[q]
      /\ backend' \in [Backends -> States]
  BY DEF SearchTypeOK, States
<1>2. SearchTypeOK'
  BY <1>1 DEF SearchTypeOK, States
<1>3. Works(p)' = kept /\ \A q \in Backends \ {p} : Works(q)' = Works(q)
  BY <1>1 DEF Works
<1>4. \A d \in Docs : /\ Held(d)' => Held(d)
                      /\ Held(d) => Held(d)' \/ (d \in Works(p) /\ d \notin kept)
  BY <1>3 DEF Held
<1>5. \A d \in Docs : d \in waiting \/ Held(d)' \/ indexed'[d] > 0 \/ d \in excused' \cup badItems'
  <2> SUFFICES ASSUME NEW d \in Docs, d \notin waiting, ~ Held(d)'
               PROVE  indexed'[d] > 0 \/ d \in excused' \cup badItems'
    OBVIOUS
  <2>1. CASE d \in Works(p)
    <3>1. d \notin kept
      BY <1>3 DEF Held
    <3> QED  BY <2>1, <3>1 DEF LeavesNone
  <2>2. CASE d \notin Works(p)
    <3>1. ~ Held(d)
      BY <1>4, <2>2
    <3>2. indexed[d] > 0 \/ d \in excused \cup badItems
      BY <3>1 DEF DocumentsAreOne
    <3>3. indexed'[d] = indexed[d]
      BY <2>2
    <3> QED  BY <3>2, <3>3
  <2> QED  BY <2>1, <2>2
<1>6. \A d \in waiting : ~ Held(d)'
  BY <1>4 DEF DocumentsAreOne, SearchTypeOK
<1>7. \A q, o \in Backends : \A d \in Docs : d \in Works(q)' /\ d \in Works(o)' => q = o
  <2> SUFFICES ASSUME NEW q \in Backends, NEW o \in Backends, NEW d \in Docs,
                      d \in Works(q)', d \in Works(o)'
               PROVE  q = o
    OBVIOUS
  <2>1. d \in Works(q) /\ d \in Works(o)
    BY <1>3
  <2> QED  BY <2>1 DEF DocumentsAreOne
<1>8. \A q \in Backends :
        /\ backend'[q].now \cap backend'[q].later = {}
        /\ backend'[q].at \notin Storing => Works(q)' = {}
        /\ backend'[q].at \in {"lookDay", "makeDay"} => backend'[q].index \in Days
  <2> SUFFICES ASSUME NEW q \in Backends
               PROVE  /\ backend'[q].now \cap backend'[q].later = {}
                      /\ backend'[q].at \notin Storing => Works(q)' = {}
                      /\ backend'[q].at \in {"lookDay", "makeDay"} => backend'[q].index \in Days
    OBVIOUS
  <2>1. CASE q = p
    BY <1>1, <1>3, <2>1
  <2>2. CASE q # p
    BY <1>1, <1>3, <2>2 DEF DocumentsAreOne
  <2> QED  BY <2>1, <2>2
<1>9. DocumentsAreOne'
  BY <1>5, <1>6, <1>7, <1>8 DEF DocumentsAreOne
<1>10. StoredUnanswered'
  <2> SUFFICES ASSUME NEW d \in Docs
               PROVE  /\ indexed'[d] <= 1 + unanswered'[d]
                      /\ d \in waiting \/ Held(d)' => indexed'[d] <= unanswered'[d]
    BY DEF StoredUnanswered
  <2>1. CASE d \notin Works(p)
    BY <1>4, <2>1 DEF StoredUnanswered
  <2>2. CASE d \in Works(p)
    <3>1. d \notin waiting
      BY <2>2 DEF DocumentsAreOne, Held
    <3>2. d \notin kept => ~ Held(d)'
      <4>1. \A q \in Backends \ {p} : d \notin Works(q)
        BY <2>2 DEF DocumentsAreOne
      <4> QED  BY <1>3, <4>1 DEF Held
    <3>3. indexed'[d] \in Nat /\ unanswered'[d] \in Nat
      OBVIOUS
    <3> QED  BY <2>2, <3>1, <3>2, <3>3 DEF LeavesNone
  <2> QED  BY <2>1, <2>2
<1>11. MakersSlipped'
  BY <1>1 DEF MakersSlipped
<1>12. ServesPrepared'
  BY <1>1 DEF ServesPrepared
<1> QED  BY <1>2, <1>9, <1>10, <1>11, <1>12

\* What is known of a process and of the documents it works on
LEMMA BackendType ==
  ASSUME SearchInv, NEW p \in Backends
  PROVE  /\ backend[p] \in States
         /\ Works(p) \subseteq Docs /\ backend[p].now \cap backend[p].later = {}
         /\ backend[p].at \notin Storing => Works(p) = {}
         /\ backend[p].at \in {"lookDay", "makeDay"} => backend[p].index \in Days
         /\ \A d \in Works(p) : d \notin waiting /\ indexed[d] <= unanswered[d]
         /\ backend[p].at \in {"idle"} \cup Storing => alias = "typed" \/ unprepared
<1> USE DEF SearchInv
<1>1. backend[p] \in States
  BY DEF SearchTypeOK, States
<1>2. Works(p) \subseteq Docs
  BY <1>1 DEF Works, States, Docs
<1>3. \A d \in Works(p) : Held(d)
  BY DEF Held
<1>4. \A d \in Works(p) : d \notin waiting /\ indexed[d] <= unanswered[d]
  BY <1>2, <1>3 DEF DocumentsAreOne, StoredUnanswered
<1> QED  BY <1>1, <1>2, <1>4 DEF DocumentsAreOne, ServesPrepared

\* The states that the steps of a process lead to
LEMMA RestsType ==
  ASSUME SearchInv, NEW p \in Backends, Rests(p)
  PROVE  \E b \in States : /\ backend' = [backend EXCEPT ![p] = b]
                           /\ b.at = "idle" /\ b.now = {} /\ b.later = {}
<1> DEFINE b == [at |-> "idle", tried |-> 0, index |-> AliasName,
                 now |-> {}, later |-> {}, knows |-> backend[p].knows]
<1>1. backend[p].knows \subseteq Days
  BY BackendType DEF States
<1>2. 0 \in 0 .. Tries
  BY SearchConstants
<1>3. b \in States
  BY <1>1, <1>2 DEF States
<1> QED  BY <1>3 DEF Rests

LEMMA MovesType ==
  ASSUME SearchInv, NEW p \in Backends, NEW at, Moves(p, at),
         at \in Preparing \cup Storing, at = "put" => backend[p].index \in Days
  PROVE  \E b \in States :
           /\ backend' = [backend EXCEPT ![p] = b] /\ b.at = at /\ b.index = backend[p].index
           /\ b.now = backend[p].now /\ b.later = backend[p].later
<1> DEFINE b == [backend[p] EXCEPT
             !.at = at, !.tried = 0,
             !.knows = IF at = "put" THEN @ \cup {backend[p].index} ELSE @]
<1>1. backend[p] \in States
  BY BackendType
<1>2. backend' = [backend EXCEPT ![p] = b]
  BY DEF Moves
<1>3. /\ b \in States /\ b.at = at /\ b.index = backend[p].index
      /\ b.now = backend[p].now /\ b.later = backend[p].later
  <2>1. 0 \in 0 .. Tries
    BY SearchConstants
  <2> QED  BY <1>1, <2>1 DEF States
<1> HIDE DEF b
<1> QED  BY <1>2, <1>3

LEMMA SendsType ==
  ASSUME SearchInv, NEW p \in Backends, NEW docs, Sends(p, docs), docs \subseteq Docs,
         docs \subseteq NetDocs \/ \E d : docs = {d}
  PROVE  \E b \in States :
           /\ backend' = [backend EXCEPT ![p] = b] /\ b.at \in {"lookDay", "put"}
           /\ b.at = "lookDay" => b.index \in Days
           /\ b.now \cup b.later = docs /\ b.now \cap b.later = {}
<1>1. PICK i \in {IndexOf[d] : d \in docs} :
        backend' = [backend EXCEPT ![p] =
          [at |-> IF i \in Days \ backend[p].knows THEN "lookDay" ELSE "put",
           tried |-> 0, index |-> i,
           now |-> {d \in docs : IndexOf[d] = i}, later |-> {d \in docs : IndexOf[d] # i},
           knows |-> backend[p].knows]]
  BY DEF Sends
<1> DEFINE now == {d \in docs : IndexOf[d] = i}
           later == {d \in docs : IndexOf[d] # i}
           b == [at |-> IF i \in Days \ backend[p].knows THEN "lookDay" ELSE "put",
                 tried |-> 0, index |-> i, now |-> now, later |-> later,
                 knows |-> backend[p].knows]
<1>2. backend[p].knows \subseteq Days
  BY BackendType DEF States
<1>3. backend' = [backend EXCEPT ![p] = b]
  BY <1>1
<1>4. i \in Days \cup {AliasName} /\ 0 \in 0 .. Tries
  BY <1>1, SearchConstants
<1>5. later \subseteq NetDocs /\ now \cup later = docs /\ now \cap later = {}
  BY <1>1
<1> HIDE DEF now, later
<1>6. b \in States
  BY <1>2, <1>4, <1>5 DEF States, Storing
<1>7. /\ b.at \in {"lookDay", "put"} /\ (b.at = "lookDay" => b.index \in Days)
      /\ b.now \cup b.later = docs /\ b.now \cap b.later = {}
  BY <1>5
<1> HIDE DEF b
<1> QED  BY <1>3, <1>6, <1>7

\* A process starts.
LEMMA StartKeeps ==
  ASSUME SearchInv, NEW p \in Backends, StartBackend(p)
  PROVE  SearchInv'
<1>1. PICK b \in States : /\ backend' = [backend EXCEPT ![p] = b] /\ b.at = "look"
                          /\ b.now = backend[p].now /\ b.later = backend[p].later
  BY MovesType DEF StartBackend, Preparing
<1>2. UNCHANGED <<made, alias, indexed, stray, waiting, outages, unprepared, unanswered,
                  badItems, excused, slipped>> /\ boots' \in 0 .. MaxBoots
  BY SearchConstants DEF StartBackend, SearchInv, SearchTypeOK, cluster, searchPast
<1>3. b.now \cup b.later = {} /\ Works(p) = {}
  BY <1>1 DEF StartBackend, Stopped, Works
<1>4. LeavesNone(p, {})
  BY <1>3 DEF LeavesNone
<1> QED  BY <1>1, <1>2, <1>3, <1>4, SearchGoesOn
         DEF Storing, SearchInv, SearchTypeOK, MakersSlipped, ServesPrepared

\* What a call that prepares an index or an alias leads to in the cluster
LEMMA PreparesFacts ==
  ASSUME SearchInv, NEW p \in Backends, Prepares(p), ~ Taken(backend[p]),
         backend[p].at \in Preparing \cup {"lookDay", "makeDay"}
  PROVE  /\ made' \subseteq Indices /\ alias' \in {"nothing", "old", "typed"}
         /\ slipped' \subseteq Backends \X Days /\ indexed' = indexed /\ stray' = stray
         /\ alias = "typed" \/ backend[p].at = "link" => alias' = "typed"
         /\ \A q \in Backends :
              backend[q].at = "makeDay" /\ backend[q].index \in made' => <<q, backend[q].index>> \in slipped'
         /\ backend[p].at = "lookDay" => made' = made
<1> USE DEF SearchInv
<1> DEFINE b == backend[p]
           rivals == {q \in Backends : backend[q].at = "makeDay" /\ backend[q].index = b.index}
<1>1. /\ made' = made \cup (CASE b.at = "make" -> {"typed"} [] b.at = "makeDay" -> {b.index} [] OTHER -> {})
      /\ alias' = IF b.at = "link" THEN "typed" ELSE alias
      /\ slipped' = IF b.at = "makeDay" THEN slipped \cup (rivals \X {b.index}) ELSE slipped
      /\ indexed' = indexed /\ stray' = stray
  BY DEF Prepares
<1>2. b.at = "makeDay" => b.index \in Days
  BY BackendType
<1>3. made' \subseteq Indices
  BY <1>1, <1>2 DEF SearchTypeOK, Indices
<1>4. alias' \in {"nothing", "old", "typed"} /\ (alias = "typed" \/ b.at = "link" => alias' = "typed")
  BY <1>1 DEF SearchTypeOK
<1>5. slipped' \subseteq Backends \X Days
  BY <1>1, <1>2 DEF SearchTypeOK
<1>6. ASSUME NEW q \in Backends, backend[q].at = "makeDay", backend[q].index \in made'
      PROVE  <<q, backend[q].index>> \in slipped'
  <2>1. slipped \subseteq slipped'
    BY <1>1
  <2>2. CASE backend[q].index \in made
    BY <1>6, <2>1, <2>2 DEF MakersSlipped
  <2>3. CASE backend[q].index \notin made
    <3>1. backend[q].index \in Days /\ "typed" \notin Days
      BY <1>6, BackendType, SearchConstants
    <3>2. b.at = "makeDay" /\ backend[q].index = b.index
      BY <1>1, <1>6, <2>3, <3>1
    <3> QED  BY <1>1, <1>6, <3>2
  <2> QED  BY <2>2, <2>3
<1>7. b.at = "lookDay" => made' = made
  BY <1>1
<1> QED  BY <1>1, <1>3, <1>4, <1>5, <1>6, <1>7

\* and one that stores documents.
LEMMA StoresFacts ==
  ASSUME SearchInv, NEW p \in Backends, NEW stored, Stores(p, stored),
         stored \subseteq Docs
  PROVE  /\ made' \subseteq Indices /\ stray' \subseteq EventDocs
         /\ alias' = alias /\ slipped' = slipped
         /\ indexed' = [d \in Docs |-> IF d \in stored THEN indexed[d] + 1 ELSE indexed[d]]
         /\ indexed' \in [Docs -> Nat]
         /\ stray' # {} => stray # {} \/ alias # "typed"
         /\ \A q \in Backends :
              backend[q].at = "makeDay" /\ backend[q].index \in made' => <<q, backend[q].index>> \in slipped'
<1> USE DEF SearchInv
<1>1. made' \in {made, made \cup {"bare"}} /\ alias' = alias /\ slipped' = slipped
      /\ indexed' = [d \in Docs |-> IF d \in stored THEN indexed[d] + 1 ELSE indexed[d]]
      /\ stray' = IF alias # "typed" THEN stray \cup (stored \cap EventDocs) ELSE stray
  BY DEF Stores
<1>2. made' \subseteq Indices
  BY <1>1 DEF SearchTypeOK, Indices
<1>3. indexed' \in [Docs -> Nat]
  BY <1>1 DEF SearchTypeOK
<1>4. ASSUME NEW q \in Backends, backend[q].at = "makeDay", backend[q].index \in made'
      PROVE  <<q, backend[q].index>> \in slipped'
  <2>1. backend[q].index \in Days /\ "bare" \notin Days
    BY <1>4, BackendType, SearchConstants
  <2>2. backend[q].index \in made
    BY <1>1, <1>4, <2>1
  <2> QED  BY <1>1, <1>4, <2>2 DEF MakersSlipped
<1> QED  BY <1>1, <1>2, <1>3, <1>4 DEF SearchTypeOK

\* A call that prepares is answered.
LEMMA AnsweredKeeps ==
  ASSUME SearchInv, NEW p \in Backends, CallAnswered(p)
  PROVE  SearchInv'
<1> DEFINE at == backend[p].at
           to == Onward(backend[p])
<1>1. /\ at \in Preparing \cup {"lookDay", "makeDay"} /\ ~ Taken(backend[p]) /\ Prepares(p)
      /\ IF to = "idle" THEN Rests(p) ELSE Moves(p, to)
      /\ UNCHANGED <<waiting, outages, boots, unprepared, unanswered, badItems, excused>>
  BY DEF CallAnswered
<1>2. /\ to \in {"idle"} \cup Preparing \cup Storing
      /\ to \in Storing <=> at \in {"lookDay", "makeDay"}
      /\ to = "makeDay" => backend[p].index \notin made /\ at = "lookDay"
      /\ to # "lookDay"
      /\ to = "idle" => at \in Preparing /\ (alias = "typed" \/ at = "link")
  BY <1>1 DEF Onward, AfterLook, Preparing, Storing
<1>3. /\ at \in {"lookDay", "makeDay"} => backend[p].index \in Days
      /\ at \notin Storing => Works(p) = {}
      /\ Works(p) \subseteq Docs
      /\ backend[p].now \cap backend[p].later = {}
      /\ \A d \in Works(p) : indexed[d] <= unanswered[d]
      /\ at \in Storing => alias = "typed" \/ unprepared
  BY BackendType
<1>4. PICK b \in States :
        /\ backend' = [backend EXCEPT ![p] = b] /\ b.at = to
        /\ b.now \cup b.later = Works(p) /\ b.now \cap b.later = {}
        /\ to # "idle" => b.index = backend[p].index
  <2>1. CASE to = "idle"
    <3>1. Works(p) = {}
      BY <1>2, <1>3, <2>1 DEF Preparing, Storing
    <3> QED  BY <1>1, <2>1, <3>1, RestsType
  <2>2. CASE to # "idle"
    <3>1. Moves(p, to) /\ to \in Preparing \cup Storing /\ (to = "put" => backend[p].index \in Days)
      BY <1>1, <1>2, <1>3, <2>2 DEF Storing
    <3> HIDE DEF to
    <3>2. PICK c \in States :
            /\ backend' = [backend EXCEPT ![p] = c] /\ c.at = to /\ c.index = backend[p].index
            /\ c.now = backend[p].now /\ c.later = backend[p].later
      BY <3>1, MovesType
    <3> QED  BY <1>3, <3>2 DEF Works
  <2> QED  BY <2>1, <2>2
<1>5. /\ made' \subseteq Indices /\ alias' \in {"nothing", "old", "typed"}
      /\ slipped' \subseteq Backends \X Days /\ indexed' = indexed /\ stray' = stray
      /\ alias = "typed" \/ at = "link" => alias' = "typed"
      /\ \A q \in Backends :
           backend[q].at = "makeDay" /\ backend[q].index \in made' => <<q, backend[q].index>> \in slipped'
      /\ at = "lookDay" => made' = made
  BY <1>1, PreparesFacts
<1>6. /\ indexed \in [Docs -> Nat] /\ unanswered \in [Docs -> Nat] /\ excused \subseteq Docs
      /\ outages \in 0 .. MaxOutages /\ boots \in 0 .. MaxBoots /\ unprepared \in BOOLEAN
      /\ stray \subseteq EventDocs /\ badItems \subseteq NetDocs /\ (stray # {} => unprepared)
  BY DEF SearchInv, SearchTypeOK, ServesPrepared
<1>7. LeavesNone(p, Works(p))
  BY <1>1, <1>3, <1>5 DEF LeavesNone
<1>8. /\ b.at \notin Storing => Works(p) = {}
      /\ b.at \in {"lookDay", "makeDay"} => b.index \in Days
      /\ b.at = "makeDay" /\ b.index \in made' => <<p, b.index>> \in slipped'
      /\ b.at \in {"idle"} \cup Storing => alias' = "typed" \/ unprepared'
  <2>1. at \in {"lookDay", "makeDay"} => at \in Storing
    BY DEF Storing
  <2>2. at \notin {"lookDay", "makeDay"} => at \notin Storing
    BY <1>1 DEF Preparing, Storing
  <2> QED  BY <1>1, <1>2, <1>3, <1>4, <1>5, <2>1, <2>2
<1> HIDE DEF at, to
<1> QED  BY <1>1, <1>4, <1>5, <1>6, <1>7, <1>8, SearchGoesOn

\* Documents are stored.
LEMMA PutKeeps ==
  ASSUME SearchInv, NEW p \in Backends, PutAnswered(p)
  PROVE  SearchInv'
<1> DEFINE now == backend[p].now
           later == backend[p].later
<1>1. /\ backend[p].at = "put" /\ (IF later = {} THEN Rests(p) ELSE Sends(p, later))
      /\ UNCHANGED <<waiting, outages, boots, unprepared, unanswered, excused>>
  BY DEF PutAnswered
<1>2. PICK items \in SUBSET (now \cap NetDocs) :
        Stores(p, now \ items) /\ badItems' = badItems \cup items
  BY DEF PutAnswered
<1>3. /\ Works(p) \subseteq Docs /\ now \cap later = {}
      /\ \A d \in Works(p) : indexed[d] <= unanswered[d]
      /\ alias = "typed" \/ unprepared
      /\ later \subseteq NetDocs
  BY <1>1, BackendType DEF Storing, States
<1>4. now \subseteq Docs /\ later \subseteq Docs /\ Works(p) = now \cup later
  BY <1>3 DEF Works
<1>5. PICK b \in States :
        /\ backend' = [backend EXCEPT ![p] = b] /\ b.at \in {"idle", "lookDay", "put"}
        /\ b.at = "lookDay" => b.index \in Days
        /\ b.now \cup b.later = later /\ b.now \cap b.later = {}
        /\ b.at = "idle" => later = {}
  <2>1. CASE later = {}
    BY <1>1, <2>1, RestsType
  <2>2. CASE later # {}
    BY <1>1, <1>3, <1>4, <2>2, SendsType
  <2> QED  BY <2>1, <2>2
<1>6. /\ made' \subseteq Indices /\ stray' \subseteq EventDocs
      /\ alias' = alias /\ slipped' = slipped
      /\ indexed' = [d \in Docs |-> IF d \in now \ items THEN indexed[d] + 1 ELSE indexed[d]]
      /\ indexed' \in [Docs -> Nat]
      /\ stray' # {} => stray # {} \/ alias # "typed"
      /\ \A q \in Backends :
           backend[q].at = "makeDay" /\ backend[q].index \in made' => <<q, backend[q].index>> \in slipped'
  BY <1>2, <1>4, StoresFacts
<1>7. /\ indexed \in [Docs -> Nat] /\ unanswered \in [Docs -> Nat] /\ excused \subseteq Docs
      /\ outages \in 0 .. MaxOutages /\ boots \in 0 .. MaxBoots /\ unprepared \in BOOLEAN
      /\ alias \in {"nothing", "old", "typed"} /\ slipped \subseteq Backends \X Days
      /\ badItems \subseteq NetDocs /\ (stray # {} => unprepared)
  BY DEF SearchInv, SearchTypeOK, ServesPrepared
<1>8. badItems' \subseteq NetDocs /\ badItems \subseteq badItems'
  BY <1>2, <1>7
<1>9. LeavesNone(p, later)
  <2> SUFFICES ASSUME NEW d \in Works(p)
               PROVE  IF d \in later THEN indexed'[d] <= unanswered'[d]
                      ELSE /\ indexed'[d] <= 1 + unanswered'[d]
                           /\ indexed'[d] > 0 \/ d \in excused' \cup badItems'
    BY DEF LeavesNone
  <2>1. d \in Docs /\ indexed[d] \in Nat /\ unanswered[d] \in Nat /\ indexed[d] <= unanswered[d]
    BY <1>3, <1>7
  <2>2. CASE d \in later
    <3>1. indexed'[d] = indexed[d]
      BY <1>3, <1>6, <2>1, <2>2
    <3> QED  BY <1>1, <2>1, <2>2, <3>1
  <2>3. CASE d \in items
    <3>1. indexed'[d] = indexed[d] /\ d \in badItems' /\ d \notin later
      BY <1>2, <1>3, <1>6, <2>1, <2>3
    <3> QED  BY <1>1, <2>1, <3>1
  <2>4. CASE d \in now \ items
    <3>1. indexed'[d] = indexed[d] + 1 /\ d \notin later
      BY <1>3, <1>6, <2>1, <2>4
    <3> QED  BY <1>1, <2>1, <3>1
  <2> QED  BY <1>4, <2>2, <2>3, <2>4
<1>10. \A d \in Docs \ Works(p) : indexed'[d] = indexed[d] /\ unanswered'[d] = unanswered[d]
  BY <1>1, <1>4, <1>6
<1>11. stray' # {} => unprepared
  BY <1>3, <1>6, <1>7
<1>12. later \subseteq Works(p) /\ (b.at \notin Storing => later = {}) /\ b.at # "makeDay"
  BY <1>4, <1>5 DEF Storing
<1> HIDE DEF now, later
<1> QED  BY <1>1, <1>3, <1>5, <1>6, <1>7, <1>8, <1>9, <1>10, <1>11, <1>12, SearchGoesOn

\* A process takes documents.
LEMMA TakenKeeps ==
  ASSUME SearchInv, NEW p \in Backends, NEW docs \in Batches, TakeDocuments(p, docs)
  PROVE  SearchInv'
<1> USE DEF SearchInv
<1>1. /\ backend[p].at = "idle" /\ docs \subseteq waiting /\ waiting' = waiting \ docs /\ Sends(p, docs)
      /\ UNCHANGED <<made, alias, indexed, stray, outages, boots, unprepared, unanswered,
                     badItems, excused, slipped>>
  BY DEF TakeDocuments, cluster, searchPast
<1>2. docs \subseteq Docs /\ (docs \subseteq NetDocs \/ \E d : docs = {d})
  BY DEF Batches, Docs, NetDocs
<1>3. PICK b \in States :
        /\ backend' = [backend EXCEPT ![p] = b] /\ b.at \in {"lookDay", "put"}
        /\ b.at = "lookDay" => b.index \in Days
        /\ b.now \cup b.later = docs /\ b.now \cap b.later = {}
  BY <1>1, <1>2, SendsType
<1>4. /\ backend'[p] = b /\ \A q \in Backends \ {p} : backend'[q] = backend[q]
      /\ backend' \in [Backends -> States]
  BY <1>3 DEF SearchTypeOK, States
<1>5. /\ Works(p) = {} /\ Works(p)' = docs /\ \A q \in Backends \ {p} : Works(q)' = Works(q)
      /\ \A d \in docs : ~ Held(d)
  <2>1. Works(p) = {}
    BY <1>1, BackendType DEF Storing
  <2>2. Works(p)' = docs /\ \A q \in Backends \ {p} : Works(q)' = Works(q)
    BY <1>3, <1>4 DEF Works
  <2> QED  BY <1>1, <2>1, <2>2 DEF DocumentsAreOne
<1>6. SearchTypeOK'
  BY <1>1, <1>4 DEF SearchTypeOK, States
<1>7. \A d \in Docs : /\ d \notin docs => (Held(d)' <=> Held(d))
                      /\ d \in docs => Held(d)' /\ d \notin waiting'
  BY <1>1, <1>5 DEF Held
<1>8. DocumentsAreOne'
  <2>1. \A d \in Docs : d \in waiting' \/ Held(d)' \/ indexed'[d] > 0 \/ d \in excused' \cup badItems'
    BY <1>1, <1>7 DEF DocumentsAreOne
  <2>2. \A d \in waiting' : ~ Held(d)'
    BY <1>1, <1>7 DEF DocumentsAreOne, SearchTypeOK
  <2>3. \A q, o \in Backends : \A d \in Docs : d \in Works(q)' /\ d \in Works(o)' => q = o
    <3> SUFFICES ASSUME NEW q \in Backends, NEW o \in Backends, NEW d \in Docs,
                        d \in Works(q)', d \in Works(o)'
                 PROVE  q = o
      OBVIOUS
    <3>1. CASE d \in docs
      BY <1>5, <3>1 DEF Held
    <3>2. CASE d \notin docs
      <4>1. d \in Works(q) /\ d \in Works(o)
        BY <1>5, <3>2
      <4> QED  BY <4>1 DEF DocumentsAreOne
    <3> QED  BY <3>1, <3>2
  <2>4. ASSUME NEW q \in Backends
        PROVE  /\ backend'[q].now \cap backend'[q].later = {}
               /\ backend'[q].at \notin Storing => Works(q)' = {}
               /\ backend'[q].at \in {"lookDay", "makeDay"} => backend'[q].index \in Days
    <3>1. CASE q = p
      BY <1>3, <1>4, <3>1 DEF Storing
    <3>2. CASE q # p
      BY <1>4, <1>5, <3>2 DEF DocumentsAreOne
    <3> QED  BY <3>1, <3>2
  <2> QED  BY <2>1, <2>2, <2>3, <2>4 DEF DocumentsAreOne
<1>9. StoredUnanswered'
  BY <1>1, <1>7 DEF StoredUnanswered
<1>10. MakersSlipped'
  BY <1>1, <1>3, <1>4 DEF MakersSlipped
<1>11. ServesPrepared'
  BY <1>1, <1>3, <1>4 DEF ServesPrepared
<1> QED  BY <1>6, <1>8, <1>9, <1>10, <1>11

\* A call that failed, whether it was taken or not, is tried again, or given up
\* with an excuse for every document of the process.
LEMMA GivesUpOrNot ==
  ASSUME SearchInv, NEW p \in Backends, RetryOrGiveUp(p), backend[p].at \in Preparing \cup Storing
  PROVE  /\ \E b \in States :
              /\ backend' = [backend EXCEPT ![p] = b]
              /\ \/ /\ b.at = backend[p].at /\ b.index = backend[p].index
                    /\ b.now = backend[p].now /\ b.later = backend[p].later
                 \/ /\ b.at = "idle" /\ b.now = {} /\ b.later = {}
                    /\ backend[p].at \in Preparing => alias = "typed" \/ unprepared'
                    /\ Works(p) \subseteq excused'
         /\ unprepared' \in BOOLEAN /\ (unprepared => unprepared')
         /\ excused \subseteq excused' /\ excused' \subseteq Docs
<1> USE DEF SearchInv
<1> DEFINE b == backend[p]
           enough == b.tried + 1 >= Tries
<1>1. /\ b \in States /\ Works(p) \subseteq Docs /\ backend \in [Backends -> States]
      /\ b.at \notin Storing => Works(p) = {}
  BY BackendType DEF SearchTypeOK, States
<1>2. Taken(b) => Works(p) = {} \/ <<p, b.index>> \in slipped
  BY <1>1 DEF Taken, Storing, MakersSlipped
<1>3. /\ unprepared' = (unprepared \/ (enough /\ b.at \in Preparing /\ alias # "typed"))
      /\ excused' = IF enough /\ (Taken(b) => <<p, b.index>> \in slipped)
                    THEN excused \cup b.now \cup b.later ELSE excused
  BY DEF RetryOrGiveUp
<1>4. excused \subseteq excused' /\ excused' \subseteq Docs
  BY <1>1, <1>3 DEF SearchTypeOK, Works
<1>5. unprepared' \in BOOLEAN
  BY ONLY <1>3
<1>6. unprepared => unprepared'
  BY <1>3
<1>7. CASE LastTry(b)
  <2>1. Rests(p) /\ enough
    BY <1>7 DEF RetryOrGiveUp, LastTry
  <2>2. PICK c \in States : /\ backend' = [backend EXCEPT ![p] = c]
                            /\ c.at = "idle" /\ c.now = {} /\ c.later = {}
    BY <2>1, RestsType
  <2>3. Works(p) \subseteq excused'
    <3>1. CASE Works(p) = {}
      BY <3>1
    <3>2. CASE Works(p) # {}
      BY <1>2, <1>3, <2>1, <3>2 DEF Works
    <3> QED  BY <3>1, <3>2
  <2>4. b.at \in Preparing => alias = "typed" \/ unprepared'
    BY <1>3, <2>1
  <2> QED  BY <1>4, <1>5, <1>6, <2>2, <2>3, <2>4
<1>8. CASE ~ LastTry(b)
  <2> DEFINE c == [b EXCEPT !.tried = @ + 1]
  <2>1. backend' = [backend EXCEPT ![p] = c]
    BY <1>1, <1>8 DEF RetryOrGiveUp, States
  <2>2. b.tried + 1 \in 0 .. Tries
    BY <1>1, <1>8, SearchConstants DEF LastTry, States
  <2>3. /\ c \in States /\ c.at = b.at /\ c.index = b.index
        /\ c.now = b.now /\ c.later = b.later
    BY <1>1, <2>2 DEF States
  <2> HIDE DEF c
  <2> QED  BY <1>4, <1>5, <1>6, <2>1, <2>3
<1> QED  BY <1>7, <1>8

\* A call fails, whatever it did in the cluster.
LEMMA FailedKeeps ==
  ASSUME SearchInv, NEW p \in Backends, RetryOrGiveUp(p), backend[p].at \in Preparing \cup Storing,
         UNCHANGED <<waiting, boots, badItems>>, outages' \in 0 .. MaxOutages,
         made' \subseteq Indices, alias' \in {"nothing", "old", "typed"},
         stray' \subseteq EventDocs, slipped' \subseteq Backends \X Days,
         indexed' \in [Docs -> Nat], unanswered' \in [Docs -> Nat],
         alias = "typed" => alias' = "typed",
         stray' # {} => stray # {} \/ (backend[p].at = "put" /\ alias # "typed"),
         \A q \in Backends :
           backend[q].at = "makeDay" /\ backend[q].index \in made' => <<q, backend[q].index>> \in slipped',
         \A d \in Docs \ Works(p) : indexed'[d] = indexed[d] /\ unanswered'[d] = unanswered[d],
         \A d \in Works(p) : indexed'[d] <= unanswered'[d]
  PROVE  SearchInv'
<1>1. PICK b \in States :
        /\ backend' = [backend EXCEPT ![p] = b]
        /\ \/ /\ b.at = backend[p].at /\ b.index = backend[p].index
              /\ b.now = backend[p].now /\ b.later = backend[p].later
           \/ /\ b.at = "idle" /\ b.now = {} /\ b.later = {}
              /\ backend[p].at \in Preparing => alias = "typed" \/ unprepared'
              /\ Works(p) \subseteq excused'
  BY GivesUpOrNot
<1>2. /\ unprepared' \in BOOLEAN /\ (unprepared => unprepared')
      /\ excused \subseteq excused' /\ excused' \subseteq Docs
  BY GivesUpOrNot
<1>3. /\ backend[p].at \notin Storing => Works(p) = {}
      /\ Works(p) \subseteq Docs /\ backend[p].now \cap backend[p].later = {}
      /\ backend[p].at \in {"lookDay", "makeDay"} => backend[p].index \in Days
      /\ backend[p].at \in Storing => alias = "typed" \/ unprepared
      /\ stray # {} => unprepared
      /\ badItems \subseteq NetDocs /\ boots \in 0 .. MaxBoots
  BY BackendType DEF SearchInv, ServesPrepared, SearchTypeOK
<1>4. stray' # {} => unprepared'
  BY <1>2, <1>3 DEF Storing
<1>5. CASE b.at = backend[p].at /\ b.index = backend[p].index
           /\ b.now = backend[p].now /\ b.later = backend[p].later
  <2>1. b.now \cup b.later = Works(p)
    BY <1>5 DEF Works
  <2>2. LeavesNone(p, Works(p))
    BY DEF LeavesNone
  <2>3. b.at \in {"idle"} \cup Storing => alias' = "typed" \/ unprepared'
    BY <1>2, <1>3, <1>5 DEF Preparing, Storing
  <2> QED  BY <1>1, <1>2, <1>3, <1>4, <1>5, <2>1, <2>2, <2>3, SearchGoesOn
<1>6. CASE /\ b.at = "idle" /\ b.now = {} /\ b.later = {}
           /\ backend[p].at \in Preparing => alias = "typed" \/ unprepared'
           /\ Works(p) \subseteq excused'
  <2>1. LeavesNone(p, {})
    <3>1. \A d \in Works(p) : indexed'[d] \in Nat /\ unanswered'[d] \in Nat
      BY <1>3
    <3> QED  BY <1>6, <3>1 DEF LeavesNone
  <2>2. alias' = "typed" \/ unprepared'
    BY <1>2, <1>3, <1>6
  <2>3. b.now \cup b.later = {} /\ b.now \cap b.later = {}
    BY <1>6
  <2>4. b.at = "idle" /\ b.at \notin Storing
    BY <1>6 DEF Storing
  <2> QED  BY <1>1, <1>2, <1>3, <1>4, <2>1, <2>2, <2>3, <2>4, SearchGoesOn
<1> QED  BY <1>1, <1>5, <1>6

\* A call is taken and its answer lost.
LEMMA LostKeeps ==
  ASSUME SearchInv, NEW p \in Backends, AnswerLost(p)
  PROVE  SearchInv'
<1> DEFINE b == backend[p]
<1>1. /\ ~ Taken(b) /\ RetryOrGiveUp(p) /\ UNCHANGED <<waiting, boots, badItems>>
      /\ outages < MaxOutages /\ outages' = outages + 1
  BY DEF AnswerLost, Outage
<1>2. /\ \A d \in Works(p) : indexed[d] <= unanswered[d]
      /\ Works(p) \subseteq Docs
  BY BackendType
<1>3. /\ indexed \in [Docs -> Nat] /\ unanswered \in [Docs -> Nat] /\ outages \in 0 .. MaxOutages
      /\ stray \subseteq EventDocs /\ alias \in {"nothing", "old", "typed"}
      /\ slipped \subseteq Backends \X Days
  BY DEF SearchInv, SearchTypeOK
<1>4. outages' \in 0 .. MaxOutages
  BY <1>1, <1>3, SearchConstants
<1>5. CASE b.at \in {"make", "makeDay", "link"} /\ Prepares(p) /\ unanswered' = unanswered
  <2>1. b.at \in Preparing \cup {"lookDay", "makeDay"} /\ b.at \in Preparing \cup Storing
    BY <1>5 DEF Preparing, Storing
  <2>2. /\ made' \subseteq Indices /\ alias' \in {"nothing", "old", "typed"}
        /\ slipped' \subseteq Backends \X Days /\ indexed' = indexed /\ stray' = stray
        /\ alias = "typed" => alias' = "typed"
        /\ \A q \in Backends :
             backend[q].at = "makeDay" /\ backend[q].index \in made' => <<q, backend[q].index>> \in slipped'
    BY <1>1, <1>5, <2>1, PreparesFacts
  <2> QED  BY <1>1, <1>2, <1>3, <1>4, <1>5, <2>1, <2>2, FailedKeeps
<1>6. ASSUME b.at = "put", NEW items \in SUBSET (b.now \cap NetDocs), Stores(p, b.now \ items),
             unanswered' = [d \in Docs |-> IF d \in b.now \ items THEN unanswered[d] + 1 ELSE unanswered[d]]
      PROVE  SearchInv'
  <2>1. b.now \subseteq Works(p) /\ b.now \ items \subseteq Docs
    BY <1>2 DEF Works
  <2>2. /\ made' \subseteq Indices /\ stray' \subseteq EventDocs
        /\ alias' = alias /\ slipped' = slipped
        /\ indexed' = [d \in Docs |-> IF d \in b.now \ items THEN indexed[d] + 1 ELSE indexed[d]]
        /\ indexed' \in [Docs -> Nat]
        /\ stray' # {} => stray # {} \/ alias # "typed"
        /\ \A q \in Backends :
             backend[q].at = "makeDay" /\ backend[q].index \in made' => <<q, backend[q].index>> \in slipped'
    BY <1>6, <2>1, StoresFacts
  <2>3. unanswered' \in [Docs -> Nat]
    BY <1>3, <1>6
  <2>4. \A d \in Docs \ Works(p) : indexed'[d] = indexed[d] /\ unanswered'[d] = unanswered[d]
    BY <1>6, <2>1, <2>2
  <2>5. \A d \in Works(p) : indexed'[d] <= unanswered'[d]
    BY <1>2, <1>3, <1>6, <2>2
  <2>6. b.at \in Preparing \cup Storing
    BY <1>6 DEF Storing
  <2> HIDE DEF b
  <2> QED  BY <1>1, <1>3, <1>4, <1>6, <2>2, <2>3, <2>4, <2>5, <2>6, FailedKeeps DEF b
<1> QED  BY <1>5, <1>6 DEF AnswerLost

\* A process dies with its documents.
LEMMA KilledKeeps ==
  ASSUME SearchInv, NEW p \in Backends, KillBackend(p)
  PROVE  SearchInv'
<1>1. /\ Stopped \in States /\ Stopped.now \cup Stopped.later = {} /\ Stopped.now \cap Stopped.later = {}
      /\ Stopped.at = "down"
  BY SearchConstants DEF Stopped, States
<1>2. /\ backend' = [backend EXCEPT ![p] = Stopped]
      /\ excused' = excused \cup Works(p)
      /\ UNCHANGED <<made, alias, indexed, stray, waiting, outages, boots, unprepared, unanswered,
                     badItems, slipped>>
  BY DEF KillBackend, cluster, Works
<1>3. /\ \A d \in Works(p) : indexed[d] <= unanswered[d]
      /\ Works(p) \subseteq Docs
      /\ stray # {} => unprepared
      /\ \A q \in Backends :
           backend[q].at = "makeDay" /\ backend[q].index \in made => <<q, backend[q].index>> \in slipped
  BY BackendType DEF SearchInv, ServesPrepared, MakersSlipped
<1>4. /\ made \subseteq Indices /\ alias \in {"nothing", "old", "typed"}
      /\ stray \subseteq EventDocs /\ slipped \subseteq Backends \X Days
      /\ boots \in 0 .. MaxBoots /\ outages \in 0 .. MaxOutages /\ unprepared \in BOOLEAN
      /\ indexed \in [Docs -> Nat] /\ unanswered \in [Docs -> Nat] /\ badItems \subseteq NetDocs
      /\ excused \subseteq excused' /\ excused' \subseteq Docs
  BY <1>2, <1>3 DEF SearchInv, SearchTypeOK
<1>5. LeavesNone(p, {})
  <2>1. \A d \in Works(p) : indexed[d] \in Nat /\ unanswered[d] \in Nat
    BY <1>3, <1>4
  <2> QED  BY <1>2, <1>3, <2>1 DEF LeavesNone
<1>6. Stopped.at \notin {"idle"} \cup Storing /\ Stopped.at \notin {"lookDay", "makeDay"}
  BY <1>1 DEF Storing
<1> QED  BY <1>1, <1>2, <1>3, <1>4, <1>5, <1>6, SearchGoesOn

\* However calls to OpenSearch fail, lose their answers and refuse documents of a
\* bulk: every document is in one place, and what is stored twice had no answer
\* (_retry_operation, _ensure_index, index_event, bulk_index_network_events).
THEOREM IndexCorrect == SearchSpec => [](SearchTypeOK /\ IndexIsWhole)
<1>1. SearchInit => SearchInv
  <2> SUFFICES ASSUME SearchInit  PROVE SearchInv
    OBVIOUS
  <2>1. \A p \in Backends : backend[p] = Stopped /\ Works(p) = {} /\ backend[p].at = "down"
                            /\ backend[p].now = {}
    BY DEF SearchInit, Stopped, Works
  <2>2. SearchTypeOK
    <3>1. Stopped \in States
      BY SearchConstants DEF Stopped, States
    <3>2. backend \in [Backends -> States]
      BY <3>1 DEF SearchInit
    <3>3. 0 \in 0 .. MaxOutages /\ 0 \in 0 .. MaxBoots
      BY SearchConstants
    <3> QED  BY <3>2, <3>3 DEF SearchInit, SearchTypeOK, States
  <2>3. DocumentsAreOne
    BY <2>1 DEF SearchInit, DocumentsAreOne, Held, Storing
  <2>4. StoredUnanswered
    BY DEF SearchInit, StoredUnanswered
  <2>5. MakersSlipped /\ ServesPrepared
    BY <2>1 DEF SearchInit, MakersSlipped, ServesPrepared, Storing
  <2> QED  BY <2>2, <2>3, <2>4, <2>5 DEF SearchInv
<1>2. SearchInv /\ [SearchNext]_searchVars => SearchInv'
  <2> SUFFICES ASSUME SearchInv, [SearchNext]_searchVars  PROVE SearchInv'
    OBVIOUS
  <2>1. CASE UNCHANGED searchVars
    BY <2>1 DEF SearchInv, SearchTypeOK, DocumentsAreOne, StoredUnanswered, MakersSlipped,
                ServesPrepared, Held, Works, searchVars, cluster, searchPast
  <2>2. ASSUME NEW p \in Backends, RetryOrGiveUp(p), backend[p].at \in Preparing \cup Storing,
               UNCHANGED <<cluster, waiting, boots, unanswered, badItems, slipped>>,
               outages' \in 0 .. MaxOutages
        PROVE  SearchInv'
    <3>1. /\ \A d \in Works(p) : indexed[d] <= unanswered[d]
          /\ \A q \in Backends :
               backend[q].at = "makeDay" /\ backend[q].index \in made => <<q, backend[q].index>> \in slipped
      BY BackendType DEF SearchInv, MakersSlipped
    <3>2. UNCHANGED <<made, alias, indexed, stray>>
      BY <2>2 DEF cluster
    <3>3. /\ made \subseteq Indices /\ alias \in {"nothing", "old", "typed"}
          /\ stray \subseteq EventDocs /\ slipped \subseteq Backends \X Days
          /\ indexed \in [Docs -> Nat] /\ unanswered \in [Docs -> Nat]
      BY DEF SearchInv, SearchTypeOK
    <3> QED  BY <2>2, <3>1, <3>2, <3>3, FailedKeeps
  <2>3. ASSUME NEW p \in Backends, CallRefused(p)  PROVE SearchInv'
    BY <2>2, <2>3 DEF CallRefused, Taken, Preparing, Storing, SearchInv, SearchTypeOK
  <2>4. ASSUME NEW p \in Backends, CallFails(p)  PROVE SearchInv'
    <3>1. outages' \in 0 .. MaxOutages
      BY <2>4, SearchConstants DEF CallFails, Outage, SearchInv, SearchTypeOK
    <3> QED  BY <2>2, <2>4, <3>1 DEF CallFails
  <2> QED  BY <2>1, <2>3, <2>4, StartKeeps, TakenKeeps, AnsweredKeeps, PutKeeps, LostKeeps, KilledKeeps
           DEF SearchNext
<1>3. SearchInv => IndexIsWhole
  BY DEF SearchInv, DocumentsAreOne, StoredUnanswered, ServesPrepared, IndexIsWhole, Finished, Held, Works
<1>4. SearchInv => SearchTypeOK
  BY DEF SearchInv
<1> QED  BY <1>1, <1>2, <1>3, <1>4, PTL DEF SearchSpec

-----------------------------------------------------------------------------
(* The live threat map: ThreatMap *)

Rising(s) == \A i, j \in 1 .. Len(s) : i < j => s[i] < s[j]

\* What Append does, in one place
LEMMA Appended ==
  ASSUME NEW S, NEW s \in Seq(S), NEW x \in S
  PROVE  /\ Append(s, x) \in Seq(S) /\ Len(Append(s, x)) = Len(s) + 1
         /\ \A i \in 1 .. Len(s) : Append(s, x)[i] = s[i]
         /\ Append(s, x)[Len(s) + 1] = x
OBVIOUS

\* The elements of a sequence
LEMMA Elements ==
  ASSUME NEW S, NEW s \in Seq(S)
  PROVE  ToSet(s) = {s[i] : i \in 1 .. Len(s)} /\ Len(s) \in Nat /\ ToSet(s) \subseteq S
         /\ \A i \in 1 .. Len(s) : s[i] \in S
<1>1. Len(s) \in Nat /\ DOMAIN s = 1 .. Len(s)
  OBVIOUS
<1>2. \A i \in 1 .. Len(s) : s[i] \in S
  OBVIOUS
<1> QED  BY <1>1, <1>2 DEF ToSet

\* An element greater than all others at the end
LEMMA AppendRises ==
  ASSUME NEW S \in SUBSET Nat, NEW s \in Seq(S), Rising(s), NEW x \in S, \A y \in ToSet(s) : y < x
  PROVE  /\ Rising(Append(s, x))
         /\ ToSet(Append(s, x)) = ToSet(s) \cup {x}
<1> DEFINE t == Append(s, x)
<1>1. /\ t \in Seq(S) /\ Len(t) = Len(s) + 1
      /\ \A i \in 1 .. Len(s) : t[i] = s[i]
      /\ t[Len(s) + 1] = x
  BY Appended
<1>2. /\ ToSet(s) = {s[i] : i \in 1 .. Len(s)} /\ Len(s) \in Nat
      /\ ToSet(t) = {t[i] : i \in 1 .. Len(t)}
  BY <1>1, Elements
<1> HIDE DEF t
<1>3. ToSet(t) = ToSet(s) \cup {x}
  <2>1. 1 .. Len(t) = (1 .. Len(s)) \cup {Len(s) + 1}
    BY <1>1, <1>2
  <2> QED  BY <1>1, <1>2, <2>1
<1>4. Rising(t)
  BY <1>1, <1>2 DEF Rising
<1> QED  BY <1>3, <1>4 DEF t

\* The first of the elements to come goes on to those that have gone, or is left out.
LEMMA HeadMoves ==
  ASSUME NEW S, NEW g \in Seq(S), NEW q \in Seq(S), q # <<>>
  PROVE  /\ Append(g, Head(q)) \o Tail(q) = g \o q
         /\ Head(q) \in S /\ Tail(q) \in Seq(S) /\ Append(g, Head(q)) \in Seq(S)
<1>1. /\ Head(q) \in S /\ Head(q) = q[1] /\ Tail(q) \in Seq(S) /\ Len(Tail(q)) = Len(q) - 1
      /\ \A i \in 1 .. Len(Tail(q)) : Tail(q)[i] = q[i + 1]
      /\ Len(q) \in Nat \ {0} /\ Len(g) \in Nat
  BY HeadTailProperties, EmptySeq
<1> DEFINE h == Append(g, Head(q))
           s == h \o Tail(q)
           t == g \o q
<1>2. /\ h \in Seq(S) /\ Len(h) = Len(g) + 1
      /\ \A i \in 1 .. Len(g) : h[i] = g[i]
      /\ h[Len(g) + 1] = q[1]
  BY <1>1, Appended
<1>3. /\ s \in Seq(S) /\ Len(s) = Len(h) + Len(Tail(q))
      /\ \A i \in 1 .. Len(h) + Len(Tail(q)) : s[i] = IF i <= Len(h) THEN h[i] ELSE Tail(q)[i - Len(h)]
  BY <1>1, <1>2, ConcatProperties
<1>4. /\ t \in Seq(S) /\ Len(t) = Len(g) + Len(q)
      /\ \A i \in 1 .. Len(g) + Len(q) : t[i] = IF i <= Len(g) THEN g[i] ELSE q[i - Len(g)]
  BY <1>1, ConcatProperties
<1> HIDE DEF h, s, t
<1>5. Len(s) = Len(t)
  BY <1>1, <1>2, <1>3, <1>4
<1>6. \A i \in 1 .. Len(s) : s[i] = t[i]
  <2> SUFFICES ASSUME NEW i \in 1 .. Len(g) + Len(q)  PROVE s[i] = t[i]
    BY <1>4, <1>5
  <2>1. CASE i <= Len(g)
    <3>1. i \in 1 .. Len(g) /\ i \in 1 .. Len(g) + Len(q) /\ i <= Len(h) /\ i \in 1 .. Len(h) + Len(Tail(q))
      BY <1>1, <1>2, <2>1
    <3>2. s[i] = h[i] /\ t[i] = g[i]
      BY <1>3, <1>4, <2>1, <3>1
    <3> QED  BY <1>2, <3>1, <3>2
  <2>2. CASE i = Len(g) + 1
    <3>1. /\ ~ (i <= Len(g)) /\ i - Len(g) = 1 /\ i \in 1 .. Len(g) + Len(q)
          /\ i <= Len(h) /\ i \in 1 .. Len(h) + Len(Tail(q))
      BY <1>1, <1>2, <2>2
    <3>2. s[i] = h[i] /\ t[i] = q[1]
      BY <1>3, <1>4, <3>1
    <3> QED  BY <1>2, <2>2, <3>2
  <2>3. CASE i > Len(g) + 1
    <3>1. i - Len(h) \in 1 .. Len(Tail(q)) /\ i - Len(h) + 1 = i - Len(g)
      BY <1>1, <1>2, <2>3
    <3>2. Tail(q)[i - Len(h)] = q[i - Len(g)]
      BY <1>1, <3>1
    <3>3. /\ ~ (i <= Len(h)) /\ i \in 1 .. Len(h) + Len(Tail(q))
          /\ ~ (i <= Len(g)) /\ i \in 1 .. Len(g) + Len(q)
      BY <1>1, <1>2, <2>3
    <3>4. s[i] = Tail(q)[i - Len(h)]
      BY <1>3, <3>3
    <3>5. t[i] = q[i - Len(g)]
      BY <1>4, <3>3
    <3> QED  BY <3>2, <3>4, <3>5
  <2> QED  BY <1>1, <2>1, <2>2, <2>3
<1>7. s = t
  BY <1>3, <1>4, <1>5, <1>6, SeqEqual
<1> QED  BY <1>1, <1>2, <1>7 DEF s, t, h

\* The first of the elements to come is left out.
LEMMA HeadLeft ==
  ASSUME NEW S \in SUBSET Nat, NEW g \in Seq(S), NEW q \in Seq(S), q # <<>>, Rising(g \o q)
  PROVE  /\ Rising(g \o Tail(q))
         /\ ToSet(g \o q) = ToSet(g \o Tail(q)) \cup {Head(q)}
<1>1. /\ Head(q) \in S /\ Head(q) = q[1] /\ Tail(q) \in Seq(S) /\ Len(Tail(q)) = Len(q) - 1
      /\ \A i \in 1 .. Len(Tail(q)) : Tail(q)[i] = q[i + 1]
      /\ Len(q) \in Nat \ {0} /\ Len(g) \in Nat
  BY HeadTailProperties, EmptySeq
<1> DEFINE s == g \o Tail(q)
           t == g \o q
           k == Len(g)
<1>2. /\ s \in Seq(S) /\ Len(s) = k + Len(q) - 1
      /\ \A i \in 1 .. Len(s) : s[i] = IF i <= k THEN g[i] ELSE Tail(q)[i - k]
  BY <1>1, ConcatProperties
<1>3. /\ t \in Seq(S) /\ Len(t) = k + Len(q)
      /\ \A i \in 1 .. Len(t) : t[i] = IF i <= k THEN g[i] ELSE q[i - k]
  BY <1>1, ConcatProperties
<1>4. k \in Nat /\ Len(s) \in Nat /\ Len(t) = Len(s) + 1 /\ k < Len(t)
  BY <1>1, <1>2, <1>3
<1> HIDE DEF s, t, k
<1>5. t[k + 1] = Head(q)
  <2>1. k + 1 \in 1 .. Len(t) /\ ~ (k + 1 <= k) /\ (k + 1) - k = 1
    BY <1>4
  <2> QED  BY <1>1, <1>3, <2>1
<1>6. \A i \in 1 .. Len(s) : s[i] = IF i <= k THEN t[i] ELSE t[i + 1]
  <2> SUFFICES ASSUME NEW i \in 1 .. Len(s)  PROVE s[i] = IF i <= k THEN t[i] ELSE t[i + 1]
    OBVIOUS
  <2>1. CASE i <= k
    <3>1. i \in 1 .. Len(t) /\ i <= k
      BY <1>4, <2>1
    <3>2. s[i] = g[i]
      BY <1>2, <3>1
    <3>3. t[i] = g[i]
      BY <1>3, <3>1
    <3> QED  BY <3>1, <3>2, <3>3
  <2>2. CASE i > k
    <3>1. i - k \in 1 .. Len(Tail(q)) /\ (i + 1) - k = (i - k) + 1 /\ i + 1 \in 1 .. Len(t) /\ ~ (i + 1 <= k)
      BY <1>1, <1>2, <1>4, <2>2
    <3>2. Tail(q)[i - k] = q[(i + 1) - k]
      BY <1>1, <3>1
    <3>3. s[i] = Tail(q)[i - k]
      BY <1>2, <2>2, <1>4
    <3>4. t[i + 1] = q[(i + 1) - k]
      BY <1>3, <3>1
    <3>5. ~ (i <= k)
      BY <1>4, <2>2
    <3> QED  BY <3>2, <3>3, <3>4, <3>5
  <2> QED  BY <1>4, <2>1, <2>2
<1>7. Rising(s)
  <2>1. Rising(t)
    BY DEF t
  <2> SUFFICES ASSUME NEW i \in 1 .. Len(s), NEW j \in 1 .. Len(s), i < j  PROVE s[i] < s[j]
    BY DEF Rising
  <2>2. i \in 1 .. Len(t) /\ i + 1 \in 1 .. Len(t) /\ j \in 1 .. Len(t) /\ j + 1 \in 1 .. Len(t)
    BY <1>4
  <2>3. t[i] < t[j] /\ t[i] < t[j + 1] /\ t[i + 1] < t[j + 1]
    <3>1. i < j + 1 /\ i + 1 < j + 1
      BY <1>4
    <3> QED  BY <2>1, <2>2, <3>1 DEF Rising
  <2>4. i <= k => s[i] = t[i]
    BY <1>6
  <2>5. ~ (i <= k) => s[i] = t[i + 1] /\ s[j] = t[j + 1]
    BY <1>4, <1>6
  <2>6. s[j] = t[j] \/ s[j] = t[j + 1]
    BY <1>6
  <2> QED  BY <2>3, <2>4, <2>5, <2>6
<1>8. ToSet(t) = ToSet(s) \cup {Head(q)}
  <2>1. ToSet(t) = {t[i] : i \in 1 .. Len(t)} /\ ToSet(s) = {s[i] : i \in 1 .. Len(s)}
    BY <1>2, <1>3, Elements
  <2>2. \A i \in 1 .. Len(s) : s[i] \in ToSet(t)
    <3> SUFFICES ASSUME NEW i \in 1 .. Len(s)  PROVE s[i] \in ToSet(t)
      OBVIOUS
    <3>1. i \in 1 .. Len(t) /\ i + 1 \in 1 .. Len(t)
      BY <1>4
    <3>2. s[i] = t[i] \/ s[i] = t[i + 1]
      BY <1>6
    <3> QED  BY <2>1, <3>1, <3>2, Zenon
  <2>3. Head(q) \in ToSet(t)
    BY <1>4, <1>5, <2>1
  <2>4. \A i \in 1 .. Len(t) : t[i] \in ToSet(s) \cup {Head(q)}
    <3> SUFFICES ASSUME NEW i \in 1 .. Len(t)  PROVE t[i] \in ToSet(s) \cup {Head(q)}
      OBVIOUS
    <3>1. CASE i <= k
      BY <1>4, <1>6, <2>1, <3>1
    <3>2. CASE i = k + 1
      BY <1>5, <3>2
    <3>3. CASE i > k + 1
      <4>1. i - 1 \in 1 .. Len(s) /\ i - 1 > k /\ (i - 1) + 1 = i
        BY <1>4, <3>3
      <4>2. s[i - 1] = t[i]
        BY <1>4, <1>6, <4>1
      <4> QED  BY <2>1, <4>1, <4>2
    <3> QED  BY <1>4, <3>1, <3>2, <3>3
  <2> QED  BY <2>1, <2>2, <2>3, <2>4
<1> QED  BY <1>7, <1>8 DEF s, t

-----------------------------------------------------------------------------
\* What has been sent or taken to be sent
GoneOf(k, g) == g \o (IF k.sending = 0 THEN <<>> ELSE <<k.sending>>)

StreamOf(k, g) == (GoneOf(k, g) \o k.replay) \o k.queue

\* Nothing is taken from the queue before the replay is sent, and a connection
\* that is not there has nothing.
PhasesAreApart ==
  \A c \in Conns :
    /\ conn[c].phase = "replay" => conn[c].sending = 0
    /\ conn[c].phase = "live" => conn[c].replay = <<>>
    /\ conn[c].phase \in {"off", "gone"} =>
         /\ conn[c].queue = <<>> /\ conn[c].replay = <<>> /\ conn[c].sending = 0
         /\ got[c] = <<>> /\ skipped[c] = {} /\ refused[c] = {}

StreamsRise ==
  \A c \in Conns : Subscribed(c) =>
    /\ first[c] \in 1 .. Newest + 1
    /\ Rising(StreamOf(conn[c], got[c]))
    /\ ToSet(StreamOf(conn[c], got[c])) \cup skipped[c] \cup refused[c] = first[c] .. Newest

HistoryTypes ==
  /\ first \in [Conns -> Nat] /\ got \in [Conns -> Seq(Events)]
  /\ skipped \in [Conns -> SUBSET Events] /\ refused \in [Conns -> SUBSET Events]

MapInv ==
  /\ MapTypeOK /\ HistoryTypes /\ counted = 1 .. Newest
  /\ PhasesAreApart /\ StreamsRise

\* A connection
LEMMA ConnType ==
  ASSUME MapTypeOK, HistoryTypes, NEW c \in Conns
  PROVE  /\ conn[c] \in Connections
         /\ got[c] \in Seq(Events)
         /\ conn[c].replay \in Seq(Events) /\ conn[c].queue \in Seq(Events) /\ Len(conn[c].queue) <= QueueMax
         /\ conn[c].sending \in Events \cup {0} /\ conn[c].mode \in Modes /\ conn[c].telemetry \in Telemetry
         /\ conn[c].phase \in {"off", "replay", "live", "gone"}
         /\ Newest \in Nat /\ Newest <= MaxEvents /\ Events \in SUBSET Nat /\ 0 \notin Events
<1>1. /\ conn[c] \in Connections /\ got[c] \in Seq(Events) /\ Len(conn[c].queue) <= QueueMax
      /\ Newest \in Nat /\ Newest <= MaxEvents
  BY DEF MapTypeOK, HistoryTypes, Newest
<1>2. Events \in SUBSET Nat /\ 0 \notin Events
  BY ThreatMapConstants DEF Events
<1>3. /\ conn[c].replay \in Seq(Events) /\ conn[c].queue \in Seq(Events)
      /\ conn[c].sending \in Events \cup {0} /\ conn[c].mode \in Modes /\ conn[c].telemetry \in Telemetry
      /\ conn[c].phase \in {"off", "replay", "live", "gone"}
  BY <1>1 DEF Connections
<1> QED  BY <1>1, <1>2, <1>3

\* The stream of a connection, and its parts
LEMMA StreamType ==
  ASSUME NEW k \in Connections, NEW g \in Seq(Events)
  PROVE  /\ GoneOf(k, g) \in Seq(Events) /\ StreamOf(k, g) \in Seq(Events)
         /\ GoneOf(k, g) \o k.replay \in Seq(Events)
         /\ k.sending = 0 => GoneOf(k, g) = g
         /\ k.sending # 0 => GoneOf(k, g) = Append(g, k.sending)
         /\ k.replay = <<>> => StreamOf(k, g) = GoneOf(k, g) \o k.queue
<1>1. k.sending \in Events \cup {0} /\ k.replay \in Seq(Events) /\ k.queue \in Seq(Events)
  BY DEF Connections
<1>2. /\ k.sending = 0 => GoneOf(k, g) = g
      /\ k.sending # 0 => GoneOf(k, g) = Append(g, k.sending)
  BY <1>1, ConcatEmptySeq, AppendIsConcat DEF GoneOf
<1>3. GoneOf(k, g) \in Seq(Events)
  BY <1>1, <1>2, AppendProperties
<1>4. GoneOf(k, g) \o k.replay \in Seq(Events)
  BY <1>1, <1>3, ConcatProperties
<1>5. StreamOf(k, g) \in Seq(Events)
  BY <1>1, <1>4, ConcatProperties DEF StreamOf
<1>6. k.replay = <<>> => StreamOf(k, g) = GoneOf(k, g) \o k.queue
  BY <1>3, ConcatEmptySeq DEF StreamOf
<1> QED  BY <1>2, <1>3, <1>4, <1>5, <1>6

\* One connection moves, and its stream is what it was.
LEMMA OneMoves ==
  ASSUME MapInv, NEW c \in Conns, NEW k \in Connections, conn' = [conn EXCEPT ![c] = k],
         Len(k.queue) <= QueueMax, UNCHANGED bus,
         first' \in [Conns -> Nat], got' \in [Conns -> Seq(Events)],
         skipped' \in [Conns -> SUBSET Events], refused' \in [Conns -> SUBSET Events],
         \A d \in Conns \ {c} : first'[d] = first[d] /\ got'[d] = got[d]
                                /\ skipped'[d] = skipped[d] /\ refused'[d] = refused[d],
         k.phase = "replay" => k.sending = 0,
         k.phase = "live" => k.replay = <<>>,
         k.phase \in {"off", "gone"} =>
           /\ k.queue = <<>> /\ k.replay = <<>> /\ k.sending = 0
           /\ got'[c] = <<>> /\ skipped'[c] = {} /\ refused'[c] = {},
         k.phase \in {"replay", "live"} =>
           /\ first'[c] \in 1 .. Newest + 1
           /\ Rising(StreamOf(k, got'[c]))
           /\ ToSet(StreamOf(k, got'[c])) \cup skipped'[c] \cup refused'[c] = first'[c] .. Newest
  PROVE  MapInv'
<1> USE DEF MapInv
<1>1. /\ conn'[c] = k /\ \A d \in Conns \ {c} : conn'[d] = conn[d]
      /\ conn' \in [Conns -> Connections]
  BY DEF MapTypeOK
<1>2. UNCHANGED <<published, recent, oldest, counted>> /\ Newest' = Newest
  BY DEF bus, Newest
<1>3. MapTypeOK'
  BY <1>1, <1>2 DEF MapTypeOK
<1>4. HistoryTypes'
  BY DEF HistoryTypes
<1>5. PhasesAreApart'
  <2>1. ASSUME NEW d \in Conns \ {c}
        PROVE  /\ conn'[d].phase = "replay" => conn'[d].sending = 0
               /\ conn'[d].phase = "live" => conn'[d].replay = <<>>
               /\ conn'[d].phase \in {"off", "gone"} =>
                    /\ conn'[d].queue = <<>> /\ conn'[d].replay = <<>> /\ conn'[d].sending = 0
                    /\ got'[d] = <<>> /\ skipped'[d] = {} /\ refused'[d] = {}
    BY <1>1 DEF PhasesAreApart
  <2> QED  BY <1>1, <2>1 DEF PhasesAreApart
<1>6. StreamsRise'
  <2>1. ASSUME NEW d \in Conns, conn'[d].phase \in {"replay", "live"}
        PROVE  /\ first'[d] \in 1 .. Newest + 1
               /\ Rising(StreamOf(conn'[d], got'[d]))
               /\ ToSet(StreamOf(conn'[d], got'[d])) \cup skipped'[d] \cup refused'[d] = first'[d] .. Newest
    <3>1. CASE d = c
      BY <1>1, <2>1, <3>1
    <3>2. CASE d # c
      BY <1>1, <2>1, <3>2 DEF StreamsRise, Subscribed
    <3> QED  BY <3>1, <3>2
  <2> QED  BY <1>2, <2>1 DEF StreamsRise, Subscribed
<1> QED  BY <1>2, <1>3, <1>4, <1>5, <1>6

\* A connection is opened on the ring, which ends with the newest event.
LEMMA ConnectKeeps ==
  ASSUME MapInv, NEW c \in Conns, Connect(c)
  PROVE  MapInv'
<1> USE DEF MapInv
<1> DEFINE n == Newest + 1 - oldest
           ring == [i \in 1 .. n |-> oldest + i - 1]
           k == [conn[c] EXCEPT !.phase = "replay", !.replay = ring]
<1>1. /\ conn[c].phase = "off"
      /\ conn' = [conn EXCEPT ![c].phase = "replay", ![c].replay = ring]
      /\ first' = [first EXCEPT ![c] = oldest]
      /\ UNCHANGED <<bus, got, skipped, refused>>
  BY DEF Connect
<1>2. Newest \in Nat /\ Newest <= MaxEvents /\ oldest \in 1 .. Newest + 1 /\ n \in Nat
  BY DEF MapTypeOK, Newest
<1>3. \A i \in 1 .. n : oldest + i - 1 \in Events
  BY <1>2, ThreatMapConstants DEF Events
<1>4. /\ ring \in Seq(Events) /\ Len(ring) = n
      /\ \A i \in 1 .. n : ring[i] = oldest + i - 1
  BY <1>2, <1>3
<1>5. conn[c] \in Connections /\ conn' = [conn EXCEPT ![c] = k]
  BY <1>1 DEF MapTypeOK
<1> HIDE DEF ring, n
<1>6. /\ k \in Connections /\ k.queue = conn[c].queue /\ k.phase = "replay" /\ k.replay = ring
      /\ k.sending = conn[c].sending
  BY <1>4, <1>5 DEF Connections
<1> HIDE DEF k
<1>7. /\ got[c] = <<>> /\ skipped[c] = {} /\ refused[c] = {} /\ k.queue = <<>> /\ k.sending = 0
      /\ Len(k.queue) <= QueueMax
  BY <1>1, <1>6, ThreatMapConstants DEF PhasesAreApart
<1>8. StreamOf(k, got[c]) = ring
  <2>1. GoneOf(k, got[c]) = <<>>
    BY <1>7, ConcatEmptySeq DEF GoneOf
  <2> QED  BY <1>4, <1>6, <1>7, <2>1, ConcatEmptySeq DEF StreamOf
<1>9. Rising(ring)
  BY <1>2, <1>4 DEF Rising
<1>10. ToSet(ring) = oldest .. Newest
  <2>1. ToSet(ring) = {ring[i] : i \in 1 .. n}
    BY <1>4, Elements
  <2>2. \A x \in oldest .. Newest : x - oldest + 1 \in 1 .. n /\ ring[x - oldest + 1] = x
    BY <1>2, <1>4 DEF n
  <2>3. \A i \in 1 .. n : ring[i] \in oldest .. Newest
    BY <1>2, <1>4 DEF n
  <2> QED  BY <2>1, <2>2, <2>3
<1>11. /\ first' \in [Conns -> Nat] /\ first'[c] = oldest
       /\ \A d \in Conns \ {c} : first'[d] = first[d]
  BY <1>1, <1>2 DEF HistoryTypes
<1>12. /\ got' \in [Conns -> Seq(Events)] /\ UNCHANGED <<bus, got, skipped, refused>>
       /\ skipped' \in [Conns -> SUBSET Events] /\ refused' \in [Conns -> SUBSET Events]
  BY <1>1 DEF HistoryTypes
<1> QED  BY <1>2, <1>5, <1>6, <1>7, <1>8, <1>9, <1>10, <1>11, <1>12, OneMoves

\* The first of the replay is sent.
LEMMA ReplayKeeps ==
  ASSUME MapInv, NEW c \in Conns, SendReplay(c)
  PROVE  MapInv'
<1> USE DEF MapInv
<1> DEFINE r == conn[c].replay
           g == got[c]
           k == [conn[c] EXCEPT !.replay = Tail(r)]
           g2 == Append(g, Head(r))
<1>1. /\ conn[c].phase = "replay" /\ r # <<>>
      /\ got' = [got EXCEPT ![c] = g2]
      /\ conn' = [conn EXCEPT ![c] = k]
      /\ UNCHANGED <<bus, first, skipped, refused>>
  BY DEF SendReplay, MapTypeOK
<1>2. conn[c] \in Connections /\ g \in Seq(Events) /\ r \in Seq(Events) /\ conn[c].sending = 0
      /\ Len(conn[c].queue) <= QueueMax
  BY <1>1, ConnType DEF PhasesAreApart
<1>3. /\ g2 \o Tail(r) = g \o r /\ Tail(r) \in Seq(Events) /\ g2 \in Seq(Events)
  <2>1. r # <<>> /\ g \in Seq(Events) /\ r \in Seq(Events)
    BY <1>1, <1>2
  <2> HIDE DEF r, g
  <2> QED  BY <2>1, HeadMoves
<1>4. /\ k \in Connections /\ k.phase = "replay" /\ k.sending = 0 /\ k.queue = conn[c].queue /\ k.replay = Tail(r)
  BY <1>1, <1>2, <1>3 DEF Connections
<1> HIDE DEF k, g2
<1>5. StreamOf(k, g2) = StreamOf(conn[c], g)
  BY <1>2, <1>3, <1>4, StreamType DEF StreamOf
<1>6. /\ got' \in [Conns -> Seq(Events)] /\ got'[c] = g2
      /\ \A d \in Conns \ {c} : got'[d] = got[d]
  BY <1>1, <1>3 DEF HistoryTypes
<1>7. /\ UNCHANGED <<bus, first, skipped, refused>> /\ first' \in [Conns -> Nat]
      /\ skipped' \in [Conns -> SUBSET Events] /\ refused' \in [Conns -> SUBSET Events]
  BY <1>1 DEF HistoryTypes
<1>8. /\ first[c] \in 1 .. Newest + 1
      /\ Rising(StreamOf(conn[c], g))
      /\ ToSet(StreamOf(conn[c], g)) \cup skipped[c] \cup refused[c] = first[c] .. Newest
  BY <1>1 DEF StreamsRise, Subscribed
<1> QED  BY <1>1, <1>2, <1>4, <1>5, <1>6, <1>7, <1>8, OneMoves

\* What a connection sends or hears beside events
LEMMA QuietKeeps ==
  ASSUME MapInv, NEW c \in Conns, SendSnapshot(c) \/ Receive(c)
  PROVE  MapInv'
<1> USE DEF MapInv
<1>1. PICK t \in Telemetry \cup {conn[c].telemetry} :
        LET k == [conn[c] EXCEPT !.phase = "live", !.telemetry = t]
        IN  conn' = [conn EXCEPT ![c] = k]
  <2>1. CASE SendSnapshot(c)
    <3>1. conn' = [conn EXCEPT ![c] = [conn[c] EXCEPT !.phase = "live", !.telemetry = conn[c].telemetry]]
      BY <2>1 DEF SendSnapshot, MapTypeOK, Connections
    <3> QED  BY <3>1
  <2>2. CASE Receive(c)
    <3>1. PICK t \in Telemetry : conn' = [conn EXCEPT ![c].telemetry = t]
      BY <2>2 DEF Receive
    <3>2. conn[c] \in Connections /\ conn[c].phase = "live"
      BY <2>2 DEF Receive, MapTypeOK, Connections
    <3>3. [conn[c] EXCEPT !.telemetry = t] = [conn[c] EXCEPT !.phase = "live", !.telemetry = t]
      BY <3>2 DEF Connections
    <3> QED  BY <3>1, <3>3
  <2> QED  BY <2>1, <2>2
<1> DEFINE k == [conn[c] EXCEPT !.phase = "live", !.telemetry = t]
<1>2. /\ conn[c] \in Connections /\ conn[c].replay = <<>> /\ Subscribed(c)
      /\ UNCHANGED <<bus, first, got, skipped, refused>>
      /\ Len(conn[c].queue) <= QueueMax /\ got[c] \in Seq(Events)
  BY ConnType DEF SendSnapshot, Receive, PhasesAreApart, past, Subscribed
<1>3. /\ k \in Connections /\ k.phase = "live" /\ k.sending = conn[c].sending
      /\ k.queue = conn[c].queue /\ k.replay = conn[c].replay
  BY <1>1, <1>2 DEF Connections
<1>4. conn' = [conn EXCEPT ![c] = k]
  BY <1>1
<1> HIDE DEF k
<1>5. StreamOf(k, got[c]) = StreamOf(conn[c], got[c])
  BY <1>3 DEF StreamOf, GoneOf
<1>6. /\ first' \in [Conns -> Nat] /\ got' \in [Conns -> Seq(Events)]
      /\ skipped' \in [Conns -> SUBSET Events] /\ refused' \in [Conns -> SUBSET Events]
  BY <1>2 DEF HistoryTypes
<1>7. /\ first[c] \in 1 .. Newest + 1
      /\ Rising(StreamOf(conn[c], got[c]))
      /\ ToSet(StreamOf(conn[c], got[c])) \cup skipped[c] \cup refused[c] = first[c] .. Newest
  BY <1>2 DEF StreamsRise
<1> QED  BY <1>2, <1>3, <1>4, <1>5, <1>6, <1>7, OneMoves

\* An event taken to be sent stays in the stream; one that is not wanted is
\* skipped.
LEMMA TakeKeeps ==
  ASSUME MapInv, NEW c \in Conns, TakeEvent(c)
  PROVE  MapInv'
<1> USE DEF MapInv
<1> DEFINE g == got[c]
           q == conn[c].queue
           n == Head(q)
           mode == ModeFor(Len(q) - 1, conn[c].telemetry)
           x == IF Wanted(mode, n) THEN n ELSE 0
           k == [conn[c] EXCEPT !.queue = Tail(q), !.mode = mode, !.sending = x]
<1>1. /\ conn[c].phase = "live" /\ conn[c].sending = 0 /\ q # <<>>
      /\ conn' = [conn EXCEPT ![c] = k]
      /\ skipped' = IF Wanted(mode, n) THEN skipped ELSE [skipped EXCEPT ![c] = @ \cup {n}]
      /\ UNCHANGED <<bus, first, got, refused>>
  BY DEF TakeEvent, MapTypeOK
<1>2. conn[c] \in Connections /\ g \in Seq(Events) /\ q \in Seq(Events) /\ conn[c].replay = <<>>
      /\ Len(q) <= QueueMax /\ Events \in SUBSET Nat /\ 0 \notin Events
  BY <1>1, ConnType DEF PhasesAreApart
<1>3. /\ Append(g, n) \o Tail(q) = g \o q /\ n \in Events /\ Tail(q) \in Seq(Events)
      /\ Len(Tail(q)) <= QueueMax
  <2>1. Append(g, n) \o Tail(q) = g \o q /\ n \in Events /\ Tail(q) \in Seq(Events)
    <3>1. g \in Seq(Events) /\ q \in Seq(Events) /\ q # <<>>
      BY <1>1, <1>2
    <3> HIDE DEF g, q
    <3> QED  BY <3>1, HeadMoves
  <2>2. Len(Tail(q)) = Len(q) - 1 /\ Len(q) \in Nat
    BY <1>1, <1>2, HeadTailProperties, LenProperties
  <2>3. Len(q) <= QueueMax /\ QueueMax \in Nat
    BY <1>2, ThreatMapConstants
  <2>4. Len(Tail(q)) <= QueueMax
    <3> HIDE DEF q
    <3> QED  BY <2>2, <2>3
  <2> QED  BY <2>1, <2>4
<1>4. mode \in Modes /\ x \in Events \cup {0}
  BY <1>3 DEF ModeFor, Modes
<1> HIDE DEF mode
<1>5. /\ k \in Connections /\ k.phase = "live" /\ k.queue = Tail(q) /\ k.replay = <<>>
      /\ k.sending = x
  BY <1>1, <1>2, <1>3, <1>4 DEF Connections
<1> HIDE DEF k, x
<1>6. Subscribed(c)
  BY <1>1 DEF Subscribed
<1>7. StreamOf(conn[c], g) = g \o q
  BY <1>1, <1>2, StreamType
<1>8. /\ first[c] \in 1 .. Newest + 1
      /\ Rising(g \o q)
      /\ ToSet(g \o q) \cup skipped[c] \cup refused[c] = first[c] .. Newest
  BY <1>6, <1>7 DEF StreamsRise
<1>9. /\ skipped' \in [Conns -> SUBSET Events]
      /\ \A d \in Conns \ {c} : skipped'[d] = skipped[d]
      /\ skipped'[c] = IF Wanted(mode, n) THEN skipped[c] ELSE skipped[c] \cup {n}
  BY <1>1, <1>3 DEF HistoryTypes
<1>10. /\ Rising(StreamOf(k, g))
       /\ ToSet(StreamOf(k, g)) \cup skipped'[c] \cup refused[c] = first[c] .. Newest
  <2>0. StreamOf(k, g) = GoneOf(k, g) \o Tail(q)
    BY <1>2, <1>5, StreamType
  <2>1. CASE Wanted(mode, n)
    <3>1. x = n /\ n # 0
      BY <1>2, <1>3, <2>1 DEF x
    <3>2. GoneOf(k, g) = Append(g, n)
      BY <1>2, <1>5, <3>1, StreamType
    <3>3. StreamOf(k, g) = Append(g, n) \o Tail(q)
      BY <2>0, <3>2
    <3>4. StreamOf(k, g) = g \o q
      BY <1>3, <3>3
    <3> QED  BY <1>8, <1>9, <2>1, <3>4
  <2>2. CASE ~ Wanted(mode, n)
    <3>1. x = 0
      BY <2>2 DEF x
    <3>2. StreamOf(k, g) = g \o Tail(q)
      BY <1>2, <1>5, <2>0, <3>1, StreamType
    <3>3. Rising(g \o Tail(q)) /\ ToSet(g \o q) = ToSet(g \o Tail(q)) \cup {n}
      BY <1>1, <1>2, <1>8, HeadLeft
    <3> QED  BY <1>8, <1>9, <2>2, <3>2, <3>3
  <2> QED  BY <2>1, <2>2
<1>11. /\ UNCHANGED <<bus, first, got, refused>> /\ first' \in [Conns -> Nat]
       /\ got' \in [Conns -> Seq(Events)] /\ refused' \in [Conns -> SUBSET Events]
  BY <1>1 DEF HistoryTypes
<1> QED  BY <1>1, <1>3, <1>5, <1>8, <1>9, <1>10, <1>11, OneMoves

\* The event taken is sent.
LEMMA SendKeeps ==
  ASSUME MapInv, NEW c \in Conns, SendEvent(c)
  PROVE  MapInv'
<1> USE DEF MapInv
<1> DEFINE g == got[c]
           x == conn[c].sending
           g2 == Append(g, x)
           k == [conn[c] EXCEPT !.sending = 0]
<1>1. /\ x # 0 /\ conn' = [conn EXCEPT ![c] = k] /\ got' = [got EXCEPT ![c] = g2]
      /\ UNCHANGED <<bus, first, skipped, refused>>
  BY DEF SendEvent, MapTypeOK
<1>2. conn[c] \in Connections /\ g \in Seq(Events) /\ x \in Events
      /\ Len(conn[c].queue) <= QueueMax
  BY <1>1, ConnType
<1>3. conn[c].phase = "live" /\ conn[c].replay = <<>> /\ Subscribed(c)
  BY <1>1, ConnType DEF PhasesAreApart, Subscribed
<1>4. /\ k \in Connections /\ k.phase = "live" /\ k.replay = conn[c].replay /\ k.queue = conn[c].queue
      /\ k.sending = 0 /\ g2 \in Seq(Events)
  BY <1>2, <1>3, AppendProperties DEF Connections
<1> HIDE DEF k
<1>5. StreamOf(k, g2) = StreamOf(conn[c], g)
  BY <1>1, <1>2, <1>4, StreamType DEF StreamOf
<1>6. /\ got' \in [Conns -> Seq(Events)] /\ got'[c] = g2
      /\ \A d \in Conns \ {c} : got'[d] = got[d]
  BY <1>1, <1>4 DEF HistoryTypes
<1>7. /\ UNCHANGED <<bus, first, skipped, refused>> /\ first' \in [Conns -> Nat]
      /\ skipped' \in [Conns -> SUBSET Events] /\ refused' \in [Conns -> SUBSET Events]
  BY <1>1 DEF HistoryTypes
<1>8. /\ first[c] \in 1 .. Newest + 1
      /\ Rising(StreamOf(conn[c], g))
      /\ ToSet(StreamOf(conn[c], g)) \cup skipped[c] \cup refused[c] = first[c] .. Newest
  BY <1>3 DEF StreamsRise
<1> HIDE DEF g2
<1> QED  BY <1>1, <1>2, <1>3, <1>4, <1>5, <1>6, <1>7, <1>8, OneMoves

\* Who leaves has nothing any more.
LEMMA DisconnectKeeps ==
  ASSUME MapInv, NEW c \in Conns, Disconnect(c)
  PROVE  MapInv'
<1> USE DEF MapInv
<1> DEFINE k == [NoConnection EXCEPT !.phase = "gone"]
<1>1. /\ conn' = [conn EXCEPT ![c] = k]
      /\ first' = [first EXCEPT ![c] = 0] /\ got' = [got EXCEPT ![c] = <<>>]
      /\ skipped' = [skipped EXCEPT ![c] = {}] /\ refused' = [refused EXCEPT ![c] = {}]
      /\ UNCHANGED bus
  BY DEF Disconnect
<1>2. /\ k \in Connections /\ k.phase = "gone" /\ k.queue = <<>> /\ k.replay = <<>> /\ k.sending = 0
  <2>1. <<>> \in Seq(Events)
    BY EmptySeq
  <2>2. k = [phase |-> "gone", replay |-> <<>>, queue |-> <<>>, sending |-> 0,
             mode |-> "raw", telemetry |-> "fine"]
    BY DEF NoConnection
  <2> HIDE DEF k
  <2> QED  BY <2>1, <2>2 DEF Connections, Modes, Telemetry
<1> HIDE DEF k
<1>3. /\ first' \in [Conns -> Nat] /\ got' \in [Conns -> Seq(Events)]
      /\ skipped' \in [Conns -> SUBSET Events] /\ refused' \in [Conns -> SUBSET Events]
      /\ \A d \in Conns \ {c} : first'[d] = first[d] /\ got'[d] = got[d]
                                /\ skipped'[d] = skipped[d] /\ refused'[d] = refused[d]
      /\ got'[c] = <<>> /\ skipped'[c] = {} /\ refused'[c] = {}
  BY <1>1 DEF HistoryTypes
<1>4. Len(k.queue) <= QueueMax
  BY <1>2, ThreatMapConstants
<1> QED  BY <1>1, <1>2, <1>3, <1>4, OneMoves

\* A new event is greater than all of a stream: it goes to the end of every
\* queue that has room, and is refused by the others.
LEMMA IngestKeeps ==
  ASSUME MapInv, NEW key \in Keys, NEW major \in BOOLEAN, NEW kept \in SUBSET recent,
         NEW from \in oldest .. Newest + 1, Ingest(key, major, kept, from)
  PROVE  MapInv'
<1> USE DEF MapInv
<1> DEFINE n == Newest + 1
<1>1. /\ n <= MaxEvents /\ published' = Append(published, major) /\ recent' = kept \cup {key}
      /\ oldest' = from /\ counted' = counted \cup {n}
      /\ conn' = [c \in Conns |-> IF Subscribed(c) /\ HasRoom(c)
                              THEN [conn[c] EXCEPT !.queue = Append(@, n)] ELSE conn[c]]
      /\ refused' = [c \in Conns |-> IF Subscribed(c) /\ ~ HasRoom(c)
                                 THEN refused[c] \cup {n} ELSE refused[c]]
      /\ UNCHANGED <<first, got, skipped>>
  BY DEF Ingest, Counted
<1>2. Newest \in Nat /\ Newest' = n /\ n \in Events /\ published' \in Seq(BOOLEAN) /\ Events \in SUBSET Nat
  BY <1>1, ThreatMapConstants DEF MapTypeOK, Newest, Events
<1>3. oldest' \in 1 .. n + 1 /\ recent' \subseteq Keys /\ counted' = 1 .. n
  BY <1>1, <1>2 DEF MapTypeOK
<1> HIDE DEF n
<1>4. ASSUME NEW c \in Conns
      PROVE  /\ conn'[c] \in Connections /\ Len(conn'[c].queue) <= QueueMax
             /\ refused'[c] \subseteq Events
             /\ conn'[c].phase = conn[c].phase /\ conn'[c].replay = conn[c].replay
             /\ conn'[c].sending = conn[c].sending
             /\ \/ /\ Subscribed(c) /\ refused'[c] = refused[c]
                   /\ conn'[c].queue = Append(conn[c].queue, n)
                \/ /\ Subscribed(c) /\ refused'[c] = refused[c] \cup {n}
                   /\ conn'[c] = conn[c]
                \/ /\ ~ Subscribed(c) /\ refused'[c] = refused[c]
                   /\ conn'[c] = conn[c]
  <2>1. conn[c] \in Connections /\ conn[c].queue \in Seq(Events) /\ Len(conn[c].queue) <= QueueMax
        /\ refused[c] \subseteq Events
    BY ConnType DEF HistoryTypes
  <2>2. CASE Subscribed(c) /\ HasRoom(c)
    <3> DEFINE q == Append(conn[c].queue, n)
               k == [conn[c] EXCEPT !.queue = q]
    <3>1. q \in Seq(Events) /\ Len(q) = Len(conn[c].queue) + 1 /\ Len(conn[c].queue) \in Nat
      BY <1>2, <2>1, AppendProperties
    <3>2. Len(q) <= QueueMax
      BY <2>2, <3>1, ThreatMapConstants DEF HasRoom
    <3> HIDE DEF q
    <3>3. /\ k \in Connections /\ k.queue = q /\ k.phase = conn[c].phase /\ k.replay = conn[c].replay
          /\ k.sending = conn[c].sending
      BY <2>1, <3>1 DEF Connections
    <3>4. conn'[c] = k /\ refused'[c] = refused[c]
      BY <1>1, <2>2 DEF q
    <3> HIDE DEF k
    <3> QED  BY <2>1, <2>2, <3>2, <3>3, <3>4 DEF q
  <2>3. CASE Subscribed(c) /\ ~ HasRoom(c)
    BY <1>1, <1>2, <2>1, <2>3
  <2>4. CASE ~ Subscribed(c)
    BY <1>1, <2>1, <2>4
  <2> QED  BY <2>2, <2>3, <2>4
<1>5. MapTypeOK'
  <2>1. conn' \in [Conns -> Connections]
    <3>1. DOMAIN conn' = Conns /\ conn' = [c \in Conns |-> conn'[c]]
      BY <1>1
    <3> QED  BY <1>4, <3>1
  <2>2. Newest' <= MaxEvents
    BY <1>1, <1>2
  <2> QED  BY <1>2, <1>3, <1>4, <2>1, <2>2 DEF MapTypeOK
<1>6. HistoryTypes'
  <2>1. refused' \in [Conns -> SUBSET Events]
    <3>1. refused' = [c \in Conns |-> refused'[c]]
      BY <1>1
    <3> QED  BY <1>4, <3>1
  <2> QED  BY <1>1, <2>1 DEF HistoryTypes
<1>7. PhasesAreApart'
  BY <1>1, <1>4 DEF PhasesAreApart, Subscribed
<1>8. StreamsRise'
  <2> SUFFICES ASSUME NEW c \in Conns, conn'[c].phase \in {"replay", "live"}
               PROVE  /\ first[c] \in 1 .. n + 1
                      /\ Rising(StreamOf(conn'[c], got[c]))
                      /\ ToSet(StreamOf(conn'[c], got[c])) \cup skipped[c] \cup refused'[c] = first[c] .. n
    BY <1>1, <1>2 DEF StreamsRise, Subscribed
  <2> DEFINE s == StreamOf(conn[c], got[c])
  <2>1. Subscribed(c)
    BY <1>4 DEF Subscribed
  <2>2. /\ first[c] \in 1 .. Newest + 1 /\ Rising(s)
        /\ ToSet(s) \cup skipped[c] \cup refused[c] = first[c] .. Newest
    BY <2>1 DEF StreamsRise
  <2>3. first[c] .. n = (first[c] .. Newest) \cup {n} /\ first[c] \in 1 .. n + 1
    BY <1>2, <2>2 DEF n
  <2>4. conn[c] \in Connections /\ got[c] \in Seq(Events) /\ s \in Seq(Events)
    BY ConnType, StreamType
  <2>5. CASE refused'[c] = refused[c] \cup {n} /\ conn'[c] = conn[c]
    BY <2>2, <2>3, <2>5
  <2>6. CASE refused'[c] = refused[c] /\ conn'[c].queue = Append(conn[c].queue, n)
    <3> DEFINE t == GoneOf(conn[c], got[c]) \o conn[c].replay
               q == conn[c].queue
    <3>1. t \in Seq(Events) /\ q \in Seq(Events)
      BY <2>4, StreamType, ConnType
    <3>2. t \o Append(q, n) = Append(t \o q, n)
      <4>1. Append(q, n) = q \o <<n>> /\ <<n>> \in Seq(Events)
        <5>1. n \in Events
          BY <1>2
        <5> HIDE DEF q, n
        <5>2. Append(q, n) = q \o <<n>>
          BY <3>1, <5>1, AppendIsConcat
        <5>3. <<n>> \in Seq(Events)
          BY <5>1
        <5> QED  BY <5>2, <5>3
      <4>2. Append(t \o q, n) = (t \o q) \o <<n>>
        BY <1>2, <3>1, AppendIsConcat, ConcatProperties
      <4> HIDE DEF t, q
      <4> QED  BY <3>1, <4>1, <4>2, ConcatAssociative
    <3>3. StreamOf(conn'[c], got[c]) = Append(s, n)
      BY <1>4, <2>6, <3>2 DEF StreamOf, GoneOf
    <3>4. \A y \in ToSet(s) : y < n
      <4>1. \A y \in ToSet(s) : y \in first[c] .. Newest
        BY <2>2
      <4> QED  BY <1>2, <2>2, <4>1 DEF n
    <3> HIDE DEF s
    <3>5. Rising(Append(s, n)) /\ ToSet(Append(s, n)) = ToSet(s) \cup {n}
      BY <1>2, <2>2, <2>4, <3>4, AppendRises
    <3> QED  BY <2>2, <2>3, <2>6, <3>3, <3>5
  <2> QED  BY <1>4, <2>1, <2>5, <2>6
<1> QED  BY <1>2, <1>3, <1>5, <1>6, <1>7, <1>8

\* At first there is no connection.
LEMMA MapInitHolds ==
  ASSUME MapInit
  PROVE  MapInv
<1>1. Newest = 0 /\ 0 \in Nat /\ published \in Seq(BOOLEAN) /\ <<>> \in Seq(Events)
  BY DEF MapInit, Newest
<1>2. NoConnection \in Connections /\ NoConnection.phase = "off" /\ NoConnection.queue = <<>>
      /\ NoConnection.replay = <<>> /\ NoConnection.sending = 0
  BY <1>1 DEF NoConnection, Connections, Modes, Telemetry
<1>3. \A c \in Conns : conn[c] = NoConnection /\ got[c] = <<>> /\ skipped[c] = {} /\ refused[c] = {}
  BY DEF MapInit
<1>4. MapTypeOK
  BY <1>1, <1>2, <1>3, ThreatMapConstants DEF MapInit, MapTypeOK
<1>5. HistoryTypes
  BY <1>1 DEF MapInit, HistoryTypes
<1>6. counted = 1 .. Newest
  BY <1>1 DEF MapInit
<1>7. PhasesAreApart /\ StreamsRise
  BY <1>2, <1>3 DEF PhasesAreApart, StreamsRise, Subscribed
<1> QED  BY <1>4, <1>5, <1>6, <1>7 DEF MapInv

\* Every step keeps the streams.
LEMMA MapStep == MapInv /\ [MapNext]_mapVars => MapInv'
<1> SUFFICES ASSUME MapInv, [MapNext]_mapVars  PROVE MapInv'
  OBVIOUS
<1>1. CASE UNCHANGED mapVars
  BY <1>1 DEF MapInv, MapTypeOK, HistoryTypes, PhasesAreApart, StreamsRise, Subscribed, Newest,
              mapVars, bus, past
<1> QED  BY <1>1, IngestKeeps, ConnectKeeps, ReplayKeeps, QuietKeeps, TakeKeeps, SendKeeps,
            DisconnectKeeps DEF MapNext, IngestAny

\* A connection gets every event from its ring on, once and in order, but for
\* those it refused or skipped, which the aggregates count (ThreatEventBus,
\* ws_threatmap).
THEOREM StreamCorrect == MapSpec => [](MapTypeOK /\ StreamIsWhole)
<1>1. MapInv => StreamIsWhole
  <2> SUFFICES ASSUME MapInv, NEW c \in Conns, Subscribed(c)
               PROVE  /\ \A i \in 1 .. Len(Stream(c)) - 1 : Stream(c)[i] < Stream(c)[i + 1]
                      /\ ToSet(Stream(c)) \cup skipped[c] \cup refused[c] = first[c] .. Newest
                      /\ skipped[c] \cup refused[c] \subseteq counted
    BY DEF StreamIsWhole
  <2>1. Stream(c) = StreamOf(conn[c], got[c]) /\ Stream(c) \in Seq(Events)
    BY ConnType, StreamType DEF MapInv, Stream, StreamOf, GoneOf
  <2>2. /\ first[c] \in 1 .. Newest + 1 /\ Newest \in Nat
        /\ Rising(Stream(c))
        /\ ToSet(Stream(c)) \cup skipped[c] \cup refused[c] = first[c] .. Newest
    BY <2>1, ConnType DEF MapInv, StreamsRise
  <2>3. \A i \in 1 .. Len(Stream(c)) - 1 : Stream(c)[i] < Stream(c)[i + 1]
    <3>1. Len(Stream(c)) \in Nat
      BY <2>1
    <3>2. \A i \in 1 .. Len(Stream(c)) - 1 : i \in 1 .. Len(Stream(c)) /\ i + 1 \in 1 .. Len(Stream(c)) /\ i < i + 1
      BY <3>1
    <3> QED  BY <2>2, <3>2 DEF Rising
  <2>4. first[c] .. Newest \subseteq counted
    BY <2>2 DEF MapInv
  <2> QED  BY <2>2, <2>3, <2>4
<1>2. MapInv => MapTypeOK
  BY DEF MapInv
<1> QED  BY <1>1, MapInitHolds, MapStep, <1>2, PTL DEF MapSpec

\* A queue that is full is taken from in the mode that sends aggregates only, so
\* that what is dropped is known to be (ws_threatmap).
THEOREM DropsCorrect == MapSpec => DropsSwitchMode
<1>1. MapInv /\ [MapNext]_mapVars =>
        [\A c \in Conns :
           Len(conn[c].queue) = QueueMax /\ Len(conn'[c].queue) = QueueMax - 1
           => conn'[c].mode = "agg_only"]_mapVars
  <2> SUFFICES ASSUME MapInv, MapNext, NEW c \in Conns,
                      Len(conn[c].queue) = QueueMax, Len(conn'[c].queue) = QueueMax - 1
               PROVE  conn'[c].mode = "agg_only"
    BY DEF mapVars
  <2> USE DEF MapInv
  <2>0. /\ conn[c] \in Connections /\ conn \in [Conns -> Connections]
        /\ QueueMax \in Nat /\ AggAt \in Nat /\ AggAt < QueueMax - 1 /\ 0 < QueueMax - 1
        /\ QueueMax # QueueMax - 1 /\ QueueMax + 1 # QueueMax - 1
    BY ThreatMapConstants DEF MapTypeOK
  <2>1. conn'[c].queue # conn[c].queue /\ conn'[c].queue # <<>>
    BY <2>0
  <2>2. ASSUME IngestAny  PROVE FALSE
    <3>1. PICK n \in Events : conn'[c].queue = conn[c].queue \/ conn'[c].queue = Append(conn[c].queue, n)
      <4>1. Newest + 1 \in Events
        BY <2>2, ThreatMapConstants DEF IngestAny, Ingest, Events, MapTypeOK, Newest
      <4> QED  BY <2>0, <2>2, <4>1 DEF IngestAny, Ingest
    <3>2. Len(Append(conn[c].queue, n)) = QueueMax + 1
      BY <3>1, ConnType, AppendProperties
    <3> QED  BY <2>0, <2>1, <3>1, <3>2
  <2>3. ASSUME NEW d \in Conns, Connect(d) \/ SendReplay(d) \/ SendSnapshot(d) \/ SendEvent(d) \/ Receive(d)
        PROVE  FALSE
    <3>1. conn'[c].queue = conn[c].queue
      <4>1. conn[d] \in Connections /\ (d # c => conn'[c] = conn[c])
        BY <2>0, <2>3 DEF MapTypeOK, Connect, SendReplay, SendSnapshot, SendEvent, Receive
      <4>2. CASE Connect(d)
        BY <2>0, <4>1, <4>2 DEF Connect, Connections
      <4>3. CASE SendReplay(d)
        BY <2>0, <4>1, <4>3 DEF SendReplay, Connections
      <4>4. CASE SendSnapshot(d) \/ SendEvent(d) \/ Receive(d)
        BY <2>0, <4>1, <4>4 DEF SendSnapshot, SendEvent, Receive, Connections
      <4> QED  BY <2>3, <4>2, <4>3, <4>4
    <3> QED  BY <2>1, <3>1
  <2>4. ASSUME NEW d \in Conns, Disconnect(d)  PROVE FALSE
    <3>1. conn'[c] = conn[c] \/ conn'[c].queue = <<>>
      BY <2>0, <2>4 DEF Disconnect, NoConnection
    <3> QED  BY <2>1, <3>1
  <2>5. ASSUME NEW d \in Conns, TakeEvent(d)  PROVE conn'[c].mode = "agg_only"
    <3>1. d = c
      BY <2>0, <2>1, <2>5 DEF TakeEvent
    <3>2. conn'[c].mode = ModeFor(QueueMax - 1, conn[c].telemetry)
      BY <2>0, <2>5, <3>1 DEF TakeEvent
    <3> QED  BY <2>0, <3>2 DEF ModeFor
  <2> QED  BY <2>2, <2>3, <2>4, <2>5 DEF MapNext
<1> QED  BY <1>1, MapInitHolds, MapStep, PTL DEF MapSpec, DropsSwitchMode

-----------------------------------------------------------------------------
(* The reports of passwords: PasswordGuard *)

\* The bucket of a process is the end of what it let through: what it dropped
\* left the window, and stays out of it.
Recent(a, b, now) ==
  /\ Len(b) <= Len(a) /\ Len(b) <= RateLimit
  /\ \A i \in 1 .. Len(b) : b[i] = a[Len(a) - Len(b) + i]
  /\ \A i \in 1 .. Len(a) - Len(b) : now - a[i] > Window

\* As many reports as the limit allows take longer than the window.
Apart(a) == \A i \in 1 .. Len(a) - RateLimit : a[i + RateLimit] - a[i] > Window

BucketIsRecent ==
  \A s \in Servers : Recent(accepted[s], bucket[s], clock) /\ Apart(accepted[s])

\* Facts about numbers, apart from sequences, where the provers find them: an index
\* is the last, or one before it.
LEMMA LastOrBefore == \A x \in Nat : \A i \in 1 .. x + 1 : i = x + 1 \/ i \in 1 .. x
  OBVIOUS

\* What is left of a bucket has room for one more.
LEMMA DropFirst ==
  \A n, m, limit \in Nat, k \in Nat :
    m <= n /\ k <= m /\ m - k < limit => m - k + 1 <= n + 1 /\ m - k + 1 <= limit
  OBVIOUS

\* What is as far from the end as the limit is not in a bucket below the limit.
LEMMA UpTo ==
  \A n, x, limit \in Nat : \A i \in 1 .. (n + 1) - limit : x + 1 <= limit => i \in 1 .. (n + 1) - (x + 1)
  OBVIOUS

\* A pair a limit apart that does not end in the new entry was there before.
LEMMA BelowLimit ==
  \A n, limit \in Nat : \A i \in 1 .. (n + 1) - limit :
    i + limit # n + 1 => i \in 1 .. n - limit /\ i \in 1 .. n /\ i + limit \in 1 .. n
  OBVIOUS

\* What is left of a sequence without its first k elements
LEMMA SuffixOf ==
  ASSUME NEW S, NEW s \in Seq(S), NEW n \in Nat, n = Len(s), NEW k \in 0 .. n,
         NEW f, f = k + 1, NEW r, r = SubSeq(s, f, n)
  PROVE  r \in Seq(S) /\ Len(r) = n - k /\ \A i \in 1 .. n - k : r[i] = s[k + i]
<1>1. f \in Int /\ n \in Int /\ \A i \in f .. n : s[i] \in S
  OBVIOUS
<1>2. /\ r \in Seq(S) /\ Len(r) = IF f <= n THEN n - f + 1 ELSE 0
      /\ \A i \in 1 .. n - f + 1 : r[i] = s[f + i - 1]
  <2>1. /\ SubSeq(s, f, n) \in Seq(S) /\ Len(SubSeq(s, f, n)) = IF f <= n THEN n - f + 1 ELSE 0
        /\ \A i \in 1 .. n - f + 1 : SubSeq(s, f, n)[i] = s[f + i - 1]
    BY <1>1, SubSeqProperties
  <2> QED  BY <2>1
<1>3. (IF f <= n THEN n - f + 1 ELSE 0) = n - k /\ n - f + 1 = n - k
  OBVIOUS
<1>4. \A i \in 1 .. n - k : k + 1 + i - 1 = k + i
  OBVIOUS
<1>5. \A i \in 1 .. n - k : r[i] = s[k + i]
  BY <1>2, <1>3, <1>4
<1> QED  BY <1>2, <1>3, <1>5

\* Old entries are dropped at one end, and the new one is put to the other.
LEMMA WindowMoves ==
  ASSUME NEW a \in Seq(0 .. MaxTime), NEW b \in Seq(0 .. MaxTime), NEW now \in 0 .. MaxTime,
         NEW n \in Nat, n = Len(a), NEW m \in Nat, m = Len(b),
         Recent(a, b, now), Apart(a), NEW k \in 0 .. Len(b),
         \A i \in 1 .. k : now - b[i] > Window, Len(b) - k < RateLimit,
         NEW b2, b2 = Append(SubSeq(b, k + 1, Len(b)), now),
         NEW a2, a2 = Append(a, now)
  PROVE  /\ a2 \in Seq(0 .. MaxTime) /\ b2 \in Seq(0 .. MaxTime)
         /\ Recent(a2, b2, now) /\ Apart(a2)
<1>1. MaxTime \in Nat /\ RateLimit \in Nat /\ Window \in Nat
  BY GuardConstants
<1>3. PICK r \in Seq(0 .. MaxTime) :
        r = SubSeq(b, k + 1, Len(b)) /\ Len(r) = m - k /\ \A i \in 1 .. m - k : r[i] = b[k + i]
  <2> DEFINE r == SubSeq(b, k + 1, Len(b))
  <2>1. r \in Seq(0 .. MaxTime) /\ Len(r) = m - k /\ \A i \in 1 .. m - k : r[i] = b[k + i]
    <3> DEFINE T == 0 .. MaxTime
               f == k + 1
    <3>1. f = k + 1 /\ r = SubSeq(b, f, m) /\ k \in 0 .. m /\ b \in Seq(T) /\ m \in Nat /\ m = Len(b)
      OBVIOUS
    <3> HIDE DEF r, f, T
    <3>2. r \in Seq(T) /\ Len(r) = m - k /\ \A i \in 1 .. m - k : r[i] = b[k + i]
      BY <3>1, SuffixOf
    <3> QED  BY <3>2 DEF T
  <2> QED  BY <2>1
<1>4. /\ a2 \in Seq(0 .. MaxTime) /\ b2 \in Seq(0 .. MaxTime)
      /\ Len(b2) = m - k + 1 /\ Len(a2) = n + 1
      /\ \A i \in 1 .. m - k : b2[i] = r[i]
      /\ b2[m - k + 1] = now
      /\ \A i \in 1 .. n : a2[i] = a[i]
      /\ a2[n + 1] = now
  <2>1. b2 = Append(r, now) /\ a2 = Append(a, now)
    BY <1>3
  <2>2. /\ a2 \in Seq(0 .. MaxTime) /\ Len(a2) = n + 1
        /\ \A i \in 1 .. n : a2[i] = a[i]
        /\ a2[n + 1] = now
    BY <2>1
  <2>3. /\ b2 \in Seq(0 .. MaxTime) /\ Len(b2) = m - k + 1
        /\ \A i \in 1 .. m - k : b2[i] = r[i]
        /\ b2[m - k + 1] = now
    BY <1>3, <2>1
  <2> QED  BY <2>2, <2>3
<1>5. /\ m <= n /\ m <= RateLimit /\ k \in 0 .. m
      /\ \A i \in 1 .. m : b[i] = a[n - m + i]
      /\ \A i \in 1 .. n - m : now - a[i] > Window
      /\ m - k < RateLimit
  BY DEF Recent
<1>5a. m <= n /\ m <= RateLimit /\ k \in 0 .. m /\ k \in Nat /\ m - k < RateLimit
  BY <1>5
<1>5b. k <= m /\ m - k \in Nat
  BY <1>5a
<1>6. \A i \in 1 .. m - k + 1 : b2[i] = a2[(n + 1) - (m - k + 1) + i]
  <2> SUFFICES ASSUME NEW i \in 1 .. m - k + 1  PROVE b2[i] = a2[(n + 1) - (m - k + 1) + i]
    OBVIOUS
  <2>1. (n + 1) - (m - k + 1) + i = n - m + (k + i)
    BY <1>5
  <2>2. CASE i = m - k + 1
    BY <1>4, <1>5, <2>1, <2>2
  <2>3. CASE i \in 1 .. m - k
    <3>1. k + i \in 1 .. m /\ n - m + (k + i) \in 1 .. n
      BY <1>5, <2>3
    <3>2. b[k + i] = a[n - m + (k + i)]
      BY <1>5, <3>1
    <3>3. b2[i] = b[k + i]
      BY <1>3, <1>4, <2>3
    <3>4. a2[n - m + (k + i)] = a[n - m + (k + i)]
      BY <1>4, <3>1
    <3> QED  BY <2>1, <3>2, <3>3, <3>4
  <2>4. i = m - k + 1 \/ i \in 1 .. m - k
    BY <1>5a, <1>5b, LastOrBefore
  <2> QED  BY <2>2, <2>3, <2>4
<1>7. \A i \in 1 .. (n + 1) - (m - k + 1) : now - a2[i] > Window
  <2> SUFFICES ASSUME NEW i \in 1 .. n - m + k  PROVE now - a2[i] > Window
    BY <1>5
  <2>0. i \in 1 .. n /\ a2[i] = a[i]
    BY <1>4, <1>5
  <2>1. CASE i <= n - m
    BY <1>5, <2>0, <2>1
  <2>2. CASE i > n - m
    <3> DEFINE j == i - (n - m)
    <3>1. j \in 1 .. k /\ j \in 1 .. m /\ n - m + j = i
      BY <1>5, <2>2
    <3> HIDE DEF j
    <3>2. b[j] = a[i]
      BY <1>5, <3>1
    <3> QED  BY <2>0, <3>1, <3>2
  <2> QED  BY <1>5, <2>1, <2>2
<1>8. Len(b2) <= Len(a2) /\ Len(b2) <= RateLimit
  <2>1. m - k + 1 <= n + 1 /\ m - k + 1 <= RateLimit
    BY <1>1, <1>5a, <1>5b, DropFirst
  <2>2. Len(b2) = m - k + 1 /\ Len(a2) = n + 1
    BY <1>4
  <2> QED  BY <2>1, <2>2
<1>9. Recent(a2, b2, now)
  BY <1>4, <1>6, <1>7, <1>8 DEF Recent
<1>10. Apart(a2)
  <2> SUFFICES ASSUME NEW i \in 1 .. (n + 1) - RateLimit
               PROVE  a2[i + RateLimit] - a2[i] > Window
    BY <1>4 DEF Apart
  <2>1. CASE i + RateLimit = n + 1
    <3>1. i \in 1 .. (n + 1) - (m - k + 1)
      <4>1. m - k + 1 <= RateLimit
        BY <1>1, <1>5a, <1>5b, DropFirst
      <4> QED  BY <1>1, <1>5b, <2>1, <4>1, UpTo
    <3> QED  BY <1>4, <1>7, <2>1, <3>1
  <2>2. CASE i + RateLimit # n + 1
    <3>1. i \in 1 .. n - RateLimit /\ i \in 1 .. n /\ i + RateLimit \in 1 .. n
      BY <1>1, <2>2, BelowLimit
    <3>2. a[i + RateLimit] - a[i] > Window
      BY <3>1 DEF Apart
    <3> QED  BY <1>4, <3>1, <3>2
  <2> QED  BY <2>1, <2>2
<1> QED  BY <1>4, <1>9, <1>10

\* A report that is let through
LEMMA AcceptKeepsBucket ==
  ASSUME GuardTypeOK, BucketIsRecent, NEW s \in Servers, AcceptReport(s)
  PROVE  BucketIsRecent' /\ bucket' \in [Servers -> Seq(0 .. MaxTime)] /\ accepted' \in [Servers -> Seq(0 .. MaxTime)]
<1>1. PICK k \in 0 .. Len(bucket[s]) :
        /\ \A i \in 1 .. k : clock - bucket[s][i] > Window
        /\ Len(bucket[s]) - k < RateLimit
        /\ bucket' = [bucket EXCEPT ![s] = Append(SubSeq(bucket[s], k + 1, Len(bucket[s])), clock)]
  BY DEF AcceptReport, Old
<1>2. accepted' = [accepted EXCEPT ![s] = Append(accepted[s], clock)] /\ clock' = clock
  BY DEF AcceptReport
<1> DEFINE b2 == Append(SubSeq(bucket[s], k + 1, Len(bucket[s])), clock)
           a2 == Append(accepted[s], clock)
<1>3. /\ a2 \in Seq(0 .. MaxTime) /\ b2 \in Seq(0 .. MaxTime)
      /\ Recent(a2, b2, clock) /\ Apart(a2)
  <2>1. accepted[s] \in Seq(0 .. MaxTime) /\ bucket[s] \in Seq(0 .. MaxTime) /\ clock \in 0 .. MaxTime
        /\ Recent(accepted[s], bucket[s], clock) /\ Apart(accepted[s])
    BY DEF GuardTypeOK, BucketIsRecent
  <2>2. Len(accepted[s]) \in Nat /\ Len(bucket[s]) \in Nat
    BY <2>1
  <2> QED  BY <1>1, <2>1, <2>2, WindowMoves
<1>4. bucket' = [bucket EXCEPT ![s] = b2] /\ accepted' = [accepted EXCEPT ![s] = a2]
  BY <1>1, <1>2
<1> HIDE DEF a2, b2
<1> QED  BY <1>2, <1>3, <1>4 DEF BucketIsRecent, GuardTypeOK

-----------------------------------------------------------------------------
ReportHandlers == [at : AtWork, event : DOMAIN reports, alert : 0 .. warnings]

\* The servers at a step, and what of the alerts nobody links
Doing(s, at) == serving[s].at = at
Working(s)   == serving[s].at \in AtWork
Linking      == {serving[s].event : s \in {t \in Servers : Doing(t, "link")}}
Unlinked     == {a \in 1 .. warnings : \A e \in DOMAIN reports : reports[e].alert # a}

\* Every handler has an event of its own, which is not broken off.
HandlersApart ==
  /\ \A s, t \in Servers :
       Working(s) /\ Working(t) /\ serving[s].event = serving[t].event => s = t
  /\ \A s \in Servers : Working(s) => serving[s].event \notin broken

\* An event has no alert until its handler links the one it made, and a
\* detection has one when its handler is at the end.
LinksFollow ==
  \A s \in Servers :
    /\ Doing(s, "alert") \/ Doing(s, "link") => reports[serving[s].event].alert = 0
    /\ Doing(s, "link") => serving[s].alert \in Unlinked
    /\ \A t \in Servers : Doing(s, "link") /\ Doing(t, "link") /\ serving[s].alert = serving[t].alert
                          => s = t
    /\ Doing(s, "audit") /\ reports[serving[s].event].detected => reports[serving[s].event].alert # 0

DetectionsAreLinked ==
  /\ \A e \in DOMAIN reports : reports[e].detected /\ reports[e].alert = 0 =>
       e \in broken \/ \E s \in Servers : Working(s) /\ serving[s].event = e
  /\ \A e, f \in DOMAIN reports : reports[e].alert = reports[f].alert /\ reports[e].alert # 0 => e = f

FewUnlinked == Cardinality(Unlinked) <= Cardinality(Linking \cup broken)

GuardInv ==
  /\ GuardTypeOK /\ BucketIsRecent
  /\ HandlersApart /\ LinksFollow /\ DetectionsAreLinked /\ FewUnlinked

\* The record of a server at each step
LEMMA ServerType ==
  ASSUME GuardTypeOK, NEW s \in Servers
  PROVE  /\ Working(s) => serving[s] \in ReportHandlers
         /\ Doing(s, "store") => serving[s].detected \in BOOLEAN
         /\ Idling.at = "idle" /\ (serving[s].at = "idle" => serving[s] = Idling)
         /\ serving[s].at \in {"idle", "store", "alert", "link", "audit"}
<1>1. serving[s] \in {Idling} \cup [at : {"store"}, detected : BOOLEAN] \cup ReportHandlers
  BY DEF GuardTypeOK, ReportHandlers
<1>2. Idling.at = "idle"
  BY DEF Idling
<1> QED  BY <1>1, <1>2 DEF ReportHandlers, Working, Doing, AtWork

\* What is counted can be counted.
LEMMA SetsAreFinite ==
  ASSUME GuardTypeOK
  PROVE  /\ IsFiniteSet(Unlinked) /\ IsFiniteSet(Linking) /\ IsFiniteSet(broken)
         /\ IsFiniteSet(Linking \cup broken) /\ IsFiniteSet(InWork) /\ IsFiniteSet(InWork \cup broken)
         /\ Cardinality(Unlinked) \in Nat /\ Cardinality(Linking \cup broken) \in Nat
<1>1. IsFiniteSet(1 .. warnings) /\ IsFiniteSet(DOMAIN reports)
  <2>1. Len(reports) \in Nat /\ DOMAIN reports = 1 .. Len(reports) /\ warnings \in Nat
    BY DEF GuardTypeOK
  <2> QED  BY <2>1, FS_Interval
<1>2. IsFiniteSet(Unlinked) /\ IsFiniteSet(broken)
  BY <1>1, FS_Subset DEF Unlinked, GuardTypeOK
<1>3. Linking \subseteq DOMAIN reports /\ InWork \subseteq DOMAIN reports
  BY ServerType DEF Linking, InWork, Working, Doing, ReportHandlers, AtWork
<1>4. IsFiniteSet(Linking) /\ IsFiniteSet(InWork)
  BY <1>1, <1>3, FS_Subset
<1>5. IsFiniteSet(Linking \cup broken) /\ IsFiniteSet(InWork \cup broken)
  BY <1>2, <1>4, FS_Union
<1> QED  BY <1>2, <1>4, <1>5, FS_CardinalityType

\* The server that moves, and the others
LEMMA ServerMoves ==
  ASSUME GuardTypeOK, NEW s \in Servers, NEW h, serving' = [serving EXCEPT ![s] = h],
         warnings' \in Nat, warnings' >= warnings, DOMAIN reports \subseteq DOMAIN reports',
         h \in {Idling} \cup [at : {"store"}, detected : BOOLEAN]
               \cup [at : AtWork, event : DOMAIN reports', alert : 0 .. warnings']
  PROVE  /\ serving'[s] = h /\ \A t \in Servers \ {s} : serving'[t] = serving[t]
         /\ serving' \in [Servers -> {Idling} \cup [at : {"store"}, detected : BOOLEAN]
                            \cup [at : AtWork, event : DOMAIN reports', alert : 0 .. warnings']]
<1> DEFINE Served(D, w) == {Idling} \cup [at : {"store"}, detected : BOOLEAN]
                        \cup [at : AtWork, event : D, alert : 0 .. w]
<1>1. serving \in [Servers -> Served(DOMAIN reports, warnings)] /\ warnings \in Nat
  BY DEF GuardTypeOK
<1>2. Served(DOMAIN reports, warnings) \subseteq Served(DOMAIN reports', warnings')
  <2>1. 0 .. warnings \subseteq 0 .. warnings'
    BY <1>1
  <2> QED  BY <2>1
<1> HIDE DEF Served
<1>3. h \in Served(DOMAIN reports', warnings')
  BY DEF Served
<1>4. /\ serving'[s] = h /\ \A t \in Servers \ {s} : serving'[t] = serving[t]
      /\ serving' \in [Servers -> Served(DOMAIN reports', warnings')]
  BY <1>1, <1>2, <1>3
<1> QED  BY <1>4 DEF Served

\* A report is stored.
LEMMA StoreKeeps ==
  ASSUME GuardInv, NEW s \in Servers, StoreReport(s)
  PROVE  GuardInv'
<1> USE DEF GuardInv
<1> DEFINE e == Len(reports) + 1
           d == serving[s].detected
           h == [at |-> IF d THEN "alert" ELSE "audit", event |-> e, alert |-> 0]
<1>1. /\ serving[s].at = "store" /\ Len(reports) < MaxReports
      /\ reports' = Append(reports, [detected |-> d, alert |-> 0])
      /\ serving' = [serving EXCEPT ![s] = h]
      /\ UNCHANGED <<clock, bucket, warnings, crashes, accepted, broken>>
  BY DEF StoreReport
<1>2. d \in BOOLEAN
  BY <1>1, ServerType DEF Doing
<1>3. /\ reports' \in Seq([detected : BOOLEAN, alert : 0 .. warnings']) /\ Len(reports') = e
      /\ DOMAIN reports = 1 .. Len(reports) /\ DOMAIN reports' = DOMAIN reports \cup {e} /\ e \notin DOMAIN reports
      /\ \A i \in DOMAIN reports : reports'[i] = reports[i]
      /\ reports'[e] = [detected |-> d, alert |-> 0]
  <2>1. [detected |-> d, alert |-> 0] \in [detected : BOOLEAN, alert : 0 .. warnings] /\ warnings' = warnings
    BY <1>1, <1>2 DEF GuardTypeOK
  <2>2. reports \in Seq([detected : BOOLEAN, alert : 0 .. warnings])
    BY DEF GuardTypeOK
  <2> QED  BY <1>1, <2>1, <2>2
<1>4. h \in [at : AtWork, event : DOMAIN reports', alert : 0 .. warnings']
  BY <1>1, <1>3 DEF AtWork, GuardTypeOK
<1>5. h.event = e /\ h.at = IF d THEN "alert" ELSE "audit"
  OBVIOUS
<1> HIDE DEF h, e, d
<1>6. /\ serving'[s] = h /\ \A t \in Servers \ {s} : serving'[t] = serving[t]
      /\ serving' \in [Servers -> {Idling} \cup [at : {"store"}, detected : BOOLEAN]
                            \cup [at : AtWork, event : DOMAIN reports', alert : 0 .. warnings']]
  BY <1>1, <1>3, <1>4, ServerMoves DEF GuardTypeOK
<1>7. GuardTypeOK'
  BY <1>1, <1>3, <1>6, GuardConstants DEF GuardTypeOK, e
<1>8. \A t \in Servers : Working(t) => serving[t].event \in DOMAIN reports /\ t # s
  BY <1>1, ServerType DEF ReportHandlers, Working, AtWork
<1>9. HandlersApart'
  <2>1. \A t \in Servers \ {s} : /\ Working(t)' <=> Working(t)
                                  /\ serving'[t].event = serving[t].event
    BY <1>6 DEF Working
  <2>2. serving'[s].event = e /\ e \notin DOMAIN reports /\ broken' = broken /\ broken \subseteq DOMAIN reports
    BY <1>1, <1>3, <1>5, <1>6 DEF GuardTypeOK
  <2>3. \A t, u \in Servers :
          Working(t)' /\ Working(u)' /\ serving'[t].event = serving'[u].event => t = u
    BY <1>8, <2>1, <2>2 DEF HandlersApart
  <2>4. \A t \in Servers : Working(t)' => serving'[t].event \notin broken'
    BY <2>1, <2>2 DEF HandlersApart
  <2> QED  BY <2>3, <2>4 DEF HandlersApart
<1>10. Unlinked' = Unlinked
  BY <1>1, <1>3 DEF Unlinked, GuardTypeOK
<1>11. Linking' = Linking
  BY <1>1, <1>5, <1>6 DEF Linking, Doing
<1>12. LinksFollow'
  BY <1>1, <1>2, <1>3, <1>5, <1>6, <1>8, <1>10 DEF LinksFollow, Doing, Working, AtWork
<1>13. DetectionsAreLinked'
  <2>1. \A i \in DOMAIN reports' : reports'[i].detected /\ reports'[i].alert = 0 =>
          i \in broken' \/ \E t \in Servers : Working(t)' /\ serving'[t].event = i
    <3>1. Working(s)' /\ serving'[s].event = e
      BY <1>2, <1>5, <1>6 DEF Working, AtWork
    <3>2. ASSUME NEW i \in DOMAIN reports, reports[i].detected /\ reports[i].alert = 0
          PROVE  i \in broken' \/ \E t \in Servers : Working(t)' /\ serving'[t].event = i
      BY <1>1, <1>6, <1>8, <3>2 DEF DetectionsAreLinked, Working
    <3> QED  BY <1>3, <3>1, <3>2
  <2>2. \A i, f \in DOMAIN reports' : reports'[i].alert = reports'[f].alert /\ reports'[i].alert # 0 => i = f
    BY <1>3 DEF DetectionsAreLinked
  <2> QED  BY <2>1, <2>2 DEF DetectionsAreLinked
<1>14. FewUnlinked' /\ BucketIsRecent'
  BY <1>1, <1>10, <1>11 DEF FewUnlinked, BucketIsRecent, Recent, Apart
<1> QED  BY <1>7, <1>9, <1>12, <1>13, <1>14

\* A sequence over a set is one over a larger set.
LEMMA SeqWidens ==
  ASSUME NEW S, NEW T, S \subseteq T, NEW s \in Seq(S)
  PROVE  s \in Seq(T)
OBVIOUS

\* An element of a sequence
LEMMA ElementIn ==
  ASSUME NEW S, NEW s \in Seq(S), NEW i \in DOMAIN s
  PROVE  s[i] \in S
OBVIOUS

\* A handler raises its alert: one more is unlinked, and one more handler links.
LEMMA RaiseKeeps ==
  ASSUME GuardInv, NEW s \in Servers, RaiseAlert(s)
  PROVE  GuardInv'
<1> USE DEF GuardInv
<1> DEFINE e == serving[s].event
           a == warnings + 1
           h == [at |-> "link", event |-> e, alert |-> a]
<1>1. /\ serving[s].at = "alert" /\ warnings' = a
      /\ serving' = [serving EXCEPT ![s] = h]
      /\ UNCHANGED <<clock, bucket, reports, crashes, accepted, broken>>
  BY DEF RaiseAlert, GuardTypeOK
<1>2. /\ warnings \in Nat /\ reports \in Seq([detected : BOOLEAN, alert : 0 .. warnings])
      /\ \A i \in DOMAIN reports : reports[i].alert \in 0 .. warnings
      /\ reports \in Seq([detected : BOOLEAN, alert : 0 .. warnings'])
  <2>1. warnings \in Nat /\ reports \in Seq([detected : BOOLEAN, alert : 0 .. warnings])
    BY DEF GuardTypeOK
  <2>2. [detected : BOOLEAN, alert : 0 .. warnings] \subseteq [detected : BOOLEAN, alert : 0 .. warnings']
    BY <1>1, <2>1
  <2>3. reports \in Seq([detected : BOOLEAN, alert : 0 .. warnings'])
    BY <2>1, <2>2, SeqWidens
  <2>4. \A i \in DOMAIN reports : reports[i].alert \in 0 .. warnings
    <3>1. \A i \in DOMAIN reports : reports[i] \in [detected : BOOLEAN, alert : 0 .. warnings]
      BY <2>1, ElementIn
    <3> QED  BY <3>1
  <2> QED  BY <2>1, <2>3, <2>4
<1>3. e \in DOMAIN reports /\ e \notin broken /\ Working(s)
  BY <1>1, ServerType DEF Working, AtWork, ReportHandlers, HandlersApart
<1>4. h \in [at : AtWork, event : DOMAIN reports', alert : 0 .. warnings']
  BY <1>1, <1>2, <1>3 DEF AtWork
<1>5. h.event = e /\ h.at = "link" /\ h.alert = a
  OBVIOUS
<1> HIDE DEF h
<1>6. /\ serving'[s] = h /\ \A t \in Servers \ {s} : serving'[t] = serving[t]
      /\ serving' \in [Servers -> {Idling} \cup [at : {"store"}, detected : BOOLEAN]
                            \cup [at : AtWork, event : DOMAIN reports', alert : 0 .. warnings']]
  <2>1. warnings' \in Nat /\ warnings' >= warnings /\ DOMAIN reports \subseteq DOMAIN reports'
    BY <1>1, <1>2
  <2>2. GuardTypeOK /\ serving' = [serving EXCEPT ![s] = h]
    BY <1>1
  <2> QED  BY <1>4, <2>1, <2>2, ServerMoves
<1>7. GuardTypeOK'
  BY <1>1, <1>2, <1>6 DEF GuardTypeOK
<1>8. HandlersApart'
  BY <1>1, <1>3, <1>5, <1>6 DEF HandlersApart, Working, AtWork
<1>9. Unlinked' = Unlinked \cup {a} /\ a \notin Unlinked
  BY <1>1, <1>2 DEF Unlinked
<1>10. Linking' = Linking \cup {e} /\ e \notin Linking
  <2>1. \A t \in Servers : Doing(t, "link")' <=> t = s \/ Doing(t, "link")
    BY <1>5, <1>6 DEF Doing
  <2>2. \A t \in Servers : t # s => serving'[t].event = serving[t].event
    BY <1>6
  <2>3. \A t \in Servers : Doing(t, "link") => t # s /\ serving[t].event # e
    BY <1>1, <1>3 DEF Doing, HandlersApart, Working, AtWork
  <2>4. serving'[s].event = e
    BY <1>5, <1>6
  <2>5. Linking' \subseteq Linking \cup {e}
    BY <2>1, <2>2, <2>4 DEF Linking
  <2>6. Linking \cup {e} \subseteq Linking'
    BY <2>1, <2>2, <2>3, <2>4 DEF Linking
  <2>7. e \notin Linking
    BY <2>3 DEF Linking
  <2> QED  BY <2>5, <2>6, <2>7
<1>11. LinksFollow'
  <2>1. reports[e].alert = 0
    BY <1>1 DEF LinksFollow, Doing
  <2>2. \A t \in Servers : Doing(t, "link") => serving[t].alert \in Unlinked
    BY DEF LinksFollow
  <2>3. /\ Doing(s, "link")' /\ serving'[s].alert = a /\ serving'[s].event = e
        /\ ~ Doing(s, "alert")' /\ ~ Doing(s, "audit")'
    BY <1>5, <1>6 DEF Doing
  <2>4. \A t \in Servers \ {s} :
          /\ Doing(t, "link")' <=> Doing(t, "link")
          /\ Doing(t, "alert")' <=> Doing(t, "alert")
          /\ Doing(t, "audit")' <=> Doing(t, "audit")
          /\ serving'[t].event = serving[t].event /\ serving'[t].alert = serving[t].alert
    BY <1>6 DEF Doing
  <2>5. reports' = reports
    BY <1>1
  <2> QED  BY <1>9, <2>1, <2>2, <2>3, <2>4, <2>5 DEF LinksFollow
<1>12. DetectionsAreLinked'
  BY <1>1, <1>5, <1>6 DEF DetectionsAreLinked, Working, AtWork
<1>13. FewUnlinked'
  <2>1. Cardinality(Unlinked') = Cardinality(Unlinked) + 1
    BY <1>9, SetsAreFinite, FS_AddElement
  <2>2. (Linking \cup broken)' = (Linking \cup broken) \cup {e} /\ e \notin Linking \cup broken
    BY <1>1, <1>3, <1>10
  <2>3. Cardinality((Linking \cup broken)') = Cardinality(Linking \cup broken) + 1
    BY <2>2, SetsAreFinite, FS_AddElement
  <2> QED  BY <2>1, <2>3, SetsAreFinite DEF FewUnlinked
<1>14. BucketIsRecent'
  BY <1>1 DEF BucketIsRecent, Recent, Apart
<1> QED  BY <1>7, <1>8, <1>11, <1>12, <1>13, <1>14

\* A handler links its alert: one less of each.
LEMMA LinkKeeps ==
  ASSUME GuardInv, NEW s \in Servers, LinkAlert(s)
  PROVE  GuardInv'
<1> USE DEF GuardInv
<1> DEFINE e == serving[s].event
           a == serving[s].alert
           h == [at |-> "audit", event |-> e, alert |-> a]
<1>1. /\ serving[s].at = "link"
      /\ reports' = [reports EXCEPT ![e].alert = a]
      /\ serving' = [serving EXCEPT ![s] = h]
      /\ UNCHANGED <<clock, bucket, warnings, crashes, accepted, broken>>
  BY DEF LinkAlert, Linked, GuardTypeOK
<1>2. /\ serving[s] \in ReportHandlers /\ Working(s) /\ Doing(s, "link")
      /\ e \in DOMAIN reports /\ e \notin broken /\ a \in Unlinked
  BY <1>1, ServerType DEF Working, Doing, AtWork, ReportHandlers, HandlersApart, LinksFollow
<1>3. /\ warnings \in Nat /\ a \in 1 .. warnings
      /\ \A i \in DOMAIN reports : reports[i].alert # a
  BY <1>2 DEF Unlinked, GuardTypeOK
<1>4. /\ reports' \in Seq([detected : BOOLEAN, alert : 0 .. warnings'])
      /\ DOMAIN reports' = DOMAIN reports /\ Len(reports') = Len(reports)
      /\ \A i \in DOMAIN reports \ {e} : reports'[i] = reports[i]
      /\ reports'[e].alert = a
      /\ \A i \in DOMAIN reports : reports'[i].detected = reports[i].detected
  <2> DEFINE r == [reports[e] EXCEPT !.alert = a]
  <2>1. reports \in Seq([detected : BOOLEAN, alert : 0 .. warnings]) /\ reports' = [reports EXCEPT ![e] = r]
        /\ warnings' = warnings /\ e \in 1 .. Len(reports) /\ DOMAIN reports = 1 .. Len(reports)
    <3>1. reports \in Seq([detected : BOOLEAN, alert : 0 .. warnings])
      BY DEF GuardTypeOK
    <3>2. DOMAIN reports = 1 .. Len(reports)
      BY <3>1
    <3>3. reports' = [reports EXCEPT ![e] = r]
      BY <1>1
    <3> QED  BY <1>1, <1>2, <3>1, <3>2, <3>3
  <2>2. reports[e] \in [detected : BOOLEAN, alert : 0 .. warnings]
    BY <2>1, ElementIn
  <2>3. /\ r \in [detected : BOOLEAN, alert : 0 .. warnings]
        /\ r.alert = a /\ r.detected = reports[e].detected
    BY <1>3, <2>2
  <2> HIDE DEF r
  <2> QED  BY <2>1, <2>3
<1>5. h \in [at : AtWork, event : DOMAIN reports', alert : 0 .. warnings']
  BY <1>1, <1>2, <1>3, <1>4 DEF AtWork
<1>6. h.event = e /\ h.at = "audit" /\ h.alert = a
  OBVIOUS
<1> HIDE DEF h
<1>7. /\ serving'[s] = h /\ \A t \in Servers \ {s} : serving'[t] = serving[t]
      /\ serving' \in [Servers -> {Idling} \cup [at : {"store"}, detected : BOOLEAN]
                            \cup [at : AtWork, event : DOMAIN reports', alert : 0 .. warnings']]
  <2>1. warnings' \in Nat /\ warnings' >= warnings /\ DOMAIN reports \subseteq DOMAIN reports'
    BY <1>1, <1>3, <1>4
  <2>2. GuardTypeOK /\ serving' = [serving EXCEPT ![s] = h]
    BY <1>1
  <2> QED  BY <1>5, <2>1, <2>2, ServerMoves
<1>8. GuardTypeOK'
  BY <1>1, <1>4, <1>7 DEF GuardTypeOK
<1>9. HandlersApart'
  BY <1>1, <1>2, <1>6, <1>7 DEF HandlersApart, Working, AtWork
<1>10. Unlinked' = Unlinked \ {a}
  BY <1>1, <1>2, <1>3, <1>4 DEF Unlinked, GuardTypeOK, LinksFollow
<1>11. Linking' = Linking \ {e} /\ e \in Linking
  <2>1. \A t \in Servers : Doing(t, "link")' <=> t # s /\ Doing(t, "link")
    BY <1>6, <1>7 DEF Doing
  <2>2. \A t \in Servers : t # s => serving'[t].event = serving[t].event
    BY <1>7
  <2>3. \A t \in Servers : Doing(t, "link") /\ t # s => serving[t].event # e
    BY <1>2 DEF Doing, HandlersApart, Working, AtWork
  <2>4. Linking' \subseteq Linking \ {e}
    BY <2>1, <2>2, <2>3 DEF Linking
  <2>5. Linking \ {e} \subseteq Linking'
    BY <2>1, <2>2, <2>3 DEF Linking
  <2>6. e \in Linking
    BY <1>2 DEF Linking
  <2> QED  BY <2>4, <2>5, <2>6
<1>12. \A t \in Servers \ {s} : Working(t) => serving[t].event # e
  BY <1>2 DEF HandlersApart
<1>13. LinksFollow'
  <2>1. \A t \in Servers \ {s} :
          /\ Doing(t, "link")' <=> Doing(t, "link")
          /\ Doing(t, "alert")' <=> Doing(t, "alert")
          /\ Doing(t, "audit")' <=> Doing(t, "audit")
          /\ serving'[t].event = serving[t].event /\ serving'[t].alert = serving[t].alert
    BY <1>7 DEF Doing
  <2>2. \A t \in Servers \ {s} :
          Doing(t, "alert") \/ Doing(t, "link") \/ Doing(t, "audit") =>
             serving[t].event \in DOMAIN reports /\ serving[t].event # e
    BY <1>12, ServerType DEF Doing, Working, AtWork, ReportHandlers
  <2>3. /\ ~ Doing(s, "alert")' /\ ~ Doing(s, "link")'
        /\ serving'[s].event = e
    BY <1>6, <1>7 DEF Doing
  <2>4. \A t \in Servers \ {s} : Doing(t, "link") => serving[t].alert \in Unlinked /\ serving[t].alert # a
    BY <1>2 DEF LinksFollow
  <2>5. a # 0
    BY <1>3
  <2>6. \A t \in Servers \ {s} :
          /\ Doing(t, "alert") \/ Doing(t, "link") => reports[serving[t].event].alert = 0
          /\ Doing(t, "audit") /\ reports[serving[t].event].detected => reports[serving[t].event].alert # 0
    BY DEF LinksFollow
  <2>7. \A t \in Servers :
          /\ Doing(t, "alert")' \/ Doing(t, "link")' => reports'[serving'[t].event].alert = 0
          /\ Doing(t, "audit")' /\ reports'[serving'[t].event].detected => reports'[serving'[t].event].alert # 0
    <3> SUFFICES ASSUME NEW t \in Servers
                 PROVE  /\ Doing(t, "alert")' \/ Doing(t, "link")' => reports'[serving'[t].event].alert = 0
                        /\ Doing(t, "audit")' /\ reports'[serving'[t].event].detected
                             => reports'[serving'[t].event].alert # 0
      OBVIOUS
    <3>1. CASE t = s
      BY <1>4, <2>3, <2>5, <3>1
    <3>2. CASE t # s
      <4>1. Doing(t, "alert") \/ Doing(t, "link") \/ Doing(t, "audit") =>
              reports'[serving[t].event] = reports[serving[t].event]
        BY <1>4, <2>2, <3>2
      <4> QED  BY <2>1, <2>6, <3>2, <4>1
    <3> QED  BY <3>1, <3>2
  <2>8. \A t \in Servers : Doing(t, "link")' => serving'[t].alert \in Unlinked'
    BY <1>10, <2>1, <2>3, <2>4
  <2>9. \A t, u \in Servers : Doing(t, "link")' /\ Doing(u, "link")' /\ serving'[t].alert = serving'[u].alert
                          => t = u
    BY <2>1, <2>3 DEF LinksFollow
  <2> QED  BY <2>7, <2>8, <2>9 DEF LinksFollow
<1>14. DetectionsAreLinked'
  <2>1. \A i \in DOMAIN reports' : reports'[i].detected /\ reports'[i].alert = 0 =>
          i \in broken' \/ \E t \in Servers : Working(t)' /\ serving'[t].event = i
    BY <1>1, <1>3, <1>4, <1>6, <1>7 DEF DetectionsAreLinked, Working, AtWork
  <2>2. \A i, f \in DOMAIN reports' : reports'[i].alert = reports'[f].alert /\ reports'[i].alert # 0 => i = f
    <3>1. \A i \in DOMAIN reports : reports'[i].alert = IF i = e THEN a ELSE reports[i].alert
      BY <1>4
    <3>2. \A i, f \in DOMAIN reports : reports[i].alert = reports[f].alert /\ reports[i].alert # 0 => i = f
      BY DEF DetectionsAreLinked
    <3>3. DOMAIN reports' = DOMAIN reports
      BY <1>4
    <3> QED  BY <1>3, <3>1, <3>2, <3>3
  <2> QED  BY <2>1, <2>2 DEF DetectionsAreLinked
<1>15. FewUnlinked'
  <2>1. Cardinality(Unlinked') = Cardinality(Unlinked) - 1
    BY <1>2, <1>10, SetsAreFinite, FS_RemoveElement
  <2>2. (Linking \cup broken)' = (Linking \cup broken) \ {e} /\ e \in Linking \cup broken
    BY <1>1, <1>2, <1>11
  <2>3. Cardinality((Linking \cup broken)') = Cardinality(Linking \cup broken) - 1
    <3> DEFINE L == Linking \cup broken
    <3>1. IsFiniteSet(L)
      BY SetsAreFinite
    <3>2. L' = L \ {e} /\ e \in L
      BY <2>2
    <3> HIDE DEF L
    <3>3. Cardinality(L \ {e}) = Cardinality(L) - 1
      BY <3>1, <3>2, FS_RemoveElement
    <3>4. Cardinality(L') = Cardinality(L) - 1
      BY <3>2, <3>3
    <3> QED  BY <3>4 DEF L
  <2> QED  BY <2>1, <2>3, SetsAreFinite DEF FewUnlinked
<1>16. BucketIsRecent'
  BY <1>1 DEF BucketIsRecent, Recent, Apart
<1> QED  BY <1>8, <1>9, <1>13, <1>14, <1>15, <1>16

\* A handler is done.
LEMMA AuditKeeps ==
  ASSUME GuardInv, NEW s \in Servers, AuditReport(s)
  PROVE  GuardInv'
<1> USE DEF GuardInv
<1>1. /\ serving[s].at = "audit" /\ serving' = [serving EXCEPT ![s] = Idling]
      /\ UNCHANGED <<clock, bucket, reports, warnings, crashes, accepted, broken>>
  BY DEF AuditReport
<1>2. /\ serving'[s] = Idling /\ \A t \in Servers \ {s} : serving'[t] = serving[t]
      /\ serving' \in [Servers -> {Idling} \cup [at : {"store"}, detected : BOOLEAN]
                            \cup [at : AtWork, event : DOMAIN reports', alert : 0 .. warnings']]
  BY <1>1, ServerMoves DEF GuardTypeOK
<1>3. Idling.at = "idle" /\ serving[s] \in ReportHandlers /\ Doing(s, "audit") /\ Working(s)
  BY <1>1, ServerType DEF Working, Doing, AtWork
<1>4. \A t \in Servers : /\ Working(t)' <=> Working(t) /\ t # s
                         /\ Working(t)' => serving'[t] = serving[t]
  BY <1>2, <1>3 DEF Working, AtWork
<1>5. GuardTypeOK'
  BY <1>1, <1>2 DEF GuardTypeOK
<1>6. HandlersApart'
  BY <1>1, <1>4 DEF HandlersApart
<1>7. Unlinked' = Unlinked /\ Linking' = Linking
  BY <1>1, <1>2, <1>3 DEF Unlinked, Linking, Doing
<1>8. LinksFollow'
  BY <1>1, <1>2, <1>3, <1>7 DEF LinksFollow, Doing
<1>9. DetectionsAreLinked'
  <2>1. reports[serving[s].event].detected => reports[serving[s].event].alert # 0
    BY <1>3 DEF LinksFollow
  <2> QED  BY <1>1, <1>4, <2>1 DEF DetectionsAreLinked
<1> QED  BY <1>1, <1>5, <1>6, <1>7, <1>8, <1>9 DEF FewUnlinked, BucketIsRecent, Recent, Apart

\* A report is let through.
LEMMA AcceptKeeps ==
  ASSUME GuardInv, NEW s \in Servers, AcceptReport(s)
  PROVE  GuardInv'
<1> USE DEF GuardInv
<1>1. PICK d \in BOOLEAN : serving' = [serving EXCEPT ![s] = [at |-> "store", detected |-> d]]
  BY DEF AcceptReport
<1> DEFINE h == [at |-> "store", detected |-> d]
<1>2. /\ serving[s] = Idling
      /\ UNCHANGED <<clock, reports, warnings, crashes, broken>>
  BY DEF AcceptReport
<1>3. h \in [at : {"store"}, detected : BOOLEAN] /\ h.at = "store" /\ serving' = [serving EXCEPT ![s] = h]
  BY <1>1
<1> HIDE DEF h
<1>4. /\ serving'[s] = h /\ \A t \in Servers \ {s} : serving'[t] = serving[t]
      /\ serving' \in [Servers -> {Idling} \cup [at : {"store"}, detected : BOOLEAN]
                            \cup [at : AtWork, event : DOMAIN reports', alert : 0 .. warnings']]
  BY <1>2, <1>3, ServerMoves DEF GuardTypeOK
<1>5. serving[s].at = "idle"
  BY <1>2, ServerType
<1>6. \A t \in Servers : /\ Working(t)' <=> Working(t)
                         /\ Working(t) => t # s /\ serving'[t] = serving[t]
  BY <1>3, <1>4, <1>5 DEF Working, AtWork
<1>7. BucketIsRecent' /\ bucket' \in [Servers -> Seq(0 .. MaxTime)] /\ accepted' \in [Servers -> Seq(0 .. MaxTime)]
  BY AcceptKeepsBucket
<1>8. GuardTypeOK'
  BY <1>2, <1>4, <1>7 DEF GuardTypeOK
<1>9. HandlersApart'
  BY <1>2, <1>6 DEF HandlersApart
<1>10. Unlinked' = Unlinked /\ Linking' = Linking
  BY <1>2, <1>3, <1>4, <1>5 DEF Unlinked, Linking, Doing
<1>11. LinksFollow'
  BY <1>2, <1>3, <1>4, <1>10 DEF LinksFollow, Doing
<1>12. DetectionsAreLinked'
  BY <1>2, <1>6 DEF DetectionsAreLinked
<1> QED  BY <1>2, <1>7, <1>8, <1>9, <1>10, <1>11, <1>12 DEF FewUnlinked

\* The event of a handler that breaks off is counted as broken from then on.
LEMMA BreaksKeeps ==
  ASSUME GuardInv, NEW s \in Servers, Breaks(s)
  PROVE  GuardInv'
<1> USE DEF GuardInv
<1> DEFINE e == serving[s].event
<1>1. /\ serving[s] # Idling /\ serving' = [serving EXCEPT ![s] = Idling]
      /\ broken' = IF serving[s].at = "store" THEN broken ELSE broken \cup {e}
      /\ crashes < MaxCrashes /\ crashes' = crashes + 1
      /\ UNCHANGED <<clock, reports, warnings>>
  BY DEF Breaks
<1>2. /\ serving'[s] = Idling /\ \A t \in Servers \ {s} : serving'[t] = serving[t]
      /\ serving' \in [Servers -> {Idling} \cup [at : {"store"}, detected : BOOLEAN]
                            \cup [at : AtWork, event : DOMAIN reports', alert : 0 .. warnings']]
  BY <1>1, ServerMoves DEF GuardTypeOK
<1>3. /\ Idling.at = "idle"
      /\ Working(s) <=> serving[s].at # "store"
      /\ Working(s) => e \in DOMAIN reports
  BY <1>1, ServerType DEF Working, ReportHandlers, AtWork
<1>4. \A t \in Servers : /\ Working(t)' <=> Working(t) /\ t # s
                         /\ Working(t)' => serving'[t] = serving[t]
  BY <1>2, <1>3 DEF Working, AtWork
<1>5. /\ bucket' \in [Servers -> Seq(0 .. MaxTime)] /\ accepted' \in [Servers -> Seq(0 .. MaxTime)]
      /\ BucketIsRecent'
  <2>1. CASE UNCHANGED <<bucket, accepted>>
    BY <1>1, <2>1 DEF BucketIsRecent, Recent, Apart, GuardTypeOK
  <2>2. CASE bucket' = [bucket EXCEPT ![s] = <<>>] /\ accepted' = [accepted EXCEPT ![s] = <<>>]
    <3>1. /\ \A t \in Servers \ {s} : bucket'[t] = bucket[t] /\ accepted'[t] = accepted[t]
          /\ bucket'[s] = <<>> /\ accepted'[s] = <<>>
          /\ bucket' \in [Servers -> Seq(0 .. MaxTime)] /\ accepted' \in [Servers -> Seq(0 .. MaxTime)]
      BY <2>2 DEF GuardTypeOK
    <3>2. Apart(<<>>) /\ \A now : Recent(<<>>, <<>>, now)
      BY GuardConstants DEF Recent, Apart
    <3> QED  BY <1>1, <3>1, <3>2 DEF BucketIsRecent
  <2> QED  BY <2>1, <2>2 DEF Breaks
<1>6. GuardTypeOK'
  BY <1>1, <1>2, <1>3, <1>5, GuardConstants DEF GuardTypeOK
<1>7. HandlersApart'
  BY <1>1, <1>3, <1>4 DEF HandlersApart
<1>8. Unlinked' = Unlinked
  BY <1>1 DEF Unlinked
<1>9. LinksFollow'
  BY <1>1, <1>2, <1>3, <1>8 DEF LinksFollow, Doing
<1>10. DetectionsAreLinked'
  BY <1>1, <1>3, <1>4 DEF DetectionsAreLinked
<1>11. FewUnlinked'
  <2> DEFINE L == Linking \cup broken
  <2>1. L \subseteq L'
    BY <1>1, <1>2, <1>3 DEF Linking, Doing, Working, AtWork
  <2>2. L' \subseteq L \cup {e}
    BY <1>1, <1>2, <1>3 DEF Linking, Doing, Working, AtWork
  <2>3. IsFiniteSet(L \cup {e}) /\ IsFiniteSet(L)
    BY SetsAreFinite, FS_AddElement
  <2>4. PICK K : K = L'
    OBVIOUS
  <2> HIDE DEF L
  <2>5. IsFiniteSet(K)
    BY <2>2, <2>3, <2>4, FS_Subset
  <2>6. Cardinality(L) <= Cardinality(K) /\ Cardinality(L) \in Nat /\ Cardinality(K) \in Nat
    BY <2>1, <2>3, <2>4, <2>5, FS_Subset, FS_CardinalityType
  <2>7. Cardinality(Unlinked) <= Cardinality(L) /\ Cardinality(Unlinked) \in Nat
    BY SetsAreFinite DEF FewUnlinked, L
  <2>8. Cardinality(Unlinked) <= Cardinality(L')
    BY <2>4, <2>6, <2>7
  <2> QED  BY <1>8, <2>8 DEF FewUnlinked, L
<1> QED  BY <1>5, <1>6, <1>7, <1>9, <1>10, <1>11

\* What has left the window does not come back.
LEMMA TickKeeps ==
  ASSUME GuardInv, TickClock
  PROVE  GuardInv'
<1> USE DEF GuardInv
<1>1. /\ clock < MaxTime /\ clock' = clock + 1
      /\ UNCHANGED <<bucket, serving, reports, warnings, crashes, accepted, broken>>
  BY DEF TickClock
<1>2. GuardTypeOK'
  BY <1>1, GuardConstants DEF GuardTypeOK
<1>3. BucketIsRecent'
  <2> SUFFICES ASSUME NEW s \in Servers, NEW a, a = accepted[s], NEW b, b = bucket[s], Recent(a, b, clock), Apart(a)
               PROVE  Recent(a, b, clock + 1) /\ Apart(a)
    BY <1>1 DEF BucketIsRecent
  <2>1. \A i \in 1 .. Len(a) - Len(b) : a[i] \in Nat
    <3>1. a \in Seq(0 .. MaxTime) /\ b \in Seq(0 .. MaxTime)
      BY DEF GuardTypeOK
    <3>2. Len(a) \in Nat /\ Len(b) \in Nat /\ DOMAIN a = 1 .. Len(a)
      BY <3>1
    <3>3. \A i \in 1 .. Len(a) - Len(b) : i \in DOMAIN a
      BY <3>2
    <3>4. \A i \in 1 .. Len(a) - Len(b) : a[i] \in 0 .. MaxTime
      BY <3>1, <3>3, ElementIn
    <3>5. 0 .. MaxTime \subseteq Nat
      BY GuardConstants
    <3> QED  BY <3>4, <3>5
  <2>2. clock \in Nat /\ Window \in Nat
    BY GuardConstants DEF GuardTypeOK
  <2>3. \A i \in 1 .. Len(a) - Len(b) : clock - a[i] > Window => (clock + 1) - a[i] > Window
    <3>1. \A x \in Nat : clock - x > Window => (clock + 1) - x > Window
      BY <2>2
    <3> QED  BY <2>1, <3>1
  <2>4. \A i \in 1 .. Len(a) - Len(b) : clock - a[i] > Window
    BY DEF Recent
  <2>5. \A i \in 1 .. Len(a) - Len(b) : (clock + 1) - a[i] > Window
    BY <2>3, <2>4
  <2>6. /\ Len(b) <= Len(a) /\ Len(b) <= RateLimit
        /\ \A i \in 1 .. Len(b) : b[i] = a[Len(a) - Len(b) + i]
    BY DEF Recent
  <2> QED  BY <2>5, <2>6, Zenon DEF Recent
<1> QED  BY <1>1, <1>2, <1>3 DEF HandlersApart, LinksFollow, DetectionsAreLinked, FewUnlinked,
                                 Working, Doing, Linking, Unlinked

\* What the invariant says of the reports
LEMMA GuardShows ==
  ASSUME GuardInv
  PROVE  ReportsAreHandled
<1> USE DEF GuardInv
<1>1. WindowHoldsLimit
  BY DEF WindowHoldsLimit, BucketIsRecent, Apart
<1>2. InWork = {serving[s].event : s \in {t \in Servers : Working(t)}}
  BY DEF InWork, Working
<1>3. \A e \in DOMAIN reports \ (InWork \cup broken) : reports[e].detected => reports[e].alert # 0
  BY <1>2 DEF DetectionsAreLinked
<1>4. Cardinality(Unlinked) <= Cardinality(InWork \cup broken)
  <2>1. Linking \cup broken \subseteq InWork \cup broken
    BY <1>2 DEF Linking, Doing, Working, AtWork
  <2>2. Cardinality(Linking \cup broken) <= Cardinality(InWork \cup broken)
    BY <2>1, SetsAreFinite, FS_Subset
  <2>3. Cardinality(InWork \cup broken) \in Nat
    BY SetsAreFinite, FS_CardinalityType
  <2> QED  BY <2>2, <2>3, SetsAreFinite DEF FewUnlinked
<1>5. AlertsAreListed
  BY <1>3, <1>4 DEF AlertsAreListed, DetectionsAreLinked, Unlinked
<1> QED  BY <1>1, <1>5 DEF ReportsAreHandled

\* In every behaviour the window keeps the limit, and a warning that no report
\* refers to is one a handler has yet to link, or broke off before it did
\* (_enforce_rate_limit, ingest_password_guard_event).
THEOREM ReportsCorrect == GuardSpec => [](GuardTypeOK /\ ReportsAreHandled)
<1>1. GuardInit => GuardInv
  <2> SUFFICES ASSUME GuardInit  PROVE GuardInv
    OBVIOUS
  <2>1. Idling.at = "idle" /\ \A s \in Servers : serving[s].at = "idle"
    BY DEF GuardInit, Idling
  <2>2. GuardTypeOK
    BY GuardConstants DEF GuardInit, GuardTypeOK
  <2>3. BucketIsRecent
    BY GuardConstants DEF GuardInit, BucketIsRecent, Recent, Apart
  <2>4. HandlersApart /\ LinksFollow /\ DetectionsAreLinked
    BY <2>1 DEF GuardInit, HandlersApart, LinksFollow, DetectionsAreLinked, Working, Doing, AtWork
  <2>5. Unlinked = {}
    BY DEF GuardInit, Unlinked
  <2>6. FewUnlinked
    BY <2>2, <2>5, SetsAreFinite, FS_EmptySet DEF FewUnlinked
  <2> QED  BY <2>2, <2>3, <2>4, <2>6 DEF GuardInv
<1>2. GuardInv /\ [GuardNext]_guardVars => GuardInv'
  <2> SUFFICES ASSUME GuardInv, [GuardNext]_guardVars  PROVE GuardInv'
    OBVIOUS
  <2>1. CASE UNCHANGED guardVars
    BY <2>1 DEF GuardInv, GuardTypeOK, BucketIsRecent, Recent, Apart, HandlersApart, LinksFollow,
                DetectionsAreLinked, FewUnlinked, Working, Doing, Linking, Unlinked, guardVars
  <2> QED  BY <2>1, TickKeeps, AcceptKeeps, StoreKeeps, RaiseKeeps, LinkKeeps, AuditKeeps, BreaksKeeps
           DEF GuardNext
<1>3. GuardInv => GuardTypeOK
  BY DEF GuardInv
<1> QED  BY <1>1, <1>2, GuardShows, <1>3, PTL DEF GuardSpec
=============================================================================
