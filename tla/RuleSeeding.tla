----------------------------- MODULE RuleSeeding -----------------------------
(***************************************************************************)
(* The first detection rules: every backend process seeds them when it     *)
(* starts and finds none.  A start that cannot read the table or the file  *)
(* serves without seeding.                                                 *)
(*                                                                         *)
(*   _seed_detection_rules, startup_event   backend/app/main.py            *)
(*   list_detection_rules, create_detection_rule   backend/app/crud.py     *)
(***************************************************************************)
EXTENDS Naturals, FiniteSets

CONSTANTS
  Starters,    \* backend processes
  SeedCount,   \* rules in data/detection_rules.json
  MaxStarts    \* bound: starts

ASSUME SeedingConstants ==
  /\ IsFiniteSet(Starters)
  /\ SeedCount \in Nat \ {0} /\ MaxStarts \in Nat

VARIABLES
  copies,     \* copies[r]: rows of the r-th rule of the file
  added,      \* rules made by analysts
  process,    \* process[p]: Down, the next rule it seeds, or Up
  starts,
  sawEmpty,   \* history: starts that found the table empty, and went on to seed
  cutShort,   \* history: a start died between two rules
  blind,      \* history: processes up whose start skipped the seeding
  early       \* history: such a process made a rule before any start seeded

seedVars == <<copies, added, process, starts, sawEmpty, cutShort, blind, early>>

Seeds == 1 .. SeedCount
Down  == 0
Up    == SeedCount + 1

SeedTypeOK ==
  /\ copies \in [Seeds -> 0 .. MaxStarts]
  /\ added \in BOOLEAN
  /\ process \in [Starters -> Down .. Up]
  /\ starts \in 0 .. MaxStarts /\ sawEmpty \in 0 .. MaxStarts
  /\ cutShort \in BOOLEAN /\ early \in BOOLEAN /\ blind \subseteq Starters

SeedInit ==
  /\ copies = [r \in Seeds |-> 0] /\ added = FALSE
  /\ process = [p \in Starters |-> Down]
  /\ starts = 0 /\ sawEmpty = 0 /\ cutShort = FALSE /\ blind = {} /\ early = FALSE

NoRules == ~ added /\ \A r \in Seeds : copies[r] = 0

\* Mutation of SeesNoRules: any start seeds.
SeesNoRulesEver == TRUE

\* What a start asks before it seeds
SeesNoRules == NoRules

\* list_detection_rules
StartProcess(p) ==
  /\ process[p] = Down
  /\ starts < MaxStarts /\ starts' = starts + 1
  /\ process' = [process EXCEPT ![p] = IF SeesNoRules THEN 1 ELSE Up]
  /\ sawEmpty' = IF NoRules THEN sawEmpty + 1 ELSE sawEmpty
  /\ UNCHANGED <<copies, added, cutShort, blind, early>>

\* The table cannot be read, the file is not there or does not parse: a warning,
\* and the process serves.
SkipSeeding(p) ==
  /\ process[p] = Down
  /\ starts < MaxStarts /\ starts' = starts + 1
  /\ process' = [process EXCEPT ![p] = Up]
  /\ blind' = blind \cup {p}
  /\ UNCHANGED <<copies, added, sawEmpty, cutShort, early>>

\* One commit a rule
SeedRule(p) ==
  /\ process[p] \in Seeds
  /\ copies' = [copies EXCEPT ![process[p]] = @ + 1]
  /\ process' = [process EXCEPT ![p] = @ + 1]
  /\ UNCHANGED <<added, starts, sawEmpty, cutShort, blind, early>>

\* POST of a rule, to a process that is up
AddRule(p) ==
  /\ process[p] = Up
  /\ added' = TRUE
  /\ early' = (early \/ (p \in blind /\ sawEmpty = 0))
  /\ UNCHANGED <<copies, process, starts, sawEmpty, cutShort, blind>>

StopProcess(p) ==
  /\ process[p] # Down
  /\ process' = [process EXCEPT ![p] = Down]
  /\ cutShort' = (cutShort \/ process[p] \in Seeds)
  /\ blind' = blind \ {p}
  /\ UNCHANGED <<copies, added, starts, sawEmpty, early>>

SeedNext ==
  \E p \in Starters :
    \/ StartProcess(p) \/ SkipSeeding(p) \/ SeedRule(p)
    \/ AddRule(p) \/ StopProcess(p)

SeedSpec == SeedInit /\ [][SeedNext]_seedVars

-----------------------------------------------------------------------------
\* A rule is there as often as starts found the table empty, and no more: more
\* than once only if two processes started together, and less only if one was
\* cut short: then the rules that are missing stay missing.  Whoever is up and
\* did not skip the seeding came after a start that seeded, unless an analyst's
\* rule was there first, made through a process that had skipped it.
SeededOncePerEmptyTable ==
  /\ \A r \in Seeds : copies[r] <= sawEmpty
  /\ ~ cutShort /\ (\A p \in Starters : process[p] \notin Seeds)
       => \A r \in Seeds : copies[r] = sawEmpty
  /\ (\E p \in Starters : process[p] = Up /\ p \notin blind) => sawEmpty >= 1 \/ early
=============================================================================
