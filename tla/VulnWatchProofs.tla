--------------------------- MODULE VulnWatchProofs ---------------------------
(***************************************************************************)
(* Theorems about VulnWatch, for any components, feeds, scores, admins and *)
(* any number of changes, refused mails and deaths of the worker.          *)
(*                                                                         *)
(* The worker carries what it knows of the findings through a whole cycle  *)
(* while the tables change: FoundIsFresh and DueIsFresh say that what      *)
(* matters of it stays true, EmittingIsMailing what the mail under way has *)
(* told of it, DueIsNew and ToldIsMarked why it tells nothing twice.       *)
(***************************************************************************)
EXTENDS VulnWatch, TLAPS

FindingRow == [known : {TRUE}, label : Labels, status : {"open", "resolved"},
               notified : Labels \cup {"none"}]
RecordRow  == [known : {TRUE}, epss : Nat, kev : BOOLEAN, cvss : Nat]
AtMost(S)  == {<<>>} \cup {<<x>> : x \in S}
CacheRow   == [intel : AtMost(Reports), epss : AtMost(EpssScores)]

Matching  == {"match", "record", "epss", "score", "alert"}
Notifying == {"immediate", "digest"}

TableTypes ==
  /\ feed \in [Components -> Reports] /\ epss \in [Components -> EpssScores]
  /\ cache \in [Components -> CacheRow]
  /\ seen \subseteq Components
  /\ record \in [Components -> RecordRow \cup {NoRow}]
  /\ finding \in [Components -> FindingRow \cup {NoRow}]
  /\ DOMAIN told = Components /\ DOMAIN taken = Components
  /\ kevs \subseteq Components
  /\ DOMAIN emission = Emitters
  /\ deaths \in Nat

WorkTypes ==
  /\ work.at \in {"sleep", "hour", "down"} \cup Matching \cup Notifying
  /\ work.at \in Matching =>
       {"at", "todo", "found"} \subseteq DOMAIN work /\ work.todo \subseteq Components
  /\ work.at \in {"record", "epss", "score"} => "c" \in DOMAIN work /\ work.c \in Components
  /\ work.at = "record" => work.report \in Reports \ {NoVuln}
  /\ work.at \in {"epss", "score"} => record[work.c] # NoRow
  /\ work.at \in Notifying => {"at", "mailing", "daily", "due"} \subseteq DOMAIN work

\* What a session holds of a finding is out of date in its status only.
FoundIsFresh ==
  work.at \in Matching =>
    /\ DOMAIN work.found \subseteq Components
    /\ \A c \in DOMAIN work.found :
         /\ finding[c] # NoRow
         /\ work.found[c].label = finding[c].label
         /\ work.found[c].notified = finding[c].notified

\* What is due is due at the risk the finding has.
DueIsFresh ==
  work.at \in Notifying =>
    \A d \in work.due :
      /\ d[1] \in Components /\ finding[d[1]] # NoRow
      /\ d = <<d[1], finding[d[1]].label>>

MailingIsDue ==
  work.at \in Notifying =>
    work.mailing \in {{}, IF work.at = "immediate" THEN Immediate(work.due) ELSE Digest(work.due)}

KevsAreKept == \A c \in kevs : record[c] # NoRow /\ record[c].kev

FactInv ==
  /\ TableTypes /\ WorkTypes
  /\ FoundIsFresh /\ DueIsFresh /\ MailingIsDue
  /\ KevsAreKept /\ ExploitedIsCritical

\* The emission under way has come past recipient r.
Handled(r) ==
  LET m == emission[Worker] IN
  m # Silent /\ r \notin m.todo /\ (m.at = "send" => r # m.to)

\* Whom the emission has come past was told, or the mail was a duplicate.
EmittingIsMailing ==
  LET m == emission[Worker] IN
  m # Silent =>
    /\ work.at \in Notifying /\ work.mailing # {}
    /\ m.at \in {"next", "send", "skip", "sent", "failed"}
    /\ m.at # "next" => m.to \notin m.todo
    /\ \A r \in Recipients : Handled(r) =>
         \A d \in work.mailing : <<r, d[2]>> \in told[d[1]] \/ r \in taken[d[1]]

MailInv == EmittingIsMailing /\ MarkedIsTold

\* What is due was not marked at a higher risk before, nor at the same, unless
\* the immediate mail has just told it.
DueIsNew ==
  work.at \in Notifying =>
    \A d \in work.due :
      /\ Rank(finding[d[1]].notified) <= Rank(d[2])
      /\ work.at = "immediate" \/ d \notin Immediate(work.due) =>
           Rank(finding[d[1]].notified) < Rank(d[2])

\* While the worker lives, what was told is marked, or being told now.
ToldIsMarked ==
  deaths = 0 => \A c \in Components : \A x \in told[c] :
    /\ finding[c] # NoRow
    /\ \/ Rank(x[2]) <= Rank(finding[c].notified)
       \/ work.at \in Notifying /\ <<c, x[2]>> \in work.mailing /\ Handled(x[1])

OnceInv == DueIsNew /\ ToldIsMarked /\ ToldOnce

-----------------------------------------------------------------------------
(***************************************************************************)
(* Facts about the constants and the small operators, and the cases of     *)
(* Next.                                                                   *)
(***************************************************************************)
LEMMA NextCases ==
  ASSUME Next
  PROVE  \/ \E c \in Components : Around(c)
         \/ WakeUp \/ Restart \/ Fetch \/ RecordVulnerability \/ RecordEpss \/ ScoreFinding
         \/ BeginAlerts \/ CreateAlert \/ BeginNotify \/ RunDigest
         \/ MailImmediate \/ MailDigest \/ NothingToMail \/ Mailing \/ MarkNotified
         \/ Die \/ WindowPasses
  BY Zenon DEF Next, WorkerStep

\* The labels are in order, and no label is below all of them.
LEMMA Ranks ==
  /\ Rank("none") = 0 /\ Rank("LOW") = 1 /\ Rank("MEDIUM") = 2
  /\ Rank("HIGH") = 3 /\ Rank("CRITICAL") = 4
  /\ \A l \in Labels \cup {"none"} : Rank(l) \in 0 .. 4
  BY DEF Rank, Labels

\* A rank is a number, whatever it is the rank of.
LEMMA RankIsNatural == \A l : Rank(l) \in Nat
  BY DEF Rank

\* A label is what RiskLabel returns, and an exploited vulnerability is critical.
LEMMA Risks ==
  ASSUME NEW cvss, NEW score, NEW kev
  PROVE  RiskLabel(cvss, score, kev) \in Labels /\ (kev => RiskLabel(cvss, score, kev) = "CRITICAL")
  BY DEF RiskLabel, Labels

\* A row is not the absence of one.
LEMMA RowsAreKnown == NoRow \notin FindingRow /\ NoRow \notin RecordRow /\ NoVuln = NoRow
  BY DEF NoRow, NoVuln, FindingRow, RecordRow

-----------------------------------------------------------------------------
(***************************************************************************)
(* What the worker knows of the tables.                                    *)
(***************************************************************************)
\* Tables that keep their types
LEMMA TablesStay ==
  ASSUME TableTypes, UNCHANGED <<record, finding, told, taken, kevs, deaths>>,
         feed' \in [Components -> Reports], epss' \in [Components -> EpssScores],
         cache' \in [Components -> CacheRow], seen' \subseteq Components,
         DOMAIN emission' = Emitters
  PROVE  TableTypes'
  BY DEF TableTypes

\* The worker goes on, and findings and records are as they were.
LEMMA WorkGoesOn ==
  ASSUME FactInv, UNCHANGED <<record, finding, kevs, torn>>, TableTypes',
         WorkTypes', FoundIsFresh', DueIsFresh', MailingIsDue'
  PROVE  FactInv'
  BY DEF FactInv, KevsAreKept, ExploitedIsCritical

\* The mark is the risk the finding has.
LEMMA MarkedFindings ==
  ASSUME MarkNotified, TableTypes, DueIsFresh, MailingIsDue, work.at \in Notifying
  PROVE  \A c \in Components :
           IF \E d \in work.mailing : d[1] = c
           THEN /\ finding[c] # NoRow /\ <<c, finding[c].label>> \in work.mailing
                /\ finding'[c] = [finding[c] EXCEPT !.notified = finding[c].label]
           ELSE finding'[c] = finding[c]
<1>1. \A d \in work.mailing : d \in work.due
  BY DEF MailingIsDue, Immediate, Digest
<1>2. \A d \in work.mailing : finding[d[1]] # NoRow /\ d = <<d[1], finding[d[1]].label>>
  BY <1>1 DEF DueIsFresh
<1> SUFFICES ASSUME NEW c \in Components
             PROVE  IF \E d \in work.mailing : d[1] = c
                    THEN /\ finding[c] # NoRow /\ <<c, finding[c].label>> \in work.mailing
                         /\ finding'[c] = [finding[c] EXCEPT !.notified = finding[c].label]
                    ELSE finding'[c] = finding[c]
  OBVIOUS
<1> DEFINE d0 == CHOOSE d \in work.mailing : d[1] = c
<1>3. finding'[c] = IF \E d \in work.mailing : d[1] = c
                    THEN [finding[c] EXCEPT !.notified = d0[2]] ELSE finding[c]
  BY DEF MarkNotified, Marked
<1>4. (\E d \in work.mailing : d[1] = c) => d0 \in work.mailing /\ d0[1] = c
  OBVIOUS
<1> HIDE DEF d0
<1>5. (\E d \in work.mailing : d[1] = c) =>
        finding[c] # NoRow /\ d0[2] = finding[c].label /\ <<c, finding[c].label>> \in work.mailing
  BY <1>2, <1>4
<1> QED  BY <1>3, <1>5

\* Every step keeps the facts.
LEMMA FactStep ==
  ASSUME FactInv, EmittingIsMailing, [Next]_vars
  PROVE  FactInv'
<1>h. TableTypes /\ WorkTypes /\ FoundIsFresh /\ DueIsFresh /\ MailingIsDue /\ KevsAreKept
      /\ ExploitedIsCritical
  BY DEF FactInv
<1>s. ASSUME UNCHANGED <<record, finding, kevs, torn, work>>, TableTypes'
      PROVE  FactInv'
  <2>1. WorkTypes' /\ FoundIsFresh' /\ DueIsFresh' /\ MailingIsDue'
    BY <1>h, <1>s DEF WorkTypes, FoundIsFresh, DueIsFresh, MailingIsDue, Immediate, Digest
  <2> QED  BY <1>s, <2>1, WorkGoesOn
<1>1. CASE UNCHANGED vars
  <2>1. UNCHANGED <<feed, epss, cache, seen, record, finding, kevs, torn, work, told, taken, emission, deaths>>
    BY <1>1 DEF vars, vulnVars, world, histories, mailed, notificationVars
  <2> QED  BY <1>h, <1>s, <2>1 DEF TableTypes
<1>2. CASE Next
  <2> DEFINE Goal == FactInv'
  <2> SUFFICES Goal
    OBVIOUS
  <2>1. ASSUME NEW c \in Components, Around(c)
        PROVE  Goal
    <3>e. UNCHANGED <<emission, told, taken, kevs, torn, work, deaths, record>>
      BY <2>1 DEF Around, IngestComponent, ComponentAges, FeedChanges, CacheExpires,
         UpdateFindingStatus, AlertAges, notificationVars, histories, mailed
    <3>1. CASE UpdateFindingStatus(c)
      <4>1. UNCHANGED <<feed, epss, cache, seen>>
        BY <3>1 DEF UpdateFindingStatus, world
      <4>2. PICK s \in {"open", "resolved"} :
              finding' = [finding EXCEPT ![c] = [finding[c] EXCEPT !.status = s]]
        BY <3>1 DEF UpdateFindingStatus
      <4> DEFINE row == [finding[c] EXCEPT !.status = s]
      <4>3. finding[c] \in FindingRow
        BY <3>1, <1>h DEF UpdateFindingStatus, TableTypes
      <4>4. row \in FindingRow /\ row.label = finding[c].label /\ row.notified = finding[c].notified
        BY <4>3 DEF FindingRow
      <4> HIDE DEF row
      <4>5. finding' = [finding EXCEPT ![c] = row]
        BY <4>2 DEF row
      <4>6. /\ finding' \in [Components -> FindingRow \cup {NoRow}]
            /\ \A d \in Components :
                 /\ finding[d] # NoRow => finding'[d] # NoRow
                 /\ finding'[d].label = finding[d].label /\ finding'[d].notified = finding[d].notified
        BY <1>h, <4>4, <4>5, RowsAreKnown DEF TableTypes
      <4>7. TableTypes'
        BY <1>h, <3>e, <4>1, <4>6 DEF TableTypes
      <4>8. WorkTypes' /\ MailingIsDue' /\ KevsAreKept'
        BY <1>h, <3>e DEF WorkTypes, MailingIsDue, KevsAreKept, Immediate, Digest
      <4>9. FoundIsFresh' /\ DueIsFresh'
        BY <1>h, <3>e, <4>6 DEF FoundIsFresh, DueIsFresh
      <4>10. ExploitedIsCritical'
        BY <1>h, <3>e, <4>6 DEF ExploitedIsCritical, TableTypes
      <4> QED  BY <4>7, <4>8, <4>9, <4>10 DEF FactInv
    <3>2. CASE ~ UpdateFindingStatus(c)
      <4>1. finding' = finding
        BY <2>1, <3>2 DEF Around, IngestComponent, ComponentAges, FeedChanges, CacheExpires, AlertAges
      <4>2. feed' \in [Components -> Reports] /\ epss' \in [Components -> EpssScores]
        BY <2>1, <3>2, <1>h DEF Around, IngestComponent, ComponentAges, FeedChanges, CacheExpires,
           AlertAges, TableTypes
      <4>3. cache' \in [Components -> CacheRow]
        <5>1. NotCached \in CacheRow
          BY DEF NotCached, CacheRow, AtMost
        <5>2. cache' = cache \/ cache' = [cache EXCEPT ![c] = NotCached]
          BY <2>1, <3>2 DEF Around, IngestComponent, ComponentAges, FeedChanges, CacheExpires, AlertAges
        <5> QED  BY <5>1, <5>2, <1>h DEF TableTypes
      <4>4. seen' \subseteq Components
        BY <2>1, <3>2, <1>h DEF Around, IngestComponent, ComponentAges, FeedChanges, CacheExpires,
           AlertAges, TableTypes
      <4> QED  BY <1>h, <1>s, <3>e, <4>1, <4>2, <4>3, <4>4, TablesStay DEF TableTypes
    <3> QED  BY <3>1, <3>2
  <2>2. CASE WakeUp \/ Restart
    <3>1. /\ UNCHANGED <<feed, epss, cache, seen, record, finding, kevs, torn, told, taken, emission, deaths>>
          /\ work' = Cycle
      BY <2>2 DEF WakeUp, Restart, Same, world, histories, mailed, notificationVars
    <3>2. TableTypes'
      BY <1>h, <3>1 DEF TableTypes
    <3>3. WorkTypes' /\ FoundIsFresh' /\ DueIsFresh' /\ MailingIsDue'
      BY <1>h, <3>1 DEF WorkTypes, FoundIsFresh, DueIsFresh, MailingIsDue, Cycle, Matching, Notifying,
         TableTypes
    <3> QED  BY <3>1, <3>2, <3>3, WorkGoesOn
  <2>3. CASE Fetch
    <3>0. work.at = "match" /\ UNCHANGED <<feed, epss, seen, record, finding, kevs, torn, told, taken, emission, deaths>>
      BY <2>3 DEF Fetch, Same, histories, mailed, notificationVars
    <3>1. PICK c \in work.todo :
            LET r == IF cache[c].intel = <<>> THEN feed[c] ELSE cache[c].intel[1] IN
            /\ cache' = [cache EXCEPT ![c].intel = <<r>>]
            /\ work' = IF r = NoVuln THEN [work EXCEPT !.todo = @ \ {c}]
                       ELSE [at |-> "record", c |-> c, todo |-> work.todo \ {c},
                             found |-> work.found, report |-> r]
      BY <2>3 DEF Fetch
    <3> DEFINE r == IF cache[c].intel = <<>> THEN feed[c] ELSE cache[c].intel[1]
    <3>2. /\ c \in Components /\ work.todo \subseteq Components
          /\ {"at", "todo", "found"} \subseteq DOMAIN work
      BY <3>0, <1>h DEF WorkTypes, Matching
    <3>3. r \in Reports /\ cache[c] \in CacheRow
      <4>1. cache[c] \in CacheRow /\ feed[c] \in Reports
        BY <3>2, <1>h DEF TableTypes
      <4>2. cache[c].intel = <<>> \/ \E x \in Reports : cache[c].intel = <<x>>
        BY <4>1 DEF CacheRow, AtMost
      <4> QED  BY <4>1, <4>2
    <3>4. [cache[c] EXCEPT !.intel = <<r>>] \in CacheRow
      BY <3>3 DEF CacheRow, AtMost
    <3>5. /\ cache' = [cache EXCEPT ![c] = [cache[c] EXCEPT !.intel = <<r>>]]
          /\ work' = IF r = NoVuln THEN [work EXCEPT !.todo = @ \ {c}]
                     ELSE [at |-> "record", c |-> c, todo |-> work.todo \ {c},
                           found |-> work.found, report |-> r]
      BY <3>1
    <3> HIDE DEF r
    <3>6. cache' \in [Components -> CacheRow]
      BY <1>h, <3>2, <3>4, <3>5 DEF TableTypes
    <3>7. TableTypes'
      BY <1>h, <3>0, <3>6, TablesStay DEF TableTypes
    <3>8. /\ work'.at \in {"match", "record"} /\ work'.found = work.found
          /\ work'.todo \subseteq Components /\ {"at", "todo", "found"} \subseteq DOMAIN work'
          /\ work'.at = "record" => "c" \in DOMAIN work' /\ work'.c = c /\ work'.report = r /\ r # NoVuln
      BY <3>0, <3>2, <3>5
    <3>9. WorkTypes'
      BY <3>2, <3>3, <3>8 DEF WorkTypes, Matching, Notifying
    <3>10. FoundIsFresh' /\ DueIsFresh' /\ MailingIsDue'
      BY <1>h, <3>0, <3>8 DEF FoundIsFresh, DueIsFresh, MailingIsDue, Matching, Notifying
    <3> QED  BY <3>0, <3>7, <3>9, <3>10, WorkGoesOn
  <2>4. CASE RecordVulnerability
    <3> DEFINE c == work.c
               r == work.report
               row == Merged(record[c], r)
    <3>1. /\ work.at = "record" /\ record' = [record EXCEPT ![c] = row]
          /\ kevs' = IF r.kev THEN kevs \cup {c} ELSE kevs
          /\ torn' = torn \cup {c}
          /\ work' = [at |-> "epss", c |-> c, todo |-> work.todo, found |-> work.found]
          /\ UNCHANGED <<feed, epss, cache, seen, finding, told, taken, emission, deaths>>
      BY <2>4 DEF RecordVulnerability, Same, world, mailed, notificationVars
    <3>2. c \in Components /\ r \in Reports \ {NoVuln} /\ work.todo \subseteq Components
      BY <3>1, <1>h DEF WorkTypes, Matching
    <3>3. row \in RecordRow /\ (r.kev => row.kev) /\ (record[c] # NoRow /\ record[c].kev => row.kev)
      <4>1. r \in [known : {TRUE}, cvss : Nat, kev : BOOLEAN]
        BY <3>2, VulnConstants DEF NoVuln
      <4>2. record[c] \in RecordRow \cup {NoRow}
        BY <3>2, <1>h DEF TableTypes
      <4> HIDE DEF r
      <4> QED  BY <4>1, <4>2, RowsAreKnown DEF Merged, RecordRow
    <3> HIDE DEF row
    <3>4. row # NoRow
      BY <3>3, RowsAreKnown
    <3>5. TableTypes'
      BY <1>h, <3>1, <3>2, <3>3 DEF TableTypes
    <3>6. KevsAreKept'
      BY <1>h, <3>1, <3>2, <3>3, <3>4 DEF KevsAreKept, TableTypes
    <3>7. ExploitedIsCritical'
      BY <1>h, <3>1 DEF ExploitedIsCritical
    <3>8. WorkTypes'
      BY <1>h, <3>1, <3>2, <3>4 DEF WorkTypes, Matching, Notifying, TableTypes
    <3>9. FoundIsFresh' /\ DueIsFresh' /\ MailingIsDue'
      BY <1>h, <3>1 DEF FoundIsFresh, DueIsFresh, MailingIsDue, Matching, Notifying
    <3> QED  BY <3>5, <3>6, <3>7, <3>8, <3>9 DEF FactInv
  <2>5. CASE RecordEpss
    <3> DEFINE c == work.c
               s == IF cache[c].epss = <<>> THEN epss[c] ELSE cache[c].epss[1]
               row == [record[c] EXCEPT !.epss = s]
    <3>1. /\ work.at = "epss" /\ record' = [record EXCEPT ![c] = row]
          /\ cache' = [cache EXCEPT ![c] = [cache[c] EXCEPT !.epss = <<s>>]]
          /\ work' = [work EXCEPT !.at = "score"]
          /\ UNCHANGED <<feed, epss, seen, finding, kevs, torn, told, taken, emission, deaths>>
      BY <2>5 DEF RecordEpss, Same, histories, mailed, notificationVars
    <3>2. /\ c \in Components /\ record[c] \in RecordRow /\ work.todo \subseteq Components
          /\ {"at", "todo", "found", "c"} \subseteq DOMAIN work
      BY <3>1, <1>h DEF WorkTypes, Matching, TableTypes
    <3>3. s \in EpssScores /\ s \in Nat /\ cache[c] \in CacheRow
      <4>1. cache[c] \in CacheRow /\ epss[c] \in EpssScores
        BY <3>2, <1>h DEF TableTypes
      <4>2. cache[c].epss = <<>> \/ \E x \in EpssScores : cache[c].epss = <<x>>
        BY <4>1 DEF CacheRow, AtMost
      <4>3. s \in EpssScores
        BY <4>1, <4>2
      <4> HIDE DEF s
      <4> QED  BY <4>1, <4>3, VulnConstants
    <3> HIDE DEF s
    <3>4. row \in RecordRow /\ row.kev = record[c].kev
      BY <3>2, <3>3 DEF RecordRow
    <3>5. [cache[c] EXCEPT !.epss = <<s>>] \in CacheRow
      BY <3>3 DEF CacheRow, AtMost
    <3>w. /\ work'.at = "score" /\ work'.c = c /\ work'.todo = work.todo /\ work'.found = work.found
          /\ DOMAIN work' = DOMAIN work
      BY <3>1, <3>2
    <3> HIDE DEF row, c
    <3>6. TableTypes'
      BY <1>h, <3>1, <3>2, <3>4, <3>5 DEF TableTypes
    <3>7. KevsAreKept'
      BY <1>h, <3>1, <3>2, <3>4, RowsAreKnown DEF KevsAreKept, TableTypes
    <3>8. ExploitedIsCritical'
      BY <1>h, <3>1 DEF ExploitedIsCritical
    <3>9. WorkTypes'
      <4>1. record'[c] # NoRow
        BY <1>h, <3>1, <3>2, <3>4, RowsAreKnown DEF TableTypes
      <4> QED  BY <3>2, <3>w, <4>1 DEF WorkTypes, Matching, Notifying
    <3>10. FoundIsFresh' /\ DueIsFresh' /\ MailingIsDue'
      BY <1>h, <3>1, <3>w DEF FoundIsFresh, DueIsFresh, MailingIsDue, Matching, Notifying
    <3> QED  BY <3>6, <3>7, <3>8, <3>9, <3>10 DEF FactInv
  <2>6. CASE ScoreFinding
    <3> DEFINE c == work.c
               label == RiskLabel(record[c].cvss, record[c].epss, record[c].kev)
               row == IF finding[c] = NoRow
                      THEN [known |-> TRUE, label |-> label, status |-> "open", notified |-> "none"]
                      ELSE [finding[c] EXCEPT !.label = label]
               found == [d \in DOMAIN work.found \cup {c} |-> IF d = c THEN row ELSE work.found[d]]
    <3>1. /\ work.at = "score" /\ finding' = [finding EXCEPT ![c] = row]
          /\ torn' = torn \ {c}
          /\ work' = [at |-> "match", todo |-> work.todo, found |-> found]
          /\ UNCHANGED <<feed, epss, cache, seen, record, kevs, told, taken, emission, deaths>>
      BY <2>6 DEF ScoreFinding, Same, world, mailed, notificationVars
    <3>2. c \in Components /\ work.todo \subseteq Components
      BY <3>1, <1>h DEF WorkTypes, Matching
    <3>3. label \in Labels /\ (record[c].kev => label = "CRITICAL")
      BY Risks
    <3> HIDE DEF label
    <3>4. row \in FindingRow /\ row.label = label
      <4>1. finding[c] \in FindingRow \cup {NoRow}
        BY <3>2, <1>h DEF TableTypes
      <4> QED  BY <3>3, <4>1 DEF FindingRow
    <3>5. row # NoRow
      BY <3>4, RowsAreKnown
    <3> HIDE DEF row
    <3>6. TableTypes'
      BY <1>h, <3>1, <3>2, <3>4 DEF TableTypes
    <3>7. KevsAreKept'
      BY <1>h, <3>1 DEF KevsAreKept
    <3>8. ExploitedIsCritical'
      <4> SUFFICES ASSUME NEW d \in kevs' \ torn'
                   PROVE  finding'[d] # NoRow /\ finding'[d].label = "CRITICAL"
        BY DEF ExploitedIsCritical
      <4>1. CASE d = c
        <5>1. record[c].kev
          BY <1>h, <3>1, <4>1 DEF KevsAreKept
        <5> QED  BY <1>h, <3>1, <3>2, <3>3, <3>4, <3>5, <4>1, <5>1 DEF TableTypes
      <4>2. CASE d # c
        BY <1>h, <3>1, <4>2 DEF ExploitedIsCritical, TableTypes
      <4> QED  BY <4>1, <4>2
    <3>9. /\ DOMAIN found = DOMAIN work.found \cup {c} /\ found[c] = row
          /\ \A d \in DOMAIN work.found : d # c => found[d] = work.found[d]
      OBVIOUS
    <3> HIDE DEF found
    <3>10. WorkTypes' /\ DueIsFresh' /\ MailingIsDue'
      BY <1>h, <3>1, <3>2 DEF WorkTypes, DueIsFresh, MailingIsDue, Matching, Notifying
    <3>11. FoundIsFresh'
      <4>1. DOMAIN work.found \subseteq Components
        BY <1>h, <3>1 DEF FoundIsFresh, Matching
      <4>2. ASSUME NEW d \in DOMAIN found
            PROVE  finding'[d] # NoRow /\ found[d].label = finding'[d].label
                   /\ found[d].notified = finding'[d].notified
        <5>1. CASE d = c
          BY <1>h, <3>1, <3>2, <3>5, <3>9, <5>1 DEF TableTypes
        <5>2. CASE d # c
          BY <1>h, <3>1, <3>9, <4>1, <5>2 DEF TableTypes, FoundIsFresh, Matching
        <5> QED  BY <5>1, <5>2
      <4>3. work'.found = found
        BY <3>1
      <4>4. DOMAIN found \subseteq Components
        BY <3>2, <3>9, <4>1
      <4> QED  BY <4>2, <4>3, <4>4 DEF FoundIsFresh
    <3> QED  BY <3>6, <3>7, <3>8, <3>10, <3>11 DEF FactInv
  <2>7. CASE BeginAlerts \/ CreateAlert
    <3>0. UNCHANGED <<feed, epss, cache, seen, record, finding, kevs, torn, told, taken, emission, deaths>>
      BY <2>7 DEF BeginAlerts, CreateAlert, Same, world, histories, mailed, notificationVars
    <3>1. TableTypes'
      BY <1>h, <3>0 DEF TableTypes
    <3>2. work.at \in Matching /\ {"at", "todo", "found"} \subseteq DOMAIN work
          /\ work.todo \subseteq Components /\ DOMAIN work.found \subseteq Components
      BY <2>7, <1>h DEF BeginAlerts, CreateAlert, WorkTypes, FoundIsFresh, Matching
    <3>3. /\ work'.at = "alert" /\ work'.found = work.found /\ work'.todo \subseteq Components
          /\ {"at", "todo", "found"} \subseteq DOMAIN work'
      BY <2>7, <3>2 DEF BeginAlerts, CreateAlert
    <3>4. WorkTypes' /\ DueIsFresh' /\ MailingIsDue'
      BY <3>3 DEF WorkTypes, DueIsFresh, MailingIsDue, Matching, Notifying
    <3>5. FoundIsFresh'
      BY <1>h, <3>0, <3>2, <3>3 DEF FoundIsFresh
    <3> QED  BY <3>0, <3>1, <3>4, <3>5, WorkGoesOn
  <2>8. CASE BeginNotify \/ RunDigest
    <3>0. UNCHANGED <<feed, epss, cache, seen, record, finding, kevs, torn, told, taken, emission, deaths>>
      BY <2>8 DEF BeginNotify, RunDigest, Same, world, histories, mailed, notificationVars
    <3>1. TableTypes'
      BY <1>h, <3>0 DEF TableTypes
    <3>2. PICK found : /\ work'.at = "immediate" /\ work'.mailing = {} /\ work'.due = Due(found)
                       /\ {"at", "mailing", "daily", "due"} \subseteq DOMAIN work'
                       /\ DOMAIN found \subseteq Components
                       /\ \A c \in DOMAIN found : finding[c] # NoRow /\ found[c].label = finding[c].label
      <4>1. CASE BeginNotify
        BY <1>h, <4>1 DEF BeginNotify, FoundIsFresh, Matching
      <4>2. CASE RunDigest
        BY <4>2 DEF RunDigest
      <4> QED  BY <2>8, <4>1, <4>2
    <3>3. WorkTypes' /\ FoundIsFresh' /\ MailingIsDue'
      BY <3>2 DEF WorkTypes, FoundIsFresh, MailingIsDue, Matching, Notifying
    <3>4. DueIsFresh'
      BY <3>0, <3>2 DEF DueIsFresh, Due
    <3> QED  BY <3>0, <3>1, <3>3, <3>4, WorkGoesOn
  <2>9. CASE MailImmediate \/ MailDigest
    <3>0. UNCHANGED <<feed, epss, cache, seen, record, finding, kevs, torn, told, taken, deaths>>
      BY <2>9 DEF MailImmediate, MailDigest, EmitFindings, world, histories, mailed
    <3>1. DOMAIN emission' = Emitters
      BY <2>9, <1>h DEF MailImmediate, MailDigest, EmitFindings, Emission, TableTypes
    <3>2. TableTypes'
      BY <1>h, <3>0, <3>1 DEF TableTypes
    <3>3. work.at \in Notifying /\ {"at", "mailing", "daily", "due"} \subseteq DOMAIN work
      BY <2>9, <1>h DEF MailImmediate, MailDigest, WorkTypes, Notifying
    <3>4. /\ work'.at = work.at /\ work'.due = work.due /\ DOMAIN work' = DOMAIN work
          /\ work'.mailing = IF work.at = "immediate" THEN Immediate(work.due) ELSE Digest(work.due)
      BY <2>9, <3>3 DEF MailImmediate, MailDigest, EmitFindings
    <3>5. WorkTypes' /\ FoundIsFresh' /\ MailingIsDue'
      BY <3>3, <3>4 DEF WorkTypes, FoundIsFresh, MailingIsDue, Matching, Notifying
    <3>6. DueIsFresh'
      BY <1>h, <3>0, <3>3, <3>4 DEF DueIsFresh
    <3> QED  BY <3>0, <3>2, <3>5, <3>6, WorkGoesOn
  <2>10. CASE NothingToMail
    <3>0. UNCHANGED <<feed, epss, cache, seen, record, finding, kevs, torn, told, taken, emission, deaths>>
          /\ work' = NextMail /\ work.at \in Notifying
      BY <2>10 DEF NothingToMail, Same, world, histories, mailed, notificationVars, Notifying
    <3>1. TableTypes'
      BY <1>h, <3>0 DEF TableTypes
    <3>2. {"at", "mailing", "daily", "due"} \subseteq DOMAIN work
      BY <1>h, <3>0 DEF WorkTypes
    <3>3. \/ /\ work'.at = "digest" /\ work'.mailing = {} /\ work'.due = work.due
             /\ DOMAIN work' = DOMAIN work
          \/ work'.at \in {"sleep", "hour"}
      BY <3>0, <3>2 DEF NextMail
    <3>4. WorkTypes' /\ FoundIsFresh' /\ MailingIsDue'
      BY <3>2, <3>3 DEF WorkTypes, FoundIsFresh, MailingIsDue, Matching, Notifying
    <3>5. DueIsFresh'
      BY <1>h, <3>0, <3>3 DEF DueIsFresh, Notifying
    <3> QED  BY <3>0, <3>1, <3>4, <3>5, WorkGoesOn
  <2>11. CASE Mailing
    <3>0. UNCHANGED <<feed, epss, cache, seen, record, finding, kevs, torn, work, deaths>>
      BY <2>11 DEF Mailing, world
    <3>1. DOMAIN told' = Components /\ DOMAIN taken' = Components
      BY <2>11, <1>h DEF Mailing, TableTypes
    <3>2. DOMAIN emission' = Emitters
      BY <2>11, <1>h DEF Mailing, EmitStep, InsertEvent, SkipDuplicate, Send, MarkEvent, TableTypes
    <3>3. TableTypes'
      BY <1>h, <3>0, <3>1, <3>2 DEF TableTypes
    <3> QED  BY <1>s, <3>0, <3>3
  <2>12. CASE MarkNotified
    <3>0. /\ UNCHANGED <<feed, epss, cache, seen, record, kevs, torn, told, taken, deaths>>
          /\ work' = NextMail /\ DOMAIN emission' = DOMAIN emission
      BY <2>12 DEF MarkNotified, EndEmit, world, histories, mailed
    <3>1. work.at \in Notifying /\ {"at", "mailing", "daily", "due"} \subseteq DOMAIN work
      BY <2>12, <1>h DEF MarkNotified, Emitted, EmittingIsMailing, Silent, WorkTypes
    <3>2. \A c \in Components :
            \/ finding'[c] = finding[c]
            \/ finding'[c] = [finding[c] EXCEPT !.notified = finding[c].label] /\ finding[c] # NoRow
      BY <2>12, <3>1, <1>h, MarkedFindings
    <3>3. ASSUME NEW c \in Components
          PROVE  /\ finding'[c] \in FindingRow \cup {NoRow}
                 /\ finding[c] # NoRow <=> finding'[c] # NoRow
                 /\ finding'[c].label = finding[c].label
      <4>1. \A f \in FindingRow : LET g == [f EXCEPT !.notified = f.label]
                                  IN  g \in FindingRow /\ g.label = f.label
        BY DEF FindingRow
      <4>2. finding[c] \in FindingRow \cup {NoRow}
        BY <1>h DEF TableTypes
      <4> QED  BY <3>2, <4>1, <4>2, RowsAreKnown
    <3>4. finding' \in [Components -> FindingRow \cup {NoRow}]
      <4>1. finding' = [c \in Components |-> finding'[c]]
        BY <2>12 DEF MarkNotified
      <4> QED  BY <3>3, <4>1
    <3>5. TableTypes'
      BY <1>h, <3>0, <3>4 DEF TableTypes
    <3>6. \/ /\ work'.at = "digest" /\ work'.mailing = {} /\ work'.due = work.due
             /\ DOMAIN work' = DOMAIN work
          \/ work'.at \in {"sleep", "hour"}
      BY <3>0, <3>1 DEF NextMail
    <3>7. WorkTypes' /\ FoundIsFresh' /\ MailingIsDue'
      BY <3>1, <3>6 DEF WorkTypes, FoundIsFresh, MailingIsDue, Matching, Notifying
    <3>8. DueIsFresh'
      BY <1>h, <3>1, <3>3, <3>6 DEF DueIsFresh, Notifying
    <3>9. KevsAreKept'
      BY <1>h, <3>0 DEF KevsAreKept
    <3>10. ExploitedIsCritical'
      BY <1>h, <3>0, <3>3 DEF ExploitedIsCritical, TableTypes
    <3> QED  BY <3>5, <3>7, <3>8, <3>9, <3>10 DEF FactInv
  <2>13. CASE Die
    <3>0. /\ UNCHANGED <<feed, epss, cache, seen, record, finding, kevs, torn, told, taken>>
          /\ work' = [at |-> "down"] /\ DOMAIN emission' = DOMAIN emission /\ deaths' = deaths + 1
      BY <2>13 DEF Die, CutEmission, world, histories, mailed
    <3>1. TableTypes'
      BY <1>h, <3>0 DEF TableTypes
    <3>2. WorkTypes' /\ FoundIsFresh' /\ DueIsFresh' /\ MailingIsDue'
      BY <3>0 DEF WorkTypes, FoundIsFresh, DueIsFresh, MailingIsDue, Matching, Notifying
    <3> QED  BY <3>0, <3>1, <3>2, WorkGoesOn
  <2>14. CASE WindowPasses
    <3>0. UNCHANGED <<feed, epss, cache, seen, record, finding, kevs, torn, told, taken, work, emission, deaths>>
      BY <2>14 DEF WindowPasses, NewBucket, vulnVars, world, histories, mailed
    <3> QED  BY <1>h, <1>s, <3>0 DEF TableTypes
  <2> HIDE DEF Goal
  <2> QED  BY <1>2, NextCases, <2>1, <2>2, <2>3, <2>4, <2>5, <2>6, <2>7, <2>8, <2>9, <2>10, <2>11,
              <2>12, <2>13, <2>14
<1> QED  BY <1>1, <1>2

-----------------------------------------------------------------------------
(***************************************************************************)
(* What the mail under way has told.                                       *)
(***************************************************************************)
\* The findings of a mail are due.
LEMMA MailingFacts ==
  ASSUME FactInv, work.at \in Notifying
  PROVE  \A d \in work.mailing :
           /\ d \in work.due
           /\ d \in (IF work.at = "immediate" THEN work.due ELSE Digest(work.due))
           /\ d[1] \in Components /\ finding[d[1]] # NoRow
           /\ d = <<d[1], d[2]>> /\ d[2] = finding[d[1]].label
<1>1. \A d \in work.mailing :
        d \in work.due /\ d \in (IF work.at = "immediate" THEN work.due ELSE Digest(work.due))
  BY DEF FactInv, MailingIsDue, Immediate, Digest
<1>2. \A d \in work.mailing :
        d[1] \in Components /\ finding[d[1]] # NoRow /\ d = <<d[1], finding[d[1]].label>>
  BY <1>1 DEF FactInv, DueIsFresh
<1> QED  BY <1>1, <1>2

\* What a step of the worker's mail to `to` makes of the emission and of what is told
Emits(to, at) ==
  /\ emission'[Worker] = At(emission[Worker], at, to)
  /\ \/ /\ emission[Worker].at = "next" /\ to \in emission[Worker].todo
        /\ at \in {"next", "send", "skip"}
        /\ told' = told /\ retold' = retold
        /\ taken' = IF at = "send" THEN taken
                    ELSE [c \in Components |->
                            taken[c] \cup {to : d \in {e \in work.mailing : e[1] = c}}]
     \/ /\ emission[Worker].at = "send" /\ to = emission[Worker].to
        /\ at \in {"sent", "failed"} /\ taken' = taken
        /\ told' = [c \in Components |->
                      told[c] \cup {<<to, d[2]>> : d \in {e \in work.mailing : e[1] = c}}]
        /\ retold' = retold \cup {d \in work.mailing : <<to, d[2]>> \in told[d[1]]}
     \/ /\ emission[Worker].at \in {"skip", "sent", "failed"} /\ at = "next"
        /\ to = emission[Worker].to
        /\ UNCHANGED <<told, taken, retold>>

\* Every step of the emission is one of these.
LEMMA MailingCases ==
  ASSUME FactInv, EmittingIsMailing, Mailing
  PROVE  /\ emission[Worker] # Silent /\ work.at \in Notifying
         /\ \E to : \E at \in {"next", "send", "skip", "sent", "failed"} : Emits(to, at)
<1> DEFINE m == emission[Worker]
<1>1. m # Silent /\ EmitStep(Worker)
  BY DEF Mailing
<1>2. work.at \in Notifying
  BY <1>1 DEF EmittingIsMailing
<1>3. Worker \in DOMAIN emission
  BY VulnConstants DEF FactInv, TableTypes
<1>4. CASE InsertEvent(Worker)
  <2>1. m.at = "next"
    BY <1>4 DEF InsertEvent
  <2>2. PICK to \in m.todo : \E at \in {"next", "send", "skip"} :
          emission' = [emission EXCEPT ![Worker] = At(m, at, to)]
    BY <1>4 DEF InsertEvent
  <2>3. PICK at \in {"next", "send", "skip"} : emission' = [emission EXCEPT ![Worker] = At(m, at, to)]
    BY <2>2
  <2>4. emission'[Worker] = At(m, at, to) /\ emission'[Worker].at = at /\ emission'[Worker].to = to
    BY <1>3, <2>3 DEF At
  <2>5. told' = told /\ retold' = retold
    BY <2>1 DEF Mailing
  <2>6. taken' = IF at = "send" THEN taken
                 ELSE [c \in Components |-> taken[c] \cup {to : d \in {e \in work.mailing : e[1] = c}}]
    BY <2>1, <2>4 DEF Mailing
  <2>7. at \in {"next", "send", "skip", "sent", "failed"} /\ to \in emission[Worker].todo
    BY <2>2, <2>3
  <2>8. Emits(to, at)
    BY <2>1, <2>3, <2>4, <2>5, <2>6, <2>7 DEF Emits
  <2> QED  BY <1>1, <1>2, <2>7, <2>8
<1>5. CASE Send(Worker)
  <2>1. m.at = "send" /\ \E at \in {"sent", "failed"} : emission' = [emission EXCEPT ![Worker] = At(m, at, m.to)]
    BY <1>5 DEF Send
  <2>2. /\ taken' = taken
        /\ told' = [c \in Components |->
                      told[c] \cup {<<m.to, d[2]>> : d \in {e \in work.mailing : e[1] = c}}]
        /\ retold' = retold \cup {d \in work.mailing : <<m.to, d[2]>> \in told[d[1]]}
    BY <2>1 DEF Mailing
  <2>3. \E at \in {"sent", "failed"} : Emits(m.to, at)
    BY <1>3, <2>1, <2>2 DEF Emits
  <2> QED  BY <1>1, <1>2, <2>3
<1>6. CASE SkipDuplicate(Worker) \/ MarkEvent(Worker)
  <2>1. /\ m.at \in {"skip", "sent", "failed"}
        /\ emission' = [emission EXCEPT ![Worker] = At(m, "next", m.to)]
    BY <1>6 DEF SkipDuplicate, MarkEvent
  <2>2. UNCHANGED <<told, taken, retold>>
    BY <2>1 DEF Mailing
  <2>3. Emits(m.to, "next")
    BY <1>3, <2>1, <2>2 DEF Emits
  <2> QED  BY <1>1, <1>2, <2>3
<1> QED  BY <1>1, <1>4, <1>5, <1>6 DEF EmitStep

\* A step in which no mail is under way, or nothing of it moves
LEMMA MailStays ==
  ASSUME FactInv, MailInv, UNCHANGED <<emission, told, taken>>,
         emission[Worker] = Silent \/ work' = work,
         \A c \in Components : finding'[c] # NoRow /\ finding'[c].notified # "none" =>
           finding[c] # NoRow /\ finding'[c].notified = finding[c].notified
  PROVE  MailInv'
<1>1. EmittingIsMailing'
  BY DEF MailInv, EmittingIsMailing, Handled
<1>2. MarkedIsTold'
  BY DEF MailInv, MarkedIsTold
<1> QED  BY <1>1, <1>2 DEF MailInv

\* What keeps the marks of all findings
MarksStay ==
  \A c \in Components :
    /\ finding[c] # NoRow => finding'[c] # NoRow /\ finding'[c].notified = finding[c].notified
    /\ finding[c] = NoRow /\ finding'[c] # NoRow => finding'[c].notified = "none"

\* The steps that neither mail, nor mark, nor end the worker
Quiet ==
  \/ \E c \in Components : Around(c)
  \/ WakeUp \/ Restart \/ Fetch \/ RecordVulnerability \/ RecordEpss \/ ScoreFinding
  \/ BeginAlerts \/ CreateAlert \/ BeginNotify \/ RunDigest \/ NothingToMail
  \/ WindowPasses

\* Such a step leaves the mail under way and the marks alone.
LEMMA QuietSteps ==
  ASSUME FactInv, EmittingIsMailing, Quiet
  PROVE  /\ UNCHANGED <<emission, told, taken, retold, deaths>>
         /\ emission[Worker] = Silent \/ work' = work
         /\ MarksStay
<1>1. ASSUME NEW c \in Components, Around(c)
      PROVE  UNCHANGED <<emission, told, taken, retold, deaths, work>> /\ MarksStay
  <2>1. UNCHANGED <<emission, told, taken, retold, deaths, work>>
    BY <1>1 DEF Around, IngestComponent, ComponentAges, FeedChanges, CacheExpires,
       UpdateFindingStatus, AlertAges, notificationVars, histories, mailed
  <2>2. CASE UpdateFindingStatus(c)
    <3>1. finding[c] \in FindingRow
      BY <2>2 DEF UpdateFindingStatus, FactInv, TableTypes
    <3>2. PICK s \in {"open", "resolved"} :
            finding' = [finding EXCEPT ![c] = [finding[c] EXCEPT !.status = s]]
      BY <2>2 DEF UpdateFindingStatus
    <3> DEFINE row == [finding[c] EXCEPT !.status = s]
    <3>3. row \in FindingRow /\ row.notified = finding[c].notified
      BY <3>1 DEF FindingRow
    <3>4. finding' = [finding EXCEPT ![c] = row] /\ c \in DOMAIN finding
      BY <3>2 DEF FactInv, TableTypes
    <3> HIDE DEF row
    <3>5. row # NoRow /\ finding[c] # NoRow
      BY <3>1, <3>3, RowsAreKnown
    <3>6. MarksStay
      BY <3>3, <3>4, <3>5 DEF MarksStay, FactInv, TableTypes
    <3> QED  BY <2>1, <3>6
  <2>3. CASE ~ UpdateFindingStatus(c)
    <3>1. finding' = finding
      BY <1>1, <2>3 DEF Around, IngestComponent, ComponentAges, FeedChanges, CacheExpires, AlertAges
    <3> QED  BY <2>1, <3>1 DEF MarksStay
  <2> QED  BY <2>2, <2>3
<1>2. CASE \/ WakeUp \/ Restart \/ Fetch \/ RecordVulnerability \/ RecordEpss
           \/ BeginAlerts \/ CreateAlert \/ BeginNotify \/ RunDigest
  <2>1. UNCHANGED <<emission, told, taken, retold, deaths, finding>>
    BY <1>2 DEF WakeUp, Restart, Fetch, RecordVulnerability, RecordEpss, BeginAlerts, CreateAlert,
       BeginNotify, RunDigest, Same, notificationVars, histories, mailed
  <2>2. work.at \notin Notifying
    BY <1>2 DEF WakeUp, Restart, Fetch, RecordVulnerability, RecordEpss, BeginAlerts, CreateAlert,
       BeginNotify, RunDigest, Notifying
  <2>3. emission[Worker] = Silent
    BY <2>2 DEF EmittingIsMailing
  <2> QED  BY <2>1, <2>3 DEF MarksStay
<1>3. CASE ScoreFinding
  <2> DEFINE c == work.c
             label == RiskLabel(record[c].cvss, record[c].epss, record[c].kev)
             row == IF finding[c] = NoRow
                    THEN [known |-> TRUE, label |-> label, status |-> "open", notified |-> "none"]
                    ELSE [finding[c] EXCEPT !.label = label]
  <2>1. /\ UNCHANGED <<emission, told, taken, retold, deaths>>
        /\ work.at = "score" /\ finding' = [finding EXCEPT ![c] = row]
    BY <1>3 DEF ScoreFinding, Same, notificationVars, mailed
  <2>2. c \in Components
    BY <2>1 DEF FactInv, WorkTypes
  <2>3. finding[c] \in FindingRow \cup {NoRow} /\ label \in Labels
    BY <2>2, Risks DEF FactInv, TableTypes
  <2> HIDE DEF label, c
  <2>4. /\ row \in FindingRow
        /\ finding[c] # NoRow => row.notified = finding[c].notified
        /\ finding[c] = NoRow => row.notified = "none"
    BY <2>3 DEF FindingRow
  <2> HIDE DEF row
  <2>5. MarksStay
    BY <2>1, <2>2, <2>4, RowsAreKnown DEF MarksStay, FactInv, TableTypes
  <2>6. emission[Worker] = Silent
    BY <2>1 DEF EmittingIsMailing, Notifying
  <2> QED  BY <2>1, <2>5, <2>6
<1>4. CASE NothingToMail
  <2>1. UNCHANGED <<emission, told, taken, retold, deaths, finding>> /\ work.mailing = {}
    BY <1>4 DEF NothingToMail, Same, notificationVars, histories, mailed
  <2> QED  BY <2>1 DEF EmittingIsMailing, MarksStay
<1>5. CASE WindowPasses
  <2>1. UNCHANGED <<emission, told, taken, retold, deaths, finding, work>>
    BY <1>5 DEF WindowPasses, NewBucket, vulnVars, histories, mailed
  <2> QED  BY <2>1 DEF MarksStay
<1> QED  BY <1>1, <1>2, <1>3, <1>4, <1>5 DEF Quiet

\* A mail begins when none is under way, with every admin before it.
LEMMA MailBegins ==
  ASSUME FactInv, EmittingIsMailing, MailImmediate \/ MailDigest
  PROVE  /\ UNCHANGED <<finding, told, taken, retold, deaths>>
         /\ work.at \in Notifying /\ emission[Worker] = Silent
         /\ work'.at = work.at /\ work'.mailing # {} /\ work'.due = work.due
         /\ emission'[Worker].at = "next" /\ emission'[Worker].todo = Recipients
<1>1. /\ UNCHANGED <<finding, told, taken, retold, deaths>>
      /\ work.at \in Notifying /\ work.mailing = {}
  BY DEF MailImmediate, MailDigest, EmitFindings, histories, mailed, Notifying
<1>2. {"at", "mailing", "daily", "due"} \subseteq DOMAIN work
  BY <1>1 DEF FactInv, WorkTypes
<1>3. work'.at = work.at /\ work'.mailing # {} /\ work'.due = work.due
  BY <1>2 DEF MailImmediate, MailDigest, EmitFindings
<1>4. Worker \in DOMAIN emission
  BY VulnConstants DEF FactInv, TableTypes
<1>5. emission'[Worker].at = "next" /\ emission'[Worker].todo = Recipients
  BY <1>4 DEF MailImmediate, MailDigest, EmitFindings, Emission
<1> QED  BY <1>1, <1>3, <1>5 DEF EmittingIsMailing

\* Every step is quiet, or one of the five about a mail.
LEMMA NextIsOf ==
  ASSUME Next
  PROVE  Quiet \/ MailImmediate \/ MailDigest \/ Mailing \/ MarkNotified \/ Die
  BY NextCases, Zenon DEF Quiet

\* What the mail under way has told stays in step with it.
LEMMA MailStep ==
  ASSUME FactInv, MailInv, [Next]_vars
  PROVE  MailInv'
<1>h. EmittingIsMailing /\ MarkedIsTold
  BY DEF MailInv
<1>1. CASE UNCHANGED vars
  BY <1>1, MailStays DEF vars, vulnVars, histories, mailed, notificationVars
<1>2. CASE Quiet
  BY <1>2, <1>h, QuietSteps, MailStays DEF MarksStay
<1>3. CASE MailImmediate \/ MailDigest
  <2>1. MarkedIsTold'
    BY <1>h, <1>3, MailBegins DEF MarkedIsTold
  <2>2. EmittingIsMailing'
    BY <1>h, <1>3, MailBegins DEF EmittingIsMailing, Handled
  <2> QED  BY <2>1, <2>2 DEF MailInv
<1>4. CASE Mailing
  <2> DEFINE m == emission[Worker]
  <2>0. work' = work /\ finding' = finding
    BY <1>4 DEF Mailing
  <2>a. PICK to : \E at \in {"next", "send", "skip", "sent", "failed"} : Emits(to, at)
    BY <1>h, <1>4, MailingCases
  <2>b. PICK at \in {"next", "send", "skip", "sent", "failed"} : Emits(to, at)
    BY <2>a
  <2>1. /\ at \in {"next", "send", "skip", "sent", "failed"}
        /\ emission'[Worker] = At(m, at, to)
        /\ \/ /\ m.at = "next" /\ to \in m.todo
              /\ at \in {"next", "send", "skip"}
              /\ told' = told
              /\ taken' = IF at = "send" THEN taken
                          ELSE [c \in Components |->
                                  taken[c] \cup {to : d \in {e \in work.mailing : e[1] = c}}]
           \/ /\ m.at = "send" /\ to = m.to
              /\ at \in {"sent", "failed"} /\ taken' = taken
              /\ told' = [c \in Components |->
                            told[c] \cup {<<to, d[2]>> : d \in {e \in work.mailing : e[1] = c}}]
           \/ /\ m.at \in {"skip", "sent", "failed"} /\ at = "next" /\ to = m.to
              /\ UNCHANGED <<told, taken>>
    BY <2>b DEF Emits
  <2>2. /\ m # Silent /\ work.at \in Notifying /\ work.mailing # {}
        /\ m.at # "next" => m.to \notin m.todo
        /\ \A r \in Recipients : Handled(r) =>
             \A d \in work.mailing : <<r, d[2]>> \in told[d[1]] \/ r \in taken[d[1]]
    BY <1>h, <1>4, MailingCases DEF EmittingIsMailing
  <2>3. /\ emission'[Worker].at = at /\ emission'[Worker].to = to
        /\ emission'[Worker].todo = m.todo \ {to}
    BY <2>1 DEF At
  <2>d. \A d \in work.mailing : d[1] \in Components
    BY <2>2, MailingFacts
  <2>4. \A c \in Components : told[c] \subseteq told'[c] /\ taken[c] \subseteq taken'[c]
    BY <2>1
  <2>5. MarkedIsTold'
    BY <1>h, <2>0, <2>4 DEF MarkedIsTold
  <2>6. ASSUME NEW r \in Recipients, r \notin m.todo \ {to}, at = "send" => r # to,
               NEW d \in work.mailing
        PROVE  <<r, d[2]>> \in told'[d[1]] \/ r \in taken'[d[1]]
    <3>1. CASE m.at = "next" /\ r = to
      BY <2>1, <2>6, <2>d, <3>1
    <3>2. CASE m.at = "send" /\ r = to
      BY <2>1, <2>6, <2>d, <3>2
    <3>3. CASE m.at \in {"skip", "sent", "failed"} /\ r = to
      <4>1. Handled(r)
        BY <2>1, <2>2, <3>3 DEF Handled
      <4> QED  BY <2>2, <2>4, <2>6, <2>d, <4>1
    <3>4. CASE r # to
      <4>1. Handled(r)
        BY <2>1, <2>2, <2>6, <3>4 DEF Handled
      <4> QED  BY <2>2, <2>4, <2>6, <2>d, <4>1
    <3> QED  BY <2>1, <3>1, <3>2, <3>3, <3>4
  <2>7. EmittingIsMailing'
    BY <2>0, <2>2, <2>3, <2>6 DEF EmittingIsMailing, Handled
  <2> QED  BY <2>5, <2>7 DEF MailInv
<1>5. CASE MarkNotified
  <2>0. emission[Worker].at = "next" /\ emission[Worker].todo = {} /\ UNCHANGED <<told, taken>>
    BY <1>5 DEF MarkNotified, Emitted, histories, mailed
  <2>1. emission[Worker] # Silent
    BY <2>0 DEF Silent
  <2>2. work.at \in Notifying
    BY <1>h, <2>1 DEF EmittingIsMailing
  <2>3. \A r \in Recipients : \A d \in work.mailing : <<r, d[2]>> \in told[d[1]] \/ r \in taken[d[1]]
    BY <1>h, <2>0, <2>1 DEF EmittingIsMailing, Handled
  <2>4. emission'[Worker] = Silent
    BY <1>5, VulnConstants DEF MarkNotified, EndEmit, FactInv, TableTypes
  <2>5. ASSUME NEW c \in Components, finding'[c] # NoRow, finding'[c].notified # "none",
               NEW r \in Recipients
        PROVE  <<r, finding'[c].notified>> \in told'[c] \/ r \in taken'[c]
    <3>0. IF \E d \in work.mailing : d[1] = c
          THEN /\ finding[c] # NoRow /\ <<c, finding[c].label>> \in work.mailing
               /\ finding'[c] = [finding[c] EXCEPT !.notified = finding[c].label]
          ELSE finding'[c] = finding[c]
      BY <1>5, <2>2, MarkedFindings DEF FactInv
    <3>1. CASE \E d \in work.mailing : d[1] = c
      <4>1. finding[c] \in FindingRow
        BY <3>0, <3>1 DEF FactInv, TableTypes
      <4>2. finding'[c].notified = finding[c].label
        BY <3>0, <3>1, <4>1 DEF FindingRow
      <4>3. <<c, finding[c].label>> \in work.mailing
        BY <3>0, <3>1
      <4> QED  BY <2>0, <2>3, <4>2, <4>3
    <3>2. CASE ~ \E d \in work.mailing : d[1] = c
      BY <1>h, <2>0, <2>5, <3>0, <3>2 DEF MarkedIsTold
    <3> QED  BY <3>1, <3>2
  <2> QED  BY <2>4, <2>5 DEF MailInv, EmittingIsMailing, MarkedIsTold
<1>6. CASE Die
  <2>1. emission'[Worker] = Silent /\ UNCHANGED <<told, taken, finding>>
    BY <1>6, VulnConstants DEF Die, CutEmission, FactInv, TableTypes, histories, mailed
  <2> QED  BY <1>h, <2>1 DEF MailInv, EmittingIsMailing, MarkedIsTold
<1> QED  BY <1>1, <1>2, <1>3, <1>4, <1>5, <1>6, NextIsOf

-----------------------------------------------------------------------------
(***************************************************************************)
(* Nothing is told twice, but what both mails of a cycle name: the digest  *)
(* names what was due when the cycle began, and the immediate mail has     *)
(* told of it what is not below the threshold.                             *)
(***************************************************************************)
LEMMA OnceStep ==
  ASSUME FactInv, MailInv, OnceInv, [Next]_vars
  PROVE  OnceInv'
<1>h. DueIsNew /\ ToldIsMarked /\ ToldOnce /\ EmittingIsMailing
  BY DEF OnceInv, MailInv
<1>n. deaths \in Nat
  BY DEF FactInv, TableTypes
<1>r. \A c \in Components : finding[c] # NoRow =>
        /\ finding[c] \in FindingRow
        /\ Rank(finding[c].notified) \in 0 .. 4 /\ Rank(finding[c].label) \in 0 .. 4
  BY Ranks DEF FactInv, TableTypes, FindingRow
\* What is told stays marked while the mail does not move.
<1>t. ASSUME UNCHANGED <<told, deaths>>, MarksStay,
             emission[Worker] = Silent \/ (work' = work /\ emission' = emission)
      PROVE  ToldIsMarked'
  BY <1>h, <1>t DEF ToldIsMarked, MarksStay, Handled
<1>1. CASE UNCHANGED vars
  <2>1. UNCHANGED <<told, deaths, retold, work, finding, emission>>
    BY <1>1 DEF vars, vulnVars, histories, mailed, notificationVars
  <2>2. ToldIsMarked'
    BY <1>t, <2>1 DEF MarksStay
  <2>3. DueIsNew' /\ ToldOnce'
    BY <1>h, <2>1 DEF DueIsNew, ToldOnce
  <2> QED  BY <2>2, <2>3 DEF OnceInv
<1>2. CASE Quiet
  <2>1. /\ UNCHANGED <<emission, told, taken, retold, deaths>>
        /\ emission[Worker] = Silent \/ work' = work
        /\ MarksStay
    BY <1>h, <1>2, QuietSteps
  <2>2. ToldIsMarked' /\ ToldOnce'
    BY <1>h, <1>t, <2>1 DEF ToldOnce
  <2>3. DueIsNew'
    <3>1. CASE work' = work
      <4>1. ASSUME work.at \in Notifying
            PROVE  \A d \in work.due : finding'[d[1]].notified = finding[d[1]].notified
        BY <2>1, <4>1 DEF FactInv, DueIsFresh, MarksStay
      <4> QED  BY <1>h, <3>1, <4>1 DEF DueIsNew
    <3>2. CASE BeginNotify \/ RunDigest
      <4>1. PICK found : /\ work'.at = "immediate" /\ work'.due = Due(found)
                         /\ DOMAIN found \subseteq Components
                         /\ \A c \in DOMAIN found : found[c].notified = finding[c].notified
                         /\ finding' = finding
        <5>1. CASE BeginNotify
          BY <5>1 DEF BeginNotify, FactInv, FoundIsFresh, Matching
        <5>2. CASE RunDigest
          BY <5>2 DEF RunDigest
        <5> QED  BY <3>2, <5>1, <5>2
      <4>2. ASSUME NEW d \in Due(found)
            PROVE  Rank(finding[d[1]].notified) < Rank(d[2])
        BY <4>1, <4>2 DEF Due, Unnotified
      <4>3. ASSUME NEW d \in Due(found)
            PROVE  d[1] \in DOMAIN found
        BY <4>3 DEF Due
      <4> QED  BY <4>1, <4>2, <4>3, RankIsNatural DEF DueIsNew
    <3>3. CASE NothingToMail
      <4>1. finding' = finding /\ work' = NextMail /\ work.at \in Notifying
        BY <3>3 DEF NothingToMail, Notifying
      <4>2. \/ work.at = "immediate" /\ work'.at = "digest" /\ work'.due = work.due
            \/ work'.at \in {"sleep", "hour"}
        <5>1. {"at", "mailing", "daily", "due"} \subseteq DOMAIN work
          BY <4>1 DEF FactInv, WorkTypes
        <5> QED  BY <4>1, <5>1 DEF NextMail, Notifying
      <4>3. work.at = "immediate" /\ work'.at = "digest" => Immediate(work.due) = {}
        BY <3>3, <1>h DEF NothingToMail
      <4> QED  BY <1>h, <4>1, <4>2, <4>3 DEF DueIsNew, Notifying
    <3>4. CASE \/ WakeUp \/ Restart \/ Fetch \/ RecordVulnerability \/ RecordEpss \/ ScoreFinding
               \/ BeginAlerts \/ CreateAlert
      <4>1. work'.at \notin Notifying
        <5>1. CASE Fetch \/ RecordEpss \/ CreateAlert
          <6>1. "at" \in DOMAIN work
            BY <5>1 DEF Fetch, RecordEpss, CreateAlert, FactInv, WorkTypes, Matching
          <6> QED  BY <5>1, <6>1 DEF Fetch, RecordEpss, CreateAlert, Notifying
        <5>2. CASE WakeUp \/ Restart \/ RecordVulnerability \/ ScoreFinding \/ BeginAlerts
          BY <5>2 DEF WakeUp, Restart, RecordVulnerability, ScoreFinding, BeginAlerts, Cycle, Notifying
        <5> QED  BY <3>4, <5>1, <5>2
      <4> QED  BY <4>1 DEF DueIsNew
    <3>5. ASSUME NEW c \in Components, Around(c)
          PROVE  work' = work
      BY <3>5 DEF Around, IngestComponent, ComponentAges, FeedChanges, CacheExpires,
         UpdateFindingStatus, AlertAges
    <3>6. WindowPasses => work' = work
      BY DEF WindowPasses, vulnVars
    <3> QED  BY <1>2, <3>1, <3>2, <3>3, <3>4, <3>5, <3>6 DEF Quiet
  <2> QED  BY <2>2, <2>3 DEF OnceInv
<1>3. CASE MailImmediate \/ MailDigest
  <2>1. /\ UNCHANGED <<finding, told, retold, deaths>>
        /\ work.at \in Notifying /\ emission[Worker] = Silent
        /\ work'.at = work.at /\ work'.due = work.due
    BY <1>h, <1>3, MailBegins
  <2>2. ToldIsMarked'
    BY <1>t, <2>1 DEF MarksStay
  <2>3. DueIsNew' /\ ToldOnce'
    BY <1>h, <2>1 DEF DueIsNew, ToldOnce
  <2> QED  BY <2>2, <2>3 DEF OnceInv
<1>4. CASE Mailing
  <2> DEFINE m == emission[Worker]
  <2>0. work' = work /\ finding' = finding /\ deaths' = deaths
    BY <1>4 DEF Mailing
  <2>a. PICK to : \E at \in {"next", "send", "skip", "sent", "failed"} : Emits(to, at)
    BY <1>h, <1>4, MailingCases
  <2>b. PICK at \in {"next", "send", "skip", "sent", "failed"} : Emits(to, at)
    BY <2>a
  <2>1. /\ at \in {"next", "send", "skip", "sent", "failed"}
        /\ emission'[Worker] = At(m, at, to)
        /\ \/ /\ m.at = "next" /\ to \in m.todo
              /\ told' = told /\ retold' = retold
           \/ /\ m.at = "send" /\ to = m.to /\ at \in {"sent", "failed"}
              /\ told' = [c \in Components |->
                            told[c] \cup {<<to, d[2]>> : d \in {e \in work.mailing : e[1] = c}}]
              /\ retold' = retold \cup {d \in work.mailing : <<to, d[2]>> \in told[d[1]]}
           \/ /\ m.at \in {"skip", "sent", "failed"} /\ at = "next" /\ to = m.to
              /\ UNCHANGED <<told, retold>>
    BY <2>b DEF Emits
  <2>2. m # Silent /\ work.at \in Notifying /\ (m.at # "next" => m.to \notin m.todo)
    BY <1>h, <1>4, MailingCases DEF EmittingIsMailing
  <2>3. /\ emission'[Worker] # Silent /\ emission'[Worker].at = at /\ emission'[Worker].to = to
        /\ emission'[Worker].todo = m.todo \ {to}
    BY <2>1 DEF At, Silent
  <2>4. \A r : Handled(r) => Handled(r)'
    BY <2>1, <2>2, <2>3 DEF Handled
  <2>5. DueIsNew'
    BY <1>h, <2>0 DEF DueIsNew
  <2>6. ToldOnce'
    <3>1. ASSUME deaths = 0, m.at = "send", to = m.to, NEW d \in work.mailing,
                 <<to, d[2]>> \in told[d[1]],
                 ~ (Rank(d[2]) >= Rank(MinImmediate) /\ d[2] \in {"HIGH", "MEDIUM"})
          PROVE  FALSE
      <4>1. /\ d[1] \in Components /\ finding[d[1]] # NoRow /\ d[2] = finding[d[1]].label
            /\ d \in (IF work.at = "immediate" THEN work.due ELSE Digest(work.due))
        BY <2>2, <3>1, MailingFacts
      <4>2. Rank(finding[d[1]].notified) < Rank(d[2])
        <5>1. d \in work.due
          BY <4>1 DEF Digest
        <5>2. work.at = "immediate" \/ d \notin Immediate(work.due)
          BY <3>1, <4>1 DEF Digest, Immediate
        <5> QED  BY <1>h, <2>2, <5>1, <5>2 DEF DueIsNew
      <4>3. ~ Handled(to)
        BY <3>1 DEF Handled
      <4>4. Rank(d[2]) <= Rank(finding[d[1]].notified)
        BY <1>h, <3>1, <4>1, <4>3 DEF ToldIsMarked
      <4>5. Rank(finding[d[1]].notified) \in 0 .. 4 /\ Rank(d[2]) \in 0 .. 4
        BY <1>r, <4>1
      <4> QED  BY <4>2, <4>4, <4>5
    <3>2. ASSUME deaths = 0, NEW d \in retold' \ retold
          PROVE  Rank(d[2]) >= Rank(MinImmediate) /\ d[2] \in {"HIGH", "MEDIUM"}
      BY <2>1, <3>1, <3>2
    <3> QED  BY <1>h, <2>0, <3>2 DEF ToldOnce, Immediate, Digest
  <2>7. ToldIsMarked'
    <3> SUFFICES ASSUME deaths' = 0, NEW c \in Components, NEW x \in told'[c]
                 PROVE  /\ finding'[c] # NoRow
                        /\ \/ Rank(x[2]) <= Rank(finding'[c].notified)
                           \/ work'.at \in Notifying /\ <<c, x[2]>> \in work'.mailing /\ Handled(x[1])'
      BY DEF ToldIsMarked, Handled
    <3>1. CASE x \in told[c]
      BY <1>h, <2>0, <2>4, <3>1 DEF ToldIsMarked
    <3>2. CASE x \notin told[c]
      <4>1. m.at = "send" /\ to = m.to /\ at \in {"sent", "failed"}
        BY <2>1, <3>2
      <4>2. PICK d \in work.mailing : d[1] = c /\ x = <<to, d[2]>>
        BY <2>1, <3>2, <4>1
      <4>3. finding[c] # NoRow /\ d = <<c, d[2]>>
        BY <2>2, <4>2, MailingFacts
      <4>4. x[1] = to /\ x[2] = d[2]
        BY <4>2
      <4>5. Handled(to)'
        BY <2>2, <2>3, <4>1 DEF Handled
      <4>6. Handled(x[1])'
        BY <4>4, <4>5
      <4> QED  BY <2>0, <2>2, <4>2, <4>3, <4>4, <4>6
    <3> QED  BY <3>1, <3>2
  <2> QED  BY <2>5, <2>6, <2>7 DEF OnceInv
<1>5. CASE MarkNotified
  <2>0. emission[Worker].at = "next" /\ UNCHANGED <<told, retold, deaths>> /\ work' = NextMail
    BY <1>5 DEF MarkNotified, Emitted, histories, mailed
  <2>1. work.at \in Notifying
    BY <1>h, <2>0 DEF EmittingIsMailing, Silent
  <2>2. \A c \in Components :
          IF \E d \in work.mailing : d[1] = c
          THEN /\ finding[c] # NoRow /\ <<c, finding[c].label>> \in work.mailing
               /\ finding'[c] = [finding[c] EXCEPT !.notified = finding[c].label]
          ELSE finding'[c] = finding[c]
    BY <1>5, <2>1, MarkedFindings DEF FactInv
  <2>3. \A c \in Components :
          IF \E d \in work.mailing : d[1] = c
          THEN /\ finding'[c] # NoRow /\ finding'[c].notified = finding[c].label
               /\ Rank(finding[c].notified) <= Rank(finding[c].label)
          ELSE finding'[c] = finding[c]
    <3> SUFFICES ASSUME NEW c \in Components, \E d \in work.mailing : d[1] = c
                 PROVE  /\ finding'[c] # NoRow /\ finding'[c].notified = finding[c].label
                        /\ Rank(finding[c].notified) <= Rank(finding[c].label)
      BY <2>2
    <3>0. finding[c] # NoRow
      BY <2>2, Zenon
    <3>1. finding[c] \in FindingRow
      BY <3>0 DEF FactInv, TableTypes
    <3>2. finding'[c] \in FindingRow /\ finding'[c].notified = finding[c].label
      <4> DEFINE g == [finding[c] EXCEPT !.notified = finding[c].label]
      <4>1. g \in FindingRow /\ g.notified = finding[c].label
        BY <3>1 DEF FindingRow
      <4>2. finding'[c] = g
        BY <2>2
      <4> HIDE DEF g
      <4> QED  BY <4>1, <4>2
    <3>3. LET d == <<c, finding[c].label>> IN
          d \in (IF work.at = "immediate" THEN work.due ELSE Digest(work.due))
      BY <2>1, <2>2, MailingFacts
    <3>4. Rank(finding[c].notified) <= Rank(finding[c].label)
      <4>1. <<c, finding[c].label>> \in work.due
        BY <3>3 DEF Digest
      <4> QED  BY <1>h, <2>1, <4>1 DEF DueIsNew
    <3> QED  BY <3>2, <3>4, RowsAreKnown
  <2>4. ToldIsMarked'
    <3> SUFFICES ASSUME deaths = 0, NEW c \in Components, NEW x \in told[c]
                 PROVE  finding'[c] # NoRow /\ Rank(x[2]) <= Rank(finding'[c].notified)
      BY <2>0 DEF ToldIsMarked
    <3>1. /\ finding[c] # NoRow
          /\ Rank(x[2]) <= Rank(finding[c].notified) \/ <<c, x[2]>> \in work.mailing
      BY <1>h DEF ToldIsMarked
    <3>2. CASE <<c, x[2]>> \in work.mailing
      <4>1. x[2] = finding[c].label
        BY <2>1, <3>2, MailingFacts
      <4>2. finding'[c] # NoRow /\ finding'[c].notified = finding[c].label
        BY <2>3, <3>2
      <4>3. Rank(finding[c].label) \in 0 .. 4
        BY <1>r, <3>1
      <4> QED  BY <4>1, <4>2, <4>3
    <3>3. CASE <<c, x[2]>> \notin work.mailing
      <4>1. Rank(x[2]) <= Rank(finding[c].notified)
        BY <3>1, <3>3
      <4>2. CASE finding'[c] = finding[c]
        BY <3>1, <4>1, <4>2
      <4>3. CASE finding'[c] # NoRow /\ finding'[c].notified = finding[c].label
                 /\ Rank(finding[c].notified) <= Rank(finding[c].label)
        <5>1. Rank(x[2]) \in Nat
          BY DEF Rank
        <5> QED  BY <1>r, <3>1, <4>1, <4>3, <5>1
      <4> QED  BY <2>3, <4>2, <4>3
    <3> QED  BY <3>2, <3>3
  <2>5. ToldOnce'
    BY <1>h, <2>0 DEF ToldOnce
  <2>6. DueIsNew'
    <3>1. {"at", "mailing", "daily", "due"} \subseteq DOMAIN work
      BY <2>1 DEF FactInv, WorkTypes
    <3>2. \/ work.at = "immediate" /\ work'.at = "digest" /\ work'.due = work.due
          \/ work'.at \in {"sleep", "hour"}
      BY <2>0, <2>1, <3>1 DEF NextMail, Notifying
    <3>3. CASE work.at = "immediate" /\ work'.at = "digest" /\ work'.due = work.due
      <4> SUFFICES ASSUME NEW d \in work.due
                   PROVE  /\ Rank(finding'[d[1]].notified) <= Rank(d[2])
                          /\ d \notin Immediate(work.due) =>
                               Rank(finding'[d[1]].notified) < Rank(d[2])
        BY <3>3 DEF DueIsNew
      <4>1. /\ d[1] \in Components /\ finding[d[1]] # NoRow
            /\ d = <<d[1], d[2]>> /\ d[2] = finding[d[1]].label
        BY <2>1 DEF FactInv, DueIsFresh
      <4>2. CASE \E e \in work.mailing : e[1] = d[1]
        <5>0. <<d[1], finding[d[1]].label>> \in work.mailing
          BY <2>2, <4>1, <4>2, Zenon
        <5>1. d \in work.mailing
          BY <4>1, <5>0, Zenon
        <5>2. d \in Immediate(work.due)
          BY <3>3, <5>1 DEF FactInv, MailingIsDue, Notifying
        <5>3. finding'[d[1]].notified = d[2] /\ Rank(d[2]) \in 0 .. 4
          BY <1>r, <2>3, <4>1, <4>2
        <5> QED  BY <5>2, <5>3
      <4>3. CASE ~ \E e \in work.mailing : e[1] = d[1]
        <5>1. finding'[d[1]] = finding[d[1]]
          BY <2>2, <4>1, <4>3
        <5> QED  BY <1>h, <3>3, <5>1 DEF DueIsNew, Notifying
      <4> QED  BY <4>2, <4>3
    <3>4. CASE work'.at \in {"sleep", "hour"}
      BY <3>4 DEF DueIsNew, Notifying
    <3> QED  BY <3>2, <3>3, <3>4
  <2> QED  BY <2>4, <2>5, <2>6 DEF OnceInv
<1>6. CASE Die
  <2>1. deaths' = deaths + 1 /\ work'.at = "down"
    BY <1>6 DEF Die
  <2>2. deaths' # 0
    BY <1>n, <2>1
  <2> QED  BY <2>1, <2>2 DEF OnceInv, DueIsNew, ToldIsMarked, ToldOnce, Notifying
<1> QED  BY <1>1, <1>2, <1>3, <1>4, <1>5, <1>6, NextIsOf

-----------------------------------------------------------------------------
\* The invariants hold at first.
LEMMA FirstFacts == Init => FactInv /\ MailInv /\ OnceInv
<1> SUFFICES ASSUME Init
             PROVE  FactInv /\ MailInv /\ OnceInv
  OBVIOUS
<1>1. /\ feed \in FirstFeeds /\ epss = [c \in Components |-> 0]
      /\ cache = [c \in Components |-> NotCached]
      /\ record = [c \in Components |-> NoRow] /\ finding = [c \in Components |-> NoRow]
      /\ seen = Components /\ work = [at |-> "sleep"]
      /\ told = [c \in Components |-> {}] /\ retold = {} /\ taken = [c \in Components |-> {}]
      /\ kevs = {} /\ deaths = 0 /\ emission = [e \in Emitters |-> Silent]
  BY DEF Init, NotificationInit
<1>2. NotCached \in CacheRow
  BY DEF NotCached, CacheRow, AtMost
<1>3. TableTypes
  BY <1>1, <1>2, VulnConstants DEF TableTypes
<1>4. WorkTypes /\ FoundIsFresh /\ DueIsFresh /\ MailingIsDue
  BY <1>1 DEF WorkTypes, FoundIsFresh, DueIsFresh, MailingIsDue, Matching, Notifying
<1>5. KevsAreKept /\ ExploitedIsCritical
  BY <1>1 DEF KevsAreKept, ExploitedIsCritical
<1>6. emission[Worker] = Silent
  BY <1>1, VulnConstants
<1>7. MailInv
  BY <1>1, <1>6 DEF MailInv, EmittingIsMailing, MarkedIsTold
<1>8. OnceInv
  BY <1>1 DEF OnceInv, DueIsNew, ToldIsMarked, ToldOnce, Notifying
<1> QED  BY <1>3, <1>4, <1>5, <1>7, <1>8 DEF FactInv

\* A vulnerability once recorded as exploited stays critical, whatever the feed
\* and the cache say later (match_and_score), however often the worker dies,
\* except between its two commits about it.
THEOREM ExploitedCorrect == Spec => []ExploitedIsCritical
<1>1. FactInv /\ MailInv /\ [Next]_vars => (FactInv /\ MailInv)'
  BY FactStep, MailStep DEF MailInv
<1>2. FactInv => ExploitedIsCritical
  BY DEF FactInv
<1> QED  BY <1>1, <1>2, FirstFacts, PTL DEF Spec

\* The risk a finding is marked with was told to every admin (notify_admins), for
\* any threshold of the immediate mail, or a mail of the same window stood in its
\* way, although the worker may die before the mark and mails may be refused.
THEOREM MarkedCorrect == Spec => []MarkedIsTold
<1>1. FactInv /\ MailInv /\ [Next]_vars => (FactInv /\ MailInv)'
  BY FactStep, MailStep DEF MailInv
<1>2. MailInv => MarkedIsTold
  BY DEF MailInv
<1> QED  BY <1>1, <1>2, FirstFacts, PTL DEF Spec

\* Nothing is told twice besides, unless the worker died between a mail and its
\* mark, or both mails of a cycle name it (notify_admins).
THEOREM ToldCorrect == Spec => []ToldAsMarked
<1>1. FactInv /\ MailInv /\ OnceInv /\ [Next]_vars => (FactInv /\ MailInv /\ OnceInv)'
  BY FactStep, MailStep, OnceStep DEF MailInv
<1>2. MailInv /\ OnceInv => ToldAsMarked
  BY DEF MailInv, OnceInv, ToldAsMarked
<1> QED  BY <1>1, <1>2, FirstFacts, PTL DEF Spec

\* With the default threshold (vuln_intel_notify_immediate_min_risk, config.py) no
\* finding is in both mails: nothing at all is told twice by a worker that lives.
THEOREM ToldOnceCorrect ==
  ASSUME MinImmediate = "CRITICAL"
  PROVE  Spec => [](deaths = 0 => retold = {})
<1>1. ToldOnce => (deaths = 0 => retold = {})
  BY Ranks DEF ToldOnce, Immediate, Digest
<1>2. ToldAsMarked => (deaths = 0 => retold = {})
  BY <1>1 DEF ToldAsMarked
<1> QED  BY <1>2, ToldCorrect, PTL
=============================================================================
