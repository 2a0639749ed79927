------------------------------ MODULE VulnWatch ------------------------------
(***************************************************************************)
(* The vulnerability intelligence worker.                                  *)
(*                                                                         *)
(*   loop_worker, _run_match_and_notify, _run_digest     app/worker.py      *)
(*   match_and_score, _query_nvd, _query_epss      jobs/vuln_matcher.py    *)
(*   create_alerts_for_critical, notify_admins     jobs/vuln_notifications *)
(*   get_cached_payload, set_cached_payload        vuln_intel/cache.py     *)
(*   compute_risk_label                            vuln_intel/risk.py      *)
(*   ingest_software_components, update_finding_status                     *)
(*                                      routers/inventory_vulns_router.py  *)
(*                                                                         *)
(* One worker, whose container is restarted when it ends; every exception  *)
(* ends it.  Each component runs on a host of its own and has at most one  *)
(* known vulnerability, so a component also names its record, its finding  *)
(* and its host.  Scores are in hundredths.                                *)
(***************************************************************************)
EXTENDS Notifications

CONSTANTS
  Worker,
  Components,
  Reports,        \* what the feed can report: cvss_score and kev, or NoVuln
  EpssScores,
  FirstFeeds,     \* what it reports when the run begins
  MinImmediate,   \* vuln_intel_notify_immediate_min_risk
  MaxHappenings,  \* bounds of a run: changes around the worker,
  MaxDeaths       \*   deaths of the worker

NoVuln == [known |-> FALSE]
VulnEvents == {"vuln_immediate", "vuln_digest"}
Labels     == {"LOW", "MEDIUM", "HIGH", "CRITICAL"}

ASSUME VulnConstants ==
  /\ Emitters = {Worker} /\ EventTypes = VulnEvents /\ Entities = Components
  /\ Reports \subseteq [known : {TRUE}, cvss : Nat, kev : BOOLEAN] \cup {NoVuln}
  /\ EpssScores \subseteq Nat /\ 0 \in EpssScores
  /\ FirstFeeds \subseteq [Components -> Reports]
  /\ MinImmediate \in Labels
  /\ MaxHappenings \in Nat /\ MaxDeaths \in Nat

VARIABLES
  feed,         \* feed[c], epss[c]: what the services would answer now
  epss,
  cache,        \* cache[c]: their answers in vuln_intel_cache, none or one each
  record,       \* record[c]: the row of vulnerabilities
  finding,      \* finding[c]: the row of asset_vulnerabilities
  seen,         \* components whose last_seen_at is within fifteen minutes
  alerted,      \* hosts with a vuln_intel alert of the last six hours
  work,         \* what the worker does
  told,         \* history: told[c]: <<recipient, label>> of each mail about c
  retold,       \* history: mails that told a recipient the same again
  taken,        \* history: taken[c]: recipients whose mail about c was a duplicate
  kevs,         \* history: components whose vulnerability was recorded as exploited
  torn,         \* history: components recorded and then not scored
  happenings, deaths

world     == <<feed, epss, cache, seen, alerted>>
mailed    == <<told, retold, taken>>
histories == <<mailed, kevs, torn>>
vulnVars  == <<world, record, finding, work, histories, happenings, deaths>>
vars      == <<vulnVars, notificationVars>>

NoRow == [known |-> FALSE]

NotCached == [intel |-> <<>>, epss |-> <<>>]

Rank(label) == CASE label = "LOW" -> 1 [] label = "MEDIUM" -> 2
                 [] label = "HIGH" -> 3 [] label = "CRITICAL" -> 4 [] OTHER -> 0

\* compute_risk_label
RiskLabel(cvss, score, kev) ==
  IF kev \/ (cvss >= 900 /\ score >= 30) THEN "CRITICAL"
  ELSE IF cvss >= 700 \/ score >= 20 THEN "HIGH"
  ELSE IF cvss >= 400 \/ score >= 5 THEN "MEDIUM"
  ELSE "LOW"

Init ==
  /\ feed \in FirstFeeds
  /\ epss = [c \in Components |-> 0]
  /\ cache = [c \in Components |-> NotCached]
  /\ record = [c \in Components |-> NoRow]
  /\ finding = [c \in Components |-> NoRow]
  /\ seen = Components
  /\ alerted = {}
  /\ work = [at |-> "sleep"]
  /\ told = [c \in Components |-> {}] /\ retold = {}
  /\ taken = [c \in Components |-> {}]
  /\ kevs = {} /\ torn = {}
  /\ happenings = 0 /\ deaths = 0
  /\ NotificationInit

-----------------------------------------------------------------------------
(* Around the worker *)

Happens == happenings < MaxHappenings /\ happenings' = happenings + 1

\* Inventory arrives for c; it is also how its fifteen minutes begin again.
IngestComponent(c) ==
  /\ Happens
  /\ c \notin seen /\ seen' = seen \cup {c}
  /\ UNCHANGED <<feed, epss, cache, alerted, record, finding, work, histories, deaths>>

ComponentAges(c) ==
  /\ Happens
  /\ c \in seen /\ seen' = seen \ {c}
  /\ UNCHANGED <<feed, epss, cache, alerted, record, finding, work, histories, deaths>>

FeedChanges(c) ==
  /\ Happens
  /\ \/ \E r \in Reports \ {feed[c]} : feed' = [feed EXCEPT ![c] = r] /\ UNCHANGED epss
     \/ \E s \in EpssScores \ {epss[c]} : epss' = [epss EXCEPT ![c] = s] /\ UNCHANGED feed
  /\ UNCHANGED <<cache, seen, alerted, record, finding, work, histories, deaths>>

CacheExpires(c) ==
  /\ Happens
  /\ cache[c] # NotCached
  /\ cache' = [cache EXCEPT ![c] = NotCached]
  /\ UNCHANGED <<feed, epss, seen, alerted, record, finding, work, histories, deaths>>

\* update_finding_status
UpdateFindingStatus(c) ==
  /\ Happens
  /\ finding[c] # NoRow
  /\ \E s \in {"open", "resolved"} \ {finding[c].status} :
       finding' = [finding EXCEPT ![c].status = s]
  /\ UNCHANGED <<world, record, work, histories, deaths>>

\* Six hours pass, and the fifteen minutes with them.
AlertAges(c) ==
  /\ Happens
  /\ c \in alerted /\ alerted' = alerted \ {c}
  /\ UNCHANGED <<feed, epss, cache, seen, record, finding, work, histories, deaths>>

-----------------------------------------------------------------------------
(* The worker *)

Same == UNCHANGED <<happenings, deaths, notificationVars>>

\* A session sees a finding as it was at its last refresh.
Cycle == [at |-> "match", todo |-> seen, found |-> [c \in {} |-> NoRow]]

WakeUp ==
  /\ work.at \in {"hour", "sleep"}
  /\ work' = Cycle
  /\ UNCHANGED <<world, record, finding, histories>> /\ Same

\* The feed is asked for what the cache does not hold.
Fetch ==
  /\ work.at = "match"
  /\ \E c \in work.todo :
       LET r == IF cache[c].intel = <<>> THEN feed[c] ELSE cache[c].intel[1] IN
       /\ cache' = [cache EXCEPT ![c].intel = <<r>>]
       /\ work' = IF r = NoVuln THEN [work EXCEPT !.todo = @ \ {c}]
                  ELSE [at |-> "record", c |-> c, todo |-> work.todo \ {c},
                        found |-> work.found, report |-> r]
  /\ UNCHANGED <<feed, epss, seen, alerted, record, finding, histories>> /\ Same

\* Mutation of Merged: the flag is what was last reported.
MergedAnew(row, r) ==
  [known |-> TRUE, epss |-> IF row = NoRow THEN 0 ELSE row.epss, kev |-> r.kev,
   cvss |-> IF row = NoRow \/ r.cvss # 0 THEN r.cvss ELSE row.cvss]

\* A score of zero or none, and a missing flag, leave what is recorded.
Merged(row, r) ==
  [known |-> TRUE, epss |-> IF row = NoRow THEN 0 ELSE row.epss,
   kev |-> r.kev \/ (row # NoRow /\ row.kev),
   cvss |-> IF row = NoRow \/ r.cvss # 0 THEN r.cvss ELSE row.cvss]

RecordVulnerability ==
  LET c == work.c IN
  /\ work.at = "record"
  /\ record' = [record EXCEPT ![c] = Merged(@, work.report)]
  /\ kevs' = IF work.report.kev THEN kevs \cup {c} ELSE kevs
  /\ torn' = torn \cup {c}
  /\ work' = [at |-> "epss", c |-> c, todo |-> work.todo, found |-> work.found]
  /\ UNCHANGED <<world, finding, mailed>> /\ Same

RecordEpss ==
  LET c == work.c
      s == IF cache[c].epss = <<>> THEN epss[c] ELSE cache[c].epss[1]
  IN
  /\ work.at = "epss"
  /\ cache' = [cache EXCEPT ![c].epss = <<s>>]
  /\ record' = [record EXCEPT ![c].epss = s]
  /\ work' = [work EXCEPT !.at = "score"]
  /\ UNCHANGED <<feed, epss, seen, alerted, finding, histories>> /\ Same

ScoreFinding ==
  LET c == work.c
      label == RiskLabel(record[c].cvss, record[c].epss, record[c].kev)
      row == IF finding[c] = NoRow
             THEN [known |-> TRUE, label |-> label, status |-> "open", notified |-> "none"]
             ELSE [finding[c] EXCEPT !.label = label]
  IN
  /\ work.at = "score"
  /\ finding' = [finding EXCEPT ![c] = row]
  /\ torn' = torn \ {c}
  /\ work' = [at |-> "match", todo |-> work.todo,
              found |-> [d \in DOMAIN work.found \cup {c} |->
                           IF d = c THEN row ELSE work.found[d]]]
  /\ UNCHANGED <<world, record, mailed, kevs>> /\ Same

\* create_alerts_for_critical, host by host
BeginAlerts ==
  /\ work.at = "match" /\ work.todo = {}
  /\ work' = [at |-> "alert", found |-> work.found,
              todo |-> {c \in DOMAIN work.found : work.found[c].label = "CRITICAL"}]
  /\ UNCHANGED <<world, record, finding, histories>> /\ Same

CreateAlert ==
  /\ work.at = "alert"
  /\ \E c \in work.todo :
       /\ alerted' = alerted \cup {c}
       /\ work' = [work EXCEPT !.todo = @ \ {c}]
  /\ UNCHANGED <<feed, epss, cache, seen, record, finding, histories>> /\ Same

Unnotified(f) == f.status = "open" /\ Rank(f.notified) < Rank(f.label)

\* notify_admins: what is due, of the findings a session holds
Due(found) == {<<c, found[c].label>> : c \in {d \in DOMAIN found : Unnotified(found[d])}}

BeginNotify ==
  /\ work.at = "alert" /\ work.todo = {}
  /\ work' = [at |-> "immediate", mailing |-> {}, daily |-> FALSE, due |-> Due(work.found)]
  /\ UNCHANGED <<world, record, finding, histories>> /\ Same

\* _run_digest: after the cycle, when it is the hour and was not yet.
RunDigest ==
  LET recent == {c \in Components : finding[c] # NoRow /\ finding[c].label \in {"HIGH", "MEDIUM"}}
  IN
  /\ work.at = "hour"
  /\ work' = [at |-> "immediate", mailing |-> {}, daily |-> TRUE,
              due |-> Due([c \in recent |-> finding[c]])]
  /\ UNCHANGED <<world, record, finding, histories>> /\ Same

\* Mutation of Immediate: only what is above the least risk is mailed at once.
ImmediateAbove(due) == {d \in due : Rank(d[2]) > Rank(MinImmediate)}

Immediate(due) == {d \in due : Rank(d[2]) >= Rank(MinImmediate)}
Digest(due)    == {d \in due : d[2] \in {"HIGH", "MEDIUM"}}

\* One mail about all the findings, under the id of the one the database
\* happens to return first.
EmitFindings(type, findings) ==
  /\ work.mailing = {}
  /\ findings # {}
  /\ \E first \in findings : Emission(Worker, type, first[1], Recipients)
  /\ work' = [work EXCEPT !.mailing = findings]
  /\ UNCHANGED <<world, record, finding, histories, happenings, deaths>>

MailImmediate == work.at = "immediate" /\ EmitFindings("vuln_immediate", Immediate(work.due))
MailDigest    == work.at = "digest" /\ EmitFindings("vuln_digest", Digest(work.due))

NextMail == IF work.at = "immediate" THEN [work EXCEPT !.at = "digest", !.mailing = {}]
            ELSE [at |-> IF work.daily THEN "sleep" ELSE "hour"]

NothingToMail ==
  /\ \/ work.at = "immediate" /\ work.mailing = {} /\ Immediate(work.due) = {}
     \/ work.at = "digest" /\ work.mailing = {} /\ Digest(work.due) = {}
  /\ work' = NextMail
  /\ UNCHANGED <<world, record, finding, histories>> /\ Same

\* The worker's part in a step of its emission is the memory of it.
Mailing ==
  LET m == emission[Worker] IN
  /\ m # Silent
  /\ EmitStep(Worker)
  /\ told' = IF m.at = "send"
             THEN [c \in Components |->
                     told[c] \cup {<<m.to, d[2]>> : d \in {e \in work.mailing : e[1] = c}}]
             ELSE told
  /\ retold' = IF m.at = "send"
               THEN retold \cup {d \in work.mailing : <<m.to, d[2]>> \in told[d[1]]}
               ELSE retold
  /\ taken' = IF m.at = "next" /\ emission'[Worker].at # "send"
              THEN [c \in Components |->
                      taken[c] \cup {emission'[Worker].to :
                                       d \in {e \in work.mailing : e[1] = c}}]
              ELSE taken
  /\ UNCHANGED <<world, record, finding, work, kevs, torn, happenings, deaths>>

\* Mutation of Marked: everything that was due is marked, mailed or not.
MarkedAll(w) == w.due

Marked(w) == w.mailing

\* The mail is handled, whatever became of it: the findings are marked.
MarkNotified ==
  /\ Emitted(Worker)
  /\ EndEmit(Worker)
  /\ finding' = [c \in Components |->
       IF \E d \in Marked(work) : d[1] = c
       THEN [finding[c] EXCEPT !.notified = (CHOOSE d \in Marked(work) : d[1] = c)[2]]
       ELSE finding[c]]
  /\ work' = NextMail
  /\ UNCHANGED <<world, record, histories, happenings, deaths>>

\* A service that does not answer, a refused commit or a kill: the process ends,
\* and with it what the cycle found.
Die ==
  /\ work.at # "down"
  /\ deaths < MaxDeaths
  /\ deaths' = deaths + 1
  /\ work' = [at |-> "down"]
  /\ CutEmission(Worker)
  /\ UNCHANGED <<world, record, finding, histories, happenings>>

\* The loop begins with a cycle.
Restart ==
  /\ work.at = "down"
  /\ work' = Cycle
  /\ UNCHANGED <<world, record, finding, histories>> /\ Same

WorkerStep ==
  \/ WakeUp \/ Fetch \/ RecordVulnerability \/ RecordEpss \/ ScoreFinding
  \/ BeginAlerts \/ CreateAlert \/ BeginNotify \/ RunDigest \/ MailImmediate \/ MailDigest
  \/ NothingToMail \/ Mailing \/ MarkNotified \/ Restart

Around(c) ==
  /\ \/ IngestComponent(c) \/ ComponentAges(c) \/ FeedChanges(c) \/ CacheExpires(c)
     \/ UpdateFindingStatus(c) \/ AlertAges(c)
  /\ UNCHANGED notificationVars

\* Within a cycle no key is emitted twice: only between two does it matter that
\* a window of deduplication passes.
WindowPasses == work.at \in {"sleep", "down"} /\ NewBucket /\ UNCHANGED vulnVars

Next ==
  \/ WorkerStep \/ Die
  \/ \E c \in Components : Around(c)
  \/ WindowPasses

Spec == Init /\ [][Next]_vars

\* asyncio.run and the restart policy keep the worker going.
FairSpec == Spec /\ WF_vars(WorkerStep)

-----------------------------------------------------------------------------
\* A finding that is marked at a risk was told to every admin at that risk, or
\* the mail found its key taken in the same window: by one about other findings,
\* or about this one at another risk, so that a rise within a window is swallowed.
MarkedIsTold ==
  \A c \in Components :
    finding[c] # NoRow /\ finding[c].notified # "none" =>
      \A r \in Recipients : <<r, finding[c].notified>> \in told[c] \/ r \in taken[c]

\* Only a worker that died tells an admin the same twice, but for findings that
\* are in both mails of a cycle: none, with the default threshold.
ToldOnce == deaths = 0 => retold \subseteq Immediate(retold) \cap Digest(retold)

\* The risk a finding is marked with was told, but for a taken key, and told once,
\* whatever became of a mail or of the worker between the mail and the mark.
ToldAsMarked == MarkedIsTold /\ ToldOnce

\* A vulnerability once known to be exploited stays critical, whatever the feed
\* says later, unless the worker ended between recording it and scoring.
ExploitedIsCritical ==
  \A c \in kevs \ torn : finding[c] # NoRow /\ finding[c].label = "CRITICAL"

Reported(c) == NoVuln \notin {feed[c]} \cup {cache[c].intel[i] : i \in DOMAIN cache[c].intel}

\* A component that is seen and reported as critical from some time on is told
\* to the admins, although the worker may die and what it found is forgotten.
CriticalIsAnnounced ==
  \A c \in Components :
    <>[](c \in seen /\ Reported(c) /\ finding[c] # NoRow /\ finding[c].label = "CRITICAL"
           /\ finding[c].status = "open")
      => <>(finding[c] # NoRow /\ finding[c].notified = "CRITICAL")
=============================================================================
