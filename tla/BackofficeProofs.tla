--------------------------- MODULE BackofficeProofs ---------------------------
(***************************************************************************)
(* Theorems about CaseWork and the notifications it emits, for any number  *)
(* of threads, users, alerts, recipients and cuts; about Records, for any  *)
(* number of threads, requests and cuts; and about the two together.       *)
(*                                                                         *)
(* MailedOnce rests on the unique key of a row: who inserted it is the     *)
(* only one about to send its mail.  DecisionsAreFollowed speaks of alerts *)
(* and workplans; what makes it true is what a thread has decided about    *)
(* them and not yet done, and how many threads there are to decide it.     *)
(* UncontendedIsCoherent speaks of moments without requests.  The          *)
(* invariant says what the one request in flight knows of the row: that    *)
(* what it has read is what is there, and what it has still to tell.       *)
(***************************************************************************)
EXTENDS Backoffice, FiniteSetTheorems, TLAPS

-----------------------------------------------------------------------------
(* Alerts, workplans and mails: CaseWork, Notifications *)

MailKey(e) == KeyOf(emission[e], emission[e].to)

Holding == {"send", "skip", "sent", "failed"}

\* A key without a row is nobody's, and was never mailed.
NoRowNoMail ==
  \A k \in Keys : rows[k] = "none" =>
    /\ mails[k] = 0
    /\ \A e \in Emitters : emission[e].at \in Holding => MailKey(e) # k

\* Who is about to send is alone with its key, and nobody has sent before.
SenderIsFirst ==
  \A e \in Emitters : emission[e].at = "send" =>
    /\ mails[MailKey(e)] = 0
    /\ \A f \in Emitters : emission[f].at = "send" /\ MailKey(f) = MailKey(e) => f = e

MailInv ==
  /\ NotificationTypeOK
  /\ NoRowNoMail
  /\ SenderIsFirst
  /\ RowsAreMailed
  /\ OneMailPerKey

\* An assignment that has come to its emissions has found or made a workplan.
AnnouncedIsPlanned ==
  \A t \in Threads :
    req[t].at = "emit" /\ AssignsUser(req[t].set) =>
      PlansOf(req[t].alert) # {} \/ req[t].alert \in moved

Inserting(a) == {t \in Threads : req[t].at = "insert" /\ req[t].alert = a}

\* The workplans made of an alert, with those about to be made, are as many as
\* the threads that found it without one.
AutoPlansAreCounted ==
  \A a \in 1 .. MaxAlerts : a \notin moved =>
    /\ PlansOf(a) = {} => auto[a] = 0
    /\ auto[a] + Cardinality(Inserting(a)) <= Cardinality(Threads)

\* Only a request that has come to its emissions emits.
EmittingIsAtEmit == \A t \in Threads : emission[t] # Silent => req[t].at = "emit"

CaseInv ==
  /\ CaseTypeOK
  /\ EmittingIsAtEmit
  /\ AssignedHasWorkplan
  /\ AnnouncedIsPlanned
  /\ AutoPlansAreCounted
  /\ ClosedIsAnnounced

CasesInv == CaseInv /\ MailInv

-----------------------------------------------------------------------------
(***************************************************************************)
(* Mails.                                                                  *)
(***************************************************************************)
\* The key of an emission that holds a recipient is a key.
LEMMA HoldingType ==
  ASSUME NotificationTypeOK, NEW e \in Emitters, emission[e].at \in Holding
  PROVE  /\ emission[e] \in [at : Holding, todo : SUBSET Recipients,
                             key : [type : EventTypes, entity : Entities], to : Recipients]
         /\ MailKey(e) \in Keys
<1>1. emission[e] \in [at : {"next", "send", "skip", "sent", "failed"}, todo : SUBSET Recipients,
                       key : [type : EventTypes, entity : Entities], to : Recipients]
  BY DEF NotificationTypeOK, Emissions, Holding, Silent
<1> QED  BY <1>1 DEF Holding, MailKey, KeyOf, Keys

\* An emitter that holds nothing, before and after, changes nothing of the rest.
LEMMA UnheldStep ==
  ASSUME MailInv, NEW e \in Emitters, NEW m \in Emissions \cup {Silent}, m.at \notin Holding,
         emission[e].at # "send",
         emission' = [emission EXCEPT ![e] = m],
         UNCHANGED <<rows, mails, failed, orphans>>
  PROVE  MailInv'
<1> USE DEF MailInv
<1>1. emission'[e] = m /\ \A f \in Emitters \ {e} : emission'[f] = emission[f]
  BY DEF NotificationTypeOK
<1>2. NotificationTypeOK'
  BY DEF NotificationTypeOK
<1>3. NoRowNoMail'
  BY <1>1 DEF NoRowNoMail, MailKey
<1>4. SenderIsFirst'
  BY <1>1 DEF SenderIsFirst, MailKey, Holding
<1>5. RowsAreMailed' /\ OneMailPerKey'
  BY <1>1 DEF RowsAreMailed, OneMailPerKey
<1> QED  BY <1>2, <1>3, <1>4, <1>5

LEMMA EmissionStep ==
  ASSUME MailInv, NEW e \in Emitters, emission[e] = Silent \/ Emitted(e),
         NEW type \in EventTypes, NEW entity \in Entities,
         Emission(e, type, entity, Recipients)
  PROVE  MailInv'
<1> DEFINE m == [at |-> "next", todo |-> Recipients, key |-> [type |-> type, entity |-> entity]]
<1>1. m \in Emissions /\ m.at \notin Holding /\ emission[e].at # "send"
  BY DEF Emissions, Holding, Emitted, Silent
<1> QED  BY <1>1, UnheldStep DEF Emission

LEMMA EndEmitStep ==
  ASSUME MailInv, NEW e \in Emitters, Emitted(e), EndEmit(e)
  PROVE  MailInv'
  BY UnheldStep DEF Emitted, EndEmit, Holding, Silent

\* The next recipient of an emission
LEMMA AtType ==
  ASSUME NotificationTypeOK, NEW e \in Emitters, emission[e] # Silent,
         NEW to \in Recipients, NEW at \in {"next", "send", "skip", "sent", "failed"}
  PROVE  /\ At(emission[e], at, to) \in Emissions
         /\ At(emission[e], at, to).at = at
         /\ KeyOf(At(emission[e], at, to), to) = KeyOf(emission[e], to)
         /\ At(emission[e], at, to).to = to
         /\ KeyOf(emission[e], to) \in Keys
<1>1. emission[e].todo \subseteq Recipients /\ emission[e].key \in [type : EventTypes, entity : Entities]
  BY DEF NotificationTypeOK, Emissions
<1> QED  BY <1>1 DEF At, Emissions, KeyOf, Keys

LEMMA InsertStep ==
  ASSUME MailInv, NEW e \in Emitters, InsertEvent(e)
  PROVE  MailInv'
<1> USE DEF MailInv
<1>1. emission[e].at = "next" /\ emission[e] # Silent
  BY DEF InsertEvent, Silent
<1>2. PICK to \in emission[e].todo :
        LET k == KeyOf(emission[e], to) IN
        IF Inserts(k)
        THEN /\ rows' = [rows EXCEPT ![k] = "queued"]
             /\ emission' = [emission EXCEPT ![e] = At(emission[e], "send", to)]
        ELSE /\ emission' = [emission EXCEPT ![e] =
                  At(emission[e], IF rows[k] = "queued" THEN "skip" ELSE "next", to)]
             /\ UNCHANGED rows
  BY DEF InsertEvent
<1> DEFINE k == KeyOf(emission[e], to)
<1>3. to \in Recipients
  BY <1>1, <1>2 DEF NotificationTypeOK, Emissions
<1>4. k \in Keys /\ UNCHANGED <<mails, failed, orphans>>
  BY <1>1, <1>3, AtType DEF InsertEvent
<1>5. CASE Inserts(k)
  <2>1. /\ rows' = [rows EXCEPT ![k] = "queued"]
        /\ emission' = [emission EXCEPT ![e] = At(emission[e], "send", to)]
        /\ rows[k] = "none"
    BY <1>2, <1>5 DEF Inserts
  <2>2. emission'[e].at = "send" /\ MailKey(e)' = k /\ emission'[e] \in Emissions
        /\ \A f \in Emitters \ {e} : emission'[f] = emission[f]
    BY <1>1, <1>3, <2>1, AtType DEF NotificationTypeOK, MailKey
  <2>3. NotificationTypeOK'
    BY <1>4, <2>1, <2>2 DEF NotificationTypeOK, RowStatuses
  <2>4. mails[k] = 0 /\ \A f \in Emitters : emission[f].at \in Holding => MailKey(f) # k
    BY <1>4, <2>1 DEF NoRowNoMail
  <2>5. \A f \in Emitters \ {e} : MailKey(f)' = MailKey(f)
    BY <2>2 DEF MailKey
  <2>6. rows'[k] = "queued" /\ \A l \in Keys \ {k} : rows'[l] = rows[l]
    BY <1>4, <2>1 DEF NotificationTypeOK
  <2>7. NoRowNoMail'
    BY <1>1, <1>4, <2>2, <2>5, <2>6 DEF NoRowNoMail
  <2>8. SenderIsFirst'
    BY <1>1, <1>4, <2>2, <2>4, <2>5 DEF SenderIsFirst, Holding
  <2>9. RowsAreMailed'
    BY <1>1, <1>4, <2>2, <2>6 DEF RowsAreMailed, MailKey
  <2>10. OneMailPerKey'
    BY <1>4 DEF OneMailPerKey
  <2> QED  BY <2>3, <2>7, <2>8, <2>9, <2>10
<1>6. CASE ~ Inserts(k)
  <2> DEFINE at == IF rows[k] = "queued" THEN "skip" ELSE "next"
  <2>1. emission' = [emission EXCEPT ![e] = At(emission[e], at, to)] /\ UNCHANGED rows
        /\ rows[k] # "none"
    BY <1>2, <1>6 DEF Inserts
  <2>2. emission'[e].at = at /\ MailKey(e)' = k /\ emission'[e] \in Emissions
        /\ \A f \in Emitters \ {e} : emission'[f] = emission[f]
    BY <1>1, <1>3, <2>1, AtType DEF NotificationTypeOK, MailKey
  <2>3. NotificationTypeOK'
    BY <1>4, <2>1, <2>2 DEF NotificationTypeOK
  <2>4. \A f \in Emitters \ {e} : MailKey(f)' = MailKey(f)
    BY <2>2 DEF MailKey
  <2>5. NoRowNoMail'
    BY <1>4, <2>1, <2>2, <2>4 DEF NoRowNoMail
  <2>6. SenderIsFirst'
    BY <1>1, <1>4, <2>2, <2>4 DEF SenderIsFirst
  <2>7. RowsAreMailed' /\ OneMailPerKey'
    BY <1>1, <1>4, <2>1, <2>2 DEF RowsAreMailed, OneMailPerKey
  <2> QED  BY <2>3, <2>5, <2>6, <2>7
<1> QED  BY <1>5, <1>6

LEMMA SkipStep ==
  ASSUME MailInv, NEW e \in Emitters, SkipDuplicate(e) \/ MarkEvent(e)
  PROVE  MailInv'
<1> USE DEF MailInv
<1> DEFINE k == MailKey(e)
<1>1. emission[e].at \in {"skip", "sent", "failed"} /\ emission[e] # Silent
  BY DEF SkipDuplicate, MarkEvent, Silent
<1>2. k \in Keys /\ emission[e].to \in Recipients /\ emission[e].at \in Holding
  BY <1>1, HoldingType DEF Holding
<1>3. /\ emission' = [emission EXCEPT ![e] = At(emission[e], "next", emission[e].to)]
      /\ UNCHANGED <<mails, failed, orphans>>
      /\ \E status \in {"skipped_dedup", "sent", "failed"} : rows' = [rows EXCEPT ![k] = status]
  BY DEF SkipDuplicate, MarkEvent, MailKey
<1>4. emission'[e].at = "next" /\ MailKey(e)' = k /\ emission'[e] \in Emissions
      /\ \A f \in Emitters \ {e} : emission'[f] = emission[f]
  BY <1>1, <1>2, <1>3, AtType DEF NotificationTypeOK, MailKey
<1>5. rows[k] # "none"
  BY <1>2 DEF NoRowNoMail
<1>6. rows'[k] # "none" /\ \A l \in Keys \ {k} : rows'[l] = rows[l]
  BY <1>2, <1>3 DEF NotificationTypeOK
<1>7. NotificationTypeOK'
  BY <1>3, <1>4 DEF NotificationTypeOK, RowStatuses
<1>8. \A f \in Emitters \ {e} : MailKey(f)' = MailKey(f)
  BY <1>4 DEF MailKey
<1>9. NoRowNoMail'
  BY <1>2, <1>3, <1>4, <1>6, <1>8 DEF NoRowNoMail, Holding
<1>10. SenderIsFirst'
  BY <1>3, <1>4, <1>8 DEF SenderIsFirst
<1>11. RowsAreMailed' /\ OneMailPerKey'
  BY <1>1, <1>2, <1>3, <1>4, <1>5, <1>6 DEF RowsAreMailed, OneMailPerKey
<1> QED  BY <1>7, <1>9, <1>10, <1>11

LEMMA SendStep ==
  ASSUME MailInv, NEW e \in Emitters, Send(e)
  PROVE  MailInv'
<1> USE DEF MailInv
<1> DEFINE k == MailKey(e)
<1>1. emission[e].at = "send" /\ emission[e] # Silent
  BY DEF Send, Silent
<1>2. k \in Keys /\ emission[e].to \in Recipients
  BY <1>1, HoldingType DEF Holding
<1>3. PICK at \in {"sent", "failed"} :
        /\ emission' = [emission EXCEPT ![e] = At(emission[e], at, emission[e].to)]
        /\ \/ mails' = [mails EXCEPT ![k] = @ + 1] /\ UNCHANGED failed
           \/ failed' = failed \cup {k} /\ UNCHANGED mails
        /\ UNCHANGED <<rows, orphans>>
  BY DEF Send, Sends, MailKey
<1>4. emission'[e].at = at /\ MailKey(e)' = k /\ emission'[e] \in Emissions
      /\ \A f \in Emitters \ {e} : emission'[f] = emission[f]
  BY <1>1, <1>2, <1>3, AtType DEF NotificationTypeOK, MailKey
<1>5. mails[k] = 0 /\ rows[k] # "none"
      /\ \A f \in Emitters \ {e} : emission[f].at = "send" => MailKey(f) # k
  BY <1>1, <1>2 DEF SenderIsFirst, NoRowNoMail, Holding
<1>6. /\ mails'[k] \in {0, 1} /\ \A l \in Keys \ {k} : mails'[l] = mails[l]
      /\ mails'[k] > 0 \/ k \in failed'
  BY <1>2, <1>3, <1>5 DEF NotificationTypeOK
<1>7. NotificationTypeOK'
  BY <1>2, <1>3, <1>4 DEF NotificationTypeOK
<1>8. \A f \in Emitters \ {e} : MailKey(f)' = MailKey(f)
  BY <1>4 DEF MailKey
<1>9. NoRowNoMail'
  BY <1>3, <1>4, <1>5, <1>6, <1>8 DEF NoRowNoMail
<1>10. SenderIsFirst'
  <2> SUFFICES ASSUME NEW f \in Emitters, emission'[f].at = "send"
               PROVE  /\ mails'[MailKey(f)'] = 0
                      /\ \A g \in Emitters : emission'[g].at = "send" /\ MailKey(g)' = MailKey(f)' => g = f
    BY DEF SenderIsFirst
  <2>1. f # e /\ emission[f].at = "send" /\ MailKey(f)' = MailKey(f)
    BY <1>4, <1>8
  <2>2. MailKey(f) \in Keys \ {k}
    BY <1>5, <2>1, HoldingType DEF Holding
  <2> QED  BY <1>4, <1>6, <1>8, <2>1, <2>2 DEF SenderIsFirst
<1>11. RowsAreMailed' /\ OneMailPerKey'
  <2>1. OneMailPerKey'
    BY <1>6 DEF OneMailPerKey
  <2>2. failed \subseteq failed'
    BY <1>3
  <2> QED  BY <1>2, <1>3, <1>4, <1>6, <2>1, <2>2 DEF RowsAreMailed, MailKey
<1> QED  BY <1>7, <1>9, <1>10, <1>11

LEMMA CutStep ==
  ASSUME MailInv, NEW e \in Emitters, CutEmission(e)
  PROVE  MailInv'
<1> USE DEF MailInv
<1>1. emission'[e] = Silent /\ Silent.at \notin Holding /\ Silent.at # "send"
      /\ \A f \in Emitters \ {e} : emission'[f] = emission[f]
  BY DEF CutEmission, NotificationTypeOK, Silent, Holding
<1>2. UNCHANGED <<rows, mails, failed>> /\ orphans \subseteq orphans'
      /\ (emission[e].at = "send" => MailKey(e) \in orphans')
  BY DEF CutEmission, MailKey
<1>3. NotificationTypeOK'
  <2>1. orphans' \subseteq Keys
    BY HoldingType DEF CutEmission, NotificationTypeOK, Holding, MailKey
  <2> QED  BY <1>2, <2>1 DEF CutEmission, NotificationTypeOK
<1>4. NoRowNoMail' /\ SenderIsFirst'
  BY <1>1, <1>2 DEF NoRowNoMail, SenderIsFirst, MailKey
<1>5. RowsAreMailed' /\ OneMailPerKey'
  BY <1>1, <1>2 DEF RowsAreMailed, OneMailPerKey, MailKey
<1> QED  BY <1>3, <1>4, <1>5

LEMMA BucketStep ==
  ASSUME MailInv, NewBucket
  PROVE  MailInv'
  BY DEF MailInv, NewBucket, NotificationTypeOK, RowStatuses, NoRowNoMail, SenderIsFirst,
         RowsAreMailed, OneMailPerKey, MailKey, Holding, Silent

-----------------------------------------------------------------------------
(***************************************************************************)
(* Types of alerts, workplans and requests.                                *)
(***************************************************************************)
LEMMA CasesInitially == Init => CasesInv
<1> SUFFICES ASSUME Init PROVE CasesInv
  OBVIOUS
<1>1. MailInv
  BY DEF Init, NotificationInit, MailInv, NotificationTypeOK, RowStatuses, NoRowNoMail,
         SenderIsFirst, RowsAreMailed, OneMailPerKey, MailKey, Holding, Silent
<1>2. /\ alerts \in Seq(Row \cup {Gone}) /\ Len(alerts) <= MaxAlerts
      /\ \A a \in DOMAIN alerts : alerts[a].status = "open" /\ alerts[a].assigned = NoUser
  <2>1. CASE alerts = <<>>
    BY <2>1, CaseConstants
  <2>2. ASSUME NEW u \in Users,
               alerts = <<[owner |-> u, assigned |-> NoUser, status |-> "open"]>>
        PROVE  /\ alerts \in Seq(Row \cup {Gone}) /\ Len(alerts) <= MaxAlerts
               /\ \A a \in DOMAIN alerts : alerts[a].status = "open" /\ alerts[a].assigned = NoUser
    <3>1. [owner |-> u, assigned |-> NoUser, status |-> "open"] \in Row \cup {Gone}
      BY DEF Row, Statuses
    <3> QED  BY <2>2, <3>1, CaseConstants
  <2> QED  BY <2>1, <2>2 DEF Init
<1>3. CaseTypeOK
  BY <1>2, CaseConstants DEF Init, CaseTypeOK
<1>4. AssignedHasWorkplan /\ ClosedIsAnnounced
  BY <1>2 DEF AssignedHasWorkplan, ClosedIsAnnounced
<1>5. AnnouncedIsPlanned
  BY DEF Init, AnnouncedIsPlanned, Idle
<1>6. AutoPlansAreCounted
  <2>1. \A a \in 1 .. MaxAlerts : auto[a] = 0 /\ Inserting(a) = {}
    BY DEF Init, Inserting, Idle
  <2>2. Cardinality({}) = 0 /\ Cardinality(Threads) \in Nat
    BY CaseConstants, FS_EmptySet, FS_CardinalityType
  <2> QED  BY <2>1, <2>2 DEF AutoPlansAreCounted
<1>7. EmittingIsAtEmit
  BY DEF Init, NotificationInit, EmittingIsAtEmit, Threads
<1> QED  BY <1>1, <1>3, <1>4, <1>5, <1>6, <1>7 DEF CasesInv, CaseInv

\* A request keeps its alert among those that exist.
LEMMA RequestType ==
  ASSUME CaseTypeOK, NEW t \in Threads, req[t] # Idle
  PROVE  /\ req[t] \in AlertRequests /\ req[t].alert \in DOMAIN alerts
         /\ req[t].alert \in 1 .. MaxAlerts
         /\ req[t].at = "update" => req[t].set \in AlertUpdates /\ req[t].was \in Row
         /\ req[t].at \in {"check", "insert", "emit"} =>
              /\ req[t].set \in AlertUpdates \cup {<<>>}
              /\ req[t].emits \in Seq(CaseEvents) /\ req[t].emits # <<>>
<1>1. req[t] \in AlertRequests
  BY DEF CaseTypeOK
<1>2. req[t].alert \in DOMAIN alerts
  BY <1>1 DEF AlertRequests
<1>3. DOMAIN alerts \subseteq 1 .. MaxAlerts
  BY CaseConstants DEF CaseTypeOK
<1> QED  BY <1>1, <1>2, <1>3 DEF AlertRequests

\* The emissions of an update are one to three, and the first tells whether it
\* closes the alert.
LEMMA EmitsType ==
  ASSUME NEW set, NEW was
  PROVE  /\ Emits(set, was) \in Seq(CaseEvents) \ {<<>>}
         /\ Head(Emits(set, was)) = Announcement(set, was)
<1>1. Announcement(set, was) \in CaseEvents
  BY DEF Announcement, CaseEvents
<1>2. \A x \in Seq(CaseEvents), y \in Seq(CaseEvents) :
        <<Announcement(set, was)>> \o x \o y \in Seq(CaseEvents)
        /\ Len(<<Announcement(set, was)>> \o x \o y) >= 1
        /\ (<<Announcement(set, was)>> \o x \o y)[1] = Announcement(set, was)
  BY <1>1
<1>3. /\ (IF AssignsUser(set) THEN <<"ALERT_ESCALATED">> ELSE <<>>) \in Seq(CaseEvents)
      /\ (IF Unassigns(set, was) THEN <<"ALERT_DEESCALATED">> ELSE <<>>) \in Seq(CaseEvents)
  <2>1. "ALERT_ESCALATED" \in CaseEvents /\ "ALERT_DEESCALATED" \in CaseEvents
    BY DEF CaseEvents
  <2>2. <<>> \in Seq(CaseEvents) /\ \A x \in CaseEvents : <<x>> \in Seq(CaseEvents)
    OBVIOUS
  <2> QED  BY <2>1, <2>2
<1> DEFINE x == IF AssignsUser(set) THEN <<"ALERT_ESCALATED">> ELSE <<>>
           y == IF Unassigns(set, was) THEN <<"ALERT_DEESCALATED">> ELSE <<>>
<1>4. Emits(set, was) = <<Announcement(set, was)>> \o x \o y
  BY DEF Emits
<1>5. x \in Seq(CaseEvents) /\ y \in Seq(CaseEvents)
  BY <1>3
<1> HIDE DEF x, y
<1>6. /\ Emits(set, was) \in Seq(CaseEvents) /\ Len(Emits(set, was)) >= 1
      /\ Emits(set, was)[1] = Announcement(set, was)
  BY <1>2, <1>4, <1>5
<1> QED  BY <1>6

\* What an update makes of a row, field by field.
LEMMA WrittenType ==
  ASSUME NEW row \in Row, NEW was \in Row, NEW set \in AlertUpdates
  PROVE  /\ Written(row, was, set) \in Row
         /\ \/ Written(row, was, set).assigned \in {row.assigned, NoUser}
            \/ AssignsUser(set)
         /\ \/ Written(row, was, set).status \in {row.status, "open"}
            \/ ClosesAlert(set) /\ was.status # "closed"
<1>1. DOMAIN row = {"owner", "assigned", "status"}
  BY DEF Row
<1>2. CASE set \in [assigned : Users \cup {NoUser}]
  BY <1>1, <1>2 DEF Row, Written, AssignsUser
<1>3. CASE set \in [status : Statuses]
  BY <1>1, <1>3 DEF Row, Written, ClosesAlert, Statuses
<1>4. CASE set \in [assigned : Users \cup {NoUser}, status : Statuses]
  BY <1>1, <1>4 DEF Row, Written, ClosesAlert, AssignsUser, Statuses
<1> QED  BY <1>2, <1>3, <1>4 DEF AlertUpdates

\* A new alert is one more, and the others stay.
LEMMA NewAlert ==
  ASSUME CaseTypeOK, NEW t \in Threads, CreateAlert(t)
  PROVE  /\ alerts' \in Seq(Row \cup {Gone}) /\ Len(alerts') = Len(alerts) + 1
         /\ Len(alerts') <= MaxAlerts /\ DOMAIN alerts \subseteq DOMAIN alerts'
         /\ DOMAIN alerts' = DOMAIN alerts \cup {Len(alerts) + 1}
         /\ \A a \in DOMAIN alerts : alerts'[a] = alerts[a]
         /\ alerts'[Len(alerts) + 1].status = "open"
         /\ alerts'[Len(alerts) + 1].assigned = NoUser
<1>1. PICK owner \in Users \cup {NoUser} :
        alerts' = Append(alerts, [owner |-> owner, assigned |-> NoUser, status |-> "open"])
  BY DEF CreateAlert
<1>2. [owner |-> owner, assigned |-> NoUser, status |-> "open"] \in Row
  BY DEF Row, Statuses
<1> QED  BY <1>1, <1>2, CaseConstants DEF CreateAlert, CaseTypeOK

\* A new workplan leaves those that are there, of this and of other alerts.
LEMMA NewPlan ==
  ASSUME CaseTypeOK, NEW b \in DOMAIN alerts, plans' = Append(plans, b), UNCHANGED alerts
  PROVE  /\ plans' \in Seq({0} \cup DOMAIN alerts')
         /\ \A a : PlansOf(a) \subseteq PlansOf(a)' /\ PlansOf(b)' # {}
<1>1. plans' \in Seq({0} \cup DOMAIN alerts') /\ Len(plans') = Len(plans) + 1
  BY DEF CaseTypeOK
<1>2. plans'[Len(plans) + 1] = b /\ \A p \in DOMAIN plans : p \in DOMAIN plans' /\ plans'[p] = plans[p]
  BY DEF CaseTypeOK
<1>3. Len(plans) + 1 \in PlansOf(b)'
  BY <1>1, <1>2 DEF PlansOf, CaseTypeOK
<1> QED  BY <1>1, <1>2, <1>3 DEF PlansOf

\* One element of a sequence is replaced.
LEMMA ReplaceInSeq ==
  ASSUME NEW S, NEW s \in Seq(S), NEW i \in DOMAIN s, NEW v \in S, NEW s2, s2 = [s EXCEPT ![i] = v]
  PROVE  s2 \in Seq(S) /\ Len(s2) = Len(s) /\ DOMAIN s2 = DOMAIN s
         /\ s2[i] = v /\ \A j \in DOMAIN s \ {i} : s2[j] = s[j]
  OBVIOUS

LEMMA ArriveType ==
  ASSUME CaseTypeOK, NEW t \in Threads, NEW r \in AlertRequests \cup {Idle}, Arrives(t, r),
         UNCHANGED <<alerts, cuts, auto, announced, interrupted, hushed>>,
         plans' \in Seq({0} \cup DOMAIN alerts), moved' \subseteq {0} \cup DOMAIN alerts
  PROVE  CaseTypeOK'
<1>1. AlertRequests' = AlertRequests
  BY DEF AlertRequests
<1>2. requests' \in 0 .. MaxRequests
  BY CaseConstants DEF CaseTypeOK, Arrives
<1> QED  BY <1>1, <1>2 DEF CaseTypeOK, Arrives

\* A request that goes on without an alert being made
LEMMA GoOnType ==
  ASSUME CaseTypeOK, NEW t \in Threads, NEW r \in AlertRequests \cup {Idle},
         req' = [req EXCEPT ![t] = r], UNCHANGED requests,
         alerts' \in Seq(Row \cup {Gone}), Len(alerts') = Len(alerts),
         plans' \in Seq({0} \cup DOMAIN alerts),
         auto' \in [1 .. MaxAlerts -> Nat], UNCHANGED moved, cuts' \in 0 .. MaxCuts,
         announced' \cup interrupted' \cup hushed' \subseteq DOMAIN alerts
  PROVE  CaseTypeOK'
<1>1. DOMAIN alerts' = DOMAIN alerts
  BY DEF CaseTypeOK
<1>2. AlertRequests' = AlertRequests
  BY <1>1 DEF AlertRequests
<1> QED  BY <1>1, <1>2 DEF CaseTypeOK

LEMMA HushesType ==
  ASSUME CaseTypeOK, NEW t \in Threads, req[t] # Idle
  PROVE  Hushes(req[t]) \subseteq DOMAIN alerts
  BY RequestType DEF Hushes

LEMMA CaseTypeStep ==
  ASSUME CaseTypeOK, EmittingIsAtEmit, [Next]_vars
  PROVE  CaseTypeOK'
<1>1. ASSUME NEW t \in Threads, CreateAlert(t)
      PROVE  CaseTypeOK'
  <2> DEFINE r == [at |-> "emit", alert |-> Len(alerts) + 1, set |-> <<>>,
                   emits |-> <<"ALERT_CREATED">>]
  <2>1. AlertRequests \subseteq AlertRequests'
    BY <1>1, NewAlert DEF AlertRequests
  <2>2. r \in AlertRequests'
    <3>1. <<"ALERT_CREATED">> \in Seq(CaseEvents) \ {<<>>}
      BY DEF CaseEvents
    <3> HIDE DEF CaseEvents
    <3> QED  BY <1>1, <3>1, NewAlert DEF AlertRequests
  <2>3. requests' \in 0 .. MaxRequests /\ req' = [req EXCEPT ![t] = r]
    BY <1>1, CaseConstants DEF CaseTypeOK, Arrives, CreateAlert
  <2>4. plans' \in Seq({0} \cup DOMAIN alerts')
    <3>1. {0} \cup DOMAIN alerts \subseteq {0} \cup DOMAIN alerts'
      BY <1>1, NewAlert
    <3> QED  BY <1>1, <3>1 DEF CaseTypeOK, CreateAlert
  <2>5. req' \in [Threads -> AlertRequests' \cup {Idle}]
    BY <2>1, <2>2, <2>3 DEF CaseTypeOK
  <2> QED  BY <1>1, <2>3, <2>4, <2>5, NewAlert DEF CaseTypeOK, CreateAlert, history
<1>2. ASSUME NEW t \in Threads, ReadAlert(t)
      PROVE  CaseTypeOK'
  <2>1. PICK a \in DOMAIN alerts, user \in Users, set \in AlertUpdates :
          Visible(a, user) /\
          Arrives(t, [at |-> "update", alert |-> a, set |-> set, was |-> alerts[a]])
    BY <1>2 DEF ReadAlert
  <2>2. alerts[a] \in Row
    BY <2>1 DEF Visible, CaseTypeOK
  <2>3. [at |-> "update", alert |-> a, set |-> set, was |-> alerts[a]] \in AlertRequests
    BY <2>2 DEF AlertRequests
  <2> QED
    BY <1>2, <2>1, <2>3, ArriveType DEF ReadAlert, tables, history, CaseTypeOK
<1>3. ASSUME NEW t \in Threads, UpdateAlert(t)
      PROVE  CaseTypeOK'
  <2>0. /\ req[t] # Idle /\ req[t].alert \in DOMAIN alerts
        /\ req[t].set \in AlertUpdates /\ req[t].was \in Row
    BY <1>3, RequestType DEF UpdateAlert, Idle
  <2>1. CASE alerts[req[t].alert] = Gone
    BY <1>3, <2>1, GoOnType DEF UpdateAlert, Ends, CaseTypeOK
  <2>2. CASE alerts[req[t].alert] # Gone
    <3> DEFINE r == [at |-> IF AssignsUser(req[t].set) THEN "check" ELSE "emit",
                     alert |-> req[t].alert, set |-> req[t].set,
                     emits |-> Emits(req[t].set, req[t].was)]
    <3>1. r \in AlertRequests
      BY <2>0, EmitsType DEF AlertRequests
    <3>2. alerts[req[t].alert] \in Row
      BY <2>0, <2>2 DEF CaseTypeOK
    <3>3. /\ alerts' = [alerts EXCEPT ![req[t].alert] = Written(@, req[t].was, req[t].set)]
          /\ req' = [req EXCEPT ![t] = r]
          /\ announced' \subseteq announced
          /\ interrupted' \subseteq interrupted \cup {req[t].alert}
          /\ UNCHANGED <<plans, auto, hushed, moved, requests, cuts>>
      BY <1>3, <2>2 DEF UpdateAlert
    <3>4. alerts' \in Seq(Row \cup {Gone}) /\ Len(alerts') = Len(alerts)
      <4> DEFINE w == Written(alerts[req[t].alert], req[t].was, req[t].set)
      <4>1. w \in Row \cup {Gone}
        BY <2>0, <3>2, WrittenType
      <4>2. alerts' = [alerts EXCEPT ![req[t].alert] = w]
        BY <3>3
      <4> HIDE DEF w
      <4> QED  BY <2>0, <4>1, <4>2, ReplaceInSeq DEF CaseTypeOK
    <3> HIDE DEF r
    <3> QED  BY <2>0, <3>1, <3>3, <3>4, GoOnType DEF CaseTypeOK
  <2> QED  BY <2>1, <2>2
<1>4. ASSUME NEW t \in Threads, CheckPlan(t)
      PROVE  CaseTypeOK'
  <2>0. req[t] # Idle /\ req[t] \in AlertRequests /\ Hushes(req[t]) \subseteq DOMAIN alerts
        /\ req[t].at = "check"
    BY <1>4, RequestType, HushesType DEF CheckPlan, Idle
  <2>1. \A at \in {"insert", "emit"} : [req[t] EXCEPT !.at = at] \in AlertRequests
    BY <2>0 DEF AlertRequests
  <2>2. \E r \in AlertRequests \cup {Idle} : req' = [req EXCEPT ![t] = r]
    BY <1>4, <2>1 DEF CheckPlan, Goes, Ends, CaseTypeOK
  <2> QED  BY <1>4, <2>0, <2>2, GoOnType DEF CheckPlan, tables, CaseTypeOK
<1>5. ASSUME NEW t \in Threads, InsertPlan(t)
      PROVE  CaseTypeOK'
  <2>0. req[t] # Idle /\ req[t] \in AlertRequests /\ req[t].alert \in DOMAIN alerts
        /\ req[t].at = "insert" /\ req[t].alert \in 1 .. MaxAlerts
    BY <1>5, RequestType DEF InsertPlan, Idle
  <2>1. [req[t] EXCEPT !.at = "emit"] \in AlertRequests
    BY <2>0 DEF AlertRequests
  <2>2. req' = [req EXCEPT ![t] = [req[t] EXCEPT !.at = "emit"]]
    BY <1>5 DEF InsertPlan, Goes, CaseTypeOK
  <2>3. plans' \in Seq({0} \cup DOMAIN alerts)
    BY <1>5, <2>0, NewPlan DEF InsertPlan
  <2>4. auto' \in [1 .. MaxAlerts -> Nat]
    BY <1>5, <2>0 DEF InsertPlan, CaseTypeOK
  <2> QED  BY <1>5, <2>1, <2>2, <2>3, <2>4, GoOnType DEF InsertPlan, CaseTypeOK
<1>6. ASSUME NEW t \in Threads, EndAnnouncement(t)
      PROVE  CaseTypeOK'
  <2>. req[t] # Idle /\ req[t].at = "emit"
    BY <1>6 DEF EndAnnouncement, Emitted, EmittingIsAtEmit, Silent, Idle
  <2>0. /\ req[t] \in AlertRequests /\ Hushes(req[t]) \subseteq DOMAIN alerts
        /\ req[t].emits \in Seq(CaseEvents) /\ req[t].emits # <<>>
    BY <1>6, RequestType, HushesType
  <2>1. Tail(req[t].emits) \in Seq(CaseEvents)
    BY <2>0
  <2>2. Tail(req[t].emits) # <<>> => [req[t] EXCEPT !.emits = Tail(req[t].emits)] \in AlertRequests
    BY <1>6, <2>0, <2>1 DEF AlertRequests
  <2>3. \E r \in AlertRequests \cup {Idle} : req' = [req EXCEPT ![t] = r]
    BY <1>6, <2>2 DEF EndAnnouncement, Ends, CaseTypeOK
  <2> QED  BY <1>6, <2>0, <2>3, GoOnType DEF EndAnnouncement, tables, CaseTypeOK
<1>7. ASSUME NEW t \in Threads, ReadToDelete(t)
      PROVE  CaseTypeOK'
  <2>1. PICK a \in DOMAIN alerts : Arrives(t, [at |-> "delete", alert |-> a])
    BY <1>7 DEF ReadToDelete
  <2>2. [at |-> "delete", alert |-> a] \in AlertRequests
    BY DEF AlertRequests
  <2> QED  BY <1>7, <2>1, <2>2, ArriveType DEF ReadToDelete, tables, history, CaseTypeOK
<1>8. ASSUME NEW t \in Threads, DeleteAlert(t)
      PROVE  CaseTypeOK'
  <2>0. req[t] # Idle /\ req[t].alert \in DOMAIN alerts
    BY <1>8, RequestType DEF DeleteAlert, Idle
  <2>1. alerts' \in Seq(Row \cup {Gone}) /\ Len(alerts') = Len(alerts)
    BY <1>8, <2>0, ReplaceInSeq DEF DeleteAlert, CaseTypeOK
  <2> QED  BY <1>8, <2>1, GoOnType DEF DeleteAlert, Ends, history, CaseTypeOK
<1>9. ASSUME NEW t \in Threads, CreateWorkplan(t)
      PROVE  CaseTypeOK'
  BY <1>9, ArriveType, NewPlan DEF CreateWorkplan, history, CaseTypeOK
<1>10. ASSUME NEW t \in Threads, MoveWorkplan(t)
       PROVE  CaseTypeOK'
  <2>1. PICK p \in DOMAIN plans, a \in {0} \cup DOMAIN alerts :
          plans' = [plans EXCEPT ![p] = a] /\ moved' = moved \cup {plans[p]}
    BY <1>10 DEF MoveWorkplan
  <2>2. plans' \in Seq({0} \cup DOMAIN alerts) /\ plans[p] \in {0} \cup DOMAIN alerts
    BY <2>1 DEF CaseTypeOK
  <2> QED  BY <1>10, <2>1, <2>2, ArriveType DEF MoveWorkplan, CaseTypeOK
<1>11. ASSUME NEW t \in Threads, Cut(t)
       PROVE  CaseTypeOK'
  <2>1. Hushes(req[t]) \subseteq DOMAIN alerts /\ cuts' \in 0 .. MaxCuts
    BY <1>11, HushesType, CaseConstants DEF Cut, CaseTypeOK
  <2> QED  BY <1>11, <2>1, GoOnType DEF Cut, Ends, tables, CaseTypeOK
<1>12. CASE UNCHANGED caseVars
  BY <1>12 DEF caseVars, tables, history, CaseTypeOK, AlertRequests
<1> QED
  BY <1>1, <1>2, <1>3, <1>4, <1>5, <1>6, <1>7, <1>8, <1>9, <1>10, <1>11, <1>12
  DEF Next, BeginAnnouncement, vars

-----------------------------------------------------------------------------
(***************************************************************************)
(* What a step does to requests and workplans.                             *)
(***************************************************************************)
\* Only a request that is at its emissions begins, goes on with or ends one.
LEMMA EmittingStep ==
  ASSUME CaseTypeOK, NotificationTypeOK, EmittingIsAtEmit, [Next]_vars
  PROVE  EmittingIsAtEmit'
<1> USE DEF EmittingIsAtEmit, Threads
<1>1. ASSUME NEW t \in Threads, NEW r, req' = [req EXCEPT ![t] = r], UNCHANGED emission,
             req[t].at # "emit"
      PROVE  EmittingIsAtEmit'
  BY <1>1 DEF CaseTypeOK
<1>2. ASSUME NEW t \in Threads,
             \/ CreateAlert(t) \/ ReadAlert(t) \/ UpdateAlert(t) \/ CheckPlan(t) \/ InsertPlan(t)
             \/ ReadToDelete(t) \/ DeleteAlert(t) \/ CreateWorkplan(t) \/ MoveWorkplan(t)
      PROVE  EmittingIsAtEmit'
  BY <1>1, <1>2 DEF CreateAlert, ReadAlert, UpdateAlert, CheckPlan, InsertPlan, ReadToDelete,
         DeleteAlert, CreateWorkplan, MoveWorkplan, Arrives, Goes, Ends, Idle, notificationVars
<1>3. ASSUME NEW t \in Threads, BeginAnnouncement(t)
      PROVE  EmittingIsAtEmit'
  BY <1>3 DEF BeginAnnouncement, Emission, NotificationTypeOK, caseVars
<1>4. ASSUME NEW t \in Threads, EndAnnouncement(t)
      PROVE  EmittingIsAtEmit'
  <2>1. req[t].at = "emit" /\ emission[t] # Silent
    BY <1>4 DEF EndAnnouncement, Emitted, Silent
  <2>2. CASE Tail(req[t].emits) # <<>>
    <3>1. req' = [req EXCEPT ![t].emits = Tail(req[t].emits)]
          /\ \E m : emission' = [emission EXCEPT ![t] = m]
      BY <1>4, <2>2 DEF EndAnnouncement, Emission
    <3>2. req[t] \in AlertRequests
      BY <2>1, RequestType DEF Idle
    <3>3. req'[t].at = "emit"
      BY <2>1, <3>1, <3>2 DEF AlertRequests, CaseTypeOK
    <3> QED  BY <3>1, <3>3 DEF CaseTypeOK, NotificationTypeOK
  <2>3. CASE Tail(req[t].emits) = <<>>
    BY <1>4, <2>3 DEF EndAnnouncement, EndEmit, Ends, CaseTypeOK, NotificationTypeOK
  <2> QED  BY <2>2, <2>3
<1>5. ASSUME NEW t \in Threads, Cut(t)
      PROVE  EmittingIsAtEmit'
  BY <1>5 DEF Cut, CutEmission, Ends, CaseTypeOK, NotificationTypeOK
<1>6. ASSUME NEW t \in Threads, EmitStep(t), UNCHANGED caseVars
      PROVE  EmittingIsAtEmit'
  <2>1. emission[t] # Silent /\ \E m : emission' = [emission EXCEPT ![t] = m]
    BY <1>6 DEF EmitStep, InsertEvent, SkipDuplicate, Send, MarkEvent, Silent
  <2> QED  BY <1>6, <2>1 DEF caseVars, NotificationTypeOK
<1>7. CASE NewBucket /\ UNCHANGED caseVars
  BY <1>7 DEF NewBucket, caseVars
<1>8. CASE UNCHANGED vars
  BY <1>8 DEF vars, caseVars, notificationVars
<1> QED  BY <1>2, <1>3, <1>4, <1>5, <1>6, <1>7, <1>8 DEF Next

\* An alert loses its last workplan by a move only.
LEMMA PlansStay ==
  ASSUME CaseTypeOK, EmittingIsAtEmit, [Next]_vars
  PROVE  /\ moved \subseteq moved'
         /\ \A a : PlansOf(a) # {} => PlansOf(a)' # {} \/ a \in moved'
<1>1. CASE UNCHANGED <<plans, moved>>
  BY <1>1 DEF PlansOf
<1>2. ASSUME NEW b \in DOMAIN alerts, plans' = Append(plans, b), UNCHANGED <<alerts, moved>>
      PROVE  /\ moved \subseteq moved'
             /\ \A a : PlansOf(a) # {} => PlansOf(a)' # {} \/ a \in moved'
  BY <1>2, NewPlan
<1>3. ASSUME NEW t \in Threads, InsertPlan(t)
      PROVE  \E b \in DOMAIN alerts : plans' = Append(plans, b) /\ UNCHANGED <<alerts, moved>>
  BY <1>3, RequestType DEF InsertPlan, Idle
<1>4. ASSUME NEW t \in Threads, CreateWorkplan(t)
      PROVE  \E b \in DOMAIN alerts : plans' = Append(plans, b) /\ UNCHANGED <<alerts, moved>>
  BY <1>4 DEF CreateWorkplan, history
<1>5. ASSUME NEW t \in Threads, MoveWorkplan(t)
      PROVE  /\ moved \subseteq moved'
             /\ \A a : PlansOf(a) # {} => PlansOf(a)' # {} \/ a \in moved'
  <2>1. PICK p \in DOMAIN plans, a \in {0} \cup DOMAIN alerts :
          plans' = [plans EXCEPT ![p] = a] /\ moved' = moved \cup {plans[p]}
    BY <1>5 DEF MoveWorkplan
  <2>2. DOMAIN plans' = DOMAIN plans /\ \A q \in DOMAIN plans \ {p} : plans'[q] = plans[q]
    BY <2>1 DEF CaseTypeOK
  <2> QED  BY <2>1, <2>2 DEF PlansOf
<1> QED
  BY <1>1, <1>2, <1>3, <1>4, <1>5
  DEF Next, vars, caseVars, tables, history, CreateAlert, ReadAlert, UpdateAlert, CheckPlan,
      BeginAnnouncement, EndAnnouncement, ReadToDelete, DeleteAlert, Cut

\* What a step makes of a request: nothing, one that is no assignment at its
\* emissions and makes no workplan, or one that goes on with what it was.
LEMMA RequestStep ==
  ASSUME CaseTypeOK, EmittingIsAtEmit, [Next]_vars, NEW t \in Threads, req'[t] # req[t]
  PROVE  \/ /\ req'[t].at # "insert"
            /\ req'[t].at = "emit" => ~ AssignsUser(req'[t].set)
         \/ /\ req'[t].alert = req[t].alert /\ req'[t].set = req[t].set
            /\ \/ /\ CheckPlan(t) /\ req[t].at = "check"
                  /\ req'[t].at = IF PlansOf(req[t].alert) = {} THEN "insert" ELSE "emit"
               \/ InsertPlan(t) /\ req[t].at = "insert" /\ req'[t].at = "emit"
               \/ EndAnnouncement(t) /\ req[t].at = "emit" /\ req'[t].at = "emit"
<1> DEFINE New == /\ req'[t].at # "insert"
                  /\ req'[t].at = "emit" => ~ AssignsUser(req'[t].set)
<1>1. \A u \in Threads : \A r : req' = [req EXCEPT ![u] = r] => u = t /\ req'[t] = r
  BY DEF CaseTypeOK
<1>2. ASSUME NEW u \in Threads, CreateAlert(u)
      PROVE  New
  BY <1>1, <1>2 DEF CreateAlert, Arrives, AssignsUser
<1>3. ASSUME NEW u \in Threads, ReadAlert(u) \/ ReadToDelete(u) \/ DeleteAlert(u)
                                \/ CreateWorkplan(u) \/ MoveWorkplan(u) \/ Cut(u)
      PROVE  New
  BY <1>1, <1>3 DEF ReadAlert, ReadToDelete, DeleteAlert, CreateWorkplan, MoveWorkplan, Cut,
                    Arrives, Ends, Idle
<1>4. ASSUME NEW u \in Threads, UpdateAlert(u)
      PROVE  New
  <2>1. CASE alerts[req[u].alert] = Gone
    BY <1>1, <1>4, <2>1 DEF UpdateAlert, Ends, Idle
  <2>2. CASE alerts[req[u].alert] # Gone
    BY <1>1, <1>4, <2>2 DEF UpdateAlert
  <2> QED  BY <2>1, <2>2
<1>5. ASSUME NEW u \in Threads, CheckPlan(u)
      PROVE  \/ New
             \/ /\ req'[t].alert = req[t].alert /\ req'[t].set = req[t].set
                /\ CheckPlan(t) /\ req[t].at = "check"
                /\ req'[t].at = IF PlansOf(req[t].alert) = {} THEN "insert" ELSE "emit"
  <2>1. CASE Ends(u)
    BY <1>1, <2>1 DEF Ends, Idle
  <2>2. CASE Goes(u, IF NeedsPlan(req[u].alert) THEN "insert" ELSE "emit")
    <3>1. u = t /\ req[t] \in AlertRequests /\ req[t].at = "check"
      BY <1>1, <1>5, <2>2, RequestType DEF Goes, CheckPlan, Idle
    <3>2. req'[t] = [req[t] EXCEPT !.at = IF NeedsPlan(req[t].alert) THEN "insert" ELSE "emit"]
      BY <1>1, <2>2, <3>1 DEF Goes, CaseTypeOK
    <3> QED  BY <1>5, <3>1, <3>2 DEF NeedsPlan, AlertRequests
  <2> QED  BY <1>5, <2>1, <2>2 DEF CheckPlan
<1>6. ASSUME NEW u \in Threads, InsertPlan(u)
      PROVE  /\ req'[t].alert = req[t].alert /\ req'[t].set = req[t].set
             /\ InsertPlan(t) /\ req[t].at = "insert" /\ req'[t].at = "emit"
  <2>1. u = t /\ req[t] \in AlertRequests /\ req[t].at = "insert"
    BY <1>1, <1>6, RequestType DEF Goes, InsertPlan, Idle
  <2>2. req'[t] = [req[t] EXCEPT !.at = "emit"]
    BY <1>6, <2>1 DEF Goes, InsertPlan, CaseTypeOK
  <2> QED  BY <1>6, <2>1, <2>2 DEF AlertRequests
<1>7. ASSUME NEW u \in Threads, EndAnnouncement(u)
      PROVE  \/ New
             \/ /\ req'[t].alert = req[t].alert /\ req'[t].set = req[t].set
                /\ EndAnnouncement(t) /\ req[t].at = "emit" /\ req'[t].at = "emit"
  <2>1. CASE Ends(u)
    BY <1>1, <2>1 DEF Ends, Idle
  <2>2. CASE req' = [req EXCEPT ![u].emits = Tail(req[u].emits)]
    <3>1. u = t
      BY <1>1, <2>2
    <3>2. req[t] \in AlertRequests /\ req[t].at = "emit"
      BY <1>7, <3>1, RequestType DEF EndAnnouncement, Emitted, EmittingIsAtEmit, Silent, Idle
    <3>3. req'[t] = [req[t] EXCEPT !.emits = Tail(req[t].emits)]
      BY <2>2, <3>1 DEF CaseTypeOK
    <3> QED  BY <1>7, <3>1, <3>2, <3>3 DEF AlertRequests
  <2> QED  BY <1>7, <2>1, <2>2 DEF EndAnnouncement
<1>8. CASE UNCHANGED req
  BY <1>8
<1> HIDE DEF New
<1>9. \/ New
      \/ /\ req'[t].alert = req[t].alert /\ req'[t].set = req[t].set
         /\ \/ /\ CheckPlan(t) /\ req[t].at = "check"
               /\ req'[t].at = IF PlansOf(req[t].alert) = {} THEN "insert" ELSE "emit"
            \/ InsertPlan(t) /\ req[t].at = "insert" /\ req'[t].at = "emit"
            \/ EndAnnouncement(t) /\ req[t].at = "emit" /\ req'[t].at = "emit"
  BY <1>2, <1>3, <1>4, <1>5, <1>6, <1>7, <1>8 DEF Next, BeginAnnouncement, caseVars, vars
<1> QED  BY <1>9 DEF New

LEMMA AnnouncedStep ==
  ASSUME CaseInv, [Next]_vars
  PROVE  AnnouncedIsPlanned'
<1> SUFFICES ASSUME NEW t \in Threads, req'[t].at = "emit", AssignsUser(req'[t].set),
                    NEW a, a = req'[t].alert
             PROVE  PlansOf(a)' # {} \/ a \in moved'
  BY DEF AnnouncedIsPlanned, PlansOf
<1> USE DEF CaseInv
<1>1. moved \subseteq moved' /\ \A b : PlansOf(b) # {} => PlansOf(b)' # {} \/ b \in moved'
  BY PlansStay
<1>2. CASE req[t].at = "emit" /\ req'[t].alert = req[t].alert /\ req'[t].set = req[t].set
  BY <1>1, <1>2 DEF AnnouncedIsPlanned
<1>3. CASE req'[t].alert = req[t].alert /\ PlansOf(req[t].alert) # {}
  BY <1>1, <1>3
<1>4. CASE InsertPlan(t) /\ req'[t].alert = req[t].alert
  <2>1. req[t] # Idle /\ plans' = Append(plans, a) /\ UNCHANGED alerts
    BY <1>4 DEF InsertPlan, Idle
  <2>2. a \in DOMAIN alerts
    BY <1>4, <2>1, RequestType
  <2>3. CaseTypeOK
    OBVIOUS
  <2> HIDE DEF CaseInv
  <2> QED  BY <2>1, <2>2, <2>3, NewPlan
<1> QED  BY <1>2, <1>3, <1>4, RequestStep

\* Who assigns a user has left the alert interrupted until its last emission.
LEMMA AssignedStep ==
  ASSUME CaseInv, [Next]_vars
  PROVE  AssignedHasWorkplan'
<1> SUFFICES ASSUME NEW a \in DOMAIN alerts', alerts'[a] # Gone, alerts'[a].assigned # NoUser
             PROVE  PlansOf(a)' # {} \/ a \in interrupted' \cup moved'
  BY DEF AssignedHasWorkplan
<1> USE DEF CaseInv
<1>1. moved \subseteq moved' /\ \A b : PlansOf(b) # {} => PlansOf(b)' # {} \/ b \in moved'
  BY PlansStay
<1>2. CASE a \in DOMAIN alerts /\ alerts[a] # Gone /\ alerts[a].assigned # NoUser
           /\ interrupted \subseteq interrupted'
  BY <1>1, <1>2 DEF AssignedHasWorkplan
<1>3. ASSUME NEW t \in Threads, CreateAlert(t)
      PROVE  PlansOf(a)' # {} \/ a \in interrupted' \cup moved'
  BY <1>2, <1>3, NewAlert DEF CreateAlert, history
<1>4. ASSUME NEW t \in Threads, UpdateAlert(t)
      PROVE  PlansOf(a)' # {} \/ a \in interrupted' \cup moved'
  <2> DEFINE b == req[t].alert
  <2>0. b \in DOMAIN alerts /\ req[t].set \in AlertUpdates /\ req[t].was \in Row
    BY <1>4, RequestType DEF UpdateAlert, Idle
  <2>1. CASE alerts[b] = Gone
    BY <1>2, <1>4, <2>1 DEF UpdateAlert
  <2>2. CASE alerts[b] # Gone
    <3> DEFINE w == Written(alerts[b], req[t].was, req[t].set)
    <3>1. /\ alerts' = [alerts EXCEPT ![b] = w]
          /\ interrupted \subseteq interrupted'
          /\ AssignsUser(req[t].set) => b \in interrupted'
      BY <1>4, <2>2 DEF UpdateAlert
    <3>2. w \in Row /\ (w.assigned \in {alerts[b].assigned, NoUser} \/ AssignsUser(req[t].set))
      <4> DEFINE row == alerts[b]
                 was == req[t].was
                 set == req[t].set
      <4>1. row \in Row /\ was \in Row /\ set \in AlertUpdates
        BY <2>0, <2>2 DEF CaseTypeOK
      <4> HIDE DEF row, was, set
      <4>2. /\ Written(row, was, set) \in Row
            /\ Written(row, was, set).assigned \in {row.assigned, NoUser} \/ AssignsUser(set)
        BY <4>1, WrittenType
      <4> QED  BY <4>2 DEF row, was, set
    <3>3. DOMAIN alerts' = DOMAIN alerts /\ alerts'[b] = w
          /\ \A c \in DOMAIN alerts \ {b} : alerts'[c] = alerts[c]
      <4> HIDE DEF b, w
      <4> QED  BY <2>0, <3>1, <3>2, ReplaceInSeq DEF CaseTypeOK
    <3> HIDE DEF w
    <3> QED  BY <1>2, <2>2, <3>1, <3>2, <3>3
  <2> QED  BY <2>1, <2>2
<1>5. ASSUME NEW t \in Threads, EndAnnouncement(t)
      PROVE  PlansOf(a)' # {} \/ a \in interrupted' \cup moved'
  <2>1. req[t].at = "emit"
    BY <1>5 DEF EndAnnouncement, Emitted, EmittingIsAtEmit, Silent
  <2>2. a \in DOMAIN alerts /\ alerts[a] # Gone /\ alerts[a].assigned # NoUser
    BY <1>5 DEF EndAnnouncement, tables
  <2>3. CASE interrupted \subseteq interrupted'
    BY <1>2, <2>2, <2>3
  <2>4. CASE AssignsUser(req[t].set) /\ interrupted' = interrupted \ {req[t].alert}
    BY <1>1, <2>1, <2>2, <2>4 DEF AnnouncedIsPlanned, AssignedHasWorkplan
  <2> QED  BY <1>5, <2>3, <2>4 DEF EndAnnouncement
<1>6. ASSUME NEW t \in Threads, DeleteAlert(t)
      PROVE  PlansOf(a)' # {} \/ a \in interrupted' \cup moved'
  <2>1. req[t].alert \in DOMAIN alerts
    BY <1>6, RequestType DEF DeleteAlert, Idle
  <2>2. /\ alerts' = [alerts EXCEPT ![req[t].alert] = Gone] /\ UNCHANGED interrupted
        /\ DOMAIN alerts' = DOMAIN alerts
    BY <1>6 DEF DeleteAlert, history, CaseTypeOK
  <2>3. a \in DOMAIN alerts /\ alerts'[a] = alerts[a]
    BY <2>1, <2>2 DEF CaseTypeOK
  <2> QED  BY <1>2, <2>2, <2>3
<1>7. CASE UNCHANGED <<alerts, interrupted>>
  BY <1>2, <1>7
<1> QED
  BY <1>3, <1>4, <1>5, <1>6, <1>7
  DEF Next, vars, caseVars, tables, history, ReadAlert, CheckPlan, InsertPlan,
      BeginAnnouncement, ReadToDelete, CreateWorkplan, MoveWorkplan, Cut

\* A thread that finds the alert without a workplan joins those about to insert
\* one, and there are only so many threads: one that has inserted has left them.
LEMMA AutoStep ==
  ASSUME CaseInv, [Next]_vars
  PROVE  AutoPlansAreCounted'
<1> SUFFICES ASSUME NEW a \in 1 .. MaxAlerts, a \notin moved'
             PROVE  /\ PlansOf(a)' = {} => auto'[a] = 0
                    /\ auto'[a] + Cardinality(Inserting(a)') <= Cardinality(Threads)
  BY DEF AutoPlansAreCounted
<1> USE DEF CaseInv
<1>1. /\ a \notin moved /\ (PlansOf(a)' = {} => PlansOf(a) = {})
      /\ PlansOf(a) = {} => auto[a] = 0
      /\ auto[a] \in Nat
      /\ auto[a] + Cardinality(Inserting(a)) <= Cardinality(Threads)
  BY PlansStay DEF AutoPlansAreCounted, CaseTypeOK
<1>2. /\ IsFiniteSet(Inserting(a)) /\ IsFiniteSet(Inserting(a)') /\ IsFiniteSet(Threads)
      /\ Cardinality(Inserting(a)) \in Nat /\ Cardinality(Inserting(a)') \in Nat
      /\ Cardinality(Threads) \in Nat /\ Cardinality(Inserting(a)') <= Cardinality(Threads)
  <2>1. Inserting(a) \subseteq Threads /\ Inserting(a)' \subseteq Threads
    BY DEF Inserting
  <2>2. IsFiniteSet(Threads)
    BY CaseConstants
  <2> HIDE DEF Threads
  <2> QED  BY <2>1, <2>2, FS_Subset, FS_CardinalityType
<1>3. ASSUME NEW u \in Inserting(a)', u \notin Inserting(a)
      PROVE  CheckPlan(u) /\ PlansOf(a) = {}
  <2>1. u \in Threads /\ req'[u].at = "insert" /\ req'[u].alert = a /\ req'[u] # req[u]
    BY <1>3 DEF Inserting
  <2> QED  BY <2>1, RequestStep
<1>4. CASE ~ (Inserting(a)' \subseteq Inserting(a))
  <2>1. PICK u \in Inserting(a)' : CheckPlan(u) /\ PlansOf(a) = {}
    BY <1>3, <1>4
  <2>2. auto' = auto
    BY <2>1 DEF CheckPlan
  <2> QED  BY <1>1, <1>2, <2>1, <2>2
<1>5. CASE Inserting(a)' \subseteq Inserting(a) /\ auto'[a] = auto[a]
  <2>1. Cardinality(Inserting(a)') <= Cardinality(Inserting(a))
    BY <1>2, <1>5, FS_Subset
  <2> QED  BY <1>1, <1>2, <1>5, <2>1
<1>6. ASSUME Inserting(a)' \subseteq Inserting(a),
             NEW t \in Threads, InsertPlan(t), req[t].alert = a
      PROVE  /\ PlansOf(a)' = {} => auto'[a] = 0
             /\ auto'[a] + Cardinality(Inserting(a)') <= Cardinality(Threads)
  <2>1. PlansOf(a)' # {}
    <3>1. a \in DOMAIN alerts /\ plans' = Append(plans, a) /\ UNCHANGED alerts
      BY <1>6, RequestType DEF InsertPlan, Idle
    <3> QED  BY <3>1, NewPlan
  <2>2. auto'[a] = auto[a] + 1 /\ t \in Inserting(a)
    BY <1>6 DEF InsertPlan, Inserting, CaseTypeOK
  <2>3. t \notin Inserting(a)'
    <3>1. req[t] \in AlertRequests
      BY <1>6, RequestType DEF InsertPlan, Idle
    <3>2. req'[t].at = "emit"
      BY <1>6, <3>1 DEF InsertPlan, Goes, CaseTypeOK, AlertRequests
    <3> QED  BY <3>2 DEF Inserting
  <2>4. Cardinality(Inserting(a) \ {t}) = Cardinality(Inserting(a)) - 1
        /\ IsFiniteSet(Inserting(a) \ {t})
    BY <1>2, <2>2, FS_RemoveElement
  <2>5. Cardinality(Inserting(a)') <= Cardinality(Inserting(a) \ {t})
    <3>1. Inserting(a)' \subseteq Inserting(a) \ {t}
      BY <1>6, <2>3
    <3> QED  BY <2>4, <3>1, FS_Subset
  <2> QED  BY <1>1, <1>2, <2>1, <2>2, <2>4, <2>5
<1>7. auto'[a] = auto[a] \/ \E t \in Threads : InsertPlan(t) /\ req[t].alert = a
  <2>1. ASSUME NEW t \in Threads, InsertPlan(t)
        PROVE  auto'[a] = auto[a] \/ req[t].alert = a
    BY <2>1 DEF InsertPlan, CaseTypeOK
  <2> QED
    BY <2>1
    DEF Next, vars, caseVars, tables, history, CreateAlert, ReadAlert, UpdateAlert, CheckPlan,
        BeginAnnouncement, EndAnnouncement, ReadToDelete, DeleteAlert, CreateWorkplan,
        MoveWorkplan, Cut
<1> QED  BY <1>4, <1>5, <1>6, <1>7

\* A request that has a closing to announce keeps it, announces it, or is cut.
LEMMA HushedStays ==
  ASSUME CaseInv, [Next]_vars, NEW t \in Threads, req[t] # Idle, NEW a \in Hushes(req[t])
  PROVE  a \in announced' \cup hushed' \/ (req'[t] # Idle /\ a \in Hushes(req'[t]))
<1> USE DEF CaseInv
<1>0. /\ req[t].at \in {"check", "insert", "emit"} /\ req[t] \in AlertRequests
      /\ "emits" \in DOMAIN req[t]
  BY RequestType DEF Hushes, AlertRequests
<1>1. \A u \in Threads : \A r : req' = [req EXCEPT ![u] = r] /\ u # t => req'[t] = req[t]
  BY DEF CaseTypeOK
<1>2. ASSUME NEW u \in Threads, CreateAlert(u) \/ ReadAlert(u) \/ UpdateAlert(u) \/ ReadToDelete(u)
                                \/ DeleteAlert(u) \/ CreateWorkplan(u) \/ MoveWorkplan(u)
      PROVE  req'[t] = req[t]
  <2>1. u # t
    BY <1>0, <1>2 DEF CreateAlert, ReadAlert, UpdateAlert, ReadToDelete, DeleteAlert,
                      CreateWorkplan, MoveWorkplan, Arrives
  <2>2. \E r : req' = [req EXCEPT ![u] = r]
    BY <1>2 DEF CreateAlert, ReadAlert, UpdateAlert, ReadToDelete, DeleteAlert,
                CreateWorkplan, MoveWorkplan, Arrives, Ends
  <2> QED  BY <1>1, <2>1, <2>2
<1>3. ASSUME NEW u \in Threads, u # t, CheckPlan(u) \/ InsertPlan(u) \/ EndAnnouncement(u) \/ Cut(u)
      PROVE  req'[t] = req[t]
  BY <1>3 DEF CheckPlan, InsertPlan, EndAnnouncement, Cut, Goes, Ends, CaseTypeOK
<1>4. ASSUME NEW at \in {"insert", "emit"}, Goes(t, at)
      PROVE  req'[t] # Idle /\ a \in Hushes(req'[t])
  <2>1. req'[t] = [req[t] EXCEPT !.at = at]
    BY <1>4 DEF Goes, CaseTypeOK
  <2>2. /\ DOMAIN req'[t] = DOMAIN req[t] /\ req'[t].emits = req[t].emits
        /\ req'[t].alert = req[t].alert /\ req'[t].at = at
    BY <1>0, <2>1 DEF AlertRequests
  <2> QED  BY <2>2 DEF Hushes, Idle
<1>5. CASE CheckPlan(t)
  BY <1>4, <1>5 DEF CheckPlan
<1>6. CASE InsertPlan(t)
  BY <1>4, <1>6 DEF InsertPlan
<1>7. CASE EndAnnouncement(t) \/ Cut(t)
  BY <1>7 DEF EndAnnouncement, Cut
<1>8. CASE UNCHANGED req
  BY <1>8
<1> QED
  BY <1>2, <1>3, <1>5, <1>6, <1>7, <1>8 DEF Next, BeginAnnouncement, caseVars, vars

LEMMA ClosedStep ==
  ASSUME CaseInv, [Next]_vars
  PROVE  ClosedIsAnnounced'
<1> SUFFICES ASSUME NEW a \in DOMAIN alerts', alerts'[a] # Gone, alerts'[a].status # "open"
             PROVE  \/ a \in announced' \cup hushed'
                    \/ \E t \in Threads : req'[t] # Idle /\ a \in Hushes(req'[t])
  BY DEF ClosedIsAnnounced
<1> USE DEF CaseInv
<1>0. hushed \subseteq hushed'
  BY DEF Next, vars, caseVars, tables, history, CreateAlert, ReadAlert, UpdateAlert, CheckPlan,
         InsertPlan, BeginAnnouncement, EndAnnouncement, ReadToDelete, DeleteAlert, CreateWorkplan,
         MoveWorkplan, Cut
<1>1. CASE /\ a \in DOMAIN alerts /\ alerts[a] # Gone /\ alerts[a].status # "open"
           /\ a \in announced => a \in announced'
  BY <1>0, <1>1, HushedStays DEF ClosedIsAnnounced
<1>2. ASSUME NEW t \in Threads, CreateAlert(t)
      PROVE  a \in DOMAIN alerts /\ alerts[a] # Gone /\ alerts[a].status # "open"
             /\ announced' = announced
  BY <1>2, NewAlert DEF CreateAlert, history
<1>3. ASSUME NEW t \in Threads, UpdateAlert(t)
      PROVE  \/ a \in announced' \cup hushed'
             \/ \E u \in Threads : req'[u] # Idle /\ a \in Hushes(req'[u])
  <2> DEFINE b == req[t].alert
             w == Written(alerts[b], req[t].was, req[t].set)
  <2>0. b \in DOMAIN alerts /\ req[t].set \in AlertUpdates /\ req[t].was \in Row
    BY <1>3, RequestType DEF UpdateAlert, Idle
  <2>1. CASE alerts[b] = Gone
    BY <1>1, <1>3, <2>1 DEF UpdateAlert
  <2>2. CASE alerts[b] # Gone
    <3>1. alerts' = [alerts EXCEPT ![b] = w] /\ (alerts'[b].status # "open" => announced' = announced)
          /\ announced \ {b} \subseteq announced'
      BY <1>3, <2>2 DEF UpdateAlert
    <3>2. /\ w \in Row
          /\ \/ w.status \in {alerts[b].status, "open"}
             \/ ClosesAlert(req[t].set) /\ req[t].was.status # "closed"
      <4>1. alerts[b] \in Row
        BY <2>0, <2>2 DEF CaseTypeOK
      <4> QED  BY <2>0, <4>1, WrittenType
    <3>3. DOMAIN alerts' = DOMAIN alerts /\ alerts'[b] = w
          /\ \A c \in DOMAIN alerts \ {b} : alerts'[c] = alerts[c]
      <4> HIDE DEF b, w
      <4> QED  BY <2>0, <3>1, <3>2, ReplaceInSeq DEF CaseTypeOK
    <3> HIDE DEF w
    <3>4. CASE a # b \/ w.status = alerts[b].status
      BY <1>1, <2>2, <3>1, <3>3, <3>4
    <3>5. CASE a = b /\ ClosesAlert(req[t].set) /\ req[t].was.status # "closed"
      <4>1. /\ req'[t].alert = b /\ req'[t].emits = Emits(req[t].set, req[t].was)
            /\ "emits" \in DOMAIN req'[t] /\ req'[t] # Idle
        BY <1>3, <2>2 DEF UpdateAlert, CaseTypeOK, Idle
      <4>2. req'[t].emits # <<>> /\ Head(req'[t].emits) = "ALERT_CLOSED"
        BY <3>5, <4>1, EmitsType DEF Announcement
      <4>3. Hushes(req'[t]) = {b}
        BY <4>1, <4>2 DEF Hushes
      <4> QED  BY <3>5, <4>1, <4>3
    <3> QED  BY <3>2, <3>3, <3>4, <3>5
  <2> QED  BY <2>1, <2>2
<1>4. ASSUME NEW t \in Threads, DeleteAlert(t)
      PROVE  a \in DOMAIN alerts /\ alerts'[a] = alerts[a] /\ announced' = announced
  <2>1. req[t].alert \in DOMAIN alerts
    BY <1>4, RequestType DEF DeleteAlert, Idle
  <2> QED  BY <1>4, <2>1 DEF DeleteAlert, history, CaseTypeOK
<1>5. ASSUME NEW t \in Threads, EndAnnouncement(t)
      PROVE  alerts' = alerts /\ announced \subseteq announced'
  BY <1>5 DEF EndAnnouncement, tables
<1>6. CASE UNCHANGED <<alerts, announced>>
  BY <1>1, <1>6
<1> QED
  BY <1>1, <1>2, <1>3, <1>4, <1>5, <1>6
  DEF Next, vars, caseVars, tables, history, ReadAlert, CheckPlan, InsertPlan,
      BeginAnnouncement, ReadToDelete, CreateWorkplan, MoveWorkplan, Cut

-----------------------------------------------------------------------------
(***************************************************************************)
(* The theorems.                                                           *)
(***************************************************************************)
LEMMA MailStep ==
  ASSUME CaseTypeOK, EmittingIsAtEmit, MailInv, [Next]_vars
  PROVE  MailInv'
<1>1. ASSUME NEW t \in Threads, BeginAnnouncement(t)
      PROVE  MailInv'
  <2>1. Head(req[t].emits) \in EventTypes /\ req[t].alert \in Entities
    BY <1>1, RequestType, CaseConstants DEF BeginAnnouncement, Idle
  <2> QED  BY <1>1, <2>1, EmissionStep DEF BeginAnnouncement, Threads
<1>2. ASSUME NEW t \in Threads, EndAnnouncement(t)
      PROVE  MailInv'
  <2>1. CASE EndEmit(t)
    BY <1>2, <2>1, EndEmitStep DEF EndAnnouncement, Threads
  <2>2. CASE Tail(req[t].emits) # <<>> /\ Emission(t, Head(Tail(req[t].emits)), req[t].alert, Recipients)
    <3>1. req[t].at = "emit"
      BY <1>2 DEF EndAnnouncement, Emitted, EmittingIsAtEmit, Silent
    <3>2. req[t].emits \in Seq(CaseEvents) /\ req[t].emits # <<>> /\ req[t].alert \in Entities
      BY <3>1, RequestType, CaseConstants DEF Idle
    <3>3. Head(Tail(req[t].emits)) \in CaseEvents
      <4> HIDE DEF CaseEvents
      <4> QED  BY <2>2, <3>2
    <3> QED  BY <1>2, <2>2, <3>2, <3>3, EmissionStep, CaseConstants DEF EndAnnouncement, Threads
  <2> QED  BY <1>2, <2>1, <2>2 DEF EndAnnouncement
<1>3. ASSUME NEW t \in Threads, Cut(t)
      PROVE  MailInv'
  BY <1>3, CutStep DEF Cut, Threads
<1>4. ASSUME NEW t \in Threads, EmitStep(t)
      PROVE  MailInv'
  BY <1>4, InsertStep, SkipStep, SendStep DEF EmitStep, Threads
<1>5. CASE UNCHANGED notificationVars
  <2>1. NotificationTypeOK'
    BY <1>5 DEF MailInv, NotificationTypeOK, notificationVars
  <2> QED
    BY <1>5, <2>1
    DEF MailInv, notificationVars, NoRowNoMail, SenderIsFirst, RowsAreMailed, OneMailPerKey, MailKey
<1> QED
  BY <1>1, <1>2, <1>3, <1>4, <1>5, BucketStep
  DEF Next, vars, CreateAlert, ReadAlert, UpdateAlert, CheckPlan, InsertPlan, ReadToDelete,
      DeleteAlert, CreateWorkplan, MoveWorkplan

LEMMA CasesStep ==
  ASSUME CasesInv, [Next]_vars
  PROVE  CasesInv'
  BY CaseTypeStep, EmittingStep, AnnouncedStep, AssignedStep, AutoStep, ClosedStep, MailStep
  DEF CasesInv, CaseInv, MailInv

LEMMA CasesInvariant == Spec => []CasesInv
  BY CasesInitially, CasesStep, PTL DEF Spec

\* The invariant says what is mailed.
LEMMA CasesMail == CasesInv => MailedOnce
  BY DEF CasesInv, MailInv, MailedOnce

\* However many threads announce the same change of an alert in one window, are
\* cut and come back, each recipient is mailed once and nobody is passed over
\* because another thread has put the row first.
THEOREM MailedCorrect == Spec => []MailedOnce
  BY CasesMail, CasesInvariant, PTL

\* It says what is decided.
LEMMA CasesDecide == CasesInv => DecisionsAreFollowed
<1> SUFFICES ASSUME CasesInv PROVE OneAutoPlanPerThread
  BY DEF CasesInv, CaseInv, DecisionsAreFollowed, AssignmentsArePlanned
<1>1. ASSUME NEW a \in DOMAIN alerts, a \notin moved
      PROVE  auto[a] <= Cardinality(Threads)
  <2>1. a \in 1 .. MaxAlerts
    BY CaseConstants DEF CasesInv, CaseInv, CaseTypeOK
  <2>2. /\ auto[a] \in Nat /\ auto[a] + Cardinality(Inserting(a)) <= Cardinality(Threads)
    BY <1>1, <2>1 DEF CasesInv, CaseInv, CaseTypeOK, AutoPlansAreCounted
  <2>3. Cardinality(Inserting(a)) \in Nat /\ Cardinality(Threads) \in Nat
    <3>1. Inserting(a) \subseteq Threads
      BY DEF Inserting
    <3> QED  BY <3>1, CaseConstants, FS_Subset, FS_CardinalityType
  <2> QED  BY <2>2, <2>3
<1> QED  BY <1>1 DEF OneAutoPlanPerThread

\* However assignments and closings race, are cut and repeated: an assigned
\* alert has a workplan, no more of them than threads were made for it, and the
\* closing of a closed alert was announced or is about to be.
THEOREM DecisionsCorrect == Spec => []DecisionsAreFollowed
  BY CasesDecide, CasesInvariant, PTL

-----------------------------------------------------------------------------
(* The records that are kept by hand: Records *)

Busy(d) == desk[d] # Free

\* Without contention the one request in flight knows the row.
AloneWithRow ==
  ~ contended =>
    /\ \A d, e \in Desks : Busy(d) /\ Busy(e) => d = e
    /\ \A d \in Desks :
         /\ desk[d].at = "insert" => entry = Absent
         /\ desk[d].at = "update" =>
              Exists /\ desk[d].kind = entry.kind /\ desk[d].loaded = entry.value
         /\ desk[d].at \in {"pair", "log"} => Exists /\ desk[d].kind = entry.kind

\* Requests other than insertions find a row, if only one that was deleted;
\* with contention too, what is deleted is an item and what has a pair is not.
RowIsThere ==
  \A d \in Desks :
    /\ desk[d].at \in {"update", "log"} => entry # Absent
    /\ desk[d].at = "pair"   => entry.kind \in Paired
    /\ desk[d].at = "delete" => entry.kind \in {"item", "deleted"}

\* What is never created is never told of.
AbsentIsUntold == entry = Absent => audit = Nothing /\ written = Nothing /\ untold = 0

\* An escalation is never updated, and the ends of a shift are sent in order.
SentIsChecked ==
  \A d \in Desks :
    /\ desk[d].at = "update" => desk[d].kind # "escalation"
    /\ desk[d].at = "insert" => desk[d].sent \in Drafts
    /\ desk[d].at \in {"insert", "update"} /\ desk[d].kind = "handover" =>
         ShiftInOrder(desk[d].sent) /\ (lopsided \/ DOMAIN desk[d].sent = Fields)

\* Without contention the row is what was written, and the log tells of all but
\* what it cannot tell of and what a request is about to log.
RowIsWritten ==
  Exists /\ ~ contended =>
    /\ entry.value = written.last
    /\ entry.kind = "handover" /\ ~ lopsided => entry.value["first"] < entry.value["second"]

Logging  == \E d \in Desks : desk[d].at = "log"
Loggable == \E d \in Desks : desk[d].at = "log" /\ ~ NotJson(desk[d])

LogTells ==
  Exists /\ ~ contended /\ failures = 0 =>
    /\ entry.kind \in CreatesLogged =>
         IF Logging
         THEN \A d \in Desks : desk[d].at = "log" => Add(audit, desk[d].sent) = written
         ELSE audit = written
    /\ entry.kind = "workplan" =>
         audit.number + untold = written.number - (IF Loggable THEN 2 ELSE 1)
    /\ entry.kind \in Paired => entry.paired \/ \E d \in Desks : desk[d].at = "pair"

RecordInv ==
  /\ RecordTypeOK
  /\ RowIsThere
  /\ AloneWithRow
  /\ AbsentIsUntold
  /\ SentIsChecked
  /\ RowIsWritten
  /\ LogTells

-----------------------------------------------------------------------------
(***************************************************************************)
(* The handlers of all kinds come down to a few steps.                     *)
(***************************************************************************)
Step(d) ==
  \/ \E kind \in Kinds : BeginCreate(d, kind)
  \/ \E kind \in Kinds \ {"escalation"}, domains \in SUBSET (SUBSET Fields) :
       BeginUpdate(d, kind, domains)
  \/ BeginDelete(d)
  \/ InsertRow(d) \/ UpdateRow(d) \/ LogAction(d) \/ LogFails(d) \/ CreatePair(d)
  \/ DeleteRow(d) \/ CutRequest(d)

LEMMA CreatesAreSteps ==
  ASSUME NEW d \in Desks, Creates(d) \/ Notes(d)
  PROVE  \E kind \in Kinds : BeginCreate(d, kind)
<1>1. CASE Creates(d)
  BY <1>1, Zenon
  DEF Creates, Kinds, CreateHandover, AddWorkplan, CreateWorkplanItem, CreateIndicator,
      CreateBiocRule, CreateAnalyticsRule, CreateIncident, EscalateAlert, CreateUser,
      CreateResponse, ReadStoragePolicy, CreateDefinition, EnrollAgentRow, CreateDomain,
      SubmitSample, TriggerXdrAction, IngestTriageResult
<1>2. CASE Notes(d)
  BY <1>2, Zenon
  DEF Notes, Kinds, CreateWarroomNote, CreateWorkgroup, CreateTenant, CreateConnector,
      ActOnMessage, RecordEmailAction, ActOnThreat, RecordThreatAudit, RecordAlertAction,
      AnalyzeSandbox, IngestScaResult, EvaluateAgent
<1> QED  BY <1>1, <1>2

LEMMA UpdatesAreSteps ==
  ASSUME NEW d \in Desks, Updates(d)
  PROVE  \E kind \in Kinds \ {"escalation"}, domains \in SUBSET (SUBSET Fields) :
           BeginUpdate(d, kind, domains)
<1>1. /\ {{"first"}, Fields} \in SUBSET (SUBSET Fields)
      /\ {{"second"}} \in SUBSET (SUBSET Fields)
      /\ {Fields} \in SUBSET (SUBSET Fields)
      /\ AnyFields \in SUBSET (SUBSET Fields)
  BY DEF Fields, AnyFields
<1>2. {"handover", "workplan", "item", "indicator", "bioc", "analytics", "incident", "user",
       "response", "library", "agent", "domain", "job"} \subseteq Kinds \ {"escalation"}
  BY DEF Kinds
<1>3. PICK kind \in {"handover", "workplan", "item", "indicator", "bioc", "analytics",
                     "incident", "user", "response", "library", "agent", "domain", "job"},
           domains \in {{{"first"}, Fields}, {{"second"}}, {Fields}, AnyFields} :
             BeginUpdate(d, kind, domains)
  BY Zenon
  DEF Updates, UpdateHandover, UpdateWorkplan, UpdateWorkplanItem, UpdateIndicator,
      UpdateBiocRule, UpdateAnalyticsRule, UpdateIncident, UpdateUser, UpdateResponse,
      ToggleLibraryRule, AgentHeartbeat, VerifyDomain, AnalyzerVerdict
<1>4. domains \in SUBSET (SUBSET Fields)
  BY <1>1, <1>3, Zenon
<1>5. kind \in Kinds \ {"escalation"}
  BY <1>2, <1>3, Zenon
<1> QED  BY <1>3, <1>4, <1>5, Zenon

LEMMA PutsAreSteps ==
  ASSUME NEW d \in Desks, Puts(d)
  PROVE  \/ \E kind \in Kinds : BeginCreate(d, kind)
         \/ \E kind \in Kinds \ {"escalation"}, domains \in SUBSET (SUBSET Fields) :
              BeginUpdate(d, kind, domains)
<1>1. {Fields} \in SUBSET (SUBSET Fields) /\ AnyFields \in SUBSET (SUBSET Fields)
  BY DEF Fields, AnyFields
<1>2. {"flow", "library", "policy", "sensor", "identity"} \subseteq Kinds \ {"escalation"}
  BY DEF Kinds
<1>3. PICK kind \in {"flow", "library", "policy", "sensor", "identity"},
           domains \in {{Fields}, AnyFields} :
             BeginCreate(d, kind) \/ BeginUpdate(d, kind, domains)
  BY Zenon
  DEF Puts, UpdateWorkplanFlow, ImportLibraryRule, ImportRulePack, UpdateStoragePolicy,
      ReportSensor, PutIdentityProvider, BeginPut
<1>4. kind \in Kinds \ {"escalation"} /\ domains \in SUBSET (SUBSET Fields)
  BY <1>1, <1>2, Zenon
<1> QED  BY <1>3, <1>4, Zenon

LEMMA NextIsStep == RecordNext => \E d \in Desks : Step(d)
  BY CreatesAreSteps, UpdatesAreSteps, PutsAreSteps, Zenon DEF RecordNext, Step

-----------------------------------------------------------------------------
(***************************************************************************)
(* Types.                                                                  *)
(***************************************************************************)
Sums == [number : Nat, last : [Fields -> Values \cup {0}]]

LEMMA SentType ==
  /\ \A sent \in Sent : DOMAIN sent \subseteq Fields /\ \A f \in DOMAIN sent : sent[f] \in Values
  /\ Drafts \subseteq Full /\ Full \subseteq Sent
<1>1. \A sent \in Sent : \E S \in SUBSET Fields : sent \in [S -> Values]
  BY DEF Sent
<1>2. Fields \in (SUBSET Fields) \ {{}}
  BY DEF Fields
<1>3. Full \subseteq Sent
  BY <1>2 DEF Full, Sent
<1>4. Drafts \subseteq Full
  BY RecordConstants DEF Full, Fields, Values
<1> QED  BY <1>1, <1>3, <1>4

LEMMA AddType ==
  ASSUME NEW sum \in Sums, NEW sent \in Sent
  PROVE  /\ Add(sum, sent) \in Sums
         /\ Add(sum, sent).number = sum.number + 1
         /\ \A f \in Fields :
              Add(sum, sent).last[f] = IF f \in DOMAIN sent THEN sent[f] ELSE sum.last[f]
  BY SentType DEF Add, Sums

LEMMA WriteType ==
  ASSUME RecordTypeOK, Exists, NEW r \in Requests, r # Deletion
  PROVE  /\ AfterWrite(r) \in Full
         /\ \A f \in Fields : AfterWrite(r)[f] # entry.value[f] =>
              f \in DOMAIN r.sent /\ AfterWrite(r)[f] = r.sent[f]
         /\ r.loaded = entry.value =>
              \A f \in Fields :
                AfterWrite(r)[f] = IF f \in DOMAIN r.sent THEN r.sent[f] ELSE entry.value[f]
<1>1. r.sent \in Sent
  BY DEF Requests
<1>2. entry \in Record /\ entry.value \in Full
  BY DEF RecordTypeOK, Exists, Record, Absent, Deleted, Kinds
<1> QED  BY <1>1, <1>2, SentType DEF AfterWrite, Full

\* A busy thread that does not delete works on a request of some kind.
LEMMA DeskType ==
  ASSUME RecordTypeOK, NEW d \in Desks, desk[d].at \in {"insert", "update", "pair", "log"}
  PROVE  /\ desk[d] \in Requests /\ desk[d] # Deletion /\ desk[d] # Free
         /\ desk[d].kind \in Kinds /\ desk[d].sent \in Sent
         /\ desk[d].loaded \in Full \cup {Unread}
  BY DEF RecordTypeOK, Requests, Deletion, Free

\* Going on keeps the request and moves its thread alone.
LEMMA GoesOnType ==
  ASSUME RecordTypeOK, NEW d \in Desks, desk[d].at \in {"insert", "update", "pair", "log"},
         NEW at \in {"pair", "log", "end"}, GoesOn(d, at)
  PROVE  /\ desk' \in [Desks -> Requests \cup {Free}]
         /\ \A e \in Desks \ {d} : desk'[e] = desk[e]
         /\ at = "end" => desk'[d] = Free
         /\ at # "end" => /\ desk'[d].at = at /\ desk'[d].kind = desk[d].kind
                          /\ desk'[d].sent = desk[d].sent
<1>1. desk[d] \in [at : {"insert", "update", "pair", "log"}, kind : Kinds, sent : Sent,
                   loaded : Full \cup {Unread}]
  BY DEF RecordTypeOK, Requests, Deletion, Free
<1>2. CASE at = "end"
  BY <1>2 DEF GoesOn, Finish, RecordTypeOK
<1>3. CASE at # "end"
  <2>1. desk' = [desk EXCEPT ![d].at = at]
    BY <1>3 DEF GoesOn
  <2>2. [desk[d] EXCEPT !.at = at] \in Requests
    BY <1>1, <1>3 DEF Requests
  <2> QED  BY <1>1, <1>3, <2>1, <2>2 DEF RecordTypeOK
<1> QED  BY <1>2, <1>3

LEMMA TypeStep == RecordTypeOK /\ RowIsThere /\ SentIsChecked /\ [RecordNext]_recordVars => RecordTypeOK'
<1> SUFFICES ASSUME RecordTypeOK, RowIsThere, SentIsChecked, [RecordNext]_recordVars
             PROVE  RecordTypeOK'
  OBVIOUS
<1>1. ASSUME NEW d \in Desks, NEW request \in Requests, Arrive(d, request),
             UNCHANGED <<entry, audit, failures, written, untold>>, lopsided' \in BOOLEAN
      PROVE  RecordTypeOK'
  BY <1>1, RecordConstants DEF Arrive, RecordTypeOK
<1>2. ASSUME NEW d \in Desks, NEW kind \in Kinds, BeginCreate(d, kind)
      PROVE  RecordTypeOK'
  <2>1. PICK sent \in Drafts :
          Arrive(d, [at |-> "insert", kind |-> kind, sent |-> sent, loaded |-> Unread])
    BY <1>2 DEF BeginCreate
  <2>2. [at |-> "insert", kind |-> kind, sent |-> sent, loaded |-> Unread] \in Requests
    BY SentType DEF Requests
  <2> QED  BY <1>1, <1>2, <2>1, <2>2 DEF BeginCreate, RecordTypeOK
<1>3. ASSUME NEW d \in Desks, NEW kind \in Kinds, NEW domains, BeginUpdate(d, kind, domains)
      PROVE  RecordTypeOK'
  <2>1. PICK sent \in Sent :
          /\ Arrive(d, [at |-> "update", kind |-> kind, sent |-> sent, loaded |-> entry.value])
          /\ entry.kind = kind /\ lopsided' = (lopsided \/ Lopsided(kind, sent))
    BY <1>3 DEF BeginUpdate
  <2>2. entry.value \in Full
    BY <2>1 DEF RecordTypeOK, Record, Absent, Deleted, Kinds
  <2>3. [at |-> "update", kind |-> kind, sent |-> sent, loaded |-> entry.value] \in Requests
    BY <2>2 DEF Requests
  <2>4. lopsided' \in BOOLEAN
    BY <2>1, Zenon DEF RecordTypeOK, Lopsided
  <2> QED  BY <1>1, <1>3, <2>1, <2>3, <2>4 DEF BeginUpdate
<1>4. ASSUME NEW d \in Desks, BeginDelete(d)
      PROVE  RecordTypeOK'
  BY <1>1, <1>4 DEF BeginDelete, RecordTypeOK, Requests
<1>5. ASSUME NEW d \in Desks, InsertRow(d)
      PROVE  RecordTypeOK'
  <2>0. desk[d].kind \in Kinds /\ desk[d].sent \in Full /\ desk[d].sent \in Sent
    BY <1>5, DeskType, SentType DEF InsertRow, SentIsChecked
  <2>1. entry' \in Record \cup {Absent, Deleted} /\ written' \in Sums
    <3>1. CASE entry = Absent
      <4>1. entry' = [kind |-> desk[d].kind, value |-> desk[d].sent, paired |-> FALSE]
            /\ written' = Add(written, desk[d].sent)
        BY <1>5, <3>1 DEF InsertRow
      <4>2. entry' \in Record
        BY <2>0, <4>1 DEF Record
      <4>3. written' \in Sums
        BY <2>0, <4>1, AddType DEF RecordTypeOK, Sums
      <4> QED  BY <4>2, <4>3
    <3>2. CASE entry # Absent
      BY <1>5, <3>2 DEF InsertRow, RecordTypeOK, Sums
    <3> QED  BY <3>1, <3>2
  <2>2. desk' \in [Desks -> Requests \cup {Free}]
    BY <1>5, GoesOnType DEF InsertRow, AfterInsert, GoesOn
  <2> QED  BY <1>5, <2>1, <2>2 DEF InsertRow, RecordTypeOK, Sums
<1>6. ASSUME NEW d \in Desks, UpdateRow(d)
      PROVE  RecordTypeOK'
  <2>1. desk[d] \in Requests /\ desk[d] # Deletion /\ desk[d].sent \in Sent
    BY <1>6, DeskType DEF UpdateRow
  <2>2. CASE entry = Deleted
    BY <1>6, <2>2 DEF UpdateRow, Finish, RecordTypeOK
  <2>3. CASE entry # Deleted
    <3>1. Exists /\ entry \in Record
      BY <1>6, <2>3 DEF UpdateRow, RowIsThere, RecordTypeOK, Record, Exists
    <3>2. entry' \in Record
      BY <1>6, <2>1, <2>3, <3>1, WriteType DEF UpdateRow, Record
    <3>3. written' \in Sums
      BY <1>6, <2>1, <2>3, AddType DEF UpdateRow, RecordTypeOK, Sums
    <3>4. desk' \in [Desks -> Requests \cup {Free}]
      BY <1>6, <2>3, GoesOnType DEF UpdateRow, AfterUpdate
    <3>5. untold' \in Nat
      BY <1>6, <2>3 DEF UpdateRow, RecordTypeOK
    <3> QED  BY <1>6, <2>3, <3>2, <3>3, <3>4, <3>5 DEF UpdateRow, RecordTypeOK, Sums
  <2> QED  BY <2>2, <2>3
<1>7. ASSUME NEW d \in Desks, LogAction(d)
      PROVE  RecordTypeOK'
  <2>1. audit' \in Sums
    BY <1>7, DeskType, AddType DEF LogAction, RecordTypeOK, Sums
  <2> QED  BY <1>7, <2>1 DEF LogAction, Finish, RecordTypeOK, Sums
<1>8. ASSUME NEW d \in Desks, CreatePair(d)
      PROVE  RecordTypeOK'
  <2>1. entry \in Record
    BY <1>8 DEF CreatePair, RowIsThere, RecordTypeOK, Absent, Deleted, Paired
  <2>2. entry' \in Record
    BY <1>8, <2>1 DEF CreatePair, Record
  <2>3. desk' \in [Desks -> Requests \cup {Free}]
    BY <1>8, GoesOnType DEF CreatePair, AfterPair
  <2> QED  BY <1>8, <2>2, <2>3 DEF CreatePair, RecordTypeOK
<1>9. ASSUME NEW d \in Desks, DeleteRow(d) \/ CutRequest(d) \/ LogFails(d)
      PROVE  RecordTypeOK'
  BY <1>9, RecordConstants DEF DeleteRow, CutRequest, LogFails, Finish, RecordTypeOK
<1>10. CASE UNCHANGED recordVars
  BY <1>10 DEF recordVars, RecordTypeOK
<1> QED
  BY <1>2, <1>3, <1>4, <1>5, <1>6, <1>7, <1>8, <1>9, <1>10, NextIsStep DEF Step

-----------------------------------------------------------------------------
(***************************************************************************)
(* The inductive invariant.                                                *)
(***************************************************************************)
LEMMA RecordInitially == RecordInit => RecordInv
<1> SUFFICES ASSUME RecordInit PROVE RecordInv
  OBVIOUS
<1>1. Nothing \in Sums
  BY DEF Nothing, Sums
<1>2. RecordTypeOK
  <2>1. desk \in [Desks -> Requests \cup {Free}] /\ entry = Absent
    BY DEF RecordInit
  <2>2. {audit, written} \subseteq Sums
    BY <1>1 DEF RecordInit
  <2>3. contended \in BOOLEAN /\ lopsided \in BOOLEAN
    BY DEF RecordInit
  <2> QED  BY <2>1, <2>2, <2>3, RecordConstants DEF RecordInit, RecordTypeOK, Sums
<1>3. \A d \in Desks : desk[d] = Free /\ desk[d].at = "free"
  BY DEF RecordInit, Free
<1>4. ~ Exists
  BY DEF RecordInit, Exists, Absent, Kinds
<1>5. AloneWithRow /\ RowIsThere /\ SentIsChecked
  BY <1>3 DEF AloneWithRow, RowIsThere, SentIsChecked, Busy
<1>6. AbsentIsUntold /\ RowIsWritten /\ LogTells
  BY <1>4 DEF AbsentIsUntold, RowIsWritten, LogTells, RecordInit
<1> QED  BY <1>2, <1>5, <1>6 DEF RecordInv

\* What it takes for a request to arrive, whichever handler gets it.
LEMMA ArriveFacts ==
  ASSUME RecordTypeOK, NEW d \in Desks, NEW request \in Requests, Arrive(d, request)
  PROVE  /\ desk[d] = Free /\ desk'[d] = request /\ request # Free
         /\ \A e \in Desks \ {d} : desk'[e] = desk[e]
         /\ ~ contended' => ~ contended /\ \A e \in Desks : desk[e] = Free
<1>1. desk[d] = Free /\ desk'[d] = request /\ \A e \in Desks \ {d} : desk'[e] = desk[e]
  BY DEF Arrive, RecordTypeOK
<1>2. request # Free
  BY DEF Requests, Deletion, Free
<1>3. ~ contended' => ~ contended /\ \A e \in Desks : desk[e] = Free
  BY Zenon DEF Arrive
<1> QED  BY <1>1, <1>2, <1>3

\* An arrival leaves the row alone: only the arriving request is to be looked at.
LEMMA ArriveStep ==
  ASSUME RecordInv, NEW d \in Desks, NEW request \in Requests, Arrive(d, request),
         UNCHANGED <<entry, audit, failures, written, untold>>,
         lopsided => lopsided',
         request.at \in {"insert", "update", "delete"},
         request.at = "insert" => entry = Absent /\ request.sent \in Drafts,
         request.at = "update" => /\ Exists /\ request.kind = entry.kind
                                  /\ request.loaded = entry.value
                                  /\ request.kind # "escalation",
         request.at = "delete" => entry.kind = "item",
         request.at \in {"insert", "update"} /\ request.kind = "handover" =>
           ShiftInOrder(request.sent) /\ (lopsided' \/ DOMAIN request.sent = Fields)
  PROVE  RowIsThere' /\ AloneWithRow' /\ AbsentIsUntold' /\ SentIsChecked'
         /\ RowIsWritten' /\ LogTells'
<1> USE DEF RecordInv
<1>1. /\ desk[d] = Free /\ desk'[d] = request /\ request # Free
      /\ \A e \in Desks \ {d} : desk'[e] = desk[e]
      /\ ~ contended' => ~ contended /\ \A e \in Desks : desk[e] = Free
  BY ArriveFacts
<1>2. Exists' = Exists /\ (Exists => entry # Absent)
  BY DEF Exists, Absent, Kinds
<1>3. RowIsThere'
  BY <1>1, <1>2 DEF RowIsThere
<1>4. AloneWithRow'
  BY <1>1, <1>2 DEF AloneWithRow, Busy, Free
<1>5. AbsentIsUntold' /\ RowIsWritten'
  BY <1>1, <1>2 DEF AbsentIsUntold, RowIsWritten
<1>6. SentIsChecked'
  BY <1>1 DEF SentIsChecked
<1>7. LogTells'
  <2>1. SUFFICES ASSUME ~ contended'
                 PROVE  LogTells'
    BY DEF LogTells
  <2>2. \A e \in Desks : desk[e].at \notin {"log", "pair"} /\ desk'[e].at # "log"
    BY <1>1, <2>1 DEF Free
  <2>3. ~ Logging /\ ~ Loggable /\ ~ Logging' /\ ~ Loggable'
    BY <2>2 DEF Logging, Loggable
  <2> QED  BY <1>1, <1>2, <2>1, <2>2, <2>3 DEF LogTells
<1> QED  BY <1>3, <1>4, <1>5, <1>6, <1>7

LEMMA CreateStep ==
  ASSUME RecordInv, NEW d \in Desks, NEW kind \in Kinds, BeginCreate(d, kind)
  PROVE  RowIsThere' /\ AloneWithRow' /\ AbsentIsUntold' /\ SentIsChecked'
         /\ RowIsWritten' /\ LogTells'
<1>1. PICK sent \in Drafts :
        /\ entry = Absent
        /\ kind = "handover" => ShiftInOrder(sent)
        /\ Arrive(d, [at |-> "insert", kind |-> kind, sent |-> sent, loaded |-> Unread])
        /\ UNCHANGED <<entry, audit, failures, written, untold, lopsided>>
  BY DEF BeginCreate
<1> DEFINE request == [at |-> "insert", kind |-> kind, sent |-> sent, loaded |-> Unread]
<1>2. request \in Requests
  BY SentType DEF Requests
<1>3. DOMAIN sent = Fields
  BY SentType DEF Full
<1> QED  BY <1>1, <1>2, <1>3, ArriveStep

LEMMA UpdateStep ==
  ASSUME RecordInv, NEW d \in Desks, NEW kind \in Kinds \ {"escalation"}, NEW domains,
         BeginUpdate(d, kind, domains)
  PROVE  RowIsThere' /\ AloneWithRow' /\ AbsentIsUntold' /\ SentIsChecked'
         /\ RowIsWritten' /\ LogTells'
<1>1. PICK sent \in Sent :
        /\ entry.kind = kind
        /\ kind = "handover" => ShiftInOrder(sent)
        /\ Arrive(d, [at |-> "update", kind |-> kind, sent |-> sent, loaded |-> entry.value])
        /\ lopsided' = (lopsided \/ Lopsided(kind, sent))
        /\ UNCHANGED <<entry, audit, failures, written, untold>>
  BY DEF BeginUpdate
<1> DEFINE request == [at |-> "update", kind |-> kind, sent |-> sent, loaded |-> entry.value]
<1>2. Exists /\ entry \in Record
  BY <1>1 DEF Exists, RecordInv, RecordTypeOK, Absent, Deleted, Kinds
<1>3. request \in Requests
  BY <1>2 DEF Requests, Record
<1>4. /\ lopsided => lopsided'
      /\ kind = "handover" => lopsided' \/ DOMAIN sent = Fields
  BY <1>1, Zenon DEF Lopsided
<1> QED  BY <1>1, <1>2, <1>3, <1>4, ArriveStep

LEMMA InsertRowStep ==
  ASSUME RecordInv, NEW d \in Desks, InsertRow(d)
  PROVE  RowIsThere' /\ AloneWithRow' /\ AbsentIsUntold' /\ SentIsChecked'
         /\ RowIsWritten' /\ LogTells'
<1> DEFINE r == desk[d]
<1> USE DEF RecordInv
<1>1. /\ r.at = "insert" /\ r \in Requests /\ r.kind \in Kinds /\ r.sent \in Full
      /\ r.sent \in Sent /\ r # Free
  BY DeskType, SentType DEF InsertRow, SentIsChecked
<1>2. CASE entry # Absent
  <2>1. contended
    BY <1>1, <1>2 DEF AloneWithRow
  <2>2. desk'[d] = Free /\ \A e \in Desks \ {d} : desk'[e] = desk[e]
    BY <1>2 DEF InsertRow, Finish, RecordTypeOK
  <2>3. UNCHANGED <<entry, written, untold, audit, contended, lopsided, failures>>
    BY <1>2 DEF InsertRow
  <2>4. RowIsThere' /\ SentIsChecked'
    BY <2>2, <2>3 DEF RowIsThere, SentIsChecked, Free
  <2> QED
    BY <1>2, <2>1, <2>3, <2>4 DEF AloneWithRow, AbsentIsUntold, RowIsWritten, LogTells
<1>3. CASE entry = Absent
  <2>1. /\ entry' = [kind |-> r.kind, value |-> r.sent, paired |-> FALSE]
        /\ written' = Add(written, r.sent) /\ GoesOn(d, AfterInsert(r.kind))
        /\ UNCHANGED <<audit, untold, contended, lopsided, failures>>
    BY <1>3 DEF InsertRow
  <2>2. AfterInsert(r.kind) \in {"pair", "log", "end"}
    BY DEF AfterInsert
  <2>3. /\ \A e \in Desks \ {d} : desk'[e] = desk[e]
        /\ AfterInsert(r.kind) = "end" => desk'[d] = Free
        /\ AfterInsert(r.kind) # "end" => /\ desk'[d].at = AfterInsert(r.kind)
                                          /\ desk'[d].kind = r.kind /\ desk'[d].sent = r.sent
    BY <1>1, <2>1, <2>2, GoesOnType
  <2>4. \A e \in Desks : desk[e].at \notin {"update", "log", "pair", "delete"}
    BY <1>3 DEF RowIsThere, Absent, Paired
  <2>5. Exists' /\ entry' # Absent /\ entry'.kind = r.kind /\ entry'.value = r.sent
    BY <1>1, <2>1 DEF Exists, Absent, Kinds
  <2>6. audit = Nothing /\ written = Nothing /\ untold = 0 /\ Nothing \in Sums
    BY <1>3 DEF AbsentIsUntold, Nothing, Sums
  <2>7. /\ written'.last = r.sent /\ written'.number = 1
        /\ written' = Add(audit, r.sent) /\ audit.number = 0 /\ untold = 0
    <3>1. \A f \in Fields : written'.last[f] = r.sent[f]
      BY <1>1, <2>1, <2>6, AddType, SentType DEF Full
    <3>2. written' \in Sums
      BY <1>1, <2>1, <2>6, AddType
    <3> QED  BY <1>1, <2>1, <2>6, <3>1, <3>2, AddType DEF Sums, Full, Nothing
  <2>8. RowIsThere'
    BY <2>3, <2>4, <2>5 DEF RowIsThere, AfterInsert, Free
  <2>9. AloneWithRow'
    <3>1. ~ contended => \A e \in Desks \ {d} : desk[e] = Free
      BY <1>1 DEF AloneWithRow, Busy
    <3>2. r.at = "insert" /\ AfterInsert(r.kind) # "insert" /\ AfterInsert(r.kind) # "update"
      BY <1>1 DEF AfterInsert
    <3> QED  BY <2>1, <2>2, <2>3, <2>5, <3>1, <3>2 DEF AloneWithRow, Busy, Free
  <2>10. SentIsChecked' /\ AbsentIsUntold'
    BY <2>1, <2>2, <2>3, <2>5 DEF SentIsChecked, AbsentIsUntold, Free
  <2>11. RowIsWritten'
    BY <1>1, <2>1, <2>5, <2>7 DEF RowIsWritten, SentIsChecked, ShiftInOrder, Full
  <2>12. LogTells'
    <3>1. Logging' <=> r.kind \in CreatesLogged
      BY <2>2, <2>3, <2>4 DEF Logging, AfterInsert, Free, Paired
    <3>2. \A e \in Desks : desk'[e].at = "log" => e = d /\ desk'[e].sent = r.sent
      BY <2>2, <2>3, <2>4 DEF Free
    <3>3. r.kind \in Paired => desk'[d].at = "pair"
      BY <2>3 DEF AfterInsert, CreatesLogged, Paired
    <3>4. r.kind = "workplan" => ~ Loggable'
      BY <3>1 DEF CreatesLogged, Logging, Loggable
    <3> QED  BY <2>1, <2>5, <2>7, <3>1, <3>2, <3>3, <3>4 DEF LogTells
  <2> QED  BY <2>8, <2>9, <2>10, <2>11, <2>12
<1> QED  BY <1>2, <1>3

LEMMA WriteStep ==
  ASSUME RecordInv, NEW d \in Desks, UpdateRow(d)
  PROVE  RowIsThere' /\ AloneWithRow' /\ AbsentIsUntold' /\ SentIsChecked'
         /\ RowIsWritten' /\ LogTells'
<1> DEFINE r == desk[d]
<1> USE DEF RecordInv
<1>1. /\ r.at = "update" /\ r \in Requests /\ r # Deletion /\ r # Free
      /\ r.kind \in Kinds \ {"escalation"} /\ r.sent \in Sent
  BY DeskType DEF UpdateRow, SentIsChecked
<1>2. CASE entry = Deleted
  <2>1. contended
    BY <1>1, <1>2 DEF AloneWithRow, Exists, Deleted, Kinds
  <2>2. desk'[d] = Free /\ \A e \in Desks \ {d} : desk'[e] = desk[e]
    BY <1>2 DEF UpdateRow, Finish, RecordTypeOK
  <2>3. UNCHANGED <<entry, written, untold, audit, contended, lopsided, failures>>
    BY <1>2 DEF UpdateRow
  <2>4. RowIsThere' /\ SentIsChecked'
    BY <2>2, <2>3 DEF RowIsThere, SentIsChecked, Free
  <2> QED
    BY <2>1, <2>3, <2>4 DEF AloneWithRow, AbsentIsUntold, RowIsWritten, LogTells
<1>3. CASE entry # Deleted
  <2>1. /\ entry' = [entry EXCEPT !.value = AfterWrite(r)]
        /\ written' = Add(written, r.sent) /\ GoesOn(d, AfterUpdate(r.kind))
        /\ UNCHANGED <<audit, contended, lopsided, failures>>
    BY <1>3 DEF UpdateRow
  <2>2. AfterUpdate(r.kind) \in {"log", "end"}
    BY DEF AfterUpdate
  <2>3. /\ \A e \in Desks \ {d} : desk'[e] = desk[e]
        /\ AfterUpdate(r.kind) = "end" => desk'[d] = Free
        /\ AfterUpdate(r.kind) # "end" => /\ desk'[d].at = "log"
                                          /\ desk'[d].kind = r.kind /\ desk'[d].sent = r.sent
    BY <1>1, <2>1, <2>2, GoesOnType
  <2>4. Exists /\ entry \in Record
    BY <1>1, <1>3 DEF RowIsThere, RecordTypeOK, Record, Exists
  <2>5. /\ Exists' /\ entry' # Absent /\ entry'.kind = entry.kind
        /\ entry'.value = AfterWrite(r) /\ entry'.paired = entry.paired
    BY <1>1, <2>1, <2>4, WriteType DEF Exists, Record, Absent, Kinds
  <2>6. written \in Sums /\ audit \in Sums
    BY DEF RecordTypeOK, Sums
  <2>7. RowIsThere'
    BY <2>2, <2>3, <2>5 DEF RowIsThere, Free
  <2>8. AbsentIsUntold' /\ SentIsChecked'
    BY <2>1, <2>2, <2>3, <2>5 DEF SentIsChecked, AbsentIsUntold, Free
  <2>9. ~ contended => /\ r.kind = entry.kind /\ r.loaded = entry.value
                       /\ \A e \in Desks \ {d} : desk[e] = Free
    BY <1>1 DEF AloneWithRow, Busy
  <2>10. AloneWithRow'
    BY <2>1, <2>2, <2>3, <2>5, <2>9 DEF AloneWithRow, Busy, Free
  <2>11. RowIsWritten'
    <3>1. SUFFICES ASSUME ~ contended
                   PROVE  /\ AfterWrite(r) = written'.last
                          /\ entry.kind = "handover" /\ ~ lopsided =>
                               AfterWrite(r)["first"] < AfterWrite(r)["second"]
      BY <2>1, <2>5 DEF RowIsWritten
    <3>2. entry.value = written.last
      BY <2>4, <3>1 DEF RowIsWritten
    <3>3. \A f \in Fields : AfterWrite(r)[f] = IF f \in DOMAIN r.sent THEN r.sent[f] ELSE entry.value[f]
      BY <1>1, <2>4, <2>9, <3>1, WriteType
    <3>4. AfterWrite(r) = written'.last
      <4>1. \A f \in Fields : written'.last[f] = AfterWrite(r)[f]
        BY <1>1, <2>1, <2>6, <3>2, <3>3, AddType
      <4>2. written'.last \in [Fields -> Values \cup {0}]
        BY <1>1, <2>1, <2>6, AddType DEF Sums
      <4>3. AfterWrite(r) \in Full
        BY <1>1, <2>4, WriteType
      <4> QED  BY <4>1, <4>2, <4>3 DEF Full
    <3>5. ASSUME entry.kind = "handover", ~ lopsided
          PROVE  AfterWrite(r)["first"] < AfterWrite(r)["second"]
      <4>1. ShiftInOrder(r.sent) /\ DOMAIN r.sent = Fields
        BY <1>1, <2>9, <3>1, <3>5 DEF SentIsChecked
      <4> QED  BY <3>3, <4>1 DEF ShiftInOrder, Fields
    <3> QED  BY <3>4, <3>5
  <2>12. LogTells'
    <3>1. SUFFICES ASSUME ~ contended, failures = 0
                   PROVE  LogTells'
      BY <2>1 DEF LogTells
    <3>2. ~ Logging
      BY <1>1, <2>9, <3>1 DEF Logging, Free
    <3>3. Logging' <=> entry.kind \in UpdatesLogged
      BY <2>2, <2>3, <2>9, <3>1 DEF Logging, AfterUpdate, Free
    <3>4. \A e \in Desks : desk'[e].at = "log" => e = d /\ desk'[e].sent = r.sent
      BY <2>2, <2>3, <2>9, <3>1 DEF Free
    <3>5. entry.kind \in CreatesLogged =>
            entry.kind \in UpdatesLogged /\ Add(audit, r.sent) = written'
      BY <1>1, <2>1, <2>4, <2>9, <3>1, <3>2 DEF LogTells, CreatesLogged, UpdatesLogged
    <3>6. ASSUME entry.kind = "workplan"
          PROVE  audit'.number + untold' = written'.number - (IF Loggable' THEN 2 ELSE 1)
      <4>1. audit.number + untold = written.number - 1
        BY <2>4, <3>1, <3>2, <3>6 DEF LogTells, Logging, Loggable
      <4>2. written'.number = written.number + 1 /\ audit' = audit
        BY <1>1, <2>1, <2>6, AddType
      <4>3. untold' = IF NotJson(r) THEN untold + 1 ELSE untold
        BY <1>3 DEF UpdateRow
      <4>4. desk'[d].at = "log" /\ desk'[d].kind = r.kind /\ desk'[d].sent = r.sent
        BY <2>3, <2>9, <3>1, <3>6 DEF AfterUpdate, UpdatesLogged
      <4>5. Loggable' <=> ~ NotJson(r)
        BY <3>4, <4>4 DEF Loggable, NotJson
      <4>6. audit.number \in Nat /\ written.number \in Nat /\ untold \in Nat
        BY <2>6 DEF Sums, RecordTypeOK
      <4> QED  BY <4>1, <4>2, <4>3, <4>5, <4>6
    <3>7. entry.kind \in Paired => entry.paired
      BY <1>1, <2>4, <2>9, <3>1 DEF LogTells, Free
    <3> QED  BY <2>1, <2>5, <3>3, <3>4, <3>5, <3>6, <3>7 DEF LogTells
  <2> QED  BY <2>7, <2>8, <2>10, <2>11, <2>12
<1> QED  BY <1>2, <1>3

LEMMA LogStep ==
  ASSUME RecordInv, NEW d \in Desks, LogAction(d)
  PROVE  RowIsThere' /\ AloneWithRow' /\ AbsentIsUntold' /\ SentIsChecked'
         /\ RowIsWritten' /\ LogTells'
<1> DEFINE r == desk[d]
<1> USE DEF RecordInv
<1>1. r.at = "log" /\ r.sent \in Sent /\ r # Free /\ entry # Absent
  BY DeskType DEF LogAction, RowIsThere
<1>2. /\ desk'[d] = Free /\ \A e \in Desks \ {d} : desk'[e] = desk[e]
      /\ audit' = Add(audit, r.sent)
      /\ UNCHANGED <<entry, written, untold, contended, lopsided, failures>>
  BY DEF LogAction, Finish, RecordTypeOK
<1>3. RowIsThere' /\ SentIsChecked' /\ AbsentIsUntold' /\ RowIsWritten'
  BY <1>1, <1>2 DEF RowIsThere, SentIsChecked, AbsentIsUntold, RowIsWritten, Exists, Free
<1>4. AloneWithRow'
  BY <1>2 DEF AloneWithRow, Busy, Exists, Free
<1>5. LogTells'
  <2>1. SUFFICES ASSUME ~ contended, Exists, failures = 0
                 PROVE  LogTells'
    BY <1>2 DEF LogTells, Exists
  <2>2. Logging /\ Loggable /\ ~ Logging' /\ ~ Loggable'
    <3>1. \A e \in Desks : desk'[e].at # "log"
      BY <1>1, <1>2, <2>1 DEF AloneWithRow, Busy, Free
    <3>2. ~ NotJson(r)
      BY DEF LogAction
    <3> QED  BY <1>1, <3>1, <3>2 DEF Logging, Loggable
  <2>3. audit'.number = audit.number + 1 /\ audit \in Sums /\ written \in Sums /\ untold \in Nat
    BY <1>1, <1>2, AddType DEF RecordTypeOK, Sums
  <2>4. entry.kind \in Paired => entry.paired
    BY <1>1, <2>1 DEF LogTells, AloneWithRow, Busy, Free
  <2>5. entry.kind = "workplan" => audit'.number + untold = written.number - 1
    BY <2>1, <2>2, <2>3 DEF LogTells, Sums
  <2> QED  BY <1>1, <1>2, <2>1, <2>2, <2>4, <2>5 DEF LogTells
<1> QED  BY <1>3, <1>4, <1>5

\* A line that cannot be written is one the log cannot tell of.
LEMMA LogFailsStep ==
  ASSUME RecordInv, NEW d \in Desks, LogFails(d)
  PROVE  RowIsThere' /\ AloneWithRow' /\ AbsentIsUntold' /\ SentIsChecked'
         /\ RowIsWritten' /\ LogTells'
<1> USE DEF RecordInv
<1>1. desk[d].at = "log" /\ NotJson(desk[d]) /\ entry # Absent
  BY DEF LogFails, RowIsThere
<1>2. /\ desk'[d] = Free /\ \A e \in Desks \ {d} : desk'[e] = desk[e]
      /\ UNCHANGED <<entry, audit, written, untold, contended, lopsided, failures>>
  BY DEF LogFails, Finish, RecordTypeOK
<1>3. RowIsThere' /\ SentIsChecked' /\ AbsentIsUntold' /\ RowIsWritten'
  BY <1>1, <1>2 DEF RowIsThere, SentIsChecked, AbsentIsUntold, RowIsWritten, Exists, Free
<1>4. AloneWithRow'
  BY <1>2 DEF AloneWithRow, Busy, Exists, Free
<1>5. LogTells'
  <2>1. SUFFICES ASSUME ~ contended, Exists, failures = 0
                 PROVE  LogTells'
    BY <1>2 DEF LogTells, Exists
  <2>2. entry.kind = "workplan" /\ \A e \in Desks : Busy(e) => e = d
    BY <1>1, <2>1 DEF AloneWithRow, Busy, NotJson, Free
  <2>3. ~ Loggable /\ ~ Loggable'
    BY <1>1, <1>2, <2>2 DEF Loggable, Busy, Free
  <2>4. entry.kind \notin CreatesLogged \cup Paired
    BY <2>2 DEF CreatesLogged, Paired
  <2> QED  BY <1>2, <2>1, <2>2, <2>3, <2>4 DEF LogTells
<1> QED  BY <1>3, <1>4, <1>5

LEMMA PairStep ==
  ASSUME RecordInv, NEW d \in Desks, CreatePair(d)
  PROVE  RowIsThere' /\ AloneWithRow' /\ AbsentIsUntold' /\ SentIsChecked'
         /\ RowIsWritten' /\ LogTells'
<1> DEFINE r == desk[d]
<1> USE DEF RecordInv
<1>1. r.at = "pair" /\ r # Free /\ entry.kind \in Paired
  BY DeskType DEF CreatePair, RowIsThere
<1>2. Exists /\ entry \in Record /\ entry # Absent
  BY <1>1 DEF Exists, Paired, RecordTypeOK, Record, Absent, Deleted, Kinds
<1>3. /\ entry' = [entry EXCEPT !.paired = TRUE]
      /\ UNCHANGED <<audit, written, untold, contended, lopsided, failures>>
  BY DEF CreatePair
<1>4. /\ Exists' /\ entry' # Absent /\ entry'.kind = entry.kind
      /\ entry'.value = entry.value /\ entry'.paired
  BY <1>2, <1>3 DEF Exists, Record, Absent, Kinds
<1>5. /\ \A e \in Desks \ {d} : desk'[e] = desk[e]
      /\ \/ desk'[d] = Free
         \/ desk'[d].at = "log" /\ desk'[d].kind = r.kind
  BY <1>1, GoesOnType DEF CreatePair, AfterPair
<1>6. RowIsThere' /\ AbsentIsUntold' /\ RowIsWritten'
  BY <1>2, <1>3, <1>4, <1>5 DEF RowIsThere, AbsentIsUntold, RowIsWritten, Free
<1>7. SentIsChecked'
  BY <1>3, <1>5 DEF SentIsChecked, Free
<1>8. AloneWithRow'
  BY <1>1, <1>3, <1>4, <1>5 DEF AloneWithRow, Busy, Free
<1>9. LogTells'
  BY <1>1, <1>3, <1>4 DEF LogTells, Paired, CreatesLogged
<1> QED  BY <1>6, <1>7, <1>8, <1>9

LEMMA EndStep ==
  ASSUME RecordInv, NEW d \in Desks, DeleteRow(d) \/ CutRequest(d)
  PROVE  RowIsThere' /\ AloneWithRow' /\ AbsentIsUntold' /\ SentIsChecked'
         /\ RowIsWritten' /\ LogTells'
<1> USE DEF RecordInv
<1>1. /\ desk'[d] = Free /\ \A e \in Desks \ {d} : desk'[e] = desk[e]
      /\ UNCHANGED <<audit, written, untold, contended, lopsided>>
  BY DEF DeleteRow, CutRequest, Finish, RecordTypeOK
<1>2. CASE CutRequest(d)
  <2>1. entry' = entry /\ failures' # 0
    BY <1>2, RecordConstants DEF CutRequest, RecordTypeOK
  <2> QED
    BY <1>1, <2>1 DEF RowIsThere, AloneWithRow, Busy, AbsentIsUntold, SentIsChecked,
                      RowIsWritten, LogTells, Exists, Free
<1>3. CASE DeleteRow(d)
  <2>1. /\ entry' = Deleted /\ ~ Exists' /\ entry' # Absent
        /\ entry.kind \in {"item", "deleted"} /\ desk[d] # Free
    BY <1>3 DEF DeleteRow, RowIsThere, Exists, Deleted, Absent, Kinds, Free
  <2>2. RowIsThere'
    BY <1>1, <2>1 DEF RowIsThere, Deleted, Paired, Free
  <2>3. AloneWithRow'
    BY <1>1, <2>1 DEF AloneWithRow, Busy, Free
  <2>4. AbsentIsUntold' /\ SentIsChecked' /\ RowIsWritten' /\ LogTells'
    BY <1>1, <2>1 DEF AbsentIsUntold, SentIsChecked, RowIsWritten, LogTells, Free
  <2> QED  BY <2>2, <2>3, <2>4
<1> QED  BY <1>2, <1>3

\* Every step keeps every conjunct.
LEMMA RecordStep == RecordInv /\ [RecordNext]_recordVars => RecordInv'
<1> SUFFICES ASSUME RecordInv, [RecordNext]_recordVars PROVE RecordInv'
  OBVIOUS
<1>1. RecordTypeOK'
  BY TypeStep DEF RecordInv
<1>2. ASSUME NEW d \in Desks, BeginDelete(d)
      PROVE  RowIsThere' /\ AloneWithRow' /\ AbsentIsUntold' /\ SentIsChecked'
             /\ RowIsWritten' /\ LogTells'
  BY <1>2, ArriveStep DEF BeginDelete, Requests, Deletion
<1>3. CASE UNCHANGED recordVars
  BY <1>1, <1>3 DEF recordVars, RecordInv, RowIsThere, AloneWithRow, Busy, AbsentIsUntold,
                    SentIsChecked, RowIsWritten, LogTells, Logging, Loggable, Exists
<1>4. ASSUME NEW d \in Desks, Step(d)
      PROVE  RowIsThere' /\ AloneWithRow' /\ AbsentIsUntold' /\ SentIsChecked'
             /\ RowIsWritten' /\ LogTells'
  BY <1>2, <1>4, CreateStep, UpdateStep, InsertRowStep, WriteStep, LogStep, LogFailsStep,
     PairStep, EndStep
  DEF Step
<1> QED  BY <1>1, <1>3, <1>4, NextIsStep DEF RecordInv

LEMMA RecordInvariant == RecordSpec => []RecordInv
<1>1. RecordInit => RecordInv
  BY RecordInitially
<1>2. RecordInv /\ [RecordNext]_recordVars => RecordInv'
  BY RecordStep
<1> QED  BY <1>1, <1>2, PTL DEF RecordSpec

-----------------------------------------------------------------------------
(***************************************************************************)
(* The theorems.                                                           *)
(***************************************************************************)
\* The invariant says how a record is left.
LEMMA RecordsCohere == RecordInv => UncontendedIsCoherent
<1> SUFFICES ASSUME RecordInv, Exists, ~ contended, \A d \in Desks : desk[d] = Free
             PROVE  UncontendedIsCoherent
  BY DEF UncontendedIsCoherent
<1>1. ~ Logging /\ ~ Loggable /\ \A d \in Desks : desk[d].at # "pair"
  BY DEF Logging, Loggable, Free
<1> QED  BY <1>1 DEF RecordInv, RowIsWritten, LogTells, UncontendedIsCoherent

\* A record that no two requests worked on at once is what was written last,
\* its shift is in order unless an update sent one end alone, and, unless a
\* request was cut, what its log and the rows beside it tell is complete, for
\* every kind of record, but for the updates of a workplan that set when it is
\* due: these are committed and never logged.
THEOREM CoherentCorrect == RecordSpec => []UncontendedIsCoherent
  BY RecordsCohere, RecordInvariant, PTL

\* However requests interleave, a field changes only to a value that a request
\* sent for it (the update handlers of all kinds).
THEOREM KeptCorrect == RecordSpec => NothingIsTakenBack
<1>1. ASSUME RecordInv, [RecordNext]_recordVars
      PROVE  [ Exists /\ Exists' =>
                 \A f \in Fields : entry'.value[f] # entry.value[f] =>
                   \E d \in Desks : /\ desk[d] # Free /\ desk'[d] # desk[d]
                                    /\ f \in DOMAIN desk[d].sent
                                    /\ entry'.value[f] = desk[d].sent[f] ]_recordVars
  <2> SUFFICES ASSUME NEW d \in Desks, Step(d), Exists, Exists', NEW f \in Fields,
                      entry'.value[f] # entry.value[f]
               PROVE  /\ desk[d] # Free /\ desk'[d] # desk[d]
                      /\ f \in DOMAIN desk[d].sent
                      /\ entry'.value[f] = desk[d].sent[f]
    BY <1>1, NextIsStep
  <2>1. entry # Absent /\ entry' # Deleted /\ entry \in Record
    BY <1>1 DEF Exists, Absent, Deleted, Kinds, RecordInv, RecordTypeOK
  <2>2. UpdateRow(d)
    BY <2>1 DEF Step, BeginCreate, BeginUpdate, BeginDelete, InsertRow, LogAction, LogFails, CreatePair,
                DeleteRow, CutRequest, Record
  <2>3. entry # Deleted
    BY DEF Exists, Deleted, Kinds
  <2>4. /\ desk[d].at = "update" /\ desk[d] \in Requests /\ desk[d] # Deletion /\ desk[d] # Free
        /\ AfterWrite(desk[d])[f] = entry'.value[f]
    BY <1>1, <2>1, <2>2, <2>3, DeskType DEF UpdateRow, RecordInv, Record
  <2>5. f \in DOMAIN desk[d].sent /\ entry'.value[f] = desk[d].sent[f]
    BY <1>1, <2>4, WriteType DEF RecordInv
  <2>6. desk'[d] # desk[d]
    <3>1. GoesOn(d, AfterUpdate(desk[d].kind)) /\ AfterUpdate(desk[d].kind) \in {"log", "end"}
      BY <2>2, <2>3 DEF UpdateRow, AfterUpdate
    <3> QED  BY <1>1, <2>4, <3>1, GoesOnType DEF RecordInv, Free
  <2> QED  BY <2>4, <2>5, <2>6
<1> QED  BY <1>1, RecordInvariant, PTL DEF RecordSpec, NothingIsTakenBack

-----------------------------------------------------------------------------
(* The desk: Backoffice *)

\* A step of the desk is one of either side, or none of it.
LEMMA OfficeSteps ==
  [OfficeNext]_officeVars => [Next]_vars /\ [RecordNext]_recordVars
  BY DEF OfficeNext, officeVars

\* Both invariants hold of both sides.
LEMMA OfficeInvariant == OfficeSpec => [](CasesInv /\ RecordInv)
<1>1. OfficeInit => CasesInv /\ RecordInv
  BY CasesInitially, RecordInitially DEF OfficeInit
<1>2. CasesInv /\ RecordInv /\ [OfficeNext]_officeVars => (CasesInv /\ RecordInv)'
  BY OfficeSteps, CasesStep, RecordStep
<1> QED  BY <1>1, <1>2, PTL DEF OfficeSpec

\* What the analysts' desk promises holds of alerts, workplans, mails and records
\* together, whichever handlers of main.py, crud.py, the routers and the email
\* service are at work.
THEOREM DeskCorrect ==
  OfficeSpec => /\ [](DecisionsAreFollowed /\ MailedOnce /\ UncontendedIsCoherent)
                /\ NothingIsTakenBack
<1>1. CasesInv /\ RecordInv => DecisionsAreFollowed /\ MailedOnce /\ UncontendedIsCoherent
  BY CasesMail, CasesDecide, RecordsCohere
<1>2. OfficeSpec => [](DecisionsAreFollowed /\ MailedOnce /\ UncontendedIsCoherent)
  BY <1>1, OfficeInvariant, PTL
<1>3. OfficeSpec => RecordSpec
  <2>1. OfficeInit => RecordInit
    BY DEF OfficeInit
  <2> QED  BY <2>1, OfficeSteps, PTL DEF OfficeSpec, RecordSpec
<1>4. OfficeSpec => NothingIsTakenBack
  BY <1>3, KeptCorrect, PTL
<1> QED  BY <1>2, <1>4, PTL
=============================================================================
