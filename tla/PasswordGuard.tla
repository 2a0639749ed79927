---------------------------- MODULE PasswordGuard ----------------------------
(***************************************************************************)
(* Reports of compromised passwords, from one host to several backend      *)
(* processes.                                                              *)
(*                                                                         *)
(*   ingest_password_guard_event, _enforce_rate_limit                      *)
(*                   backend/app/routers/password_guard_router.py          *)
(*   create_password_guard_event, list_password_guard_alerts               *)
(*                   backend/app/crud.py                                   *)
(*                                                                         *)
(* The handler is a coroutine that awaits nothing, so a process serves one *)
(* report at a time, commit after commit; the window it limits the host by *)
(* is in its own memory.                                                   *)
(***************************************************************************)
EXTENDS Naturals, Sequences, FiniteSets

CONSTANTS
  Servers,      \* backend processes
  Window,       \* _RATE_LIMIT_WINDOW_SECONDS
  RateLimit,    \* password_guard_rate_limit_per_minute
  MaxReports,   \* bound: reports accepted
  MaxTime,      \* bound: clock
  MaxCrashes    \* bound: processes that die, or a database that refuses a commit

ASSUME GuardConstants ==
  /\ IsFiniteSet(Servers)
  /\ Window \in Nat /\ RateLimit \in Nat \ {0}
  /\ MaxReports \in Nat /\ MaxTime \in Nat /\ MaxCrashes \in Nat

VARIABLES
  clock,
  bucket,     \* bucket[s]: when the reports in the window of s came
  serving,    \* serving[s]: the report server s works on: event and next step
  reports,    \* the events: [detected, alert]; alert is its column alert_id
  warnings,   \* the number of alerts raised for reports
  crashes,
  accepted,   \* history: accepted[s]: when s let reports through, since it started
  broken      \* history: the events whose handler did not come to its end

guardVars == <<clock, bucket, serving, reports, warnings, crashes, accepted, broken>>

Idling == [at |-> "idle"]
AtWork == {"alert", "link", "audit"}

GuardTypeOK ==
  /\ clock \in 0 .. MaxTime
  /\ bucket \in [Servers -> Seq(0 .. MaxTime)]
  /\ serving \in [Servers -> {Idling} \cup [at : {"store"}, detected : BOOLEAN]
                          \cup [at : AtWork, event : DOMAIN reports, alert : 0 .. warnings]]
  /\ warnings \in Nat /\ reports \in Seq([detected : BOOLEAN, alert : 0 .. warnings])
  /\ Len(reports) <= MaxReports
  /\ broken \subseteq DOMAIN reports /\ crashes \in 0 .. MaxCrashes
  /\ accepted \in [Servers -> Seq(0 .. MaxTime)]

GuardInit ==
  /\ clock = 0
  /\ bucket = [s \in Servers |-> <<>>] /\ accepted = bucket
  /\ serving = [s \in Servers |-> Idling]
  /\ reports = <<>> /\ warnings = 0 /\ crashes = 0 /\ broken = {}

-----------------------------------------------------------------------------
\* Mutation of Old: a report as old as the window has left it.
OldAtEnd(s, i) == clock - bucket[s][i] >= Window

Old(s, i) == clock - bucket[s][i] > Window

\* The bucket without its oldest entries, those that are out of the window.  A
\* report that is let through counts, whatever becomes of it; one that is
\* refused changes nothing, for a bucket that is full has nothing to drop.
AcceptReport(s) ==
  /\ serving[s] = Idling
  /\ \E k \in 0 .. Len(bucket[s]) :
       /\ \A i \in 1 .. k : Old(s, i)
       /\ k < Len(bucket[s]) => ~ Old(s, k + 1)
       /\ Len(bucket[s]) - k < RateLimit
       /\ bucket' = [bucket EXCEPT ![s] = Append(SubSeq(@, k + 1, Len(@)), clock)]
  /\ accepted' = [accepted EXCEPT ![s] = Append(@, clock)]
  /\ \E detected \in BOOLEAN : serving' = [serving EXCEPT ![s] = [at |-> "store", detected |-> detected]]
  /\ UNCHANGED <<clock, reports, warnings, crashes, broken>>

StoreReport(s) ==
  /\ serving[s].at = "store" /\ Len(reports) < MaxReports
  /\ reports' = Append(reports, [detected |-> serving[s].detected, alert |-> 0])
  /\ serving' = [serving EXCEPT ![s] = [at |-> IF @.detected THEN "alert" ELSE "audit",
                                        event |-> Len(reports) + 1, alert |-> 0]]
  /\ UNCHANGED <<clock, bucket, warnings, crashes, accepted, broken>>

RaiseAlert(s) ==
  /\ serving[s].at = "alert"
  /\ warnings' = warnings + 1
  /\ serving' = [serving EXCEPT ![s] = [at |-> "link", event |-> @.event, alert |-> warnings + 1]]
  /\ UNCHANGED <<clock, bucket, reports, crashes, accepted, broken>>

\* Mutation of Linked: the newest alert, not the one just made.
LinkedNewest(s) == warnings

Linked(s) == serving[s].alert

\* The index and the mails that follow may fail without the handler failing.
LinkAlert(s) ==
  /\ serving[s].at = "link"
  /\ reports' = [reports EXCEPT ![serving[s].event].alert = Linked(s)]
  /\ serving' = [serving EXCEPT ![s] = [at |-> "audit", event |-> @.event, alert |-> @.alert]]
  /\ UNCHANGED <<clock, bucket, warnings, crashes, accepted, broken>>

AuditReport(s) ==
  /\ serving[s].at = "audit"
  /\ serving' = [serving EXCEPT ![s] = Idling]
  /\ UNCHANGED <<clock, bucket, reports, warnings, crashes, accepted, broken>>

TickClock ==
  /\ clock < MaxTime /\ clock' = clock + 1
  /\ UNCHANGED <<bucket, serving, reports, warnings, crashes, accepted, broken>>

\* The process dies and starts with an empty window, or one commit is refused.
Breaks(s) ==
  /\ serving[s] # Idling
  /\ crashes < MaxCrashes /\ crashes' = crashes + 1
  /\ broken' = IF serving[s].at = "store" THEN broken ELSE broken \cup {serving[s].event}
  /\ serving' = [serving EXCEPT ![s] = Idling]
  /\ \/ bucket' = [bucket EXCEPT ![s] = <<>>] /\ accepted' = [accepted EXCEPT ![s] = <<>>]
     \/ UNCHANGED <<bucket, accepted>>
  /\ UNCHANGED <<clock, reports, warnings>>

GuardNext ==
  \/ TickClock
  \/ \E s \in Servers :
       \/ AcceptReport(s) \/ StoreReport(s) \/ RaiseAlert(s)
       \/ LinkAlert(s) \/ AuditReport(s) \/ Breaks(s)

GuardSpec == GuardInit /\ [][GuardNext]_guardVars

-----------------------------------------------------------------------------
\* One process lets no more reports of a host through than the limit in any
\* window of its life, the ends of the window included.
WindowHoldsLimit ==
  \A s \in Servers : \A i \in 1 .. Len(accepted[s]) - RateLimit :
    accepted[s][i + RateLimit] - accepted[s][i] > Window

InWork == {serving[s].event : s \in {t \in Servers : serving[t].at \in AtWork}}

\* An alert is listed through the event that links it: every detection whose
\* handler came to its end has an alert, no two have the same, and every alert
\* is linked or belongs to a handler that is not done or was broken off.
AlertsAreListed ==
  LET linked(e) == reports[e].alert
      done      == DOMAIN reports \ (InWork \cup broken)
  IN
  /\ \A e \in done : reports[e].detected => linked(e) # 0
  /\ \A e, f \in DOMAIN reports : linked(e) = linked(f) /\ linked(e) # 0 => e = f
  /\ Cardinality({a \in 1 .. warnings : \A e \in DOMAIN reports : linked(e) # a})
       <= Cardinality(InWork \cup broken)

\* A host may not flood the backend with reports, and what it reported is seen.
ReportsAreHandled == WindowHoldsLimit /\ AlertsAreListed
=============================================================================
