-------------------------- MODULE DetectionContract --------------------------
(***************************************************************************)
(* What the detection pipeline promises about an accepted event, whatever  *)
(* the queue mode: a row of pending_events is a promise.  An event that    *)
(* has one is never lost; it stays promised until it has been evaluated or *)
(* the retention service has deleted it.  Without a row an event may be    *)
(* lost at any moment, and what is lost is never evaluated later.          *)
(***************************************************************************)
CONSTANT Events

VARIABLE fate   \* fate[e]: what has become of event e

Fates == {"unseen", "accepted", "promised", "evaluated", "lost", "expired"}

Init == fate = [e \in Events |-> "unseen"]

\* The moves of one event.  An event deleted in the middle of its evaluation
\* may still see the end of it.
Lifecycle ==
  {<<"unseen", "accepted">>, <<"accepted", "promised">>, <<"accepted", "lost">>,
   <<"accepted", "evaluated">>, <<"promised", "evaluated">>,
   <<"accepted", "expired">>, <<"promised", "expired">>, <<"lost", "expired">>,
   <<"expired", "evaluated">>}

\* A bulk insert, a batch, a crash or a retention pass moves several events.
Next ==
  /\ fate' \in [Events -> Fates]
  /\ \A e \in Events : fate'[e] # fate[e] => <<fate[e], fate'[e]>> \in Lifecycle

Spec == Init /\ [][Next]_fate
=============================================================================
