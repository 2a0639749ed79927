----------------------------- MODULE MCVulnWatch -----------------------------
(***************************************************************************)
(* A small instance of VulnWatch: two components, reports that make HIGH   *)
(* and CRITICAL findings, with and without the EPSS score.                 *)
(***************************************************************************)
EXTENDS VulnWatch

CONSTANTS c1, c2

Severe    == [known |-> TRUE, cvss |-> 950, kev |-> FALSE]
Exploited == [known |-> TRUE, cvss |-> 0, kev |-> TRUE]

MCReports == {NoVuln, Severe, Exploited}

\* One finding is HIGH at first and rises with its EPSS score, one is CRITICAL.
MCFirstFeeds == {[c \in Components |-> IF c = c1 THEN Severe ELSE Exploited]}

MCEpss == {0, 30}
=============================================================================
