----------------------------- MODULE MCServices -----------------------------
(***************************************************************************)
(* A small instance of each part of Services.                              *)
(***************************************************************************)
EXTENDS Services

CONSTANTS d1, d2, e1, f1, f2, f3

\* The types of action that differ in what they do
MCTypes == {"isolate", "release", "reboot", "malware_scan"}

\* An event, a bulk for two days, and one for a day of them.  A raw event goes
\* the way of a bulk of one document.
MCBulks   == {{f1, f3}, {f2}}
MCIndexOf == (e1 :> AliasName) @@ (f1 :> d1) @@ (f2 :> d1) @@ (f3 :> d2)
=============================================================================
