----------------------------- MODULE MCHostLogs -----------------------------
(***************************************************************************)
(* A small instance of HostLogs: batches are of two and queries of one, so *)
(* that three lines exceed a batch and two visits a query.                 *)
(***************************************************************************)
EXTENDS HostLogs
=============================================================================
