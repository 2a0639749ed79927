------------------------------ MODULE MCGoAgent ------------------------------
(***************************************************************************)
(* A small instance of GoAgent.  Sizes differ, so that one eviction may or *)
(* may not be enough, and that some flushes stay below GzipAt and some do  *)
(* not.                                                                    *)
(***************************************************************************)
EXTENDS GoAgent, TLC

MCSize == <<1, 2, 1, 1>>
=============================================================================
