---------------------------- MODULE MCScheduler ----------------------------
(* The instance of Scheduler for TLC: three chains, so that starts overlap. *)
EXTENDS Scheduler

CONSTANTS c1, c2, c3

MCChains == {c1, c2, c3}
=============================================================================
