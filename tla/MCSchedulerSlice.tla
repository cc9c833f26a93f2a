-------------------------- MODULE MCSchedulerSlice --------------------------
(***************************************************************************)
(* Module Scheduler for TLC: three threads of one priority, all pinned to  *)
(* one of two cpus, that share it by their time slices.  Both cpus have    *)
(* started before the first thread runs.                                   *)
(***************************************************************************)
EXTENDS Scheduler

CONSTANTS c1, c2, t1, t2, t3

const_TwoCpus == {c1, c2}
const_Threads == {t1, t2, t3}
const_AllPinned == [t \in Threads |-> c1]
const_AllOne == [t \in Threads |-> 1]

Started == mp.active = CPUs /\ mp.joining = {}

MCNext == Next /\ (Started \/ UNCHANGED curr)
MCFairSpec == Init /\ [][MCNext]_vars /\ Fairness
=============================================================================
