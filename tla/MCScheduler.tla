----------------------------- MODULE MCScheduler -----------------------------
(***************************************************************************)
(* Module Scheduler for TLC: two cpus, three threads, one of them pinned,  *)
(* in one of two scenarios.  In the crowd all three run, but nobody        *)
(* changes priorities and only the most important thread makes itself real *)
(* time; otherwise the third thread is never started.                      *)
(***************************************************************************)
EXTENDS Scheduler

CONSTANTS c1, c2, t1, t2, t3

const_TwoCpus == {c1, c2}
const_Threads == {t1, t2, t3}
const_OnePinned == [t \in Threads |-> IF t = t2 THEN c2 ELSE NoCpu]

\* With four priorities, DEFAULT_PRIORITY is 2.
const_OneHigh == [t \in Threads |-> IF t = t1 THEN 3 ELSE 2]

const_Change == {0, 9}
const_Targets == {"self", "stopped"}

VARIABLE crowd

InScenario ==
    IF crowd THEN priority' = priority /\ real_time' \subseteq {t1} \cap (real_time \cup Range(curr))
             ELSE state'[t3] = "SUSPENDED"

MCInit == Init /\ crowd \in BOOLEAN /\ (crowd \/ state[t3] = "SUSPENDED")
MCNext == Next /\ InScenario /\ UNCHANGED crowd
MCSpec == MCInit /\ [][MCNext]_<<vars, crowd>>
=============================================================================
