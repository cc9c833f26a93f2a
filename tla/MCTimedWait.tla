----------------------------- MODULE MCTimedWait -----------------------------
(***************************************************************************)
(* Module TimedWait for TLC.                                               *)
(***************************************************************************)
EXTENDS TimedWait

CONSTANTS c1, c2, t1, t2, t3

const_OneCpu == {c1}
const_TwoCpus == {c1, c2}
const_Threads == {t1, t2, t3}
=============================================================================
