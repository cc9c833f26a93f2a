------------------------------- MODULE MCTimer -------------------------------
(***************************************************************************)
(* Module Timer for TLC, with a clock of four bits.                        *)
(***************************************************************************)
EXTENDS Timer

CONSTANTS c1, c2, t1, t2

const_OneCpu == {c1}
const_TwoCpus == {c1, c2}
const_Timers == {t1, t2}

\* Short delays: with every lateness added they stay below 2^(W-1).
const_Short == {0, 3}

\* Delays of 2^(W-1) and more.
const_Long == {3, 12}
=============================================================================
