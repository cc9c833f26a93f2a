-------------------------------- MODULE MCPort --------------------------------
(***************************************************************************)
(* Module Port for TLC: three threads with careful clients, one with any.  *)
(***************************************************************************)
EXTENDS Port, TLC

CONSTANTS T1, T2, T3, W1, R1, R2, G1

const_Threads == {T1, T2, T3}
const_WPorts == {W1}
const_RPorts == {R1, R2}
const_Groups == {G1}

Symmetry == Permutations(const_Threads) \cup Permutations(const_RPorts)

\* Of clients that are not careful one thread at a time is in a call that can sleep or
\* that looks before it locks.
Small == \A t, u \in Threads : thread[t] # Idle /\ thread[u] # Idle => t = u

MCNext == Next /\ (careful \/ Small')

MCSpec == Init /\ [][MCNext]_vars
=============================================================================
