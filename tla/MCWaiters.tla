------------------------------ MODULE MCWaiters ------------------------------
(***************************************************************************)
(* Module Waiters for TLC.                                                 *)
(***************************************************************************)
EXTENDS Waiters

CONSTANTS T1, T2, T3, T4

const_Threads == {T1, T2, T3, T4}
=============================================================================
