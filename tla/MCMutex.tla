------------------------------- MODULE MCMutex -------------------------------
(***************************************************************************)
(* Module Mutex for TLC: the threads are interchangeable model values.     *)
(***************************************************************************)
EXTENDS Mutex, TLC

CONSTANTS T1, T2, T3, T4

const_Threads == {T1, T2, T3, T4}

symmetry == Permutations(Threads)
=============================================================================
