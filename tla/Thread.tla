-------------------------------- MODULE Thread --------------------------------
(***************************************************************************)
(* What the modules about kernel/thread.c have in common: the threads and  *)
(* thread_t.state.                                                         *)
(***************************************************************************)
CONSTANTS
    Threads,    \* the thread_t structures
    NoThread

ASSUME ThreadAssumption == NoThread \notin Threads

VARIABLE state  \* thread_t.state
=============================================================================
