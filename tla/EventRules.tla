----------------------------- MODULE EventRules -----------------------------
(***************************************************************************)
(* The rules for events of include/kernel/event.h as a specification: the  *)
(* signaled state, and how far each thread's wait has got.                 *)
(***************************************************************************)
CONSTANTS Threads

VARIABLES
    auto,     \* EVENT_FLAG_AUTOUNSIGNAL
    signaled,
    wait,     \* per thread: "none", "waiting", "woken" by a signal so that it
              \* will return NO_ERROR, or "failed" so that it will return an error
    alive     \* not destroyed yet

vars == <<auto, signaled, wait, alive>>

Init ==
    /\ auto \in BOOLEAN
    /\ signaled \in BOOLEAN
    /\ wait = [t \in Threads |-> "none"]
    /\ alive = TRUE

Waiting == {t \in Threads : wait[t] = "waiting"}

\* The waits of the threads in S end with the given outcome.
EndWaits(S, outcome) == wait' = [t \in Threads |-> IF t \in S THEN outcome ELSE wait[t]]

\* A manual event wakes all who wait and stays signaled.  An auto event wakes
\* one of them, or stays signaled when there is none.
Signal ==
    /\ alive
    /\ \/ /\ auto
          /\ ~signaled
          /\ \E t \in Waiting : EndWaits({t}, "woken")
          /\ UNCHANGED signaled
       \/ /\ auto => Waiting = {}
          /\ signaled' = TRUE
          /\ EndWaits(Waiting, "woken")
    /\ UNCHANGED <<auto, alive>>

Unsignal == alive /\ signaled' = FALSE /\ UNCHANGED <<auto, wait, alive>>

Wait(t) ==
    /\ alive
    /\ wait[t] = "none"
    /\ \/ /\ signaled
          /\ signaled' = ~auto
          /\ UNCHANGED wait
       \/ /\ ~signaled
          /\ wait' = [wait EXCEPT ![t] = "waiting"]
          /\ UNCHANGED signaled
    /\ UNCHANGED <<auto, alive>>

TimeOut(t) == t \in Waiting /\ EndWaits({t}, "failed") /\ UNCHANGED <<auto, signaled, alive>>

Return(t) ==
    /\ wait[t] \in {"woken", "failed"}
    /\ EndWaits({t}, "none")
    /\ UNCHANGED <<auto, signaled, alive>>

Destroy ==
    /\ alive
    /\ alive' = FALSE /\ auto' = FALSE /\ signaled' = FALSE
    /\ EndWaits(Waiting, "failed")

Next ==
    \/ Signal
    \/ Unsignal
    \/ Destroy
    \/ \E t \in Threads : Wait(t) \/ TimeOut(t) \/ Return(t)

Spec == Init /\ [][Next]_vars
=============================================================================
