-------------------------------- MODULE Event --------------------------------
(***************************************************************************)
(* kernel/event.c: an event with or without EVENT_FLAG_AUTOUNSIGNAL.       *)
(*                                                                         *)
(* event_unsignal writes signaled without thread_lock.  Every critical     *)
(* section reads signaled once and before it writes it, so the write takes *)
(* effect as if it came before or after the whole section: one step.       *)
(***************************************************************************)
EXTENDS WaitQueue

VARIABLES
    magic,      \* e->magic = EVENT_MAGIC
    signaled,   \* e->signaled
    flags       \* e->flags

evars == <<magic, signaled, flags>>
vars == <<list, state, wait_queue_block_ret, timer, magic, signaled, flags>>

AutoUnsignal == "EVENT_FLAG_AUTOUNSIGNAL" \in flags

event_init ==
    /\ magic = TRUE
    /\ signaled \in BOOLEAN
    /\ flags \in SUBSET {"EVENT_FLAG_AUTOUNSIGNAL"}

Init == wait_queue_init /\ event_init

event_wait_timeout(t, timeout) ==
    /\ magic
    /\ state[t] = "RUNNING"
    /\ \/ /\ signaled
          /\ signaled' = ~AutoUnsignal
          /\ UNCHANGED wqvars
       \/ /\ ~signaled
          /\ timeout = "zero"
          /\ UNCHANGED <<wqvars, signaled>>
       \/ /\ ~signaled
          /\ timeout # "zero"
          /\ wait_queue_block(t, timeout)
          /\ UNCHANGED signaled
    /\ UNCHANGED <<magic, flags>>

\* event_wait_timeout from thread_resched() on.
event_wait_return(t) == wait_queue_block_return(t) /\ UNCHANGED evars

\* Called from threads and, with reschedule = false, from interrupt handlers.
event_signal ==
    /\ magic
    /\ \/ /\ signaled
          /\ UNCHANGED <<wqvars, signaled>>
       \/ /\ ~signaled
          /\ AutoUnsignal
          /\ signaled' = (list = <<>>)
          /\ wait_queue_wake_one("NO_ERROR")
       \/ /\ ~signaled
          /\ ~AutoUnsignal
          /\ signaled' = TRUE
          /\ wait_queue_wake_all("NO_ERROR")
    /\ UNCHANGED <<magic, flags>>

event_unsignal ==
    /\ magic
    /\ signaled' = FALSE
    /\ UNCHANGED <<wqvars, magic, flags>>

event_destroy ==
    /\ magic
    /\ magic' = FALSE
    /\ signaled' = FALSE
    /\ flags' = {}
    /\ wait_queue_destroy

Timeout(t) == wait_queue_timeout_handler(t) /\ UNCHANGED evars

Next ==
    \/ event_signal
    \/ event_unsignal
    \/ event_destroy
    \/ \E t \in Threads :
          \/ \E timeout \in Timeouts : event_wait_timeout(t, timeout)
          \/ event_wait_return(t)
          \/ Timeout(t)

Spec == Init /\ [][Next]_vars

(***************************************************************************)
(* A READY thread is picked sometime, a timer that is set fires.  Nobody   *)
(* has to signal.                                                          *)
(***************************************************************************)
Fairness ==
    \A t \in Threads : WF_vars(event_wait_return(t)) /\ WF_vars(Timeout(t))

FairSpec == Spec /\ Fairness
-----------------------------------------------------------------------------
\* How far the wait of each thread has got.
Progress == [t \in Threads |-> CASE state[t] = "RUNNING" -> "none"
                                 [] state[t] = "BLOCKED" -> "waiting"
                                 [] HandedTo(t) -> "woken"
                                 [] OTHER -> "failed"]

\* The event obeys the rules of event.h.  In particular a signal that has woken
\* a thread is not lost to a timeout, unsignal or destroy that comes before the
\* thread runs, and a signal that comes after the timeout is not spent on it.
ER == INSTANCE EventRules WITH
        wait  <- Progress,
        auto  <- AutoUnsignal,
        alive <- magic
ObeysEventRules == ER!Spec

\* A wait with a bounded timeout ends although nobody ever signals.
BoundedWaitEnds ==
    \A t \in Threads : state[t] = "BLOCKED" /\ timer[t] ~> state[t] = "RUNNING"
=============================================================================
