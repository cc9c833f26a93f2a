------------------------------ MODULE Waiters -------------------------------
(***************************************************************************)
(* Modules Semaphore and Event side by side.  Each behaviour is about one  *)
(* of the two objects, chosen at the start; the other one is left alone.   *)
(***************************************************************************)
EXTENDS Semaphore

VARIABLES
    object,                             \* "semaphore" or "event"
    elist, estate, eret, etimer,        \* the wait queue of the event
    emagic, signaled, flags

evars == <<elist, estate, eret, etimer, emagic, signaled, flags>>
waiters_vars == <<vars, evars, object>>

E == INSTANCE Event WITH
        list <- elist, state <- estate, wait_queue_block_ret <- eret, timer <- etimer,
        magic <- emagic

OfSemaphore(A) == object = "semaphore" /\ A /\ UNCHANGED <<evars, object>>
OfEvent(A) == object = "event" /\ A /\ UNCHANGED <<vars, object>>

WaitersInit == Init /\ E!Init /\ object \in {"semaphore", "event"} /\ (object = "event" => ~bounded)

WaitersNext == OfSemaphore(Next) \/ OfEvent(E!Next)

\* The fairness of both modules.
WaitersFairness ==
    /\ WF_waiters_vars(OfSemaphore(sem_post /\ UNCHANGED bounded))
    /\ \A t \in Threads : WF_waiters_vars(OfSemaphore(sem_wait_return(t) /\ UNCHANGED bounded))
    /\ \A t \in Threads : /\ WF_waiters_vars(OfEvent(E!event_wait_return(t)))
                          /\ WF_waiters_vars(OfEvent(E!Timeout(t)))

WaitersSpec == WaitersInit /\ [][WaitersNext]_waiters_vars /\ WaitersFairness
-----------------------------------------------------------------------------
\* The event obeys the rules of event.h, whatever timeout, unsignal or destroy
\* comes between a signal and the next step of the thread it has woken
\* (event_signal, event_wait_timeout, wait_queue_timeout_handler).
EventObeysRules == E!ObeysEventRules

\* A wait for an event with a bounded timeout ends although nobody signals
\* (event_wait_timeout, wait_queue_timeout_handler).
EventWaitEnds == E!BoundedWaitEnds
=============================================================================
