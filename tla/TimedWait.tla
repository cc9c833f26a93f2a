------------------------------ MODULE TimedWait ------------------------------
(***************************************************************************)
(* wait_queue_block and the timer that ends it, when the timer interrupt   *)
(* and the waiting thread are on different cpus.                           *)
(*                                                                         *)
(* timer_tick takes the timer off its queue under timer_lock, drops that   *)
(* lock and calls wait_queue_timeout_handler, which has to get             *)
(* thread_lock.  So the handler is two steps: on one cpu nothing happens   *)
(* between them, on several cpus the threads of the others go on.          *)
(***************************************************************************)
EXTENDS Thread

CONSTANTS CPUs

VARIABLES
    wait_queue_block_ret,   \* thread_t.wait_queue_block_ret
    has_timeout,            \* has the thread's latest wait a timeout?
    timer,                  \* the threads whose timer is in a timer queue
    handler                 \* of each cpu: the thread it is to time out

wait_vars == <<state, wait_queue_block_ret, has_timeout, timer, handler>>

TypeOK ==
    /\ state \in [Threads -> {"RUNNING", "BLOCKED", "READY"}]
    /\ wait_queue_block_ret \in [Threads -> {"NO_ERROR", "ERR_TIMED_OUT"}]
    /\ has_timeout \in [Threads -> BOOLEAN]
    /\ timer \subseteq Threads
    /\ handler \in [CPUs -> Threads \cup {NoThread}]

WaitInit ==
    /\ state = [t \in Threads |-> "RUNNING"]
    /\ wait_queue_block_ret = [t \in Threads |-> "NO_ERROR"]
    /\ has_timeout = [t \in Threads |-> FALSE]
    /\ timer = {}
    /\ handler = [c \in CPUs |-> NoThread]

\* Is there a cpu that is not in the timer interrupt?
SomeCpuFree == \E c \in CPUs : handler[c] = NoThread

\* wait_queue_block up to its thread_resched.
wait_queue_block(t, timeout) ==
    /\ SomeCpuFree /\ state[t] = "RUNNING"
    /\ state' = [state EXCEPT ![t] = "BLOCKED"]
    /\ wait_queue_block_ret' = [wait_queue_block_ret EXCEPT ![t] = "NO_ERROR"]
    /\ has_timeout' = [has_timeout EXCEPT ![t] = timeout]
    /\ timer' = IF timeout THEN timer \cup {t} ELSE timer
    /\ UNCHANGED handler

\* wait_queue_wake_one, by a thread or an interrupt handler.
wait_queue_wake_one(t) ==
    /\ SomeCpuFree /\ state[t] = "BLOCKED"
    /\ state' = [state EXCEPT ![t] = "READY"]
    /\ UNCHANGED <<wait_queue_block_ret, has_timeout, timer, handler>>

\* A mutant that relies on the timer having fired.
timer_cancel_Never(t) == UNCHANGED timer

\* timer_cancel for a timer that may be in a queue, or in the hands of timer_tick.
timer_cancel(t) == timer' = timer \ {t}

\* wait_queue_block from its thread_resched on.
wait_queue_block_return(t) ==
    /\ SomeCpuFree /\ state[t] = "READY"
    /\ state' = [state EXCEPT ![t] = "RUNNING"]
    /\ IF has_timeout[t] THEN timer_cancel(t) ELSE UNCHANGED timer
    /\ UNCHANGED <<wait_queue_block_ret, has_timeout, handler>>

\* timer_tick on cpu c up to the call of the handler of the timer of t.
timer_tick(c, t) ==
    /\ handler[c] = NoThread /\ t \in timer
    /\ timer' = timer \ {t}
    /\ handler' = [handler EXCEPT ![c] = t]
    /\ UNCHANGED <<state, wait_queue_block_ret, has_timeout>>

thread_unblock_from_wait_queue(t) ==
    IF state[t] = "BLOCKED"
    THEN /\ state' = [state EXCEPT ![t] = "READY"]
         /\ wait_queue_block_ret' = [wait_queue_block_ret EXCEPT ![t] = "ERR_TIMED_OUT"]
    ELSE UNCHANGED <<state, wait_queue_block_ret>>

\* wait_queue_timeout_handler on cpu c, once it has thread_lock.
wait_queue_timeout_handler(c) ==
    /\ handler[c] # NoThread
    /\ thread_unblock_from_wait_queue(handler[c])
    /\ handler' = [handler EXCEPT ![c] = NoThread]
    /\ UNCHANGED <<has_timeout, timer>>

WaitNext ==
    \/ \E t \in Threads : \/ \E timeout \in BOOLEAN : wait_queue_block(t, timeout)
                          \/ wait_queue_wake_one(t)
                          \/ wait_queue_block_return(t)
    \/ \E c \in CPUs : \/ \E t \in Threads : timer_tick(c, t)
                       \/ wait_queue_timeout_handler(c)

WaitSpec == WaitInit /\ [][WaitNext]_wait_vars
-----------------------------------------------------------------------------
(***************************************************************************)
(* A wait without a timeout never returns ERR_TIMED_OUT: the timer of an   *)
(* earlier wait of the same thread does not end it (timer_cancel in        *)
(* wait_queue_block, thread_unblock_from_wait_queue).  It is so on one     *)
(* cpu.  On two it is not: timer_cancel does not wait for a handler that   *)
(* another cpu has begun, and a handler that is late for thread_lock finds *)
(* the thread BLOCKED again, in its next wait.                             *)
(***************************************************************************)
InfiniteWaitsLast ==
    \A t \in Threads : wait_queue_block_ret[t] = "ERR_TIMED_OUT" => has_timeout[t]

(***************************************************************************)
(* The timer of a wait is on the waiter's stack: when wait_queue_block has *)
(* returned it is in no timer queue and timer_tick is not working on it,   *)
(* whichever of the timeout, a wake and the next wait came first.  This is *)
(* what "it's better safe to try to cancel it" is for; again on one cpu.   *)
(***************************************************************************)
TimerDiesWithFrame ==
    \A t \in Threads : state[t] = "RUNNING" =>
        t \notin timer /\ \A c \in CPUs : handler[c] # t
=============================================================================
