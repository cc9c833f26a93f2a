------------------------------ MODULE WaitQueue ------------------------------
(***************************************************************************)
(* The wait queue of kernel/thread.c as the blocking primitives built on   *)
(* it (mutex, semaphore, event) rely on it.                                *)
(*                                                                         *)
(* Every operator below is called with thread_lock held, so it is part of  *)
(* one atomic step of its caller.  wait_queue_block is the exception: it   *)
(* gives the cpu away in its middle, so it is two steps, the one that      *)
(* enters the queue and, once the thread has been made READY and has been  *)
(* picked by the scheduler, the one that returns.  Between the two the     *)
(* thread is still "inside" the primitive, although nobody waits for it    *)
(* any more.  Which READY thread is picked is left open here; module       *)
(* Scheduler has the run queue.  timer_cancel is taken to be effective, as *)
(* it is on one cpu; module TimedWait has what happens on several.         *)
(***************************************************************************)
EXTENDS Integers, FiniteSets, Sequences, SequencesExt

CONSTANTS Threads       \* the threads that use the primitive

ASSUME ThreadsAssumption == IsFiniteSet(Threads)

VARIABLES
    list,                   \* wait_queue_t.list, oldest waiter first
    state,                  \* thread_t.state: "READY" is a thread made runnable
                            \* while inside wait_queue_block
    wait_queue_block_ret,   \* thread_t.wait_queue_block_ret
    timer                   \* is the timer_t of the thread's wait_queue_block set?

wqvars == <<list, state, wait_queue_block_ret, timer>>

\* The three classes of an lk_time_t timeout the code tells apart.
Timeouts == {"zero", "finite", "INFINITE_TIME"}

Status == {"NO_ERROR", "ERR_TIMED_OUT", "ERR_OBJECT_DESTROYED"}

WQTypeOK ==
    /\ list \in Seq(Threads)
    /\ state \in [Threads -> {"RUNNING", "BLOCKED", "READY"}]
    /\ wait_queue_block_ret \in [Threads -> Status]
    /\ timer \in [Threads -> BOOLEAN]

\* The queue holds every BLOCKED thread, and holds it once.
QueueExact ==
    /\ \A i, j \in 1 .. Len(list) : list[i] = list[j] => i = j
    /\ \A t \in Threads : state[t] = "BLOCKED" <=> \E i \in 1 .. Len(list) : list[i] = t

wait_queue_init ==
    /\ list = <<>>
    /\ state = [t \in Threads |-> "RUNNING"]
    /\ wait_queue_block_ret = [t \in Threads |-> "NO_ERROR"]
    /\ timer = [t \in Threads |-> FALSE]

(***************************************************************************)
(* wait_queue_block with a nonzero timeout, up to its thread_resched().    *)
(***************************************************************************)
wait_queue_block(t, timeout) ==
    /\ list' = Append(list, t)
    /\ state' = [state EXCEPT ![t] = "BLOCKED"]
    /\ wait_queue_block_ret' = [wait_queue_block_ret EXCEPT ![t] = "NO_ERROR"]
    /\ timer' = [timer EXCEPT ![t] = timeout # "INFINITE_TIME"]

(***************************************************************************)
(* wait_queue_block from its thread_resched() on: the timer is cancelled   *)
(* and wait_queue_block_ret[t] is returned.                                *)
(***************************************************************************)
wait_queue_block_return(t) ==
    /\ state[t] = "READY"
    /\ state' = [state EXCEPT ![t] = "RUNNING"]
    /\ timer' = [timer EXCEPT ![t] = FALSE]
    /\ UNCHANGED <<list, wait_queue_block_ret>>

\* The threads of S leave the queue; their wait_queue_block returns err.
Unblock(S, err) ==
    /\ state' = [t \in Threads |-> IF t \in S THEN "READY" ELSE state[t]]
    /\ wait_queue_block_ret' =
          [t \in Threads |-> IF t \in S THEN err ELSE wait_queue_block_ret[t]]

wait_queue_wake_all(err) ==
    /\ list' = <<>>
    /\ Unblock(ToSet(list), err)
    /\ UNCHANGED timer

\* A mutant of wait_queue_wake_one that serves the newest waiter first.
wait_queue_wake_newest(err) ==
    IF list = <<>>
    THEN UNCHANGED wqvars
    ELSE /\ list' = Front(list)
         /\ Unblock({Last(list)}, err)
         /\ UNCHANGED timer

wait_queue_wake_one(err) ==
    IF list = <<>>
    THEN UNCHANGED wqvars
    ELSE /\ list' = Tail(list)
         /\ Unblock({Head(list)}, err)
         /\ UNCHANGED timer

wait_queue_destroy == wait_queue_wake_all("ERR_OBJECT_DESTROYED")

\* For a BLOCKED thread; for any other the function returns ERR_NOT_BLOCKED.
thread_unblock_from_wait_queue(t, err) ==
    /\ \E i \in DOMAIN list : list[i] = t /\ list' = RemoveAt(list, i)
    /\ Unblock({t}, err)

\* Two mutants of the timer callback: one that does not look at the state of
\* the thread, and one that does not wake it.
wait_queue_timeout_handler_NoCheck(t) ==
    /\ timer[t]
    /\ timer' = [timer EXCEPT ![t] = FALSE]
    /\ list' = SelectSeq(list, LAMBDA u : u # t)
    /\ Unblock({t}, "ERR_TIMED_OUT")

wait_queue_timeout_handler_NoWake(t) ==
    /\ timer[t]
    /\ timer' = [timer EXCEPT ![t] = FALSE]
    /\ UNCHANGED <<list, state, wait_queue_block_ret>>

(***************************************************************************)
(* The timer callback, at interrupt time.  The thread may have been woken  *)
(* already and not have run yet: then the callback changes nothing.        *)
(***************************************************************************)
wait_queue_timeout_handler(t) ==
    /\ timer[t]
    /\ timer' = [timer EXCEPT ![t] = FALSE]
    /\ IF state[t] = "BLOCKED"
       THEN thread_unblock_from_wait_queue(t, "ERR_TIMED_OUT")
       ELSE UNCHANGED <<list, state, wait_queue_block_ret>>
-----------------------------------------------------------------------------
\* t has been woken by the primitive, but has not run yet.
HandedTo(t) == state[t] = "READY" /\ wait_queue_block_ret[t] = "NO_ERROR"

\* t has given up, but has not run yet to undo what it did before it blocked.
GaveUp(t) == state[t] = "READY" /\ wait_queue_block_ret[t] = "ERR_TIMED_OUT"
=============================================================================
