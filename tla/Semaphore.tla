------------------------------ MODULE Semaphore ------------------------------
(***************************************************************************)
(* kernel/semaphore.c: a counting semaphore whose count goes below zero by *)
(* one for every thread that waits, or has given up and not run yet.       *)
(***************************************************************************)
EXTENDS WaitQueue

CONSTANTS
    InitialValue,   \* the value sem_init is called with
    MaxCount        \* bound: nobody posts to a stock of MaxCount units

ASSUME SemaphoreAssumption ==
    /\ InitialValue \in Nat
    /\ MaxCount \in Nat
    /\ InitialValue <= MaxCount

VARIABLES
    count,   \* sem->count
    magic,   \* sem->wait.magic = WAIT_QUEUE_MAGIC: not destroyed
    bounded  \* do the clients of this semaphore ever bound their wait?  Fixed
             \* from the start

vars == <<list, state, wait_queue_block_ret, timer, count, magic, bounded>>

\* The timeouts sem_timedwait is called with.
WaitTimeouts == IF bounded THEN Timeouts ELSE Timeouts \ {"finite"}

sem_init == count = InitialValue /\ magic = TRUE

Init == wait_queue_init /\ sem_init /\ bounded \in BOOLEAN

\* Clients do not touch a destroyed semaphore again.
Usable(t) == magic /\ state[t] = "RUNNING"

\* The threads that have decremented count for a unit they do not have.
Pending == {t \in Threads : state[t] = "BLOCKED" \/ GaveUp(t)}

\* The units posted and not taken.
Stock == count + Cardinality(Pending)

\* sem->count after a timeout has been backed out.
Backout == count + 1

\* ++sem->count <= 0, and a mutant that is off by one.
WakesWaiter_OffByOne == count + 1 < 0
WakesWaiter == count + 1 <= 0

\* Called from threads and from interrupt handlers alike.
sem_post ==
    /\ magic
    /\ Stock < MaxCount
    /\ count' = count + 1
    /\ IF WakesWaiter THEN wait_queue_wake_one("NO_ERROR") ELSE UNCHANGED wqvars
    /\ UNCHANGED magic

\* sem_timedwait up to its return or its wait_queue_block; sem_wait is
\* sem_timedwait with INFINITE_TIME.  A zero timeout undoes its decrement.
sem_timedwait(t, timeout) ==
    /\ Usable(t)
    /\ \/ /\ count - 1 >= 0
          /\ count' = count - 1
          /\ UNCHANGED wqvars
       \/ /\ count - 1 < 0
          /\ timeout = "zero"
          /\ UNCHANGED <<wqvars, count>>
       \/ /\ count - 1 < 0
          /\ timeout # "zero"
          /\ count' = count - 1
          /\ wait_queue_block(t, timeout)
    /\ UNCHANGED magic

sem_wait(t) == sem_timedwait(t, "INFINITE_TIME")

\* sem_wait and sem_timedwait from thread_resched() on.  Only a timeout is
\* backed out; sem_wait cannot have one.
sem_wait_return(t) ==
    /\ wait_queue_block_return(t)
    /\ count' = IF wait_queue_block_ret[t] = "ERR_TIMED_OUT" THEN Backout ELSE count
    /\ UNCHANGED magic

\* A mutant that takes a unit that is not there.
sem_trywait_OffByOne(t) ==
    /\ Usable(t)
    /\ count' = IF count < 0 THEN count ELSE count - 1
    /\ UNCHANGED <<wqvars, magic>>

\* ERR_NOT_READY when count <= 0.
sem_trywait(t) ==
    /\ Usable(t)
    /\ count' = IF count <= 0 THEN count ELSE count - 1
    /\ UNCHANGED <<wqvars, magic>>

sem_destroy(t) ==
    /\ Usable(t)
    /\ count' = 0
    /\ magic' = FALSE
    /\ wait_queue_destroy

Timeout(t) == wait_queue_timeout_handler(t) /\ UNCHANGED <<count, magic>>

ThreadStep(t) ==
    \/ sem_wait(t)
    \/ \E timeout \in WaitTimeouts : sem_timedwait(t, timeout)
    \/ sem_wait_return(t)
    \/ sem_trywait(t)
    \/ sem_destroy(t)
    \/ Timeout(t)

Next == (sem_post \/ \E t \in Threads : ThreadStep(t)) /\ UNCHANGED bounded

Spec == Init /\ [][Next]_vars

(***************************************************************************)
(* A READY thread is picked sometime; some producer posts again and again. *)
(***************************************************************************)
Fairness ==
    /\ WF_vars(sem_post /\ UNCHANGED bounded)
    /\ \A t \in Threads : WF_vars(sem_wait_return(t) /\ UNCHANGED bounded)

FairSpec == Spec /\ Fairness
-----------------------------------------------------------------------------
\* Units are neither lost nor invented, by timeouts either: the semaphore
\* implements the counting semaphore.
CS == INSTANCE CountingSemaphore WITH
        value <- IF magic THEN Stock ELSE 0,
        got   <- {t \in Threads : HandedTo(t)},
        alive <- magic
ImplementsCountingSemaphore == CS!Spec

\* Where nobody bounds a wait, nobody waits while there is a unit in stock:
\* sem_post wakes whenever somebody waits.
NoIdleUnit == ~bounded /\ magic /\ list # <<>> => Stock = 0

\* Where nobody bounds a wait and posts keep coming, everybody who waits gets
\* a unit sometime.
WaiterServed == \A t \in Threads : ~bounded /\ state[t] = "BLOCKED" ~> state[t] # "BLOCKED"
=============================================================================
