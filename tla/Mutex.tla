-------------------------------- MODULE Mutex --------------------------------
(***************************************************************************)
(* kernel/mutex.c: a mutex whose count is the number of threads that have  *)
(* entered mutex_acquire_timeout and not left the mutex again, and whose   *)
(* release hands the mutex to the oldest waiter.                           *)
(*                                                                         *)
(* Clients follow the rules the code enforces with panic() when            *)
(* LK_DEBUGLEVEL > 0: a holder does not acquire again and only the holder  *)
(* releases.                                                               *)
(***************************************************************************)
EXTENDS WaitQueue

CONSTANTS NULL     \* the null thread pointer

ASSUME MutexAssumption == NULL \notin Threads

VARIABLES
    magic,     \* m->magic = MUTEX_MAGIC
    holder,    \* m->holder
    count,     \* m->count
    owners,    \* the threads whose acquire returned NO_ERROR and that have not
               \* released the mutex: what the clients believe
    destroyer, \* the thread inside mutex_destroy, between its check of holder
               \* and its THREAD_LOCK, or NULL
    bounded    \* do the clients of this mutex ever bound their wait?  Fixed
               \* from the start

mvars == <<magic, holder, count, owners, destroyer>>
vars == <<list, state, wait_queue_block_ret, timer,
          magic, holder, count, owners, destroyer, bounded>>

\* The timeouts mutex_acquire_timeout is called with.
AcqTimeouts == IF bounded THEN Timeouts ELSE Timeouts \ {"finite"}

mutex_init ==
    /\ magic = TRUE
    /\ holder = NULL
    /\ count = 0
    /\ owners = {}
    /\ destroyer = NULL

Init == wait_queue_init /\ mutex_init /\ bounded \in BOOLEAN

\* t executes client code: it is not inside a function of the mutex.
Free(t) == state[t] = "RUNNING" /\ destroyer # t

\* ++m->count > 1, and a mutant that looks at holder instead.
Taken_ByHolder == holder # NULL
Taken == count + 1 > 1

\* m->count after a timeout has been backed out, and a mutant that forgets to.
Backout_None == count
Backout == count - 1

\* --m->count >= 1, and a mutant that is off by one.
WakesNext_OffByOne == count - 1 > 1
WakesNext == count - 1 >= 1

(***************************************************************************)
(* mutex_acquire_timeout up to the point where it returns or blocks.  With *)
(* a zero timeout on a taken mutex, count goes up and down again.          *)
(***************************************************************************)
mutex_acquire_timeout(t, timeout) ==
    /\ magic
    /\ Free(t)
    /\ holder # t
    /\ \/ /\ ~Taken
          /\ count' = count + 1
          /\ holder' = t
          /\ owners' = owners \cup {t}
          /\ UNCHANGED wqvars
       \/ /\ Taken
          /\ timeout = "zero"
          /\ UNCHANGED <<wqvars, count, holder, owners>>
       \/ /\ Taken
          /\ timeout # "zero"
          /\ count' = count + 1
          /\ wait_queue_block(t, timeout)
          /\ UNCHANGED <<holder, owners>>
    /\ UNCHANGED <<magic, destroyer>>

(***************************************************************************)
(* The rest of mutex_acquire_timeout, when the blocked thread runs again.  *)
(* The mutex may have been destroyed in the meantime.                      *)
(***************************************************************************)
mutex_acquire_return(t) ==
    /\ wait_queue_block_return(t)
    /\ \/ /\ wait_queue_block_ret[t] = "NO_ERROR"
          /\ holder' = t
          /\ owners' = owners \cup {t}
          /\ UNCHANGED count
       \/ /\ wait_queue_block_ret[t] = "ERR_TIMED_OUT"
          /\ count' = Backout
          /\ UNCHANGED <<holder, owners>>
       \/ /\ wait_queue_block_ret[t] = "ERR_OBJECT_DESTROYED"
          /\ UNCHANGED <<count, holder, owners>>
    /\ UNCHANGED <<magic, destroyer>>

\* A mutant that does not clear holder.
mutex_release_KeepHolder(t) ==
    /\ magic
    /\ Free(t)
    /\ holder = t
    /\ count' = count - 1
    /\ owners' = owners \ {t}
    /\ IF WakesNext THEN wait_queue_wake_one("NO_ERROR") ELSE UNCHANGED wqvars
    /\ UNCHANGED <<magic, holder, destroyer>>

mutex_release(t) ==
    /\ magic
    /\ Free(t)
    /\ holder = t
    /\ holder' = NULL
    /\ count' = count - 1
    /\ owners' = owners \ {t}
    /\ IF WakesNext THEN wait_queue_wake_one("NO_ERROR") ELSE UNCHANGED wqvars
    /\ UNCHANGED <<magic, destroyer>>

(***************************************************************************)
(* mutex_destroy reads holder before it takes thread_lock.  Only one       *)
(* thread destroys a mutex.                                                *)
(***************************************************************************)
mutex_destroy_check(t) ==
    /\ magic
    /\ Free(t)
    /\ destroyer = NULL
    /\ holder \in {NULL, t}
    /\ destroyer' = t
    /\ UNCHANGED <<wqvars, magic, holder, count, owners>>

mutex_destroy(t) ==
    /\ destroyer = t
    /\ destroyer' = NULL
    /\ magic' = FALSE
    /\ count' = 0
    /\ owners' = owners \ {t}
    /\ wait_queue_destroy
    /\ UNCHANGED holder

Timeout(t) == wait_queue_timeout_handler(t) /\ UNCHANGED mvars

ThreadStep(t) ==
    \/ \E timeout \in AcqTimeouts : mutex_acquire_timeout(t, timeout)
    \/ mutex_acquire_return(t)
    \/ mutex_release(t)
    \/ mutex_destroy_check(t)
    \/ mutex_destroy(t)
    \/ Timeout(t)

Next == (\E t \in Threads : ThreadStep(t)) /\ UNCHANGED bounded

Spec == Init /\ [][Next]_vars

(***************************************************************************)
(* Fairness: a thread that is READY is picked sometime, and clients        *)
(* release what they hold.  Nobody has to acquire or destroy.              *)
(***************************************************************************)
Fairness ==
    \A t \in Threads :
        /\ WF_vars(mutex_acquire_return(t) /\ UNCHANGED bounded)
        /\ WF_vars(mutex_release(t) /\ UNCHANGED bounded)
        /\ WF_vars(mutex_destroy(t) /\ UNCHANGED bounded)

FairSpec == Spec /\ Fairness
-----------------------------------------------------------------------------
\* The threads that own the mutex now or will when they run next.
Owning == owners \cup {t \in Threads : HandedTo(t)}

\* The threads that have incremented count and not decremented it.
Contenders ==
    Owning \cup {t \in Threads : state[t] = "BLOCKED" \/ GaveUp(t)}

TypeOK ==
    /\ WQTypeOK
    /\ magic \in BOOLEAN
    /\ holder \in Threads \cup {NULL}
    /\ count \in Int
    /\ magic => count \in 0 .. Cardinality(Threads)
    /\ owners \subseteq Threads
    /\ destroyer \in Threads \cup {NULL}
    /\ bounded \in BOOLEAN

\* No two threads own the mutex, counting the one it has been handed to and
\* that has not run yet: mutex_release hands over without ever freeing it.
MutualExclusion == \A t, u \in Owning : t = u

\* While the mutex exists, m->holder is the thread that owns it, and NULL when
\* nobody does, as between a release and the next step of the thread it woke:
\* it names exactly the thread that may release, so the panic() checks of
\* mutex_release and mutex_acquire_timeout never fire for a correct client,
\* and always do for another thread.
HolderExact ==
    magic => /\ \A t \in owners : holder = t
             /\ holder # NULL => holder \in owners

\* m->count is the number of threads inside the mutex, through timeouts whose
\* threads have not yet run to back out.
CountExact == magic => count = Cardinality(Contenders)

\* A thread waits only while somebody owns the mutex and will release it.
NoStrandedWaiter == magic /\ list # <<>> => Owning # {}

\* That is what a mutex does whose clients never bound their wait.
UntimedNotStranded == ~bounded => NoStrandedWaiter

\* mutex_acquire_timeout never overtakes: while threads are queued, only a
\* thread that a release has taken off the queue enters.
NoBarging ==
    [][\A t \in owners' \ owners : list = <<>> \/ HandedTo(t)]_vars

\* Where nobody bounds a wait, whoever waits is released sometime: by a
\* holder, or by a destroy.
WaiterServed == \A t \in Threads : ~bounded /\ state[t] = "BLOCKED" ~> state[t] # "BLOCKED"
=============================================================================
