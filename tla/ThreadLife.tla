------------------------------ MODULE ThreadLife ------------------------------
(***************************************************************************)
(* The life of a thread_t made by thread_create: thread_resume,            *)
(* thread_exit, thread_join, thread_detach, and who gives the structure    *)
(* and the stack back to the heap, when.                                   *)
(*                                                                         *)
(* An action is one critical section of thread_lock, or what follows one.  *)
(* thread_exit keeps the lock until the next thread runs: meanwhile it is  *)
(* still on its stack, and only what does not need the lock can happen.    *)
(* Each thread_t lives once: the heap does not hand its memory out again.  *)
(***************************************************************************)
EXTENDS Thread, Integers, Sequences, SequencesExt

CONSTANTS
    Callers,    \* the threads that join and detach them
    Joiners,    \* who may join each thread
    Detachers,  \* who may detach each thread,
    DetachIn    \* and in which states of the thread

ASSUME LifeAssumption ==
    /\ Joiners \in [Threads -> SUBSET Callers]
    /\ Detachers \in [Threads -> SUBSET Callers]
    /\ DetachIn \in [Threads -> SUBSET {"SUSPENDED", "RUNNING", "DEATH"}]

\* Who may come to free each thread: those who may join it, or detach it when it is
\* dead.  thread_join frees what it was called with: that the callers agree on who
\* does so is up to them.
Reapers(t) == Joiners[t] \cup (IF "DEATH" \in DetachIn[t] THEN Detachers[t] ELSE {})

ASSUME ReaperAssumption == \A t \in Threads : \A c, d \in Reapers(t) : c = d

\* The states are "NONE", "SUSPENDED", "RUNNING" for any state of a started thread,
\* and "DEATH".
VARIABLES
    magic,              \* the threads whose magic is THREAD_MAGIC
    detached,           \* the threads with THREAD_FLAG_DETACHED
    retcode_wait_queue, \* of each thread: the callers blocked in thread_join
    memory,             \* what the heap thinks of the structure and the stack
    thread_lock,        \* the exiting thread that holds it
    delayed_free_list,  \* what heap_delayed_free has put off
    to_free,            \* what heap_free_delayed_list has taken off that list
    pc,                 \* of each caller: where it is
    arg,                \* and in a call on which thread
    ret,                \* what its wait_queue_block returns
    timed               \* has its wait_queue_block a timeout?

heap == <<delayed_free_list, to_free>>
vars == <<state, magic, detached, retcode_wait_queue, memory, thread_lock, heap,
          pc, arg, ret, timed>>

Init ==
    /\ state = [t \in Threads |-> "NONE"]
    /\ magic = {} /\ detached = {}
    /\ retcode_wait_queue = [t \in Threads |-> <<>>]
    /\ memory = [t \in Threads |-> "none"]
    /\ thread_lock = NoThread
    /\ delayed_free_list = {} /\ to_free = {}
    /\ pc = [c \in Callers |-> "out"]
    /\ arg = [c \in Callers |-> NoThread]
    /\ ret = [c \in Callers |-> "NO_ERROR"]
    /\ timed = [c \in Callers |-> FALSE]

Unlocked == thread_lock = NoThread

\* A caller uses a thread_t only while it is one.
MayCall(c, t, S) == Unlocked /\ pc[c] = "out" /\ c \in S[t] /\ t \in magic

Return(c) == pc' = [pc EXCEPT ![c] = "out"] /\ arg' = [arg EXCEPT ![c] = NoThread]
-----------------------------------------------------------------------------
thread_create(t) ==
    /\ Unlocked /\ state[t] = "NONE"
    /\ state' = [state EXCEPT ![t] = "SUSPENDED"]
    /\ magic' = magic \cup {t}
    /\ memory' = [memory EXCEPT ![t] = "allocated"]
    /\ UNCHANGED <<detached, retcode_wait_queue, thread_lock, heap, pc, arg, ret, timed>>

thread_resume(t) ==
    /\ Unlocked /\ t \in magic /\ state[t] = "SUSPENDED"
    /\ state' = [state EXCEPT ![t] = "RUNNING"]
    /\ UNCHANGED <<magic, detached, retcode_wait_queue, memory, thread_lock, heap,
                   pc, arg, ret, timed>>

\* The joiners of t leave wait_queue_block with err.
wait_queue_wake_all(t, err) ==
    LET woken == ToSet(retcode_wait_queue[t])
    IN  /\ retcode_wait_queue' = [retcode_wait_queue EXCEPT ![t] = <<>>]
        /\ pc' = [c \in Callers |-> IF c \in woken THEN "woken" ELSE pc[c]]
        /\ ret' = [c \in Callers |-> IF c \in woken THEN err ELSE ret[c]]

\* A mutant that leaves the teardown of a detached thread to a joiner.
thread_exit_NoTeardown(t) ==
    /\ Unlocked /\ state[t] = "RUNNING"
    /\ state' = [state EXCEPT ![t] = "DEATH"]
    /\ thread_lock' = t
    /\ wait_queue_wake_all(t, "NO_ERROR")
    /\ UNCHANGED <<magic, delayed_free_list, detached, memory, to_free, arg, timed>>

(***************************************************************************)
(* thread_exit up to its thread_resched, and the switch to the next        *)
(* thread, which releases the lock.                                        *)
(***************************************************************************)
thread_exit(t) ==
    /\ Unlocked /\ state[t] = "RUNNING"
    /\ state' = [state EXCEPT ![t] = "DEATH"]
    /\ thread_lock' = t
    /\ IF t \in detached
       THEN /\ magic' = magic \ {t}
            /\ delayed_free_list' = delayed_free_list \cup {t}
            /\ UNCHANGED <<retcode_wait_queue, pc, ret>>
       ELSE /\ wait_queue_wake_all(t, "NO_ERROR")
            /\ UNCHANGED <<magic, delayed_free_list>>
    /\ UNCHANGED <<detached, memory, to_free, arg, timed>>

thread_exit_switch(t) ==
    /\ thread_lock = t
    /\ thread_lock' = NoThread
    /\ UNCHANGED <<state, magic, detached, retcode_wait_queue, memory, heap, pc, arg, ret, timed>>

\* Caller c takes the dead thread t out of the thread list and clears its magic.
Reap(c, t) ==
    /\ magic' = magic \ {t}
    /\ pc' = [pc EXCEPT ![c] = "freeing"]
    /\ arg' = [arg EXCEPT ![c] = t]

(***************************************************************************)
(* thread_join up to its wait, for each class of timeout.                  *)
(***************************************************************************)
JoinBegin(c, t, timeout) ==
    /\ \/ /\ t \in detached \/ (state[t] # "DEATH" /\ timeout = "zero")
          /\ Return(c)
          /\ UNCHANGED <<magic, retcode_wait_queue, ret, timed>>
       \/ /\ t \notin detached /\ state[t] = "DEATH"
          /\ Reap(c, t)
          /\ UNCHANGED <<retcode_wait_queue, ret, timed>>
       \/ /\ t \notin detached /\ state[t] # "DEATH" /\ timeout # "zero"
          /\ retcode_wait_queue' = [retcode_wait_queue EXCEPT ![t] = Append(@, c)]
          /\ pc' = [pc EXCEPT ![c] = "blocked"]
          /\ arg' = [arg EXCEPT ![c] = t]
          /\ ret' = [ret EXCEPT ![c] = "NO_ERROR"]
          /\ timed' = [timed EXCEPT ![c] = timeout = "finite"]
          /\ UNCHANGED magic
    /\ UNCHANGED <<state, detached, memory, thread_lock, heap>>

thread_join(c, t, timeout) == MayCall(c, t, Joiners) /\ JoinBegin(c, t, timeout)

\* thread_join after its wait.
thread_join_return(c) ==
    /\ Unlocked /\ pc[c] = "woken"
    /\ IF ret[c] = "NO_ERROR" THEN Reap(c, arg[c]) ELSE Return(c) /\ UNCHANGED magic
    /\ UNCHANGED <<state, detached, retcode_wait_queue, memory, thread_lock, heap, ret, timed>>

\* The timer callback wait_queue_timeout_handler, for a caller still blocked.
Timeout(c) ==
    /\ Unlocked /\ pc[c] = "blocked" /\ timed[c]
    /\ \E i \in DOMAIN retcode_wait_queue[arg[c]] :
          /\ retcode_wait_queue[arg[c]][i] = c
          /\ retcode_wait_queue' = [retcode_wait_queue EXCEPT ![arg[c]] = RemoveAt(@, i)]
    /\ pc' = [pc EXCEPT ![c] = "woken"]
    /\ ret' = [ret EXCEPT ![c] = "ERR_TIMED_OUT"]
    /\ UNCHANGED <<state, magic, detached, memory, thread_lock, heap, arg, timed>>

\* What thread_detach tells the joiners.  A mutant tells them nothing special.
DetachStatus_Zero == "NO_ERROR"
DetachStatus == "ERR_THREAD_DETACHED"

(***************************************************************************)
(* thread_detach: a dead thread is joined, in a second critical section,   *)
(* which has a timeout of zero.                                            *)
(***************************************************************************)
thread_detach(c, t) ==
    /\ MayCall(c, t, Detachers) /\ state[t] \in DetachIn[t]
    /\ LET woken == ToSet(retcode_wait_queue[t])
       IN  /\ retcode_wait_queue' = [retcode_wait_queue EXCEPT ![t] = <<>>]
           /\ ret' = [d \in Callers |-> IF d \in woken THEN DetachStatus ELSE ret[d]]
           /\ pc' = [d \in Callers |->
                        IF d \in woken THEN "woken"
                        ELSE IF d = c /\ state[t] = "DEATH" THEN "detaching" ELSE pc[d]]
    /\ arg' = [arg EXCEPT ![c] = IF state[t] = "DEATH" THEN t ELSE @]
    /\ detached' = IF state[t] = "DEATH" THEN detached \ {t} ELSE detached \cup {t}
    /\ UNCHANGED <<state, magic, memory, thread_lock, heap, timed>>

thread_detach_join(c) ==
    Unlocked /\ pc[c] = "detaching" /\ JoinBegin(c, arg[c], "zero")
-----------------------------------------------------------------------------
\* heap_free_delayed_list, at the start of any malloc: it has its own lock.
heap_free_delayed_list ==
    /\ delayed_free_list # {}
    /\ to_free' = to_free \cup delayed_free_list
    /\ delayed_free_list' = {}
    /\ UNCHANGED <<state, magic, detached, retcode_wait_queue, memory, thread_lock,
                   pc, arg, ret, timed>>

Freed(t) == [memory EXCEPT ![t] = IF @ = "allocated" THEN "freed" ELSE "freed twice"]

\* A mutant: a heap that is protected by a lock of its own.
HEAP_FREE_OwnLock(t) == memory' = Freed(t)

\* The heap is protected by a mutex, and mutex_acquire takes thread_lock.
HEAP_FREE(t) == Unlocked /\ memory' = Freed(t)

\* heap_free_delayed_list frees what it took.
FreeDelayed(t) ==
    /\ t \in to_free /\ HEAP_FREE(t)
    /\ to_free' = to_free \ {t}
    /\ UNCHANGED <<state, magic, detached, retcode_wait_queue, thread_lock,
                   delayed_free_list, pc, arg, ret, timed>>

\* The end of thread_join.
thread_join_free(c) ==
    /\ pc[c] = "freeing" /\ HEAP_FREE(arg[c])
    /\ Return(c)
    /\ UNCHANGED <<state, magic, detached, retcode_wait_queue, thread_lock, heap, ret, timed>>
-----------------------------------------------------------------------------
ThreadStep(t) ==
    \/ thread_create(t) \/ thread_resume(t)
    \/ thread_exit(t) \/ thread_exit_switch(t)
    \/ FreeDelayed(t)

CallerStep(c) ==
    \/ \E t \in Threads : \/ \E timeout \in {"zero", "finite", "INFINITE_TIME"} : thread_join(c, t, timeout)
                          \/ thread_detach(c, t)
    \/ thread_join_return(c) \/ Timeout(c) \/ thread_detach_join(c) \/ thread_join_free(c)

Next ==
    \/ heap_free_delayed_list
    \/ \E t \in Threads : ThreadStep(t)
    \/ \E c \in Callers : CallerStep(c)

Spec == Init /\ [][Next]_vars

(***************************************************************************)
(* What has been started is finished, and malloc is called again and       *)
(* again.  No thread has to exit, and nobody has to join or detach.        *)
(***************************************************************************)
Fairness ==
    /\ WF_vars(heap_free_delayed_list)
    /\ \A t \in Threads : WF_vars(thread_exit_switch(t)) /\ SF_vars(FreeDelayed(t))
    /\ \A c \in Callers : /\ SF_vars(thread_join_return(c))
                          /\ SF_vars(thread_detach_join(c))
                          /\ SF_vars(thread_join_free(c))

FairSpec == Spec /\ Fairness
-----------------------------------------------------------------------------
(***************************************************************************)
(* The assertions of thread_join after its wait: a joiner woken by the     *)
(* exit of its thread, however long it takes to run, finds the thread_t    *)
(* still there and dead, and can read its return code.                     *)
(***************************************************************************)
JoinFindsDeadThread ==
    \A c \in Callers : pc[c] = "woken" /\ ret[c] = "NO_ERROR"
        => arg[c] \in magic /\ state[arg[c]] = "DEATH"

(***************************************************************************)
(* Stack and structure are freed once, and not while the thread may still  *)
(* be running on them: not before it is dead and has switched away         *)
(* (thread_exit frees the stack it runs on, through heap_delayed_free),    *)
(* and not while somebody is blocked in its retcode_wait_queue.            *)
(***************************************************************************)
FreedInTime ==
    \A t \in Threads : memory[t] \in {"freed", "freed twice"} =>
        /\ memory[t] = "freed" /\ state[t] = "DEATH"
        /\ thread_lock # t
        /\ t \notin magic /\ retcode_wait_queue[t] = <<>>

\* Nobody will ask for the return code of t: it is detached, or was joined.
Released(t) ==
    \/ t \in detached \/ t \notin magic
    \/ \E c \in Callers : pc[c] = "detaching" /\ arg[c] = t

(***************************************************************************)
(* A dead thread that is detached, before or after it died, or has been    *)
(* joined, gives its memory back: the race between thread_exit and         *)
(* thread_detach leaves the job to exactly one of them.                    *)
(***************************************************************************)
Reclaimed ==
    \A t \in Threads : state[t] = "DEATH" /\ Released(t) ~> memory[t] = "freed"
=============================================================================
