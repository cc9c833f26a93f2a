--------------------------- MODULE ThreadLifeProofs ---------------------------
(***************************************************************************)
(* Module ThreadLife for every set of threads and of callers that respect  *)
(* ReaperAssumption.                                                       *)
(***************************************************************************)
EXTENDS ThreadLife, TimedWait, SequenceTheorems, TLAPS

Types ==
    /\ state \in [Threads -> {"NONE", "SUSPENDED", "RUNNING", "DEATH"}]
    /\ magic \subseteq Threads
    /\ retcode_wait_queue \in [Threads -> Seq(Callers)]
    /\ memory \in [Threads -> {"none", "allocated", "freed"}]
    /\ delayed_free_list \subseteq Threads
    /\ to_free \subseteq Threads
    /\ pc \in [Callers -> {"out", "blocked", "woken", "detaching", "freeing"}]
    /\ arg \in [Callers -> Threads \cup {NoThread}]
    /\ ret \in [Callers -> {"NO_ERROR", "ERR_TIMED_OUT", "ERR_THREAD_DETACHED"}]

\* The thread_t exists: it is a thread, and its memory is nobody's to free.
Exists(t) == t \in magic /\ memory[t] = "allocated"

\* It does not any more, and its memory is still to be freed.
Doomed(t) == t \notin magic /\ state[t] = "DEATH" /\ memory[t] = "allocated"

\* What a caller inside thread_join or thread_detach may count on.
CallerInv ==
    \A c \in Callers :
        /\ pc[c] # "out" => arg[c] \in Threads
        /\ pc[c] = "blocked" =>
              /\ c \in Reapers(arg[c])
              /\ retcode_wait_queue[arg[c]] = <<c>>
              /\ Exists(arg[c]) /\ state[arg[c]] # "DEATH" /\ arg[c] \notin detached
        /\ pc[c] = "woken" => c \in Reapers(arg[c])
        /\ pc[c] = "woken" /\ ret[c] = "NO_ERROR" => Exists(arg[c]) /\ state[arg[c]] = "DEATH"
        /\ pc[c] = "detaching" =>
              /\ c \in Reapers(arg[c])
              /\ Exists(arg[c]) /\ state[arg[c]] = "DEATH"
        /\ pc[c] = "freeing" => Doomed(arg[c]) /\ arg[c] \notin delayed_free_list \cup to_free

\* Only the blocked joiner is in the queue of a thread.
QueueInv ==
    \A t \in Threads :
        \/ retcode_wait_queue[t] = <<>>
        \/ \E c \in Callers : /\ retcode_wait_queue[t] = <<c>>
                              /\ pc[c] = "blocked" /\ arg[c] = t

\* Exactly one of the thread, a caller, the delayed list and its freeing is left with
\* the memory.
MemoryInv ==
    /\ \A c, d \in Callers :
          pc[c] = "freeing" /\ pc[d] = "freeing" /\ arg[c] = arg[d] => c = d
    /\ \A t \in delayed_free_list \cup to_free : Doomed(t)
    /\ delayed_free_list \cap to_free = {}
    /\ \A t \in Threads :
          /\ state[t] = "NONE" => t \notin magic
          /\ state[t] \in {"SUSPENDED", "RUNNING"} => t \in magic
          /\ t \in magic => memory[t] = "allocated"
          /\ t \in magic /\ state[t] = "DEATH" => t \notin detached
          /\ memory[t] = "freed" => t \notin magic /\ state[t] = "DEATH"
          /\ thread_lock = t => state[t] = "DEATH" /\ memory[t] = "allocated"

IInv == Types /\ CallerInv /\ QueueInv /\ MemoryInv
-----------------------------------------------------------------------------
\* Those woken with thread t are those blocked on it.
LEMMA WokenSet ==
    ASSUME IInv, NEW t \in Threads, NEW c \in Callers
    PROVE  c \in ToSet(retcode_wait_queue[t]) <=> pc[c] = "blocked" /\ arg[c] = t
<1>1. ASSUME NEW d PROVE ToSet(<<d>>) = {d}
  BY DEF ToSet
<1>2. ToSet(<<>>) = {}
  BY DEF ToSet
<1>3. CASE retcode_wait_queue[t] = <<>>
  BY <1>2, <1>3 DEF IInv, CallerInv
<1>4. ASSUME NEW d \in Callers, retcode_wait_queue[t] = <<d>>, pc[d] = "blocked", arg[d] = t
      PROVE  c \in ToSet(retcode_wait_queue[t]) <=> pc[c] = "blocked" /\ arg[c] = t
  <2>1. c \in ToSet(retcode_wait_queue[t]) <=> c = d
    BY <1>1, <1>4
  <2>2. pc[c] = "blocked" /\ arg[c] = t => c = d
    BY <1>4 DEF IInv, CallerInv
  <2>3. QED
    BY <1>4, <2>1, <2>2
<1>5. QED
  BY <1>3, <1>4 DEF IInv, QueueInv

\* A queue of one is empty when that one has left.
LEMMA RemoveOnly ==
    ASSUME NEW c, NEW i \in DOMAIN <<c>>
    PROVE  RemoveAt(<<c>>, i) = <<>>
<1>1. i = 1
  OBVIOUS
<1>2. SubSeq(<<c>>, 1, 0) = <<>> /\ SubSeq(<<c>>, 2, 1) = <<>>
  BY SubSeqProperties
<1>3. QED
  BY <1>1, <1>2 DEF RemoveAt

\* Reaping a dead thread: nobody else was about to.
LEMMA ReapIInv ==
    ASSUME IInv, NEW c \in Callers, NEW t \in Threads,
           t \in magic, state[t] = "DEATH", c \in Reapers(t),
           pc[c] = "out" \/ (pc[c] \in {"woken", "detaching"} /\ arg[c] = t),
           Reap(c, t),
           UNCHANGED <<state, detached, retcode_wait_queue, memory, thread_lock, heap, ret>>
    PROVE  IInv'
<1> USE DEF IInv, Reap, heap
<1>1. \A d \in Callers : d # c /\ pc[d] # "out" /\ arg[d] = t
                          => pc[d] = "woken" /\ ret[d] # "NO_ERROR"
  BY ReaperAssumption DEF CallerInv, Types, Doomed
<1>2. Types'
  BY DEF Types
<1>3. CallerInv'
  BY <1>1 DEF CallerInv, Types, Exists, Doomed, MemoryInv
<1>4. QueueInv'
  BY DEF QueueInv, Types
<1>5. MemoryInv'
  BY <1>1 DEF MemoryInv, Types, Doomed, Exists
<1>6. QED
  BY <1>2, <1>3, <1>4, <1>5

\* The steps of a thread, and of the heap for it.
LEMMA ThreadIInv ==
    ASSUME IInv, NEW t \in Threads, ThreadStep(t)
    PROVE  IInv'
<1> USE DEF IInv
<1>1. CASE thread_create(t)
  <2> USE <1>1 DEF thread_create, heap
  <2>1. Types'
    BY DEF Types
  <2>2. CallerInv'
    BY DEF CallerInv, Types, Exists, Doomed, MemoryInv
  <2>3. QueueInv'
    BY DEF QueueInv, Types
  <2>4. MemoryInv'
    BY DEF MemoryInv, Types, Doomed, Exists
  <2>5. QED
    BY <2>1, <2>2, <2>3, <2>4
<1>2. CASE thread_resume(t)
  <2> USE <1>2 DEF thread_resume, heap
  <2>1. Types'
    BY DEF Types
  <2>2. CallerInv'
    BY DEF CallerInv, Types, Exists, Doomed, MemoryInv
  <2>3. QueueInv'
    BY DEF QueueInv, Types
  <2>4. MemoryInv'
    BY DEF MemoryInv, Types, Doomed, Exists
  <2>5. QED
    BY <2>1, <2>2, <2>3, <2>4
<1>3. CASE thread_exit(t)
  <2> USE <1>3 DEF thread_exit, heap, wait_queue_wake_all
  <2>1. Types'
    <3>1. /\ state' \in [Threads -> {"NONE", "SUSPENDED", "RUNNING", "DEATH"}]
          /\ magic' \subseteq Threads
          /\ delayed_free_list' \subseteq Threads
      BY DEF Types
    <3>2. retcode_wait_queue' \in [Threads -> Seq(Callers)]
      <4>1. <<>> \in Seq(Callers)
        OBVIOUS
      <4>2. [retcode_wait_queue EXCEPT ![t] = <<>>] \in [Threads -> Seq(Callers)]
        BY <4>1, Zenon DEF Types
      <4>3. QED
        BY <4>2 DEF Types
    <3>3. pc' \in [Callers -> {"out", "blocked", "woken", "detaching", "freeing"}]
      BY DEF Types
    <3>4. ret' \in [Callers -> {"NO_ERROR", "ERR_TIMED_OUT", "ERR_THREAD_DETACHED"}]
      BY DEF Types
    <3>5. QED
      BY <3>1, <3>2, <3>3, <3>4 DEF Types
  <2>2. CallerInv'
    BY WokenSet DEF CallerInv, Types, Exists, Doomed, MemoryInv
  <2>3. QueueInv'
    BY WokenSet DEF QueueInv, Types
  <2>4. MemoryInv'
    BY WokenSet DEF MemoryInv, Types, Doomed, Exists
  <2>5. QED
    BY <2>1, <2>2, <2>3, <2>4
<1>4. CASE thread_exit_switch(t)
  <2> USE <1>4 DEF thread_exit_switch, heap
  <2>1. Types'
    BY DEF Types
  <2>2. CallerInv'
    BY DEF CallerInv, Types, Exists, Doomed, MemoryInv
  <2>3. QueueInv'
    BY DEF QueueInv, Types
  <2>4. MemoryInv'
    BY LifeAssumption, ThreadAssumption DEF MemoryInv, Types, Doomed, Exists
  <2>5. QED
    BY <2>1, <2>2, <2>3, <2>4
<1>5. CASE FreeDelayed(t)
  <2> USE <1>5 DEF FreeDelayed, HEAP_FREE, Freed, Unlocked
  <2>1. Doomed(t) /\ t \in to_free /\ t \notin delayed_free_list /\ thread_lock # t
    BY LifeAssumption, ThreadAssumption DEF MemoryInv
  <2>2. memory' = [memory EXCEPT ![t] = "freed"]
    BY <2>1 DEF Types, Doomed
  <2>3. memory'[t] = "freed" /\ \A u \in Threads \ {t} : memory'[u] = memory[u]
    BY <2>2 DEF Types
  <2>4. /\ to_free' = to_free \ {t}
        /\ UNCHANGED <<state, magic, detached, retcode_wait_queue, thread_lock,
                       delayed_free_list, pc, arg, ret>>
    OBVIOUS
  <2>5. Types'
    BY <2>2 DEF Types
  <2>6. CallerInv'
    BY ONLY IInv, <2>1, <2>3, <2>4 DEF IInv, CallerInv, Types, Exists, Doomed
  <2>7. QueueInv'
    BY DEF QueueInv, Types
  <2>8. MemoryInv'
    BY ONLY IInv, <2>1, <2>3, <2>4 DEF IInv, MemoryInv, Types, Doomed
  <2>9. QED
    BY <2>5, <2>6, <2>7, <2>8
<1>6. QED
  BY <1>1, <1>2, <1>3, <1>4, <1>5 DEF ThreadStep

\* thread_join up to its wait.
LEMMA JoinIInv ==
    ASSUME IInv, NEW c \in Callers, NEW t \in Threads,
           NEW timeout \in {"zero", "finite", "INFINITE_TIME"}, JoinBegin(c, t, timeout),
           t \in magic, c \in Reapers(t),
           pc[c] = "out" \/ (pc[c] = "detaching" /\ arg[c] = t /\ timeout = "zero")
    PROVE  IInv'
<1> USE DEF IInv
<1>1. UNCHANGED <<state, detached, memory, thread_lock, heap>>
  BY DEF JoinBegin
<1>2. CASE Return(c) /\ UNCHANGED <<magic, retcode_wait_queue, ret, timed>>
  <2> USE <1>1, <1>2 DEF Return, heap
  <2>1. Types'
    BY DEF Types
  <2>2. CallerInv'
    BY DEF CallerInv, Types, Exists, Doomed, MemoryInv
  <2>3. QueueInv'
    BY DEF QueueInv, Types
  <2>4. MemoryInv'
    BY DEF MemoryInv, Types, Doomed, Exists
  <2>5. QED
    BY <2>1, <2>2, <2>3, <2>4
<1>3. CASE /\ t \notin detached /\ state[t] = "DEATH"
           /\ Reap(c, t)
           /\ UNCHANGED <<retcode_wait_queue, ret, timed>>
  BY <1>1, <1>3, ReapIInv
<1>4. CASE /\ t \notin detached /\ state[t] # "DEATH" /\ timeout # "zero"
           /\ retcode_wait_queue' =
                [retcode_wait_queue EXCEPT ![t] = Append(retcode_wait_queue[t], c)]
           /\ pc' = [pc EXCEPT ![c] = "blocked"]
           /\ arg' = [arg EXCEPT ![c] = t]
           /\ ret' = [ret EXCEPT ![c] = "NO_ERROR"]
           /\ UNCHANGED magic
  <2> USE <1>1, <1>4 DEF heap
  <2>1. retcode_wait_queue[t] = <<>>
    BY ReaperAssumption DEF QueueInv, CallerInv
  <2>2. retcode_wait_queue' = [retcode_wait_queue EXCEPT ![t] = <<c>>]
    BY <2>1
  <2>3. Types'
    BY <2>2 DEF Types
  <2>4. CallerInv'
    BY <2>1, <2>2 DEF CallerInv, Types, Exists, Doomed, MemoryInv
  <2>5. QueueInv'
    BY <2>1, <2>2 DEF QueueInv, Types
  <2>6. MemoryInv'
    BY DEF MemoryInv, Types, Doomed, Exists
  <2>7. QED
    BY <2>3, <2>4, <2>5, <2>6
<1>5. QED
  BY <1>2, <1>3, <1>4 DEF JoinBegin

\* The other steps of a caller.
LEMMA CallerIInv ==
    ASSUME IInv, NEW c \in Callers, CallerStep(c)
    PROVE  IInv'
<1> USE DEF IInv
<1>1. ASSUME NEW t \in Threads, NEW timeout \in {"zero", "finite", "INFINITE_TIME"},
             thread_join(c, t, timeout)
      PROVE  IInv'
  <2>1. c \in Reapers(t) /\ t \in magic /\ pc[c] = "out"
    BY <1>1 DEF thread_join, MayCall, Reapers
  <2>2. QED
    BY <1>1, <2>1, JoinIInv DEF thread_join
<1>2. CASE thread_detach_join(c)
  BY <1>2, JoinIInv DEF thread_detach_join, CallerInv, Exists
<1>3. CASE thread_join_return(c)
  <2>1. CASE ret[c] = "NO_ERROR"
    BY <1>3, <2>1, ReapIInv DEF thread_join_return, CallerInv, Exists
  <2>2. CASE ret[c] # "NO_ERROR"
    <3> USE <1>3, <2>2 DEF thread_join_return, Return, heap
    <3>1. Types'
      BY DEF Types
    <3>2. CallerInv'
      BY DEF CallerInv, Types, Exists, Doomed, MemoryInv
    <3>3. QueueInv'
      BY DEF QueueInv, Types
    <3>4. MemoryInv'
      BY DEF MemoryInv, Types, Doomed, Exists
    <3>5. QED
      BY <3>1, <3>2, <3>3, <3>4
  <2>3. QED
    BY <2>1, <2>2
<1>4. CASE Timeout(c)
  <2> USE <1>4 DEF Timeout, heap
  <2>1. arg[c] \in Threads /\ retcode_wait_queue[arg[c]] = <<c>>
    BY DEF CallerInv
  <2>2. retcode_wait_queue' = [retcode_wait_queue EXCEPT ![arg[c]] = <<>>]
    <3>1. PICK i \in DOMAIN <<c>> :
             retcode_wait_queue' = [retcode_wait_queue EXCEPT ![arg[c]] = RemoveAt(<<c>>, i)]
      BY <2>1
    <3>2. QED
      BY <3>1, RemoveOnly
  <2>3. Types'
    BY <2>1, <2>2 DEF Types
  <2>4. CallerInv'
    BY <2>1, <2>2 DEF CallerInv, Types, Exists, Doomed, MemoryInv
  <2>5. QueueInv'
    BY <2>1, <2>2 DEF QueueInv, Types
  <2>6. MemoryInv'
    BY DEF MemoryInv, Types, Doomed, Exists
  <2>7. QED
    BY <2>3, <2>4, <2>5, <2>6
<1>5. ASSUME NEW t \in Threads, thread_detach(c, t) PROVE IInv'
  <2> USE <1>5 DEF thread_detach, heap, MayCall, DetachStatus
  <2>1. state[t] = "DEATH" => c \in Reapers(t)
    BY DEF Reapers
  <2>2. Types'
    BY <2>1, WokenSet DEF Types
  <2>3. CallerInv'
    BY <2>1, WokenSet DEF CallerInv, Types, Exists, Doomed, MemoryInv
  <2>4. QueueInv'
    BY <2>1, WokenSet DEF QueueInv, Types
  <2>5. MemoryInv'
    BY <2>1, WokenSet DEF MemoryInv, Types, Doomed, Exists
  <2>6. QED
    BY <2>2, <2>3, <2>4, <2>5
<1>6. CASE thread_join_free(c)
  <2> USE <1>6 DEF thread_join_free, Return, heap, HEAP_FREE, Freed, Unlocked
  <2>1. arg[c] \in Threads /\ Doomed(arg[c]) /\ arg[c] \notin delayed_free_list \cup to_free
    BY DEF CallerInv
  <2>2. memory' = [memory EXCEPT ![arg[c]] = "freed"]
    BY <2>1 DEF Types, Doomed
  <2>3. Types'
    BY <2>2 DEF Types
  <2>4. CallerInv'
    <3>1. /\ \A d \in Callers \ {c} : pc'[d] = pc[d] /\ arg'[d] = arg[d]
          /\ pc'[c] = "out"
          /\ UNCHANGED <<state, magic, detached, retcode_wait_queue, delayed_free_list, to_free, ret>>
      BY DEF Types
    <3>2. ASSUME NEW d \in Callers, pc[d] # "out", arg[d] = arg[c], d # c
          PROVE  ~Exists(arg[d]) /\ pc[d] # "freeing"
      BY <2>1, <3>2 DEF MemoryInv, Exists, Doomed, CallerInv
    <3>3. QED
      BY ONLY IInv, <2>1, <2>2, <3>1, <3>2 DEF IInv, CallerInv, Types, Exists, Doomed
  <2>5. QueueInv'
    BY DEF QueueInv, Types
  <2>6. MemoryInv'
    <3>1. \A d, e \in Callers :
             pc'[d] = "freeing" /\ pc'[e] = "freeing" /\ arg'[d] = arg'[e] => d = e
      BY DEF MemoryInv, Types
    <3>2. \A t \in delayed_free_list \cup to_free : Doomed(t)'
      BY <2>1, <2>2 DEF MemoryInv, Types, Doomed
    <3>3. \A t \in Threads : thread_lock # t
      BY LifeAssumption, ThreadAssumption
    <3>4. QED
      BY <2>1, <2>2, <3>1, <3>2, <3>3 DEF MemoryInv, Types, Doomed
  <2>7. QED
    BY <2>3, <2>4, <2>5, <2>6
<1>7. QED
  BY <1>1, <1>2, <1>3, <1>4, <1>5, <1>6 DEF CallerStep

\* The invariant is inductive.
THEOREM ThreadLifeInvariant == Spec => []IInv
<1>1. Init => IInv
  BY LifeAssumption, ThreadAssumption DEF Init, IInv, Types, CallerInv, QueueInv, MemoryInv
<1>2. IInv /\ [Next]_vars => IInv'
  <2> SUFFICES ASSUME IInv, [Next]_vars PROVE IInv'
    OBVIOUS
  <2>1. CASE UNCHANGED vars
    BY <2>1 DEF vars, heap, IInv, Types, CallerInv, QueueInv, MemoryInv, Exists, Doomed
  <2>2. CASE heap_free_delayed_list
    <3> USE <2>2 DEF heap_free_delayed_list, IInv
    <3>1. Types'
      BY DEF Types
    <3>2. CallerInv'
      BY DEF CallerInv, Types, Exists, Doomed, MemoryInv
    <3>3. QueueInv'
      BY DEF QueueInv, Types
    <3>4. MemoryInv'
      BY DEF MemoryInv, Types, Doomed, Exists
    <3>5. QED
      BY <3>1, <3>2, <3>3, <3>4
  <2>3. QED
    BY <2>1, <2>2, ThreadIInv, CallerIInv DEF Next
<1>3. QED
  BY <1>1, <1>2, PTL DEF Spec

\* A joiner woken by the exit of its thread finds the thread_t there and dead, however
\* late it runs: the assertions of thread_join hold.
THEOREM ThreadLifeJoinFindsDeadThread == Spec => []JoinFindsDeadThread
<1>1. IInv => JoinFindsDeadThread
  BY DEF IInv, CallerInv, Exists, JoinFindsDeadThread
<1>2. QED
  BY <1>1, ThreadLifeInvariant, PTL

\* Structure and stack are freed once, not while the thread may still run on them and
\* not while somebody waits in its queue.
THEOREM ThreadLifeFreedInTime == Spec => []FreedInTime
<1>1. IInv => FreedInTime
  <2> SUFFICES ASSUME IInv, NEW t \in Threads, memory[t] \in {"freed", "freed twice"}
               PROVE  /\ memory[t] = "freed" /\ state[t] = "DEATH"
                      /\ thread_lock # t
                      /\ t \notin magic /\ retcode_wait_queue[t] = <<>>
    BY DEF FreedInTime
  <2>1. memory[t] = "freed"
    BY DEF IInv, Types
  <2>2. state[t] = "DEATH" /\ t \notin magic /\ thread_lock # t
    BY <2>1 DEF IInv, MemoryInv
  <2>3. retcode_wait_queue[t] = <<>>
    BY <2>1 DEF IInv, QueueInv, CallerInv, Exists
  <2>4. QED
    BY <2>1, <2>2, <2>3
<1>2. QED
  BY <1>1, ThreadLifeInvariant, PTL
-----------------------------------------------------------------------------
(***************************************************************************)
(* Module TimedWait: on one cpu, a timeout never ends a wait it was not    *)
(* set for.                                                                *)
(***************************************************************************)

OneCpu == \E c \in CPUs : CPUs = {c}

\* A timer in the queue, or in the hands of timer_tick, belongs to the latest
\* wait of its thread; once that wait has returned, the timer is not queued.
TimersCurrent ==
    /\ \A t \in timer : has_timeout[t] /\ state[t] # "RUNNING"
    /\ \A c \in CPUs : handler[c] # NoThread =>
                            has_timeout[handler[c]] /\ state[handler[c]] # "RUNNING"

TimedInv == TypeOK /\ TimersCurrent /\ InfiniteWaitsLast

\* No wait has begun at the start.
LEMMA TimedInit == WaitInit => TimedInv
  BY DEF WaitInit, TimedInv, TypeOK, TimersCurrent, InfiniteWaitsLast

(***************************************************************************)
(* The one step that can go wrong is a new wait: on one cpu no handler is  *)
(* under way then, and no timer of an earlier wait is left.                *)
(***************************************************************************)
LEMMA TimedBlock ==
  ASSUME OneCpu, TimedInv, NEW t \in Threads, NEW timeout \in BOOLEAN,
         wait_queue_block(t, timeout)
  PROVE  TimedInv'
<1> USE DEF TimedInv, wait_queue_block
<1>1. \A c \in CPUs : handler[c] = NoThread
  BY DEF SomeCpuFree, OneCpu
<1>2. t \notin timer
  BY DEF TimersCurrent
<1>3. TypeOK'
  BY DEF TypeOK
<1>4. TimersCurrent'
  <2>1. \A u \in timer' : has_timeout'[u] /\ state'[u] # "RUNNING"
    BY <1>2 DEF TypeOK, TimersCurrent
  <2>2. \A c \in CPUs : handler'[c] # NoThread =>
                            has_timeout'[handler'[c]] /\ state'[handler'[c]] # "RUNNING"
    BY <1>1
  <2> QED
    BY <2>1, <2>2 DEF TimersCurrent
<1>5. InfiniteWaitsLast'
  BY DEF TypeOK, InfiniteWaitsLast
<1> QED
  BY <1>3, <1>4, <1>5

\* On one cpu every step keeps the timers those of the current waits.
LEMMA TimedNext == OneCpu /\ TimedInv /\ [WaitNext]_wait_vars => TimedInv'
<1> SUFFICES ASSUME OneCpu, TimedInv, [WaitNext]_wait_vars
             PROVE  TimedInv'
  OBVIOUS
<1>0. NoThread \notin Threads
  BY ThreadAssumption
<1> USE <1>0 DEF TimedInv
<1>1. ASSUME NEW t \in Threads, NEW timeout \in BOOLEAN, wait_queue_block(t, timeout)
      PROVE  TimedInv'
  BY <1>1, TimedBlock
<1>2. ASSUME NEW t \in Threads, wait_queue_wake_one(t)
      PROVE  TimedInv'
  BY <1>2 DEF wait_queue_wake_one, TypeOK, TimersCurrent, InfiniteWaitsLast
<1>3. ASSUME NEW t \in Threads, wait_queue_block_return(t)
      PROVE  TimedInv'
  <2>1. TypeOK'
    BY <1>3 DEF wait_queue_block_return, timer_cancel, TypeOK
  <2>0. \A c \in CPUs : handler[c] = NoThread
    BY <1>3 DEF wait_queue_block_return, SomeCpuFree, OneCpu
  <2>2. TimersCurrent'
    BY <1>3, <2>0 DEF wait_queue_block_return, timer_cancel, TypeOK, TimersCurrent
  <2>3. InfiniteWaitsLast'
    BY <1>3 DEF wait_queue_block_return, InfiniteWaitsLast
  <2> QED
    BY <2>1, <2>2, <2>3
<1>4. ASSUME NEW c \in CPUs, NEW t \in Threads, timer_tick(c, t)
      PROVE  TimedInv'
  <2>1. TypeOK'
    BY <1>4 DEF timer_tick, TypeOK
  <2>2. TimersCurrent'
    BY <1>4 DEF timer_tick, TypeOK, TimersCurrent
  <2>3. InfiniteWaitsLast'
    BY <1>4 DEF timer_tick, InfiniteWaitsLast
  <2> QED
    BY <2>1, <2>2, <2>3
<1>5. ASSUME NEW c \in CPUs, wait_queue_timeout_handler(c)
      PROVE  TimedInv'
  <2> USE DEF wait_queue_timeout_handler, thread_unblock_from_wait_queue
  <2>0. handler[c] \in Threads /\ has_timeout[handler[c]]
    BY <1>5 DEF TypeOK, TimersCurrent
  <2>1. TypeOK'
    BY <1>5, <2>0 DEF TypeOK
  <2>2. TimersCurrent'
    BY <1>5, <2>0 DEF TypeOK, TimersCurrent
  <2>3. InfiniteWaitsLast'
    BY <1>5, <2>0 DEF TypeOK, InfiniteWaitsLast
  <2> QED
    BY <2>1, <2>2, <2>3
<1>6. CASE UNCHANGED wait_vars
  BY <1>6 DEF wait_vars, TypeOK, TimersCurrent, InfiniteWaitsLast
<1> QED
  BY <1>1, <1>2, <1>3, <1>4, <1>5, <1>6 DEF WaitNext

(***************************************************************************)
(* With one cpu, a wait without a timeout never returns ERR_TIMED_OUT, for *)
(* any number of threads (wait_queue_block, wait_queue_timeout_handler).   *)
(***************************************************************************)
THEOREM UniprocessorWaits == ASSUME OneCpu PROVE WaitSpec => []InfiniteWaitsLast
<1>1. OneCpu
  OBVIOUS
<1>2. TimedInv /\ [WaitNext]_wait_vars => TimedInv'
  BY <1>1, TimedNext
<1>3. TimedInv => InfiniteWaitsLast
  BY DEF TimedInv
<1> QED
  BY TimedInit, <1>2, <1>3, PTL DEF WaitSpec

(***************************************************************************)
(* With one cpu, the timer on the stack of wait_queue_block is out of use  *)
(* when it returns, for any number of threads (timer_cancel, timer_tick).  *)
(***************************************************************************)
THEOREM UniprocessorFrames == ASSUME OneCpu PROVE WaitSpec => []TimerDiesWithFrame
<1>1. OneCpu
  OBVIOUS
<1>2. TimedInv /\ [WaitNext]_wait_vars => TimedInv'
  BY <1>1, TimedNext
<1>3. TimedInv => TimerDiesWithFrame
  BY ThreadAssumption DEF TimedInv, TimersCurrent, TimerDiesWithFrame
<1> QED
  BY TimedInit, <1>2, <1>3, PTL DEF WaitSpec
=============================================================================
