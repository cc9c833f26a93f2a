---------------------------- MODULE SemaphoreTimerProofs ----------------------------
(***************************************************************************)
(* Module Semaphore for every finite set of threads, every initial value   *)
(* and every bound on the stock, module Event for every finite set of      *)
(* threads, and module Timer for every set of timers on one cpu, every     *)
(* width of the clock and every delay below half of it.                    *)
(***************************************************************************)
EXTENDS Waiters, Timer, WaitQueueProofs, ListProofs, FiniteSetTheorems, TLAPS

\* The types, the exactness of the queue and, while the semaphore exists, that no more
\* units have been given out than posted.
IInv ==
    /\ WQTypeOK
    /\ QueueExact
    /\ count \in Int
    /\ magic \in BOOLEAN
    /\ magic => Stock >= 0

-----------------------------------------------------------------------------
\* Pending is a finite set, so Stock is a number.
LEMMA PendingFinite ==
    /\ IsFiniteSet(Pending)
    /\ Cardinality(Pending) \in Nat
<1>1. Pending \subseteq Threads
  BY DEF Pending
<1>2. QED
  BY <1>1, ThreadsAssumption, FS_Subset, FS_CardinalityType

\* A thread that blocks joins those who are owed a unit: the stock is as it was.
LEMMA PendingGrows ==
    ASSUME count \in Int, NEW t, t \notin Pending, Pending' = Pending \cup {t},
           count' = count - 1
    PROVE  Stock' = Stock
<1>1. Cardinality(Pending') = Cardinality(Pending) + 1
  BY PendingFinite, FS_AddElement
<1>2. QED
  BY <1>1, PendingFinite DEF Stock

\* A thread that backs out, or is handed a unit, leaves them: the stock is as it was.
LEMMA PendingShrinks ==
    ASSUME count \in Int, NEW t, t \in Pending, Pending' = Pending \ {t},
           count' = count + 1
    PROVE  Stock' = Stock
<1>1. Cardinality(Pending') = Cardinality(Pending) - 1
  BY PendingFinite, FS_RemoveElement
<1>2. QED
  BY <1>1, PendingFinite DEF Stock

\* What one sem_post does to the queue, to the stock and to who has been handed a unit.
LEMMA PostStep ==
    ASSUME IInv, sem_post
    PROVE  /\ IInv'
           /\ magic'
           /\ \/ /\ Stock' = Stock + 1
                 /\ UNCHANGED wqvars
              \/ /\ list # <<>>
                 /\ WakesWaiter
                 /\ Stock' = Stock
                 /\ timer' = timer
                 /\ \E h \in Threads :
                       /\ state[h] = "BLOCKED"
                       /\ state' = [u \in Threads |-> IF u = h THEN "READY" ELSE state[u]]
                       /\ wait_queue_block_ret' =
                            [u \in Threads |-> IF u = h THEN "NO_ERROR"
                                               ELSE wait_queue_block_ret[u]]
<1> USE DEF IInv
<1>1. magic /\ magic' = magic /\ count' = count + 1
  BY DEF sem_post
<1>2. CASE UNCHANGED wqvars
  <2>1. Pending' = Pending
    BY <1>2 DEF Pending, GaveUp, wqvars
  <2>2. Stock' = Stock + 1
    BY <1>1, <2>1, PendingFinite DEF Stock
  <2>3. WQTypeOK' /\ QueueExact'
    BY <1>2 DEF WQTypeOK, QueueExact, wqvars
  <2>4. Stock \in Int
    BY PendingFinite DEF Stock
  <2>5. QED
    BY <1>1, <1>2, <2>2, <2>3, <2>4
<1>3. CASE list # <<>> /\ WakesWaiter /\ wait_queue_wake_one("NO_ERROR")
  <2> DEFINE h == Head(list)
  <2>1. /\ WQTypeOK'
        /\ h \in Threads /\ state[h] = "BLOCKED"
        /\ state' = [u \in Threads |-> IF u = h THEN "READY" ELSE state[u]]
        /\ wait_queue_block_ret' =
             [u \in Threads |-> IF u = h THEN "NO_ERROR" ELSE wait_queue_block_ret[u]]
        /\ QueueExact'
    BY <1>3, WakeOneHead, WakeOneQueue DEF Status
  <2>2. timer' = timer
    BY <1>3 DEF wait_queue_wake_one
  <2> HIDE DEF h
  <2>3. h \in Pending /\ Pending' = Pending \ {h}
    BY <2>1 DEF Pending, GaveUp
  <2>4. Stock' = Stock
    BY <1>1, <2>3, PendingShrinks
  <2>5. QED
    BY <1>1, <1>3, <2>1, <2>2, <2>4
<1>4. QED
  BY <1>2, <1>3 DEF sem_post, wait_queue_wake_one

\* What sem_timedwait does up to its return or its wait_queue_block: it takes a unit
\* of the stock, or fails, or blocks and leaves the stock as it was.
LEMMA WaitStep ==
    ASSUME IInv, NEW t \in Threads, NEW timeout \in Timeouts, sem_timedwait(t, timeout)
    PROVE  /\ IInv'
           /\ magic /\ magic'
           /\ \/ Stock > 0 /\ Stock' = Stock - 1 /\ UNCHANGED wqvars
              \/ UNCHANGED <<wqvars, count>>
              \/ /\ count <= 0
                 /\ Stock' = Stock
                 /\ state[t] = "RUNNING"
                 /\ wait_queue_block(t, timeout)
<1> USE DEF IInv
<1>1. magic /\ magic' = magic /\ state[t] = "RUNNING"
  BY DEF sem_timedwait, Usable
<1>2. Stock \in Int /\ Cardinality(Pending) >= 0
  BY PendingFinite DEF Stock
<1>3. CASE count - 1 >= 0 /\ count' = count - 1 /\ UNCHANGED wqvars
  <2>1. Pending' = Pending
    BY <1>3 DEF Pending, GaveUp, wqvars
  <2>2. Stock > 0 /\ Stock' = Stock - 1
    BY <1>3, <2>1, PendingFinite DEF Stock
  <2>3. WQTypeOK' /\ QueueExact'
    BY <1>3 DEF WQTypeOK, QueueExact, wqvars
  <2>4. QED
    BY <1>1, <1>2, <1>3, <2>2, <2>3
<1>4. CASE UNCHANGED <<wqvars, count>>
  <2>1. WQTypeOK' /\ QueueExact' /\ Stock' = Stock
    BY <1>4 DEF WQTypeOK, QueueExact, wqvars, Stock, Pending, GaveUp
  <2>2. QED
    BY <1>1, <1>4, <2>1
<1>5. CASE count - 1 < 0 /\ count' = count - 1 /\ wait_queue_block(t, timeout)
  <2>1. QueueExact' /\ list' \in Seq(Threads)
    BY <1>1, <1>5, BlockQueue
  <2>2. WQTypeOK'
    BY <1>5, <2>1 DEF WQTypeOK, wait_queue_block, Status
  <2>3. t \notin Pending /\ Pending' = Pending \cup {t}
    BY <1>1, <1>5 DEF Pending, GaveUp, wait_queue_block, WQTypeOK
  <2>4. Stock' = Stock
    BY <1>5, <2>3, PendingGrows
  <2>5. QED
    BY <1>1, <1>5, <2>1, <2>2, <2>4
<1>6. QED
  BY <1>3, <1>4, <1>5 DEF sem_timedwait

\* What the return of a blocked wait does: it never changes the stock.
LEMMA ReturnStep ==
    ASSUME IInv, NEW t \in Threads, sem_wait_return(t)
    PROVE  /\ IInv'
           /\ state[t] = "READY"
           /\ state' = [state EXCEPT ![t] = "RUNNING"]
           /\ timer' = [timer EXCEPT ![t] = FALSE]
           /\ UNCHANGED <<list, wait_queue_block_ret, magic>>
           /\ Stock' = Stock
<1> USE DEF IInv
<1>1. /\ state[t] = "READY"
      /\ state' = [state EXCEPT ![t] = "RUNNING"]
      /\ timer' = [timer EXCEPT ![t] = FALSE]
      /\ UNCHANGED <<list, wait_queue_block_ret, magic>>
  BY DEF sem_wait_return, wait_queue_block_return
<1>2. WQTypeOK' /\ QueueExact'
  BY <1>1 DEF WQTypeOK, QueueExact
<1>3. CASE GaveUp(t)
  <2>1. t \in Pending /\ Pending' = Pending \ {t}
    BY <1>1, <1>3 DEF Pending, GaveUp, WQTypeOK
  <2>2. count' = count + 1
    BY <1>3 DEF sem_wait_return, GaveUp, Backout
  <2>3. Stock' = Stock
    BY <2>1, <2>2, PendingShrinks
  <2>4. QED
    BY <1>1, <1>2, <2>2, <2>3
<1>4. CASE ~GaveUp(t)
  <2>1. Pending' = Pending
    BY <1>1, <1>4 DEF Pending, GaveUp, WQTypeOK
  <2>2. count' = count
    BY <1>1, <1>4 DEF sem_wait_return, GaveUp
  <2>3. Stock' = Stock
    BY <2>1, <2>2 DEF Stock
  <2>4. QED
    BY <1>1, <1>2, <2>2, <2>3
<1>5. QED
  BY <1>3, <1>4

\* What sem_trywait does: it takes a unit of the stock, or nothing.
LEMMA TryStep ==
    ASSUME IInv, NEW t \in Threads, sem_trywait(t)
    PROVE  /\ IInv'
           /\ magic /\ magic'
           /\ UNCHANGED wqvars
           /\ Stock' = Stock \/ (Stock > 0 /\ Stock' = Stock - 1)
<1> USE DEF IInv
<1>1. magic /\ magic' = magic /\ UNCHANGED wqvars
  BY DEF sem_trywait, Usable
<1>2. WQTypeOK' /\ QueueExact' /\ Pending' = Pending
  BY <1>1 DEF WQTypeOK, QueueExact, wqvars, Pending, GaveUp
<1>3. count' \in Int /\ (count' = count \/ (count > 0 /\ count' = count - 1))
  BY DEF sem_trywait
<1>4. Stock' = Stock \/ (Stock > 0 /\ Stock' = Stock - 1)
  BY <1>2, <1>3, PendingFinite DEF Stock
<1>5. Stock \in Int
  BY PendingFinite DEF Stock
<1>6. QED
  BY <1>1, <1>2, <1>3, <1>4, <1>5

\* What sem_destroy does: everybody in the queue leaves it without a unit.
LEMMA DestroyStep ==
    ASSUME IInv, NEW t \in Threads, sem_destroy(t)
    PROVE  /\ IInv'
           /\ magic /\ ~magic'
           /\ list' = <<>>
           /\ timer' = timer
           /\ \A u \in Threads :
                 IF state[u] = "BLOCKED"
                 THEN state'[u] = "READY" /\ wait_queue_block_ret'[u] = "ERR_OBJECT_DESTROYED"
                 ELSE /\ state'[u] = state[u]
                      /\ wait_queue_block_ret'[u] = wait_queue_block_ret[u]
<1> USE DEF IInv
<1>1. magic /\ magic' = FALSE /\ count' = 0 /\ wait_queue_wake_all("ERR_OBJECT_DESTROYED")
  BY DEF sem_destroy, Usable, wait_queue_destroy
<1>2. list' = <<>> /\ timer' = timer
  BY <1>1 DEF wait_queue_wake_all
<1>3. "ERR_OBJECT_DESTROYED" \in Status
  BY DEF Status
<1>4. /\ WQTypeOK' /\ QueueExact'
      /\ \A u \in Threads :
            IF state[u] = "BLOCKED"
            THEN state'[u] = "READY" /\ wait_queue_block_ret'[u] = "ERR_OBJECT_DESTROYED"
            ELSE /\ state'[u] = state[u]
                 /\ wait_queue_block_ret'[u] = wait_queue_block_ret[u]
  BY <1>1, <1>3, WakeAllQueue
<1>5. magic' \in BOOLEAN /\ ~magic'
  BY <1>1, Zenon
<1>6. count' \in Int
  BY <1>1
<1>7. IInv'
  BY <1>4, <1>5, <1>6, Zenon
<1>8. QED
  BY <1>1, <1>2, <1>4, <1>5, <1>7, Zenon

\* What a timeout does: the thread leaves the queue and stays owed until it has run.
LEMMA TimeoutStep ==
    ASSUME IInv, NEW t \in Threads, Timeout(t)
    PROVE  /\ IInv'
           /\ timer[t]
           /\ Stock' = Stock
           /\ UNCHANGED <<count, magic>>
           /\ \A u \in Threads : HandedTo(u)' <=> HandedTo(u)
<1> USE DEF IInv
<1>1. timer[t] /\ timer' = [timer EXCEPT ![t] = FALSE] /\ UNCHANGED <<count, magic>>
  BY DEF Timeout, wait_queue_timeout_handler
<1>2. CASE UNCHANGED <<list, state, wait_queue_block_ret>>
  <2>1. WQTypeOK' /\ QueueExact'
    BY <1>1, <1>2 DEF WQTypeOK, QueueExact
  <2>2. Stock' = Stock
    BY <1>1, <1>2 DEF Stock, Pending, GaveUp
  <2>3. QED
    BY <1>1, <1>2, <2>1, <2>2 DEF HandedTo
<1>3. CASE state[t] = "BLOCKED" /\ thread_unblock_from_wait_queue(t, "ERR_TIMED_OUT")
  <2>1. list' \in Seq(Threads) /\ QueueExact'
    BY <1>3, UnblockQueue DEF Status
  <2>2. /\ state' = [u \in Threads |-> IF u = t THEN "READY" ELSE state[u]]
        /\ wait_queue_block_ret' =
             [u \in Threads |-> IF u = t THEN "ERR_TIMED_OUT" ELSE wait_queue_block_ret[u]]
    BY <1>3 DEF thread_unblock_from_wait_queue, Unblock
  <2>3. WQTypeOK'
    BY <1>1, <2>1, <2>2 DEF WQTypeOK, Status
  <2>4. Pending' = Pending
    BY <1>3, <2>2 DEF Pending, GaveUp
  <2>5. Stock' = Stock
    BY <1>1, <2>4 DEF Stock
  <2>6. QED
    BY <1>1, <1>3, <2>1, <2>2, <2>3, <2>5 DEF HandedTo
<1>4. QED
  BY <1>2, <1>3 DEF Timeout, wait_queue_timeout_handler
-----------------------------------------------------------------------------
\* The invariant is inductive.
THEOREM SemaphoreInvariant == Spec => []IInv
<1>1. Init => IInv
  <2> SUFFICES ASSUME Init PROVE IInv
    OBVIOUS
  <2> USE SemaphoreAssumption DEF Init, wait_queue_init, sem_init
  <2>1. Pending = {}
    BY DEF Pending, GaveUp
  <2>2. Stock = InitialValue
    BY <2>1, FS_EmptySet DEF Stock
  <2>3. WQTypeOK /\ QueueExact
    BY DEF WQTypeOK, QueueExact, Status
  <2>4. QED
    BY <2>2, <2>3 DEF IInv
<1>2. IInv /\ [Next]_vars => IInv'
  <2> SUFFICES ASSUME IInv, [Next]_vars PROVE IInv'
    OBVIOUS
  <2>1. CASE UNCHANGED vars
    BY <2>1 DEF vars, IInv, WQTypeOK, QueueExact, Stock, Pending, GaveUp
  <2>2. CASE sem_post
    BY <2>2, PostStep
  <2>3. ASSUME NEW t \in Threads, ThreadStep(t) PROVE IInv'
    BY <2>3, WaitStep, ReturnStep, TryStep, DestroyStep, TimeoutStep
       DEF ThreadStep, sem_wait, WaitTimeouts, Timeouts
  <2>4. QED
    BY <2>1, <2>2, <2>3 DEF Next
<1>3. QED
  BY <1>1, <1>2, PTL DEF Spec

\* The semaphore implements the counting semaphore: every step of it posts a unit,
\* hands one over, takes one, returns one or destroys the semaphore, or changes nothing
\* that a client can tell.  A wait that times out, and the time between its timeout and
\* its backout in particular, loses no unit and invents none.
THEOREM SemaphoreRefinement == Spec => ImplementsCountingSemaphore
<1>1. Init => CS!Init
  <2> SUFFICES ASSUME Init PROVE CS!Init
    OBVIOUS
  <2> USE SemaphoreAssumption DEF Init, wait_queue_init, sem_init
  <2>1. Pending = {} /\ {t \in Threads : HandedTo(t)} = {}
    BY DEF Pending, GaveUp, HandedTo
  <2>2. Stock = InitialValue
    BY <2>1, FS_EmptySet DEF Stock
  <2>3. QED
    BY <2>1, <2>2 DEF CS!Init
<1>2. IInv /\ [Next]_vars => [CS!Next]_CS!vars
  <2> DEFINE value == IF magic THEN Stock ELSE 0
             got == {t \in Threads : HandedTo(t)}
  <2> SUFFICES ASSUME IInv, [Next]_vars PROVE CS!Next \/ UNCHANGED <<value, got, magic>>
    BY DEF CS!vars
  <2>1. CASE UNCHANGED vars
    BY <2>1 DEF vars, Stock, Pending, GaveUp, HandedTo
  <2>2. CASE sem_post
    <3>1. magic /\ magic' = magic
      BY <2>2 DEF sem_post
    <3>2. CASE Stock' = Stock + 1 /\ UNCHANGED wqvars
      <4>1. CS!Post
        BY <3>1, <3>2 DEF CS!Post, HandedTo, wqvars
      <4>2. QED
        BY <4>1 DEF CS!Next
    <3>3. ASSUME Stock' = Stock,
                 NEW h \in Threads, state[h] = "BLOCKED",
                 state' = [u \in Threads |-> IF u = h THEN "READY" ELSE state[u]],
                 wait_queue_block_ret' =
                   [u \in Threads |-> IF u = h THEN "NO_ERROR" ELSE wait_queue_block_ret[u]]
          PROVE  CS!PostTo(h)
      <4>1. h \notin got /\ got' = got \cup {h}
        BY <3>3 DEF HandedTo
      <4>2. QED
        BY <3>1, <3>3, <4>1 DEF CS!PostTo
    <3>4. QED
      BY <2>2, <3>2, <3>3, PostStep DEF CS!Next
  <2>3. ASSUME NEW t \in Threads, NEW timeout \in Timeouts, sem_timedwait(t, timeout)
        PROVE  CS!Next \/ UNCHANGED <<value, got, magic>>
    <3>1. magic /\ magic' = magic
      BY <2>3 DEF sem_timedwait, Usable
    <3>2. CASE Stock > 0 /\ Stock' = Stock - 1 /\ UNCHANGED wqvars
      <4>1. CS!Take
        BY <3>1, <3>2 DEF CS!Take, HandedTo, wqvars
      <4>2. QED
        BY <4>1 DEF CS!Next
    <3>3. CASE UNCHANGED <<wqvars, count>>
      BY <3>1, <3>3 DEF wqvars, Stock, Pending, GaveUp, HandedTo
    <3>4. CASE Stock' = Stock /\ state[t] = "RUNNING" /\ wait_queue_block(t, timeout)
      <4>1. got' = got
        BY <3>4 DEF HandedTo, wait_queue_block, IInv, WQTypeOK
      <4>2. QED
        BY <3>1, <3>4, <4>1
    <3>5. QED
      BY <2>3, <3>2, <3>3, <3>4, WaitStep
  <2>4. ASSUME NEW t \in Threads, sem_wait_return(t)
        PROVE  CS!Next \/ UNCHANGED <<value, got, magic>>
    <3>1. /\ state[t] = "READY"
          /\ state' = [state EXCEPT ![t] = "RUNNING"]
          /\ UNCHANGED <<wait_queue_block_ret, magic>>
          /\ Stock' = Stock
      BY <2>4, ReturnStep
    <3>2. CASE HandedTo(t)
      <4>1. t \in got /\ got' = got \ {t}
        BY <3>1, <3>2 DEF HandedTo, IInv, WQTypeOK
      <4>2. CS!Return(t)
        BY <3>1, <4>1 DEF CS!Return
      <4>3. QED
        BY <4>2 DEF CS!Next
    <3>3. CASE ~HandedTo(t)
      <4>1. got' = got
        BY <3>1, <3>3 DEF HandedTo, IInv, WQTypeOK
      <4>2. QED
        BY <3>1, <4>1
    <3>4. QED
      BY <3>2, <3>3
  <2>5. ASSUME NEW t \in Threads, sem_trywait(t)
        PROVE  CS!Next \/ UNCHANGED <<value, got, magic>>
    <3>1. magic /\ magic' = magic /\ got' = got
      BY <2>5 DEF sem_trywait, Usable, HandedTo, wqvars
    <3>2. CASE Stock > 0 /\ Stock' = Stock - 1
      <4>1. CS!Take
        BY <3>1, <3>2 DEF CS!Take
      <4>2. QED
        BY <4>1 DEF CS!Next
    <3>3. QED
      BY <2>5, <3>1, <3>2, TryStep
  <2>6. ASSUME NEW t \in Threads, sem_destroy(t)
        PROVE  CS!Next
    <3>1. magic /\ magic' = FALSE
      BY <2>6 DEF sem_destroy, Usable
    <3>2. got' = got
      BY <2>6, DestroyStep DEF HandedTo
    <3>3. CS!Destroy
      BY <3>1, <3>2 DEF CS!Destroy
    <3>4. QED
      BY <3>3 DEF CS!Next
  <2>7. ASSUME NEW t \in Threads, Timeout(t)
        PROVE  UNCHANGED <<value, got, magic>>
    BY <2>7, TimeoutStep
  <2>8. QED
    BY <2>1, <2>2, <2>3, <2>4, <2>5, <2>6, <2>7
       DEF Next, ThreadStep, sem_wait, WaitTimeouts, Timeouts
<1>3. QED
  BY <1>1, <1>2, SemaphoreInvariant, PTL DEF Spec, ImplementsCountingSemaphore, CS!Spec
-----------------------------------------------------------------------------
\* What holds besides when nobody bounds a wait: no timer is set, and so nobody is owed
\* a unit but those in the queue.
UntimedInv ==
    ~bounded =>
    /\ \A t \in Threads : ~timer[t] /\ wait_queue_block_ret[t] # "ERR_TIMED_OUT"
    /\ NoIdleUnit

\* Without bounded waits nobody waits while a unit is in stock: sem_post wakes whenever
\* somebody waits.
THEOREM SemaphoreNoIdleUnit == Spec => []NoIdleUnit
<1>1. Init => UntimedInv
  BY DEF Init, wait_queue_init, UntimedInv, NoIdleUnit
<1>2. IInv /\ UntimedInv /\ [Next]_vars => UntimedInv'
  <2> SUFFICES ASSUME IInv, UntimedInv, [Next]_vars, ~bounded, ~bounded'
               PROVE  UntimedInv'
    BY DEF Next, vars, UntimedInv
  <2> USE DEF IInv
  <2>1. CASE UNCHANGED vars
    BY <2>1 DEF vars, UntimedInv, NoIdleUnit, Stock, Pending, GaveUp
  <2>2. CASE sem_post
    <3>1. magic /\ IInv'
      BY <2>2, PostStep DEF sem_post
    <3>2. CASE Stock' = Stock + 1 /\ UNCHANGED wqvars
      <4>1. CASE list = <<>>
        BY <3>2, <4>1 DEF UntimedInv, NoIdleUnit, wqvars
      <4>2. CASE list # <<>>
        <5>1. PICK u \in Threads : state[u] = "BLOCKED"
          BY <4>2, EmptyQueue
        <5>2. Cardinality(Pending) # 0
          BY <5>1, PendingFinite, FS_EmptySet DEF Pending
        <5>3. WakesWaiter
          BY <3>1, <4>2, <5>2, PendingFinite DEF UntimedInv, NoIdleUnit, Stock, WakesWaiter
        <5>4. list' = Tail(list)
          BY <2>2, <4>2, <5>3 DEF sem_post, wait_queue_wake_one
        <5>5. FALSE
          BY <3>2, <4>2, <5>4, HeadTailProperties DEF wqvars, WQTypeOK
        <5>6. QED
          BY <5>5
      <4>3. QED
        BY <4>1, <4>2
    <3>3. ASSUME list # <<>>, Stock' = Stock, timer' = timer,
                 NEW h \in Threads,
                 wait_queue_block_ret' =
                   [u \in Threads |-> IF u = h THEN "NO_ERROR" ELSE wait_queue_block_ret[u]]
          PROVE  UntimedInv'
      BY <3>1, <3>3 DEF UntimedInv, NoIdleUnit
    <3>4. QED
      BY <2>2, <3>2, <3>3, PostStep
  <2>3. ASSUME NEW t \in Threads, NEW timeout \in Timeouts, timeout # "finite",
               sem_timedwait(t, timeout)
        PROVE  UntimedInv'
    <3>1. magic /\ magic' = magic
      BY <2>3 DEF sem_timedwait, Usable
    <3>2. CASE Stock > 0 /\ Stock' = Stock - 1 /\ UNCHANGED wqvars
      BY <3>1, <3>2 DEF UntimedInv, NoIdleUnit, wqvars
    <3>3. CASE UNCHANGED <<wqvars, count>>
      BY <3>1, <3>3 DEF UntimedInv, NoIdleUnit, wqvars, Stock, Pending, GaveUp
    <3>4. CASE /\ count <= 0
               /\ Stock' = Stock
               /\ wait_queue_block(t, timeout)
               /\ timeout = "INFINITE_TIME"
      <4>1. \A u \in Threads : ~timer'[u] /\ wait_queue_block_ret'[u] # "ERR_TIMED_OUT"
        BY <3>4 DEF wait_queue_block, UntimedInv, WQTypeOK
      <4>2. CASE list # <<>>
        BY <3>1, <3>4, <4>1, <4>2 DEF UntimedInv, NoIdleUnit
      <4>3. CASE list = <<>>
        <5>1. Pending = {}
          BY <4>3, EmptyQueue DEF Pending, GaveUp, UntimedInv
        <5>2. Stock = 0
          BY <3>1, <3>4, <5>1, FS_EmptySet DEF Stock
        <5>3. QED
          BY <3>4, <4>1, <5>2 DEF UntimedInv, NoIdleUnit
      <4>4. QED
        BY <4>2, <4>3
    <3>5. timeout = "zero" \/ timeout = "INFINITE_TIME"
      BY <2>3 DEF Timeouts
    <3>6. CASE timeout = "zero"
      BY <2>3, <3>2, <3>3, <3>6, WaitStep DEF sem_timedwait
    <3>7. QED
      BY <2>3, <3>2, <3>3, <3>4, <3>5, <3>6, WaitStep
  <2>4. ASSUME NEW t \in Threads, sem_wait_return(t)
        PROVE  UntimedInv'
    BY <2>4, ReturnStep DEF UntimedInv, NoIdleUnit, WQTypeOK
  <2>5. ASSUME NEW t \in Threads, sem_trywait(t)
        PROVE  UntimedInv'
    BY <2>5, TryStep DEF UntimedInv, NoIdleUnit, wqvars
  <2>6. ASSUME NEW t \in Threads, sem_destroy(t)
        PROVE  UntimedInv'
    <3>1. ~magic' /\ timer' = timer
      BY <2>6, DestroyStep
    <3>2. \A u \in Threads : wait_queue_block_ret'[u] # "ERR_TIMED_OUT"
      BY <2>6, DestroyStep DEF UntimedInv
    <3>3. QED
      BY <3>1, <3>2 DEF UntimedInv, NoIdleUnit
  <2>7. ASSUME NEW t \in Threads, Timeout(t)
        PROVE  UntimedInv'
    BY <2>7, TimeoutStep DEF UntimedInv
  <2>8. QED
    BY <2>1, <2>2, <2>3, <2>4, <2>5, <2>6, <2>7
       DEF Next, ThreadStep, sem_wait, WaitTimeouts, Timeouts
<1>3. UntimedInv => NoIdleUnit
  BY DEF UntimedInv, NoIdleUnit
<1>4. QED
  BY <1>1, <1>2, <1>3, SemaphoreInvariant, PTL DEF Spec
-----------------------------------------------------------------------------
(***************************************************************************)
(* Module Event, on a wait queue of its own.                               *)
(***************************************************************************)
EQ == INSTANCE WaitQueueProofs WITH
         list <- elist, state <- estate, wait_queue_block_ret <- eret, timer <- etimer

\* The types, and the exactness of the queue.
EventInv ==
    /\ EQ!WQTypeOK
    /\ EQ!QueueExact
    /\ emagic \in BOOLEAN
    /\ signaled \in BOOLEAN
    /\ flags \subseteq {"EVENT_FLAG_AUTOUNSIGNAL"}

\* The event's wait queue is the one the lemmas about wait queues speak of.
LEMMA EventQueue ==
    /\ EQ!IsFiniteSet(Threads)
    /\ E!wqvars = EQ!wqvars
    /\ E!Timeouts = EQ!Timeouts
    /\ E!wait_queue_init <=> EQ!wait_queue_init
    /\ \A err : E!wait_queue_wake_one(err) <=> EQ!wait_queue_wake_one(err)
    /\ \A err : E!wait_queue_wake_all(err) <=> EQ!wait_queue_wake_all(err)
    /\ \A t : E!wait_queue_block_return(t) <=> EQ!wait_queue_block_return(t)
    /\ \A t : E!wait_queue_timeout_handler(t) <=> EQ!wait_queue_timeout_handler(t)
    /\ \A t, timeout : E!wait_queue_block(t, timeout) <=> EQ!wait_queue_block(t, timeout)
<1>1. EQ!IsFiniteSet(Threads)
  BY ThreadsAssumption DEF IsFiniteSet, EQ!IsFiniteSet
<1>2. /\ E!wqvars = EQ!wqvars
      /\ E!Timeouts = EQ!Timeouts
      /\ E!wait_queue_init <=> EQ!wait_queue_init
  BY DEF E!wqvars, EQ!wqvars, E!Timeouts, EQ!Timeouts, E!wait_queue_init, EQ!wait_queue_init
<1>3. \A S, err : E!Unblock(S, err) <=> EQ!Unblock(S, err)
  BY DEF E!Unblock, EQ!Unblock
<1>4. \A t, timeout : E!wait_queue_block(t, timeout) <=> EQ!wait_queue_block(t, timeout)
  BY DEF E!wait_queue_block, EQ!wait_queue_block
<1>5. \A t : E!wait_queue_block_return(t) <=> EQ!wait_queue_block_return(t)
  BY DEF E!wait_queue_block_return, EQ!wait_queue_block_return
<1>6. \A err : E!wait_queue_wake_one(err) <=> EQ!wait_queue_wake_one(err)
  BY <1>3 DEF E!wait_queue_wake_one, EQ!wait_queue_wake_one, E!wqvars, EQ!wqvars
<1>7. \A err : E!wait_queue_wake_all(err) <=> EQ!wait_queue_wake_all(err)
  BY <1>3 DEF E!wait_queue_wake_all, EQ!wait_queue_wake_all, E!ToSet, EQ!ToSet
<1>8. \A t : E!wait_queue_timeout_handler(t) <=> EQ!wait_queue_timeout_handler(t)
  <2>1. \A s, k : E!RemoveAt(s, k) = EQ!RemoveAt(s, k)
    BY DEF E!RemoveAt, EQ!RemoveAt
  <2>2. \A t, err : E!thread_unblock_from_wait_queue(t, err)
                       <=> EQ!thread_unblock_from_wait_queue(t, err)
    BY <1>3, <2>1 DEF E!thread_unblock_from_wait_queue, EQ!thread_unblock_from_wait_queue
  <2>3. QED
    BY <2>2 DEF E!wait_queue_timeout_handler, EQ!wait_queue_timeout_handler
<1>9. QED
  BY <1>1, <1>2, <1>4, <1>5, <1>6, <1>7, <1>8

\* How far a wait has got, said of the state of its thread.
ProgressExact ==
    \A t \in Threads :
        /\ E!Progress[t] = "none" <=> estate[t] = "RUNNING"
        /\ E!Progress[t] = "waiting" <=> estate[t] = "BLOCKED"
        /\ E!Progress[t] = "woken" <=> estate[t] = "READY" /\ eret[t] = "NO_ERROR"
        /\ E!Progress[t] = "failed" <=> estate[t] = "READY" /\ eret[t] # "NO_ERROR"

\* How far a wait has got can be read off the state of its thread.
LEMMA ProgressOf == EventInv => ProgressExact
<1> SUFFICES ASSUME EventInv, NEW t \in Threads
             PROVE  ProgressExact!(t)
  BY DEF ProgressExact
<1>1. estate[t] \in {"RUNNING", "BLOCKED", "READY"}
  BY DEF EventInv, EQ!WQTypeOK
<1>2. E!Progress[t] = CASE estate[t] = "RUNNING" -> "none"
                        [] estate[t] = "BLOCKED" -> "waiting"
                        [] estate[t] = "READY" /\ eret[t] = "NO_ERROR" -> "woken"
                        [] OTHER -> "failed"
  BY DEF E!Progress, E!HandedTo
<1>3. CASE estate[t] = "RUNNING"
  BY <1>2, <1>3
<1>4. CASE estate[t] = "BLOCKED"
  BY <1>2, <1>4
<1>5. CASE estate[t] = "READY"
  BY <1>2, <1>5
<1>6. QED
  BY <1>1, <1>3, <1>4, <1>5

\* The same in the next state.
LEMMA ProgressAfter == EventInv' => ProgressExact'
  BY ProgressOf, PTL

\* The waits of the threads in S end with the given outcome, the others do not move.
LEMMA ProgressEnds ==
    ASSUME EventInv, EventInv', NEW S \in SUBSET Threads, NEW outcome,
           \A t \in Threads \ S : estate'[t] = estate[t] /\ (eret'[t] = eret[t] \/ estate[t] # "READY"),
           \A t \in S : E!Progress'[t] = outcome
    PROVE  E!ER!EndWaits(S, outcome)
<1>1. \A t \in Threads \ S : E!Progress'[t] = E!Progress[t]
  BY DEF E!Progress, E!HandedTo
<1>2. E!Progress' = [t \in Threads |-> E!Progress'[t]]
  BY DEF E!Progress
<1>3. E!Progress' = [t \in Threads |-> IF t \in S THEN outcome ELSE E!Progress[t]]
  BY <1>1, <1>2
<1>4. QED
  BY <1>3 DEF E!ER!EndWaits

\* Every step of the event keeps the queue exact and is a step the rules allow, or
\* one they do not see.
LEMMA EventStep ==
    ASSUME EventInv, [E!Next]_(E!vars)
    PROVE  EventInv' /\ [E!ER!Next]_(E!ER!vars)
<1> USE EventQueue DEF EventInv
<1> DEFINE Queue == EQ!WQTypeOK /\ EQ!QueueExact
           Steps == [E!ER!Next]_(E!ER!vars)
\* What does not touch the queue leaves every wait as it is.
<1>0. ASSUME UNCHANGED <<elist, estate, eret>>, etimer' \in [Threads -> BOOLEAN]
      PROVE  /\ Queue'
             /\ E!Progress' = E!Progress
  BY <1>0 DEF EQ!WQTypeOK, EQ!QueueExact, E!Progress, E!HandedTo, EQ!Status
<1>1. CASE E!event_signal
  <2>0. emagic /\ emagic' = emagic /\ flags' = flags /\ E!AutoUnsignal' = E!AutoUnsignal
    BY <1>1 DEF E!event_signal, E!AutoUnsignal
  <2>1. CASE signaled /\ UNCHANGED <<E!wqvars, signaled>>
    <3>1. UNCHANGED <<elist, estate, eret, etimer>> /\ signaled' = signaled
      BY <2>1 DEF E!wqvars
    <3>2. etimer' \in [Threads -> BOOLEAN]
      BY <3>1 DEF EQ!WQTypeOK
    <3>3. QED
      BY <2>0, <3>1, <3>2, <1>0 DEF E!ER!vars
  <2>2. CASE /\ ~signaled /\ E!AutoUnsignal
             /\ signaled' = (elist = <<>>)
             /\ E!wait_queue_wake_one("NO_ERROR")
    <3>0. signaled' \in BOOLEAN
      BY <2>2
    <3>1. CASE elist = <<>>
      <4>1. UNCHANGED <<elist, estate, eret, etimer>> /\ signaled' = TRUE
        BY <2>2, <3>1 DEF E!wait_queue_wake_one, E!wqvars
      <4>2. etimer' \in [Threads -> BOOLEAN]
        BY <4>1 DEF EQ!WQTypeOK
      <4>3. E!ER!Waiting = {}
        BY <3>1, EQ!EmptyQueue, ProgressOf DEF ProgressExact, E!ER!Waiting
      <4>4. E!ER!EndWaits({}, "woken")
        BY <4>1, <4>2, <1>0 DEF E!ER!EndWaits, E!Progress
      <4>5. E!ER!Signal
        BY <2>0, <4>1, <4>3, <4>4 DEF E!ER!Signal
      <4>6. QED
        BY <2>0, <3>0, <4>1, <4>2, <4>5, <1>0 DEF E!ER!Next
    <3>2. CASE elist # <<>>
      <4> DEFINE h == Head(elist)
      <4>1. /\ EQ!WQTypeOK' /\ EQ!QueueExact'
            /\ h \in Threads /\ estate[h] = "BLOCKED"
            /\ estate' = [u \in Threads |-> IF u = h THEN "READY" ELSE estate[u]]
            /\ eret' = [u \in Threads |-> IF u = h THEN "NO_ERROR" ELSE eret[u]]
        BY <2>2, <3>2, EQ!WakeOneHead, EQ!WakeOneQueue DEF EQ!Status
      <4>2. EventInv' /\ signaled' = FALSE
        BY <2>0, <2>2, <3>0, <3>2, <4>1
      <4> HIDE DEF h
      <4>3. E!Progress'[h] = "woken"
        BY <4>1, <4>2, ProgressAfter DEF ProgressExact
      <4>4. E!ER!EndWaits({h}, "woken")
        BY <4>1, <4>2, <4>3, ProgressEnds
      <4>5. h \in E!ER!Waiting
        BY <4>1, ProgressOf DEF ProgressExact, E!ER!Waiting
      <4>6. E!ER!Signal
        BY <2>0, <2>2, <4>2, <4>4, <4>5 DEF E!ER!Signal
      <4>7. QED
        BY <4>2, <4>6 DEF E!ER!Next
    <3>3. QED
      BY <3>1, <3>2
  <2>3. CASE /\ ~signaled /\ ~E!AutoUnsignal
             /\ signaled' = TRUE
             /\ E!wait_queue_wake_all("NO_ERROR")
    <3>1. /\ EQ!WQTypeOK' /\ EQ!QueueExact'
          /\ \A t \in Threads :
                IF estate[t] = "BLOCKED"
                THEN estate'[t] = "READY" /\ eret'[t] = "NO_ERROR"
                ELSE estate'[t] = estate[t] /\ eret'[t] = eret[t]
      BY <2>3, EQ!WakeAllQueue DEF EQ!Status
    <3>2. EventInv'
      BY <2>0, <2>3, <3>1
    <3>3. \A t \in Threads : t \in E!ER!Waiting <=> estate[t] = "BLOCKED"
      BY ProgressOf DEF ProgressExact, E!ER!Waiting
    <3>4. \A t \in E!ER!Waiting : E!Progress'[t] = "woken"
      BY <3>1, <3>2, <3>3, ProgressAfter DEF ProgressExact, E!ER!Waiting
    <3>5. E!ER!EndWaits(E!ER!Waiting, "woken")
      BY <3>1, <3>2, <3>3, <3>4, ProgressEnds DEF E!ER!Waiting
    <3>6. E!ER!Signal
      BY <2>0, <2>3, <3>5 DEF E!ER!Signal
    <3>7. QED
      BY <3>2, <3>6 DEF E!ER!Next
  <2>4. QED
    BY <1>1, <2>1, <2>2, <2>3 DEF E!event_signal
<1>2. CASE E!event_unsignal
  <2>1. /\ UNCHANGED <<elist, estate, eret, etimer, flags, emagic>>
        /\ emagic /\ signaled' = FALSE
    BY <1>2 DEF E!event_unsignal, E!wqvars
  <2>2. etimer' \in [Threads -> BOOLEAN]
    BY <2>1 DEF EQ!WQTypeOK
  <2>3. EventInv' /\ E!Progress' = E!Progress
    BY <2>1, <2>2, <1>0
  <2>4. E!ER!Unsignal
    BY <2>1, <2>3 DEF E!ER!Unsignal, E!AutoUnsignal
  <2>5. QED
    BY <2>3, <2>4 DEF E!ER!Next
<1>3. CASE E!event_destroy
  <2>1. /\ emagic /\ emagic' = FALSE /\ signaled' = FALSE /\ flags' = {}
        /\ EQ!wait_queue_wake_all("ERR_OBJECT_DESTROYED")
    BY <1>3 DEF E!event_destroy, E!wait_queue_destroy
  <2>2. /\ EQ!WQTypeOK' /\ EQ!QueueExact'
        /\ \A t \in Threads :
              IF estate[t] = "BLOCKED"
              THEN estate'[t] = "READY" /\ eret'[t] = "ERR_OBJECT_DESTROYED"
              ELSE estate'[t] = estate[t] /\ eret'[t] = eret[t]
    BY <2>1, EQ!WakeAllQueue DEF EQ!Status
  <2>3. EventInv'
    BY <2>1, <2>2
  <2>4. \A t \in Threads : t \in E!ER!Waiting <=> estate[t] = "BLOCKED"
    BY ProgressOf DEF ProgressExact, E!ER!Waiting
  <2>5. \A t \in E!ER!Waiting : E!Progress'[t] = "failed"
    BY <2>2, <2>3, <2>4, ProgressAfter DEF ProgressExact, E!ER!Waiting
  <2>6. E!ER!EndWaits(E!ER!Waiting, "failed")
    BY <2>2, <2>3, <2>4, <2>5, ProgressEnds DEF E!ER!Waiting
  <2>7. E!ER!Destroy
    BY <2>1, <2>6 DEF E!ER!Destroy, E!AutoUnsignal
  <2>8. QED
    BY <2>3, <2>7 DEF E!ER!Next
<1>4. ASSUME NEW t \in Threads, NEW timeout \in E!Timeouts, E!event_wait_timeout(t, timeout)
      PROVE  EventInv' /\ Steps
  <2>0. /\ emagic /\ emagic' = emagic /\ flags' = flags /\ E!AutoUnsignal' = E!AutoUnsignal
        /\ estate[t] = "RUNNING" /\ E!AutoUnsignal \in BOOLEAN
    BY <1>4 DEF E!event_wait_timeout, E!AutoUnsignal
  <2>1. CASE UNCHANGED E!wqvars /\ ((signaled /\ signaled' = ~E!AutoUnsignal) \/ signaled' = signaled)
    <3>1. UNCHANGED <<elist, estate, eret, etimer>>
      BY <2>1 DEF E!wqvars
    <3>2. etimer' \in [Threads -> BOOLEAN]
      BY <3>1 DEF EQ!WQTypeOK
    <3>3. EventInv' /\ E!Progress' = E!Progress
      BY <2>0, <2>1, <3>1, <3>2, <1>0
    <3>4. E!Progress[t] = "none"
      BY <2>0, ProgressOf DEF ProgressExact
    <3>5. signaled /\ signaled' = ~E!AutoUnsignal => E!ER!Wait(t)
      BY <2>0, <3>3, <3>4 DEF E!ER!Wait
    <3>6. signaled' = signaled => UNCHANGED E!ER!vars
      BY <2>0, <3>3 DEF E!ER!vars
    <3>7. QED
      BY <2>1, <3>3, <3>5, <3>6 DEF E!ER!Next
  <2>2. CASE ~signaled /\ EQ!wait_queue_block(t, timeout) /\ signaled' = signaled
    <3>1. elist' \in Seq(Threads) /\ EQ!QueueExact'
      BY <2>0, <2>2, EQ!BlockQueue
    <3>2. /\ estate' = [estate EXCEPT ![t] = "BLOCKED"]
          /\ eret' = [eret EXCEPT ![t] = "NO_ERROR"]
          /\ etimer' = [etimer EXCEPT ![t] = timeout # "INFINITE_TIME"]
      BY <2>2 DEF EQ!wait_queue_block
    <3>3. EventInv'
      BY <2>0, <2>2, <3>1, <3>2 DEF EQ!WQTypeOK, EQ!Status
    <3>4. E!Progress[t] = "none" /\ E!Progress'[t] = "waiting"
      BY <2>0, <3>2, <3>3, ProgressOf, ProgressAfter DEF ProgressExact, EQ!WQTypeOK
    <3>5. E!ER!EndWaits({t}, "waiting")
      BY <3>2, <3>3, <3>4, ProgressEnds DEF EQ!WQTypeOK
    <3>6. E!Progress' = [E!Progress EXCEPT ![t] = "waiting"]
      BY <3>5 DEF E!ER!EndWaits, E!Progress
    <3>7. E!ER!Wait(t)
      BY <2>0, <2>2, <3>4, <3>6 DEF E!ER!Wait
    <3>8. QED
      BY <3>3, <3>7 DEF E!ER!Next
  <2>3. QED
    BY <1>4, <2>1, <2>2 DEF E!event_wait_timeout
<1>5. ASSUME NEW t \in Threads, E!event_wait_return(t) PROVE EventInv' /\ Steps
  <2>1. /\ estate[t] = "READY"
        /\ estate' = [estate EXCEPT ![t] = "RUNNING"]
        /\ etimer' = [etimer EXCEPT ![t] = FALSE]
        /\ UNCHANGED <<elist, eret, emagic, signaled, flags>>
    BY <1>5 DEF E!event_wait_return, EQ!wait_queue_block_return, E!evars
  <2>2. EventInv'
    BY <2>1 DEF EQ!WQTypeOK, EQ!QueueExact
  <2>3. E!Progress[t] \in {"woken", "failed"} /\ E!Progress'[t] = "none"
    BY <2>1, <2>2, ProgressOf, ProgressAfter DEF ProgressExact, EQ!WQTypeOK
  <2>4. E!ER!EndWaits({t}, "none")
    <3>1. \A u \in Threads \ {t} : estate'[u] = estate[u] /\ eret'[u] = eret[u]
      BY <2>1 DEF EQ!WQTypeOK
    <3> HIDE DEF EventInv
    <3>2. QED
      BY <2>2, <2>3, <3>1, ProgressEnds
  <2>5. E!ER!Return(t)
    BY <2>1, <2>3, <2>4 DEF E!ER!Return, E!AutoUnsignal
  <2>6. QED
    BY <2>2, <2>5 DEF E!ER!Next
<1>6. ASSUME NEW t \in Threads, E!Timeout(t) PROVE EventInv' /\ Steps
  <2>1. /\ etimer' = [etimer EXCEPT ![t] = FALSE]
        /\ UNCHANGED <<emagic, signaled, flags>>
        /\ IF estate[t] = "BLOCKED"
           THEN EQ!thread_unblock_from_wait_queue(t, "ERR_TIMED_OUT")
           ELSE UNCHANGED <<elist, estate, eret>>
    BY <1>6 DEF E!Timeout, EQ!wait_queue_timeout_handler, E!evars
  <2>2. etimer' \in [Threads -> BOOLEAN]
    BY <2>1 DEF EQ!WQTypeOK
  <2>3. CASE estate[t] # "BLOCKED"
    BY <2>1, <2>2, <2>3, <1>0 DEF E!ER!vars, E!AutoUnsignal
  <2>4. CASE estate[t] = "BLOCKED"
    <3>1. elist' \in Seq(Threads) /\ EQ!QueueExact'
      BY <2>1, <2>4, EQ!UnblockQueue DEF EQ!Status
    <3>2. /\ estate' = [u \in Threads |-> IF u = t THEN "READY" ELSE estate[u]]
          /\ eret' = [u \in Threads |-> IF u = t THEN "ERR_TIMED_OUT" ELSE eret[u]]
      BY <2>1, <2>4 DEF EQ!thread_unblock_from_wait_queue, EQ!Unblock
    <3>3. EventInv'
      BY <2>1, <2>2, <3>1, <3>2 DEF EQ!WQTypeOK, EQ!Status
    <3>4. t \in E!ER!Waiting /\ E!Progress'[t] = "failed"
      BY <2>4, <3>2, <3>3, ProgressOf, ProgressAfter DEF ProgressExact, E!ER!Waiting
    <3>5. E!ER!EndWaits({t}, "failed")
      BY <3>2, <3>3, <3>4, ProgressEnds
    <3>6. E!ER!TimeOut(t)
      BY <2>1, <3>4, <3>5 DEF E!ER!TimeOut, E!AutoUnsignal
    <3>7. QED
      BY <3>3, <3>6 DEF E!ER!Next
  <2>5. QED
    BY <2>3, <2>4
<1>7. CASE UNCHANGED E!vars
  <2>1. UNCHANGED <<elist, estate, eret, etimer, emagic, signaled, flags>>
    BY <1>7 DEF E!vars
  <2>2. etimer' \in [Threads -> BOOLEAN]
    BY <2>1 DEF EQ!WQTypeOK
  <2>3. QED
    BY <2>1, <2>2, <1>0 DEF E!ER!vars, E!AutoUnsignal
<1>8. QED
  BY <1>1, <1>2, <1>3, <1>4, <1>5, <1>6, <1>7 DEF E!Next

\* The event obeys the rules of event.h: event_signal, event_unsignal, event_destroy,
\* event_wait_timeout and the timeout handler do to the signaled state and to the waits
\* only what EventRules allows, for every number of threads.
THEOREM EventRefinement == E!Spec => EventObeysRules
<1>1. E!Init => EventInv /\ E!ER!Init
  <2> SUFFICES ASSUME E!Init PROVE EventInv /\ E!ER!Init
    OBVIOUS
  <2>1. /\ elist = <<>>
        /\ estate = [t \in Threads |-> "RUNNING"]
        /\ eret = [t \in Threads |-> "NO_ERROR"]
        /\ etimer = [t \in Threads |-> FALSE]
        /\ emagic = TRUE /\ signaled \in BOOLEAN /\ flags \in SUBSET {"EVENT_FLAG_AUTOUNSIGNAL"}
    BY DEF E!Init, E!wait_queue_init, E!event_init
  <2>2. EventInv
    BY <2>1 DEF EventInv, EQ!WQTypeOK, EQ!QueueExact, EQ!Status
  <2>3. E!Progress = [t \in Threads |-> "none"]
    BY <2>1, <2>2, ProgressOf DEF ProgressExact, E!Progress
  <2>4. QED
    BY <2>1, <2>2, <2>3 DEF E!ER!Init, E!AutoUnsignal
<1>2. QED
  BY <1>1, EventStep, PTL DEF E!Spec, EventObeysRules, E!ObeysEventRules, E!ER!Spec
-----------------------------------------------------------------------------
(***************************************************************************)
(* Timers.  Every scheduled time stands for a true distance in time, due,  *)
(* which TIME_LT and TIME_GT recover while it is below half the clock; the *)
(* invariant bounds it from below by what the hardware timer and the       *)
(* length of a timer_tick leave.                                           *)
(***************************************************************************)
\* Half the clock.
Half == M \div 2

\* One cpu, and delays that with every lateness added stay below half the clock, the
\* range of the signed difference that TIME_LT and TIME_GT look at.
TimerWorld ==
    /\ \A c, d \in CPUs : c = d
    /\ MaxLate + MaxTick + Slack < Half
    /\ \A d \in Delays : AtLeast1(d) + MaxLate + MaxTick + Slack < Half

\* A distance in time the comparisons can tell.
Near(d) == d + MaxLate + MaxTick + Slack < Half

\* The progress of a timer_tick.
TickStates ==
    [phase : {"none"}]
    \cup [phase : {"loop"}, now : 0 .. M - 1]
    \cup [phase : {"fire"}, now : 0 .. M - 1, timer : Timers]
    \cup [phase : {"requeue"}, now : 0 .. M - 1, timer : Timers, periodic : BOOLEAN]

\* The types of the variables of Timer.
TimerTypes ==
    /\ now \in 0 .. M - 1
    /\ timer_queue \in [CPUs -> Seq(Timers)]
    /\ scheduled_time \in [Timers -> 0 .. M - 1]
    /\ periodic_time \in [Timers -> Nat]
    /\ callback \in [Timers -> BOOLEAN]
    /\ hw \in [CPUs -> Int]
    /\ tick \in [CPUs -> TickStates]
    /\ setting \in [Timers -> Nat]
    /\ armed \in [Timers -> BOOLEAN]
    /\ due \in [Timers -> Int]

\* Timer u is in the queue q.
Queued(q, u) == \E i \in 1 .. Len(q) : q[i] = u

\* In the order of the times left, and no timer twice.
InOrderOf(q, left) ==
    \A i, j \in 1 .. Len(q) : i < j => left[q[i]] <= left[q[j]] /\ q[i] # q[j]

\* The time on the W-bit clock d from x.
Points(s, x, d) == s = x + d \/ s = x + d + M \/ s = x + d - M

\* A queued timer is set, and its scheduled time says when it is due.
QueueInv(c) ==
    /\ InOrderOf(timer_queue[c], due)
    /\ \A u \in Timers : Queued(timer_queue[c], u) =>
          armed[u] /\ Points(scheduled_time[u], now, due[u]) /\ Near(due[u])

\* The hardware timer goes off in time for the whole queue.
OnTime(c) ==
    \A u \in Timers : Queued(timer_queue[c], u) => hw[c] # Off /\ hw[c] - Slack <= due[u]

\* How late the queued timers were when timer_tick began.
NotLost(c) ==
    \A u \in Timers : Queued(timer_queue[c], u) => -(MaxLate + Slack) <= due[u] + TickTime(c)

\* The interrupt is taken within MaxLate, and outside timer_tick the hardware is set.
HardwareInv(c) ==
    /\ -MaxLate <= hw[c]
    /\ tick[c].phase = "none" => OnTime(c)

\* During timer_tick: how long it takes, that a timer that fires is due and out of the
\* queue, and that a periodic timer is put back only while it is set.
TickInv(c) ==
    /\ tick[c].phase # "none" => TickTime(c) <= MaxTick /\ NotLost(c)
    /\ tick[c].phase = "fire" =>
          due[tick[c].timer] <= 0 /\ ~Queued(timer_queue[c], tick[c].timer)
    /\ tick[c].phase = "requeue" /\ MustRequeue(c, tick[c].timer) => armed[tick[c].timer]

\* A timer_set that has yet to take timer_lock: nobody else has to do with the timer,
\* its scheduled time is right and not more than MaxHeld has passed.
SettingInv(c) ==
    \A t \in Timers : setting[t] # 0 =>
        /\ armed[t] /\ Points(scheduled_time[t], now, due[t])
        /\ Near(setting[t]) /\ due[t] <= setting[t] /\ setting[t] - due[t] <= MaxHeld
        /\ ~Queued(timer_queue[c], t)
        /\ tick[c].phase \in {"fire", "requeue"} => tick[c].timer # t

\* The inductive invariant of the timers.
TimerInv ==
    /\ TimerTypes
    /\ \A t \in Timers : Near(periodic_time[t])
    /\ \A c \in CPUs : QueueInv(c) /\ HardwareInv(c) /\ TickInv(c) /\ SettingInv(c)

\* What is known of the clock and of the delays.
LEMMA ClockFacts ==
    ASSUME TimerWorld
    PROVE  /\ M \in Nat /\ M > 0 /\ Half \in Int /\ 0 < Half /\ Half + Half <= M
           /\ MaxLate \in Nat /\ MaxTick \in Nat /\ Slack \in Nat /\ MaxTick <= Slack /\ MaxLate + MaxTick + Slack < Half
           /\ MaxHeld \in Nat /\ MaxHeld <= Slack
           /\ \A call \in Calls : /\ call.delay \in Nat /\ 1 <= call.delay /\ Near(call.delay)
                                  /\ call.period \in Nat /\ Near(call.period)
<1>0. /\ W \in Nat /\ MaxLate \in Nat /\ MaxTick \in Nat /\ MaxHeld \in Nat /\ \A d \in Delays : d \in 0 .. 2^W - 1
  BY TimerAssumption
<1>1. /\ W \in Nat /\ MaxLate \in Nat /\ MaxTick \in Nat /\ \A d \in Delays : d \in 0 .. 2^W - 1
      /\ MaxHeld \in Nat /\ Slack \in Nat /\ MaxTick <= Slack /\ MaxHeld <= Slack
  BY <1>0 DEF Slack
<1>2. M \in Int
  BY <1>1 DEF M
<1>3. Half \in Int /\ MaxLate + MaxTick + Slack < Half
  BY <1>2 DEF Half, TimerWorld
<1>4. 0 < Half
  BY <1>1, <1>3
<1>5. Half + Half <= M
  BY <1>2 DEF Half
<1>6. \A d \in Delays : d \in Nat
  BY <1>1, <1>2 DEF M
<1>7. \A d \in Delays : AtLeast1(d) \in Nat /\ 1 <= AtLeast1(d)
  BY <1>6 DEF AtLeast1
<1>8. Near(0) /\ \A d \in Delays : Near(AtLeast1(d))
  BY <1>1, <1>3, <1>7 DEF TimerWorld, Near
<1>9. \A call \in Calls : \E d \in Delays : call.delay = AtLeast1(d) /\ call.period \in {0, AtLeast1(d)}
  BY DEF Calls, timer_set_oneshot, timer_set_periodic
<1>10. \A call \in Calls : /\ call.delay \in Nat /\ 1 <= call.delay /\ Near(call.delay)
                           /\ call.period \in Nat /\ Near(call.period)
  BY <1>7, <1>8, <1>9
<1>11. QED
  BY <1>1, <1>2, <1>3, <1>4, <1>5, <1>10

\* One turn of the clock more or less.
LEMMA Wrapped ==
    ASSUME NEW m \in Nat, m > 0, NEW x \in Int, -m <= x, x < 2 * m
    PROVE  /\ x % m \in 0 .. m - 1
           /\ x < 0 => x % m = x + m
           /\ 0 <= x /\ x < m => x % m = x
           /\ m <= x => x % m = x - m
  OBVIOUS

\* Two times on the clock are compared as the distances they stand for.
LEMMA Compared ==
    ASSUME TimerWorld, NEW s \in 0 .. M - 1, NEW r \in 0 .. M - 1, NEW x \in Int,
           NEW d \in Int, NEW e \in Int, Points(s, x, d), Points(r, x, e),
           -Half < d - e, d - e < Half
    PROVE  /\ Signed(s - r) = d - e
           /\ 0 <= d - e => (s - r) % M = d - e
<1>1. M \in Nat /\ M > 0 /\ Half \in Int /\ 0 < Half /\ Half + Half <= M
  BY ClockFacts
<1>2. s \in Int /\ r \in Int /\ 0 <= s /\ s < M /\ 0 <= r /\ r < M
  BY <1>1
<1>3. PICK y : y = s - r
  OBVIOUS
<1>4. y \in Int /\ -M < y /\ y < M
  BY <1>1, <1>2, <1>3
<1>5. y = d - e \/ y = d - e + M \/ y = d - e - M
  BY <1>1, <1>2, <1>3, <1>4 DEF Points
<1>6. /\ y % M \in 0 .. M - 1
      /\ y < 0 => y % M = y + M
      /\ 0 <= y => y % M = y
  BY <1>1, <1>4, Wrapped
<1>7. (0 <= d - e => y % M = d - e) /\ (d - e < 0 => y % M = d - e + M)
  BY <1>1, <1>4, <1>5, <1>6
<1>8. Signed(y) = IF y % M >= Half THEN (y % M) - M ELSE y % M
  BY DEF Signed, Half
<1>9. Signed(y) = d - e
  BY <1>1, <1>7, <1>8
<1>10. QED
  BY <1>3, <1>7, <1>9

\* r is the queue q with t in its place.
TakesPlace(r, q, t, left) ==
    /\ r \in Seq(Timers) /\ Len(r) = Len(q) + 1
    /\ InOrderOf(r, left)
    /\ \A u : Queued(r, u) <=> u = t \/ Queued(q, u)
    /\ Head(r) = t \/ (q # << >> /\ Head(r) = Head(q))

\* insert_timer_in_queue keeps the order.
LEMMA Inserted ==
    ASSUME NEW q \in Seq(Timers), NEW t \in Timers, NEW sched, NEW left \in [Timers -> Int],
           InOrderOf(q, left), ~Queued(q, t),
           \A i \in 1 .. Len(q) : TIME_GT(sched[q[i]], sched[t]) <=> left[q[i]] > left[t],
           NEW r, r = insert_timer_in_queue(q, t, sched)
    PROVE  TakesPlace(r, q, t, left)
<1> DEFINE later == {i \in DOMAIN q : TIME_GT(sched[q[i]], sched[t])}
<1>0. PICK k : k = IF later = {} THEN Len(q) + 1 ELSE Min(later)
  OBVIOUS
<1>1. Len(q) \in Nat /\ DOMAIN q = 1 .. Len(q) /\ \A i \in 1 .. Len(q) : q[i] \in Timers /\ left[q[i]] \in Int
  OBVIOUS
<1>2. \A i : i \in later <=> i \in 1 .. Len(q) /\ left[q[i]] > left[t]
  BY <1>1
<1>3. r = InsertAt(q, k, t)
  BY <1>0 DEF insert_timer_in_queue
<1> HIDE DEF later
<1>4. /\ k \in 1 .. Len(q) + 1
      /\ \A i \in 1 .. Len(q) : i < k => left[q[i]] <= left[t]
      /\ \A i \in 1 .. Len(q) : k <= i => left[t] < left[q[i]]
  <2>1. CASE later = {}
    <3>1. k = Len(q) + 1
      BY <1>0, <2>1
    <3>2. \A i \in 1 .. Len(q) : ~(left[q[i]] > left[t])
      BY <1>2, <2>1
    <3>3. QED
      BY <1>1, <3>1, <3>2
  <2>2. CASE later # {}
    <3>1. later \in SUBSET Nat
      BY <1>1, <1>2
    <3>2. k \in later /\ \A i \in later : k <= i
      BY <1>0, <2>2, <3>1, LeastElement
    <3>3. k \in 1 .. Len(q) /\ left[q[k]] > left[t]
      BY <1>2, <3>2
    <3>4. ASSUME NEW i \in 1 .. Len(q), i < k PROVE left[q[i]] <= left[t]
      <4>1. i \notin later
        BY <1>1, <3>2, <3>3, <3>4
      <4>2. QED
        BY <1>1, <1>2, <4>1
    <3>5. ASSUME NEW i \in 1 .. Len(q), k <= i PROVE left[t] < left[q[i]]
      <4>1. i = k \/ left[q[k]] <= left[q[i]]
        BY <1>1, <3>3, <3>5 DEF InOrderOf
      <4>2. QED
        BY <1>1, <3>3, <4>1
    <3>6. QED
      BY <1>1, <3>3, <3>4, <3>5
  <2>3. QED
    BY <2>1, <2>2
<1>5. /\ r \in Seq(Timers) /\ Len(r) = Len(q) + 1
      /\ r[k] = t
      /\ \A i \in 1 .. k - 1 : r[i] = q[i]
      /\ \A i \in k .. Len(q) : r[i + 1] = q[i]
      /\ \A i \in 1 .. Len(r) : r[i] = IF i < k THEN q[i] ELSE IF i = k THEN t ELSE q[i - 1]
  <2>1. q \in Seq(Timers) /\ t \in Timers /\ k \in 1 .. Len(q) + 1
    BY <1>4
  <2>2. Inserts(r, q, k, t, Timers)
    BY ONLY <1>3, <2>1, InsertsAt
  <2>3. QED
    BY ONLY <2>2 DEF Inserts
<1>6. ASSUME NEW i \in 1 .. Len(r)
      PROVE  \/ i < k /\ i \in 1 .. Len(q) /\ r[i] = q[i] /\ left[r[i]] <= left[t] /\ r[i] # t
             \/ i = k /\ r[i] = t
             \/ k < i /\ i - 1 \in 1 .. Len(q) /\ r[i] = q[i - 1] /\ left[t] < left[r[i]] /\ r[i] # t
  <2>1. k \in Nat /\ i \in Nat
    BY <1>1, <1>4, <1>5
  <2>2. CASE i < k
    <3>1. i \in 1 .. Len(q) /\ r[i] = q[i]
      BY <1>1, <1>4, <1>5, <2>2
    <3>2. QED
      BY <1>4, <2>2, <3>1 DEF Queued
  <2>3. CASE k < i
    <3>1. i - 1 \in 1 .. Len(q) /\ k <= i - 1 /\ r[i] = q[i - 1]
      BY <1>1, <1>4, <1>5, <2>1, <2>3
    <3>2. QED
      BY <1>4, <2>3, <3>1 DEF Queued
  <2>4. QED
    BY <1>5, <2>1, <2>2, <2>3
<1>7. InOrderOf(r, left)
  <2> SUFFICES ASSUME NEW i \in 1 .. Len(r), NEW j \in 1 .. Len(r), i < j
               PROVE  left[r[i]] <= left[r[j]] /\ r[i] # r[j]
    BY DEF InOrderOf
  <2>1. k \in Nat /\ i \in Nat /\ j \in Nat
    BY <1>1, <1>4, <1>5
  <2>2. r[i] \in Timers /\ r[j] \in Timers /\ left[r[i]] \in Int /\ left[r[j]] \in Int /\ left[t] \in Int
    BY <1>5
  <2>3. CASE j < k
    <3>1. i \in 1 .. Len(q) /\ r[i] = q[i] /\ j \in 1 .. Len(q) /\ r[j] = q[j]
      BY <1>6, <2>1, <2>3
    <3>2. QED
      BY <3>1 DEF InOrderOf
  <2>4. CASE k < i
    <3>1. k < j /\ i - 1 < j - 1
      BY <2>1, <2>4
    <3>2. i - 1 \in 1 .. Len(q) /\ r[i] = q[i - 1]
      BY <1>6, <2>1, <2>4
    <3>3. j - 1 \in 1 .. Len(q) /\ r[j] = q[j - 1]
      BY <1>6, <2>1, <3>1
    <3>4. QED
      BY <3>1, <3>2, <3>3 DEF InOrderOf
  <2>5. CASE i <= k /\ k <= j
    <3>1. CASE i = k
      BY <1>6, <2>1, <2>2, <3>1
    <3>2. CASE j = k
      BY <1>6, <2>1, <2>2, <3>2
    <3>3. CASE i < k /\ k < j
      <4>1. /\ i \in 1 .. Len(q) /\ r[i] = q[i] /\ left[r[i]] <= left[t]
            /\ j - 1 \in 1 .. Len(q) /\ r[j] = q[j - 1] /\ left[t] < left[r[j]]
        BY <1>6, <2>1, <3>3
      <4>2. QED
        BY <2>2, <4>1
    <3>4. QED
      BY <2>1, <2>5, <3>1, <3>2, <3>3
  <2>6. QED
    BY <2>1, <2>3, <2>4, <2>5
<1>8. \A u : Queued(r, u) <=> u = t \/ Queued(q, u)
  <2>1. ASSUME NEW u, Queued(r, u) PROVE u = t \/ Queued(q, u)
    BY <1>6, <2>1 DEF Queued
  <2>2. Queued(r, t)
    BY <1>1, <1>4, <1>5 DEF Queued
  <2>3. ASSUME NEW u, Queued(q, u) PROVE Queued(r, u)
    <3>1. PICK i \in 1 .. Len(q) : q[i] = u
      BY <2>3 DEF Queued
    <3>2. CASE i < k
      <4>1. i \in 1 .. Len(r) /\ r[i] = q[i]
        BY <1>1, <1>4, <1>5, <3>2
      <4>2. QED
        BY <3>1, <4>1 DEF Queued
    <3>3. CASE k <= i
      <4>1. i + 1 \in 1 .. Len(r) /\ r[i + 1] = q[i]
        BY <1>1, <1>4, <1>5, <3>3
      <4>2. QED
        BY <3>1, <4>1 DEF Queued
    <3>4. QED
      BY <1>1, <1>4, <3>2, <3>3
  <2>4. QED
    BY <2>1, <2>2, <2>3
<1>9. Head(r) = t \/ (q # << >> /\ Head(r) = Head(q))
  <2>1. Head(r) = r[1] /\ 1 \in 1 .. Len(r)
    BY <1>1, <1>5
  <2>2. CASE k = 1
    BY <1>5, <2>1, <2>2
  <2>3. CASE k # 1
    <3>1. 1 \in 1 .. Len(q) /\ r[1] = q[1]
      BY <1>1, <1>4, <1>5, <2>3
    <3>2. q # << >> /\ Head(q) = q[1]
      BY <1>1, <3>1
    <3>3. QED
      BY <2>1, <3>1, <3>2
  <2>4. QED
    BY <2>2, <2>3
<1>10. QED
  BY ONLY <1>5, <1>7, <1>8, <1>9 DEF TakesPlace

\* list_delete takes a timer out and keeps the order.
LEMMA Deleted ==
    ASSUME NEW q \in Seq(Timers), NEW t \in Timers, NEW left, InOrderOf(q, left),
           NEW r, r = list_delete(q, t)
    PROVE  /\ r \in Seq(Timers)
           /\ InOrderOf(r, left)
           /\ \A u : Queued(r, u) <=> u # t /\ Queued(q, u)
<1> DEFINE at == {i \in DOMAIN q : q[i] = t}
<1>1. Len(q) \in Nat /\ DOMAIN q = 1 .. Len(q) /\ \A i \in 1 .. Len(q) : q[i] \in Timers
  OBVIOUS
<1>2. \A i : i \in at <=> i \in 1 .. Len(q) /\ q[i] = t
  BY <1>1
<1>3. r = IF at = {} THEN q ELSE RemoveAt(q, Min(at))
  BY DEF list_delete
<1> HIDE DEF at
<1>4. CASE at = {}
  BY <1>2, <1>3, <1>4 DEF Queued
<1>5. CASE at # {}
  <2>1. at \in SUBSET Nat
    BY <1>1, <1>2
  <2>2. PICK k : k = Min(at)
    OBVIOUS
  <2>3. k \in 1 .. Len(q) /\ q[k] = t /\ k \in Nat
    BY <1>1, <1>2, <1>5, <2>1, <2>2, LeastElement
  <2>4. r = RemoveAt(q, k)
    BY <1>3, <1>5, <2>2
  <2>5. /\ r \in Seq(Timers) /\ Len(r) = Len(q) - 1
        /\ \A i \in 1 .. Len(r) : r[i] = IF i < k THEN q[i] ELSE q[i + 1]
    <3> DEFINE s1 == SubSeq(q, 1, k - 1)
               s2 == SubSeq(q, k + 1, Len(q))
    <3>1. s1 \in Seq(Timers) /\ Len(s1) = k - 1 /\ \A i \in 1 .. k - 1 : s1[i] = q[i]
      BY <1>1, <2>3, SubSeqProperties
    <3>2. s2 \in Seq(Timers) /\ Len(s2) = Len(q) - k /\ \A i \in 1 .. Len(q) - k : s2[i] = q[k + i]
      <4>1. PICK m : m = k + 1
        OBVIOUS
      <4>2. m \in 1 .. Len(q) + 1 /\ Len(q) \in m - 1 .. Len(q)
        BY <1>1, <2>3, <4>1
      <4>3. /\ SubSeq(q, m, Len(q)) \in Seq(Timers) /\ Len(SubSeq(q, m, Len(q))) = Len(q) - m + 1
            /\ \A i \in 1 .. Len(q) - m + 1 : SubSeq(q, m, Len(q))[i] = q[m + i - 1]
        BY <4>2, SubSeqProperties
      <4>4. Len(q) - m + 1 = Len(q) - k /\ \A i \in 1 .. Len(q) - k : m + i - 1 = k + i
        BY <1>1, <2>3, <4>1
      <4>5. QED
        BY <4>1, <4>3, <4>4
    <3>3. r = s1 \o s2
      BY <2>4 DEF RemoveAt
    <3> HIDE DEF s1, s2
    <3>4. /\ r \in Seq(Timers) /\ Len(r) = Len(s1) + Len(s2)
          /\ \A i \in 1 .. Len(s1) + Len(s2) : r[i] = IF i <= Len(s1) THEN s1[i] ELSE s2[i - Len(s1)]
      <4>1. /\ s1 \o s2 \in Seq(Timers) /\ Len(s1 \o s2) = Len(s1) + Len(s2)
            /\ \A i \in 1 .. Len(s1) + Len(s2) : (s1 \o s2)[i] = IF i <= Len(s1) THEN s1[i] ELSE s2[i - Len(s1)]
        BY <3>1, <3>2, ConcatProperties
      <4>2. QED
        BY ONLY <3>3, <4>1
    <3>5. Len(r) = Len(q) - 1
      BY <1>1, <2>3, <3>1, <3>2, <3>4
    <3>6. ASSUME NEW i \in 1 .. Len(r) PROVE r[i] = IF i < k THEN q[i] ELSE q[i + 1]
      <4>1. CASE i < k
        BY <1>1, <2>3, <3>1, <3>2, <3>4, <4>1
      <4>2. CASE k <= i
        <5>1. i - (k - 1) \in 1 .. Len(q) - k /\ k + (i - (k - 1)) = i + 1 /\ ~(i <= k - 1)
          BY <1>1, <2>3, <3>5, <4>2
        <5>2. r[i] = s2[i - (k - 1)]
          BY <1>1, <2>3, <3>1, <3>4, <5>1
        <5>3. QED
          BY <2>3, <3>2, <4>2, <5>1, <5>2
      <4>3. QED
        BY <1>1, <2>3, <3>5, <4>1, <4>2
    <3>7. QED
      BY <3>4, <3>5, <3>6
  <2>6. ASSUME NEW i \in 1 .. Len(q), i # k PROVE q[i] # t
    BY <1>1, <2>3, <2>6 DEF InOrderOf
  <2>7. InOrderOf(r, left)
    <3> SUFFICES ASSUME NEW i \in 1 .. Len(r), NEW j \in 1 .. Len(r), i < j
                 PROVE  left[r[i]] <= left[r[j]] /\ r[i] # r[j]
      BY DEF InOrderOf
    <3>1. PICK x \in 1 .. Len(q) : r[i] = q[x] /\ x = IF i < k THEN i ELSE i + 1
      BY <1>1, <2>3, <2>5
    <3>2. PICK y \in 1 .. Len(q) : r[j] = q[y] /\ y = IF j < k THEN j ELSE j + 1
      BY <1>1, <2>3, <2>5
    <3>3. x < y
      BY <1>1, <2>3, <2>5, <3>1, <3>2
    <3>4. QED
      BY <3>1, <3>2, <3>3 DEF InOrderOf
  <2>8. ASSUME NEW u, Queued(r, u) PROVE u # t /\ Queued(q, u)
    <3>1. PICK i \in 1 .. Len(r) : r[i] = u
      BY <2>8 DEF Queued
    <3>2. PICK x \in 1 .. Len(q) : r[i] = q[x] /\ x # k
      BY <1>1, <2>3, <2>5, <3>1
    <3>3. QED
      BY <2>6, <3>1, <3>2 DEF Queued
  <2>9. ASSUME NEW u, u # t, Queued(q, u) PROVE Queued(r, u)
    <3>1. PICK x \in 1 .. Len(q) : q[x] = u /\ x # k
      BY <2>3, <2>9 DEF Queued
    <3>2. PICK i : i = IF x < k THEN x ELSE x - 1
      OBVIOUS
    <3>3. i \in 1 .. Len(r) /\ r[i] = q[x]
      BY <1>1, <2>3, <2>5, <3>1, <3>2
    <3>4. QED
      BY <3>1, <3>3 DEF Queued
  <2>10. QED
    BY <2>5, <2>7, <2>8, <2>9
<1>6. QED
  BY <1>4, <1>5

\* The state of a cpu.
LEMMA CpuFacts ==
    ASSUME TimerWorld, TimerInv, NEW c \in CPUs
    PROVE  /\ now \in Int /\ 0 <= now /\ now < M /\ timer_queue[c] \in Seq(Timers) /\ hw[c] \in Int
           /\ tick[c].phase \in {"none", "loop", "fire", "requeue"}
           /\ tick[c].phase # "none" => tick[c].now \in 0 .. M - 1 /\ TickTime(c) \in 0 .. M - 1
                                        /\ TickTime(c) <= MaxTick /\ NotLost(c)
                                        /\ Points(tick[c].now, now, -TickTime(c))
           /\ tick[c].phase \in {"fire", "requeue"} => tick[c].timer \in Timers
           /\ tick[c].phase = "requeue" => tick[c].periodic \in BOOLEAN
           /\ InOrderOf(timer_queue[c], due)
<1>1. M \in Nat /\ M > 0
  BY ClockFacts
<1>2. tick[c] \in TickStates
  BY DEF TimerInv, TimerTypes
<1>3. /\ tick[c].phase \in {"none", "loop", "fire", "requeue"}
      /\ tick[c].phase # "none" => tick[c].now \in 0 .. M - 1
      /\ tick[c].phase \in {"fire", "requeue"} => tick[c].timer \in Timers
      /\ tick[c].phase = "requeue" => tick[c].periodic \in BOOLEAN
  BY <1>2 DEF TickStates
<1>4. now \in 0 .. M - 1 /\ timer_queue[c] \in Seq(Timers) /\ hw[c] \in Int
  BY DEF TimerInv, TimerTypes
<1>5. ASSUME tick[c].phase # "none"
      PROVE  TickTime(c) \in 0 .. M - 1 /\ Points(tick[c].now, now, -TickTime(c))
  <2>1. PICK x, y : x = now - tick[c].now /\ y = TickTime(c)
    OBVIOUS
  <2>2. tick[c].now \in Int /\ 0 <= tick[c].now /\ tick[c].now < M /\ now \in Int /\ 0 <= now /\ now < M
    BY <1>1, <1>3, <1>4, <1>5
  <2>3. x \in Int /\ -M <= x /\ x < M /\ y = x % M
    BY <1>1, <2>1, <2>2 DEF TickTime
  <2>4. /\ y \in 0 .. M - 1
        /\ x < 0 => y = x + M
        /\ 0 <= x => y = x
    BY <1>1, <2>3, Wrapped
  <2>5. Points(tick[c].now, now, -y)
    BY <1>1, <2>1, <2>2, <2>3, <2>4 DEF Points
  <2>6. QED
    BY <2>1, <2>4, <2>5
<1>6. tick[c].phase # "none" => TickTime(c) <= MaxTick /\ NotLost(c)
  BY DEF TimerInv, TickInv
<1>7. InOrderOf(timer_queue[c], due)
  BY DEF TimerInv, QueueInv
<1>8. QED
  BY <1>1, <1>3, <1>4, <1>5, <1>6, <1>7

\* What is known of a queued timer.
LEMMA QueuedFacts ==
    ASSUME TimerWorld, TimerInv, NEW c \in CPUs, NEW u \in Timers, Queued(timer_queue[c], u)
    PROVE  /\ due[u] \in Int /\ scheduled_time[u] \in 0 .. M - 1 /\ armed[u]
           /\ Points(scheduled_time[u], now, due[u])
           /\ Near(due[u]) /\ -(MaxLate + MaxTick + Slack) <= due[u]
           /\ due[u] < Half /\ -Half < due[u]
<1>1. /\ M \in Nat /\ Half \in Int /\ MaxLate \in Nat /\ MaxTick \in Nat /\ Slack \in Nat /\ MaxTick <= Slack /\ MaxLate + MaxTick + Slack < Half
  BY ClockFacts
<1>2. due[u] \in Int /\ scheduled_time[u] \in 0 .. M - 1
  BY DEF TimerInv, TimerTypes
<1>3. armed[u] /\ Points(scheduled_time[u], now, due[u]) /\ Near(due[u])
  BY DEF TimerInv, QueueInv
<1>4. due[u] < Half
  BY <1>1, <1>2, <1>3 DEF Near
<1>5. -(MaxLate + MaxTick + Slack) <= due[u]
  <2>1. CASE tick[c].phase = "none"
    <3>1. hw[c] - Slack <= due[u] /\ -MaxLate <= hw[c]
      BY <2>1 DEF TimerInv, HardwareInv, OnTime
    <3>2. hw[c] \in Int
      BY CpuFacts
    <3>3. QED
      BY <1>1, <1>2, <3>1, <3>2
  <2>2. CASE tick[c].phase # "none"
    <3>1. TickTime(c) \in 0 .. M - 1 /\ TickTime(c) <= MaxTick /\ NotLost(c)
      BY <2>2, CpuFacts
    <3>2. -(MaxLate + Slack) <= due[u] + TickTime(c)
      BY <3>1 DEF NotLost
    <3>3. QED
      BY <1>1, <1>2, <3>1, <3>2
  <2>3. QED
    BY <2>1, <2>2
<1>6. -Half < due[u]
  BY <1>1, <1>2, <1>5
<1>7. QED
  BY <1>2, <1>3, <1>4, <1>5, <1>6

\* The head of a queue is due before the others.
LEMMA HeadFirst ==
    ASSUME NEW q \in Seq(Timers), NEW left \in [Timers -> Int], InOrderOf(q, left), q # << >>
    PROVE  /\ Head(q) \in Timers /\ Queued(q, Head(q))
           /\ \A u : Queued(q, u) => left[Head(q)] <= left[u]
<1>1. Len(q) \in Nat /\ 1 \in 1 .. Len(q) /\ Head(q) = q[1] /\ \A i \in 1 .. Len(q) : q[i] \in Timers
  OBVIOUS
<1>2. ASSUME NEW u, Queued(q, u) PROVE left[q[1]] <= left[u]
  <2>1. PICK i \in 1 .. Len(q) : q[i] = u
    BY <1>2 DEF Queued
  <2>2. CASE i = 1
    BY <1>1, <2>1, <2>2
  <2>3. CASE i # 1
    BY <1>1, <2>1, <2>3 DEF InOrderOf
  <2>4. QED
    BY <2>2, <2>3
<1>3. QED
  BY <1>1, <1>2 DEF Queued

\* The queue r, the scheduled times and the times left once t is in the queue q.
Joins(r, q, t, s, d, sched, left) ==
    /\ r \in Seq(Timers) /\ r # << >> /\ InOrderOf(r, left)
    /\ \A u : Queued(r, u) <=> u = t \/ Queued(q, u)
    /\ Head(r) = t \/ (q # << >> /\ Head(r) = Head(q))
    /\ sched \in [Timers -> 0 .. M - 1] /\ left \in [Timers -> Int] /\ sched[t] = s /\ left[t] = d
    /\ \A u \in Timers : u # t => sched[u] = scheduled_time[u] /\ left[u] = due[u]
    /\ \A u \in Timers : Queued(r, u) => Points(sched[u], now, left[u]) /\ Near(left[u])

\* A timer that is not queued joins the queue, to be due in d.
LEMMA Enqueued ==
    ASSUME TimerWorld, TimerInv, NEW c \in CPUs, NEW t \in Timers, ~Queued(timer_queue[c], t),
           NEW s \in 0 .. M - 1, NEW d \in Int, Points(s, now, d), Near(d), -(MaxLate + MaxTick + Slack) <= d,
           NEW sched, sched = [scheduled_time EXCEPT ![t] = s],
           NEW left, left = [due EXCEPT ![t] = d],
           NEW q, q = timer_queue[c], NEW r, r = insert_timer_in_queue(q, t, sched)
    PROVE  Joins(r, q, t, s, d, sched, left)
<1>1. /\ M \in Nat /\ M > 0 /\ Half \in Int /\ MaxLate \in Nat /\ MaxTick \in Nat /\ Slack \in Nat /\ MaxTick <= Slack
  BY ClockFacts
<1>2. scheduled_time \in [Timers -> 0 .. M - 1] /\ due \in [Timers -> Int] /\ q \in Seq(Timers)
      /\ InOrderOf(q, due) /\ now \in Int
  BY CpuFacts DEF TimerInv, TimerTypes
<1>3. /\ sched \in [Timers -> 0 .. M - 1] /\ left \in [Timers -> Int] /\ sched[t] = s /\ left[t] = d
      /\ \A u \in Timers : u # t => sched[u] = scheduled_time[u] /\ left[u] = due[u]
  BY <1>2
<1>4. Len(q) \in Nat /\ \A i \in 1 .. Len(q) : q[i] \in Timers /\ q[i] # t /\ Queued(q, q[i])
  <2>1. Len(q) \in Nat /\ \A i \in 1 .. Len(q) : q[i] \in Timers
    BY ONLY <1>2
  <2>2. \A i \in 1 .. Len(q) : Queued(q, q[i])
    BY DEF Queued
  <2>3. QED
    BY <2>1, <2>2
<1>5. InOrderOf(q, left)
  <2>1. \A i \in 1 .. Len(q) : left[q[i]] = due[q[i]]
    BY <1>3, <1>4
  <2>2. QED
    BY ONLY <1>2, <2>1 DEF InOrderOf
<1>6. ASSUME NEW i \in 1 .. Len(q)
      PROVE  TIME_GT(sched[q[i]], sched[t]) <=> left[q[i]] > left[t]
  <2>1. PICK u : u = q[i]
    OBVIOUS
  <2>2. u \in Timers /\ u # t /\ Queued(timer_queue[c], u)
    BY <1>4, <2>1
  <2>3. /\ due[u] \in Int /\ scheduled_time[u] \in 0 .. M - 1 /\ Points(scheduled_time[u], now, due[u])
        /\ Near(due[u]) /\ -(MaxLate + MaxTick + Slack) <= due[u]
    BY <2>2, QueuedFacts
  <2>4. -Half < due[u] - d /\ due[u] - d < Half
    BY <1>1, <2>3 DEF Near
  <2>5. Signed(scheduled_time[u] - s) = due[u] - d
    BY <1>2, <2>3, <2>4, Compared
  <2>6. TIME_GT(scheduled_time[u], s) <=> due[u] > d
    BY <2>3, <2>5 DEF TIME_GT
  <2>7. QED
    BY <1>3, <2>1, <2>2, <2>6
<1>7. ~Queued(q, t) /\ q \in Seq(Timers) /\ left \in [Timers -> Int]
  BY <1>2, <1>3
<1>8. /\ r \in Seq(Timers) /\ Len(r) = Len(q) + 1
      /\ InOrderOf(r, left)
      /\ \A u : Queued(r, u) <=> u = t \/ Queued(q, u)
      /\ Head(r) = t \/ (q # << >> /\ Head(r) = Head(q))
  <2>1. TakesPlace(r, q, t, left)
    BY ONLY <1>5, <1>6, <1>7, t \in Timers, r = insert_timer_in_queue(q, t, sched), Inserted
  <2>2. QED
    BY ONLY <2>1 DEF TakesPlace
<1>9. r # << >>
  BY <1>4, <1>8
<1>10. ASSUME NEW u \in Timers, Queued(r, u) PROVE Points(sched[u], now, left[u]) /\ Near(left[u])
  <2>1. CASE u = t
    BY <1>3, <2>1
  <2>2. CASE u # t
    <3>1. Queued(timer_queue[c], u)
      BY <1>8, <1>10, <2>2
    <3>2. Points(scheduled_time[u], now, due[u]) /\ Near(due[u])
      BY <3>1, QueuedFacts
    <3>3. QED
      BY <1>3, <2>2, <3>2
  <2>3. QED
    BY <2>1, <2>2
<1>11. QED
  BY ONLY <1>3, <1>8, <1>9, <1>10 DEF Joins

\* The types of what timer_set and timer_cancel change.
SetTypes ==
    /\ timer_queue \in [CPUs -> Seq(Timers)]
    /\ scheduled_time \in [Timers -> 0 .. M - 1]
    /\ periodic_time \in [Timers -> Nat] /\ \A t \in Timers : Near(periodic_time[t])
    /\ callback \in [Timers -> BOOLEAN]
    /\ hw \in [CPUs -> Int]
    /\ armed \in [Timers -> BOOLEAN]
    /\ due \in [Timers -> Int]

\* timer_set under timer_lock, d before the timer is due.
LEMMA InQueueKeeps ==
    ASSUME TimerWorld, TimerInv, NEW c \in CPUs, NEW t \in Timers, ~Queued(timer_queue[c], t),
           NEW delay \in Nat, 1 <= delay, Near(delay),
           NEW s \in 0 .. M - 1, NEW d \in Int, Points(s, now, d), Near(d),
           -(MaxLate + MaxTick + Slack) <= d, delay - Slack <= d,
           scheduled_time' = [scheduled_time EXCEPT ![t] = s], due' = [due EXCEPT ![t] = d],
           armed' = [armed EXCEPT ![t] = TRUE], callback' \in [Timers -> BOOLEAN],
           NEW period \in Nat, Near(period), periodic_time' = [periodic_time EXCEPT ![t] = period],
           SetInQueue(c, t, delay), now' = now
    PROVE  /\ SetTypes' /\ QueueInv(c)' /\ -MaxLate <= hw'[c] /\ (OnTime(c) => OnTime(c)')
           /\ \A u : Queued(timer_queue'[c], u) <=> u = t \/ Queued(timer_queue[c], u)
           /\ due'[t] = d
           /\ \A u \in Timers : u # t => /\ due'[u] = due[u] /\ armed'[u] = armed[u]
                                         /\ scheduled_time'[u] = scheduled_time[u]
<1>1. /\ M \in Nat /\ M > 0 /\ Half \in Int /\ 0 < Half /\ Half + Half <= M /\ MaxLate \in Nat /\ MaxTick \in Nat /\ Slack \in Nat /\ MaxTick <= Slack
  BY ClockFacts
<1>2. PICK q, r : q = timer_queue[c] /\ r = timer_queue'[c]
  OBVIOUS
<1>3. /\ now \in Int /\ 0 <= now /\ now < M /\ q \in Seq(Timers) /\ hw[c] \in Int /\ delay < Half
  BY <1>1, <1>2, CpuFacts DEF Near
<1>4. s \in 0 .. M - 1 /\ Points(s, now, d)
  OBVIOUS
<1>5. /\ scheduled_time' = [scheduled_time EXCEPT ![t] = s]
      /\ due' = [due EXCEPT ![t] = d]
      /\ timer_queue' = [timer_queue EXCEPT ![c] = insert_timer_in_queue(q, t, scheduled_time')]
      /\ periodic_time' = [periodic_time EXCEPT ![t] = period]
      /\ armed' = [armed EXCEPT ![t] = TRUE]
      /\ hw' = IF Head(r) = t THEN platform_set_oneshot_timer(c, delay) ELSE hw
  BY <1>2 DEF SetInQueue, NewHead
<1>6. /\ timer_queue \in [CPUs -> Seq(Timers)] /\ periodic_time \in [Timers -> Nat]
      /\ callback \in [Timers -> BOOLEAN] /\ armed \in [Timers -> BOOLEAN] /\ hw \in [CPUs -> Int]
      /\ \A u \in Timers : Near(periodic_time[u])
  BY DEF TimerInv, TimerTypes
<1>7. r = insert_timer_in_queue(q, t, scheduled_time')
  BY <1>2, <1>5, <1>6
<1>8. /\ r \in Seq(Timers) /\ r # << >> /\ InOrderOf(r, due')
      /\ \A u : Queued(r, u) <=> u = t \/ Queued(q, u)
      /\ Head(r) = t \/ (q # << >> /\ Head(r) = Head(q))
      /\ scheduled_time' \in [Timers -> 0 .. M - 1] /\ due' \in [Timers -> Int]
      /\ scheduled_time'[t] = s /\ due'[t] = d
      /\ \A u \in Timers : u # t => scheduled_time'[u] = scheduled_time[u] /\ due'[u] = due[u]
      /\ \A u \in Timers : Queued(r, u) => Points(scheduled_time'[u], now, due'[u]) /\ Near(due'[u])
  <2>1. d \in Int /\ -(MaxLate + MaxTick + Slack) <= d
    OBVIOUS
  <2>2. PICK sched, left : sched = scheduled_time' /\ left = due'
    OBVIOUS
  <2>3. sched = [scheduled_time EXCEPT ![t] = s] /\ left = [due EXCEPT ![t] = d]
        /\ r = insert_timer_in_queue(q, t, sched)
    BY <1>5, <1>7, <2>2
  <2>4. Joins(r, q, t, s, d, sched, left)
    <3>1. /\ TimerWorld /\ TimerInv /\ c \in CPUs /\ t \in Timers /\ ~Queued(timer_queue[c], t)
          /\ Near(d) /\ q = timer_queue[c]
      BY <1>2
    <3>2. QED
      BY ONLY <1>4, <2>1, <2>3, <3>1, Enqueued
  <2>5. Joins(r, q, t, s, d, scheduled_time', due')
    BY <2>2, <2>4
  <2>6. QED
    BY ONLY <2>5 DEF Joins
<1>9. /\ timer_queue' \in [CPUs -> Seq(Timers)] /\ periodic_time' \in [Timers -> Nat]
      /\ callback' \in [Timers -> BOOLEAN] /\ armed' \in [Timers -> BOOLEAN] /\ armed'[t] = TRUE
      /\ \A u \in Timers : u # t => armed'[u] = armed[u]
      /\ \A u \in Timers : Near(periodic_time'[u])
  BY <1>5, <1>6, <1>7, <1>8
<1>10. platform_set_oneshot_timer(c, delay) = [hw EXCEPT ![c] = delay]
  <2>1. delay # 0
    OBVIOUS
  <2>2. QED
    BY <2>1 DEF platform_set_oneshot_timer
<1>11. hw' \in [CPUs -> Int] /\ (Head(r) = t => hw'[c] = delay) /\ (Head(r) # t => hw'[c] = hw[c])
  BY <1>5, <1>6, <1>10
<1>12. -MaxLate <= hw'[c]
  <2>1. -MaxLate <= hw[c]
    BY DEF TimerInv, HardwareInv
  <2>2. QED
    BY <1>1, <1>11, <2>1
<1>13. SetTypes'
  BY <1>8, <1>9, <1>11 DEF SetTypes
<1>14. QueueInv(c)'
  <2>1. \A u \in Timers : Queued(r, u) => armed'[u]
    BY <1>2, <1>8, <1>9, QueuedFacts
  <2>2. InOrderOf(timer_queue'[c], due')
    BY <1>2, <1>8
  <2>3. \A u \in Timers : Queued(timer_queue'[c], u) =>
           armed'[u] /\ Points(scheduled_time'[u], now', due'[u]) /\ Near(due'[u])
    BY <1>2, <1>8, <2>1
  <2>4. QED
    BY <2>2, <2>3 DEF QueueInv
<1>15. ASSUME OnTime(c) PROVE OnTime(c)'
  <2>1. ASSUME NEW u \in Timers, Queued(r, u)
        PROVE  hw'[c] # Off /\ hw'[c] - Slack <= due'[u]
    <3>1. CASE Head(r) = t
      <4>1. due'[Head(r)] <= due'[u]
        <5>1. PICK left : left = due'
          OBVIOUS
        <5>2. left[Head(r)] <= left[u]
          BY <1>8, <2>1, <5>1, HeadFirst
        <5>3. QED
          BY <5>1, <5>2
      <4>2. hw'[c] = delay /\ d <= due'[u] /\ due'[u] \in Int /\ delay - Slack <= d
        BY <1>8, <1>11, <3>1, <4>1
      <4>3. QED
        BY <1>1, <1>3, <4>2 DEF Off
    <3>2. CASE Head(r) # t
      <4>1. hw'[c] = hw[c] /\ q # << >> /\ Head(r) = Head(q)
        BY <1>8, <1>11, <3>2
      <4>2. Head(q) \in Timers /\ Queued(q, Head(q))
        BY <1>3, <4>1 DEF Queued
      <4>3. hw[c] # Off /\ hw[c] - Slack <= due[Head(q)]
        BY <1>2, <1>15, <4>2 DEF OnTime
      <4>4. CASE u # t
        <5>1. Queued(q, u) /\ due'[u] = due[u]
          BY <1>8, <2>1, <4>4
        <5>2. QED
          BY <1>2, <1>15, <4>1, <5>1 DEF OnTime
      <4>5. CASE u = t
        <5>1. due'[Head(r)] <= due'[u]
          <6>1. PICK left : left = due'
            OBVIOUS
          <6>2. left[Head(r)] <= left[u]
            BY <1>8, <2>1, <6>1, HeadFirst
          <6>3. QED
            BY <6>1, <6>2
        <5>2. due'[Head(r)] = due[Head(q)]
          BY <1>8, <3>2, <4>1, <4>2
        <5>3. due[Head(q)] \in Int /\ due'[u] \in Int
          BY <1>8, <4>2 DEF TimerInv, TimerTypes
        <5>4. QED
          BY ONLY <1>1, <1>3, <4>1, <4>3, <5>1, <5>2, <5>3
      <4>6. QED
        BY <4>4, <4>5
    <3>3. QED
      BY <3>1, <3>2
  <2>2. QED
    BY <1>2, <2>1 DEF OnTime, Off
<1>16. QED
  BY <1>2, <1>8, <1>9, <1>12, <1>13, <1>14, <1>15

\* The time on the clock of something that is due in delay.
LEMMA SetTimesPoints ==
    ASSUME TimerWorld, TimerInv, NEW delay \in Nat, Near(delay), NEW s, s = (now + delay) % M
    PROVE  s \in 0 .. M - 1 /\ Points(s, now, delay)
<1>1. /\ M \in Nat /\ M > 0 /\ Half \in Int /\ 0 < Half /\ Half + Half <= M /\ MaxLate \in Nat /\ MaxTick \in Nat /\ Slack \in Nat
  BY ClockFacts
<1>2. now \in Int /\ 0 <= now /\ now < M
  BY <1>1 DEF TimerInv, TimerTypes
<1>3. delay < Half
  BY <1>1 DEF Near
<1>4. PICK x : x = now + delay
  OBVIOUS
<1>5. x \in Int /\ 0 <= x /\ x < 2 * M /\ -M <= x
  BY <1>1, <1>2, <1>3, <1>4
<1>6. s \in 0 .. M - 1 /\ (x < M => s = x) /\ (M <= x => s = x - M)
  BY <1>1, <1>4, <1>5, Wrapped
<1>7. s = now + delay \/ s = now + delay - M
  BY ONLY <1>1, <1>2, <1>4, <1>5, <1>6
<1>8. QED
  BY <1>6, <1>7 DEF Points

\* timer_set in a callback.
LEMMA SetKeeps ==
    ASSUME TimerWorld, TimerInv, NEW c \in CPUs, NEW t \in Timers, ~Queued(timer_queue[c], t),
           NEW delay \in Nat, 1 <= delay, Near(delay), NEW period \in Nat, Near(period),
           timer_set(c, t, delay, period), now' = now
    PROVE  /\ SetTypes' /\ QueueInv(c)' /\ -MaxLate <= hw'[c] /\ (OnTime(c) => OnTime(c)')
           /\ \A u : Queued(timer_queue'[c], u) <=> u = t \/ Queued(timer_queue[c], u)
           /\ due'[t] = delay
           /\ \A u \in Timers : u # t => /\ due'[u] = due[u] /\ armed'[u] = armed[u]
                                         /\ scheduled_time'[u] = scheduled_time[u]
<1>1. PICK s : s = (now + delay) % M
  OBVIOUS
<1>2. s \in 0 .. M - 1 /\ Points(s, now, delay)
  BY <1>1, SetTimesPoints
<1>3. /\ scheduled_time' = [scheduled_time EXCEPT ![t] = s]
      /\ due' = [due EXCEPT ![t] = delay]
      /\ periodic_time' = [periodic_time EXCEPT ![t] = period]
      /\ callback' = [callback EXCEPT ![t] = TRUE]
      /\ armed' = [armed EXCEPT ![t] = TRUE]
      /\ SetInQueue(c, t, delay)
  BY <1>1 DEF timer_set, SetTimes
<1>4. delay \in Int /\ -(MaxLate + MaxTick + Slack) <= delay /\ delay - Slack <= delay
  BY ClockFacts
<1>5. callback' \in [Timers -> BOOLEAN]
  BY <1>3 DEF TimerInv, TimerTypes
<1>6. QED
  BY <1>2, <1>3, <1>4, <1>5, InQueueKeeps

\* timer_cancel, on the only cpu.
LEMMA CancelKeeps ==
    ASSUME TimerWorld, TimerInv, NEW c \in CPUs, NEW t \in Timers,
           timer_cancel(c, t), now' = now
    PROVE  /\ SetTypes' /\ QueueInv(c)' /\ -MaxLate <= hw'[c] /\ (OnTime(c) => OnTime(c)')
           /\ \A u : Queued(timer_queue'[c], u) <=> u # t /\ Queued(timer_queue[c], u)
           /\ periodic_time'[t] = 0
           /\ \A u \in Timers : u # t => /\ due'[u] = due[u] /\ armed'[u] = armed[u]
                                         /\ scheduled_time'[u] = scheduled_time[u]
<1>1. /\ M \in Nat /\ M > 0 /\ Half \in Int /\ 0 < Half /\ Half + Half <= M /\ MaxLate \in Nat /\ MaxTick \in Nat /\ Slack \in Nat /\ MaxTick <= Slack
      /\ MaxLate + MaxTick + Slack < Half
  BY ClockFacts
<1>2. PICK q, r : q = timer_queue[c] /\ r = timer_queue'[c]
  OBVIOUS
<1>3. /\ now \in Int /\ 0 <= now /\ now < M /\ q \in Seq(Timers) /\ hw[c] \in Int /\ InOrderOf(q, due)
  BY <1>2, CpuFacts
<1>4. /\ due' = [due EXCEPT ![t] = 0]
      /\ timer_queue' = [d \in CPUs |-> list_delete(timer_queue[d], t)]
      /\ periodic_time' = [periodic_time EXCEPT ![t] = 0]
      /\ callback' = [callback EXCEPT ![t] = FALSE]
      /\ armed' = [armed EXCEPT ![t] = FALSE]
      /\ scheduled_time' = scheduled_time
      /\ hw' = CASE r = <<>> -> platform_stop_timer(c)
                 [] r # <<>> /\ Head(r) # Head(q) ->
                      platform_set_oneshot_timer(c,
                          IF TIME_LT(scheduled_time[Head(r)], now) THEN 0
                          ELSE (scheduled_time[Head(r)] - now) % M)
                 [] OTHER -> hw
  BY <1>2 DEF timer_cancel
<1>5. /\ timer_queue \in [CPUs -> Seq(Timers)] /\ periodic_time \in [Timers -> Nat]
      /\ callback \in [Timers -> BOOLEAN] /\ armed \in [Timers -> BOOLEAN] /\ hw \in [CPUs -> Int]
      /\ scheduled_time \in [Timers -> 0 .. M - 1] /\ due \in [Timers -> Int]
      /\ \A u \in Timers : Near(periodic_time[u])
  BY DEF TimerInv, TimerTypes
<1>6. /\ r \in Seq(Timers) /\ InOrderOf(r, due)
      /\ \A u : Queued(r, u) <=> u # t /\ Queued(q, u)
  <2>1. r = list_delete(q, t)
    BY <1>2, <1>4
  <2>2. QED
    BY ONLY <1>3, <2>1, t \in Timers, Deleted
<1>7. timer_queue' \in [CPUs -> Seq(Timers)]
  <2>1. \A d \in CPUs : d = c
    BY DEF TimerWorld
  <2>2. \A d \in CPUs : list_delete(timer_queue[d], t) = r
    BY <1>2, <1>4, <2>1
  <2>3. QED
    BY <1>4, <1>6, <2>2
<1>8. /\ due' \in [Timers -> Int] /\ periodic_time' \in [Timers -> Nat] /\ callback' \in [Timers -> BOOLEAN]
      /\ armed' \in [Timers -> BOOLEAN] /\ periodic_time'[t] = 0
      /\ \A u \in Timers : u # t => due'[u] = due[u] /\ armed'[u] = armed[u] /\ periodic_time'[u] = periodic_time[u]
  BY <1>4, <1>5
<1>9. \A u \in Timers : Near(periodic_time'[u])
  <2>1. Near(0)
    BY <1>1 DEF Near
  <2>2. QED
    BY <1>5, <1>8, <2>1
<1>10. InOrderOf(r, due')
  <2>1. Len(r) \in Nat /\ \A j \in 1 .. Len(r) : r[j] \in Timers /\ r[j] # t
    BY <1>6 DEF Queued
  <2>2. \A j \in 1 .. Len(r) : due'[r[j]] = due[r[j]]
    BY <1>8, <2>1
  <2>3. QED
    BY ONLY <1>6, <2>2 DEF InOrderOf
<1>11. QueueInv(c)'
  <2>1. ASSUME NEW u \in Timers, Queued(r, u)
        PROVE  armed'[u] /\ Points(scheduled_time'[u], now', due'[u]) /\ Near(due'[u])
    <3>1. u # t /\ Queued(timer_queue[c], u)
      BY <1>2, <1>6, <2>1
    <3>2. armed[u] /\ Points(scheduled_time[u], now, due[u]) /\ Near(due[u])
      BY <3>1, QueuedFacts
    <3>3. QED
      BY <1>4, <1>8, <3>1, <3>2
  <2>2. QED
    BY <1>2, <1>10, <2>1 DEF QueueInv
<1>12. /\ hw' \in [CPUs -> Int] /\ -MaxLate <= hw'[c] /\ (OnTime(c) => OnTime(c)')
  <2>0. -MaxLate <= hw[c]
    BY DEF TimerInv, HardwareInv
  <2>1. CASE r = << >>
    <3>1. hw' = [hw EXCEPT ![c] = Off]
      BY <1>4, <2>1 DEF platform_stop_timer
    <3>2. hw' \in [CPUs -> Int] /\ hw'[c] = M
      BY <1>1, <1>5, <3>1 DEF Off
    <3>3. Len(r) = 0
      BY <2>1
    <3>4. \A u : ~Queued(r, u)
      BY <3>3 DEF Queued
    <3>5. OnTime(c)'
      BY <1>2, <3>4 DEF OnTime
    <3>6. QED
      BY <1>1, <3>2, <3>5
  <2>2. CASE r # << >> /\ Head(r) # Head(q)
    <3>1. PICK h, x : h = Head(r) /\ x = IF TIME_LT(scheduled_time[h], now) THEN 0 ELSE (scheduled_time[h] - now) % M
      OBVIOUS
    <3>2. hw' = platform_set_oneshot_timer(c, x)
      BY <1>4, <2>2, <3>1
    <3>3. h \in Timers /\ Queued(r, h) /\ \A u : Queued(r, u) => due[h] <= due[u]
      BY <1>5, <1>6, <2>2, <3>1, HeadFirst
    <3>4. h # t /\ Queued(timer_queue[c], h)
      BY <1>2, <1>6, <3>3
    <3>5. /\ due[h] \in Int /\ scheduled_time[h] \in 0 .. M - 1
          /\ Points(scheduled_time[h], now, due[h])
          /\ due[h] < Half /\ -Half < due[h]
      BY <3>3, <3>4, QueuedFacts
    <3>6. Points(now, now, 0) /\ due[h] - 0 = due[h] /\ now \in 0 .. M - 1
      BY <1>1, <1>3, <3>5 DEF Points
    <3>7. /\ Signed(scheduled_time[h] - now) = due[h]
          /\ 0 <= due[h] => (scheduled_time[h] - now) % M = due[h]
      <4>1. /\ Signed(scheduled_time[h] - now) = due[h] - 0
            /\ 0 <= due[h] - 0 => (scheduled_time[h] - now) % M = due[h] - 0
        <5>1. -Half < due[h] - 0 /\ due[h] - 0 < Half /\ 0 \in Int
          BY <3>5, <3>6
        <5>2. QED
          BY ONLY <1>3, <3>5, <3>6, <5>1, TimerWorld, Compared
      <4>2. QED
        BY ONLY <3>6, <4>1
    <3>8. x \in Int /\ 0 <= x /\ x < Half /\ (0 <= due[h] => x = due[h]) /\ (due[h] < 0 => x = 0)
      BY <1>1, <3>1, <3>5, <3>7 DEF TIME_LT
    <3>9. /\ hw' \in [CPUs -> Int]
          /\ x = 0 /\ hw[c] <= 0 => hw'[c] = hw[c]
          /\ ~(x = 0 /\ hw[c] <= 0) => hw'[c] = x
      BY <1>5, <3>2, <3>8 DEF platform_set_oneshot_timer
    <3>10. -MaxLate <= hw'[c]
      BY <1>1, <2>0, <3>8, <3>9
    <3>11. ASSUME OnTime(c), NEW u \in Timers, Queued(r, u)
           PROVE  hw'[c] # Off /\ hw'[c] - Slack <= due'[u]
      <4>1. u # t /\ Queued(timer_queue[c], u) /\ due'[u] = due[u] /\ due[h] <= due[u] /\ due[u] \in Int
        BY <1>2, <1>5, <1>6, <1>8, <3>3, <3>11
      <4>2. hw[c] # Off /\ hw[c] - Slack <= due[u]
        BY <3>11, <4>1 DEF OnTime
      <4>3. Off = M
        BY DEF Off
      <4>4. CASE x = 0 /\ hw[c] <= 0
        BY <3>9, <4>1, <4>2, <4>4
      <4>5. CASE ~(x = 0 /\ hw[c] <= 0)
        <5>1. hw'[c] = x /\ x # Off
          BY <1>1, <3>8, <3>9, <4>3, <4>5
        <5>2. x - Slack <= due[u]
          BY ONLY <1>1, <1>3, <3>5, <3>8, <4>1, <4>2, <4>5
        <5>3. QED
          BY <4>1, <5>1, <5>2
      <4>6. QED
        BY <4>4, <4>5
    <3>12. OnTime(c) => OnTime(c)'
      BY <1>2, <3>11 DEF OnTime, Off
    <3>13. QED
      BY <3>9, <3>10, <3>12
  <2>3. CASE r # << >> /\ Head(r) = Head(q)
    <3>1. hw' = hw
      BY <1>4, <2>3
    <3>2. ASSUME OnTime(c), NEW u \in Timers, Queued(r, u)
          PROVE  hw'[c] # Off /\ hw'[c] - Slack <= due'[u]
      <4>1. Queued(timer_queue[c], u) /\ due'[u] = due[u]
        BY <1>2, <1>6, <1>8, <3>2
      <4>2. QED
        BY <3>1, <3>2, <4>1 DEF OnTime
    <3>3. OnTime(c) => OnTime(c)'
      BY <1>2, <3>2 DEF OnTime, Off
    <3>4. QED
      BY <1>5, <2>0, <3>1, <3>3
  <2>4. QED
    BY <2>1, <2>2, <2>3
<1>13. SetTypes'
  BY <1>4, <1>5, <1>7, <1>8, <1>9, <1>12 DEF SetTypes
<1>14. QED
  BY <1>2, <1>4, <1>6, <1>8, <1>11, <1>12, <1>13

\* It is enough to look at the one cpu.
LEMMA OneCpu ==
    ASSUME TimerWorld, NEW c \in CPUs, SetTypes', now' \in 0 .. M - 1, tick' \in [CPUs -> TickStates],
           setting' \in [Timers -> Nat], QueueInv(c)', HardwareInv(c)', TickInv(c)', SettingInv(c)'
    PROVE  TimerInv'
<1>1. \A d \in CPUs : d = c
  BY DEF TimerWorld
<1>2. \A d \in CPUs : QueueInv(d)' /\ HardwareInv(d)' /\ TickInv(d)' /\ SettingInv(d)'
  BY <1>1
<1>3. TimerTypes' /\ \A t \in Timers : Near(periodic_time'[t])
  BY DEF TimerTypes, SetTypes
<1>4. QED
  BY <1>2, <1>3 DEF TimerInv

\* The types are part of the invariant.
LEMMA HasSetTypes ==
    ASSUME TimerInv
    PROVE  SetTypes
  BY DEF TimerInv, TimerTypes, SetTypes

\* A step that leaves alone the timers others are in timer_set with.
LEMMA SettingKept ==
    ASSUME TimerInv, NEW c \in CPUs, setting' = setting, now' = now,
           \A u \in Timers : setting[u] # 0 =>
              /\ due'[u] = due[u] /\ armed'[u] = armed[u] /\ scheduled_time'[u] = scheduled_time[u]
              /\ Queued(timer_queue'[c], u) => Queued(timer_queue[c], u)
              /\ tick'[c].phase \in {"fire", "requeue"} => tick'[c].timer # u
    PROVE  setting' \in [Timers -> Nat] /\ SettingInv(c)'
<1>1. setting \in [Timers -> Nat] /\ SettingInv(c)
  BY DEF TimerInv, TimerTypes
<1>2. SettingInv(c)'
  BY <1>1 DEF SettingInv
<1>3. QED
  BY <1>1, <1>2

\* A thread begins timer_set.
LEMMA SetBeginKeeps ==
    ASSUME TimerWorld, TimerInv, NEW c \in CPUs, NEW t \in Timers, SetBegin(c, t)
    PROVE  TimerInv'
<1>1. PICK call \in Calls : /\ SetTimes(t, call.delay, call.period)
                            /\ setting' = [setting EXCEPT ![t] = call.delay]
  BY DEF SetBegin
<1>2. PICK delay, period, s : delay = call.delay /\ period = call.period /\ s = (now + delay) % M
  OBVIOUS
<1>3. delay \in Nat /\ 1 <= delay /\ Near(delay) /\ period \in Nat /\ Near(period) /\ MaxHeld \in Nat
  BY <1>2, ClockFacts
<1>4. /\ tick[c].phase = "none" /\ ~armed[t] /\ UNCHANGED <<now, timer_queue, hw, tick>>
      /\ scheduled_time' = [scheduled_time EXCEPT ![t] = s]
      /\ due' = [due EXCEPT ![t] = delay]
      /\ periodic_time' = [periodic_time EXCEPT ![t] = period]
      /\ callback' = [callback EXCEPT ![t] = TRUE]
      /\ armed' = [armed EXCEPT ![t] = TRUE]
      /\ setting' = [setting EXCEPT ![t] = delay]
  BY <1>1, <1>2 DEF SetBegin, SetTimes
<1>5. s \in 0 .. M - 1 /\ Points(s, now, delay)
  BY <1>2, <1>3, SetTimesPoints
<1>6. /\ timer_queue \in [CPUs -> Seq(Timers)] /\ periodic_time \in [Timers -> Nat]
      /\ callback \in [Timers -> BOOLEAN] /\ armed \in [Timers -> BOOLEAN] /\ hw \in [CPUs -> Int]
      /\ scheduled_time \in [Timers -> 0 .. M - 1] /\ due \in [Timers -> Int]
      /\ \A u \in Timers : Near(periodic_time[u])
      /\ now \in 0 .. M - 1 /\ tick \in [CPUs -> TickStates] /\ setting \in [Timers -> Nat]
  BY DEF TimerInv, TimerTypes
<1>7. /\ scheduled_time' \in [Timers -> 0 .. M - 1] /\ due' \in [Timers -> Int] /\ armed' \in [Timers -> BOOLEAN]
      /\ setting' \in [Timers -> Nat] /\ periodic_time' \in [Timers -> Nat] /\ callback' \in [Timers -> BOOLEAN]
      /\ scheduled_time'[t] = s /\ due'[t] = delay /\ armed'[t] /\ setting'[t] = delay
      /\ \A u \in Timers : Near(periodic_time'[u])
      /\ \A u \in Timers : u # t => /\ due'[u] = due[u] /\ armed'[u] = armed[u] /\ setting'[u] = setting[u]
                                    /\ scheduled_time'[u] = scheduled_time[u]
  BY <1>3, <1>4, <1>5, <1>6
<1>8. SetTypes'
  BY <1>4, <1>6, <1>7 DEF SetTypes
<1>9. ~Queued(timer_queue[c], t)
  BY <1>4, QueuedFacts
<1>10. \A u \in Timers : Queued(timer_queue[c], u) =>
          due'[u] = due[u] /\ armed'[u] = armed[u] /\ scheduled_time'[u] = scheduled_time[u]
  BY <1>7, <1>9
<1>11. QueueInv(c)'
  <2>1. /\ InOrderOf(timer_queue[c], due) /\ timer_queue[c] \in Seq(Timers)
        /\ \A u \in Timers : Queued(timer_queue[c], u) =>
              armed[u] /\ Points(scheduled_time[u], now, due[u]) /\ Near(due[u])
    BY <1>6 DEF TimerInv, QueueInv
  <2>2. \A i \in 1 .. Len(timer_queue[c]) : due'[timer_queue[c][i]] = due[timer_queue[c][i]]
    BY <1>10, <2>1 DEF Queued
  <2>3. InOrderOf(timer_queue[c], due')
    BY ONLY <2>1, <2>2 DEF InOrderOf
  <2>4. \A u \in Timers : Queued(timer_queue[c], u) =>
           armed'[u] /\ Points(scheduled_time'[u], now, due'[u]) /\ Near(due'[u])
    BY <1>10, <2>1
  <2>5. QED
    BY <1>4, <2>3, <2>4 DEF QueueInv
<1>12. HardwareInv(c)'
  <2>1. -MaxLate <= hw[c] /\ OnTime(c)
    BY <1>4 DEF TimerInv, HardwareInv
  <2>2. OnTime(c)'
    BY <1>4, <1>10, <2>1 DEF OnTime
  <2>3. QED
    BY <1>4, <2>1, <2>2 DEF HardwareInv
<1>13. TickInv(c)'
  BY <1>4 DEF TickInv
<1>14. SettingInv(c)'
  <2>1. SettingInv(c)
    BY DEF TimerInv
  <2>2. delay - delay <= MaxHeld /\ delay <= delay
    BY <1>3
  <2>3. SUFFICES ASSUME NEW u \in Timers, setting'[u] # 0
                 PROVE  /\ armed'[u] /\ Points(scheduled_time'[u], now, due'[u])
                        /\ Near(setting'[u]) /\ due'[u] <= setting'[u] /\ setting'[u] - due'[u] <= MaxHeld
                        /\ ~Queued(timer_queue[c], u)
    BY <1>4 DEF SettingInv
  <2>4. CASE u = t
    BY <1>3, <1>5, <1>7, <1>9, <2>2, <2>4
  <2>5. CASE u # t
    BY <1>7, <2>1, <2>3, <2>5 DEF SettingInv
  <2>6. QED
    BY <2>4, <2>5
<1>15. QED
  BY <1>4, <1>6, <1>7, <1>8, <1>11, <1>12, <1>13, <1>14, OneCpu

\* A thread ends timer_set.
LEMMA SetEndKeeps ==
    ASSUME TimerWorld, TimerInv, NEW c \in CPUs, NEW t \in Timers, SetEnd(c, t)
    PROVE  TimerInv'
<1>1. PICK delay, d, s, p : delay = setting[t] /\ d = due[t] /\ s = scheduled_time[t] /\ p = periodic_time[t]
  OBVIOUS
<1>2. /\ tick[c].phase = "none" /\ delay # 0 /\ SetInQueue(c, t, delay)
      /\ UNCHANGED <<now, scheduled_time, periodic_time, callback, tick, armed, due>>
      /\ setting' = [setting EXCEPT ![t] = 0]
  BY <1>1 DEF SetEnd
<1>3. /\ periodic_time \in [Timers -> Nat] /\ callback \in [Timers -> BOOLEAN] /\ armed \in [Timers -> BOOLEAN]
      /\ scheduled_time \in [Timers -> 0 .. M - 1] /\ due \in [Timers -> Int]
      /\ \A u \in Timers : Near(periodic_time[u])
      /\ now \in 0 .. M - 1 /\ tick \in [CPUs -> TickStates] /\ setting \in [Timers -> Nat] /\ SettingInv(c)
  BY DEF TimerInv, TimerTypes
<1>4. /\ armed[t] /\ Points(s, now, d) /\ Near(delay) /\ d <= delay /\ delay - d <= MaxHeld
      /\ ~Queued(timer_queue[c], t)
  BY <1>1, <1>2, <1>3 DEF SettingInv
<1>5. delay \in Nat /\ 1 <= delay /\ d \in Int /\ s \in 0 .. M - 1 /\ p \in Nat /\ Near(p)
  BY <1>1, <1>2, <1>3
<1>6. Near(d) /\ -(MaxLate + MaxTick + Slack) <= d /\ delay - Slack <= d
  <2>1. /\ Half \in Int /\ MaxLate \in Nat /\ MaxTick \in Nat /\ Slack \in Nat /\ MaxHeld \in Nat /\ MaxHeld <= Slack
    BY ClockFacts
  <2>2. delay + MaxLate + MaxTick + Slack < Half
    BY <1>4 DEF Near
  <2>3. d + MaxLate + MaxTick + Slack < Half /\ -(MaxLate + MaxTick + Slack) <= d /\ delay - Slack <= d
    BY ONLY <1>4, <1>5, <2>1, <2>2
  <2>4. QED
    BY <2>3 DEF Near
<1>7. /\ SetTypes' /\ QueueInv(c)' /\ -MaxLate <= hw'[c] /\ (OnTime(c) => OnTime(c)')
      /\ \A u : Queued(timer_queue'[c], u) <=> u = t \/ Queued(timer_queue[c], u)
  <2>1. /\ scheduled_time' = [scheduled_time EXCEPT ![t] = s] /\ due' = [due EXCEPT ![t] = d]
        /\ periodic_time' = [periodic_time EXCEPT ![t] = p]
    BY <1>1, <1>2, <1>3
  <2>2. armed' = [armed EXCEPT ![t] = TRUE]
    BY <1>2, <1>3, <1>4
  <2>3. callback' \in [Timers -> BOOLEAN]
    BY <1>2, <1>3
  <2>4. QED
    BY <1>2, <1>4, <1>5, <1>6, <2>1, <2>2, <2>3, InQueueKeeps
<1>8. HardwareInv(c)'
  BY <1>2, <1>7 DEF TimerInv, HardwareInv
<1>9. TickInv(c)'
  BY <1>2 DEF TickInv
<1>10. setting' \in [Timers -> Nat] /\ setting'[t] = 0 /\ \A u \in Timers : u # t => setting'[u] = setting[u]
  BY <1>2, <1>3
<1>11. SettingInv(c)'
  BY <1>2, <1>3, <1>7, <1>10 DEF SettingInv
<1>12. QED
  BY <1>2, <1>3, <1>7, <1>8, <1>9, <1>10, <1>11, OneCpu

\* A thread or an interrupt handler cancels a timer.
LEMMA CallCancelKeeps ==
    ASSUME TimerWorld, TimerInv, NEW c \in CPUs, NEW t \in Timers, Cancel(c, t)
    PROVE  TimerInv'
<1>1. /\ tick[c].phase = "none" /\ setting[t] = 0 /\ timer_cancel(c, t)
      /\ now' = now /\ tick' = tick /\ setting' = setting
  BY DEF Cancel
<1>2. OnTime(c) /\ now \in 0 .. M - 1 /\ tick \in [CPUs -> TickStates]
  BY <1>1 DEF TimerInv, HardwareInv, TimerTypes
<1>3. /\ SetTypes' /\ QueueInv(c)' /\ -MaxLate <= hw'[c] /\ OnTime(c)'
      /\ \A u : Queued(timer_queue'[c], u) <=> u # t /\ Queued(timer_queue[c], u)
      /\ \A u \in Timers : u # t => /\ due'[u] = due[u] /\ armed'[u] = armed[u]
                                    /\ scheduled_time'[u] = scheduled_time[u]
  BY <1>1, <1>2, CancelKeeps
<1>4. HardwareInv(c)'
  BY <1>3 DEF HardwareInv
<1>5. TickInv(c)'
  BY <1>1 DEF TickInv
<1>6. setting' \in [Timers -> Nat] /\ SettingInv(c)'
  BY <1>1, <1>3, SettingKept
<1>7. QED
  BY <1>1, <1>2, <1>3, <1>4, <1>5, <1>6, OneCpu

\* The timer interrupt begins a timer_tick.
LEMMA TickKeeps ==
    ASSUME TimerWorld, TimerInv, NEW c \in CPUs, Tick(c)
    PROVE  TimerInv'
<1>1. /\ M \in Nat /\ M > 0 /\ MaxLate \in Nat /\ MaxTick \in Nat /\ Slack \in Nat /\ MaxTick <= Slack
  BY ClockFacts
<1>2. /\ tick[c].phase = "none" /\ hw[c] <= 0 /\ hw' = [hw EXCEPT ![c] = Off]
      /\ tick' = [tick EXCEPT ![c] = [phase |-> "loop", now |-> now]]
      /\ UNCHANGED <<now, timer_queue, scheduled_time, periodic_time, callback, setting, armed, due>>
  BY DEF Tick, platform_stop_timer
<1>3. now \in 0 .. M - 1 /\ tick \in [CPUs -> TickStates] /\ hw \in [CPUs -> Int] /\ SetTypes
  BY HasSetTypes DEF TimerInv, TimerTypes
<1>4. hw' \in [CPUs -> Int] /\ hw'[c] = M
  BY <1>1, <1>2, <1>3 DEF Off
<1>5. tick' \in [CPUs -> TickStates] /\ tick'[c].phase = "loop" /\ tick'[c].now = now
  <2>1. [phase |-> "loop", now |-> now] \in TickStates
    BY <1>3 DEF TickStates
  <2>2. QED
    BY <1>2, <1>3, <2>1
<1>6. SetTypes'
  BY <1>2, <1>3, <1>4 DEF SetTypes
<1>7. QueueInv(c)'
  BY <1>2 DEF TimerInv, QueueInv
<1>8. HardwareInv(c)'
  BY <1>1, <1>4, <1>5 DEF HardwareInv
<1>9. TickInv(c)'
  <2>1. TickTime(c)' = (now - now) % M
    BY <1>2, <1>5 DEF TickTime, M
  <2>2. TickTime(c)' = 0
    BY <1>1, <1>3, <2>1
  <2>3. ASSUME NEW u \in Timers, Queued(timer_queue[c], u)
        PROVE  -(MaxLate + Slack) <= due[u] + 0
    <3>1. hw[c] - Slack <= due[u] /\ -MaxLate <= hw[c] /\ hw[c] \in Int /\ due[u] \in Int
      BY <1>2, <1>3, <2>3 DEF TimerInv, HardwareInv, OnTime, TimerTypes
    <3>2. QED
      BY <1>1, <3>1
  <2>4. NotLost(c)'
    BY <1>2, <2>2, <2>3 DEF NotLost
  <2>5. QED
    BY <1>1, <1>5, <2>2, <2>4 DEF TickInv
<1>10. setting' \in [Timers -> Nat] /\ SettingInv(c)'
  BY <1>2, <1>5, SettingKept
<1>11. QED
  BY <1>2, <1>3, <1>5, <1>6, <1>7, <1>8, <1>9, <1>10, OneCpu

\* The head is due when timer_tick finds it so.
LEMMA HeadDueIs ==
    ASSUME TimerWorld, TimerInv, NEW c \in CPUs, tick[c].phase # "none", timer_queue[c] # << >>,
           NEW h, h = Head(timer_queue[c])
    PROVE  /\ h \in Timers /\ Queued(timer_queue[c], h) /\ due[h] \in Int
           /\ HeadDue(c) <=> due[h] + TickTime(c) <= 0
           /\ ~HeadDue(c) => (scheduled_time[h] - tick[c].now) % M = due[h] + TickTime(c)
                             /\ due[h] + TickTime(c) < M
<1>1. /\ M \in Nat /\ M > 0 /\ Half \in Int /\ Half + Half <= M /\ MaxLate \in Nat /\ MaxTick \in Nat /\ Slack \in Nat /\ MaxTick <= Slack
      /\ MaxLate + MaxTick + Slack < Half /\ 0 < Half
  BY ClockFacts
<1>2. /\ now \in Int /\ timer_queue[c] \in Seq(Timers) /\ InOrderOf(timer_queue[c], due)
      /\ tick[c].now \in 0 .. M - 1 /\ TickTime(c) \in 0 .. M - 1 /\ TickTime(c) <= MaxTick
      /\ Points(tick[c].now, now, -TickTime(c)) /\ NotLost(c)
  BY CpuFacts
<1>3. h \in Timers /\ Queued(timer_queue[c], h)
  BY <1>2, HeadFirst DEF TimerInv, TimerTypes
<1>4. /\ due[h] \in Int /\ scheduled_time[h] \in 0 .. M - 1
      /\ Points(scheduled_time[h], now, due[h]) /\ Near(due[h])
  BY <1>3, QueuedFacts
<1>5. -(MaxLate + Slack) <= due[h] + TickTime(c)
  BY <1>2, <1>3 DEF NotLost
<1>6. PICK x, y, z : x = TickTime(c) /\ y = due[h] /\ z = -x
  OBVIOUS
<1>7. /\ x \in Int /\ y \in Int /\ z \in Int /\ z - y = -(y + x) /\ y - z = y + x
      /\ -Half < z - y /\ z - y < Half /\ -Half < y - z /\ y - z < Half /\ 0 <= x
  <2>1. x \in Int /\ y \in Int /\ 0 <= x
    BY <1>1, <1>2, <1>4, <1>6
  <2>2. x <= MaxTick /\ -(MaxLate + Slack) <= y + x /\ y + MaxLate + MaxTick + Slack < Half
    BY <1>2, <1>4, <1>5, <1>6 DEF Near
  <2>3. z \in Int /\ z - y = -(y + x) /\ y - z = y + x
    BY <1>6, <2>1
  <2>4. y + x < Half /\ -(y + x) < Half
    BY ONLY <1>1, <2>1, <2>2
  <2>5. QED
    BY ONLY <1>1, <2>1, <2>3, <2>4
<1>8. Points(tick[c].now, now, z) /\ Points(scheduled_time[h], now, y)
  BY <1>2, <1>4, <1>6
<1>9. Signed(tick[c].now - scheduled_time[h]) = z - y
  BY ONLY TimerWorld, <1>2, <1>4, <1>7, <1>8, Compared
<1>10. 0 <= y - z => (scheduled_time[h] - tick[c].now) % M = y - z
  BY ONLY TimerWorld, <1>2, <1>4, <1>7, <1>8, Compared
<1>11. HeadDue(c) <=> ~(z - y < 0)
  BY <1>9 DEF HeadDue, TIME_LT
<1>12. HeadDue(c) <=> y + x <= 0
  BY <1>7, <1>11
<1>13. ~HeadDue(c) => (scheduled_time[h] - tick[c].now) % M = y + x /\ y + x < M
  BY <1>1, <1>7, <1>10, <1>12
<1>14. QED
  BY <1>3, <1>4, <1>6, <1>12, <1>13

\* A queue without its head.
LEMMA TailOf ==
    ASSUME NEW q \in Seq(Timers), NEW left, InOrderOf(q, left), q # << >>,
           NEW r, r = Tail(q), NEW h, h = Head(q)
    PROVE  /\ r \in Seq(Timers) /\ InOrderOf(r, left)
           /\ \A u : Queued(r, u) <=> u # h /\ Queued(q, u)
<1>1. /\ Len(q) \in Nat /\ 1 \in 1 .. Len(q) /\ h = q[1]
      /\ r \in Seq(Timers) /\ Len(r) = Len(q) - 1 /\ \A i \in 1 .. Len(r) : r[i] = q[i + 1]
  OBVIOUS
<1>2. \A i \in 1 .. Len(r) : i + 1 \in 1 .. Len(q) /\ 1 < i + 1
  BY <1>1
<1>3. InOrderOf(r, left)
  <2>1. ASSUME NEW i \in 1 .. Len(r), NEW j \in 1 .. Len(r), i < j
        PROVE  left[r[i]] <= left[r[j]] /\ r[i] # r[j]
    <3>1. i + 1 < j + 1 /\ i + 1 \in 1 .. Len(q) /\ j + 1 \in 1 .. Len(q)
      BY <1>1, <2>1
    <3>2. QED
      BY <1>1, <3>1 DEF InOrderOf
  <2>2. QED
    BY <2>1 DEF InOrderOf
<1>4. ASSUME NEW u, Queued(r, u) PROVE u # h /\ Queued(q, u)
  <2>1. PICK i \in 1 .. Len(r) : r[i] = u
    BY <1>4 DEF Queued
  <2>2. i + 1 \in 1 .. Len(q) /\ 1 < i + 1 /\ q[i + 1] = u
    BY <1>1, <1>2, <2>1
  <2>3. QED
    BY <1>1, <2>2 DEF Queued, InOrderOf
<1>5. ASSUME NEW u, u # h, Queued(q, u) PROVE Queued(r, u)
  <2>1. PICK i \in 1 .. Len(q) : q[i] = u
    BY <1>5 DEF Queued
  <2>2. i # 1
    BY <1>1, <1>5, <2>1
  <2>3. i - 1 \in 1 .. Len(r) /\ (i - 1) + 1 = i
    BY <1>1, <2>2
  <2>4. r[i - 1] = u
    BY <1>1, <2>1, <2>3
  <2>5. QED
    BY <2>3, <2>4 DEF Queued
<1>6. QED
  BY <1>1, <1>3, <1>4, <1>5

\* A timer that is due leaves the queue.
LEMMA DequeueKeeps ==
    ASSUME TimerWorld, TimerInv, NEW c \in CPUs, Dequeue(c)
    PROVE  TimerInv'
<1>1. PICK h, q, r : h = Head(timer_queue[c]) /\ q = timer_queue[c] /\ r = Tail(q)
  OBVIOUS
<1>2. /\ tick[c].phase = "loop" /\ HeadDue(c) /\ q # << >>
      /\ tick' = [tick EXCEPT ![c] = [phase |-> "fire", now |-> tick[c].now, timer |-> h]]
      /\ timer_queue' = [timer_queue EXCEPT ![c] = r]
      /\ UNCHANGED <<now, scheduled_time, periodic_time, callback, hw, setting, armed, due>>
  BY <1>1 DEF Dequeue, HeadDue
<1>3. /\ now \in 0 .. M - 1 /\ tick \in [CPUs -> TickStates] /\ SetTypes
      /\ timer_queue \in [CPUs -> Seq(Timers)]
  BY HasSetTypes DEF TimerInv, TimerTypes
<1>4. /\ q \in Seq(Timers) /\ InOrderOf(q, due) /\ tick[c].now \in 0 .. M - 1
      /\ TickTime(c) \in 0 .. M - 1 /\ TickTime(c) <= MaxTick /\ NotLost(c)
  BY <1>1, <1>2, CpuFacts
<1>5. h \in Timers /\ due[h] \in Int /\ due[h] + TickTime(c) <= 0
  BY <1>1, <1>2, HeadDueIs
<1>6. /\ r \in Seq(Timers) /\ InOrderOf(r, due)
      /\ \A u : Queued(r, u) <=> u # h /\ Queued(q, u)
  BY ONLY <1>1, <1>2, <1>4, TailOf
<1>7. due[h] <= 0
  <2>1. M \in Nat
    BY ClockFacts
  <2>2. QED
    BY <1>4, <1>5, <2>1
<1>8. tick' \in [CPUs -> TickStates] /\ tick'[c] = [phase |-> "fire", now |-> tick[c].now, timer |-> h]
  <2>1. [phase |-> "fire", now |-> tick[c].now, timer |-> h] \in TickStates
    BY <1>4, <1>5 DEF TickStates
  <2>2. QED
    BY <1>2, <1>3, <2>1
<1>9. timer_queue' \in [CPUs -> Seq(Timers)] /\ timer_queue'[c] = r
  BY <1>2, <1>3, <1>6
<1>10. SetTypes'
  BY <1>2, <1>3, <1>9 DEF SetTypes
<1>11. QueueInv(c)'
  <2>1. \A u \in Timers : Queued(r, u) => armed[u] /\ Points(scheduled_time[u], now, due[u]) /\ Near(due[u])
    BY <1>1, <1>6 DEF TimerInv, QueueInv
  <2>2. QED
    BY <1>2, <1>6, <1>9, <2>1 DEF QueueInv
<1>12. HardwareInv(c)'
  <2>1. -MaxLate <= hw[c]
    BY DEF TimerInv, HardwareInv
  <2>2. QED
    BY <1>2, <1>8, <2>1 DEF HardwareInv
<1>13. TickInv(c)'
  <2>1. TickTime(c)' = TickTime(c)
    BY <1>2, <1>8 DEF TickTime, M
  <2>2. NotLost(c)'
    <3>1. \A u \in Timers : Queued(r, u) => -(MaxLate + Slack) <= due[u] + TickTime(c)
      BY <1>1, <1>4, <1>6 DEF NotLost
    <3>2. QED
      BY <1>2, <1>9, <2>1, <3>1 DEF NotLost
  <2>3. ~Queued(r, h)
    BY <1>6
  <2>4. tick'[c].phase = "fire" /\ tick'[c].timer = h
    BY <1>8
  <2>5. QED
    BY <1>2, <1>4, <1>7, <1>9, <2>1, <2>2, <2>3, <2>4 DEF TickInv
<1>14. setting' \in [Timers -> Nat] /\ SettingInv(c)'
  <2>1. Queued(q, h) /\ tick'[c].timer = h
    BY <1>1, <1>2, <1>8, HeadDueIs
  <2>2. \A u \in Timers : setting[u] # 0 => u # h
    BY <1>1, <2>1 DEF TimerInv, SettingInv
  <2>3. \A u : Queued(timer_queue'[c], u) => Queued(timer_queue[c], u)
    BY <1>1, <1>6, <1>9
  <2>4. QED
    BY <1>2, <2>1, <2>2, <2>3, SettingKept
<1>15. QED
  BY <1>2, <1>3, <1>8, <1>10, <1>11, <1>12, <1>13, <1>14, OneCpu

\* The callback is called, and sets or cancels its timer or leaves it.
LEMMA FireKeeps ==
    ASSUME TimerWorld, TimerInv, NEW c \in CPUs, Fire(c)
    PROVE  TimerInv'
<1>1. PICK t, p : t = tick[c].timer /\ p = (periodic_time[t] > 0)
  OBVIOUS
<1>2. /\ tick[c].phase = "fire" /\ now' = now /\ setting' = setting
      /\ tick' = [tick EXCEPT ![c] = [phase |-> "requeue", now |-> tick[c].now,
                                      timer |-> t, periodic |-> p]]
  BY <1>1 DEF Fire
<1>3. \/ /\ armed' = [armed EXCEPT ![t] = p]
         /\ due' = [due EXCEPT ![t] = 0]
         /\ UNCHANGED <<timer_queue, scheduled_time, periodic_time, callback, hw>>
      \/ timer_cancel(c, t)
      \/ \E call \in Calls : timer_set(c, t, call.delay, call.period)
  BY <1>1 DEF Fire
<1>4. /\ M \in Nat /\ M > 0 /\ MaxLate \in Nat /\ MaxTick \in Nat /\ Slack \in Nat /\ MaxTick <= Slack
  BY ClockFacts
<1>5. /\ now \in 0 .. M - 1 /\ tick \in [CPUs -> TickStates] /\ SetTypes
      /\ timer_queue \in [CPUs -> Seq(Timers)] /\ due \in [Timers -> Int] /\ armed \in [Timers -> BOOLEAN]
  BY HasSetTypes DEF TimerInv, TimerTypes
<1>6. /\ t \in Timers /\ tick[c].now \in 0 .. M - 1
      /\ TickTime(c) \in 0 .. M - 1 /\ TickTime(c) <= MaxTick /\ NotLost(c)
  BY <1>1, <1>2, CpuFacts
<1>7. ~Queued(timer_queue[c], t)
  BY <1>1, <1>2 DEF TimerInv, TickInv
<1>8. p \in BOOLEAN
  BY <1>1
<1>9. /\ tick' \in [CPUs -> TickStates]
      /\ tick'[c].phase = "requeue" /\ tick'[c].now = tick[c].now /\ tick'[c].timer = t /\ tick'[c].periodic = p
  <2>1. [phase |-> "requeue", now |-> tick[c].now, timer |-> t, periodic |-> p] \in TickStates
    BY <1>6, <1>8 DEF TickStates
  <2>2. QED
    BY <1>2, <1>5, <2>1
<1>10. /\ SetTypes' /\ QueueInv(c)' /\ -MaxLate <= hw'[c]
       /\ \A u \in Timers : Queued(timer_queue'[c], u) =>
             (Queued(timer_queue[c], u) /\ due'[u] = due[u]) \/ due'[u] \in Nat
       /\ MustRequeue(c, t)' => armed'[t]
       /\ \A u \in Timers : u # t => /\ due'[u] = due[u] /\ armed'[u] = armed[u]
                                     /\ scheduled_time'[u] = scheduled_time[u]
                                     /\ Queued(timer_queue'[c], u) => Queued(timer_queue[c], u)
  <2>0. -MaxLate <= hw[c]
    BY DEF TimerInv, HardwareInv
  <2>1. CASE /\ armed' = [armed EXCEPT ![t] = p]
             /\ due' = [due EXCEPT ![t] = 0]
             /\ UNCHANGED <<timer_queue, scheduled_time, periodic_time, callback, hw>>
    <3>1. /\ due' \in [Timers -> Int] /\ armed' \in [Timers -> BOOLEAN] /\ armed'[t] = p
          /\ \A u \in Timers : u # t => due'[u] = due[u] /\ armed'[u] = armed[u]
      BY <1>5, <1>6, <1>8, <2>1
    <3>2. SetTypes'
      BY <1>5, <2>1, <3>1 DEF SetTypes
    <3>3. \A u \in Timers : Queued(timer_queue[c], u) => due'[u] = due[u] /\ armed'[u] = armed[u]
      BY <1>7, <3>1
    <3>4. QueueInv(c)'
      <4>1. /\ InOrderOf(timer_queue[c], due) /\ timer_queue[c] \in Seq(Timers)
            /\ \A u \in Timers : Queued(timer_queue[c], u) =>
                  armed[u] /\ Points(scheduled_time[u], now, due[u]) /\ Near(due[u])
        BY <1>5 DEF TimerInv, QueueInv
      <4>2. \A i \in 1 .. Len(timer_queue[c]) : due'[timer_queue[c][i]] = due[timer_queue[c][i]]
        BY <3>3, <4>1 DEF Queued
      <4>3. InOrderOf(timer_queue[c], due')
        BY ONLY <4>1, <4>2 DEF InOrderOf
      <4>4. \A u \in Timers : Queued(timer_queue[c], u) =>
               armed'[u] /\ Points(scheduled_time[u], now, due'[u]) /\ Near(due'[u])
        BY <3>3, <4>1
      <4>5. QED
        BY <1>2, <2>1, <4>3, <4>4 DEF QueueInv
    <3>5. MustRequeue(c, t)' => armed'[t]
      BY <1>9, <3>1 DEF MustRequeue
    <3>6. QED
      BY <2>0, <2>1, <3>1, <3>2, <3>3, <3>4, <3>5
  <2>2. CASE timer_cancel(c, t)
    <3>1. /\ SetTypes' /\ QueueInv(c)' /\ -MaxLate <= hw'[c]
          /\ \A u : Queued(timer_queue'[c], u) <=> u # t /\ Queued(timer_queue[c], u)
          /\ periodic_time'[t] = 0
          /\ \A u \in Timers : u # t => /\ due'[u] = due[u] /\ armed'[u] = armed[u]
                                        /\ scheduled_time'[u] = scheduled_time[u]
      BY <1>2, <1>6, <2>2, CancelKeeps
    <3>2. ~MustRequeue(c, t)'
      BY <3>1 DEF MustRequeue
    <3>3. QED
      BY <3>1, <3>2
  <2>3. CASE \E call \in Calls : timer_set(c, t, call.delay, call.period)
    <3>1. PICK call \in Calls : timer_set(c, t, call.delay, call.period)
      BY <2>3
    <3>2. PICK delay, period : delay = call.delay /\ period = call.period
      OBVIOUS
    <3>4. timer_set(c, t, delay, period)
      BY <3>1, <3>2
    <3>5. delay \in Nat /\ 1 <= delay /\ Near(delay) /\ period \in Nat /\ Near(period)
      BY <3>2, ClockFacts
    <3>6. /\ SetTypes' /\ QueueInv(c)' /\ -MaxLate <= hw'[c]
          /\ \A u : Queued(timer_queue'[c], u) <=> u = t \/ Queued(timer_queue[c], u)
          /\ due'[t] = delay
          /\ \A u \in Timers : u # t => /\ due'[u] = due[u] /\ armed'[u] = armed[u]
                                        /\ scheduled_time'[u] = scheduled_time[u]
      BY <1>2, <1>6, <1>7, <3>4, <3>5, SetKeeps
    <3>7. ~MustRequeue(c, t)'
      <4>1. timer_queue'[c] \in Seq(Timers) /\ Queued(timer_queue'[c], t)
        BY <3>6 DEF SetTypes
      <4>2. list_in_list(t)'
        BY <4>1 DEF list_in_list, Queued
      <4>3. QED
        BY <4>2 DEF MustRequeue
    <3>8. QED
      BY <3>5, <3>6, <3>7
  <2>4. QED
    BY <1>3, <2>1, <2>2, <2>3
<1>11. HardwareInv(c)'
  BY <1>9, <1>10 DEF HardwareInv
<1>12. TickInv(c)'
  <2>1. TickTime(c)' = TickTime(c)
    BY <1>2, <1>9 DEF TickTime, M
  <2>2. ASSUME NEW u \in Timers, Queued(timer_queue'[c], u)
        PROVE  -(MaxLate + Slack) <= due'[u] + TickTime(c)
    <3>1. CASE Queued(timer_queue[c], u) /\ due'[u] = due[u]
      BY <1>6, <3>1 DEF NotLost
    <3>2. CASE due'[u] \in Nat
      BY <1>4, <1>6, <3>2
    <3>3. QED
      BY <1>10, <2>2, <3>1, <3>2
  <2>3. NotLost(c)'
    BY <2>1, <2>2 DEF NotLost
  <2>4. QED
    BY <1>6, <1>9, <1>10, <2>1, <2>3 DEF TickInv
<1>13. setting' \in [Timers -> Nat] /\ SettingInv(c)'
  <2>1. \A u \in Timers : setting[u] # 0 => u # t
    BY <1>1, <1>2 DEF TimerInv, SettingInv
  <2>2. QED
    BY <1>2, <1>9, <1>10, <2>1, SettingKept
<1>14. QED
  BY <1>2, <1>5, <1>9, <1>10, <1>11, <1>12, <1>13, OneCpu

\* A periodic timer goes back into the queue.
LEMMA RequeueKeeps ==
    ASSUME TimerWorld, TimerInv, NEW c \in CPUs, Requeue(c)
    PROVE  TimerInv'
<1>1. PICK t, p, x, q, r, b : /\ t = tick[c].timer /\ p = periodic_time[t] /\ x = TickTime(c)
                              /\ q = timer_queue[c] /\ r = timer_queue'[c] /\ b = tick[c].now
  OBVIOUS
<1>2. /\ tick[c].phase = "requeue"
      /\ tick' = [tick EXCEPT ![c] = [phase |-> "loop", now |-> b]]
      /\ UNCHANGED <<now, periodic_time, callback, hw, setting, armed>>
  BY <1>1 DEF Requeue
<1>3. IF MustRequeue(c, t)
      THEN /\ scheduled_time' = [scheduled_time EXCEPT ![t] = (b + p) % M]
           /\ timer_queue' = [timer_queue EXCEPT ![c] = insert_timer_in_queue(q, t, scheduled_time')]
           /\ due' = [due EXCEPT ![t] = p - x]
      ELSE UNCHANGED <<scheduled_time, timer_queue, due>>
  BY <1>1 DEF Requeue, NextTime
<1>4. /\ M \in Nat /\ M > 0 /\ MaxLate \in Nat /\ MaxTick \in Nat /\ Slack \in Nat /\ MaxTick <= Slack /\ Half \in Int /\ Half + Half <= M
      /\ MaxLate + MaxTick + Slack < Half
  BY ClockFacts
<1>5. /\ now \in 0 .. M - 1 /\ tick \in [CPUs -> TickStates] /\ SetTypes
      /\ timer_queue \in [CPUs -> Seq(Timers)] /\ due \in [Timers -> Int] /\ armed \in [Timers -> BOOLEAN]
  BY HasSetTypes DEF TimerInv, TimerTypes
<1>6. /\ t \in Timers /\ b \in 0 .. M - 1 /\ x \in 0 .. M - 1 /\ x <= MaxTick /\ NotLost(c)
      /\ Points(b, now, -x) /\ q \in Seq(Timers)
  BY <1>1, <1>2, CpuFacts
<1>7. p \in Nat /\ Near(p)
  BY <1>1, <1>6 DEF TimerInv, TimerTypes
<1>8. /\ tick' \in [CPUs -> TickStates]
      /\ tick'[c].phase = "loop" /\ tick'[c].now = tick[c].now
  <2>1. [phase |-> "loop", now |-> b] \in TickStates
    BY <1>6 DEF TickStates
  <2>2. QED
    BY <1>1, <1>2, <1>5, <2>1
<1>9. /\ SetTypes' /\ QueueInv(c)'
      /\ \A u \in Timers : Queued(timer_queue'[c], u) =>
            (Queued(timer_queue[c], u) /\ due'[u] = due[u]) \/ due'[u] = p - x
      /\ \A u \in Timers : u # t => /\ due'[u] = due[u] /\ scheduled_time'[u] = scheduled_time[u]
                                    /\ Queued(timer_queue'[c], u) => Queued(timer_queue[c], u)
  <2>1. CASE ~MustRequeue(c, t)
    <3>1. UNCHANGED <<now, periodic_time, callback, hw, armed, scheduled_time, timer_queue, due>>
      BY <1>2, <1>3, <2>1
    <3>2. SetTypes'
      BY <1>5, <3>1 DEF SetTypes
    <3>3. QueueInv(c)'
      BY <3>1 DEF TimerInv, QueueInv
    <3>4. QED
      BY <3>1, <3>2, <3>3
  <2>2. CASE MustRequeue(c, t)
    <3>1. armed[t] /\ ~Queued(timer_queue[c], t) /\ p > 0
      <4>1. armed[t]
        BY <1>1, <1>2, <2>2 DEF TimerInv, TickInv
      <4>2. ~list_in_list(t) /\ p > 0
        BY <1>1, <2>2 DEF MustRequeue
      <4>3. ~Queued(timer_queue[c], t)
        BY <1>5, <4>2 DEF list_in_list, Queued
      <4>4. QED
        BY <4>1, <4>2, <4>3
    <3>2. PICK s, d : s = (b + p) % M /\ d = p - x
      OBVIOUS
    <3>3. d \in Int /\ Near(d) /\ -(MaxLate + MaxTick + Slack) <= d /\ d < Half /\ -Half < d
      <4>1. x \in Int /\ 0 <= x /\ x <= MaxTick /\ p + MaxLate + MaxTick + Slack < Half
        BY <1>4, <1>6, <1>7 DEF Near
      <4>2. d \in Int /\ d <= p /\ -MaxTick <= d
        BY <1>4, <1>7, <3>2, <4>1
      <4>3. d + MaxLate + MaxTick + Slack < Half /\ -(MaxLate + MaxTick + Slack) <= d /\ d < Half /\ -Half < d
        BY ONLY <1>4, <1>7, <4>1, <4>2
      <4>4. QED
        BY <4>2, <4>3 DEF Near
    <3>4. s \in 0 .. M - 1 /\ Points(s, now, d)
      <4>1. PICK y : y = b + p
        OBVIOUS
      <4>2. b \in Int /\ 0 <= b /\ b < M /\ now \in Int /\ 0 <= now /\ now < M /\ x \in Int
        BY <1>4, <1>5, <1>6
      <4>3. p < M
        BY <1>4, <1>7 DEF Near
      <4>4. y \in Int /\ 0 <= y /\ y < 2 * M
        BY ONLY <1>4, <1>7, <4>1, <4>2, <4>3
      <4>5. s \in 0 .. M - 1 /\ (y < M => s = y) /\ (M <= y => s = y - M)
        <5>1. s = y % M
          BY <3>2, <4>1
        <5>2. M \in Nat /\ M > 0 /\ y \in Int /\ -M <= y /\ y < 2 * M
          BY <1>4, <4>4
        <5>3. QED
          BY ONLY <4>4, <5>1, <5>2, Wrapped
      <4>6. s \in Int /\ 0 <= s /\ s < M
        BY <1>4, <4>5
      <4>7. b = now - x \/ b = now - x + M \/ b = now - x - M
        BY <1>4, <1>6, <4>2 DEF Points
      <4>8. y = now + d \/ y = now + d + M \/ y = now + d - M
        BY ONLY <1>4, <1>7, <3>2, <3>3, <4>1, <4>2, <4>7
      <4>9. s = now + d \/ s = now + d + M \/ s = now + d - M
        BY ONLY <1>4, <3>3, <4>2, <4>4, <4>5, <4>6, <4>8
      <4>10. QED
        BY <4>5, <4>9 DEF Points
    <3>5. PICK sched, left : sched = scheduled_time' /\ left = due'
      OBVIOUS
    <3>6. /\ sched = [scheduled_time EXCEPT ![t] = s] /\ left = [due EXCEPT ![t] = d]
          /\ r = insert_timer_in_queue(q, t, sched)
      BY <1>1, <1>3, <1>5, <2>2, <3>2, <3>5
    <3>7. Joins(r, q, t, s, d, sched, left)
      <4>1. TimerWorld /\ TimerInv /\ c \in CPUs /\ q = timer_queue[c]
        BY <1>1
      <4>2. QED
        BY ONLY <1>6, <3>1, <3>3, <3>4, <3>6, <4>1, Enqueued
    <3>8. Joins(r, q, t, s, d, scheduled_time', due')
      BY <3>5, <3>7
    <3>9. /\ r \in Seq(Timers) /\ InOrderOf(r, due')
          /\ \A u : Queued(r, u) <=> u = t \/ Queued(q, u)
          /\ scheduled_time' \in [Timers -> 0 .. M - 1] /\ due' \in [Timers -> Int] /\ due'[t] = d
          /\ \A u \in Timers : u # t => scheduled_time'[u] = scheduled_time[u] /\ due'[u] = due[u]
          /\ \A u \in Timers : Queued(r, u) => Points(scheduled_time'[u], now, due'[u]) /\ Near(due'[u])
      BY ONLY <3>8 DEF Joins
    <3>10. timer_queue' \in [CPUs -> Seq(Timers)]
      BY <1>1, <1>3, <1>5, <2>2, <3>9
    <3>11. SetTypes'
      BY <1>2, <1>5, <3>9, <3>10 DEF SetTypes
    <3>12. \A u \in Timers : Queued(r, u) => armed'[u]
      BY <1>1, <1>2, <3>1, <3>9, QueuedFacts
    <3>13. QueueInv(c)'
      BY <1>1, <1>2, <3>9, <3>12 DEF QueueInv
    <3>14. \A u \in Timers : Queued(timer_queue'[c], u) =>
              (Queued(timer_queue[c], u) /\ due'[u] = due[u]) \/ due'[u] = p - x
      BY <1>1, <3>2, <3>9
    <3>15. \A u \in Timers : u # t => /\ due'[u] = due[u] /\ scheduled_time'[u] = scheduled_time[u]
                                      /\ Queued(timer_queue'[c], u) => Queued(timer_queue[c], u)
      BY <1>1, <3>9
    <3>16. QED
      BY <3>11, <3>13, <3>14, <3>15
  <2>3. QED
    BY <2>1, <2>2
<1>10. HardwareInv(c)'
  <2>1. -MaxLate <= hw[c]
    BY DEF TimerInv, HardwareInv
  <2>2. QED
    BY <1>2, <1>8, <2>1 DEF HardwareInv
<1>11. TickInv(c)'
  <2>1. TickTime(c)' = x
    BY <1>1, <1>2, <1>8 DEF TickTime, M
  <2>2. ASSUME NEW u \in Timers, Queued(timer_queue'[c], u)
        PROVE  -(MaxLate + Slack) <= due'[u] + x
    <3>1. CASE Queued(timer_queue[c], u) /\ due'[u] = due[u]
      BY <1>1, <1>6, <3>1 DEF NotLost
    <3>2. CASE due'[u] = p - x
      <4>1. x \in Int
        BY <1>4, <1>6
      <4>2. QED
        BY <1>4, <1>7, <3>2, <4>1
    <3>3. QED
      BY <1>9, <2>2, <3>1, <3>2
  <2>3. NotLost(c)'
    BY <2>1, <2>2 DEF NotLost
  <2>4. QED
    BY <1>6, <1>8, <2>1, <2>3 DEF TickInv
<1>12. setting' \in [Timers -> Nat] /\ SettingInv(c)'
  <2>1. \A u \in Timers : setting[u] # 0 => u # t
    BY <1>1, <1>2 DEF TimerInv, SettingInv
  <2>2. QED
    BY <1>2, <1>8, <1>9, <2>1, SettingKept
<1>13. QED
  BY <1>2, <1>5, <1>8, <1>9, <1>10, <1>11, <1>12, OneCpu

\* timer_tick programs the hardware for the head of the queue.
LEMMA TickEndKeeps ==
    ASSUME TimerWorld, TimerInv, NEW c \in CPUs, TickEnd(c)
    PROVE  TimerInv'
<1>1. PICK h, q, x, y : /\ h = Head(timer_queue[c]) /\ q = timer_queue[c] /\ x = TickTime(c)
                        /\ y = (scheduled_time[h] - tick[c].now) % M
  OBVIOUS
<1>2. /\ tick[c].phase = "loop" /\ ~HeadDue(c)
      /\ hw' = IF q = <<>> THEN hw ELSE platform_set_oneshot_timer(c, y)
      /\ tick' = [tick EXCEPT ![c] = NoTick]
      /\ UNCHANGED <<now, timer_queue, scheduled_time, periodic_time, callback, setting, armed, due>>
  BY <1>1 DEF TickEnd
<1>3. M \in Nat /\ M > 0 /\ MaxLate \in Nat /\ MaxTick \in Nat /\ Slack \in Nat /\ MaxTick <= Slack
  BY ClockFacts
<1>4. /\ now \in 0 .. M - 1 /\ tick \in [CPUs -> TickStates] /\ SetTypes
      /\ hw \in [CPUs -> Int] /\ due \in [Timers -> Int] /\ -MaxLate <= hw[c]
  BY HasSetTypes DEF TimerInv, TimerTypes, HardwareInv
<1>5. q \in Seq(Timers) /\ InOrderOf(q, due) /\ x \in 0 .. M - 1 /\ x <= MaxTick
  BY <1>1, <1>2, CpuFacts
<1>6. tick' \in [CPUs -> TickStates] /\ tick'[c].phase = "none"
  <2>1. NoTick \in TickStates /\ NoTick.phase = "none"
    BY DEF TickStates, NoTick
  <2>2. QED
    BY <1>2, <1>4, <2>1
<1>7. hw' \in [CPUs -> Int] /\ -MaxLate <= hw'[c] /\ OnTime(c)'
  <2>1. CASE q = << >>
    <3>1. Len(q) = 0
      BY <2>1
    <3>2. \A u : ~Queued(q, u)
      BY <3>1 DEF Queued
    <3>3. OnTime(c)'
      BY <1>1, <1>2, <3>2 DEF OnTime
    <3>4. QED
      BY <1>2, <1>4, <2>1, <3>3
  <2>2. CASE q # << >>
    <3>1. /\ h \in Timers /\ due[h] \in Int /\ ~(due[h] + x <= 0)
          /\ y = due[h] + x /\ due[h] + x < M
      BY <1>1, <1>2, <2>2, HeadDueIs
    <3>2. x \in Int /\ 0 <= x /\ y \in Int /\ y > 0 /\ y < M
      BY <1>3, <1>5, <3>1
    <3>3. hw' = [hw EXCEPT ![c] = y]
      BY <1>2, <2>2, <3>2 DEF platform_set_oneshot_timer
    <3>4. hw' \in [CPUs -> Int] /\ hw'[c] = y
      BY <1>4, <3>2, <3>3
    <3>5. ASSUME NEW u \in Timers, Queued(q, u) PROVE hw'[c] # M /\ hw'[c] - Slack <= due[u]
      <4>1. due[h] <= due[u] /\ due[u] \in Int
        BY <1>1, <1>4, <1>5, <2>2, <3>5, HeadFirst
      <4>2. y - Slack <= due[u] /\ y # M
        BY ONLY <1>3, <1>5, <3>1, <3>2, <4>1
      <4>3. QED
        BY <3>4, <4>2
    <3>6. OnTime(c)'
      BY <1>1, <1>2, <3>5 DEF OnTime, Off, M
    <3>7. -MaxLate <= y
      BY ONLY <1>3, <3>2
    <3>8. QED
      BY <3>4, <3>6, <3>7
  <2>3. QED
    BY <2>1, <2>2
<1>8. SetTypes'
  BY <1>2, <1>4, <1>7 DEF SetTypes
<1>9. QueueInv(c)'
  BY <1>2 DEF TimerInv, QueueInv
<1>10. HardwareInv(c)'
  BY <1>7 DEF HardwareInv
<1>11. TickInv(c)'
  BY <1>6 DEF TickInv
<1>12. setting' \in [Timers -> Nat] /\ SettingInv(c)'
  BY <1>2, <1>6, SettingKept
<1>13. QED
  BY <1>2, <1>4, <1>6, <1>8, <1>9, <1>10, <1>11, <1>12, OneCpu

\* Time passes, on every cpu.
LEMMA ClockKeeps ==
    ASSUME TimerWorld, TimerInv, Clock
    PROVE  TimerInv'
<1>1. /\ M \in Nat /\ M > 0 /\ MaxLate \in Nat /\ MaxTick \in Nat /\ Slack \in Nat /\ MaxTick <= Slack /\ Half \in Int /\ Half + Half <= M
      /\ MaxLate + MaxTick + Slack < Half /\ 0 < Half /\ MaxHeld \in Nat /\ MaxHeld <= Slack
  BY ClockFacts
<1>2. /\ \A c \in CPUs : hw[c] > -MaxLate /\ (tick[c].phase # "none" => TickTime(c) < MaxTick)
      /\ \A t \in Timers : setting[t] # 0 => setting[t] - due[t] < MaxHeld
      /\ now' = (now + 1) % M
      /\ hw' = [c \in CPUs |-> IF hw[c] = Off THEN Off ELSE hw[c] - 1]
      /\ due' = [t \in Timers |-> IF armed[t] THEN due[t] - 1 ELSE due[t]]
      /\ UNCHANGED <<timer_queue, scheduled_time, periodic_time, callback, tick, setting, armed>>
  BY DEF Clock
<1>3. TimerTypes /\ \A t \in Timers : Near(periodic_time[t])
  BY DEF TimerInv
<1>4. now \in Int /\ 0 <= now /\ now < M
  BY <1>1, <1>3 DEF TimerTypes
<1>5. now' \in 0 .. M - 1 /\ (now' = now + 1 \/ now' = now + 1 - M)
  <2>1. PICK y : y = now + 1
    OBVIOUS
  <2>2. M \in Nat /\ M > 0 /\ y \in Int /\ -M <= y /\ y < 2 * M /\ 0 <= y
    BY <1>1, <1>4, <2>1
  <2>3. y % M \in 0 .. M - 1 /\ (y < M => y % M = y) /\ (M <= y => y % M = y - M)
    BY ONLY <2>2, Wrapped
  <2>4. QED
    BY <1>1, <1>2, <1>4, <2>1, <2>2, <2>3
<1>6. /\ due' \in [Timers -> Int]
      /\ \A t \in Timers : /\ armed[t] => due'[t] = due[t] - 1
                           /\ due[t] \in Int /\ due'[t] <= due[t]
  BY <1>2, <1>3 DEF TimerTypes
<1>7. hw' \in [CPUs -> Int]
  BY <1>1, <1>2, <1>3 DEF TimerTypes, Off
<1>8. TimerTypes' /\ \A t \in Timers : Near(periodic_time'[t])
  BY <1>2, <1>3, <1>5, <1>6, <1>7 DEF TimerTypes
<1>9. now' \in Int /\ 0 <= now' /\ now' < M
  BY <1>1, <1>5
<1>10. ASSUME NEW s \in 0 .. M - 1, NEW d \in Int, Points(s, now, d), -Half < d, d < Half
       PROVE  Points(s, now', d - 1)
  <2>1. PICK e, n : e = d - 1 /\ n = now'
    OBVIOUS
  <2>2. /\ s \in Int /\ 0 <= s /\ s < M /\ d \in Int /\ e \in Int /\ -Half <= e /\ e < Half
        /\ n \in Int /\ 0 <= n /\ n < M /\ (n = now + 1 \/ n = now + 1 - M)
    BY <1>1, <1>5, <1>9, <1>10, <2>1
  <2>3. s = now + d \/ s = now + d + M \/ s = now + d - M
    BY <1>10 DEF Points
  <2>4. s = n + e \/ s = n + e + M \/ s = n + e - M
    <3>1. PICK v : v = now
      OBVIOUS
    <3>2. v \in Int /\ 0 <= v /\ v < M /\ d = e + 1
      BY <1>4, <2>1, <2>2, <3>1
    <3>3. CASE n = now + 1
      <4>1. n = v + 1 /\ (s = v + (e + 1) \/ s = v + (e + 1) + M \/ s = v + (e + 1) - M)
        BY <2>3, <3>1, <3>2, <3>3
      <4>2. QED
        BY ONLY <1>1, <2>2, <3>2, <4>1
    <3>4. CASE n = now + 1 - M
      <4>1. n = v + 1 - M /\ (s = v + (e + 1) \/ s = v + (e + 1) + M \/ s = v + (e + 1) - M)
        BY <2>3, <3>1, <3>2, <3>4
      <4>2. QED
        BY ONLY <1>1, <2>2, <3>2, <4>1
    <3>5. QED
      BY <2>2, <3>3, <3>4
  <2>5. QED
    BY <2>1, <2>4 DEF Points
<1>11. ASSUME NEW c \in CPUs PROVE QueueInv(c)' /\ HardwareInv(c)' /\ TickInv(c)' /\ SettingInv(c)'
  <2>1. /\ hw[c] \in Int /\ timer_queue[c] \in Seq(Timers) /\ InOrderOf(timer_queue[c], due)
        /\ tick[c].phase # "none" => tick[c].now \in 0 .. M - 1 /\ TickTime(c) \in 0 .. M - 1
                                     /\ NotLost(c) /\ Points(tick[c].now, now, -TickTime(c))
        /\ tick[c].phase \in {"fire", "requeue"} => tick[c].timer \in Timers
    BY CpuFacts
  <2>2. ASSUME NEW u \in Timers, Queued(timer_queue[c], u)
        PROVE  /\ due'[u] = due[u] - 1 /\ armed[u] /\ due[u] \in Int
               /\ Points(scheduled_time[u], now', due'[u]) /\ Near(due'[u])
    <3>1. /\ due[u] \in Int /\ scheduled_time[u] \in 0 .. M - 1 /\ armed[u]
          /\ Points(scheduled_time[u], now, due[u]) /\ Near(due[u])
          /\ due[u] < Half /\ -Half < due[u]
      BY <2>2, QueuedFacts
    <3>2. due'[u] = due[u] - 1
      BY <1>6, <3>1
    <3>3. Points(scheduled_time[u], now', due[u] - 1)
      BY <1>10, <3>1
    <3>4. Near(due[u] - 1)
      BY <1>1, <3>1 DEF Near
    <3>5. QED
      BY <3>1, <3>2, <3>3, <3>4
  <2>3. QueueInv(c)'
    <3>1. \A i \in 1 .. Len(timer_queue[c]) : /\ due'[timer_queue[c][i]] = due[timer_queue[c][i]] - 1
                                              /\ due[timer_queue[c][i]] \in Int
      BY <2>1, <2>2 DEF Queued
    <3>2. InOrderOf(timer_queue[c], due')
      <4>1. PICK q, left : q = timer_queue[c] /\ left = due'
        OBVIOUS
      <4>2. ASSUME NEW i \in 1 .. Len(q), NEW j \in 1 .. Len(q), i < j
            PROVE  left[q[i]] <= left[q[j]] /\ q[i] # q[j]
        <5>1. due[q[i]] <= due[q[j]] /\ q[i] # q[j]
          BY <2>1, <4>1, <4>2 DEF InOrderOf
        <5>2. /\ left[q[i]] = due[q[i]] - 1 /\ left[q[j]] = due[q[j]] - 1
              /\ due[q[i]] \in Int /\ due[q[j]] \in Int
          BY <3>1, <4>1
        <5>3. QED
          BY <5>1, <5>2
      <4>3. InOrderOf(q, left)
        BY <4>2 DEF InOrderOf
      <4>4. QED
        BY <4>1, <4>3
    <3>3. QED
      BY <1>2, <2>2, <3>2 DEF QueueInv
  <2>4. HardwareInv(c)'
    <3>1. hw'[c] = IF hw[c] = M THEN M ELSE hw[c] - 1
      BY <1>2 DEF Off
    <3>2. -MaxLate <= hw'[c]
      BY <1>1, <1>2, <2>1, <3>1
    <3>3. ASSUME tick[c].phase = "none", NEW u \in Timers, Queued(timer_queue[c], u)
          PROVE  hw'[c] # M /\ hw'[c] - Slack <= due'[u]
      <4>1. hw[c] # M /\ hw[c] - Slack <= due[u]
        BY <3>3 DEF TimerInv, HardwareInv, OnTime, Off
      <4>2. due[u] < Half /\ due[u] \in Int /\ due'[u] = due[u] - 1
        BY <2>2, <3>3, QueuedFacts
      <4>3. hw'[c] = hw[c] - 1
        BY <3>1, <4>1
      <4>4. QED
        BY ONLY <1>1, <2>1, <4>1, <4>2, <4>3, SMTT(30)
    <3>4. tick'[c].phase = "none" => OnTime(c)'
      BY <1>2, <3>3 DEF OnTime, Off, M
    <3>5. QED
      BY <3>2, <3>4 DEF HardwareInv
  <2>5. TickInv(c)'
    <3>1. ASSUME tick[c].phase # "none" PROVE TickTime(c)' = TickTime(c) + 1 /\ TickTime(c) < MaxTick
      <4>1. PICK b, x, n, y : b = tick[c].now /\ x = TickTime(c) /\ n = now' /\ y = n - b
        OBVIOUS
      <4>2. x < MaxTick
        BY <1>2, <3>1, <4>1
      <4>3. /\ b \in Int /\ 0 <= b /\ b < M /\ x \in Int /\ 0 <= x
            /\ n \in Int /\ 0 <= n /\ n < M /\ (n = now + 1 \/ n = now + 1 - M)
        BY <1>1, <1>5, <1>9, <2>1, <3>1, <4>1
      <4>4. b = now - x \/ b = now - x + M \/ b = now - x - M
        BY <1>1, <1>4, <2>1, <3>1, <4>1, <4>3 DEF Points
      <4>5. x + 1 < M /\ y \in Int /\ -M <= y /\ y < 2 * M /\ y < M
        BY <1>1, <4>1, <4>2, <4>3
      <4>6. y = x + 1 \/ y = x + 1 - M
        BY ONLY <1>1, <1>4, <4>1, <4>3, <4>4, <4>5
      <4>7. (y < 0 => y % M = y + M) /\ (0 <= y /\ y < M => y % M = y)
        BY ONLY <1>1, <4>5, Wrapped
      <4>8. y % M = x + 1
        BY ONLY <1>1, <4>3, <4>5, <4>6, <4>7
      <4>9. TickTime(c)' = y % M
        BY <1>2, <4>1 DEF TickTime, M
      <4>10. QED
        BY <4>1, <4>2, <4>8, <4>9
    <3>2. tick[c].phase # "none" => TickTime(c)' <= MaxTick /\ NotLost(c)'
      <4>1. SUFFICES ASSUME tick[c].phase # "none" PROVE TickTime(c)' <= MaxTick /\ NotLost(c)'
        OBVIOUS
      <4>2. PICK x : x = TickTime(c)
        OBVIOUS
      <4>3. x \in Int /\ TickTime(c)' = x + 1 /\ x < MaxTick
        BY <1>1, <2>1, <3>1, <4>1, <4>2
      <4>4. ASSUME NEW u \in Timers, Queued(timer_queue[c], u)
            PROVE  -(MaxLate + Slack) <= due'[u] + (x + 1)
        <5>1. -(MaxLate + Slack) <= due[u] + x
          BY <2>1, <4>1, <4>2, <4>4 DEF NotLost
        <5>2. QED
          BY <1>1, <2>2, <4>3, <4>4, <5>1
      <4>5. NotLost(c)'
        BY <1>2, <4>3, <4>4 DEF NotLost
      <4>6. QED
        BY <1>1, <4>3, <4>5
    <3>3. tick[c].phase = "fire" => due'[tick[c].timer] <= 0 /\ ~Queued(timer_queue[c], tick[c].timer)
      <4>1. SUFFICES ASSUME tick[c].phase = "fire"
                     PROVE  due'[tick[c].timer] <= 0 /\ ~Queued(timer_queue[c], tick[c].timer)
        OBVIOUS
      <4>2. PICK t : t = tick[c].timer
        OBVIOUS
      <4>3. t \in Timers /\ due[t] <= 0 /\ ~Queued(timer_queue[c], t)
        BY <2>1, <4>1, <4>2 DEF TimerInv, TickInv
      <4>4. due'[t] <= 0
        BY <1>6, <4>3
      <4>5. QED
        BY <4>2, <4>3, <4>4
    <3>4. tick[c].phase = "requeue" /\ MustRequeue(c, tick[c].timer)' => armed[tick[c].timer]
      <4>1. MustRequeue(c, tick[c].timer)' => MustRequeue(c, tick[c].timer)
        BY <1>2 DEF MustRequeue, list_in_list
      <4>2. QED
        BY <4>1 DEF TimerInv, TickInv
    <3>5. QED
      BY <1>2, <3>2, <3>3, <3>4 DEF TickInv
  <2>6. SettingInv(c)'
    <3>1. ASSUME NEW u \in Timers, setting[u] # 0
          PROVE  /\ armed[u] /\ Points(scheduled_time[u], now', due'[u])
                 /\ Near(setting[u]) /\ due'[u] <= setting[u] /\ setting[u] - due'[u] <= MaxHeld
                 /\ ~Queued(timer_queue[c], u)
                 /\ tick[c].phase \in {"fire", "requeue"} => tick[c].timer # u
      <4>1. /\ armed[u] /\ Points(scheduled_time[u], now, due[u])
            /\ Near(setting[u]) /\ due[u] <= setting[u] /\ setting[u] - due[u] < MaxHeld
            /\ ~Queued(timer_queue[c], u)
            /\ tick[c].phase \in {"fire", "requeue"} => tick[c].timer # u
        BY <1>2, <3>1 DEF TimerInv, SettingInv
      <4>2. due[u] \in Int /\ setting[u] \in Nat /\ scheduled_time[u] \in 0 .. M - 1 /\ due'[u] = due[u] - 1
        BY <1>3, <1>6, <4>1 DEF TimerTypes
      <4>3. setting[u] + MaxLate + MaxTick + Slack < Half
        BY <4>1 DEF Near
      <4>4. /\ -Half < due[u] /\ due[u] < Half
            /\ due[u] - 1 <= setting[u] /\ setting[u] - (due[u] - 1) <= MaxHeld
        BY ONLY <1>1, <4>1, <4>2, <4>3
      <4>5. Points(scheduled_time[u], now', due[u] - 1)
        BY <1>10, <4>1, <4>2, <4>4
      <4>6. QED
        BY <4>1, <4>2, <4>4, <4>5
    <3>2. QED
      BY <1>2, <3>1 DEF SettingInv
  <2>7. QED
    BY <2>3, <2>4, <2>5, <2>6
<1>12. QED
  BY <1>8, <1>11 DEF TimerInv

\* The state after timer_init and timer_initialize.
LEMMA TimerInitInv ==
    ASSUME TimerWorld, TimerInit
    PROVE  TimerInv
<1>1. /\ M \in Nat /\ M > 0 /\ MaxLate \in Nat /\ MaxTick \in Nat /\ Slack \in Nat /\ MaxTick <= Slack /\ Half \in Int
      /\ MaxLate + MaxTick + Slack < Half
  BY ClockFacts
<1>2. /\ now = 0 /\ timer_queue = [c \in CPUs |-> <<>>] /\ hw = [c \in CPUs |-> M]
      /\ tick = [c \in CPUs |-> NoTick] /\ scheduled_time = [t \in Timers |-> 0]
      /\ periodic_time = [t \in Timers |-> 0] /\ callback = [t \in Timers |-> FALSE]
      /\ setting = [t \in Timers |-> 0] /\ armed = [t \in Timers |-> FALSE] /\ due = [t \in Timers |-> 0]
  BY DEF TimerInit, timer_init, timer_initialize, Off
<1>3. NoTick \in TickStates /\ NoTick.phase = "none"
  BY DEF TickStates, NoTick
<1>4. 0 \in 0 .. M - 1 /\ << >> \in Seq(Timers) /\ Near(0)
  BY <1>1 DEF Near
<1>5. TimerTypes /\ \A t \in Timers : Near(periodic_time[t])
  BY <1>1, <1>2, <1>3, <1>4 DEF TimerTypes
<1>6. ASSUME NEW c \in CPUs PROVE QueueInv(c) /\ HardwareInv(c) /\ TickInv(c) /\ SettingInv(c)
  <2>1. timer_queue[c] = << >> /\ Len(timer_queue[c]) = 0 /\ tick[c].phase = "none" /\ hw[c] = M
    BY <1>2, <1>3
  <2>2. \A u : ~Queued(timer_queue[c], u)
    BY <2>1 DEF Queued
  <2>3. InOrderOf(timer_queue[c], due)
    BY <2>1 DEF InOrderOf
  <2>4. SettingInv(c)
    BY <1>2 DEF SettingInv
  <2>5. QED
    BY <1>1, <2>1, <2>2, <2>3, <2>4 DEF QueueInv, HardwareInv, OnTime, TickInv
<1>7. QED
  BY <1>5, <1>6 DEF TimerInv

\* Every operation of the timers, and every step of timer_tick, keeps the invariant.
LEMMA TimerStepKeeps ==
    ASSUME TimerWorld, TimerInv, [TimerNext]_timer_vars
    PROVE  TimerInv'
<1>1. CASE Clock
  BY <1>1, ClockKeeps
<1>2. CASE \E c \in CPUs : TickStep(c)
  BY <1>2, TickKeeps, DequeueKeeps, FireKeeps, RequeueKeeps, TickEndKeeps DEF TickStep
<1>3. CASE \E c \in CPUs, t \in Timers : SetBegin(c, t) \/ SetEnd(c, t) \/ Cancel(c, t)
  BY <1>3, SetBeginKeeps, SetEndKeeps, CallCancelKeeps
<1>4. CASE UNCHANGED timer_vars
  <2>1. UNCHANGED <<now, timer_queue, scheduled_time, periodic_time, callback, hw, tick, setting, armed, due>>
    BY <1>4 DEF timer_vars
  <2>2. TimerTypes' /\ \A t \in Timers : Near(periodic_time'[t])
    BY <2>1 DEF TimerInv, TimerTypes
  <2>3. ASSUME NEW c \in CPUs PROVE QueueInv(c)' /\ HardwareInv(c)' /\ TickInv(c)' /\ SettingInv(c)'
    <3>1. QueueInv(c) /\ HardwareInv(c) /\ TickInv(c) /\ SettingInv(c)
      BY DEF TimerInv
    <3>2. QueueInv(c)'
      BY <2>1, <3>1 DEF QueueInv
    <3>3. HardwareInv(c)'
      BY <2>1, <3>1 DEF HardwareInv, OnTime
    <3>4. TickInv(c)'
      BY <2>1, <3>1 DEF TickInv, TickTime, NotLost, MustRequeue, list_in_list
    <3>5. SettingInv(c)'
      BY <2>1, <3>1 DEF SettingInv
    <3>6. QED
      BY <3>2, <3>3, <3>4, <3>5
  <2>4. QED
    BY <2>2, <2>3 DEF TimerInv
<1>5. QED
  BY <1>1, <1>2, <1>3, <1>4 DEF TimerNext

\* The scheduled times, the queue and the hardware timer agree with the true
\* times left, for any timers on one cpu, any width of the clock and any delays
\* below half of it.
THEOREM TimerInvariant ==
    ASSUME TimerWorld
    PROVE  TimerSpec => []TimerInv
<1>1. TimerInit => TimerInv
  BY TimerInitInv
<1>2. TimerInv /\ [TimerNext]_timer_vars => TimerInv'
  BY TimerStepKeeps
<1>3. QED
  BY <1>1, <1>2, PTL DEF TimerSpec

\* timer_queue is in the order in which its timers are truly due, and no timer
\* is in it twice or without being set.
THEOREM TimersSorted ==
    ASSUME TimerWorld
    PROVE  TimerSpec => []QueueSorted
<1>1. ASSUME TimerInv PROVE QueueSorted
  <2>1. ASSUME NEW c \in CPUs
        PROVE  /\ DOMAIN timer_queue[c] = 1 .. Len(timer_queue[c]) /\ Len(timer_queue[c]) \in Nat
               /\ InOrderOf(timer_queue[c], due)
               /\ \A i \in 1 .. Len(timer_queue[c]) : armed[timer_queue[c][i]]
    <3>1. timer_queue[c] \in Seq(Timers) /\ InOrderOf(timer_queue[c], due)
      BY <1>1, CpuFacts
    <3>2. \A i \in 1 .. Len(timer_queue[c]) : timer_queue[c][i] \in Timers /\ Queued(timer_queue[c], timer_queue[c][i])
      BY <3>1 DEF Queued
    <3>3. QED
      BY <1>1, <3>1, <3>2, QueuedFacts
  <2>2. \A c, d \in CPUs : c = d
    BY DEF TimerWorld
  <2>3. ASSUME NEW c \in CPUs, NEW i \in DOMAIN timer_queue[c], NEW j \in DOMAIN timer_queue[c],
               timer_queue[c][i] = timer_queue[c][j]
        PROVE  i = j
    <3>1. i \in 1 .. Len(timer_queue[c]) /\ j \in 1 .. Len(timer_queue[c]) /\ Len(timer_queue[c]) \in Nat
      BY <2>1
    <3>2. ~(i < j) /\ ~(j < i)
      BY <2>1, <2>3, <3>1 DEF InOrderOf
    <3>3. QED
      BY <3>1, <3>2
  <2>4. QueuedOnce
    BY <2>1, <2>2, <2>3 DEF QueuedOnce
  <2>5. \A c \in CPUs : \A i, j \in DOMAIN timer_queue[c] :
           i < j => due[timer_queue[c][i]] <= due[timer_queue[c][j]]
    BY <2>1 DEF InOrderOf
  <2>6. QED
    BY <2>4, <2>5 DEF QueueSorted
<1>2. QED
  BY <1>1, TimerInvariant, PTL

\* timer_tick calls no callback before its timer is due.
THEOREM TimersNotEarly ==
    ASSUME TimerWorld
    PROVE  TimerSpec => []NoEarlyFire
<1>1. TimerInv => NoEarlyFire
  BY DEF TimerInv, TickInv, NoEarlyFire
<1>2. QED
  BY <1>1, TimerInvariant, PTL

\* No timer in the queue is later than the interrupt latency, one timer_tick and
\* Slack, the time by which timer_tick or timer_set may program the hardware too
\* late: none is lost when the clock wraps or when timer_set is interrupted
\* between its reading of the clock and timer_lock.
THEOREM TimersNotTooLate ==
    ASSUME TimerWorld
    PROVE  TimerSpec => []NotTooLate
<1>1. ASSUME TimerInv PROVE NotTooLate
  <2>1. SUFFICES ASSUME NEW t \in Timers, list_in_list(t)
                 PROVE  due[t] >= -(MaxLate + MaxTick + Slack)
    BY DEF NotTooLate
  <2>2. PICK c \in CPUs : Queued(timer_queue[c], t)
    <3>1. PICK c \in CPUs : \E i \in DOMAIN timer_queue[c] : timer_queue[c][i] = t
      BY <2>1 DEF list_in_list
    <3>2. timer_queue[c] \in Seq(Timers)
      BY <1>1, CpuFacts
    <3>3. QED
      BY <3>1, <3>2 DEF Queued
  <2>3. -(MaxLate + MaxTick + Slack) <= due[t] /\ due[t] \in Int
    BY <1>1, <2>2, QueuedFacts
  <2>4. MaxLate \in Nat /\ MaxTick \in Nat /\ Slack \in Nat /\ MaxTick <= Slack
    BY ClockFacts
  <2>5. QED
    BY <2>3, <2>4
<1>2. QED
  BY <1>1, TimerInvariant, PTL
=============================================================================
