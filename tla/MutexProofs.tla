----------------------------- MODULE MutexProofs -----------------------------
(***************************************************************************)
(* Module Mutex for every finite set of threads.                           *)
(***************************************************************************)
EXTENDS Mutex, WaitQueueProofs, FiniteSetTheorems, TLAPS

\* The types, without the bound on count, which needs CountExact.
BasicTypes ==
    /\ WQTypeOK
    /\ magic \in BOOLEAN
    /\ holder \in Threads \cup {NULL}
    /\ count \in Int
    /\ owners \in SUBSET Threads
    /\ destroyer \in Threads \cup {NULL}

\* Owners execute client code; a destroyed mutex has no queue.
ClientState ==
    /\ \A t \in owners : state[t] = "RUNNING"
    /\ destroyer # NULL => magic /\ state[destroyer] = "RUNNING"
    /\ ~magic => list = <<>>

IInv == BasicTypes /\ QueueExact /\ ClientState /\ MutualExclusion /\ HolderExact
        /\ CountExact

-----------------------------------------------------------------------------
\* Contenders is a finite set, so its cardinality counts.
LEMMA ContendersFinite ==
    ASSUME BasicTypes
    PROVE  /\ Contenders \subseteq Threads
           /\ IsFiniteSet(Contenders)
           /\ Cardinality(Contenders) \in Nat
           /\ Cardinality(Contenders) <= Cardinality(Threads)
<1>1. Contenders \subseteq Threads
  BY DEF BasicTypes, Contenders, Owning
<1>2. QED
  BY <1>1, ThreadsAssumption, FS_Subset, FS_CardinalityType

\* The initial state satisfies the invariant.
LEMMA InitIInv == Init => IInv
<1> SUFFICES ASSUME Init PROVE IInv
  OBVIOUS
<1> USE MutexAssumption DEF Init, wait_queue_init, mutex_init
<1>1. BasicTypes
  BY DEF BasicTypes, WQTypeOK, Status
<1>2. Contenders = {} /\ Owning = {}
  BY DEF Contenders, Owning, HandedTo, GaveUp
<1>3. QED
  BY <1>1, <1>2, FS_EmptySet
     DEF IInv, QueueExact, ClientState, MutualExclusion, HolderExact, CountExact

\* A thread that executes client code and does not own the mutex is no contender.
LEMMA NotAContender ==
    ASSUME BasicTypes, NEW t \in Threads, state[t] = "RUNNING", t \notin owners
    PROVE  t \notin Contenders
BY DEF Contenders, Owning, HandedTo, GaveUp

\* mutex_acquire_timeout, up to its return or its wait_queue_block.
LEMMA AcquireIInv ==
    ASSUME IInv, NEW t \in Threads, NEW timeout \in AcqTimeouts,
           mutex_acquire_timeout(t, timeout)
    PROVE  IInv'
<1> USE DEF IInv
<1>1. magic /\ magic' /\ Free(t) /\ holder # t /\ destroyer' = destroyer
  BY DEF mutex_acquire_timeout, BasicTypes
<1>2. t \notin owners /\ t \notin Contenders
  BY <1>1, NotAContender DEF HolderExact, Free
<1>3. /\ Contenders \subseteq Threads
      /\ IsFiniteSet(Contenders)
      /\ Cardinality(Contenders) \in Nat
      /\ count = Cardinality(Contenders)
  BY <1>1, ContendersFinite DEF CountExact
<1>4. Cardinality(Contenders \cup {t}) = count + 1
  BY <1>2, <1>3, FS_AddElement
<1>5. CASE /\ ~Taken
           /\ count' = count + 1
           /\ holder' = t
           /\ owners' = owners \cup {t}
           /\ UNCHANGED wqvars
  <2> USE <1>5 DEF wqvars
  <2>1. Contenders = {}
    BY <1>3, FS_EmptySet DEF Taken
  <2>2. owners = {} /\ Owning = {}
    BY <2>1 DEF Contenders, Owning
  <2>3. Owning' = {t} /\ Contenders' = Contenders \cup {t}
    BY <2>1, <2>2 DEF Contenders, Owning, HandedTo, GaveUp
  <2>4. BasicTypes'
    BY <1>1 DEF BasicTypes, WQTypeOK, Status
  <2>5. QED
    BY <1>1, <1>4, <2>2, <2>3, <2>4
       DEF QueueExact, ClientState, MutualExclusion, HolderExact, CountExact, Free
<1>6. CASE UNCHANGED <<wqvars, count, holder, owners>>
  <2>1. UNCHANGED <<wqvars, mvars>>
    BY <1>1, <1>6 DEF mvars, mutex_acquire_timeout
  <2>2. QED
    BY <2>1 DEF wqvars, mvars, BasicTypes, WQTypeOK, QueueExact, ClientState, MutualExclusion,
                HolderExact, CountExact, Contenders, Owning, HandedTo, GaveUp
<1>7. CASE /\ count' = count + 1
           /\ wait_queue_block(t, timeout)
           /\ UNCHANGED <<holder, owners>>
  <2> USE <1>7
  <2>1. timeout \in Timeouts /\ state[t] = "RUNNING"
    BY <1>1 DEF Free, AcqTimeouts
  <2>2. list' \in Seq(Threads) /\ QueueExact'
    BY <2>1, BlockQueue DEF BasicTypes
  <2>3. BasicTypes'
    BY <1>1, <2>2 DEF BasicTypes, WQTypeOK, wait_queue_block, Status
  <2>4. Owning' = Owning
    BY <2>1 DEF Owning, HandedTo, wait_queue_block, BasicTypes, WQTypeOK
  <2>5. Contenders' = Contenders \cup {t}
    BY <2>1, <2>4 DEF Contenders, GaveUp, wait_queue_block, BasicTypes, WQTypeOK
  <2>6. ClientState'
    BY <1>1, <1>2, <2>1 DEF ClientState, Free, wait_queue_block, BasicTypes, WQTypeOK
  <2>7. QED
    BY <1>1, <1>4, <2>2, <2>3, <2>4, <2>5, <2>6 DEF MutualExclusion, HolderExact, CountExact
<1>8. QED
  BY <1>5, <1>6, <1>7 DEF mutex_acquire_timeout

\* mutex_acquire_timeout, from its thread_resched() on.
LEMMA ReturnIInv ==
    ASSUME IInv, NEW t \in Threads, mutex_acquire_return(t)
    PROVE  IInv'
<1> USE DEF IInv
<1>1. /\ state[t] = "READY"
      /\ state' = [state EXCEPT ![t] = "RUNNING"]
      /\ UNCHANGED <<list, wait_queue_block_ret, magic, destroyer>>
      /\ timer' = [timer EXCEPT ![t] = FALSE]
  BY DEF mutex_acquire_return, wait_queue_block_return
<1>2. t \notin owners
  BY <1>1 DEF ClientState
<1>3. QueueExact'
  BY <1>1 DEF QueueExact, BasicTypes, WQTypeOK
<1>4. ASSUME NEW u \in Threads, u # t
      PROVE  state'[u] = state[u]
  BY <1>1, <1>4 DEF BasicTypes, WQTypeOK
<1>5. state'[t] = "RUNNING"
  BY <1>1 DEF BasicTypes, WQTypeOK
<1>6. CASE /\ wait_queue_block_ret[t] = "NO_ERROR"
           /\ holder' = t
           /\ owners' = owners \cup {t}
           /\ UNCHANGED count
  <2>1. Owning' = Owning /\ Contenders' = Contenders
    BY <1>1, <1>4, <1>5, <1>6 DEF Owning, Contenders, HandedTo, GaveUp, BasicTypes
  <2>2. owners = {}
    BY <1>1, <1>2, <1>6 DEF MutualExclusion, Owning, HandedTo, BasicTypes
  <2>3. BasicTypes'
    BY <1>1, <1>6 DEF BasicTypes, WQTypeOK, Status
  <2>4. ClientState'
    BY <1>1, <1>5, <1>4, <1>6, <2>2, MutexAssumption DEF ClientState, BasicTypes
  <2>5. QED
    BY <1>1, <1>3, <1>6, <2>1, <2>2, <2>3, <2>4 DEF MutualExclusion, HolderExact, CountExact
<1>7. CASE /\ wait_queue_block_ret[t] = "ERR_TIMED_OUT"
           /\ count' = Backout
           /\ UNCHANGED <<holder, owners>>
  <2>1. Owning' = Owning
    BY <1>1, <1>4, <1>5, <1>7 DEF Owning, HandedTo, BasicTypes
  <2>2. t \in Contenders
    BY <1>1, <1>7 DEF Contenders, GaveUp
  <2>3. t \notin Contenders'
    BY <1>2, <1>5, <1>7 DEF Contenders, Owning, HandedTo, GaveUp
  <2>4. Contenders' = Contenders \ {t}
    BY <1>1, <1>4, <1>7, <2>1, <2>3 DEF Contenders, GaveUp
  <2>5. CountExact'
    BY <1>1, <1>7, <2>2, <2>4, ContendersFinite, FS_RemoveElement DEF CountExact, Backout
  <2>6. BasicTypes'
    BY <1>1, <1>7 DEF BasicTypes, WQTypeOK, Backout, Status
  <2>7. ClientState'
    BY <1>1, <1>2, <1>4, <1>5, <1>7, MutexAssumption DEF ClientState, BasicTypes
  <2>8. QED
    BY <1>1, <1>3, <1>7, <2>1, <2>5, <2>6, <2>7 DEF MutualExclusion, HolderExact
<1>8. CASE /\ wait_queue_block_ret[t] = "ERR_OBJECT_DESTROYED"
           /\ UNCHANGED <<count, holder, owners>>
  <2>1. Owning' = Owning /\ Contenders' = Contenders
    BY <1>1, <1>4, <1>5, <1>8 DEF Owning, Contenders, HandedTo, GaveUp, BasicTypes
  <2>2. BasicTypes'
    BY <1>1, <1>8 DEF BasicTypes, WQTypeOK, Status
  <2>3. ClientState'
    BY <1>1, <1>2, <1>4, <1>5, <1>8, MutexAssumption DEF ClientState, BasicTypes
  <2>4. QED
    BY <1>1, <1>3, <1>8, <2>1, <2>2, <2>3 DEF MutualExclusion, HolderExact, CountExact
<1>9. QED
  BY <1>6, <1>7, <1>8 DEF mutex_acquire_return

\* mutex_release: the hand-over to the head of the queue.
LEMMA ReleaseIInv ==
    ASSUME IInv, NEW t \in Threads, mutex_release(t)
    PROVE  IInv'
<1> USE DEF IInv
<1>1. /\ magic /\ Free(t) /\ holder = t
      /\ holder' = NULL
      /\ count' = count - 1
      /\ owners' = owners \ {t}
      /\ UNCHANGED <<magic, destroyer>>
  BY DEF mutex_release
<1>2. owners = {t} /\ owners' = {} /\ state[t] = "RUNNING"
  BY <1>1, MutexAssumption DEF HolderExact, Free, BasicTypes
<1>3. t \in Contenders /\ Owning = {t}
  BY <1>2 DEF Contenders, Owning, MutualExclusion
<1>4. Cardinality(Contenders \ {t}) = count'
  BY <1>1, <1>3, ContendersFinite, FS_RemoveElement DEF CountExact
<1>5. CASE UNCHANGED wqvars
  <2>1. Owning' = {} /\ Contenders' = Contenders \ {t}
    BY <1>2, <1>3, <1>5 DEF Owning, Contenders, HandedTo, GaveUp, wqvars
  <2>2. BasicTypes'
    BY <1>1, <1>5 DEF BasicTypes, WQTypeOK, wqvars, Status
  <2>3. QED
    BY <1>1, <1>2, <1>4, <1>5, <2>1, <2>2
       DEF QueueExact, ClientState, MutualExclusion, HolderExact, CountExact, wqvars
<1>6. CASE list # <<>> /\ wait_queue_wake_one("NO_ERROR")
  <2> DEFINE h == list[1]
  <2>1. /\ h \in Threads
        /\ state' = [u \in Threads |-> IF u = h THEN "READY" ELSE state[u]]
        /\ wait_queue_block_ret' =
             [u \in Threads |-> IF u = h THEN "NO_ERROR" ELSE wait_queue_block_ret[u]]
        /\ list' = Tail(list)
        /\ timer' = timer
    BY <1>6 DEF wait_queue_wake_one, Unblock, BasicTypes, WQTypeOK
  <2>2. state[h] = "BLOCKED" /\ h # t
    BY <1>2, <1>6 DEF QueueExact, BasicTypes, WQTypeOK
  <2>3. QueueExact'
    BY <1>6, WakeOneQueue DEF Status, BasicTypes
  <2> HIDE DEF h
  <2>4. Owning' = {h}
    BY <1>2, <1>3, <2>1 DEF Owning, HandedTo
  <2>5. Contenders' = Contenders \ {t}
    BY <1>2, <1>3, <2>1, <2>2, <2>4 DEF Contenders, Owning, HandedTo, GaveUp
  <2>6. BasicTypes'
    BY <1>1, <1>6, <2>1 DEF BasicTypes, WQTypeOK, Status
  <2>7. ClientState'
    BY <1>1, <1>2, <2>1, <2>2, MutexAssumption DEF ClientState, BasicTypes
  <2>8. QED
    BY <1>1, <1>2, <1>4, <2>3, <2>4, <2>5, <2>6, <2>7
       DEF MutualExclusion, HolderExact, CountExact
<1>7. QED
  BY <1>5, <1>6 DEF mutex_release, wait_queue_wake_one

\* mutex_destroy, its check of holder and its critical section.
LEMMA DestroyIInv ==
    ASSUME IInv, NEW t \in Threads, mutex_destroy_check(t) \/ mutex_destroy(t)
    PROVE  IInv'
<1> USE DEF IInv
<1>1. CASE mutex_destroy_check(t)
  <2> USE <1>1 DEF mutex_destroy_check, wqvars
  <2>1. BasicTypes'
    BY DEF BasicTypes, WQTypeOK, Status
  <2>2. Owning' = Owning /\ Contenders' = Contenders
    BY DEF Owning, Contenders, HandedTo, GaveUp
  <2>3. QED
    BY <2>1, <2>2 DEF QueueExact, ClientState, MutualExclusion, HolderExact, CountExact, Free
<1>2. CASE mutex_destroy(t)
  <2> USE <1>2 DEF mutex_destroy, wait_queue_destroy, wait_queue_wake_all, Unblock
  <2>1. /\ ~magic'
        /\ list' = <<>>
        /\ destroyer' = NULL
        /\ owners' = owners \ {t}
    OBVIOUS
  <2>2. ASSUME NEW u \in Threads
        PROVE  /\ state'[u] # "BLOCKED"
               /\ state[u] # "BLOCKED" =>
                     state'[u] = state[u] /\ wait_queue_block_ret'[u] = wait_queue_block_ret[u]
               /\ state[u] = "BLOCKED" => wait_queue_block_ret'[u] = "ERR_OBJECT_DESTROYED"
    <3>1. u \in ToSet(list) <=> state[u] = "BLOCKED"
      BY DEF ToSet, QueueExact, BasicTypes, WQTypeOK
    <3>2. /\ state'[u] = IF u \in ToSet(list) THEN "READY" ELSE state[u]
          /\ wait_queue_block_ret'[u] =
               IF u \in ToSet(list) THEN "ERR_OBJECT_DESTROYED" ELSE wait_queue_block_ret[u]
      OBVIOUS
    <3>3. QED
      BY <3>1, <3>2
  <2>3. BasicTypes'
    <3>1. list' \in Seq(Threads) /\ timer' \in [Threads -> BOOLEAN]
      BY DEF BasicTypes, WQTypeOK
    <3>2. state' \in [Threads -> {"RUNNING", "BLOCKED", "READY"}]
      BY Zenon DEF BasicTypes, WQTypeOK
    <3>3. wait_queue_block_ret' \in [Threads -> Status]
      <4>1. "ERR_OBJECT_DESTROYED" \in Status /\ wait_queue_block_ret \in [Threads -> Status]
        BY DEF BasicTypes, WQTypeOK, Status
      <4>2. QED
        BY <4>1
    <3>4. magic' \in BOOLEAN
      BY Zenon
    <3>5. /\ holder' \in Threads \cup {NULL}
          /\ count' \in Int
          /\ owners' \in SUBSET Threads
          /\ destroyer' \in Threads \cup {NULL}
      BY DEF BasicTypes
    <3> HIDE DEF mutex_destroy
    <3>6. QED
      BY <3>1, <3>2, <3>3, <3>4, <3>5 DEF BasicTypes, WQTypeOK
  <2>4. QueueExact'
    BY <2>1, <2>2 DEF QueueExact
  <2>5. Owning' \subseteq Owning
    BY <2>1, <2>2 DEF Owning, HandedTo
  <2>6. ClientState'
    BY <2>1, <2>2 DEF ClientState, BasicTypes
  <2>7. QED
    BY <2>1, <2>3, <2>4, <2>5, <2>6 DEF MutualExclusion, HolderExact, CountExact
<1>3. QED
  BY <1>1, <1>2

\* The timeout of a blocked acquire.
LEMMA TimeoutIInv ==
    ASSUME IInv, NEW t \in Threads, Timeout(t)
    PROVE  IInv'
<1> USE DEF IInv
<1>1. UNCHANGED mvars /\ timer' = [timer EXCEPT ![t] = FALSE]
  BY DEF Timeout, wait_queue_timeout_handler
<1>2. CASE UNCHANGED <<list, state, wait_queue_block_ret>>
  <2>1. BasicTypes'
    BY <1>1, <1>2 DEF BasicTypes, WQTypeOK, mvars, Status
  <2>2. Owning' = Owning /\ Contenders' = Contenders
    BY <1>1, <1>2 DEF Owning, Contenders, HandedTo, GaveUp, mvars
  <2>3. QED
    BY <1>1, <1>2, <2>1, <2>2
       DEF mvars, QueueExact, ClientState, MutualExclusion, HolderExact, CountExact
<1>3. CASE /\ state[t] = "BLOCKED"
           /\ thread_unblock_from_wait_queue(t, "ERR_TIMED_OUT")
  <2>1. list' \in Seq(Threads) /\ QueueExact'
    BY <1>3, UnblockQueue DEF BasicTypes, Status
  <2>2. /\ state' = [u \in Threads |-> IF u = t THEN "READY" ELSE state[u]]
        /\ wait_queue_block_ret' =
             [u \in Threads |-> IF u = t THEN "ERR_TIMED_OUT" ELSE wait_queue_block_ret[u]]
    BY <1>3 DEF thread_unblock_from_wait_queue, Unblock
  <2>3. BasicTypes'
    BY <1>1, <2>1, <2>2 DEF BasicTypes, WQTypeOK, mvars, Status
  <2>4. Owning' = Owning
    BY <1>1, <1>3, <2>2 DEF Owning, HandedTo, mvars
  <2>5. Contenders' = Contenders
    BY <1>1, <1>3, <2>2, <2>4 DEF Contenders, GaveUp, mvars
  <2>6. ClientState'
    <3>1. magic
      BY <1>3 DEF ClientState, QueueExact, BasicTypes
    <3>2. QED
      BY <1>1, <1>3, <2>2, <3>1, MutexAssumption DEF ClientState, BasicTypes, mvars
  <2>7. QED
    BY <1>1, <2>1, <2>3, <2>4, <2>5, <2>6 DEF mvars, MutualExclusion, HolderExact, CountExact
<1>4. QED
  BY <1>2, <1>3 DEF Timeout, wait_queue_timeout_handler

\* The invariant is inductive.
THEOREM MutexInvariant == Spec => []IInv
<1>1. Init => IInv
  BY InitIInv
<1>2. IInv /\ [Next]_vars => IInv'
  <2> SUFFICES ASSUME IInv, [Next]_vars PROVE IInv'
    OBVIOUS
  <2>1. CASE UNCHANGED vars
    BY <2>1 DEF vars, IInv, BasicTypes, WQTypeOK, QueueExact, ClientState, MutualExclusion,
                HolderExact, CountExact, Contenders, Owning, HandedTo, GaveUp
  <2>2. CASE Next
    BY <2>2, AcquireIInv, ReturnIInv, ReleaseIInv, DestroyIInv, TimeoutIInv DEF Next, ThreadStep
  <2>3. QED
    BY <2>1, <2>2
<1>3. QED
  BY <1>1, <1>2, PTL DEF Spec

BoundedType == bounded \in BOOLEAN

\* Every variable keeps its type, and count stays within the number of threads
\* while the mutex exists.
THEOREM MutexTypeOK == Spec => []TypeOK
<1>1. Init => BoundedType
  BY DEF Init, BoundedType
<1>2. BoundedType /\ [Next]_vars => BoundedType'
  BY DEF Next, vars, BoundedType
<1>3. IInv /\ BoundedType => TypeOK
  BY ContendersFinite DEF IInv, TypeOK, BasicTypes, CountExact, BoundedType
<1>4. QED
  BY <1>1, <1>2, <1>3, MutexInvariant, PTL DEF Spec

\* At most one thread owns the mutex, whoever times out, and whenever.
THEOREM MutexMutualExclusion == Spec => []MutualExclusion
<1>1. IInv => MutualExclusion
  BY DEF IInv
<1>2. QED
  BY <1>1, MutexInvariant, PTL

\* While the mutex exists, holder is a thread exactly when that thread owns it.
THEOREM MutexHolderExact == Spec => []HolderExact
<1>1. IInv => HolderExact
  BY DEF IInv
<1>2. QED
  BY <1>1, MutexInvariant, PTL

\* While the mutex exists, count is the number of contenders: no timeout, release or
\* hand-over counts a thread twice or forgets one.
THEOREM MutexCountExact == Spec => []CountExact
<1>1. IInv => CountExact
  BY DEF IInv
<1>2. QED
  BY <1>1, MutexInvariant, PTL

\* Nobody enters ahead of the queue: with somebody in it, count is at least 1.
THEOREM MutexNoBarging == Spec => NoBarging
<1> DEFINE A == \A t \in owners' \ owners : list = <<>> \/ HandedTo(t)
<1>1. IInv /\ [Next]_vars => [A]_vars
  <2> SUFFICES ASSUME IInv, Next PROVE A
    BY DEF vars
  <2> USE DEF IInv
  <2>1. PICK t \in Threads :
          \/ \E timeout \in AcqTimeouts : mutex_acquire_timeout(t, timeout)
          \/ mutex_acquire_return(t)
          \/ mutex_release(t)
          \/ mutex_destroy_check(t)
          \/ mutex_destroy(t)
          \/ Timeout(t)
    BY DEF Next, ThreadStep
  <2>2. ASSUME NEW timeout \in AcqTimeouts, mutex_acquire_timeout(t, timeout),
               owners' # owners
        PROVE  list = <<>>
    <3>1. magic /\ ~Taken
      BY <2>2 DEF mutex_acquire_timeout
    <3>2. Contenders = {}
      BY <3>1, ContendersFinite, FS_EmptySet DEF CountExact, Taken
    <3>3. \A u \in Threads : state[u] # "BLOCKED"
      BY <3>2 DEF Contenders
    <3>4. \A i \in 1 .. Len(list) : FALSE
      BY <3>3 DEF QueueExact, BasicTypes, WQTypeOK
    <3>5. QED
      BY <3>4 DEF BasicTypes, WQTypeOK
  <2>3. CASE mutex_acquire_return(t)
    BY <2>3 DEF mutex_acquire_return, wait_queue_block_return, HandedTo
  <2>4. CASE mutex_release(t) \/ mutex_destroy_check(t) \/ mutex_destroy(t) \/ Timeout(t)
    BY <2>4 DEF mutex_release, mutex_destroy_check, mutex_destroy, Timeout, mvars
  <2>5. QED
    BY <2>1, <2>2, <2>3, <2>4
<1>2. QED
  BY <1>1, MutexInvariant, PTL DEF Spec, NoBarging

-----------------------------------------------------------------------------
\* What holds besides when no acquire has a bounded wait.
UntimedInv ==
    ~bounded =>
    /\ \A t \in Threads : ~timer[t] /\ wait_queue_block_ret[t] # "ERR_TIMED_OUT"
    /\ NoStrandedWaiter

\* Without bounded waits, threads queue only behind an owner.
THEOREM MutexNoStrandedWaiter == Spec => []UntimedNotStranded
<1>1. Init => UntimedInv
  BY DEF Init, wait_queue_init, UntimedInv, NoStrandedWaiter
<1>2. IInv /\ IInv' /\ UntimedInv /\ [Next]_vars => UntimedInv'
  <2> SUFFICES ASSUME IInv, IInv', UntimedInv, [Next]_vars, ~bounded PROVE UntimedInv'
    BY DEF Next, vars, UntimedInv
  <2> USE DEF IInv
  <2>1. CASE UNCHANGED vars
    BY <2>1 DEF vars, UntimedInv, NoStrandedWaiter, Owning, HandedTo
  <2>2. ASSUME NEW t \in Threads, NEW timeout \in AcqTimeouts,
               mutex_acquire_timeout(t, timeout)
        PROVE  UntimedInv'
    <3>1. CASE UNCHANGED wqvars
      <4>1. Owning \subseteq Owning' /\ magic
        BY <2>2, <3>1 DEF mutex_acquire_timeout, Owning, HandedTo, wqvars
      <4>2. QED
        BY <3>1, <4>1 DEF UntimedInv, NoStrandedWaiter, wqvars
    <3>2. CASE Taken /\ timeout # "zero" /\ wait_queue_block(t, timeout)
      <4>1. timeout = "INFINITE_TIME"
        BY <3>2 DEF AcqTimeouts, Timeouts
      <4>2. \A u \in Threads : ~timer'[u] /\ wait_queue_block_ret'[u] # "ERR_TIMED_OUT"
        BY <3>2, <4>1 DEF wait_queue_block, UntimedInv, BasicTypes, WQTypeOK
      <4>3. magic /\ state[t] = "RUNNING" /\ Contenders # {}
        BY <2>2, <3>2, FS_EmptySet DEF mutex_acquire_timeout, Free, Taken, CountExact
      <4>4. Owning # {}
        <5>1. PICK u \in Contenders : TRUE
          BY <4>3
        <5>2. CASE u \in Owning
          BY <5>2
        <5>3. CASE u \in Threads /\ state[u] = "BLOCKED"
          BY <4>3, <5>3, EmptyQueue DEF UntimedInv, NoStrandedWaiter, BasicTypes
        <5>4. QED
          BY <5>1, <5>2, <5>3 DEF Contenders, GaveUp, UntimedInv
      <4>5. Owning \subseteq Owning'
        BY <2>2, <3>2, <4>3
           DEF mutex_acquire_timeout, wait_queue_block, Owning, HandedTo, BasicTypes, WQTypeOK
      <4>6. QED
        BY <4>2, <4>4, <4>5 DEF UntimedInv, NoStrandedWaiter
    <3>3. QED
      BY <2>2, <3>1, <3>2 DEF mutex_acquire_timeout
  <2>3. ASSUME NEW t \in Threads, mutex_acquire_return(t)
        PROVE  UntimedInv'
    <3>1. Owning \subseteq Owning'
      BY <2>3 DEF mutex_acquire_return, wait_queue_block_return, Owning, HandedTo,
                  BasicTypes, WQTypeOK
    <3>2. QED
      BY <2>3, <3>1 DEF mutex_acquire_return, wait_queue_block_return, UntimedInv,
                        NoStrandedWaiter, BasicTypes, WQTypeOK
  <2>4. ASSUME NEW t \in Threads, mutex_release(t)
        PROVE  UntimedInv'
    <3>1. CASE list = <<>>
      BY <2>4, <3>1 DEF mutex_release, wait_queue_wake_one, wqvars, UntimedInv, NoStrandedWaiter
    <3>2. CASE list # <<>> /\ WakesNext
      <4>1. /\ Head(list) \in Threads
            /\ state' = [u \in Threads |-> IF u = Head(list) THEN "READY" ELSE state[u]]
            /\ wait_queue_block_ret' =
                 [u \in Threads |-> IF u = Head(list) THEN "NO_ERROR"
                                    ELSE wait_queue_block_ret[u]]
            /\ timer' = timer
        BY <2>4, <3>2 DEF mutex_release, wait_queue_wake_one, Unblock, BasicTypes, WQTypeOK
      <4>2. Head(list) \in Owning'
        BY <4>1 DEF Owning, HandedTo
      <4>3. QED
        BY <4>1, <4>2 DEF UntimedInv, NoStrandedWaiter
    <3>3. CASE list # <<>> /\ ~WakesNext
      <4>1. magic /\ t \in owners /\ state[t] = "RUNNING"
        BY <2>4, MutexAssumption DEF mutex_release, Free, HolderExact
      <4>2. PICK u \in Threads : state[u] = "BLOCKED"
        BY <3>3, EmptyQueue DEF BasicTypes
      <4>3. t \in Contenders /\ u \in Contenders /\ t # u
        BY <4>1, <4>2 DEF Contenders, Owning
      <4>4. Cardinality(Contenders \ {t}) = count - 1 /\ IsFiniteSet(Contenders \ {t})
        BY <4>1, <4>3, ContendersFinite, FS_RemoveElement DEF CountExact
      <4>5. count - 1 = 0
        BY <3>3, <4>4, FS_CardinalityType DEF WakesNext, BasicTypes
      <4>6. Contenders \ {t} = {}
        BY <4>4, <4>5, FS_EmptySet
      <4>7. QED
        BY <4>3, <4>6
    <3>4. QED
      BY <3>1, <3>2, <3>3
  <2>5. ASSUME NEW t \in Threads, mutex_destroy_check(t) \/ mutex_destroy(t)
        PROVE  UntimedInv'
    BY <2>5 DEF mutex_destroy_check, mutex_destroy, wait_queue_destroy, wait_queue_wake_all,
                Unblock, wqvars, UntimedInv, NoStrandedWaiter, Owning, HandedTo
  <2>6. ASSUME NEW t \in Threads, Timeout(t)
        PROVE  UntimedInv'
    BY <2>6 DEF Timeout, wait_queue_timeout_handler, UntimedInv
  <2>7. QED
    BY <2>1, <2>2, <2>3, <2>4, <2>5, <2>6 DEF Next, ThreadStep
<1>3. UntimedInv => UntimedNotStranded
  BY DEF UntimedInv, UntimedNotStranded
<1>4. QED
  BY <1>1, <1>2, <1>3, MutexInvariant, PTL DEF Spec
=============================================================================
