--------------------------- MODULE WaitQueueProofs ---------------------------
(***************************************************************************)
(* What the operations of module WaitQueue preserve, for the proofs about  *)
(* the primitives built on it.                                             *)
(***************************************************************************)
EXTENDS WaitQueue, SequenceTheorems, TLAPS

-----------------------------------------------------------------------------
\* wait_queue_wake_one keeps the queue exact.
LEMMA WakeOneQueue ==
    ASSUME WQTypeOK, QueueExact, NEW err \in Status, wait_queue_wake_one(err)
    PROVE  QueueExact'
<1>1. CASE list = <<>>
  BY <1>1 DEF QueueExact, wait_queue_wake_one, wqvars
<1>2. CASE list # <<>>
  <2>1. /\ list' \in Seq(Threads)
        /\ Len(list') = Len(list) - 1
        /\ Len(list) \in Nat
        /\ Len(list) > 0
        /\ Head(list) = list[1]
        /\ \A i \in 1 .. Len(list') : list'[i] = list[i + 1]
    <3>1. list' = Tail(list) /\ list \in Seq(Threads)
      BY <1>2 DEF WQTypeOK, wait_queue_wake_one
    <3>2. Len(list) \in Nat /\ Len(list) > 0 /\ Head(list) = list[1]
      BY <1>2, <3>1
    <3>3. QED
      BY <1>2, <3>1, <3>2, HeadTailProperties
  <2>2. state' = [t \in Threads |-> IF t = list[1] THEN "READY" ELSE state[t]]
    BY <1>2, <2>1 DEF wait_queue_wake_one, Unblock
  <2>3. \A i, j \in 1 .. Len(list') : list'[i] = list'[j] => i = j
    BY <2>1 DEF QueueExact
  <2>4. ASSUME NEW t \in Threads
        PROVE  state'[t] = "BLOCKED" <=> \E i \in 1 .. Len(list') : list'[i] = t
    <3>1. CASE t = list[1]
      BY <3>1, <2>1, <2>2 DEF QueueExact
    <3>2. CASE t # list[1]
      <4>1. ASSUME NEW i \in 1 .. Len(list), list[i] = t
            PROVE  i - 1 \in 1 .. Len(list') /\ list'[i - 1] = t
        BY <4>1, <3>2, <2>1
      <4>2. QED
        BY <4>1, <3>2, <2>1, <2>2 DEF QueueExact
    <3>3. QED
      BY <3>1, <3>2
  <2>5. QED
    BY <2>3, <2>4 DEF QueueExact
<1>3. QED
  BY <1>1, <1>2

\* Taking one waiter out of the middle of the queue keeps it exact.
LEMMA UnblockQueue ==
    ASSUME WQTypeOK, QueueExact, NEW t \in Threads, NEW err \in Status,
           thread_unblock_from_wait_queue(t, err)
    PROVE  list' \in Seq(Threads) /\ QueueExact'
<1>1. PICK k \in DOMAIN list : list[k] = t /\ list' = RemoveAt(list, k)
  BY DEF thread_unblock_from_wait_queue
<1>2. Len(list) \in Nat /\ k \in 1 .. Len(list)
  BY <1>1 DEF WQTypeOK
<1>3. /\ list' \in Seq(Threads)
      /\ Len(list') = Len(list) - 1
      /\ \A i \in 1 .. Len(list') : list'[i] = IF i < k THEN list[i] ELSE list[i + 1]
  <2> DEFINE s1 == SubSeq(list, 1, k - 1)
             s2 == SubSeq(list, k + 1, Len(list))
  <2>1. list' = s1 \o s2
    BY <1>1 DEF RemoveAt
  <2>2. \A i \in 1 .. Len(list) : list[i] \in Threads
    BY DEF WQTypeOK
  <2>3. /\ s1 \in Seq(Threads)
        /\ Len(s1) = k - 1
        /\ \A i \in 1 .. k - 1 : s1[i] = list[i]
    BY <1>2, <2>2, SubSeqProperties
  <2>4. /\ s2 \in Seq(Threads)
        /\ Len(s2) = Len(list) - k
        /\ \A i \in 1 .. Len(list) - k : s2[i] = list[k + i]
    BY <1>2, <2>2, SubSeqProperties
  <2>5. /\ s1 \o s2 \in Seq(Threads)
        /\ Len(s1 \o s2) = Len(s1) + Len(s2)
        /\ \A i \in 1 .. Len(s1) + Len(s2) :
              (s1 \o s2)[i] = IF i <= Len(s1) THEN s1[i] ELSE s2[i - Len(s1)]
    BY <2>3, <2>4, ConcatProperties
  <2> HIDE DEF s1, s2
  <2>6. /\ list' \in Seq(Threads)
        /\ Len(list') = Len(list) - 1
    BY <2>1, <2>3, <2>4, <2>5, <1>2
  <2>7. ASSUME NEW i \in 1 .. Len(list')
        PROVE  list'[i] = IF i < k THEN list[i] ELSE list[i + 1]
    <3>1. list'[i] = IF i <= k - 1 THEN s1[i] ELSE s2[i - (k - 1)]
      BY <2>1, <2>3, <2>4, <2>5, <2>6, <1>2
    <3>2. CASE i < k
      BY <3>1, <3>2, <2>3, <1>2
    <3>3. CASE ~(i < k)
      <4>1. /\ i - (k - 1) \in 1 .. Len(list) - k
            /\ k + (i - (k - 1)) = i + 1
        BY <3>3, <2>6, <1>2
      <4>2. s2[i - (k - 1)] = list[k + (i - (k - 1))]
        BY <4>1, <2>4
      <4>3. QED
        BY <3>1, <3>3, <4>1, <4>2, <1>2
    <3>4. QED
      BY <3>2, <3>3
  <2>8. QED
    BY <2>6, <2>7
<1>4. state' = [u \in Threads |-> IF u = t THEN "READY" ELSE state[u]]
  BY DEF thread_unblock_from_wait_queue, Unblock
<1>5. ASSUME NEW i \in 1 .. Len(list'), NEW j \in 1 .. Len(list'), list'[i] = list'[j]
      PROVE  i = j
  <2> DEFINE old(n) == IF n < k THEN n ELSE n + 1
  <2>1. /\ old(i) \in 1 .. Len(list) /\ list'[i] = list[old(i)]
        /\ old(j) \in 1 .. Len(list) /\ list'[j] = list[old(j)]
    BY <1>2, <1>3
  <2>2. old(i) = old(j)
    <3>1. \A m, n \in 1 .. Len(list) : list[m] = list[n] => m = n
      BY DEF QueueExact
    <3> HIDE DEF old
    <3>2. QED
      BY ONLY <2>1, <1>5, <3>1
  <2>3. QED
    BY ONLY <2>2, <1>2, <1>3, i \in 1 .. Len(list'), j \in 1 .. Len(list')
<1>6. ASSUME NEW u \in Threads
      PROVE  state'[u] = "BLOCKED" <=> \E i \in 1 .. Len(list') : list'[i] = u
  <2>1. CASE u = t
    BY <2>1, <1>1, <1>2, <1>3, <1>4 DEF QueueExact
  <2>2. CASE u # t
    <3>1. ASSUME NEW i \in 1 .. Len(list), list[i] = u
          PROVE  \E j \in 1 .. Len(list') : list'[j] = u
      <4>1. CASE i < k
        <5>1. i \in 1 .. Len(list') /\ list'[i] = u
          BY <4>1, <3>1, <1>2, <1>3
        <5>2. QED
          BY <5>1
      <4>2. CASE i > k
        <5>1. i - 1 \in 1 .. Len(list') /\ list'[i - 1] = u
          BY <4>2, <3>1, <1>2, <1>3
        <5>2. QED
          BY <5>1
      <4>3. QED
        BY <4>1, <4>2, <3>1, <2>2, <1>1, <1>2
    <3>2. ASSUME NEW i \in 1 .. Len(list'), list'[i] = u
          PROVE  \E j \in 1 .. Len(list) : list[j] = u
      <4>1. i \in 1 .. Len(list) /\ i + 1 \in 1 .. Len(list)
        BY <1>2, <1>3
      <4>2. list[i] = u \/ list[i + 1] = u
        BY <3>2, <1>3
      <4>3. QED
        BY <4>1, <4>2
    <3>3. state'[u] = "BLOCKED" <=> state[u] = "BLOCKED"
      BY <2>2, <1>4
    <3>4. QED
      BY <3>1, <3>2, <3>3 DEF QueueExact
  <2>3. QED
    BY <2>1, <2>2
<1>7. QED
  BY <1>3, <1>5, <1>6 DEF QueueExact

\* Appending a running thread keeps the queue exact.
LEMMA BlockQueue ==
    ASSUME WQTypeOK, QueueExact, NEW t \in Threads, NEW timeout \in Timeouts,
           state[t] = "RUNNING", wait_queue_block(t, timeout)
    PROVE  list' \in Seq(Threads) /\ QueueExact'
<1>1. /\ list' \in Seq(Threads)
      /\ Len(list) \in Nat
      /\ Len(list') = Len(list) + 1
      /\ list'[Len(list) + 1] = t
      /\ \A i \in 1 .. Len(list) : list'[i] = list[i]
  BY DEF WQTypeOK, wait_queue_block
<1>2. state' = [state EXCEPT ![t] = "BLOCKED"]
  BY DEF wait_queue_block
<1>3. \A i \in 1 .. Len(list) : list[i] # t
  BY DEF QueueExact
<1>4. \A i, j \in 1 .. Len(list') : list'[i] = list'[j] => i = j
  BY <1>1, <1>3 DEF QueueExact
<1>5. ASSUME NEW u \in Threads
      PROVE  state'[u] = "BLOCKED" <=> \E i \in 1 .. Len(list') : list'[i] = u
  <2>1. CASE u = t
    BY <2>1, <1>1, <1>2 DEF WQTypeOK
  <2>2. CASE u # t
    <3>1. state'[u] = state[u]
      BY <2>2, <1>2 DEF WQTypeOK
    <3>2. (\E i \in 1 .. Len(list') : list'[i] = u) <=> \E i \in 1 .. Len(list) : list[i] = u
      BY <2>2, <1>1
    <3>3. QED
      BY <3>1, <3>2 DEF QueueExact
  <2>3. QED
    BY <2>1, <2>2
<1>6. QED
  BY <1>1, <1>4, <1>5 DEF QueueExact

\* wait_queue_wake_all empties the queue and leaves nobody BLOCKED; only those who
\* were BLOCKED are told err.
LEMMA WakeAllQueue ==
    ASSUME WQTypeOK, QueueExact, NEW err \in Status, wait_queue_wake_all(err)
    PROVE  /\ WQTypeOK' /\ QueueExact'
           /\ \A t \in Threads :
                 IF state[t] = "BLOCKED"
                 THEN state'[t] = "READY" /\ wait_queue_block_ret'[t] = err
                 ELSE /\ state'[t] = state[t]
                      /\ wait_queue_block_ret'[t] = wait_queue_block_ret[t]
<1>1. \A t \in Threads : t \in ToSet(list) <=> state[t] = "BLOCKED"
  BY DEF ToSet, QueueExact, WQTypeOK
<1>2. /\ list' = <<>>
      /\ timer' = timer
      /\ state' = [t \in Threads |-> IF t \in ToSet(list) THEN "READY" ELSE state[t]]
      /\ wait_queue_block_ret' =
           [t \in Threads |-> IF t \in ToSet(list) THEN err ELSE wait_queue_block_ret[t]]
  BY DEF wait_queue_wake_all, Unblock
<1>3. /\ state' \in [Threads -> {"RUNNING", "BLOCKED", "READY"}]
      /\ wait_queue_block_ret' \in [Threads -> Status]
      /\ list' \in Seq(Threads)
      /\ timer' \in [Threads -> BOOLEAN]
  BY <1>2 DEF WQTypeOK
<1>4. QED
  BY <1>1, <1>2, <1>3 DEF WQTypeOK, QueueExact

\* The queue is empty exactly when nobody is BLOCKED.
LEMMA EmptyQueue ==
    ASSUME WQTypeOK, QueueExact
    PROVE  list = <<>> <=> \A t \in Threads : state[t] # "BLOCKED"
<1>1. ASSUME list # <<>> PROVE list[1] \in Threads /\ 1 \in 1 .. Len(list)
  BY <1>1 DEF WQTypeOK
<1>2. QED
  BY <1>1 DEF QueueExact

\* wait_queue_wake_one makes the head of the queue READY, and nobody else.
LEMMA WakeOneHead ==
    ASSUME WQTypeOK, QueueExact, NEW err \in Status, wait_queue_wake_one(err), list # <<>>
    PROVE  /\ WQTypeOK'
           /\ Head(list) \in Threads /\ state[Head(list)] = "BLOCKED"
           /\ state' = [t \in Threads |-> IF t = Head(list) THEN "READY" ELSE state[t]]
           /\ wait_queue_block_ret' =
                [t \in Threads |-> IF t = Head(list) THEN err ELSE wait_queue_block_ret[t]]
<1>1. Head(list) \in Threads /\ Head(list) = list[1] /\ 1 \in 1 .. Len(list)
  BY DEF WQTypeOK
<1>2. /\ list' = Tail(list)
      /\ timer' = timer
      /\ state' = [t \in Threads |-> IF t = Head(list) THEN "READY" ELSE state[t]]
      /\ wait_queue_block_ret' =
           [t \in Threads |-> IF t = Head(list) THEN err ELSE wait_queue_block_ret[t]]
  BY DEF wait_queue_wake_one, Unblock
<1>3. list' \in Seq(Threads)
  BY <1>2, HeadTailProperties DEF WQTypeOK
<1>4. QED
  BY <1>1, <1>2, <1>3 DEF WQTypeOK, QueueExact
=============================================================================
