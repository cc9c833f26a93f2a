--------------------------- MODULE SchedulerProofs ---------------------------
(***************************************************************************)
(* Module Scheduler for every number of cpus, threads and priorities.      *)
(***************************************************************************)
EXTENDS Scheduler, ListProofs

RunQueues == [list : [Priorities -> Seq(Threads)], bitmap : SUBSET Priorities]

\* The run queue rq holds the threads of R, each in the list of its priority pr[t], and
\* its bitmap is right.
Holds(rq, R, pr) ==
    /\ rq \in RunQueues
    /\ \A p \in Priorities : Lists(rq.list[p], {t \in R : pr[t] = p})
    /\ rq.bitmap = {p \in Priorities : rq.list[p] # <<>>}

States == {"SUSPENDED", "READY", "RUNNING", "BLOCKED", "SLEEPING", "DEATH"}

MpStates ==
    [active : SUBSET CPUs, idle : SUBSET CPUs, realtime : SUBSET CPUs, joining : SUBSET CPUs,
     loaded : SUBSET [cpu : CPUs, idle : SUBSET CPUs]]

Types ==
    /\ state \in [Threads -> States]
    /\ priority \in [Threads -> Priorities]
    /\ real_time \subseteq Threads
    /\ curr \in [CPUs -> Threads \cup {Idle}]
    /\ wait \in [list : Seq(Threads), count : Nat]
    /\ mp \in MpStates
    /\ need_resched \subseteq mp.active

In(s) == {t \in Threads : state[t] = s}

\* Who is READY is in the run queue, who is BLOCKED in the wait queue.
Queued ==
    /\ Holds(run_queue, In("READY"), priority)
    /\ Lists(wait.list, In("BLOCKED"))
    /\ wait.count = Len(wait.list)

\* Who is RUNNING is the current thread of a cpu, of one, and may run on it.
Current ==
    /\ \A t \in Threads : state[t] = "RUNNING" <=> \E c \in CPUs : curr[c] = t
    /\ \A c, d \in CPUs : curr[c] = curr[d] /\ curr[c] # Idle => c = d
    /\ \A c \in CPUs : curr[c] # Idle => MayRun(curr[c], c) /\ c \in mp.active

IInv == Types /\ Queued /\ Current
-----------------------------------------------------------------------------
\* A set of priorities has a greatest element.
LEMMA GreatestPriority ==
    ASSUME NEW S \in SUBSET Priorities, S # {}
    PROVE  Max(S) \in S /\ \A x \in S : x <= Max(S)
<1> DEFINE T == {HIGHEST_PRIORITY - p : p \in S}
<1>1. HIGHEST_PRIORITY \in Nat
  BY SchedulerAssumption DEF HIGHEST_PRIORITY
<1>2. T \in SUBSET Nat /\ T # {}
  <2>1. \A p \in S : HIGHEST_PRIORITY - p \in Nat
    BY <1>1 DEF Priorities
  <2>2. QED
    BY <2>1
<1>3. Min(T) \in T /\ \A x \in T : Min(T) <= x
  BY <1>2, LeastElement
<1>4. PICK p \in S : Min(T) = HIGHEST_PRIORITY - p
  BY <1>3
<1>5. \A q \in S : HIGHEST_PRIORITY - p <= HIGHEST_PRIORITY - q
  BY <1>3, <1>4
<1>6. \A q \in S : p >= q
  BY <1>1, <1>5 DEF Priorities
<1>7. QED
  BY <1>6 DEF Max, Priorities
-----------------------------------------------------------------------------
(* What the operations on the run queue do to what it holds. *)

\* A thread t that was nowhere is put in the list of its priority, which becomes s.
LEMMA HoldsInserted ==
    ASSUME NEW rq, NEW R \in SUBSET Threads, NEW pr, Holds(rq, R, pr),
           NEW new \in [Threads -> Priorities], \A u \in R : new[u] = pr[u],
           NEW t \in Threads, t \notin R,
           NEW s, Lists(s, {u \in R : pr[u] = new[t]} \cup {t})
    PROVE  Holds([list |-> [rq.list EXCEPT ![new[t]] = s], bitmap |-> rq.bitmap \cup {new[t]}],
                 R \cup {t}, new)
<1> DEFINE p0 == new[t]
           L == [rq.list EXCEPT ![p0] = s]
           B == rq.bitmap \cup {p0}
<1>1. /\ p0 \in Priorities
      /\ rq.list \in [Priorities -> Seq(Threads)] /\ rq.bitmap \subseteq Priorities
  BY DEF Holds, RunQueues
<1>2. s \in Seq(Threads) /\ s # <<>>
  <2>1. {u \in R : pr[u] = p0} \cup {t} \subseteq Threads
    OBVIOUS
  <2>2. s # <<>>
    BY ListsEmpty
  <2>3. QED
    BY <2>1, <2>2, SeqMonotonic DEF Lists
<1>3. L \in [Priorities -> Seq(Threads)] /\ B \subseteq Priorities
  BY <1>1, <1>2
<1>4. L[p0] = s /\ \A p \in Priorities : p # p0 => L[p] = rq.list[p]
  BY <1>1
<1>5. ASSUME NEW p \in Priorities PROVE Lists(L[p], {u \in R \cup {t} : new[u] = p})
  <2>1. CASE p = p0
    <3>1. {u \in R \cup {t} : new[u] = p} = {u \in R : pr[u] = p0} \cup {t}
      BY <2>1
    <3>2. QED
      BY <1>4, <2>1, <3>1
  <2>2. CASE p # p0
    <3>1. {u \in R \cup {t} : new[u] = p} = {u \in R : pr[u] = p}
      BY <2>2
    <3>2. QED
      BY <1>4, <2>2, <3>1 DEF Holds
  <2>3. QED
    BY <2>1, <2>2
<1>6. B = {p \in Priorities : L[p] # <<>>}
  BY <1>1, <1>2, <1>4 DEF Holds
<1> HIDE DEF L, B
<1>7. [list |-> L, bitmap |-> B] \in RunQueues
  BY <1>3 DEF RunQueues
<1>8. Holds([list |-> L, bitmap |-> B], R \cup {t}, new)
  BY <1>5, <1>6, <1>7 DEF Holds
<1>9. QED
  BY <1>8 DEF L, B

\* insert_in_run_queue_head, with the priority the thread has then.
LEMMA HoldsHead ==
    ASSUME NEW rq, NEW R \in SUBSET Threads, NEW pr, Holds(rq, R, pr),
           NEW new \in [Threads -> Priorities], \A u \in R : new[u] = pr[u],
           NEW t \in Threads, t \notin R
    PROVE  Holds(insert_in_run_queue_head(rq, t, new[t]), R \cup {t}, new)
<1> DEFINE s == <<t>> \o rq.list[new[t]]
<1>1. Lists(s, {u \in R : pr[u] = new[t]} \cup {t})
  <2>1. new[t] \in Priorities
    OBVIOUS
  <2>2. Lists(rq.list[new[t]], {u \in R : pr[u] = new[t]})
    BY <2>1 DEF Holds
  <2>3. QED
    BY <2>2, ListsCons
<1>2. insert_in_run_queue_head(rq, t, new[t])
        = [list |-> [rq.list EXCEPT ![new[t]] = s], bitmap |-> rq.bitmap \cup {new[t]}]
  BY DEF insert_in_run_queue_head
<1> HIDE DEF s
<1>3. Holds([list |-> [rq.list EXCEPT ![new[t]] = s], bitmap |-> rq.bitmap \cup {new[t]}],
            R \cup {t}, new)
  BY <1>1, HoldsInserted, Zenon
<1>4. QED
  BY <1>2, <1>3, Zenon

\* insert_in_run_queue_tail.
LEMMA HoldsTail ==
    ASSUME NEW rq, NEW R \in SUBSET Threads, NEW pr \in [Threads -> Priorities],
           Holds(rq, R, pr), NEW t \in Threads, t \notin R
    PROVE  Holds(insert_in_run_queue_tail(rq, t, pr[t]), R \cup {t}, pr)
<1> DEFINE s == Append(rq.list[pr[t]], t)
<1>1. Lists(s, {u \in R : pr[u] = pr[t]} \cup {t})
  BY ListsAppend DEF Holds
<1>2. insert_in_run_queue_tail(rq, t, pr[t])
        = [list |-> [rq.list EXCEPT ![pr[t]] = s], bitmap |-> rq.bitmap \cup {pr[t]}]
  BY DEF insert_in_run_queue_tail
<1> HIDE DEF s
<1>3. QED
  BY <1>1, <1>2, HoldsInserted

\* get_top_thread takes out a thread of the highest priority that has one for the cpu.
LEMMA TopThread ==
    ASSUME NEW rq, NEW R \in SUBSET Threads, NEW pr \in [Threads -> Priorities],
           Holds(rq, R, pr), NEW c \in CPUs
    PROVE  LET top == get_top_thread(rq, c)
           IN  \/ /\ top.thread = Idle /\ top.rq = rq
                  /\ \A u \in R : ~MayRun(u, c)
               \/ /\ top.thread \in R /\ MayRun(top.thread, c)
                  /\ Holds(top.rq, R \ {top.thread}, pr)
                  /\ \A u \in R : MayRun(u, c) => pr[u] <= pr[top.thread]
<1> DEFINE queues == {p \in rq.bitmap : Candidates(rq, p, c) # {}}
<1>1. /\ rq.list \in [Priorities -> Seq(Threads)] /\ rq.bitmap \subseteq Priorities
      /\ rq.bitmap = {p \in Priorities : rq.list[p] # <<>>}
      /\ rq = [list |-> rq.list, bitmap |-> rq.bitmap]
  BY DEF Holds, RunQueues
<1>2. ASSUME NEW u \in R, MayRun(u, c) PROVE pr[u] \in queues
  <2>1. Lists(rq.list[pr[u]], {v \in R : pr[v] = pr[u]})
    BY DEF Holds
  <2>2. PICK i \in 1 .. Len(rq.list[pr[u]]) : rq.list[pr[u]][i] = u
    BY <2>1 DEF Lists
  <2>3. rq.list[pr[u]] \in Seq(Threads) /\ rq.list[pr[u]] # <<>>
    BY <1>1, <2>2
  <2>4. i \in Candidates(rq, pr[u], c)
    BY <1>2, <2>2, <2>3 DEF Candidates
  <2>5. QED
    BY <1>1, <2>3, <2>4
<1>3. CASE queues = {}
  <2>1. get_top_thread(rq, c) = [thread |-> Idle, rq |-> rq]
    BY <1>3 DEF get_top_thread
  <2> HIDE DEF queues
  <2>2. QED
    BY <1>2, <1>3, <2>1
<1>4. CASE queues # {}
  <2> DEFINE p == Max(queues)
             i == Min(Candidates(rq, p, c))
             l == rq.list[p]
             rest == RemoveAt(l, i)
  <2>1. p \in queues /\ \A q \in queues : q <= p
    BY <1>1, <1>4, GreatestPriority
  <2>2. p \in Priorities /\ Candidates(rq, p, c) # {}
    BY <1>1, <2>1
  <2>3. get_top_thread(rq, c) =
           [thread |-> l[i],
            rq |-> [list |-> [rq.list EXCEPT ![p] = rest],
                    bitmap |-> BitmapWithout(rq.bitmap, p, rest)]]
    BY <1>4 DEF get_top_thread
  <2> HIDE DEF queues, p
  <2>4. Candidates(rq, p, c) \in SUBSET Nat
    <3>1. rq.list[p] \in Seq(Threads)
      BY <1>1, <2>2
    <3>2. DOMAIN rq.list[p] \subseteq Nat
      BY <3>1
    <3>3. QED
      BY <3>2 DEF Candidates
  <2>5. i \in Candidates(rq, p, c)
    BY <2>2, <2>4, LeastElement
  <2> HIDE DEF i
  <2>6. i \in DOMAIN l /\ MayRun(l[i], c)
    BY <2>5 DEF Candidates
  <2>7. Lists(l, {u \in R : pr[u] = p})
    BY <2>2 DEF Holds
  <2>8. l[i] \in R /\ pr[l[i]] = p /\ Lists(rest, {u \in R : pr[u] = p} \ {l[i]})
    <3> DEFINE S == {u \in R : pr[u] = p}
    <3>1. Lists(l, S)
      BY <2>7
    <3> HIDE DEF S, l
    <3>2. l[i] \in S /\ Lists(RemoveAt(l, i), S \ {l[i]})
      BY <2>6, <3>1, ListsRemoveAt
    <3>3. QED
      BY <3>2 DEF S
  <2> DEFINE L == [rq.list EXCEPT ![p] = rest]
             B == BitmapWithout(rq.bitmap, p, rest)
             t == l[i]
  <2>9. rest \in Seq(Threads)
    <3>1. {u \in R : pr[u] = p} \ {l[i]} \subseteq Threads
      OBVIOUS
    <3>2. QED
      BY <2>8, <3>1, SeqMonotonic DEF Lists
  <2> HIDE DEF rest, l
  <2>10. /\ L \in [Priorities -> Seq(Threads)]
         /\ L[p] = rest /\ \A q \in Priorities : q # p => L[q] = rq.list[q]
    BY <1>1, <2>2, <2>9
  <2>11. B \subseteq Priorities /\ B = {q \in Priorities : L[q] # <<>>}
    <3>1. p \in rq.bitmap
      BY <2>1 DEF queues
    <3>2. QED
      BY <1>1, <2>2, <2>10, <3>1 DEF BitmapWithout
  <2>12. ASSUME NEW q \in Priorities PROVE Lists(L[q], {u \in R \ {t} : pr[u] = q})
    <3>1. CASE q = p
      <4>1. {u \in R \ {t} : pr[u] = q} = {u \in R : pr[u] = p} \ {l[i]}
        BY <3>1
      <4>2. QED
        BY <2>8, <2>10, <3>1, <4>1
    <3>2. CASE q # p
      <4>1. {u \in R \ {t} : pr[u] = q} = {u \in R : pr[u] = q}
        BY <2>8, <3>2
      <4>2. QED
        BY <2>10, <3>2, <4>1 DEF Holds
    <3>3. QED
      BY <3>1, <3>2
  <2> HIDE DEF L, B, t
  <2>13. Holds([list |-> L, bitmap |-> B], R \ {t}, pr)
    BY <2>10, <2>11, <2>12 DEF Holds, RunQueues
  <2>14. \A u \in R : MayRun(u, c) => pr[u] <= pr[t]
    BY <1>2, <2>1, <2>8 DEF t
  <2>15. get_top_thread(rq, c) = [thread |-> t, rq |-> [list |-> L, bitmap |-> B]]
    BY <2>3 DEF t, L, B
  <2>16. t \in R /\ MayRun(t, c)
    BY <2>6, <2>8 DEF t
  <2>17. QED
    BY <2>13, <2>14, <2>15, <2>16
<1>5. QED
  BY <1>3, <1>4

\* Those who are woken together are put at the head one by one (insert_all).
LEMMA HoldsAll ==
    ASSUME NEW rq, NEW R \in SUBSET Threads, priority \in [Threads -> Priorities],
           Holds(rq, R, priority),
           NEW seq, NEW W \in SUBSET Threads, Lists(seq, W), W \cap R = {}
    PROVE  Holds(insert_all(rq, seq), R \cup W, priority)
<1> DEFINE n == Len(seq)
           Step(q, i) == IF i = 0 THEN rq
                         ELSE insert_in_run_queue_head(q[i - 1], seq[i], priority[seq[i]])
           IsFold(q, m) == q = [i \in 0 .. m |-> Step(q, i)]
<1>1. n \in Nat /\ seq \in Seq(W) /\ \A i \in 1 .. n : seq[i] \in W
  BY DEF Lists
<1>2. \E q : IsFold(q, n)
  <2> DEFINE E == {m \in Nat : \E q : IsFold(q, m)}
  <2>1. 0 \in E
    <3> DEFINE q == [i \in 0 .. 0 |-> rq]
    <3>1. q = [i \in 0 .. 0 |-> Step(q, i)]
      OBVIOUS
    <3>2. QED
      BY <3>1
  <2>2. ASSUME NEW m \in E PROVE m + 1 \in E
    <3>1. PICK g : IsFold(g, m)
      OBVIOUS
    <3> DEFINE h == [i \in 0 .. m + 1 |-> IF i <= m THEN g[i] ELSE Step(g, i)]
    <3>2. m \in Nat
      OBVIOUS
    <3>3. ASSUME NEW i \in 0 .. m + 1 PROVE h[i] = Step(g, i)
      <4> HIDE DEF Step
      <4>1. CASE i <= m
        <5>1. i \in 0 .. m
          BY <3>2, <4>1
        <5>2. QED
          BY <3>1, <4>1, <5>1
      <4>2. CASE ~(i <= m)
        BY <4>2
      <4>3. QED
        BY <4>1, <4>2
    <3>4. ASSUME NEW i \in 0 .. m + 1 PROVE h[i] = Step(h, i)
      <4>1. CASE i = 0
        BY <3>3, <4>1
      <4>2. CASE i # 0
        <5>1. i - 1 \in 0 .. m /\ i - 1 <= m /\ i - 1 \in 0 .. m + 1
          BY <3>2, <4>2
        <5>2. h[i - 1] = g[i - 1]
          BY <5>1
        <5>3. QED
          BY <3>3, <5>2
      <4>3. QED
        BY <4>1, <4>2
    <3>5. h = [i \in 0 .. m + 1 |-> Step(h, i)]
      <4> HIDE DEF Step
      <4>1. [i \in 0 .. m + 1 |-> IF i <= m THEN g[i] ELSE Step(g, i)]
              = [i \in 0 .. m + 1 |-> Step(h, i)]
        BY <3>4
      <4>2. QED
        BY <4>1
    <3>6. IsFold(h, m + 1)
      BY <3>5
    <3> HIDE DEF IsFold, h
    <3>7. QED
      BY <3>2, <3>6
  <2>3. E \in SUBSET Nat
    OBVIOUS
  <2> HIDE DEF E
  <2>4. E = Nat
    BY <2>1, <2>2, <2>3, SetInduction
  <2> USE DEF E
  <2> HIDE DEF IsFold
  <2>5. QED
    BY <1>1, <2>4
<1> DEFINE q == CHOOSE q : IsFold(q, n)
<1>3. IsFold(q, n)
  <2> HIDE DEF IsFold
  <2>1. QED
    BY <1>2
<1>4. insert_all(rq, seq) = q[n]
  BY DEF insert_all
<1> HIDE DEF q
<1>5. \A i \in 0 .. n : q[i] = Step(q, i)
  BY <1>3
<1> DEFINE Upto(i) == {seq[j] : j \in 1 .. i}
           G == {i \in Nat : i <= n => Holds(q[i], R \cup Upto(i), priority)}
<1>6. 0 \in G
  <2>1. q[0] = rq
    BY <1>1, <1>5
  <2>2. R \cup Upto(0) = R
    OBVIOUS
  <2> HIDE DEF Upto
  <2>3. QED
    BY <2>1, <2>2
<1>7. ASSUME NEW i \in G PROVE i + 1 \in G
  <2> SUFFICES ASSUME i + 1 <= n
               PROVE  Holds(q[i + 1], R \cup Upto(i + 1), priority)
    OBVIOUS
  <2>1. i \in Nat /\ i <= n /\ i + 1 \in 1 .. n
    BY <1>1
  <2>2. Holds(q[i], R \cup Upto(i), priority)
    BY <2>1
  <2>3. q[i + 1] = insert_in_run_queue_head(q[i], seq[i + 1], priority[seq[i + 1]])
    <3>1. q[i + 1] = Step(q, i + 1)
      BY <1>5, <2>1
    <3>2. i + 1 # 0 /\ (i + 1) - 1 = i
      BY <2>1
    <3>3. QED
      BY <3>1, <3>2
  <2>4. seq[i + 1] \in Threads /\ seq[i + 1] \notin R \cup Upto(i)
    <3>1. \A j \in 1 .. i : j \in 1 .. n /\ j # i + 1
      BY <2>1
    <3>2. \A j \in 1 .. i : seq[j] # seq[i + 1]
      BY <2>1, <3>1 DEF Lists
    <3>3. seq[i + 1] \in W
      BY <1>1, <2>1
    <3>4. QED
      BY <3>2, <3>3
  <2>5. Upto(i + 1) = Upto(i) \cup {seq[i + 1]}
    <3>1. 1 .. (i + 1) = (1 .. i) \cup {i + 1}
      BY <2>1
    <3>2. QED
      BY <3>1
  <2>6. R \cup Upto(i) \in SUBSET Threads
    BY <1>1, <2>1
  <2> HIDE DEF Upto
  <2>7. Holds(q[i + 1], (R \cup Upto(i)) \cup {seq[i + 1]}, priority)
    BY <2>2, <2>3, <2>4, <2>6, HoldsHead
  <2>8. (R \cup Upto(i)) \cup {seq[i + 1]} = R \cup Upto(i + 1)
    BY <2>5
  <2>9. QED
    BY <2>7, <2>8
<1>8. G \in SUBSET Nat
  OBVIOUS
<1>9. n \in G
  <2> HIDE DEF G, n
  <2>1. G = Nat
    BY <1>6, <1>7, <1>8, SetInduction
  <2>2. QED
    BY <1>1, <2>1
<1>10. Upto(n) = W
  BY <1>1 DEF Lists
<1> HIDE DEF Upto
<1>11. QED
  BY <1>1, <1>4, <1>9, <1>10
-----------------------------------------------------------------------------
(* The steps.  The first lemma is about thread_resched: what its caller has to leave   *)
(* behind, and what it makes of that.                                                  *)

\* What SwitchesToHighest says of a step.
HighestStep ==
    \A c \in CPUs, t \in Threads :
        curr'[c] # curr[c] /\ state'[t] = "READY" /\ MayRun(t, c)
            => curr'[c] # Idle /\ priority'[curr'[c]] >= priority'[t]

\* The queues are as st says, and the current thread of c is not RUNNING any more: then
\* all is well again after the switch, and no better thread has been left behind.
LEMMA Switch ==
    ASSUME IInv, NEW c \in mp.active, NEW rq, NEW st \in [Threads -> States], NEW q, NEW tm,
           thread_resched(c, rq, st, q, tm),
           priority' \in [Threads -> Priorities], UNCHANGED real_time,
           Holds(rq, {t \in Threads : st[t] = "READY"}, priority'),
           \A t \in Threads : st[t] = "RUNNING" <=> \E d \in CPUs \ {c} : curr[d] = t,
           wait' \in [list : Seq(Threads), count : Nat],
           Lists(wait'.list, {t \in Threads : st[t] = "BLOCKED"}),
           wait'.count = Len(wait'.list),
           need_resched' \subseteq mp.active
    PROVE  IInv' /\ HighestStep
<1> DEFINE new == get_top_thread(rq, c).thread
           nrq == get_top_thread(rq, c).rq
           R == {t \in Threads : st[t] = "READY"}
<1>1. /\ run_queue' = nrq
      /\ state' = [t \in Threads |-> IF t = new THEN "RUNNING" ELSE st[t]]
      /\ curr' = [curr EXCEPT ![c] = new]
      /\ \/ new = curr[c] /\ mp' = mp
         \/ new # curr[c] /\ \E lost \in SUBSET mp.loaded : mp' = SwitchMp(c, new, lost)
  <2>1. /\ run_queue' = nrq
        /\ state' = [t \in Threads |-> IF t = new THEN "RUNNING" ELSE st[t]]
        /\ curr' = [curr EXCEPT ![c] = new]
    BY DEF thread_resched
  <2>2. new = curr[c] => mp' = mp
    BY DEF thread_resched
  <2>3. new # curr[c] => \E lost \in SUBSET mp.loaded : mp' = SwitchMp(c, new, lost)
    BY DEF thread_resched
  <2>4. QED
    BY <2>1, <2>2, <2>3
<1>2. c \in CPUs
  BY DEF IInv, Types, MpStates
<1>3. \/ /\ new = Idle /\ nrq = rq
         /\ \A u \in R : ~MayRun(u, c)
      \/ /\ new \in R /\ MayRun(new, c)
         /\ Holds(nrq, R \ {new}, priority')
         /\ \A u \in R : MayRun(u, c) => priority'[u] <= priority'[new]
  BY <1>2, TopThread
<1> HIDE DEF new, nrq
<1>4. Idle \notin Threads /\ new \in R \cup {Idle}
  BY <1>3, SchedulerAssumption
<1>5. In("READY")' = R \ {new} /\ In("BLOCKED")' = {t \in Threads : st[t] = "BLOCKED"}
  BY <1>1, <1>4 DEF In
<1>6. Holds(run_queue', In("READY")', priority')
  <2>1. CASE new = Idle
    <3>1. R \ {new} = R
      BY <1>4, <2>1
    <3>2. nrq = rq
      BY <1>3, <1>4, <2>1
    <3>3. QED
      BY <1>1, <1>5, <3>1, <3>2
  <2>2. CASE new \in R
    BY <1>1, <1>3, <1>4, <1>5, <2>2
  <2>3. QED
    BY <1>4, <2>1, <2>2
<1>7. mp' \in MpStates /\ mp'.active = mp.active
  <2>1. CASE mp' = mp
    BY <2>1 DEF IInv, Types
  <2>2. ASSUME NEW lost \in SUBSET mp.loaded, mp' = SwitchMp(c, new, lost)
        PROVE  mp' \in MpStates /\ mp'.active = mp.active
    <3>1. PICK i, r, j, l : /\ i = With(mp.idle, c, new = Idle)
                            /\ r = With(mp.realtime, c, thread_is_realtime(new))
                            /\ j = mp.joining \ {x.cpu : x \in lost} /\ l = mp.loaded \ lost
      OBVIOUS
    <3>2. mp' = [mp EXCEPT !.idle = i, !.realtime = r, !.joining = j, !.loaded = l]
      BY <2>2, <3>1 DEF SwitchMp
    <3>3. /\ mp.idle \in SUBSET CPUs /\ mp.realtime \in SUBSET CPUs /\ mp.joining \in SUBSET CPUs
          /\ mp.loaded \in SUBSET [cpu : CPUs, idle : SUBSET CPUs] /\ mp \in MpStates
      BY DEF IInv, Types, MpStates
    <3>4. \A S \in SUBSET CPUs : \A b : With(S, c, b) \in SUBSET CPUs
      BY <1>2 DEF With
    <3>5. i \in SUBSET CPUs /\ r \in SUBSET CPUs /\ j \in SUBSET CPUs
          /\ l \in SUBSET [cpu : CPUs, idle : SUBSET CPUs]
      BY <3>1, <3>3, <3>4
    <3>6. QED
      BY <3>2, <3>3, <3>5 DEF MpStates
  <2>3. QED
    BY <1>1, <2>1, <2>2
<1>8. Types'
  <2>1. state' \in [Threads -> States]
    BY <1>1 DEF States
  <2>2. curr' \in [CPUs -> Threads \cup {Idle}]
    BY <1>1, <1>4 DEF IInv, Types
  <2>3. QED
    BY <1>7, <2>1, <2>2 DEF IInv, Types
<1>9. \A d \in CPUs : curr'[d] = IF d = c THEN new ELSE curr[d]
  BY <1>1 DEF IInv, Types
<1>10. Current'
  <2>1. ASSUME NEW t \in Threads
        PROVE  state'[t] = "RUNNING" <=> \E d \in CPUs : curr'[d] = t
    <3>1. CASE t = new
      BY <1>1, <1>2, <1>9, <3>1
    <3>2. CASE t # new
      BY <1>1, <1>9, <3>2
    <3>3. QED
      BY <3>1, <3>2
  <2>2. ASSUME NEW d \in CPUs, d # c, new # Idle PROVE curr[d] # new
    BY <1>4, <2>2
  <2>3. \A d, e \in CPUs : curr'[d] = curr'[e] /\ curr'[d] # Idle => d = e
    BY <1>9, <2>2 DEF IInv, Current
  <2>4. \A d \in CPUs : curr'[d] # Idle => MayRun(curr'[d], d) /\ d \in mp'.active
    BY <1>3, <1>4, <1>7, <1>9 DEF IInv, Current
  <2>5. QED
    BY <1>7, <2>1, <2>3, <2>4 DEF Current, MayRun
<1>11. HighestStep
  <2> SUFFICES ASSUME NEW d \in CPUs, NEW t \in Threads,
                      curr'[d] # curr[d], state'[t] = "READY", MayRun(t, d)
               PROVE  curr'[d] # Idle /\ priority'[curr'[d]] >= priority'[t]
    BY DEF HighestStep
  <2>1. d = c /\ curr'[c] = new
    BY <1>2, <1>9
  <2>2. t \in R
    BY <1>5 DEF In
  <2>3. new # Idle /\ new \in R /\ priority'[t] <= priority'[new]
    BY <1>3, <1>4, <2>1, <2>2
  <2>4. priority'[t] \in Int /\ priority'[new] \in Int
    BY <2>2, <2>3 DEF Priorities
  <2>5. QED
    BY <2>1, <2>3, <2>4
<1>12. QED
  BY <1>5, <1>6, <1>8, <1>10, <1>11 DEF IInv, Queued

\* A step without a switch: the queues have to be right, and the same threads RUNNING.
LEMMA Stay ==
    ASSUME IInv, UNCHANGED <<curr, priority, mp>>, real_time' \subseteq Threads,
           need_resched' \subseteq mp.active,
           state' \in [Threads -> States],
           \A t \in Threads : state'[t] = "RUNNING" <=> state[t] = "RUNNING",
           Holds(run_queue', {t \in Threads : state'[t] = "READY"}, priority),
           wait' \in [list : Seq(Threads), count : Nat],
           Lists(wait'.list, {t \in Threads : state'[t] = "BLOCKED"}),
           wait'.count = Len(wait'.list)
    PROVE  IInv' /\ HighestStep
<1>1. Types'
  BY DEF IInv, Types
<1>2. Queued'
  BY DEF Queued, In
<1>3. Current'
  BY DEF IInv, Current, MayRun
<1>4. QED
  BY <1>1, <1>2, <1>3 DEF IInv, HighestStep

\* The current thread t of cpu c, and what becomes of "RUNNING" when it stops.
LEMMA Leaves ==
    ASSUME IInv, NEW c \in CPUs, NEW t \in Threads, curr[c] = t,
           NEW st, st[t] # "RUNNING",
           \A u \in Threads \ {t} : st[u] = "RUNNING" <=> state[u] = "RUNNING"
    PROVE  /\ c \in mp.active /\ state[t] = "RUNNING"
           /\ \A u \in Threads : st[u] = "RUNNING" <=> \E d \in CPUs \ {c} : curr[d] = u
<1>1. t # Idle
  BY SchedulerAssumption
<1>2. c \in mp.active /\ state[t] = "RUNNING"
  BY <1>1 DEF IInv, Current
<1>3. \A d \in CPUs \ {c} : curr[d] # t
  BY <1>1 DEF IInv, Current
<1>4. QED
  BY <1>2, <1>3 DEF IInv, Current

\* thread_set_priority puts every argument into the range of priorities.
LEMMA ClampType ==
    ASSUME NEW p \in Int
    PROVE  Clamp(p) \in Priorities
<1>1. NUM_PRIORITIES \in Nat /\ NUM_PRIORITIES >= 2
  BY SchedulerAssumption
<1>2. CASE p <= 0
  BY <1>1, <1>2 DEF Clamp, Priorities, HIGHEST_PRIORITY, IDLE_PRIORITY
<1>3. CASE ~(p <= 0)
  <2>1. {p, HIGHEST_PRIORITY} \in SUBSET Nat
    BY <1>1, <1>3 DEF HIGHEST_PRIORITY
  <2>2. /\ Min({p, HIGHEST_PRIORITY}) \in {p, HIGHEST_PRIORITY}
        /\ Min({p, HIGHEST_PRIORITY}) <= HIGHEST_PRIORITY
    BY <2>1, LeastElement
  <2>3. Clamp(p) = Min({p, HIGHEST_PRIORITY})
    BY <1>3 DEF Clamp, IDLE_PRIORITY
  <2>4. QED
    BY <2>1, <2>2, <2>3 DEF Priorities
<1>4. QED
  BY <1>2, <1>3

\* thread_yield.
LEMMA YieldIInv ==
    ASSUME IInv, NEW c \in CPUs, thread_yield(c)
    PROVE  IInv' /\ HighestStep
<1> DEFINE t == curr[c]
           st == [state EXCEPT ![t] = "READY"]
           rq == insert_in_run_queue_tail(run_queue, t, priority[t])
           q == [remaining_quantum EXCEPT ![t] = 0]
<1>1. /\ t \in Threads
      /\ thread_resched(c, rq, st, q, timer)
      /\ UNCHANGED <<priority, real_time, wait, need_resched>>
  BY DEF thread_yield, IInv, Types
<1>2. st \in [Threads -> States]
  BY DEF IInv, Types, States
<1>3. st[t] = "READY" /\ \A u \in Threads \ {t} : st[u] = state[u]
  BY <1>1 DEF IInv, Types
<1> HIDE DEF st, t
<1>4. /\ c \in mp.active /\ state[t] = "RUNNING"
      /\ \A u \in Threads : st[u] = "RUNNING" <=> \E d \in CPUs \ {c} : curr[d] = u
  BY <1>1, <1>3, Leaves DEF t
<1>5. Holds(rq, {u \in Threads : st[u] = "READY"}, priority)
  <2>1. {u \in Threads : st[u] = "READY"} = In("READY") \cup {t}
    BY <1>1, <1>3 DEF In
  <2>2. t \notin In("READY") /\ In("READY") \in SUBSET Threads
    BY <1>4 DEF In
  <2>3. Holds(run_queue, In("READY"), priority) /\ priority \in [Threads -> Priorities]
    BY DEF IInv, Queued, Types
  <2>4. Holds(rq, In("READY") \cup {t}, priority)
    BY <1>1, <2>2, <2>3, HoldsTail
  <2>5. QED
    BY <2>1, <2>4
<1> HIDE DEF rq, q
<1>6. In("BLOCKED") = {u \in Threads : st[u] = "BLOCKED"}
  BY <1>1, <1>3, <1>4 DEF In
<1>7. /\ priority' \in [Threads -> Priorities] /\ need_resched' \subseteq mp.active
      /\ wait' \in [list : Seq(Threads), count : Nat]
      /\ Lists(wait'.list, {u \in Threads : st[u] = "BLOCKED"})
      /\ wait'.count = Len(wait'.list)
  BY <1>1, <1>6 DEF IInv, Types, Queued
<1>8. Holds(rq, {u \in Threads : st[u] = "READY"}, priority')
  BY <1>1, <1>5
<1>9. QED
  BY <1>1, <1>2, <1>4, <1>7, <1>8, Switch

\* thread_sleep.
LEMMA SleepIInv ==
    ASSUME IInv, NEW c \in CPUs, NEW t \in Threads, thread_sleep(c, t)
    PROVE  IInv' /\ HighestStep
<1> DEFINE st == [state EXCEPT ![t] = "SLEEPING"]
           tm == [timer EXCEPT ![t] = c]
<1>1. /\ curr[c] = t
      /\ thread_resched(c, run_queue, st, remaining_quantum, tm)
      /\ UNCHANGED <<priority, real_time, wait, need_resched>>
  BY DEF thread_sleep, Calls
<1>2. st \in [Threads -> States]
  BY DEF IInv, Types, States
<1>3. st[t] = "SLEEPING" /\ \A u \in Threads \ {t} : st[u] = state[u]
  BY DEF IInv, Types
<1> HIDE DEF st, tm
<1>4. /\ c \in mp.active /\ state[t] = "RUNNING"
      /\ \A u \in Threads : st[u] = "RUNNING" <=> \E d \in CPUs \ {c} : curr[d] = u
  BY <1>1, <1>3, Leaves
<1>5. /\ In("READY") = {u \in Threads : st[u] = "READY"}
      /\ In("BLOCKED") = {u \in Threads : st[u] = "BLOCKED"}
  BY <1>3, <1>4 DEF In
<1>6. /\ priority' \in [Threads -> Priorities] /\ need_resched' \subseteq mp.active
      /\ Holds(run_queue, {u \in Threads : st[u] = "READY"}, priority')
      /\ wait' \in [list : Seq(Threads), count : Nat]
      /\ Lists(wait'.list, {u \in Threads : st[u] = "BLOCKED"})
      /\ wait'.count = Len(wait'.list)
  BY <1>1, <1>5 DEF IInv, Types, Queued
<1>7. QED
  BY <1>1, <1>2, <1>4, <1>6, Switch

\* thread_set_priority.
LEMMA SetPriorityIInv ==
    ASSUME IInv, NEW c \in CPUs, NEW t \in Threads, NEW p \in SetPriorities,
           thread_set_priority(c, t, p)
    PROVE  IInv' /\ HighestStep
<1> DEFINE st == [state EXCEPT ![t] = "READY"]
           rq == insert_in_run_queue_head(run_queue, t, Clamp(p))
<1>1. /\ curr[c] = t
      /\ priority' = [priority EXCEPT ![t] = Clamp(p)]
      /\ thread_resched(c, rq, st, remaining_quantum, timer)
      /\ UNCHANGED <<real_time, wait, need_resched>>
  BY DEF thread_set_priority, Calls
<1>2. st \in [Threads -> States]
  BY DEF IInv, Types, States
<1>3. st[t] = "READY" /\ \A u \in Threads \ {t} : st[u] = state[u]
  BY DEF IInv, Types
<1> HIDE DEF st
<1>4. /\ c \in mp.active /\ state[t] = "RUNNING"
      /\ \A u \in Threads : st[u] = "RUNNING" <=> \E d \in CPUs \ {c} : curr[d] = u
  BY <1>1, <1>3, Leaves
<1>5. /\ priority' \in [Threads -> Priorities] /\ priority'[t] = Clamp(p)
      /\ \A u \in Threads \ {t} : priority'[u] = priority[u]
  <2>1. Clamp(p) \in Priorities
    BY ClampType, SchedulerAssumption
  <2>2. QED
    BY <1>1, <2>1 DEF IInv, Types
<1>6. Holds(rq, {u \in Threads : st[u] = "READY"}, priority')
  <2>1. {u \in Threads : st[u] = "READY"} = In("READY") \cup {t}
    BY <1>3 DEF In
  <2>2. t \notin In("READY") /\ In("READY") \in SUBSET Threads
    BY <1>4 DEF In
  <2>3. Holds(run_queue, In("READY"), priority)
    BY DEF IInv, Queued
  <2>4. \A u \in In("READY") : priority'[u] = priority[u]
    BY <1>5, <2>2
  <2>5. Holds(insert_in_run_queue_head(run_queue, t, priority'[t]),
              In("READY") \cup {t}, priority')
    BY <1>5, <2>2, <2>3, <2>4, HoldsHead
  <2>6. QED
    BY <1>5, <2>1, <2>5
<1> HIDE DEF rq
<1>7. In("BLOCKED") = {u \in Threads : st[u] = "BLOCKED"}
  BY <1>3, <1>4 DEF In
<1>8. /\ need_resched' \subseteq mp.active
      /\ wait' \in [list : Seq(Threads), count : Nat]
      /\ Lists(wait'.list, {u \in Threads : st[u] = "BLOCKED"})
      /\ wait'.count = Len(wait'.list)
  BY <1>1, <1>7 DEF IInv, Types, Queued
<1>9. priority' \in [Threads -> Priorities]
  BY <1>5
<1>10. UNCHANGED real_time /\ thread_resched(c, rq, st, remaining_quantum, timer)
  BY <1>1
<1>11. QED
  BY ONLY IInv, <1>2, <1>4, <1>6, <1>8, <1>9, <1>10, Switch

\* wait_queue_block.
LEMMA BlockIInv ==
    ASSUME IInv, NEW c \in CPUs, NEW t \in Threads, NEW timed \in BOOLEAN,
           wait_queue_block(c, t, timed)
    PROVE  IInv' /\ HighestStep
<1> DEFINE st == [state EXCEPT ![t] = "BLOCKED"]
           tm == [timer EXCEPT ![t] = IF timed THEN c ELSE @]
<1>1. /\ curr[c] = t
      /\ wait' = [list |-> Append(wait.list, t), count |-> wait.count + 1]
      /\ thread_resched(c, run_queue, st, remaining_quantum, tm)
      /\ UNCHANGED <<priority, real_time, need_resched>>
  BY DEF wait_queue_block, Calls
<1>2. st \in [Threads -> States]
  BY DEF IInv, Types, States
<1>3. st[t] = "BLOCKED" /\ \A u \in Threads \ {t} : st[u] = state[u]
  BY DEF IInv, Types
<1> HIDE DEF st, tm
<1>4. /\ c \in mp.active /\ state[t] = "RUNNING"
      /\ \A u \in Threads : st[u] = "RUNNING" <=> \E d \in CPUs \ {c} : curr[d] = u
  BY <1>1, <1>3, Leaves
<1>5. In("READY") = {u \in Threads : st[u] = "READY"}
  BY <1>3, <1>4 DEF In
<1>6. /\ wait' \in [list : Seq(Threads), count : Nat]
      /\ Lists(wait'.list, {u \in Threads : st[u] = "BLOCKED"})
      /\ wait'.count = Len(wait'.list)
  <2>1. wait.list \in Seq(Threads) /\ wait.count \in Nat /\ wait.count = Len(wait.list)
    BY DEF IInv, Types, Queued
  <2>2. Append(wait.list, t) \in Seq(Threads) /\ Len(Append(wait.list, t)) = Len(wait.list) + 1
    BY <2>1
  <2>3. {u \in Threads : st[u] = "BLOCKED"} = In("BLOCKED") \cup {t} /\ t \notin In("BLOCKED")
    BY <1>3, <1>4 DEF In
  <2>4. Lists(Append(wait.list, t), In("BLOCKED") \cup {t})
    BY <2>3, ListsAppend DEF IInv, Queued
  <2>5. wait'.list = Append(wait.list, t) /\ wait'.count = wait.count + 1
    BY <1>1
  <2>6. wait' \in [list : Seq(Threads), count : Nat]
    BY <1>1, <2>1, <2>2
  <2>7. QED
    BY <2>1, <2>2, <2>3, <2>4, <2>5, <2>6
<1>7. /\ priority' \in [Threads -> Priorities] /\ need_resched' \subseteq mp.active
      /\ Holds(run_queue, {u \in Threads : st[u] = "READY"}, priority')
  BY <1>1, <1>5 DEF IInv, Types, Queued
<1>8. UNCHANGED real_time /\ thread_resched(c, run_queue, st, remaining_quantum, tm)
  BY <1>1
<1>9. QED
  BY ONLY IInv, <1>2, <1>4, <1>6, <1>7, <1>8, Switch

\* The first n waiters, and what waking them does to the states and to the wait queue.
LEMMA Woken ==
    ASSUME IInv, NEW n \in 0 .. Len(wait.list)
    PROVE  LET woken == SubSeq(wait.list, 1, n)
               rest == SubSeq(wait.list, n + 1, Len(wait.list))
           IN  \E W \in SUBSET In("BLOCKED") :
                  /\ Lists(woken, W)
                  /\ Readied(woken) = [u \in Threads |-> IF u \in W THEN "READY" ELSE state[u]]
                  /\ Lists(rest, In("BLOCKED") \ W)
                  /\ wait.count - n = Len(rest)
                  /\ [list |-> rest, count |-> wait.count - n]
                        \in [list : Seq(Threads), count : Nat]
<1> DEFINE woken == SubSeq(wait.list, 1, n)
           rest == SubSeq(wait.list, n + 1, Len(wait.list))
<1>1. Lists(wait.list, In("BLOCKED")) /\ wait.count = Len(wait.list)
  BY DEF IInv, Queued
<1>2. PICK W \in SUBSET In("BLOCKED") :
         /\ Lists(woken, W) /\ ToSet(woken) = W
         /\ Lists(rest, In("BLOCKED") \ W)
         /\ Len(rest) = Len(wait.list) - n
  BY <1>1, ListsSplit
<1> HIDE DEF woken, rest
<1>3. Readied(woken) = [u \in Threads |-> IF u \in W THEN "READY" ELSE state[u]]
  BY <1>2 DEF Readied
<1>4. rest \in Seq(Threads) /\ Len(rest) \in Nat
  <2>1. In("BLOCKED") \ W \subseteq Threads
    BY DEF In
  <2>2. rest \in Seq(In("BLOCKED") \ W)
    BY <1>2 DEF Lists
  <2>3. QED
    BY <2>1, <2>2, SeqMonotonic
<1>5. [list |-> rest, count |-> wait.count - n] \in [list : Seq(Threads), count : Nat]
  BY <1>1, <1>2, <1>4
<1>6. QED
  BY <1>1, <1>2, <1>3, <1>5 DEF woken, rest

\* wait_queue_wake_one and wait_queue_wake_all.
LEMMA WakeIInv ==
    ASSUME IInv, NEW c \in CPUs, NEW n \in 0 .. Len(wait.list), NEW reschedule \in BOOLEAN,
           Wake(c, n, reschedule), reschedule => curr[c] \in Threads,
           need_resched' \subseteq mp.active
    PROVE  IInv' /\ HighestStep
<1> DEFINE t == curr[c]
           woken == SubSeq(wait.list, 1, n)
           rest == SubSeq(wait.list, n + 1, Len(wait.list))
<1>1. /\ wait' = [list |-> rest, count |-> wait.count - n]
      /\ UNCHANGED <<priority, real_time>>
  BY DEF Wake
<1>2. PICK W \in SUBSET In("BLOCKED") :
         /\ Lists(woken, W)
         /\ Readied(woken) = [u \in Threads |-> IF u \in W THEN "READY" ELSE state[u]]
         /\ Lists(rest, In("BLOCKED") \ W)
         /\ wait.count - n = Len(rest)
         /\ [list |-> rest, count |-> wait.count - n] \in [list : Seq(Threads), count : Nat]
  BY Woken
<1>3. CASE reschedule
  <2> DEFINE st == [Readied(woken) EXCEPT ![t] = "READY"]
             rq == insert_all(Requeued(t), woken)
  <2>1. thread_resched(c, rq, st, remaining_quantum, timer) /\ t \in Threads
    BY <1>3 DEF Wake
  <2> HIDE DEF woken, rest, t
  <2>2. /\ st \in [Threads -> States]
        /\ \A u \in Threads : st[u] = IF u \in W \cup {t} THEN "READY" ELSE state[u]
    BY <1>2, <2>1 DEF IInv, Types, States
  <2> HIDE DEF st
  <2>3. \A u \in Threads \ {t} : st[u] = "RUNNING" <=> state[u] = "RUNNING"
    BY <1>2, <2>2 DEF In
  <2>4. /\ c \in mp.active /\ state[t] = "RUNNING"
        /\ \A u \in Threads : st[u] = "RUNNING" <=> \E d \in CPUs \ {c} : curr[d] = u
    BY <2>1, <2>2, <2>3, Leaves DEF t
  <2>5. Holds(rq, {u \in Threads : st[u] = "READY"}, priority)
    <3>1. {u \in Threads : st[u] = "READY"} = (In("READY") \cup {t}) \cup W
      BY <1>2, <2>1, <2>2 DEF In
    <3>2. /\ t \notin In("READY") /\ In("READY") \in SUBSET Threads /\ W \in SUBSET Threads
          /\ W \cap (In("READY") \cup {t}) = {}
      BY <1>2, <2>4 DEF In
    <3>3. Holds(run_queue, In("READY"), priority) /\ priority \in [Threads -> Priorities]
      BY DEF IInv, Queued, Types
    <3>4. Holds(Requeued(t), In("READY") \cup {t}, priority)
      BY <2>1, <3>2, <3>3, HoldsHead DEF Requeued
    <3>5. In("READY") \cup {t} \in SUBSET Threads
      BY <2>1, <3>2
    <3>6. Holds(rq, (In("READY") \cup {t}) \cup W, priority)
      BY <1>2, <3>2, <3>3, <3>4, <3>5, HoldsAll
    <3>7. QED
      BY <3>1, <3>6
  <2> HIDE DEF rq
  <2>6. /\ wait' \in [list : Seq(Threads), count : Nat]
        /\ Lists(wait'.list, {u \in Threads : st[u] = "BLOCKED"})
        /\ wait'.count = Len(wait'.list)
    <3>1. {u \in Threads : st[u] = "BLOCKED"} = In("BLOCKED") \ W
      BY <1>2, <2>1, <2>2, <2>4 DEF In
    <3>2. wait'.list = rest /\ wait'.count = wait.count - n
      BY <1>1
    <3>3. QED
      BY <1>1, <1>2, <3>1, <3>2
  <2>7. UNCHANGED real_time /\ priority' \in [Threads -> Priorities]
    BY <1>1 DEF IInv, Types
  <2>8. Holds(rq, {u \in Threads : st[u] = "READY"}, priority')
    BY <1>1, <2>5
  <2>9. QED
    BY ONLY IInv, need_resched' \subseteq mp.active, <2>1, <2>2, <2>4, <2>6, <2>7, <2>8, Switch
<1>4. CASE ~reschedule
  <2>1. /\ run_queue' = insert_all(run_queue, woken)
        /\ state' = Readied(woken)
        /\ UNCHANGED <<curr, mp>>
    BY <1>4 DEF Wake
  <2> HIDE DEF woken, rest
  <2>2. /\ state' \in [Threads -> States]
        /\ \A u \in Threads : state'[u] = IF u \in W THEN "READY" ELSE state[u]
    BY <1>2, <2>1 DEF IInv, Types, States
  <2>3. \A u \in Threads : state'[u] = "RUNNING" <=> state[u] = "RUNNING"
    BY <1>2, <2>2 DEF In
  <2>4. Holds(run_queue', {u \in Threads : state'[u] = "READY"}, priority)
    <3>1. {u \in Threads : state'[u] = "READY"} = In("READY") \cup W
      BY <1>2, <2>2 DEF In
    <3>2. /\ In("READY") \in SUBSET Threads /\ W \in SUBSET Threads
          /\ W \cap In("READY") = {}
      BY <1>2 DEF In
    <3>3. Holds(run_queue, In("READY"), priority) /\ priority \in [Threads -> Priorities]
      BY DEF IInv, Queued, Types
    <3>4. Holds(insert_all(run_queue, woken), In("READY") \cup W, priority)
      BY <1>2, <3>2, <3>3, HoldsAll
    <3>5. QED
      BY <2>1, <3>1, <3>4
  <2>5. /\ wait' \in [list : Seq(Threads), count : Nat]
        /\ Lists(wait'.list, {u \in Threads : state'[u] = "BLOCKED"})
        /\ wait'.count = Len(wait'.list)
    <3>1. {u \in Threads : state'[u] = "BLOCKED"} = In("BLOCKED") \ W
      BY <1>2, <2>2 DEF In
    <3>2. wait'.list = rest /\ wait'.count = wait.count - n
      BY <1>1
    <3>3. QED
      BY <1>1, <1>2, <3>1, <3>2
  <2>6. real_time' \subseteq Threads /\ UNCHANGED <<curr, priority, mp>>
    BY <1>1, <2>1 DEF IInv, Types
  <2>7. QED
    BY ONLY IInv, need_resched' \subseteq mp.active, <2>2, <2>3, <2>4, <2>5, <2>6, Stay
<1>5. QED
  BY <1>3, <1>4

\* thread_exit.
LEMMA ExitIInv ==
    ASSUME IInv, NEW c \in CPUs, NEW t \in Threads, NEW joined \in BOOLEAN,
           thread_exit(c, t, joined)
    PROVE  IInv' /\ HighestStep
<1> DEFINE woken == IF joined THEN wait.list ELSE <<>>
           W == IF joined THEN In("BLOCKED") ELSE {}
           rq == insert_all(run_queue, woken)
           st == [Readied(woken) EXCEPT ![t] = "DEATH"]
<1>1. /\ curr[c] = t
      /\ wait' = IF joined THEN [list |-> <<>>, count |-> 0] ELSE wait
      /\ UNCHANGED <<priority, real_time, need_resched>>
  BY DEF thread_exit, Calls
<1>2. thread_resched(c, rq, st, remaining_quantum, timer)
  BY DEF thread_exit
<1>3. /\ Lists(wait.list, In("BLOCKED")) /\ wait.count = Len(wait.list)
      /\ wait \in [list : Seq(Threads), count : Nat]
  BY DEF IInv, Queued, Types
<1>4. Lists(<<>>, {})
  BY DEF Lists
<1>5. Lists(woken, W) /\ W \in SUBSET In("BLOCKED")
  BY <1>3, <1>4
<1>6. ToSet(woken) = W
  <2> HIDE DEF woken, W
  <2>1. woken \in Seq(W) /\ Len(woken) \in Nat /\ DOMAIN woken = 1 .. Len(woken)
    BY <1>5 DEF Lists
  <2>2. QED
    BY <1>5, <2>1 DEF Lists, ToSet
<1> HIDE DEF woken
<1>7. /\ st \in [Threads -> States]
      /\ \A u \in Threads : st[u] = IF u = t THEN "DEATH"
                                    ELSE IF u \in W THEN "READY" ELSE state[u]
  BY <1>6 DEF Readied, IInv, Types, States
<1> HIDE DEF st
<1>8. \A u \in Threads \ {t} : st[u] = "RUNNING" <=> state[u] = "RUNNING"
  BY <1>5, <1>7 DEF In
<1>9. /\ c \in mp.active /\ state[t] = "RUNNING"
      /\ \A u \in Threads : st[u] = "RUNNING" <=> \E d \in CPUs \ {c} : curr[d] = u
  BY <1>1, <1>7, <1>8, Leaves
<1>10. Holds(rq, {u \in Threads : st[u] = "READY"}, priority')
  <2> HIDE DEF W
  <2>1. {u \in Threads : st[u] = "READY"} = In("READY") \cup W
    BY <1>5, <1>7, <1>9 DEF In
  <2>2. /\ In("READY") \in SUBSET Threads /\ W \in SUBSET Threads
        /\ W \cap In("READY") = {}
    BY <1>5 DEF In
  <2>3. Holds(run_queue, In("READY"), priority) /\ priority \in [Threads -> Priorities]
    BY DEF IInv, Queued, Types
  <2>4. Holds(rq, In("READY") \cup W, priority)
    BY <1>5, <2>2, <2>3, HoldsAll
  <2>5. QED
    BY <1>1, <2>1, <2>4
<1> HIDE DEF rq
<1>11. /\ wait' \in [list : Seq(Threads), count : Nat]
       /\ Lists(wait'.list, {u \in Threads : st[u] = "BLOCKED"})
       /\ wait'.count = Len(wait'.list)
  <2>1. CASE joined
    <3>1. {u \in Threads : st[u] = "BLOCKED"} = {}
      BY <1>7, <2>1 DEF In
    <3>2. wait' = [list |-> <<>>, count |-> 0]
      BY <1>1, <2>1
    <3>3. wait'.list = <<>> /\ wait'.count = 0 /\ Len(<<>>) = 0
      BY <3>2
    <3>4. wait' \in [list : Seq(Threads), count : Nat]
      BY <3>2
    <3>5. QED
      BY <1>4, <3>1, <3>3, <3>4
  <2>2. CASE ~joined
    <3>1. {u \in Threads : st[u] = "BLOCKED"} = In("BLOCKED")
      BY <1>7, <1>9, <2>2 DEF In
    <3>2. wait' = wait
      BY <1>1, <2>2
    <3>3. QED
      BY <1>3, <3>1, <3>2
  <2>3. QED
    BY <2>1, <2>2
<1>12. /\ UNCHANGED real_time /\ priority' \in [Threads -> Priorities]
       /\ need_resched' \subseteq mp.active
  BY <1>1 DEF IInv, Types
<1>13. QED
  BY ONLY IInv, <1>2, <1>7, <1>9, <1>10, <1>11, <1>12, Switch

\* thread_preempt.
LEMMA PreemptIInv ==
    ASSUME IInv, NEW c \in CPUs, thread_preempt(c)
    PROVE  IInv' /\ HighestStep
<1> DEFINE t == curr[c]
           rq == IF t = Idle THEN run_queue ELSE PreemptQueue(t)
           st == IF t = Idle THEN state ELSE [state EXCEPT ![t] = "READY"]
<1>1. /\ c \in mp.active
      /\ need_resched' \subseteq mp.active
      /\ UNCHANGED <<priority, real_time, wait>>
      /\ t \in Threads \cup {Idle} /\ Idle \notin Threads
  BY SchedulerAssumption DEF thread_preempt, IInv, Types
<1>2. thread_resched(c, rq, st, remaining_quantum, timer)
  BY DEF thread_preempt
<1>3. st \in [Threads -> States]
  BY DEF IInv, Types, States
<1>4. \A u \in Threads : st[u] = IF u = t THEN "READY" ELSE state[u]
  BY <1>1 DEF IInv, Types
<1> HIDE DEF st
<1>5. \A u \in Threads : st[u] = "RUNNING" <=> \E d \in CPUs \ {c} : curr[d] = u
  <2>1. CASE t = Idle
    BY <1>1, <1>4, <2>1 DEF IInv, Current
  <2>2. CASE t \in Threads
    BY <1>4, <2>2, Leaves
  <2>3. QED
    BY <1>1, <2>1, <2>2
<1>6. Holds(rq, {u \in Threads : st[u] = "READY"}, priority')
  <2>1. Holds(run_queue, In("READY"), priority) /\ priority \in [Threads -> Priorities]
    BY DEF IInv, Queued, Types
  <2>2. CASE t = Idle
    <3>1. {u \in Threads : st[u] = "READY"} = In("READY")
      BY <1>1, <1>4, <2>2 DEF In
    <3>2. QED
      BY <1>1, <2>1, <2>2, <3>1
  <2>3. CASE t \in Threads
    <3>1. {u \in Threads : st[u] = "READY"} = In("READY") \cup {t}
      BY <1>4, <2>3 DEF In
    <3>2. t \notin In("READY") /\ In("READY") \in SUBSET Threads
      BY <2>3 DEF In, IInv, Current
    <3>3. rq = PreemptQueue(t)
      BY <1>1, <2>3
    <3> HIDE DEF rq, t
    <3>4. Holds(insert_in_run_queue_head(run_queue, t, priority[t]),
                In("READY") \cup {t}, priority)
      BY <2>1, <2>3, <3>2, HoldsHead
    <3>5. Holds(insert_in_run_queue_tail(run_queue, t, priority[t]),
                In("READY") \cup {t}, priority)
      BY <2>1, <2>3, <3>2, HoldsTail
    <3>6. Holds(rq, In("READY") \cup {t}, priority)
      BY <3>3, <3>4, <3>5 DEF PreemptQueue, Requeued
    <3>7. QED
      BY <1>1, <3>1, <3>6
  <2>4. QED
    BY <1>1, <2>2, <2>3
<1> HIDE DEF rq
<1>7. In("BLOCKED") = {u \in Threads : st[u] = "BLOCKED"}
  BY <1>1, <1>4 DEF In, IInv, Current
<1>8. /\ wait' \in [list : Seq(Threads), count : Nat]
      /\ Lists(wait'.list, {u \in Threads : st[u] = "BLOCKED"})
      /\ wait'.count = Len(wait'.list)
      /\ priority' \in [Threads -> Priorities]
  BY <1>1, <1>7 DEF IInv, Types, Queued
<1>9. QED
  BY ONLY IInv, <1>1, <1>2, <1>3, <1>5, <1>6, <1>8, Switch

\* A thread that was neither READY nor RUNNING is made READY (thread_resume,
\* thread_sleep_handler, wait_queue_timeout_handler).
LEMMA ReadyIInv ==
    ASSUME IInv, NEW t \in Threads, state[t] \notin {"READY", "RUNNING"},
           state' = [state EXCEPT ![t] = "READY"], run_queue' = Requeued(t),
           UNCHANGED <<curr, priority, mp, real_time>>, need_resched' \subseteq mp.active,
           \/ state[t] # "BLOCKED" /\ UNCHANGED wait
           \/ \E i \in DOMAIN wait.list :
                 /\ wait.list[i] = t
                 /\ wait' = [list |-> RemoveAt(wait.list, i), count |-> wait.count - 1]
    PROVE  IInv' /\ HighestStep
<1>1. /\ state' \in [Threads -> States]
      /\ \A u \in Threads : state'[u] = IF u = t THEN "READY" ELSE state[u]
  BY DEF IInv, Types, States
<1>2. \A u \in Threads : state'[u] = "RUNNING" <=> state[u] = "RUNNING"
  BY <1>1
<1>3. Holds(run_queue', {u \in Threads : state'[u] = "READY"}, priority)
  <2>1. {u \in Threads : state'[u] = "READY"} = In("READY") \cup {t}
    BY <1>1 DEF In
  <2>2. t \notin In("READY") /\ In("READY") \in SUBSET Threads
    BY DEF In
  <2>3. Holds(run_queue, In("READY"), priority) /\ priority \in [Threads -> Priorities]
    BY DEF IInv, Queued, Types
  <2>4. Holds(Requeued(t), In("READY") \cup {t}, priority)
    BY <2>2, <2>3, HoldsHead DEF Requeued
  <2>5. QED
    BY <2>1, <2>4
<1>4. /\ Lists(wait.list, In("BLOCKED")) /\ wait.count = Len(wait.list)
      /\ wait \in [list : Seq(Threads), count : Nat]
  BY DEF IInv, Queued, Types
<1>5. /\ wait' \in [list : Seq(Threads), count : Nat]
      /\ Lists(wait'.list, {u \in Threads : state'[u] = "BLOCKED"})
      /\ wait'.count = Len(wait'.list)
  <2>1. {u \in Threads : state'[u] = "BLOCKED"} = In("BLOCKED") \ {t}
    BY <1>1 DEF In
  <2>2. CASE state[t] # "BLOCKED" /\ UNCHANGED wait
    <3>1. In("BLOCKED") \ {t} = In("BLOCKED")
      BY <2>2 DEF In
    <3>2. QED
      BY <1>4, <2>1, <2>2, <3>1
  <2>3. ASSUME NEW i \in DOMAIN wait.list, wait.list[i] = t,
               wait' = [list |-> RemoveAt(wait.list, i), count |-> wait.count - 1]
        PROVE  /\ wait' \in [list : Seq(Threads), count : Nat]
               /\ Lists(wait'.list, In("BLOCKED") \ {t})
               /\ wait'.count = Len(wait'.list)
    <3> DEFINE rest == RemoveAt(wait.list, i)
    <3>1. Lists(rest, In("BLOCKED") \ {t})
      BY <1>4, <2>3, ListsRemoveAt
    <3>2. Len(rest) = Len(wait.list) - 1
      BY <1>4, <2>3, ListsRemoveAt
    <3> HIDE DEF rest
    <3>3. rest \in Seq(Threads)
      <4>1. In("BLOCKED") \ {t} \subseteq Threads
        BY DEF In
      <4>2. QED
        BY <3>1, <4>1, SeqMonotonic DEF Lists
    <3>4. wait' = [list |-> rest, count |-> wait.count - 1]
      BY <2>3 DEF rest
    <3>5. wait'.list = rest /\ wait'.count = wait.count - 1
      BY <3>4
    <3>6. wait' \in [list : Seq(Threads), count : Nat]
      <4>1. Len(rest) \in Nat
        BY <3>3
      <4>2. QED
        BY <1>4, <3>2, <3>3, <3>4, <4>1
    <3>7. QED
      BY <1>4, <3>1, <3>2, <3>5, <3>6
  <2>4. QED
    BY <2>1, <2>2, <2>3
<1>6. real_time' \subseteq Threads
  BY DEF IInv, Types
<1>7. QED
  BY <1>1, <1>2, <1>3, <1>5, <1>6, Stay

\* The queues and the states are left alone.
LEMMA IdleIInv ==
    ASSUME IInv, UNCHANGED <<run_queue, state, curr, priority, mp, wait>>,
           real_time' \subseteq Threads, need_resched' \subseteq mp.active
    PROVE  IInv' /\ HighestStep
<1>1. /\ state' \in [Threads -> States]
      /\ wait' \in [list : Seq(Threads), count : Nat]
      /\ Holds(run_queue', {u \in Threads : state'[u] = "READY"}, priority)
      /\ Lists(wait'.list, {u \in Threads : state'[u] = "BLOCKED"})
      /\ wait'.count = Len(wait'.list)
  BY DEF IInv, Types, Queued, In
<1>2. QED
  BY <1>1, Stay

\* A cpu joins in.
LEMMA BecomeIdleIInv ==
    ASSUME IInv, NEW c \in CPUs, BecomeIdle(c)
    PROVE  IInv' /\ HighestStep
<1>1. /\ c \notin mp.active
      /\ mp' = [mp EXCEPT !.active = @ \cup {c}, !.joining = @ \cup {c}]
      /\ need_resched' = need_resched \cup {c}
      /\ UNCHANGED <<run_queue, state, priority, real_time, curr, wait>>
  BY DEF BecomeIdle
<1>2. curr[c] = Idle
  BY <1>1 DEF IInv, Current
<1>3. mp' \in MpStates /\ mp'.active = mp.active \cup {c}
  BY <1>1 DEF IInv, Types, MpStates
<1>4. Types'
  BY <1>1, <1>3 DEF IInv, Types
<1>5. Queued'
  BY <1>1 DEF IInv, Queued, In
<1>6. Current'
  BY <1>1, <1>2, <1>3 DEF IInv, Current, MayRun
<1>7. QED
  BY <1>1, <1>4, <1>5, <1>6 DEF IInv, HighestStep

\* A cpu that joins in marks itself idle.
LEMMA SetCpuIdleIInv ==
    ASSUME IInv, NEW c \in CPUs, mp_set_cpu_idle(c)
    PROVE  IInv' /\ HighestStep
<1>1. UNCHANGED <<run_queue, state, priority, real_time, curr, wait, need_resched>>
  BY DEF mp_set_cpu_idle, LoadIdle, StoreIdle
<1>2. mp \in MpStates
  BY DEF IInv, Types
<1>3. mp' \in MpStates /\ mp'.active = mp.active
  <2>1. CASE LoadIdle(c)
    <3>1. mp' = [mp EXCEPT !.loaded = @ \cup {[cpu |-> c, idle |-> mp.idle]}]
      BY <2>1 DEF LoadIdle
    <3>2. [cpu |-> c, idle |-> mp.idle] \in [cpu : CPUs, idle : SUBSET CPUs]
      BY <1>2 DEF MpStates
    <3>3. QED
      BY <1>2, <3>1, <3>2 DEF MpStates
  <2>2. CASE StoreIdle(c)
    <3>1. PICK l \in mp.loaded :
             mp' = [mp EXCEPT !.idle = l.idle \cup {c}, !.joining = @ \ {c}, !.loaded = @ \ {l}]
      BY <2>2 DEF StoreIdle
    <3>2. l.idle \cup {c} \in SUBSET CPUs
      BY <1>2 DEF MpStates
    <3>3. QED
      BY <1>2, <3>1, <3>2 DEF MpStates
  <2>3. QED
    BY <2>1, <2>2 DEF mp_set_cpu_idle
<1>4. Types'
  BY <1>1, <1>3 DEF IInv, Types
<1>5. Queued'
  BY <1>1 DEF IInv, Queued, In
<1>6. Current'
  BY <1>1, <1>3 DEF IInv, Current, MayRun
<1>7. QED
  BY <1>1, <1>4, <1>5, <1>6 DEF IInv, HighestStep
-----------------------------------------------------------------------------
\* Every step keeps the invariant, and what switches switches to the best.
LEMMA StepIInv ==
    ASSUME IInv, Next
    PROVE  IInv' /\ HighestStep
<1>1. \A c \in CPUs, t \in Threads : Calls(c, t) => curr[c] \in Threads /\ c \in mp.active
  BY DEF Calls
<1>2. real_time \subseteq Threads /\ need_resched \subseteq mp.active
      /\ wait.count = Len(wait.list) /\ Len(wait.list) \in Nat
      /\ (wait.list # <<>> => Len(wait.list) > 0)
  BY DEF IInv, Types, Queued
<1>3. CASE thread_become_idle
  BY <1>3, BecomeIdleIInv, SchedulerAssumption DEF thread_become_idle
<1>4. ASSUME NEW c \in CPUs, thread_yield(c) PROVE IInv' /\ HighestStep
  BY <1>4, YieldIInv
<1>5. ASSUME NEW c \in CPUs, InterruptStep(c) PROVE IInv' /\ HighestStep
  <2>1. CASE thread_timer_tick(c)
    <3>1. need_resched' \subseteq mp.active
      BY <1>2, <2>1 DEF thread_timer_tick
    <3>2. UNCHANGED <<run_queue, state, curr, priority, mp, wait, real_time>>
      BY <2>1 DEF thread_timer_tick
    <3>3. QED
      BY <1>2, <3>1, <3>2, IdleIInv
  <2>2. CASE WakeFromInterrupt(c)
    <3>1. Wake(c, 1, FALSE) /\ wait.list # <<>> /\ need_resched' \subseteq mp.active
      BY <1>2, <2>2 DEF WakeFromInterrupt, Wake
    <3>2. 1 \in 0 .. Len(wait.list)
      BY <1>2, <3>1
    <3>3. QED
      BY <3>1, <3>2, WakeIInv
  <2>3. CASE mp_mbx_reschedule_irq(c)
    <3>1. need_resched' \subseteq mp.active
      BY <1>2, <2>3 DEF mp_mbx_reschedule_irq
    <3>2. UNCHANGED <<run_queue, state, curr, priority, mp, wait, real_time>>
      BY <2>3 DEF mp_mbx_reschedule_irq, switched
    <3>3. QED
      BY <1>2, <3>1, <3>2, IdleIInv
  <2>4. CASE thread_preempt(c)
    BY <2>4, PreemptIInv
  <2>5. QED
    BY <1>5, <2>1, <2>2, <2>3, <2>4 DEF InterruptStep
<1>6. ASSUME NEW c \in CPUs, thread_secondary_cpu_entry(c) PROVE IInv' /\ HighestStep
  BY <1>6, BecomeIdleIInv DEF thread_secondary_cpu_entry
<1>7. ASSUME NEW c \in CPUs, NEW t \in Threads, ThreadStep(c, t) PROVE IInv' /\ HighestStep
  <2>1. ASSUME NEW u \in Threads \ {t}, thread_resume(c, t, u) PROVE IInv' /\ HighestStep
    <3>1. UNCHANGED <<curr, priority, mp, wait, real_time, need_resched>>
      BY <2>1 DEF thread_resume
    <3>2. CASE state[u] = "SUSPENDED"
      <4>1. state' = [state EXCEPT ![u] = "READY"] /\ run_queue' = Requeued(u)
        BY <2>1, <3>2 DEF thread_resume
      <4>2. QED
        BY <1>2, <3>1, <3>2, <4>1, ReadyIInv
    <3>3. CASE state[u] # "SUSPENDED"
      <4>1. UNCHANGED <<state, run_queue>>
        BY <2>1, <3>3 DEF thread_resume
      <4>2. QED
        BY <1>2, <3>1, <4>1, IdleIInv
    <3>4. QED
      BY <3>2, <3>3
  <2>2. CASE thread_sleep(c, t)
    BY <2>2, SleepIInv
  <2>3. ASSUME NEW p \in SetPriorities, thread_set_priority(c, t, p) PROVE IInv' /\ HighestStep
    BY <2>3, SetPriorityIInv
  <2>4. ASSUME NEW u \in Threads, thread_set_real_time(c, t, u) PROVE IInv' /\ HighestStep
    <3>1. /\ real_time' = real_time \cup {u}
          /\ UNCHANGED <<run_queue, state, curr, priority, mp, wait, need_resched>>
      BY <2>4 DEF thread_set_real_time
    <3>2. QED
      BY <1>2, <3>1, IdleIInv
  <2>5. ASSUME NEW timed \in BOOLEAN, wait_queue_block(c, t, timed) PROVE IInv' /\ HighestStep
    BY <2>5, BlockIInv
  <2>6. ASSUME NEW reschedule \in BOOLEAN, wait_queue_wake_one(c, t, reschedule)
        PROVE  IInv' /\ HighestStep
    <3>1. /\ Wake(c, 1, reschedule) /\ wait.list # <<>>
          /\ need_resched' = need_resched /\ curr[c] \in Threads
      BY <1>1, <2>6 DEF wait_queue_wake_one, Wake
    <3>2. 1 \in 0 .. Len(wait.list)
      BY <1>2, <3>1
    <3>3. QED
      BY <1>2, <3>1, <3>2, WakeIInv
  <2>7. ASSUME NEW reschedule \in BOOLEAN, wait_queue_wake_all(c, t, reschedule)
        PROVE  IInv' /\ HighestStep
    <3>1. /\ Wake(c, wait.count, reschedule)
          /\ need_resched' = need_resched /\ curr[c] \in Threads
      BY <1>1, <2>7 DEF wait_queue_wake_all
    <3>2. wait.count \in 0 .. Len(wait.list)
      BY <1>2
    <3>3. QED
      BY <1>2, <3>1, <3>2, WakeIInv
  <2>8. ASSUME NEW joined \in BOOLEAN, thread_exit(c, t, joined) PROVE IInv' /\ HighestStep
    BY <2>8, ExitIInv
  <2>9. QED
    BY <1>7, <2>1, <2>2, <2>3, <2>4, <2>5, <2>6, <2>7, <2>8 DEF ThreadStep
<1>8. ASSUME NEW c \in CPUs, NEW t \in Threads, TimerStep(c, t) PROVE IInv' /\ HighestStep
  <2>1. CASE thread_sleep_handler(c, t)
    <3>1. /\ state[t] = "SLEEPING"
          /\ state' = [state EXCEPT ![t] = "READY"] /\ run_queue' = Requeued(t)
          /\ UNCHANGED <<curr, priority, mp, wait, real_time>>
          /\ need_resched' \subseteq mp.active
      BY <1>2, <2>1 DEF thread_sleep_handler
    <3>2. QED
      BY <3>1, ReadyIInv
  <2>2. CASE wait_queue_timeout_handler(c, t)
    <3>1. UNCHANGED <<curr, priority, mp, real_time>>
      BY <2>2 DEF wait_queue_timeout_handler
    <3>2. CASE state[t] = "BLOCKED"
      <4>1. /\ state' = [state EXCEPT ![t] = "READY"] /\ run_queue' = Requeued(t)
            /\ need_resched' \subseteq mp.active
            /\ \E i \in DOMAIN wait.list :
                 /\ wait.list[i] = t
                 /\ wait' = [list |-> RemoveAt(wait.list, i), count |-> wait.count - 1]
        BY <1>2, <2>2, <3>2 DEF wait_queue_timeout_handler
      <4>2. QED
        BY <3>1, <3>2, <4>1, ReadyIInv
    <3>3. CASE state[t] # "BLOCKED"
      <4>1. UNCHANGED <<wait, state, run_queue, need_resched>>
        BY <2>2, <3>3 DEF wait_queue_timeout_handler
      <4>2. QED
        BY <1>2, <3>1, <4>1, IdleIInv
    <3>4. QED
      BY <3>2, <3>3
  <2>3. QED
    BY <1>8, <2>1, <2>2 DEF TimerStep
<1>9. ASSUME NEW c \in CPUs, mp_set_cpu_idle(c) PROVE IInv' /\ HighestStep
  BY <1>9, SetCpuIdleIInv
<1>10. QED
  BY <1>3, <1>4, <1>5, <1>6, <1>7, <1>8, <1>9 DEF Next

\* The invariant holds at the start, with one thread in the run queue.
LEMMA InitIInv ==
    ASSUME Init
    PROVE  IInv
<1>1. PICK b \in Threads :
         /\ run_queue = insert_in_run_queue_head(
                            [list |-> [p \in Priorities |-> <<>>], bitmap |-> {}],
                            b, BasePriority[b])
         /\ state = [t \in Threads |-> IF t = b THEN "READY" ELSE "SUSPENDED"]
  BY DEF Init
<1> DEFINE empty == [list |-> [p \in Priorities |-> <<>>], bitmap |-> {}]
<1>2. /\ priority = BasePriority /\ real_time = {}
      /\ curr = [c \in CPUs |-> Idle]
      /\ wait = [list |-> <<>>, count |-> 0]
      /\ mp = [active |-> {}, idle |-> {}, realtime |-> {}, joining |-> {}, loaded |-> {}]
      /\ need_resched = {}
  BY DEF Init
<1>3. priority \in [Threads -> Priorities] /\ Idle \notin Threads
  BY <1>2, SchedulerAssumption
<1>4. Types
  BY <1>1, <1>2, <1>3 DEF Types, States, MpStates
<1>5. Lists(<<>>, {})
  BY DEF Lists
<1>6. Holds(empty, {}, priority)
  <2>1. empty \in RunQueues
    BY DEF RunQueues
  <2>2. \A p \in Priorities : empty.list[p] = <<>> /\ {t \in {} : priority[t] = p} = {}
    OBVIOUS
  <2>3. empty.bitmap = {p \in Priorities : empty.list[p] # <<>>}
    OBVIOUS
  <2> HIDE DEF empty
  <2>4. QED
    BY <1>5, <2>1, <2>2, <2>3 DEF Holds
<1> HIDE DEF empty
<1>7. Holds(run_queue, In("READY"), priority)
  <2>1. In("READY") = {} \cup {b}
    BY <1>1 DEF In
  <2>2. run_queue = insert_in_run_queue_head(empty, b, priority[b])
    BY <1>1, <1>2 DEF empty
  <2>3. Holds(insert_in_run_queue_head(empty, b, priority[b]), {} \cup {b}, priority)
    BY <1>3, <1>6, HoldsHead
  <2>4. QED
    BY <2>1, <2>2, <2>3
<1>8. Lists(wait.list, In("BLOCKED")) /\ wait.count = Len(wait.list)
  <2>1. In("BLOCKED") = {}
    BY <1>1 DEF In
  <2>2. wait.list = <<>> /\ wait.count = 0 /\ Len(<<>>) = 0
    BY <1>2
  <2>3. QED
    BY <1>5, <2>1, <2>2
<1>9. Current
  BY <1>1, <1>2, <1>3 DEF Current
<1>10. QED
  BY <1>4, <1>7, <1>8, <1>9 DEF IInv, Queued

\* The invariant is inductive.
THEOREM SchedulerInvariant == Spec => []IInv
<1>1. IInv /\ [Next]_vars => IInv'
  <2> SUFFICES ASSUME IInv, [Next]_vars PROVE IInv'
    OBVIOUS
  <2>1. CASE UNCHANGED vars
    BY <2>1 DEF vars, switched, IInv, Types, Queued, Current, In, MayRun
  <2>2. QED
    BY <2>1, StepIInv
<1>2. QED
  BY <1>1, InitIInv, PTL DEF Spec
-----------------------------------------------------------------------------
\* How often a sequence has a thread.
LEMMA ListsOccurrences ==
    ASSUME NEW s, NEW S, Lists(s, S), NEW t
    PROVE  Occurrences(s, t) = IF t \in S THEN 1 ELSE 0
<1>1. DOMAIN s = 1 .. Len(s) /\ \A i \in 1 .. Len(s) : s[i] \in S
  BY DEF Lists
<1>2. CASE t \in S
  <2>1. PICK i \in 1 .. Len(s) : s[i] = t
    BY <1>2 DEF Lists
  <2>2. {j \in DOMAIN s : s[j] = t} = {i}
    BY <1>1, <2>1 DEF Lists
  <2>3. QED
    BY <1>2, <2>2, FS_Singleton DEF Occurrences
<1>3. CASE t \notin S
  <2>1. {j \in DOMAIN s : s[j] = t} = {}
    BY <1>1, <1>3
  <2>2. QED
    BY <1>3, <2>1, FS_EmptySet DEF Occurrences
<1>4. QED
  BY <1>2, <1>3

\* A thread is where its state says, once, and nowhere else: in the run queue of its
\* priority, on one cpu that it may run on, or in the wait queue.
THEOREM SchedulerPlacement == Spec => []Placement
<1>1. ASSUME IInv, NEW t \in Threads
      PROVE  /\ \A p \in Priorities :
                  Occurrences(run_queue.list[p], t) =
                      IF state[t] = "READY" /\ p = priority[t] THEN 1 ELSE 0
             /\ Occurrences(wait.list, t) = IF state[t] = "BLOCKED" THEN 1 ELSE 0
             /\ Cardinality({c \in CPUs : curr[c] = t}) = IF state[t] = "RUNNING" THEN 1 ELSE 0
             /\ \A c \in CPUs : curr[c] = t => MayRun(t, c)
  <2>1. ASSUME NEW p \in Priorities
        PROVE  Occurrences(run_queue.list[p], t) =
                   IF state[t] = "READY" /\ p = priority[t] THEN 1 ELSE 0
    <3>1. Lists(run_queue.list[p], {u \in In("READY") : priority[u] = p})
      BY <1>1 DEF IInv, Queued, Holds
    <3>2. t \in {u \in In("READY") : priority[u] = p} <=> state[t] = "READY" /\ p = priority[t]
      BY DEF In
    <3>3. QED
      BY <3>1, <3>2, ListsOccurrences
  <2>2. Occurrences(wait.list, t) = IF state[t] = "BLOCKED" THEN 1 ELSE 0
    BY <1>1, ListsOccurrences DEF IInv, Queued, In
  <2>3. t # Idle
    BY SchedulerAssumption
  <2>4. Cardinality({c \in CPUs : curr[c] = t}) = IF state[t] = "RUNNING" THEN 1 ELSE 0
    <3>1. CASE state[t] = "RUNNING"
      <4>1. PICK c \in CPUs : curr[c] = t
        BY <1>1, <3>1 DEF IInv, Current
      <4>2. {d \in CPUs : curr[d] = t} = {c}
        BY <1>1, <2>3, <4>1 DEF IInv, Current
      <4>3. QED
        BY <3>1, <4>2, FS_Singleton
    <3>2. CASE state[t] # "RUNNING"
      <4>1. {d \in CPUs : curr[d] = t} = {}
        BY <1>1, <3>2 DEF IInv, Current
      <4>2. QED
        BY <3>2, <4>1, FS_EmptySet
    <3>3. QED
      BY <3>1, <3>2
  <2>5. \A c \in CPUs : curr[c] = t => MayRun(t, c)
    BY <1>1, <2>3 DEF IInv, Current
  <2>6. QED
    BY <2>1, <2>2, <2>4, <2>5
<1>2. IInv => Placement
  BY <1>1 DEF Placement
<1>3. QED
  BY <1>2, SchedulerInvariant, PTL

\* run_queue_bitmap and wait_queue_t.count are exact.
THEOREM SchedulerBookkeepingExact == Spec => []BookkeepingExact
<1>1. IInv => BookkeepingExact
  BY DEF IInv, Queued, Holds, BookkeepingExact
<1>2. QED
  BY <1>1, SchedulerInvariant, PTL

\* A switch never leaves behind a thread of higher priority that could have run there.
THEOREM SchedulerSwitchesToHighest == Spec => SwitchesToHighest
<1>1. IInv /\ [Next]_vars => [HighestStep]_vars
  BY StepIInv
<1>2. Spec => [][HighestStep]_vars
  BY <1>1, SchedulerInvariant, PTL DEF Spec
<1>3. QED
  BY <1>2, PTL DEF SwitchesToHighest, HighestStep
-----------------------------------------------------------------------------
\* A switch keeps the preemption timers exact, and does not set one that is set.
LEMMA SwitchTimer ==
    ASSUME IInv, PreemptTimerExact, NEW c \in CPUs, NEW rq, NEW st, NEW q, NEW tm,
           thread_resched(c, rq, st, q, tm), UNCHANGED real_time
    PROVE  PreemptTimerExact'
<1> DEFINE new == get_top_thread(rq, c).thread
           Slice(t) == t # Idle /\ t \notin real_time
<1>1. curr' = [curr EXCEPT ![c] = new] /\ curr \in [CPUs -> Threads \cup {Idle}]
  BY DEF thread_resched, IInv, Types
<1>2. preempt_timer = {d \in CPUs : Slice(curr[d])} /\ ~panic
  BY DEF PreemptTimerExact, thread_is_real_time_or_idle
<1>3. SUFFICES preempt_timer' = {d \in CPUs : Slice(curr'[d])} /\ ~panic'
  BY DEF PreemptTimerExact, thread_is_real_time_or_idle
<1>4. CASE new = curr[c]
  <2>1. UNCHANGED <<preempt_timer, panic>> /\ curr' = curr
    BY <1>1, <1>4 DEF thread_resched
  <2>2. QED
    BY <1>2, <2>1
<1>5. CASE new # curr[c]
  <2>1. /\ preempt_timer' = SwitchPreemptTimer(c, curr[c], new)
        /\ panic' = (/\ c \in preempt_timer
                     /\ thread_is_real_time_or_idle(curr[c])
                     /\ ~thread_is_real_time_or_idle(new))
    BY <1>5 DEF thread_resched
  <2> HIDE DEF new
  <2>2. ~panic'
    BY <1>2, <2>1 DEF thread_is_real_time_or_idle
  <2>3. preempt_timer' = {d \in CPUs : Slice(curr'[d])}
    BY <1>1, <1>2, <2>1 DEF SwitchPreemptTimer, thread_is_real_time_or_idle
  <2>4. QED
    BY <2>2, <2>3
<1>6. QED
  BY <1>4, <1>5

\* The preemption timer of a cpu runs exactly while its thread can be preempted, and
\* timer_set does not panic, provided nobody makes a thread real time that runs on
\* another cpu.
THEOREM SchedulerPreemptTimerExact ==
    ASSUME "running" \notin RealTimeTargets
    PROVE  Spec => []PreemptTimerExact
<1>1. Init => PreemptTimerExact
  BY DEF Init, PreemptTimerExact, thread_is_real_time_or_idle
<1>2. IInv /\ PreemptTimerExact /\ [Next]_vars => PreemptTimerExact'
  <2> SUFFICES ASSUME IInv, PreemptTimerExact, [Next]_vars PROVE PreemptTimerExact'
    OBVIOUS
  <2>1. ASSUME UNCHANGED <<curr, real_time, preempt_timer, panic>> PROVE PreemptTimerExact'
    BY <2>1 DEF PreemptTimerExact, thread_is_real_time_or_idle
  <2>2. CASE UNCHANGED vars
    BY <2>1, <2>2 DEF vars, switched
  <2>3. ASSUME NEW c \in CPUs, BecomeIdle(c) PROVE PreemptTimerExact'
    BY <2>1, <2>3 DEF BecomeIdle
  <2>4. ASSUME NEW c \in CPUs, thread_yield(c) \/ thread_preempt(c) PROVE PreemptTimerExact'
    BY <2>4, SwitchTimer DEF thread_yield, thread_preempt
  <2>5. ASSUME NEW c \in CPUs, NEW n, NEW reschedule \in BOOLEAN, Wake(c, n, reschedule)
        PROVE  PreemptTimerExact'
    <3>1. UNCHANGED real_time
      BY <2>5 DEF Wake
    <3>2. CASE reschedule
      BY <2>5, <3>1, <3>2, SwitchTimer DEF Wake
    <3>3. CASE ~reschedule
      BY <2>1, <2>5, <3>1, <3>3 DEF Wake
    <3>4. QED
      BY <3>2, <3>3
  <2>6. ASSUME NEW c \in CPUs, thread_timer_tick(c) \/ mp_mbx_reschedule_irq(c)
        PROVE  PreemptTimerExact'
    BY <2>1, <2>6 DEF thread_timer_tick, mp_mbx_reschedule_irq, switched
  <2>7. ASSUME NEW c \in CPUs, NEW t \in Threads, ThreadStep(c, t) PROVE PreemptTimerExact'
    <3>1. ASSUME NEW u \in Threads, thread_resume(c, t, u) PROVE PreemptTimerExact'
      BY <2>1, <3>1 DEF thread_resume
    <3>2. CASE thread_sleep(c, t)
      BY <3>2, SwitchTimer DEF thread_sleep
    <3>3. ASSUME NEW p, thread_set_priority(c, t, p) PROVE PreemptTimerExact'
      BY <3>3, SwitchTimer DEF thread_set_priority
    <3>4. ASSUME NEW u \in Threads, RealTimeTarget(t, u), thread_set_real_time(c, t, u)
          PROVE  PreemptTimerExact'
      <4>1. /\ curr[c] = t /\ real_time' = real_time \cup {u} /\ UNCHANGED <<curr, panic>>
            /\ preempt_timer' = IF u = t THEN preempt_timer \ {c} ELSE preempt_timer
        BY <3>4 DEF thread_set_real_time, Calls
      <4>2. \A d \in CPUs : curr[d] = u => d = c /\ u = t
        <5>1. CASE u = t
          BY <4>1, <5>1, SchedulerAssumption DEF IInv, Current
        <5>2. CASE u # t
          <6>1. state[u] # "RUNNING"
            BY <3>4, <5>2 DEF RealTimeTarget
          <6>2. QED
            BY <6>1 DEF IInv, Current
        <5>3. QED
          BY <5>1, <5>2
      <4>3. preempt_timer = {d \in CPUs : curr[d] # Idle /\ curr[d] \notin real_time}
        BY DEF PreemptTimerExact, thread_is_real_time_or_idle
      <4>4. preempt_timer' = {d \in CPUs : curr[d] # Idle /\ curr[d] \notin real_time'}
        BY <4>1, <4>2, <4>3
      <4>5. ~panic'
        BY <4>1 DEF PreemptTimerExact
      <4>6. QED
        BY <4>1, <4>4, <4>5 DEF PreemptTimerExact, thread_is_real_time_or_idle
    <3>5. ASSUME NEW timed \in BOOLEAN, wait_queue_block(c, t, timed) PROVE PreemptTimerExact'
      BY <3>5, SwitchTimer DEF wait_queue_block
    <3>6. ASSUME NEW joined \in BOOLEAN, thread_exit(c, t, joined) PROVE PreemptTimerExact'
      BY <3>6, SwitchTimer DEF thread_exit
    <3>7. QED
      BY <2>5, <2>7, <3>1, <3>2, <3>3, <3>4, <3>5, <3>6
         DEF ThreadStep, wait_queue_wake_one, wait_queue_wake_all
  <2>8. ASSUME NEW c \in CPUs, NEW t \in Threads, TimerStep(c, t) PROVE PreemptTimerExact'
    BY <2>1, <2>8 DEF TimerStep, thread_sleep_handler, wait_queue_timeout_handler
  <2>9. ASSUME NEW c \in CPUs, mp_set_cpu_idle(c) PROVE PreemptTimerExact'
    BY <2>1, <2>9 DEF mp_set_cpu_idle, LoadIdle, StoreIdle
  <2>10. QED
    BY <2>2, <2>3, <2>4, <2>5, <2>6, <2>7, <2>8, <2>9, SchedulerAssumption
       DEF Next, thread_become_idle, thread_secondary_cpu_entry, InterruptStep,
           WakeFromInterrupt
<1>3. QED
  BY <1>1, <1>2, SchedulerInvariant, PTL DEF Spec
=============================================================================
