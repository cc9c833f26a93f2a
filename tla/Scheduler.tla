------------------------------ MODULE Scheduler ------------------------------
(***************************************************************************)
(* The thread scheduler of kernel/thread.c and kernel/mp.c: the run queue, *)
(* the cpus that take threads from it, sleeping, blocking on a wait queue, *)
(* the preemption timer, the interrupts that make a cpu reschedule and the *)
(* IPIs between cpus.                                                      *)
(*                                                                         *)
(* Every action is one critical section of thread_lock, but for the start  *)
(* of a cpu, which updates mp.idle_cpus without it.  A thread that is      *)
(* switched out stays inside the function that called thread_resched; what *)
(* that function does when it is switched in again, still under the lock   *)
(* (timer_cancel in wait_queue_block), is part of the switch.  A cpu in    *)
(* need_resched is in an interrupt whose handler returned INT_RESCHEDULE:  *)
(* the next thing it does is thread_preempt, but the other cpus go on.     *)
(* One wait queue stands for whichever one a primitive uses.               *)
(***************************************************************************)
EXTENDS Integers, Sequences, SequencesExt, FiniteSetsExt

CONSTANTS
    CPUs,               \* the cpus; BootCpu is the one that runs lk_main
    BootCpu,
    Threads,            \* every thread but the idle threads
    Idle,               \* the idle thread of whichever cpu it is the current of
    NoCpu,
    Pinned,             \* thread_t.pinned_cpu, set before the thread is resumed
    BasePriority,       \* the priority each thread is created with
    NUM_PRIORITIES,
    QUANTUM,            \* ticks in a time slice
    SetPriorities,      \* the arguments of thread_set_priority
    RealTimeTargets,    \* "self", "stopped", "running": whom a thread makes real
                        \* time: itself, one that does not run, one that does
    Sleeps              \* do threads sleep and wait with a timeout?

HIGHEST_PRIORITY == NUM_PRIORITIES - 1
DEFAULT_PRIORITY == NUM_PRIORITIES \div 2
IDLE_PRIORITY == 0
Priorities == 0 .. HIGHEST_PRIORITY

ASSUME SchedulerAssumption ==
    /\ BootCpu \in CPUs /\ NoCpu \notin CPUs /\ Idle \notin Threads
    /\ Pinned \in [Threads -> CPUs \cup {NoCpu}]
    /\ NUM_PRIORITIES \in Nat \ {0, 1}
    /\ BasePriority \in [Threads -> Priorities]
    /\ QUANTUM \in Nat \ {0}
    /\ SetPriorities \subseteq Int
    /\ RealTimeTargets \subseteq {"self", "stopped", "running"}
    /\ Sleeps \in BOOLEAN

VARIABLES
    run_queue,          \* .list: a sequence for each priority; .bitmap
    state,              \* thread_t.state
    priority,           \* thread_t.priority
    remaining_quantum,  \* thread_t.remaining_quantum; 0 stands for every value <= 0
    real_time,          \* the threads with THREAD_FLAG_REAL_TIME
    curr,               \* get_current_thread() of each cpu
    wait,               \* the wait queue: .list, oldest first, and .count
    timer,              \* the cpu whose timer queue has the thread's sleep or
                        \* wait timer
    preempt_timer,      \* the cpus whose preemption timer is set
    mp,                 \* struct mp_state: .active, .idle, .realtime; and the cpus that
                        \* start: .joining, with interrupts off, and .loaded, what
                        \* those that are in mp_set_cpu_idle have read
    ipi,                \* the cpus with an MP_IPI_RESCHEDULE pending
    need_resched,       \* the cpus in an interrupt that ends in thread_preempt
    yielding,           \* the threads in thread_resume, before its thread_yield
    panic               \* timer_set found the preemption timer in its list

switched == <<run_queue, state, remaining_quantum, curr, timer, preempt_timer, mp, panic>>
vars == <<switched, priority, real_time, wait, ipi, need_resched, yielding>>

-----------------------------------------------------------------------------
(* The run queue: values rq of the type of run_queue. *)

insert_in_run_queue_head(rq, t, p) ==
    [list |-> [rq.list EXCEPT ![p] = <<t>> \o @], bitmap |-> rq.bitmap \cup {p}]

insert_in_run_queue_tail(rq, t, p) ==
    [list |-> [rq.list EXCEPT ![p] = Append(@, t)], bitmap |-> rq.bitmap \cup {p}]

\* The threads of seq put at the head one by one.
insert_all(rq, seq) ==
    LET q[i \in 0 .. Len(seq)] ==
            IF i = 0 THEN rq
            ELSE insert_in_run_queue_head(q[i - 1], seq[i], priority[seq[i]])
    IN  q[Len(seq)]

MayRun(t, c) == Pinned[t] \in {NoCpu, c}

\* A mutant that looks only at the first thread of each queue.
Candidates_First(rq, p, c) == {i \in DOMAIN rq.list[p] : i = 1 /\ MayRun(rq.list[p][1], c)}

\* The places in the run queue of priority p of threads that may run on c.
Candidates(rq, p, c) == {i \in DOMAIN rq.list[p] : MayRun(rq.list[p][i], c)}

\* A mutant that forgets the threads that are left in the queue.
BitmapWithout_Always(bitmap, p, queue) == bitmap \ {p}

\* The bitmap when queue, of priority p, has lost a thread.
BitmapWithout(bitmap, p, queue) == IF queue = <<>> THEN bitmap \ {p} ELSE bitmap

(***************************************************************************)
(* get_top_thread on cpu c: the thread, and the run queue without it.      *)
(***************************************************************************)
get_top_thread(rq, c) ==
    LET queues == {p \in rq.bitmap : Candidates(rq, p, c) # {}}
    IN  IF queues = {}
        THEN [thread |-> Idle, rq |-> rq]
        ELSE LET p == Max(queues)
                 i == Min(Candidates(rq, p, c))
                 rest == RemoveAt(rq.list[p], i)
             IN  [thread |-> rq.list[p][i],
                  rq |-> [list |-> [rq.list EXCEPT ![p] = rest],
                          bitmap |-> BitmapWithout(rq.bitmap, p, rest)]]
-----------------------------------------------------------------------------
(* Switching threads. *)

thread_is_real_time_or_idle(t) == t = Idle \/ t \in real_time

\* With the priority the caller has just given the thread.
thread_is_realtime(t) == t \in real_time /\ priority'[t] > DEFAULT_PRIORITY

With(S, c, b) == IF b THEN S \cup {c} ELSE S \ {c}

\* A mutant that refills every time slice.
NewQuantum_Always(q) == QUANTUM

\* A time slice that was used up is refilled.
NewQuantum(q) == IF q = 0 THEN QUANTUM ELSE q

\* The preemption timers when cpu c switches.
SwitchPreemptTimer(c, old, new) ==
    CASE thread_is_real_time_or_idle(new) /\ ~thread_is_real_time_or_idle(old) ->
            preempt_timer \ {c}
      [] thread_is_real_time_or_idle(old) /\ ~thread_is_real_time_or_idle(new) ->
            preempt_timer \cup {c}
      [] OTHER -> preempt_timer

(***************************************************************************)
(* mp when cpu c switches to new.  lost are the stores to mp.idle_cpus of  *)
(* cpus that start that fall between the load and the store of this one.   *)
(***************************************************************************)
SwitchMp(c, new, lost) ==
    [mp EXCEPT !.idle = With(@, c, new = Idle),
               !.realtime = With(@, c, thread_is_realtime(new)),
               !.joining = @ \ {l.cpu : l \in lost},
               !.loaded = @ \ lost]

(***************************************************************************)
(* thread_resched on cpu c, when the caller has made the run queue rq, the *)
(* states st, the time slices q and the timers tm.                         *)
(***************************************************************************)
thread_resched(c, rq, st, q, tm) ==
    \E top \in {get_top_thread(rq, c)} :
        LET new == top.thread
            old == curr[c]
        IN  /\ run_queue' = top.rq
            /\ state' = [t \in Threads |-> IF t = new THEN "RUNNING" ELSE st[t]]
            /\ curr' = [curr EXCEPT ![c] = new]
            /\ IF new = old
               THEN /\ remaining_quantum' = q
                    /\ timer' = tm
                    /\ UNCHANGED <<preempt_timer, mp, panic>>
               ELSE /\ remaining_quantum' =
                          [t \in Threads |-> IF t = new THEN NewQuantum(q[t]) ELSE q[t]]
                    /\ timer' = [t \in Threads |-> IF t = new THEN NoCpu ELSE tm[t]]
                    /\ preempt_timer' = SwitchPreemptTimer(c, old, new)
                    /\ panic' = (/\ c \in preempt_timer
                                 /\ thread_is_real_time_or_idle(old)
                                 /\ ~thread_is_real_time_or_idle(new))
                    /\ \E lost \in SUBSET mp.loaded : mp' = SwitchMp(c, new, lost)

\* The pending IPIs after mp_reschedule on c.
mp_reschedule(c) == ipi \cup ((mp.active \ mp.realtime) \ {c})
-----------------------------------------------------------------------------
(* What the thread t running on cpu c may call. *)

Calls(c, t) ==
    /\ c \in mp.active \ need_resched
    /\ t # Idle /\ curr[c] = t /\ t \notin yielding

\* The run queue once t has been put at its head, with the state READY.
Requeued(t) == insert_in_run_queue_head(run_queue, t, priority[t])

thread_resume(c, t, u) ==
    /\ Calls(c, t)
    /\ IF state[u] = "SUSPENDED"
       THEN /\ state' = [state EXCEPT ![u] = "READY"]
            /\ run_queue' = Requeued(u)
            /\ yielding' = yielding \cup {t}
       ELSE state[u] # "DEATH" /\ UNCHANGED <<state, run_queue, yielding>>
    /\ ipi' = mp_reschedule(c)
    /\ UNCHANGED <<priority, remaining_quantum, real_time, curr, wait, timer,
                   preempt_timer, mp, need_resched, panic>>

\* Also the second half of thread_resume.
thread_yield(c) ==
    LET t == curr[c]
    IN  /\ c \in mp.active \ need_resched /\ t # Idle
        /\ yielding' = yielding \ {t}
        /\ UNCHANGED <<priority, real_time, wait, ipi, need_resched>>
        /\ thread_resched(c, insert_in_run_queue_tail(run_queue, t, priority[t]),
                          [state EXCEPT ![t] = "READY"],
                          [remaining_quantum EXCEPT ![t] = 0], timer)

thread_sleep(c, t) ==
    /\ Sleeps /\ Calls(c, t)
    /\ UNCHANGED <<priority, real_time, wait, ipi, need_resched, yielding>>
    /\ thread_resched(c, run_queue, [state EXCEPT ![t] = "SLEEPING"],
                      remaining_quantum, [timer EXCEPT ![t] = c])

Clamp(p) == IF p <= IDLE_PRIORITY THEN IDLE_PRIORITY + 1 ELSE Min({p, HIGHEST_PRIORITY})

thread_set_priority(c, t, p) ==
    /\ Calls(c, t)
    /\ priority' = [priority EXCEPT ![t] = Clamp(p)]
    /\ UNCHANGED <<real_time, wait, ipi, need_resched, yielding>>
    /\ thread_resched(c, insert_in_run_queue_head(run_queue, t, Clamp(p)),
                      [state EXCEPT ![t] = "READY"], remaining_quantum, timer)

\* A mutant that leaves the preemption timer to the next switch.
thread_set_real_time_Flag(c, t, u) ==
    /\ Calls(c, t) /\ state[u] # "DEATH"
    /\ real_time' = real_time \cup {u}
    /\ UNCHANGED <<switched, priority, wait, ipi, need_resched, yielding>>

thread_set_real_time(c, t, u) ==
    /\ Calls(c, t) /\ state[u] # "DEATH"
    /\ preempt_timer' = IF u = t THEN preempt_timer \ {c} ELSE preempt_timer
    /\ real_time' = real_time \cup {u}
    /\ UNCHANGED <<run_queue, state, priority, remaining_quantum, curr, wait, timer,
                   mp, ipi, need_resched, yielding, panic>>

(***************************************************************************)
(* wait_queue_block with a nonzero timeout; timed is timeout #             *)
(* INFINITE_TIME.                                                          *)
(***************************************************************************)
wait_queue_block(c, t, timed) ==
    /\ Calls(c, t) /\ (timed => Sleeps)
    /\ wait' = [list |-> Append(wait.list, t), count |-> wait.count + 1]
    /\ UNCHANGED <<priority, real_time, ipi, need_resched, yielding>>
    /\ thread_resched(c, run_queue, [state EXCEPT ![t] = "BLOCKED"], remaining_quantum,
                      [timer EXCEPT ![t] = IF timed THEN c ELSE @])

\* The states when the threads of the sequence woken are made READY.
Readied(woken) == [t \in Threads |-> IF t \in ToSet(woken) THEN "READY" ELSE state[t]]

(***************************************************************************)
(* wait_queue_wake_one (n = 1) and wait_queue_wake_all (n = wait.count) on *)
(* cpu c.  With reschedule the current thread t goes to the head of the    *)
(* run queue before the threads it wakes.                                  *)
(***************************************************************************)
Wake(c, n, reschedule) ==
    LET t == curr[c]
        woken == SubSeq(wait.list, 1, n)
    IN  /\ wait.list # <<>>
        /\ wait' = [list |-> SubSeq(wait.list, n + 1, Len(wait.list)), count |-> wait.count - n]
        /\ ipi' = mp_reschedule(c)
        /\ UNCHANGED <<priority, real_time>>
        /\ IF reschedule
           THEN thread_resched(c, insert_all(Requeued(t), woken),
                               [Readied(woken) EXCEPT ![t] = "READY"],
                               remaining_quantum, timer)
           ELSE /\ run_queue' = insert_all(run_queue, woken)
                /\ state' = Readied(woken)
                /\ UNCHANGED <<remaining_quantum, curr, timer, preempt_timer, mp, panic>>

wait_queue_wake_one(c, t, reschedule) ==
    Calls(c, t) /\ Wake(c, 1, reschedule) /\ UNCHANGED <<need_resched, yielding>>

wait_queue_wake_all(c, t, reschedule) ==
    Calls(c, t) /\ Wake(c, wait.count, reschedule) /\ UNCHANGED <<need_resched, yielding>>

(***************************************************************************)
(* thread_exit.  joined: the wait queue is the thread's retcode_wait_queue *)
(* (and the thread is not detached).                                       *)
(***************************************************************************)
thread_exit(c, t, joined) ==
    LET woken == IF joined THEN wait.list ELSE <<>>
    IN  /\ Calls(c, t)
        /\ wait' = IF joined THEN [list |-> <<>>, count |-> 0] ELSE wait
        /\ ipi' = IF woken = <<>> THEN ipi ELSE mp_reschedule(c)
        /\ UNCHANGED <<priority, real_time, need_resched, yielding>>
        /\ thread_resched(c, insert_all(run_queue, woken), [Readied(woken) EXCEPT ![t] = "DEATH"],
                          remaining_quantum, timer)
-----------------------------------------------------------------------------
(***************************************************************************)
(* Interrupts on cpu c, whatever thread it runs.  A cpu in need_resched    *)
(* takes them too: one timer interrupt may have several handlers to call,  *)
(* and an interrupt from another source is as if it had come just before.  *)
(***************************************************************************)

thread_timer_tick(c) ==
    LET t == curr[c]
    IN  /\ c \in mp.active \cap preempt_timer
        /\ ~thread_is_real_time_or_idle(t)
        /\ remaining_quantum' = [remaining_quantum EXCEPT ![t] = Max({@ - 1, 0})]
        /\ need_resched' = IF remaining_quantum'[t] = 0 THEN need_resched \cup {c} ELSE need_resched
        /\ UNCHANGED <<run_queue, state, priority, real_time, curr, wait, timer,
                       preempt_timer, mp, ipi, yielding, panic>>

thread_sleep_handler(c, t) ==
    /\ c \in mp.active /\ timer[t] = c /\ state[t] = "SLEEPING"
    /\ timer' = [timer EXCEPT ![t] = NoCpu]
    /\ state' = [state EXCEPT ![t] = "READY"]
    /\ run_queue' = Requeued(t)
    /\ need_resched' = need_resched \cup {c}
    /\ UNCHANGED <<priority, remaining_quantum, real_time, curr, wait,
                   preempt_timer, mp, ipi, yielding, panic>>

\* A mutant that does not look at the state of the thread.
wait_queue_timeout_handler_NoCheck(c, t) ==
    /\ c \in mp.active /\ timer[t] = c /\ state[t] \in {"BLOCKED", "READY"}
    /\ timer' = [timer EXCEPT ![t] = NoCpu]
    /\ wait' = [list |-> Remove(wait.list, t), count |-> wait.count - 1]
    /\ state' = [state EXCEPT ![t] = "READY"]
    /\ run_queue' = Requeued(t)
    /\ ipi' = mp_reschedule(c)
    /\ need_resched' = need_resched \cup {c}
    /\ UNCHANGED <<priority, remaining_quantum, real_time, curr,
                   preempt_timer, mp, yielding, panic>>

\* With thread_unblock_from_wait_queue, for a thread that is still BLOCKED.
wait_queue_timeout_handler(c, t) ==
    /\ c \in mp.active /\ timer[t] = c /\ state[t] \in {"BLOCKED", "READY"}
    /\ timer' = [timer EXCEPT ![t] = NoCpu]
    /\ IF state[t] = "BLOCKED"
       THEN /\ \E i \in DOMAIN wait.list :
                  /\ wait.list[i] = t
                  /\ wait' = [list |-> RemoveAt(wait.list, i), count |-> wait.count - 1]
            /\ state' = [state EXCEPT ![t] = "READY"]
            /\ run_queue' = Requeued(t)
            /\ ipi' = mp_reschedule(c)
            /\ need_resched' = need_resched \cup {c}
       ELSE UNCHANGED <<wait, state, run_queue, ipi, need_resched>>
    /\ UNCHANGED <<priority, remaining_quantum, real_time, curr,
                   preempt_timer, mp, yielding, panic>>

\* An interrupt handler of a driver that wakes a waiter (event_signal or
\* sem_post with reschedule = false) and returns INT_RESCHEDULE.
WakeFromInterrupt(c) ==
    /\ c \in mp.active \ mp.joining /\ Wake(c, 1, FALSE)
    /\ need_resched' = need_resched \cup {c}
    /\ UNCHANGED yielding

mp_mbx_reschedule_irq(c) ==
    /\ c \in (mp.active \cap ipi) \ mp.joining
    /\ ipi' = ipi \ {c}
    /\ need_resched' = need_resched \cup {c}
    /\ UNCHANGED <<switched, priority, real_time, wait, yielding>>

\* Where a preempted thread goes.
PreemptQueue(t) ==
    IF remaining_quantum[t] > 0
    THEN Requeued(t)
    ELSE insert_in_run_queue_tail(run_queue, t, priority[t])

thread_preempt(c) ==
    LET t == curr[c]
    IN  /\ c \in need_resched \ mp.joining
        /\ need_resched' = need_resched \ {c}
        /\ UNCHANGED <<priority, real_time, wait, ipi, yielding>>
        /\ IF t = Idle
           THEN thread_resched(c, run_queue, state, remaining_quantum, timer)
           ELSE thread_resched(c, PreemptQueue(t), [state EXCEPT ![t] = "READY"],
                               remaining_quantum, timer)
-----------------------------------------------------------------------------
(***************************************************************************)
(* A cpu c joins in, running its idle thread: it becomes active, marks     *)
(* itself idle without thread_lock, enables interrupts and calls           *)
(* thread_yield, which for an idle thread is the same as thread_preempt.   *)
(***************************************************************************)
BecomeIdle(c) ==
    /\ c \notin mp.active
    /\ mp' = [mp EXCEPT !.active = @ \cup {c}, !.joining = @ \cup {c}]
    /\ need_resched' = need_resched \cup {c}
    /\ UNCHANGED <<run_queue, state, priority, remaining_quantum, real_time, curr, wait,
                   timer, preempt_timer, ipi, yielding, panic>>

\* mp_set_cpu_idle, first half: the mask is read.
LoadIdle(c) ==
    /\ c \in mp.joining /\ \A l \in mp.loaded : l.cpu # c
    /\ mp' = [mp EXCEPT !.loaded = @ \cup {[cpu |-> c, idle |-> mp.idle]}]
    /\ UNCHANGED <<run_queue, state, priority, remaining_quantum, real_time, curr, wait,
                   timer, preempt_timer, ipi, need_resched, yielding, panic>>

\* Second half: it is written with the cpu's bit set.
StoreIdle(c) ==
    /\ \E l \in mp.loaded :
          /\ l.cpu = c
          /\ mp' = [mp EXCEPT !.idle = l.idle \cup {c}, !.joining = @ \ {c}, !.loaded = @ \ {l}]
    /\ UNCHANGED <<run_queue, state, priority, remaining_quantum, real_time, curr, wait,
                   timer, preempt_timer, ipi, need_resched, yielding, panic>>

mp_set_cpu_idle(c) == LoadIdle(c) \/ StoreIdle(c)

thread_become_idle == BecomeIdle(BootCpu)

\* The boot cpu has started the others.
thread_secondary_cpu_entry(c) == BootCpu \in mp.active \ mp.joining /\ BecomeIdle(c)

\* lk_main has created and resumed bootstrap2, one of the threads that may run
\* on the boot cpu, and is about to become the idle thread.
Init ==
    \E b \in {t \in Threads : MayRun(t, BootCpu)} :
        /\ run_queue = insert_in_run_queue_head(
                          [list |-> [p \in Priorities |-> <<>>], bitmap |-> {}], b, BasePriority[b])
        /\ state = [t \in Threads |-> IF t = b THEN "READY" ELSE "SUSPENDED"]
        /\ priority = BasePriority
        /\ remaining_quantum = [t \in Threads |-> 0]
        /\ real_time = {}
        /\ curr = [c \in CPUs |-> Idle]
        /\ wait = [list |-> <<>>, count |-> 0]
        /\ timer = [t \in Threads |-> NoCpu]
        /\ preempt_timer = {}
        /\ mp = [active |-> {}, idle |-> {}, realtime |-> {}, joining |-> {}, loaded |-> {}]
        /\ ipi = {} /\ need_resched = {} /\ yielding = {}
        /\ panic = FALSE

RealTimeTarget(t, u) ==
    IF u = t THEN "self" \in RealTimeTargets
    ELSE (IF state[u] = "RUNNING" THEN "running" ELSE "stopped") \in RealTimeTargets

ThreadStep(c, t) ==
    \/ \E u \in Threads \ {t} : thread_resume(c, t, u)
    \/ thread_sleep(c, t)
    \/ \E p \in SetPriorities : thread_set_priority(c, t, p)
    \/ \E u \in Threads : RealTimeTarget(t, u) /\ thread_set_real_time(c, t, u)
    \/ \E timed \in BOOLEAN : wait_queue_block(c, t, timed)
    \/ \E reschedule \in BOOLEAN : \/ wait_queue_wake_one(c, t, reschedule)
                                   \/ wait_queue_wake_all(c, t, reschedule)
    \/ \E joined \in BOOLEAN : thread_exit(c, t, joined)

TimerStep(c, t) == thread_sleep_handler(c, t) \/ wait_queue_timeout_handler(c, t)

InterruptStep(c) ==
    \/ thread_timer_tick(c)
    \/ WakeFromInterrupt(c)
    \/ mp_mbx_reschedule_irq(c)
    \/ thread_preempt(c)

Next ==
    /\ ~panic
    /\ \/ thread_become_idle
       \/ \E c \in CPUs : \/ thread_yield(c)
                          \/ InterruptStep(c)
                          \/ thread_secondary_cpu_entry(c)
                          \/ mp_set_cpu_idle(c)
                          \/ \E t \in Threads : ThreadStep(c, t) \/ TimerStep(c, t)

Spec == Init /\ [][Next]_vars

\* What cpu c does next by itself: it starts, or finishes its interrupt.
CpuStep(c) ==
    \/ c = BootCpu /\ thread_become_idle
    \/ thread_secondary_cpu_entry(c)
    \/ mp_set_cpu_idle(c)
    \/ thread_preempt(c)

(***************************************************************************)
(* The preemption timer keeps ticking while it is set, an IPI arrives, an  *)
(* interrupt handler runs to its end, and every cpu is started.  Nothing   *)
(* is assumed of what threads do.                                          *)
(***************************************************************************)
Fairness ==
    \A c \in CPUs :
        /\ WF_vars(~panic /\ thread_timer_tick(c))
        /\ WF_vars(~panic /\ mp_mbx_reschedule_irq(c))
        /\ WF_vars(~panic /\ CpuStep(c))

FairSpec == Spec /\ Fairness
-----------------------------------------------------------------------------
\* How often t is in the sequence s.
Occurrences(s, t) == Cardinality({i \in DOMAIN s : s[i] = t})

(***************************************************************************)
(* A thread is where its state says: once in the run queue of its own      *)
(* priority, current on one cpu it may run on, or once in the wait queue,  *)
(* and in no other place.  Two cpus never run the same thread, and no      *)
(* thread is lost (list_add in insert_in_run_queue_head and                *)
(* wait_queue_block, list_delete in get_top_thread and                     *)
(* thread_unblock_from_wait_queue).                                        *)
(***************************************************************************)
Placement ==
    \A t \in Threads :
        /\ \A p \in Priorities :
              Occurrences(run_queue.list[p], t) =
                  IF state[t] = "READY" /\ p = priority[t] THEN 1 ELSE 0
        /\ Occurrences(wait.list, t) = IF state[t] = "BLOCKED" THEN 1 ELSE 0
        /\ Cardinality({c \in CPUs : curr[c] = t}) = IF state[t] = "RUNNING" THEN 1 ELSE 0
        /\ \A c \in CPUs : curr[c] = t => MayRun(t, c)

(***************************************************************************)
(* run_queue_bitmap has exactly the priorities with a thread, so           *)
(* get_top_thread overlooks nobody; wait_queue_t.count is the length of    *)
(* the queue, which wait_queue_wake_all asserts.                           *)
(***************************************************************************)
BookkeepingExact ==
    /\ run_queue.bitmap = {p \in Priorities : run_queue.list[p] # <<>>}
    /\ wait.count = Len(wait.list)

(***************************************************************************)
(* A switch never leaves behind a thread of higher priority that could     *)
(* have run on that cpu (thread_resched with get_top_thread).              *)
(***************************************************************************)
SwitchesToHighest ==
    [][\A c \in CPUs, t \in Threads :
           curr'[c] # curr[c] /\ state'[t] = "READY" /\ MayRun(t, c)
               => curr'[c] # Idle /\ priority'[curr'[c]] >= priority'[t]]_vars

(***************************************************************************)
(* The preemption timer of a cpu runs exactly while it has a thread to     *)
(* preempt: one that is neither real time nor idle (thread_set_real_time,  *)
(* thread_resched).  So thread_resched never sets one that is set, for     *)
(* which timer_set panics.                                                 *)
(***************************************************************************)
PreemptTimerExact ==
    ~panic /\ preempt_timer = {c \in CPUs : ~thread_is_real_time_or_idle(curr[c])}

(***************************************************************************)
(* Among threads of one priority pinned to one cpu, none of them real      *)
(* time, every READY thread gets the cpu, whatever the others do: the time *)
(* slice a thread has used is not given back when it blocks and wakes      *)
(* (thread_timer_tick, thread_preempt, thread_resched).                    *)
(***************************************************************************)
NoStarvation == \A t \in Threads : state[t] = "READY" ~> state[t] = "RUNNING"
=============================================================================
