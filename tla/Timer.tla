-------------------------------- MODULE Timer --------------------------------
(***************************************************************************)
(* kernel/timer.c with PLATFORM_HAS_DYNAMIC_TIMER: one sorted queue and    *)
(* one oneshot hardware timer per cpu, on a clock of W bits that wraps.    *)
(*                                                                         *)
(* timer_tick drops timer_lock around the callback, so it is several       *)
(* steps: Tick, then for every timer that is due Dequeue, Fire and Requeue,*)
(* then TickEnd.  Interrupts are off on its cpu all the while; the other   *)
(* cpus and the clock go on.                                               *)
(*                                                                         *)
(* timer_set reads the clock before it takes timer_lock and then programs  *)
(* the hardware with the whole delay.  Threads call it with interrupts on, *)
(* as the fastboot app does, so it is two steps, SetBegin and SetEnd, with *)
(* preemption and interrupts between them; in a callback it is one.        *)
(* timer_cancel does everything under the lock.                            *)
(*                                                                         *)
(* Clients set a timer that is not set, and cancel any timer at any time   *)
(* unless somebody is in timer_set with it.                                *)
(***************************************************************************)
EXTENDS Integers, Sequences, SequencesExt

CONSTANTS
    CPUs, Timers,
    W,          \* width of lk_time_t (32 in the code)
    Delays,     \* the delays and periods timers are set with
    MaxLate,    \* bound: an interrupt is taken within this time
    MaxTick,    \* bound: a timer_tick takes at most this time
    MaxHeld     \* bound: the time from current_time() in timer_set to timer_lock

ASSUME TimerAssumption ==
    /\ W \in Nat \ {0}
    /\ Delays \subseteq 0 .. 2^W - 1
    /\ MaxLate \in Nat
    /\ MaxTick \in Nat
    /\ MaxHeld \in Nat

VARIABLES
    now,              \* current_time()
    timer_queue,      \* timers[cpu].timer_queue
    scheduled_time, periodic_time,
    callback,         \* timer->callback # NULL
    hw,               \* time left until the cpu's timer interrupt, or Off;
                      \* zero or less: the interrupt is pending
    tick,             \* the cpu's progress in timer_tick
    setting,          \* the delay of a timer_set that has yet to take timer_lock, or 0
    armed,            \* history: set, and neither cancelled nor done
    due               \* history: true time left until the timer is due, 0 if not armed

timer_vars == <<now, timer_queue, scheduled_time, periodic_time, callback, hw, tick, setting, armed, due>>

M == 2^W

\* The signed W-bit integer with the bits of n.
Signed(n) == LET m == n % M IN IF m >= M \div 2 THEN m - M ELSE m

\* Mutants that compare as unsigned numbers, as if the clock never wrapped.
TIME_GT_Unsigned(a, b) == a > b
TIME_LT_Unsigned(a, b) == a < b

TIME_GT(a, b) == Signed(a - b) > 0
TIME_LT(a, b) == Signed(a - b) < 0

Off == M
NoTick == [phase |-> "none"]

timer_init ==
    /\ timer_queue = [c \in CPUs |-> <<>>]
    /\ hw = [c \in CPUs |-> Off]
    /\ tick = [c \in CPUs |-> NoTick]

timer_initialize ==
    /\ scheduled_time = [t \in Timers |-> 0]
    /\ periodic_time = [t \in Timers |-> 0]
    /\ callback = [t \in Timers |-> FALSE]
    /\ setting = [t \in Timers |-> 0]
    /\ armed = [t \in Timers |-> FALSE]
    /\ due = [t \in Timers |-> 0]

TimerInit == now = 0 /\ timer_init /\ timer_initialize

\* The hardware timers after the cpu's has been programmed.  A zero delay leaves
\* an interrupt that is pending already as it is.
platform_set_oneshot_timer(c, delay) ==
    IF delay = 0 /\ hw[c] <= 0 THEN hw ELSE [hw EXCEPT ![c] = delay]

platform_stop_timer(c) == [hw EXCEPT ![c] = Off]

list_in_list(t) == \E c \in CPUs : \E i \in DOMAIN timer_queue[c] : timer_queue[c][i] = t

\* The queue q with t before the first entry scheduled later.
insert_timer_in_queue(q, t, sched) ==
    LET later == {i \in DOMAIN q : TIME_GT(sched[q[i]], sched[t])}
    IN  InsertAt(q, IF later = {} THEN Len(q) + 1 ELSE Min(later), t)

\* A mutant that programs the hardware for the first timer only.
NewHead_First(q, t) == q = <<t>>

NewHead(q, t) == Head(q) = t

\* timer_set up to timer_lock.
SetTimes(t, delay, period) ==
    /\ scheduled_time' = [scheduled_time EXCEPT ![t] = (now + delay) % M]
    /\ periodic_time' = [periodic_time EXCEPT ![t] = period]
    /\ callback' = [callback EXCEPT ![t] = TRUE]
    /\ armed' = [armed EXCEPT ![t] = TRUE]
    /\ due' = [due EXCEPT ![t] = delay]

\* timer_set under timer_lock.
SetInQueue(c, t, delay) ==
    /\ timer_queue' = [timer_queue EXCEPT ![c] = insert_timer_in_queue(@, t, scheduled_time')]
    /\ hw' = IF NewHead(timer_queue'[c], t) THEN platform_set_oneshot_timer(c, delay) ELSE hw

timer_set(c, t, delay, period) == SetTimes(t, delay, period) /\ SetInQueue(c, t, delay)

AtLeast1(d) == IF d = 0 THEN 1 ELSE d

\* The delay and the period timer_set is called with.
timer_set_oneshot(delay) == [delay |-> AtLeast1(delay), period |-> 0]
timer_set_periodic(period) == [delay |-> AtLeast1(period), period |-> AtLeast1(period)]
Calls == {timer_set_oneshot(d) : d \in Delays} \cup {timer_set_periodic(d) : d \in Delays}

\* The queue q without t, if it is there.
list_delete(q, t) ==
    LET at == {i \in DOMAIN q : q[i] = t}
    IN  IF at = {} THEN q ELSE RemoveAt(q, Min(at))

timer_cancel(c, t) ==
    /\ timer_queue' = [d \in CPUs |-> list_delete(timer_queue[d], t)]
    /\ periodic_time' = [periodic_time EXCEPT ![t] = 0]
    /\ callback' = [callback EXCEPT ![t] = FALSE]
    /\ LET q == timer_queue'[c]
           delay == (scheduled_time[Head(q)] - now) % M
       IN  hw' = CASE q = <<>> -> platform_stop_timer(c)
                   [] q # <<>> /\ Head(q) # Head(timer_queue[c]) ->
                        platform_set_oneshot_timer(c,
                            IF TIME_LT(scheduled_time[Head(q)], now) THEN 0 ELSE delay)
                   [] OTHER -> hw
    /\ armed' = [armed EXCEPT ![t] = FALSE]
    /\ due' = [due EXCEPT ![t] = 0]
    /\ UNCHANGED scheduled_time

(***************************************************************************)
(* The calls of threads and other interrupt handlers on cpu c.             *)
(***************************************************************************)
SetBegin(c, t) ==
    /\ tick[c].phase = "none"
    /\ ~armed[t]
    /\ \E call \in Calls :
          /\ SetTimes(t, call.delay, call.period)
          /\ setting' = [setting EXCEPT ![t] = call.delay]
    /\ UNCHANGED <<now, timer_queue, hw, tick>>

SetEnd(c, t) ==
    /\ tick[c].phase = "none"
    /\ setting[t] # 0
    /\ UNCHANGED <<now, scheduled_time, periodic_time, callback, tick, armed, due>>
    /\ SetInQueue(c, t, setting[t])
    /\ setting' = [setting EXCEPT ![t] = 0]

Cancel(c, t) ==
    /\ tick[c].phase = "none"
    /\ setting[t] = 0
    /\ timer_cancel(c, t)
    /\ UNCHANGED <<now, tick, setting>>

(***************************************************************************)
(* timer_tick.                                                             *)
(***************************************************************************)
Tick(c) ==
    /\ tick[c].phase = "none"
    /\ hw[c] <= 0
    /\ hw' = platform_stop_timer(c)           \* by the platform's interrupt handler
    /\ tick' = [tick EXCEPT ![c] = [phase |-> "loop", now |-> now]]
    /\ UNCHANGED <<now, timer_queue, scheduled_time, periodic_time, callback, setting, armed, due>>

\* How long the cpu's timer_tick has been running.
TickTime(c) == (now - tick[c].now) % M

\* Is the head of the cpu's queue due?
HeadDue(c) ==
    /\ timer_queue[c] # <<>>
    /\ ~TIME_LT(tick[c].now, scheduled_time[Head(timer_queue[c])])

Dequeue(c) ==
    /\ tick[c].phase = "loop"
    /\ HeadDue(c)
    /\ tick' = [tick EXCEPT ![c] = [phase |-> "fire", now |-> tick[c].now,
                                    timer |-> Head(timer_queue[c])]]
    /\ timer_queue' = [timer_queue EXCEPT ![c] = Tail(@)]
    /\ UNCHANGED <<now, scheduled_time, periodic_time, callback, hw, setting, armed, due>>

\* The callback, which may cancel or set its own timer.
Fire(c) ==
    /\ tick[c].phase = "fire"
    /\ LET t == tick[c].timer
           periodic == periodic_time[t] > 0
       IN  /\ callback[t]
           /\ tick' = [tick EXCEPT ![c] = [phase |-> "requeue", now |-> tick[c].now,
                                           timer |-> t, periodic |-> periodic]]
           /\ \/ /\ armed' = [armed EXCEPT ![t] = periodic]
                 /\ due' = [due EXCEPT ![t] = 0]
                 /\ UNCHANGED <<timer_queue, scheduled_time, periodic_time, callback, hw>>
              \/ timer_cancel(c, t)
              \/ /\ ~list_in_list(t)
                 /\ \E call \in Calls : timer_set(c, t, call.delay, call.period)
    /\ UNCHANGED <<now, setting>>

MustRequeue(c, t) == tick[c].periodic /\ ~list_in_list(t) /\ periodic_time[t] > 0

\* A mutant that puts the timer back as it was.
NextTime_Same(c, t) == scheduled_time[t]

NextTime(c, t) == (tick[c].now + periodic_time[t]) % M

Requeue(c) ==
    /\ tick[c].phase = "requeue"
    /\ LET t == tick[c].timer
       IN  IF MustRequeue(c, t)
           THEN /\ scheduled_time' = [scheduled_time EXCEPT ![t] = NextTime(c, t)]
                /\ timer_queue' =
                     [timer_queue EXCEPT ![c] = insert_timer_in_queue(@, t, scheduled_time')]
                /\ due' = [due EXCEPT ![t] = periodic_time[t] - TickTime(c)]
           ELSE UNCHANGED <<scheduled_time, timer_queue, due>>
    /\ tick' = [tick EXCEPT ![c] = [phase |-> "loop", now |-> tick[c].now]]
    /\ UNCHANGED <<now, periodic_time, callback, hw, setting, armed>>

TickEnd(c) ==
    /\ tick[c].phase = "loop"
    /\ ~HeadDue(c)
    /\ hw' = IF timer_queue[c] = <<>> THEN hw
             ELSE platform_set_oneshot_timer(c,
                     (scheduled_time[Head(timer_queue[c])] - tick[c].now) % M)
    /\ tick' = [tick EXCEPT ![c] = NoTick]
    /\ UNCHANGED <<now, timer_queue, scheduled_time, periodic_time, callback, setting, armed, due>>

(***************************************************************************)
(* Time passes, within the bounds on interrupt latency and preemption.     *)
(***************************************************************************)
Clock ==
    /\ \A c \in CPUs :
          /\ hw[c] > -MaxLate
          /\ tick[c].phase # "none" => TickTime(c) < MaxTick
    /\ \A t \in Timers : setting[t] # 0 => setting[t] - due[t] < MaxHeld
    /\ now' = (now + 1) % M
    /\ hw' = [c \in CPUs |-> IF hw[c] = Off THEN Off ELSE hw[c] - 1]
    /\ due' = [t \in Timers |-> IF armed[t] THEN due[t] - 1 ELSE due[t]]
    /\ UNCHANGED <<timer_queue, scheduled_time, periodic_time, callback, tick, setting, armed>>

TickStep(c) == Tick(c) \/ Dequeue(c) \/ Fire(c) \/ Requeue(c) \/ TickEnd(c)

TimerNext ==
    \/ Clock
    \/ \E c \in CPUs :
          \/ TickStep(c)
          \/ \E t \in Timers : SetBegin(c, t) \/ SetEnd(c, t) \/ Cancel(c, t)

TimerSpec == TimerInit /\ [][TimerNext]_timer_vars

\* Interrupts are taken, timer_tick goes on, time passes.
TimerFairSpec == TimerSpec /\ WF_timer_vars(Clock) /\ \A c \in CPUs : WF_timer_vars(TickStep(c))
-----------------------------------------------------------------------------
\* A timer is in one queue at most, once, and only while it is set.
QueuedOnce ==
    \A c, d \in CPUs : \A i \in DOMAIN timer_queue[c], j \in DOMAIN timer_queue[d] :
        /\ armed[timer_queue[c][i]]
        /\ timer_queue[c][i] = timer_queue[d][j] => c = d /\ i = j

\* Every queue is in the order in which its timers are truly due, across the
\* wrap of the clock and with timers that are late; a callback that sets or
\* cancels its own timer neither doubles nor revives it.
QueueSorted ==
    /\ QueuedOnce
    /\ \A c \in CPUs : \A i, j \in DOMAIN timer_queue[c] :
           i < j => due[timer_queue[c][i]] <= due[timer_queue[c][j]]

\* No callback is called before its timer is due.
NoEarlyFire ==
    \A c \in CPUs : tick[c].phase = "fire" => due[tick[c].timer] <= 0

\* How late the hardware may be programmed: timer_tick computes the delay from
\* the time when it began, timer_set from the time before it had the lock.
Slack == IF MaxTick > MaxHeld THEN MaxTick ELSE MaxHeld

\* No timer is forgotten, and none is later than the interrupt latency, the
\* timer_tick that serves it and the time by which the hardware was programmed
\* too late, whichever of timer_set, timer_cancel and timer_tick did that last.
NotTooLate ==
    \A t \in Timers : list_in_list(t) => due[t] >= -(MaxLate + MaxTick + Slack)

\* timer_tick comes to an end although periodic timers put themselves back.
TickEnds == \A c \in CPUs : tick[c].phase # "none" ~> tick[c].phase = "none"
=============================================================================
