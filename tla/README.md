# The kernel and the fastboot path of this boot loader, in TLA+

The repository is a boot loader built on the LK kernel: a small preemptive
multithreading kernel (`kernel/`, `top/`), libraries on top of it (`lib/`),
applications that boot the device or flash it over USB (`app/mt_boot`,
`app/fastboot`), and a great deal of platform, driver and vendored code. This
directory specifies the parts that the rest relies on and that tests reach worst:
the kernel's threads, wait queues, synchronisation objects, timers and ports; the
memory allocator of the boot stage; and the way of a flashed image from the cable
to the storage.

Contents: [parts of the system](#the-system), [modules](#the-modules),
[runs](#what-the-runs-check), [bounds](#bounds), [fairness](#fairness),
[proofs](#what-is-proved), [findings](#findings),
[not modelled](#what-is-not-modelled), [plan](#plan).

## The system

| Part | State | Operations | Who calls it, and what is hard |
|---|---|---|---|
| wait queues, `kernel/thread.c:1046-1290` | list and count of a queue; `state`, `blocking_wait_queue`, `wait_queue_block_ret` of each thread; a `timer_t` on the waiter's stack | block (with timeout), wake one, wake all, destroy, time out | every blocking primitive. `wait_queue_block` gives the cpu away in its middle: what its caller read before is stale after. The timeout is an interrupt, possibly on another cpu |
| mutex, `kernel/mutex.c` | `holder`, `count` | acquire (timeout), release, destroy | heap, drivers, file systems. `count` counts threads that are no longer in the queue |
| semaphore, `kernel/semaphore.c` | `count`, below zero for waiters | post, wait, trywait, timedwait, destroy | drivers; post also from interrupts |
| event, `kernel/event.c` | `signaled`, `flags` | signal, unsignal, wait, destroy | drivers, dpc, cbuf, fastboot; `event_unsignal` takes no lock |
| timers, `kernel/timer.c` | a sorted queue and a one-shot hardware timer for each cpu | set one-shot or periodic, cancel, `timer_tick` | timed waits, sleeps, preemption, watchdog, fastboot idle timer. A 32-bit clock that wraps; callbacks run without the lock and may set or cancel their own timer |
| scheduler, `kernel/thread.c`, `kernel/mp.c` | run queue and bitmap, quantum, priorities, pinning, current thread and preemption timer of each cpu, masks of active, idle and real time cpus | resume, yield, preempt, sleep, priority, real time, `thread_resched`, IPIs | every primitive and every interrupt; on several cpus each step of one cpu falls between any two of another |
| thread life cycle, `kernel/thread.c`, `lib/heap/heap_wrapper.c` | `state`, `magic`, `DETACHED`, joiners; the delayed-free list | create, resume, exit, join, detach, delayed free | everybody. A detached thread frees the stack it runs on |
| ports, `kernel/port.c` | named write ports, read ports, groups, packet buffers | create, open, group, add, remove, write, read, close, destroy | applications; a buffer and its list nodes change owner, readers sleep with a pointer to what may be closed |
| fastboot flashing, `app/fastboot/flash/transfer_parallel.c`, `sparse_state_machine.c`, `bulk_process.c` | two buffers, six events, two status words, the state of the decoder | usb reader, storage writer, stop | two threads that stop each other on errors; packets cut the image anywhere |
| fastboot loop and usb, `app/fastboot/fastboot.c`, `usb/usb.c`, `ssusb/mtu3.c` | command state, idle timer, the queued requests, two events | read, dispatch, handlers, answer; transfers complete, fail, or are given up | one thread against the host, the cable, the idle timer |
| boot control, `bootctrl/3/bootctrl_api.c` | priorities of the slots in `misc`, the boot region | `set_active_slot`, `get_suffix` | two writes, and power that may go between them |
| boot memory, `lib/mblock/mblock.c` | free blocks in order, reserved records in none | alloc, free, free a part, change mapping, resize, hand-over | nearly every boot step; a call that fails stops the machine |
| cbuf, dpc, bcache, bio, watchdog (`lib/`) | ring buffer and event; list and event; LRU and free lists; reference counts; a timer | see `PROJECT.json` | cbuf and dpc: an event outside the lock that guards the data |
| init levels, heap, memory manager | tables, free lists, regions | | sequential under one mutex |

Everything in the kernel is guarded by one spinlock, `thread_lock`, taken with
interrupts off, and the timer queues by another, `timer_lock`. A section under a
lock is one step of a model; what happens between two sections is another step,
and anything of another thread, interrupt or cpu may come between them. The
MediaTek platforms build the kernel with `WITH_SMP=0`; qemu-virt, zynq and alterasoc build
it with `WITH_SMP=1`. Where it matters the modules have the set of cpus as a
parameter and a run says which case it is about.

What makes each part correct:

* **wait queues**: a thread is in the queue exactly while it is `BLOCKED`; it is
  woken once, by one cause, and told that cause; a wait without timeout does not
  time out.
* **mutex**: exclusive, also between the hand-over and the moment the new owner
  runs; first come first served; `holder` and `count` tell the truth.
* **semaphore**: units are neither lost nor invented. **event**: the rules in
  `include/kernel/event.h`; a signal is neither lost nor used twice.
* **timers**: in order across the wrap of the clock, never early, late by no more
  than the interrupt and the caller of `timer_set` are, no endless `timer_tick`.
* **scheduler**: no thread lost or run twice, highest priority first, nobody of
  equal priority starves, preemption timer and bitmap as they should be.
* **life cycle**: memory is given back once, by somebody, and never under a thread
  that still runs on it; a joiner finds the thread it waited for.
* **ports**: packets stay in order through every hand-over of a buffer; nobody
  sleeps beside a packet; nothing freed is used.
* **flashing**: a buffer has one user at a time, both threads end, and success is
  reported only if the partition holds what the image stands for.
* **fastboot**: each command is answered, once, with its own answer; what was
  answered with OKAY lasts.
* **boot memory**: each page is in one place, the highest place is given, a holder
  is served, the kernel hears of all memory.

## The modules

`WaitQueue` has the wait queue as operators (`wait_queue_block`,
`wait_queue_wake_one`, ...) that change its variables; `Mutex`, `Semaphore` and
`Event` EXTEND it, as their C files call it. `wait_queue_block` is two steps: the
one that enters the queue and, once the thread is `READY` and picked, the one
that returns. All three primitives go wrong, if they do, between these two.

| Module | Models | State (code) | Remarks |
|---|---|---|---|
| `WaitQueue` | `wait_queue_*`, `thread_unblock_from_wait_queue`, `wait_queue_timeout_handler` | `list`, `state`, `wait_queue_block_ret`, `timer` | which `READY` thread runs is left open |
| `Mutex` | `kernel/mutex.c` | `magic`, `holder`, `count`; history `owners`; `destroyer`: in the unlocked window of `mutex_destroy` | `bounded`: see below |
| `Semaphore`, `CountingSemaphore` | `kernel/semaphore.c`; its abstract specification | `count`, `magic`, `bounded` | refinement: stock = `count` + threads that have decremented it without getting a unit |
| `Event`, `EventRules` | `kernel/event.c`; the rules of `event.h` | `magic`, `signaled`, `flags` | refinement: a wait is none, waiting, woken or failed |
| `Waiters` | `Semaphore` and `Event` side by side | `object`: which of the two a behaviour is about | so that one run and one set of lemmas serve both |
| `AutoEvent` | an auto-unsignal event that one thread waits for | a record [signaled, wait] | `kernel/event.c` as operators on a value, for modules with many events |
| `Timer` | `kernel/timer.c` with `PLATFORM_HAS_DYNAMIC_TIMER` | `timer_queue`, `scheduled_time`, `periodic_time`, `callback`, `hw`; `tick`: how far `timer_tick` is; `setting`: the delay of a `timer_set` that has read the clock and does not have `timer_lock` yet; history `armed`, `due` | clock of `W` bits; `timer_set` is SetBegin, SetEnd, since the clock is read before the lock (one step in a callback, where interrupts are off); `timer_tick` is Tick, (Dequeue, Fire, Requeue)*, TickEnd |
| `Scheduler` | scheduler of `kernel/thread.c`, `kernel/mp.c` | `run_queue`, `state`, `priority`, `remaining_quantum`, `curr`, `wait`, `timer`, `preempt_timer`, `mp`, `ipi`; `need_resched`: in an interrupt that will end in `thread_preempt` | one action per function that calls `thread_resched`; the switch is part of it. A cpu that starts is three steps, since `mp_set_cpu_idle` reads and writes the mask without `thread_lock` (`mp.joining`, `mp.loaded`); `SwitchMp` covers a store of such a cpu that falls into a switch |
| `Thread` | what `TimedWait` and `ThreadLife` share | `state` | |
| `TimedWait` | timed wait on several cpus | `state`, `wait_queue_block_ret`, `timer`, `handler` | `wait_queue_timeout_handler` is two steps: off the timer queue, then `thread_lock` |
| `ThreadLife` | create, resume, exit, join, detach, delayed free | `state`, `magic`, `detached`, `retcode_wait_queue`, `memory`, the delayed-free lists | structure and stack are one piece of memory; each is used once |
| `Port` | `kernel/port.c` | `write_port_list`, `wport`, `rport`, `group`, `wait`, `thread`; history `accepted`, `delivered`, `last` | packets are numbered; `fault` says why the system is lost: freed memory used, a node deleted twice, a lock kept. `port_close` of what has waiters is two steps: `wait_queue_destroy` reschedules before `magic` is cleared; the magic `"closing"` stands for the live one in between |
| `SparseImage` | `sparse_format.h` | none | an image in cells of 32 bits, its encoding, and what it stands for |
| `SparseDecoder` | `sparse_state_machine.c`, `bulk_process.c` | `dec`: the statics of the decoder; `bulk`; `disk` | one step for each pass of the loop and each `bio_write`, which may write less than all |
| `FlashInMemory` | `cmd_flash_bio_sparse_img` | none | a second decoder, as a recursive function, to compare the first with |
| `Transfer` | `transfer_parallel.c` | buffers, events, status words, `reader` and `writer`: where the threads are | EXTENDS `SparseDecoder`, `FlashInMemory`, `AutoEvent` |
| `Bootctrl` | `bootctrl_api.c` | `misc`, `region` | EXTENDed by `Fastboot`, whose `slot_*` actions are the steps of `set_active_slot` |
| `Fastboot` | command loop, usb transfers, host, cable, power | `fastboot_state`, `pc`, `xfer`, the queued requests `in` and `out`, `txn_done`, `usb_online`, `idle_timer`; the host's `asked`, `left`, `active` | the thread is in a transfer for the purpose `pc`; a download takes `Pieces` transfers; `udc_request_queue` looks at `usb_online` in one step and hands the request over in another, and the cable or a `SET_CONFIGURATION` may come between |
| `Mblock`, `PageMap` | `mblock.c`; its abstract specification | `info`: the three tables; `init_done`, `panicked` | every call is under `mblock_lock`, hence one step; addresses in pages; refinement: the holder of each page |
| `MC*` | constants for TLC | | `MCWaiters` gives `Waiters` its threads |
| `WaitQueueProofs` | lemmas about the queue, for `MutexProofs` and the semaphore and event of `SemaphoreTimerProofs` | | knows nothing of mutexes or semaphores |
| `ListProofs` | lemmas about sequences, set induction, least and greatest elements | | for the scheduler, timers, ports and boot memory |
| `MutexProofs`, `SemaphoreTimerProofs` (also `Event`), `SchedulerProofs`, `PortProofs`, `ThreadLifeProofs` (also `TimedWait`), `BootProofs` (`Transfer`, `Fastboot`, `Mblock`) | the theorems | | see [What is proved](#what-is-proved) |

Definitions keep the names of the code. An operator named like a function with a
suffix (`Backout_None`, `port_open_NewBuffer`) is a mutant: a plausible bug
in that function, used to see that a property would catch it. Nothing of the
specifications uses it. `PROJECT.json` maps each definition to its lines.

Client rules that the code states or enforces are guards: a holder does not acquire
again and only it releases (`panic` in `mutex.c`), nobody uses a destroyed
object, a timer that is set is not set again (`panic` in `timer.c`).

Some variables are chosen at the start and never change. They name the kind of
world a behaviour is about, so that one run covers several and a property can say
for which it is claimed: `bounded` (clients of this mutex or semaphore pass finite
timeouts), `careful` (clients of ports keep the rules listed in `Port`), `calm`
(the host reads every answer within `WRITE_CMD_TIMEOUT`, and sets a configuration
only while no command is handled: after the thread has noticed that it went, or while
the thread waits for a command), `idle_timeout` (the board has a fastboot idle timer); in MC modules `object` and
`crowd` choose a scenario.

## What the runs check

| Run | Instance | Properties | Shows |
|---|---|---|---|
| `mutex` | 4 threads, all timeouts, bounded and unbounded clients; 19k states | `MutualExclusion`, `HolderExact`, `CountExact`, `NoBarging`, `UntimedNotStranded`, `WaiterServed` | the count is exact although timed-out threads leave the queue before they leave the count; nobody overtakes; without bounded waits nobody is left behind |
| `mutex_stranded` | the same | `NoStrandedWaiter`, violated | see [Findings](#findings) |
| `waiters` | a semaphore with 4 threads and up to 2 units, or an event of either kind with 4; 78k states | `ImplementsCountingSemaphore`, `NoIdleUnit`, `WaiterServed`; `EventObeysRules`, `EventWaitEnds` | no unit is lost or invented by late back-outs; without bounded waits no unit lies idle before a waiter; a signal that meets a timeout goes to exactly one of a waiter and the flag |
| `timer` | 1 cpu, 2 timers, clock of 4 bits | `QueueSorted`, `NoEarlyFire`, `NotTooLate`, `TickEnds` | order and due times across the wrap, no timer queued twice; the hardware timer follows the queue; callbacks that set or cancel their own timer; threads held up inside `timer_set` |
| `sched` | 2 cpus, one thread pinned, sleeps, timed waits, threads that make themselves or stopped ones real time; 3 threads, or 2 that also change priorities; 640k states | `Placement`, `BookkeepingExact`, `PreemptTimerExact`, `SwitchesToHighest` | no thread is lost or doubled, the highest runs, the preemption timer is set when it should be, between any two steps of the two cpus |
| `sched_slice` | 2 cpus, 3 threads of one priority pinned to one, quantum 2 | `NoStarvation` | time slices suffice for threads of one cpu, whatever they do to each other |
| `thread_life` | 2 threads, 2 callers | `JoinFindsDeadThread`, `FreedInTime`, `Reclaimed` | exit, join with timeout and detach in any order give the memory back once, in time and at all |
| `timed_wait` | 1 cpu, 3 threads | `InfiniteWaitsLast`, `TimerDiesWithFrame` | the timer of one wait cannot end another, and is out of the queue when the stack frame that holds it is left |
| `port` | 3 threads with careful clients, one in the middle of a call with any clients; a write port, 2 read ports, a group, buffers of 2, 3 packets; 2.2M states | `InOrder`, `NobodyAsleepBesidePacket`, `NoFault` | no order of open, group, read, write, close and destroy mixes packets up; careful clients are woken and use nothing freed, also inside a `port_close` that has rescheduled |
| `flash` | 136 sparse images of up to 3 chunks, 4 plain ones, buffers of 8 cells, storage blocks of 4; 204k states | `BuffersNotShared`, `ContextOutlivesWriter`, `ResultTruthful`, `Ends` | wherever packets cut the image and whichever side fails when, the pipeline ends, and OK means that the disk holds the image, as the one-piece decoder would have written it |
| `fastboot` | 2 commands of every kind, downloads in 2 pieces, every content of `misc`, unplugging, loss of power, configurations set and unset, and the idle timer at any moment; 1.1M states | `AnswersMatch`, `Answered`, `SlotDurable` | with a calm host every command is answered by its own answer, and an OKAY to `set_active` outlives later failures and loss of power |
| `mblock` | 6 pages around 4G, 2 memory maps, 5 requests, up to 3 records; 16k states | `Partition`, `AllocHighest`, `HolderIsServed`, `MemoryReported`, `ImplementsPageMap` | no sequence of calls loses a page, doubles it or gives it to somebody else, or leaves the tables so that a legal call fails while there is room in them |

Each property of a passing run has a mutant in `PROJECT.json` that TLC must
refute. Deadlock is checked for the timer, the timed wait and fastboot, which never stop,
and for the flashing pipeline, which may stop only when both threads have ended. The other
systems may rest: a mutex nobody wants, threads that are all blocked or dead, a
machine that has panicked.

### Bounds

* Threads: every known failure of a primitive takes an owner, a thread that gives
  up, and one that comes later; the fourth is there to be wrong about.
* The theorems remove the bounds for every safety property of a run but one:
  `ResultTruthful`, which is about what the decoders compute. That one and liveness are
  checked on these instances only.
* `MaxCount`: nobody posts to a stock of 2; the code compares the count only with 0.
* Timer: `W = 4` makes the clock wrap every 16 ticks. Delays 0 and 3 with
  `MaxLate` (the interrupt) and `MaxTick` (one `timer_tick`) 1 and `MaxHeld` (from the clock
  to the lock in `timer_set`) 2 keep every distance below 2^(W-1), as delays below
  2^31 ms do in the code. `MaxHeld` is a bound of the model: the code has none, since a thread
  with interrupts on may be preempted there, and a timer is late by what its caller was held up.
  `NotTooLate` says that it is late by no more than that, or than one more `timer_tick`
  (`Slack` is the larger of the two) (`TimerWorld` in `SemaphoreTimerProofs` says this for all widths and
  delays). One cpu: with two, `NoEarlyFire` and `QueueSorted` fail, since a thread on the
  other cpu may cancel a timer and set it again between `Dequeue` and `Fire`, which
  hold no lock, and the callback of the old setting then runs for the new one. With `Delays <- const_Long` (delays of 2^(W-1) and more)
  `QueueSorted` and `NoEarlyFire` fail: such a timer counts as past, is queued
  first and fires at once.
* Scheduler: 4 priorities so that there is one above and one below
  `DEFAULT_PRIORITY`, arguments of `thread_set_priority` that are clamped at both
  ends; a quantum of 1 or 2 ticks, since the code only asks whether one is left.
  `remaining_quantum` stays at 0 for every value the code lets go below.
* Life cycle: `ReaperAssumption` says that at most one caller may come to free a
  thread (join it, or detach it when it is dead); the code does not see to that. In
  `thread_life` one thread has an owner that joins or detaches it at any time, the
  other is joined by one caller and detached by another one, before it is dead. Without
  the assumption (one joins, another detaches a dead thread) `JoinFindsDeadThread` fails:
  the joiner is woken by the exit, the detacher frees the thread before the joiner runs, and
  `thread.c:342` asserts on freed memory.
* Port: with careful clients three threads let two sleep while a third closes or writes. With
  others one thread at a time is in a call that sleeps or that looks before it locks, while the rest
  make calls of one step (`Small` in `MCPort`); the proof of `InOrder` has no such limit. Buffers of 2 packets overflow, and 3 packets let one be read, one be in a
  buffer that changes hands and one be refused. With two read ports a group has a first and
  a last one, and a broadcast port has a reader that misses what another gets. With the one write port
  the race of two creators shows only as two that have passed the look-up.
* Flash: chunk sizes 0, 1, 3 and 5 blocks of 2 cells against buffers of 8 and
  storage blocks of 4 put every boundary (file header, chunk header, storage
  block, buffer) inside, at and beyond every other. The partition has 20 cells: some
  images are too large. The decoder starts from zeroes or from what a failed download left.
* Fastboot: two commands, one that is disturbed and one that could suffer for it;
  two pieces, one after which the data may stop. `MaxPri` 1, and priorities up to 2:
  the code compares with the maximum only.
* Mblock: 4G is in the middle of the memory, so that blocks lie below, above and
  across it; requests of 1 to 3 pages with alignment, both limits and a fixed address.
  `MaxReserved`, the size of the table of records, is 3, which lets a record be shifted from both
  sides and the table be full. No call is made that would reserve a record beyond it: the code's
  test for a full table has no effect ([Findings](#findings)) and it would write past the end. A middle part freed
  from a full table is refused, as `mblock.c:910` does. The preloader's map is
  one rank, or two with a hole it has reserved. No request is larger than the address where memory
  starts (`MapAssumption`): the code computes `end - reserved_size` without a check.
  `PreloaderAssumption`: what the preloader hands over is a partition of the memory, with
  its free blocks in order, not empty, and one at least.
* Nothing else is bounded: the state spaces are finite by themselves.

### Fairness

* `Mutex`, `Semaphore`, `Event`: a `READY` thread is picked sometime (the scheduler
  is fair among equals, `NoStarvation`; a client of lower priority than a busy loop
  is outside this), owners release, timers fire, and for `WaiterServed` of the
  semaphore somebody posts again and again. Nobody has to acquire, wait or signal.
* `Timer`: a `timer_tick` that has begun goes on: it runs with interrupts off.
* `Scheduler`: weak fairness of the preemption tick, of pending IPIs, of the end of
  an interrupt and of the start of a cpu: hardware and code that runs with
  interrupts off. Nothing is assumed of threads.
* `ThreadLife`: what has begun is finished; malloc, which empties the delayed-free
  list, is called again and again. Strong fairness for steps that need a lock
  another thread may take in between.

* `Transfer`: a thread that is not asleep runs; `usb_read` returns, since a pulled
  cable fails the request.
* `Fastboot`: the fastboot thread runs; a connected host reads what it is sent and
  sends data it announced. Nothing has to be sent, plugged in or pulled.

## What is proved

A theorem holds for every value of the constants that the named assumptions allow.
The inductive invariant is called `IInv`, or after its subject where a module has several,
and the proof that a step keeps it has a case for each action.

**Mutex** (`MutexProofs`; a finite set of threads, `ThreadsAssumption`): `MutexTypeOK`,
`MutexMutualExclusion`, `MutexHolderExact`, `MutexCountExact`, `MutexNoBarging`,
`MutexNoStrandedWaiter` (`UntimedNotStranded`).

    IInv == BasicTypes /\ QueueExact /\ ClientState
            /\ MutualExclusion /\ HolderExact /\ CountExact

`CountExact`, count = the number of contenders, carries the argument: an acquire
finds count 0 only when nobody owns, waits, or has been handed the mutex, so it
neither shares nor overtakes. It is not inductive alone: a release that hands over
needs `QueueExact` (the thread at the head is `BLOCKED`, hence a contender but no
owner), and `HolderExact` makes the releaser the only owner. `MutexNoStrandedWaiter`
adds that without bounded waits no timer is set and no wait has timed out, so that
every contender owns or waits.

**Semaphore** (`SemaphoreTimerProofs`; also `SemaphoreAssumption`: 0 <= `InitialValue` <=
`MaxCount`): `SemaphoreRefinement` (`ImplementsCountingSemaphore`) and
`SemaphoreNoIdleUnit`. The mapping is the stock, `count` plus the threads that have
decremented it and have no unit. `IInv` says that the queue is exact and that the stock is not
negative. The work is in how the stock moves: a thread that blocks lowers `count`
and joins the pending ones, one that backs out or is handed a unit does the reverse, so
the stock stays; a timeout changes neither, which is why the window before the
back-out is harmless here. A post on `count < 0` may find an empty queue; then the unit goes to
the stock, where the back-out will find it.

**Event** (`SemaphoreTimerProofs`): `EventRefinement` (`EventObeysRules`), for every finite
set of threads. `EventInv` is the types and the exactness of the queue; the mapping reads how
far each wait is from the thread's state and return value. The lemmas about the queue are
those of the mutex, reached through an INSTANCE with the event's variables.

**Timers** (`SemaphoreTimerProofs`; `TimerAssumption`, and the hypothesis `TimerWorld`: one
cpu, delays that with all lateness added stay below half the clock; see [Bounds](#bounds) for why
each is needed): `TimerInvariant`, `TimersSorted` (`QueueSorted`), `TimersNotEarly`
(`NoEarlyFire`), `TimersNotTooLate` (`NotTooLate`), for every width of the clock.

    TimerInv == TimerTypes /\ (\A t : Near(periodic_time[t]))
                /\ \A c : QueueInv(c) /\ HardwareInv(c) /\ TickInv(c)

`QueueInv`: a queued timer's `scheduled_time` points, modulo 2^W, at `now` plus the true time
left, and the queue is in the order of the true times. `Compared` then says that
`TIME_LT` and `TIME_GT` tell the truth about two such timers, provided that the times left
differ by less than half the clock. That needs a bound from below on how late a queued
timer can be, and this is what the rest is for: `HardwareInv`, outside `timer_tick` the hardware
timer goes off no later than the head is due plus `Slack`: the length of one `timer_tick` (`TickEnd`
computes the delay from the time at which the tick began) or the time from the clock to the lock
in `timer_set` (which arms the full delay); `TickInv`, inside one, how late the
timers were when it began. None of the four parts is inductive without the others.

**Timed wait** (`ThreadLifeProofs`): `UniprocessorWaits`: on one cpu
`InfiniteWaitsLast`, by `TimedInv == TypeOK /\ TimersCurrent /\ InfiniteWaitsLast` (the
timer in the queue, or being handled, belongs to the wait the thread is in, and there is none when it
is in no wait); `UniprocessorFrames` (`TimerDiesWithFrame`), from the same invariant.

**Scheduler** (`SchedulerProofs`; `SchedulerAssumption`: the constants have their types
and there are two priorities at least): `SchedulerInvariant`, `SchedulerPlacement`,
`SchedulerBookkeepingExact`, `SchedulerSwitchesToHighest`, and `SchedulerPreemptTimerExact`
under `"running" \notin RealTimeTargets`, without which it is false
([Findings](#findings)).

    IInv == Types /\ Queued /\ Current

`Queued`: the list of each priority has every `READY` thread of that priority once and
nothing else, the bitmap marks the lists that are not empty, and the wait queue has every
`BLOCKED` thread once. The mask of idle cpus is not among what is exact ([Findings](#findings)).
`Current`: the `RUNNING` threads are the current threads of
different active cpus they may run on. `Placement` counts occurrences in lists, which no
prover follows through list operations; `Lists(s, S)` ("s has every element of
S, once") is what the operations keep, and the counts follow from it at the
end. Every function that calls `thread_resched` is reduced to two lemmas: `Switch`
(a new current thread) and `Stay` (none). That `get_top_thread` finds the highest
candidate is a fact about the maximum of the bitmap, and that
`wait_queue_wake_all` queues everybody is one about a loop. Both are inductions. The library's
induction rules have an operator parameter, which the provers cannot
instantiate, but `WFMin` speaks of sets: `SetInduction` and `LeastElement` in `ListProofs` are
derived from it and applied to the set of numbers for which the claim holds.

**Life cycle** (`ThreadLifeProofs`; `LifeAssumption`, and `ReaperAssumption`, see
[Bounds](#bounds)): `ThreadLifeInvariant`, `ThreadLifeJoinFindsDeadThread`, `ThreadLifeFreedInTime`.

    IInv == Types /\ CallerInv /\ QueueInv /\ MemoryInv

`MemoryInv`: the memory of a dead thread is left with exactly one of the thread_t
itself (not joined yet), a caller about to free it, the delayed list, and the list being freed;
`CallerInv`: what a caller may count on where it is, e.g. a joiner woken without an error
finds its thread dead and with its magic. The one reaper makes this inductive.

**Ports** (`PortProofs`; `PortAssumption`): `PortInOrder` (`InOrder`), for all clients;
`PortNobodyAsleep` (`NobodyAsleepBesidePacket`) and `PortNoFault` (`NoFault`), for careful
ones.

    IInv == Types /\ PacketInv /\ GroupInv /\ WaitInv

`PacketInv`: the packets in the buffer of a port are those accepted for it and not yet
delivered, in order, whichever of write port and read port holds the buffer; `GroupInv`: the ports in
the list of a group are in that group, each once; `WaitInv`: a wait queue has exactly the threads
blocked there. With careful clients `CInv` adds who may sleep where and that nothing freed is reachable; of what
is being closed, that nobody sleeps on it, that no write port lists it and no group links it. The
instance TLC checks has one group; the proof, for any number, found that careful clients must
not call `port_group` either while another thread is between the check and the lock of
`port_group_add`: the port would be put into a second group.

**Flashing** (`BootProofs`, `HandshakeInv`; no assumption beyond the types of the constants):
`TransferInvariant`, `TransferBuffersNotShared`, `TransferContextOutlivesWriter`. As long
as neither thread has begun to stop, each buffer has exactly one of four uses: free, being
filled, full, being written; an event is the token for "free" or for "full", and at
most one signal is under way on it. A thread that has begun to stop signals events that mean
no buffer any more, and the proof shows that it touches no buffer either. The
contents of the buffers play no part, so the theorems hold for every image.

**Fastboot** (`BootProofs`; `FastbootAssumption`, `MaxPriAssumption`):
`FastbootInvariant`, `FastbootSlotDurable`, `FastbootAnswersMatch`, both for `calm` hosts only
(what happens with others is under [Findings](#findings)).

    IInv == Types /\ ThreadInv /\ (calm => TransferInv /\ HostInv /\ SlotInv)

`TransferInv`: a transfer that is waited for is pending or its end has been signaled, once,
and no other signal is about; `HostInv`: while connected, the host waits exactly if its
command has come and is not answered, and it is that command; `SlotInv`: how far
`set_active_slot` has got. Nothing is promised while the two writes are under way, and
OKAY is on its way only after both.

The first attempts at this proof failed for a reason: in `Bootctrl` and in
`Unplug`, CASE expressions had guards that overlap, so that TLA+ leaves open which arm is
meant while TLC takes the first. The code is an if-else chain, and so are they now.

**Boot memory** (`BootProofs`; `MapAssumption`, `PreloaderAssumption`, and the hypothesis
`0 \notin NewSizes`): `PagesPartitioned` (`Partition`), `PageMapRefinement`
(`ImplementsPageMap`), `HighestAllocated` (`AllocHighest`), `HoldersServed`
(`HolderIsServed`), `KernelTold` (`MemoryReported`). `AllocHighest` is about the blocks the code
does not pass over (`Fits`), and, like `reg` in `MemoryReported`, about a table that is not full;
`HolderIsServed` carries the conditions under which the code serves: room for the records that
a part takes, no bound crossed by a part that is mapped anew, and for a part that is given back a record at
or above it. The invariant `MblockInv` says of the
tables that they are `Sound`: free blocks lie in order and apart from each other, records are not
empty and disjoint, the slots after the last one are clean, free blocks and records together are
exactly the memory, and no block starts inside a record. The last is needed because an
empty block escapes the overlap test of `mblock_resize`, which is also why no record may be
resized to 0 pages (the one caller, `platform/mediatek/common/apu/vpu.c:1094`, keeps some).
Merging blocks and summing sizes are loops; set induction over the recursive
function shows what they compute.

**Only model-checked**:

* liveness, since fairness and ENABLED are beyond the prover: `WaiterServed`,
  `EventWaitEnds`, `TickEnds`, `NoStarvation`, `Reclaimed`, `Ends`, `Answered`;
* `ResultTruthful`: what the recursive definitions of the decoders compute;
* timers on several cpus, where the properties fail as they stand ([Bounds](#bounds)).

## Findings

**A mutex without owner can strand a thread** (run `mutex_stranded`). A waiter that timed
out is off the queue but counted until it runs (`mutex.c:103`). A release in
between takes the count for a waiter, wakes nobody and leaves no owner; the
next acquire sees count > 1 and blocks, on a free mutex. `semaphore.c:92` has
the same window: without `~bounded`, `NoIdleUnit` fails.

The following have no run of their own; a change of a cfg, or dropping the condition
on the kind of world, makes TLC show most of them.

Kernel:

* `thread_set_real_time` on a thread that runs on another cpu cancels the
  preemption timer of the calling cpu only (`thread.c:252`, comment at 251). With
  `"running"` among `RealTimeTargets`, `PreemptTimerExact` fails: the other cpu's next switch
  sets a timer that is set, and `timer_set` panics.
* A late timeout ends a later wait (`thread.c:1064`): on several cpus
  `timer_cancel` does not wait for a handler that is already off the queue, and the
  handler meets the thread in its next wait, which may be an infinite one. With
  `CPUs <- const_TwoCpus` in `MCTimedWait.cfg`, `InfiniteWaitsLast` and `TimerDiesWithFrame` fail. The
  comment at `thread.c:1087` says that such a wait "waits indefinitely".
* A timer set for 2^31 ms or more is early (see `const_Long` under [Bounds](#bounds)), and one whose
  caller is held up between the clock and the lock of `timer_set` (`timer.c:99`, 108) is late by as much.
* The mask of idle cpus loses updates: a cpu that starts calls `mp_set_cpu_idle` without
  `thread_lock` (`thread.c:898`, 945; `mp.h:77` asks for it) and races with a cpu that switches
  threads. The mask stays wrong until that cpu switches again; only `kernel/debug.c:112` reads it. As an
  invariant of `sched`, `mp.joining = {} => mp.idle = {c \in mp.active : curr[c] = Idle}` fails.
* `mp.realtime_cpus` is not updated when the running thread becomes real time or
  changes priority (`thread.c:510`); `thread_sleep_handler` sends no IPI, so a
  cpu may idle while two threads share another; with two cpus, a thread pinned to
  one may starve behind unpinned ones that use up their quantum alone on the other and come
  back with a fresh one; `thread_resume` documents `ERR_NOT_SUSPENDED` and never
  returns it.

Ports, without `careful`:

* `port_write` wakes one reader of the group, and one of the port only if the group
  has none, so a reader of a port in a group may sleep beside a packet; two readers of one
  port with one wake for two packets may too.
* A woken reader uses its port again without a check (`port.c:452`) after another thread
  may have freed it; while `port_close` has rescheduled (`port.c:563`, 570), a thread that passes
  the check of `magic` may sleep on, read from or close what is about to be freed, and its buffer may
  be gone already; `port_group_add` checks before it locks (`port.c:334`);
  `port_group_remove` leaves `gport` set, and returns with `thread_lock` held if the port is
  not in the list (`port.c:379`).
* Two creators of one name both succeed (`port.c:190`, which says so). `port_write`
  returns `ERR_PARTIAL_WRITE` when some readers got the packets and others did not.
  Readers of a port that was destroyed before they came block for ever.

Flashing:

* A truncated sparse image ends with OK: the decoder does not ask at the end
  whether all chunks have come. A chunk of type CRC passes one decoder and is refused by the other.
* The thread `write_storage_proc` is neither joined nor detached
  (`transfer_parallel.c:350`): each download leaves a thread structure and a stack.

Fastboot, without `calm`:

* A write that was given up (`WRITE_CMD_TIMEOUT`) stays queued, and its completion
  counts for the next transfer. A cable that comes back, or a configuration that is set again, before the
  thread has seen the host go lets the first command of the new session be taken as data of the old download
  (`flash_commands.c:255`).
* After a read that failed the idle timer is still set (`fastboot.c:331`); when the
  loop starts again, `timer_set` panics. In the model `pc` is then `"panic"`; boards with an
  idle timeout reach it by pulling and plugging the cable.
* With magic 0 in `misc`, `read_write_partition_info` succeeds, leaves the
  caller's metadata uninitialised and the device open (`bootctrl_api.c:168`).

Boot memory:

* `mblock_resize` to 0 shifts the records and does not clear the last slot
  (`mblock.c:745`), which a comment at 896 says one must; the next allocation finds it in
  use, fails and panics. With `NewSizes = {0, 1}`, `AllocHighest` fails. The only caller passes a size
  above 0.
* `mblock_free_partial` asks for a record that starts at or above the address
  (`mblock.c:1074`), so freeing a middle part panics unless another record lies
  higher; the free itself handles the middle. `HolderIsServed` says when it works.
* The test for full tables has no effect: `?:` takes the whole disjunction as its
  condition (`mblock.c:316`), so a record too many would be written past the end.
* In each free block only the highest place is tried (`mblock.c:360`). If that one crosses a power of two
  above 4G the block is passed over, even if a lower place does not cross it, and the call
  fails or gives a lower place, although the comment at 550 says "as high as possible". `Fits` leaves
  out exactly these blocks.

## What is not modelled

Arch code, platforms, drivers, the C library, consoles, graphics and vendored code: hardware
access or data without a protocol of the kernel; they are by far the largest part of the
repository (drivers, register tables, pin maps), so the share of its
lines that is modelled is small. Thread-local storage, names,
statistics and dumps of `thread.c`. `THREAD_FLAG_DEBUG_STACK_BOUNDS_CHECK`. Spinlocks
are taken to work. Memory is not reused in `ThreadLife`. A timeout of 0 and
one of less than a tick are told apart only where the code does. Of fastboot: pcie, malloc that
fails in `fastboot_ack`, `fastboot_info`, and what most commands do. Of the boot memory:
the device tree it writes, names and queries. `MAX_PORT_GROUP_COUNT`. The parts under
"Plan" are listed in `PROJECT.json` as not modelled.

## Plan

In this order:

1. Of what is modelled: the decoders as functions over chunks, so that `ResultTruthful` comes
   within reach of set induction; timers on several cpus with a client rule that makes
   `QueueSorted` true.
2. `Cbuf` and `Dpc`: event against data, several readers; `Cbuf` refines a bounded
   FIFO. `Dpc` needs `thread_lock` as a variable, since `dpc_queue` signals under it.
3. `BCache`: lists, references, dirty blocks, failing I/O; `Bio` reference counts.
4. Heap and physical memory: free lists against a page map like `PageMap`.

Modules that will be proved about use no recursive operators, state their
invariants as conjunctions of named parts and take their bounds as constants.
