# The RT-Thread kernel in TLA+

The repository is RT-Thread, a real-time operating system for microcontrollers
(the tree is a fork made for a smart lock product; it holds no application of
its own).  Its own logic is the kernel under `src/src/`: a preemptive priority
scheduler, threads, timers, and the inter-thread communication (IPC) objects
built on them.  Everything else is drivers, ports to boards, or third-party
code above the kernel.  This project models the kernel, checks it with TLC and
proves theorems about it with TLAPS.

## Inventory

| component | source | state | operations | what makes it hard |
|---|---|---|---|---|
| scheduler | `scheduler.c` | ready lists, ready bitmap, current thread, lock nesting | insert, remove, `rt_schedule`, enter/exit critical | bitmap, lists and `thread->stat` must agree at every point where an interrupt can come; calls made while locked |
| threads | `thread.c`, `idle.c` | `struct rt_thread`, the defunct list | init/create, startup, suspend, resume, sleep, yield, control, delete/detach, exit, clean-up in the idle thread | several operations are more than one interrupt-disabled section; the tick interrupt wakes threads in between |
| semaphore | `ipc.c` | value, suspend list | init/create, take, trytake, release, control (reset), detach/delete | time-out against release; release from interrupts; the loop of `rt_ipc_list_resume_all` |
| mutex | `ipc.c` | value, owner, hold, original priority, suspend list | init/create, take, release, detach/delete | recursion, hand-over to a thread that has not run, priority inheritance with several mutexes |
| event | `ipc.c` | event set, suspend list, a request per thread | send, receive (AND, OR, CLEAR), control (reset), detach/delete | the walk of a send takes threads off the list it walks, and the set changes under it |
| mailbox | `ipc.c` | ring of mails, lists of waiting receivers and senders | send, receive, control (reset), detach/delete | waits that are resumed, find nothing and wait again for the time left |
| message queue | `ipc.c` | queue and free list of messages, waiting receivers | send, urgent, receive, control (reset), detach/delete | sends and receives in two sections with a copy between them |
| clock and timers | `clock.c`, `timer.c` | tick, lists of hard and soft timers, the timer thread | start, stop, control, detach, check | wrap-around of the tick; the timer thread decides to sleep before it sleeps; functions that operate timers while the list is walked |
| memory pool | `mempool.c` | free list, waiters and their count | alloc, free, detach | no second test after a wait; count against list |
| serial driver | `bsp/stm32f40x/drivers/serial.c` | the list of data nodes for the DMA channel | write, transfer-complete interrupt | the interrupt and the writer leave the start of a transfer to each other |
| heap | `mem.c`, `memheap.c`, `slab.c` | block lists | malloc, realloc, free | split and merge, a realloc that moves in three sections |
| objects, devices | `object.c`, `device.c` | object lists, open counts | init, allocate, detach, open, close | few |
| driver helpers | `components/drivers/src/` | completion, data queue, ring buffer, pipe, portal | wait/done, push/pop, put/get | used from interrupts and threads |
| POSIX layer | `components/pthreads/` | over the above | | |
| module loader, print library, drivers, shell, file systems, network, ports | `module.c`, `kservice.c`, `components/*`, `bsp`, `libcpu` | | | not kernel logic, third-party, or assembly |

Interaction: an IPC call changes its object and the scheduler's lists inside one
section with interrupts disabled, and then calls `rt_schedule` with interrupts
enabled again; a waiting thread's timer, which expires in the tick interrupt,
takes the thread off whatever list it is on and makes it READY.  The lists are
intrusive: one node (`tlist`) per thread, on the ready list, on a suspend list or
on the defunct list.  The whole kernel therefore stands on one invariant, which
relates `stat`, the lists, the bitmap and the timers (`KernelOK`).

## Modules

| module | what it is |
|---|---|
| `Kernel` | the kernel state as one record `k` and the primitives of `scheduler.c`, `thread.c`, the thread timer and the suspend lists, each an operator from state to state; `KernelOK` |
| `System` | who runs: boot, the current thread's program counter, interrupts-disabled stretches, the tick interrupt |
| `Threads` | the life of threads, with every operation of `thread.c` and `idle.c` split where interrupts are enabled |
| `CountingSemaphore` | abstract specification: a count, waiters, and threads that were granted a token; the count is set only in a reset or initialisation (`open` is FALSE) and otherwise changes by one |
| `Semaphore` | one semaphore of `ipc.c` used by threads and interrupt handlers; refines `CountingSemaphore` |
| `Mutex` | the mutexes of `ipc.c` |
| `Event` | one event object: requests, the walk of `rt_event_send` node by node, receive, reset, detach |
| `BoundedQueue` | abstract specification: a FIFO of bounded length, each item read once; only an item that its writer has announced as urgent goes to the front, and only a reset or initialisation (`open` is FALSE) drops items |
| `Mailbox` | one mailbox; refines `BoundedQueue` |
| `MessageQueue` | one message queue, with `next` links and contents; refines `BoundedQueue` |
| `Timers` | tick, hard list and tick interrupt, soft list and timer thread, the calls of threads and of timer functions |
| `MemPool` | one memory pool and the calls of its users (no next-state relation of its own) |
| `SerialDma` | the DMA transmission of the serial driver composed with `MemPool`: its writers and its interrupt are clients of the pool |
| `Allocator` | abstract specification: disjoint places of the sizes asked for |
| `Heap` | `mem.c`: blocks, links, `lfree`, statistics, moves in progress; refines `Allocator` |
| `MCThreads`, `MCSemaphore`, `MCMutex`, `MCEvent`, `MCMailbox`, `MCMessageQueue`, `MCTimers`, `MCSerialDma`, `MCHeap` | small instances for TLC |
| `KernelProofs` | lemmas: what each primitive of `Kernel` and each step of `System` preserves |
| `SemaphoreProofs`, `MutexProofs`, `EventProofs`, `MailboxProofs`, `MessageQueueProofs`, `ThreadsProofs` (threads and timers), `MemoryProofs` (heap and memory pool) | for each component the inductive invariant, the theorems, and the refinement of its abstract specification where it has one |

How code becomes a step.  An action is a piece of code that nothing can come
in between of: a section with interrupts disabled together with the code before
it that only touches the thread's own variables.  `rt_sem_take`, for instance, is
`TakeNow`, `TakeFail` or `TakeSuspend` (its section), `TakeSchedule` (its call of
`rt_schedule`) and `TakeReturn` (the test of `thread->error`).  Where the code has
several sections (`rt_thread_resume`, `rt_thread_delete`, the loop of
`rt_ipc_list_resume_all`) the model has several steps.  `pc[t]` says between
which of them a thread is; a preempted thread keeps its `pc`.  Calls the code
makes inside an interrupt-disabled section are applied within the step.
`irq` names a thread that keeps interrupts disabled over several steps.

What is abstracted.  Outside `Timers` ticks are not counted: an active timer may
expire, and the time slice may end, at any tick, which covers every tick value;
waiting times are "zero", "timed" and "forever", and the rest of a waiting time that the
mailbox and the message queue compute is what `TimeLeft` makes of them.  `Timers`
counts ticks modulo `TickMod`, which stands for 2^32, so that wrap-around is frequent.
The bitmap and `number_mask` are sets of bit
numbers; the build is the one with at most 32 priorities.  A timer list is a
sequence (a skip list of one level, the default).  Mails and message contents are
model values.  In `Heap` addresses are offsets, as in the code; the section
between take and release of `heap_sem` is one step, which is what `Semaphore` shows
of it.  Hooks, logs, names and stacks are left out.

Undefined behaviour.  `rt_list_entry` of the head of an empty list
is the value `Wild` as a current thread, and the variable `fault` in
`rt_ipc_list_resume_all` of `Semaphore` and `Mutex`; in `Event`, `Mailbox`, `MessageQueue`, `Timers`
and `MemPool` a step that would
use a list head or a null block as an object puts its thread at `pc = "lost"`, from
where nothing more is modelled.  The properties speak of everything up to that
step.  The memory of a created thread is not cleared, so its
`number_mask` is any set of bits until `rt_thread_startup`.

What is assumed of the application: only its own rules of use.  `Ops` selects
which calls it makes (`TimerOps` in `Timers`, where `AppTimer` says which timers each thread operates).  A thread that suspends or deletes itself calls
`rt_schedule` afterwards; it exits with the scheduler unlocked; a semaphore or mutex is
initialised again only after a detach has finished; a mutex is detached when
free or by its owner.  Mutex users do not wait with the scheduler locked.
A timer's function operates timers of its own kind, and a timer is detached by a thread
while nothing else is being done with it.  Heap users free and resize what they
were given, and nobody touches a block that is being moved.  `Bracketed` says whether the application
guards a suspend, resume or delete of a thread by disabling interrupts, the way
`ipc.c` itself does around its calls.  One kind of deletion is left unguarded even then, and ticks,
time-outs and handlers come in between its four sections: that of a thread that is `Shielded`, which is READY and
is deleted (by another thread or by itself) with the scheduler locked, as in `rt_module_unload` and `_exit`; or,
with `"delete_open"` in `Ops`, is deleted by another thread with the scheduler unlocked, as
in `examples/kernel/thread_delete.c`, where the deleting thread is also preempted in the middle.  In both cases the
other threads make no call about the two (`Live`).  A memory-allocation failure of a
create call changes nothing that is modelled.

`created`, `lazy`, `credit`, `arrived`, the `held` of `Mutex`, `called` (`Mailbox`),
`due` and `grant` (`Event`), `want` and `cut` (`Heap`) are history variables that no guard of
the code depends on (`created` and `credit` also bound the state space).
`slip` (`Timers`) counts the ticks for which the timer thread is kept from sleeping.

## Runs that pass

| run | instance | checks |
|---|---|---|
| `Threads` | two threads (one static with a cleanup function, one dynamic), idle, all calls, `Bracketed`; deletions of READY threads interrupted and preempted between their sections | `KernelSound` (types, and `KernelOK` whenever interrupts are enabled, where a thread that is being deleted counts as CLOSEd); dead threads are unreachable and kept until they are freed; preemption |
| `SemaphorePrio` | three threads (two of one priority), idle, all waiting times, release and trytake from interrupts, reset, sleep | `KernelSound`, no lost wake-up, nobody stranded, service order, tokens conserved however releases, time-outs, resets and a trytake from an interrupt race, refinement of `CountingSemaphore`; under fairness, a timed take of the highest thread returns |
| `SemaphoreFifo` | the same threads, no time-outs, detach and re-initialisation, priority changes, scheduler lock | order of arrival |
| `MutexPrio` | high, middle and low thread, one mutex, recursion to 2, time-outs, foreign releases, fair | `KernelSound`, owners and holds agree with what threads believe (exclusion), waiters accounted for, inheritance and its end; no unbounded priority inversion |
| `MutexPair` | two threads, two FIFO mutexes, time-outs, detach | owners and holds agree (exclusion) |
| `Event` | three threads with AND, OR and CLEAR requests over two bits, all waiting times, sends from interrupts, reset, detach | no thread waits for bits that are set; bits are neither lost nor given twice; a receiver returns what was set when it was woken |
| `Mailbox` | two slots, two mails, a sender, a receiver and a thread that does both, all waiting times, sends from interrupts, reset, detach | no lost wake-up on either list, a timed call never waits without a timer, nobody stranded, refinement of `BoundedQueue` |
| `MessageQueue` | two messages, two contents, the same roles, urgent, reset, detach | every message is on one list or in one hand, no lost wake-up, refinement of `BoundedQueue` |
| `Timers` | application thread, timer thread, idle; two hard and two soft timers, one of each periodic; `TickMod = 10` | lists sorted across wrap-around, flags and lists agree, due hard timers are served in their tick, the timer thread wakes in time, stopped timers are silent |
| `SerialDma` | two blocks, three threads, all waiting times, frees by threads, detach, fair | blocks are free, held or linked, never two of these; the head of the link is being sent; no lost wake-up; nobody stranded; linked data is transmitted |
| `Heap` | two threads, four sizes, heap of 14 bytes with 2-byte headers | links, merging, `lfree`, statistics, no leak, refinement of `Allocator` |

The type invariant of a module is a conjunct of one of its checked properties.  Each property has a
mutant in `PROJECT.json`: a plausible bug of the code under which TLC finds it violated.

Bounds.  Two threads besides idle are enough for one to be preempted inside
any call about the other; three are what the order of a list and priority
inversion need.  `MaxCreate` and `MaxNest` bound thread creation and the scheduler lock
(one creation lets a freed thread object be used again), `MaxCredit` the releases that
are outstanding (one or two: one more than can be waiting at the point of a race), `MaxHold` recursion (two is
the first level that differs from one).  `ValueMod` stands for 2^16.
A queue of two is full, empty and in between, and its ring wraps.  `TickMod = 10`
with times of one to three keeps times below half of the range, as `rt_timer_start`
asserts, and lets the tick wrap while timers are on the lists; `MaxSlip` bounds the ticks for
which a call may be interrupted, since the code supposes that nothing is late by half of the range.
`MaxHeld` and `MaxWaiting` bound the blocks of a thread and `suspend_thread_count`
(three threads can wait at once).  The heap holds at most four blocks of the least size,
so that both neighbours of a block can be free; the sizes are nothing, below the
least, above it, and one that fits only a free heap.
Symmetry is used for mails, for message contents and for the two threads of `Heap`, which
no definition tells apart; threads elsewhere differ in priority or role.

Fairness.  The processor does not stop: a thread that is current and inside a
kernel call takes its next step (weak fairness in `Semaphore` and `Mutex`).  Timers that
are active expire, because the tick interrupt keeps coming.  A transfer that was
started ends with its interrupt (weak fairness in `SerialDma`, which the DMA
controller guarantees).  Nothing is assumed of
application code, with one exception that `TopTakesMutex` needs: a thread
that has a mutex and runs again and again releases it in the end (strong fairness of its
releases).  No fairness is assumed between threads: a thread of middle priority may compute
for ever.

## The run that finds a disagreement

`TimersStopNext` states the sentence of `timer.c:403`, "This function will stop the timer", for
soft timers: the function of a stopped timer is not called.  In the run `Timers` the
function of a soft timer stops itself and starts others, and the property holds.  Here it
also stops the timer that expires next.  `rt_soft_timer_check` has saved that timer's
node (`timer.c:577`); `rt_timer_stop` links the node to itself; the walk goes on with it and calls the
function of the stopped timer, and does not get back to the list head.
(`rt_timer_check`, for hard timers, starts again from the head each time.)

## Limits of the code that no run is kept for

How to see each in the models:

* `rt_thread_delete` and `rt_thread_detach` are four sections.  When the thread waits, the tick or a handler
  between two of them puts it back on a ready list, whether the scheduler is locked or not
  (`rt_module_unload`, `module.c:1438`; `_exit`, `components/libc/newlib/syscalls.c:408`; `pthread_cancel`,
  `components/pthreads/pthread.c:519`); `rt_thread_resume` can insert a thread twice, and `rt_thread_suspend`
  can suspend one that has exited: `KernelSound` and `DeadAwaitIdle` of `Threads` with `Bracketed = FALSE`.  They
  are safe under a caller that disables interrupts around them, and deletions of READY
  threads under the ones described above, which is what the run `Threads` shows.
* A thread that detaches itself with the scheduler unlocked (`pthread_exit`, `pthread.c:322`) is off its ready list
  after the first section; a tick that switches away from it then ends its execution, and it
  never gets to the list of the idle thread.  `Threads` has this call with `Bracketed = FALSE`; no
  property speaks of it, since a deletion that does not go on is like one that is slow.
* Deleting a thread that was never started clears ready bits by its uninitialised
  `number_mask`: `KernelSound` with `"delete_init"` in `Ops`.
* `rt_ipc_list_resume_all` tests the list outside its section and can take the list head for a
  thread: in `Semaphore` with timed waits and `"detach"`, `fault` becomes TRUE.
* A take that has to wait under `rt_enter_critical` returns RT_EOK at once:
  `NoStranded` with `"wait_locked"` in `Ops`.
* Releasing one of two mutexes drops the priority inherited through the other (`ipc.c:812`):
  `Inherited` with two mutexes and three threads.  It also fails for one FIFO mutex and three
  threads (a hand-over gives the new owner nothing of the priority of those who still
  wait), and `BoostEnds` fails for two mutexes released in the order they were taken.
* `rt_thread_idle_excute` returns after a static thread although its comment says that one
  call does all the clean-ups.
* A priority change does not reorder a suspend list (`ServiceOrder` with
  `RT_IPC_FLAG_PRIO` and `"priority"` in `Ops`); a release at the largest value wraps it to zero
  (`Conservation` with `MaxCredit >= ValueMod`).
* A thread woken by `rt_mp_free` takes a block without a second test (`mempool.c:386`), and
  `suspend_thread_count` is not decremented by a time-out, so that a later free takes the
  list head for a thread (`mempool.c:435`): the steps `AllocLost`, `DmaTxIsrLost` and the like.
* A waiting thread goes to the front of the list that `rt_mp_free` takes from
  (`mempool.c:361`), so the latest is served first.
* A periodic timer with a time of zero keeps `rt_timer_check` in its loop (`timer.c:515`); a timer detached
  in its own function keeps its flag and is started again (`timer.c:200`).
* `mutex->hold` is 8 bits wide (`ipc.c:670`), and an owner keeps a raised priority after the waiter
  that caused it has timed out (`ipc.c:740`); `MaxHold` bounds the first, nothing is claimed of the second.
* `rt_timer_start` tests the flag of a timer in one section and inserts it in another, so two threads that start
  the same timer insert it twice: `ListsSound` of `Timers` with two threads that share a timer in `AppTimer`.
* `rt_timer_start` looks whether the timer thread is suspended outside the section in which
  `rt_thread_resume` makes it READY, so two threads that start soft timers can resume it twice, the second
  time while it sleeps again: `WakesInTime` with two threads that operate soft timers.
* A thread of higher priority than the timer thread can start a soft timer after the timer
  thread has read that there is none and before it suspends itself; it is READY, so nobody wakes it, and it
  suspends without a time-out (`timer.c:621`): `WakesInTime` with an `InitPriority` in which another
  thread comes before the timer thread.  `RT_TIMER_THREAD_PRIO` is 0 by default (`timer.c:45`); the boards of this
  repository that use soft timers set it to 8 (`bsp/at91sam9260/rtconfig.h:32`, `mini4020`, `sep6200`).
* `RT_TICK_MAX` as "no soft timer" is also a real time-out tick (`timer.c:618`): the step `LoopLost`.
* `rt_realloc` frees the end of a block below `lfree`, where `rt_malloc` does not look
  (`mem.c:444`): `LowestFree` without `cut`.  A free block that fits exactly at the end of the heap is
  not found (`mem.c:280`).  `RT_ALIGN` wraps for sizes near the largest number
  (`mem.c:263`): `HeapAssumption` excludes them.

## Proofs

Each theorem is for every value of the constants that satisfies the named assumptions of
the modules: any finite set of threads, any priorities, waiting times, sizes and contents.
Where a theorem has a further hypothesis, it is the condition under which the code is right,
and TLC has a counterexample without it (see the limits above); of `Punctual` it is only claimed that
it is enough.  Each inductive invariant was
checked by TLC on the instance of the component's run before it was proved.

| theorem | property | hypothesis |
|---|---|---|
| `ThreadsSound`, `TheDeadAwaitIdle`, `SchedulingIsPreemptive` | `KernelSound`, `DeadAwaitIdle`, `Preemptive` of `Threads` | `Disciplined`: callers disable interrupts around a suspend or resume of another thread; they delete a READY thread (themselves too) with the scheduler locked, or disable interrupts around the deletion; no thread is deleted before its start |
| `SemaphoreSound`, `NoWakeupIsLost`, `NobodyIsStranded` | `KernelSound`, `NoLostWakeup`, `NoStranded` of `Semaphore` | `"wait_locked" \notin Ops` |
| `SemaphoreRefinesCounting` | `RefinesCounting` | the same |
| `TokensAreConserved` | `Conservation` | the same, and `MaxCredit < ValueMod` (the 16-bit value does not wrap) |
| `ListIsServedInOrder` | `ServiceOrder` | the same as the first, and a FIFO list or no priority changes (`rt_thread_control` does not sort the list again) |
| `MutexSound`, `MutexExcludes`, `WaitersAreAccounted` | `KernelSound`, `OwnersAgree`, `WaitersAccounted` of `Mutex`, for any number of mutexes | none |
| `PriorityIsInherited`, `PriorityIsRestored` | `Inherited`, `BoostEnds` | `SingleMutex`: one mutex, `RT_IPC_FLAG_PRIO`, not detached |
| `NoEventIsMissed`, `EventsAreConserved`, `WhatIsReceivedWasSent` | `NoMissedEvent`, `EventsConserved`, `ReceivedWasSent` of `Event` | none |
| `MailboxLosesNoWakeup`, `MailboxKeepsTime`, `MailboxRefinesQueue` | `NoLostWakeup`, `TimedStaysTimed`, `RefinesQueue` of `Mailbox` | none |
| `MessageQueueLosesNoMessage`, `MessageQueueLosesNoWakeup`, `MessageQueueRefinesQueue` | `MessagesAccounted`, `NoLostWakeup`, `RefinesQueue` of `MessageQueue` | none |
| `HeapStaysLinked`, `HeapStaysCoalesced`, `HeapLeaksNothing`, `HeapSearchesFromTheLowest`, `HeapCountsExactly`, `HeapRefinesAllocator` | `Linked`, `Coalesced`, `NoLeak`, `LowestFree`, `UsedMemExact`, `RefinesAllocator` of `Heap` | none (`HeapAssumption` keeps `RT_ALIGN` from wrapping) |
| `PoolAccountsForBlocks`, `PoolLosesNoWakeup` | `BlocksAccounted` of `SerialDma`, `NoLostWakeup` of `MemPool`, for any number of blocks and threads | none |
| `TimerListsAreSound`, `HardTimersServedInTime`, `TimerThreadWakesInTime`, `StoppedTimersStaySilent` | `ListsSound`, `ServedInTime`, `WakesInTime`, `StoppedStaysSilent` of `Timers`, for any number of threads and timers | `WellUsed(d)` for some `d`: each timer is operated by one thread, and soft timers by one thread only (`OneOperator`); a timer's function operates that timer or ones that no thread operates, and the function of a soft timer stops no other (`CallbacksApart`); the timer thread has the highest priority (`TimerThreadFirst`); no time is longer than `d`, and `d` and a few times `MaxSlip` fit into half of the range of the tick (`Punctual`) |

**The kernel.**  `KernelProofs` proves for each primitive of `Kernel` what it keeps of
`KernelState` and `KernelOK` and which fields it leaves alone.  A thread between two lists
(`Floating`) is where `KernelOK` is broken in the middle of a primitive; the
lemmas say what insertion needs of it.  For the IPC objects it also states `SystemOK(blocking)`,
the part of every invariant that is about scheduling: `KernelOK`; the idle thread is READY
once the scheduler runs (so that the bitmap is never empty and `rt_schedule` finds a
thread); the current thread is READY unless it is at one of the places `blocking`, on
its way into `rt_schedule` after suspending itself (so a thread that makes a call
is on no list); a thread is on a suspend list only while it is suspended.  Its lemmas
`...Effect` say what boot, a tick, a time-out, `rt_schedule`, a wait and a wake-up
do to it, and `MutexProofs`, `EventProofs`, `MailboxProofs`, `MessageQueueProofs` and `MemoryProofs` cite them.
`CountKept`, `CountMore` and `CountLess` are what a step does to a number of threads, for the proofs that match
woken threads with what they were woken for.

**Semaphore.**  `IInv` is the three first properties and `Started`, `CurrentReady` (as above),
`NestOK` (nobody waits with the scheduler locked, so `rt_schedule` in take does switch away)
and `DetachDone` (when a semaphore is not alive and no detach is in its loop, its
list is empty, so the re-initialisation loses nobody).  Every step is then classified once by
its effect on the books (`Facts`: nothing, a token taken, released, granted, a waiter
added or removed, a reset, a detach or initialisation), with `Books` as invariant: a waiting thread has no error, and `arrived`
is the list as a set, without repetition.  The refinement, `Balance` (`credit` is the value and
the granted tokens, by the cardinality of a set that changes by one thread) and `InService` (the list
is ordered by `Service`, arrival or priority and arrival) follow from that classification.

**Mutex.**  Besides `SystemOK`: at most one thread believes it has a mutex and it is the owner
(`MutualExclusion`); a free mutex has no owner, hold or waiter (`FreeMeansFree`); a thread inside a take
is on the list, or owns the mutex by a hand-over, or has an error (`WaitersTake`, `TakersAccounted`); a
mutex that is not alive is not held (`DeadUnheld`); an owner was started (`OwnersStarted`).
`PrioInv` adds for a single mutex that its list is in order of priority and that `original_priority`
is the owner's own.  The order is what makes the first waiter the one whose priority counts when the
mutex is handed over; with FIFO order or a second mutex it is not.

**Event.**  `set = due` says that the bits are the ones the history accounts for; `Walked` says
where `rt_event_send` is in its list: every thread before that place was looked at with a set that has
only lost bits since, so nobody behind the walk is satisfied by what is left when it
ends; `ThreadOK` relates a request, the list, the error and the bits granted.

**Mailbox.**  `RingOK` relates the offsets: `in = (out + entry) % Size`.  `SendCount` and `RecvCount` are
the two halves of `NoLostWakeup` and are kept by counting: a put or take changes the entries by one
and wakes one thread, and a woken thread that runs uses up one.  `ThreadOK` says that a suspended caller is on its
list, with its timer running exactly if it asked for a limited time.  For the refinement
`IsRing` describes the contents of the ring by index, with one case distinction for the wrap
(`ModOnce`), so that a put appends and a take drops the head;
nothing is announced as urgent (`urgent <- {}`), so a put cannot overtake.

**Message queue.**  `Waits` is the part about the threads, as in the mailbox.  `Pool` is the part about
the messages: there are two sequences of messages, `c` and `f`, such that the `next` fields lead
from the head through `c` to the tail and from the free pointer through `f` (`Lists`), no
message is on both, every other one is in the hand of exactly one thread (`Accounted`), and `entry` is the
length of `c` except in the middle of a reset (`Counted`); and a call between its two sections has
its message filled or emptied as its place says (`CallOK`).  Each operator of the module
(`Alloc`, `CopyIn`, `Link`, `LinkUrgent`, `Unlink`, `Free`, `Fresh`) has a lemma that gives the two
sequences after it.  `ChainIs` proves that following the links, as the property `MessagesAccounted` does
with a recursive function, finds `c`: the function exists, and is unique by a least counterexample.  The
refinement maps the first section of `rt_mq_urgent` to `Announce`, a link to `Put` or `PutUrgent`, an unlink to `Take`, the end of a receive to `Return`, the sections of a reset and an initialisation to `Reset`, and
the copies, which are made with interrupts enabled, to no step.

**Threads.**  In the other components a thread is always on the list its `stat` names when a
step ends.  Here a call about another thread takes several steps, so `IInv` says for each thread
in which window it is: `WindowOK` names for every place of a call what is not yet true of the
thread it is about (`Window`), and `Floating` of the kernel lemmas is what one step of such a call hands to
the next.  `IrqOK` says that only one call can be in such a window, which is what
`Disciplined` gives: either interrupts are disabled, or it is a deletion with the scheduler locked, where ticks and
handlers come in and nobody else runs (`Masked`, `IrqFits`).  In such a deletion the thread is off every list while its
`stat` is still READY, so the lemmas about the kernel are applied to the view in which it is CLOSEd already, and each
interrupt is shown to act alike on the state and on that view.  `CurrentOK`, `BootOK` and the parts of `Settings` (dead threads are on the lists of the dead
only, a thread that is being started, the idle thread, none forgotten, threads that suspend
themselves) are what each window needs of the rest, and `Best` is preemption: the current thread has the
highest priority unless a call that ends in `rt_schedule` is in progress.

**Heap.**  The inductive invariant is `HeapInv`: types, the three properties, `WantFits` (a block has
room for what its owner asked for, without which a block that was given out could lap over
its neighbour) and `JobsOwn` (the two blocks of a move in progress belong to the
mover, so that the free at its end returns a block that is still in use).
The argument goes by what happens to the list: `AbsorbLinks` (a block takes in the next one) and
`SplitLinks` (a block is cut in two) keep the links; `PlugForwardOK` and `PlugHolesOK` build
`plug_holes` from the first, `TakeOK`, `FreeOK` and `ShrinkOK` are the bodies of malloc, free and the
shrinking realloc.  `Coalesced` is broken inside a free, at one block only, which is what
`PlugHolesOK` repairs.  For the refinement `DataApart` says that the data of two used blocks do not
overlap, and each call maps to `Obtain`, `Release`, `Resize` or a stutter.
`LowestFree` is inductive together with `HeapInv`: `PlugHolesLowers` says that `plug_holes` takes blocks away
and never raises `lfree`, `TakeRaises` that malloc raises it over no free block, and the block that a
shrinking realloc frees is in `cut`.
`UsedMemExact` counts the bytes that lie in used blocks as the members of a set, so no sum is needed:
the bytes that malloc gains and free gives up are an interval disjoint from the rest, whose
cardinality is its length (`BytesGained`, `TakeEnds`), and merging free blocks changes no used byte.

**Memory pool.**  The two theorems are about the composition of pool and serial driver, `Spec` of `SerialDma`.
`PoolInv` is both properties with `SystemOK` and `LostOK` (a thread that followed a stray pointer keeps
interrupts disabled, so nothing follows it).  A block is on the free list, in one hand or
on the link, each pairwise apart; `Located` and `AccountedAfter` reduce a step to the one block
that it moves.  The free list is a stack without repetition, so its length is the number of its members
(`LenIsCardinality`), and `block_free_count` is that length.  What is subtle is
`suspend_thread_count`: a time-out takes a thread off the list and does not decrement it, so it is only never
*below* the length of the list.  That is enough for `rt_mp_free` not to miss a waiting thread, and it is why
it can find none (the steps that end at "lost").  For the wake-ups: a free adds one block and wakes
one thread while any waits, a woken thread that runs takes one, and an allocation that finds
the list empty adds a waiting thread while there is nothing to match.

**Timers.**  Ticks are numbers modulo `TickMod`, and the code compares them by the sign of a difference.
`LeftIn(s, x)` is the signed distance from now to the time-out of `x`; `LeftIs`, `LaterIs` and `ExpiredIs` turn every
modular comparison of the code into one of distances, as long as these stay within half of the range.
`Clock(s, low, lo, d)` says that they do: both lists are without repetition, sorted by distance, and each distance lies
between a bound for lateness and `d`.  Each operator on the lists has a lemma that it keeps this
(`InsertClock`, `RemoveClock`, `SetTimeoutClock`, `TidyClock`, and `ApplyClock` for what a timer's function does).
The inductive invariant `TimersInv(d)` has two halves.  `ThreadsOK` is about the threads; its point is `TimerThreadOK`: a
timer thread that is READY is the one that runs, except where a starting thread has just made it READY and
is about to call `rt_schedule`.  `TimersAllOK(d)` is about the timers: `ClockOK`; `OpsOK`
(a timer that a call is between two sections on is off the lists, or about to be taken off); `PendingOK` (what is about to
be inserted is not late by more than the call was interrupted for); `WalkOK` (in the walk of `rt_soft_timer_check`, everything
before the saved node is not due, and the node is still on the list, which is what `CallbacksApart` gives);
`SleepOK` (what the timer thread computed before it sleeps is still true of the list when it sleeps, up to
`slip`; this is where `TimerThreadFirst` is used).  There is one lemma per action.  `ServedInTime` follows because
`rt_timer_check` leaves only when the head is not due, and the head is due first.

Only model-checked: the liveness properties `TopTakeReturns`, `TopTakesMutex` and `Transmitted`, since
fairness is out of the prover's reach.  Every invariant, action property and refinement that a run checks is
also stated by a theorem.  Of the deletions that the run `Threads` interrupts, those with the scheduler unlocked
(`"delete_open"`) are only model-checked.

## Plan

Done: every module of the table above and the proofs above.  Left, in this order:

1. `Completion`, `DataQueue` and `RingBuffer` of the driver helpers on `System`, and the
   generic serial driver above the data queue.
2. `ReadyBitmap`: the two-level table of 256 priorities and `__rt_ffs` against the
   least element of a set.
3. The POSIX layer (condition variables, read-write locks, barriers) on `Semaphore` and `Mutex`;
   `memheap.c` and `slab.c` against `Allocator`.

## Not modelled

* Driver helpers, POSIX threads, `memheap.c`, `slab.c`, the generic serial driver and the build with 256
  priorities: see the plan.
* Kernel objects, devices, the print library: little or no state that two
  actors change; the module loader parses and relocates files.
* Drivers other than the DMA transmission of one serial driver: most of their state is in the
  hardware, which the repository does not describe.
* Shell, file systems, network, C library: third-party code or interpreters above the kernel.
* Board and CPU ports: assembly and start-up code, modelled by what the kernel uses
  `rt_hw_interrupt_disable` and `rt_hw_context_switch` for.  Most of the repository's lines are here, in
  vendor libraries and register definitions, and have no behaviour to model.
* In `Timers`, an `rt_timer_start` or `rt_timer_stop` that a soft timer's function calls is one step, although
  it has two sections as the same call by a thread has (`SoftCallback`), so a tick between them is left out; and the
  test of `stat` in the `rt_thread_resume` of the timer thread is one step with the section after it (`StartResume`), which
  nobody can tell while the timer thread has the highest priority.
* Nested interrupts: a handler is one step (the tick interrupt of `Timers` is several, with
  interrupts disabled).
