------------------------------- MODULE Kernel -------------------------------
(***************************************************************************)
(* The scheduler of the kernel and the thread primitives every other part  *)
(* is built from: src/scheduler.c, src/thread.c, the thread timers of      *)
(* src/timer.c and the suspend lists of src/ipc.c.                         *)
(*                                                                         *)
(* The kernel state is ONE record k, and each primitive is an operator     *)
(* that maps a kernel state to the next one.  An operator stands for a     *)
(* section of code that runs with interrupts disabled (or for one call     *)
(* made inside such a section), so the modules that extend this one decide *)
(* where another thread or an interrupt can come in between.               *)
(*                                                                         *)
(*   k.stat[t]    thread->stat, "none" before creation and after free      *)
(*   k.prio[t]    thread->current_priority                                 *)
(*   k.mask[t]    thread->number_mask, as the set of its bits              *)
(*   k.error[t]   thread->error                                            *)
(*   k.ready[p]   the list rt_thread_priority_table[p]                     *)
(*   k.wait[q]    any other list a thread's tlist can be on: the           *)
(*                suspend_thread list of an IPC object, rt_thread_defunct  *)
(*   k.group      rt_thread_ready_priority_group, as the set of its bits   *)
(*   k.current    rt_current_thread                                        *)
(*   k.nest       rt_scheduler_lock_nest                                   *)
(*   k.armed      the threads whose thread_timer is activated              *)
(***************************************************************************)
EXTENDS Integers, Sequences, FiniteSets, FiniteSetsExt, Functions, SequencesExt

CONSTANTS
    Thread,         \* every thread object, the idle thread included
    Idle,           \* the idle thread of src/idle.c
    NoThread,       \* RT_NULL
    Wild,           \* what rt_list_entry makes of the head of an empty list
    PriorityMax,    \* RT_THREAD_PRIORITY_MAX, at most 32 here
    InitPriority,   \* thread->init_priority of each thread
    Queue           \* the lists of k.wait

Priority == 0 .. PriorityMax - 1

Stat == {"none", "init", "ready", "suspend", "close"}

Error == {"RT_EOK", "RT_ETIMEOUT", "RT_ERROR"}

ASSUME KernelAssumption ==
    /\ PriorityMax \in Nat \ {0}
    /\ IsFiniteSet(Thread) /\ Idle \in Thread
    /\ NoThread \notin Thread
    /\ Wild \notin Thread
    /\ Wild # NoThread
    /\ InitPriority \in [Thread -> Priority]
    /\ InitPriority[Idle] = PriorityMax - 1

KernelState ==
    [stat    : [Thread -> Stat],
     prio    : [Thread -> Priority],
     mask    : [Thread -> SUBSET Priority],
     error   : [Thread -> Error],
     ready   : [Priority -> Seq(Thread)],
     wait    : [Queue -> Seq(Thread)],
     group   : SUBSET Priority,
     current : Thread \cup {NoThread, Wild},
     nest    : Nat,
     armed   : SUBSET Thread]

(***************************************************************************)
(* rt_system_scheduler_init: empty lists, an empty bitmap, no current      *)
(* thread, an unlocked scheduler.  No thread exists yet; the number_mask   *)
(* of a thread that was never started is what its memory happened to hold. *)
(***************************************************************************)
SchedulerInit(masks) ==
    [stat    |-> [t \in Thread |-> "none"],
     prio    |-> InitPriority,
     mask    |-> masks,
     error   |-> [t \in Thread |-> "RT_EOK"],
     ready   |-> [p \in Priority |-> <<>>],
     wait    |-> [q \in Queue |-> <<>>],
     group   |-> {},
     current |-> NoThread,
     nest    |-> 0,
     armed   |-> {}]

(***************************************************************************)
(* The intrusive lists.  rt_list_remove unlinks the node from whichever    *)
(* list it is on and leaves it linked to itself, so a second removal does  *)
(* nothing.                                                                *)
(***************************************************************************)
ListRemove(k, t) ==
    [k EXCEPT !.ready = [p \in Priority |-> RemoveFirst(k.ready[p], t)],
              !.wait  = [q \in Queue |-> RemoveFirst(k.wait[q], t)]]

ListInsertAfter(k, q, t) ==
    [k EXCEPT !.wait[q] = <<t>> \o k.wait[q]]

ListInsertBefore(k, q, t) ==
    [k EXCEPT !.wait[q] = Append(k.wait[q], t)]

(***************************************************************************)
(* The ready queue: rt_schedule_insert_thread and                          *)
(* rt_schedule_remove_thread.                                              *)
(***************************************************************************)
ScheduleInsert(k, t) ==
    [k EXCEPT !.stat[t] = "ready",
              !.ready[k.prio[t]] = Append(k.ready[k.prio[t]], t),
              !.group = k.group \cup k.mask[t]]

ScheduleRemove(k, t) ==
    LET unlinked == ListRemove(k, t)
    IN  [unlinked EXCEPT !.group = IF unlinked.ready[k.prio[t]] = <<>>
                                   THEN k.group \ k.mask[t]
                                   ELSE k.group]

(***************************************************************************)
(* rt_schedule: with the scheduler unlocked, the head of the list of the   *)
(* lowest bit set in the group.  An empty list (or an empty group) makes   *)
(* rt_list_entry compute a pointer to no thread at all.                    *)
(***************************************************************************)
HighestReady(k) ==
    IF k.group = {} \/ k.ready[Min(k.group)] = <<>>
    THEN Wild
    ELSE Head(k.ready[Min(k.group)])

Schedule(k) ==
    IF k.nest = 0 THEN [k EXCEPT !.current = HighestReady(k)] ELSE k

\* rt_system_scheduler_start
SchedulerStart(k) == [k EXCEPT !.current = HighestReady(k)]

EnterCritical(k) == [k EXCEPT !.nest = k.nest + 1]

\* rt_exit_critical up to its call of rt_schedule
ExitCritical(k) == [k EXCEPT !.nest = IF k.nest <= 1 THEN 0 ELSE k.nest - 1]

(***************************************************************************)
(* The thread timer: rt_timer_start and rt_timer_stop return an error, and *)
(* change nothing, on a timer that is already (not) activated.             *)
(***************************************************************************)
TimerStart(k, t) == [k EXCEPT !.armed = k.armed \cup {t}]

TimerStop(k, t) == [k EXCEPT !.armed = k.armed \ {t}]

(***************************************************************************)
(* rt_thread_suspend and rt_thread_resume, with the two interrupt-disabled *)
(* sections of the latter apart.                                           *)
(***************************************************************************)
SuspendBody(k, t) == ScheduleRemove([k EXCEPT !.stat[t] = "suspend"], t)

Suspend(k, t) == IF k.stat[t] # "ready" THEN k ELSE SuspendBody(k, t)

\* mutation: the timer is not stopped
ResumeKeepsTimer(k, t) == ListRemove(k, t)

ResumeUnlink(k, t) == TimerStop(ListRemove(k, t), t)

Resume(k, t) ==
    IF k.stat[t] # "suspend" THEN k ELSE ScheduleInsert(ResumeUnlink(k, t), t)

\* mutation: thread->error is not set
ThreadTimeoutSilent(k, t) ==
    Schedule(TimerStop(ScheduleInsert(ListRemove(k, t), t), t))

(***************************************************************************)
(* rt_thread_timeout, called by rt_timer_check from the tick interrupt     *)
(* when the timer of thread t expires; the one-shot timer is off its list  *)
(* and deactivated afterwards.                                             *)
(***************************************************************************)
ThreadTimeout(k, t) ==
    LET woken == ScheduleInsert(ListRemove([k EXCEPT !.error[t] = "RT_ETIMEOUT"], t), t)
    IN  Schedule(TimerStop(woken, t))

(***************************************************************************)
(* rt_thread_yield of the current thread: to the end of its ready list,    *)
(* unless it is alone there or on no list (tlist.next = tlist.prev) or not *)
(* ready; then rt_schedule, in a section of its own.                       *)
(***************************************************************************)
YieldMoves(k) ==
    LET list == k.ready[k.prio[k.current]]
    IN  k.stat[k.current] = "ready" /\ k.current \in ToSet(list) /\ Len(list) > 1

YieldTail(k) ==
    LET p == k.prio[k.current]
    IN  [k EXCEPT !.ready[p] = Append(RemoveFirst(k.ready[p], k.current), k.current)]

Yield(k) == IF YieldMoves(k) THEN Schedule(YieldTail(k)) ELSE k

\* mutation: a READY thread stays on the list of its old priority
ChangePriorityInPlace(k, t, p) == [k EXCEPT !.prio[t] = p, !.mask[t] = {p}]

\* rt_thread_control(RT_THREAD_CTRL_CHANGE_PRIORITY), which does not schedule
ChangePriority(k, t, p) ==
    LET Retarget(s) == [s EXCEPT !.prio[t] = p, !.mask[t] = {p}]
    IN  IF k.stat[t] = "ready"
        THEN ScheduleInsert(Retarget(ScheduleRemove(k, t)), t)
        ELSE Retarget(k)

\* mutation: number_mask is not calculated
StartupNoMask(k, t) ==
    [k EXCEPT !.prio[t] = InitPriority[t], !.stat[t] = "suspend"]

\* the part of rt_thread_startup before it calls rt_thread_resume
StartupBegin(k, t) ==
    [k EXCEPT !.prio[t] = InitPriority[t],
              !.mask[t] = {InitPriority[t]},
              !.stat[t] = "suspend"]

\* _rt_thread_init: everything but number_mask is given a value
ThreadInit(k, t) ==
    [k EXCEPT !.stat[t] = "init", !.prio[t] = InitPriority[t],
              !.error[t] = "RT_EOK", !.armed = k.armed \ {t}]

(***************************************************************************)
(* rt_thread_init and rt_thread_startup before the scheduler is started:   *)
(* main runs alone, with interrupts disabled and no current thread.        *)
(***************************************************************************)
BootThread(k, t) == Resume(StartupBegin(ThreadInit(k, t), t), t)

-----------------------------------------------------------------------------
(***************************************************************************)
(* The suspend list of an IPC object, in src/ipc.c.                        *)
(***************************************************************************)

\* mutation: before the first thread that is not of higher priority
PrioPositionNotHigher(k, q, t) ==
    LET lower == {i \in 1 .. Len(k.wait[q]) : k.prio[t] <= k.prio[k.wait[q][i]]}
    IN  IF lower = {} THEN Len(k.wait[q]) + 1 ELSE Min(lower)

\* Where rt_ipc_list_suspend inserts t: before the first thread of strictly
\* lower priority, which is at the end when there is none.
PrioPosition(k, q, t) ==
    LET lower == {i \in 1 .. Len(k.wait[q]) : k.prio[t] < k.prio[k.wait[q][i]]}
    IN  IF lower = {} THEN Len(k.wait[q]) + 1 ELSE Min(lower)

\* mutation: the loop over the list ends without an append
IpcListSuspendNoTail(k, q, t, flag) ==
    LET s == Suspend(k, t)
    IN  IF PrioPosition(s, q, t) > Len(s.wait[q]) THEN s
        ELSE [s EXCEPT !.wait[q] = InsertAt(s.wait[q], PrioPosition(s, q, t), t)]

IpcListSuspend(k, q, t, flag) ==
    LET s == Suspend(k, t)
    IN  IF flag = "RT_IPC_FLAG_FIFO"
        THEN ListInsertBefore(s, q, t)
        ELSE [s EXCEPT !.wait[q] = InsertAt(s.wait[q], PrioPosition(s, q, t), t)]

\* rt_ipc_list_resume
IpcListResume(k, q) == Resume(k, Head(k.wait[q]))

\* one turn of the loop of rt_ipc_list_resume_all
IpcListResumeError(k, q) ==
    Resume([k EXCEPT !.error[Head(k.wait[q])] = "RT_ERROR"], Head(k.wait[q]))

-----------------------------------------------------------------------------
(***************************************************************************)
(* What the primitives must keep between two interrupt-disabled sections.  *)
(***************************************************************************)

\* A tlist node is on one list at most, and once.
ListsOK(k) ==
    /\ \A p \in Priority : IsInjective(k.ready[p])
    /\ \A q \in Queue : IsInjective(k.wait[q])
    /\ \A q1, q2 \in Queue :
          q1 # q2 => ToSet(k.wait[q1]) \cap ToSet(k.wait[q2]) = {}
    /\ \A q \in Queue : \A t \in ToSet(k.wait[q]) : k.stat[t] # "ready"

\* A thread is on the ready list of its priority exactly when it is READY.
ReadyOK(k) ==
    \A p \in Priority : \A t \in Thread :
        t \in ToSet(k.ready[p]) <=> (k.stat[t] = "ready" /\ k.prio[t] = p)

\* The bitmap has exactly the bits of the non-empty ready lists.
BitmapOK(k) == k.group = {p \in Priority : k.ready[p] # <<>>}

\* A thread that was started has the number_mask of its priority.
MaskOK(k) ==
    \A t \in Thread : k.stat[t] \in {"ready", "suspend"} => k.mask[t] = {k.prio[t]}

\* An activated thread timer belongs to a suspended thread, as
\* rt_thread_timeout asserts when the timer expires.
TimersOK(k) == \A t \in k.armed : k.stat[t] = "suspend"

KernelOK(k) == ListsOK(k) /\ ReadyOK(k) /\ BitmapOK(k) /\ MaskOK(k) /\ TimersOK(k)

=============================================================================
