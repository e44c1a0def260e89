------------------------------- MODULE System -------------------------------
(***************************************************************************)
(* Who runs.  The state and the steps common to every module that puts     *)
(* threads on the scheduler of module Kernel: the boot sequence, the       *)
(* current thread going through its kernel calls, and the tick interrupt.  *)
(*                                                                         *)
(* Only the current thread takes steps, and one step is one section of     *)
(* code that nothing can interleave with.  pc[t] is the place inside the   *)
(* kernel call that t has in progress ("run" when it has none); a          *)
(* preempted thread keeps it.  irq is the thread that runs with interrupts *)
(* disabled from one step to the next, or NoThread.                        *)
(*                                                                         *)
(* The actions here leave the variables of the extending module open.      *)
(***************************************************************************)
EXTENDS Kernel

VARIABLES k, irq, pc

SystemInit ==
    /\ k = SchedulerInit([t \in Thread |-> {}])
    /\ irq = NoThread
    /\ pc = [t \in Thread |-> "run"]

(***************************************************************************)
(* Boot: main starts the first threads in some order, the idle thread      *)
(* among them, and then the scheduler.                                     *)
(***************************************************************************)
BootStep(t) ==
    /\ k.current = NoThread
    /\ k.stat[t] = "none"
    /\ k' = BootThread(k, t)
    /\ UNCHANGED <<irq, pc>>

StartStep ==
    /\ k.current = NoThread
    /\ k.stat[Idle] = "ready"
    /\ k' = SchedulerStart(k)
    /\ UNCHANGED <<irq, pc>>

(***************************************************************************)
(* The current thread.                                                     *)
(***************************************************************************)
Running(t) == k.current = t /\ irq \in {NoThread, t}

Goto(t, from, to) ==
    /\ pc[t] = from
    /\ pc' = [pc EXCEPT ![t] = to]

\* the call of rt_schedule that ends a kernel call, or that a thread blocks in
ScheduleStep(t, from, to) ==
    /\ Running(t)
    /\ Goto(t, from, to)
    /\ k' = Schedule(k)
    /\ UNCHANGED irq

\* rt_thread_sleep: the section that suspends the thread and starts its timer;
\* then rt_schedule; then the error of the time-out is cleared
SleepStep(t) ==
    /\ Running(t) /\ t # Idle
    /\ Goto(t, "run", "sleep_sched")
    /\ k' = TimerStart(Suspend(k, t), t)
    /\ UNCHANGED irq

SleepReturnStep(t) ==
    /\ Running(t)
    /\ Goto(t, "sleep_return", "run")
    /\ k' = IF k.error[t] = "RT_ETIMEOUT"
            THEN [k EXCEPT !.error[t] = "RT_EOK"] ELSE k
    /\ UNCHANGED irq

\* A thread runs code of its own, the idle thread its loop.
OwnCode(t) ==
    /\ Running(t)
    /\ pc[t] = "run"
    /\ UNCHANGED <<k, irq, pc>>

(***************************************************************************)
(* The tick interrupt, rt_tick_increase.  A handler runs to its end before *)
(* any thread does.  How many ticks a timer or a time slice has left is    *)
(* abstracted: a timer that is activated may expire at any tick, and the   *)
(* current thread may have used up its slice at any tick.                  *)
(***************************************************************************)
Interrupt == k.current \in Thread /\ irq = NoThread

\* rt_timer_check finds the thread timer of u expired
TimeoutStep(u) ==
    /\ Interrupt
    /\ u \in k.armed
    /\ k' = ThreadTimeout(k, u)
    /\ UNCHANGED <<irq, pc>>

\* the time slice of the current thread is used up
YieldStep ==
    /\ Interrupt
    /\ k' = Yield(k)
    /\ k' # k
    /\ UNCHANGED <<irq, pc>>

(***************************************************************************)
(* rt_ipc_list_resume_all on suspend list q, called with interrupts        *)
(* enabled: the test of the list, and the section that wakes its first     *)
(* thread.                                                                 *)
(***************************************************************************)
ResumeAllTest(t, q, from, body, done) ==
    /\ Running(t)
    /\ Goto(t, from, IF k.wait[q] = <<>> THEN done ELSE body)
    /\ UNCHANGED <<k, irq>>

ResumeAllWake(t, q, from, to) ==
    /\ Running(t)
    /\ k.wait[q] # <<>>
    /\ Goto(t, from, to)
    /\ k' = IpcListResumeError(k, q)
    /\ UNCHANGED irq

\* The section takes the head of the emptied list for a thread.  What the
\* program does from there on is undefined, and not followed.
ResumeAllLost(t, q, from) ==
    /\ Running(t)
    /\ k.wait[q] = <<>>
    /\ Goto(t, from, "lost")
    /\ irq' = t
    /\ UNCHANGED k

LostStep(t) ==
    /\ Running(t)
    /\ pc[t] = "lost"
    /\ UNCHANGED <<k, irq, pc>>
=============================================================================
