------------------------------- MODULE Threads -------------------------------
(***************************************************************************)
(* The life of threads (src/thread.c, src/idle.c) on the scheduler of      *)
(* module Kernel: boot, creation, startup, suspension, resumption, sleep,  *)
(* priority change, exit, deletion, and the idle thread that frees the     *)
(* dead ones, with the tick interrupt and device interrupts in between.    *)
(*                                                                         *)
(* arg[t] is the thread that t's kernel call in progress is about; lazy    *)
(* and created are history variables of the properties and bounds.         *)
(***************************************************************************)
EXTENDS System

CONSTANTS
    Defunct,     \* the list rt_thread_defunct, an element of Queue
    Static,      \* the threads made by rt_thread_init (system objects)
    HasCleanup,  \* the threads with a cleanup function
    Ops,         \* the calls this application makes
    Bracketed,   \* whether it guards a call that suspends, resumes or
                 \* deletes a thread: interrupts disabled, the way src/ipc.c
                 \* does, unless the thread is shielded (see Shielded)
    MaxCreate,   \* bound on the number of threads created at run time
    MaxNest      \* bound on the nesting of rt_enter_critical

VARIABLES arg, created, lazy

vars == <<k, irq, pc, arg, created, lazy>>

OpName == {"create", "startup", "suspend", "resume", "delete", "delete_init",
           "delete_open", "detach", "sleep", "yield", "exit", "priority",
           "critical", "schedule", "isr_resume"}

ASSUME ThreadsAssumption ==
    /\ Defunct \in Queue
    /\ Static \subseteq Thread /\ Idle \in Static
    /\ HasCleanup \subseteq Thread
    /\ Ops \subseteq OpName
    /\ Bracketed \in BOOLEAN
    /\ MaxCreate \in Nat /\ MaxNest \in Nat

Pc == {"run", "startup_check", "startup_unlink", "startup_insert", "sched",
       "suspend_body", "resume_unlink", "resume_insert", "delete_timer",
       "delete_stat", "delete_defunct", "sleep_sched", "sleep_return",
       "exit_leave", "exit_sched", "dead", "reap_loop", "reap", "reap_free"}

\* The pcs between the sections of a deletion.
DeletePc == {"delete_timer", "delete_stat", "delete_defunct"}

\* The pcs at which the thread's next step is a call of rt_schedule.
BeforeSchedule == {"sched", "sleep_sched", "exit_sched"}

\* The memory of a new thread object is not cleared: see ThreadInit.
InitMasks == SUBSET Priority

Init ==
    /\ SystemInit
    /\ arg = [t \in Thread |-> NoThread]
    /\ created = 0
    /\ lazy = FALSE

-----------------------------------------------------------------------------
Boot(t) == BootStep(t) /\ UNCHANGED <<arg, created, lazy>>

Start == StartStep /\ UNCHANGED <<arg, created, lazy>>

-----------------------------------------------------------------------------
(***************************************************************************)
(* Steps of the current thread.                                            *)
(***************************************************************************)
\* t, in its own code, enters a kernel call about u.
Call(t, u, op, to) ==
    /\ op \in Ops
    /\ t # Idle
    /\ Goto(t, "run", to)
    /\ arg' = [arg EXCEPT ![t] = u]

Return(t, from) ==
    /\ Goto(t, from, "run")
    /\ arg' = [arg EXCEPT ![t] = NoThread]
    /\ irq' = NoThread

Bracket(t) == irq' = IF Bracketed THEN t ELSE NoThread

\* lazy remembers a call that may leave a better thread waiting until the
\* next rt_schedule; a schedule that is not locked out clears it.
Rescheduled == lazy' = (lazy /\ k.nest # 0)

\* The threads whose rt_thread_startup has not returned to the application.
Starting(u) ==
    \E s \in Thread : arg[s] = u /\ pc[s] \in {"startup_check", "startup_unlink",
                                               "startup_insert"}

\* The threads that delete a thread, and those that are deleted.
Deleting(u) == \E s \in Thread : pc[s] \in DeletePc /\ u \in {s, arg[s]}

\* The threads the application may name in a call.
Live(u) ==
    k.stat[u] \in {"ready", "suspend"} /\ ~Starting(u) /\ ~Deleting(u) /\ u # Idle

\* rt_thread_create and rt_thread_init
Create(t, u) ==
    /\ Running(t)
    /\ "create" \in Ops /\ t # Idle /\ pc[t] = "run"
    /\ created < MaxCreate
    /\ k.stat[u] = "none" /\ u # Idle
    /\ \E m \in (IF u \in Static THEN {{}} ELSE InitMasks) :
          k' = [ThreadInit(k, u) EXCEPT !.mask[u] = m]
    /\ pc' = [pc EXCEPT ![u] = "run"]
    /\ arg' = [arg EXCEPT ![u] = NoThread]
    /\ created' = created + 1
    /\ UNCHANGED <<irq, lazy>>

\* rt_thread_startup, then the three sections of the rt_thread_resume it calls
Startup(t, u) ==
    /\ Running(t)
    /\ k.stat[u] = "init"
    /\ Call(t, u, "startup", "startup_check")
    /\ k' = StartupBegin(k, u)
    /\ UNCHANGED <<irq, created, lazy>>

StartupCheck(t) ==
    /\ Running(t)
    /\ Goto(t, "startup_check",
            IF k.stat[arg[t]] = "suspend" THEN "startup_unlink" ELSE "sched")
    /\ UNCHANGED <<k, irq, arg, created, lazy>>

StartupUnlink(t) ==
    /\ Running(t)
    /\ Goto(t, "startup_unlink", "startup_insert")
    /\ k' = ResumeUnlink(k, arg[t])
    /\ UNCHANGED <<irq, arg, created, lazy>>

StartupInsert(t) ==
    /\ Running(t)
    /\ Goto(t, "startup_insert", "sched")
    /\ k' = ScheduleInsert(k, arg[t])
    /\ UNCHANGED <<irq, arg, created, lazy>>

\* rt_schedule at the end of startup and rt_exit_critical, after a suspension
\* of the thread itself, or called by the application
CallSchedule(t) ==
    /\ Running(t)
    /\ Call(t, NoThread, "schedule", "sched")
    /\ UNCHANGED <<k, irq, created, lazy>>

ScheduleReturn(t) ==
    /\ ScheduleStep(t, "sched", "run")
    /\ arg' = [arg EXCEPT ![t] = NoThread]
    /\ Rescheduled
    /\ UNCHANGED created

-----------------------------------------------------------------------------
(***************************************************************************)
(* rt_thread_suspend and rt_thread_resume.  The test of the thread's stat  *)
(* comes before interrupts are disabled.  A thread that suspends itself    *)
(* calls rt_schedule afterwards, as the function's note asks.              *)
(***************************************************************************)
SuspendCheck(t, u) ==
    /\ Running(t)
    /\ Live(u)
    /\ IF k.stat[u] = "ready"
       THEN /\ Call(t, u, "suspend", "suspend_body")
            /\ IF u = t THEN irq' = NoThread ELSE Bracket(t)
       ELSE Call(t, NoThread, "suspend", "run") /\ UNCHANGED irq
    /\ UNCHANGED <<k, created, lazy>>

SuspendApply(t) ==
    /\ Running(t)
    /\ Goto(t, "suspend_body", IF arg[t] = t THEN "sched" ELSE "run")
    /\ k' = SuspendBody(k, arg[t])
    /\ arg' = [arg EXCEPT ![t] = NoThread]
    /\ irq' = NoThread
    /\ UNCHANGED <<created, lazy>>

ResumeCheck(t, u) ==
    /\ Running(t)
    /\ Live(u) /\ u # t
    /\ IF k.stat[u] = "suspend"
       THEN Call(t, u, "resume", "resume_unlink") /\ Bracket(t)
       ELSE Call(t, NoThread, "resume", "run") /\ UNCHANGED irq
    /\ UNCHANGED <<k, created, lazy>>

ResumeStop(t) ==
    /\ Running(t)
    /\ Goto(t, "resume_unlink", "resume_insert")
    /\ k' = ResumeUnlink(k, arg[t])
    /\ UNCHANGED <<irq, arg, created, lazy>>

ResumeInsert(t) ==
    /\ Running(t)
    /\ Return(t, "resume_insert")
    /\ k' = ScheduleInsert(k, arg[t])
    /\ lazy' = TRUE
    /\ UNCHANGED created

-----------------------------------------------------------------------------
(***************************************************************************)
(* rt_thread_delete of a dynamic thread, rt_thread_detach of a static one: *)
(* out of its list, timer stopped, CLOSEd, and (unless it is static and    *)
(* has no cleanup) on the list of the idle thread.                         *)
(*                                                                         *)
(* These are four sections, and interrupts come in between them unless the *)
(* caller disables them.  A caller need not when the thread is READY, so   *)
(* that no timer and no handler wakes it, and nobody else runs before the  *)
(* deletion is over: the scheduler is locked, as in rt_module_unload and   *)
(* _exit.  "delete_open" in Ops are the deletions of another READY thread  *)
(* with the scheduler unlocked, as in examples/kernel/thread_delete.c:     *)
(* there the deleting thread is preempted, and the others must leave both  *)
(* threads alone (Live).  A thread that deletes itself has the scheduler   *)
(* locked, leaves it afterwards and never comes back from rt_schedule.     *)
(***************************************************************************)
Shielded(t, u) ==
    /\ k.stat[u] = "ready"
    /\ k.nest > 0 \/ (u # t /\ "delete_open" \in Ops)

\* mutation: the thread is taken out by a suspension, so a handler can resume it
DeleteRemoveSuspends(t, u) ==
    /\ Running(t)
    /\ Live(u)
    /\ u = t /\ Bracketed => Shielded(t, u)
    /\ Call(t, u, IF u \in Static THEN "detach" ELSE "delete", "delete_timer")
    /\ k' = SuspendBody(k, u)
    /\ irq' = IF Bracketed /\ ~Shielded(t, u) THEN t ELSE NoThread
    /\ UNCHANGED <<created, lazy>>

DeleteRemove(t, u) ==
    /\ Running(t)
    /\ \/ Live(u)
       \/ k.stat[u] = "init" /\ "delete_init" \in Ops
    /\ u = t /\ Bracketed => Shielded(t, u)
    /\ Call(t, u, IF u \in Static THEN "detach" ELSE "delete", "delete_timer")
    /\ k' = ScheduleRemove(k, u)
    /\ irq' = IF Bracketed /\ ~Shielded(t, u) THEN t ELSE NoThread
    /\ UNCHANGED <<created, lazy>>

DeleteTimer(t) ==
    /\ Running(t)
    /\ Goto(t, "delete_timer", "delete_stat")
    /\ k' = TimerStop(k, arg[t])
    /\ UNCHANGED <<irq, arg, created, lazy>>

DeleteStat(t) ==
    /\ Running(t)
    /\ Goto(t, "delete_stat", "delete_defunct")
    /\ k' = [k EXCEPT !.stat[arg[t]] = "close"]
    /\ UNCHANGED <<irq, arg, created, lazy>>

DeleteDefunct(t) ==
    /\ Running(t)
    /\ Goto(t, "delete_defunct", IF arg[t] # t THEN "run"
                                 ELSE IF k.nest > 0 THEN "exit_leave" ELSE "exit_sched")
    /\ arg' = [arg EXCEPT ![t] = NoThread]
    /\ irq' = NoThread
    /\ k' = IF arg[t] \in Static \ HasCleanup
            THEN k ELSE ListInsertAfter(k, Defunct, arg[t])
    /\ UNCHANGED <<created, lazy>>

\* rt_exit_critical of a thread that deleted itself
ExitLeave(t) ==
    /\ Running(t)
    /\ Goto(t, "exit_leave", IF k.nest = 1 THEN "exit_sched" ELSE "exit_leave")
    /\ k' = ExitCritical(k)
    /\ UNCHANGED <<irq, arg, created, lazy>>

\* rt_thread_exit, in one interrupt-disabled section; then rt_schedule
Exit(t) ==
    /\ Running(t)
    /\ k.nest = 0
    /\ Call(t, NoThread, "exit", "exit_sched")
    /\ LET closed == TimerStop([ScheduleRemove(k, t) EXCEPT !.stat[t] = "close"], t)
       IN  k' = IF t \in Static \ HasCleanup
                THEN closed ELSE ListInsertAfter(closed, Defunct, t)
    /\ UNCHANGED <<irq, created, lazy>>

ExitSchedule(t) ==
    /\ ScheduleStep(t, "exit_sched", "dead")
    /\ Rescheduled
    /\ UNCHANGED <<arg, created>>

-----------------------------------------------------------------------------
\* rt_thread_sleep and rt_thread_delay
Sleep(t) ==
    /\ "sleep" \in Ops
    /\ SleepStep(t)
    /\ UNCHANGED <<arg, created, lazy>>

SleepSchedule(t) ==
    /\ ScheduleStep(t, "sleep_sched", "sleep_return")
    /\ Rescheduled
    /\ UNCHANGED <<arg, created>>

SleepReturn(t) ==
    /\ SleepReturnStep(t)
    /\ UNCHANGED <<arg, created, lazy>>

\* rt_thread_yield, up to its call of rt_schedule
CallYield(t) ==
    /\ Running(t)
    /\ Call(t, NoThread, "yield", IF YieldMoves(k) THEN "sched" ELSE "run")
    /\ k' = IF YieldMoves(k) THEN YieldTail(k) ELSE k
    /\ UNCHANGED <<irq, created, lazy>>

\* rt_thread_control(RT_THREAD_CTRL_CHANGE_PRIORITY)
SetPriority(t, u, p) ==
    /\ Running(t)
    /\ Live(u)
    /\ Call(t, NoThread, "priority", "run")
    /\ k' = ChangePriority(k, u, p)
    /\ lazy' = TRUE
    /\ UNCHANGED <<irq, created>>

Enter(t) ==
    /\ Running(t)
    /\ k.nest < MaxNest
    /\ Call(t, NoThread, "critical", "run")
    /\ k' = EnterCritical(k)
    /\ UNCHANGED <<irq, created, lazy>>

\* mutation: no rt_schedule after the last rt_exit_critical
LeaveNoSchedule(t) ==
    /\ Running(t)
    /\ k.nest > 0
    /\ Call(t, NoThread, "critical", "run")
    /\ k' = ExitCritical(k)
    /\ UNCHANGED <<irq, created, lazy>>

Leave(t) ==
    /\ Running(t)
    /\ k.nest > 0
    /\ Call(t, NoThread, "critical", IF k.nest = 1 THEN "sched" ELSE "run")
    /\ k' = ExitCritical(k)
    /\ UNCHANGED <<irq, created, lazy>>

-----------------------------------------------------------------------------
(***************************************************************************)
(* The idle thread: rt_thread_idle_excute in a loop.                       *)
(***************************************************************************)
IdleCall ==
    /\ Running(Idle)
    /\ Goto(Idle, "run", "reap_loop")
    /\ UNCHANGED <<k, irq, arg, created, lazy>>

IdleLoop ==
    /\ Running(Idle)
    /\ Goto(Idle, "reap_loop", IF k.wait[Defunct] = <<>> THEN "run" ELSE "reap")
    /\ UNCHANGED <<k, irq, arg, created, lazy>>

IdleReap ==
    /\ Running(Idle)
    /\ IF k.wait[Defunct] = <<>>
       THEN Goto(Idle, "reap", "run") /\ UNCHANGED <<k, arg>>
       ELSE LET u == Head(k.wait[Defunct])
            IN  /\ k' = ListRemove(k, u)
                /\ IF u \in Static
                   THEN Goto(Idle, "reap", "run") /\ UNCHANGED arg
                   ELSE /\ Goto(Idle, "reap", "reap_free")
                        /\ arg' = [arg EXCEPT ![Idle] = u]
    /\ UNCHANGED <<irq, created, lazy>>

IdleFree ==
    /\ Running(Idle)
    /\ Goto(Idle, "reap_free", "reap_loop")
    /\ k' = [k EXCEPT !.stat[arg[Idle]] = "none"]
    /\ arg' = [arg EXCEPT ![Idle] = NoThread]
    /\ UNCHANGED <<irq, created, lazy>>

-----------------------------------------------------------------------------
TickTimeout(u) == TimeoutStep(u) /\ Rescheduled /\ UNCHANGED <<arg, created>>

TickYield == YieldStep /\ Rescheduled /\ UNCHANGED <<arg, created>>

\* a driver's handler resumes the thread that waits for its device
IsrResume(u) ==
    /\ "isr_resume" \in Ops
    /\ Interrupt
    /\ k.stat[u] = "suspend" /\ ~Starting(u)
    /\ k' = Schedule(Resume(k, u))
    /\ Rescheduled
    /\ UNCHANGED <<irq, pc, arg, created>>

-----------------------------------------------------------------------------
ThreadStep(t) ==
    \/ \E u \in Thread :
          \/ Create(t, u) \/ Startup(t, u) \/ SuspendCheck(t, u)
          \/ ResumeCheck(t, u) \/ DeleteRemove(t, u)
          \/ \E p \in Priority : SetPriority(t, u, p)
    \/ StartupCheck(t) \/ StartupUnlink(t) \/ StartupInsert(t)
    \/ CallSchedule(t) \/ ScheduleReturn(t)
    \/ SuspendApply(t) \/ ResumeStop(t) \/ ResumeInsert(t)
    \/ DeleteTimer(t) \/ DeleteStat(t) \/ DeleteDefunct(t)
    \/ ExitLeave(t) \/ Exit(t) \/ ExitSchedule(t)
    \/ Sleep(t) \/ SleepSchedule(t) \/ SleepReturn(t)
    \/ CallYield(t) \/ Enter(t) \/ Leave(t)

ReapStep == IdleCall \/ IdleLoop \/ IdleReap \/ IdleFree

InterruptStep == TickYield \/ \E u \in Thread : TickTimeout(u) \/ IsrResume(u)

Next ==
    \/ Start \/ \E t \in Thread : Boot(t)
    \/ \E t \in Thread : ThreadStep(t)
    \/ ReapStep
    \/ InterruptStep

Spec == Init /\ [][Next]_vars

-----------------------------------------------------------------------------
(***************************************************************************)
(* Correctness.                                                            *)
(***************************************************************************)

\* Every variable has its type: in particular the scheduler never computes a
\* current thread out of the head of an empty list (scheduler.c rt_schedule).
TypeOK ==
    /\ k \in KernelState
    /\ k.current # Wild
    /\ irq \in Thread \cup {NoThread}
    /\ pc \in [Thread -> Pc]
    /\ arg \in [Thread -> Thread \cup {NoThread}]
    /\ created \in 0 .. MaxCreate
    /\ lazy \in BOOLEAN

\* The threads off every list whose stat their deletion has yet to change.
Dying(u) == \E s \in Thread : arg[s] = u /\ pc[s] \in {"delete_timer", "delete_stat"}

\* Whenever interrupts are enabled, in every window of startup, sleep, exit,
\* deletion and the idle loop, the ready lists, the bitmap, the masks, the
\* timers and the stat of every thread agree, where a thread that is being
\* deleted counts as CLOSEd from the time it is off its list.
KernelConsistent ==
    irq = NoThread =>
        KernelOK([k EXCEPT !.stat = [u \in Thread |->
                                        IF Dying(u) THEN "close" ELSE k.stat[u]]])

\* The state of the kernel is sound: every variable has its type, no pointer to
\* a thread is the head of an empty list, and the data of the scheduler agree.
KernelSound == TypeOK /\ KernelConsistent

\* The dead wait for the idle thread.  A thread that exited or was deleted is on
\* no ready list, has no timer, and is current only until the rt_schedule at
\* the end of rt_thread_exit or after its own deletion, whatever interrupts
\* and threads come in between the sections of the deletion; one whose memory was
\* freed is on no list at all; and no dynamic one is forgotten: it is on the
\* defunct list, or its deletion is about to put it there, or the idle thread
\* has taken it off to free it.
DeadAwaitIdle ==
    \A t \in Thread :
        /\ k.stat[t] \in {"close", "none"} =>
              /\ \A p \in Priority : t \notin ToSet(k.ready[p])
              /\ t \notin k.armed
              /\ k.current = t => pc[t] \in {"delete_defunct", "exit_leave", "exit_sched"}
        /\ k.stat[t] = "none" => t \notin ToSet(k.wait[Defunct])
        /\ k.stat[t] = "close" /\ t \notin Static =>
              \/ t \in ToSet(k.wait[Defunct])
              \/ arg[Idle] = t /\ pc[Idle] = "reap_free"
              \/ \E s \in Thread : arg[s] = t /\ pc[s] = "delete_defunct"

\* Preemptive scheduling: with the scheduler unlocked, a READY thread of
\* higher priority than the current one waits only while the current thread
\* is on its way into rt_schedule, or because the application itself left
\* the decision open (rt_thread_resume and rt_thread_control do not
\* schedule).  The same holds of a current thread that is not READY.
Preemptive ==
    (k.current \in Thread /\ k.nest = 0 /\ irq = NoThread /\ ~lazy) =>
        \/ pc[k.current] \in BeforeSchedule
        \/ /\ k.stat[k.current] = "ready"
           /\ \A t \in Thread : k.stat[t] = "ready" /\ ~Dying(t) =>
                                    k.prio[k.current] <= k.prio[t]

=============================================================================
