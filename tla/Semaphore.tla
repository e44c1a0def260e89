----------------------------- MODULE Semaphore -----------------------------
(***************************************************************************)
(* One semaphore of src/ipc.c, used by threads and by interrupt handlers   *)
(* on the scheduler of module Kernel.                                      *)
(*                                                                         *)
(*   value     sem->value                                                  *)
(*   k.wait[Sem]  sem->parent.suspend_thread                               *)
(*   alive     whether the object is initialised (no rt_sem_detach yet)    *)
(*   fault     whether the head of the empty suspend list was taken for a  *)
(*             thread, after which the program's behaviour is undefined    *)
(*   credit    history: the releases that no take has returned with yet    *)
(*   arrived   history: the waiting threads in the order they came         *)
(***************************************************************************)
EXTENDS System

CONSTANTS
    Sem,        \* the suspend list of the semaphore, an element of Queue
    Flag,       \* the flag of rt_sem_init
    InitValue,  \* the value of rt_sem_init
    ValueMod,   \* 2^16 for the rt_uint16_t of sem->value
    Times,      \* the waiting times that rt_sem_take is called with
    Ops,        \* the other calls this application makes
    MaxCredit   \* bound on the releases that are outstanding

VARIABLES value, alive, fault, credit, arrived

vars == <<k, irq, pc, value, alive, fault, credit, arrived>>

OpName == {"isr_release", "isr_trytake", "reset", "detach", "priority",
           "critical", "wait_locked", "sleep"}

ASSUME SemaphoreAssumption ==
    /\ Sem \in Queue
    /\ Flag \in {"RT_IPC_FLAG_FIFO", "RT_IPC_FLAG_PRIO"}
    /\ ValueMod \in Nat \ {0}
    /\ InitValue \in 0 .. ValueMod - 1
    /\ Times \subseteq {"zero", "timed", "forever"}
    /\ Ops \subseteq OpName
    /\ MaxCredit \in Nat

Pc == {"run", "take_sched", "take_return", "sched", "reset_loop",
       "detach_test", "detach_body", "sleep_sched", "sleep_return"}

\* The threads inside rt_sem_take that were made to wait.
Taking == {t \in Thread : pc[t] \in {"take_sched", "take_return"}}

Waiting == ToSet(k.wait[Sem])

\* The threads a release has woken whose rt_sem_take has yet to return.
Granted == {t \in Taking : t \notin Waiting /\ k.error[t] = "RT_EOK"}

Init ==
    /\ SystemInit
    /\ value = InitValue
    /\ alive = TRUE
    /\ fault = FALSE
    /\ credit = InitValue
    /\ arrived = <<>>

Boot(t) == BootStep(t) /\ UNCHANGED <<value, alive, fault, credit, arrived>>

Start == StartStep /\ UNCHANGED <<value, alive, fault, credit, arrived>>

-----------------------------------------------------------------------------
\* mutation: the value is not decremented
TakeNowKeepsValue(t) ==
    /\ Running(t) /\ t # Idle /\ alive
    /\ Times # {}
    /\ Goto(t, "run", "run")
    /\ value > 0
    /\ credit' = credit - 1
    /\ UNCHANGED <<k, irq, value, alive, fault, arrived>>

(***************************************************************************)
(* rt_sem_take.  The first interrupt-disabled section takes the semaphore, *)
(* gives up, or suspends the thread; then rt_schedule; then the test of    *)
(* thread->error.  TakeNow is also rt_sem_trytake.                         *)
(***************************************************************************)
TakeNow(t) ==
    /\ Running(t) /\ t # Idle /\ alive
    /\ Times # {}
    /\ Goto(t, "run", "run")
    /\ value > 0
    /\ value' = value - 1
    /\ credit' = credit - 1
    /\ UNCHANGED <<k, irq, alive, fault, arrived>>

TakeFail(t) ==
    /\ Running(t) /\ t # Idle /\ alive
    /\ "zero" \in Times
    /\ Goto(t, "run", "run")
    /\ value = 0
    /\ UNCHANGED <<k, irq, value, alive, fault, credit, arrived>>

\* mutation: the thread waits although the semaphore is available
TakeSuspendAlways(t, time) ==
    /\ Running(t) /\ t # Idle /\ alive
    /\ time # "zero" /\ k.nest = 0
    /\ Goto(t, "run", "take_sched")
    /\ LET s == IpcListSuspend([k EXCEPT !.error[t] = "RT_EOK"], Sem, t, Flag)
       IN  k' = IF time = "timed" THEN TimerStart(s, t) ELSE s
    /\ arrived' = Append(arrived, t)
    /\ UNCHANGED <<irq, value, alive, fault, credit>>

TakeSuspend(t, time) ==
    /\ Running(t) /\ t # Idle /\ alive
    /\ time # "zero"
    /\ k.nest = 0 \/ "wait_locked" \in Ops
    /\ Goto(t, "run", "take_sched")
    /\ value = 0
    /\ LET s == IpcListSuspend([k EXCEPT !.error[t] = "RT_EOK"], Sem, t, Flag)
       IN  k' = IF time = "timed" THEN TimerStart(s, t) ELSE s
    /\ arrived' = Append(arrived, t)
    /\ UNCHANGED <<irq, value, alive, fault, credit>>

TakeSchedule(t) ==
    /\ ScheduleStep(t, "take_sched", "take_return")
    /\ UNCHANGED <<value, alive, fault, credit, arrived>>

\* mutation: a take that failed goes back to wait instead of returning
TakeReturnRetries(t) ==
    /\ Running(t)
    /\ Goto(t, "take_return", IF k.error[t] = "RT_EOK" THEN "run" ELSE "take_sched")
    /\ credit' = IF k.error[t] = "RT_EOK" THEN credit - 1 ELSE credit
    /\ UNCHANGED <<k, irq, value, alive, fault, arrived>>

TakeReturn(t) ==
    /\ Running(t)
    /\ Goto(t, "take_return", "run")
    /\ credit' = IF k.error[t] = "RT_EOK" THEN credit - 1 ELSE credit
    /\ UNCHANGED <<k, irq, value, alive, fault, arrived>>

\* mutation: the value is incremented although a thread was woken
ReleaseCountsToo ==
    /\ alive
    /\ credit < MaxCredit
    /\ credit' = credit + 1
    /\ value' = (value + 1) % ValueMod
    /\ arrived' = IF k.wait[Sem] = <<>> THEN arrived
                  ELSE RemoveFirst(arrived, Head(k.wait[Sem]))
    /\ UNCHANGED <<irq, alive, fault>>

(***************************************************************************)
(* rt_sem_release, by a thread (the section, then rt_schedule when a       *)
(* thread was woken) or by an interrupt handler.                           *)
(***************************************************************************)
ReleaseBody ==
    /\ alive
    /\ credit < MaxCredit
    /\ credit' = credit + 1
    /\ value' = IF k.wait[Sem] = <<>> THEN (value + 1) % ValueMod ELSE value
    /\ arrived' = IF k.wait[Sem] = <<>> THEN arrived
                  ELSE RemoveFirst(arrived, Head(k.wait[Sem]))
    /\ UNCHANGED <<irq, alive, fault>>

Release(t) ==
    /\ Running(t) /\ t # Idle
    /\ Goto(t, "run", IF k.wait[Sem] = <<>> THEN "run" ELSE "sched")
    /\ k' = IF k.wait[Sem] = <<>> THEN k ELSE IpcListResume(k, Sem)
    /\ ReleaseBody

\* the rt_schedule at the end of rt_sem_release, rt_sem_control and
\* rt_exit_critical
ReleaseSchedule(t) ==
    /\ ScheduleStep(t, "sched", "run")
    /\ UNCHANGED <<value, alive, fault, credit, arrived>>

IsrRelease ==
    /\ Interrupt
    /\ "isr_release" \in Ops
    /\ k' = IF k.wait[Sem] = <<>> THEN k ELSE Schedule(IpcListResume(k, Sem))
    /\ ReleaseBody
    /\ UNCHANGED pc

IsrTryTake ==
    /\ Interrupt
    /\ "isr_trytake" \in Ops
    /\ alive
    /\ value > 0
    /\ value' = value - 1
    /\ credit' = credit - 1
    /\ UNCHANGED <<k, irq, pc, alive, fault, arrived>>

-----------------------------------------------------------------------------
(***************************************************************************)
(* rt_sem_control(RT_IPC_CMD_RESET): with interrupts disabled throughout,  *)
(* rt_ipc_list_resume_all, then the new value; then rt_schedule.           *)
(***************************************************************************)
Reset(t) ==
    /\ Running(t) /\ t # Idle /\ alive
    /\ "reset" \in Ops
    /\ Goto(t, "run", "reset_loop")
    /\ irq' = t
    /\ UNCHANGED <<k, value, alive, fault, credit, arrived>>

ResetWake(t) ==
    /\ Running(t)
    /\ k.wait[Sem] # <<>>
    /\ Goto(t, "reset_loop", "reset_loop")
    /\ k' = IpcListResumeError(k, Sem)
    /\ arrived' = RemoveFirst(arrived, Head(k.wait[Sem]))
    /\ UNCHANGED <<irq, value, alive, fault, credit>>

ResetValue(t, v) ==
    /\ Running(t)
    /\ k.wait[Sem] = <<>>
    /\ Goto(t, "reset_loop", "sched")
    /\ value' = v % ValueMod
    /\ credit' = (v % ValueMod) + Cardinality(Granted)
    /\ irq' = NoThread
    /\ UNCHANGED <<k, alive, fault, arrived>>

(***************************************************************************)
(* rt_sem_detach and rt_sem_delete: rt_ipc_list_resume_all tests the list  *)
(* with interrupts enabled and takes its first thread with interrupts      *)
(* disabled.  The application no longer uses the semaphore, and may        *)
(* initialise it again (rt_sem_init, rt_sem_create) when that is done.     *)
(* When the head of the list is taken for a thread, fault is set: what the *)
(* program does from there on is undefined, and not followed (the step     *)
(* leaves k alone).                                                        *)
(***************************************************************************)
Detach(t) ==
    /\ Running(t) /\ t # Idle /\ alive
    /\ "detach" \in Ops
    /\ Goto(t, "run", "detach_test")
    /\ alive' = FALSE
    /\ UNCHANGED <<k, irq, value, fault, credit, arrived>>

DetachTest(t) ==
    /\ Running(t)
    /\ Goto(t, "detach_test", IF k.wait[Sem] = <<>> THEN "run" ELSE "detach_body")
    /\ UNCHANGED <<k, irq, value, alive, fault, credit, arrived>>

DetachBody(t) ==
    /\ Running(t)
    /\ Goto(t, "detach_body", "detach_test")
    /\ IF k.wait[Sem] = <<>>
       THEN fault' = TRUE /\ UNCHANGED <<k, arrived>>
       ELSE /\ k' = IpcListResumeError(k, Sem)
            /\ arrived' = RemoveFirst(arrived, Head(k.wait[Sem]))
            /\ UNCHANGED fault
    /\ UNCHANGED <<irq, value, alive, credit>>

SemInit(t) ==
    /\ Running(t) /\ t # Idle
    /\ ~alive
    /\ \A s \in Thread : pc[s] \notin {"detach_test", "detach_body"}
    /\ Goto(t, "run", "run")
    /\ alive' = TRUE
    /\ value' = InitValue
    /\ k' = [k EXCEPT !.wait[Sem] = <<>>]
    /\ credit' = InitValue + Cardinality(Granted)
    /\ UNCHANGED <<irq, fault, arrived>>

-----------------------------------------------------------------------------
(***************************************************************************)
(* The rest of the application and the tick.                               *)
(***************************************************************************)
SetPriority(t, u, p) ==
    /\ Running(t) /\ {t, u} \cap {Idle} = {}
    /\ "priority" \in Ops
    /\ k.stat[u] \in {"ready", "suspend"}
    /\ Goto(t, "run", "run")
    /\ k' = ChangePriority(k, u, p)
    /\ UNCHANGED <<irq, value, alive, fault, credit, arrived>>

Enter(t) ==
    /\ Running(t) /\ t # Idle
    /\ "critical" \in Ops /\ k.nest = 0
    /\ Goto(t, "run", "run")
    /\ k' = EnterCritical(k)
    /\ UNCHANGED <<irq, value, alive, fault, credit, arrived>>

Leave(t) ==
    /\ Running(t) /\ t # Idle
    /\ k.nest > 0
    /\ Goto(t, "run", "sched")
    /\ k' = ExitCritical(k)
    /\ UNCHANGED <<irq, value, alive, fault, credit, arrived>>

TickTimeout(u) ==
    /\ TimeoutStep(u)
    /\ arrived' = RemoveFirst(arrived, u)
    /\ UNCHANGED <<value, alive, fault, credit>>

TickYield == YieldStep /\ UNCHANGED <<value, alive, fault, credit, arrived>>

Sleep(t) ==
    /\ "sleep" \in Ops /\ k.nest = 0
    /\ SleepStep(t)
    /\ UNCHANGED <<value, alive, fault, credit, arrived>>

SleepSchedule(t) ==
    /\ ScheduleStep(t, "sleep_sched", "sleep_return")
    /\ UNCHANGED <<value, alive, fault, credit, arrived>>

SleepReturn(t) ==
    /\ SleepReturnStep(t)
    /\ UNCHANGED <<value, alive, fault, credit, arrived>>

Compute(t) == OwnCode(t) /\ UNCHANGED <<value, alive, fault, credit, arrived>>

-----------------------------------------------------------------------------
ThreadStep(t) ==
    \/ Compute(t) \/ Sleep(t) \/ SleepSchedule(t) \/ SleepReturn(t)
    \/ TakeNow(t) \/ TakeFail(t) \/ \E time \in Times : TakeSuspend(t, time)
    \/ TakeSchedule(t) \/ TakeReturn(t)
    \/ Release(t) \/ ReleaseSchedule(t)
    \/ Reset(t) \/ ResetWake(t) \/ \E v \in 0 .. MaxCredit : ResetValue(t, v)
    \/ Detach(t) \/ DetachTest(t) \/ DetachBody(t) \/ SemInit(t)
    \/ Enter(t) \/ Leave(t)
    \/ \E u \in Thread, p \in Priority : SetPriority(t, u, p)

Next ==
    \/ Start \/ \E t \in Thread : Boot(t) \/ ThreadStep(t) \/ TickTimeout(t)
    \/ TickYield \/ IsrRelease \/ IsrTryTake

Spec == Init /\ [][Next]_vars

\* The processor does not stop inside a kernel call of the current thread,
\* and ticks keep coming.
FairSpec ==
    /\ Spec
    /\ WF_vars(Start) /\ \A t \in Thread : WF_vars(Boot(t))
    /\ \A t \in Thread : WF_vars(pc[t] # "run" /\ ThreadStep(t))
    /\ \A t \in Thread : WF_vars(TickTimeout(t))

-----------------------------------------------------------------------------
(***************************************************************************)
(* Correctness.                                                            *)
(***************************************************************************)

\* Every variable has its type, and rt_schedule never computes the current
\* thread out of the head of an empty list.
TypeOK ==
    /\ k \in KernelState
    /\ k.current # Wild
    /\ irq \in Thread \cup {NoThread}
    /\ pc \in [Thread -> Pc]
    /\ value \in 0 .. ValueMod - 1
    /\ alive \in BOOLEAN
    /\ fault \in BOOLEAN
    /\ credit \in Int
    /\ arrived \in Seq(Thread)

\* The scheduler stays consistent under every interleaving of take, release,
\* control and the tick.
KernelConsistent == KernelOK(k)

\* The state of the kernel is sound: every variable has its type, no pointer to
\* a thread is the head of an empty list, and the data of the scheduler agree.
KernelSound == TypeOK /\ KernelConsistent

\* No lost wake-up: rt_sem_release either increments the value or wakes a
\* thread, so no thread waits while the semaphore is available.
NoLostWakeup == value > 0 => k.wait[Sem] = <<>>

\* No thread is stranded: a thread that rt_sem_take suspended is on the list
\* that release and control wake threads from until it is READY again, and
\* nobody else is on that list.
NoStranded ==
    \A t \in Thread :
        t \in Waiting <=> (t \in Taking /\ k.stat[t] = "suspend")

\* Tokens are neither lost nor invented: what was released (or initialised,
\* or reset) is in the value, or granted to a thread that is on its way out
\* of rt_sem_take, until a take returns RT_EOK with it, however a release, a
\* time-out and a trytake from an interrupt race.
Conservation ==
    (alive /\ irq = NoThread) => credit = value + Cardinality(Granted)

\* The list is served as the flag asks: by priority, and in order of arrival
\* within a priority (RT_IPC_FLAG_PRIO) or altogether (RT_IPC_FLAG_FIFO).
ServiceOrder ==
    LET before(s, t) == \E i, j \in DOMAIN arrived :
                            i < j /\ arrived[i] = s /\ arrived[j] = t
        w == k.wait[Sem]
    IN  \A i, j \in DOMAIN w : i < j =>
            \/ Flag = "RT_IPC_FLAG_PRIO" /\ k.prio[w[i]] < k.prio[w[j]]
            \/ /\ Flag = "RT_IPC_FLAG_PRIO" => k.prio[w[i]] = k.prio[w[j]]
               /\ before(w[i], w[j])

\* A timed take of the thread with the highest priority returns: by a token,
\* by its time-out, or by a reset.
TopTakeReturns ==
    \A t \in Thread :
        (\A u \in Thread \ {t} : InitPriority[t] < InitPriority[u]) =>
            (t \in Taking \cap k.armed ~> t \notin Taking)

\* Whether no reset of the semaphore and no detach is under way.
Open == alive /\ \A t \in Thread : pc[t] # "reset_loop"

\* The semaphore implements the counting semaphore its users rely on.
Counting == INSTANCE CountingSemaphore
                WITH Modulus <- ValueMod, avail <- value, waiting <- Waiting,
                     granted <- Granted, open <- Open

RefinesCounting == Counting!Spec
=============================================================================
