------------------------------- MODULE Mutex -------------------------------
(***************************************************************************)
(* The mutexes of src/ipc.c: recursive, with an owner whose priority is    *)
(* raised to that of a thread that waits, on the scheduler of Kernel.      *)
(*                                                                         *)
(*   value[m], owner[m], hold[m]   the fields of struct rt_mutex           *)
(*   original[m]                   mutex->original_priority                *)
(*   k.wait[m]                     mutex->parent.suspend_thread            *)
(*   arg[t]     the mutex that t's kernel call in progress is about        *)
(*   alive      the mutexes that are initialised and not being detached    *)
(*   fault      as in module Semaphore                                     *)
(*   held[m][t] history: the takes of m that returned RT_EOK to t, minus   *)
(*              its releases, which is what the code of t believes it has  *)
(***************************************************************************)
EXTENDS System

CONSTANTS
    Mutexes,      \* the mutexes, each named by its suspend list
    NoMutex,
    Flag,         \* the flag of rt_mutex_init
    Times,        \* the waiting times that rt_mutex_take is called with
    Ops,          \* the other calls this application makes
    MaxHold       \* bound on recursive takes, below the 2^8 of mutex->hold

VARIABLES value, owner, hold, original, arg, alive, fault, held

mutexVars == <<value, owner, hold, original>>

vars == <<k, irq, pc, value, owner, hold, original, arg, alive, fault, held>>

\* mutex->original_priority of a mutex nobody owns
NoPriority == 255

ASSUME MutexAssumption ==
    /\ Mutexes \subseteq Queue
    /\ NoMutex \notin Mutexes
    /\ Flag \in {"RT_IPC_FLAG_FIFO", "RT_IPC_FLAG_PRIO"}
    /\ Times \subseteq {"zero", "timed", "forever"}
    /\ Ops \subseteq {"detach", "release_foreign", "sleep"}
    /\ MaxHold \in 1 .. 255
    /\ PriorityMax <= NoPriority

Pc == {"run", "take_sched", "take_return", "sched", "detach_test",
       "detach_body", "sleep_sched", "sleep_return"}

Taking(m) == {t \in Thread : pc[t] \in {"take_sched", "take_return"} /\ arg[t] = m}

Init ==
    /\ SystemInit
    /\ value = [m \in Mutexes |-> 1]
    /\ owner = [m \in Mutexes |-> NoThread]
    /\ hold = [m \in Mutexes |-> 0]
    /\ original = [m \in Mutexes |-> NoPriority]
    /\ arg = [t \in Thread |-> NoMutex]
    /\ alive = Mutexes
    /\ fault = FALSE
    /\ held = [m \in Mutexes |-> [t \in Thread |-> 0]]

Boot(t) == BootStep(t) /\ UNCHANGED <<mutexVars, arg, alive, fault, held>>

Start == StartStep /\ UNCHANGED <<mutexVars, arg, alive, fault, held>>

Compute(t) == OwnCode(t) /\ UNCHANGED <<mutexVars, arg, alive, fault, held>>

Sleep(t) ==
    /\ "sleep" \in Ops
    /\ SleepStep(t)
    /\ UNCHANGED <<mutexVars, arg, alive, fault, held>>

SleepSchedule(t) ==
    /\ ScheduleStep(t, "sleep_sched", "sleep_return")
    /\ UNCHANGED <<mutexVars, arg, alive, fault, held>>

SleepReturn(t) ==
    /\ SleepReturnStep(t)
    /\ UNCHANGED <<mutexVars, arg, alive, fault, held>>

-----------------------------------------------------------------------------
(***************************************************************************)
(* rt_mutex_take: the interrupt-disabled section, by its four outcomes;    *)
(* then, for a thread that waits, rt_schedule and the test of              *)
(* thread->error.                                                          *)
(***************************************************************************)
CallMutex(t, m) == Running(t) /\ t # Idle /\ m \in alive

ErrorReset(t) == [k EXCEPT !.error[t] = "RT_EOK"]

TakeAgain(t, m) ==
    /\ CallMutex(t, m)
    /\ Times # {}
    /\ Goto(t, "run", "run")
    /\ owner[m] = t
    /\ hold[m] < MaxHold
    /\ hold' = [hold EXCEPT ![m] = hold[m] + 1]
    /\ held' = [held EXCEPT ![m][t] = held[m][t] + 1]
    /\ k' = ErrorReset(t)
    /\ UNCHANGED <<irq, value, owner, original, arg, alive, fault>>

TakeFree(t, m) ==
    /\ CallMutex(t, m)
    /\ Times # {}
    /\ Goto(t, "run", "run")
    /\ owner[m] # t /\ value[m] > 0
    /\ value' = [value EXCEPT ![m] = value[m] - 1]
    /\ owner' = [owner EXCEPT ![m] = t]
    /\ original' = [original EXCEPT ![m] = k.prio[t]]
    /\ hold' = [hold EXCEPT ![m] = hold[m] + 1]
    /\ held' = [held EXCEPT ![m][t] = held[m][t] + 1]
    /\ k' = ErrorReset(t)
    /\ UNCHANGED <<irq, arg, alive, fault>>

TakeFail(t, m) ==
    /\ CallMutex(t, m)
    /\ "zero" \in Times
    /\ Goto(t, "run", "run")
    /\ owner[m] # t /\ value[m] = 0
    /\ k' = [k EXCEPT !.error[t] = "RT_ETIMEOUT"]
    /\ UNCHANGED <<irq, mutexVars, arg, alive, fault, held>>

\* mutation: no priority inheritance
InheritNot(s, t, m) == s

\* the priority the waiting thread t passes on to the owner of m
Inherit(s, t, m) ==
    IF s.prio[t] < s.prio[owner[m]]
    THEN ChangePriority(s, owner[m], s.prio[t])
    ELSE s

TakeSuspend(t, m, time) ==
    /\ CallMutex(t, m)
    /\ time # "zero"
    /\ Goto(t, "run", "take_sched")
    /\ owner[m] # t /\ value[m] = 0
    /\ LET s == IpcListSuspend(Inherit(ErrorReset(t), t, m), m, t, Flag)
       IN  k' = IF time = "timed" THEN TimerStart(s, t) ELSE s
    /\ arg' = [arg EXCEPT ![t] = m]
    /\ UNCHANGED <<irq, mutexVars, alive, fault, held>>

TakeSchedule(t) ==
    /\ ScheduleStep(t, "take_sched", "take_return")
    /\ UNCHANGED <<mutexVars, arg, alive, fault, held>>

TakeReturn(t) ==
    /\ Running(t)
    /\ Goto(t, "take_return", "run")
    /\ held' = IF k.error[t] = "RT_EOK"
               THEN [held EXCEPT ![arg[t]][t] = held[arg[t]][t] + 1] ELSE held
    /\ arg' = [arg EXCEPT ![t] = NoMutex]
    /\ UNCHANGED <<k, irq, mutexVars, alive, fault>>

-----------------------------------------------------------------------------
(***************************************************************************)
(* rt_mutex_release: refused to a thread that is not the owner; one hold   *)
(* less; or, with the last hold, the owner gets its priority back and the  *)
(* mutex goes to the first thread of the list, or becomes free.            *)
(***************************************************************************)
ReleaseForeign(t, m) ==
    /\ CallMutex(t, m)
    /\ "release_foreign" \in Ops
    /\ Goto(t, "run", "run")
    /\ owner[m] # t
    /\ k' = [k EXCEPT !.error[t] = "RT_ERROR"]
    /\ UNCHANGED <<irq, mutexVars, arg, alive, fault, held>>

ReleaseOnce(t, m) ==
    /\ CallMutex(t, m)
    /\ Goto(t, "run", "run")
    /\ owner[m] = t /\ hold[m] > 1
    /\ hold' = [hold EXCEPT ![m] = hold[m] - 1]
    /\ held' = [held EXCEPT ![m][t] = held[m][t] - 1]
    /\ UNCHANGED <<k, irq, value, owner, original, arg, alive, fault>>

\* mutation: the priority is not changed back
RestoredNot(t, m) == k

Restored(t, m) ==
    IF original[m] # k.prio[t] THEN ChangePriority(k, t, original[m]) ELSE k

ReleaseHandOver(t, m) ==
    /\ CallMutex(t, m)
    /\ Goto(t, "run", "sched")
    /\ owner[m] = t /\ hold[m] = 1
    /\ k.wait[m] # <<>>
    /\ LET s == Restored(t, m)
           w == Head(s.wait[m])
       IN  /\ owner' = [owner EXCEPT ![m] = w]
           /\ original' = [original EXCEPT ![m] = s.prio[w]]
           /\ k' = IpcListResume(s, m)
    /\ held' = [held EXCEPT ![m][t] = held[m][t] - 1]
    /\ UNCHANGED <<irq, value, hold, arg, alive, fault>>

\* mutation: hold is not counted down first
ReleaseFreeEarly(t, m) ==
    /\ CallMutex(t, m)
    /\ Goto(t, "run", "run")
    /\ owner[m] = t
    /\ k.wait[m] = <<>>
    /\ k' = Restored(t, m)
    /\ hold' = [hold EXCEPT ![m] = 0]
    /\ value' = [value EXCEPT ![m] = 1]
    /\ owner' = [owner EXCEPT ![m] = NoThread]
    /\ original' = [original EXCEPT ![m] = NoPriority]
    /\ held' = [held EXCEPT ![m][t] = held[m][t] - 1]
    /\ UNCHANGED <<irq, arg, alive, fault>>

ReleaseFree(t, m) ==
    /\ CallMutex(t, m)
    /\ Goto(t, "run", "run")
    /\ owner[m] = t /\ hold[m] = 1
    /\ k.wait[m] = <<>>
    /\ k' = Restored(t, m)
    /\ hold' = [hold EXCEPT ![m] = 0]
    /\ value' = [value EXCEPT ![m] = value[m] + 1]
    /\ owner' = [owner EXCEPT ![m] = NoThread]
    /\ original' = [original EXCEPT ![m] = NoPriority]
    /\ held' = [held EXCEPT ![m][t] = held[m][t] - 1]
    /\ UNCHANGED <<irq, arg, alive, fault>>

ReleaseSchedule(t) ==
    /\ ScheduleStep(t, "sched", "run")
    /\ UNCHANGED <<mutexVars, arg, alive, fault, held>>

-----------------------------------------------------------------------------
(***************************************************************************)
(* rt_mutex_detach and rt_mutex_delete, by rt_ipc_list_resume_all as in    *)
(* module Semaphore, and rt_mutex_init or rt_mutex_create after it.  An    *)
(* application detaches a mutex that no thread holds any more.             *)
(***************************************************************************)
Detach(t, m) ==
    /\ CallMutex(t, m)
    /\ "detach" \in Ops
    /\ owner[m] \in {NoThread, t} /\ hold[m] <= 1
    /\ Goto(t, "run", "detach_test")
    /\ alive' = alive \ {m}
    /\ arg' = [arg EXCEPT ![t] = m]
    /\ held' = [held EXCEPT ![m][t] = 0]
    /\ UNCHANGED <<k, irq, mutexVars, fault>>

DetachTest(t) ==
    /\ Running(t)
    /\ Goto(t, "detach_test",
            IF k.wait[arg[t]] = <<>> THEN "run" ELSE "detach_body")
    /\ arg' = [arg EXCEPT ![t] = IF k.wait[arg[t]] = <<>> THEN NoMutex ELSE arg[t]]
    /\ UNCHANGED <<k, irq, mutexVars, alive, fault, held>>

DetachBody(t) ==
    /\ Running(t)
    /\ Goto(t, "detach_body", "detach_test")
    /\ IF k.wait[arg[t]] = <<>>
       THEN fault' = TRUE /\ UNCHANGED k
       ELSE k' = IpcListResumeError(k, arg[t]) /\ UNCHANGED fault
    /\ UNCHANGED <<irq, mutexVars, arg, alive, held>>

\* mutation: the owner is not initialised
MutexInitKeepsOwner(t, m) ==
    /\ Running(t) /\ t # Idle
    /\ m \notin alive
    /\ \A s \in Thread : arg[s] # m
    /\ Goto(t, "run", "run")
    /\ alive' = alive \cup {m}
    /\ value' = [value EXCEPT ![m] = 1]
    /\ hold' = [hold EXCEPT ![m] = 0]
    /\ original' = [original EXCEPT ![m] = NoPriority]
    /\ k' = [k EXCEPT !.wait[m] = <<>>]
    /\ UNCHANGED <<irq, owner, arg, fault, held>>

MutexInit(t, m) ==
    /\ Running(t) /\ t # Idle
    /\ m \notin alive
    /\ \A s \in Thread : arg[s] # m
    /\ Goto(t, "run", "run")
    /\ alive' = alive \cup {m}
    /\ value' = [value EXCEPT ![m] = 1]
    /\ owner' = [owner EXCEPT ![m] = NoThread]
    /\ hold' = [hold EXCEPT ![m] = 0]
    /\ original' = [original EXCEPT ![m] = NoPriority]
    /\ k' = [k EXCEPT !.wait[m] = <<>>]
    /\ UNCHANGED <<irq, arg, fault, held>>

-----------------------------------------------------------------------------
TickTimeout(u) == TimeoutStep(u) /\ UNCHANGED <<mutexVars, arg, alive, fault, held>>

TickYield == YieldStep /\ UNCHANGED <<mutexVars, arg, alive, fault, held>>

ThreadStep(t) ==
    \/ Compute(t) \/ Sleep(t) \/ SleepSchedule(t) \/ SleepReturn(t)
    \/ \E m \in Mutexes :
          \/ TakeAgain(t, m) \/ TakeFree(t, m) \/ TakeFail(t, m)
          \/ \E time \in Times : TakeSuspend(t, m, time)
          \/ ReleaseForeign(t, m) \/ ReleaseOnce(t, m)
          \/ ReleaseHandOver(t, m) \/ ReleaseFree(t, m)
          \/ Detach(t, m) \/ MutexInit(t, m)
    \/ TakeSchedule(t) \/ TakeReturn(t) \/ ReleaseSchedule(t)
    \/ DetachTest(t) \/ DetachBody(t)

Next ==
    \/ Start \/ \E t \in Thread : Boot(t) \/ ThreadStep(t) \/ TickTimeout(t)
    \/ TickYield

Spec == Init /\ [][Next]_vars

UnwindStep(t) == \E m \in Mutexes : ReleaseOnce(t, m)

GiveUpStep(t) == \E m \in Mutexes : ReleaseHandOver(t, m) \/ ReleaseFree(t, m)

\* The processor does not stop inside a kernel call of the current thread,
\* ticks keep coming, and a thread that has a mutex and gets the processor
\* again and again gives the mutex up in the end: that is the application's
\* part of the bargain.
FairSpec ==
    /\ Spec
    /\ WF_vars(Start) /\ \A t \in Thread : WF_vars(Boot(t))
    /\ \A t \in Thread : WF_vars(pc[t] # "run" /\ ThreadStep(t))
    /\ \A t \in Thread : /\ WF_vars(TickTimeout(t))
                         /\ SF_vars(UnwindStep(t)) /\ SF_vars(GiveUpStep(t))

-----------------------------------------------------------------------------
(***************************************************************************)
(* Correctness.                                                            *)
(***************************************************************************)

\* Every variable has its type and no pointer to a thread is wild.
TypeOK ==
    /\ k \in KernelState
    /\ k.current # Wild
    /\ irq = NoThread
    /\ pc \in [Thread -> Pc]
    /\ value \in [Mutexes -> {0, 1}]
    /\ owner \in [Mutexes -> Thread \cup {NoThread}]
    /\ hold \in [Mutexes -> 0 .. MaxHold]
    /\ original \in [Mutexes -> Priority \cup {NoPriority}]
    /\ arg \in [Thread -> Mutexes \cup {NoMutex}]
    /\ alive \in SUBSET Mutexes
    /\ fault \in BOOLEAN
    /\ held \in [Mutexes -> [Thread -> 0 .. MaxHold]]

\* The scheduler stays consistent, priority changes included.
KernelConsistent == KernelOK(k)

\* The state of the kernel is sound: every variable has its type, no pointer to
\* a thread is the head of an empty list, and the data of the scheduler agree.
KernelSound == TypeOK /\ KernelConsistent

\* The mutex is m's owner's: what the code of the threads believes they hold
\* is what the kernel accounts for, so two threads never believe they hold m
\* at once.  The owner may have one hold more than it knows of, while it is
\* on its way out of the rt_mutex_take that waited.
MutualExclusion ==
    \A m \in alive : \A t \in Thread :
        IF t = owner[m]
        THEN hold[m] = held[m][t] + (IF t \in Taking(m) THEN 1 ELSE 0)
        ELSE held[m][t] = 0

\* A mutex is free, without owner and without hold together, and then no
\* thread waits for it: no wake-up is lost when a release, a take and a
\* time-out race.
FreeMeansFree ==
    \A m \in alive :
        /\ value[m] = 1 <=> owner[m] = NoThread
        /\ hold[m] = 0 <=> owner[m] = NoThread
        /\ owner[m] = NoThread => k.wait[m] = <<>>

\* The fields of a mutex, its list and what the threads believe agree, through
\* recursion, hand-over, foreign releases and detach (ipc.c).
OwnersAgree == MutualExclusion /\ FreeMeansFree

\* A take that succeeds after a wait succeeds for the owner, and every other
\* thread inside such a take is suspended on the list or has an error.
WaitersAccounted ==
    \A m \in alive : \A t \in Taking(m) :
        \/ t \in ToSet(k.wait[m]) /\ k.stat[t] = "suspend" /\ owner[m] # t
        \/ k.stat[t] = "ready" /\ (k.error[t] = "RT_EOK" <=> owner[m] = t)

\* Priority inheritance: the owner of a mutex runs at no lower priority than
\* any thread that waits for it.
Inherited ==
    \A m \in alive : \A t \in ToSet(k.wait[m]) : k.prio[owner[m]] <= k.prio[t]

\* A thread that owns no mutex has its own priority back.
BoostEnds ==
    \A t \in Thread :
        (k.stat[t] # "none" /\ \A m \in Mutexes : owner[m] # t)
            => k.prio[t] = InitPriority[t]

\* No unbounded inversion: the thread of highest priority gets the mutex it
\* waits for (or its time-out) although threads of a priority between it and the owner may
\* compute for ever, as long as owners release the mutex when they run.
TopTakesMutex ==
    \A t \in Thread : \A m \in Mutexes :
        (\A u \in Thread \ {t} : InitPriority[t] < InitPriority[u]) =>
            (t \in Taking(m) ~> (held[m][t] > 0 \/ k.error[t] # "RT_EOK"))
=============================================================================
