------------------------------- MODULE MemPool -------------------------------
(***************************************************************************)
(* One memory pool of src/mempool.c: a stack of free blocks, threads that  *)
(* wait for one, and frees from threads and from interrupt handlers.       *)
(*                                                                         *)
(*   free       the list of free blocks, mp->block_list first              *)
(*   count      mp->block_free_count                                       *)
(*   waiting    mp->suspend_thread_count                                   *)
(*   held[t]    the blocks that thread t has been given and not freed      *)
(*   alive      whether the pool is initialised                            *)
(*                                                                         *)
(* This module has the pool and the threads' calls; the next-state         *)
(* relation is that of the module which puts the pool to use.              *)
(***************************************************************************)
EXTENDS System

CONSTANTS
    Pool,       \* mp->suspend_thread, an element of Queue
    Blocks,     \* the blocks, in the order of their addresses
    Times,      \* the waiting times of the calls
    Ops,        \* the other calls this application makes
    MaxHeld,    \* the most blocks a thread has at a time
    MaxWaiting  \* the bound on suspend_thread_count, which time-outs make grow

VARIABLES free, count, waiting, held, alive

poolVars == <<free, count, waiting, held, alive>>

Block == ToSet(Blocks)

ASSUME MemPoolAssumption ==
    /\ Pool \in Queue
    /\ Blocks \in Seq(Block) /\ Len(Blocks) > 0 /\ IsInjective(Blocks)
    /\ Times \subseteq {"zero", "timed", "forever"}
    /\ Ops \subseteq {"free", "detach"}
    /\ MaxHeld \in Nat /\ MaxWaiting \in Nat

PoolPc == {"run", "alloc_sched", "alloc_return", "free_sched",
           "detach_test", "detach_body", "lost"}

Allocating == {t \in Thread : pc[t] \in {"alloc_sched", "alloc_return"}}

\* the threads that rt_mp_free has woken and that have not run since
Woken == {t \in Allocating : k.stat[t] = "ready" /\ k.error[t] = "RT_EOK"}

\* rt_mp_init, rt_mp_create
PoolInit ==
    /\ free = Blocks /\ count = Len(Blocks) /\ waiting = 0
    /\ held = [t \in Thread |-> {}]
    /\ alive = TRUE

-----------------------------------------------------------------------------
(***************************************************************************)
(* rt_mp_alloc.                                                            *)
(***************************************************************************)
Calls(t) == Running(t) /\ t # Idle /\ alive /\ pc[t] = "run" /\ Cardinality(held[t]) < MaxHeld

TakeBlock(t) ==
    /\ free' = Tail(free)
    /\ count' = count - 1
    /\ held' = [held EXCEPT ![t] = @ \cup {Head(free)}]

AllocNow(t) ==
    /\ Calls(t) /\ count > 0
    /\ TakeBlock(t)
    /\ UNCHANGED <<k, irq, pc, waiting, alive>>

\* RT_NULL at once, for a call that does not wait
AllocNone(t) ==
    /\ Calls(t) /\ count = 0 /\ "zero" \in Times
    /\ UNCHANGED <<k, irq, pc, poolVars>>

\* the latest to wait comes first
AllocSuspend(t, time) ==
    /\ Calls(t) /\ count = 0 /\ time # "zero" /\ waiting < MaxWaiting
    /\ Goto(t, "run", "alloc_sched")
    /\ LET s == ListInsertAfter(Suspend(k, t), Pool, t)
       IN  k' = IF time = "timed" THEN TimerStart(s, t) ELSE s
    /\ waiting' = waiting + 1
    /\ UNCHANGED <<irq, free, count, held, alive>>

AllocSchedule(t) == ScheduleStep(t, "alloc_sched", "alloc_return") /\ UNCHANGED poolVars

\* RT_NULL, after a time-out or a detach
AllocError(t) ==
    /\ Running(t) /\ k.error[t] # "RT_EOK"
    /\ Goto(t, "alloc_return", "run")
    /\ UNCHANGED <<k, irq, poolVars>>

\* a thread that is woken takes a block without another test
AllocWoken(t) ==
    /\ Running(t) /\ k.error[t] = "RT_EOK"
    /\ free # <<>>
    /\ Goto(t, "alloc_return", "run")
    /\ TakeBlock(t)
    /\ UNCHANGED <<k, irq, waiting, alive>>

\* and follows a null pointer when another thread has taken the block; what
\* happens from there on is undefined, and not followed
AllocLost(t) ==
    /\ Running(t) /\ k.error[t] = "RT_EOK"
    /\ free = <<>>
    /\ Goto(t, "alloc_return", "lost")
    /\ irq' = t
    /\ UNCHANGED <<k, poolVars>>

-----------------------------------------------------------------------------
(***************************************************************************)
(* rt_mp_free, up to its call of rt_schedule.                              *)
(***************************************************************************)
GiveBlock(b) == free' = <<b>> \o free /\ count' = count + 1

\* mutation: a thread is woken only when there was no free block before
WakeFirstIfNone(s) ==
    IF waiting > 0 /\ free = <<>>
    THEN Resume([s EXCEPT !.error[Head(s.wait[Pool])] = "RT_EOK"], Head(s.wait[Pool]))
    ELSE s

\* the first thread of the suspend list, if suspend_thread_count says there is
\* one, goes on without an error
WakeFirst(s) ==
    IF waiting > 0
    THEN Resume([s EXCEPT !.error[Head(s.wait[Pool])] = "RT_EOK"], Head(s.wait[Pool]))
    ELSE s

CountWake == waiting' = IF waiting > 0 THEN waiting - 1 ELSE 0

\* suspend_thread_count and the list disagree: the list head is taken for a
\* thread
Stray == waiting > 0 /\ k.wait[Pool] = <<>>

Free(t, b) ==
    /\ Running(t) /\ "free" \in Ops /\ b \in held[t] /\ ~ Stray
    /\ Goto(t, "run", IF waiting > 0 THEN "free_sched" ELSE "run")
    /\ GiveBlock(b)
    /\ k' = WakeFirst(k) /\ CountWake
    /\ held' = [held EXCEPT ![t] = @ \ {b}]
    /\ UNCHANGED <<irq, alive>>

FreeLost(t, b) ==
    /\ Running(t) /\ "free" \in Ops /\ b \in held[t] /\ Stray
    /\ Goto(t, "run", "lost")
    /\ irq' = t
    /\ UNCHANGED <<k, poolVars>>

FreeSchedule(t) == ScheduleStep(t, "free_sched", "run") /\ UNCHANGED poolVars

-----------------------------------------------------------------------------
(***************************************************************************)
(* rt_mp_detach and rt_mp_delete; rt_mp_init or rt_mp_create when no call  *)
(* is in progress any more and every block is back.                        *)
(***************************************************************************)
Detach(t) ==
    /\ Running(t) /\ t # Idle /\ alive /\ "detach" \in Ops
    /\ Goto(t, "run", "detach_test")
    /\ alive' = FALSE
    /\ UNCHANGED <<k, irq, free, count, waiting, held>>

DetachTest(t) ==
    ResumeAllTest(t, Pool, "detach_test", "detach_body", "run") /\ UNCHANGED poolVars

DetachWake(t) ==
    /\ ResumeAllWake(t, Pool, "detach_body", "detach_test")
    /\ waiting' = waiting - 1
    /\ UNCHANGED <<free, count, held, alive>>

DetachLost(t) ==
    ResumeAllLost(t, Pool, "detach_body") /\ UNCHANGED poolVars

PoolReinit(t) ==
    /\ Running(t) /\ t # Idle /\ ~ alive
    /\ \A s \in Thread \ {t} : pc[s] \in {"run", "free_sched"}
    /\ ToSet(free) = Block
    /\ Goto(t, "run", "run")
    /\ free' = Blocks /\ count' = Len(Blocks) /\ waiting' = 0
    /\ alive' = TRUE
    /\ k' = [k EXCEPT !.wait[Pool] = <<>>]
    /\ UNCHANGED <<irq, held>>

-----------------------------------------------------------------------------
PoolStep(t) ==
    \/ AllocNow(t) \/ AllocNone(t) \/ \E time \in Times : AllocSuspend(t, time)
    \/ AllocSchedule(t) \/ AllocError(t) \/ AllocWoken(t) \/ AllocLost(t)
    \/ \E b \in Block : Free(t, b) \/ FreeLost(t, b)
    \/ FreeSchedule(t)
    \/ Detach(t) \/ DetachTest(t) \/ DetachWake(t) \/ DetachLost(t) \/ PoolReinit(t)

\* The threads on the suspend list are those that rt_mp_alloc suspended and
\* nothing has woken, and suspend_thread_count covers them all.
NoStranded ==
    /\ \A t \in Thread :
          t \in ToSet(k.wait[Pool]) <=> (t \in Allocating /\ k.stat[t] = "suspend")
    /\ Len(k.wait[Pool]) <= waiting

\* No wake-up is lost: who waits is on the list and counted, and while threads
\* wait, every free block is matched by a thread that was woken for it and has
\* yet to run.
NoLostWakeup ==
    /\ NoStranded
    /\ k.wait[Pool] # <<>> => Len(free) <= Cardinality(Woken)
=============================================================================
