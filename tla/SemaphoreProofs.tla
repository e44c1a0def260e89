-------------------------- MODULE SemaphoreProofs --------------------------
(***************************************************************************)
(* The semaphore of module Semaphore keeps its promises for any number of  *)
(* threads and priorities, either flag and any width of sem->value, as     *)
(* long as no thread blocks between rt_enter_critical and                  *)
(* rt_exit_critical.                                                       *)
(***************************************************************************)
EXTENDS Semaphore, KernelProofs, FiniteSetTheorems

\* The places where a thread is about to call rt_schedule to block.
Blocking == {"take_sched", "sleep_sched"}

\* Before the scheduler starts no thread has run; after it the idle thread
\* is READY, so rt_schedule always finds one.
Started ==
    IF k.current = NoThread
    THEN k.nest = 0 /\ \A t \in Thread : pc[t] = "run"
    ELSE k.stat[Idle] = "ready"

\* The current thread is READY unless it is about to block ...
CurrentReady ==
    \A t \in Thread : k.current = t /\ pc[t] \notin Blocking => k.stat[t] = "ready"

\* ... which it never is with the scheduler locked.
NestOK == k.nest > 0 => \A t \in Thread : k.current = t => pc[t] \notin Blocking

\* A semaphore that is detached, with nobody still detaching it, has no waiters.
DetachDone ==
    (~alive /\ \A t \in Thread : pc[t] \notin {"detach_test", "detach_body"})
        => k.wait[Sem] = <<>>

\* The inductive invariant, but for the types and the kernel state.
Rest ==
    /\ NoLostWakeup
    /\ NoStranded
    /\ Started
    /\ CurrentReady
    /\ NestOK
    /\ DetachDone

IInv == TypeOK /\ KernelConsistent /\ Rest

-----------------------------------------------------------------------------
(***************************************************************************)
(* What the parts of the invariant say at the places they are used.        *)
(***************************************************************************)

\* rt_ipc_list_resume finds a SUSPENDed thread at the head of the list.
LEMMA HeadSuspended ==
  ASSUME TypeOK, NoStranded, k.wait[Sem] # <<>>
  PROVE  /\ Head(k.wait[Sem]) \in Thread
         /\ Head(k.wait[Sem]) \in ToSet(k.wait[Sem])
         /\ k.stat[Head(k.wait[Sem])] = "suspend"
<1>1. k.wait[Sem] \in Seq(Thread) BY SemaphoreAssumption DEF TypeOK, KernelState
<1>2. Head(k.wait[Sem]) \in Waiting /\ Head(k.wait[Sem]) \in Thread
  BY <1>1, HeadToSet DEF Waiting
<1> QED BY <1>2 DEF NoStranded, Waiting

\* Counting the threads a release has woken gives a number.
LEMMA GrantedCount == Cardinality(Granted) \in Nat
<1>1. Granted \subseteq Thread BY DEF Granted, Taking
<1> QED BY <1>1, KernelAssumption, FS_Subset, FS_CardinalityType

\* A step that leaves the detaching of the semaphore where it was, and adds
\* nobody to its list.
LEMMA DetachDoneKept ==
  ASSUME TypeOK, DetachDone, alive' = alive, pc' = pc \/
         (\E t \in Thread : \E to \in Pc \ {"detach_test", "detach_body"} :
             /\ pc' = [pc EXCEPT ![t] = to]
             /\ pc[t] \notin {"detach_test", "detach_body"}),
         k.wait[Sem] = <<>> => k'.wait[Sem] = <<>>
  PROVE  DetachDone'
<1>1. pc \in [Thread -> Pc] BY DEF TypeOK
<1>2. \A u \in Thread : pc[u] \in {"detach_test", "detach_body"}
                          => pc'[u] \in {"detach_test", "detach_body"}
  BY <1>1
<1> QED BY <1>2 DEF DetachDone

\* What every step but boot and the calls that block does to the invariant:
\* it wakes the threads in W, takes them off the list, and either leaves the
\* processor to the current thread or gives it to a READY one.
LEMMA RestStep ==
  ASSUME TypeOK, Rest, k.current \in Thread, k'.current \in Thread, k.nest \in Nat,
         NEW W \in SUBSET Thread,
         \A u \in Thread : k'.stat[u] = IF u \in W THEN "ready" ELSE k.stat[u],
         ToSet(k'.wait[Sem]) = ToSet(k.wait[Sem]) \ W,
         \/ k.nest = 0 /\ k'.stat[k'.current] = "ready"
         \/ /\ k'.current = k.current
            /\ pc'[k.current] \in Blocking <=> pc[k.current] \in Blocking,
         k'.nest = k.nest \/ pc'[k'.current] \notin Blocking,
         \A u \in Thread :
            \/ u \in Taking' <=> u \in Taking
            \/ k.stat[u] = "ready" /\ u \notin Taking',
         value' > 0 => k'.wait[Sem] = <<>>,
         DetachDone'
  PROVE  Rest'
<1>1. NoLostWakeup' BY DEF NoLostWakeup
<1>2. NoStranded'
  <2> SUFFICES ASSUME NEW u \in Thread
               PROVE  u \in ToSet(k'.wait[Sem]) <=> (u \in Taking' /\ k'.stat[u] = "suspend")
    BY DEF NoStranded, Waiting
  <2>1. u \in ToSet(k.wait[Sem]) <=> (u \in Taking /\ k.stat[u] = "suspend")
    BY DEF Rest, NoStranded, Waiting
  <2> QED BY <2>1
<1>3. Started'
  <2>1. k.stat[Idle] = "ready" BY KernelAssumption DEF Rest, Started
  <2> QED BY <2>1, KernelAssumption DEF Started
<1>4. CurrentReady'
  <2>1. pc[k.current] \notin Blocking => k.stat[k.current] = "ready"
    BY DEF Rest, CurrentReady
  <2> QED BY <2>1 DEF CurrentReady
<1>5. NestOK'
  <2>1. k.nest > 0 => pc[k.current] \notin Blocking
    BY DEF Rest, NestOK
  <2> QED BY <2>1 DEF NestOK
<1> QED BY <1>1, <1>2, <1>3, <1>4, <1>5 DEF Rest

\* The special case of a step of the current thread that wakes nobody.
LEMMA RestQuiet ==
  ASSUME TypeOK, Rest, NEW t \in Thread, k.current = t,
         k'.stat = k.stat, k'.wait = k.wait, k'.current = k.current,
         pc[t] \notin Blocking,
         NEW to \in Pc \ {"take_sched", "take_return", "sleep_sched"},
         pc' = [pc EXCEPT ![t] = to],
         value' > 0 => k.wait[Sem] = <<>>,
         DetachDone'
  PROVE  Rest'
<1>1. pc \in [Thread -> Pc] /\ k.nest \in Nat BY DEF TypeOK, KernelState
<1>2. \A u \in Thread : pc'[u] = IF u = t THEN to ELSE pc[u] BY <1>1
<1>3. k.stat[t] = "ready" BY DEF Rest, CurrentReady
<1>4. pc'[t] \notin Blocking BY <1>2 DEF Blocking
<1>5. \A u \in Thread :
            \/ u \in Taking' <=> u \in Taking
            \/ k.stat[u] = "ready" /\ u \notin Taking'
  BY <1>2, <1>3 DEF Taking
<1> DEFINE W == {}
<1>6. /\ W \in SUBSET Thread
      /\ \A u \in Thread : k'.stat[u] = IF u \in W THEN "ready" ELSE k.stat[u]
      /\ ToSet(k'.wait[Sem]) = ToSet(k.wait[Sem]) \ W
  OBVIOUS
<1> HIDE DEF W
<1>7. /\ k.current \in Thread /\ k'.current \in Thread
      /\ k'.current = k.current
      /\ pc'[k.current] \in Blocking <=> pc[k.current] \in Blocking
      /\ pc'[k'.current] \notin Blocking
      /\ value' > 0 => k'.wait[Sem] = <<>>
  BY <1>4
<1> QED BY <1>1, <1>5, <1>6, <1>7, RestStep

-----------------------------------------------------------------------------
(***************************************************************************)
(* The invariant is kept, action by action.                                *)
(***************************************************************************)

\* rt_sem_take when it does not wait, and its return when it did.
LEMMA TakeKeeps ==
  ASSUME IInv, NEW t \in Thread, TakeNow(t) \/ TakeFail(t) \/ TakeReturn(t)
  PROVE  IInv'
<1> USE DEF IInv
<1>1. /\ k' = k /\ k.current = t /\ alive' = alive
      /\ pc[t] \in {"run", "take_return"} /\ pc' = [pc EXCEPT ![t] = "run"]
      /\ value' = value \/ (value > 0 /\ value' = value - 1)
  BY DEF TakeNow, TakeFail, TakeReturn, Running, Goto
<1>2. TypeOK'
  BY SemaphoreAssumption DEF TakeNow, TakeFail, TakeReturn, Goto, TypeOK, Pc
<1>3. KernelConsistent' BY <1>1 DEF KernelConsistent
<1>4. DetachDone'
  BY <1>1, DetachDoneKept DEF Rest, Pc
<1>5. value' > 0 => k.wait[Sem] = <<>>
  BY <1>1 DEF Rest, NoLostWakeup, TypeOK
<1>6. Rest'
  BY <1>1, <1>4, <1>5, RestQuiet DEF Pc, Blocking
<1> QED BY <1>2, <1>3, <1>6

\* rt_sem_control: its start, and the new value when nobody waits.
LEMMA ResetKeeps ==
  ASSUME IInv, NEW t \in Thread, Reset(t) \/ \E v \in 0 .. MaxCredit : ResetValue(t, v)
  PROVE  IInv'
<1> USE DEF IInv
<1>1. /\ k' = k /\ k.current = t /\ alive' = alive
      /\ \/ pc[t] = "run" /\ pc' = [pc EXCEPT ![t] = "reset_loop"] /\ value' = value
         \/ /\ pc[t] = "reset_loop" /\ pc' = [pc EXCEPT ![t] = "sched"]
            /\ k.wait[Sem] = <<>>
  BY DEF Reset, ResetValue, Running, Goto
<1>2. TypeOK'
  <2>1. CASE Reset(t)
    BY <2>1, SemaphoreAssumption DEF Reset, Goto, TypeOK, Pc
  <2>2. ASSUME NEW v \in 0 .. MaxCredit, ResetValue(t, v) PROVE TypeOK'
    <3>1. v % ValueMod \in 0 .. ValueMod - 1 BY SemaphoreAssumption
    <3>2. credit' \in Int BY <2>2, <3>1, GrantedCount DEF ResetValue
    <3> QED BY <2>2, <3>1, <3>2, KernelAssumption DEF ResetValue, Goto, TypeOK, Pc
  <2> QED BY <2>1, <2>2
<1>3. KernelConsistent' BY <1>1 DEF KernelConsistent
<1>4. DetachDone' BY <1>1, DetachDoneKept DEF Rest, Pc
<1>5. value' > 0 => k.wait[Sem] = <<>> BY <1>1 DEF Rest, NoLostWakeup
<1>6. Rest' BY <1>1, <1>4, <1>5, RestQuiet DEF Pc, Blocking
<1> QED BY <1>2, <1>3, <1>6

\* rt_sem_detach: its start, and the test of its loop.
LEMMA DetachKeeps ==
  ASSUME IInv, NEW t \in Thread, Detach(t) \/ DetachTest(t)
  PROVE  IInv'
<1> USE DEF IInv
<1>0. pc \in [Thread -> Pc] BY DEF TypeOK
<1>1. /\ k' = k /\ k.current = t /\ value' = value
      /\ \/ pc[t] = "run" /\ pc' = [pc EXCEPT ![t] = "detach_test"]
         \/ /\ pc[t] = "detach_test" /\ pc' = [pc EXCEPT ![t] = "detach_body"]
         \/ /\ pc[t] = "detach_test" /\ pc' = [pc EXCEPT ![t] = "run"]
            /\ k.wait[Sem] = <<>>
  BY DEF Detach, DetachTest, Running, Goto
<1>2. TypeOK' BY DEF Detach, DetachTest, Goto, TypeOK, Pc
<1>3. KernelConsistent' BY <1>1 DEF KernelConsistent
<1>4. DetachDone' BY <1>0, <1>1 DEF DetachDone
<1>5. value' > 0 => k.wait[Sem] = <<>> BY <1>1 DEF Rest, NoLostWakeup
<1>6. Rest' BY <1>1, <1>4, <1>5, RestQuiet DEF Pc, Blocking
<1> QED BY <1>2, <1>3, <1>6

\* rt_sem_init: nobody is on the list that it empties.
LEMMA SemInitKeeps ==
  ASSUME IInv, NEW t \in Thread, SemInit(t)
  PROVE  IInv'
<1> USE DEF IInv
<1>0. k \in KernelState BY DEF TypeOK
<1>1. k.wait[Sem] = <<>> BY DEF SemInit, Rest, DetachDone
<1>2. k' = [k EXCEPT !.wait[Sem] = <<>>] BY DEF SemInit
<1>3. k' = k BY <1>0, <1>1, <1>2 DEF KernelState
<1>4. /\ k.current = t /\ pc[t] = "run" /\ pc' = [pc EXCEPT ![t] = "run"] /\ alive' = TRUE
  BY DEF SemInit, Running, Goto
<1>5. TypeOK'
  <2>1. credit' \in Int /\ value' \in 0 .. ValueMod - 1
    BY GrantedCount, SemaphoreAssumption DEF SemInit
  <2> QED BY <1>3, <1>4, <2>1 DEF SemInit, TypeOK, Pc
<1>6. KernelConsistent' BY <1>3 DEF KernelConsistent
<1>7. DetachDone' BY <1>4 DEF DetachDone
<1>8. Rest' BY <1>1, <1>3, <1>4, <1>7, RestQuiet DEF Pc, Blocking
<1> QED BY <1>5, <1>6, <1>8

\* rt_thread_control changes the priority of a thread, READY or waiting.
LEMMA PriorityKeeps ==
  ASSUME IInv, NEW t \in Thread, NEW u \in Thread, NEW p \in Priority, SetPriority(t, u, p)
  PROVE  IInv'
<1> USE DEF IInv
<1>1. /\ k' = ChangePriority(k, u, p) /\ k.stat[u] \in {"ready", "suspend"}
      /\ k.current = t /\ pc[t] = "run" /\ pc' = [pc EXCEPT ![t] = "run"]
      /\ alive' = alive /\ value' = value
  BY DEF SetPriority, Running, Goto
<1>2. k \in KernelState /\ KernelOK(k) BY DEF TypeOK, KernelConsistent
<1>3. /\ k' \in KernelState
      /\ KernelOK(k')
      /\ k'.stat = k.stat /\ k'.error = k.error /\ k'.wait = k.wait
      /\ k'.armed = k.armed /\ k'.nest = k.nest /\ k'.current = k.current
  BY <1>1, <1>2, ChangePriorityProperties, ZenonT(60)
<1>4. TypeOK' BY <1>1, <1>3 DEF SetPriority, TypeOK, Pc
<1>5. KernelConsistent' BY <1>3 DEF KernelConsistent
<1>6. DetachDone' BY <1>1, <1>3, DetachDoneKept DEF Rest, Pc
<1>7. value' > 0 => k.wait[Sem] = <<>> BY <1>1 DEF Rest, NoLostWakeup
<1>8. Rest' BY <1>1, <1>3, <1>6, <1>7, RestQuiet DEF Pc, Blocking
<1> QED BY <1>4, <1>5, <1>8

\* The scheduler lock, and the return of rt_thread_sleep.
LEMMA CriticalKeeps ==
  ASSUME IInv, NEW t \in Thread, Enter(t) \/ Leave(t) \/ SleepReturn(t)
  PROVE  IInv'
<1> USE DEF IInv
<1>0. k \in KernelState /\ KernelOK(k) BY DEF TypeOK, KernelConsistent
<1>1. /\ k.current = t /\ pc[t] \in {"run", "sleep_return"}
      /\ alive' = alive /\ value' = value
      /\ \E to \in {"run", "sched"} : pc' = [pc EXCEPT ![t] = to]
  BY DEF Enter, Leave, SleepReturn, SleepReturnStep, Running, Goto
<1>2. /\ k' \in KernelState
      /\ k'.stat = k.stat /\ k'.prio = k.prio /\ k'.mask = k.mask /\ k'.ready = k.ready
      /\ k'.wait = k.wait /\ k'.group = k.group /\ k'.armed = k.armed
      /\ k'.current = k.current
  <2>0. k.nest \in Nat BY <1>0 DEF KernelState
  <2>1. ASSUME NEW n \in Nat, k' = [k EXCEPT !.nest = n]
        PROVE  /\ k' \in KernelState
               /\ k'.stat = k.stat /\ k'.prio = k.prio /\ k'.mask = k.mask
               /\ k'.ready = k.ready /\ k'.wait = k.wait /\ k'.group = k.group
               /\ k'.armed = k.armed /\ k'.current = k.current
    BY <1>0, <2>1 DEF KernelState
  <2>2. CASE Enter(t) \/ Leave(t)
    <3>1. \E n \in Nat : k' = [k EXCEPT !.nest = n]
      BY <2>0, <2>2 DEF Enter, Leave, EnterCritical, ExitCritical
    <3> QED BY <2>1, <3>1
  <2>3. CASE SleepReturn(t)
    BY <1>0, <2>3 DEF SleepReturn, SleepReturnStep, KernelState, Error
  <2> QED BY <2>2, <2>3
<1>3. TypeOK'
  BY <1>1, <1>2 DEF Enter, Leave, SleepReturn, SleepReturnStep, TypeOK, Pc
<1>4. KernelConsistent' BY <1>0, <1>2, KernelOKFrame DEF KernelConsistent
<1>5. DetachDone' BY <1>1, <1>2, DetachDoneKept DEF Rest, Pc
<1>6. value' > 0 => k.wait[Sem] = <<>> BY <1>1 DEF Rest, NoLostWakeup
<1>7. Rest' BY <1>1, <1>2, <1>5, <1>6, RestQuiet DEF Pc, Blocking
<1> QED BY <1>3, <1>4, <1>7

\* The calls of rt_schedule.
LEMMA ScheduleKeeps ==
  ASSUME IInv, NEW t \in Thread, TakeSchedule(t) \/ SleepSchedule(t) \/ ReleaseSchedule(t)
  PROVE  IInv'
<1> USE DEF IInv
<1>0. k \in KernelState /\ KernelOK(k) /\ k.nest \in Nat /\ pc \in [Thread -> Pc]
  BY DEF TypeOK, KernelConsistent, KernelState
<1>1. /\ k' = Schedule(k) /\ k.current = t /\ alive' = alive /\ value' = value
      /\ \/ pc[t] = "take_sched" /\ pc' = [pc EXCEPT ![t] = "take_return"]
         \/ pc[t] = "sleep_sched" /\ pc' = [pc EXCEPT ![t] = "sleep_return"]
         \/ pc[t] = "sched" /\ pc' = [pc EXCEPT ![t] = "run"]
  BY DEF TakeSchedule, SleepSchedule, ReleaseSchedule, ScheduleStep, Running, Goto
<1>2. k.stat[Idle] = "ready" BY <1>1, KernelAssumption DEF Rest, Started
<1>3. /\ k' \in KernelState
      /\ KernelOK(k')
      /\ k'.stat = k.stat /\ k'.wait = k.wait /\ k'.nest = k.nest
      /\ IF k.nest = 0 THEN k'.current \in Thread /\ k'.stat[k'.current] = "ready"
         ELSE k'.current = k.current
  BY <1>0, <1>1, <1>2, ScheduleProperties
<1>4. k'.current \in Thread BY <1>1, <1>3
<1>5. TypeOK'
  BY <1>1, <1>3, <1>4, KernelAssumption
  DEF TakeSchedule, SleepSchedule, ReleaseSchedule, ScheduleStep, TypeOK, Pc
<1>6. KernelConsistent' BY <1>3 DEF KernelConsistent
<1>7. DetachDone' BY <1>1, <1>3, DetachDoneKept, ZenonT(60) DEF Rest, Pc
<1>8. \A u \in Thread : u \in Taking' <=> u \in Taking BY <1>0, <1>1 DEF Taking
<1>9. \/ k.nest = 0 /\ k'.stat[k'.current] = "ready"
      \/ /\ k'.current = k.current
         /\ pc'[k.current] \in Blocking <=> pc[k.current] \in Blocking
  <2>1. CASE k.nest = 0 BY <1>3, <2>1
  <2>2. CASE k.nest > 0
    <3>1. pc[t] \notin Blocking BY <1>1, <2>2 DEF Rest, NestOK
    <3>2. pc'[t] = "run" BY <1>0, <1>1, <3>1 DEF Blocking
    <3> QED BY <1>1, <1>3, <2>2, <3>1, <3>2 DEF Blocking
  <2> QED BY <1>0, <2>1, <2>2
<1> DEFINE W == {}
<1>10. /\ W \in SUBSET Thread
       /\ \A u \in Thread : k'.stat[u] = IF u \in W THEN "ready" ELSE k.stat[u]
       /\ ToSet(k'.wait[Sem]) = ToSet(k.wait[Sem]) \ W
  BY <1>3
<1> HIDE DEF W
<1>11. value' > 0 => k'.wait[Sem] = <<>> BY <1>1, <1>3 DEF Rest, NoLostWakeup
<1>12. k'.nest = k.nest /\ k.current \in Thread BY <1>1, <1>3
<1>13. Rest'
  BY <1>0, <1>4, <1>7, <1>8, <1>9, <1>10, <1>11, <1>12, RestStep
<1> QED BY <1>5, <1>6, <1>13

\* What waking the head of the list does to the kernel state, with
\* (rt_ipc_list_resume_all) or without (rt_ipc_list_resume) an error for it.
LEMMA WakeHead ==
  ASSUME IInv, k.wait[Sem] # <<>>,
         NEW s, s = IpcListResume(k, Sem) \/ s = IpcListResumeError(k, Sem)
  PROVE  LET h == Head(k.wait[Sem])
         IN  /\ s \in KernelState
             /\ KernelOK(s)
             /\ s.current = k.current /\ s.nest = k.nest
             /\ s.stat = [k.stat EXCEPT ![h] = "ready"]
             /\ ToSet(s.wait[Sem]) = ToSet(k.wait[Sem]) \ {h}
<1> DEFINE h == Head(k.wait[Sem])
           e == [k EXCEPT !.error[h] = "RT_ERROR"]
<1>1. k \in KernelState /\ KernelOK(k) BY DEF IInv, TypeOK, KernelConsistent
<1>2. h \in Thread /\ k.stat[h] = "suspend"
  BY HeadSuspended DEF IInv, Rest
<1>3. Sem \in Queue BY SemaphoreAssumption
<1>4. CASE s = IpcListResume(k, Sem)
  <2>1. s = Resume(k, h) BY <1>4 DEF IpcListResume
  <2> HIDE DEF h
  <2>2. /\ s \in KernelState /\ KernelOK(s) /\ Frame(s, k)
        /\ s.stat = [k.stat EXCEPT ![h] = "ready"]
        /\ \A q \in Queue : ToSet(s.wait[q]) = ToSet(k.wait[q]) \ {h}
    BY <1>1, <1>2, <2>1, ResumeProperties, SMTT(30)
  <2> QED BY <1>3, <2>2 DEF Frame, h
<1>5. CASE s = IpcListResumeError(k, Sem)
  <2>1. s = Resume(e, h) BY <1>5 DEF IpcListResumeError
  <2> HIDE DEF h
  <2>2. /\ e \in KernelState
        /\ e.stat = k.stat /\ e.prio = k.prio /\ e.mask = k.mask /\ e.ready = k.ready
        /\ e.wait = k.wait /\ e.group = k.group /\ e.armed = k.armed
        /\ e.current = k.current /\ e.nest = k.nest
    BY <1>1, <1>2 DEF KernelState, Error
  <2> HIDE DEF e
  <2>3. KernelOK(e) BY <1>1, <2>2, KernelOKFrame
  <2>4. e.stat[h] = "suspend" BY <1>2, <2>2
  <2>5. /\ s \in KernelState /\ KernelOK(s) /\ Frame(s, e)
        /\ s.stat = [e.stat EXCEPT ![h] = "ready"]
        /\ \A q \in Queue : ToSet(s.wait[q]) = ToSet(e.wait[q]) \ {h}
    <3>1. e \in KernelState BY <2>2
    <3> QED BY <1>2, <2>1, <2>3, <2>4, <3>1, ResumeProperties, SMTT(30)
  <2> QED BY <1>3, <2>2, <2>5 DEF Frame, h
<1> QED BY <1>4, <1>5

\* A thread wakes the head of the list and goes on.
LEMMA WakeKeeps ==
  ASSUME IInv, NEW t \in Thread, k.wait[Sem] # <<>>,
         Release(t) \/ ResetWake(t) \/ DetachBody(t)
  PROVE  IInv'
<1> USE DEF IInv
<1> DEFINE h == Head(k.wait[Sem])
           W == {h}
<1>0. k \in KernelState /\ k.nest \in Nat /\ pc \in [Thread -> Pc]
      /\ k.wait[Sem] \in Seq(Thread) /\ arrived \in Seq(Thread)
  BY SemaphoreAssumption DEF TypeOK, KernelState
<1>1. /\ k' = IpcListResume(k, Sem) \/ k' = IpcListResumeError(k, Sem)
      /\ k.current = t /\ alive' = alive /\ value' = value
      /\ \/ pc[t] = "run" /\ pc' = [pc EXCEPT ![t] = "sched"]
         \/ pc[t] = "reset_loop" /\ pc' = [pc EXCEPT ![t] = "reset_loop"]
         \/ pc[t] = "detach_body" /\ pc' = [pc EXCEPT ![t] = "detach_test"]
  BY DEF Release, ReleaseBody, ResetWake, DetachBody, Running, Goto
<1>2. /\ k' \in KernelState
      /\ KernelOK(k')
      /\ k'.current = k.current /\ k'.nest = k.nest
      /\ k'.stat = [k.stat EXCEPT ![h] = "ready"]
      /\ ToSet(k'.wait[Sem]) = ToSet(k.wait[Sem]) \ {h}
  BY <1>1, WakeHead
<1>3. h \in Thread BY HeadSuspended DEF Rest
<1>4. TypeOK'
  <2>1. arrived' \in Seq(Thread)
    BY <1>0, RemoveFirstProperties DEF Release, ReleaseBody, ResetWake, DetachBody
  <2>2. fault' \in BOOLEAN /\ credit' \in Int /\ irq' = irq
    BY DEF TypeOK, Release, ReleaseBody, ResetWake, DetachBody
  <2>3. pc' \in [Thread -> Pc] BY <1>0, <1>1 DEF Pc
  <2> QED BY <1>1, <1>2, <2>1, <2>2, <2>3 DEF TypeOK
<1>5. KernelConsistent' BY <1>2 DEF KernelConsistent
<1>6. DetachDone' BY <1>0, <1>1 DEF DetachDone, Rest
<1>7. value' > 0 => k'.wait[Sem] = <<>> BY <1>1 DEF Rest, NoLostWakeup, TypeOK
<1>8. \A u \in Thread : u \in Taking' <=> u \in Taking BY <1>0, <1>1 DEF Taking
<1>9. /\ W \in SUBSET Thread
      /\ \A u \in Thread : k'.stat[u] = IF u \in W THEN "ready" ELSE k.stat[u]
      /\ ToSet(k'.wait[Sem]) = ToSet(k.wait[Sem]) \ W
  BY <1>0, <1>2, <1>3 DEF KernelState
<1> HIDE DEF W
<1>10. /\ k.current \in Thread /\ k'.current \in Thread
       /\ k'.current = k.current
       /\ pc'[k.current] \in Blocking <=> pc[k.current] \in Blocking
       /\ k'.nest = k.nest
  BY <1>0, <1>1, <1>2 DEF Blocking
<1>11. Rest'
  BY <1>0, <1>6, <1>7, <1>8, <1>9, <1>10, RestStep
<1> QED BY <1>4, <1>5, <1>11

\* With nobody on the list rt_sem_release counts, and rt_ipc_list_resume_all
\* takes the list head for a thread.
LEMMA NobodyKeeps ==
  ASSUME IInv, NEW t \in Thread, k.wait[Sem] = <<>>, Release(t) \/ DetachBody(t)
  PROVE  IInv'
<1> USE DEF IInv
<1>0. pc \in [Thread -> Pc] BY DEF TypeOK
<1>1. /\ k' = k /\ k.current = t /\ alive' = alive
      /\ \/ pc[t] = "run" /\ pc' = [pc EXCEPT ![t] = "run"]
         \/ pc[t] = "detach_body" /\ pc' = [pc EXCEPT ![t] = "detach_test"]
  BY DEF Release, ReleaseBody, DetachBody, Running, Goto
<1>2. TypeOK'
  <2>1. (value + 1) % ValueMod \in 0 .. ValueMod - 1
    BY SemaphoreAssumption DEF TypeOK
  <2>2. value' \in 0 .. ValueMod - 1
    BY <2>1 DEF Release, ReleaseBody, DetachBody, TypeOK
  <2>3. /\ fault' \in BOOLEAN /\ irq' = irq /\ arrived' = arrived
        /\ credit' = credit \/ credit' = credit + 1
    BY Zenon DEF TypeOK, Release, ReleaseBody, DetachBody
  <2>4. pc' \in [Thread -> Pc] BY <1>0, <1>1 DEF Pc
  <2> QED BY <1>1, <2>2, <2>3, <2>4 DEF TypeOK
<1>3. KernelConsistent' BY <1>1 DEF KernelConsistent
<1>4. DetachDone' BY <1>1 DEF DetachDone
<1>5. Rest' BY <1>1, <1>4, RestQuiet DEF Pc, Blocking
<1> QED BY <1>2, <1>3, <1>5

\* The interrupt handlers that use the semaphore.
LEMMA IsrKeeps ==
  ASSUME IInv, IsrRelease \/ IsrTryTake
  PROVE  IInv'
<1> USE DEF IInv
<1>0. k \in KernelState /\ KernelOK(k) /\ k.nest \in Nat /\ pc \in [Thread -> Pc]
      /\ k.wait[Sem] \in Seq(Thread) /\ arrived \in Seq(Thread)
  BY SemaphoreAssumption DEF TypeOK, KernelState, KernelConsistent
<1>1. k.current \in Thread /\ pc' = pc /\ alive' = alive /\ irq' = irq /\ fault' = fault
  BY DEF IsrRelease, IsrTryTake, ReleaseBody, Interrupt
<1>2. CASE IsrRelease /\ k.wait[Sem] # <<>>
  <2> DEFINE h == Head(k.wait[Sem])
             W == {h}
             r == IpcListResume(k, Sem)
  <2>1. k' = Schedule(r) /\ value' = value /\ arrived' = RemoveFirst(arrived, h)
        /\ credit' = credit + 1
    BY <1>2 DEF IsrRelease, ReleaseBody
  <2>2. /\ r \in KernelState
        /\ KernelOK(r)
        /\ r.current = k.current /\ r.nest = k.nest
        /\ r.stat = [k.stat EXCEPT ![h] = "ready"]
        /\ ToSet(r.wait[Sem]) = ToSet(k.wait[Sem]) \ {h}
    BY <1>2, WakeHead
  <2>3. h \in Thread BY <1>2, HeadSuspended DEF Rest
  <2> HIDE DEF r, h
  <2>4. r.stat[Idle] = "ready"
    <3>1. k.stat[Idle] = "ready" BY <1>1, KernelAssumption DEF Rest, Started
    <3> QED BY <1>0, <2>2, <3>1, KernelAssumption DEF KernelState
  <2>5. /\ k' \in KernelState
        /\ KernelOK(k')
        /\ k'.stat = r.stat /\ k'.wait = r.wait /\ k'.nest = r.nest
        /\ IF r.nest = 0 THEN k'.current \in Thread /\ k'.stat[k'.current] = "ready"
           ELSE k'.current = r.current
    BY <2>1, <2>2, <2>4, ScheduleProperties
  <2>6. k'.current \in Thread BY <1>1, <2>2, <2>5
  <2>7. TypeOK'
    <3>1. arrived' \in Seq(Thread) BY <1>0, <2>1, RemoveFirstProperties
    <3> QED BY <1>1, <2>1, <2>5, <2>6, <3>1, KernelAssumption DEF TypeOK
  <2>8. KernelConsistent' BY <2>5 DEF KernelConsistent
  <2>9. DetachDone' BY <1>1, <1>2, DetachDoneKept DEF Rest
  <2>10. value' > 0 => k'.wait[Sem] = <<>>
    BY <1>2, <2>1 DEF Rest, NoLostWakeup, TypeOK
  <2>11. /\ W \in SUBSET Thread
         /\ \A u \in Thread : k'.stat[u] = IF u \in W THEN "ready" ELSE k.stat[u]
         /\ ToSet(k'.wait[Sem]) = ToSet(k.wait[Sem]) \ W
    BY <1>0, <2>2, <2>3, <2>5, SMTT(30) DEF KernelState
  <2> HIDE DEF W
  <2>12. /\ \/ k.nest = 0 /\ k'.stat[k'.current] = "ready"
            \/ /\ k'.current = k.current
               /\ pc'[k.current] \in Blocking <=> pc[k.current] \in Blocking
         /\ k'.nest = k.nest
    BY <1>1, <2>2, <2>5
  <2>13. \A u \in Thread : u \in Taking' <=> u \in Taking BY <1>1 DEF Taking
  <2>14. Rest'
    BY <1>0, <1>1, <2>6, <2>9, <2>10, <2>11, <2>12, <2>13, RestStep
  <2> QED BY <2>7, <2>8, <2>14
<1>3. CASE IsrTryTake \/ (IsrRelease /\ k.wait[Sem] = <<>>)
  <2>1. /\ k' = k
        /\ value' > 0 => k.wait[Sem] = <<>>
        /\ arrived' = arrived /\ credit' \in Int /\ value' \in 0 .. ValueMod - 1
    <3>1. CASE IsrTryTake
      <4>1. /\ k' = k /\ arrived' = arrived /\ value > 0
            /\ credit' = credit - 1 /\ value' = value - 1
        BY <3>1 DEF IsrTryTake
      <4>2. credit \in Int /\ value \in 0 .. ValueMod - 1 BY DEF TypeOK
      <4>3. k.wait[Sem] = <<>> BY <4>1 DEF Rest, NoLostWakeup
      <4> QED BY <4>1, <4>2, <4>3, SemaphoreAssumption
    <3>2. CASE IsrRelease /\ k.wait[Sem] = <<>>
      <4>1. (value + 1) % ValueMod \in 0 .. ValueMod - 1
        BY SemaphoreAssumption DEF TypeOK
      <4> QED BY <3>2, <4>1 DEF IsrRelease, ReleaseBody, TypeOK
    <3> QED BY <1>3, <3>1, <3>2
  <2>2. TypeOK' BY <1>1, <2>1 DEF TypeOK
  <2>3. KernelConsistent' BY <2>1 DEF KernelConsistent
  <2>4. Rest'
    BY <1>1, <2>1 DEF Rest, NoLostWakeup, NoStranded, Waiting, Taking, Started,
                      CurrentReady, NestOK, DetachDone
  <2> QED BY <2>2, <2>3, <2>4
<1> QED BY <1>2, <1>3

\* The tick interrupt: a thread timer expires.
LEMMA TimeoutKeeps ==
  ASSUME IInv, NEW u \in Thread, TickTimeout(u)
  PROVE  IInv'
<1> USE DEF IInv
<1> DEFINE W == {u}
<1>0. k \in KernelState /\ KernelOK(k) /\ k.nest \in Nat /\ arrived \in Seq(Thread)
      /\ k.wait[Sem] \in Seq(Thread) /\ Sem \in Queue
  BY SemaphoreAssumption DEF TypeOK, KernelState, KernelConsistent
<1>1. /\ k' = ThreadTimeout(k, u) /\ u \in k.armed /\ k.current \in Thread /\ pc' = pc
      /\ irq' = irq /\ alive' = alive /\ value' = value /\ fault' = fault
      /\ credit' = credit /\ arrived' = RemoveFirst(arrived, u)
  BY DEF TickTimeout, TimeoutStep, Interrupt
<1>2. k.stat[Idle] = "ready" BY <1>1, KernelAssumption DEF Rest, Started
<1>3. /\ k' \in KernelState
      /\ KernelOK(k')
      /\ k'.stat = [k.stat EXCEPT ![u] = "ready"]
      /\ k'.nest = k.nest
      /\ \A q \in Queue : /\ ToSet(k'.wait[q]) = ToSet(k.wait[q]) \ {u}
                          /\ u \notin ToSet(k.wait[q]) => k'.wait[q] = k.wait[q]
      /\ IF k.nest = 0 THEN k'.current \in Thread /\ k'.stat[k'.current] = "ready"
         ELSE k'.current = k.current
  <2>1. k \in KernelState /\ KernelOK(k) /\ u \in k.armed BY <1>0, <1>1
  <2>2. k' = ThreadTimeout(k, u) BY <1>1
  <2>3. LET s == ThreadTimeout(k, u)
        IN  /\ s \in KernelState
            /\ KernelOK(s)
            /\ s.stat = [k.stat EXCEPT ![u] = "ready"]
            /\ s.error = [k.error EXCEPT ![u] = "RT_ETIMEOUT"]
            /\ s.armed = k.armed \ {u} /\ s.nest = k.nest /\ s.prio = k.prio
            /\ \A q \in Queue : /\ ToSet(s.wait[q]) = ToSet(k.wait[q]) \ {u}
                                /\ u \notin ToSet(k.wait[q]) => s.wait[q] = k.wait[q]
            /\ IF k.nest = 0 THEN s.current \in Thread /\ s.stat[s.current] = "ready"
               ELSE s.current = k.current
    BY <1>2, <2>1, ThreadTimeoutProperties
  <2> QED BY <2>2, <2>3
<1>4. k'.current \in Thread BY <1>1, <1>3
<1>5. TypeOK'
  <2>1. arrived' \in Seq(Thread) BY <1>0, <1>1, RemoveFirstProperties
  <2> QED BY <1>1, <1>3, <1>4, <2>1, KernelAssumption DEF TypeOK
<1>6. KernelConsistent' BY <1>3 DEF KernelConsistent
<1>7. k.wait[Sem] = <<>> => k'.wait[Sem] = <<>>
  BY <1>0, <1>3, HeadToSet
<1>8. DetachDone' BY <1>1, <1>7, DetachDoneKept DEF Rest
<1>9. value' > 0 => k'.wait[Sem] = <<>> BY <1>1, <1>7 DEF Rest, NoLostWakeup
<1>10. /\ W \in SUBSET Thread
       /\ \A v \in Thread : k'.stat[v] = IF v \in W THEN "ready" ELSE k.stat[v]
       /\ ToSet(k'.wait[Sem]) = ToSet(k.wait[Sem]) \ W
  BY <1>0, <1>3 DEF KernelState
<1> HIDE DEF W
<1>11. /\ \/ k.nest = 0 /\ k'.stat[k'.current] = "ready"
          \/ /\ k'.current = k.current
             /\ pc'[k.current] \in Blocking <=> pc[k.current] \in Blocking
       /\ k'.nest = k.nest
  BY <1>1, <1>3
<1>12. \A v \in Thread : v \in Taking' <=> v \in Taking BY <1>1 DEF Taking
<1>13. Rest'
  BY <1>0, <1>1, <1>4, <1>8, <1>9, <1>10, <1>11, <1>12, RestStep
<1> QED BY <1>5, <1>6, <1>13

\* The tick interrupt again: the time slice of the current thread is used up.
LEMMA YieldKeeps ==
  ASSUME IInv, TickYield
  PROVE  IInv'
<1> USE DEF IInv
<1> DEFINE W == {}
<1>0. k \in KernelState /\ KernelOK(k) /\ k.nest \in Nat
  BY DEF TypeOK, KernelState, KernelConsistent
<1>1. /\ k' = Yield(k) /\ k.current \in Thread /\ pc' = pc
      /\ irq' = irq /\ alive' = alive /\ value' = value /\ fault' = fault
      /\ credit' = credit /\ arrived' = arrived
  BY DEF TickYield, YieldStep, Interrupt
<1>2. k.stat[Idle] = "ready" BY <1>1, KernelAssumption DEF Rest, Started
<1>3. /\ k' \in KernelState
      /\ KernelOK(k')
      /\ k'.stat = k.stat /\ k'.wait = k.wait /\ k'.nest = k.nest
      /\ k'.current \in Thread
      /\ k'.current = k.current \/ (k.nest = 0 /\ k'.stat[k'.current] = "ready")
  BY <1>0, <1>1, <1>2, YieldProperties
<1>4. TypeOK' BY <1>1, <1>3, KernelAssumption DEF TypeOK
<1>5. KernelConsistent' BY <1>3 DEF KernelConsistent
<1>6. DetachDone' BY <1>1, <1>3, DetachDoneKept DEF Rest
<1>7. value' > 0 => k'.wait[Sem] = <<>> BY <1>1, <1>3 DEF Rest, NoLostWakeup
<1>8. /\ W \in SUBSET Thread
      /\ \A v \in Thread : k'.stat[v] = IF v \in W THEN "ready" ELSE k.stat[v]
      /\ ToSet(k'.wait[Sem]) = ToSet(k.wait[Sem]) \ W
  BY <1>3
<1> HIDE DEF W
<1>9. /\ \/ k.nest = 0 /\ k'.stat[k'.current] = "ready"
         \/ /\ k'.current = k.current
            /\ pc'[k.current] \in Blocking <=> pc[k.current] \in Blocking
      /\ k'.nest = k.nest
  BY <1>1, <1>3
<1>10. \A v \in Thread : v \in Taking' <=> v \in Taking BY <1>1 DEF Taking
<1>11. Rest'
  BY <1>0, <1>1, <1>3, <1>6, <1>7, <1>8, <1>9, <1>10, RestStep
<1> QED BY <1>4, <1>5, <1>11

\* rt_sem_take makes the current thread wait, and rt_thread_sleep makes it
\* sleep: the two calls that suspend.
LEMMA SuspendKeeps ==
  ASSUME IInv, "wait_locked" \notin Ops, NEW t \in Thread,
         Sleep(t) \/ \E time \in Times : TakeSuspend(t, time)
  PROVE  IInv'
<1> USE DEF IInv
<1>0. k \in KernelState /\ KernelOK(k) /\ k.nest \in Nat /\ pc \in [Thread -> Pc]
      /\ k.wait[Sem] \in Seq(Thread) /\ arrived \in Seq(Thread) /\ Sem \in Queue
  BY SemaphoreAssumption DEF TypeOK, KernelState, KernelConsistent
<1>1. /\ k.current = t /\ t # Idle /\ pc[t] = "run" /\ k.nest = 0
      /\ irq' = irq /\ alive' = alive /\ value' = value /\ fault' = fault
      /\ credit' = credit
      /\ arrived' = arrived \/ arrived' = Append(arrived, t)
  BY DEF Sleep, SleepStep, TakeSuspend, Running, Goto
<1>2. k.stat[t] = "ready" BY <1>1 DEF Rest, CurrentReady, Blocking
<1>3. k.stat[Idle] = "ready" BY <1>1, KernelAssumption DEF Rest, Started
<1>4. arrived' \in Seq(Thread) BY <1>0, <1>1
<1>5. \A u \in Thread : u \in ToSet(k.wait[Sem])
                          <=> (u \in Taking /\ k.stat[u] = "suspend")
  BY DEF Rest, NoStranded, Waiting
\* the end of the argument, common to both
<1>6. ASSUME NEW place \in Blocking,
             pc' = [pc EXCEPT ![t] = place],
             k' \in KernelState, KernelOK(k'),
             k'.stat = [k.stat EXCEPT ![t] = "suspend"],
             k'.current = t, k'.nest = 0,
             \/ place = "sleep_sched" /\ k'.wait[Sem] = k.wait[Sem]
             \/ /\ place = "take_sched" /\ value = 0 /\ alive
                /\ ToSet(k'.wait[Sem]) = ToSet(k.wait[Sem]) \cup {t}
      PROVE  IInv'
  <2>1. pc' \in [Thread -> Pc] BY <1>0, <1>6 DEF Blocking, Pc
  <2>2. TypeOK' BY <1>1, <1>4, <1>6, <2>1, KernelAssumption DEF TypeOK
  <2>3. KernelConsistent' BY <1>6 DEF KernelConsistent
  <2>4. \A u \in Thread : /\ pc'[u] = IF u = t THEN place ELSE pc[u]
                          /\ k'.stat[u] = IF u = t THEN "suspend" ELSE k.stat[u]
    BY <1>0, <1>6 DEF KernelState
  <2>5. NoLostWakeup' BY <1>1, <1>6 DEF Rest, NoLostWakeup
  <2>6. NoStranded'
    <3> SUFFICES ASSUME NEW u \in Thread
                 PROVE  u \in ToSet(k'.wait[Sem]) <=> (u \in Taking' /\ k'.stat[u] = "suspend")
      BY DEF NoStranded, Waiting
    <3>1. CASE u # t
      <4>1. u \in Taking' <=> u \in Taking BY <2>4, <3>1 DEF Taking
      <4> QED BY <1>5, <1>6, <2>4, <3>1, <4>1
    <3>2. CASE u = t
      <4>1. t \notin ToSet(k.wait[Sem]) BY <1>2, <1>5
      <4>2. t \in Taking' <=> place = "take_sched" BY <1>6, <2>4 DEF Taking, Blocking
      <4> QED BY <1>6, <2>4, <3>2, <4>1, <4>2
    <3> QED BY <3>1, <3>2
  <2>7. Started'
    <3>1. k'.current # NoThread BY <1>6, KernelAssumption
    <3>2. k'.stat[Idle] = "ready" BY <1>1, <1>3, <2>4, KernelAssumption
    <3> QED BY <3>1, <3>2 DEF Started
  <2>8. CurrentReady' /\ NestOK' BY <1>6, <2>4 DEF CurrentReady, NestOK
  <2>9. DetachDone'
    <3>1. CASE place = "take_sched" BY <1>1, <1>6, <3>1 DEF DetachDone, Blocking
    <3>2. CASE place = "sleep_sched"
      <4>1. k'.wait[Sem] = k.wait[Sem] BY <1>6, <3>2
      <4> QED BY <1>1, <1>6, <4>1, DetachDoneKept DEF Rest, Blocking, Pc
    <3> QED BY <3>1, <3>2 DEF Blocking
  <2> QED BY <2>2, <2>3, <2>5, <2>6, <2>7, <2>8, <2>9 DEF Rest
<1>7. CASE Sleep(t)
  <2> DEFINE s == Suspend(k, t)
  <2>1. k' = TimerStart(s, t) /\ pc' = [pc EXCEPT ![t] = "sleep_sched"]
    BY <1>7 DEF Sleep, SleepStep, Goto
  <2>2. /\ s \in KernelState /\ KernelOK(s)
        /\ Frame(s, k) /\ s.wait = k.wait
        /\ s.stat = [k.stat EXCEPT ![t] = "suspend"]
    BY <1>0, <1>2, SuspendProperties
  <2>3. s.stat[t] = "suspend" BY <1>0, <2>2 DEF KernelState
  <2> HIDE DEF s
  <2>4. /\ k' \in KernelState /\ KernelOK(k')
        /\ Frame(k', s) /\ k'.stat = s.stat /\ k'.wait = s.wait
    BY <2>1, <2>2, <2>3, TimerStartProperties
  <2>5. /\ k'.stat = [k.stat EXCEPT ![t] = "suspend"]
        /\ k'.current = t /\ k'.nest = 0 /\ k'.wait[Sem] = k.wait[Sem]
    BY <1>1, <2>2, <2>4 DEF Frame
  <2> QED BY <1>6, <2>1, <2>4, <2>5 DEF Blocking
<1>8. ASSUME NEW time \in Times, TakeSuspend(t, time) PROVE IInv'
  <2> DEFINE e == [k EXCEPT !.error[t] = "RT_EOK"]
             s == IpcListSuspend(e, Sem, t, Flag)
  <2>1. /\ k' = IF time = "timed" THEN TimerStart(s, t) ELSE s
        /\ pc' = [pc EXCEPT ![t] = "take_sched"] /\ value = 0 /\ alive
    BY <1>8 DEF TakeSuspend, Goto
  <2>2. /\ e \in KernelState
        /\ e.stat = k.stat /\ e.prio = k.prio /\ e.mask = k.mask /\ e.ready = k.ready
        /\ e.wait = k.wait /\ e.group = k.group /\ e.armed = k.armed
        /\ e.current = k.current /\ e.nest = k.nest
    BY <1>0 DEF KernelState, Error
  <2> HIDE DEF e
  <2>3. KernelOK(e) BY <1>0, <2>2, KernelOKFrame
  <2>4. e \in KernelState /\ e.stat[t] = "ready" BY <1>2, <2>2
  <2>5. /\ s \in KernelState /\ KernelOK(s)
        /\ Frame(s, e)
        /\ s.stat = [e.stat EXCEPT ![t] = "suspend"]
        /\ ToSet(s.wait[Sem]) = ToSet(e.wait[Sem]) \cup {t}
    <3>1. Sem \in Queue /\ Flag \in {"RT_IPC_FLAG_FIFO", "RT_IPC_FLAG_PRIO"}
      BY SemaphoreAssumption
    <3>2. LET r == IpcListSuspend(e, Sem, t, Flag)
          IN  /\ r \in KernelState
              /\ KernelOK(r)
              /\ Frame(r, e) /\ r.armed = e.armed
              /\ r.stat = [e.stat EXCEPT ![t] = "suspend"]
              /\ ToSet(r.wait[Sem]) = ToSet(e.wait[Sem]) \cup {t}
              /\ \A q \in Queue \ {Sem} : r.wait[q] = e.wait[q]
      BY <2>3, <2>4, <3>1, IpcListSuspendProperties
    <3> QED BY <3>2
  <2> HIDE DEF s
  <2>6. s.stat[t] = "suspend" BY <2>4, <2>5 DEF KernelState
  <2>7. /\ k' \in KernelState /\ KernelOK(k')
        /\ Frame(k', s) /\ k'.stat = s.stat /\ k'.wait = s.wait
    <3>1. CASE time = "timed" BY <2>1, <2>5, <2>6, <3>1, TimerStartProperties
    <3>2. CASE time # "timed" BY <2>1, <2>5, <3>2 DEF Frame
    <3> QED BY <3>1, <3>2
  <2>8. /\ k'.stat = [k.stat EXCEPT ![t] = "suspend"]
        /\ k'.current = t /\ k'.nest = 0
        /\ ToSet(k'.wait[Sem]) = ToSet(k.wait[Sem]) \cup {t}
    BY <1>1, <2>2, <2>5, <2>7 DEF Frame
  <2> QED BY <1>6, <2>1, <2>7, <2>8 DEF Blocking
<1> QED BY <1>7, <1>8

\* Boot.
LEMMA BootKeeps ==
  ASSUME IInv, Start \/ \E t \in Thread : Boot(t)
  PROVE  IInv'
<1> USE DEF IInv
<1>0. k \in KernelState /\ KernelOK(k) /\ k.wait[Sem] \in Seq(Thread) /\ Sem \in Queue
  BY SemaphoreAssumption DEF TypeOK, KernelState, KernelConsistent
<1>1. /\ k.current = NoThread /\ pc' = pc /\ irq' = irq /\ value' = value
      /\ alive' = alive /\ fault' = fault /\ credit' = credit /\ arrived' = arrived
  BY DEF Start, Boot, StartStep, BootStep
<1>2. k.nest = 0 /\ \A u \in Thread : pc[u] = "run" BY <1>1 DEF Rest, Started
<1>3. Taking = {} /\ Taking' = {} BY <1>1, <1>2 DEF Taking
<1>4. ToSet(k.wait[Sem]) = {} /\ k.wait[Sem] = <<>>
  <2>1. ToSet(k.wait[Sem]) \subseteq Thread BY <1>0, HeadToSet
  <2>2. ToSet(k.wait[Sem]) = {} BY <1>3, <2>1 DEF Rest, NoStranded, Waiting
  <2> QED BY <1>0, <2>2, HeadToSet
<1>5. CASE Start
  <2>1. k' = [k EXCEPT !.current = HighestReady(k)] /\ k.stat[Idle] = "ready"
    BY <1>5 DEF Start, StartStep, SchedulerStart
  <2>2. HighestReady(k) \in Thread /\ k.stat[HighestReady(k)] = "ready"
    BY <1>0, <2>1, HighestReadyProperties
  <2>3. /\ k' \in KernelState
        /\ k'.stat = k.stat /\ k'.prio = k.prio /\ k'.mask = k.mask /\ k'.ready = k.ready
        /\ k'.wait = k.wait /\ k'.group = k.group /\ k'.armed = k.armed
        /\ k'.current = HighestReady(k) /\ k'.nest = k.nest
    BY <1>0, <2>1, <2>2 DEF KernelState
  <2>4. TypeOK' BY <1>1, <2>2, <2>3, KernelAssumption DEF TypeOK
  <2>5. KernelConsistent' BY <1>0, <2>3, KernelOKFrame DEF KernelConsistent
  <2>6. NoLostWakeup' /\ DetachDone' BY <1>4, <2>3 DEF NoLostWakeup, DetachDone
  <2>7. NoStranded' BY <1>3, <1>4, <2>3 DEF NoStranded, Waiting
  <2>8. Started' BY <2>1, <2>2, <2>3, KernelAssumption DEF Started
  <2>9. CurrentReady' /\ NestOK' BY <1>2, <2>2, <2>3 DEF CurrentReady, NestOK
  <2> QED BY <2>4, <2>5, <2>6, <2>7, <2>8, <2>9 DEF Rest
<1>6. ASSUME NEW t \in Thread, Boot(t) PROVE IInv'
  <2>1. k' = BootThread(k, t) /\ k.stat[t] = "none" BY <1>6 DEF Boot, BootStep
  <2>2. /\ k' \in KernelState
        /\ KernelOK(k')
        /\ k'.nest = k.nest /\ k'.current = k.current
        /\ \A q \in Queue : t \notin ToSet(k.wait[q]) => k'.wait[q] = k.wait[q]
    BY <1>0, <2>1, BootThreadProperties
  <2>3. k'.wait[Sem] = k.wait[Sem] BY <1>0, <1>4, <2>2
  <2>4. TypeOK' BY <1>1, <2>2, KernelAssumption DEF TypeOK
  <2>5. KernelConsistent' BY <2>2 DEF KernelConsistent
  <2>6. NoLostWakeup' /\ DetachDone' BY <1>4, <2>3 DEF NoLostWakeup, DetachDone
  <2>7. NoStranded' BY <1>3, <1>4, <2>3 DEF NoStranded, Waiting
  <2>8. Started' BY <1>1, <1>2, <2>2 DEF Started
  <2>9. CurrentReady' /\ NestOK'
    BY <1>1, <1>2, <2>2, KernelAssumption DEF CurrentReady, NestOK
  <2> QED BY <2>4, <2>5, <2>6, <2>7, <2>8, <2>9 DEF Rest
<1> QED BY <1>5, <1>6

-----------------------------------------------------------------------------
(***************************************************************************)
(* The theorems.                                                           *)
(***************************************************************************)

\* rt_system_scheduler_init and rt_sem_init establish the invariant.
LEMMA InitEstablishes == Init => IInv
<1> SUFFICES ASSUME Init PROVE IInv OBVIOUS
<1>1. /\ k = SchedulerInit([t \in Thread |-> {}]) /\ irq = NoThread
      /\ pc = [t \in Thread |-> "run"]
      /\ value = InitValue /\ alive = TRUE /\ fault = FALSE
      /\ credit = InitValue /\ arrived = <<>>
  BY DEF Init, SystemInit
<1>2. /\ k.stat = [t \in Thread |-> "none"]
      /\ k.prio = InitPriority
      /\ k.ready = [p \in Priority |-> <<>>]
      /\ k.wait = [q \in Queue |-> <<>>]
      /\ k.group = {} /\ k.current = NoThread /\ k.nest = 0 /\ k.armed = {}
  BY <1>1 DEF SchedulerInit
<1>3. k \in KernelState
  <2>1. /\ [t \in Thread |-> "none"] \in [Thread -> Stat]
        /\ [t \in Thread |-> {}] \in [Thread -> SUBSET Priority]
        /\ [t \in Thread |-> "RT_EOK"] \in [Thread -> Error]
    BY DEF Stat, Error
  <2>2. /\ [p \in Priority |-> <<>>] \in [Priority -> Seq(Thread)]
        /\ [q \in Queue |-> <<>>] \in [Queue -> Seq(Thread)]
    OBVIOUS
  <2>3. InitPriority \in [Thread -> Priority] BY KernelAssumption
  <2> QED BY <1>1, <2>1, <2>2, <2>3 DEF SchedulerInit, KernelState
<1>4. TypeOK
  <2>1. alive \in BOOLEAN /\ fault \in BOOLEAN BY <1>1, Zenon
  <2>2. k.current # Wild /\ irq \in Thread \cup {NoThread}
    BY <1>1, <1>2, KernelAssumption
  <2>3. value \in 0 .. ValueMod - 1 /\ credit \in Int
    BY <1>1, SemaphoreAssumption
  <2>4. pc \in [Thread -> Pc] /\ arrived \in Seq(Thread) BY <1>1 DEF Pc
  <2> QED BY <1>3, <2>1, <2>2, <2>3, <2>4 DEF TypeOK
<1>5. KernelOK(k)
  <2>1. ToSet(<<>>) = {} /\ IsInjective(<<>>) BY DEF ToSet, IsInjective
  <2>2. ListsOK(k) BY <1>2, <2>1 DEF ListsOK
  <2>3. ReadyOK(k) BY <1>2, <2>1 DEF ReadyOK
  <2>4. BitmapOK(k) /\ MaskOK(k) /\ TimersOK(k)
    BY <1>2 DEF BitmapOK, MaskOK, TimersOK
  <2> QED BY <2>2, <2>3, <2>4 DEF KernelOK
<1>6. Rest
  <2>1. k.wait[Sem] = <<>> BY <1>2, SemaphoreAssumption
  <2>2. Waiting = {} BY <2>1 DEF Waiting, ToSet
  <2>3. Taking = {} BY <1>1 DEF Taking
  <2>4. NoLostWakeup /\ DetachDone BY <2>1 DEF NoLostWakeup, DetachDone
  <2>5. NoStranded BY <2>2, <2>3 DEF NoStranded
  <2>6. Started BY <1>1, <1>2 DEF Started
  <2>7. CurrentReady /\ NestOK BY <1>2, KernelAssumption DEF CurrentReady, NestOK
  <2> QED BY <2>4, <2>5, <2>6, <2>7 DEF Rest
<1> QED BY <1>4, <1>5, <1>6 DEF IInv, KernelConsistent

\* Every step of a thread, of an interrupt handler or of boot keeps it.
LEMMA NextKeeps ==
  ASSUME "wait_locked" \notin Ops, IInv, [Next]_vars
  PROVE  IInv'
<1>1. ASSUME NEW t \in Thread, ThreadStep(t) PROVE IInv'
  <2>1. CASE Compute(t) \/ UNCHANGED vars
    BY <2>1 DEF Compute, OwnCode, vars, IInv, TypeOK, KernelConsistent, Rest, NoLostWakeup,
                NoStranded, Waiting, Taking, Started, CurrentReady, NestOK, DetachDone
  <2>2. CASE Sleep(t) \/ \E time \in Times : TakeSuspend(t, time)
    BY <2>2, SuspendKeeps
  <2>3. CASE TakeSchedule(t) \/ SleepSchedule(t) \/ ReleaseSchedule(t)
    BY <2>3, ScheduleKeeps
  <2>4. CASE TakeNow(t) \/ TakeFail(t) \/ TakeReturn(t)
    BY <2>4, TakeKeeps
  <2>5. CASE Release(t) \/ ResetWake(t) \/ DetachBody(t)
    <3>1. CASE k.wait[Sem] # <<>> BY <2>5, <3>1, WakeKeeps
    <3>2. CASE k.wait[Sem] = <<>>
      <4>1. ~ ResetWake(t) BY <3>2 DEF ResetWake
      <4> QED BY <2>5, <3>2, <4>1, NobodyKeeps
    <3> QED BY <3>1, <3>2
  <2>6. CASE Reset(t) \/ \E v \in 0 .. MaxCredit : ResetValue(t, v)
    BY <2>6, ResetKeeps
  <2>7. CASE Detach(t) \/ DetachTest(t)
    BY <2>7, DetachKeeps
  <2>8. CASE SemInit(t)
    BY <2>8, SemInitKeeps
  <2>9. CASE Enter(t) \/ Leave(t) \/ SleepReturn(t)
    BY <2>9, CriticalKeeps
  <2>10. ASSUME NEW u \in Thread, NEW p \in Priority, SetPriority(t, u, p) PROVE IInv'
    BY <2>10, PriorityKeeps
  <2> QED
    BY <1>1, <2>1, <2>2, <2>3, <2>4, <2>5, <2>6, <2>7, <2>8, <2>9, <2>10, Zenon
    DEF ThreadStep
<1>2. ASSUME NEW t \in Thread, TickTimeout(t) PROVE IInv'
  BY <1>2, TimeoutKeeps
<1>3. CASE TickYield BY <1>3, YieldKeeps
<1>4. CASE IsrRelease \/ IsrTryTake BY <1>4, IsrKeeps
<1>5. CASE Start \/ \E t \in Thread : Boot(t) BY <1>5, BootKeeps
<1>6. CASE UNCHANGED vars
  BY <1>6 DEF vars, IInv, TypeOK, KernelConsistent, Rest, NoLostWakeup, NoStranded,
              Waiting, Taking, Started, CurrentReady, NestOK, DetachDone
<1> QED BY <1>1, <1>2, <1>3, <1>4, <1>5, <1>6, Zenon DEF Next

\* The inductive invariant holds in every state the program reaches without
\* waiting under rt_enter_critical (and, after a fault of detach, in the
\* states the model goes on with).
THEOREM Invariance ==
  ASSUME "wait_locked" \notin Ops
  PROVE  Spec => []IInv
<1>1. Init => IInv BY InitEstablishes
<1>2. IInv /\ [Next]_vars => IInv' BY NextKeeps
<1> QED BY <1>1, <1>2, PTL DEF Spec

\* Types, rt_schedule never takes the head of an empty list for a thread, and
\* the ready queue, the bitmap, the suspend lists and the thread timers agree
\* whenever interrupts can occur.
THEOREM SemaphoreSound ==
  ASSUME "wait_locked" \notin Ops
  PROVE  Spec => []KernelSound
<1>1. IInv => KernelSound BY DEF IInv, KernelSound
<1> QED BY <1>1, Invariance, PTL

\* No thread waits on rt_sem_take while the semaphore is available.
THEOREM NoWakeupIsLost ==
  ASSUME "wait_locked" \notin Ops
  PROVE  Spec => []NoLostWakeup
<1>1. IInv => NoLostWakeup BY DEF IInv, Rest
<1> QED BY <1>1, Invariance, PTL

\* A thread that rt_sem_take suspended stays on the list it is woken from.
THEOREM NobodyIsStranded ==
  ASSUME "wait_locked" \notin Ops
  PROVE  Spec => []NoStranded
<1>1. IInv => NoStranded BY DEF IInv, Rest
<1> QED BY <1>1, Invariance, PTL

-----------------------------------------------------------------------------
(***************************************************************************)
(* What the steps do to the list, the tokens and the threads that have     *)
(* been given one.                                                         *)
(***************************************************************************)

\* A thread that waits has no error yet, and the history of arrivals has the
\* threads that wait, each once.
Clean == \A t \in Waiting : k.error[t] = "RT_EOK"

ArrivedOK == ToSet(arrived) = Waiting /\ IsInjective(arrived)

Books == Clean /\ ArrivedOK

SameList == k'.wait[Sem] = k.wait[Sem] /\ arrived' = arrived

Nothing == SameList /\ Granted' = Granted /\ UNCHANGED <<value, credit>>

Taken ==
    /\ SameList /\ Granted' = Granted
    /\ value > 0 /\ value' = value - 1 /\ credit' = credit - 1

Queues(t) ==
    /\ value = 0 /\ UNCHANGED <<value, credit>>
    /\ k.stat[t] = "ready" /\ t \notin Waiting /\ t \notin Granted
    /\ arrived' = Append(arrived, t)
    /\ Waiting' = Waiting \cup {t} /\ Granted' = Granted
    /\ k'.wait[Sem] = IpcListSuspend([k EXCEPT !.error[t] = "RT_EOK"], Sem, t, Flag).wait[Sem]

Counted ==
    /\ SameList /\ Granted' = Granted /\ k.wait[Sem] = <<>>
    /\ credit < MaxCredit /\ credit' = credit + 1 /\ value' = (value + 1) % ValueMod

Unlisted(h) ==
    /\ h \in Waiting /\ value' = value
    /\ k'.wait[Sem] = RemoveFirst(k.wait[Sem], h)
    /\ arrived' = RemoveFirst(arrived, h)

Woken(h) ==
    Unlisted(h) /\ h \notin Granted /\ Granted' = Granted \cup {h} /\ credit' = credit + 1

GivesUp(h) == Unlisted(h) /\ Granted' = Granted /\ credit' = credit

Collects(t) ==
    /\ SameList /\ t \in Granted /\ Granted' = Granted \ {t}
    /\ value' = value /\ credit' = credit - 1

\* The ends of a reset and of an initialisation, and the beginnings of a reset
\* and of a detach.
Setting == \E t \in Thread : SemInit(t) \/ \E v \in 0 .. MaxCredit : ResetValue(t, v)

Closing == \E t \in Thread : Reset(t) \/ Detach(t)

SetAnew ==
    /\ Setting /\ SameList /\ Granted' = Granted /\ k.wait[Sem] = <<>>
    /\ value' \in 0 .. ValueMod - 1 /\ credit' = value' + Cardinality(Granted)

Served ==
    \/ Nothing \/ Taken \/ Counted \/ SetAnew
    \/ \E t \in Thread : Queues(t) \/ Woken(t) \/ GivesUp(t) \/ Collects(t)

\* A priority changes only where the application asks for it.
PrioKept ==
    \/ k'.prio = k.prio
    \/ "priority" \in Ops
    \/ k.wait[Sem] = <<>> /\ k'.wait[Sem] = <<>>

Facts == Served /\ Clean' /\ PrioKept

LEMMA ListTypes ==
  ASSUME IInv
  PROVE  /\ k \in KernelState /\ KernelOK(k) /\ Sem \in Queue /\ pc \in [Thread -> Pc]
         /\ k.wait[Sem] \in Seq(Thread) /\ IsInjective(k.wait[Sem]) /\ arrived \in Seq(Thread)
         /\ k.error \in [Thread -> Error] /\ k.stat \in [Thread -> Stat]
         /\ Waiting \subseteq Taking /\ Taking \subseteq Thread
         /\ \A t \in Thread : t \in Waiting <=> (t \in Taking /\ k.stat[t] = "suspend")
<1>1. /\ k \in KernelState /\ KernelOK(k) /\ Sem \in Queue /\ pc \in [Thread -> Pc]
      /\ arrived \in Seq(Thread)
  BY SemaphoreAssumption DEF IInv, TypeOK, KernelConsistent
<1>2. /\ k.wait[Sem] \in Seq(Thread) /\ k.error \in [Thread -> Error]
      /\ k.stat \in [Thread -> Stat]
  BY <1>1 DEF KernelState
<1>3. IsInjective(k.wait[Sem]) BY <1>1 DEF KernelOK, ListsOK
<1>4. Waiting \subseteq Thread BY <1>2, HeadToSet DEF Waiting
<1>5. \A t \in Thread : t \in Waiting <=> (t \in Taking /\ k.stat[t] = "suspend")
  BY DEF IInv, Rest, NoStranded
<1> QED BY <1>1, <1>2, <1>3, <1>4, <1>5 DEF Taking

LEMMA Undisturbed ==
  ASSUME IInv, Clean, k'.wait[Sem] = k.wait[Sem],
         \A u \in Thread : (u \in Taking' <=> u \in Taking)
                            /\ (u \in Taking => k'.error[u] = k.error[u])
  PROVE  Granted' = Granted /\ Clean'
<1>1. Taking' = Taking BY DEF Taking
<1>2. Waiting' = Waiting BY DEF Waiting
<1>3. \A u \in Taking : k'.error[u] = k.error[u] BY DEF Taking
<1>4. Granted' = Granted BY <1>1, <1>2, <1>3 DEF Granted
<1>5. Waiting \subseteq Taking BY ListTypes
<1> QED BY <1>2, <1>3, <1>4, <1>5 DEF Clean

\* The calls that leave the kernel state alone.
LEMMA PlainFacts ==
  ASSUME IInv, Books, k' = k,
         \/ UNCHANGED vars \/ IsrTryTake
         \/ \E t \in Thread : \/ Compute(t) \/ TakeNow(t) \/ TakeFail(t) \/ Reset(t)
                              \/ Detach(t) \/ DetachTest(t)
                              \/ k.wait[Sem] = <<>> /\ DetachBody(t)
  PROVE  Facts
<1>1. pc \in [Thread -> Pc] BY ListTypes
<1>2. \A u \in Thread : u \in Taking' <=> u \in Taking
  <2>1. pc' = pc \/ \E t \in Thread :
            \E to \in Pc \ {"take_sched", "take_return"} :
                pc[t] \notin {"take_sched", "take_return"} /\ pc' = [pc EXCEPT ![t] = to]
    BY DEF vars, IsrTryTake, Compute, OwnCode, TakeNow, TakeFail, Reset, Detach, DetachTest,
           DetachBody, Goto, Pc
  <2> QED BY <1>1, <2>1 DEF Taking
<1>3. Granted' = Granted /\ Clean' BY <1>2, Undisturbed DEF Books
<1>4. Nothing \/ Taken
  BY <1>3 DEF Nothing, Taken, SameList, vars, IsrTryTake, Compute, TakeNow, TakeFail, Reset,
              Detach, DetachTest, DetachBody
<1> QED BY <1>3, <1>4 DEF Facts, Served, PrioKept

\* A step that concerns the scheduler, and no thread that waits.
Aside ==
    /\ k'.wait = k.wait /\ (k'.prio = k.prio \/ "priority" \in Ops)
    /\ \A u \in Thread : (u \in Taking' <=> u \in Taking)
                          /\ (u \in Taking => k'.error[u] = k.error[u])

LEMMA SchedulerFacts ==
  ASSUME IInv, Books,
         \/ TickYield
         \/ \E t \in Thread :
               \/ TakeSchedule(t) \/ SleepSchedule(t) \/ ReleaseSchedule(t)
               \/ Sleep(t) \/ SleepReturn(t) \/ Enter(t) \/ Leave(t)
               \/ \E u \in Thread, p \in Priority : SetPriority(t, u, p)
  PROVE  Facts
<1>1. k \in KernelState /\ KernelOK(k) /\ pc \in [Thread -> Pc] BY ListTypes
<1>2. UNCHANGED <<value, credit, arrived>>
  BY DEF TickYield, TakeSchedule, SleepSchedule, ReleaseSchedule, Sleep, SleepReturn, Enter,
         Leave, SetPriority
<1>3. ASSUME NEW t \in Thread, k.current = t PROVE k.stat[Idle] = "ready"
  BY <1>3, KernelAssumption DEF IInv, Rest, Started
<1>4. ASSUME TickYield PROVE Aside
  <2>1. k.current \in Thread /\ k' = Yield(k) /\ pc' = pc
    BY <1>4 DEF TickYield, YieldStep, Interrupt
  <2>2. k'.wait = k.wait /\ k'.prio = k.prio /\ k'.error = k.error
    BY <1>1, <1>3, <2>1, YieldProperties
  <2> QED BY <2>1, <2>2 DEF Aside, Taking
<1>5. ASSUME NEW t \in Thread, TakeSchedule(t) \/ SleepSchedule(t) \/ ReleaseSchedule(t)
      PROVE  Aside
  <2>1. /\ k' = Schedule(k) /\ k.current = t
        /\ \/ pc[t] = "take_sched" /\ pc' = [pc EXCEPT ![t] = "take_return"]
           \/ pc[t] = "sleep_sched" /\ pc' = [pc EXCEPT ![t] = "sleep_return"]
           \/ pc[t] = "sched" /\ pc' = [pc EXCEPT ![t] = "run"]
    BY <1>5 DEF TakeSchedule, SleepSchedule, ReleaseSchedule, ScheduleStep, Running, Goto
  <2>2. k'.wait = k.wait /\ k'.prio = k.prio /\ k'.error = k.error
    BY <1>1, <1>3, <2>1, ScheduleProperties
  <2> QED BY <1>1, <2>1, <2>2 DEF Aside, Taking
<1>6. ASSUME NEW t \in Thread, Sleep(t)
      PROVE  Aside
  <2>1. /\ k.current = t /\ pc[t] = "run" /\ pc' = [pc EXCEPT ![t] = "sleep_sched"]
        /\ k' = TimerStart(Suspend(k, t), t)
    BY <1>6 DEF Sleep, SleepStep, Running, Goto
  <2>2. k.stat[t] = "ready" BY <2>1 DEF IInv, Rest, CurrentReady, Blocking
  <2>3. PICK s : s = Suspend(k, t) OBVIOUS
  <2>4. /\ s \in KernelState /\ Frame(s, k) /\ s.wait = k.wait
    BY <1>1, <2>2, <2>3, SuspendProperties
  <2>5. k'.wait = s.wait /\ k'.prio = s.prio /\ k'.error = s.error
    BY <2>1, <2>3, <2>4 DEF TimerStart, KernelState
  <2> QED BY <1>1, <2>1, <2>4, <2>5 DEF Aside, Taking, Frame
<1>7. ASSUME NEW t \in Thread, SleepReturn(t) \/ Enter(t) \/ Leave(t)
      PROVE  Aside
  <2>1. /\ pc[t] \in {"run", "sleep_return"}
        /\ \E to \in {"run", "sched"} : pc' = [pc EXCEPT ![t] = to]
        /\ \/ k' = k \/ k' = [k EXCEPT !.error[t] = "RT_EOK"]
           \/ \E n : k' = [k EXCEPT !.nest = n]
    BY <1>7 DEF SleepReturn, SleepReturnStep, Enter, Leave, EnterCritical, ExitCritical, Goto
  <2>2. /\ k'.wait = k.wait /\ k'.prio = k.prio
        /\ \A u \in Thread \ {t} : k'.error[u] = k.error[u]
    BY <1>1, <2>1 DEF KernelState
  <2>3. t \notin Taking BY <2>1 DEF Taking
  <2> QED BY <1>1, <2>1, <2>2, <2>3 DEF Aside, Taking
<1>8. ASSUME NEW t \in Thread, NEW u \in Thread, NEW p \in Priority, SetPriority(t, u, p)
      PROVE  Aside
  <2>1. /\ k' = ChangePriority(k, u, p) /\ k.stat[u] \in {"ready", "suspend"}
        /\ pc[t] = "run" /\ pc' = [pc EXCEPT ![t] = "run"] /\ "priority" \in Ops
    BY <1>8 DEF SetPriority, Goto
  <2>2. k'.wait = k.wait /\ k'.error = k.error
    BY <1>1, <2>1, ChangePriorityProperties, ZenonT(60)
  <2> QED BY <1>1, <2>1, <2>2 DEF Aside, Taking
<1>9. Aside BY <1>4, <1>5, <1>6, <1>7, <1>8
<1>10. Granted' = Granted /\ Clean' BY <1>9, Undisturbed DEF Aside, Books
<1>11. Nothing /\ PrioKept BY <1>2, <1>9, <1>10 DEF Nothing, SameList, PrioKept, Aside
<1> QED BY <1>10, <1>11 DEF Facts, Served

\* A thread that leaves the list, with a token or with an error.
LEMMA Leaving ==
  ASSUME IInv, Books, NEW h \in Waiting, NEW e,
         k'.wait[Sem] = RemoveFirst(k.wait[Sem], h), arrived' = RemoveFirst(arrived, h),
         value' = value, Taking' = Taking,
         \A u \in Thread : k'.error[u] = IF u = h THEN e ELSE k.error[u]
  PROVE  /\ Unlisted(h) /\ Clean' /\ h \notin Granted
         /\ Granted' = IF e = "RT_EOK" THEN Granted \cup {h} ELSE Granted
<1>1. Waiting' = Waiting \ {h} BY ListTypes, RemoveFirstProperties DEF Waiting
<1>2. Waiting \subseteq Taking /\ Taking \subseteq Thread BY ListTypes
<1>3. Clean' BY <1>1, <1>2 DEF Books, Clean
<1>4. h \notin Granted BY DEF Granted
<1>5. Granted' = {u \in Taking : u \notin Waiting \ {h} /\ k'.error[u] = "RT_EOK"}
  BY <1>1 DEF Granted
<1>6. Granted' = IF e = "RT_EOK" THEN Granted \cup {h} ELSE Granted
  BY <1>2, <1>5 DEF Granted
<1> QED BY <1>3, <1>4, <1>6 DEF Unlisted

\* What rt_ipc_list_resume and rt_ipc_list_resume_all do to the lists and to
\* thread->error.
LEMMA WakeHeadLists ==
  ASSUME IInv, k.wait[Sem] # <<>>,
         NEW s, s = IpcListResume(k, Sem) \/ s = IpcListResumeError(k, Sem)
  PROVE  LET h == Head(k.wait[Sem])
         IN  /\ h \in Waiting
             /\ s.wait[Sem] = RemoveFirst(k.wait[Sem], h) /\ s.prio = k.prio
             /\ s = IpcListResume(k, Sem) => s.error = k.error
             /\ s = IpcListResumeError(k, Sem) => s.error = [k.error EXCEPT ![h] = "RT_ERROR"]
             /\ s \in KernelState /\ s.stat = [k.stat EXCEPT ![h] = "ready"]
<1> DEFINE h == Head(k.wait[Sem])
           e == [k EXCEPT !.error[h] = "RT_ERROR"]
<1>1. k \in KernelState /\ KernelOK(k) /\ Sem \in Queue BY ListTypes
<1>2. h \in Thread /\ k.stat[h] = "suspend" /\ h \in Waiting
  BY HeadSuspended DEF IInv, Rest, Waiting
<1>3. s \in KernelState /\ s.stat = [k.stat EXCEPT ![h] = "ready"] BY WakeHead
<1>4. ASSUME s = IpcListResume(k, Sem)
      PROVE  s.wait[Sem] = RemoveFirst(k.wait[Sem], h) /\ s.prio = k.prio /\ s.error = k.error
  <2>1. s = Resume(k, h) BY <1>4 DEF IpcListResume
  <2> HIDE DEF h
  <2>2. Frame(s, k) BY <1>1, <1>2, <2>1, ResumeProperties
  <2>3. s.wait[Sem] = RemoveFirst(k.wait[Sem], h) BY <1>1, <1>2, <2>1, ResumeLists
  <2> QED BY <2>2, <2>3 DEF Frame
<1>5. ASSUME s = IpcListResumeError(k, Sem)
      PROVE  /\ s.wait[Sem] = RemoveFirst(k.wait[Sem], h) /\ s.prio = k.prio
             /\ s.error = [k.error EXCEPT ![h] = "RT_ERROR"]
  <2>1. s = Resume(e, h) BY <1>5 DEF IpcListResumeError
  <2>2. "RT_ERROR" \in Error BY DEF Error
  <2> HIDE DEF h
  <2>3. /\ e \in KernelState /\ KernelOK(e) /\ e.stat = k.stat /\ e.prio = k.prio
        /\ e.wait = k.wait /\ e.error = [k.error EXCEPT ![h] = "RT_ERROR"]
    BY <1>1, <1>2, <2>2, SetErrorProperties
  <2> HIDE DEF e
  <2>4. e \in KernelState /\ KernelOK(e) /\ e.stat[h] = "suspend" BY <1>2, <2>3
  <2>5. Frame(s, e) BY <1>2, <2>1, <2>4, ResumeProperties
  <2>6. s.wait[Sem] = RemoveFirst(e.wait[Sem], h) BY <1>1, <1>2, <2>1, <2>4, ResumeLists
  <2> QED BY <2>3, <2>5, <2>6 DEF Frame
<1> QED BY <1>2, <1>3, <1>4, <1>5

\* rt_sem_release, by a thread or by an interrupt handler.
LEMMA ReleaseFacts ==
  ASSUME IInv, Books, IsrRelease \/ \E t \in Thread : Release(t)
  PROVE  Facts
<1>1. /\ ReleaseBody
      /\ IF k.wait[Sem] = <<>> THEN k' = k
         ELSE k' = IpcListResume(k, Sem) \/ k' = Schedule(IpcListResume(k, Sem))
  BY DEF IsrRelease, Release
<1>2. Taking' = Taking
  <2>1. pc \in [Thread -> Pc] BY ListTypes
  <2>2. pc' = pc \/ \E t \in Thread :
            pc[t] = "run" /\ (pc' = [pc EXCEPT ![t] = "run"] \/ pc' = [pc EXCEPT ![t] = "sched"])
    BY DEF IsrRelease, Release, Goto
  <2> QED BY <2>1, <2>2 DEF Taking
<1>3. CASE k.wait[Sem] = <<>>
  <2>1. k' = k BY <1>1, <1>3
  <2>2. Granted' = Granted /\ Clean' BY <1>2, <2>1, Undisturbed DEF Books
  <2>3. Counted BY <1>1, <1>3, <2>1, <2>2 DEF Counted, SameList, ReleaseBody
  <2> QED BY <2>1, <2>2, <2>3 DEF Facts, Served, PrioKept
<1>4. CASE k.wait[Sem] # <<>>
  <2>1. PICK s : s = IpcListResume(k, Sem) OBVIOUS
  <2>2. PICK h : h = Head(k.wait[Sem]) OBVIOUS
  <2>3. /\ h \in Waiting /\ s.wait[Sem] = RemoveFirst(k.wait[Sem], h)
        /\ s.prio = k.prio /\ s.error = k.error /\ s \in KernelState
    BY <1>4, <2>1, <2>2, WakeHeadLists
  <2>4. k' = s \/ k' = Schedule(s) BY <1>1, <1>4, <2>1
  <2>5. k'.wait = s.wait /\ k'.prio = s.prio /\ k'.error = s.error
    BY <2>3, <2>4 DEF Schedule, KernelState
  <2>6. k.error[h] = "RT_EOK" BY <2>3 DEF Books, Clean
  <2>7. /\ arrived' = RemoveFirst(arrived, h) /\ value' = value /\ credit' = credit + 1
    BY <1>1, <1>4, <2>2 DEF ReleaseBody
  <2>8. /\ Unlisted(h) /\ Clean' /\ h \notin Granted /\ Granted' = Granted \cup {h}
    <3>1. PICK e : e = "RT_EOK" OBVIOUS
    <3>2. \A u \in Thread : k'.error[u] = IF u = h THEN e ELSE k.error[u]
      BY <2>3, <2>5, <2>6, <3>1
    <3>3. k'.wait[Sem] = RemoveFirst(k.wait[Sem], h) BY <2>3, <2>5
    <3>4. Granted' = IF e = "RT_EOK" THEN Granted \cup {h} ELSE Granted
      BY <1>2, <2>3, <2>7, <3>2, <3>3, Leaving
    <3> QED BY <1>2, <2>3, <2>7, <3>1, <3>2, <3>3, <3>4, Leaving
  <2>9. h \in Thread /\ Woken(h)
    <3>1. h \in Thread BY <2>3, ListTypes
    <3> QED BY <2>7, <2>8, <3>1 DEF Woken
  <2> QED BY <2>3, <2>5, <2>8, <2>9 DEF Facts, Served, PrioKept
<1> QED BY <1>3, <1>4

\* rt_ipc_list_resume_all, called by rt_sem_control and rt_sem_detach.
LEMMA ResumeAllFacts ==
  ASSUME IInv, Books, k.wait[Sem] # <<>>, \E t \in Thread : ResetWake(t) \/ DetachBody(t)
  PROVE  Facts
<1>1. PICK h : h = Head(k.wait[Sem]) OBVIOUS
<1>2. /\ k' = IpcListResumeError(k, Sem) /\ arrived' = RemoveFirst(arrived, h)
      /\ UNCHANGED <<value, credit>>
  BY <1>1 DEF ResetWake, DetachBody
<1>3. Taking' = Taking
  <2>1. pc \in [Thread -> Pc] BY ListTypes
  <2>2. \E t \in Thread :
            \/ pc[t] = "reset_loop" /\ pc' = [pc EXCEPT ![t] = "reset_loop"]
            \/ pc[t] = "detach_body" /\ pc' = [pc EXCEPT ![t] = "detach_test"]
    BY DEF ResetWake, DetachBody, Goto
  <2> QED BY <2>1, <2>2 DEF Taking
<1>4. /\ h \in Waiting /\ k'.wait[Sem] = RemoveFirst(k.wait[Sem], h)
      /\ k'.prio = k.prio /\ k'.error = [k.error EXCEPT ![h] = "RT_ERROR"]
  BY <1>1, <1>2, WakeHeadLists
<1>5. PICK e : e = "RT_ERROR" OBVIOUS
<1>6. \A u \in Thread : k'.error[u] = IF u = h THEN e ELSE k.error[u]
  BY <1>4, <1>5, ListTypes
<1>7. /\ Unlisted(h) /\ Clean' /\ Granted' = IF e = "RT_EOK" THEN Granted \cup {h} ELSE Granted
  BY <1>2, <1>3, <1>4, <1>6, Leaving
<1>8. h \in Thread /\ GivesUp(h)
  <2>1. h \in Thread BY <1>4, ListTypes
  <2> QED BY <1>2, <1>5, <1>7, <2>1 DEF GivesUp
<1> QED BY <1>4, <1>7, <1>8 DEF Facts, Served, PrioKept

\* rt_thread_timeout of a thread that waits here, and of one that does not.
LEMMA TimeoutFacts ==
  ASSUME IInv, Books, NEW h \in Thread, TickTimeout(h)
  PROVE  Facts
<1>1. k \in KernelState /\ KernelOK(k) /\ Sem \in Queue BY ListTypes
<1>2. /\ h \in k.armed /\ k.current \in Thread /\ k' = ThreadTimeout(k, h) /\ pc' = pc
      /\ arrived' = RemoveFirst(arrived, h) /\ UNCHANGED <<value, credit>>
  BY DEF TickTimeout, TimeoutStep, Interrupt
<1>3. k.stat[Idle] = "ready" BY <1>2, KernelAssumption DEF IInv, Rest, Started
<1>4. k.stat[h] = "suspend" BY <1>1, <1>2 DEF KernelOK, TimersOK
<1>5. k'.prio = k.prio /\ k'.error = [k.error EXCEPT ![h] = "RT_ETIMEOUT"]
  BY <1>1, <1>2, <1>3, ThreadTimeoutProperties
<1>6. k'.wait[Sem] = RemoveFirst(k.wait[Sem], h)
  BY <1>1, <1>2 DEF ThreadTimeout, Schedule, TimerStop, ScheduleInsert, ListRemove, KernelState
<1>7. PICK e : e = "RT_ETIMEOUT" OBVIOUS
<1>8. \A u \in Thread : k'.error[u] = IF u = h THEN e ELSE k.error[u]
  BY <1>5, <1>7, ListTypes
<1>9. Taking' = Taking BY <1>2 DEF Taking
<1>10. CASE h \in Waiting
  <2>1. /\ Unlisted(h) /\ Clean' /\ Granted' = IF e = "RT_EOK" THEN Granted \cup {h} ELSE Granted
    BY <1>2, <1>6, <1>8, <1>9, <1>10, Leaving
  <2>2. GivesUp(h) BY <1>2, <1>7, <2>1 DEF GivesUp
  <2> QED BY <1>5, <2>1, <2>2 DEF Facts, Served, PrioKept
<1>11. CASE h \notin Waiting
  <2>1. h \notin Taking BY <1>4, <1>11, ListTypes
  <2>2. k'.wait[Sem] = k.wait[Sem]
    BY <1>6, <1>11, ListTypes, RemoveFirstProperties DEF Waiting
  <2>3. arrived' = arrived
    BY <1>2, <1>11, ListTypes, RemoveFirstProperties DEF Books, ArrivedOK
  <2>4. Granted' = Granted /\ Clean' BY <1>8, <1>9, <2>1, <2>2, Undisturbed DEF Books
  <2>5. Nothing BY <1>2, <2>2, <2>3, <2>4 DEF Nothing, SameList
  <2> QED BY <1>5, <2>4, <2>5 DEF Facts, Served, PrioKept
<1> QED BY <1>10, <1>11

\* rt_sem_take after rt_schedule: the thread runs, so it has left the list.
LEMMA ReturnFacts ==
  ASSUME IInv, Books, NEW t \in Thread, TakeReturn(t)
  PROVE  Facts
<1>1. /\ k.current = t /\ pc[t] = "take_return" /\ pc' = [pc EXCEPT ![t] = "run"] /\ k' = k
      /\ credit' = IF k.error[t] = "RT_EOK" THEN credit - 1 ELSE credit
      /\ UNCHANGED <<value, arrived>>
  BY DEF TakeReturn, Running, Goto
<1>2. k.stat[t] = "ready" BY <1>1 DEF IInv, Rest, CurrentReady, Blocking
<1>3. t \in Taking /\ t \notin Waiting BY <1>1, <1>2, ListTypes DEF Taking
<1>4. Taking' = Taking \ {t} BY <1>1, ListTypes DEF Taking
<1>5. Waiting' = Waiting BY <1>1 DEF Waiting
<1>6. Granted' = Granted \ {t} BY <1>1, <1>4, <1>5 DEF Granted
<1>7. Clean' BY <1>1, <1>5 DEF Books, Clean
<1>8. CASE k.error[t] = "RT_EOK"
  <2>1. t \in Granted BY <1>3, <1>8 DEF Granted
  <2>2. Collects(t) BY <1>1, <1>6, <1>8, <2>1 DEF Collects, SameList
  <2> QED BY <1>1, <1>7, <2>2 DEF Facts, Served, PrioKept
<1>9. CASE k.error[t] # "RT_EOK"
  <2>1. Granted' = Granted BY <1>6, <1>9 DEF Granted
  <2>2. Nothing BY <1>1, <1>9, <2>1 DEF Nothing, SameList
  <2> QED BY <1>1, <1>7, <2>2 DEF Facts, Served, PrioKept
<1> QED BY <1>8, <1>9

\* rt_sem_take with nothing available and time to wait.
LEMMA QueueFacts ==
  ASSUME IInv, Books, NEW t \in Thread, NEW time \in Times, TakeSuspend(t, time)
  PROVE  Facts
<1>1. k \in KernelState /\ KernelOK(k) /\ Sem \in Queue /\ pc \in [Thread -> Pc]
  BY ListTypes
<1>2. PICK c : c = [k EXCEPT !.error[t] = "RT_EOK"] OBVIOUS
<1>3. /\ k.current = t /\ pc[t] = "run" /\ pc' = [pc EXCEPT ![t] = "take_sched"]
      /\ value = 0 /\ UNCHANGED <<value, credit>> /\ arrived' = Append(arrived, t)
      /\ k' = IF time = "timed" THEN TimerStart(IpcListSuspend(c, Sem, t, Flag), t)
              ELSE IpcListSuspend(c, Sem, t, Flag)
  BY <1>2 DEF TakeSuspend, Running, Goto
<1>4. "RT_EOK" \in Error BY DEF Error
<1>5. /\ c \in KernelState /\ KernelOK(c) /\ c.stat = k.stat /\ c.prio = k.prio
      /\ c.wait = k.wait /\ c.error = [k.error EXCEPT ![t] = "RT_EOK"]
  BY <1>1, <1>2, <1>4, SetErrorProperties
<1>6. k.stat[t] = "ready" BY <1>3 DEF IInv, Rest, CurrentReady, Blocking
<1>7. c \in KernelState /\ KernelOK(c) /\ c.stat[t] = "ready" BY <1>5, <1>6
<1>8. Flag \in {"RT_IPC_FLAG_FIFO", "RT_IPC_FLAG_PRIO"} BY SemaphoreAssumption
<1>9. /\ Frame(k', c) /\ k'.wait[Sem] = IpcListSuspend(c, Sem, t, Flag).wait[Sem]
      /\ ToSet(k'.wait[Sem]) = ToSet(c.wait[Sem]) \cup {t}
  <2>1. PICK s : s = IpcListSuspend(c, Sem, t, Flag) OBVIOUS
  <2>2. /\ s \in KernelState /\ KernelOK(s) /\ Frame(s, c)
        /\ s.stat = [c.stat EXCEPT ![t] = "suspend"]
        /\ ToSet(s.wait[Sem]) = ToSet(c.wait[Sem]) \cup {t}
    BY <1>1, <1>7, <1>8, <2>1, IpcListSuspendProperties, SMTT(30)
  <2>3. s \in KernelState /\ KernelOK(s) /\ s.stat[t] = "suspend"
    BY <1>7, <2>2 DEF KernelState
  <2>4. k' = s \/ k' = TimerStart(s, t) BY <1>3, <2>1
  <2>5. Frame(k', s) /\ k'.wait = s.wait
    <3>1. CASE k' = s BY <3>1 DEF Frame
    <3>2. CASE k' = TimerStart(s, t) BY <2>3, <3>2, TimerStartProperties
    <3> QED BY <2>4, <3>1, <3>2
  <2> QED BY <2>1, <2>2, <2>5 DEF Frame
<1>10. k'.error = [k.error EXCEPT ![t] = "RT_EOK"] /\ k'.prio = k.prio
  BY <1>5, <1>9 DEF Frame
<1>11. Waiting' = Waiting \cup {t} BY <1>5, <1>9 DEF Waiting
<1>12. t \notin Taking BY <1>3 DEF Taking
<1>13. Taking' = Taking \cup {t} BY <1>1, <1>3 DEF Taking
<1>14. \A u \in Thread : k'.error[u] = IF u = t THEN "RT_EOK" ELSE k.error[u]
  BY <1>10, ListTypes
<1>15. Waiting \subseteq Taking /\ Taking \subseteq Thread BY ListTypes
<1>16. Clean' BY <1>11, <1>14, <1>15 DEF Books, Clean
<1>17. Granted' = Granted BY <1>11, <1>12, <1>13, <1>14, <1>15 DEF Granted
<1>18. t \notin Waiting /\ t \notin Granted BY <1>12, <1>15 DEF Granted
<1>19. Queues(t) BY <1>2, <1>3, <1>6, <1>9, <1>11, <1>17, <1>18 DEF Queues
<1> QED BY <1>10, <1>16, <1>19 DEF Facts, Served, PrioKept

\* The end of a reset, and rt_sem_init of a semaphore that was detached.
LEMMA SetFacts ==
  ASSUME IInv, Books, NEW t \in Thread,
         SemInit(t) \/ \E v \in 0 .. MaxCredit : ResetValue(t, v)
  PROVE  Facts /\ SetAnew
<1>1. k \in KernelState /\ Sem \in Queue /\ pc \in [Thread -> Pc] BY ListTypes
<1>2. k.wait[Sem] = <<>>
  BY DEF SemInit, ResetValue, IInv, Rest, DetachDone
<1>3. k'.wait[Sem] = k.wait[Sem] /\ k'.prio = k.prio /\ k'.error = k.error /\ arrived' = arrived
  BY <1>1, <1>2 DEF SemInit, ResetValue, KernelState
<1>4. /\ pc[t] \in {"run", "reset_loop"}
      /\ pc' = [pc EXCEPT ![t] = "run"] \/ pc' = [pc EXCEPT ![t] = "sched"]
  BY DEF SemInit, ResetValue, Goto
<1>5. Taking' = Taking BY <1>1, <1>4 DEF Taking
<1>6. Granted' = Granted /\ Clean' BY <1>3, <1>5, Undisturbed DEF Books
<1>7. value' \in 0 .. ValueMod - 1 /\ credit' = value' + Cardinality(Granted)
  BY SemaphoreAssumption DEF SemInit, ResetValue
<1>8. SetAnew BY <1>2, <1>3, <1>6, <1>7 DEF SetAnew, SameList, Setting
<1> QED BY <1>3, <1>6, <1>8 DEF Facts, Served, PrioKept

\* While the system boots nobody is inside rt_sem_take.
LEMMA BootFacts ==
  ASSUME IInv, Books, Start \/ \E t \in Thread : Boot(t)
  PROVE  Facts
<1>1. k \in KernelState /\ KernelOK(k) /\ Sem \in Queue BY ListTypes
<1>2. k.current = NoThread /\ pc' = pc /\ UNCHANGED <<value, credit, arrived>>
  BY DEF Start, Boot, StartStep, BootStep
<1>3. \A u \in Thread : pc[u] = "run" BY <1>2 DEF IInv, Rest, Started
<1>4. Taking = {} /\ Taking' = {} BY <1>2, <1>3 DEF Taking
<1>5. Waiting = {} /\ k.wait[Sem] = <<>>
  <2>1. Waiting = {} BY <1>4, ListTypes
  <2> QED BY <2>1, ListTypes, HeadToSet DEF Waiting
<1>6. k'.wait[Sem] = k.wait[Sem]
  <2>1. CASE Start
    <3>1. k' = [k EXCEPT !.current = HighestReady(k)]
      BY <2>1 DEF Start, StartStep, SchedulerStart
    <3> QED BY <1>1, <3>1 DEF KernelState
  <2>2. ASSUME NEW t \in Thread, Boot(t) PROVE k'.wait[Sem] = k.wait[Sem]
    <3>1. k' = BootThread(k, t) /\ k.stat[t] = "none" BY <2>2 DEF Boot, BootStep
    <3>2. t \notin ToSet(k.wait[Sem]) BY <1>5 DEF Waiting
    <3>3. \A q \in Queue : t \notin ToSet(k.wait[q]) => k'.wait[q] = k.wait[q]
      <4>1. k \in KernelState /\ KernelOK(k) BY <1>1
      <4>2. /\ k' \in KernelState
            /\ KernelOK(k')
            /\ k'.nest = k.nest /\ k'.current = k.current
            /\ \A q \in Queue : t \notin ToSet(k.wait[q]) => k'.wait[q] = k.wait[q]
        BY <3>1, <4>1, BootThreadProperties
      <4> QED BY <4>2
    <3> QED BY <1>1, <3>2, <3>3
  <2> QED BY <2>1, <2>2
<1>7. Granted' = Granted /\ Clean' BY <1>4, <1>6, Undisturbed DEF Books
<1>8. Nothing BY <1>2, <1>6, <1>7 DEF Nothing, SameList
<1>9. PrioKept BY <1>5, <1>6 DEF PrioKept
<1> QED BY <1>7, <1>8, <1>9 DEF Facts, Served

LEMMA NextFacts ==
  ASSUME IInv, Books, [Next]_vars
  PROVE  Facts
<1>1. ASSUME NEW t \in Thread, ThreadStep(t) PROVE Facts
  <2>1. CASE Compute(t) \/ TakeNow(t) \/ TakeFail(t) \/ Reset(t) \/ Detach(t) \/ DetachTest(t)
    <3>1. k' = k BY <2>1 DEF Compute, OwnCode, TakeNow, TakeFail, Reset, Detach, DetachTest
    <3> QED BY <2>1, <3>1, PlainFacts
  <2>2. CASE \E time \in Times : TakeSuspend(t, time) BY <2>2, QueueFacts
  <2>3. CASE \/ TakeSchedule(t) \/ SleepSchedule(t) \/ ReleaseSchedule(t)
             \/ Sleep(t) \/ SleepReturn(t) \/ Enter(t) \/ Leave(t)
             \/ \E u \in Thread, p \in Priority : SetPriority(t, u, p)
    BY <2>3, SchedulerFacts
  <2>4. CASE TakeReturn(t) BY <2>4, ReturnFacts
  <2>5. CASE Release(t) BY <2>5, ReleaseFacts
  <2>6. CASE ResetWake(t) \/ DetachBody(t)
    <3>1. CASE k.wait[Sem] # <<>> BY <2>6, <3>1, ResumeAllFacts
    <3>2. CASE k.wait[Sem] = <<>>
      <4>1. DetachBody(t) /\ k' = k BY <2>6, <3>2 DEF ResetWake, DetachBody
      <4> QED BY <3>2, <4>1, PlainFacts
    <3> QED BY <3>1, <3>2
  <2>7. CASE SemInit(t) \/ \E v \in 0 .. MaxCredit : ResetValue(t, v) BY <2>7, SetFacts
  <2> QED BY <1>1, <2>1, <2>2, <2>3, <2>4, <2>5, <2>6, <2>7, Zenon DEF ThreadStep
<1>2. ASSUME NEW t \in Thread, TickTimeout(t) PROVE Facts BY <1>2, TimeoutFacts
<1>3. CASE TickYield BY <1>3, SchedulerFacts
<1>4. CASE IsrRelease BY <1>4, ReleaseFacts
<1>5. CASE IsrTryTake \/ UNCHANGED vars
  <2>1. k' = k BY <1>5 DEF IsrTryTake, vars
  <2> QED BY <1>5, <2>1, PlainFacts
<1>6. CASE Start \/ \E t \in Thread : Boot(t) BY <1>6, BootFacts
<1> QED BY <1>1, <1>2, <1>3, <1>4, <1>5, <1>6, Zenon DEF Next

\* The history of arrivals follows the list.
LEMMA BooksKept ==
  ASSUME IInv, IInv', Books, Facts
  PROVE  Books'
<1>1. Clean' BY DEF Facts
<1>2. arrived \in Seq(Thread) /\ k.wait[Sem] \in Seq(Thread) /\ IsInjective(k.wait[Sem])
  BY ListTypes
<1>3. ToSet(arrived) = Waiting /\ IsInjective(arrived) BY DEF Books, ArrivedOK
<1>4. ASSUME SameList PROVE ArrivedOK'
  BY <1>3, <1>4 DEF SameList, ArrivedOK, Waiting
<1>5. ASSUME NEW t \in Thread, Queues(t) PROVE ArrivedOK'
  <2>1. arrived' = Append(arrived, t) /\ Waiting' = Waiting \cup {t} /\ t \notin ToSet(arrived)
    BY <1>3, <1>5 DEF Queues
  <2>2. ToSet(arrived') = ToSet(arrived) \cup {t} /\ IsInjective(arrived')
    BY <1>2, <1>3, <2>1, AppendToSet
  <2> QED BY <1>3, <2>1, <2>2 DEF ArrivedOK
<1>6. ASSUME NEW t \in Thread, Unlisted(t) PROVE ArrivedOK'
  <2>1. arrived' = RemoveFirst(arrived, t) /\ k'.wait[Sem] = RemoveFirst(k.wait[Sem], t)
    BY <1>6 DEF Unlisted
  <2>2. ToSet(arrived') = ToSet(arrived) \ {t} /\ IsInjective(arrived')
    BY <1>2, <1>3, <2>1, RemoveFirstProperties
  <2>3. ToSet(k'.wait[Sem]) = ToSet(k.wait[Sem]) \ {t}
    BY <1>2, <2>1, RemoveFirstProperties
  <2> QED BY <1>3, <2>2, <2>3 DEF ArrivedOK, Waiting
<1>7. ArrivedOK'
  BY <1>4, <1>5, <1>6 DEF Facts, Served, Nothing, Taken, Counted, SetAnew, Woken, GivesUp,
                          Collects
<1> QED BY <1>1, <1>7 DEF Books

JInv == IInv /\ Books

LEMMA BooksInvariance ==
  ASSUME "wait_locked" \notin Ops
  PROVE  Spec => []JInv
<1>1. Init => JInv
  <2> SUFFICES ASSUME Init PROVE Books BY InitEstablishes DEF JInv
  <2>1. k.wait[Sem] = <<>> /\ arrived = <<>>
    BY SemaphoreAssumption DEF Init, SystemInit, SchedulerInit
  <2>2. Waiting = {} /\ ToSet(arrived) = {} BY <2>1 DEF Waiting, ToSet
  <2>3. IsInjective(arrived) BY <2>1 DEF IsInjective
  <2> QED BY <2>2, <2>3 DEF Books, Clean, ArrivedOK
<1>2. JInv /\ [Next]_vars => JInv'
  <2> SUFFICES ASSUME JInv, [Next]_vars PROVE JInv' OBVIOUS
  <2>1. IInv /\ Books BY DEF JInv
  <2>2. IInv' BY <2>1, NextKeeps
  <2>3. Facts BY <2>1, NextFacts
  <2> QED BY <2>1, <2>2, <2>3, BooksKept DEF JInv
<1> QED BY <1>1, <1>2, PTL DEF Spec

-----------------------------------------------------------------------------
(***************************************************************************)
(* The counting semaphore.                                                 *)
(***************************************************************************)

\* Only a reset, a detach and an initialisation open or close the semaphore.
LEMMA OpenStep ==
  ASSUME IInv, [Next]_vars
  PROVE  (Setting /\ ~Open) \/ (Closing /\ ~Open') \/ Open' = Open
<1>1. pc \in [Thread -> Pc] BY ListTypes
<1>2. ASSUME NEW t \in Thread, NEW to, to # "reset_loop", pc[t] # "reset_loop",
             pc' = [pc EXCEPT ![t] = to], alive' = alive
      PROVE  Open' = Open
  <2>1. \A u \in Thread : pc'[u] = "reset_loop" <=> pc[u] = "reset_loop" BY <1>1, <1>2
  <2> QED BY <1>2, <2>1 DEF Open
<1>3. ASSUME pc' = pc, alive' = alive PROVE Open' = Open BY <1>3 DEF Open
<1>4. ASSUME NEW t \in Thread, Reset(t) \/ Detach(t) PROVE Closing /\ ~Open'
  <2>1. Closing BY <1>4 DEF Closing
  <2>2. CASE Reset(t)
    <3>1. pc'[t] = "reset_loop" BY <1>1, <2>2 DEF Reset, Goto
    <3> QED BY <2>1, <3>1 DEF Open
  <2>3. CASE Detach(t) BY <2>1, <2>3 DEF Detach, Open
  <2> QED BY <1>4, <2>2, <2>3
<1>5. ASSUME NEW t \in Thread,
             SemInit(t) \/ \E v \in 0 .. MaxCredit : ResetValue(t, v)
      PROVE  Setting /\ ~Open
  BY <1>5 DEF Setting, SemInit, ResetValue, Goto, Open
<1>6. ASSUME NEW t \in Thread,
             \/ Compute(t) \/ TakeNow(t) \/ TakeFail(t) \/ \E time \in Times : TakeSuspend(t, time)
             \/ TakeSchedule(t) \/ TakeReturn(t) \/ Release(t) \/ ReleaseSchedule(t)
             \/ DetachTest(t) \/ DetachBody(t)
      PROVE  Open' = Open
  <2>1. alive' = alive
    BY <1>6 DEF Compute, TakeNow, TakeFail, TakeSuspend, TakeSchedule, TakeReturn, Release,
                ReleaseBody, ReleaseSchedule, DetachTest, DetachBody
  <2>2. pc' = pc \/ \E to : /\ to # "reset_loop" /\ pc[t] # "reset_loop"
                            /\ pc' = [pc EXCEPT ![t] = to]
    BY <1>6 DEF Compute, OwnCode, TakeNow, TakeFail, TakeSuspend, TakeSchedule, TakeReturn,
                Release, ReleaseSchedule, DetachTest, DetachBody, ScheduleStep, Goto
  <2> QED BY <1>2, <1>3, <2>1, <2>2
<1>7. ASSUME NEW t \in Thread,
             \/ Sleep(t) \/ SleepSchedule(t) \/ SleepReturn(t) \/ Enter(t) \/ Leave(t)
             \/ \E u \in Thread, p \in Priority : SetPriority(t, u, p)
      PROVE  Open' = Open
  <2>1. alive' = alive
    BY <1>7 DEF Sleep, SleepSchedule, SleepReturn, Enter, Leave, SetPriority
  <2>2. \E to : to # "reset_loop" /\ pc[t] # "reset_loop" /\ pc' = [pc EXCEPT ![t] = to]
    BY <1>7 DEF Sleep, SleepStep, SleepSchedule, SleepReturn, SleepReturnStep, Enter, Leave,
                SetPriority, ScheduleStep, Goto
  <2> QED BY <1>2, <2>1, <2>2
<1>8. ASSUME NEW t \in Thread, ResetWake(t) PROVE Open' = Open
  <2>1. pc' = pc /\ alive' = alive BY <1>1, <1>8 DEF ResetWake, Goto
  <2> QED BY <1>3, <2>1
<1>9. CASE \/ UNCHANGED vars \/ TickYield \/ IsrRelease \/ IsrTryTake \/ Start
           \/ \E t \in Thread : Boot(t) \/ TickTimeout(t)
  <2>1. pc' = pc /\ alive' = alive
    BY <1>9 DEF vars, TickYield, YieldStep, IsrRelease, ReleaseBody, IsrTryTake, Start,
                StartStep, Boot, BootStep, TickTimeout, TimeoutStep
  <2> QED BY <1>3, <2>1
<1>10. ASSUME NEW t \in Thread, ThreadStep(t)
       PROVE  (Setting /\ ~Open) \/ (Closing /\ ~Open') \/ Open' = Open
  BY <1>4, <1>5, <1>6, <1>7, <1>8, <1>10, Zenon DEF ThreadStep
<1> QED BY <1>9, <1>10, Zenon DEF Next

\* Every step is a step of the counting semaphore, or none.
LEMMA CountingStep ==
  ASSUME IInv, Books, [Next]_vars
  PROVE  [Counting!Next]_(Counting!vars)
<1>1. k.wait[Sem] \in Seq(Thread) /\ IsInjective(k.wait[Sem]) /\ Open' \in BOOLEAN
  BY ListTypes DEF Open
<1>2. SameList => Waiting' = Waiting BY DEF SameList, Waiting
<1>3. k.wait[Sem] = <<>> => Waiting = {} BY <1>1, HeadToSet DEF Waiting
<1>4. CASE Setting /\ ~Open
  <2>1. SetAnew BY <1>4, SetFacts DEF Setting
  <2>2. Counting!SetValue BY <1>1, <1>2, <1>3, <1>4, <2>1 DEF Counting!SetValue, SetAnew
  <2> QED BY <2>2 DEF Counting!Next
<1>5. CASE Closing /\ ~Open'
  <2>1. PICK t \in Thread : Reset(t) \/ Detach(t) BY <1>5 DEF Closing
  <2>2. k' = k /\ value' = value BY <2>1 DEF Reset, Detach
  <2>3. Taking' = Taking
    BY <2>1, ListTypes DEF Reset, Detach, Goto, Taking
  <2>4. Waiting' = Waiting /\ Granted' = Granted BY <2>2, <2>3 DEF Waiting, Granted
  <2>5. Counting!Close BY <1>5, <2>2, <2>4 DEF Counting!Close, Open
  <2> QED BY <2>5 DEF Counting!Next
<1>6. CASE Open' = Open /\ ~Setting
  <2>1. Facts BY NextFacts
  <2>2. CASE Nothing BY <1>2, <1>6, <2>2 DEF Nothing, Counting!vars
  <2>3. CASE Taken BY <1>2, <1>6, <2>3 DEF Taken, Counting!Next, Counting!Acquire
  <2>4. CASE Counted
    BY <1>2, <1>3, <1>6, <2>4 DEF Counted, Counting!Next, Counting!Release
  <2>5. ASSUME NEW t \in Thread, Queues(t) PROVE Counting!Wait(t)
    BY <1>6, <2>5 DEF Queues, Counting!Wait
  <2>6. ASSUME NEW t \in Thread, Unlisted(t) PROVE Waiting' = Waiting \ {t}
    BY <1>1, <2>6, RemoveFirstProperties DEF Unlisted, Waiting
  <2>7. ASSUME NEW t \in Thread, Woken(t) PROVE Counting!Grant(t)
    BY <1>6, <2>6, <2>7 DEF Woken, Unlisted, Counting!Grant
  <2>8. ASSUME NEW t \in Thread, GivesUp(t) PROVE Counting!GiveUp(t)
    BY <1>6, <2>6, <2>8 DEF GivesUp, Unlisted, Counting!GiveUp
  <2>9. ASSUME NEW t \in Thread, Collects(t) PROVE Counting!Collect(t)
    BY <1>2, <1>6, <2>9 DEF Collects, Counting!Collect
  <2>10. ~SetAnew BY <1>6 DEF SetAnew
  <2> QED
    BY <2>1, <2>2, <2>3, <2>4, <2>5, <2>7, <2>8, <2>9, <2>10 DEF Facts, Served, Counting!Next
<1>7. ASSUME Setting PROVE ~Open
  BY <1>7 DEF Setting, SemInit, ResetValue, Goto, Open
<1> QED BY <1>4, <1>5, <1>6, <1>7, OpenStep

\* The semaphore of src/ipc.c, with its list, its flag, the scheduler, the
\* thread timers and the interrupts around it, is a counting semaphore: a take
\* waits only when nothing is available, a release goes to exactly one of the
\* waiting threads and is counted only when there is none.
THEOREM SemaphoreRefinesCounting ==
  ASSUME "wait_locked" \notin Ops
  PROVE  Spec => RefinesCounting
<1>1. Init => Counting!Init
  <2> SUFFICES ASSUME Init PROVE Counting!Init OBVIOUS
  <2>1. k.wait[Sem] = <<>> /\ \A t \in Thread : pc[t] = "run"
    BY SemaphoreAssumption DEF Init, SystemInit, SchedulerInit
  <2>2. Waiting = {} /\ Granted = {} BY <2>1 DEF Waiting, ToSet, Granted, Taking
  <2>3. value \in 0 .. ValueMod - 1 BY SemaphoreAssumption DEF Init
  <2>4. Open BY <2>1 DEF Init, Open
  <2> QED BY <2>2, <2>3, <2>4 DEF Counting!Init
<1>2. JInv /\ [Next]_vars => [Counting!Next]_(Counting!vars)
  BY CountingStep DEF JInv
<1> QED BY <1>1, <1>2, BooksInvariance, PTL DEF Spec, RefinesCounting, Counting!Spec

-----------------------------------------------------------------------------
(***************************************************************************)
(* The tokens.                                                             *)
(***************************************************************************)

\* Conservation, at every moment.
Balance == credit = value + Cardinality(Granted)

LEMMA BalanceKept ==
  ASSUME MaxCredit < ValueMod, IInv, IInv', Facts, Balance
  PROVE  Balance'
<1>1. /\ value \in Nat /\ value' \in Nat /\ value < ValueMod /\ credit \in Int /\ credit' \in Int
      /\ ValueMod \in Nat /\ MaxCredit \in Nat
  BY SemaphoreAssumption DEF IInv, TypeOK
<1>2. IsFiniteSet(Granted) /\ Cardinality(Granted) \in Nat
  <2>1. Granted \subseteq Thread BY DEF Granted, Taking
  <2> QED BY <2>1, KernelAssumption, FS_Subset, FS_CardinalityType
<1>3. PICK n : n = Cardinality(Granted) OBVIOUS
<1>4. n \in Nat /\ credit = value + n BY <1>2, <1>3 DEF Balance
<1>5. ASSUME Granted' = Granted PROVE Balance' <=> credit' = value' + n
  BY <1>3, <1>5 DEF Balance
<1>6. CASE Nothing BY <1>4, <1>5, <1>6 DEF Nothing
<1>7. CASE Taken BY <1>1, <1>4, <1>5, <1>7 DEF Taken
<1>8. CASE Counted
  <2>1. value + 1 < ValueMod BY <1>1, <1>4, <1>8 DEF Counted
  <2>2. (value + 1) % ValueMod = value + 1 BY <1>1, <2>1
  <2> QED BY <1>1, <1>4, <1>5, <1>8, <2>2 DEF Counted
<1>9. CASE SetAnew BY <1>3, <1>5, <1>9 DEF SetAnew
<1>10. CASE \E t \in Thread : Queues(t) BY <1>4, <1>5, <1>10 DEF Queues
<1>11. CASE \E t \in Thread : GivesUp(t)
  BY <1>4, <1>5, <1>11 DEF GivesUp, Unlisted
<1>12. ASSUME NEW t \in Thread, Woken(t) PROVE Balance'
  <2>1. /\ t \notin Granted /\ Granted' = Granted \cup {t}
        /\ credit' = credit + 1 /\ value' = value
    BY <1>12 DEF Woken, Unlisted
  <2>2. Cardinality(Granted') = n + 1 BY <1>2, <1>3, <2>1, FS_AddElement
  <2>3. credit' = value' + (n + 1) BY <1>1, <1>4, <2>1
  <2> QED BY <2>2, <2>3 DEF Balance
<1>13. ASSUME NEW t \in Thread, Collects(t) PROVE Balance'
  <2>1. /\ t \in Granted /\ Granted' = Granted \ {t}
        /\ credit' = credit - 1 /\ value' = value
    BY <1>13 DEF Collects
  <2>2. Cardinality(Granted') = n - 1 BY <1>2, <1>3, <2>1, FS_RemoveElement
  <2>3. credit' = value' + (n - 1) BY <1>1, <1>4, <2>1
  <2> QED BY <2>2, <2>3 DEF Balance
<1> QED
  BY <1>6, <1>7, <1>8, <1>9, <1>10, <1>11, <1>12, <1>13 DEF Facts, Served

\* Tokens are neither lost nor invented, as long as no more releases are
\* outstanding than sem->value can count: each one is in the value or with one
\* thread that is on its way out of rt_sem_take.
THEOREM TokensAreConserved ==
  ASSUME "wait_locked" \notin Ops, MaxCredit < ValueMod
  PROVE  Spec => []Conservation
<1>1. Init => Balance
  <2> SUFFICES ASSUME Init PROVE Balance OBVIOUS
  <2>1. \A t \in Thread : pc[t] = "run" BY DEF Init, SystemInit
  <2>2. Granted = {} BY <2>1 DEF Granted, Taking
  <2>3. Cardinality(Granted) = 0 BY <2>2, FS_EmptySet
  <2> QED BY <2>3, SemaphoreAssumption DEF Init, Balance
<1>2. JInv /\ JInv' /\ Balance /\ [Next]_vars => Balance'
  BY NextFacts, BalanceKept DEF JInv
<1>3. Balance => Conservation BY DEF Balance, Conservation
<1> QED BY <1>1, <1>2, <1>3, BooksInvariance, PTL DEF Spec

-----------------------------------------------------------------------------
(***************************************************************************)
(* The order of service.                                                   *)
(***************************************************************************)

\* x came before y.
Before(a, x, y) == \E i, j \in 1 .. Len(a) : i < j /\ a[i] = x /\ a[j] = y

LEMMA BeforeAppend ==
  ASSUME NEW a \in Seq(Thread), NEW t \in Thread
  PROVE  /\ \A x, y : Before(a, x, y) => Before(Append(a, t), x, y)
         /\ \A x \in ToSet(a) : Before(Append(a, t), x, t)
<1>1. PICK b : b = Append(a, t) OBVIOUS
<1>2. /\ Len(b) = Len(a) + 1 /\ Len(a) \in Nat /\ b[Len(a) + 1] = t
      /\ \A i \in 1 .. Len(a) : b[i] = a[i]
  BY <1>1, AppendProperties
<1>3. ASSUME NEW x, NEW y, Before(a, x, y) PROVE Before(b, x, y)
  <2>1. PICK i \in 1 .. Len(a), j \in 1 .. Len(a) : i < j /\ a[i] = x /\ a[j] = y
    BY <1>3 DEF Before
  <2>2. i \in 1 .. Len(b) /\ j \in 1 .. Len(b) /\ b[i] = x /\ b[j] = y BY <1>2, <2>1
  <2> QED BY <2>1, <2>2 DEF Before
<1>4. ASSUME NEW x \in ToSet(a) PROVE Before(b, x, t)
  <2>1. PICK i \in 1 .. Len(a) : a[i] = x BY DEF ToSet
  <2>2. /\ i \in 1 .. Len(b) /\ Len(a) + 1 \in 1 .. Len(b) /\ i < Len(a) + 1
        /\ b[i] = x
    BY <1>2, <2>1
  <2> QED BY <1>2, <2>2 DEF Before
<1> QED BY <1>1, <1>3, <1>4

LEMMA BeforeRemove ==
  ASSUME NEW a \in Seq(Thread), IsInjective(a), NEW e, NEW x, NEW y, x # e, y # e,
         Before(a, x, y)
  PROVE  Before(RemoveFirst(a, e), x, y)
<1>1. CASE e \notin ToSet(a)
  <2>1. RemoveFirst(a, e) = a BY <1>1, RemoveFirstProperties
  <2> QED BY <2>1
<1>2. CASE e \in ToSet(a)
  <2>1. PICK n \in 1 .. Len(a) : a[n] = e BY <1>2 DEF ToSet
  <2>2. PICK b : b = RemoveFirst(a, e) OBVIOUS
  <2>3. /\ Len(b) = Len(a) - 1
        /\ \A i \in 1 .. Len(a) - 1 : b[i] = IF i < n THEN a[i] ELSE a[i + 1]
    BY <2>1, <2>2, RemoveFirstElements
  <2>4. PICK i \in 1 .. Len(a), j \in 1 .. Len(a) : i < j /\ a[i] = x /\ a[j] = y
    BY DEF Before
  <2>5. i # n /\ j # n BY <2>1, <2>4
  <2>6. ASSUME NEW m \in 1 .. Len(a), m # n
        PROVE  LET l == IF m < n THEN m ELSE m - 1 IN l \in 1 .. Len(b) /\ b[l] = a[m]
    <3>1. CASE m < n
      <4>1. m \in 1 .. Len(a) - 1 BY <3>1
      <4> QED BY <2>3, <3>1, <4>1
    <3>2. CASE m > n
      <4>1. m - 1 \in 1 .. Len(a) - 1 /\ ~(m - 1 < n) /\ (m - 1) + 1 = m BY <3>2
      <4> QED BY <2>3, <3>2, <4>1
    <3> QED BY <2>6, <3>1, <3>2
  <2>7. PICK p \in 1 .. Len(b) : p = (IF i < n THEN i ELSE i - 1) /\ b[p] = x
    BY <2>4, <2>5, <2>6
  <2>8. PICK q \in 1 .. Len(b) : q = (IF j < n THEN j ELSE j - 1) /\ b[q] = y
    BY <2>4, <2>5, <2>6
  <2>9. p < q BY <2>4, <2>5, <2>7, <2>8
  <2> QED BY <2>2, <2>7, <2>8, <2>9 DEF Before
<1> QED BY <1>1, <1>2

\* The order in which the flag serves the threads that came as a says.
Service(a, prio) ==
    {p \in Thread \X Thread :
        \/ Flag = "RT_IPC_FLAG_PRIO" /\ prio[p[1]] < prio[p[2]]
        \/ /\ Flag = "RT_IPC_FLAG_PRIO" => prio[p[1]] = prio[p[2]]
           /\ Before(a, p[1], p[2])}

InService == OrderedBy(k.wait[Sem], Service(arrived, k.prio))

LEMMA InServiceMeans ==
  ASSUME IInv PROVE InService <=> ServiceOrder
<1>1. PICK w : w = k.wait[Sem] OBVIOUS
<1>2. w \in Seq(Thread) /\ arrived \in Seq(Thread) BY <1>1, ListTypes
<1>3. DOMAIN w = 1 .. Len(w) /\ DOMAIN arrived = 1 .. Len(arrived) BY <1>2
<1>4. \A i \in 1 .. Len(w) : w[i] \in Thread BY <1>2
<1>5. \A i, j \in 1 .. Len(w) :
         <<w[i], w[j]>> \in Service(arrived, k.prio) <=>
            \/ Flag = "RT_IPC_FLAG_PRIO" /\ k.prio[w[i]] < k.prio[w[j]]
            \/ /\ Flag = "RT_IPC_FLAG_PRIO" => k.prio[w[i]] = k.prio[w[j]]
               /\ Before(arrived, w[i], w[j])
  BY <1>4 DEF Service
<1>6. InService <=> \A i, j \in 1 .. Len(w) : i < j =>
            \/ Flag = "RT_IPC_FLAG_PRIO" /\ k.prio[w[i]] < k.prio[w[j]]
            \/ /\ Flag = "RT_IPC_FLAG_PRIO" => k.prio[w[i]] = k.prio[w[j]]
               /\ Before(arrived, w[i], w[j])
  BY <1>1, <1>5 DEF InService, OrderedBy
<1>7. ServiceOrder <=> \A i, j \in 1 .. Len(w) : i < j =>
            \/ Flag = "RT_IPC_FLAG_PRIO" /\ k.prio[w[i]] < k.prio[w[j]]
            \/ /\ Flag = "RT_IPC_FLAG_PRIO" => k.prio[w[i]] = k.prio[w[j]]
               /\ Before(arrived, w[i], w[j])
  BY <1>1, <1>3 DEF ServiceOrder, Before
<1> QED BY <1>6, <1>7

\* A list stays in order when the relation grows between its elements.
LEMMA OrderedInto ==
  ASSUME NEW s \in Seq(Thread), NEW R, NEW S, OrderedBy(s, R),
         \A x, y \in ToSet(s) : <<x, y>> \in R => <<x, y>> \in S
  PROVE  OrderedBy(s, S)
<1>1. \A i \in 1 .. Len(s) : s[i] \in ToSet(s) BY DEF ToSet
<1> QED BY <1>1 DEF OrderedBy

LEMMA InServiceKept ==
  ASSUME Flag = "RT_IPC_FLAG_FIFO" \/ "priority" \notin Ops,
         IInv, Books, Facts, InService
  PROVE  InService'
<1> DEFINE w == k.wait[Sem]
           R == Service(arrived, k.prio)
<1>1. /\ w \in Seq(Thread) /\ IsInjective(w) /\ arrived \in Seq(Thread)
      /\ IsInjective(arrived) /\ ToSet(w) = ToSet(arrived) /\ ToSet(w) \subseteq Thread
  BY ListTypes, HeadToSet DEF Books, ArrivedOK, Waiting
<1>2. OrderedBy(w, R) BY DEF InService
<1>3. (w = <<>> /\ k'.wait[Sem] = <<>>) \/ \A a : Service(a, k'.prio) = Service(a, k.prio)
  <2>1. CASE w = <<>> /\ k'.wait[Sem] = <<>> BY <2>1
  <2>2. CASE k'.prio = k.prio BY <2>2
  <2>3. CASE "priority" \in Ops
    <3>1. Flag # "RT_IPC_FLAG_PRIO" BY <2>3
    <3> QED BY <3>1 DEF Service
  <2> QED BY <2>1, <2>2, <2>3 DEF Facts, PrioKept
<1>4. CASE k'.wait[Sem] = <<>>
  <2>1. Len(k'.wait[Sem]) = 0 BY <1>4
  <2> QED BY <2>1 DEF InService, OrderedBy
<1>5. CASE k'.wait[Sem] # <<>>
  <2>1. Service(arrived', k'.prio) = Service(arrived', k.prio) BY <1>3, <1>5
  <2> SUFFICES OrderedBy(k'.wait[Sem], Service(arrived', k.prio)) BY <2>1 DEF InService
  <2>2. CASE SameList BY <1>2, <2>2 DEF SameList
  <2>3. ASSUME NEW h \in Thread, Unlisted(h)
        PROVE  OrderedBy(k'.wait[Sem], Service(arrived', k.prio))
    <3>1. k'.wait[Sem] = RemoveFirst(w, h) /\ arrived' = RemoveFirst(arrived, h)
      BY <2>3 DEF Unlisted
    <3> HIDE DEF w, R
    <3>2. OrderedBy(k'.wait[Sem], R) BY <1>1, <1>2, <3>1, RemoveFirstOrdered
    <3>3. k'.wait[Sem] \in Seq(Thread) /\ ToSet(k'.wait[Sem]) = ToSet(w) \ {h}
      BY <1>1, <3>1, RemoveFirstProperties
    <3>4. \A x, y \in ToSet(k'.wait[Sem]) :
             <<x, y>> \in R => <<x, y>> \in Service(arrived', k.prio)
      <4> SUFFICES ASSUME NEW x \in ToSet(k'.wait[Sem]), NEW y \in ToSet(k'.wait[Sem]),
                          <<x, y>> \in R
                   PROVE  <<x, y>> \in Service(arrived', k.prio)
        OBVIOUS
      <4>1. x # h /\ y # h BY <3>3
      <4>2. Before(arrived, x, y) => Before(arrived', x, y)
        BY <1>1, <3>1, <4>1, BeforeRemove
      <4> QED BY <4>2 DEF Service, R
    <3> QED BY <3>2, <3>3, <3>4, OrderedInto
  <2>4. ASSUME NEW t \in Thread, Queues(t)
        PROVE  OrderedBy(k'.wait[Sem], Service(arrived', k.prio))
    <3>1. PICK c : c = [k EXCEPT !.error[t] = "RT_EOK"] OBVIOUS
    <3>2. /\ k.stat[t] = "ready" /\ arrived' = Append(arrived, t)
          /\ k'.wait[Sem] = IpcListSuspend(c, Sem, t, Flag).wait[Sem]
      BY <2>4, <3>1 DEF Queues
    <3>3. k \in KernelState /\ KernelOK(k) /\ Sem \in Queue /\ "RT_EOK" \in Error
      BY ListTypes DEF Error
    <3>4. c \in KernelState /\ KernelOK(c) /\ c.stat = k.stat /\ c.prio = k.prio
          /\ c.wait = k.wait
      BY <3>1, <3>3, SetErrorProperties
    <3>5. c \in KernelState /\ KernelOK(c) /\ c.stat[t] = "ready" BY <3>2, <3>4
    <3>6. Flag \in {"RT_IPC_FLAG_FIFO", "RT_IPC_FLAG_PRIO"} BY SemaphoreAssumption
    <3>7. PICK S : S = Service(arrived', k.prio) OBVIOUS
    <3>8. /\ \A x, y : Before(arrived, x, y) => Before(arrived', x, y)
          /\ \A x \in ToSet(arrived) : Before(arrived', x, t)
      BY <1>1, <3>2, BeforeAppend
    <3>9. \A u \in Thread : k.prio[u] \in Nat BY <3>3 DEF KernelState, Priority
    <3>10. OrderedBy(c.wait[Sem], S)
      <4>1. \A x, y \in ToSet(w) : <<x, y>> \in R => <<x, y>> \in S
        BY <3>7, <3>8 DEF Service
      <4> HIDE DEF w, R
      <4>2. OrderedBy(w, S) BY <1>1, <1>2, <4>1, OrderedInto
      <4> QED BY <3>4, <4>2 DEF w
    <3>11. \A u \in ToSet(c.wait[Sem]) :
             /\ Flag = "RT_IPC_FLAG_FIFO" \/ c.prio[u] <= c.prio[t] => <<u, t>> \in S
             /\ Flag = "RT_IPC_FLAG_PRIO" /\ c.prio[t] < c.prio[u] => <<t, u>> \in S
      <4> SUFFICES ASSUME NEW u \in ToSet(w)
                   PROVE  /\ Flag = "RT_IPC_FLAG_FIFO" \/ k.prio[u] <= k.prio[t]
                                => <<u, t>> \in S
                          /\ Flag = "RT_IPC_FLAG_PRIO" /\ k.prio[t] < k.prio[u]
                                => <<t, u>> \in S
        BY <3>4
      <4>1. u \in Thread /\ u \in ToSet(arrived) BY <1>1
      <4>2. Before(arrived', u, t) BY <3>8, <4>1
      <4>3. k.prio[u] \in Nat /\ k.prio[t] \in Nat BY <3>9, <4>1
      <4>4. <<u, t>> \in Thread \X Thread /\ <<t, u>> \in Thread \X Thread BY <4>1
      <4>5. <<u, t>> \in S <=> \/ Flag = "RT_IPC_FLAG_PRIO" /\ k.prio[u] < k.prio[t]
                               \/ /\ Flag = "RT_IPC_FLAG_PRIO" => k.prio[u] = k.prio[t]
                                  /\ Before(arrived', u, t)
        BY <3>7, <4>4 DEF Service
      <4>6. Flag = "RT_IPC_FLAG_PRIO" /\ k.prio[t] < k.prio[u] => <<t, u>> \in S
        BY <3>7, <4>4 DEF Service
      <4>7. ASSUME Flag = "RT_IPC_FLAG_FIFO" \/ k.prio[u] <= k.prio[t] PROVE <<u, t>> \in S
        <5>1. CASE Flag = "RT_IPC_FLAG_FIFO" BY <4>2, <4>5, <5>1
        <5>2. CASE k.prio[u] <= k.prio[t]
          <6>1. k.prio[u] < k.prio[t] \/ k.prio[u] = k.prio[t] BY <4>3, <5>2
          <6> QED BY <3>6, <4>2, <4>5, <5>1, <6>1
        <5> QED BY <4>7, <5>1, <5>2
      <4> QED BY <4>6, <4>7
    <3>12. Flag = "RT_IPC_FLAG_PRIO" =>
             OrderedBy(c.wait[Sem], {p \in Thread \X Thread : c.prio[p[1]] <= c.prio[p[2]]})
      <4> DEFINE L == {p \in Thread \X Thread : c.prio[p[1]] <= c.prio[p[2]]}
      <4> SUFFICES ASSUME Flag = "RT_IPC_FLAG_PRIO" PROVE OrderedBy(w, L)
        BY <3>4
      <4>1. \A x, y \in ToSet(w) : <<x, y>> \in R => <<x, y>> \in L
        BY <1>1, <3>4, <3>9 DEF Service
      <4> HIDE DEF w, R, L
      <4> QED BY <1>1, <1>2, <4>1, OrderedInto
    <3>13. OrderedBy(IpcListSuspend(c, Sem, t, Flag).wait[Sem], S)
      BY ONLY <3>3, <3>5, <3>6, <3>10, <3>11, <3>12, t \in Thread, IpcListSuspendOrdered
    <3> QED BY <3>2, <3>7, <3>13
  <2> QED
    BY <2>2, <2>3, <2>4 DEF Facts, Served, Nothing, Taken, Counted, SetAnew, Woken, GivesUp,
                            Collects
<1> QED BY <1>4, <1>5

\* The list is served as the flag asks: by priority and then in order of
\* arrival, or in order of arrival alone.  rt_thread_control does not sort the
\* list again, so a list by priority is in order only as long as no thread's
\* priority is changed.
THEOREM ListIsServedInOrder ==
  ASSUME "wait_locked" \notin Ops, Flag = "RT_IPC_FLAG_FIFO" \/ "priority" \notin Ops
  PROVE  Spec => []ServiceOrder
<1>1. Init => InService
  <2> SUFFICES ASSUME Init PROVE InService OBVIOUS
  <2>1. Len(k.wait[Sem]) = 0 BY SemaphoreAssumption DEF Init, SystemInit, SchedulerInit
  <2> QED BY <2>1 DEF InService, OrderedBy
<1>2. JInv /\ InService /\ [Next]_vars => InService'
  BY NextFacts, InServiceKept DEF JInv
<1>3. JInv /\ InService => ServiceOrder BY InServiceMeans DEF JInv
<1> QED BY <1>1, <1>2, <1>3, BooksInvariance, PTL DEF Spec
=============================================================================
