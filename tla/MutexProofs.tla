---------------------------- MODULE MutexProofs ----------------------------
(***************************************************************************)
(* The mutexes of module Mutex keep their promises for any number of       *)
(* threads, priorities and mutexes, either flag, any depth of recursion,   *)
(* with detach, foreign releases and time-outs; and a single mutex with    *)
(* RT_IPC_FLAG_PRIO passes priorities on and takes them back.              *)
(***************************************************************************)
EXTENDS Mutex, KernelProofs

\* The places where a thread is about to call rt_schedule to block.
Blocking == {"take_sched", "sleep_sched"}

\* The places outside the calls that are about a mutex.
NoCall == {"run", "sched", "sleep_sched", "sleep_return"}

\* Only threads inside a take of m wait for m, ...
WaitersTake ==
    \A m \in Mutexes : \A t \in Thread : t \in ToSet(k.wait[m]) => t \in Taking(m)

\* ... and each of them waits with its error cleared, was made the owner, or was
\* woken with an error, whether or not m has been detached since.
TakersAccounted ==
    \A m \in Mutexes : \A t \in Thread : t \in Taking(m) =>
        \/ t \in ToSet(k.wait[m]) /\ owner[m] # t /\ k.error[t] = "RT_EOK"
        \/ k.stat[t] = "ready" /\ (k.error[t] = "RT_EOK" <=> owner[m] = t)

\* Nobody believes to hold a mutex that is detached, or is about to get it.
DeadUnheld ==
    \A m \in Mutexes \ alive : \A t \in Thread :
        held[m][t] = 0 /\ (t \in Taking(m) => owner[m] # t)

\* arg is the mutex of the call in progress.
ArgOK == \A t \in Thread : arg[t] = NoMutex <=> pc[t] \in NoCall

\* An owner is a thread that was started, and its priority was saved.
OwnersStarted ==
    \A m \in Mutexes : owner[m] # NoThread =>
        k.stat[owner[m]] # "none" /\ original[m] \in Priority

\* The inductive invariant, but for the types and the kernel state.
Rest ==
    /\ MutualExclusion
    /\ FreeMeansFree
    /\ WaitersTake
    /\ TakersAccounted
    /\ DeadUnheld
    /\ OwnersStarted

IInv == TypeOK /\ SystemOK(Blocking) /\ ArgOK /\ Rest

-----------------------------------------------------------------------------
(***************************************************************************)
(* What the parts of the invariant say at the places they are used.        *)
(***************************************************************************)

\* An empty list, by its members.
LEMMA EmptyWait ==
  ASSUME NEW c \in KernelState, NEW m \in Mutexes
  PROVE  /\ c.wait[m] \in Seq(Thread)
         /\ c.wait[m] = <<>> <=> ToSet(c.wait[m]) = {}
         /\ ToSet(c.wait[m]) \subseteq Thread
<1>1. c.wait[m] \in Seq(Thread) BY MutexAssumption DEF KernelState
<1> QED BY <1>1, HeadToSet

\* A thread that runs its own code is READY, and inside no take.
LEMMA CallerFacts ==
  ASSUME IInv, NEW t \in Thread, k.current = t, pc[t] \notin Blocking
  PROVE  /\ k.stat[t] = "ready"
         /\ \A m \in Mutexes : t \notin ToSet(k.wait[m])
         /\ pc[t] \in NoCall => \A m \in Mutexes : t \notin Taking(m)
<1>1. k.stat[t] = "ready" BY DEF IInv, SystemOK
<1>2. \A m \in Mutexes : t \notin ToSet(k.wait[m])
  BY <1>1, MutexAssumption DEF IInv, SystemOK
<1> QED BY <1>1, <1>2 DEF Taking, NoCall

\* A step that changes no mutex, no list of waiters and no thread inside a take.
LEMMA Untouched ==
  ASSUME IInv, TypeOK', SystemOK(Blocking)', ArgOK',
         owner' = owner, hold' = hold, value' = value, original' = original,
         alive' = alive, held' = held,
         \A m \in Mutexes : k'.wait[m] = k.wait[m],
         \A m \in Mutexes : \A u \in Thread : u \in Taking(m)' <=> u \in Taking(m),
         \A m \in Mutexes : \A u \in Thread : u \in Taking(m) =>
            k'.stat[u] = k.stat[u] /\ k'.error[u] = k.error[u],
         \A u \in Thread : k.stat[u] # "none" => k'.stat[u] # "none"
  PROVE  IInv'
<1> USE DEF IInv, Rest
<1>1. MutualExclusion' BY DEF MutualExclusion, TypeOK
<1>2. FreeMeansFree' BY DEF FreeMeansFree, TypeOK
<1>3. WaitersTake' BY DEF WaitersTake
<1>4. TakersAccounted' BY DEF TakersAccounted
<1>5. DeadUnheld' BY DEF DeadUnheld
<1>6. OwnersStarted' BY DEF OwnersStarted, TypeOK
<1> QED BY <1>1, <1>2, <1>3, <1>4, <1>5, <1>6

\* A step that wakes thread w with an error: a time-out, or a detach.
LEMMA WokenWithError ==
  ASSUME IInv, TypeOK', SystemOK(Blocking)', ArgOK',
         owner' = owner, hold' = hold, value' = value, original' = original,
         alive' = alive, held' = held,
         NEW w \in Thread, k.stat[w] = "suspend",
         k'.stat = [k.stat EXCEPT ![w] = "ready"],
         k'.error[w] # "RT_EOK",
         \A u \in Thread \ {w} : k'.error[u] = k.error[u],
         \A m \in Mutexes : ToSet(k'.wait[m]) = ToSet(k.wait[m]) \ {w},
         \A m \in Mutexes : \A u \in Thread : u \in Taking(m)' <=> u \in Taking(m)
  PROVE  IInv'
<1> USE DEF IInv, Rest
<1>0. k \in KernelState /\ k' \in KernelState BY DEF TypeOK
<1>1. \A u \in Thread : k'.stat[u] = IF u = w THEN "ready" ELSE k.stat[u]
  BY <1>0 DEF KernelState
<1>2. MutualExclusion' BY DEF MutualExclusion, TypeOK
<1>3. FreeMeansFree'
  <2>1. ASSUME NEW m \in alive, k.wait[m] = <<>> PROVE k'.wait[m] = <<>>
    <3>1. m \in Mutexes BY DEF TypeOK
    <3>2. ToSet(k.wait[m]) = {} BY <1>0, <2>1, <3>1, EmptyWait
    <3>3. ToSet(k'.wait[m]) = {} BY <3>1, <3>2
    <3> QED BY <1>0, <3>1, <3>3, EmptyWait
  <2> QED BY <2>1 DEF FreeMeansFree, TypeOK
<1>4. WaitersTake' BY DEF WaitersTake
<1>5. TakersAccounted'
  <2> SUFFICES ASSUME NEW m \in Mutexes, NEW u \in Thread, u \in Taking(m)
               PROVE  \/ u \in ToSet(k'.wait[m]) /\ owner[m] # u /\ k'.error[u] = "RT_EOK"
                      \/ k'.stat[u] = "ready" /\ (k'.error[u] = "RT_EOK" <=> owner[m] = u)
    BY DEF TakersAccounted
  <2>1. \/ u \in ToSet(k.wait[m]) /\ owner[m] # u /\ k.error[u] = "RT_EOK"
        \/ k.stat[u] = "ready" /\ (k.error[u] = "RT_EOK" <=> owner[m] = u)
    BY DEF TakersAccounted
  <2> QED BY <1>1, <2>1
<1>6. DeadUnheld' BY DEF DeadUnheld
<1>7. OwnersStarted'
  <2>1. \A u \in Thread : k.stat[u] # "none" => k'.stat[u] # "none" BY <1>1
  <2> QED BY <2>1 DEF OwnersStarted, TypeOK
<1> QED BY <1>2, <1>3, <1>4, <1>5, <1>6, <1>7

\* A step that leaves the mutexes alone keeps their types.
LEMMA TypeKept ==
  ASSUME IInv, SystemOK(Blocking)', irq' = irq, pc' \in [Thread -> Pc],
         arg' \in [Thread -> Mutexes \cup {NoMutex}], fault' \in BOOLEAN,
         owner' = owner, hold' = hold, value' = value, original' = original,
         alive' = alive, held' = held
  PROVE  TypeOK'
BY DEF IInv, TypeOK, SystemOK

-----------------------------------------------------------------------------
(***************************************************************************)
(* The steps that are not about a mutex.                                   *)
(***************************************************************************)
LEMMA BootKeeps ==
  ASSUME IInv, Start \/ \E t \in Thread : Boot(t)
  PROVE  IInv'
<1> USE DEF IInv
<1>1. StartStep \/ \E t \in Thread : BootStep(t) BY DEF Start, Boot
<1>2. "run" \notin Blocking BY DEF Blocking
<1>3. /\ SystemOK(Blocking)'
      /\ k'.wait = k.wait /\ pc' = pc /\ irq' = irq
      /\ \A u \in Thread : pc[u] = "run"
      /\ \A u \in Thread : k.stat[u] # "none" => k'.stat[u] = k.stat[u]
  BY <1>1, <1>2, BootEffect
<1>4. UNCHANGED <<mutexVars, arg, alive, fault, held>> BY DEF Start, Boot
<1>5. TypeOK' BY <1>3, <1>4, TypeKept DEF mutexVars, TypeOK
<1>6. ArgOK' BY <1>3, <1>4 DEF ArgOK
<1>7. \A m \in Mutexes : \A u \in Thread : u \notin Taking(m) /\ u \notin Taking(m)'
  BY <1>3, <1>4 DEF Taking
<1> QED BY <1>3, <1>4, <1>5, <1>6, <1>7, Untouched DEF mutexVars

\* A step of thread t that leaves the mutexes and the lists alone, and is not
\* the end of a take.
LEMMA OwnStep ==
  ASSUME IInv, SystemOK(Blocking)', NEW t \in Thread, irq' = irq,
         UNCHANGED <<mutexVars, alive, held>>, fault' \in BOOLEAN,
         arg' \in [Thread -> Mutexes \cup {NoMutex}],
         \A u \in Thread \ {t} : arg'[u] = arg[u],
         NEW to \in Pc, pc' = [pc EXCEPT ![t] = to],
         arg'[t] = NoMutex <=> to \in NoCall,
         k'.wait = k.wait,
         \A u \in Thread \ {t} : k'.stat[u] = k.stat[u] /\ k'.error[u] = k.error[u],
         k.stat[t] # "none" => k'.stat[t] # "none",
         \/ /\ pc[t] \notin {"take_sched", "take_return"}
            /\ to \notin {"take_sched", "take_return"}
         \/ /\ pc[t] = "take_sched" /\ to = "take_return" /\ arg'[t] = arg[t]
            /\ k'.stat[t] = k.stat[t] /\ k'.error[t] = k.error[t]
  PROVE  IInv'
<1> USE DEF IInv
<1>1. pc \in [Thread -> Pc] BY DEF TypeOK
<1>2. \A u \in Thread : pc'[u] = IF u = t THEN to ELSE pc[u] BY <1>1
<1>3. pc' \in [Thread -> Pc] BY <1>1
<1>4. TypeOK' BY <1>3, TypeKept DEF mutexVars
<1>5. ArgOK' BY <1>2 DEF ArgOK
<1>6. \A m \in Mutexes : \A u \in Thread : u \in Taking(m)' <=> u \in Taking(m)
  BY <1>2 DEF Taking
<1>7. \A m \in Mutexes : \A u \in Thread : u \in Taking(m) =>
         k'.stat[u] = k.stat[u] /\ k'.error[u] = k.error[u]
  BY DEF Taking
<1>8. \A u \in Thread : k.stat[u] # "none" => k'.stat[u] # "none" OBVIOUS
<1> QED BY <1>4, <1>5, <1>6, <1>7, <1>8, Untouched DEF mutexVars

LEMMA StutterKeeps ==
  ASSUME IInv, UNCHANGED vars
  PROVE  IInv'
<1> USE DEF IInv
<1>0. UNCHANGED <<k, irq, pc, value, owner, hold, original, arg, alive, fault, held>>
  BY DEF vars
<1>1. SystemOK(Blocking)' BY <1>0 DEF SystemOK
<1>2. TypeOK' BY <1>0, <1>1, TypeKept DEF TypeOK
<1>3. ArgOK' BY <1>0 DEF ArgOK
<1>4. \A m \in Mutexes : \A u \in Thread : u \in Taking(m)' <=> u \in Taking(m)
  BY <1>0 DEF Taking
<1> QED BY <1>0, <1>1, <1>2, <1>3, <1>4, Untouched

LEMMA ScheduleKeeps ==
  ASSUME IInv, NEW t \in Thread, SleepSchedule(t) \/ TakeSchedule(t) \/ ReleaseSchedule(t)
  PROVE  IInv'
<1> USE DEF IInv
<1>1. /\ k.current = t /\ k' = Schedule(k) /\ irq' = irq
      /\ UNCHANGED <<mutexVars, arg, alive, fault, held>>
  BY DEF SleepSchedule, TakeSchedule, ReleaseSchedule, ScheduleStep, Running
<1>2. /\ SystemOK(Blocking)'
      /\ k'.stat = k.stat /\ k'.wait = k.wait /\ k'.error = k.error
  BY <1>1, ScheduleEffect
<1>3. k.stat[t] # "none" => k'.stat[t] # "none" BY <1>2
<1>4. arg' \in [Thread -> Mutexes \cup {NoMutex}] /\ fault' \in BOOLEAN /\ arg' = arg
  BY <1>1 DEF TypeOK
<1>5. UNCHANGED <<mutexVars, alive, held>> BY <1>1
<1>6. arg[t] = NoMutex <=> pc[t] \in NoCall BY DEF ArgOK
<1>7. CASE SleepSchedule(t)
  <2>1. pc[t] = "sleep_sched" /\ pc' = [pc EXCEPT ![t] = "sleep_return"]
    BY <1>7 DEF SleepSchedule, ScheduleStep, Goto
  <2>2. "sleep_return" \in Pc /\ "sleep_return" \in NoCall BY DEF Pc, NoCall
  <2>3. pc[t] \in NoCall BY <2>1 DEF NoCall
  <2> QED BY <1>1, <1>2, <1>3, <1>4, <1>5, <1>6, <2>1, <2>2, <2>3, OwnStep
<1>8. CASE ReleaseSchedule(t)
  <2>1. pc[t] = "sched" /\ pc' = [pc EXCEPT ![t] = "run"]
    BY <1>8 DEF ReleaseSchedule, ScheduleStep, Goto
  <2>2. "run" \in Pc /\ "run" \in NoCall BY DEF Pc, NoCall
  <2>3. pc[t] \in NoCall BY <2>1 DEF NoCall
  <2> QED BY <1>1, <1>2, <1>3, <1>4, <1>5, <1>6, <2>1, <2>2, <2>3, OwnStep
<1>9. CASE TakeSchedule(t)
  <2>1. pc[t] = "take_sched" /\ pc' = [pc EXCEPT ![t] = "take_return"]
    BY <1>9 DEF TakeSchedule, ScheduleStep, Goto
  <2>2. "take_return" \in Pc /\ "take_return" \notin NoCall BY DEF Pc, NoCall
  <2>3. pc[t] \notin NoCall BY <2>1 DEF NoCall
  <2> QED BY <1>1, <1>2, <1>3, <1>4, <1>5, <1>6, <2>1, <2>2, <2>3, OwnStep
<1> QED BY <1>7, <1>8, <1>9

LEMMA SleepKeeps ==
  ASSUME IInv, NEW t \in Thread, Sleep(t) \/ SleepReturn(t)
  PROVE  IInv'
<1> USE DEF IInv
<1>1. UNCHANGED <<mutexVars, arg, alive, fault, held>> BY DEF Sleep, SleepReturn
<1>2. irq' = irq BY DEF Sleep, SleepReturn, SleepStep, SleepReturnStep
<1>4. arg' \in [Thread -> Mutexes \cup {NoMutex}] /\ fault' \in BOOLEAN /\ arg' = arg
  BY <1>1 DEF TypeOK
<1>5. UNCHANGED <<mutexVars, alive, held>> BY <1>1
<1>6. arg[t] = NoMutex <=> pc[t] \in NoCall BY DEF ArgOK
<1>7. pc \in [Thread -> Pc] /\ k \in KernelState BY DEF TypeOK
<1>8. CASE Sleep(t)
  <2>1. pc[t] = "run" /\ pc' = [pc EXCEPT ![t] = "sleep_sched"]
    BY <1>8 DEF Sleep, SleepStep, Goto
  <2>2. "sleep_sched" \in Pc /\ "sleep_sched" \in NoCall /\ pc[t] \in NoCall
    BY <2>1 DEF Pc, NoCall
  <2>3. SleepStep(t) /\ "sleep_sched" \in Blocking /\ "run" \notin Blocking
    BY <1>8 DEF Sleep, Blocking
  <2>4. /\ SystemOK(Blocking)'
        /\ k'.stat = [k.stat EXCEPT ![t] = "suspend"]
        /\ k'.wait = k.wait /\ k'.error = k.error
    BY <1>7, <2>3, SleepEffect
  <2>5. \A u \in Thread : k'.stat[u] = IF u = t THEN "suspend" ELSE k.stat[u]
    BY <1>7, <2>4 DEF KernelState
  <2> QED BY <1>2, <1>4, <1>5, <1>6, <2>1, <2>2, <2>4, <2>5, OwnStep
<1>9. CASE SleepReturn(t)
  <2>1. pc[t] = "sleep_return" /\ pc' = [pc EXCEPT ![t] = "run"]
    BY <1>9 DEF SleepReturn, SleepReturnStep, Goto
  <2>2. "run" \in Pc /\ "run" \in NoCall /\ pc[t] \in NoCall
    BY <2>1 DEF Pc, NoCall
  <2>3. SleepReturnStep(t) /\ {"sleep_return", "run"} \cap Blocking = {}
    BY <1>9 DEF SleepReturn, Blocking
  <2>4. /\ SystemOK(Blocking)'
        /\ k'.stat = k.stat
        /\ k'.wait = k.wait /\ \A u \in Thread \ {t} : k'.error[u] = k.error[u]
    BY <1>7, <2>3, SleepReturnEffect
  <2> QED BY <1>2, <1>4, <1>5, <1>6, <2>1, <2>2, <2>4, OwnStep
<1> QED BY <1>8, <1>9

\* A call that is refused: a take of zero ticks, a release by a stranger.
LEMMA RefusedKeeps ==
  ASSUME IInv, NEW t \in Thread, NEW m \in Mutexes, TakeFail(t, m) \/ ReleaseForeign(t, m)
  PROVE  IInv'
<1> USE DEF IInv
<1>1. /\ UNCHANGED <<mutexVars, arg, alive, fault, held>> /\ irq' = irq
      /\ k.current = t /\ pc[t] = "run" /\ pc' = [pc EXCEPT ![t] = "run"]
  BY DEF TakeFail, ReleaseForeign, CallMutex, Running, Goto
<1>2. PICK e \in Error : k' = [k EXCEPT !.error[t] = e]
  BY DEF TakeFail, ReleaseForeign, Error
<1>3. k \in KernelState /\ KernelOK(k) BY DEF SystemOK
<1>4. arg' \in [Thread -> Mutexes \cup {NoMutex}] /\ fault' \in BOOLEAN /\ arg' = arg
  BY <1>1 DEF TypeOK
<1>5. UNCHANGED <<mutexVars, alive, held>> BY <1>1
<1>6. arg[t] = NoMutex <=> pc[t] \in NoCall BY DEF ArgOK
<1>7. "run" \in Pc /\ "run" \in NoCall /\ "run" \notin Blocking BY DEF Pc, NoCall, Blocking
<1>8. /\ k' \in KernelState /\ KernelOK(k') /\ k'.nest = k.nest
      /\ k'.stat = k.stat /\ k'.wait = k.wait /\ k'.current = k.current
      /\ k'.error = [k.error EXCEPT ![t] = e]
  BY <1>2, <1>3, SetErrorProperties
<1>9. SystemOK(Blocking)' BY <1>1, <1>7, <1>8, SystemQuiet
<1>10. \A u \in Thread \ {t} : k'.error[u] = k.error[u] BY <1>3, <1>8 DEF KernelState
<1> QED BY <1>1, <1>4, <1>5, <1>6, <1>7, <1>8, <1>9, <1>10, OwnStep

\* rt_ipc_list_resume_all tests the list.
LEMMA DetachTestKeeps ==
  ASSUME IInv, NEW t \in Thread, DetachTest(t)
  PROVE  IInv'
<1> USE DEF IInv
<1>1. /\ UNCHANGED <<k, irq, mutexVars, alive, fault, held>>
      /\ k.current = t /\ pc[t] = "detach_test"
  BY DEF DetachTest, Running, Goto
<1>2. PICK to \in {"run", "detach_body"} :
         /\ pc' = [pc EXCEPT ![t] = to]
         /\ arg' = [arg EXCEPT ![t] = IF to = "run" THEN NoMutex ELSE arg[t]]
  BY DEF DetachTest, Goto
<1>3. /\ arg \in [Thread -> Mutexes \cup {NoMutex}] /\ pc \in [Thread -> Pc]
      /\ fault' \in BOOLEAN
  BY <1>1 DEF TypeOK
<1>4. arg[t] # NoMutex BY <1>1 DEF ArgOK, NoCall
<1>5. /\ arg' \in [Thread -> Mutexes \cup {NoMutex}]
      /\ \A u \in Thread \ {t} : arg'[u] = arg[u]
      /\ arg'[t] = NoMutex <=> to \in NoCall
  BY <1>2, <1>3, <1>4 DEF NoCall
<1>6. to \in Pc /\ to \notin {"take_sched", "take_return"} BY DEF Pc
<1>7. SystemOK(Blocking)'
  BY <1>1, <1>2, <1>3, SystemQuiet DEF SystemOK, Blocking
<1> QED BY <1>1, <1>2, <1>3, <1>5, <1>6, <1>7, OwnStep

\* ... and finds it emptied before it wakes the first thread (fault).
LEMMA DetachFaultKeeps ==
  ASSUME IInv, NEW t \in Thread, DetachBody(t), k.wait[arg[t]] = <<>>
  PROVE  IInv'
<1> USE DEF IInv
<1>1. /\ UNCHANGED <<k, irq, mutexVars, alive, arg, held>> /\ fault' = TRUE
      /\ k.current = t /\ pc[t] = "detach_body" /\ pc' = [pc EXCEPT ![t] = "detach_test"]
  BY DEF DetachBody, Running, Goto
<1>2. arg \in [Thread -> Mutexes \cup {NoMutex}] /\ pc \in [Thread -> Pc] BY DEF TypeOK
<1>3. arg'[t] = NoMutex <=> "detach_test" \in NoCall BY <1>1 DEF ArgOK, NoCall
<1>4. "detach_test" \in Pc /\ "detach_test" \notin {"take_sched", "take_return"} BY DEF Pc
<1>5. SystemOK(Blocking)'
  BY <1>1, <1>2, SystemQuiet DEF SystemOK, Blocking
<1> QED BY <1>1, <1>2, <1>3, <1>4, <1>5, OwnStep

LEMMA YieldKeeps ==
  ASSUME IInv, TickYield
  PROVE  IInv'
<1> USE DEF IInv
<1>1. /\ SystemOK(Blocking)' /\ pc' = pc /\ irq' = irq
      /\ k'.stat = k.stat /\ k'.wait = k.wait /\ k'.error = k.error
  BY YieldEffect DEF TickYield
<1>2. UNCHANGED <<mutexVars, arg, alive, fault, held>> BY DEF TickYield
<1>3. TypeOK' BY <1>1, <1>2, TypeKept DEF TypeOK, mutexVars
<1>4. ArgOK' BY <1>1, <1>2 DEF ArgOK
<1>5. \A m \in Mutexes : \A u \in Thread : u \in Taking(m)' <=> u \in Taking(m)
  BY <1>1, <1>2 DEF Taking
<1> QED BY <1>1, <1>2, <1>3, <1>4, <1>5, Untouched DEF mutexVars

LEMMA TimeoutKeeps ==
  ASSUME IInv, NEW w \in Thread, TickTimeout(w)
  PROVE  IInv'
<1> USE DEF IInv
<1>1. TimeoutStep(w) BY DEF TickTimeout
<1>2. /\ SystemOK(Blocking)' /\ pc' = pc /\ irq' = irq /\ k.stat[w] = "suspend"
      /\ k'.stat = [k.stat EXCEPT ![w] = "ready"]
      /\ k'.error = [k.error EXCEPT ![w] = "RT_ETIMEOUT"]
      /\ \A q \in Queue : ToSet(k'.wait[q]) = ToSet(k.wait[q]) \ {w}
  BY <1>1, TimeoutEffect
<1>3. UNCHANGED <<mutexVars, arg, alive, fault, held>> BY DEF TickTimeout
<1>4. TypeOK' BY <1>2, <1>3, TypeKept DEF TypeOK, mutexVars
<1>5. ArgOK' BY <1>2, <1>3 DEF ArgOK
<1>6. \A m \in Mutexes : \A u \in Thread : u \in Taking(m)' <=> u \in Taking(m)
  BY <1>2, <1>3 DEF Taking
<1>7. k.error \in [Thread -> Error] BY DEF TypeOK, KernelState
<1>8. k'.error[w] # "RT_EOK" /\ \A u \in Thread \ {w} : k'.error[u] = k.error[u]
  BY <1>2, <1>7
<1>9. \A m \in Mutexes : ToSet(k'.wait[m]) = ToSet(k.wait[m]) \ {w}
  BY <1>2, MutexAssumption
<1> QED BY <1>2, <1>3, <1>4, <1>5, <1>6, <1>8, <1>9, WokenWithError DEF mutexVars

\* rt_ipc_list_resume_all wakes a thread.
LEMMA DetachWakeKeeps ==
  ASSUME IInv, NEW t \in Thread, DetachBody(t), k.wait[arg[t]] # <<>>
  PROVE  IInv'
<1> USE DEF IInv
<1> DEFINE m == arg[t]
           w == Head(k.wait[m])
<1>1. /\ UNCHANGED <<irq, mutexVars, alive, arg, held, fault>>
      /\ k.current = t /\ pc[t] = "detach_body" /\ pc' = [pc EXCEPT ![t] = "detach_test"]
      /\ k' = IpcListResumeError(k, m)
  BY DEF DetachBody, Running, Goto
<1>2. arg \in [Thread -> Mutexes \cup {NoMutex}] /\ pc \in [Thread -> Pc] BY DEF TypeOK
<1>3. m # NoMutex BY <1>1 DEF ArgOK, NoCall
<1>4. m \in Mutexes /\ m \in Queue BY <1>2, <1>3, MutexAssumption
<1> HIDE DEF m
<1>5. k.wait[m] # <<>> BY DEF m
<1>6. pc'[k.current] \notin Blocking => pc[k.current] \notin Blocking
  BY <1>1, <1>2 DEF Blocking
<1>7. /\ w \in Thread /\ w \in ToSet(k.wait[m]) /\ k.stat[w] = "suspend"
      /\ SystemOK(Blocking)'
      /\ k'.stat = [k.stat EXCEPT ![w] = "ready"]
      /\ k'.error = [k.error EXCEPT ![w] = "RT_ERROR"]
      /\ ToSet(k'.wait[m]) = ToSet(k.wait[m]) \ {w}
      /\ \A r \in Queue \ {m} : w \notin ToSet(k.wait[r]) /\ k'.wait[r] = k.wait[r]
  BY <1>1, <1>4, <1>5, <1>6, WakeEffect, ZenonT(60)
<1> HIDE DEF w
<1>8. pc' \in [Thread -> Pc] BY <1>1, <1>2 DEF Pc
<1>9. TypeOK' BY <1>1, <1>2, <1>7, <1>8, TypeKept DEF TypeOK, mutexVars
<1>10. ArgOK' BY <1>1, <1>2 DEF ArgOK, NoCall
<1>11. \A x \in Mutexes : \A u \in Thread : u \in Taking(x)' <=> u \in Taking(x)
  BY <1>1, <1>2 DEF Taking
<1>12. k.error \in [Thread -> Error] BY DEF TypeOK, KernelState
<1>13. k'.error[w] # "RT_EOK" /\ \A u \in Thread \ {w} : k'.error[u] = k.error[u]
  BY <1>7, <1>12
<1>14. \A x \in Mutexes : ToSet(k'.wait[x]) = ToSet(k.wait[x]) \ {w}
  <2> SUFFICES ASSUME NEW x \in Mutexes PROVE ToSet(k'.wait[x]) = ToSet(k.wait[x]) \ {w}
    OBVIOUS
  <2>1. x \in Queue BY MutexAssumption
  <2> QED BY <1>7, <2>1
<1> QED BY <1>1, <1>7, <1>9, <1>10, <1>11, <1>13, <1>14, WokenWithError DEF mutexVars

-----------------------------------------------------------------------------
(***************************************************************************)
(* The steps that change one mutex, m.                                     *)
(***************************************************************************)

\* The invariant for one mutex.
MutexOK(m) ==
    /\ m \in alive =>
          /\ \A t \in Thread :
                IF t = owner[m]
                THEN hold[m] = held[m][t] + (IF t \in Taking(m) THEN 1 ELSE 0)
                ELSE held[m][t] = 0
          /\ value[m] = 1 <=> owner[m] = NoThread
          /\ hold[m] = 0 <=> owner[m] = NoThread
          /\ owner[m] = NoThread => k.wait[m] = <<>>
    /\ m \notin alive => \A t \in Thread :
          held[m][t] = 0 /\ (t \in Taking(m) => owner[m] # t)
    /\ \A t \in Thread : t \in ToSet(k.wait[m]) => t \in Taking(m)
    /\ \A t \in Thread : t \in Taking(m) =>
          \/ t \in ToSet(k.wait[m]) /\ owner[m] # t /\ k.error[t] = "RT_EOK"
          \/ k.stat[t] = "ready" /\ (k.error[t] = "RT_EOK" <=> owner[m] = t)
    /\ owner[m] # NoThread => k.stat[owner[m]] # "none" /\ original[m] \in Priority

LEMMA RestByMutex ==
  ASSUME IInv, NEW m \in Mutexes
  PROVE  MutexOK(m)
BY DEF IInv, Rest, MutexOK, MutualExclusion, FreeMeansFree, WaitersTake,
   TakersAccounted, DeadUnheld, OwnersStarted

\* The other mutexes do not notice.
LEMMA OneMutex ==
  ASSUME IInv, TypeOK', SystemOK(Blocking)', ArgOK', NEW m \in Mutexes, MutexOK(m)',
         \A x \in Mutexes \ {m} :
            /\ owner'[x] = owner[x] /\ hold'[x] = hold[x] /\ value'[x] = value[x]
            /\ original'[x] = original[x] /\ held'[x] = held[x]
            /\ x \in alive' <=> x \in alive
            /\ k'.wait[x] = k.wait[x]
            /\ \A u \in Thread : u \in Taking(x)' <=> u \in Taking(x)
            /\ \A u \in Thread : u \in Taking(x) =>
                  k'.error[u] = k.error[u] /\ (k.stat[u] = "ready" => k'.stat[u] = "ready"),
         \A u \in Thread : k.stat[u] # "none" => k'.stat[u] # "none"
  PROVE  IInv'
<1> USE DEF IInv
<1>1. alive \subseteq Mutexes /\ alive' \subseteq Mutexes BY DEF TypeOK
<1>2. ASSUME NEW x \in Mutexes \ {m} PROVE MutexOK(x)'
  <2>1. MutexOK(x) BY RestByMutex
  <2>2. owner[x] \in Thread \cup {NoThread} BY DEF TypeOK
  <2> QED BY <2>1, <2>2, <1>2 DEF MutexOK
<1>3. \A x \in Mutexes : MutexOK(x)' BY <1>2
<1>4. MutualExclusion' BY <1>1, <1>3 DEF MutexOK, MutualExclusion
<1>5. FreeMeansFree' BY <1>1, <1>3 DEF MutexOK, FreeMeansFree
<1>6. WaitersTake' BY <1>3 DEF MutexOK, WaitersTake
<1>7. TakersAccounted' BY <1>3 DEF MutexOK, TakersAccounted
<1>8. DeadUnheld' BY <1>3 DEF MutexOK, DeadUnheld
<1>9. OwnersStarted' BY <1>3 DEF MutexOK, OwnersStarted
<1> QED BY <1>4, <1>5, <1>6, <1>7, <1>8, <1>9 DEF Rest

\* A recursive take, and a release that is not the last one.
LEMMA HoldKeeps ==
  ASSUME IInv, NEW t \in Thread, NEW m \in Mutexes, TakeAgain(t, m) \/ ReleaseOnce(t, m)
  PROVE  IInv'
<1> USE DEF IInv
<1>1. /\ UNCHANGED <<irq, value, owner, original, arg, alive, fault>>
      /\ k.current = t /\ pc[t] = "run" /\ pc' = [pc EXCEPT ![t] = "run"] /\ owner[m] = t
      /\ m \in alive
  BY DEF TakeAgain, ReleaseOnce, CallMutex, Running, Goto
<1>2. /\ k \in KernelState /\ KernelOK(k) /\ pc \in [Thread -> Pc]
      /\ hold \in [Mutexes -> 0 .. MaxHold] /\ held \in [Mutexes -> [Thread -> 0 .. MaxHold]]
  BY DEF TypeOK, SystemOK
<1>3. pc' = pc BY <1>1, <1>2
<1>4. t \notin Taking(m) BY <1>1 DEF Taking
<1>5. hold[m] = held[m][t] BY <1>1, <1>2, <1>4, RestByMutex DEF MutexOK
<1>6. PICK n \in 1 .. MaxHold : /\ hold' = [hold EXCEPT ![m] = n]
                               /\ held' = [held EXCEPT ![m][t] = n]
  <2>1. hold[m] \in 0 .. MaxHold /\ MaxHold \in Nat BY <1>2, MutexAssumption
  <2>2. CASE TakeAgain(t, m)
    <3>1. /\ hold' = [hold EXCEPT ![m] = hold[m] + 1] /\ hold[m] < MaxHold
          /\ held' = [held EXCEPT ![m][t] = hold[m] + 1]
      BY <1>5, <2>2 DEF TakeAgain
    <3>2. hold[m] + 1 \in 1 .. MaxHold BY <2>1, <3>1
    <3> QED BY <3>1, <3>2
  <2>3. CASE ReleaseOnce(t, m)
    <3>1. /\ hold' = [hold EXCEPT ![m] = hold[m] - 1] /\ hold[m] > 1
          /\ held' = [held EXCEPT ![m][t] = hold[m] - 1]
      BY <1>5, <2>3 DEF ReleaseOnce
    <3>2. hold[m] - 1 \in 1 .. MaxHold BY <2>1, <3>1
    <3> QED BY <3>1, <3>2
  <2> QED BY <2>2, <2>3
<1>7. /\ \A x \in Mutexes : hold'[x] = IF x = m THEN n ELSE hold[x]
      /\ \A x \in Mutexes : x # m => held'[x] = held[x]
      /\ \A u \in Thread : held'[m][u] = IF u = t THEN n ELSE held[m][u]
  BY <1>6, <1>2
<1>8. hold' \in [Mutexes -> 0 .. MaxHold] /\ held' \in [Mutexes -> [Thread -> 0 .. MaxHold]]
  BY <1>6, <1>2
<1>9. /\ k' \in KernelState /\ KernelOK(k') /\ k'.nest = k.nest
      /\ k'.stat = k.stat /\ k'.wait = k.wait /\ k'.current = k.current
      /\ \A u \in Thread \ {t} : k'.error[u] = k.error[u]
  <2>1. CASE TakeAgain(t, m)
    <3>1. k' = [k EXCEPT !.error[t] = "RT_EOK"] BY <2>1 DEF TakeAgain, ErrorReset
    <3>2. "RT_EOK" \in Error /\ k \in KernelState /\ KernelOK(k) BY <1>2 DEF Error
    <3>3. /\ k' \in KernelState /\ KernelOK(k') /\ k'.nest = k.nest
          /\ k'.stat = k.stat /\ k'.wait = k.wait /\ k'.current = k.current
          /\ k'.error = [k.error EXCEPT ![t] = "RT_EOK"]
      BY <3>1, <3>2, SetErrorProperties
    <3>4. \A u \in Thread \ {t} : k'.error[u] = k.error[u] BY <1>2, <3>3 DEF KernelState
    <3> QED BY <3>3, <3>4
  <2>2. CASE ReleaseOnce(t, m) BY <1>2, <2>2 DEF ReleaseOnce
  <2> QED BY <2>1, <2>2
<1>10. SystemOK(Blocking)' BY <1>1, <1>3, <1>9, SystemQuiet
<1>11. TypeOK' BY <1>1, <1>3, <1>8, <1>9, <1>10 DEF TypeOK, SystemOK
<1>12. ArgOK' BY <1>1, <1>3 DEF ArgOK
<1>13. \A x \in Mutexes : \A u \in Thread : u \in Taking(x)' <=> u \in Taking(x)
  BY <1>1, <1>3 DEF Taking
<1>14. \A x \in Mutexes : t \notin Taking(x) BY <1>1 DEF Taking
<1>15. MutexOK(m)'
  <2>1. MutexOK(m) BY RestByMutex
  <2>2. m \in alive' /\ owner'[m] = t /\ t # NoThread /\ value'[m] # 1
    BY <1>1, <2>1, KernelAssumption DEF MutexOK
  <2>3. hold'[m] = held'[m][t] /\ hold'[m] # 0 BY <1>7
  <2>4. \A u \in Thread : u # t => held'[m][u] = 0 BY <1>1, <1>7, <2>1 DEF MutexOK
  <2>5. hold'[m] = held'[m][t] + 0 BY <2>3, <1>8
  <2> QED BY <1>1, <1>9, <1>13, <1>14, <2>1, <2>2, <2>3, <2>4, <2>5 DEF MutexOK
<1> QED BY <1>1, <1>7, <1>9, <1>10, <1>11, <1>12, <1>13, <1>14, <1>15, OneMutex

\* A take of a free mutex.
LEMMA TakeFreeKeeps ==
  ASSUME IInv, NEW t \in Thread, NEW m \in Mutexes, TakeFree(t, m)
  PROVE  IInv'
<1> USE DEF IInv
<1>1. /\ UNCHANGED <<irq, arg, alive, fault>>
      /\ k.current = t /\ pc[t] = "run" /\ pc' = [pc EXCEPT ![t] = "run"]
      /\ m \in alive /\ value[m] > 0
      /\ value' = [value EXCEPT ![m] = value[m] - 1]
      /\ owner' = [owner EXCEPT ![m] = t]
      /\ original' = [original EXCEPT ![m] = k.prio[t]]
      /\ hold' = [hold EXCEPT ![m] = hold[m] + 1]
      /\ held' = [held EXCEPT ![m][t] = held[m][t] + 1]
      /\ k' = [k EXCEPT !.error[t] = "RT_EOK"]
  BY DEF TakeFree, CallMutex, Running, Goto, ErrorReset
<1>2. /\ k \in KernelState /\ KernelOK(k) /\ pc \in [Thread -> Pc]
      /\ value \in [Mutexes -> {0, 1}] /\ hold \in [Mutexes -> 0 .. MaxHold]
      /\ owner \in [Mutexes -> Thread \cup {NoThread}]
      /\ original \in [Mutexes -> Priority \cup {NoPriority}]
      /\ held \in [Mutexes -> [Thread -> 0 .. MaxHold]]
      /\ k.prio[t] \in Priority
  BY DEF TypeOK, SystemOK, KernelState
<1>3. pc' = pc BY <1>1, <1>2
<1>4. MutexOK(m) BY RestByMutex
<1>5. /\ value[m] = 1 /\ owner[m] = NoThread /\ hold[m] = 0 /\ k.wait[m] = <<>>
      /\ \A u \in Thread : held[m][u] = 0
  <2>1. value[m] = 1 BY <1>1, <1>2
  <2> QED BY <1>1, <1>4, <2>1, KernelAssumption DEF MutexOK
<1>6. "RT_EOK" \in Error BY DEF Error
<1>7. /\ k' \in KernelState /\ KernelOK(k') /\ k'.nest = k.nest
      /\ k'.stat = k.stat /\ k'.wait = k.wait /\ k'.current = k.current
      /\ k'.error = [k.error EXCEPT ![t] = "RT_EOK"]
  BY <1>1, <1>2, <1>6, SetErrorProperties
<1>8. \A u \in Thread \ {t} : k'.error[u] = k.error[u] BY <1>2, <1>7 DEF KernelState
<1>9. SystemOK(Blocking)' BY <1>1, <1>3, <1>7, SystemQuiet
<1>10. /\ value'[m] = 0 /\ owner'[m] = t /\ hold'[m] = 1 /\ original'[m] = k.prio[t]
       /\ \A u \in Thread : held'[m][u] = IF u = t THEN 1 ELSE 0
       /\ \A x \in Mutexes \ {m} : /\ owner'[x] = owner[x] /\ hold'[x] = hold[x]
                                   /\ value'[x] = value[x] /\ original'[x] = original[x]
                                   /\ held'[x] = held[x]
  BY <1>1, <1>2, <1>5
<1>11. MaxHold \in Nat /\ 1 \in 0 .. MaxHold BY MutexAssumption
<1>12. TypeOK'
  <2>1. value' \in [Mutexes -> {0, 1}] /\ hold' \in [Mutexes -> 0 .. MaxHold]
    BY <1>1, <1>2, <1>5, <1>11
  <2>2. /\ owner' \in [Mutexes -> Thread \cup {NoThread}]
        /\ original' \in [Mutexes -> Priority \cup {NoPriority}]
    BY <1>1, <1>2
  <2>3. held' \in [Mutexes -> [Thread -> 0 .. MaxHold]] BY <1>1, <1>2, <1>5, <1>11
  <2> QED BY <1>1, <1>3, <1>7, <1>9, <2>1, <2>2, <2>3 DEF TypeOK, SystemOK
<1>13. ArgOK' BY <1>1, <1>3 DEF ArgOK
<1>14. \A x \in Mutexes : \A u \in Thread : u \in Taking(x)' <=> u \in Taking(x)
  BY <1>1, <1>3 DEF Taking
<1>15. \A x \in Mutexes : t \notin Taking(x) BY <1>1 DEF Taking
<1>16. k.stat[t] = "ready" BY <1>1, CallerFacts DEF Blocking
<1>17. MutexOK(m)'
  <2>1. \A u \in Thread : u \notin ToSet(k.wait[m]) BY <1>2, <1>5, EmptyWait
  <2>2. \A u \in Thread : u \in Taking(m) =>
           k'.stat[u] = "ready" /\ k'.error[u] # "RT_EOK" /\ u # t
    BY <1>4, <1>5, <1>7, <1>8, <1>15, <2>1, KernelAssumption DEF MutexOK
  <2>3. t # NoThread /\ m \in alive' BY <1>1, KernelAssumption
  <2> QED BY <1>2, <1>7, <1>10, <1>14, <1>15, <1>16, <2>1, <2>2, <2>3 DEF MutexOK
<1> QED BY <1>1, <1>7, <1>8, <1>9, <1>10, <1>12, <1>13, <1>14, <1>15, <1>17, OneMutex

\* A take that has to wait, after it passed its priority on to the owner.
LEMMA TakeSuspendKeeps ==
  ASSUME IInv, NEW t \in Thread, NEW m \in Mutexes, NEW time \in Times, TakeSuspend(t, m, time)
  PROVE  /\ IInv'
         /\ owner[m] \in Thread \ {t}
         /\ k'.prio = IF k.prio[t] < k.prio[owner[m]]
                      THEN [k.prio EXCEPT ![owner[m]] = k.prio[t]] ELSE k.prio
         /\ k'.stat = [k.stat EXCEPT ![t] = "suspend"]
         /\ ToSet(k'.wait[m]) = ToSet(k.wait[m]) \cup {t}
         /\ LET s == Inherit(ErrorReset(t), t, m)
            IN  /\ s \in KernelState /\ KernelOK(s) /\ s.stat = k.stat
                /\ s.prio = k'.prio /\ s.wait = k.wait
                /\ k'.wait[m] = IpcListSuspend(s, m, t, Flag).wait[m]
<1> USE DEF IInv
<1> DEFINE c == ErrorReset(t)
           o == owner[m]
           s == Inherit(c, t, m)
           i == IpcListSuspend(s, m, t, Flag)
<1>1. /\ UNCHANGED <<irq, mutexVars, alive, fault, held>>
      /\ k.current = t /\ t # Idle /\ pc[t] = "run" /\ pc' = [pc EXCEPT ![t] = "take_sched"]
      /\ m \in alive /\ o # t /\ value[m] = 0
      /\ arg' = [arg EXCEPT ![t] = m]
      /\ k' = IF time = "timed" THEN TimerStart(i, t) ELSE i
  BY DEF TakeSuspend, CallMutex, Running, Goto
<1>2. /\ k \in KernelState /\ KernelOK(k) /\ pc \in [Thread -> Pc]
      /\ arg \in [Thread -> Mutexes \cup {NoMutex}]
      /\ owner[m] \in Thread \cup {NoThread} /\ m \in Queue
  BY MutexAssumption DEF TypeOK, SystemOK
<1>3. MutexOK(m) BY RestByMutex
<1>4. o \in Thread /\ k.stat[o] \in {"ready", "suspend"}
  <2>1. value[m] # 1 BY <1>1
  <2>2. o # NoThread BY <1>1, <1>3, <2>1 DEF MutexOK
  <2>3. o \in Thread /\ k.stat[o] # "none" BY <1>2, <1>3, <2>2 DEF MutexOK
  <2> QED BY <2>3 DEF SystemOK
<1>5. /\ k.stat[t] = "ready" /\ \A q \in Queue : t \notin ToSet(k.wait[q])
      /\ \A x \in Mutexes : t \notin Taking(x)
  <2>1. k.stat[t] = "ready" BY <1>1 DEF SystemOK, Blocking
  <2>2. \A q \in Queue : t \notin ToSet(k.wait[q]) BY <2>1 DEF SystemOK
  <2> QED BY <1>1, <2>1, <2>2 DEF Taking
<1>6. /\ c \in KernelState /\ KernelOK(c) /\ c.stat = k.stat /\ c.wait = k.wait
      /\ c.nest = k.nest /\ c.current = k.current /\ c.prio = k.prio /\ c.armed = k.armed
      /\ c.error = [k.error EXCEPT ![t] = "RT_EOK"]
  <2>1. "RT_EOK" \in Error BY DEF Error
  <2> QED BY <1>2, <2>1, SetErrorProperties DEF ErrorReset
<1> HIDE DEF c, o
<1>7. /\ s \in KernelState /\ KernelOK(s) /\ s.stat = k.stat /\ s.wait = k.wait
      /\ s.nest = k.nest /\ s.current = k.current /\ s.error = c.error
      /\ s.prio = IF k.prio[t] < k.prio[o] THEN [k.prio EXCEPT ![o] = k.prio[t]] ELSE k.prio
  <2>1. k.prio[t] \in Priority BY <1>2 DEF KernelState
  <2>2. CASE c.prio[t] < c.prio[o]
    <3>1. s = ChangePriority(c, o, k.prio[t]) BY <1>6, <2>2 DEF Inherit, o
    <3>2. /\ s \in KernelState /\ KernelOK(s) /\ s.stat = c.stat /\ s.wait = c.wait
          /\ s.nest = c.nest /\ s.current = c.current /\ s.error = c.error
          /\ s.prio = [c.prio EXCEPT ![o] = k.prio[t]]
      BY <1>4, <1>6, <2>1, <3>1, ChangePriorityProperties
    <3> HIDE DEF s
    <3> QED BY <1>6, <2>2, <3>2
  <2>3. CASE ~(c.prio[t] < c.prio[o])
    <3>1. s = c BY <2>3 DEF Inherit, o
    <3> QED BY <1>6, <2>3, <3>1
  <2> QED BY <2>2, <2>3
<1> HIDE DEF s
<1>8. Flag \in {"RT_IPC_FLAG_FIFO", "RT_IPC_FLAG_PRIO"} BY MutexAssumption
<1>9. /\ k' \in KernelState /\ KernelOK(k') /\ Frame(k', s)
      /\ k'.stat = [s.stat EXCEPT ![t] = "suspend"]
      /\ k'.wait[m] = i.wait[m]
      /\ ToSet(k'.wait[m]) = ToSet(s.wait[m]) \cup {t}
      /\ \A r \in Queue \ {m} : k'.wait[r] = s.wait[r]
  <2>1. s \in KernelState /\ m \in Queue /\ KernelOK(s) /\ s.stat[t] = "ready"
    BY <1>2, <1>5, <1>7
  <2>2. /\ i \in KernelState
        /\ KernelOK(i)
        /\ Frame(i, s) /\ i.armed = s.armed
        /\ i.stat = [s.stat EXCEPT ![t] = "suspend"]
        /\ ToSet(i.wait[m]) = ToSet(s.wait[m]) \cup {t}
        /\ \A r \in Queue \ {m} : i.wait[r] = s.wait[r]
    BY <2>1, <1>8, IpcListSuspendProperties
  <2> HIDE DEF i
  <2>3. i.stat[t] = "suspend" BY <2>1, <2>2 DEF KernelState
  <2>4. CASE time = "timed"
    <3>1. k' = TimerStart(i, t) BY <1>1, <2>4
    <3>2. /\ k' \in KernelState
          /\ KernelOK(k')
          /\ Frame(k', i) /\ k'.stat = i.stat /\ k'.wait = i.wait
      BY <2>2, <2>3, <3>1, TimerStartProperties
    <3> QED BY <2>2, <3>2 DEF Frame
  <2>5. CASE time # "timed" BY <1>1, <2>2, <2>5
  <2> QED BY <2>4, <2>5
<1>10. /\ k'.nest = k.nest /\ k'.current = k.current /\ k'.error = c.error /\ k'.prio = s.prio
       /\ k'.stat = [k.stat EXCEPT ![t] = "suspend"]
       /\ ToSet(k'.wait[m]) = ToSet(k.wait[m]) \cup {t}
       /\ \A r \in Queue \ {m} : k'.wait[r] = k.wait[r]
  BY <1>7, <1>9 DEF Frame
<1>11. SystemOK(Blocking)'
  <2>1. pc'[t] \in Blocking BY <1>1, <1>2 DEF Blocking
  <2>2. \A q \in Queue : ToSet(k'.wait[q]) \subseteq ToSet(k.wait[q]) \cup {t} BY <1>10
  <2> QED BY <1>1, <1>9, <1>10, <2>1, <2>2, SystemSuspended
<1>12. /\ \A u \in Thread : pc'[u] = IF u = t THEN "take_sched" ELSE pc[u]
       /\ \A u \in Thread : arg'[u] = IF u = t THEN m ELSE arg[u]
       /\ pc' \in [Thread -> Pc] /\ arg' \in [Thread -> Mutexes \cup {NoMutex}]
  BY <1>1, <1>2 DEF Pc
<1>13. TypeOK' BY <1>1, <1>11, <1>12, TypeKept DEF TypeOK, mutexVars
<1>14. ArgOK' BY <1>12, MutexAssumption DEF ArgOK, NoCall
<1>15. /\ \A x \in Mutexes \ {m} : \A u \in Thread : u \in Taking(x)' <=> u \in Taking(x)
       /\ \A u \in Thread : u \in Taking(m)' <=> (u \in Taking(m) \/ u = t)
  BY <1>1, <1>12 DEF Taking
<1>16. /\ \A u \in Thread \ {t} : k'.stat[u] = k.stat[u] /\ k'.error[u] = k.error[u]
       /\ k'.stat[t] = "suspend" /\ k'.error[t] = "RT_EOK"
  BY <1>2, <1>6, <1>10 DEF KernelState
<1>17. MutexOK(m)'
  <2>1. o = owner'[m] /\ o # NoThread /\ o # t /\ o \in Thread /\ o = owner[m]
    BY <1>1, <1>4, KernelAssumption DEF o, mutexVars
  <2>2. o \in Taking(m)' <=> o \in Taking(m) BY <1>15, <2>1
  <2>3. /\ owner' = owner /\ hold' = hold /\ held' = held /\ value' = value
        /\ alive' = alive /\ original' = original
    BY <1>1 DEF mutexVars
  <2>4. \A u \in Thread : u \in Taking(m)' =>
           \/ u \in ToSet(k'.wait[m]) /\ owner[m] # u /\ k'.error[u] = "RT_EOK"
           \/ k'.stat[u] = "ready" /\ (k'.error[u] = "RT_EOK" <=> owner[m] = u)
    BY <1>3, <1>10, <1>15, <1>16, <2>1 DEF MutexOK
  <2>5. \A u \in Thread : u \in ToSet(k'.wait[m]) => u \in Taking(m)'
    BY <1>3, <1>10, <1>15 DEF MutexOK
  <2>6. k'.stat[o] # "none" BY <1>4, <1>16, <2>1
  <2>7. m \in alive BY <1>1
  <2>8. /\ \A u \in Thread : IF u = owner[m]
                THEN hold[m] = held[m][u] + (IF u \in Taking(m) THEN 1 ELSE 0)
                ELSE held[m][u] = 0
        /\ value[m] = 1 <=> owner[m] = NoThread
        /\ hold[m] = 0 <=> owner[m] = NoThread
        /\ original[m] \in Priority
    BY <1>3, <2>1, <2>7 DEF MutexOK
  <2> QED BY <2>1, <2>2, <2>3, <2>4, <2>5, <2>6, <2>7, <2>8 DEF MutexOK
<1>18. IInv'
  <2>1. \A x \in Mutexes \ {m} :
            /\ owner'[x] = owner[x] /\ hold'[x] = hold[x] /\ value'[x] = value[x]
            /\ original'[x] = original[x] /\ held'[x] = held[x]
            /\ x \in alive' <=> x \in alive
            /\ k'.wait[x] = k.wait[x]
    BY <1>1, <1>10, MutexAssumption DEF mutexVars
  <2>2. \A x \in Mutexes \ {m} : \A u \in Thread : u \in Taking(x) =>
            k'.error[u] = k.error[u] /\ (k.stat[u] = "ready" => k'.stat[u] = "ready")
    BY <1>5, <1>16
  <2>3. \A u \in Thread : k.stat[u] # "none" => k'.stat[u] # "none" BY <1>16
  <2> QED BY <1>11, <1>13, <1>14, <1>15, <1>17, <2>1, <2>2, <2>3, OneMutex
<1> QED BY <1>1, <1>4, <1>7, <1>9, <1>10, <1>18 DEF o, s, c

\* A take returns to the thread that waited.
LEMMA TakeReturnKeeps ==
  ASSUME IInv, NEW t \in Thread, TakeReturn(t)
  PROVE  IInv'
<1> USE DEF IInv
<1>1. /\ UNCHANGED <<k, irq, mutexVars, alive, fault>>
      /\ k.current = t /\ pc[t] = "take_return" /\ pc' = [pc EXCEPT ![t] = "run"]
      /\ arg' = [arg EXCEPT ![t] = NoMutex]
      /\ held' = IF k.error[t] = "RT_EOK"
                 THEN [held EXCEPT ![arg[t]][t] = held[arg[t]][t] + 1] ELSE held
  BY DEF TakeReturn, Running, Goto
<1>2. /\ arg \in [Thread -> Mutexes \cup {NoMutex}] /\ pc \in [Thread -> Pc]
      /\ hold \in [Mutexes -> 0 .. MaxHold] /\ held \in [Mutexes -> [Thread -> 0 .. MaxHold]]
  BY DEF TypeOK
<1>3. arg[t] # NoMutex BY <1>1 DEF ArgOK, NoCall
<1>4. PICK m \in Mutexes : m = arg[t] /\ t \in Taking(m) BY <1>1, <1>2, <1>3 DEF Taking
<1>5. MutexOK(m) BY <1>4, RestByMutex
<1>6. k.stat[t] = "ready" /\ t \notin ToSet(k.wait[m])
  BY <1>1, <1>4, CallerFacts DEF Blocking
<1>7. k.error[t] = "RT_EOK" <=> owner[m] = t BY <1>4, <1>5, <1>6 DEF MutexOK
<1>8. owner[m] = t => m \in alive /\ hold[m] = held[m][t] + 1
  BY <1>4, <1>5 DEF MutexOK
<1>9. /\ \A x \in Mutexes \ {m} : held'[x] = held[x]
      /\ \A u \in Thread : held'[m][u] = IF u = t /\ owner[m] = t THEN hold[m] ELSE held[m][u]
  BY <1>1, <1>2, <1>4, <1>7, <1>8
<1>10. held' \in [Mutexes -> [Thread -> 0 .. MaxHold]]
  <2>1. CASE owner[m] = t
    <3>1. held[m][t] + 1 \in 0 .. MaxHold BY <1>2, <1>4, <1>8, <2>1
    <3> QED BY <1>1, <1>2, <1>4, <1>7, <2>1, <3>1
  <2>2. CASE owner[m] # t BY <1>1, <1>2, <1>7, <2>2
  <2> QED BY <2>1, <2>2
<1>11. /\ \A u \in Thread : pc'[u] = IF u = t THEN "run" ELSE pc[u]
       /\ \A u \in Thread : arg'[u] = IF u = t THEN NoMutex ELSE arg[u]
       /\ pc' \in [Thread -> Pc] /\ arg' \in [Thread -> Mutexes \cup {NoMutex}]
  BY <1>1, <1>2 DEF Pc
<1>12. SystemOK(Blocking)'
  <2>1. pc'[t] \notin Blocking => pc[t] \notin Blocking BY <1>1 DEF Blocking
  <2>2. k \in KernelState /\ KernelOK(k) BY DEF SystemOK
  <2> QED BY <1>1, <2>1, <2>2, SystemQuiet
<1>13. TypeOK' BY <1>1, <1>10, <1>11 DEF TypeOK, mutexVars
<1>14. ArgOK' BY <1>11 DEF ArgOK, NoCall
<1>15. \A x \in Mutexes \ {m} : \A u \in Thread : u \in Taking(x)' <=> u \in Taking(x)
  BY <1>1, <1>4, <1>11, MutexAssumption DEF Taking
<1>16. \A u \in Thread : u \in Taking(m)' <=> u \in Taking(m) /\ u # t
  BY <1>4, <1>11, MutexAssumption DEF Taking
<1>17. MutexOK(m)'
  <2>1. /\ owner' = owner /\ hold' = hold /\ value' = value /\ original' = original
        /\ alive' = alive /\ k' = k
    BY <1>1 DEF mutexVars
  <2>2. hold[m] \in 0 .. MaxHold /\ hold[m] = hold[m] + 0 BY <1>2, <1>4
  <2>3. m \in alive => \A u \in Thread :
           IF u = owner[m]
           THEN hold[m] = held'[m][u] + (IF u \in Taking(m)' THEN 1 ELSE 0)
           ELSE held'[m][u] = 0
    BY <1>5, <1>9, <1>16, <2>2 DEF MutexOK
  <2>4. m \notin alive => \A u \in Thread :
           held'[m][u] = 0 /\ (u \in Taking(m)' => owner[m] # u)
    BY <1>5, <1>8, <1>9, <1>16 DEF MutexOK
  <2>5. \A u \in Thread : u \in ToSet(k.wait[m]) => u \in Taking(m)'
    BY <1>5, <1>6, <1>16 DEF MutexOK
  <2> QED BY <1>5, <1>16, <2>1, <2>3, <2>4, <2>5 DEF MutexOK
<1> QED BY <1>1, <1>4, <1>9, <1>12, <1>13, <1>14, <1>15, <1>17, OneMutex DEF mutexVars

\* What the last release begins with: the owner gets its priority back.
LEMMA RestoredProperties ==
  ASSUME IInv, NEW t \in Thread, NEW m \in Mutexes, owner[m] = t
  PROVE  LET s == Restored(t, m)
         IN  /\ s \in KernelState
             /\ KernelOK(s)
             /\ s.stat = k.stat /\ s.error = k.error /\ s.wait = k.wait
             /\ s.armed = k.armed /\ s.nest = k.nest /\ s.current = k.current
             /\ s.prio = [k.prio EXCEPT ![t] = original[m]]
<1> USE DEF IInv
<1> DEFINE s == Restored(t, m)
<1>1. k \in KernelState /\ KernelOK(k) BY DEF SystemOK
<1>2. MutexOK(m) /\ t # NoThread BY RestByMutex, KernelAssumption
<1>3. k.stat[t] # "none" /\ original[m] \in Priority BY <1>2 DEF MutexOK
<1>4. k.stat[t] \in {"ready", "suspend"} BY <1>3 DEF SystemOK
<1>5. CASE original[m] # k.prio[t]
  <2>1. s = ChangePriority(k, t, original[m]) BY <1>5 DEF Restored
  <2> HIDE DEF s
  <2> QED BY <1>1, <1>3, <1>4, <2>1, ChangePriorityProperties DEF s
<1>6. CASE original[m] = k.prio[t]
  <2>1. s = k BY <1>6 DEF Restored
  <2>2. k.prio \in [Thread -> Priority] BY <1>1 DEF KernelState
  <2>3. k.prio = [k.prio EXCEPT ![t] = original[m]] BY <1>6, <2>2
  <2> HIDE DEF s
  <2> QED BY <1>1, <2>1, <2>3 DEF s
<1> QED BY <1>5, <1>6

\* The last release of a mutex that threads wait for.
LEMMA HandOverKeeps ==
  ASSUME IInv, NEW t \in Thread, NEW m \in Mutexes, ReleaseHandOver(t, m)
  PROVE  /\ IInv'
         /\ owner[m] = t
         /\ LET w == Head(k.wait[m])
                s == Restored(t, m)
            IN  /\ w \in Thread \ {t} /\ w \in ToSet(k.wait[m]) /\ k.stat[w] = "suspend"
                /\ owner' = [owner EXCEPT ![m] = w]
                /\ original' = [original EXCEPT ![m] = k.prio[w]]
                /\ k'.prio = [k.prio EXCEPT ![t] = original[m]]
                /\ k'.stat = [k.stat EXCEPT ![w] = "ready"]
                /\ k' = IpcListResume(s, m) /\ s \in KernelState /\ s.wait = k.wait
                /\ ToSet(k'.wait[m]) = ToSet(k.wait[m]) \ {w}
<1> USE DEF IInv
<1> DEFINE s == Restored(t, m)
<1>1. /\ UNCHANGED <<irq, value, hold, arg, alive, fault>>
      /\ k.current = t /\ pc[t] = "run" /\ pc' = [pc EXCEPT ![t] = "sched"]
      /\ m \in alive /\ owner[m] = t /\ hold[m] = 1 /\ k.wait[m] # <<>>
      /\ owner' = [owner EXCEPT ![m] = Head(s.wait[m])]
      /\ original' = [original EXCEPT ![m] = s.prio[Head(s.wait[m])]]
      /\ k' = IpcListResume(s, m)
      /\ held' = [held EXCEPT ![m][t] = held[m][t] - 1]
  BY DEF ReleaseHandOver, CallMutex, Running, Goto
<1>2. /\ k \in KernelState /\ KernelOK(k) /\ pc \in [Thread -> Pc] /\ m \in Queue
      /\ arg \in [Thread -> Mutexes \cup {NoMutex}]
      /\ owner \in [Mutexes -> Thread \cup {NoThread}]
      /\ original \in [Mutexes -> Priority \cup {NoPriority}]
      /\ hold \in [Mutexes -> 0 .. MaxHold] /\ held \in [Mutexes -> [Thread -> 0 .. MaxHold]]
  BY MutexAssumption DEF TypeOK, SystemOK
<1>3. /\ s \in KernelState /\ KernelOK(s)
      /\ s.stat = k.stat /\ s.error = k.error /\ s.wait = k.wait
      /\ s.armed = k.armed /\ s.nest = k.nest /\ s.current = k.current
      /\ s.prio = [k.prio EXCEPT ![t] = original[m]]
  BY <1>1, RestoredProperties
<1> HIDE DEF s
<1>4. PICK w \in Thread : w = Head(k.wait[m]) /\ w \in ToSet(k.wait[m])
  BY <1>1, <1>2, EmptyWait, HeadToSet
<1>5. MutexOK(m) BY RestByMutex
<1>6. /\ t \notin Taking(m) /\ \A x \in Mutexes : t \notin Taking(x)
      /\ w \in Taking(m) /\ k.stat[w] = "suspend" /\ w # t /\ k.error[w] = "RT_EOK"
  <2>1. \A x \in Mutexes : t \notin Taking(x) BY <1>1 DEF Taking
  <2>2. w \in Taking(m) BY <1>4, <1>5 DEF MutexOK
  <2>3. k.stat[w] = "suspend" BY <1>2, <1>4 DEF SystemOK
  <2>4. k.error[w] = "RT_EOK" BY <1>5, <2>2, <2>3 DEF MutexOK
  <2> QED BY <2>1, <2>2, <2>3, <2>4
<1>7. /\ k' \in KernelState /\ KernelOK(k')
      /\ k'.current = s.current /\ k'.nest = s.nest /\ k'.prio = s.prio
      /\ k'.stat = [s.stat EXCEPT ![w] = "ready"]
      /\ k'.error = s.error
      /\ ToSet(k'.wait[m]) = ToSet(s.wait[m]) \ {w}
      /\ \A r \in Queue \ {m} : w \notin ToSet(s.wait[r]) /\ k'.wait[r] = s.wait[r]
  <2>1. s.wait[m] # <<>> /\ Head(s.wait[m]) = w /\ s.stat[Head(s.wait[m])] = "suspend"
    BY <1>1, <1>3, <1>4, <1>6
  <2> QED BY <1>1, <1>2, <1>3, <2>1, IpcListResumeProperties, ZenonT(60)
<1>8. /\ k'.current = k.current /\ k'.nest = k.nest /\ k'.error = k.error
      /\ k'.stat = [k.stat EXCEPT ![w] = "ready"]
      /\ ToSet(k'.wait[m]) = ToSet(k.wait[m]) \ {w}
      /\ \A r \in Queue \ {m} : w \notin ToSet(k.wait[r]) /\ k'.wait[r] = k.wait[r]
  BY <1>3, <1>7
<1>9. \A u \in Thread : k'.stat[u] = IF u = w THEN "ready" ELSE k.stat[u]
  BY <1>2, <1>8 DEF KernelState
<1>10. SystemOK(Blocking)'
  <2>1. pc'[k.current] \notin Blocking => pc[k.current] \notin Blocking
    BY <1>1, <1>2 DEF Blocking
  <2>2. \A u \in Thread : k'.stat[u] = IF u \in {w} THEN "ready" ELSE k.stat[u] BY <1>9
  <2>3. \A q \in Queue : ToSet(k'.wait[q]) = ToSet(k.wait[q]) \ {w} BY <1>8
  <2>4. {w} \in SUBSET Thread OBVIOUS
  <2> QED BY <1>1, <1>7, <1>8, <2>1, <2>2, <2>3, <2>4, SystemKept
<1>11. held[m][t] = 1 /\ held[m][w] = 0
  BY <1>1, <1>2, <1>5, <1>6 DEF MutexOK
<1>12. /\ owner'[m] = w /\ original'[m] = k.prio[w] /\ original'[m] \in Priority
       /\ \A u \in Thread : held'[m][u] = 0
       /\ \A x \in Mutexes \ {m} : /\ owner'[x] = owner[x] /\ original'[x] = original[x]
                                   /\ held'[x] = held[x]
  <2>1. s.prio[w] = k.prio[w] /\ k.prio[w] \in Priority BY <1>2, <1>3, <1>6 DEF KernelState
  <2>2. Head(s.wait[m]) = w BY <1>3, <1>4
  <2>3. \A u \in Thread : held'[m][u] = IF u = t THEN 0 ELSE held[m][u]
    BY <1>1, <1>2, <1>11
  <2>4. \A u \in Thread : u # t => held[m][u] = 0 BY <1>1, <1>5 DEF MutexOK
  <2> QED BY <1>1, <1>2, <2>1, <2>2, <2>3, <2>4
<1>13. /\ \A u \in Thread : pc'[u] = IF u = t THEN "sched" ELSE pc[u]
       /\ pc' \in [Thread -> Pc] /\ arg' = arg
  BY <1>1, <1>2 DEF Pc
<1>14. TypeOK'
  <2>1. Head(s.wait[m]) = w /\ s.prio[w] \in Priority BY <1>3, <1>4 DEF KernelState
  <2>2. /\ owner' \in [Mutexes -> Thread \cup {NoThread}]
        /\ original' \in [Mutexes -> Priority \cup {NoPriority}]
    BY <1>1, <1>2, <2>1
  <2>3. held[m][t] - 1 \in 0 .. MaxHold BY <1>11, MutexAssumption
  <2>4. held' \in [Mutexes -> [Thread -> 0 .. MaxHold]] BY <1>1, <1>2, <2>3
  <2> QED BY <1>1, <1>10, <1>13, <2>2, <2>4 DEF TypeOK, SystemOK
<1>15. ArgOK' BY <1>1, <1>13 DEF ArgOK, NoCall
<1>16. \A x \in Mutexes : \A u \in Thread : u \in Taking(x)' <=> u \in Taking(x)
  BY <1>1, <1>13 DEF Taking
<1>17. MutexOK(m)'
  <2>1. w # NoThread /\ m \in alive' /\ hold'[m] = 1 /\ value'[m] = value[m] /\ t # NoThread
    BY <1>1, KernelAssumption
  <2>2. value[m] # 1 BY <1>1, <1>5, <2>1 DEF MutexOK
  <2>3. \A u \in Thread : u \in Taking(m)' =>
           \/ u \in ToSet(k'.wait[m]) /\ owner'[m] # u /\ k'.error[u] = "RT_EOK"
           \/ k'.stat[u] = "ready" /\ (k'.error[u] = "RT_EOK" <=> owner'[m] = u)
    BY <1>1, <1>5, <1>6, <1>8, <1>9, <1>12, <1>16 DEF MutexOK
  <2>4. \A u \in Thread : u \in ToSet(k'.wait[m]) => u \in Taking(m)'
    BY <1>5, <1>8, <1>16 DEF MutexOK
  <2>5. w \in Taking(m)' BY <1>6, <1>16
  <2>6. hold'[m] = held'[m][w] + 1 BY <1>12, <2>1
  <2> QED BY <1>9, <1>12, <2>1, <2>2, <2>3, <2>4, <2>5, <2>6 DEF MutexOK
<1>18. IInv'
  <2>1. \A x \in Mutexes \ {m} : k'.wait[x] = k.wait[x] BY <1>8, MutexAssumption
  <2>2. \A x \in Mutexes \ {m} : \A u \in Thread : u \in Taking(x) =>
            k'.error[u] = k.error[u] /\ (k.stat[u] = "ready" => k'.stat[u] = "ready")
    BY <1>8, <1>9
  <2>3. \A u \in Thread : k.stat[u] # "none" => k'.stat[u] # "none" BY <1>9
  <2> QED BY <1>1, <1>10, <1>12, <1>14, <1>15, <1>16, <1>17, <2>1, <2>2, <2>3, OneMutex
<1>19. /\ owner' = [owner EXCEPT ![m] = w]
       /\ original' = [original EXCEPT ![m] = k.prio[w]]
  BY <1>1, <1>3, <1>4, <1>6, <1>2 DEF KernelState
<1> QED BY <1>1, <1>3, <1>4, <1>6, <1>7, <1>8, <1>18, <1>19 DEF s

\* The last release of a mutex that nobody waits for.
LEMMA ReleaseFreeKeeps ==
  ASSUME IInv, NEW t \in Thread, NEW m \in Mutexes, ReleaseFree(t, m)
  PROVE  /\ IInv'
         /\ owner[m] = t /\ owner' = [owner EXCEPT ![m] = NoThread]
         /\ original' = [original EXCEPT ![m] = NoPriority]
         /\ k'.prio = [k.prio EXCEPT ![t] = original[m]]
         /\ k'.stat = k.stat /\ k'.wait = k.wait
<1> USE DEF IInv
<1>1. /\ UNCHANGED <<irq, arg, alive, fault>>
      /\ k.current = t /\ pc[t] = "run" /\ pc' = [pc EXCEPT ![t] = "run"]
      /\ m \in alive /\ owner[m] = t /\ hold[m] = 1 /\ k.wait[m] = <<>>
      /\ k' = Restored(t, m)
      /\ hold' = [hold EXCEPT ![m] = 0]
      /\ value' = [value EXCEPT ![m] = value[m] + 1]
      /\ owner' = [owner EXCEPT ![m] = NoThread]
      /\ original' = [original EXCEPT ![m] = NoPriority]
      /\ held' = [held EXCEPT ![m][t] = held[m][t] - 1]
  BY DEF ReleaseFree, CallMutex, Running, Goto
<1>2. /\ k \in KernelState /\ pc \in [Thread -> Pc] /\ value \in [Mutexes -> {0, 1}]
      /\ owner \in [Mutexes -> Thread \cup {NoThread}]
      /\ original \in [Mutexes -> Priority \cup {NoPriority}]
      /\ hold \in [Mutexes -> 0 .. MaxHold] /\ held \in [Mutexes -> [Thread -> 0 .. MaxHold]]
  BY DEF TypeOK
<1>3. /\ k' \in KernelState /\ KernelOK(k')
      /\ k'.stat = k.stat /\ k'.error = k.error /\ k'.wait = k.wait
      /\ k'.nest = k.nest /\ k'.current = k.current
      /\ k'.prio = [k.prio EXCEPT ![t] = original[m]]
  BY <1>1, RestoredProperties
<1>4. MutexOK(m) BY RestByMutex
<1>5. pc' = pc BY <1>1, <1>2
<1>6. \A x \in Mutexes : t \notin Taking(x) BY <1>1 DEF Taking
<1>7. value[m] = 0 /\ held[m][t] = 1 /\ t # NoThread /\ MaxHold \in Nat
  <2>1. t # NoThread /\ MaxHold \in Nat BY KernelAssumption, MutexAssumption
  <2>2. value[m] # 1 BY <1>1, <1>4, <2>1 DEF MutexOK
  <2>3. hold[m] = held[m][t] + 0 BY <1>1, <1>4, <1>6 DEF MutexOK
  <2>4. held[m][t] \in 0 .. MaxHold BY <1>2
  <2> QED BY <1>1, <1>2, <2>1, <2>2, <2>3, <2>4
<1>8. /\ owner'[m] = NoThread /\ hold'[m] = 0 /\ value'[m] = 1
      /\ \A u \in Thread : held'[m][u] = 0
      /\ \A x \in Mutexes \ {m} : /\ owner'[x] = owner[x] /\ hold'[x] = hold[x]
                                  /\ value'[x] = value[x] /\ original'[x] = original[x]
                                  /\ held'[x] = held[x]
  <2>1. \A u \in Thread : u # t => held[m][u] = 0 BY <1>1, <1>4 DEF MutexOK
  <2>2. \A u \in Thread : held'[m][u] = IF u = t THEN 0 ELSE held[m][u]
    BY <1>1, <1>2, <1>7
  <2> QED BY <1>1, <1>2, <1>7, <2>1, <2>2
<1>9. SystemOK(Blocking)' BY <1>1, <1>3, <1>5, SystemQuiet
<1>10. TypeOK'
  <2>1. held[m][t] - 1 \in 0 .. MaxHold BY <1>7
  <2>2. held' \in [Mutexes -> [Thread -> 0 .. MaxHold]] BY <1>1, <1>2, <2>1
  <2>3. /\ owner' \in [Mutexes -> Thread \cup {NoThread}]
        /\ original' \in [Mutexes -> Priority \cup {NoPriority}]
    BY <1>1, <1>2
  <2>4. value' \in [Mutexes -> {0, 1}] /\ hold' \in [Mutexes -> 0 .. MaxHold]
    BY <1>1, <1>2, <1>7
  <2> QED BY <1>1, <1>5, <1>9, <2>2, <2>3, <2>4 DEF TypeOK, SystemOK
<1>11. ArgOK' BY <1>1, <1>5 DEF ArgOK
<1>12. \A x \in Mutexes : \A u \in Thread : u \in Taking(x)' <=> u \in Taking(x)
  BY <1>1, <1>5 DEF Taking
<1>13. MutexOK(m)'
  <2>1. \A u \in Thread : u \notin ToSet(k'.wait[m]) BY <1>1, <1>2, <1>3, EmptyWait
  <2>2. \A u \in Thread : u \in Taking(m)' => k'.stat[u] = "ready" /\ k'.error[u] # "RT_EOK"
    BY <1>1, <1>3, <1>4, <1>6, <1>12, <2>1 DEF MutexOK
  <2>3. \A u \in Thread : u # NoThread BY KernelAssumption
  <2>4. k'.wait[m] = <<>> /\ m \in alive' BY <1>1, <1>3
  <2> QED BY <1>8, <2>1, <2>2, <2>3, <2>4 DEF MutexOK
<1>14. IInv' BY <1>1, <1>3, <1>8, <1>9, <1>10, <1>11, <1>12, <1>13, OneMutex
<1> QED BY <1>1, <1>3, <1>14

\* rt_mutex_detach begins: the mutex is out of use.
LEMMA DetachKeeps ==
  ASSUME IInv, NEW t \in Thread, NEW m \in Mutexes, Detach(t, m)
  PROVE  IInv'
<1> USE DEF IInv
<1>1. /\ UNCHANGED <<k, irq, mutexVars, fault>>
      /\ k.current = t /\ pc[t] = "run" /\ pc' = [pc EXCEPT ![t] = "detach_test"]
      /\ m \in alive /\ owner[m] \in {NoThread, t}
      /\ alive' = alive \ {m}
      /\ arg' = [arg EXCEPT ![t] = m]
      /\ held' = [held EXCEPT ![m][t] = 0]
  BY DEF Detach, CallMutex, Running, Goto
<1>2. /\ k \in KernelState /\ KernelOK(k) /\ pc \in [Thread -> Pc] /\ MaxHold \in Nat
      /\ arg \in [Thread -> Mutexes \cup {NoMutex}]
      /\ held \in [Mutexes -> [Thread -> 0 .. MaxHold]]
  BY MutexAssumption DEF TypeOK, SystemOK
<1>3. MutexOK(m) BY RestByMutex
<1>4. /\ \A u \in Thread : held'[m][u] = 0
      /\ \A x \in Mutexes \ {m} : held'[x] = held[x]
  <2>1. \A u \in Thread : u # t => u # owner[m] BY <1>1, KernelAssumption
  <2>2. \A u \in Thread : u # t => held[m][u] = 0 BY <1>1, <1>3, <2>1 DEF MutexOK
  <2>3. \A u \in Thread : held'[m][u] = IF u = t THEN 0 ELSE held[m][u] BY <1>1, <1>2
  <2> QED BY <1>1, <1>2, <2>2, <2>3
<1>5. /\ \A u \in Thread : pc'[u] = IF u = t THEN "detach_test" ELSE pc[u]
      /\ \A u \in Thread : arg'[u] = IF u = t THEN m ELSE arg[u]
      /\ pc' \in [Thread -> Pc] /\ arg' \in [Thread -> Mutexes \cup {NoMutex}]
  BY <1>1, <1>2 DEF Pc
<1>6. SystemOK(Blocking)'
  <2>1. pc'[t] \notin Blocking => pc[t] \notin Blocking BY <1>1 DEF Blocking
  <2> QED BY <1>1, <1>2, <2>1, SystemQuiet
<1>7. TypeOK'
  <2>1. held' \in [Mutexes -> [Thread -> 0 .. MaxHold]] BY <1>1, <1>2
  <2> QED BY <1>1, <1>5, <2>1 DEF TypeOK, mutexVars
<1>8. ArgOK' BY <1>5, MutexAssumption DEF ArgOK, NoCall
<1>9. \A x \in Mutexes : \A u \in Thread : u \in Taking(x)' <=> u \in Taking(x)
  BY <1>1, <1>5 DEF Taking
<1>10. \A x \in Mutexes : t \notin Taking(x) BY <1>1 DEF Taking
<1>11. MutexOK(m)'
  <2>1. m \notin alive' BY <1>1
  <2>2. \A u \in Thread : u \in Taking(m)' => owner'[m] # u
    BY <1>1, <1>9, <1>10, KernelAssumption DEF mutexVars
  <2> QED BY <1>1, <1>3, <1>4, <1>9, <2>1, <2>2 DEF MutexOK, mutexVars
<1> QED BY <1>1, <1>4, <1>6, <1>7, <1>8, <1>9, <1>11, OneMutex DEF mutexVars

\* rt_mutex_init after a detach that every thread has returned from.
LEMMA MutexInitKeeps ==
  ASSUME IInv, NEW t \in Thread, NEW m \in Mutexes, MutexInit(t, m)
  PROVE  IInv'
<1> USE DEF IInv
<1>1. /\ UNCHANGED <<irq, arg, fault, held>>
      /\ k.current = t /\ pc[t] = "run" /\ pc' = [pc EXCEPT ![t] = "run"]
      /\ m \notin alive /\ \A u \in Thread : arg[u] # m
      /\ alive' = alive \cup {m}
      /\ value' = [value EXCEPT ![m] = 1]
      /\ owner' = [owner EXCEPT ![m] = NoThread]
      /\ hold' = [hold EXCEPT ![m] = 0]
      /\ original' = [original EXCEPT ![m] = NoPriority]
      /\ k' = [k EXCEPT !.wait[m] = <<>>]
  BY DEF MutexInit, Running, Goto
<1>2. /\ k \in KernelState /\ KernelOK(k) /\ pc \in [Thread -> Pc] /\ MaxHold \in Nat
      /\ value \in [Mutexes -> {0, 1}] /\ hold \in [Mutexes -> 0 .. MaxHold]
      /\ owner \in [Mutexes -> Thread \cup {NoThread}] /\ m \in Queue
      /\ original \in [Mutexes -> Priority \cup {NoPriority}]
  BY MutexAssumption DEF TypeOK, SystemOK
<1>3. MutexOK(m) BY RestByMutex
<1>4. \A u \in Thread : u \notin Taking(m) BY <1>1 DEF Taking
<1>5. k.wait[m] = <<>>
  <2>1. ToSet(k.wait[m]) \subseteq Thread BY <1>2, EmptyWait
  <2>2. ToSet(k.wait[m]) = {} BY <1>3, <1>4, <2>1 DEF MutexOK
  <2> QED BY <1>2, <2>2, EmptyWait
<1>6. k' = k
  <2>1. [k.wait EXCEPT ![m] = <<>>] = k.wait BY <1>2, <1>5 DEF KernelState
  <2>2. k' = [k EXCEPT !.wait = [k.wait EXCEPT ![m] = <<>>]] BY <1>1
  <2> QED BY <1>2, <2>1, <2>2 DEF KernelState
<1>7. pc' = pc BY <1>1, <1>2
<1>8. SystemOK(Blocking)' BY <1>1, <1>2, <1>6, <1>7, SystemQuiet
<1>9. TypeOK'
  <2>1. value' \in [Mutexes -> {0, 1}] /\ hold' \in [Mutexes -> 0 .. MaxHold] BY <1>1, <1>2
  <2>2. /\ owner' \in [Mutexes -> Thread \cup {NoThread}]
        /\ original' \in [Mutexes -> Priority \cup {NoPriority}]
    BY <1>1, <1>2
  <2> QED BY <1>1, <1>6, <1>7, <2>1, <2>2 DEF TypeOK
<1>10. ArgOK' BY <1>1, <1>7 DEF ArgOK
<1>11. \A x \in Mutexes : \A u \in Thread : u \in Taking(x)' <=> u \in Taking(x)
  BY <1>1, <1>7 DEF Taking
<1>12. /\ owner'[m] = NoThread /\ hold'[m] = 0 /\ value'[m] = 1 /\ m \in alive'
       /\ \A x \in Mutexes \ {m} : /\ owner'[x] = owner[x] /\ hold'[x] = hold[x]
                                   /\ value'[x] = value[x] /\ original'[x] = original[x]
                                   /\ held'[x] = held[x] /\ (x \in alive' <=> x \in alive)
  BY <1>1, <1>2
<1>13. MutexOK(m)'
  <2>1. \A u \in Thread : u # NoThread /\ held'[m][u] = 0
    BY <1>1, <1>3, KernelAssumption DEF MutexOK
  <2>2. \A u \in Thread : u \notin ToSet(k'.wait[m]) BY <1>2, <1>5, <1>6, EmptyWait
  <2> QED BY <1>4, <1>5, <1>6, <1>11, <1>12, <2>1, <2>2 DEF MutexOK
<1> QED BY <1>6, <1>8, <1>9, <1>10, <1>11, <1>12, <1>13, OneMutex

-----------------------------------------------------------------------------
(***************************************************************************)
(* The invariant holds throughout, and what it gives.                      *)
(***************************************************************************)
LEMMA InitEstablishes ==
  ASSUME Init
  PROVE  IInv
<1>1. /\ SystemOK(Blocking)
      /\ pc = [t \in Thread |-> "run"] /\ irq = NoThread
      /\ \A q \in Queue : k.wait[q] = <<>> /\ ToSet(k.wait[q]) = {}
  BY SystemInitOK DEF Init
<1>2. MaxHold \in Nat /\ Mutexes \subseteq Queue BY MutexAssumption
<1>3. TypeOK
  <2>1. /\ k \in KernelState /\ k.current # Wild /\ irq = NoThread
        /\ pc \in [Thread -> Pc]
    BY <1>1 DEF SystemOK, Pc
  <2>2. /\ value \in [Mutexes -> {0, 1}] /\ hold \in [Mutexes -> 0 .. MaxHold]
        /\ owner \in [Mutexes -> Thread \cup {NoThread}]
        /\ original \in [Mutexes -> Priority \cup {NoPriority}]
        /\ alive \in SUBSET Mutexes
    BY <1>2 DEF Init
  <2>3. /\ arg \in [Thread -> Mutexes \cup {NoMutex}]
        /\ held \in [Mutexes -> [Thread -> 0 .. MaxHold]]
    BY <1>2 DEF Init
  <2>4. fault \in BOOLEAN BY DEF Init
  <2> QED BY <2>1, <2>2, <2>3, <2>4 DEF TypeOK
<1>4. ArgOK BY <1>1 DEF Init, ArgOK, NoCall
<1>5. \A m \in Mutexes : \A t \in Thread : t \notin Taking(m) BY <1>1 DEF Taking
<1>6. \A t \in Thread : t # NoThread BY KernelAssumption
<1>7. MutualExclusion BY <1>6 DEF Init, MutualExclusion
<1>8. FreeMeansFree BY <1>1, <1>2 DEF Init, FreeMeansFree
<1>9. WaitersTake BY <1>1, <1>2 DEF WaitersTake
<1>10. TakersAccounted BY <1>5 DEF TakersAccounted
<1>11. DeadUnheld BY DEF Init, DeadUnheld
<1>12. OwnersStarted BY DEF Init, OwnersStarted
<1> QED BY <1>1, <1>3, <1>4, <1>7, <1>8, <1>9, <1>10, <1>11, <1>12 DEF IInv, Rest

LEMMA NextKeeps ==
  ASSUME IInv, [Next]_vars
  PROVE  IInv'
<1>1. CASE UNCHANGED vars BY <1>1, StutterKeeps
<1>2. CASE Start \/ \E t \in Thread : Boot(t) BY <1>2, BootKeeps
<1>3. CASE TickYield BY <1>3, YieldKeeps
<1>4. ASSUME NEW t \in Thread, TickTimeout(t) PROVE IInv' BY <1>4, TimeoutKeeps
<1>5. ASSUME NEW t \in Thread, ThreadStep(t) PROVE IInv'
  <2>1. CASE Compute(t)
    <3>1. UNCHANGED vars BY <2>1 DEF Compute, OwnCode, vars, mutexVars
    <3> QED BY <3>1, StutterKeeps
  <2>2. CASE Sleep(t) \/ SleepReturn(t) BY <2>2, SleepKeeps
  <2>3. CASE SleepSchedule(t) \/ TakeSchedule(t) \/ ReleaseSchedule(t) BY <2>3, ScheduleKeeps
  <2>4. CASE TakeReturn(t) BY <2>4, TakeReturnKeeps
  <2>5. CASE DetachTest(t) BY <2>5, DetachTestKeeps
  <2>6. CASE DetachBody(t) BY <2>6, DetachFaultKeeps, DetachWakeKeeps
  <2>7. ASSUME NEW m \in Mutexes,
               \/ TakeAgain(t, m) \/ TakeFree(t, m) \/ TakeFail(t, m)
               \/ \E time \in Times : TakeSuspend(t, m, time)
               \/ ReleaseForeign(t, m) \/ ReleaseOnce(t, m)
               \/ ReleaseHandOver(t, m) \/ ReleaseFree(t, m)
               \/ Detach(t, m) \/ MutexInit(t, m)
        PROVE  IInv'
    <3>1. CASE TakeAgain(t, m) \/ ReleaseOnce(t, m) BY <3>1, HoldKeeps
    <3>2. CASE TakeFree(t, m) BY <3>2, TakeFreeKeeps
    <3>3. CASE TakeFail(t, m) \/ ReleaseForeign(t, m) BY <3>3, RefusedKeeps
    <3>4. ASSUME NEW time \in Times, TakeSuspend(t, m, time) PROVE IInv'
      BY <3>4, TakeSuspendKeeps
    <3>5. CASE ReleaseHandOver(t, m) BY <3>5, HandOverKeeps
    <3>6. CASE ReleaseFree(t, m) BY <3>6, ReleaseFreeKeeps
    <3>7. CASE Detach(t, m) BY <3>7, DetachKeeps
    <3>8. CASE MutexInit(t, m) BY <3>8, MutexInitKeeps
    <3> QED BY <2>7, <3>1, <3>2, <3>3, <3>4, <3>5, <3>6, <3>7, <3>8
  <2> QED BY <1>5, <2>1, <2>2, <2>3, <2>4, <2>5, <2>6, <2>7 DEF ThreadStep
<1> QED BY <1>1, <1>2, <1>3, <1>4, <1>5 DEF Next

LEMMA Invariance == Spec => []IInv
<1>1. Init => IInv BY InitEstablishes
<1>2. IInv /\ [Next]_vars => IInv' BY NextKeeps
<1> QED BY <1>1, <1>2, PTL DEF Spec

\* The kernel state stays sound under priority inheritance, hand-over, detach
\* and time-outs (ipc.c, thread.c).
THEOREM MutexSound == Spec => []KernelSound
<1>1. IInv => KernelSound BY DEF IInv, SystemOK, KernelSound, KernelConsistent
<1> QED BY <1>1, Invariance, PTL

\* What the threads believe they hold is what the mutex accounts for: at most
\* one thread holds it, and a free mutex has no owner, no hold and no waiter
\* (rt_mutex_take, rt_mutex_release, rt_mutex_detach).
THEOREM MutexExcludes == Spec => []OwnersAgree
<1>1. IInv => OwnersAgree BY DEF IInv, Rest, OwnersAgree
<1> QED BY <1>1, Invariance, PTL

\* A take that waited returns RT_EOK exactly to the thread the mutex was handed
\* to, and every other thread inside a take is on the list, or has an error.
THEOREM WaitersAreAccounted == Spec => []WaitersAccounted
<1>1. ASSUME IInv PROVE WaitersAccounted
  <2> SUFFICES ASSUME NEW m \in alive, NEW t \in Taking(m)
               PROVE \/ t \in ToSet(k.wait[m]) /\ k.stat[t] = "suspend" /\ owner[m] # t
                     \/ k.stat[t] = "ready" /\ (k.error[t] = "RT_EOK" <=> owner[m] = t)
    BY DEF WaitersAccounted
  <2>1. m \in Mutexes /\ t \in Thread BY <1>1 DEF IInv, TypeOK, Taking
  <2>2. m \in Queue BY <2>1, MutexAssumption
  <2>3. t \in ToSet(k.wait[m]) => k.stat[t] = "suspend"
    BY <1>1, <2>1, <2>2 DEF IInv, SystemOK
  <2> QED BY <1>1, <2>1, <2>3 DEF IInv, Rest, TakersAccounted
<1> QED BY <1>1, Invariance, PTL

-----------------------------------------------------------------------------
(***************************************************************************)
(* Priority inheritance.  A thread that owns two mutexes gives back the    *)
(* priority it had when it took the one it releases, a list in order of    *)
(* arrival is handed to a thread that may be less urgent than one behind   *)
(* it, and rt_mutex_detach does not give the priority of the owner back:   *)
(* with any of the three, one of the two properties fails (TLC finds the   *)
(* behaviours): this part is about one mutex, by priority, not detached.   *)
(***************************************************************************)
SingleMutex ==
    /\ Flag = "RT_IPC_FLAG_PRIO"
    /\ \A m, n \in Mutexes : m = n
    /\ "detach" \notin Ops

PrioOrder == {p \in Thread \X Thread : k.prio[p[1]] <= k.prio[p[2]]}

\* Inheritance and its end rest on the list being in order of priority, and on
\* mutex->original_priority being the owner's own.
PrioInv ==
    /\ alive = Mutexes
    /\ BoostEnds
    /\ Inherited
    /\ \A m \in Mutexes : OrderedBy(k.wait[m], PrioOrder)
    /\ \A m \in Mutexes : owner[m] # NoThread => original[m] = InitPriority[owner[m]]

\* A thread that waits is suspended, and is not the owner.
LEMMA WaiterFacts ==
  ASSUME IInv, NEW m \in Mutexes, NEW u \in ToSet(k.wait[m])
  PROVE  u \in Thread /\ k.stat[u] = "suspend" /\ owner[m] # u
<1>1. k \in KernelState BY DEF IInv, TypeOK
<1>2. u \in Thread BY <1>1, EmptyWait
<1>3. k.stat[u] = "suspend" BY <1>2, MutexAssumption DEF IInv, SystemOK
<1>4. MutexOK(m) BY RestByMutex
<1> QED BY <1>2, <1>3, <1>4 DEF MutexOK

\* The order of a list survives when the priorities of its members do.
LEMMA OrderKept ==
  ASSUME NEW w \in Seq(Thread), OrderedBy(w, PrioOrder),
         \A u \in ToSet(w) : k'.prio[u] = k.prio[u]
  PROVE  OrderedBy(w, PrioOrder')
<1>1. \A i \in 1 .. Len(w) : w[i] \in Thread /\ w[i] \in ToSet(w) BY DEF ToSet
<1> QED BY <1>1 DEF OrderedBy, PrioOrder

\* A step that changes no owner and no priority, and adds nobody to a list.
LEMMA PrioQuiet ==
  ASSUME IInv, IInv', PrioInv, alive' = alive, owner' = owner, original' = original,
         \A u \in Thread : k.stat[u] # "none" => k'.prio[u] = k.prio[u],
         \A u \in Thread : k.stat[u] = "none" /\ k'.stat[u] # "none"
                              => k'.prio[u] = InitPriority[u],
         \A m \in Mutexes : \/ k'.wait[m] = k.wait[m]
                            \/ \E u \in Thread : k'.wait[m] = RemoveFirst(k.wait[m], u)
  PROVE  PrioInv'
<1> USE DEF PrioInv
<1>1. k \in KernelState /\ k' \in KernelState BY DEF IInv, TypeOK
<1>2. ASSUME NEW m \in Mutexes
      PROVE  /\ k'.wait[m] \in Seq(Thread) /\ ToSet(k'.wait[m]) \subseteq ToSet(k.wait[m])
             /\ OrderedBy(k'.wait[m], PrioOrder)
  <2>1. k.wait[m] \in Seq(Thread) /\ k'.wait[m] \in Seq(Thread) BY <1>1, EmptyWait
  <2>2. CASE k'.wait[m] = k.wait[m] BY <2>1, <2>2
  <2>3. ASSUME NEW u \in Thread, k'.wait[m] = RemoveFirst(k.wait[m], u)
        PROVE  ToSet(k'.wait[m]) \subseteq ToSet(k.wait[m]) /\ OrderedBy(k'.wait[m], PrioOrder)
    <3>1. IsInjective(k.wait[m])
      BY MutexAssumption DEF IInv, SystemOK, KernelOK, ListsOK
    <3>2. ToSet(k'.wait[m]) = ToSet(k.wait[m]) \ {u} BY <2>1, <2>3, <3>1, RemoveFirstProperties
    <3>3. OrderedBy(k'.wait[m], PrioOrder) BY <2>1, <2>3, RemoveFirstOrdered
    <3> QED BY <3>2, <3>3
  <2> QED BY <2>1, <2>2, <2>3
<1>3. ASSUME NEW m \in Mutexes, NEW u \in ToSet(k'.wait[m])
      PROVE  /\ u \in ToSet(k.wait[m]) /\ k'.prio[u] = k.prio[u]
             /\ k'.prio[owner[m]] = k.prio[owner[m]]
  <2>1. u \in ToSet(k.wait[m]) BY <1>2, <1>3
  <2>2. u \in Thread /\ k.stat[u] = "suspend" BY <1>3, <2>1, WaiterFacts
  <2>3. k.wait[m] # <<>> BY <1>1, <1>3, <2>1, EmptyWait
  <2>4. MutexOK(m) BY <1>3, RestByMutex
  <2>5. owner[m] # NoThread BY <1>3, <2>3, <2>4 DEF MutexOK
  <2>6. owner[m] \in Thread /\ k.stat[owner[m]] # "none"
    BY <1>3, <2>4, <2>5 DEF MutexOK, IInv, TypeOK
  <2> QED BY <2>1, <2>2, <2>6
<1>4. BoostEnds' BY DEF BoostEnds
<1>5. Inherited'
  <2> SUFFICES ASSUME NEW m \in alive', NEW u \in ToSet(k'.wait[m])
               PROVE  k'.prio[owner'[m]] <= k'.prio[u]
    BY DEF Inherited
  <2>1. m \in Mutexes /\ m \in alive OBVIOUS
  <2> QED BY <1>3, <2>1 DEF Inherited
<1>6. ASSUME NEW m \in Mutexes PROVE OrderedBy(k'.wait[m], PrioOrder')
  BY <1>2, <1>3, <1>6, OrderKept
<1>7. \A m \in Mutexes : owner'[m] # NoThread => original'[m] = InitPriority[owner'[m]]
  OBVIOUS
<1>8. alive' = Mutexes OBVIOUS
<1> QED BY <1>4, <1>5, <1>6, <1>7, <1>8

\* The steps that leave every started thread its priority and add nobody to a
\* list: all but the first take, the take that waits and the last release.
LEMMA PrioQuietSteps ==
  ASSUME IInv, IInv', PrioInv, NEW t \in Thread,
         \/ Start \/ Boot(t) \/ TickTimeout(t) \/ TickYield
         \/ Compute(t) \/ Sleep(t) \/ SleepSchedule(t) \/ SleepReturn(t)
         \/ \E m \in Mutexes : \/ TakeAgain(t, m) \/ ReleaseOnce(t, m)
                               \/ TakeFail(t, m) \/ ReleaseForeign(t, m)
         \/ TakeSchedule(t) \/ TakeReturn(t) \/ ReleaseSchedule(t)
         \/ DetachTest(t) \/ DetachBody(t) \/ UNCHANGED vars
  PROVE  PrioInv'
<1>1. /\ alive' = alive /\ owner' = owner /\ original' = original
  BY DEF Start, Boot, TickTimeout, TickYield, Compute, Sleep, SleepSchedule, SleepReturn,
     TakeAgain, TakeFail, ReleaseForeign, ReleaseOnce, TakeSchedule, TakeReturn,
     ReleaseSchedule, DetachTest, DetachBody, vars, mutexVars
<1>2. SystemOK(Blocking) /\ k \in KernelState /\ KernelOK(k) /\ pc \in [Thread -> Pc]
  BY DEF IInv, SystemOK, TypeOK
<1>3. CASE Start \/ Boot(t)
  <2>1. StartStep \/ \E u \in Thread : BootStep(u) BY <1>3 DEF Start, Boot
  <2>2. "run" \notin Blocking BY DEF Blocking
  <2>3. /\ k'.wait = k.wait
        /\ \A u \in Thread : k.stat[u] # "none" => k'.prio[u] = k.prio[u]
        /\ \A u \in Thread : k.stat[u] = "none" /\ k'.stat[u] # "none"
                                 => k'.prio[u] = InitPriority[u]
    BY <1>2, <2>1, <2>2, BootEffect
  <2> QED BY <1>1, <2>3, PrioQuiet
<1>4. CASE TickTimeout(t)
  <2>1. k'.stat = [k.stat EXCEPT ![t] = "ready"] /\ k'.prio = k.prio
        /\ k'.wait = ListRemove(k, t).wait /\ k.stat[t] = "suspend"
    BY <1>2, <1>4, TimeoutEffect DEF TickTimeout
  <2>2. \A x \in Mutexes : k'.wait[x] = RemoveFirst(k.wait[x], t)
    <3>1. ListRemove(k, t).wait = [q \in Queue |-> RemoveFirst(k.wait[q], t)]
      BY <1>2 DEF ListRemove, KernelState
    <3> QED BY <2>1, <3>1, MutexAssumption
  <2>3. \A u \in Thread : k.stat[u] = "none" => k'.stat[u] = "none"
    BY <1>2, <2>1 DEF KernelState
  <2> QED BY <1>1, <2>1, <2>2, <2>3, PrioQuiet
<1>5. ASSUME k'.prio = k.prio, k'.stat = k.stat, k'.wait = k.wait PROVE PrioInv'
  BY <1>1, <1>5, PrioQuiet
<1>6. CASE \/ Compute(t) \/ TakeReturn(t) \/ DetachTest(t) \/ UNCHANGED vars
           \/ \E m \in Mutexes : ReleaseOnce(t, m)
  <2>1. k' = k BY <1>6 DEF Compute, OwnCode, TakeReturn, DetachTest, ReleaseOnce, vars
  <2> QED BY <1>5, <2>1
<1>7. CASE TickYield
  BY <1>2, <1>5, <1>7, YieldEffect DEF TickYield
<1>8. CASE SleepSchedule(t) \/ TakeSchedule(t) \/ ReleaseSchedule(t)
  <2>1. k.current = t /\ k' = Schedule(k)
    BY <1>8 DEF SleepSchedule, TakeSchedule, ReleaseSchedule, ScheduleStep, Running
  <2> QED BY <1>2, <1>5, <2>1, ScheduleEffect
<1>9. CASE Sleep(t)
  <2>1. SleepStep(t) /\ "sleep_sched" \in Blocking /\ "run" \notin Blocking
    BY <1>9 DEF Sleep, Blocking
  <2>2. /\ k'.stat = [k.stat EXCEPT ![t] = "suspend"] /\ k.stat[t] = "ready"
        /\ k'.wait = k.wait /\ k'.prio = k.prio
    BY <1>2, <2>1, SleepEffect
  <2>3. \A u \in Thread : k.stat[u] = "none" => k'.stat[u] = "none"
    BY <1>2, <2>2 DEF KernelState
  <2> QED BY <1>1, <2>2, <2>3, PrioQuiet
<1>10. CASE SleepReturn(t)
  <2>1. SleepReturnStep(t) /\ {"sleep_return", "run"} \cap Blocking = {}
    BY <1>10 DEF SleepReturn, Blocking
  <2> QED BY <1>2, <1>5, <2>1, SleepReturnEffect
<1>11. CASE \E m \in Mutexes : TakeAgain(t, m) \/ TakeFail(t, m) \/ ReleaseForeign(t, m)
  <2>1. PICK e \in Error : k' = [k EXCEPT !.error[t] = e]
    BY <1>11 DEF TakeAgain, TakeFail, ReleaseForeign, ErrorReset, Error
  <2>2. k'.prio = k.prio /\ k'.stat = k.stat /\ k'.wait = k.wait
    BY <1>2, <2>1, SetErrorProperties
  <2> QED BY <1>5, <2>2
<1>12. CASE DetachBody(t)
  <2>1. k.current = t /\ pc[t] = "detach_body" BY <1>12 DEF DetachBody, Running, Goto
  <2>2. arg[t] \in Mutexes BY <2>1 DEF IInv, TypeOK, ArgOK, NoCall
  <2>3. arg[t] \in Queue BY <2>2, MutexAssumption
  <2>4. CASE k.wait[arg[t]] = <<>>
    <3>1. k' = k BY <1>12, <2>4 DEF DetachBody
    <3> QED BY <1>5, <3>1
  <2>5. CASE k.wait[arg[t]] # <<>>
    <3> DEFINE h == Head(k.wait[arg[t]])
               e == [k EXCEPT !.error[h] = "RT_ERROR"]
    <3>1. k' = Resume(e, h) BY <1>12, <2>5 DEF DetachBody, IpcListResumeError
    <3>2. h \in Thread /\ h \in ToSet(k.wait[arg[t]])
      BY <1>2, <2>2, <2>5, EmptyWait, HeadToSet
    <3>3. k.stat[h] = "suspend" BY <2>2, <3>2, WaiterFacts
    <3>4. /\ e \in KernelState /\ KernelOK(e) /\ e.stat = k.stat
          /\ e.prio = k.prio /\ e.wait = k.wait
      BY <1>2, <3>2, SetErrorProperties DEF Error
    <3> HIDE DEF e, h
    <3>5. k'.stat = [k.stat EXCEPT ![h] = "ready"] /\ k'.prio = k.prio
      BY <3>1, <3>2, <3>3, <3>4, ResumeProperties DEF Frame
    <3>6. k'.wait = [q \in Queue |-> RemoveFirst(k.wait[q], h)]
      BY <3>1, <3>3, <3>4 DEF Resume, ScheduleInsert, ResumeUnlink, TimerStop, ListRemove,
         KernelState
    <3>7. \A x \in Mutexes : k'.wait[x] = RemoveFirst(k.wait[x], h)
      BY <3>6, MutexAssumption
    <3>8. \A u \in Thread : k.stat[u] = "none" => k'.stat[u] = "none"
      BY <1>2, <3>3, <3>5 DEF KernelState
    <3> QED BY <1>1, <3>2, <3>5, <3>7, <3>8, PrioQuiet
  <2> QED BY <2>4, <2>5
<1> QED BY <1>3, <1>4, <1>6, <1>7, <1>8, <1>9, <1>10, <1>11, <1>12

LEMMA TakeFreePrio ==
  ASSUME IInv, IInv', PrioInv, SingleMutex, NEW t \in Thread, NEW m \in Mutexes, TakeFree(t, m)
  PROVE  PrioInv'
<1> USE DEF PrioInv
<1>1. /\ alive' = alive /\ k.current = t /\ pc[t] = "run" /\ value[m] > 0
      /\ owner' = [owner EXCEPT ![m] = t]
      /\ original' = [original EXCEPT ![m] = k.prio[t]]
      /\ k' = [k EXCEPT !.error[t] = "RT_EOK"]
  BY DEF TakeFree, CallMutex, Running, Goto, ErrorReset
<1>2. /\ k \in KernelState /\ KernelOK(k) /\ value[m] \in {0, 1}
      /\ owner \in [Mutexes -> Thread \cup {NoThread}]
      /\ original \in [Mutexes -> Priority \cup {NoPriority}]
  BY DEF IInv, SystemOK, TypeOK
<1>3. MutexOK(m) BY RestByMutex
<1>4. owner[m] = NoThread /\ k.wait[m] = <<>>
  <2>1. value[m] = 1 BY <1>1, <1>2
  <2> QED BY <1>3, <2>1 DEF MutexOK
<1>5. k'.prio = k.prio /\ k'.stat = k.stat /\ k'.wait = k.wait
  <2>1. "RT_EOK" \in Error BY DEF Error
  <2> QED BY <1>1, <1>2, <2>1, SetErrorProperties
<1>6. k.stat[t] = "ready" BY <1>1, CallerFacts DEF Blocking
<1>7. k.prio[t] = InitPriority[t]
  BY <1>4, <1>6, KernelAssumption DEF BoostEnds, SingleMutex
<1>8. owner'[m] = t /\ original'[m] = InitPriority[t] BY <1>1, <1>2, <1>7
<1>9. \A x \in Mutexes : x = m BY DEF SingleMutex
<1>10. BoostEnds'
  <2> SUFFICES ASSUME NEW u \in Thread, k'.stat[u] # "none",
                      \A x \in Mutexes : owner'[x] # u
               PROVE  k'.prio[u] = InitPriority[u]
    BY DEF BoostEnds
  <2>1. \A x \in Mutexes : owner[x] # u BY <1>4, <1>9, KernelAssumption
  <2> QED BY <1>5, <2>1 DEF BoostEnds
<1>11. Inherited'
  <2>1. \A x \in alive' : ToSet(k'.wait[x]) = {} BY <1>1, <1>2, <1>4, <1>5, <1>9, EmptyWait
  <2> QED BY <2>1 DEF Inherited
<1>12. \A x \in Mutexes : OrderedBy(k'.wait[x], PrioOrder') BY <1>5 DEF PrioOrder
<1> QED BY <1>1, <1>8, <1>9, <1>10, <1>11, <1>12

LEMMA TakeSuspendPrio ==
  ASSUME IInv, IInv', PrioInv, SingleMutex, NEW t \in Thread, NEW m \in Mutexes,
         NEW time \in Times, TakeSuspend(t, m, time)
  PROVE  PrioInv'
<1> USE DEF PrioInv
<1> DEFINE s == Inherit(ErrorReset(t), t, m)
           o == owner[m]
<1>1. /\ UNCHANGED <<mutexVars, alive>> /\ k.current = t /\ pc[t] = "run"
  BY DEF TakeSuspend, CallMutex, Running, Goto
<1>2. /\ o \in Thread \ {t}
      /\ k'.prio = IF k.prio[t] < k.prio[o] THEN [k.prio EXCEPT ![o] = k.prio[t]] ELSE k.prio
      /\ k'.stat = [k.stat EXCEPT ![t] = "suspend"]
      /\ ToSet(k'.wait[m]) = ToSet(k.wait[m]) \cup {t}
      /\ s \in KernelState /\ KernelOK(s) /\ s.stat = k.stat
      /\ s.prio = k'.prio /\ s.wait = k.wait
      /\ k'.wait[m] = IpcListSuspend(s, m, t, Flag).wait[m]
  BY TakeSuspendKeeps
<1> HIDE DEF s
<1>3. k \in KernelState /\ k' \in KernelState /\ m \in Queue
  BY MutexAssumption DEF IInv, TypeOK
<1>4. k.stat[t] = "ready" BY <1>1, CallerFacts DEF Blocking
<1>5. \A x \in Mutexes : x = m BY DEF SingleMutex
<1>6. /\ \A u \in Thread : k.prio[u] \in Int /\ k'.prio[u] \in Int
      /\ \A u \in Thread \ {o} : k'.prio[u] = k.prio[u]
      /\ k'.prio[o] <= k.prio[o] /\ k'.prio[o] <= k.prio[t]
  <2>1. \A u \in Thread : k.prio[u] \in Int /\ k'.prio[u] \in Int
    BY <1>3 DEF KernelState, Priority
  <2>2. k.prio \in [Thread -> Priority] BY <1>3 DEF KernelState
  <2>3. CASE k.prio[t] < k.prio[o] BY <1>2, <2>1, <2>2, <2>3
  <2>4. CASE ~(k.prio[t] < k.prio[o]) BY <1>2, <2>1, <2>4
  <2> QED BY <2>1, <2>3, <2>4
<1>7. \A u \in ToSet(k.wait[m]) : u \in Thread \ {o} BY WaiterFacts
<1>8. ToSet(k'.wait[m]) = ToSet(k.wait[m]) \cup {t}
  BY TakeSuspendKeeps
<1>9. BoostEnds'
  <2> SUFFICES ASSUME NEW u \in Thread, k'.stat[u] # "none",
                      \A x \in Mutexes : owner'[x] # u
               PROVE  k'.prio[u] = InitPriority[u]
    BY DEF BoostEnds
  <2>1. \A x \in Mutexes : owner[x] # u BY <1>1 DEF mutexVars
  <2>2. k.stat[u] # "none"
    <3>1. k'.stat = [k.stat EXCEPT ![t] = "suspend"] BY TakeSuspendKeeps
    <3> QED BY <1>3, <1>4, <3>1 DEF KernelState
  <2>3. k'.prio[u] = k.prio[u] BY <1>6, <2>1
  <2> QED BY <2>1, <2>2, <2>3 DEF BoostEnds
<1>10. Inherited'
  <2> SUFFICES ASSUME NEW x \in alive', NEW u \in ToSet(k'.wait[x])
               PROVE  k'.prio[owner'[x]] <= k'.prio[u]
    BY DEF Inherited
  <2>1. x = m /\ owner'[x] = o /\ m \in alive BY <1>1, <1>5 DEF mutexVars
  <2>2. u \in ToSet(k.wait[m]) \/ u = t BY <1>8, <2>1
  <2>3. CASE u = t BY <1>2, <1>6, <2>1, <2>3
  <2>4. CASE u \in ToSet(k.wait[m])
    <3>1. k.prio[o] <= k.prio[u] BY <2>1, <2>4 DEF Inherited
    <3>2. u \in Thread \ {o} BY <1>7, <2>4
    <3> QED BY <1>2, <1>6, <2>1, <3>1, <3>2
  <2> QED BY <2>2, <2>3, <2>4
<1>11. OrderedBy(k'.wait[m], PrioOrder')
  <2> DEFINE R == {p \in Thread \X Thread : s.prio[p[1]] <= s.prio[p[2]]}
  <2>1. R = PrioOrder' BY <1>2 DEF PrioOrder
  <2>2. k.wait[m] \in Seq(Thread) BY <1>3, EmptyWait
  <2>3. OrderedBy(s.wait[m], R)
    <3>1. \A u \in ToSet(k.wait[m]) : k'.prio[u] = k.prio[u] BY <1>6, <1>7
    <3>2. OrderedBy(k.wait[m], PrioOrder') BY <2>2, <3>1, OrderKept
    <3> QED BY <1>2, <2>1, <3>2
  <2>4. \A u \in ToSet(s.wait[m]) :
            /\ s.prio[u] <= s.prio[t] => <<u, t>> \in R
            /\ s.prio[t] < s.prio[u] => <<t, u>> \in R
    <3> SUFFICES ASSUME NEW u \in ToSet(s.wait[m])
                 PROVE  /\ s.prio[u] <= s.prio[t] => <<u, t>> \in R
                        /\ s.prio[t] < s.prio[u] => <<t, u>> \in R
      OBVIOUS
    <3>1. u \in Thread BY <1>2, <1>7
    <3>2. s.prio[u] \in Int /\ s.prio[t] \in Int BY <1>2, <1>6, <3>1
    <3> QED BY <3>1, <3>2
  <2>5. Flag = "RT_IPC_FLAG_PRIO" /\ s.stat[t] = "ready" BY <1>2, <1>4 DEF SingleMutex
  <2> HIDE DEF R
  <2>6. OrderedBy(IpcListSuspend(s, m, t, "RT_IPC_FLAG_PRIO").wait[m], R)
    BY <1>2, <1>3, <2>3, <2>4, <2>5, IpcListSuspendOrdered DEF R
  <2> QED BY <1>2, <2>1, <2>5, <2>6
<1>12. \A x \in Mutexes : owner'[x] # NoThread => original'[x] = InitPriority[owner'[x]]
  BY <1>1 DEF mutexVars
<1> QED BY <1>1, <1>5, <1>9, <1>10, <1>11, <1>12

LEMMA HandOverPrio ==
  ASSUME IInv, IInv', PrioInv, SingleMutex, NEW t \in Thread, NEW m \in Mutexes,
         ReleaseHandOver(t, m)
  PROVE  PrioInv'
<1> USE DEF PrioInv
<1> DEFINE s == Restored(t, m)
<1>1. PICK w \in Thread : w = Head(k.wait[m]) BY HandOverKeeps
<1>2. /\ owner[m] = t /\ w # t /\ w \in ToSet(k.wait[m]) /\ k.stat[w] = "suspend"
      /\ owner' = [owner EXCEPT ![m] = w]
      /\ original' = [original EXCEPT ![m] = k.prio[w]]
      /\ k'.prio = [k.prio EXCEPT ![t] = original[m]]
      /\ k'.stat = [k.stat EXCEPT ![w] = "ready"]
      /\ k' = IpcListResume(s, m) /\ s \in KernelState /\ s.wait = k.wait
      /\ ToSet(k'.wait[m]) = ToSet(k.wait[m]) \ {w}
  BY <1>1, HandOverKeeps
<1>3. s.stat = k.stat BY <1>2, RestoredProperties
<1> HIDE DEF s
<1>4. /\ k \in KernelState /\ k' \in KernelState /\ m \in Queue
      /\ owner \in [Mutexes -> Thread \cup {NoThread}]
      /\ original \in [Mutexes -> Priority \cup {NoPriority}]
  BY MutexAssumption DEF IInv, TypeOK
<1>5. alive' = alive BY DEF ReleaseHandOver
<1>6. \A x \in Mutexes : x = m BY DEF SingleMutex
<1>7. t # NoThread BY KernelAssumption
<1>8. \A u \in Thread : k'.prio[u] = IF u = t THEN InitPriority[t] ELSE k.prio[u]
  BY <1>2, <1>4, <1>7 DEF KernelState
<1>9. \A u \in Thread : k.stat[u] # "none" /\ u # t => k.prio[u] = InitPriority[u]
  BY <1>2, <1>6 DEF BoostEnds
<1>10. owner'[m] = w /\ original'[m] = InitPriority[w]
  BY <1>2, <1>4, <1>9
<1>11. BoostEnds'
  <2>1. \A u \in Thread : k'.stat[u] # "none" => k.stat[u] # "none"
    BY <1>2, <1>4 DEF KernelState
  <2> QED BY <1>8, <1>9, <2>1 DEF BoostEnds
<1>12. \A u \in ToSet(k.wait[m]) : u \in Thread \ {t} BY <1>2, WaiterFacts
<1>13. k.wait[m] \in Seq(Thread) /\ k.wait[m] # <<>> BY <1>2, <1>4, EmptyWait
<1>14. Inherited'
  <2> SUFFICES ASSUME NEW x \in alive', NEW u \in ToSet(k'.wait[x])
               PROVE  k'.prio[owner'[x]] <= k'.prio[u]
    BY DEF Inherited
  <2>1. x = m BY <1>5, <1>6
  <2>2. u \in ToSet(k.wait[m]) /\ u # w BY <1>2, <2>1
  <2>3. PICK j \in 1 .. Len(k.wait[m]) : u = k.wait[m][j] BY <1>13, <2>2 DEF ToSet
  <2>4. w = k.wait[m][1] /\ 1 \in 1 .. Len(k.wait[m]) BY <1>1, <1>13
  <2>5. 1 < j BY <2>2, <2>3, <2>4
  <2>6. <<w, u>> \in PrioOrder BY <2>3, <2>4, <2>5 DEF OrderedBy
  <2>7. k.prio[w] <= k.prio[u] BY <2>6 DEF PrioOrder
  <2>8. u \in Thread \ {t} BY <1>12, <2>2
  <2> QED BY <1>2, <1>8, <1>10, <2>1, <2>7, <2>8
<1>15. OrderedBy(k'.wait[m], PrioOrder')
  <2>1. s.wait[m] = k.wait[m] /\ s.stat[w] = "suspend" /\ Head(s.wait[m]) = w
    BY <1>1, <1>2, <1>3
  <2>2. k' = Resume(s, w) BY <1>2, <2>1 DEF IpcListResume
  <2>3. k'.wait = [q \in Queue |-> RemoveFirst(s.wait[q], w)]
    BY <1>2, <2>1, <2>2 DEF Resume, ScheduleInsert, ResumeUnlink, TimerStop, ListRemove,
       KernelState
  <2>4. k'.wait[m] = RemoveFirst(k.wait[m], w) BY <1>4, <2>1, <2>3
  <2>5. k'.wait[m] \in Seq(Thread) BY <1>4, EmptyWait
  <2>6. OrderedBy(k'.wait[m], PrioOrder) BY <1>13, <2>4, RemoveFirstOrdered
  <2>7. \A u \in ToSet(k'.wait[m]) : k'.prio[u] = k.prio[u] BY <1>2, <1>8, <1>12
  <2> QED BY <2>5, <2>6, <2>7, OrderKept
<1> QED BY <1>5, <1>6, <1>10, <1>11, <1>14, <1>15

LEMMA ReleaseFreePrio ==
  ASSUME IInv, IInv', PrioInv, SingleMutex, NEW t \in Thread, NEW m \in Mutexes,
         ReleaseFree(t, m)
  PROVE  PrioInv'
<1> USE DEF PrioInv
<1>1. /\ owner[m] = t /\ owner' = [owner EXCEPT ![m] = NoThread]
      /\ original' = [original EXCEPT ![m] = NoPriority]
      /\ k'.prio = [k.prio EXCEPT ![t] = original[m]]
      /\ k'.stat = k.stat /\ k'.wait = k.wait
  BY ReleaseFreeKeeps
<1>2. alive' = alive /\ k.wait[m] = <<>> BY DEF ReleaseFree
<1>3. /\ k \in KernelState /\ k' \in KernelState
      /\ owner \in [Mutexes -> Thread \cup {NoThread}]
  BY DEF IInv, TypeOK
<1>4. \A x \in Mutexes : x = m BY DEF SingleMutex
<1>5. t # NoThread BY KernelAssumption
<1>6. \A u \in Thread : k'.prio[u] = IF u = t THEN InitPriority[t] ELSE k.prio[u]
  BY <1>1, <1>3, <1>5 DEF KernelState
<1>7. \A u \in Thread : k.stat[u] # "none" /\ u # t => k.prio[u] = InitPriority[u]
  BY <1>1, <1>4 DEF BoostEnds
<1>8. owner'[m] = NoThread BY <1>1, <1>3
<1>9. BoostEnds' BY <1>1, <1>6, <1>7 DEF BoostEnds
<1>10. \A x \in Mutexes : ToSet(k'.wait[x]) = {} /\ k'.wait[x] = <<>>
  BY <1>1, <1>2, <1>3, <1>4, EmptyWait
<1>11. Inherited' BY <1>2, <1>10 DEF Inherited
<1>12. \A x \in Mutexes : OrderedBy(k'.wait[x], PrioOrder') BY <1>10 DEF OrderedBy
<1> QED BY <1>2, <1>4, <1>8, <1>9, <1>11, <1>12

LEMMA PrioInvariance ==
  ASSUME SingleMutex
  PROVE  Spec => []PrioInv
<1>1. Init => PrioInv
  <2> SUFFICES ASSUME Init PROVE PrioInv OBVIOUS
  <2>1. (\A t \in Thread : k.stat[t] = "none") /\ \A q \in Queue : k.wait[q] = <<>>
    BY SystemInitOK DEF Init
  <2>2. \A m \in Mutexes : k.wait[m] = <<>> /\ ToSet(k.wait[m]) = {}
    BY <2>1, MutexAssumption DEF ToSet
  <2>3. BoostEnds BY <2>1 DEF BoostEnds
  <2>4. Inherited BY <2>2 DEF Init, Inherited
  <2>5. \A m \in Mutexes : OrderedBy(k.wait[m], PrioOrder) BY <2>2 DEF OrderedBy
  <2> QED BY <2>3, <2>4, <2>5 DEF Init, PrioInv
<1>2. IInv /\ IInv' /\ PrioInv /\ [Next]_vars => PrioInv'
  <2> SUFFICES ASSUME IInv, IInv', PrioInv, [Next]_vars PROVE PrioInv' OBVIOUS
  <2>1. CASE Start \/ TickYield \/ UNCHANGED vars
    <3>1. Idle \in Thread BY KernelAssumption
    <3> QED BY <2>1, <3>1, PrioQuietSteps
  <2>2. ASSUME NEW t \in Thread,
               \/ Boot(t) \/ TickTimeout(t)
               \/ Compute(t) \/ Sleep(t) \/ SleepSchedule(t) \/ SleepReturn(t)
               \/ TakeSchedule(t) \/ TakeReturn(t) \/ ReleaseSchedule(t)
               \/ DetachTest(t) \/ DetachBody(t)
        PROVE  PrioInv'
    BY <2>2, PrioQuietSteps
  <2>3. ASSUME NEW t \in Thread, NEW m \in Mutexes,
               \/ TakeAgain(t, m) \/ TakeFree(t, m) \/ TakeFail(t, m)
               \/ \E time \in Times : TakeSuspend(t, m, time)
               \/ ReleaseForeign(t, m) \/ ReleaseOnce(t, m)
               \/ ReleaseHandOver(t, m) \/ ReleaseFree(t, m)
               \/ Detach(t, m) \/ MutexInit(t, m)
        PROVE  PrioInv'
    <3>1. CASE TakeAgain(t, m) \/ TakeFail(t, m) \/ ReleaseForeign(t, m) \/ ReleaseOnce(t, m)
      BY <3>1, PrioQuietSteps
    <3>2. CASE TakeFree(t, m) BY <3>2, TakeFreePrio
    <3>3. ASSUME NEW time \in Times, TakeSuspend(t, m, time) PROVE PrioInv'
      BY <3>3, TakeSuspendPrio
    <3>4. CASE ReleaseHandOver(t, m) BY <3>4, HandOverPrio
    <3>5. CASE ReleaseFree(t, m) BY <3>5, ReleaseFreePrio
    <3>6. ~Detach(t, m) BY DEF Detach, SingleMutex
    <3>7. ~MutexInit(t, m) BY DEF MutexInit, PrioInv
    <3> QED BY <2>3, <3>1, <3>2, <3>3, <3>4, <3>5, <3>6, <3>7
  <2> QED BY <2>1, <2>2, <2>3 DEF Next, ThreadStep
<1> QED BY <1>1, <1>2, Invariance, PTL DEF Spec

\* The owner runs at no lower priority than any thread that waits for the
\* mutex, at every moment: also after a hand-over, when the next owner has
\* never been boosted (rt_mutex_take, rt_mutex_release).
THEOREM PriorityIsInherited ==
  ASSUME SingleMutex
  PROVE  Spec => []Inherited
<1>1. PrioInv => Inherited BY DEF PrioInv
<1> QED BY <1>1, PrioInvariance, PTL

\* A thread that owns no mutex runs at its own priority: no boost outlives the
\* release, whoever waited, timed out or was handed the mutex meanwhile
\* (mutex->original_priority in rt_mutex_take and rt_mutex_release).
THEOREM PriorityIsRestored ==
  ASSUME SingleMutex
  PROVE  Spec => []BoostEnds
<1>1. PrioInv => BoostEnds BY DEF PrioInv
<1> QED BY <1>1, PrioInvariance, PTL
=============================================================================
