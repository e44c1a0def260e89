---------------------------- MODULE EventProofs ----------------------------
(***************************************************************************)
(* The event object of module Event misses, loses and doubles no event,    *)
(* for any threads, priorities, bits and requests, with sends from         *)
(* interrupt handlers, time-outs, reset and detach.                        *)
(***************************************************************************)
EXTENDS Event, KernelProofs

Blocking == {"recv_sched"}

\* The places where a thread has interrupts disabled from one step to the next.
Masked == {"walk", "reset_loop", "lost"}

\* irq is the thread at such a place, or the handler; the walk of rt_event_send
\* is at a thread of the list.
IrqOK ==
    /\ irq # NoThread => k.current \in Thread
    /\ \A t \in Thread : irq = t <=> pc[t] \in Masked
    /\ irq \in Thread => k.current = irq
    /\ n # NoThread => Sending /\ n \in Waiting

Unsatisfied(t) == ~Satisfied(event_set[t], event_info[t], set)

\* No thread that the walk has passed by, and left on the list, waits for bits
\* that are set; outside of a walk no thread does.
Walked ==
    (irq = NoThread \/ Sending) =>
        \A i \in 1 .. Len(k.wait[Ev]) :
            (\A j \in 1 .. i : k.wait[Ev][j] # n) => Unsatisfied(k.wait[Ev][i])

\* What thread t was given fits a request of its own.
GrantFits(t) ==
    /\ k.error[t] = "RT_EOK"
    /\ event_set[t] = grant[t]
    /\ \E r \in Request[t] : /\ r.option = event_info[t]
                             /\ grant[t] \subseteq r.set
                             /\ r.option.and => grant[t] = r.set

\* Thread t waits for what it asked for, or was given it, or has an error.
ThreadOK(t) ==
    /\ t \in Waiting <=> (t \in Receiving /\ k.stat[t] = "suspend")
    /\ t \notin Receiving => grant[t] = {}
    /\ t \in Waiting =>
          /\ k.error[t] = "RT_EOK" /\ grant[t] = {}
          /\ \E r \in Request[t] : r.set = event_set[t] /\ r.option = event_info[t]
    /\ t \in Receiving /\ t \notin Waiting /\ k.error[t] = "RT_EOK" => grant[t] # {}
    /\ grant[t] # {} => GrantFits(t)

IInv ==
    /\ TypeOK
    /\ SystemOK(Blocking)
    /\ IrqOK
    /\ Walked
    /\ set = due
    /\ \A t \in Thread : ThreadOK(t)

-----------------------------------------------------------------------------
(***************************************************************************)
(* What the parts of the invariant say at the places they are used.        *)
(***************************************************************************)

\* Fewer bits do not satisfy more.
LEMMA SatisfiedMonotone ==
  ASSUME NEW asked, NEW option, NEW bits, NEW fewer \in SUBSET bits,
         ~Satisfied(asked, option, bits)
  PROVE  ~Satisfied(asked, option, fewer)
BY DEF Satisfied

\* A thread that runs its own code with interrupts enabled.
LEMMA CallerFacts ==
  ASSUME IInv, NEW t \in Thread, Running(t), pc[t] \notin Masked
  PROVE  /\ irq = NoThread /\ n = NoThread /\ k.current = t
         /\ pc[t] \notin Blocking => k.stat[t] = "ready" /\ t \notin Waiting
<1>1. irq = NoThread /\ k.current = t BY DEF Running, IInv, IrqOK
<1>2. n = NoThread BY <1>1, EventAssumption, KernelAssumption DEF IInv, IrqOK, Sending
<1>3. ASSUME pc[t] \notin Blocking PROVE k.stat[t] = "ready" /\ t \notin Waiting
  <2>1. k.stat[t] = "ready" BY <1>1, <1>3 DEF IInv, SystemOK
  <2> QED BY <2>1 DEF IInv, ThreadOK
<1> QED BY <1>1, <1>2, <1>3

\* The list, by its members.
LEMMA WaitingFacts ==
  ASSUME NEW c \in KernelState
  PROVE  /\ c.wait[Ev] \in Seq(Thread)
         /\ c.wait[Ev] = <<>> <=> ToSet(c.wait[Ev]) = {}
         /\ ToSet(c.wait[Ev]) \subseteq Thread
         /\ \A i \in 1 .. Len(c.wait[Ev]) : c.wait[Ev][i] \in ToSet(c.wait[Ev])
<1>1. c.wait[Ev] \in Seq(Thread) BY EventAssumption DEF KernelState
<1>2. \A i \in 1 .. Len(c.wait[Ev]) : c.wait[Ev][i] \in ToSet(c.wait[Ev])
  BY <1>1 DEF ToSet
<1> QED BY <1>1, <1>2, HeadToSet

\* Outside of a walk no thread waits for bits that are set.
LEMMA NobodySatisfied ==
  ASSUME IInv, n = NoThread, irq = NoThread \/ Sending, NEW t \in Waiting
  PROVE  Unsatisfied(t)
<1>1. k \in KernelState BY DEF IInv, TypeOK
<1>2. k.wait[Ev] \in Seq(Thread) BY <1>1, WaitingFacts
<1>3. PICK i \in 1 .. Len(k.wait[Ev]) : k.wait[Ev][i] = t BY <1>2 DEF Waiting, ToSet
<1>4. \A j \in 1 .. i : k.wait[Ev][j] \in Thread BY <1>2, <1>3
<1> QED BY <1>3, <1>4, KernelAssumption DEF IInv, Walked

\* ... which is enough for the part of the invariant about the walk.
LEMMA WalkedOutside ==
  ASSUME k' \in KernelState, \A t \in Waiting' : Unsatisfied(t)'
  PROVE  Walked'
<1>1. \A i \in 1 .. Len(k'.wait[Ev]) : k'.wait[Ev][i] \in Waiting' BY WaitingFacts DEF Waiting
<1> QED BY <1>1 DEF Walked

\* A thread that a step does not touch.
LEMMA ThreadKept ==
  ASSUME NEW u \in Thread, ThreadOK(u),
         u \in Receiving' <=> u \in Receiving, u \in Waiting' <=> u \in Waiting,
         u \in Receiving => k'.stat[u] = k.stat[u] /\ k'.error[u] = k.error[u],
         event_set'[u] = event_set[u], event_info'[u] = event_info[u], grant'[u] = grant[u]
  PROVE  ThreadOK(u)'
BY DEF ThreadOK, GrantFits

\* A step of t with interrupts enabled before and after it.
LEMMA IrqCalm ==
  ASSUME IInv, irq = NoThread, irq' = NoThread, n' = n, NEW t \in Thread, NEW to \in Pc \ Masked,
         pc' = [pc EXCEPT ![t] = to]
  PROVE  IrqOK' /\ pc' \in [Thread -> Pc] /\ \A u \in Thread : pc'[u] = IF u = t THEN to ELSE pc[u]
<1>1. pc \in [Thread -> Pc] BY DEF IInv, TypeOK
<1>2. n = NoThread /\ NoThread \notin Thread
  BY EventAssumption, KernelAssumption DEF IInv, IrqOK, Sending
<1>3. \A u \in Thread : pc'[u] = IF u = t THEN to ELSE pc[u] BY <1>1
<1>4. IrqOK' BY <1>2, <1>3 DEF IInv, IrqOK
<1> QED BY <1>1, <1>3, <1>4

\* A step that changes neither the event nor the lists nor a receiver.
LEMMA Quiet ==
  ASSUME IInv, irq = NoThread, SystemOK(Blocking)', IrqOK',
         irq' \in Thread \cup {NoThread, Handler}, pc' \in [Thread -> Pc], alive' \in BOOLEAN,
         UNCHANGED <<set, event_set, event_info, n, need_schedule, due, grant>>,
         k'.wait[Ev] = k.wait[Ev],
         \A u \in Thread : u \in Receiving' <=> u \in Receiving,
         \A u \in Thread : u \in Receiving =>
            k'.stat[u] = k.stat[u] /\ k'.error[u] = k.error[u]
  PROVE  IInv'
<1> USE DEF IInv
<1>1. TypeOK' BY DEF TypeOK, SystemOK
<1>2. n = NoThread BY EventAssumption, KernelAssumption DEF IrqOK, Sending
<1>3. Waiting' = Waiting BY DEF Waiting
<1>4. \A u \in Waiting' : Unsatisfied(u)' BY <1>2, <1>3, NobodySatisfied DEF Unsatisfied
<1>5. Walked' BY <1>1, <1>4, WalkedOutside DEF TypeOK
<1>6. \A u \in Thread : ThreadOK(u)' BY <1>3, ThreadKept
<1> QED BY <1>1, <1>5, <1>6

-----------------------------------------------------------------------------
(***************************************************************************)
(* The steps that receive and send nothing.                                *)
(***************************************************************************)
LEMMA BootKeeps ==
  ASSUME IInv, Boot
  PROVE  IInv'
<1> USE DEF IInv
<1>1. /\ SystemOK(Blocking)' /\ k'.wait = k.wait /\ pc' = pc /\ irq' = irq
      /\ \A u \in Thread : pc[u] = "run"
  <2>1. StartStep \/ \E t \in Thread : BootStep(t) BY DEF Boot
  <2> QED BY <2>1, BootEffect DEF Blocking
<1>2. UNCHANGED eventVars BY DEF Boot
<1>3. Receiving = {} /\ Receiving' = {} BY <1>1 DEF Receiving
<1>4. k.current = NoThread BY DEF Boot, StartStep, BootStep
<1>5. irq = NoThread BY <1>4, KernelAssumption DEF IrqOK
<1>6. IrqOK'
  <2>1. n = NoThread BY <1>5, EventAssumption, KernelAssumption DEF IrqOK, Sending
  <2> QED BY <1>1, <1>2, <1>5, <2>1, KernelAssumption DEF IrqOK, eventVars
<1>7. /\ irq' \in Thread \cup {NoThread, Handler} /\ pc' \in [Thread -> Pc]
      /\ alive' \in BOOLEAN
  BY <1>1, <1>2 DEF TypeOK, eventVars
<1> QED BY <1>1, <1>2, <1>3, <1>5, <1>6, <1>7, Quiet DEF eventVars

LEMMA StutterKeeps ==
  ASSUME IInv, UNCHANGED vars
  PROVE  IInv'
BY DEF IInv, vars, TypeOK, SystemOK, IrqOK, Walked, ThreadOK, GrantFits, Unsatisfied,
   Sending, Waiting, Receiving

\* A thread calls rt_schedule, to block or at the end of a call.
LEMMA ScheduleKeeps ==
  ASSUME IInv, NEW t \in Thread, RecvSchedule(t) \/ CallSchedule(t)
  PROVE  IInv'
<1> USE DEF IInv
<1>1. PICK from \in {"recv_sched", "sched"}, to \in {"recv_return", "run"} :
         /\ ScheduleStep(t, from, to) /\ UNCHANGED eventVars
         /\ from = "recv_sched" <=> to = "recv_return"
  <2>1. CASE RecvSchedule(t) BY <2>1 DEF RecvSchedule
  <2>2. CASE CallSchedule(t) BY <2>2 DEF CallSchedule
  <2> QED BY <2>1, <2>2
<1>2. /\ Running(t) /\ pc[t] = from /\ pc' = [pc EXCEPT ![t] = to]
      /\ k' = Schedule(k) /\ irq' = irq
  BY <1>1 DEF ScheduleStep, Goto
<1>3. irq = NoThread /\ n = NoThread /\ k.current = t
  BY <1>1, <1>2, CallerFacts DEF Masked
<1>4. /\ SystemOK(Blocking)' /\ k'.stat = k.stat /\ k'.wait = k.wait /\ k'.error = k.error
  BY <1>2, <1>3, ScheduleEffect
<1>5. to \in Pc \ Masked BY <1>1 DEF Pc, Masked
<1>6. n' = n BY <1>1 DEF eventVars
<1>7. /\ IrqOK' /\ pc' \in [Thread -> Pc]
      /\ \A u \in Thread : pc'[u] = IF u = t THEN to ELSE pc[u]
  BY <1>2, <1>3, <1>5, <1>6, IrqCalm
<1>8. \A u \in Thread : u \in Receiving' <=> u \in Receiving
  BY <1>1, <1>2, <1>7 DEF Receiving
<1>9. alive' \in BOOLEAN BY <1>1 DEF TypeOK, eventVars
<1> QED BY <1>1, <1>2, <1>3, <1>4, <1>7, <1>8, <1>9, Quiet DEF eventVars

LEMMA YieldKeeps ==
  ASSUME IInv, YieldStep, UNCHANGED eventVars
  PROVE  IInv'
<1> USE DEF IInv
<1>1. /\ SystemOK(Blocking)' /\ pc' = pc /\ irq' = irq
      /\ k'.stat = k.stat /\ k'.wait = k.wait /\ k'.error = k.error
  BY YieldEffect
<1>2. irq = NoThread BY DEF YieldStep, Interrupt
<1>3. n = NoThread BY <1>2, EventAssumption, KernelAssumption DEF IrqOK, Sending
<1>4. IrqOK' BY <1>1, <1>2, <1>3, KernelAssumption DEF IrqOK, eventVars
<1>5. \A u \in Thread : u \in Receiving' <=> u \in Receiving BY <1>1 DEF Receiving
<1>6. /\ irq' \in Thread \cup {NoThread, Handler} /\ pc' \in [Thread -> Pc]
      /\ alive' \in BOOLEAN
  BY <1>1 DEF TypeOK, eventVars
<1> QED BY <1>1, <1>2, <1>4, <1>5, <1>6, Quiet DEF eventVars

\* The calls that only go on to another place of their own, or refuse.
LEMMA OwnStepKeeps ==
  ASSUME IInv, NEW t \in Thread, NEW to \in Pc \ Masked,
         Running(t), pc[t] \notin Masked \cup {"recv_sched", "recv_return"},
         to \notin {"recv_sched", "recv_return"}, pc' = [pc EXCEPT ![t] = to], irq' = irq,
         k' \in KernelState, KernelOK(k'), k'.nest = k.nest, k'.current = k.current,
         k'.stat = k.stat, k'.wait = k.wait,
         \A u \in Thread \ {t} : k'.error[u] = k.error[u], alive' \in BOOLEAN,
         UNCHANGED <<set, event_set, event_info, n, need_schedule, due, grant>>
  PROVE  IInv'
<1> USE DEF IInv
<1>1. irq = NoThread /\ n = NoThread /\ k.current = t
  BY CallerFacts
<1>2. /\ IrqOK' /\ pc' \in [Thread -> Pc]
      /\ \A u \in Thread : pc'[u] = IF u = t THEN to ELSE pc[u]
  BY <1>1, IrqCalm
<1>3. SystemOK(Blocking)' BY <1>1, SystemQuiet DEF Blocking
<1>4. \A u \in Thread : u \in Receiving' <=> u \in Receiving BY <1>2 DEF Receiving
<1>5. t \notin Receiving BY DEF Receiving
<1> QED BY <1>1, <1>2, <1>3, <1>4, <1>5, Quiet

LEMMA RecvFailKeeps ==
  ASSUME IInv, NEW t \in Thread, NEW r, RecvFail(t, r)
  PROVE  IInv'
<1>1. /\ Running(t) /\ pc[t] = "run" /\ pc' = [pc EXCEPT ![t] = "run"]
      /\ k' = [k EXCEPT !.error[t] = "RT_ETIMEOUT"] /\ UNCHANGED <<irq, eventVars>>
  BY DEF RecvFail, CallRecv, Goto
<1>2. k \in KernelState /\ KernelOK(k) BY DEF IInv, SystemOK
<1>3. "RT_ETIMEOUT" \in Error BY DEF Error
<1>4. /\ k' \in KernelState /\ KernelOK(k') /\ k'.nest = k.nest /\ k'.current = k.current
      /\ k'.stat = k.stat /\ k'.wait = k.wait /\ k'.error = [k.error EXCEPT ![t] = "RT_ETIMEOUT"]
  BY <1>1, <1>2, <1>3, SetErrorProperties
<1>5. \A u \in Thread \ {t} : k'.error[u] = k.error[u] BY <1>2, <1>4 DEF KernelState
<1>6. "run" \in Pc \ Masked BY DEF Pc, Masked
<1>7. alive' \in BOOLEAN BY <1>1 DEF IInv, TypeOK, eventVars
<1> QED BY <1>1, <1>4, <1>5, <1>6, <1>7, OwnStepKeeps DEF eventVars, Masked

LEMMA DetachKeeps ==
  ASSUME IInv, NEW t \in Thread, Detach(t) \/ DetachTest(t)
  PROVE  IInv'
<1>1. PICK to \in {"detach_test", "detach_body", "run"} :
         /\ Running(t) /\ pc[t] \in {"run", "detach_test"} /\ pc' = [pc EXCEPT ![t] = to]
         /\ UNCHANGED <<k, irq, set, event_set, event_info, n, need_schedule, due, grant>>
         /\ alive' \in BOOLEAN
  <2>1. CASE Detach(t) BY <2>1 DEF Detach, Goto, threadEvents, walkVars
  <2>2. CASE DetachTest(t)
    <3>1. alive \in BOOLEAN BY DEF IInv, TypeOK
    <3> QED BY <2>2, <3>1 DEF DetachTest, ResumeAllTest, Goto, eventVars
  <2> QED BY <2>1, <2>2
<1>2. k \in KernelState /\ KernelOK(k) BY DEF IInv, SystemOK
<1>3. to \in Pc \ Masked BY DEF Pc, Masked
<1> QED BY <1>1, <1>2, <1>3, OwnStepKeeps DEF Masked

\* A thread disables interrupts: rt_event_control, and rt_ipc_list_resume_all
\* on the list that a time-out has emptied.
LEMMA MaskKeeps ==
  ASSUME IInv, NEW t \in Thread,
         Reset(t) \/ (ResumeAllLost(t, Ev, "detach_body") /\ UNCHANGED eventVars)
  PROVE  IInv'
<1> USE DEF IInv
<1>1. PICK to \in {"reset_loop", "lost"} :
         /\ Running(t) /\ pc[t] \in {"run", "detach_body"} /\ pc' = [pc EXCEPT ![t] = to]
         /\ irq' = t /\ UNCHANGED <<k, eventVars>>
  BY DEF Reset, ResumeAllLost, Goto
<1>2. irq = NoThread /\ n = NoThread /\ k.current = t
  BY <1>1, CallerFacts DEF Masked
<1>3. pc \in [Thread -> Pc] /\ to \in Pc /\ to \in Masked /\ alive \in BOOLEAN
  BY DEF TypeOK, Pc, Masked
<1>4. pc' \in [Thread -> Pc] /\ \A u \in Thread : pc'[u] = IF u = t THEN to ELSE pc[u]
  BY <1>1, <1>3
<1>5. IrqOK' BY <1>1, <1>2, <1>3, <1>4, KernelAssumption DEF IrqOK, eventVars
<1>6. SystemOK(Blocking)'
  <2>1. k \in KernelState /\ KernelOK(k) BY DEF SystemOK
  <2>2. pc[t] \notin Blocking BY <1>1 DEF Blocking
  <2> QED BY <1>1, <1>2, <2>1, <2>2, SystemQuiet
<1>7. \A u \in Thread : u \in Receiving' <=> u \in Receiving
  BY <1>1, <1>4 DEF Receiving
<1> QED BY <1>1, <1>2, <1>3, <1>4, <1>5, <1>6, <1>7, Quiet DEF eventVars

-----------------------------------------------------------------------------
(***************************************************************************)
(* A waiting thread is woken with an error: by its timer, by reset or by   *)
(* detach.                                                                 *)
(***************************************************************************)
LEMMA WokenWithError ==
  ASSUME IInv, SystemOK(Blocking)', IrqOK', irq' = irq, pc' \in [Thread -> Pc],
         UNCHANGED eventVars, NEW w \in Thread, k.stat[w] = "suspend",
         irq' = NoThread \/ Sending' => irq = NoThread,
         Waiting' = Waiting \ {w}, \A u \in Thread : u \in Receiving' <=> u \in Receiving,
         k'.stat = [k.stat EXCEPT ![w] = "ready"],
         NEW e \in Error \ {"RT_EOK"}, k'.error = [k.error EXCEPT ![w] = e]
  PROVE  IInv'
<1> USE DEF IInv
<1>1. TypeOK' BY DEF TypeOK, SystemOK, eventVars
<1>2. Walked'
  <2>1. CASE irq' = NoThread \/ Sending'
    <3>1. irq = NoThread BY <2>1
    <3>2. n = NoThread BY <3>1, EventAssumption, KernelAssumption DEF IrqOK, Sending
    <3>3. \A u \in Waiting' : Unsatisfied(u)'
      BY <3>1, <3>2, NobodySatisfied DEF Unsatisfied, eventVars
    <3> QED BY <1>1, <3>3, WalkedOutside DEF TypeOK
  <2>2. CASE ~(irq' = NoThread \/ Sending') BY <2>2 DEF Walked
  <2> QED BY <2>1, <2>2
<1>3. k.stat \in [Thread -> Stat] /\ k.error \in [Thread -> Error] BY DEF TypeOK, KernelState
<1>4. /\ k'.stat[w] = "ready" /\ k'.error[w] # "RT_EOK"
      /\ \A u \in Thread \ {w} : k'.stat[u] = k.stat[u] /\ k'.error[u] = k.error[u]
  BY <1>3
<1>5. ThreadOK(w)'
  <2>1. grant[w] = {} BY DEF ThreadOK
  <2> QED BY <1>4, <2>1 DEF ThreadOK, eventVars
<1>6. \A u \in Thread \ {w} : ThreadOK(u)' BY <1>4, ThreadKept DEF eventVars
<1> QED BY <1>1, <1>2, <1>5, <1>6 DEF eventVars

LEMMA TimeoutKeeps ==
  ASSUME IInv, NEW w \in Thread, TimeoutStep(w), UNCHANGED eventVars
  PROVE  IInv'
<1> USE DEF IInv
<1>1. /\ SystemOK(Blocking)' /\ pc' = pc /\ irq' = irq /\ k.stat[w] = "suspend"
      /\ k'.stat = [k.stat EXCEPT ![w] = "ready"]
      /\ k'.error = [k.error EXCEPT ![w] = "RT_ETIMEOUT"]
      /\ \A q \in Queue : ToSet(k'.wait[q]) = ToSet(k.wait[q]) \ {w}
  BY TimeoutEffect
<1>2. irq = NoThread BY DEF TimeoutStep, Interrupt
<1>3. n = NoThread BY <1>2, EventAssumption, KernelAssumption DEF IrqOK, Sending
<1>4. IrqOK' BY <1>1, <1>2, <1>3, KernelAssumption DEF IrqOK, eventVars
<1>5. Waiting' = Waiting \ {w} BY <1>1, EventAssumption DEF Waiting
<1>6. \A u \in Thread : u \in Receiving' <=> u \in Receiving BY <1>1 DEF Receiving
<1>7. pc' \in [Thread -> Pc] BY <1>1 DEF TypeOK
<1>8. "RT_ETIMEOUT" \in Error \ {"RT_EOK"} BY DEF Error
<1> QED BY <1>1, <1>2, <1>4, <1>5, <1>6, <1>7, <1>8, WokenWithError

\* One turn of rt_ipc_list_resume_all.
LEMMA ResumeAllKeeps ==
  ASSUME IInv, NEW t \in Thread, ResetWake(t) \/ DetachWake(t)
  PROVE  IInv'
<1> USE DEF IInv
<1> DEFINE w == Head(k.wait[Ev])
<1>1. PICK from \in {"reset_loop", "detach_body"}, to \in {"reset_loop", "detach_test"} :
         /\ Running(t) /\ k.wait[Ev] # <<>> /\ pc[t] = from /\ pc' = [pc EXCEPT ![t] = to]
         /\ k' = IpcListResumeError(k, Ev) /\ irq' = irq /\ UNCHANGED eventVars
         /\ from = "reset_loop" <=> to = "reset_loop"
  <2>1. CASE ResetWake(t) BY <2>1 DEF ResetWake, ResumeAllWake, Goto
  <2>2. CASE DetachWake(t) BY <2>2 DEF DetachWake, ResumeAllWake, Goto
  <2> QED BY <2>1, <2>2
<1>2. pc \in [Thread -> Pc] /\ from \in Pc /\ to \in Pc BY DEF TypeOK, Pc
<1>3. pc' \in [Thread -> Pc] /\ \A u \in Thread : pc'[u] = IF u = t THEN to ELSE pc[u]
  BY <1>1, <1>2
<1>4. k.current = t BY <1>1 DEF Running
<1>5. pc[k.current] \notin Blocking BY <1>1, <1>4 DEF Blocking
<1>6. Ev \in Queue BY EventAssumption
<1>7. /\ w \in Thread /\ w \in ToSet(k.wait[Ev]) /\ k.stat[w] = "suspend"
      /\ SystemOK(Blocking)'
      /\ k'.stat = [k.stat EXCEPT ![w] = "ready"]
      /\ k'.error = [k.error EXCEPT ![w] = "RT_ERROR"]
      /\ ToSet(k'.wait[Ev]) = ToSet(k.wait[Ev]) \ {w}
  BY <1>1, <1>4, <1>5, <1>6, WakeEffect, SMTT(30)
<1>8. k'.current = k.current
  <2>1. k \in KernelState /\ KernelOK(k) BY DEF SystemOK
  <2> QED BY <1>1, <1>6, <1>7, <2>1, IpcListResumeErrorProperties
<1> HIDE DEF w
<1>9. n = NoThread /\ (Sending => FALSE)
  BY <1>1, <1>2, <1>4, EventAssumption, KernelAssumption DEF IrqOK, Sending, Running
<1>10. IrqOK'
  <2>1. \A u \in Thread : pc'[u] \in Masked <=> pc[u] \in Masked BY <1>1, <1>3 DEF Masked
  <2> QED BY <1>1, <1>4, <1>8, <1>9, <2>1, KernelAssumption DEF IrqOK, eventVars
<1>11. Waiting' = Waiting \ {w} BY <1>7 DEF Waiting
<1>12. \A u \in Thread : u \in Receiving' <=> u \in Receiving BY <1>1, <1>3 DEF Receiving
<1>13. irq' = NoThread \/ Sending' => irq = NoThread
  BY <1>1, <1>3, <1>9 DEF Sending, IrqOK, Running
<1>14. "RT_ERROR" \in Error \ {"RT_EOK"} BY DEF Error
<1> QED BY <1>1, <1>3, <1>7, <1>10, <1>11, <1>12, <1>13, <1>14, WokenWithError

-----------------------------------------------------------------------------
(***************************************************************************)
(* rt_event_recv.                                                          *)
(***************************************************************************)
LEMMA RecvNowKeeps ==
  ASSUME IInv, NEW t \in Thread, NEW r, RecvNow(t, r)
  PROVE  IInv'
<1> USE DEF IInv
<1>1. /\ Running(t) /\ pc[t] = "run" /\ pc' = [pc EXCEPT ![t] = "run"]
      /\ k' = [k EXCEPT !.error[t] = "RT_EOK"] /\ irq' = irq
      /\ UNCHANGED <<event_set, event_info, n, need_schedule, alive, grant>>
      /\ set' = Cleared(r.set, r.option, set)
      /\ due' = IF r.option.clear THEN due \ r.set ELSE due
  BY DEF RecvNow, CallRecv, Goto, threadEvents, walkVars
<1>2. k \in KernelState /\ KernelOK(k) /\ set \in SUBSET Bit BY DEF SystemOK, TypeOK
<1>3. "RT_EOK" \in Error BY DEF Error
<1>4. /\ k' \in KernelState /\ KernelOK(k') /\ k'.nest = k.nest /\ k'.current = k.current
      /\ k'.stat = k.stat /\ k'.wait = k.wait /\ k'.error = [k.error EXCEPT ![t] = "RT_EOK"]
  BY <1>1, <1>2, <1>3, SetErrorProperties
<1>5. \A u \in Thread \ {t} : k'.error[u] = k.error[u] BY <1>2, <1>4 DEF KernelState
<1>6. irq = NoThread /\ n = NoThread /\ k.current = t BY <1>1, CallerFacts DEF Masked
<1>7. "run" \in Pc \ Masked BY DEF Pc, Masked
<1>8. /\ IrqOK' /\ pc' \in [Thread -> Pc]
      /\ \A u \in Thread : pc'[u] = IF u = t THEN "run" ELSE pc[u]
  BY <1>1, <1>6, <1>7, IrqCalm
<1>9. SystemOK(Blocking)' BY <1>1, <1>4, <1>6, SystemQuiet DEF Blocking
<1>10. set' \in SUBSET set /\ set' = due' BY <1>1 DEF Cleared
<1>11. TypeOK' BY <1>1, <1>2, <1>4, <1>8, <1>9, <1>10 DEF TypeOK, SystemOK
<1>12. Waiting' = Waiting BY <1>4 DEF Waiting
<1>13. \A u \in Waiting' : Unsatisfied(u)'
  BY <1>1, <1>6, <1>10, <1>12, NobodySatisfied, SatisfiedMonotone DEF Unsatisfied
<1>14. Walked' BY <1>4, <1>13, WalkedOutside
<1>15. /\ \A u \in Thread : u \in Receiving' <=> u \in Receiving
       /\ t \notin Receiving
  BY <1>1, <1>8 DEF Receiving
<1>16. \A u \in Thread : ThreadOK(u)' BY <1>1, <1>4, <1>5, <1>12, <1>15, ThreadKept
<1> QED BY <1>8, <1>9, <1>10, <1>11, <1>14, <1>16

LEMMA RecvSuspendKeeps ==
  ASSUME IInv, NEW t \in Thread, NEW r, NEW time, RecvSuspend(t, r, time)
  PROVE  IInv'
<1> USE DEF IInv
<1>1. /\ Running(t) /\ pc[t] = "run" /\ pc' = [pc EXCEPT ![t] = "recv_sched"]
      /\ t # Idle /\ r \in Request[t] /\ ~Satisfied(r.set, r.option, set)
      /\ event_set' = [event_set EXCEPT ![t] = r.set]
      /\ event_info' = [event_info EXCEPT ![t] = r.option]
      /\ LET s == IpcListSuspend([k EXCEPT !.error[t] = "RT_EOK"], Ev, t, Flag)
         IN  k' = IF time = "timed" THEN TimerStart(s, t) ELSE s
      /\ irq' = irq /\ UNCHANGED <<set, n, need_schedule, alive, due, grant>>
  BY DEF RecvSuspend, CallRecv, Goto, walkVars
<1>2. irq = NoThread /\ n = NoThread /\ k.current = t /\ t \notin Waiting
  BY <1>1, CallerFacts DEF Masked, Blocking
<1>3. "recv_sched" \in Pc \ Masked BY DEF Pc, Masked
<1>4. /\ IrqOK' /\ pc' \in [Thread -> Pc]
      /\ \A u \in Thread : pc'[u] = IF u = t THEN "recv_sched" ELSE pc[u]
  BY <1>1, <1>2, <1>3, IrqCalm
<1>5. pc[t] \notin Blocking /\ pc'[t] \in Blocking BY <1>1, <1>4 DEF Blocking
<1>6. Ev \in Queue /\ Flag \in {"RT_IPC_FLAG_FIFO", "RT_IPC_FLAG_PRIO"} BY EventAssumption
<1>7. /\ SystemOK(Blocking)'
      /\ k'.stat = [k.stat EXCEPT ![t] = "suspend"]
      /\ k'.error = [k.error EXCEPT ![t] = "RT_EOK"]
      /\ ToSet(k'.wait[Ev]) = ToSet(k.wait[Ev]) \cup {t}
  <2> DEFINE e == [k EXCEPT !.error[t] = "RT_EOK"]
             s == IpcListSuspend(e, Ev, t, Flag)
  <2>1. k' \in {s, TimerStart(s, t)} BY <1>1
  <2>2. SystemOK(Blocking) /\ k.current = t /\ t # Idle BY <1>1, <1>2
  <2> QED BY <1>5, <1>6, <2>1, <2>2, WaitEffect, SMTT(30)
<1>8. /\ k.stat \in [Thread -> Stat] /\ k.error \in [Thread -> Error]
      /\ event_set \in [Thread -> SUBSET Bit] /\ event_info \in [Thread -> Option]
      /\ r.set \in SUBSET Bit /\ r.option \in Option
  <2>1. r \in [set : (SUBSET Bit) \ {{}}, option : Option] BY <1>1, EventAssumption
  <2> QED BY <2>1 DEF TypeOK, KernelState
<1>9. /\ k'.stat[t] = "suspend" /\ k'.error[t] = "RT_EOK"
      /\ \A u \in Thread \ {t} : k'.stat[u] = k.stat[u] /\ k'.error[u] = k.error[u]
      /\ event_set'[t] = r.set /\ event_info'[t] = r.option
      /\ \A u \in Thread \ {t} :
            event_set'[u] = event_set[u] /\ event_info'[u] = event_info[u]
  BY <1>1, <1>7, <1>8
<1>10. TypeOK' BY <1>1, <1>4, <1>7, <1>8 DEF TypeOK, SystemOK
<1>11. Waiting' = Waiting \cup {t} /\ Waiting \subseteq Thread
  BY <1>7, WaitingFacts DEF Waiting, TypeOK
<1>12. \A u \in Waiting' : Unsatisfied(u)'
  <2>1. Unsatisfied(t)' BY <1>1, <1>9 DEF Unsatisfied
  <2>2. \A u \in Waiting : Unsatisfied(u)'
    BY <1>1, <1>2, <1>9, <1>11, NobodySatisfied DEF Unsatisfied
  <2> QED BY <1>11, <2>1, <2>2
<1>13. Walked' BY <1>10, <1>12, WalkedOutside DEF TypeOK
<1>14. /\ t \in Receiving' /\ t \notin Receiving
       /\ \A u \in Thread \ {t} : u \in Receiving' <=> u \in Receiving
  BY <1>1, <1>4 DEF Receiving
<1>15. ThreadOK(t)'
  <2>1. grant'[t] = {} BY <1>1, <1>14 DEF ThreadOK
  <2> QED BY <1>1, <1>9, <1>11, <1>14, <2>1 DEF ThreadOK
<1>16. \A u \in Thread \ {t} : ThreadOK(u)' BY <1>1, <1>9, <1>11, <1>14, ThreadKept
<1> QED BY <1>1, <1>4, <1>7, <1>10, <1>13, <1>15, <1>16

LEMMA RecvReturnKeeps ==
  ASSUME IInv, NEW t \in Thread, RecvReturn(t)
  PROVE  IInv'
<1> USE DEF IInv
<1>1. /\ Running(t) /\ pc[t] = "recv_return" /\ pc' = [pc EXCEPT ![t] = "run"]
      /\ grant' = [grant EXCEPT ![t] = {}]
      /\ UNCHANGED <<k, irq, set, event_set, event_info, n, need_schedule, alive, due>>
  BY DEF RecvReturn, Goto, threadEvents, walkVars
<1>2. irq = NoThread /\ n = NoThread /\ k.current = t /\ t \notin Waiting
  BY <1>1, CallerFacts DEF Masked, Blocking
<1>3. "run" \in Pc \ Masked BY DEF Pc, Masked
<1>4. /\ IrqOK' /\ pc' \in [Thread -> Pc]
      /\ \A u \in Thread : pc'[u] = IF u = t THEN "run" ELSE pc[u]
  BY <1>1, <1>2, <1>3, IrqCalm
<1>5. SystemOK(Blocking)'
  <2>1. k \in KernelState /\ KernelOK(k) BY DEF SystemOK
  <2>2. pc[t] \notin Blocking BY <1>1 DEF Blocking
  <2> QED BY <1>1, <1>2, <2>1, <2>2, SystemQuiet
<1>6. grant \in [Thread -> SUBSET Bit] BY DEF TypeOK
<1>7. grant'[t] = {} /\ \A u \in Thread \ {t} : grant'[u] = grant[u] BY <1>1, <1>6
<1>8. TypeOK' BY <1>1, <1>4, <1>6 DEF TypeOK
<1>9. Waiting' = Waiting BY <1>1 DEF Waiting
<1>10. \A u \in Waiting' : Unsatisfied(u)'
  BY <1>1, <1>2, <1>9, NobodySatisfied DEF Unsatisfied
<1>11. Walked' BY <1>8, <1>10, WalkedOutside DEF TypeOK
<1>12. /\ t \notin Receiving'
       /\ \A u \in Thread \ {t} : u \in Receiving' <=> u \in Receiving
  BY <1>4 DEF Receiving
<1>13. ThreadOK(t)' BY <1>2, <1>7, <1>9, <1>12 DEF ThreadOK
<1>14. \A u \in Thread \ {t} : ThreadOK(u)' BY <1>1, <1>7, <1>9, <1>12, ThreadKept
<1> QED BY <1>1, <1>4, <1>5, <1>8, <1>11, <1>13, <1>14

-----------------------------------------------------------------------------
(***************************************************************************)
(* rt_event_send: its beginning, one thread of the walk, its end.          *)
(***************************************************************************)
LEMMA SendKeeps ==
  ASSUME IInv, NEW bits \in SUBSET Bit,
         IsrSend(bits) \/ \E t \in Thread : Send(t, bits)
  PROVE  IInv'
<1> USE DEF IInv
<1>1. /\ set' = set \cup bits /\ due' = due \cup bits /\ n' = First(k.wait[Ev])
      /\ need_schedule' = FALSE /\ UNCHANGED <<k, event_set, event_info, alive, grant>>
  BY DEF IsrSend, Send, SendBegin, threadEvents
<1>2. k \in KernelState /\ KernelOK(k) /\ pc \in [Thread -> Pc] BY DEF SystemOK, TypeOK
<1>3. k.wait[Ev] \in Seq(Thread) BY <1>2, WaitingFacts
<1>4. Waiting' = Waiting BY <1>1 DEF Waiting
<1>5. n' # NoThread => n' \in Waiting /\ n' \in Thread
  BY <1>1, <1>2, <1>3, HeadToSet DEF First, Waiting
<1>6. \A i \in 1 .. Len(k.wait[Ev]) : k.wait[Ev][1] = n' /\ 1 \in 1 .. i
  <2> SUFFICES ASSUME NEW i \in 1 .. Len(k.wait[Ev])
               PROVE  k.wait[Ev][1] = n' /\ 1 \in 1 .. i
    OBVIOUS
  <2>1. k.wait[Ev] # <<>> BY <1>3
  <2> QED BY <1>1, <1>3, <2>1 DEF First
<1>7. Walked' BY <1>1, <1>6 DEF Walked
<1>8. /\ SystemOK(Blocking)' /\ IrqOK' /\ irq' \in Thread \cup {NoThread, Handler}
      /\ pc' \in [Thread -> Pc]
      /\ \A u \in Thread : u \in Receiving' <=> u \in Receiving
  <2>1. CASE IsrSend(bits)
    <3>1. irq = NoThread /\ irq' = Handler /\ pc' = pc /\ k.current \in Thread
      BY <2>1 DEF IsrSend, Interrupt
    <3>2. SystemOK(Blocking)' BY <1>1, <3>1 DEF SystemOK
    <3>3. IrqOK'
      BY <1>1, <1>4, <1>5, <3>1, EventAssumption, KernelAssumption DEF IrqOK, Sending
    <3> QED BY <1>2, <3>1, <3>2, <3>3 DEF Receiving
  <2>2. ASSUME NEW t \in Thread, Send(t, bits)
        PROVE  /\ SystemOK(Blocking)' /\ IrqOK' /\ irq' \in Thread \cup {NoThread, Handler}
               /\ pc' \in [Thread -> Pc]
               /\ \A u \in Thread : u \in Receiving' <=> u \in Receiving
    <3>1. /\ Running(t) /\ pc[t] = "run" /\ pc' = [pc EXCEPT ![t] = "walk"] /\ irq' = t
      BY <2>2 DEF Send, Goto
    <3>2. irq = NoThread /\ k.current = t BY <3>1, CallerFacts DEF Masked
    <3>3. pc' \in [Thread -> Pc] /\ \A u \in Thread : pc'[u] = IF u = t THEN "walk" ELSE pc[u]
      BY <1>2, <3>1 DEF Pc
    <3>4. pc[t] \notin Blocking BY <3>1 DEF Blocking
    <3>5. SystemOK(Blocking)' BY <1>1, <1>2, <3>2, <3>4, SystemQuiet
    <3>6. "walk" \in Masked BY DEF Masked
    <3>7. Sending' BY <3>1, <3>3 DEF Sending
    <3>8. IrqOK'
      BY <1>1, <1>4, <1>5, <3>1, <3>2, <3>3, <3>6, <3>7, KernelAssumption DEF IrqOK
    <3> QED BY <3>1, <3>3, <3>5, <3>8 DEF Receiving
  <2> QED BY <2>1, <2>2
<1>9. TypeOK' BY <1>1, <1>5, <1>8 DEF TypeOK
<1>10. \A u \in Thread : ThreadOK(u)' BY <1>1, <1>4, <1>8, ThreadKept
<1> QED BY <1>1, <1>7, <1>8, <1>9, <1>10

\* The walk goes on with the next thread of the list.
LEMMA SuccessorIs ==
  ASSUME NEW w \in Seq(Thread), IsInjective(w), NEW p \in 1 .. Len(w)
  PROVE  Successor(w, w[p]) = IF p = Len(w) THEN NoThread ELSE w[p + 1]
<1> DEFINE after == {i \in 2 .. Len(w) : w[i - 1] = w[p]}
<1>1. \A i \in 1 .. Len(w) : w[i] = w[p] => i = p BY DEF IsInjective
<1>2. \A i \in after : i = p + 1 BY <1>1
<1>3. CASE p = Len(w)
  <2>1. after = {} BY <1>2, <1>3
  <2> QED BY <1>3, <2>1 DEF Successor
<1>4. CASE p # Len(w)
  <2>1. p + 1 \in after BY <1>4
  <2>2. after \in SUBSET Nat /\ after # {} BY <2>1
  <2>3. Min(after) \in after BY <2>2, SmallestNat
  <2>4. Min(after) = p + 1 BY <1>2, <2>3
  <2>5. Successor(w, w[p]) = w[Min(after)] BY <2>2 DEF Successor
  <2> QED BY <1>4, <2>4, <2>5
<1> QED BY <1>3, <1>4

\* Where the walk is, and what it has left behind.
LEMMA WalkFacts ==
  ASSUME IInv, Sending, n # NoThread
  PROVE  /\ k.wait[Ev] \in Seq(Thread) /\ IsInjective(k.wait[Ev])
         /\ \E p \in 1 .. Len(k.wait[Ev]) :
               /\ k.wait[Ev][p] = n
               /\ Successor(k.wait[Ev], n) =
                     IF p = Len(k.wait[Ev]) THEN NoThread ELSE k.wait[Ev][p + 1]
               /\ \A i \in 1 .. p - 1 : k.wait[Ev][i] # n /\ Unsatisfied(k.wait[Ev][i])
<1> USE DEF IInv
<1> DEFINE w == k.wait[Ev]
<1>1. k \in KernelState /\ n \in Waiting BY DEF TypeOK, IrqOK
<1>2. w \in Seq(Thread) BY <1>1, WaitingFacts
<1>3. IsInjective(w) BY EventAssumption DEF SystemOK, KernelOK, ListsOK
<1>4. PICK p \in 1 .. Len(w) : w[p] = n BY <1>1, <1>2 DEF Waiting, ToSet
<1>5. \A i \in 1 .. p - 1 : w[i] # n BY <1>3, <1>4 DEF IsInjective
<1>6. \A i \in 1 .. p - 1 : Unsatisfied(w[i])
  <2> SUFFICES ASSUME NEW i \in 1 .. p - 1 PROVE Unsatisfied(w[i])
    OBVIOUS
  <2>1. i \in 1 .. Len(w) /\ \A j \in 1 .. i : j \in 1 .. p - 1 BY <1>2, <1>4
  <2> QED BY <1>5, <2>1 DEF Walked
<1>7. Successor(w, n) = IF p = Len(w) THEN NoThread ELSE w[p + 1]
  BY <1>2, <1>3, <1>4, SuccessorIs
<1> QED BY <1>2, <1>3, <1>4, <1>5, <1>6, <1>7

LEMMA VisitSkipKeeps ==
  ASSUME IInv, VisitSkip
  PROVE  IInv'
<1> USE DEF IInv
<1>1. /\ Sending /\ n # NoThread /\ Unsatisfied(n) /\ n' = Successor(k.wait[Ev], n)
      /\ UNCHANGED <<k, irq, pc, set, event_set, event_info, need_schedule, alive, due, grant>>
  BY DEF VisitSkip, Unsatisfied, threadEvents
<1> DEFINE w == k.wait[Ev]
<1>2. w \in Seq(Thread) /\ IsInjective(w) BY <1>1, WalkFacts
<1>3. PICK p \in 1 .. Len(w) :
         /\ w[p] = n /\ n' = IF p = Len(w) THEN NoThread ELSE w[p + 1]
         /\ \A i \in 1 .. p - 1 : Unsatisfied(w[i])
  BY <1>1, WalkFacts
<1>4. /\ Sending' /\ Waiting' = Waiting /\ Receiving' = Receiving
      /\ n' # NoThread => n' \in Waiting' /\ n' \in Thread
  <2>1. \A i \in 1 .. Len(w) : w[i] \in Waiting BY WaitingFacts DEF Waiting, TypeOK
  <2> QED BY <1>1, <1>2, <1>3, <2>1 DEF Sending, Waiting, Receiving
<1>5. TypeOK' BY <1>1, <1>4 DEF TypeOK
<1>6. SystemOK(Blocking)' BY <1>1 DEF SystemOK
<1>7. IrqOK' BY <1>1, <1>4 DEF IrqOK
<1>8. Walked'
  <2> SUFFICES ASSUME NEW i \in 1 .. Len(w), \A j \in 1 .. i : w[j] # n'
               PROVE  Unsatisfied(w[i])'
    BY <1>1 DEF Walked
  <2>1. i <= p BY <1>2, <1>3
  <2>2. Unsatisfied(w[i]) BY <1>1, <1>3, <2>1
  <2> QED BY <1>1, <2>2 DEF Unsatisfied
<1>9. \A u \in Thread : ThreadOK(u)' BY <1>1, <1>4, ThreadKept
<1> QED BY <1>1, <1>5, <1>6, <1>7, <1>8, <1>9

LEMMA VisitWakeKeeps ==
  ASSUME IInv, VisitWake
  PROVE  IInv'
<1> USE DEF IInv
<1> DEFINE w == k.wait[Ev]
           got == IF event_info[n].and THEN event_set[n] ELSE event_set[n] \cap set
<1>1. /\ Sending /\ n # NoThread /\ Satisfied(event_set[n], event_info[n], set)
      /\ event_set' = [event_set EXCEPT ![n] = got]
      /\ set' = Cleared(got, event_info[n], set)
      /\ due' = IF event_info[n].clear THEN due \ (event_set[n] \cap set) ELSE due
      /\ grant' = [grant EXCEPT ![n] = event_set[n] \cap set]
      /\ k' = Resume(k, n) /\ n' = Successor(w, n) /\ need_schedule' = TRUE
      /\ UNCHANGED <<irq, pc, event_info, alive>>
  BY DEF VisitWake
<1>2. w \in Seq(Thread) /\ IsInjective(w) BY <1>1, WalkFacts
<1>3. PICK p \in 1 .. Len(w) :
         /\ w[p] = n /\ n' = IF p = Len(w) THEN NoThread ELSE w[p + 1]
         /\ \A i \in 1 .. p - 1 : w[i] # n /\ Unsatisfied(w[i])
  BY <1>1, WalkFacts
<1>4. k \in KernelState /\ KernelOK(k) BY DEF SystemOK
<1>5. n \in Thread /\ n \in Waiting /\ n \in Receiving /\ k.stat[n] = "suspend"
  BY <1>1 DEF IrqOK, TypeOK, ThreadOK
<1>6. /\ k' \in KernelState /\ KernelOK(k') /\ k'.error = k.error /\ k'.current = k.current
      /\ k'.nest = k.nest /\ k'.stat = [k.stat EXCEPT ![n] = "ready"]
      /\ \A q \in Queue : ToSet(k'.wait[q]) = ToSet(k.wait[q]) \ {n}
  BY <1>1, <1>4, <1>5, ResumeProperties, ZenonT(60) DEF Frame
<1>7. k'.wait[Ev] = RemoveFirst(w, n) BY <1>1, <1>4, <1>5, ResumeLists, EventAssumption
<1>8. /\ Len(k'.wait[Ev]) = Len(w) - 1
      /\ \A i \in 1 .. Len(w) - 1 : k'.wait[Ev][i] = IF i < p THEN w[i] ELSE w[i + 1]
  BY <1>2, <1>3, <1>7, RemoveFirstElements
<1>9. Waiting' = Waiting \ {n} BY <1>6, EventAssumption DEF Waiting
<1>10. \A u \in Thread : k'.stat[u] = IF u \in {n} THEN "ready" ELSE k.stat[u]
  BY <1>4, <1>6 DEF KernelState
<1>11. SystemOK(Blocking)'
  <2>1. k.current \in Thread BY <1>1, EventAssumption, KernelAssumption DEF IrqOK, Sending
  <2> QED BY <1>1, <1>5, <1>6, <1>10, <2>1, SystemKept
<1>12. n' # NoThread => n' \in Waiting' /\ n' \in Thread
  <2>1. SUFFICES ASSUME p # Len(w) PROVE w[p + 1] \in Waiting' /\ w[p + 1] \in Thread
    BY <1>3
  <2>2. p + 1 \in 1 .. Len(w) BY <1>2, <2>1
  <2>3. w[p + 1] \in Waiting /\ w[p + 1] \in Thread BY <1>4, <2>2, WaitingFacts DEF Waiting
  <2>4. w[p + 1] # n BY <1>2, <1>3, <2>2 DEF IsInjective
  <2> QED BY <1>9, <2>3, <2>4
<1>13. /\ event_set \in [Thread -> SUBSET Bit] /\ grant \in [Thread -> SUBSET Bit]
       /\ got \in SUBSET Bit /\ set \in SUBSET Bit
  BY <1>5 DEF TypeOK
<1>14. set' \in SUBSET set /\ set' = due' BY <1>1 DEF Cleared
<1>15. /\ event_set'[n] = got /\ grant'[n] = event_set[n] \cap set
       /\ \A u \in Thread \ {n} : event_set'[u] = event_set[u] /\ grant'[u] = grant[u]
  BY <1>1, <1>5, <1>13
<1>16. TypeOK' BY <1>1, <1>6, <1>11, <1>12, <1>13, <1>14 DEF TypeOK, SystemOK
<1>17. IrqOK' BY <1>1, <1>6, <1>12 DEF IrqOK, Sending
<1>18. Walked'
  <2> SUFFICES ASSUME NEW i \in 1 .. Len(w) - 1, \A j \in 1 .. i : k'.wait[Ev][j] # n'
               PROVE  ~Satisfied(event_set'[k'.wait[Ev][i]], event_info'[k'.wait[Ev][i]], set')
    BY <1>8 DEF Walked, Unsatisfied
  <2>1. i < p
    <3> SUFFICES ASSUME p <= i PROVE FALSE
      BY <1>2
    <3>1. p \in 1 .. Len(w) - 1 /\ p # Len(w) BY <1>2
    <3>2. k'.wait[Ev][p] = w[p + 1] BY <1>8, <3>1
    <3> QED BY <1>3, <3>1, <3>2
  <2>2. k'.wait[Ev][i] = w[i] /\ w[i] # n /\ Unsatisfied(w[i]) /\ w[i] \in Thread
    BY <1>2, <1>3, <1>8, <2>1
  <2>3. event_set'[w[i]] = event_set[w[i]] /\ event_info'[w[i]] = event_info[w[i]]
    BY <1>1, <1>15, <2>2
  <2> QED BY <1>14, <2>2, <2>3, SatisfiedMonotone DEF Unsatisfied
<1>19. ASSUME NEW v \in Thread, v = n PROVE ThreadOK(v)'
  <2>1. k.error[v] = "RT_EOK" BY <1>5, <1>19 DEF ThreadOK
  <2>2. PICK r \in Request[v] : r.set = event_set[v] /\ r.option = event_info[v]
    BY <1>5, <1>19 DEF ThreadOK
  <2>3. r.set # {}
    <3>1. r \in [set : (SUBSET Bit) \ {{}}, option : Option] BY <1>5, <1>19, EventAssumption
    <3> QED BY <3>1
  <2>4. grant'[v] # {} /\ grant'[v] = event_set'[v] /\ grant'[v] \subseteq r.set
    BY <1>1, <1>19, <1>15, <2>2, <2>3 DEF Satisfied
  <2>5. r.option.and => grant'[v] = r.set BY <1>1, <1>19, <1>15, <2>2 DEF Satisfied
  <2>6. r.option = event_info'[v] /\ k'.error[v] = "RT_EOK" BY <1>1, <1>19, <1>6, <2>1, <2>2
  <2>7. GrantFits(v)' BY <2>4, <2>5, <2>6 DEF GrantFits
  <2>8. v \in Receiving' /\ v \notin Waiting' /\ k'.stat[v] = "ready"
    BY <1>1, <1>19, <1>5, <1>9, <1>10 DEF Receiving
  <2> QED BY <2>4, <2>7, <2>8 DEF ThreadOK
<1>20. \A u \in Thread \ {n} : ThreadOK(u)'
  <2>1. \A u \in Thread \ {n} : u \in Receiving' <=> u \in Receiving
    BY <1>1 DEF Receiving
  <2> QED BY <1>1, <1>6, <1>9, <1>10, <1>15, <2>1, ThreadKept
<1> QED BY <1>11, <1>14, <1>16, <1>17, <1>18, <1>19, <1>20

\* The end of the section, in a thread or in the handler.
LEMMA SendEndKeeps ==
  ASSUME IInv, SendEnd
  PROVE  IInv'
<1> USE DEF IInv
<1>1. /\ Sending /\ n = NoThread /\ irq' = NoThread /\ need_schedule' = FALSE
      /\ UNCHANGED <<set, event_set, event_info, n, alive, due, grant>>
  BY DEF SendEnd, threadEvents
<1>2. k \in KernelState /\ KernelOK(k) /\ pc \in [Thread -> Pc] BY DEF SystemOK, TypeOK
<1>3. k.current \in Thread BY <1>1, EventAssumption, KernelAssumption DEF IrqOK, Sending
<1>4. /\ SystemOK(Blocking)' /\ pc' \in [Thread -> Pc]
      /\ k'.wait = k.wait /\ k'.stat = k.stat /\ k'.error = k.error
      /\ \A u \in Thread : u \in Receiving' <=> u \in Receiving
      /\ \A u \in Thread : pc'[u] \notin Masked
  <2>1. CASE irq = Handler
    <3>1. pc' = pc /\ k' = IF need_schedule THEN Schedule(k) ELSE k BY <2>1 DEF SendEnd
    <3>2. \A u \in Thread : pc[u] \notin Masked BY <2>1, EventAssumption DEF IrqOK
    <3>3. /\ SystemOK(Blocking)'
          /\ k'.wait = k.wait /\ k'.stat = k.stat /\ k'.error = k.error
      <4>1. CASE need_schedule BY <1>3, <3>1, <4>1, ScheduleEffect
      <4>2. CASE ~need_schedule BY <3>1, <4>2 DEF SystemOK
      <4> QED BY <4>1, <4>2
    <3> QED BY <1>2, <3>1, <3>2, <3>3 DEF Receiving
  <2>2. CASE irq # Handler
    <3>1. PICK t \in Thread : t = irq BY <1>1, <2>2 DEF Sending
    <3>2. pc[t] = "walk" /\ k.current = t BY <1>1, <2>2, <3>1 DEF Sending, IrqOK
    <3>3. PICK to \in {"sched", "run"} : pc' = [pc EXCEPT ![t] = to] /\ k' = k
      BY <2>2, <3>1 DEF SendEnd
    <3>4. /\ pc' \in [Thread -> Pc]
          /\ \A u \in Thread : pc'[u] = IF u = t THEN to ELSE pc[u]
      BY <1>2, <3>3 DEF Pc
    <3>5. SystemOK(Blocking)'
      <4>1. pc[t] \notin Blocking BY <3>2 DEF Blocking
      <4> QED BY <1>2, <3>2, <3>3, <4>1, SystemQuiet
    <3>6. \A u \in Thread : pc'[u] \notin Masked
      <4>1. to \notin Masked BY DEF Masked
      <4> QED BY <3>1, <3>4, <4>1 DEF IrqOK
    <3> QED BY <3>2, <3>3, <3>4, <3>5, <3>6 DEF Receiving
  <2> QED BY <2>1, <2>2
<1>5. TypeOK' BY <1>1, <1>4, <1>2 DEF TypeOK, SystemOK
<1>6. IrqOK' BY <1>1, <1>4, KernelAssumption DEF IrqOK
<1>7. Waiting' = Waiting BY <1>4 DEF Waiting
<1>8. \A u \in Waiting' : Unsatisfied(u)'
  BY <1>1, <1>7, NobodySatisfied DEF Unsatisfied
<1>9. Walked' BY <1>5, <1>8, WalkedOutside DEF TypeOK
<1>10. \A u \in Thread : ThreadOK(u)' BY <1>1, <1>4, <1>7, ThreadKept
<1> QED BY <1>1, <1>4, <1>5, <1>6, <1>9, <1>10

-----------------------------------------------------------------------------
(***************************************************************************)
(* The end of rt_event_control, and rt_event_init: nobody waits, and the   *)
(* set is emptied.                                                         *)
(***************************************************************************)
LEMMA EmptiedKeeps ==
  ASSUME IInv, k.wait[Ev] = <<>>, k' = k, set' = {}, due' = {}, irq' = NoThread,
         n = NoThread, alive' \in BOOLEAN,
         UNCHANGED <<event_set, event_info, n, need_schedule, grant>>,
         NEW t \in Thread, NEW to \in {"run", "sched"}, k.current = t,
         pc[t] \in {"run", "reset_loop"}, pc' = [pc EXCEPT ![t] = to], irq \in {NoThread, t}
  PROVE  IInv'
<1> USE DEF IInv
<1>1. k \in KernelState /\ KernelOK(k) /\ pc \in [Thread -> Pc] BY DEF SystemOK, TypeOK
<1>2. to \in Pc /\ to \notin Masked BY DEF Pc, Masked
<1>3. pc' \in [Thread -> Pc] /\ \A u \in Thread : pc'[u] = IF u = t THEN to ELSE pc[u]
  BY <1>1, <1>2
<1>4. SystemOK(Blocking)'
  <2>1. pc[t] \notin Blocking BY DEF Blocking
  <2> QED BY <1>1, <2>1, SystemQuiet
<1>5. IrqOK' BY <1>2, <1>3, KernelAssumption DEF IrqOK
<1>6. TypeOK' BY <1>3, <1>4 DEF TypeOK, SystemOK
<1>7. Waiting = {} /\ Waiting' = {} BY <1>1, WaitingFacts DEF Waiting
<1>8. Walked' BY <1>1, <1>7, WalkedOutside
<1>9. \A u \in Thread : u \in Receiving' <=> u \in Receiving BY <1>3 DEF Receiving
<1>10. \A u \in Thread : ThreadOK(u)' BY <1>7, <1>9, ThreadKept
<1> QED BY <1>4, <1>5, <1>6, <1>8, <1>10

LEMMA ResetSetKeeps ==
  ASSUME IInv, NEW t \in Thread, ResetSet(t)
  PROVE  IInv'
<1>1. /\ Running(t) /\ k.wait[Ev] = <<>> /\ pc[t] = "reset_loop"
      /\ pc' = [pc EXCEPT ![t] = "sched"] /\ irq' = NoThread /\ set' = {} /\ due' = {}
      /\ UNCHANGED <<k, event_set, event_info, n, need_schedule, alive, grant>>
  BY DEF ResetSet, Goto, threadEvents, walkVars
<1>2. k.current = t /\ irq = t
  <2>1. "reset_loop" \in Masked BY DEF Masked
  <2> QED BY <1>1, <2>1 DEF IInv, IrqOK, Running
<1>3. n = NoThread BY <1>1, <1>2, EventAssumption DEF IInv, IrqOK, Sending
<1>4. alive \in BOOLEAN BY DEF IInv, TypeOK
<1> QED BY <1>1, <1>2, <1>3, <1>4, EmptiedKeeps

LEMMA EventInitKeeps ==
  ASSUME IInv, NEW t \in Thread, EventInit(t)
  PROVE  IInv'
<1>1. /\ Running(t) /\ Receiving = {} /\ pc[t] = "run" /\ pc' = [pc EXCEPT ![t] = "run"]
      /\ set' = {} /\ due' = {} /\ alive' = TRUE
      /\ k' = [k EXCEPT !.wait[Ev] = <<>>] /\ irq' = irq
      /\ UNCHANGED <<event_set, event_info, n, need_schedule, grant>>
  BY DEF EventInit, Goto, threadEvents, walkVars
<1>2. irq = NoThread /\ n = NoThread /\ k.current = t BY <1>1, CallerFacts DEF Masked
<1>3. k \in KernelState BY DEF IInv, TypeOK
<1>4. k.wait[Ev] = <<>>
  <2>1. Waiting \subseteq Thread BY <1>3, WaitingFacts DEF Waiting
  <2>2. Waiting = {} BY <1>1, <2>1 DEF IInv, ThreadOK
  <2> QED BY <1>3, <2>2, WaitingFacts DEF Waiting
<1>5. k' = k
  <2>1. k'.wait = [k.wait EXCEPT ![Ev] = <<>>] BY <1>1, <1>3 DEF KernelState
  <2>2. k.wait \in [Queue -> Seq(Thread)] BY <1>3 DEF KernelState
  <2>3. k'.wait = k.wait BY <1>4, <2>1, <2>2
  <2> QED BY <1>1, <1>3, <2>1, <2>3 DEF KernelState
<1> QED BY <1>1, <1>2, <1>4, <1>5, EmptiedKeeps

-----------------------------------------------------------------------------
(***************************************************************************)
(* The invariant, and what follows.                                        *)
(***************************************************************************)
LEMMA InitEstablishes ==
  ASSUME Init
  PROVE  IInv
<1>1. /\ SystemOK(Blocking) /\ pc = [t \in Thread |-> "run"] /\ irq = NoThread
      /\ \A q \in Queue : k.wait[q] = <<>> /\ ToSet(k.wait[q]) = {}
  BY SystemInitOK DEF Init
<1>2. k.wait[Ev] = <<>> /\ Waiting = {} BY <1>1, EventAssumption DEF Waiting
<1>3. TypeOK BY <1>1 DEF Init, TypeOK, SystemOK, Pc, Option
<1>4. IrqOK BY <1>1, KernelAssumption DEF IrqOK, Init, Masked
<1>5. Walked BY <1>2 DEF Walked
<1>6. \A t \in Thread : t \notin Receiving BY <1>1 DEF Receiving
<1>7. \A t \in Thread : ThreadOK(t) BY <1>2, <1>6 DEF ThreadOK, Init
<1> QED BY <1>1, <1>3, <1>4, <1>5, <1>7 DEF IInv, Init

LEMMA NextKeeps ==
  ASSUME IInv, [Next]_vars
  PROVE  IInv'
<1>1. CASE UNCHANGED vars BY <1>1, StutterKeeps
<1>2. CASE Boot BY <1>2, BootKeeps
<1>3. CASE Tick BY <1>3, YieldKeeps, TimeoutKeeps DEF Tick
<1>4. ASSUME NEW t \in Thread, ThreadStep(t) PROVE IInv'
  <2>1. CASE Compute(t)
    <3>1. UNCHANGED vars BY <2>1 DEF Compute, OwnCode, vars, eventVars
    <3> QED BY <3>1, StutterKeeps
  <2>2. CASE \E r \in Request[t] : RecvNow(t, r) BY <2>2, RecvNowKeeps
  <2>3. CASE \E r \in Request[t] : RecvFail(t, r) BY <2>3, RecvFailKeeps
  <2>4. CASE \E r \in Request[t] : \E time \in Times : RecvSuspend(t, r, time)
    BY <2>4, RecvSuspendKeeps
  <2>5. CASE RecvSchedule(t) \/ CallSchedule(t) BY <2>5, ScheduleKeeps
  <2>6. CASE RecvReturn(t) BY <2>6, RecvReturnKeeps
  <2>7. CASE \E bits \in (SUBSET Bit) \ {{}} : Send(t, bits) BY <2>7, SendKeeps
  <2>8. CASE Reset(t) BY <2>8, MaskKeeps
  <2>9. CASE ResetWake(t) \/ DetachWake(t) BY <2>9, ResumeAllKeeps
  <2>10. CASE ResetSet(t) BY <2>10, ResetSetKeeps
  <2>11. CASE Detach(t) \/ DetachTest(t) BY <2>11, DetachKeeps
  <2>12. CASE DetachLost(t)
    <3>1. CASE LostStep(t)
      <4>1. UNCHANGED vars BY <2>12, <3>1 DEF DetachLost, LostStep, vars, eventVars
      <4> QED BY <4>1, StutterKeeps
    <3>2. CASE ~LostStep(t)
      <4>1. ResumeAllLost(t, Ev, "detach_body") /\ UNCHANGED eventVars
        BY <2>12, <3>2 DEF DetachLost
      <4> QED BY <4>1, MaskKeeps
    <3> QED BY <3>1, <3>2
  <2>13. CASE EventInit(t) BY <2>13, EventInitKeeps
  <2> QED
    BY <1>4, <2>1, <2>2, <2>3, <2>4, <2>5, <2>6, <2>7, <2>8, <2>9, <2>10, <2>11, <2>12, <2>13
    DEF ThreadStep
<1>5. CASE \E bits \in (SUBSET Bit) \ {{}} : IsrSend(bits) BY <1>5, SendKeeps
<1>6. CASE VisitWake BY <1>6, VisitWakeKeeps
<1>7. CASE VisitSkip BY <1>7, VisitSkipKeeps
<1>8. CASE SendEnd BY <1>8, SendEndKeeps
<1> QED BY <1>1, <1>2, <1>3, <1>4, <1>5, <1>6, <1>7, <1>8 DEF Next

LEMMA Invariance == Spec => []IInv
<1>1. Init => IInv BY InitEstablishes
<1>2. IInv /\ [Next]_vars => IInv' BY NextKeeps
<1> QED BY <1>1, <1>2, PTL DEF Spec

\* rt_event_send wakes every thread whose condition holds: outside of its
\* section no thread waits for bits that are set, whatever the walk woke and
\* cleared before it came to it, and the threads on the list are exactly the
\* suspended receivers.
THEOREM NoEventIsMissed == Spec => []NoMissedEvent
<1>1. ASSUME IInv PROVE NoMissedEvent
  <2>1. \A t \in Thread : t \in Waiting <=> (t \in Receiving /\ k.stat[t] = "suspend")
    BY <1>1 DEF IInv, ThreadOK
  <2>2. ASSUME irq = NoThread, NEW t \in Waiting
        PROVE  ~Satisfied(event_set[t], event_info[t], set)
    <3>1. n = NoThread BY <1>1, <2>2, EventAssumption, KernelAssumption DEF IInv, IrqOK, Sending
    <3> QED BY <1>1, <2>2, <3>1, NobodySatisfied DEF Unsatisfied
  <2> QED BY <2>1, <2>2 DEF NoMissedEvent
<1> QED BY <1>1, Invariance, PTL

\* A bit that was sent is set until one receiver with RT_EVENT_FLAG_CLEAR has
\* been given it: none is lost, and none is delivered to two of them.
THEOREM EventsAreConserved == Spec => []EventsConserved
<1>1. IInv => EventsConserved BY DEF IInv, EventsConserved
<1> QED BY <1>1, Invariance, PTL

\* A receiver that was woken by a send returns the bits that were set then and
\* that it asked for, whatever happens before it runs again; any other one
\* that was woken returns an error.
THEOREM WhatIsReceivedWasSent == Spec => []ReceivedWasSent
<1>1. ASSUME IInv PROVE ReceivedWasSent
  <2>1. \A t \in Receiving : t \in Thread BY DEF Receiving
  <2>2. \A t \in Receiving \ Waiting : k.error[t] = "RT_EOK" => grant[t] # {}
    BY <1>1, <2>1 DEF IInv, ThreadOK
  <2>3. \A t \in Receiving : grant[t] # {} => t \notin Waiting /\ GrantFits(t)
    BY <1>1, <2>1 DEF IInv, ThreadOK
  <2> QED BY <2>2, <2>3 DEF ReceivedWasSent, GrantFits
<1> QED BY <1>1, Invariance, PTL
=============================================================================
