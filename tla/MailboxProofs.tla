--------------------------- MODULE MailboxProofs ---------------------------
(***************************************************************************)
(* The mailbox of module Mailbox loses no wake-up on either of its lists,  *)
(* keeps the waiting time of a call, and implements a bounded queue, for   *)
(* any threads, priorities, mails and any size of the ring, with sends     *)
(* from interrupt handlers, time-outs, reset and detach.                   *)
(***************************************************************************)
EXTENDS Mailbox, KernelProofs, FiniteSetTheorems

Blocking == {"send_sched", "recv_sched"}

\* The places where a thread has interrupts disabled from one step to the next.
Masked == {"reset_recv", "reset_send", "lost"}

\* The places of rt_mb_recv, its end included.
Reading == {t \in Thread : pc[t] \in {"recv_sched", "recv_return", "recv_end",
                                      "recv_end_sched"}}

\* irq is the thread at such a place; no receiver waits any more when a reset
\* comes to the senders.
IrqOK ==
    /\ \A t \in Thread : irq = t <=> pc[t] \in Masked
    /\ irq # NoThread => k.current = irq
    /\ \A t \in Thread : pc[t] = "reset_send" => k.wait[Recv] = <<>>

\* The offsets enclose the mails.
RingOK == in_offset = (out_offset + entry) % Size

\* A thread in a call is on the list of the call while it is suspended, and its
\* timer runs if it waits for a limited time.
ThreadOK(t) ==
    /\ t \in ToSet(k.wait[Send]) <=> (t \in InSend /\ k.stat[t] = "suspend")
    /\ t \in ToSet(k.wait[Recv]) <=> (t \in InRecv /\ k.stat[t] = "suspend")
    /\ t \in InSend => t \in Sender
    /\ t \in Reading => t \in Receiver
    /\ t \in InSend \cup InRecv => called[t] # "zero" /\ timeout[t] = called[t]
    /\ t \in ToSet(k.wait[Send]) \cup ToSet(k.wait[Recv]) =>
          k.error[t] = "RT_EOK" /\ (called[t] = "timed" <=> t \in k.armed)

\* The senders and the receivers that were woken and have yet to run.
WokenS == Woken(InSend, Send)
WokenR == Woken(InRecv, Recv)

\* While threads wait, there are enough of them.
SendCount == k.wait[Send] # <<>> => Size - entry <= Cardinality(WokenS)
RecvCount == k.wait[Recv] # <<>> => entry <= Cardinality(WokenR)

IInv ==
    /\ TypeOK
    /\ SystemOK(Blocking)
    /\ IrqOK
    /\ RingOK
    /\ SendCount /\ RecvCount
    /\ \A t \in Thread : ThreadOK(t)

-----------------------------------------------------------------------------
(***************************************************************************)
(* What the parts of the invariant say at the places they are used.        *)
(***************************************************************************)
LEMMA Types ==
  ASSUME IInv
  PROVE  /\ k \in KernelState /\ KernelOK(k) /\ k.nest = 0 /\ pc \in [Thread -> Pc]
         /\ k.stat \in [Thread -> Stat] /\ k.error \in [Thread -> Error]
         /\ k.armed \in SUBSET Thread
         /\ Send \in Queue /\ Recv \in Queue /\ Send # Recv
         /\ Flag \in {"RT_IPC_FLAG_FIFO", "RT_IPC_FLAG_PRIO"}
         /\ NoThread \notin Thread
         /\ WokenS \in SUBSET Thread /\ WokenR \in SUBSET Thread
         /\ entry \in 0 .. Size /\ Size \in Nat \ {0}
         /\ timeout \in [Thread -> Time] /\ called \in [Thread -> Time]
         /\ mail \in [Thread -> Mail \cup {NoMail}]
BY KernelAssumption, MailboxAssumption
   DEF IInv, TypeOK, SystemOK, KernelState, WokenS, WokenR, Woken, InSend, InRecv

\* A thread that runs its own code with interrupts enabled.
LEMMA CallerFacts ==
  ASSUME IInv, NEW t \in Thread, Running(t), pc[t] \notin Masked
  PROVE  /\ irq = NoThread /\ k.current = t
         /\ pc[t] \notin Blocking =>
               /\ k.stat[t] = "ready"
               /\ t \notin ToSet(k.wait[Send]) /\ t \notin ToSet(k.wait[Recv])
               /\ t \notin k.armed
<1>1. irq = NoThread /\ k.current = t BY DEF Running, IInv, IrqOK
<1>2. ASSUME pc[t] \notin Blocking
      PROVE  /\ k.stat[t] = "ready"
             /\ t \notin ToSet(k.wait[Send]) /\ t \notin ToSet(k.wait[Recv])
             /\ t \notin k.armed
  <2>1. k.stat[t] = "ready" BY <1>1, <1>2 DEF IInv, SystemOK
  <2> QED BY <2>1 DEF IInv, ThreadOK, SystemOK, KernelOK, TimersOK
<1> QED BY <1>1, <1>2

\* The lists, by their members.
LEMMA ListFacts ==
  ASSUME NEW c \in KernelState, NEW q \in Queue
  PROVE  /\ c.wait[q] \in Seq(Thread)
         /\ c.wait[q] = <<>> <=> ToSet(c.wait[q]) = {}
         /\ ToSet(c.wait[q]) \subseteq Thread
<1>1. c.wait[q] \in Seq(Thread) BY DEF KernelState
<1> QED BY <1>1, HeadToSet

\* The place of thread u, as far as the calls are concerned, stays what it is ...
Stays(u) ==
    /\ u \in InSend' <=> u \in InSend
    /\ u \in InRecv' <=> u \in InRecv
    /\ u \in Reading' <=> u \in Reading

\* ... and so do its membership of the lists and what it waits with.
Same(u) ==
    /\ Stays(u)
    /\ u \in ToSet(k'.wait[Send]) <=> u \in ToSet(k.wait[Send])
    /\ u \in ToSet(k'.wait[Recv]) <=> u \in ToSet(k.wait[Recv])
    /\ u \in InSend \cup InRecv => /\ k'.stat[u] = k.stat[u]
                                   /\ k'.error[u] = k.error[u]
                                   /\ u \in k'.armed <=> u \in k.armed
    /\ timeout'[u] = timeout[u] /\ called'[u] = called[u]

LEMMA SameKept ==
  ASSUME NEW u \in Thread, ThreadOK(u), Same(u)
  PROVE  /\ ThreadOK(u)'
         /\ u \in WokenS' <=> u \in WokenS
         /\ u \in WokenR' <=> u \in WokenR
<1>1. ThreadOK(u)' BY DEF ThreadOK, Same, Stays
<1>2. u \in WokenS' <=> u \in WokenS BY DEF Same, Stays, WokenS, Woken
<1>3. u \in WokenR' <=> u \in WokenR BY DEF Same, Stays, WokenR, Woken
<1> QED BY <1>1, <1>2, <1>3

\* A thread that is in no call and on no list.
LEMMA OutsideOK ==
  ASSUME NEW u \in Thread, u \notin InSend', u \notin InRecv',
         u \in Reading' => u \in Receiver,
         u \notin ToSet(k'.wait[Send]), u \notin ToSet(k'.wait[Recv])
  PROVE  ThreadOK(u)' /\ u \notin WokenS' /\ u \notin WokenR'
BY DEF ThreadOK, WokenS, WokenR, Woken

\* The counts do not notice a step that leaves the mailbox and the sets of
\* woken threads alone, and puts nobody on a list.
LEMMA CountsKept ==
  ASSUME IInv, k' \in KernelState, entry' = entry,
         ToSet(k'.wait[Send]) \subseteq ToSet(k.wait[Send]),
         ToSet(k'.wait[Recv]) \subseteq ToSet(k.wait[Recv]),
         \A u \in Thread : (u \in WokenS' <=> u \in WokenS) /\ (u \in WokenR' <=> u \in WokenR)
  PROVE  SendCount' /\ RecvCount'
<1>1. /\ k'.wait[Send] # <<>> => k.wait[Send] # <<>>
      /\ k'.wait[Recv] # <<>> => k.wait[Recv] # <<>>
  BY Types, ListFacts
<1>2. WokenS' \subseteq Thread /\ WokenR' \subseteq Thread
  BY DEF WokenS, WokenR, Woken, InSend, InRecv
<1>3. WokenS' = WokenS /\ WokenR' = WokenR BY <1>2, Types
<1> QED BY <1>1, <1>3 DEF IInv, SendCount, RecvCount

\* A step that changes neither the mailbox nor a call nor the lists.
LEMMA Quiet ==
  ASSUME IInv, SystemOK(Blocking)', IrqOK', irq' \in Thread \cup {NoThread},
         pc' \in [Thread -> Pc], alive' \in BOOLEAN, UNCHANGED <<boxVars, callVars>>,
         k'.wait = k.wait,
         \A u \in Thread : Stays(u),
         \A u \in Thread : u \in InSend \cup InRecv =>
            /\ k'.stat[u] = k.stat[u] /\ k'.error[u] = k.error[u]
            /\ u \in k'.armed <=> u \in k.armed
  PROVE  IInv'
<1>1. /\ UNCHANGED <<msg_pool, in_offset, out_offset, entry, timeout, mail, called>>
  BY DEF boxVars, callVars
<1>2. TypeOK' BY <1>1 DEF IInv, TypeOK, SystemOK
<1>3. RingOK' BY <1>1 DEF IInv, RingOK
<1>4. \A u \in Thread : Same(u) BY <1>1 DEF Same
<1>5. \A u \in Thread : /\ ThreadOK(u)'
                        /\ (u \in WokenS' <=> u \in WokenS) /\ (u \in WokenR' <=> u \in WokenR)
  BY <1>4, SameKept DEF IInv
<1>6. SendCount' /\ RecvCount' BY <1>1, <1>2, <1>5, CountsKept DEF TypeOK
<1> QED BY <1>2, <1>3, <1>5, <1>6 DEF IInv

LEMMA StutterKeeps ==
  ASSUME IInv, UNCHANGED vars
  PROVE  IInv'
<1>1. UNCHANGED <<boxVars, callVars>> /\ k' = k /\ irq' = irq /\ pc' = pc /\ alive' = alive
  BY DEF vars, boxVars, callVars
<1>2. SystemOK(Blocking)' /\ IrqOK' BY <1>1 DEF IInv, SystemOK, IrqOK
<1>3. \A u \in Thread : Stays(u) BY <1>1 DEF Stays, InSend, InRecv, Reading
<1> QED BY <1>1, <1>2, <1>3, Quiet DEF IInv, TypeOK

-----------------------------------------------------------------------------
(***************************************************************************)
(* The steps that send and receive nothing.                                *)
(***************************************************************************)

\* A step of t with interrupts enabled before and after it.
LEMMA IrqCalm ==
  ASSUME IInv, irq = NoThread, irq' = NoThread, NEW t \in Thread, NEW to \in Pc \ Masked,
         pc' = [pc EXCEPT ![t] = to]
  PROVE  IrqOK' /\ pc' \in [Thread -> Pc] /\ \A u \in Thread : pc'[u] = IF u = t THEN to ELSE pc[u]
<1>1. pc \in [Thread -> Pc] BY Types
<1>2. \A u \in Thread : pc'[u] = IF u = t THEN to ELSE pc[u] BY <1>1
<1>3. NoThread \notin Thread BY KernelAssumption
<1>4. \A u \in Thread : pc'[u] \notin Masked BY <1>2, <1>3 DEF IInv, IrqOK
<1>5. IrqOK' BY <1>3, <1>4 DEF IrqOK, Masked
<1> QED BY <1>1, <1>2, <1>5

LEMMA BootKeeps ==
  ASSUME IInv, Boot
  PROVE  IInv'
<1>1. SystemOK(Blocking) /\ "run" \notin Blocking BY DEF IInv, Blocking
<1>2. StartStep \/ \E t \in Thread : BootStep(t) BY DEF Boot
<1>3. /\ SystemOK(Blocking)' /\ k'.wait = k.wait /\ pc' = pc /\ irq' = irq
      /\ \A u \in Thread : pc[u] = "run"
  BY <1>1, <1>2, BootEffect
<1>4. UNCHANGED <<boxVars, callVars, alive>> BY DEF Boot, mailboxVars
<1>5. \A u \in Thread : Stays(u) /\ u \notin InSend \cup InRecv
  BY <1>3 DEF Stays, InSend, InRecv, Reading
<1>6. k.current = NoThread BY DEF Boot, StartStep, BootStep
<1>7. irq = NoThread BY <1>6 DEF IInv, IrqOK
<1>8. IrqOK' BY <1>3, <1>7, KernelAssumption DEF IrqOK, Masked
<1> QED BY <1>3, <1>4, <1>5, <1>8, Quiet DEF IInv, TypeOK

\* A thread calls rt_schedule, to block or at the end of a call.
LEMMA ScheduleKeeps ==
  ASSUME IInv, NEW t \in Thread, SendSchedule(t) \/ RecvSchedule(t) \/ CallSchedule(t)
  PROVE  IInv'
<1>1. PICK from \in {"send_sched", "recv_sched", "sched"},
           to \in {"send_return", "recv_return", "run"} :
         /\ ScheduleStep(t, from, to) /\ UNCHANGED mailboxVars
         /\ from = "send_sched" <=> to = "send_return"
         /\ from = "recv_sched" <=> to = "recv_return"
  <2>1. CASE SendSchedule(t) BY <2>1 DEF SendSchedule
  <2>2. CASE RecvSchedule(t) BY <2>2 DEF RecvSchedule
  <2>3. CASE CallSchedule(t) BY <2>3 DEF CallSchedule
  <2> QED BY <2>1, <2>2, <2>3
<1>2. /\ Running(t) /\ pc[t] = from /\ pc' = [pc EXCEPT ![t] = to]
      /\ k' = Schedule(k) /\ irq' = irq
  BY <1>1 DEF ScheduleStep, Goto
<1>3. irq = NoThread /\ k.current = t BY <1>1, <1>2, CallerFacts DEF Masked
<1>4. /\ SystemOK(Blocking)' /\ k'.stat = k.stat /\ k'.wait = k.wait
      /\ k'.error = k.error /\ k'.armed = k.armed
  <2>1. SystemOK(Blocking) BY DEF IInv
  <2> QED BY <1>2, <1>3, <2>1, ScheduleEffect
<1>5. to \in Pc \ Masked BY <1>1 DEF Pc, Masked
<1>6. /\ IrqOK' /\ pc' \in [Thread -> Pc]
      /\ \A u \in Thread : pc'[u] = IF u = t THEN to ELSE pc[u]
  BY <1>2, <1>3, <1>5, IrqCalm
<1>7. \A u \in Thread : Stays(u)
  BY <1>1, <1>2, <1>6 DEF Stays, InSend, InRecv, Reading
<1>8. UNCHANGED <<boxVars, callVars, alive>> BY <1>1 DEF mailboxVars
<1> QED BY <1>2, <1>4, <1>6, <1>7, <1>8, Quiet DEF IInv, TypeOK

LEMMA YieldKeeps ==
  ASSUME IInv, YieldStep, UNCHANGED mailboxVars
  PROVE  IInv'
<1>1. /\ SystemOK(Blocking)' /\ pc' = pc /\ irq' = irq
      /\ k'.stat = k.stat /\ k'.wait = k.wait /\ k'.error = k.error /\ k'.armed = k.armed
  BY YieldEffect DEF IInv
<1>2. irq = NoThread BY DEF YieldStep, Interrupt
<1>3. IrqOK' BY <1>1, <1>2 DEF IInv, IrqOK
<1>4. \A u \in Thread : Stays(u) BY <1>1 DEF Stays, InSend, InRecv, Reading
<1>5. UNCHANGED <<boxVars, callVars, alive>> BY DEF mailboxVars
<1> QED BY <1>1, <1>3, <1>4, <1>5, Quiet DEF IInv, TypeOK

\* The calls that only go on to another place of their own.
LEMMA DetachKeeps ==
  ASSUME IInv, NEW t \in Thread,
         \/ Detach(t)
         \/ /\ \/ ResumeAllTest(t, Recv, "detach_recv", "detach_recv_body", "detach_send")
               \/ ResumeAllTest(t, Send, "detach_send", "detach_send_body", "run")
            /\ UNCHANGED mailboxVars
  PROVE  IInv'
<1> DEFINE Places == {"run", "detach_recv", "detach_recv_body", "detach_send",
                      "detach_send_body"}
<1>1. PICK from \in Places, to \in Places :
         /\ Running(t) /\ pc[t] = from /\ pc' = [pc EXCEPT ![t] = to]
         /\ UNCHANGED <<k, irq, boxVars, callVars>> /\ alive' \in BOOLEAN
  <2>1. CASE Detach(t)
    BY <2>1 DEF Detach, Goto
  <2>2. alive \in BOOLEAN BY DEF IInv, TypeOK
  <2>3. CASE /\ ResumeAllTest(t, Recv, "detach_recv", "detach_recv_body", "detach_send")
             /\ UNCHANGED mailboxVars
    BY <2>2, <2>3 DEF ResumeAllTest, Goto, mailboxVars
  <2>4. CASE /\ ResumeAllTest(t, Send, "detach_send", "detach_send_body", "run")
             /\ UNCHANGED mailboxVars
    BY <2>2, <2>4 DEF ResumeAllTest, Goto, mailboxVars
  <2> QED BY <2>1, <2>3, <2>4
<1>2. irq = NoThread /\ k.current = t BY <1>1, CallerFacts DEF Masked
<1>3. to \in Pc \ Masked BY <1>1 DEF Pc, Masked
<1>4. /\ IrqOK' /\ pc' \in [Thread -> Pc]
      /\ \A u \in Thread : pc'[u] = IF u = t THEN to ELSE pc[u]
  BY <1>1, <1>2, <1>3, IrqCalm
<1>5. SystemOK(Blocking)'
  <2>1. SystemOK(Blocking) /\ k \in KernelState /\ KernelOK(k) BY Types DEF IInv
  <2>2. pc[t] \notin Blocking BY <1>1 DEF Blocking
  <2> QED BY <1>1, <1>2, <2>1, <2>2, SystemQuiet
<1>6. \A u \in Thread : Stays(u) BY <1>1, <1>4 DEF Stays, InSend, InRecv, Reading
<1> QED BY <1>1, <1>4, <1>5, <1>6, Quiet DEF IInv, TypeOK

\* A thread disables interrupts, for a reset or on the list that a time-out has
\* emptied, or goes from the receivers to the senders in a reset.
LEMMA MaskKeeps ==
  ASSUME IInv, NEW t \in Thread,
         \/ Reset(t)
         \/ /\ \/ ResumeAllLost(t, Recv, "detach_recv_body")
               \/ ResumeAllLost(t, Send, "detach_send_body")
               \/ /\ ResumeAllTest(t, Recv, "reset_recv", "reset_recv", "reset_send")
                  /\ k.wait[Recv] = <<>>
            /\ UNCHANGED mailboxVars
  PROVE  IInv'
<1>1. PICK from \in {"run", "detach_recv_body", "detach_send_body", "reset_recv"},
           to \in {"reset_recv", "lost", "reset_send"} :
         /\ Running(t) /\ pc[t] = from /\ pc' = [pc EXCEPT ![t] = to]
         /\ to = "reset_send" => k.wait[Recv] = <<>>
         /\ irq' = t \/ (from = "reset_recv" /\ irq' = irq)
         /\ UNCHANGED <<k, mailboxVars>>
  <2>1. CASE Reset(t)
    BY <2>1 DEF Reset, Goto
  <2>2. CASE ResumeAllLost(t, Recv, "detach_recv_body") /\ UNCHANGED mailboxVars
    BY <2>2 DEF ResumeAllLost, Goto
  <2>3. CASE ResumeAllLost(t, Send, "detach_send_body") /\ UNCHANGED mailboxVars
    BY <2>3 DEF ResumeAllLost, Goto
  <2>4. CASE /\ ResumeAllTest(t, Recv, "reset_recv", "reset_recv", "reset_send")
             /\ k.wait[Recv] = <<>> /\ UNCHANGED mailboxVars
    BY <2>4 DEF ResumeAllTest, Goto
  <2> QED BY <2>1, <2>2, <2>3, <2>4
<1>2. k.current = t /\ irq \in {NoThread, t} BY <1>1 DEF Running
<1>3. irq' = t BY <1>1 DEF IInv, IrqOK, Masked
<1>4. pc \in [Thread -> Pc] /\ to \in Pc /\ to \in Masked BY Types DEF Pc, Masked
<1>5. pc' \in [Thread -> Pc] /\ \A u \in Thread : pc'[u] = IF u = t THEN to ELSE pc[u]
  BY <1>1, <1>4
<1>6. IrqOK'
  <2>1. \A u \in Thread : irq' = u <=> pc'[u] \in Masked
    BY <1>2, <1>3, <1>4, <1>5, KernelAssumption DEF IInv, IrqOK
  <2>2. \A u \in Thread : pc'[u] = "reset_send" => u = t BY <1>3, <2>1 DEF Masked
  <2> QED BY <1>1, <1>2, <1>3, <1>5, <2>1, <2>2 DEF IrqOK
<1>7. SystemOK(Blocking)'
  <2>1. SystemOK(Blocking) /\ k \in KernelState /\ KernelOK(k) BY Types DEF IInv
  <2>2. pc[t] \notin Blocking BY <1>1 DEF Blocking
  <2> QED BY <1>1, <1>2, <2>1, <2>2, SystemQuiet
<1>8. \A u \in Thread : Stays(u) BY <1>1, <1>5 DEF Stays, InSend, InRecv, Reading
<1> QED BY <1>1, <1>3, <1>5, <1>6, <1>7, <1>8, Quiet DEF IInv, TypeOK, mailboxVars

-----------------------------------------------------------------------------
(***************************************************************************)
(* A waiting thread is woken with an error: by its timer, by reset or by   *)
(* detach.                                                                 *)
(***************************************************************************)
LEMMA WokenWithError ==
  ASSUME IInv, SystemOK(Blocking)', IrqOK', irq' = irq, pc' \in [Thread -> Pc],
         UNCHANGED mailboxVars, NEW w \in Thread, k.stat[w] = "suspend",
         ToSet(k'.wait[Send]) = ToSet(k.wait[Send]) \ {w},
         ToSet(k'.wait[Recv]) = ToSet(k.wait[Recv]) \ {w},
         \A u \in Thread : Stays(u),
         k'.stat = [k.stat EXCEPT ![w] = "ready"], k'.armed = k.armed \ {w},
         NEW e \in Error \ {"RT_EOK"}, k'.error = [k.error EXCEPT ![w] = e]
  PROVE  IInv'
<1>1. UNCHANGED <<msg_pool, in_offset, out_offset, entry, timeout, mail, called, alive>>
  BY DEF mailboxVars, boxVars, callVars
<1>2. TypeOK' BY <1>1 DEF IInv, TypeOK, SystemOK
<1>3. RingOK' BY <1>1 DEF IInv, RingOK
<1>4. /\ k'.stat[w] = "ready" /\ k'.error[w] # "RT_EOK"
      /\ \A u \in Thread \ {w} : k'.stat[u] = k.stat[u] /\ k'.error[u] = k.error[u]
  BY Types
<1>5. \A u \in Thread \ {w} : Same(u) BY <1>1, <1>4 DEF Same
<1>6. \A u \in Thread \ {w} :
         /\ ThreadOK(u)'
         /\ (u \in WokenS' <=> u \in WokenS) /\ (u \in WokenR' <=> u \in WokenR)
  BY <1>5, SameKept DEF IInv
<1>7. ThreadOK(w) BY DEF IInv
<1>8. ThreadOK(w)' BY <1>1, <1>4, <1>7 DEF ThreadOK, Stays
<1>9. w \notin WokenS /\ w \notin WokenR /\ w \notin WokenS' /\ w \notin WokenR'
  BY <1>4, <1>7 DEF ThreadOK, WokenS, WokenR, Woken
<1>10. SendCount' /\ RecvCount' BY <1>1, <1>2, <1>6, <1>9, CountsKept DEF TypeOK
<1> QED BY <1>2, <1>3, <1>6, <1>8, <1>10 DEF IInv

LEMMA TimeoutKeeps ==
  ASSUME IInv, NEW w \in Thread, TimeoutStep(w), UNCHANGED mailboxVars
  PROVE  IInv'
<1>1. /\ SystemOK(Blocking)' /\ pc' = pc /\ irq' = irq /\ k.stat[w] = "suspend"
      /\ k'.stat = [k.stat EXCEPT ![w] = "ready"]
      /\ k'.error = [k.error EXCEPT ![w] = "RT_ETIMEOUT"]
      /\ k'.armed = k.armed \ {w}
      /\ \A q \in Queue : ToSet(k'.wait[q]) = ToSet(k.wait[q]) \ {w}
  BY TimeoutEffect DEF IInv
<1>2. irq = NoThread BY DEF TimeoutStep, Interrupt
<1>3. IrqOK' BY <1>1, <1>2, KernelAssumption DEF IInv, IrqOK, Masked
<1>4. \A u \in Thread : Stays(u) BY <1>1 DEF Stays, InSend, InRecv, Reading
<1>5. pc' \in [Thread -> Pc] BY <1>1, Types
<1>6. "RT_ETIMEOUT" \in Error \ {"RT_EOK"} BY DEF Error
<1> QED BY <1>1, <1>3, <1>4, <1>5, <1>6, WokenWithError, MailboxAssumption

\* One turn of rt_ipc_list_resume_all on list q, with interrupts disabled
\* throughout or for this turn.
LEMMA ResumeAllKeeps ==
  ASSUME IInv, NEW t \in Thread, NEW q \in {Send, Recv}, UNCHANGED mailboxVars,
         NEW from \in {"reset_recv", "reset_send", "detach_recv_body", "detach_send_body"},
         NEW to \in {"reset_recv", "reset_send", "detach_recv", "detach_send"},
         from \in Masked \/ to \in Masked => from = to,
         ResumeAllWake(t, q, from, to)
  PROVE  IInv'
<1> DEFINE w == Head(k.wait[q])
<1>1. /\ Running(t) /\ k.wait[q] # <<>> /\ pc[t] = from /\ pc' = [pc EXCEPT ![t] = to]
      /\ k' = IpcListResumeError(k, q) /\ irq' = irq
  BY DEF ResumeAllWake, Goto
<1>2. pc \in [Thread -> Pc] /\ from \in Pc /\ to \in Pc BY Types DEF Pc
<1>3. pc' \in [Thread -> Pc] /\ \A u \in Thread : pc'[u] = IF u = t THEN to ELSE pc[u]
  BY <1>1, <1>2
<1>4. k.current = t BY <1>1 DEF Running
<1>5. pc[k.current] \notin Blocking BY <1>1, <1>4 DEF Blocking
<1>6. q \in Queue /\ SystemOK(Blocking) BY MailboxAssumption DEF IInv
<1>7. /\ w \in Thread /\ w \in ToSet(k.wait[q]) /\ k.stat[w] = "suspend"
      /\ SystemOK(Blocking)'
      /\ k'.stat = [k.stat EXCEPT ![w] = "ready"]
      /\ k'.armed = k.armed \ {w}
      /\ k'.error = [k.error EXCEPT ![w] = "RT_ERROR"]
      /\ ToSet(k'.wait[q]) = ToSet(k.wait[q]) \ {w}
      /\ \A r \in Queue \ {q} : w \notin ToSet(k.wait[r]) /\ k'.wait[r] = k.wait[r]
  BY <1>1, <1>4, <1>5, <1>6, WakeEffect, SMTT(30)
<1>8. k'.current = k.current
  <2>1. k \in KernelState /\ KernelOK(k) BY Types
  <2> QED BY <1>1, <1>6, <1>7, <2>1, IpcListResumeErrorProperties
<1> HIDE DEF w
<1>9. \A r \in Queue : ToSet(k'.wait[r]) = ToSet(k.wait[r]) \ {w} BY <1>7
<1>10. IrqOK'
  <2>1. \A u \in Thread : /\ pc'[u] \in Masked <=> pc[u] \in Masked
                          /\ pc'[u] = "reset_send" => pc[u] = "reset_send"
    BY <1>1, <1>3 DEF Masked
  <2>2. k.wait[Recv] = <<>> => k'.wait[Recv] = <<>>
    <3>1. k \in KernelState /\ k' \in KernelState /\ Recv \in Queue
      BY <1>7, Types DEF SystemOK
    <3>2. ToSet(k'.wait[Recv]) = ToSet(k.wait[Recv]) \ {w} BY <1>9, <3>1
    <3> QED BY <3>1, <3>2, ListFacts
  <2> QED BY <1>1, <1>8, <2>1, <2>2 DEF IInv, IrqOK
<1>11. \A u \in Thread : Stays(u) BY <1>1, <1>3 DEF Stays, InSend, InRecv, Reading
<1>12. "RT_ERROR" \in Error \ {"RT_EOK"} BY DEF Error
<1> QED BY <1>1, <1>3, <1>7, <1>9, <1>10, <1>11, <1>12, WokenWithError, MailboxAssumption

-----------------------------------------------------------------------------
(***************************************************************************)
(* A call returns, with an error or with the mail it has taken.            *)
(***************************************************************************)
LEMMA LeaveKeeps ==
  ASSUME IInv, NEW t \in Thread, Running(t),
         pc[t] \in {"run", "send_return", "recv_return", "recv_end", "recv_end_sched"},
         pc' = [pc EXCEPT ![t] = "run"], irq' = irq, Returned(t), UNCHANGED <<boxVars, alive>>,
         SystemOK(Blocking)', k'.stat = k.stat, k'.wait = k.wait, k'.armed = k.armed,
         \A u \in Thread \ {t} : k'.error[u] = k.error[u],
         t \in WokenS => entry = Size, t \in WokenR => entry = 0
  PROVE  IInv'
<1>1. /\ irq = NoThread /\ t \notin ToSet(k.wait[Send]) /\ t \notin ToSet(k.wait[Recv])
  BY CallerFacts DEF Masked, Blocking
<1>2. "run" \in Pc \ Masked BY DEF Pc, Masked
<1>3. /\ IrqOK' /\ pc' \in [Thread -> Pc]
      /\ \A u \in Thread : pc'[u] = IF u = t THEN "run" ELSE pc[u]
  BY <1>1, <1>2, IrqCalm
<1>4. /\ timeout' = [timeout EXCEPT ![t] = "zero"] /\ mail' = [mail EXCEPT ![t] = NoMail]
      /\ called' = [called EXCEPT ![t] = "zero"]
      /\ UNCHANGED <<msg_pool, in_offset, out_offset, entry>>
  BY DEF Returned, boxVars
<1>5. TypeOK' BY <1>3, <1>4, Types DEF IInv, TypeOK, SystemOK, Time
<1>6. RingOK' BY <1>4 DEF IInv, RingOK
<1>7. ASSUME NEW u \in Thread \ {t} PROVE Same(u)
  <2>1. Stays(u) BY <1>3 DEF Stays, InSend, InRecv, Reading
  <2>2. timeout'[u] = timeout[u] /\ called'[u] = called[u] BY <1>4, Types
  <2> QED BY <2>1, <2>2 DEF Same
<1>8. \A u \in Thread \ {t} :
         /\ ThreadOK(u)'
         /\ (u \in WokenS' <=> u \in WokenS) /\ (u \in WokenR' <=> u \in WokenR)
  BY <1>7, SameKept DEF IInv
<1>9. ThreadOK(t)' /\ t \notin WokenS' /\ t \notin WokenR'
  <2>1. t \notin InSend' /\ t \notin InRecv' /\ t \notin Reading'
    BY <1>3 DEF InSend, InRecv, Reading
  <2> QED BY <1>1, <2>1, OutsideOK
<1>10. WokenS' \in SUBSET Thread /\ WokenR' \in SUBSET Thread
  BY DEF WokenS, WokenR, Woken, InSend, InRecv
<1>11. /\ Cardinality(WokenS') \in Nat /\ Cardinality(WokenR') \in Nat
       /\ t \notin WokenS => Cardinality(WokenS) <= Cardinality(WokenS')
       /\ t \notin WokenR => Cardinality(WokenR) <= Cardinality(WokenR')
       /\ Cardinality(WokenS) \in Nat /\ Cardinality(WokenR) \in Nat
  <2>1. t \notin WokenS => WokenS \subseteq WokenS' BY <1>8, Types
  <2>2. t \notin WokenR => WokenR \subseteq WokenR' BY <1>8, Types
  <2> QED BY <1>10, <2>1, <2>2, CountKept, Types
<1>12. SendCount' /\ RecvCount'
  BY <1>4, <1>11, Types DEF IInv, SendCount, RecvCount
<1> QED BY <1>3, <1>5, <1>6, <1>8, <1>9, <1>12 DEF IInv

\* -RT_EFULL, and the errors of threads that were woken with one.
LEMMA RefusedKeeps ==
  ASSUME IInv, NEW t \in Thread,
         SendError(t) \/ RecvError(t) \/ \E v \in Mail : SendFull(t, v)
  PROVE  IInv'
<1>1. /\ Running(t) /\ pc[t] \in {"run", "send_return", "recv_return"}
      /\ pc' = [pc EXCEPT ![t] = "run"] /\ Returned(t)
      /\ UNCHANGED <<k, irq, boxVars, alive>>
      /\ k.error[t] # "RT_EOK" \/ (entry = Size /\ pc[t] # "recv_return")
  BY DEF SendError, RecvError, SendFull, AtSend, Goto
<1>2. SystemOK(Blocking)'
  <2>1. SystemOK(Blocking) /\ k \in KernelState /\ KernelOK(k) BY Types DEF IInv
  <2>2. pc[t] \notin Blocking /\ k.current = t BY <1>1 DEF Blocking, Running
  <2> QED BY <1>1, <2>1, <2>2, SystemQuiet
<1>3. (t \in WokenS => entry = Size) /\ (t \in WokenR => entry = 0)
  BY <1>1 DEF WokenS, WokenR, Woken, InRecv
<1> QED BY <1>1, <1>2, <1>3, LeaveKeeps

\* No mail, and no time (left).
LEMMA RecvEmptyKeeps ==
  ASSUME IInv, NEW t \in Thread, RecvEmpty(t)
  PROVE  IInv'
<1>1. /\ Running(t) /\ pc[t] \in {"run", "recv_return"} /\ entry = 0
      /\ pc' = [pc EXCEPT ![t] = "run"] /\ Returned(t)
      /\ UNCHANGED <<irq, boxVars, alive>>
      /\ k' = IF pc[t] = "run" THEN k ELSE [k EXCEPT !.error[t] = "RT_ETIMEOUT"]
  BY DEF RecvEmpty, AtRecv
<1>2. k \in KernelState /\ KernelOK(k) /\ "RT_ETIMEOUT" \in Error BY Types DEF Error
<1>3. LET s == [k EXCEPT !.error[t] = "RT_ETIMEOUT"]
      IN  /\ s \in KernelState /\ KernelOK(s) /\ s.stat = k.stat /\ s.wait = k.wait
          /\ s.armed = k.armed /\ s.nest = k.nest /\ s.current = k.current
          /\ s.error = [k.error EXCEPT ![t] = "RT_ETIMEOUT"]
  BY ONLY <1>2, t \in Thread, SetErrorProperties
<1>4. /\ k' \in KernelState /\ KernelOK(k') /\ k'.stat = k.stat /\ k'.wait = k.wait
      /\ k'.armed = k.armed /\ k'.nest = k.nest /\ k'.current = k.current
      /\ \A u \in Thread \ {t} : k'.error[u] = k.error[u]
  <2>1. CASE pc[t] = "run" BY <1>1, <1>2, <2>1
  <2>2. CASE pc[t] # "run"
    <3>1. k' = [k EXCEPT !.error[t] = "RT_ETIMEOUT"] BY <1>1, <2>2
    <3>2. k'.error = [k.error EXCEPT ![t] = "RT_ETIMEOUT"] BY <1>3, <3>1
    <3>3. \A u \in Thread \ {t} : k'.error[u] = k.error[u] BY <3>2, Types
    <3> QED BY <1>3, <3>1, <3>3
  <2> QED BY <2>1, <2>2
<1>5. SystemOK(Blocking)'
  <2>1. SystemOK(Blocking) BY DEF IInv
  <2>2. pc[t] \notin Blocking /\ k.current = t BY <1>1 DEF Blocking, Running
  <2> QED BY <1>4, <2>1, <2>2, SystemQuiet
<1>6. (t \in WokenS => entry = Size) /\ (t \in WokenR => entry = 0)
  BY <1>1 DEF WokenS, WokenR, Woken, InSend
<1> QED BY <1>1, <1>4, <1>5, <1>6, LeaveKeeps

LEMMA RecvEndKeeps ==
  ASSUME IInv, NEW t \in Thread, RecvEnd(t)
  PROVE  IInv'
<1>1. /\ Running(t) /\ pc[t] \in {"recv_end", "recv_end_sched"}
      /\ pc' = [pc EXCEPT ![t] = "run"] /\ Returned(t)
      /\ UNCHANGED <<irq, boxVars, alive>> /\ (k' = k \/ k' = Schedule(k))
  BY DEF RecvEnd, Goto
<1>2. /\ SystemOK(Blocking)' /\ k'.stat = k.stat /\ k'.wait = k.wait
      /\ k'.armed = k.armed /\ k'.error = k.error
  <2>1. SystemOK(Blocking) /\ k \in KernelState /\ KernelOK(k) BY Types DEF IInv
  <2>2. pc[t] \notin Blocking /\ k.current = t BY <1>1 DEF Blocking, Running
  <2>3. CASE k' = k BY <2>1, <2>2, <2>3, SystemQuiet
  <2>4. CASE k' = Schedule(k) BY <2>1, <2>2, <2>4, ScheduleEffect
  <2> QED BY <1>1, <2>3, <2>4
<1>3. t \notin WokenS /\ t \notin WokenR BY <1>1 DEF WokenS, WokenR, Woken, InSend, InRecv
<1> QED BY <1>1, <1>2, <1>3, LeaveKeeps

-----------------------------------------------------------------------------
(***************************************************************************)
(* A call waits, for the first time or again: on a full mailbox to send,   *)
(* on an empty one to receive.                                             *)
(***************************************************************************)
LEMMA WaitKeeps ==
  ASSUME IInv, NEW t \in Thread, NEW q \in {Send, Recv}, NEW time \in {"timed", "forever"},
         NEW to, to = IF q = Send THEN "send_sched" ELSE "recv_sched",
         NEW again, again = IF q = Send THEN "send_return" ELSE "recv_return",
         Running(t), pc[t] \in {"run", again},
         pc[t] # "run" => time \in TimeLeft(timeout[t]),
         pc' = [pc EXCEPT ![t] = to], irq' = irq, UNCHANGED <<boxVars, alive>>,
         WaitOn(t, q, time), NEW v \in Mail \cup {NoMail}, Locals(t, time, v),
         q = Send => t \in Sender /\ entry = Size,
         q = Recv => t \in Receiver /\ entry = 0
  PROVE  IInv'
<1>1. /\ irq = NoThread /\ k.current = t /\ t \notin ToSet(k.wait[Send])
      /\ t \notin ToSet(k.wait[Recv]) /\ t \notin k.armed
  BY CallerFacts DEF Masked, Blocking
<1>2. /\ q \in Queue /\ to \in Pc \ Masked /\ to \in Blocking /\ pc[t] \notin Blocking
      /\ t # Idle /\ Send # Recv
  <2>1. q \in Queue /\ t # Idle /\ Send # Recv BY MailboxAssumption
  <2>2. to \in {"send_sched", "recv_sched"} /\ again \in {"send_return", "recv_return"}
    OBVIOUS
  <2>3. to \in Pc \ Masked /\ to \in Blocking BY <2>2 DEF Pc, Masked, Blocking
  <2>4. pc[t] \notin Blocking BY <2>2 DEF Blocking
  <2> QED BY <2>1, <2>3, <2>4
<1>3. /\ IrqOK' /\ pc' \in [Thread -> Pc]
      /\ \A u \in Thread : pc'[u] = IF u = t THEN to ELSE pc[u]
  <2>1. /\ IInv /\ irq = NoThread /\ irq' = NoThread /\ pc' = [pc EXCEPT ![t] = to]
        /\ to \in Pc \ Masked
    BY <1>1, <1>2
  <2> QED BY ONLY <2>1, IrqCalm
<1>4. /\ timeout' = [timeout EXCEPT ![t] = time] /\ mail' = [mail EXCEPT ![t] = v]
      /\ called' = [called EXCEPT ![t] = IF pc[t] = "run" THEN time ELSE called[t]]
      /\ UNCHANGED <<msg_pool, in_offset, out_offset, entry>>
  BY DEF Locals, boxVars
<1>5. /\ SystemOK(Blocking)'
      /\ k'.stat = [k.stat EXCEPT ![t] = "suspend"]
      /\ k'.error = [k.error EXCEPT ![t] = "RT_EOK"]
      /\ k'.armed = IF time = "timed" THEN k.armed \cup {t} ELSE k.armed
      /\ ToSet(k'.wait[q]) = ToSet(k.wait[q]) \cup {t}
      /\ \A r \in Queue \ {q} : k'.wait[r] = k.wait[r]
  <2>1. PICK e : e = [k EXCEPT !.error[t] = "RT_EOK"] OBVIOUS
  <2>2. PICK s : s = IpcListSuspend(e, q, t, Flag) OBVIOUS
  <2>3. k' = IF time = "timed" THEN TimerStart(s, t) ELSE s BY <2>1, <2>2 DEF WaitOn
  <2>4. k' \in {s, TimerStart(s, t)} BY <2>3
  <2>5. SystemOK(Blocking) /\ Flag \in {"RT_IPC_FLAG_FIFO", "RT_IPC_FLAG_PRIO"}
    BY Types DEF IInv
  <2>6. pc'[t] \in Blocking BY <1>2, <1>3
  <2>7. /\ SystemOK(Blocking)'
        /\ k'.stat = [k.stat EXCEPT ![t] = "suspend"]
        /\ k'.error = [k.error EXCEPT ![t] = "RT_EOK"]
        /\ k' = s => k'.armed = k.armed
        /\ k' = TimerStart(s, t) => k'.armed = k.armed \cup {t}
        /\ ToSet(k'.wait[q]) = ToSet(k.wait[q]) \cup {t}
        /\ \A r \in Queue \ {q} : k'.wait[r] = k.wait[r]
    BY ONLY <1>1, <1>2, <2>1, <2>2, <2>4, <2>5, <2>6, WaitEffect, SMTT(30)
  <2> QED BY <2>3, <2>7
<1>6. /\ timeout'[t] = time /\ called'[t] = time
      /\ \A u \in Thread \ {t} : timeout'[u] = timeout[u] /\ called'[u] = called[u]
  <2>1. ASSUME pc[t] # "run" PROVE time = called[t]
    <3>1. t \in InSend \cup InRecv BY <2>1 DEF InSend, InRecv
    <3>2. timeout[t] = called[t] /\ timeout[t] # "zero" BY <3>1 DEF IInv, ThreadOK
    <3> QED BY <2>1, <3>2 DEF TimeLeft
  <2> QED BY <1>4, <2>1, Types
<1>7. /\ k'.stat[t] = "suspend" /\ k'.error[t] = "RT_EOK"
      /\ time = "timed" <=> t \in k'.armed
      /\ \A u \in Thread \ {t} : /\ k'.stat[u] = k.stat[u] /\ k'.error[u] = k.error[u]
                                 /\ u \in k'.armed <=> u \in k.armed
  BY <1>1, <1>5, Types
<1>8. TypeOK' BY <1>3, <1>4, <1>5, Types DEF IInv, TypeOK, SystemOK, Time
<1>9. RingOK' BY <1>4 DEF IInv, RingOK
<1>10. /\ ToSet(k'.wait[Send]) = IF q = Send THEN ToSet(k.wait[Send]) \cup {t}
                                             ELSE ToSet(k.wait[Send])
       /\ ToSet(k'.wait[Recv]) = IF q = Recv THEN ToSet(k.wait[Recv]) \cup {t}
                                             ELSE ToSet(k.wait[Recv])
  BY <1>2, <1>5, MailboxAssumption
<1>11. ASSUME NEW u \in Thread \ {t} PROVE Same(u)
  <2>1. Stays(u) BY <1>3 DEF Stays, InSend, InRecv, Reading
  <2> QED BY <1>6, <1>7, <1>10, <2>1 DEF Same
<1>12. \A u \in Thread \ {t} :
         /\ ThreadOK(u)'
         /\ (u \in WokenS' <=> u \in WokenS) /\ (u \in WokenR' <=> u \in WokenR)
  BY <1>11, SameKept DEF IInv
<1>13. /\ t \in InSend' <=> q = Send
       /\ t \in InRecv' <=> q = Recv
       /\ t \in Reading' <=> q = Recv
       /\ q = Recv => t \notin InSend
       /\ q = Send => t \notin InRecv
  BY <1>2, <1>3 DEF InSend, InRecv, Reading
<1>14. ThreadOK(t)' BY <1>1, <1>2, <1>6, <1>7, <1>10, <1>13 DEF ThreadOK
<1>15. SendCount' /\ RecvCount'
  <2>1. WokenS' \in SUBSET Thread /\ WokenR' \in SUBSET Thread
    BY DEF WokenS, WokenR, Woken, InSend, InRecv
  <2>2. Cardinality(WokenS') \in Nat /\ Cardinality(WokenR') \in Nat BY <2>1, CountKept
  <2>3. CASE q = Send
    <3>1. SendCount' BY <1>4, <2>2, <2>3, Types DEF SendCount
    <3>2. t \notin WokenR BY <1>13, <2>3 DEF WokenR, Woken
    <3>3. WokenR \subseteq WokenR' BY <1>12, <3>2, Types
    <3>4. Cardinality(WokenR) <= Cardinality(WokenR') /\ Cardinality(WokenR) \in Nat
      BY <2>1, <3>3, CountKept, Types
    <3>5. k'.wait[Recv] = k.wait[Recv] BY <1>2, <1>5, <2>3, MailboxAssumption
    <3>6. RecvCount' BY <1>4, <2>2, <3>4, <3>5, Types DEF IInv, RecvCount
    <3> QED BY <3>1, <3>6
  <2>4. CASE q = Recv
    <3>1. RecvCount' BY <1>4, <2>2, <2>4, Types DEF RecvCount
    <3>2. t \notin WokenS BY <1>13, <2>4 DEF WokenS, Woken
    <3>3. WokenS \subseteq WokenS' BY <1>12, <3>2, Types
    <3>4. Cardinality(WokenS) <= Cardinality(WokenS') /\ Cardinality(WokenS) \in Nat
      BY <2>1, <3>3, CountKept, Types
    <3>5. k'.wait[Send] = k.wait[Send] BY <1>2, <1>5, <2>4, MailboxAssumption
    <3>6. SendCount' BY <1>4, <2>2, <3>4, <3>5, Types DEF IInv, SendCount
    <3> QED BY <3>1, <3>6
  <2> QED BY <2>3, <2>4
<1> QED BY <1>3, <1>5, <1>8, <1>9, <1>12, <1>14, <1>15 DEF IInv

LEMMA SuspendKeeps ==
  ASSUME IInv, NEW t \in Thread, NEW time \in Time,
         RecvSuspend(t, time) \/ \E v \in Mail : SendSuspend(t, v, time)
  PROVE  IInv'
<1>1. Send # Recv BY MailboxAssumption
<1>2. CASE RecvSuspend(t, time)
  <2>1. /\ AtRecv(t, time) /\ time # "zero" /\ entry = 0 /\ WaitOn(t, Recv, time)
        /\ pc' = [pc EXCEPT ![t] = "recv_sched"] /\ Locals(t, time, NoMail)
        /\ irq' = irq /\ UNCHANGED <<boxVars, alive>>
    BY <1>2 DEF RecvSuspend
  <2>2. time \in {"timed", "forever"} BY <2>1 DEF Time
  <2>3. /\ Running(t) /\ pc[t] \in {"run", "recv_return"}
        /\ pc[t] # "run" => time \in TimeLeft(timeout[t])
        /\ pc[t] = "run" => t \in Receiver
    BY <2>1 DEF AtRecv
  <2>4. t \in Receiver BY <2>3 DEF IInv, ThreadOK, Reading
  <2> QED BY <1>1, <2>1, <2>2, <2>3, <2>4, WaitKeeps
<1>3. ASSUME NEW v \in Mail, SendSuspend(t, v, time) PROVE IInv'
  <2>1. /\ AtSend(t, v, time) /\ time # "zero" /\ entry = Size /\ WaitOn(t, Send, time)
        /\ pc' = [pc EXCEPT ![t] = "send_sched"] /\ Locals(t, time, v)
        /\ irq' = irq /\ UNCHANGED <<boxVars, alive>>
    BY <1>3 DEF SendSuspend
  <2>2. time \in {"timed", "forever"} BY <2>1 DEF Time
  <2>3. /\ Running(t) /\ pc[t] \in {"run", "send_return"}
        /\ pc[t] # "run" => time \in TimeLeft(timeout[t])
        /\ pc[t] = "run" => t \in Sender
    BY <2>1 DEF AtSend
  <2>4. t \in Sender BY <2>3 DEF IInv, ThreadOK, InSend
  <2> QED BY <1>1, <2>1, <2>2, <2>3, <2>4, WaitKeeps
<1> QED BY <1>2, <1>3

-----------------------------------------------------------------------------
(***************************************************************************)
(* The ring.                                                               *)
(***************************************************************************)
LEMMA ModOnce ==
  ASSUME NEW x \in 0 .. 2 * Size - 1
  PROVE  x % Size = IF x < Size THEN x ELSE x - Size
<1>1. Size \in Nat \ {0} BY MailboxAssumption
<1>2. CASE x < Size BY <1>1, <1>2
<1>3. CASE x >= Size
  <2>1. x \in Size .. 2 * Size - 1 BY <1>1, <1>3
  <2> QED BY <1>1, <1>3, <2>1
<1> QED BY <1>1, <1>2, <1>3

LEMMA PutRing ==
  ASSUME IInv, entry # Size, NEW v \in Mail, Put(v)
  PROVE  /\ msg_pool' \in [0 .. Size - 1 -> Mail \cup {NoMail}]
         /\ in_offset' \in 0 .. Size - 1 /\ out_offset' \in 0 .. Size - 1
         /\ entry' = entry + 1 /\ entry' \in 0 .. Size
         /\ RingOK'
<1>1. /\ msg_pool \in [0 .. Size - 1 -> Mail \cup {NoMail}]
      /\ in_offset \in 0 .. Size - 1 /\ out_offset \in 0 .. Size - 1
      /\ entry \in 0 .. Size - 1 /\ Size \in Nat \ {0}
  BY MailboxAssumption DEF IInv, TypeOK
<1>2. /\ msg_pool' = [msg_pool EXCEPT ![in_offset] = v]
      /\ in_offset' = IF in_offset + 1 >= Size THEN 0 ELSE in_offset + 1
      /\ entry' = entry + 1 /\ out_offset' = out_offset
  BY DEF Put, Advance
<1>3. in_offset = IF out_offset + entry < Size THEN out_offset + entry
                                               ELSE out_offset + entry - Size
  <2>1. PICK x \in 0 .. 2 * Size - 1 : x = out_offset + entry BY <1>1
  <2>2. x % Size = IF x < Size THEN x ELSE x - Size BY ModOnce
  <2>3. in_offset = x % Size BY <2>1 DEF IInv, RingOK
  <2> QED BY <1>1, <2>1, <2>2, <2>3
<1>4. (out_offset' + entry') % Size =
         IF out_offset + entry + 1 < Size THEN out_offset + entry + 1
                                          ELSE out_offset + entry + 1 - Size
  <2>1. out_offset + entry + 1 \in 0 .. 2 * Size - 1 BY <1>1
  <2>2. out_offset' + entry' = out_offset + entry + 1 BY <1>1, <1>2
  <2> QED BY <1>1, <2>1, <2>2, ModOnce
<1>5. RingOK' BY <1>1, <1>2, <1>3, <1>4 DEF RingOK
<1> QED BY <1>1, <1>2, <1>5

LEMMA TakeRing ==
  ASSUME IInv, entry # 0, out_offset' = Advance(out_offset), entry' = entry - 1,
         UNCHANGED <<msg_pool, in_offset>>
  PROVE  /\ msg_pool' \in [0 .. Size - 1 -> Mail \cup {NoMail}]
         /\ in_offset' \in 0 .. Size - 1 /\ out_offset' \in 0 .. Size - 1
         /\ entry' \in 0 .. Size
         /\ RingOK'
<1>1. /\ msg_pool \in [0 .. Size - 1 -> Mail \cup {NoMail}]
      /\ in_offset \in 0 .. Size - 1 /\ out_offset \in 0 .. Size - 1
      /\ entry \in 1 .. Size /\ Size \in Nat \ {0}
  BY MailboxAssumption DEF IInv, TypeOK
<1>2. out_offset' = IF out_offset + 1 >= Size THEN 0 ELSE out_offset + 1
  BY DEF Advance
<1>3. in_offset = IF out_offset + entry < Size THEN out_offset + entry
                                               ELSE out_offset + entry - Size
  <2>1. PICK x \in 0 .. 2 * Size - 1 : x = out_offset + entry BY <1>1
  <2>2. x % Size = IF x < Size THEN x ELSE x - Size BY ModOnce
  <2>3. in_offset = x % Size BY <2>1 DEF IInv, RingOK
  <2> QED BY <1>1, <2>1, <2>2, <2>3
<1>4. (out_offset' + entry') % Size = IF out_offset' + entry' < Size
                                      THEN out_offset' + entry'
                                      ELSE out_offset' + entry' - Size
  <2>1. PICK x \in 0 .. 2 * Size - 1 : x = out_offset' + entry' BY <1>1, <1>2
  <2>2. x % Size = IF x < Size THEN x ELSE x - Size BY ModOnce
  <2> QED BY <1>1, <1>2, <2>1, <2>2
<1>5. RingOK' BY <1>1, <1>2, <1>3, <1>4 DEF RingOK
<1> QED BY <1>1, <1>2, <1>5

-----------------------------------------------------------------------------
(***************************************************************************)
(* A mail or a free slot goes to a waiting thread, if there is one.        *)
(***************************************************************************)

\* W is the thread woken from list q, or nobody.
Wakes(q, W) ==
    /\ W \subseteq ToSet(k.wait[q])
    /\ k.wait[q] # <<>> => \E h \in Thread : W = {h}
    /\ \A u \in Thread : k'.stat[u] = IF u \in W THEN "ready" ELSE k.stat[u]
    /\ k'.error = k.error /\ k'.armed = k.armed \ W
    /\ \A r \in {Send, Recv} : ToSet(k'.wait[r]) = ToSet(k.wait[r]) \ W

LEMMA WakeFacts ==
  ASSUME IInv, NEW q \in {Send, Recv}, k.current \in Thread, pc[k.current] \notin Blocking \/ pc' = pc,
         \/ k' = WakeOne(q)
         \/ k' = IF k.wait[q] = <<>> THEN k ELSE Schedule(WakeOne(q))
  PROVE  SystemOK(Blocking)' /\ \E W \in SUBSET Thread : Wakes(q, W)
<1>1. k \in KernelState /\ KernelOK(k) /\ q \in Queue /\ SystemOK(Blocking)
  BY Types DEF IInv
<1>2. CASE k.wait[q] = <<>>
  <2>1. k' = k BY <1>2 DEF WakeOne
  <2>2. SystemOK(Blocking)'
    <3>1. pc'[k.current] \notin Blocking => pc[k.current] \notin Blocking OBVIOUS
    <3> QED BY <1>1, <2>1, <3>1, SystemQuiet
  <2>3. Wakes(q, {}) BY <1>2, <2>1 DEF Wakes
  <2> QED BY <2>2, <2>3
<1>3. CASE k.wait[q] # <<>>
  <2> DEFINE h == Head(k.wait[q])
  <2>1. k' = Schedule(IpcListResume(k, q)) \/ k' = IpcListResume(k, q)
    BY <1>3 DEF WakeOne
  <2>2. pc'[k.current] \notin Blocking => pc[k.current] \notin Blocking OBVIOUS
  <2>3. PICK s : s = IpcListResume(k, q) OBVIOUS
  <2>4. k' = Schedule(s) \/ k' = s BY <2>1, <2>3
  <2>5. /\ h \in Thread /\ h \in ToSet(k.wait[q])
        /\ SystemOK(Blocking)'
        /\ k'.stat = [k.stat EXCEPT ![h] = "ready"]
        /\ k'.armed = k.armed \ {h}
        /\ k'.error = k.error
        /\ ToSet(k'.wait[q]) = ToSet(k.wait[q]) \ {h}
        /\ \A r \in Queue \ {q} : h \notin ToSet(k.wait[r]) /\ k'.wait[r] = k.wait[r]
    <3>1. k.current \in Thread OBVIOUS
    <3> QED BY ONLY <1>1, <1>3, <2>2, <2>3, <2>4, <3>1, WakeEffect, ZenonT(60)
  <2> HIDE DEF h
  <2>6. Wakes(q, {h})
    <3>1. \A u \in Thread : k'.stat[u] = IF u \in {h} THEN "ready" ELSE k.stat[u]
      BY <2>5, Types
    <3>2. \A r \in {Send, Recv} : ToSet(k'.wait[r]) = ToSet(k.wait[r]) \ {h}
      BY <2>5, Types
    <3> QED BY <2>5, <3>1, <3>2 DEF Wakes
  <2> QED BY <2>5, <2>6
<1> QED BY <1>2, <1>3

\* The threads in L leave their call; the others stay where they are.
Leave(q, L) ==
    \A u \in L : /\ u \notin InSend' /\ u \notin InRecv'
                 /\ u \in Reading' => u \in Receiver
                 /\ u \notin ToSet(k.wait[Send]) /\ u \notin ToSet(k.wait[Recv])
                 /\ IF q = Send THEN u \notin InSend ELSE u \notin InRecv

Remain(L) ==
    \A u \in Thread \ L : Stays(u) /\ timeout'[u] = timeout[u] /\ called'[u] = called[u]

\* L is the caller x, or nobody.
LEMMA Transfer ==
  ASSUME IInv, NEW q \in {Send, Recv}, NEW W \in SUBSET Thread, Wakes(q, W),
         NEW x, NEW L \in SUBSET (Thread \cap {x}), Leave(q, L), Remain(L)
  PROVE  /\ \A u \in Thread : ThreadOK(u)'
         /\ q = Recv => /\ WokenS \ {x} \subseteq WokenS'
                        /\ WokenR \subseteq WokenR' /\ W \subseteq WokenR' \ WokenR
         /\ q = Send => /\ WokenR \ {x} \subseteq WokenR'
                        /\ WokenS \subseteq WokenS' /\ W \subseteq WokenS' \ WokenS
<1>1. ASSUME NEW u \in L PROVE ThreadOK(u)'
  <2>1. u \notin ToSet(k'.wait[Send]) /\ u \notin ToSet(k'.wait[Recv]) BY <1>1 DEF Wakes, Leave
  <2> QED BY <1>1, <2>1, OutsideOK DEF Leave
<1>2. ASSUME NEW u \in W
      PROVE  /\ ThreadOK(u)'
             /\ q = Recv => u \in WokenR' /\ u \notin WokenR /\ u \notin WokenS
             /\ q = Send => u \in WokenS' /\ u \notin WokenS /\ u \notin WokenR
  <2>1. u \in ToSet(k.wait[q]) BY DEF Wakes
  <2>2. u \in Thread \ L BY <2>1 DEF Leave
  <2>3. ThreadOK(u) BY DEF IInv
  <2>4. /\ k'.stat[u] = "ready" /\ k'.error[u] = k.error[u]
        /\ u \notin ToSet(k'.wait[Send]) /\ u \notin ToSet(k'.wait[Recv])
    BY DEF Wakes
  <2>5. ThreadOK(u)' BY <2>2, <2>3, <2>4 DEF ThreadOK, Stays, Remain
  <2>6. InSend \cap InRecv = {} BY DEF InSend, InRecv
  <2>7. k.error[u] = "RT_EOK" BY <2>1, <2>3 DEF IInv, ThreadOK
  <2> QED BY <2>1, <2>2, <2>3, <2>4, <2>5, <2>6, <2>7 DEF ThreadOK, Stays, Remain, WokenS, WokenR, Woken
<1>3. ASSUME NEW u \in Thread \ (L \cup W)
      PROVE  /\ ThreadOK(u)'
             /\ (u \in WokenS' <=> u \in WokenS) /\ (u \in WokenR' <=> u \in WokenR)
  <2>1. Same(u) BY <1>3 DEF Same, Wakes, Remain
  <2> QED BY <2>1, SameKept DEF IInv
<1>4. WokenS \subseteq InSend /\ WokenR \subseteq InRecv BY DEF WokenS, WokenR, Woken
<1>5. \A u \in Thread : ThreadOK(u)' BY <1>1, <1>2, <1>3
<1>6. q = Recv => /\ WokenS \ {x} \subseteq WokenS'
                  /\ WokenR \subseteq WokenR' /\ W \subseteq WokenR' \ WokenR
  BY <1>2, <1>3, <1>4, Types DEF Leave
<1>7. q = Send => /\ WokenR \ {x} \subseteq WokenR'
                  /\ WokenS \subseteq WokenS' /\ W \subseteq WokenS' \ WokenS
  BY <1>2, <1>3, <1>4, Types DEF Leave
<1> QED BY <1>5, <1>6, <1>7

\* The counts, after a mail was put into the mailbox or taken out of it.
LEMMA TransferCounts ==
  ASSUME IInv, k' \in KernelState, NEW q \in {Send, Recv}, NEW W \in SUBSET Thread, Wakes(q, W),
         NEW x,
         q = Recv => /\ WokenS \ {x} \subseteq WokenS' /\ entry' = entry + 1
                     /\ WokenR \subseteq WokenR' /\ W \subseteq WokenR' \ WokenR,
         q = Send => /\ WokenR \ {x} \subseteq WokenR' /\ entry' = entry - 1
                     /\ WokenS \subseteq WokenS' /\ W \subseteq WokenS' \ WokenS
  PROVE  SendCount' /\ RecvCount'
<1>1. WokenS' \in SUBSET Thread /\ WokenR' \in SUBSET Thread
  BY DEF WokenS, WokenR, Woken, InSend, InRecv
<1>2. entry \in Nat /\ Size \in Nat BY Types
<1>3. ASSUME NEW r \in {Send, Recv}, k'.wait[r] # <<>> PROVE k.wait[r] # <<>>
  <2>1. k \in KernelState /\ r \in Queue BY Types
  <2>2. ToSet(k'.wait[r]) \subseteq ToSet(k.wait[r]) BY DEF Wakes
  <2> QED BY <1>3, <2>1, <2>2, ListFacts
<1>4. CASE q = Recv
  <2>1. /\ Cardinality(WokenS) \in Nat /\ Cardinality(WokenS') \in Nat
        /\ Cardinality(WokenS) - 1 <= Cardinality(WokenS')
    BY <1>1, <1>4, CountLess, Types
  <2>2. SendCount' BY <1>2, <1>3, <1>4, <2>1 DEF IInv, SendCount
  <2>3. ASSUME k'.wait[Recv] # <<>> PROVE entry' <= Cardinality(WokenR')
    <3>1. k.wait[Recv] # <<>> BY <1>3, <2>3
    <3>2. PICK h \in Thread : W = {h} BY <1>4, <3>1 DEF Wakes
    <3>3. h \in WokenR' /\ h \notin WokenR /\ WokenR \subseteq WokenR' BY <1>4, <3>2
    <3>4. /\ Cardinality(WokenR) \in Nat /\ Cardinality(WokenR') \in Nat
          /\ Cardinality(WokenR) + 1 <= Cardinality(WokenR')
      BY <1>1, <3>3, CountMore, Types
    <3>5. entry <= Cardinality(WokenR) BY <3>1 DEF IInv, RecvCount
    <3> QED BY <1>2, <1>4, <3>4, <3>5
  <2> QED BY <2>2, <2>3 DEF RecvCount
<1>5. CASE q = Send
  <2>1. /\ Cardinality(WokenR) \in Nat /\ Cardinality(WokenR') \in Nat
        /\ Cardinality(WokenR) - 1 <= Cardinality(WokenR')
    BY <1>1, <1>5, CountLess, Types
  <2>2. RecvCount' BY <1>2, <1>3, <1>5, <2>1 DEF IInv, RecvCount
  <2>3. ASSUME k'.wait[Send] # <<>> PROVE Size - entry' <= Cardinality(WokenS')
    <3>1. k.wait[Send] # <<>> BY <1>3, <2>3
    <3>2. PICK h \in Thread : W = {h} BY <1>5, <3>1 DEF Wakes
    <3>3. h \in WokenS' /\ h \notin WokenS /\ WokenS \subseteq WokenS' BY <1>5, <3>2
    <3>4. /\ Cardinality(WokenS) \in Nat /\ Cardinality(WokenS') \in Nat
          /\ Cardinality(WokenS) + 1 <= Cardinality(WokenS')
      BY <1>1, <3>3, CountMore, Types
    <3>5. Size - entry <= Cardinality(WokenS) BY <3>1 DEF IInv, SendCount
    <3> QED BY <1>2, <1>5, <3>4, <3>5
  <2> QED BY <2>2, <2>3 DEF SendCount
<1> QED BY <1>4, <1>5

LEMMA SendPutKeeps ==
  ASSUME IInv, NEW t \in Thread, NEW v \in Mail, NEW time, SendPut(t, v, time)
  PROVE  IInv'
<1>1. PICK to \in {"run", "sched"} :
      /\ Running(t) /\ pc[t] \in {"run", "send_return"} /\ entry # Size /\ Put(v)
      /\ pc' = [pc EXCEPT ![t] = to]
      /\ k' = WakeOne(Recv) /\ Returned(t) /\ irq' = irq /\ alive' = alive
  BY DEF SendPut, AtSend
<1>2. /\ irq = NoThread /\ k.current = t /\ t \notin ToSet(k.wait[Send])
      /\ t \notin ToSet(k.wait[Recv])
  BY <1>1, CallerFacts DEF Masked, Blocking
<1>3. to \in Pc \ Masked BY DEF Pc, Masked
<1>4. /\ IrqOK' /\ pc' \in [Thread -> Pc]
      /\ \A u \in Thread : pc'[u] = IF u = t THEN to ELSE pc[u]
  BY <1>1, <1>2, <1>3, IrqCalm
<1>5. SystemOK(Blocking)' /\ \E W \in SUBSET Thread : Wakes(Recv, W)
  <2>1. k.current \in Thread /\ pc[k.current] \notin Blocking BY <1>1, <1>2 DEF Blocking
  <2> QED BY <1>1, <2>1, WakeFacts
<1>6. PICK W \in SUBSET Thread : Wakes(Recv, W) BY <1>5
<1>7. /\ timeout' = [timeout EXCEPT ![t] = "zero"] /\ mail' = [mail EXCEPT ![t] = NoMail]
      /\ called' = [called EXCEPT ![t] = "zero"]
  BY <1>1 DEF Returned
<1>8. /\ msg_pool' \in [0 .. Size - 1 -> Mail \cup {NoMail}]
      /\ in_offset' \in 0 .. Size - 1 /\ out_offset' \in 0 .. Size - 1
      /\ entry' = entry + 1 /\ entry' \in 0 .. Size /\ RingOK'
  BY <1>1, PutRing
<1>9. TypeOK' BY <1>1, <1>4, <1>5, <1>7, <1>8, Types DEF IInv, TypeOK, SystemOK, Time
<1>10. Send # Recv BY Types
<1>11. Leave(Recv, {t})
  BY <1>1, <1>2, <1>4, <1>10 DEF Leave, InSend, InRecv, Reading
<1>12. Remain({t})
  BY <1>4, <1>7, Types DEF Remain, Stays, InSend, InRecv, Reading
<1>13. {t} \in SUBSET (Thread \cap {t}) OBVIOUS
<1>14. /\ \A u \in Thread : ThreadOK(u)'
       /\ WokenS \ {t} \subseteq WokenS'
       /\ WokenR \subseteq WokenR' /\ W \subseteq WokenR' \ WokenR
  <2>1. IInv /\ Recv \in {Send, Recv} /\ Recv # Send BY <1>10
  <2> QED BY ONLY <2>1, <1>6, <1>11, <1>12, <1>13, Transfer
<1>15. SendCount' /\ RecvCount'
  <2>1. k' \in KernelState BY <1>9 DEF TypeOK
  <2> QED BY <1>6, <1>8, <1>10, <1>14, <2>1, TransferCounts
<1> QED BY <1>4, <1>5, <1>8, <1>9, <1>14, <1>15 DEF IInv

LEMMA IsrSendKeeps ==
  ASSUME IInv, NEW v \in Mail, IsrSend(v)
  PROVE  IInv'
<1>1. /\ k.current \in Thread /\ irq = NoThread /\ entry # Size /\ Put(v)
      /\ k' = IF k.wait[Recv] = <<>> THEN k ELSE Schedule(WakeOne(Recv))
      /\ UNCHANGED <<irq, pc, timeout, mail, called, alive>>
  BY DEF IsrSend, Interrupt, callVars
<1>2. IrqOK' BY <1>1, KernelAssumption DEF IInv, IrqOK, Masked
<1>3. SystemOK(Blocking)' /\ \E W \in SUBSET Thread : Wakes(Recv, W) BY <1>1, WakeFacts
<1>4. PICK W \in SUBSET Thread : Wakes(Recv, W) BY <1>3
<1>5. /\ msg_pool' \in [0 .. Size - 1 -> Mail \cup {NoMail}]
      /\ in_offset' \in 0 .. Size - 1 /\ out_offset' \in 0 .. Size - 1
      /\ entry' = entry + 1 /\ entry' \in 0 .. Size /\ RingOK'
  BY <1>1, PutRing
<1>6. TypeOK' BY <1>1, <1>3, <1>5 DEF IInv, TypeOK, SystemOK
<1>7. Send # Recv /\ {} \in SUBSET (Thread \cap {NoThread}) BY Types
<1>8. Remain({})
  BY <1>1 DEF Remain, Stays, InSend, InRecv, Reading
<1>9. /\ \A u \in Thread : ThreadOK(u)'
      /\ WokenS \ {NoThread} \subseteq WokenS'
      /\ WokenR \subseteq WokenR' /\ W \subseteq WokenR' \ WokenR
  <2>1. IInv /\ Recv \in {Send, Recv} /\ Recv # Send BY <1>7
  <2>2. Leave(Recv, {}) BY DEF Leave
  <2> QED BY ONLY <2>1, <2>2, <1>4, <1>7, <1>8, Transfer
<1>10. SendCount' /\ RecvCount'
  <2>1. k' \in KernelState BY <1>6 DEF TypeOK
  <2> QED BY <1>4, <1>5, <1>7, <1>9, <2>1, TransferCounts
<1> QED BY <1>2, <1>3, <1>5, <1>6, <1>9, <1>10 DEF IInv

LEMMA RecvTakeKeeps ==
  ASSUME IInv, NEW t \in Thread, NEW time, RecvTake(t, time)
  PROVE  IInv'
<1>1. PICK to \in {"recv_end", "recv_end_sched"} :
      /\ Running(t) /\ pc[t] \in {"run", "recv_return"} /\ entry # 0
      /\ pc[t] = "run" => t \in Receiver
      /\ out_offset' = Advance(out_offset) /\ entry' = entry - 1
      /\ pc' = [pc EXCEPT ![t] = to] /\ k' = WakeOne(Send)
      /\ mail' = [mail EXCEPT ![t] = msg_pool[out_offset]]
      /\ UNCHANGED <<irq, msg_pool, in_offset, timeout, called, alive>>
  BY DEF RecvTake, AtRecv
<1>2. /\ irq = NoThread /\ k.current = t /\ t \notin ToSet(k.wait[Send])
      /\ t \notin ToSet(k.wait[Recv])
  BY <1>1, CallerFacts DEF Masked, Blocking
<1>3. to \in Pc \ Masked BY DEF Pc, Masked
<1>4. /\ IrqOK' /\ pc' \in [Thread -> Pc]
      /\ \A u \in Thread : pc'[u] = IF u = t THEN to ELSE pc[u]
  BY <1>1, <1>2, <1>3, IrqCalm
<1>5. SystemOK(Blocking)' /\ \E W \in SUBSET Thread : Wakes(Send, W)
  <2>1. k.current \in Thread /\ pc[k.current] \notin Blocking BY <1>1, <1>2 DEF Blocking
  <2> QED BY <1>1, <2>1, WakeFacts
<1>6. PICK W \in SUBSET Thread : Wakes(Send, W) BY <1>5
<1>7. /\ msg_pool' \in [0 .. Size - 1 -> Mail \cup {NoMail}]
      /\ in_offset' \in 0 .. Size - 1 /\ out_offset' \in 0 .. Size - 1
      /\ entry' \in 0 .. Size /\ RingOK'
  BY <1>1, TakeRing
<1>8. mail' \in [Thread -> Mail \cup {NoMail}] BY <1>1, Types DEF IInv, TypeOK
<1>9. TypeOK' BY <1>1, <1>4, <1>5, <1>7, <1>8 DEF IInv, TypeOK, SystemOK
<1>10. Send # Recv BY Types
<1>11. t \in Receiver BY <1>1 DEF IInv, ThreadOK, Reading
<1>12. Leave(Send, {t})
  BY <1>1, <1>2, <1>4, <1>11 DEF Leave, InSend, InRecv
<1>13. Remain({t})
  BY <1>1, <1>4 DEF Remain, Stays, InSend, InRecv, Reading
<1>14. {t} \in SUBSET (Thread \cap {t}) OBVIOUS
<1>15. /\ \A u \in Thread : ThreadOK(u)'
       /\ WokenR \ {t} \subseteq WokenR'
       /\ WokenS \subseteq WokenS' /\ W \subseteq WokenS' \ WokenS
  <2>1. IInv /\ Send \in {Send, Recv} /\ Recv # Send BY <1>10
  <2> QED BY ONLY <2>1, <1>6, <1>12, <1>13, <1>14, Transfer
<1>16. SendCount' /\ RecvCount'
  <2>1. k' \in KernelState BY <1>9 DEF TypeOK
  <2> QED BY <1>1, <1>6, <1>10, <1>15, <2>1, TransferCounts
<1> QED BY <1>4, <1>5, <1>7, <1>9, <1>15, <1>16 DEF IInv

-----------------------------------------------------------------------------
(***************************************************************************)
(* The mailbox is emptied, when nobody waits.                              *)
(***************************************************************************)
LEMMA EmptiedKeeps ==
  ASSUME IInv, NEW t \in Thread, k.current = t, irq \in {NoThread, t},
         pc[t] \in {"run", "reset_send"}, NEW to \in {"run", "sched"},
         pc' = [pc EXCEPT ![t] = to], irq' = NoThread, Emptied,
         k.wait[Recv] = <<>>, k.wait[Send] = <<>>, k' = k, UNCHANGED callVars,
         alive' \in BOOLEAN
  PROVE  IInv'
<1>1. pc \in [Thread -> Pc] /\ to \in Pc \ Masked BY Types DEF Pc, Masked
<1>2. pc' \in [Thread -> Pc] /\ \A u \in Thread : pc'[u] = IF u = t THEN to ELSE pc[u]
  BY <1>1
<1>3. NoThread \notin Thread BY KernelAssumption
<1>4. IrqOK'
  <2>1. \A u \in Thread : pc'[u] \notin Masked BY <1>1, <1>2, <1>3 DEF IInv, IrqOK
  <2> QED BY <1>3, <2>1 DEF IrqOK, Masked
<1>5. SystemOK(Blocking)'
  <2>1. k' \in KernelState /\ KernelOK(k') BY Types
  <2>2. pc[t] \notin Blocking BY DEF Blocking
  <2>3. SystemOK(Blocking) BY DEF IInv
  <2> QED BY <2>1, <2>2, <2>3, SystemQuiet
<1>6. /\ in_offset' = 0 /\ out_offset' = 0 /\ entry' = 0 /\ msg_pool' = msg_pool
      /\ timeout' = timeout /\ mail' = mail /\ called' = called
  BY DEF Emptied, callVars
<1>7. TypeOK'
  <2>1. 0 \in 0 .. Size - 1 /\ 0 \in 0 .. Size BY MailboxAssumption
  <2> QED BY <1>2, <1>5, <1>6, <2>1 DEF IInv, TypeOK, SystemOK
<1>8. RingOK'
  <2>1. 0 \in 0 .. 2 * Size - 1 /\ 0 < Size BY MailboxAssumption
  <2>2. 0 % Size = 0 BY <2>1, ModOnce
  <2> QED BY <1>6, <2>2 DEF RingOK
<1>9. SendCount' /\ RecvCount' BY DEF SendCount, RecvCount
<1>10. \A u \in Thread : Same(u)
  BY <1>2, <1>6 DEF Same, Stays, InSend, InRecv, Reading
<1>11. \A u \in Thread : ThreadOK(u)' BY <1>10, SameKept DEF IInv
<1> QED BY <1>4, <1>5, <1>7, <1>8, <1>9, <1>11 DEF IInv

LEMMA ResetBoxKeeps ==
  ASSUME IInv, NEW t \in Thread, ResetBox(t)
  PROVE  IInv'
<1>1. /\ Running(t) /\ k.wait[Send] = <<>> /\ pc[t] = "reset_send"
      /\ pc' = [pc EXCEPT ![t] = "sched"] /\ irq' = NoThread /\ Emptied
      /\ k' = k /\ UNCHANGED callVars /\ alive' = alive
  BY DEF ResetBox, Goto
<1>2. k.wait[Recv] = <<>> /\ alive \in BOOLEAN BY <1>1 DEF IInv, IrqOK, TypeOK
<1>3. k.current = t /\ irq \in {NoThread, t} BY <1>1 DEF Running
<1> QED BY <1>1, <1>2, <1>3, EmptiedKeeps

LEMMA MailboxInitKeeps ==
  ASSUME IInv, NEW t \in Thread, MailboxInit(t)
  PROVE  IInv'
<1>1. /\ Running(t) /\ pc[t] = "run" /\ pc' = [pc EXCEPT ![t] = "run"] /\ alive' = TRUE
      /\ Emptied /\ irq' = irq /\ UNCHANGED callVars
      /\ \A s \in Thread \ {t} : pc[s] \in {"run", "sched"}
      /\ k' = [k EXCEPT !.wait = [q \in Queue |->
                  IF q \in {Recv, Send} THEN <<>> ELSE k.wait[q]]]
  BY DEF MailboxInit, Goto
<1>2. irq = NoThread /\ k.current = t BY <1>1, CallerFacts DEF Masked
<1>3. k \in KernelState /\ Send \in Queue /\ Recv \in Queue BY Types
<1>4. k.wait[Recv] = <<>> /\ k.wait[Send] = <<>>
  <2>1. \A u \in Thread : u \notin InSend /\ u \notin InRecv BY <1>1 DEF InSend, InRecv
  <2>2. \A u \in Thread : u \notin ToSet(k.wait[Send]) /\ u \notin ToSet(k.wait[Recv])
    BY <2>1 DEF IInv, ThreadOK
  <2> QED BY <1>3, <2>2, ListFacts
<1>5. k' = k
  <2>1. k'.wait = [q \in Queue |-> IF q \in {Recv, Send} THEN <<>> ELSE k.wait[q]]
    BY <1>1, <1>3 DEF KernelState
  <2>2. k.wait \in [Queue -> Seq(Thread)] BY <1>3 DEF KernelState
  <2>3. k'.wait = k.wait BY <1>4, <2>1, <2>2
  <2> QED BY <1>1, <1>3, <2>1, <2>3 DEF KernelState
<1> QED BY <1>1, <1>2, <1>4, <1>5, EmptiedKeeps

-----------------------------------------------------------------------------
(***************************************************************************)
(* The invariant.                                                          *)
(***************************************************************************)
LEMMA InitEstablishes ==
  ASSUME Init
  PROVE  IInv
<1>1. /\ SystemOK(Blocking) /\ pc = [t \in Thread |-> "run"] /\ irq = NoThread
      /\ \A q \in Queue : k.wait[q] = <<>> /\ ToSet(k.wait[q]) = {}
  BY SystemInitOK DEF Init
<1>2. /\ k.wait[Send] = <<>> /\ ToSet(k.wait[Send]) = {}
      /\ k.wait[Recv] = <<>> /\ ToSet(k.wait[Recv]) = {}
  BY <1>1, MailboxAssumption
<1>3. TypeOK
  <2>1. 0 \in 0 .. Size - 1 /\ 0 \in 0 .. Size BY MailboxAssumption
  <2> QED BY <1>1, <2>1 DEF Init, TypeOK, SystemOK, Pc, Time
<1>4. IrqOK BY <1>1, KernelAssumption DEF IrqOK, Masked
<1>5. RingOK
  <2>1. 0 \in 0 .. 2 * Size - 1 /\ 0 < Size BY MailboxAssumption
  <2>2. 0 % Size = 0 BY <2>1, ModOnce
  <2> QED BY <2>2 DEF RingOK, Init
<1>6. \A t \in Thread : ThreadOK(t) BY <1>1, <1>2 DEF ThreadOK, InSend, InRecv, Reading
<1> QED BY <1>1, <1>2, <1>3, <1>4, <1>5, <1>6 DEF IInv, SendCount, RecvCount

LEMMA ResetWakeKeeps ==
  ASSUME IInv, NEW t \in Thread, ResetWake(t)
  PROVE  IInv'
<1>1. UNCHANGED mailboxVars BY DEF ResetWake
<1>2. CASE ResumeAllWake(t, Recv, "reset_recv", "reset_recv")
  BY <1>1, <1>2, ResumeAllKeeps
<1>3. CASE ResumeAllWake(t, Send, "reset_send", "reset_send")
  BY <1>1, <1>3, ResumeAllKeeps
<1>4. CASE /\ ResumeAllTest(t, Recv, "reset_recv", "reset_recv", "reset_send")
           /\ k.wait[Recv] = <<>>
  BY <1>1, <1>4, MaskKeeps
<1> QED BY <1>2, <1>3, <1>4 DEF ResetWake

LEMMA DetachLoopKeeps ==
  ASSUME IInv, NEW t \in Thread, DetachLoop(t)
  PROVE  IInv'
<1>1. UNCHANGED mailboxVars BY DEF DetachLoop
<1>2. CASE ResumeAllWake(t, Recv, "detach_recv_body", "detach_recv")
  BY <1>1, <1>2, ResumeAllKeeps DEF Masked
<1>3. CASE ResumeAllWake(t, Send, "detach_send_body", "detach_send")
  BY <1>1, <1>3, ResumeAllKeeps DEF Masked
<1>4. CASE \/ ResumeAllTest(t, Recv, "detach_recv", "detach_recv_body", "detach_send")
           \/ ResumeAllTest(t, Send, "detach_send", "detach_send_body", "run")
  BY <1>1, <1>4, DetachKeeps
<1> QED BY <1>2, <1>3, <1>4 DEF DetachLoop

LEMMA DetachLostKeeps ==
  ASSUME IInv, NEW t \in Thread, DetachLost(t)
  PROVE  IInv'
<1>1. UNCHANGED mailboxVars BY DEF DetachLost
<1>2. CASE LostStep(t)
  <2>1. UNCHANGED vars
    BY <1>1, <1>2 DEF LostStep, vars, mailboxVars, boxVars, callVars
  <2> QED BY <2>1, StutterKeeps
<1>3. CASE \/ ResumeAllLost(t, Recv, "detach_recv_body")
           \/ ResumeAllLost(t, Send, "detach_send_body")
  BY <1>1, <1>3, MaskKeeps
<1> QED BY <1>2, <1>3 DEF DetachLost

LEMMA NextKeeps ==
  ASSUME IInv, [Next]_vars
  PROVE  IInv'
<1>1. CASE UNCHANGED vars BY <1>1, StutterKeeps
<1>2. CASE Boot BY <1>2, BootKeeps
<1>3. CASE Tick BY <1>3, YieldKeeps, TimeoutKeeps DEF Tick
<1>4. ASSUME NEW t \in Thread, ThreadStep(t) PROVE IInv'
  <2>1. CASE Compute(t)
    <3>1. UNCHANGED vars BY <2>1 DEF Compute, OwnCode, vars, mailboxVars, boxVars, callVars
    <3> QED BY <3>1, StutterKeeps
  <2>2. CASE SendSchedule(t) \/ RecvSchedule(t) \/ CallSchedule(t) BY <2>2, ScheduleKeeps
  <2>3. CASE SendError(t) \/ RecvError(t) \/ \E v \in Mail : SendFull(t, v)
    BY <2>3, RefusedKeeps
  <2>4. CASE \E v \in Mail : \E time \in Time : SendPut(t, v, time) BY <2>4, SendPutKeeps
  <2>5. CASE \E time \in Time : RecvSuspend(t, time) \/ \E v \in Mail : SendSuspend(t, v, time)
    BY <2>5, SuspendKeeps
  <2>6. CASE RecvEmpty(t) BY <2>6, RecvEmptyKeeps
  <2>7. CASE \E time \in Time : RecvTake(t, time) BY <2>7, RecvTakeKeeps
  <2>8. CASE RecvEnd(t) BY <2>8, RecvEndKeeps
  <2>9. CASE Reset(t) BY <2>9, MaskKeeps
  <2>10. CASE ResetWake(t) BY <2>10, ResetWakeKeeps
  <2>11. CASE ResetBox(t) BY <2>11, ResetBoxKeeps
  <2>12. CASE Detach(t) BY <2>12, DetachKeeps
  <2>13. CASE DetachLoop(t) BY <2>13, DetachLoopKeeps
  <2>14. CASE DetachLost(t) BY <2>14, DetachLostKeeps
  <2>15. CASE MailboxInit(t) BY <2>15, MailboxInitKeeps
  <2> QED
    BY <1>4, <2>1, <2>2, <2>3, <2>4, <2>5, <2>6, <2>7, <2>8, <2>9, <2>10, <2>11, <2>12,
       <2>13, <2>14, <2>15
    DEF ThreadStep
<1>5. CASE \E v \in Mail : IsrSend(v) BY <1>5, IsrSendKeeps
<1> QED BY <1>1, <1>2, <1>3, <1>4, <1>5 DEF Next

LEMMA Invariance == Spec => []IInv
<1>1. Init => IInv BY InitEstablishes
<1>2. IInv /\ [Next]_vars => IInv' BY NextKeeps
<1> QED BY <1>1, <1>2, PTL DEF Spec

\* No wake-up is lost on either list of a mailbox: the suspended senders and
\* receivers are on their lists, every free slot is matched by a sender that
\* was woken for it while senders wait, and every mail by a woken receiver.
THEOREM MailboxLosesNoWakeup == Spec => []NoLostWakeup
<1>1. ASSUME IInv PROVE NoLostWakeup
  BY <1>1 DEF IInv, NoLostWakeup, NoStranded, ThreadOK, SendCount, RecvCount, WokenS, WokenR
<1> QED BY <1>1, Invariance, PTL

\* A call of rt_mb_send_wait or rt_mb_recv waits with its timer running exactly
\* when it was made with a limited waiting time, however often it was woken
\* and had to wait again.
THEOREM MailboxKeepsTime == Spec => []TimedStaysTimed
<1>1. ASSUME IInv PROVE TimedStaysTimed
  <2>1. ToSet(k.wait[Recv]) \subseteq Thread /\ ToSet(k.wait[Send]) \subseteq Thread
    BY <1>1, Types, ListFacts
  <2> QED BY <1>1, <2>1 DEF IInv, ThreadOK, TimedStaysTimed
<1> QED BY <1>1, Invariance, PTL

-----------------------------------------------------------------------------
(***************************************************************************)
(* The ring as a sequence, and the queue that it implements.               *)
(***************************************************************************)
Slot(out, i) == IF out + i - 1 < Size THEN out + i - 1 ELSE out + i - 1 - Size

RingSeq(pool, out, n) == [i \in 1 .. n |-> pool[(out + i - 1) % Size]]

IsRing(s, pool, out, n) ==
    /\ s \in Seq(Mail \cup {NoMail}) /\ Len(s) = n
    /\ \A i \in 1 .. n : s[i] = pool[Slot(out, i)]

LEMMA RingFacts ==
  ASSUME NEW pool \in [0 .. Size - 1 -> Mail \cup {NoMail}], NEW out \in 0 .. Size - 1,
         NEW n \in 0 .. Size
  PROVE  IsRing(RingSeq(pool, out, n), pool, out, n)
<1>1. Size \in Nat \ {0} BY MailboxAssumption
<1>2. ASSUME NEW i \in 1 .. n
      PROVE  (out + i - 1) % Size \in 0 .. Size - 1 /\ (out + i - 1) % Size = Slot(out, i)
  <2>1. out + i - 1 \in 0 .. 2 * Size - 1 BY <1>1
  <2>2. PICK x \in 0 .. 2 * Size - 1 : x = out + i - 1 BY <2>1
  <2>3. x % Size = IF x < Size THEN x ELSE x - Size BY ModOnce
  <2>4. x % Size \in 0 .. Size - 1 BY <1>1, <2>3
  <2>5. x % Size = (out + i - 1) % Size BY ONLY <2>2
  <2>6. x % Size = Slot(out, i) BY <1>1, <2>2, <2>3 DEF Slot
  <2> QED BY ONLY <2>4, <2>5, <2>6
<1>3. PICK s : s = RingSeq(pool, out, n) OBVIOUS
<1>4. s = [i \in 1 .. n |-> pool[(out + i - 1) % Size]] BY <1>3 DEF RingSeq
<1>5. \A i \in 1 .. n : s[i] = pool[Slot(out, i)] BY <1>2, <1>4
<1>6. \A i \in 1 .. n : pool[(out + i - 1) % Size] \in Mail \cup {NoMail} BY <1>2
<1>7. n \in Nat BY <1>1
<1>8. s \in Seq(Mail \cup {NoMail}) /\ Len(s) = n BY <1>4, <1>6, <1>7
<1> QED BY <1>3, <1>5, <1>8 DEF IsRing

LEMMA ContentsFacts ==
  ASSUME IInv
  PROVE  IsRing(Contents, msg_pool, out_offset, entry)
<1>1. /\ msg_pool \in [0 .. Size - 1 -> Mail \cup {NoMail}]
      /\ out_offset \in 0 .. Size - 1 /\ entry \in 0 .. Size
  BY DEF IInv, TypeOK
<1>2. Contents = RingSeq(msg_pool, out_offset, entry) BY DEF Contents, RingSeq
<1> QED BY ONLY <1>1, <1>2, RingFacts

LEMMA ContentsNext ==
  ASSUME msg_pool' \in [0 .. Size - 1 -> Mail \cup {NoMail}],
         out_offset' \in 0 .. Size - 1, entry' \in 0 .. Size
  PROVE  IsRing(Contents', msg_pool', out_offset', entry')
<1>1. /\ msg_pool' \in [0 .. Size - 1 -> Mail \cup {NoMail}]
      /\ out_offset' \in 0 .. Size - 1 /\ entry' \in 0 .. Size
  OBVIOUS
<1>2. Contents' = RingSeq(msg_pool', out_offset', entry') BY DEF Contents, RingSeq
<1> QED BY ONLY <1>1, <1>2, RingFacts

\* What a mail is put into the ring as is the next item of the queue.
LEMMA PutAppends ==
  ASSUME IInv, entry # Size, NEW v \in Mail, Put(v)
  PROVE  Len(Contents) < Size /\ Contents' = Append(Contents, v)
<1>1. /\ msg_pool \in [0 .. Size - 1 -> Mail \cup {NoMail}]
      /\ in_offset \in 0 .. Size - 1 /\ out_offset \in 0 .. Size - 1
      /\ entry \in 0 .. Size - 1 /\ Size \in Nat \ {0}
  BY MailboxAssumption DEF IInv, TypeOK
<1>2. /\ msg_pool' = [msg_pool EXCEPT ![in_offset] = v]
      /\ entry' = entry + 1 /\ out_offset' = out_offset
  BY DEF Put
<1>3. /\ msg_pool' \in [0 .. Size - 1 -> Mail \cup {NoMail}]
      /\ out_offset' \in 0 .. Size - 1 /\ entry' \in 0 .. Size
  BY PutRing
<1>4. in_offset = IF out_offset + entry < Size THEN out_offset + entry
                                               ELSE out_offset + entry - Size
  <2>1. PICK x \in 0 .. 2 * Size - 1 : x = out_offset + entry BY <1>1
  <2>2. x % Size = IF x < Size THEN x ELSE x - Size BY ModOnce
  <2>3. in_offset = x % Size BY <2>1 DEF IInv, RingOK
  <2> QED BY <1>1, <2>1, <2>2, <2>3
<1>5. PICK c \in Seq(Mail \cup {NoMail}) :
         /\ c = Contents /\ Len(c) = entry
         /\ \A i \in 1 .. entry : c[i] = msg_pool[Slot(out_offset, i)]
  BY ContentsFacts DEF IsRing
<1>6. PICK d \in Seq(Mail \cup {NoMail}) :
         /\ d = Contents' /\ Len(d) = entry'
         /\ \A i \in 1 .. entry' : d[i] = msg_pool'[Slot(out_offset', i)]
  BY <1>3, ContentsNext DEF IsRing
<1>7. \A i \in 1 .. entry : d[i] = c[i]
  <2>1. TAKE i \in 1 .. entry
  <2>2. PICK j \in 0 .. Size - 1 : j = Slot(out_offset, i) BY <1>1 DEF Slot
  <2>3. j # in_offset BY <1>1, <1>4, <2>2 DEF Slot
  <2>4. msg_pool'[j] = msg_pool[j] BY <1>1, <1>2, <2>3
  <2>5. i \in 1 .. entry' BY <1>1, <1>2
  <2> QED BY <1>2, <1>5, <1>6, <2>2, <2>4, <2>5
<1>8. d[entry + 1] = v
  <2>1. entry + 1 \in 1 .. entry' /\ Slot(out_offset, entry + 1) = in_offset
    BY <1>1, <1>2, <1>4 DEF Slot
  <2>2. d[entry + 1] = msg_pool'[in_offset]
    BY <1>2, <1>6, <2>1
  <2> QED BY <1>1, <1>2, <2>2
<1>9. d = Append(c, v)
  <2>1. PICK a : a = Append(c, v) OBVIOUS
  <2>2. /\ a \in Seq(Mail \cup {NoMail}) /\ Len(a) = entry + 1
        /\ \A i \in 1 .. entry : a[i] = c[i] /\ a[entry + 1] = v
    BY <1>5, <2>1
  <2>3. \A i \in 1 .. Len(d) : d[i] = a[i]
    BY <1>1, <1>2, <1>5, <1>6, <1>7, <1>8, <2>1, <2>2
  <2>4. Len(d) = Len(a) BY <1>2, <1>6, <2>2
  <2> QED BY <2>1, <2>2, <2>3, <2>4, SeqEqual
<1> QED BY <1>1, <1>5, <1>6, <1>9

\* What is taken out of the ring is the first item of the queue.
LEMMA TakeIsHead ==
  ASSUME IInv, entry # 0, out_offset' = Advance(out_offset), entry' = entry - 1,
         UNCHANGED <<msg_pool, in_offset>>
  PROVE  /\ Contents # <<>> /\ Head(Contents) = msg_pool[out_offset]
         /\ Contents' = Tail(Contents)
<1>1. /\ msg_pool \in [0 .. Size - 1 -> Mail \cup {NoMail}]
      /\ out_offset \in 0 .. Size - 1 /\ entry \in 1 .. Size /\ Size \in Nat \ {0}
  BY MailboxAssumption DEF IInv, TypeOK
<1>2. out_offset' = IF out_offset + 1 >= Size THEN 0 ELSE out_offset + 1
  BY DEF Advance
<1>3. /\ msg_pool' \in [0 .. Size - 1 -> Mail \cup {NoMail}]
      /\ out_offset' \in 0 .. Size - 1 /\ entry' \in 0 .. Size
  BY TakeRing
<1>4. PICK c \in Seq(Mail \cup {NoMail}) :
         /\ c = Contents /\ Len(c) = entry
         /\ \A i \in 1 .. entry : c[i] = msg_pool[Slot(out_offset, i)]
  BY ContentsFacts DEF IsRing
<1>5. PICK d \in Seq(Mail \cup {NoMail}) :
         /\ d = Contents' /\ Len(d) = entry'
         /\ \A i \in 1 .. entry' : d[i] = msg_pool'[Slot(out_offset', i)]
  BY <1>3, ContentsNext DEF IsRing
<1>6. c # <<>> /\ Head(c) = msg_pool[out_offset]
  <2>1. 1 \in 1 .. entry /\ Slot(out_offset, 1) = out_offset BY <1>1 DEF Slot
  <2>2. c[1] = msg_pool[out_offset] BY <1>4, <2>1
  <2> QED BY <1>1, <1>4, <2>2
<1>7. d = Tail(c)
  <2>1. PICK a : a = Tail(c) OBVIOUS
  <2>2. /\ a \in Seq(Mail \cup {NoMail}) /\ Len(a) = Len(c) - 1
        /\ \A i \in 1 .. Len(a) : a[i] = c[i + 1]
    BY <1>6, <2>1, HeadTailProperties
  <2>3. Len(d) = Len(a) BY <1>4, <1>5, <2>2
  <2>4. ASSUME NEW i \in 1 .. Len(d) PROVE d[i] = a[i]
    <3>1. i \in 1 .. entry' /\ i + 1 \in 1 .. entry /\ i \in 1 .. Len(a) BY <1>1, <1>5, <2>3
    <3>2. c[i + 1] = msg_pool[Slot(out_offset, i + 1)] BY <1>4, <3>1
    <3>3. Slot(out_offset, i + 1) = Slot(out_offset', i) BY <1>1, <1>2, <3>1 DEF Slot
    <3>4. d[i] = c[i + 1] BY <1>5, <3>1, <3>2, <3>3
    <3> QED BY <2>2, <3>1, <3>4
  <2> QED BY <2>1, <2>2, <2>3, <2>4, SeqEqual
<1> QED BY <1>4, <1>5, <1>6, <1>7

\* The receivers that have taken a mail.
AtEnd(u) == pc[u] \in {"recv_end", "recv_end_sched"}

LEMMA ReceivedKept ==
  ASSUME \A u \in Receiver : (AtEnd(u)' <=> AtEnd(u)) /\ (AtEnd(u) => mail'[u] = mail[u])
  PROVE  Received' = Received
BY DEF Received, AtEnd

LEMMA ContentsEmpty ==
  ASSUME entry' = 0
  PROVE  Contents' = <<>>
BY DEF Contents

\* A step that leaves the ring alone, and the mails that were taken.
LEMMA QueueStutters ==
  ASSUME boxVars' = boxVars,
         \A u \in Receiver : (AtEnd(u)' <=> AtEnd(u)) /\ (AtEnd(u) => mail'[u] = mail[u])
  PROVE  Contents' = Contents /\ Received' = Received
<1>1. Contents' = Contents BY DEF boxVars, Contents
<1> QED BY <1>1, ReceivedKept

\* A step of t that takes no mail, and at whose end t has none.
LEMMA MailsStay ==
  ASSUME IInv, NEW t \in Thread, ~AtEnd(t), NEW to, pc' = [pc EXCEPT ![t] = to],
         to \notin {"recv_end", "recv_end_sched"},
         \A u \in Thread \ {t} : mail'[u] = mail[u]
  PROVE  \A u \in Receiver : (AtEnd(u)' <=> AtEnd(u)) /\ (AtEnd(u) => mail'[u] = mail[u])
<1>1. pc \in [Thread -> Pc] /\ Receiver \subseteq Thread BY Types, MailboxAssumption
<1>2. \A u \in Thread : pc'[u] = IF u = t THEN to ELSE pc[u] BY <1>1
<1> QED BY <1>1, <1>2 DEF AtEnd

LEMMA MailsKept ==
  ASSUME NEW t \in Thread, Returned(t) \/ UNCHANGED mail \/ \E time, v : Locals(t, time, v), IInv
  PROVE  \A u \in Thread \ {t} : mail'[u] = mail[u]
BY Types DEF Returned, Locals

LEMMA PutStep ==
  ASSUME IInv, NEW v \in Mail, entry # Size, Put(v), UNCHANGED <<irq, alive>>,
         \A u \in Receiver : (AtEnd(u)' <=> AtEnd(u)) /\ (AtEnd(u) => mail'[u] = mail[u])
  PROVE  Queued!Next
<1>1. Queued!Put(v) BY PutAppends, ReceivedKept DEF Queued!Put, Open
<1> QED BY <1>1 DEF Queued!Next

LEMMA TakeStep ==
  ASSUME IInv, NEW t \in Thread, NEW time, RecvTake(t, time)
  PROVE  Queued!Next
<1>1. /\ pc[t] \in {"run", "recv_return"}
      /\ pc[t] = "run" => t \in Receiver
      /\ entry # 0 /\ out_offset' = Advance(out_offset) /\ entry' = entry - 1
      /\ \E to \in {"recv_end", "recv_end_sched"} : pc' = [pc EXCEPT ![t] = to]
      /\ mail' = [mail EXCEPT ![t] = msg_pool[out_offset]]
      /\ UNCHANGED <<msg_pool, in_offset, irq, alive>>
  BY DEF RecvTake, AtRecv
<1>2. t \in Receiver BY <1>1 DEF IInv, ThreadOK, Reading
<1>3. Receiver \subseteq Thread BY MailboxAssumption
<1>4. /\ Contents # <<>> /\ Head(Contents) = msg_pool[out_offset]
      /\ Contents' = Tail(Contents)
  BY <1>1, TakeIsHead
<1>5. Received[t] = NoMail BY <1>1, <1>2 DEF Received
<1>6. \A u \in Receiver : Received'[u] = IF u = t THEN msg_pool[out_offset] ELSE Received[u]
  <2>1. pc \in [Thread -> Pc] /\ mail \in [Thread -> Mail \cup {NoMail}] BY Types
  <2> QED BY <1>1, <1>3, <2>1 DEF Received
<1>7. Received' = [Received EXCEPT ![t] = Head(Contents)]
  BY <1>4, <1>6 DEF Received
<1>8. Queued!Take(t) BY <1>1, <1>4, <1>5, <1>7 DEF Queued!Take, Open
<1> QED BY <1>2, <1>8 DEF Queued!Next

LEMMA EndStep ==
  ASSUME IInv, NEW t \in Thread, RecvEnd(t)
  PROVE  Queued!Next
<1>1. /\ pc[t] \in {"recv_end", "recv_end_sched"} /\ pc' = [pc EXCEPT ![t] = "run"]
      /\ mail' = [mail EXCEPT ![t] = NoMail] /\ boxVars' = boxVars
      /\ UNCHANGED <<irq, alive>>
  BY DEF RecvEnd, Goto, Returned
<1>2. t \in Receiver BY <1>1 DEF IInv, ThreadOK, Reading
<1>3. Receiver \subseteq Thread BY MailboxAssumption
<1>4. Contents' = Contents BY <1>1 DEF boxVars, Contents
<1>5. \A u \in Receiver : Received'[u] = IF u = t THEN NoMail ELSE Received[u]
  <2>1. pc \in [Thread -> Pc] /\ mail \in [Thread -> Mail \cup {NoMail}] BY Types
  <2> QED BY <1>1, <1>3, <2>1 DEF Received
<1>6. Received' = [Received EXCEPT ![t] = NoMail] BY <1>5 DEF Received
<1>7. Queued!Return(t) BY <1>1, <1>4, <1>6 DEF Queued!Return, Open
<1> QED BY <1>2, <1>7 DEF Queued!Next

\* Every step implements a step of the queue, or none.
LEMMA QueueStep ==
  ASSUME IInv, [Next]_vars
  PROVE  Queued!Next \/ UNCHANGED <<Contents, Received, Open>>
<1>1. CASE UNCHANGED vars BY <1>1 DEF vars, Contents, Received, Open
<1>2. ASSUME pc' = pc, irq' = irq, UNCHANGED mailboxVars
      PROVE  UNCHANGED <<Contents, Received, Open>>
  BY <1>2 DEF mailboxVars, boxVars, callVars, Contents, Received, Open
<1>3. CASE Boot BY <1>2, <1>3 DEF Boot, StartStep, BootStep
<1>4. CASE Tick BY <1>2, <1>4 DEF Tick, YieldStep, TimeoutStep
<1>5. ASSUME NEW t \in Thread, NEW to, to \notin {"recv_end", "recv_end_sched"},
             pc' = [pc EXCEPT ![t] = to], ~AtEnd(t), boxVars' = boxVars,
             Returned(t) \/ UNCHANGED mail \/ \E time, v : Locals(t, time, v)
      PROVE  /\ Contents' = Contents /\ Received' = Received
             /\ UNCHANGED <<irq, alive>> => UNCHANGED <<Contents, Received, Open>>
  <2>1. Contents' = Contents /\ Received' = Received
    BY <1>5, MailsKept, MailsStay, QueueStutters
  <2> QED BY <2>1 DEF Open
<1>6. ASSUME NEW t \in Thread, ThreadStep(t)
      PROVE  Queued!Next \/ UNCHANGED <<Contents, Received, Open>>
  <2>1. CASE Compute(t) \/ (DetachLost(t) /\ LostStep(t))
    BY <1>2, <2>1 DEF Compute, OwnCode, DetachLost, LostStep
  <2>2. CASE SendSchedule(t) \/ RecvSchedule(t) \/ CallSchedule(t)
    <3>1. PICK from \in {"send_sched", "recv_sched", "sched"},
               to \in {"send_return", "recv_return", "run"} :
            ScheduleStep(t, from, to) /\ UNCHANGED mailboxVars
      BY <2>2 DEF SendSchedule, RecvSchedule, CallSchedule
    <3>2. /\ ~AtEnd(t) /\ pc' = [pc EXCEPT ![t] = to] /\ boxVars' = boxVars /\ mail' = mail
          /\ UNCHANGED <<irq, alive>>
      BY <3>1 DEF ScheduleStep, Goto, AtEnd, mailboxVars, callVars
    <3> QED BY <1>5, <3>2
  <2>3. CASE SendError(t) \/ RecvError(t) \/ RecvEmpty(t) \/ \E v \in Mail : SendFull(t, v)
    <3>1. /\ ~AtEnd(t) /\ pc' = [pc EXCEPT ![t] = "run"] /\ boxVars' = boxVars /\ Returned(t)
          /\ UNCHANGED <<irq, alive>>
      BY <2>3 DEF SendError, RecvError, RecvEmpty, SendFull, AtSend, AtRecv, Goto, AtEnd
    <3> QED BY <1>5, <3>1
  <2>4. ASSUME NEW v \in Mail, NEW time \in Time, SendPut(t, v, time) PROVE Queued!Next
    <3>1. PICK to \in {"run", "sched"} :
            /\ ~AtEnd(t) /\ pc' = [pc EXCEPT ![t] = to] /\ Returned(t)
            /\ entry # Size /\ Put(v) /\ UNCHANGED <<irq, alive>>
      BY <2>4 DEF SendPut, AtSend, AtEnd
    <3>2. \A u \in Receiver : (AtEnd(u)' <=> AtEnd(u)) /\ (AtEnd(u) => mail'[u] = mail[u])
      BY <3>1, MailsKept, MailsStay
    <3> QED BY <3>1, <3>2, PutStep
  <2>5. ASSUME NEW time \in Time,
               RecvSuspend(t, time) \/ \E v \in Mail : SendSuspend(t, v, time)
        PROVE  UNCHANGED <<Contents, Received, Open>>
    <3>1. PICK to \in {"recv_sched", "send_sched"} :
            /\ ~AtEnd(t) /\ pc' = [pc EXCEPT ![t] = to] /\ boxVars' = boxVars
            /\ (\E v : Locals(t, time, v)) /\ UNCHANGED <<irq, alive>>
      BY <2>5 DEF RecvSuspend, SendSuspend, AtSend, AtRecv, AtEnd
    <3> QED BY <1>5, <3>1
  <2>6. CASE \E time \in Time : RecvTake(t, time) BY <2>6, TakeStep
  <2>7. CASE RecvEnd(t) BY <2>7, EndStep
  <2>8. CASE Reset(t) \/ Detach(t) \/ ResetWake(t) \/ DetachLoop(t)
             \/ (DetachLost(t) /\ ~LostStep(t))
    <3>1. PICK to \in {"reset_recv", "reset_send", "detach_recv", "detach_recv_body",
                       "detach_send", "detach_send_body", "run", "lost"} :
            ~AtEnd(t) /\ pc' = [pc EXCEPT ![t] = to]
      <4>1. CASE Reset(t) \/ Detach(t) BY <4>1 DEF Reset, Detach, Goto, AtEnd
      <4>2. CASE ResetWake(t)
        BY <4>2 DEF ResetWake, ResumeAllWake, ResumeAllTest, Goto, AtEnd
      <4>3. CASE DetachLoop(t)
        BY <4>3 DEF DetachLoop, ResumeAllWake, ResumeAllTest, Goto, AtEnd
      <4>4. CASE DetachLost(t) /\ ~LostStep(t)
        BY <4>4 DEF DetachLost, ResumeAllLost, Goto, AtEnd
      <4> QED BY <2>8, <4>1, <4>2, <4>3, <4>4
    <3>2. boxVars' = boxVars /\ mail' = mail
      BY <2>8 DEF Reset, Detach, ResetWake, DetachLoop, DetachLost, mailboxVars, callVars
    <3>3. CASE ResetWake(t) \/ DetachLoop(t)
      <4>1. UNCHANGED <<irq, alive>>
        BY <3>3 DEF ResetWake, DetachLoop, ResumeAllWake, ResumeAllTest, mailboxVars
      <4> QED BY <1>5, <3>1, <3>2, <4>1
    <3>4. CASE Reset(t) \/ Detach(t) \/ (DetachLost(t) /\ ~LostStep(t))
      <4>1. irq' # NoThread \/ ~alive'
        BY <3>4, KernelAssumption DEF Reset, Detach, DetachLost, ResumeAllLost
      <4>2. Contents' = Contents /\ Received' = Received BY <1>5, <3>1, <3>2
      <4>3. Queued!Reset BY <4>1, <4>2 DEF Queued!Reset, Open
      <4> QED BY <4>3 DEF Queued!Next
    <3> QED BY <2>8, <3>3, <3>4
  <2>9. CASE ResetBox(t) \/ MailboxInit(t)
    <3>1. PICK to \in {"run", "sched"} :
            ~AtEnd(t) /\ pc' = [pc EXCEPT ![t] = to] /\ mail' = mail /\ entry' = 0
      BY <2>9 DEF ResetBox, MailboxInit, Goto, AtEnd, Emptied, callVars
    <3>2. \A u \in Receiver : (AtEnd(u)' <=> AtEnd(u)) /\ (AtEnd(u) => mail'[u] = mail[u])
      BY <3>1, MailsKept, MailsStay
    <3>3. ~Open
      <4>1. CASE ResetBox(t) BY <4>1, Types DEF ResetBox, Goto, IInv, IrqOK, Masked, Open
      <4>2. CASE MailboxInit(t) BY <4>2 DEF MailboxInit, Open
      <4> QED BY <2>9, <4>1, <4>2
    <3>4. Contents' = <<>> /\ Received' = Received BY <3>1, <3>2, ReceivedKept, ContentsEmpty
    <3>5. Open' \in BOOLEAN
      <4>1. alive' \in BOOLEAN BY <2>9 DEF ResetBox, MailboxInit, IInv, TypeOK
      <4> QED BY <4>1 DEF Open
    <3>6. Queued!Reset BY <3>3, <3>4, <3>5 DEF Queued!Reset
    <3> QED BY <3>6 DEF Queued!Next
  <2> QED
    BY <1>6, <2>1, <2>2, <2>3, <2>4, <2>5, <2>6, <2>7, <2>8, <2>9 DEF ThreadStep
<1>7. ASSUME NEW v \in Mail, IsrSend(v) PROVE Queued!Next
  <2>1. entry # Size /\ Put(v) /\ pc' = pc /\ mail' = mail /\ UNCHANGED <<irq, alive>>
    BY <1>7 DEF IsrSend, callVars
  <2>2. \A u \in Receiver : (AtEnd(u)' <=> AtEnd(u)) /\ (AtEnd(u) => mail'[u] = mail[u])
    BY <2>1 DEF AtEnd
  <2> QED BY <2>1, <2>2, PutStep
<1> QED BY <1>1, <1>3, <1>4, <1>6, <1>7 DEF Next

\* A mailbox is a bounded queue: the mails that rt_mb_send puts into the ring
\* come out of it once each, in the order they went in and unaltered, and none
\* is overwritten or lost at whatever offset the ring wraps around, except in a
\* reset or an initialisation.
THEOREM MailboxRefinesQueue == Spec => RefinesQueue
<1>1. Init => Queued!Init
  <2>1. SUFFICES ASSUME Init PROVE Queued!Init OBVIOUS
  <2>2. entry = 0 /\ pc = [t \in Thread |-> "run"] BY <2>1 DEF Init, SystemInit
  <2>3. Contents = <<>> BY <2>2 DEF Contents
  <2>4. Received = [t \in Receiver |-> NoMail] BY <2>2, MailboxAssumption DEF Received
  <2>5. Open = TRUE BY <2>1 DEF Init, SystemInit, Open
  <2> QED BY <2>3, <2>4, <2>5 DEF Queued!Init
<1>2. IInv /\ [Next]_vars => [Queued!Next]_(Queued!vars) BY QueueStep DEF Queued!vars
<1> QED BY <1>1, <1>2, Invariance, PTL DEF Spec, RefinesQueue, Queued!Spec
=============================================================================
