------------------------------ MODULE Mailbox ------------------------------
(***************************************************************************)
(* One mailbox of src/ipc.c: a ring of size mails, threads that wait for   *)
(* room, threads that wait for mail, and interrupt handlers that send.     *)
(*                                                                         *)
(*   msg_pool, in_offset, out_offset, entry   fields of struct rt_mailbox  *)
(*   k.wait[Recv]   mb->parent.suspend_thread                              *)
(*   k.wait[Send]   mb->suspend_sender_thread                              *)
(*   timeout[t]     the local timeout of t's call in progress              *)
(*   mail[t]        the mail that t is sending, or has received and is     *)
(*                  about to return with                                   *)
(*   called[t]      history: the time-out that the call was made with      *)
(*   alive          whether the mailbox is initialised                     *)
(***************************************************************************)
EXTENDS System

CONSTANTS
    Recv, Send,        \* the two suspend lists, elements of Queue
    Flag,              \* the flag of rt_mb_init
    Size,              \* mb->size
    Mail, NoMail,      \* the mails
    Sender, Receiver,  \* the threads that send, and those that receive
    Times,             \* the waiting times of the calls
    Ops                \* the other calls this application makes

VARIABLES msg_pool, in_offset, out_offset, entry, timeout, mail, called, alive

boxVars == <<msg_pool, in_offset, out_offset, entry>>
callVars == <<timeout, mail, called>>
mailboxVars == <<boxVars, callVars, alive>>
vars == <<k, irq, pc, msg_pool, in_offset, out_offset, entry, timeout, mail,
          called, alive>>

Time == {"zero", "timed", "forever"}

ASSUME MailboxAssumption ==
    /\ Recv \in Queue /\ Send \in Queue /\ Recv # Send
    /\ Flag \in {"RT_IPC_FLAG_FIFO", "RT_IPC_FLAG_PRIO"}
    /\ Size \in Nat \ {0}
    /\ NoMail \notin Mail
    /\ Sender \cup Receiver \subseteq Thread \ {Idle}
    /\ Times \subseteq Time
    /\ Ops \subseteq {"isr_send", "reset", "detach"}

Pc == {"run", "send_sched", "send_return", "recv_sched", "recv_return",
       "recv_end", "recv_end_sched", "sched", "reset_recv", "reset_send",
       "detach_recv", "detach_recv_body", "detach_send", "detach_send_body", "lost"}

InSend == {t \in Thread : pc[t] \in {"send_sched", "send_return"}}
InRecv == {t \in Thread : pc[t] \in {"recv_sched", "recv_return"}}

\* The threads that were woken because there is room, or mail, and that have
\* not run since.
Woken(in, q) == {t \in in : t \notin ToSet(k.wait[q]) /\ k.error[t] = "RT_EOK"}

Init ==
    /\ SystemInit
    /\ msg_pool = [i \in 0 .. Size - 1 |-> NoMail]
    /\ in_offset = 0 /\ out_offset = 0 /\ entry = 0
    /\ timeout = [t \in Thread |-> "zero"]
    /\ mail = [t \in Thread |-> NoMail]
    /\ called = [t \in Thread |-> "zero"]
    /\ alive = TRUE

-----------------------------------------------------------------------------
\* mutation: the time left is not kept from becoming negative, which waits
\* for ever
TimeLeftUnclamped(time) == IF time = "timed" THEN {"timed", "zero", "forever"} ELSE {time}

\* timeout -= tick_delta, at least 0: what a thread that is woken may have left
TimeLeft(time) == IF time = "timed" THEN {"timed", "zero"} ELSE {time}

\* t is at the test of the loop of rt_mb_send_wait (rt_mb_send is "zero") with
\* mail v and timeout time: at the call, or woken without an error
AtSend(t, v, time) ==
    /\ Running(t)
    /\ \/ /\ pc[t] = "run" /\ t \in Sender /\ alive
          /\ v \in Mail /\ time \in Times
       \/ /\ pc[t] = "send_return" /\ k.error[t] = "RT_EOK"
          /\ v = mail[t] /\ time \in TimeLeft(timeout[t])

AtRecv(t, time) ==
    /\ Running(t)
    /\ \/ pc[t] = "run" /\ t \in Receiver /\ alive /\ time \in Times
       \/ /\ pc[t] = "recv_return" /\ k.error[t] = "RT_EOK"
          /\ time \in TimeLeft(timeout[t])

\* the locals of the call in progress, or of a call that ends
Locals(t, time, v) ==
    /\ timeout' = [timeout EXCEPT ![t] = time]
    /\ mail' = [mail EXCEPT ![t] = v]
    /\ called' = [called EXCEPT ![t] = IF pc[t] = "run" THEN time ELSE called[t]]

Returned(t) ==
    /\ timeout' = [timeout EXCEPT ![t] = "zero"]
    /\ mail' = [mail EXCEPT ![t] = NoMail]
    /\ called' = [called EXCEPT ![t] = "zero"]

\* suspend on list q and start the timer
WaitOn(t, q, time) ==
    LET s == IpcListSuspend([k EXCEPT !.error[t] = "RT_EOK"], q, t, Flag)
    IN  k' = IF time = "timed" THEN TimerStart(s, t) ELSE s

\* wake the first thread of list q, if there is one
WakeOne(q) == IF k.wait[q] = <<>> THEN k ELSE IpcListResume(k, q)

-----------------------------------------------------------------------------
(***************************************************************************)
(* rt_mb_send_wait.                                                        *)
(***************************************************************************)
Advance(offset) == IF offset + 1 >= Size THEN 0 ELSE offset + 1

Put(v) ==
    /\ msg_pool' = [msg_pool EXCEPT ![in_offset] = v]
    /\ in_offset' = Advance(in_offset)
    /\ entry' = entry + 1
    /\ UNCHANGED out_offset

\* mutation: a sender that is woken does not test the mailbox again
SendPutUntested(t, v, time) ==
    /\ AtSend(t, v, time)
    /\ entry # Size \/ pc[t] = "send_return"
    /\ Put(v)
    /\ pc' = [pc EXCEPT ![t] = IF k.wait[Recv] = <<>> THEN "run" ELSE "sched"]
    /\ k' = WakeOne(Recv)
    /\ Returned(t)
    /\ UNCHANGED <<irq, alive>>

SendPut(t, v, time) ==
    /\ AtSend(t, v, time)
    /\ entry # Size
    /\ Put(v)
    /\ pc' = [pc EXCEPT ![t] = IF k.wait[Recv] = <<>> THEN "run" ELSE "sched"]
    /\ k' = WakeOne(Recv)
    /\ Returned(t)
    /\ UNCHANGED <<irq, alive>>

\* -RT_EFULL: no time (left)
SendFull(t, v) ==
    /\ AtSend(t, v, "zero")
    /\ entry = Size
    /\ pc' = [pc EXCEPT ![t] = "run"]
    /\ Returned(t)
    /\ UNCHANGED <<k, irq, boxVars, alive>>

SendSuspend(t, v, time) ==
    /\ AtSend(t, v, time) /\ time # "zero"
    /\ entry = Size
    /\ pc' = [pc EXCEPT ![t] = "send_sched"]
    /\ WaitOn(t, Send, time)
    /\ Locals(t, time, v)
    /\ UNCHANGED <<irq, boxVars, alive>>

SendSchedule(t) == ScheduleStep(t, "send_sched", "send_return") /\ UNCHANGED mailboxVars

\* a thread that is woken with an error returns it
SendError(t) ==
    /\ Running(t) /\ k.error[t] # "RT_EOK"
    /\ Goto(t, "send_return", "run")
    /\ Returned(t)
    /\ UNCHANGED <<k, irq, boxVars, alive>>

\* rt_mb_send in an interrupt handler
IsrSend(v) ==
    /\ Interrupt /\ "isr_send" \in Ops /\ alive
    /\ entry # Size
    /\ Put(v)
    /\ k' = IF k.wait[Recv] = <<>> THEN k ELSE Schedule(WakeOne(Recv))
    /\ UNCHANGED <<irq, pc, callVars, alive>>

-----------------------------------------------------------------------------
(***************************************************************************)
(* rt_mb_recv.                                                             *)
(***************************************************************************)

\* mutation: no waiting sender is woken
RecvTakeNoWake(t, time) ==
    /\ AtRecv(t, time)
    /\ entry # 0
    /\ out_offset' = Advance(out_offset)
    /\ entry' = entry - 1
    /\ pc' = [pc EXCEPT ![t] = "recv_end"]
    /\ mail' = [mail EXCEPT ![t] = msg_pool[out_offset]]
    /\ UNCHANGED <<k, irq, msg_pool, in_offset, timeout, called, alive>>

RecvTake(t, time) ==
    /\ AtRecv(t, time)
    /\ entry # 0
    /\ out_offset' = Advance(out_offset)
    /\ entry' = entry - 1
    /\ pc' = [pc EXCEPT ![t] = IF k.wait[Send] = <<>> THEN "recv_end" ELSE "recv_end_sched"]
    /\ k' = WakeOne(Send)
    /\ mail' = [mail EXCEPT ![t] = msg_pool[out_offset]]
    /\ UNCHANGED <<irq, msg_pool, in_offset, timeout, called, alive>>

\* the return with *value, after rt_schedule if a sender was woken
RecvEnd(t) ==
    /\ Running(t)
    /\ \/ Goto(t, "recv_end", "run") /\ UNCHANGED k
       \/ Goto(t, "recv_end_sched", "run") /\ k' = Schedule(k)
    /\ Returned(t)
    /\ UNCHANGED <<irq, boxVars, alive>>

RecvEmpty(t) ==
    /\ AtRecv(t, "zero")
    /\ entry = 0
    /\ pc' = [pc EXCEPT ![t] = "run"]
    /\ k' = IF pc[t] = "run" THEN k ELSE [k EXCEPT !.error[t] = "RT_ETIMEOUT"]
    /\ Returned(t)
    /\ UNCHANGED <<irq, boxVars, alive>>

RecvSuspend(t, time) ==
    /\ AtRecv(t, time) /\ time # "zero"
    /\ entry = 0
    /\ pc' = [pc EXCEPT ![t] = "recv_sched"]
    /\ WaitOn(t, Recv, time)
    /\ Locals(t, time, NoMail)
    /\ UNCHANGED <<irq, boxVars, alive>>

RecvSchedule(t) == ScheduleStep(t, "recv_sched", "recv_return") /\ UNCHANGED mailboxVars

RecvError(t) ==
    /\ Running(t) /\ k.error[t] # "RT_EOK"
    /\ Goto(t, "recv_return", "run")
    /\ Returned(t)
    /\ UNCHANGED <<k, irq, boxVars, alive>>

\* the rt_schedule at the end of rt_mb_send_wait and rt_mb_control
CallSchedule(t) == ScheduleStep(t, "sched", "run") /\ UNCHANGED mailboxVars

-----------------------------------------------------------------------------
(***************************************************************************)
(* rt_mb_control(RT_IPC_CMD_RESET), with interrupts disabled throughout:   *)
(* the receivers, then the senders are woken with an error; then the ring  *)
(* is emptied.                                                             *)
(***************************************************************************)
Emptied == in_offset' = 0 /\ out_offset' = 0 /\ entry' = 0 /\ UNCHANGED msg_pool

Reset(t) ==
    /\ Running(t) /\ t # Idle /\ alive /\ "reset" \in Ops
    /\ Goto(t, "run", "reset_recv")
    /\ irq' = t
    /\ UNCHANGED <<k, mailboxVars>>

ResetWake(t) ==
    /\ \/ ResumeAllWake(t, Recv, "reset_recv", "reset_recv")
       \/ ResumeAllTest(t, Recv, "reset_recv", "reset_recv", "reset_send") /\ k.wait[Recv] = <<>>
       \/ ResumeAllWake(t, Send, "reset_send", "reset_send")
    /\ UNCHANGED mailboxVars

ResetBox(t) ==
    /\ Running(t)
    /\ k.wait[Send] = <<>>
    /\ Goto(t, "reset_send", "sched")
    /\ irq' = NoThread
    /\ Emptied
    /\ UNCHANGED <<k, callVars, alive>>

(***************************************************************************)
(* rt_mb_detach and rt_mb_delete: the two lists one after the other, with  *)
(* interrupts enabled around each test; rt_mb_init or rt_mb_create when    *)
(* that is done and no call is in progress.                                *)
(***************************************************************************)
Detach(t) ==
    /\ Running(t) /\ t # Idle /\ alive /\ "detach" \in Ops
    /\ Goto(t, "run", "detach_recv")
    /\ alive' = FALSE
    /\ UNCHANGED <<k, irq, boxVars, callVars>>

DetachLoop(t) ==
    /\ \/ ResumeAllTest(t, Recv, "detach_recv", "detach_recv_body", "detach_send")
       \/ ResumeAllWake(t, Recv, "detach_recv_body", "detach_recv")
       \/ ResumeAllTest(t, Send, "detach_send", "detach_send_body", "run")
       \/ ResumeAllWake(t, Send, "detach_send_body", "detach_send")
    /\ UNCHANGED mailboxVars

DetachLost(t) ==
    /\ \/ ResumeAllLost(t, Recv, "detach_recv_body")
       \/ ResumeAllLost(t, Send, "detach_send_body")
       \/ LostStep(t)
    /\ UNCHANGED mailboxVars

MailboxInit(t) ==
    /\ Running(t) /\ t # Idle /\ ~alive
    /\ \A s \in Thread \ {t} : pc[s] \in {"run", "sched"}
    /\ Goto(t, "run", "run")
    /\ alive' = TRUE
    /\ Emptied
    /\ k' = [k EXCEPT !.wait = [q \in Queue |->
                IF q \in {Recv, Send} THEN <<>> ELSE k.wait[q]]]
    /\ UNCHANGED <<irq, callVars>>

-----------------------------------------------------------------------------
Boot == (StartStep \/ \E t \in Thread : BootStep(t)) /\ UNCHANGED mailboxVars

Compute(t) == OwnCode(t) /\ UNCHANGED mailboxVars

Tick == (YieldStep \/ \E u \in Thread : TimeoutStep(u)) /\ UNCHANGED mailboxVars

ThreadStep(t) ==
    \/ Compute(t) \/ CallSchedule(t)
    \/ \E v \in Mail :
          SendFull(t, v) \/ \E time \in Time : SendPut(t, v, time) \/ SendSuspend(t, v, time)
    \/ SendSchedule(t) \/ SendError(t)
    \/ RecvEmpty(t) \/ \E time \in Time : RecvTake(t, time) \/ RecvSuspend(t, time)
    \/ RecvEnd(t) \/ RecvSchedule(t) \/ RecvError(t)
    \/ Reset(t) \/ ResetWake(t) \/ ResetBox(t)
    \/ Detach(t) \/ DetachLoop(t) \/ DetachLost(t) \/ MailboxInit(t)

Next ==
    \/ Boot \/ Tick
    \/ \E t \in Thread : ThreadStep(t)
    \/ \E v \in Mail : IsrSend(v)

Spec == Init /\ [][Next]_vars

-----------------------------------------------------------------------------
(***************************************************************************)
(* Correctness.                                                            *)
(***************************************************************************)

\* Every variable has its type, rt_schedule always finds a thread, and the
\* ring is never indexed outside its slots.
TypeOK ==
    /\ k \in KernelState /\ k.current # Wild
    /\ irq \in Thread \cup {NoThread}
    /\ pc \in [Thread -> Pc]
    /\ msg_pool \in [0 .. Size - 1 -> Mail \cup {NoMail}]
    /\ in_offset \in 0 .. Size - 1 /\ out_offset \in 0 .. Size - 1
    /\ entry \in 0 .. Size
    /\ timeout \in [Thread -> Time] /\ called \in [Thread -> Time]
    /\ mail \in [Thread -> Mail \cup {NoMail}]
    /\ alive \in BOOLEAN

\* The threads on the two lists are those that wait in the calls of that list.
NoStranded ==
    \A t \in Thread :
        /\ t \in ToSet(k.wait[Send]) <=> (t \in InSend /\ k.stat[t] = "suspend")
        /\ t \in ToSet(k.wait[Recv]) <=> (t \in InRecv /\ k.stat[t] = "suspend")

\* No wake-up is lost on either list: who waits is on its list, and while
\* receivers wait, every mail in the box is matched by a receiver that was woken
\* and has yet to run, and while senders wait, so is every free slot by a
\* sender.  (And every variable has its type, the offsets in the ring included.)
NoLostWakeup ==
    /\ TypeOK /\ NoStranded
    /\ k.wait[Recv] # <<>> => entry <= Cardinality(Woken(InRecv, Recv))
    /\ k.wait[Send] # <<>> => Size - entry <= Cardinality(Woken(InSend, Send))

\* A call that was made with a waiting time never waits without a timer,
\* however often it is woken, finds the mailbox full or empty again, and waits
\* for what is left of its time; a call made without one never waits.
TimedStaysTimed ==
    \A t \in ToSet(k.wait[Recv]) \cup ToSet(k.wait[Send]) :
        /\ called[t] # "zero"
        /\ called[t] = "timed" <=> t \in k.armed

\* Whether no reset of the mailbox and no detach is under way.
Open == alive /\ irq = NoThread

\* The ring implements a bounded queue in which nothing is urgent: mails arrive
\* once, in the order they were sent, unaltered, and none is dropped but by a
\* reset or an initialisation.
Contents == [i \in 1 .. entry |-> msg_pool[(out_offset + i - 1) % Size]]

Received ==
    [t \in Receiver |->
        IF pc[t] \in {"recv_end", "recv_end_sched"} THEN mail[t] ELSE NoMail]

Queued == INSTANCE BoundedQueue
              WITH Reader <- Receiver, Writer <- {}, Value <- Mail, NoValue <- NoMail,
                   Capacity <- Size, items <- Contents, got <- Received,
                   urgent <- {}, open <- Open

RefinesQueue == Queued!Spec
=============================================================================
