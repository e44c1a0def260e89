---------------------------- MODULE MessageQueue ----------------------------
(***************************************************************************)
(* One message queue of src/ipc.c: a pool of messages that are linked into *)
(* the queue or into the free list, threads that wait for a message, and   *)
(* interrupt handlers that send.  A send and a receive have two sections   *)
(* each with interrupts disabled, and copy the message between them.       *)
(*                                                                         *)
(*   q        the fields of struct rt_messagequeue and of its messages:    *)
(*            q.head, q.tail and q.free for msg_queue_head, _tail, _free,  *)
(*            q.entry, q.next[m] for m->next, q.data[m] for its content    *)
(*   k.wait[Mq]   mq->parent.suspend_thread                                *)
(*   msg[t]   the message that t's call in progress has taken off a list   *)
(*   buffer[t]    the content that t sends or has received                 *)
(*   timeout[t]   the local timeout of t's rt_mq_recv                      *)
(*   alive    whether the message queue is initialised                     *)
(***************************************************************************)
EXTENDS System

CONSTANTS
    Mq,                \* the suspend list, an element of Queue
    Flag,              \* the flag of rt_mq_init
    MaxMsgs,           \* mq->max_msgs; the messages are 1 .. MaxMsgs
    Value, NoValue,    \* the contents of messages
    Sender, Receiver,  \* the threads that send, and those that receive
    Times,             \* the waiting times of rt_mq_recv
    Ops                \* the other calls this application makes

VARIABLES q, msg, buffer, timeout, alive

callVars == <<msg, buffer, timeout>>
mqVars == <<q, msg, buffer, timeout, alive>>
vars == <<k, irq, pc, q, msg, buffer, timeout, alive>>

Time == {"zero", "timed", "forever"}

ASSUME MessageQueueAssumption ==
    /\ Mq \in Queue
    /\ Flag \in {"RT_IPC_FLAG_FIFO", "RT_IPC_FLAG_PRIO"}
    /\ MaxMsgs \in Nat \ {0}
    /\ NoValue \notin Value
    /\ Sender \cup Receiver \subseteq Thread \ {Idle}
    /\ Times \subseteq Time
    /\ Ops \subseteq {"urgent", "isr_send", "reset", "detach"}

Null == 0
Msg == 1 .. MaxMsgs

Pc == {"run", "send_copy", "send_link", "urgent_copy", "urgent_link",
       "recv_sched", "recv_return", "recv_copy", "recv_free", "sched",
       "reset_wake", "reset_free", "detach_test", "detach_body", "lost"}

-----------------------------------------------------------------------------
(***************************************************************************)
(* The lists of messages, section by section.                              *)
(***************************************************************************)

\* rt_mq_init: every message on the free list, the last one first
Fresh(data) ==
    [next |-> [m \in Msg |-> m - 1], head |-> Null, tail |-> Null,
     free |-> MaxMsgs, entry |-> 0, data |-> data]

\* take the first message off the free list
Alloc(s) == [s EXCEPT !.free = s.next[s.free]]

\* the copy of rt_mq_send: the message becomes the last one
CopyIn(s, m, v) == [s EXCEPT !.next[m] = Null, !.data[m] = v]

\* the copy of rt_mq_urgent
CopyUrgent(s, m, v) == [s EXCEPT !.data[m] = v]

\* link m to the end of the queue
Link(s, m) ==
    LET linked == IF s.tail = Null THEN s ELSE [s EXCEPT !.next[s.tail] = m]
    IN  [linked EXCEPT !.tail = m,
                       !.head = IF s.head = Null THEN m ELSE s.head,
                       !.entry = s.entry + 1]

\* mutation: the tail of an empty queue is not set
LinkUrgentNoTail(s, m) ==
    [s EXCEPT !.next[m] = s.head, !.head = m, !.entry = s.entry + 1]

\* link m to the beginning of the queue
LinkUrgent(s, m) ==
    [s EXCEPT !.next[m] = s.head, !.head = m,
              !.tail = IF s.tail = Null THEN m ELSE s.tail,
              !.entry = s.entry + 1]

\* move the head on; the entry is counted by the caller
Unlink(s) ==
    [s EXCEPT !.head = s.next[s.head],
              !.tail = IF s.tail = s.head THEN Null ELSE s.tail]

\* put m on the free list
Free(s, m) == [s EXCEPT !.next[m] = s.free, !.free = m]

-----------------------------------------------------------------------------
Init ==
    /\ SystemInit
    /\ q = Fresh([m \in Msg |-> NoValue])
    /\ msg = [t \in Thread |-> Null]
    /\ buffer = [t \in Thread |-> NoValue]
    /\ timeout = [t \in Thread |-> "zero"]
    /\ alive = TRUE

\* what the sections of a call keep until the next one
Holds(t, m, v) ==
    /\ msg' = [msg EXCEPT ![t] = m]
    /\ buffer' = [buffer EXCEPT ![t] = v]

\* mutation: only the first message on the queue wakes a receiver
WakeOneIfFirst == IF k.wait[Mq] = <<>> \/ q.entry # 0 THEN k ELSE IpcListResume(k, Mq)

WakeOne == IF k.wait[Mq] = <<>> THEN k ELSE IpcListResume(k, Mq)

(***************************************************************************)
(* rt_mq_send and rt_mq_urgent: take a free message; copy the buffer with  *)
(* interrupts enabled; link the message and wake a receiver.               *)
(***************************************************************************)
SendAlloc(t, v, copy) ==
    /\ Running(t) /\ t \in Sender /\ alive
    /\ copy = "send_copy" \/ "urgent" \in Ops
    /\ Goto(t, "run", copy)
    /\ q.free # Null
    /\ q' = Alloc(q)
    /\ Holds(t, q.free, v)
    /\ UNCHANGED <<k, irq, timeout, alive>>

\* -RT_EFULL
SendFull(t) ==
    /\ Running(t) /\ t \in Sender /\ alive
    /\ Goto(t, "run", "run")
    /\ q.free = Null
    /\ UNCHANGED <<k, irq, mqVars>>

SendCopy(t) ==
    /\ Running(t)
    /\ \/ Goto(t, "send_copy", "send_link") /\ q' = CopyIn(q, msg[t], buffer[t])
       \/ Goto(t, "urgent_copy", "urgent_link") /\ q' = CopyUrgent(q, msg[t], buffer[t])
    /\ UNCHANGED <<k, irq, callVars, alive>>

SendLink(t) ==
    /\ Running(t)
    /\ LET next == IF k.wait[Mq] = <<>> THEN "run" ELSE "sched"
       IN  \/ Goto(t, "send_link", next) /\ q' = Link(q, msg[t])
           \/ Goto(t, "urgent_link", next) /\ q' = LinkUrgent(q, msg[t])
    /\ k' = WakeOne
    /\ Holds(t, Null, NoValue)
    /\ UNCHANGED <<irq, timeout, alive>>

\* rt_mq_send in an interrupt handler
IsrSend(v) ==
    /\ Interrupt /\ "isr_send" \in Ops /\ alive
    /\ q.free # Null
    /\ q' = Link(CopyIn(Alloc(q), q.free, v), q.free)
    /\ k' = IF k.wait[Mq] = <<>> THEN k ELSE Schedule(WakeOne)
    /\ UNCHANGED <<irq, pc, callVars, alive>>

-----------------------------------------------------------------------------
(***************************************************************************)
(* rt_mq_recv: wait for a message; take it off the queue; copy it with     *)
(* interrupts enabled; put it on the free list.                            *)
(***************************************************************************)

\* timeout -= tick_delta, at least 0
TimeLeft(time) == IF time = "timed" THEN {"timed", "zero"} ELSE {time}

\* the test of the loop: at the call, or woken without an error
AtRecv(t, time) ==
    /\ Running(t)
    /\ \/ pc[t] = "run" /\ t \in Receiver /\ alive /\ time \in Times
       \/ /\ pc[t] = "recv_return" /\ k.error[t] = "RT_EOK"
          /\ time \in TimeLeft(timeout[t])

RecvSuspend(t, time) ==
    /\ AtRecv(t, time) /\ time # "zero"
    /\ q.entry = 0
    /\ pc' = [pc EXCEPT ![t] = "recv_sched"]
    /\ LET s == IpcListSuspend([k EXCEPT !.error[t] = "RT_EOK"], Mq, t, Flag)
       IN  k' = IF time = "timed" THEN TimerStart(s, t) ELSE s
    /\ timeout' = [timeout EXCEPT ![t] = time]
    /\ UNCHANGED <<irq, q, msg, buffer, alive>>

RecvEmpty(t) ==
    /\ AtRecv(t, "zero")
    /\ q.entry = 0
    /\ pc' = [pc EXCEPT ![t] = "run"]
    /\ k' = IF pc[t] = "run" THEN k ELSE [k EXCEPT !.error[t] = "RT_ETIMEOUT"]
    /\ timeout' = [timeout EXCEPT ![t] = "zero"]
    /\ UNCHANGED <<irq, q, msg, buffer, alive>>

RecvSchedule(t) == ScheduleStep(t, "recv_sched", "recv_return") /\ UNCHANGED mqVars

RecvError(t) ==
    /\ Running(t) /\ k.error[t] # "RT_EOK"
    /\ Goto(t, "recv_return", "run")
    /\ timeout' = [timeout EXCEPT ![t] = "zero"]
    /\ UNCHANGED <<k, irq, q, msg, buffer, alive>>

RecvUnlink(t, time) ==
    /\ AtRecv(t, time)
    /\ q.entry # 0
    /\ pc' = [pc EXCEPT ![t] = "recv_copy"]
    /\ q' = [Unlink(q) EXCEPT !.entry = q.entry - 1]
    /\ Holds(t, q.head, NoValue)
    /\ timeout' = [timeout EXCEPT ![t] = "zero"]
    /\ UNCHANGED <<k, irq, alive>>

\* mutation: the message is put on the free list before it is copied
RecvCopyFreed(t) ==
    /\ Running(t)
    /\ Goto(t, "recv_copy", "recv_free")
    /\ q' = Free(q, msg[t])
    /\ UNCHANGED <<k, irq, callVars, alive>>

RecvCopy(t) ==
    /\ Running(t)
    /\ Goto(t, "recv_copy", "recv_free")
    /\ Holds(t, msg[t], q.data[msg[t]])
    /\ UNCHANGED <<k, irq, q, timeout, alive>>

RecvFree(t) ==
    /\ Running(t)
    /\ Goto(t, "recv_free", "run")
    /\ q' = Free(q, msg[t])
    /\ Holds(t, Null, NoValue)
    /\ UNCHANGED <<k, irq, timeout, alive>>

\* the rt_schedule at the end of rt_mq_send, rt_mq_urgent and rt_mq_control
CallSchedule(t) == ScheduleStep(t, "sched", "run") /\ UNCHANGED mqVars

-----------------------------------------------------------------------------
(***************************************************************************)
(* rt_mq_control(RT_IPC_CMD_RESET), with interrupts disabled throughout:   *)
(* wake the receivers with an error, free the messages, clear the entry.   *)
(***************************************************************************)
Reset(t) ==
    /\ Running(t) /\ t # Idle /\ alive /\ "reset" \in Ops
    /\ Goto(t, "run", "reset_wake")
    /\ irq' = t
    /\ UNCHANGED <<k, mqVars>>

ResetWake(t) ==
    /\ \/ ResumeAllWake(t, Mq, "reset_wake", "reset_wake")
       \/ ResumeAllTest(t, Mq, "reset_wake", "reset_wake", "reset_free") /\ k.wait[Mq] = <<>>
    /\ UNCHANGED mqVars

ResetFree(t) ==
    /\ Running(t)
    /\ q.head # Null
    /\ Goto(t, "reset_free", "reset_free")
    /\ q' = Free(Unlink(q), q.head)
    /\ UNCHANGED <<k, irq, callVars, alive>>

ResetEntry(t) ==
    /\ Running(t)
    /\ q.head = Null
    /\ Goto(t, "reset_free", "sched")
    /\ q' = [q EXCEPT !.entry = 0]
    /\ irq' = NoThread
    /\ UNCHANGED <<k, callVars, alive>>

(***************************************************************************)
(* rt_mq_detach and rt_mq_delete; rt_mq_init or rt_mq_create when that is  *)
(* done and no call is in progress.                                        *)
(***************************************************************************)
Detach(t) ==
    /\ Running(t) /\ t # Idle /\ alive /\ "detach" \in Ops
    /\ Goto(t, "run", "detach_test")
    /\ alive' = FALSE
    /\ UNCHANGED <<k, irq, q, callVars>>

DetachLoop(t) ==
    /\ \/ ResumeAllTest(t, Mq, "detach_test", "detach_body", "run")
       \/ ResumeAllWake(t, Mq, "detach_body", "detach_test")
    /\ UNCHANGED mqVars

DetachLost(t) ==
    (ResumeAllLost(t, Mq, "detach_body") \/ LostStep(t)) /\ UNCHANGED mqVars

MqInit(t) ==
    /\ Running(t) /\ t # Idle /\ ~alive
    /\ \A s \in Thread \ {t} : pc[s] \in {"run", "sched"}
    /\ Goto(t, "run", "run")
    /\ alive' = TRUE
    /\ q' = Fresh(q.data)
    /\ k' = [k EXCEPT !.wait[Mq] = <<>>]
    /\ UNCHANGED <<irq, callVars>>

-----------------------------------------------------------------------------
Boot == (StartStep \/ \E t \in Thread : BootStep(t)) /\ UNCHANGED mqVars

Compute(t) == OwnCode(t) /\ UNCHANGED mqVars

Tick == (YieldStep \/ \E u \in Thread : TimeoutStep(u)) /\ UNCHANGED mqVars

ThreadStep(t) ==
    \/ Compute(t) \/ CallSchedule(t)
    \/ \E v \in Value, copy \in {"send_copy", "urgent_copy"} : SendAlloc(t, v, copy)
    \/ SendFull(t) \/ SendCopy(t) \/ SendLink(t)
    \/ RecvEmpty(t) \/ \E time \in Time : RecvSuspend(t, time) \/ RecvUnlink(t, time)
    \/ RecvSchedule(t) \/ RecvError(t) \/ RecvCopy(t) \/ RecvFree(t)
    \/ Reset(t) \/ ResetWake(t) \/ ResetFree(t) \/ ResetEntry(t)
    \/ Detach(t) \/ DetachLoop(t) \/ DetachLost(t) \/ MqInit(t)

Next ==
    \/ Boot \/ Tick
    \/ \E t \in Thread : ThreadStep(t)
    \/ \E v \in Value : IsrSend(v)

Spec == Init /\ [][Next]_vars

-----------------------------------------------------------------------------
(***************************************************************************)
(* Correctness.                                                            *)
(***************************************************************************)

\* The messages linked from start on, in order; longer than the pool when the
\* links run in a circle.
Chain(start) ==
    LET node[i \in 1 .. MaxMsgs + 1] ==
            IF i = 1 THEN start
            ELSE IF node[i - 1] = Null THEN Null ELSE q.next[node[i - 1]]
        length == Cardinality({i \in 1 .. MaxMsgs + 1 : node[i] # Null})
    IN  [i \in 1 .. length |-> node[i]]

\* Every variable has its type, and rt_schedule always finds a thread.
TypeOK ==
    /\ k \in KernelState /\ k.current # Wild
    /\ irq \in Thread \cup {NoThread}
    /\ pc \in [Thread -> Pc]
    /\ q \in [next : [Msg -> Msg \cup {Null}], head : Msg \cup {Null},
              tail : Msg \cup {Null}, free : Msg \cup {Null},
              entry : 0 .. MaxMsgs, data : [Msg -> Value \cup {NoValue}]]
    /\ msg \in [Thread -> Msg \cup {Null}]
    /\ buffer \in [Thread -> Value \cup {NoValue}]
    /\ timeout \in [Thread -> Time]
    /\ alive \in BOOLEAN

\* No message of the pool is lost or used twice: each is on the queue, on the
\* free list, or between the two sections of exactly one call, whatever other
\* sends, receives and resets come between those sections; and the queue holds
\* as many messages as entry says, the last of them at the tail.  (And every
\* variable has its type.)
MessagesAccounted ==
    /\ TypeOK
    /\ irq = NoThread =>
        LET held == {t \in Thread : msg[t] # Null}
            queued == Chain(q.head)
            free == Chain(q.free)
        IN  /\ Len(queued) = q.entry
            /\ q.tail = IF queued = <<>> THEN Null ELSE Last(queued)
            /\ Len(queued) + Len(free) + Cardinality(held) = MaxMsgs
            /\ ToSet(queued) \cup ToSet(free) \cup {msg[t] : t \in held} = Msg

\* No wake-up is lost: while receivers wait, every message on the queue is
\* matched by a receiver that was woken and has yet to run.
NoLostWakeup ==
    k.wait[Mq] # <<>> =>
        q.entry <= Cardinality({t \in Thread : /\ pc[t] \in {"recv_sched", "recv_return"}
                                               /\ t \notin ToSet(k.wait[Mq])
                                               /\ k.error[t] = "RT_EOK"})

\* Whether no reset of the queue and no detach is under way.
Open == alive /\ irq = NoThread

\* The threads that are in rt_mq_urgent and have yet to link their message.
Urging == {t \in Thread : pc[t] \in {"urgent_copy", "urgent_link"}}

\* The queue implements a bounded queue with urgent messages: a receiver gets
\* what was sent, once and in order, although the copies are made with
\* interrupts enabled; only a message of rt_mq_urgent goes to the front, and
\* only a reset or an initialisation drops any.
Contents == [i \in 1 .. Len(Chain(q.head)) |-> q.data[Chain(q.head)[i]]]

Received ==
    [t \in Receiver |-> CASE pc[t] = "recv_copy" -> q.data[msg[t]]
                          [] pc[t] = "recv_free" -> buffer[t]
                          [] OTHER -> NoValue]

Queued == INSTANCE BoundedQueue
              WITH Reader <- Receiver, Writer <- Thread, Capacity <- MaxMsgs,
                   items <- IF irq = NoThread THEN Contents ELSE <<>>,
                   got <- Received, urgent <- Urging, open <- Open

RefinesQueue == Queued!Spec
=============================================================================
