------------------------------- MODULE Event -------------------------------
(***************************************************************************)
(* One event object of src/ipc.c: threads wait for all (AND) or any (OR)   *)
(* of a set of event bits, threads and interrupt handlers send bits.       *)
(*                                                                         *)
(*   set           event->set, as the set of its bits                      *)
(*   k.wait[Ev]    event->parent.suspend_thread                            *)
(*   event_set[t], event_info[t]   the fields of struct rt_thread          *)
(*   n             the local n of rt_event_send: the thread that its walk  *)
(*                 over the suspend list visits next, NoThread at the head *)
(*   need_schedule the local of rt_event_send                              *)
(*   alive         whether the object is initialised                       *)
(*   due           history: the bits that were sent, and that no receiver  *)
(*                 with RT_EVENT_FLAG_CLEAR has been given since           *)
(*   grant[t]      history: the bits of t's request that were set when t   *)
(*                 was woken; {} for a thread that is not being woken      *)
(***************************************************************************)
EXTENDS System

CONSTANTS
    Ev,        \* the suspend list of the event, an element of Queue
    Flag,      \* the flag of rt_event_init
    Bit,       \* the event bits in use
    Request,   \* what each thread calls rt_event_recv with: set and option
    Handler,   \* an interrupt handler, as the holder of irq
    Times,     \* the waiting times of rt_event_recv
    Ops        \* the other calls this application makes

VARIABLES set, event_set, event_info, n, need_schedule, alive, due, grant

threadEvents == <<event_set, event_info>>
walkVars == <<n, need_schedule>>
eventVars == <<set, event_set, event_info, n, need_schedule, alive, due, grant>>
vars == <<k, irq, pc, set, event_set, event_info, n, need_schedule, alive, due, grant>>

\* The option of rt_event_recv: RT_EVENT_FLAG_AND (else _OR), _CLEAR.
Option == [and : BOOLEAN, clear : BOOLEAN]

ASSUME EventAssumption ==
    /\ Ev \in Queue
    /\ Flag \in {"RT_IPC_FLAG_FIFO", "RT_IPC_FLAG_PRIO"}
    /\ Request \in [Thread -> SUBSET [set : (SUBSET Bit) \ {{}}, option : Option]]
    /\ Handler \notin Thread \cup {NoThread}
    /\ Times \subseteq {"zero", "timed", "forever"}
    /\ Ops \subseteq {"isr_send", "reset", "detach"}

Pc == {"run", "recv_sched", "recv_return", "walk", "sched", "reset_loop",
       "detach_test", "detach_body", "lost"}

Receiving == {t \in Thread : pc[t] \in {"recv_sched", "recv_return"}}

Waiting == ToSet(k.wait[Ev])

Init ==
    /\ SystemInit
    /\ set = {}
    /\ event_set = [t \in Thread |-> {}]
    /\ event_info = [t \in Thread |-> [and |-> FALSE, clear |-> FALSE]]
    /\ n = NoThread
    /\ need_schedule = FALSE
    /\ alive = TRUE
    /\ due = {}
    /\ grant = [t \in Thread |-> {}]

-----------------------------------------------------------------------------
(***************************************************************************)
(* rt_event_recv.  The first section receives, gives up, or suspends the   *)
(* thread; then rt_schedule; then the test of thread->error.               *)
(***************************************************************************)

\* whether the bits of asked that are set satisfy the option
Satisfied(asked, option, bits) ==
    IF option.and THEN asked \subseteq bits ELSE asked \cap bits # {}

\* mutation: RT_EVENT_FLAG_CLEAR clears every bit
ClearedAll(asked, option, bits) == IF option.clear THEN {} ELSE bits

\* event->set after a reception of asked
Cleared(asked, option, bits) == IF option.clear THEN bits \ asked ELSE bits

CallRecv(t, r) == Running(t) /\ t # Idle /\ alive /\ r \in Request[t]

RecvNow(t, r) ==
    /\ CallRecv(t, r) /\ Times # {}
    /\ Goto(t, "run", "run")
    /\ Satisfied(r.set, r.option, set)
    /\ k' = [k EXCEPT !.error[t] = "RT_EOK"]
    /\ set' = Cleared(r.set, r.option, set)
    /\ due' = IF r.option.clear THEN due \ r.set ELSE due
    /\ UNCHANGED <<irq, threadEvents, walkVars, alive, grant>>

RecvFail(t, r) ==
    /\ CallRecv(t, r) /\ "zero" \in Times
    /\ Goto(t, "run", "run")
    /\ ~Satisfied(r.set, r.option, set)
    /\ k' = [k EXCEPT !.error[t] = "RT_ETIMEOUT"]
    /\ UNCHANGED <<irq, eventVars>>

RecvSuspend(t, r, time) ==
    /\ CallRecv(t, r) /\ time # "zero"
    /\ Goto(t, "run", "recv_sched")
    /\ ~Satisfied(r.set, r.option, set)
    /\ event_set' = [event_set EXCEPT ![t] = r.set]
    /\ event_info' = [event_info EXCEPT ![t] = r.option]
    /\ LET s == IpcListSuspend([k EXCEPT !.error[t] = "RT_EOK"], Ev, t, Flag)
       IN  k' = IF time = "timed" THEN TimerStart(s, t) ELSE s
    /\ UNCHANGED <<irq, set, walkVars, alive, due, grant>>

RecvSchedule(t) ==
    /\ ScheduleStep(t, "recv_sched", "recv_return")
    /\ UNCHANGED eventVars

\* an error is returned as it is; otherwise *recved = thread->event_set
RecvReturn(t) ==
    /\ Running(t)
    /\ Goto(t, "recv_return", "run")
    /\ grant' = [grant EXCEPT ![t] = {}]
    /\ UNCHANGED <<k, irq, set, threadEvents, walkVars, alive, due>>

-----------------------------------------------------------------------------
(***************************************************************************)
(* rt_event_send, by a thread or by an interrupt handler: one section with *)
(* interrupts disabled, here one step per thread of the suspend list.      *)
(***************************************************************************)
First(w) == IF w = <<>> THEN NoThread ELSE Head(w)

\* n->next on the suspend list w, NoThread at its end
Successor(w, t) ==
    LET after == {i \in 2 .. Len(w) : w[i - 1] = t}
    IN  IF after = {} THEN NoThread ELSE w[Min(after)]

SendBegin(bits) ==
    /\ alive
    /\ set' = set \cup bits
    /\ due' = due \cup bits
    /\ n' = First(k.wait[Ev])
    /\ need_schedule' = FALSE
    /\ UNCHANGED <<k, threadEvents, alive, grant>>

Send(t, bits) ==
    /\ Running(t) /\ t # Idle
    /\ Goto(t, "run", "walk")
    /\ irq' = t
    /\ SendBegin(bits)

IsrSend(bits) ==
    /\ Interrupt /\ "isr_send" \in Ops
    /\ irq' = Handler
    /\ SendBegin(bits)
    /\ UNCHANGED pc

\* the thread that an event is sent by: one at "walk", or the handler
Sending == irq = Handler \/ (irq \in Thread /\ pc[irq] = "walk")

\* mutation: n moves on after the thread has left the suspend list
VisitLateNext ==
    /\ Sending /\ n # NoThread
    /\ Satisfied(event_set[n], event_info[n], set)
    /\ LET got == IF event_info[n].and THEN event_set[n] ELSE event_set[n] \cap set
       IN  /\ event_set' = [event_set EXCEPT ![n] = got]
           /\ set' = Cleared(got, event_info[n], set)
           /\ due' = IF event_info[n].clear THEN due \ (event_set[n] \cap set) ELSE due
    /\ grant' = [grant EXCEPT ![n] = event_set[n] \cap set]
    /\ k' = Resume(k, n)
    /\ n' = Successor(Resume(k, n).wait[Ev], n)
    /\ need_schedule' = TRUE
    /\ UNCHANGED <<irq, pc, event_info, alive>>

\* mutation: the bits received are not saved in the thread
VisitUnsaved ==
    /\ Sending /\ n # NoThread
    /\ Satisfied(event_set[n], event_info[n], set)
    /\ set' = Cleared(event_set[n], event_info[n], set)
    /\ due' = IF event_info[n].clear THEN due \ (event_set[n] \cap set) ELSE due
    /\ grant' = [grant EXCEPT ![n] = event_set[n] \cap set]
    /\ k' = Resume(k, n)
    /\ n' = Successor(k.wait[Ev], n)
    /\ need_schedule' = TRUE
    /\ UNCHANGED <<irq, pc, event_set, event_info, alive>>

\* the condition of thread n is satisfied: it is resumed, and an OR receiver
\* keeps those of its bits that are set
VisitWake ==
    /\ Sending /\ n # NoThread
    /\ Satisfied(event_set[n], event_info[n], set)
    /\ LET got == IF event_info[n].and THEN event_set[n] ELSE event_set[n] \cap set
       IN  /\ event_set' = [event_set EXCEPT ![n] = got]
           /\ set' = Cleared(got, event_info[n], set)
           /\ due' = IF event_info[n].clear THEN due \ (event_set[n] \cap set) ELSE due
    /\ grant' = [grant EXCEPT ![n] = event_set[n] \cap set]
    /\ k' = Resume(k, n)
    /\ n' = Successor(k.wait[Ev], n)
    /\ need_schedule' = TRUE
    /\ UNCHANGED <<irq, pc, event_info, alive>>

VisitSkip ==
    /\ Sending /\ n # NoThread
    /\ ~Satisfied(event_set[n], event_info[n], set)
    /\ n' = Successor(k.wait[Ev], n)
    /\ UNCHANGED <<k, irq, pc, set, threadEvents, need_schedule, alive, due, grant>>

\* the end of the section, and of the handler with its rt_schedule
SendEnd ==
    /\ Sending /\ n = NoThread
    /\ irq' = NoThread
    /\ IF irq = Handler
       THEN /\ k' = IF need_schedule THEN Schedule(k) ELSE k
            /\ UNCHANGED pc
       ELSE /\ pc' = [pc EXCEPT ![irq] = IF need_schedule THEN "sched" ELSE "run"]
            /\ UNCHANGED k
    /\ need_schedule' = FALSE
    /\ UNCHANGED <<set, threadEvents, n, alive, due, grant>>

\* the rt_schedule at the end of rt_event_send and rt_event_control
CallSchedule(t) == ScheduleStep(t, "sched", "run") /\ UNCHANGED eventVars

-----------------------------------------------------------------------------
(***************************************************************************)
(* rt_event_control(RT_IPC_CMD_RESET): with interrupts disabled, every     *)
(* waiter is woken with an error and the set is emptied; then rt_schedule. *)
(***************************************************************************)
Reset(t) ==
    /\ Running(t) /\ t # Idle /\ alive /\ "reset" \in Ops
    /\ Goto(t, "run", "reset_loop")
    /\ irq' = t
    /\ UNCHANGED <<k, eventVars>>

ResetWake(t) == ResumeAllWake(t, Ev, "reset_loop", "reset_loop") /\ UNCHANGED eventVars

ResetSet(t) ==
    /\ Running(t)
    /\ k.wait[Ev] = <<>>
    /\ Goto(t, "reset_loop", "sched")
    /\ irq' = NoThread
    /\ set' = {} /\ due' = {}
    /\ UNCHANGED <<k, threadEvents, walkVars, alive, grant>>

(***************************************************************************)
(* rt_event_detach and rt_event_delete; rt_event_init or rt_event_create   *)
(* once that is done and the receivers have returned.                      *)
(***************************************************************************)
Detach(t) ==
    /\ Running(t) /\ t # Idle /\ alive /\ "detach" \in Ops
    /\ Goto(t, "run", "detach_test")
    /\ alive' = FALSE
    /\ UNCHANGED <<k, irq, set, threadEvents, walkVars, due, grant>>

DetachTest(t) ==
    ResumeAllTest(t, Ev, "detach_test", "detach_body", "run") /\ UNCHANGED eventVars

DetachWake(t) ==
    ResumeAllWake(t, Ev, "detach_body", "detach_test") /\ UNCHANGED eventVars

DetachLost(t) ==
    (ResumeAllLost(t, Ev, "detach_body") \/ LostStep(t)) /\ UNCHANGED eventVars

EventInit(t) ==
    /\ Running(t) /\ t # Idle /\ ~alive
    /\ \A s \in Thread : pc[s] \notin {"detach_test", "detach_body", "lost"}
    /\ Receiving = {}
    /\ Goto(t, "run", "run")
    /\ alive' = TRUE
    /\ set' = {} /\ due' = {}
    /\ k' = [k EXCEPT !.wait[Ev] = <<>>]
    /\ UNCHANGED <<irq, threadEvents, walkVars, grant>>

-----------------------------------------------------------------------------
Boot == (StartStep \/ \E t \in Thread : BootStep(t)) /\ UNCHANGED eventVars

Compute(t) == OwnCode(t) /\ UNCHANGED eventVars

Tick == (YieldStep \/ \E u \in Thread : TimeoutStep(u)) /\ UNCHANGED eventVars

ThreadStep(t) ==
    \/ Compute(t)
    \/ \E r \in Request[t] :
          \/ RecvNow(t, r) \/ RecvFail(t, r)
          \/ \E time \in Times : RecvSuspend(t, r, time)
    \/ RecvSchedule(t) \/ RecvReturn(t)
    \/ \E bits \in (SUBSET Bit) \ {{}} : Send(t, bits)
    \/ CallSchedule(t)
    \/ Reset(t) \/ ResetWake(t) \/ ResetSet(t)
    \/ Detach(t) \/ DetachTest(t) \/ DetachWake(t) \/ DetachLost(t) \/ EventInit(t)

Next ==
    \/ Boot \/ Tick
    \/ \E t \in Thread : ThreadStep(t)
    \/ \E bits \in (SUBSET Bit) \ {{}} : IsrSend(bits)
    \/ VisitWake \/ VisitSkip \/ SendEnd

Spec == Init /\ [][Next]_vars

-----------------------------------------------------------------------------
(***************************************************************************)
(* Correctness.                                                            *)
(***************************************************************************)

\* Every variable has its type, and rt_schedule never computes the current
\* thread out of the head of an empty list.
TypeOK ==
    /\ k \in KernelState /\ k.current # Wild
    /\ irq \in Thread \cup {NoThread, Handler}
    /\ pc \in [Thread -> Pc]
    /\ set \in SUBSET Bit /\ due \in SUBSET Bit
    /\ event_set \in [Thread -> SUBSET Bit]
    /\ event_info \in [Thread -> Option]
    /\ n \in Thread \cup {NoThread}
    /\ need_schedule \in BOOLEAN /\ alive \in BOOLEAN
    /\ grant \in [Thread -> SUBSET Bit]

\* rt_event_send wakes every thread whose condition holds: a suspended receiver
\* is on the list, and does not wait for bits that are set, although the walk
\* takes threads off the list it walks and clears bits for the threads it visits
\* later.
NoMissedEvent ==
    /\ \A t \in Thread : t \in Waiting <=> (t \in Receiving /\ k.stat[t] = "suspend")
    /\ irq = NoThread =>
          \A t \in Waiting : ~Satisfied(event_set[t], event_info[t], set)

\* Events are neither lost nor delivered twice: a bit is set from the send on
\* until one receiver with RT_EVENT_FLAG_CLEAR has been given it.  (And every
\* variable has its type.)
EventsConserved == TypeOK /\ (irq = NoThread => set = due)

\* What a woken receiver returns in *recved is what was set when it was woken,
\* and is what it asked for, however many sends, receptions and resets come
\* before it runs; one that was not woken by a send returns an error.
ReceivedWasSent ==
    /\ \A t \in Receiving \ Waiting : k.error[t] = "RT_EOK" => grant[t] # {}
    /\ \A t \in Receiving : grant[t] # {} =>
        /\ k.error[t] = "RT_EOK" /\ t \notin Waiting
        /\ event_set[t] = grant[t]
        /\ \E r \in Request[t] : /\ r.option = event_info[t]
                                 /\ grant[t] \subseteq r.set
                                 /\ r.option.and => grant[t] = r.set
=============================================================================
