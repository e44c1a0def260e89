--------------------------- MODULE ThreadsProofs ---------------------------
(***************************************************************************)
(* The threads of module Threads, for any number of threads and            *)
(* priorities, any nesting of the scheduler lock and any static threads:   *)
(* in an application that disables interrupts around the calls about       *)
(* another thread, as src/ipc.c does, or deletes a READY one, itself       *)
(* included, with the scheduler locked, and that deletes no thread it      *)
(* never started.  Then the timers of module Timers, for any threads,      *)
(* timers, timer functions and range of the tick, used as WellUsed says.   *)
(***************************************************************************)
EXTENDS Threads, Timers, KernelProofs

\* What the application has to respect: it guards its calls (see Shielded in
\* Threads), deletes with the scheduler locked or interrupts disabled, and
\* deletes no thread whose number_mask is not set yet.
Disciplined == Bracketed /\ "delete_init" \notin Ops /\ "delete_open" \notin Ops

StartPc == {"startup_check", "startup_unlink", "startup_insert"}
ResumePc == {"resume_unlink", "resume_insert"}
IdlePc == {"run", "reap_loop", "reap", "reap_free"}

\* t is in the middle of a call about a thread: with interrupts disabled, or of
\* a deletion with the scheduler locked.
Masked(t) ==
    pc[t] \in ResumePc \cup DeletePc \/ (pc[t] = "suspend_body" /\ arg[t] # t)

IrqFits(t) ==
    /\ irq = t => Masked(t)
    /\ Masked(t) => irq = t \/ (irq = NoThread /\ k.nest > 0 /\ pc[t] \in DeletePc)

IrqOK == \A t \in Thread : IrqFits(t) /\ (Masked(t) => k.current = t)

OffLists(c, u) == \A q \in Queue : u \notin ToSet(c.wait[q])

\* Before the scheduler starts no thread has run.
BootOK ==
    k.current = NoThread =>
        /\ irq = NoThread /\ k.nest = 0
        /\ \A t \in Thread :
              pc[t] = "run" /\ arg[t] = NoThread /\ k.stat[t] \in {"none", "ready"}

\* The current thread is READY, unless it suspended itself and has yet to call
\* rt_schedule or has the scheduler locked, or is on its way out.
CurrentOK ==
    k.current \in Thread =>
        /\ k.stat[Idle] = "ready"
        /\ k.stat[k.current] \in {"ready", "suspend", "close"}
        /\ k.stat[k.current] = "suspend" => k.nest > 0 \/ pc[k.current] \in BeforeSchedule
        /\ k.stat[k.current] = "close" =>
              \/ k.nest = 0 /\ pc[k.current] = "exit_sched"
              \/ k.nest > 0 /\ pc[k.current] = "exit_leave"
              \/ k.nest > 0 /\ pc[k.current] = "delete_defunct" /\ arg[k.current] = k.current

\* A thread that deleted itself runs on until it has unlocked the scheduler.
LeaveOK ==
    \A t \in Thread : pc[t] = "exit_leave" => k.current = t /\ k.nest > 0

\* Only the dead are on a list other than the ready lists.
ListsDead ==
    \A v \in Thread : (\E q \in Queue : v \in ToSet(k.wait[q])) => k.stat[v] = "close"

\* A thread that is being started is SUSPENDed, on no list, without a timer,
\* and nobody else starts it.
Untouched(c, u) ==
    c.stat[u] = "suspend" /\ u \notin c.armed /\ OffLists(c, u) /\ u # c.current

StartingOK ==
    \A s \in Thread : pc[s] \in StartPc =>
        /\ arg[s] \in Thread /\ Untouched(k, arg[s])
        /\ \A r \in Thread \ {s} : pc[r] \in StartPc => arg[r] # arg[s]

\* The idle thread frees a dead thread that is on no list.
IdleOK ==
    /\ pc[Idle] \in IdlePc
    /\ pc[Idle] = "reap_free" =>
          arg[Idle] \in Thread /\ k.stat[arg[Idle]] = "close" /\ OffLists(k, arg[Idle])

\* No dynamic thread that died is forgotten.
Awaited(v) ==
    \/ v \in ToSet(k.wait[Defunct])
    \/ arg[Idle] = v /\ pc[Idle] = "reap_free"
    \/ \E s \in Thread : arg[s] = v /\ pc[s] = "delete_defunct"

NoneForgotten == \A v \in Thread \ Static : k.stat[v] = "close" => Awaited(v)

\* A thread about to suspend a thread finds it READY.
SuspendOK ==
    \A t \in Thread : pc[t] = "suspend_body" =>
        arg[t] \in Thread \ {Idle} /\ (k.current = t => k.stat[arg[t]] = "ready")

\* What holds in the middle of a call about u.
Window(t, u) ==
    /\ u \in Thread \ {Idle}
    /\ pc[t] \in {"suspend_body", "delete_defunct"} \cup ResumePc => KernelOK(k)
    /\ pc[t] \in ResumePc => k.stat[u] = "suspend" /\ u # t /\ ~Starting(u)
    /\ pc[t] \in {"resume_insert", "delete_stat", "delete_defunct"} => u \notin k.armed
    /\ pc[t] \in {"resume_insert"} \cup DeletePc => OffLists(k, u)
    /\ pc[t] \in {"delete_timer", "delete_stat"} =>
          /\ Floating(TimerStop(k, u), u)
          /\ k.stat[u] \in {"ready", "suspend"} /\ ~Starting(u)
          /\ irq = NoThread => k.stat[u] = "ready" /\ u \notin k.armed
    /\ pc[t] \in DeletePc /\ u = t => k.nest > 0 /\ k.stat[t] \in {"ready", "close"}
    /\ pc[t] = "delete_defunct" =>
          k.stat[u] = "close" /\ (pc[Idle] = "reap_free" => arg[Idle] # u)

WindowOK ==
    IF irq = NoThread
    THEN KernelOK(k) \/ (k.current \in Thread /\ pc[k.current] \in DeletePc)
    ELSE Window(irq, arg[irq])

Deletes(t) == pc[t] \in DeletePc => Window(t, arg[t])

DeleteOK == \A t \in Thread : Deletes(t)

\* Preemptive, stated so that it survives the calls in progress.
Best ==
    (k.current \in Thread /\ k.nest = 0 /\ ~lazy) =>
        \/ pc[k.current] \in BeforeSchedule
        \/ /\ k.stat[k.current] = "ready"
           /\ \A v \in Thread : k.stat[v] = "ready" => k.prio[k.current] <= k.prio[v]

\* The part of a consistent state that is not about the current thread.
Settings == ListsDead /\ StartingOK /\ IdleOK /\ NoneForgotten /\ SuspendOK

Rest == BootOK /\ CurrentOK /\ LeaveOK /\ Settings /\ Best

IInv == TypeOK /\ IrqOK /\ WindowOK /\ DeleteOK /\ Rest

-----------------------------------------------------------------------------
(***************************************************************************)
(* The primitives of module Kernel that only threads use.                  *)
(***************************************************************************)

\* A node put at the front of a list.
LEMMA PrependToSet ==
  ASSUME NEW X, NEW s \in Seq(X), NEW e \in X
  PROVE  /\ <<e>> \o s \in Seq(X)
         /\ ToSet(<<e>> \o s) = ToSet(s) \cup {e}
         /\ IsInjective(s) /\ e \notin ToSet(s) => IsInjective(<<e>> \o s)
<1> DEFINE r == <<e>> \o s
<1>1. /\ r \in Seq(X) /\ Len(r) = Len(s) + 1 /\ r[1] = e
      /\ \A i \in 1 .. Len(s) : r[i + 1] = s[i]
  OBVIOUS
<1> HIDE DEF r
<1>2. DOMAIN r = 1 .. Len(s) + 1 /\ DOMAIN s = 1 .. Len(s) /\ Len(s) \in Nat BY <1>1
<1>3. ASSUME NEW i \in 1 .. Len(s) + 1
      PROVE  r[i] = e \/ r[i] \in ToSet(s)
  <2>1. CASE i = 1 BY <1>1, <2>1
  <2>2. CASE i # 1
    <3>1. i - 1 \in 1 .. Len(s) BY <1>2, <2>2
    <3>2. r[(i - 1) + 1] = s[i - 1] BY <1>1, <3>1
    <3>3. (i - 1) + 1 = i BY <1>2
    <3> QED BY <1>2, <3>1, <3>2, <3>3 DEF ToSet
  <2> QED BY <2>1, <2>2
<1>4. ASSUME NEW i \in 1 .. Len(s) PROVE s[i] \in ToSet(r)
  <2>1. i + 1 \in DOMAIN r /\ r[i + 1] = s[i] BY <1>1, <1>2
  <2> QED BY <2>1 DEF ToSet
<1>5. e \in ToSet(r)
  <2>1. 1 \in DOMAIN r BY <1>2
  <2> QED BY <1>1, <2>1 DEF ToSet
<1>6. ToSet(r) = ToSet(s) \cup {e}
  <2>1. ToSet(s) \subseteq ToSet(r) BY <1>2, <1>4 DEF ToSet
  <2>2. ToSet(r) \subseteq ToSet(s) \cup {e} BY <1>2, <1>3 DEF ToSet
  <2> QED BY <1>5, <2>1, <2>2
<1>7. ASSUME IsInjective(s), e \notin ToSet(s) PROVE IsInjective(r)
  <2>1. \A i \in 1 .. Len(s) : s[i] # e BY <1>2, <1>7 DEF ToSet
  <2>2. SUFFICES ASSUME NEW i \in 1 .. Len(s) + 1, NEW j \in 1 .. Len(s) + 1,
                        r[i] = r[j]
                 PROVE  i = j
    BY <1>2 DEF IsInjective
  <2>3. ASSUME NEW m \in 1 .. Len(s) + 1, m # 1
        PROVE  m - 1 \in 1 .. Len(s) /\ r[m] = s[m - 1]
    <3>1. m - 1 \in 1 .. Len(s) BY <1>2, <2>3
    <3>2. r[(m - 1) + 1] = s[m - 1] BY <1>1, <3>1
    <3>3. (m - 1) + 1 = m BY <1>2
    <3> QED BY <3>1, <3>2, <3>3
  <2>4. CASE i = 1 \/ j = 1 BY <1>1, <2>1, <2>2, <2>3, <2>4
  <2>5. CASE i # 1 /\ j # 1
    <3>1. i - 1 \in 1 .. Len(s) /\ j - 1 \in 1 .. Len(s) /\ s[i - 1] = s[j - 1]
      BY <2>2, <2>3, <2>5
    <3>2. i - 1 = j - 1 BY <1>2, <1>7, <3>1 DEF IsInjective
    <3> QED BY <3>2
  <2> QED BY <2>4, <2>5
<1> QED BY <1>1, <1>6, <1>7 DEF r

\* rt_list_insert_after of a dead thread that is on no list.
LEMMA ListInsertAfterProperties ==
  ASSUME NEW c \in KernelState, NEW t \in Thread, NEW q \in Queue, KernelOK(c),
         c.stat[t] # "ready", OffLists(c, t)
  PROVE  LET s == ListInsertAfter(c, q, t)
         IN  /\ s \in KernelState
             /\ KernelOK(s)
             /\ Frame(s, c) /\ s.stat = c.stat /\ s.armed = c.armed
             /\ ToSet(s.wait[q]) = ToSet(c.wait[q]) \cup {t}
             /\ \A r \in Queue \ {q} : s.wait[r] = c.wait[r]
<1> DEFINE longer == <<t>> \o c.wait[q]
<1>1. c.wait[q] \in Seq(Thread) /\ IsInjective(c.wait[q]) /\ t \notin ToSet(c.wait[q])
  BY DEF KernelState, KernelOK, ListsOK, OffLists
<1>2. longer \in Seq(Thread) /\ ToSet(longer) = ToSet(c.wait[q]) \cup {t} /\ IsInjective(longer)
  BY <1>1, PrependToSet
<1>3. ListInsertAfter(c, q, t) = [c EXCEPT !.wait[q] = longer] BY DEF ListInsertAfter
<1> HIDE DEF longer
<1> DEFINE s == [c EXCEPT !.wait[q] = longer]
<1>4. /\ s \in KernelState
      /\ KernelOK(s)
      /\ Frame(s, c) /\ s.stat = c.stat /\ s.armed = c.armed
      /\ s.wait = [c.wait EXCEPT ![q] = longer]
  <2>1. \A r \in Queue : t \notin ToSet(c.wait[r]) BY DEF OffLists
  <2>2. LET z == [c EXCEPT !.wait[q] = longer]
        IN  /\ z \in KernelState
            /\ KernelOK(z)
            /\ Frame(z, c) /\ z.stat = c.stat /\ z.armed = c.armed
            /\ z.wait = [c.wait EXCEPT ![q] = longer]
    BY <1>2, <2>1, WaitInsertProperties
  <2> QED BY <2>2
<1>5. s.wait[q] = longer /\ \A r \in Queue \ {q} : s.wait[r] = c.wait[r]
  BY <1>4 DEF KernelState
<1> QED BY <1>2, <1>3, <1>4, <1>5

\* rt_list_remove of a thread that is not READY.
LEMMA UnlinkProperties ==
  ASSUME NEW c \in KernelState, NEW t \in Thread, KernelOK(c), c.stat[t] # "ready"
  PROVE  LET s == ListRemove(c, t)
         IN  /\ s \in KernelState
             /\ KernelOK(s)
             /\ Frame(s, c) /\ s.stat = c.stat /\ s.armed = c.armed
             /\ s.ready = c.ready /\ s.group = c.group
             /\ \A q \in Queue : ToSet(s.wait[q]) = ToSet(c.wait[q]) \ {t}
<1> DEFINE s == ListRemove(c, t)
<1>1. /\ s \in KernelState
      /\ ListsOK(s)
      /\ Frame(s, c) /\ s.stat = c.stat /\ s.group = c.group /\ s.armed = c.armed
      /\ \A p \in Priority : /\ ToSet(s.ready[p]) = ToSet(c.ready[p]) \ {t}
                             /\ t \notin ToSet(c.ready[p]) => s.ready[p] = c.ready[p]
      /\ \A q \in Queue : /\ ToSet(s.wait[q]) = ToSet(c.wait[q]) \ {t}
                          /\ t \notin ToSet(c.wait[q]) => s.wait[q] = c.wait[q]
  BY ListRemoveProperties DEF KernelOK
<1> HIDE DEF s
<1>2. \A p \in Priority : t \notin ToSet(c.ready[p]) BY DEF KernelOK, ReadyOK
<1>3. s.ready = c.ready BY <1>1, <1>2 DEF KernelState
<1>4. ReadyOK(s) BY <1>1, <1>3 DEF KernelOK, ReadyOK, Frame
<1>5. BitmapOK(s) BY <1>1, <1>3 DEF KernelOK, BitmapOK
<1>6. MaskOK(s) BY <1>1 DEF KernelOK, MaskOK, Frame
<1>7. TimersOK(s) BY <1>1 DEF KernelOK, TimersOK
<1> QED BY <1>1, <1>3, <1>4, <1>5, <1>6, <1>7 DEF KernelOK, s

\* rt_timer_stop keeps the state consistent.
LEMMA TimerStopProperties ==
  ASSUME NEW c \in KernelState, NEW t \in Thread, KernelOK(c)
  PROVE  LET s == TimerStop(c, t)
         IN  /\ s \in KernelState
             /\ KernelOK(s)
             /\ Frame(s, c) /\ s.stat = c.stat /\ s.wait = c.wait
             /\ s.armed = c.armed \ {t}
<1> DEFINE s == TimerStop(c, t)
<1>1. /\ s \in KernelState
      /\ Frame(s, c) /\ s.stat = c.stat /\ s.wait = c.wait
      /\ s.armed = c.armed \ {t}
      /\ s.ready = c.ready /\ s.group = c.group
  BY DEF TimerStop, KernelState, Frame
<1> HIDE DEF s
<1>2. TimersOK(s) BY <1>1 DEF KernelOK, TimersOK
<1>3. ListsOK(s) BY <1>1 DEF KernelOK, ListsOK
<1>4. ReadyOK(s) BY <1>1 DEF KernelOK, ReadyOK, Frame
<1>5. BitmapOK(s) BY <1>1 DEF KernelOK, BitmapOK
<1>6. MaskOK(s) BY <1>1 DEF KernelOK, MaskOK, Frame
<1> QED BY <1>1, <1>2, <1>3, <1>4, <1>5, <1>6 DEF KernelOK, s

\* The first section of rt_thread_resume leaves a consistent state as well.
LEMMA ResumeUnlinkKeeps ==
  ASSUME NEW c \in KernelState, NEW t \in Thread, KernelOK(c), c.stat[t] = "suspend"
  PROVE  LET s == ResumeUnlink(c, t)
         IN  /\ s \in KernelState
             /\ KernelOK(s)
             /\ Frame(s, c) /\ s.armed = c.armed \ {t} /\ s.stat = c.stat
             /\ \A q \in Queue : ToSet(s.wait[q]) = ToSet(c.wait[q]) \ {t}
<1> DEFINE l == ListRemove(c, t)
           s == TimerStop(l, t)
<1>1. ResumeUnlink(c, t) = s BY DEF ResumeUnlink
<1>2. /\ l \in KernelState
      /\ KernelOK(l)
      /\ Frame(l, c) /\ l.stat = c.stat /\ l.armed = c.armed
      /\ l.ready = c.ready /\ l.group = c.group
      /\ \A q \in Queue : ToSet(l.wait[q]) = ToSet(c.wait[q]) \ {t}
  BY UnlinkProperties
<1> HIDE DEF l
<1>3. /\ s \in KernelState
      /\ KernelOK(s)
      /\ Frame(s, l) /\ s.stat = l.stat /\ s.wait = l.wait
      /\ s.armed = l.armed \ {t}
  BY <1>2, TimerStopProperties
<1> HIDE DEF s
<1> QED BY <1>1, <1>2, <1>3 DEF Frame

\* rt_schedule_remove_thread of a started thread, READY or SUSPENDed, as
\* rt_thread_delete calls it: but for its timer, the thread is on no list.
LEMMA RemoveProperties ==
  ASSUME NEW c \in KernelState, NEW t \in Thread, KernelOK(c),
         c.stat[t] \in {"ready", "suspend"}
  PROVE  LET s == ScheduleRemove(c, t)
         IN  /\ s \in KernelState
             /\ Floating(TimerStop(s, t), t)
             /\ Frame(s, c) /\ s.stat = c.stat /\ s.armed = c.armed
             /\ \A q \in Queue : ToSet(s.wait[q]) = ToSet(c.wait[q]) \ {t}
<1> DEFINE s == ScheduleRemove(c, t)
<1>1. CASE c.stat[t] = "ready"
  <2>1. /\ s \in KernelState
        /\ Floating(s, t)
        /\ Frame(s, c) /\ s.stat = c.stat /\ s.wait = c.wait /\ s.armed = c.armed
    BY <1>1, ScheduleRemoveProperties
  <2> HIDE DEF s
  <2>2. TimerStop(s, t) = s BY <2>1 DEF Floating, TimerStop, KernelState
  <2>3. \A q \in Queue : ToSet(s.wait[q]) = ToSet(c.wait[q]) \ {t}
    BY <2>1 DEF Floating
  <2> QED BY <2>1, <2>2, <2>3 DEF s
<1>2. CASE c.stat[t] = "suspend"
  <2> DEFINE l == ListRemove(c, t)
             f == ResumeUnlink(c, t)
  <2>1. /\ l \in KernelState
        /\ KernelOK(l)
        /\ Frame(l, c) /\ l.stat = c.stat /\ l.armed = c.armed
        /\ l.ready = c.ready /\ l.group = c.group
        /\ \A q \in Queue : ToSet(l.wait[q]) = ToSet(c.wait[q]) \ {t}
    BY <1>2, UnlinkProperties
  <2>2. Floating(f, t) BY <1>2, ResumeUnlinkProperties
  <2>3. f = TimerStop(l, t) BY DEF ResumeUnlink
  <2>4. s = [l EXCEPT !.group = IF l.ready[c.prio[t]] = <<>>
                                THEN c.group \ c.mask[t] ELSE c.group]
    BY DEF ScheduleRemove
  <2>5. c.mask[t] = {c.prio[t]} /\ c.prio[t] \in Priority
    BY <1>2 DEF KernelOK, MaskOK, KernelState
  <2>6. c.group = {p \in Priority : c.ready[p] # <<>>} BY DEF KernelOK, BitmapOK
  <2> HIDE DEF l, s, f
  <2>7. (IF l.ready[c.prio[t]] = <<>> THEN c.group \ c.mask[t] ELSE c.group) = c.group
    BY <2>1, <2>5, <2>6
  <2>8. s = l BY <2>1, <2>4, <2>7 DEF KernelState
  <2> QED BY <2>1, <2>2, <2>3, <2>8 DEF s
<1> QED BY <1>1, <1>2

\* A thread on no list may be CLOSEd.
LEMMA CloseProperties ==
  ASSUME NEW c \in KernelState, NEW t \in Thread, Floating(c, t)
  PROVE  LET s == [c EXCEPT !.stat[t] = "close"]
         IN  /\ s \in KernelState
             /\ KernelOK(s)
             /\ Frame(s, c) /\ s.wait = c.wait /\ s.armed = c.armed
             /\ s.stat = [c.stat EXCEPT ![t] = "close"]
<1> DEFINE s == [c EXCEPT !.stat[t] = "close"]
<1>1. /\ s \in KernelState
      /\ Frame(s, c) /\ s.wait = c.wait /\ s.armed = c.armed
      /\ s.stat = [c.stat EXCEPT ![t] = "close"]
      /\ s.ready = c.ready /\ s.group = c.group
  BY DEF KernelState, Frame, Stat
<1> HIDE DEF s
<1>2. ASSUME NEW u \in Thread
      PROVE  s.stat[u] = IF u = t THEN "close" ELSE c.stat[u]
  BY <1>1 DEF KernelState
<1>3. ListsOK(s)
  <2>1. \A q \in Queue : ToSet(c.wait[q]) \subseteq Thread
    BY HeadToSet DEF KernelState
  <2> QED BY <1>1, <1>2, <2>1 DEF Floating, ListsOK
<1>4. ReadyOK(s) BY <1>1, <1>2 DEF Floating, ReadyOK, Frame
<1>5. BitmapOK(s) BY <1>1 DEF Floating, BitmapOK
<1>6. MaskOK(s) BY <1>1, <1>2 DEF Floating, MaskOK, Frame
<1>7. TimersOK(s) BY <1>1, <1>2 DEF Floating, TimersOK, KernelState
<1> QED BY <1>1, <1>3, <1>4, <1>5, <1>6, <1>7 DEF KernelOK, s

\* The state in which u, off every list and not yet CLOSEd, counts as CLOSEd.
Closed(c, u) == [c EXCEPT !.stat[u] = "close"]

\* Back from there to the stat that u really has.
LEMMA ClosedFloats ==
  ASSUME NEW c \in KernelState, NEW u \in Thread, KernelOK(Closed(c, u)),
         c.mask[u] = {c.prio[u]}, OffLists(c, u)
  PROVE  Floating(c, u)
<1> DEFINE s == Closed(c, u)
<1>1. /\ s.ready = c.ready /\ s.wait = c.wait /\ s.group = c.group /\ s.armed = c.armed
      /\ s.prio = c.prio /\ s.mask = c.mask /\ s.stat[u] = "close"
      /\ \A v \in Thread \ {u} : s.stat[v] = c.stat[v]
  BY DEF Closed, KernelState
<1>2. KernelOK(s) OBVIOUS
<1> HIDE DEF s
<1>3. ListsOK(c)
  <2>1. \A q \in Queue : ToSet(c.wait[q]) \subseteq Thread \ {u}
    BY HeadToSet DEF KernelState, OffLists
  <2>2. \A q \in Queue : \A t \in ToSet(c.wait[q]) : c.stat[t] # "ready"
    BY <1>1, <1>2, <2>1 DEF KernelOK, ListsOK
  <2> QED BY <1>1, <1>2, <2>2 DEF KernelOK, ListsOK
<1>4. BitmapOK(c) BY <1>1, <1>2 DEF KernelOK, BitmapOK
<1>5. /\ \A p \in Priority : u \notin ToSet(c.ready[p])
      /\ \A p \in Priority : \A v \in Thread \ {u} :
            v \in ToSet(c.ready[p]) <=> (c.stat[v] = "ready" /\ c.prio[v] = p)
  BY <1>1, <1>2 DEF KernelOK, ReadyOK
<1>6. \A v \in Thread \ {u} : c.stat[v] \in {"ready", "suspend"} => c.mask[v] = {c.prio[v]}
  BY <1>1, <1>2 DEF KernelOK, MaskOK
<1>7. u \notin c.armed /\ \A v \in c.armed : c.stat[v] = "suspend"
  BY <1>1, <1>2 DEF KernelOK, TimersOK, KernelState
<1> QED BY <1>3, <1>4, <1>5, <1>6, <1>7 DEF Floating, OffLists

\* An interrupt that wakes v does to both states the same, while the scheduler
\* is locked.
LEMMA ClosedUnlink ==
  ASSUME NEW c \in KernelState, NEW u \in Thread, NEW v \in Thread, ListsOK(c)
  PROVE  /\ ListRemove(c, v) \in KernelState
         /\ ListRemove(Closed(c, u), v) = Closed(ListRemove(c, v), u)
<1>1. ListRemove(c, v) \in KernelState BY ListRemoveProperties
<1>2. ListRemove(Closed(c, u), v) = Closed(ListRemove(c, v), u)
  BY DEF ListRemove, Closed, KernelState
<1> QED BY <1>1, <1>2

LEMMA ClosedInsert ==
  ASSUME NEW c \in KernelState, NEW u \in Thread, NEW v \in Thread \ {u}
  PROVE  /\ ScheduleInsert(c, v) \in KernelState
         /\ ScheduleInsert(Closed(c, u), v) = Closed(ScheduleInsert(c, v), u)
<1>1. c.prio[v] \in Priority /\ c.ready[c.prio[v]] \in Seq(Thread) BY DEF KernelState
<1>2. PICK r \in Seq(Thread) : r = Append(c.ready[c.prio[v]], v)
  <2>1. Append(c.ready[c.prio[v]], v) \in Seq(Thread) BY <1>1
  <2> QED BY <2>1
<1>3. PICK p \in Priority : p = c.prio[v] BY <1>1
<1>4. PICK g \in SUBSET Priority : g = c.group \cup c.mask[v] BY DEF KernelState
<1>5. ScheduleInsert(c, v) = [c EXCEPT !.stat[v] = "ready", !.ready[p] = r, !.group = g]
  BY <1>2, <1>3, <1>4 DEF ScheduleInsert
<1>6. /\ Closed(c, u).prio = c.prio /\ Closed(c, u).ready = c.ready
      /\ Closed(c, u).group = c.group /\ Closed(c, u).mask = c.mask
  BY DEF Closed, KernelState
<1>7. ScheduleInsert(Closed(c, u), v)
        = [Closed(c, u) EXCEPT !.stat[v] = "ready", !.ready[p] = r, !.group = g]
  BY <1>2, <1>3, <1>4, <1>6 DEF ScheduleInsert
<1>8. [c EXCEPT !.stat[v] = "ready", !.ready[p] = r, !.group = g] \in KernelState
  BY <1>2, <1>3, <1>4 DEF KernelState, Stat
<1>9. [Closed(c, u) EXCEPT !.stat[v] = "ready", !.ready[p] = r, !.group = g]
        = Closed([c EXCEPT !.stat[v] = "ready", !.ready[p] = r, !.group = g], u)
  <2>1. PICK f : f = c.stat OBVIOUS
  <2>2. PICK o : o = [f EXCEPT ![u] = "close", ![v] = "ready"] OBVIOUS
  <2>3. o = [f EXCEPT ![v] = "ready", ![u] = "close"] BY <2>1, <2>2 DEF KernelState
  <2>4. PICK l : l = [c.ready EXCEPT ![p] = r] OBVIOUS
  <2>5. [Closed(c, u) EXCEPT !.stat[v] = "ready", !.ready[p] = r, !.group = g]
          = [c EXCEPT !.stat = o, !.ready = l, !.group = g]
    BY <2>1, <2>2, <2>4 DEF Closed, KernelState
  <2>6. Closed([c EXCEPT !.stat[v] = "ready", !.ready[p] = r, !.group = g], u)
          = [c EXCEPT !.stat = o, !.ready = l, !.group = g]
    BY <2>1, <2>3, <2>4 DEF Closed, KernelState
  <2> QED BY <2>5, <2>6
<1> QED BY <1>5, <1>7, <1>8, <1>9

LEMMA ClosedStop ==
  ASSUME NEW c \in KernelState, NEW u \in Thread, NEW v \in Thread
  PROVE  /\ TimerStop(c, v) \in KernelState
         /\ TimerStop(Closed(c, u), v) = Closed(TimerStop(c, v), u)
BY DEF TimerStop, Closed, KernelState

\* Another thread is resumed while u is on no list.
LEMMA FloatingWake ==
  ASSUME NEW c \in KernelState, NEW u \in Thread, Floating(c, u),
         NEW v \in Thread \ {u}, c.stat[v] = "suspend"
  PROVE  LET s == Resume(c, v)
         IN  /\ s \in KernelState /\ Floating(s, u) /\ Frame(s, c)
             /\ s.stat = [c.stat EXCEPT ![v] = "ready"] /\ s.armed = c.armed \ {v}
             /\ \A q \in Queue : ToSet(s.wait[q]) = ToSet(c.wait[q]) \ {v}
<1> DEFINE d == Closed(c, u)
           l == ListRemove(c, v)
           o == TimerStop(l, v)
           s == ScheduleInsert(o, v)
<1>1. /\ d \in KernelState /\ KernelOK(d)
      /\ d.wait = c.wait /\ d.armed = c.armed /\ d.stat = [c.stat EXCEPT ![u] = "close"]
  BY CloseProperties DEF Closed
<1>2. d.stat[v] = "suspend" BY <1>1 DEF KernelState
<1>3. /\ l \in KernelState /\ ListRemove(d, v) = Closed(l, u)
      /\ Frame(l, c) /\ l.stat = c.stat
  <2>1. ListsOK(c) BY DEF Floating
  <2>2. l \in KernelState /\ ListRemove(d, v) = Closed(l, u) BY <2>1, ClosedUnlink
  <2> QED BY <2>1, <2>2, ListRemoveProperties
<1> HIDE DEF l
<1>4. /\ o \in KernelState /\ TimerStop(Closed(l, u), v) = Closed(o, u)
      /\ Frame(o, l) /\ o.stat = l.stat
  <2>1. o \in KernelState /\ TimerStop(Closed(l, u), v) = Closed(o, u) BY <1>3, ClosedStop
  <2>2. Frame(o, l) /\ o.stat = l.stat BY <1>3 DEF TimerStop, KernelState, Frame
  <2> QED BY <2>1, <2>2
<1> HIDE DEF o
<1>5. /\ s \in KernelState /\ ScheduleInsert(Closed(o, u), v) = Closed(s, u)
      /\ Frame(s, o) /\ s.stat = [o.stat EXCEPT ![v] = "ready"]
  <2>1. s \in KernelState /\ ScheduleInsert(Closed(o, u), v) = Closed(s, u)
    BY <1>4, ClosedInsert
  <2>2. Frame(s, o) /\ s.stat = [o.stat EXCEPT ![v] = "ready"]
    BY <1>4 DEF ScheduleInsert, KernelState, Frame
  <2> QED BY <2>1, <2>2
<1> HIDE DEF s
<1>6. Resume(c, v) = s BY DEF Resume, ResumeUnlink, s, o, l
<1>7. Resume(d, v) = Closed(s, u)
  BY <1>2, <1>3, <1>4, <1>5 DEF Resume, ResumeUnlink
<1> DEFINE r == Resume(d, v)
<1>8. /\ r \in KernelState
      /\ KernelOK(r)
      /\ Frame(r, d) /\ r.armed = d.armed \ {v}
      /\ r.stat = [d.stat EXCEPT ![v] = "ready"]
      /\ \A q \in Queue : /\ ToSet(r.wait[q]) = ToSet(d.wait[q]) \ {v}
                          /\ v \notin ToSet(d.wait[q]) => r.wait[q] = d.wait[q]
  <2> HIDE DEF d
  <2>1. d \in KernelState /\ v \in Thread /\ KernelOK(d) /\ d.stat[v] = "suspend"
    BY <1>1, <1>2
  <2> QED BY ONLY <2>1, ResumeProperties
<1> HIDE DEF r
<1>9. r.armed = s.armed /\ r.wait = s.wait BY <1>5, <1>7 DEF r, Closed, KernelState
<1>10. /\ s.armed = c.armed \ {v}
       /\ \A q \in Queue : ToSet(s.wait[q]) = ToSet(c.wait[q]) \ {v}
  BY <1>1, <1>8, <1>9
<1>11. Frame(s, c) /\ s.stat = [c.stat EXCEPT ![v] = "ready"]
  BY <1>3, <1>4, <1>5 DEF Frame
<1>12. s.mask[u] = {s.prio[u]} /\ OffLists(s, u)
  BY <1>10, <1>11 DEF Floating, Frame, OffLists
<1>13. KernelOK(Closed(s, u)) BY <1>7, <1>8 DEF r
<1>14. Floating(s, u) BY <1>5, <1>12, <1>13, ClosedFloats
<1> QED BY <1>5, <1>6, <1>10, <1>11, <1>14

\* The current thread goes to the end of its ready list while u is on no list.
LEMMA FloatingYield ==
  ASSUME NEW c \in KernelState, NEW u \in Thread, Floating(c, u),
         c.current \in Thread, YieldMoves(c)
  PROVE  LET s == YieldTail(c)
         IN  /\ s \in KernelState /\ Floating(s, u) /\ Frame(s, c)
             /\ s.stat = c.stat /\ s.armed = c.armed /\ s.wait = c.wait
<1> DEFINE d == Closed(c, u)
           s == YieldTail(c)
<1>1. /\ c.stat[c.current] = "ready" /\ c.prio[c.current] \in Priority
      /\ c.current \in ToSet(c.ready[c.prio[c.current]])
      /\ Len(c.ready[c.prio[c.current]]) > 1
  BY DEF YieldMoves, KernelState
<1>2. c.current # u BY <1>1 DEF Floating
<1>3. /\ d \in KernelState /\ KernelOK(d) /\ d.current = c.current /\ d.prio = c.prio
      /\ d.stat = [c.stat EXCEPT ![u] = "close"]
  BY CloseProperties DEF Closed, Frame
<1>4. d.ready = c.ready BY DEF Closed, KernelState
<1>5. d.stat[c.current] = "ready" BY <1>1, <1>2, <1>3 DEF KernelState
<1>6. YieldMoves(d) BY <1>1, <1>3, <1>4, <1>5 DEF YieldMoves
<1>7. PICK x : x = Append(RemoveFirst(c.ready[c.prio[c.current]], c.current), c.current)
  OBVIOUS
<1>8. /\ YieldTail(c) = [c EXCEPT !.ready[c.prio[c.current]] = x]
      /\ YieldTail(d) = [d EXCEPT !.ready[c.prio[c.current]] = x]
  BY <1>3, <1>4, <1>7 DEF YieldTail
<1>9. YieldTail(d) = Closed(s, u) BY <1>8 DEF Closed, KernelState
<1>10. YieldTail(d) \in KernelState /\ KernelOK(YieldTail(d))
  <2> HIDE DEF d
  <2> QED BY <1>3, <1>6, YieldTailProperties
<1>11. x \in Seq(Thread)
  <2>1. c.ready[c.prio[c.current]] \in Seq(Thread) BY <1>1 DEF KernelState
  <2>2. IsInjective(c.ready[c.prio[c.current]]) BY <1>1 DEF Floating, ListsOK
  <2>3. RemoveFirst(c.ready[c.prio[c.current]], c.current) \in Seq(Thread)
    BY <1>1, <2>1, <2>2, RemoveFirstProperties
  <2> QED BY <1>7, <2>3
<1>12. /\ s \in KernelState /\ Frame(s, c)
       /\ s.stat = c.stat /\ s.armed = c.armed /\ s.wait = c.wait
  <2>1. PICK p \in Priority : p = c.prio[c.current] BY <1>1
  <2>2. s = [c EXCEPT !.ready[p] = x] BY <1>8, <2>1
  <2> HIDE DEF s
  <2> QED BY ONLY <1>11, <2>2, p \in Priority, c \in KernelState DEF KernelState, Frame
<1> HIDE DEF s
<1>13. s.mask[u] = {s.prio[u]} /\ OffLists(s, u) BY <1>12 DEF Floating, Frame, OffLists
<1>14. Floating(s, u) BY <1>9, <1>10, <1>12, <1>13, ClosedFloats
<1> QED BY <1>12, <1>14 DEF s

\* A SUSPENDed thread on no list and without a timer may be made READY.
LEMMA SuspendedFloats ==
  ASSUME NEW c \in KernelState, NEW t \in Thread, KernelOK(c), c.stat[t] = "suspend",
         t \notin c.armed, \A q \in Queue : t \notin ToSet(c.wait[q])
  PROVE  Floating(c, t)
<1>1. \A p \in Priority : t \notin ToSet(c.ready[p]) BY DEF KernelOK, ReadyOK
<1>2. /\ c.mask[t] = {c.prio[t]}
      /\ \A u \in Thread \ {t} :
            c.stat[u] \in {"ready", "suspend"} => c.mask[u] = {c.prio[u]}
  BY DEF KernelOK, MaskOK
<1> QED BY <1>1, <1>2 DEF Floating, KernelOK, ReadyOK, TimersOK

\* A thread that is not READY and has no timer may change its stat.
LEMMA RestatProperties ==
  ASSUME NEW c \in KernelState, NEW s \in KernelState, NEW t \in Thread, KernelOK(c),
         c.stat[t] # "ready", s.stat[t] # "ready", t \notin s.armed,
         s.ready = c.ready, s.wait = c.wait, s.group = c.group,
         s.armed = c.armed \ {t},
         \A u \in Thread \ {t} :
            s.stat[u] = c.stat[u] /\ s.prio[u] = c.prio[u] /\ s.mask[u] = c.mask[u],
         s.stat[t] = "suspend" => s.mask[t] = {s.prio[t]}
  PROVE  KernelOK(s)
<1>1. ListsOK(s)
  <2>1. \A q \in Queue : ToSet(c.wait[q]) \subseteq Thread
    BY HeadToSet DEF KernelState
  <2>2. \A q \in Queue : \A u \in ToSet(s.wait[q]) : s.stat[u] # "ready"
    BY <2>1 DEF KernelOK, ListsOK
  <2> QED BY <2>2 DEF KernelOK, ListsOK
<1>2. ReadyOK(s) BY DEF KernelOK, ReadyOK
<1>3. BitmapOK(s) BY DEF KernelOK, BitmapOK
<1>4. MaskOK(s) BY DEF KernelOK, MaskOK
<1>5. TimersOK(s) BY DEF KernelOK, TimersOK, KernelState
<1> QED BY <1>1, <1>2, <1>3, <1>4, <1>5 DEF KernelOK

\* What rt_schedule leaves: the first thread of the highest priority is current.
Elected(c) == c.current = HighestReady(c)

LEMMA ScheduleElects ==
  ASSUME NEW c \in KernelState, c.nest = 0
  PROVE  Elected(Schedule(c))
BY DEF Schedule, Elected, HighestReady, KernelState

LEMMA TimeoutElects ==
  ASSUME NEW c \in KernelState, NEW t \in c.armed, KernelOK(c), c.nest = 0
  PROVE  Elected(ThreadTimeout(c, t))
<1> DEFINE e == [c EXCEPT !.error[t] = "RT_ETIMEOUT"]
           l == ListRemove(e, t)
           i == ScheduleInsert(l, t)
           stopped == TimerStop(i, t)
<1>1. t \in Thread /\ "RT_ETIMEOUT" \in Error BY DEF KernelState, Error
<1>2. /\ e \in KernelState /\ KernelOK(e)
      /\ e.nest = c.nest
  BY <1>1, SetErrorProperties
<1> HIDE DEF e
<1>3. /\ l \in KernelState
      /\ Frame(l, e)
  BY <1>1, <1>2, ListRemoveProperties DEF KernelOK
<1>4. ThreadTimeout(c, t) = Schedule(stopped) BY DEF ThreadTimeout, e
<1> HIDE DEF l
<1>5. stopped \in KernelState /\ stopped.nest = l.nest
  <2>1. l.prio[t] \in Priority /\ l.ready[l.prio[t]] \in Seq(Thread)
    BY <1>1, <1>3 DEF KernelState
  <2>2. Append(l.ready[l.prio[t]], t) \in Seq(Thread) BY <1>1, <2>1
  <2>3. i \in KernelState /\ i.nest = l.nest
    BY <1>1, <1>3, <2>1, <2>2 DEF ScheduleInsert, KernelState, Stat
  <2> HIDE DEF i
  <2> QED BY <1>1, <2>3 DEF TimerStop, KernelState
<1> HIDE DEF stopped
<1> QED BY <1>2, <1>3, <1>4, <1>5, ScheduleElects DEF Frame

\* The elected thread is READY, and no READY thread has a higher priority.
LEMMA ElectedIsBest ==
  ASSUME NEW c \in KernelState, KernelOK(c), c.stat[Idle] = "ready", Elected(c)
  PROVE  /\ c.current \in Thread /\ c.stat[c.current] = "ready"
         /\ \A v \in Thread : c.stat[v] = "ready" => c.prio[c.current] <= c.prio[v]
BY HighestReadyProperties DEF Elected

-----------------------------------------------------------------------------
(***************************************************************************)
(* The shape of a step: of the thread t that moves, about a thread u.      *)
(***************************************************************************)

\* Only the place of t changes.
Moves(t) == \A s \in Thread \ {t} : pc'[s] = pc[s] /\ arg'[s] = arg[s]

\* The step changes nothing about a thread other than u.
Only(u) ==
    \A v \in Thread \ {u} :
        /\ k'.stat[v] = k.stat[v] /\ k'.prio[v] = k.prio[v]
        /\ v \in k'.armed <=> v \in k.armed
        /\ \A q \in Queue : v \in ToSet(k'.wait[q]) <=> v \in ToSet(k.wait[q])

\* Nobody but t, if it is, is starting u.
Free(t, u) == \A s \in Thread \ {t} : pc[s] \in StartPc => arg[s] # u

\* The idle thread goes on with what it does, which is not about u; or it
\* moves, and is done with what it did to u.
IdleStays(u) ==
    \/ /\ pc'[Idle] = pc[Idle] /\ arg'[Idle] = arg[Idle]
       /\ pc[Idle] = "reap_free" => arg[Idle] # u
    \/ IdleOK' /\ (pc[Idle] = "reap_free" => arg[Idle] = u)

\* After the step u is as a thread of its stat has to be.
Settled(u) ==
    /\ (\E q \in Queue : u \in ToSet(k'.wait[q])) => k'.stat[u] = "close"
    /\ u \in Static \/ k'.stat[u] # "close" \/ Awaited(u)'

\* The place that t reaches is one that it may be at.
Arrives(t, u) ==
    /\ pc'[t] \in StartPc =>
          /\ arg'[t] \in Thread /\ Untouched(k', arg'[t])
          /\ \A r \in Thread \ {t} : pc[r] \in StartPc => arg[r] # arg'[t]
    /\ pc'[t] = "suspend_body" =>
          arg'[t] \in Thread \ {Idle} /\ (k'.current = t => k'.stat[arg'[t]] = "ready")
    /\ pc[t] = "delete_defunct" => arg[t] = u \/ (pc'[t] = pc[t] /\ arg'[t] = arg[t])

LEMMA SettingsKept ==
  ASSUME TypeOK, Settings, k' \in KernelState,
         NEW t \in Thread, NEW u \in Thread,
         Moves(t), Only(u), Free(t, u), IdleStays(u), Settled(u), Arrives(t, u),
         \/ k'.current = k.current /\ (k.current = t \/ pc[k.current] # "suspend_body")
         \/ k'.current \in Thread /\ k'.stat[k'.current] = "ready",
         \A s \in Thread \ {t} : pc[s] = "suspend_body" => arg[s] = s
  PROVE  Settings'
<1>1. ListsDead'
  BY DEF Settings, ListsDead, Only, Settled
<1>2. StartingOK'
  <2>1. SUFFICES ASSUME NEW s \in Thread, pc'[s] \in StartPc
                 PROVE  /\ arg'[s] \in Thread /\ Untouched(k', arg'[s])
                        /\ \A r \in Thread \ {s} : pc'[r] \in StartPc => arg'[r] # arg'[s]
    BY DEF StartingOK
  <2>2. CASE s = t BY <2>1, <2>2 DEF Arrives, Moves
  <2>3. CASE s # t
    <3>1. pc[s] \in StartPc /\ arg'[s] = arg[s] /\ arg[s] # u BY <2>1, <2>3 DEF Moves, Free
    <3>2. arg[s] \in Thread /\ Untouched(k, arg[s])
          /\ \A r \in Thread \ {s} : pc[r] \in StartPc => arg[r] # arg[s]
      BY <3>1 DEF Settings, StartingOK
    <3>3. Untouched(k', arg'[s])
      <4>1. /\ k'.stat[arg[s]] = "suspend" /\ arg[s] \notin k'.armed
            /\ \A q \in Queue : arg[s] \notin ToSet(k'.wait[q])
        BY <3>1, <3>2 DEF Only, Untouched, OffLists
      <4>2. arg[s] # k'.current BY <3>2, <4>1 DEF Untouched
      <4> QED BY <3>1, <4>1, <4>2 DEF Untouched, OffLists
    <3>4. ASSUME NEW r \in Thread \ {s}, pc'[r] \in StartPc PROVE arg'[r] # arg'[s]
      <4>1. CASE r = t BY <2>3, <3>1, <3>4, <4>1 DEF Arrives
      <4>2. CASE r # t BY <3>1, <3>2, <3>4, <4>2 DEF Moves
      <4> QED BY <4>1, <4>2
    <3> QED BY <3>1, <3>2, <3>3, <3>4
  <2> QED BY <2>2, <2>3
<1>3. IdleOK'
  <2>1. SUFFICES ASSUME pc'[Idle] = pc[Idle], arg'[Idle] = arg[Idle],
                        pc[Idle] = "reap_free" => arg[Idle] # u
                 PROVE  IdleOK'
    BY DEF IdleStays
  <2>2. ASSUME pc[Idle] = "reap_free"
        PROVE  arg[Idle] \in Thread /\ k'.stat[arg[Idle]] = "close"
               /\ \A q \in Queue : arg[Idle] \notin ToSet(k'.wait[q])
    <3>1. arg[Idle] \in Thread \ {u} /\ k.stat[arg[Idle]] = "close" /\ OffLists(k, arg[Idle])
      BY <2>1, <2>2 DEF Settings, IdleOK
    <3> QED BY <3>1 DEF Only, OffLists
  <2> QED BY <2>1, <2>2 DEF Settings, IdleOK, OffLists
<1>4. NoneForgotten'
  <2>1. SUFFICES ASSUME NEW v \in Thread \ Static, k'.stat[v] = "close", v # u
                 PROVE  Awaited(v)'
    BY DEF NoneForgotten, Settled
  <2>2. k.stat[v] = "close" BY <2>1 DEF Only
  <2>3. Awaited(v) BY <2>1, <2>2 DEF Settings, NoneForgotten
  <2>4. CASE v \in ToSet(k.wait[Defunct])
    BY <2>1, <2>4, ThreadsAssumption DEF Awaited, Only
  <2>5. CASE arg[Idle] = v /\ pc[Idle] = "reap_free"
    BY <2>1, <2>5 DEF Awaited, IdleStays
  <2>6. ASSUME NEW s \in Thread, arg[s] = v, pc[s] = "delete_defunct" PROVE Awaited(v)'
    <3>1. pc'[s] = pc[s] /\ arg'[s] = arg[s] BY <2>1, <2>6 DEF Arrives, Moves
    <3> QED BY <2>6, <3>1 DEF Awaited
  <2> QED BY <2>3, <2>4, <2>5, <2>6 DEF Awaited
<1>5. SuspendOK'
  <2>1. SUFFICES ASSUME NEW s \in Thread, pc'[s] = "suspend_body"
                 PROVE  arg'[s] \in Thread \ {Idle}
                        /\ (k'.current = s => k'.stat[arg'[s]] = "ready")
    BY DEF SuspendOK
  <2>2. CASE s = t BY <2>1, <2>2 DEF Arrives
  <2>3. CASE s # t
    <3>1. pc[s] = "suspend_body" /\ arg'[s] = arg[s] /\ arg[s] = s
      BY <2>1, <2>3 DEF Moves
    <3> QED BY <2>3, <3>1 DEF Settings, SuspendOK
  <2> QED BY <2>2, <2>3
<1> QED BY <1>1, <1>2, <1>3, <1>4, <1>5 DEF Settings

\* The current thread t is READY, or about to leave the processor.
StaysCurrent(t) ==
    /\ k'.stat[t] \in {"ready", "suspend", "close"}
    /\ k'.stat[t] = "suspend" => k'.nest > 0 \/ pc'[t] \in BeforeSchedule
    /\ k'.stat[t] = "close" =>
          \/ k'.nest = 0 /\ pc'[t] = "exit_sched"
          \/ k'.nest > 0 /\ pc'[t] = "exit_leave"
          \/ k'.nest > 0 /\ pc'[t] = "delete_defunct" /\ arg'[t] = t

\* It is as good a choice as before the step about u, or about to call rt_schedule.
StaysBest(t, u) ==
    (k'.nest = 0 /\ ~lazy') =>
        \/ pc'[t] \in BeforeSchedule
        \/ /\ k.nest = 0 /\ ~lazy /\ pc[t] \notin BeforeSchedule
           /\ k'.stat[t] = k.stat[t] /\ k'.prio[t] = k.prio[t]
           /\ k'.stat[u] = "ready" => k.stat[u] = "ready" /\ k'.prio[u] = k.prio[u]

\* A step of the current thread that leaves it the processor.
LEMMA OwnStep ==
  ASSUME IInv, TypeOK', WindowOK', NEW t \in Thread, NEW u \in Thread,
         k.current = t, k'.current = t, irq \in {NoThread, t}, k'.stat[Idle] = "ready",
         Moves(t), Only(u), Free(t, u), IdleStays(u), Settled(u), Arrives(t, u),
         StaysCurrent(t), StaysBest(t, u), irq' \in {NoThread, t}, IrqFits(t)', Deletes(t)',
         pc'[t] = "exit_leave" => k'.nest > 0
  PROVE  IInv'
<1>1. ASSUME NEW s \in Thread \ {t} PROVE ~Masked(s)
  BY <1>1 DEF IInv, IrqOK
<1>2. IrqOK' /\ DeleteOK' /\ LeaveOK'
  <2>1. ASSUME NEW s \in Thread \ {t} PROVE irq' # s /\ ~Masked(s)'
    BY <1>1, <2>1, KernelAssumption DEF Masked, Moves
  <2>2. IrqOK' BY <2>1 DEF IrqOK, IrqFits
  <2>3. DeleteOK' BY <2>1 DEF DeleteOK, Deletes, Masked
  <2>4. LeaveOK' BY DEF LeaveOK, Moves, IInv, Rest
  <2> QED BY <2>2, <2>3, <2>4
<1>3. Settings'
  <2>1. \A s \in Thread \ {t} : pc[s] = "suspend_body" => arg[s] = s
    BY <1>1 DEF Masked
  <2>2. TypeOK /\ Settings /\ k' \in KernelState BY DEF IInv, Rest, TypeOK
  <2> QED BY <2>1, <2>2, SettingsKept
<1>4. BootOK' BY KernelAssumption DEF BootOK
<1>5. CurrentOK' BY DEF CurrentOK, StaysCurrent
<1>6. Best'
  <2>1. SUFFICES ASSUME k.nest = 0, ~lazy, pc[t] \notin BeforeSchedule,
                        k'.stat[t] = k.stat[t], k'.prio[t] = k.prio[t],
                        k'.stat[u] = "ready" => k.stat[u] = "ready" /\ k'.prio[u] = k.prio[u],
                        NEW v \in Thread
                 PROVE  /\ k'.stat[t] = "ready"
                        /\ k'.stat[v] = "ready" => k'.prio[t] <= k'.prio[v]
    BY DEF Best, StaysBest
  <2>2. /\ k.stat[t] = "ready"
        /\ k.stat[v] = "ready" => k.prio[t] <= k.prio[v]
    BY <2>1 DEF IInv, Rest, Best
  <2> QED BY <2>1, <2>2 DEF Only
<1> QED BY <1>2, <1>3, <1>4, <1>5, <1>6 DEF IInv, Rest

\* A step that ends in rt_schedule, of the current thread or of an interrupt.
LEMMA ScheduleStepKeeps ==
  ASSUME IInv, TypeOK', KernelOK(k'), NEW t \in Thread, NEW u \in Thread,
         k.current = t, irq = NoThread, irq' = NoThread, k'.stat[Idle] = "ready",
         Moves(t), Only(u), Free(t, u), IdleStays(u), Settled(u), Arrives(t, u), ~Masked(t), ~Masked(t)',
         pc[t] = "exit_leave" <=> pc'[t] = "exit_leave", k'.nest = k.nest, lazy' = (lazy /\ k.nest # 0),
         IF k.nest = 0 THEN Elected(k')
         ELSE k'.current = t /\ (k'.stat[t] = k.stat[t] \/ k'.stat[t] = "ready")
  PROVE  IInv'
<1>1. ASSUME NEW s \in Thread PROVE ~Masked(s)
  BY DEF IInv, IrqOK
<1>2. IrqOK' /\ WindowOK' /\ DeleteOK'
  <2>1. ASSUME NEW s \in Thread PROVE irq' # s /\ ~Masked(s)'
    BY <1>1, KernelAssumption DEF Masked, Moves
  <2>2. IrqOK' BY <2>1 DEF IrqOK, IrqFits
  <2>3. WindowOK' BY DEF WindowOK
  <2>4. DeleteOK' BY <2>1 DEF DeleteOK, Deletes, Masked
  <2> QED BY <2>2, <2>3, <2>4
<1>3. k \in KernelState /\ k' \in KernelState BY DEF IInv, TypeOK
<1>4. k.nest = 0 => /\ k'.current \in Thread /\ k'.stat[k'.current] = "ready"
                    /\ \A v \in Thread : k'.stat[v] = "ready" => k'.prio[k'.current] <= k'.prio[v]
  BY <1>3, ElectedIsBest
<1>5. Settings'
  <2>1. \A s \in Thread \ {t} : pc[s] = "suspend_body" => arg[s] = s
    BY <1>1 DEF Masked
  <2>2. TypeOK /\ Settings BY DEF IInv, Rest
  <2> QED BY <1>3, <1>4, <2>1, <2>2, SettingsKept
<1>6. k'.current \in Thread BY <1>4
<1>7. BootOK' BY <1>6, KernelAssumption DEF BootOK
<1>8. CurrentOK'
  <2>1. CASE k.nest = 0 BY <1>4, <2>1 DEF CurrentOK
  <2>2. CASE k.nest # 0
    <3>1. k'.nest > 0 BY <1>3, <2>2 DEF KernelState
    <3>2. k.stat[t] = "close" => pc[t] = "exit_leave"
      BY <1>1, <2>2 DEF IInv, Rest, CurrentOK, Masked, DeletePc
    <3>3. k'.stat[t] \in {"ready", "suspend", "close"} BY <2>2 DEF IInv, Rest, CurrentOK
    <3> QED BY <2>2, <3>1, <3>2, <3>3 DEF CurrentOK
  <2> QED BY <2>1, <2>2
<1>9. Best' BY <1>4 DEF Best
<1>10. LeaveOK'
  <2>1. \A s \in Thread : pc'[s] = "exit_leave" => pc[s] = "exit_leave" BY DEF Moves
  <2> QED BY <2>1 DEF IInv, Rest, LeaveOK
<1> QED BY <1>2, <1>5, <1>7, <1>8, <1>9, <1>10 DEF IInv, Rest

\* What the current thread finds.
LEMMA Runs ==
  ASSUME IInv, NEW t \in Thread, Running(t)
  PROVE  /\ k \in KernelState /\ k.current = t /\ irq \in {NoThread, t}
         /\ k.stat[Idle] = "ready"
         /\ ~Masked(t) => irq = NoThread /\ KernelOK(k)
         /\ Masked(t) => /\ Window(t, arg[t])
                         /\ irq = t \/ (k.nest > 0 /\ pc[t] \in DeletePc)
         /\ k.stat[t] \in {"ready", "suspend", "close"}
         /\ k.stat[t] = "suspend" => k.nest > 0 \/ pc[t] \in BeforeSchedule
         /\ k.stat[t] = "close" =>
              \/ k.nest = 0 /\ pc[t] = "exit_sched"
              \/ k.nest > 0 /\ pc[t] = "exit_leave"
              \/ k.nest > 0 /\ pc[t] = "delete_defunct" /\ arg[t] = t
<1>1. k \in KernelState /\ k.current = t /\ irq \in {NoThread, t}
  BY DEF IInv, TypeOK, Running
<1>2. IrqFits(t) /\ Deletes(t) BY DEF IInv, IrqOK, DeleteOK
<1>3. WindowOK /\ CurrentOK /\ t # NoThread BY KernelAssumption DEF IInv, Rest
<1>4. ~Masked(t) => irq = NoThread /\ KernelOK(k)
  BY <1>1, <1>2, <1>3 DEF WindowOK, IrqFits, Masked
<1>5. Masked(t) => Window(t, arg[t]) /\ (irq = t \/ (k.nest > 0 /\ pc[t] \in DeletePc))
  BY <1>1, <1>2, <1>3 DEF WindowOK, IrqFits, Deletes
<1> QED BY <1>1, <1>3, <1>4, <1>5 DEF CurrentOK

\* A step that changes nothing about any thread.
LEMMA Quiet ==
  ASSUME IInv, NEW t \in Thread, k.current = t,
         k'.stat = k.stat, k'.prio = k.prio, k'.wait = k.wait, k'.armed = k.armed
  PROVE  /\ k'.stat[Idle] = "ready" /\ Only(Idle) /\ Free(t, Idle) /\ Settled(Idle)
         /\ pc[Idle] = "reap_free" => arg[Idle] # Idle
<1>1. k.stat[Idle] = "ready" BY DEF IInv, Rest, CurrentOK
<1>2. Only(Idle) BY DEF Only
<1>3. Free(t, Idle) BY <1>1 DEF IInv, Rest, Settings, StartingOK, Untouched, Free
<1>4. Settled(Idle) BY <1>1, KernelAssumption DEF IInv, Rest, Settings, ListsDead, Settled
<1>5. pc[Idle] = "reap_free" => arg[Idle] # Idle
  BY <1>1 DEF IInv, Rest, Settings, IdleOK
<1> QED BY <1>1, <1>2, <1>3, <1>4, <1>5

\* A thread other than the idle thread moves.
LEMMA MoverIsNotIdle ==
  ASSUME TypeOK, NEW t \in Thread \ {Idle}, NEW to \in Pc, pc' = [pc EXCEPT ![t] = to],
         NEW a \in Thread \cup {NoThread}, arg' = [arg EXCEPT ![t] = a]
  PROVE  /\ Moves(t) /\ pc'[t] = to /\ arg'[t] = a
         /\ pc'[Idle] = pc[Idle] /\ arg'[Idle] = arg[Idle]
         /\ pc' \in [Thread -> Pc] /\ arg' \in [Thread -> Thread \cup {NoThread}]
BY KernelAssumption DEF TypeOK, Moves

-----------------------------------------------------------------------------
(***************************************************************************)
(* Every action keeps the invariant.                                       *)
(***************************************************************************)

\* Steps in which the current thread only moves on.
LEMMA QuietStep ==
  ASSUME IInv, NEW t \in Thread \ {Idle}, Running(t),
         pc[t] \notin DeletePc \cup {"exit_sched", "exit_leave"},
         k' \in KernelState, k'.current = k.current,
         k'.stat = k.stat, k'.prio = k.prio, k'.wait = k.wait, k'.armed = k.armed,
         NEW to \in Pc \ {"exit_leave"}, pc' = [pc EXCEPT ![t] = to],
         NEW a \in Thread \cup {NoThread}, arg' = [arg EXCEPT ![t] = a],
         created' = created, lazy' = lazy,
         \/ to \in BeforeSchedule
         \/ k'.nest > 0
         \/ k'.nest = k.nest /\ pc[t] \notin BeforeSchedule,
         irq' \in {NoThread, t}, to \notin DeletePc,
         irq' = t <=> (to \in ResumePc \/ (to = "suspend_body" /\ a # t)),
         WindowOK', Arrives(t, Idle)
  PROVE  IInv'
<1>1. /\ k'.stat[Idle] = "ready" /\ Only(Idle) /\ Free(t, Idle) /\ Settled(Idle)
      /\ pc[Idle] = "reap_free" => arg[Idle] # Idle
  BY Quiet DEF Running
<1>2. TypeOK BY DEF IInv
<1>3. /\ Moves(t) /\ pc'[t] = to /\ arg'[t] = a
      /\ pc'[Idle] = pc[Idle] /\ arg'[Idle] = arg[Idle]
      /\ pc' \in [Thread -> Pc] /\ arg' \in [Thread -> Thread \cup {NoThread}]
  BY <1>2, MoverIsNotIdle
<1>4. k.current = t /\ k'.current = t /\ irq \in {NoThread, t} BY DEF Running
<1>5. TypeOK' BY <1>2, <1>3, <1>4, KernelAssumption DEF TypeOK
<1>6. IdleStays(Idle) BY <1>1, <1>3 DEF IdleStays
<1>7. IrqFits(t)' /\ Deletes(t)' /\ (pc'[t] = "exit_leave" => k'.nest > 0)
  BY <1>3 DEF Masked, IrqFits, Deletes
<1>8. StaysCurrent(t)
  <2>1. /\ k.stat[t] \in {"ready", "suspend", "close"}
        /\ k.stat[t] = "suspend" => k.nest > 0 \/ pc[t] \in BeforeSchedule
        /\ k.stat[t] = "close" => pc[t] \in {"exit_sched", "exit_leave", "delete_defunct"}
    BY Runs
  <2>2. k.stat[t] # "close" BY <2>1 DEF DeletePc
  <2> QED BY <1>3, <2>1, <2>2 DEF StaysCurrent
<1>9. StaysBest(t, Idle) BY <1>3 DEF StaysBest, TypeOK, KernelState
<1>10. t \in Thread /\ Idle \in Thread BY KernelAssumption
<1>11. Arrives(t, Idle) /\ IInv /\ WindowOK' /\ irq' \in {NoThread, t} OBVIOUS
<1> QED BY ONLY <1>1, <1>3, <1>4, <1>5, <1>6, <1>7, <1>8, <1>9, <1>10, <1>11, OwnStep

\* The idle thread is never in one of the calls below.
LEMMA NotIdle ==
  ASSUME IInv, NEW t \in Thread, pc[t] \notin IdlePc
  PROVE  t \in Thread \ {Idle}
BY DEF IInv, Rest, Settings, IdleOK

LEMMA StartupCheckKeeps ==
  ASSUME IInv, NEW t \in Thread, StartupCheck(t)
  PROVE  IInv'
<1> DEFINE to == "startup_unlink"
<1>1. Running(t) /\ pc[t] = "startup_check" BY DEF StartupCheck, Goto
<1>2. t \in Thread \ {Idle} BY <1>1, NotIdle DEF IdlePc
<1>3. /\ arg[t] \in Thread /\ Untouched(k, arg[t])
      /\ \A r \in Thread \ {t} : pc[r] \in StartPc => arg[r] # arg[t]
  BY <1>1 DEF IInv, Rest, Settings, StartingOK, StartPc
<1>4. pc' = [pc EXCEPT ![t] = to] BY <1>3 DEF StartupCheck, Goto, Untouched
<1>5. k' = k /\ irq' = irq /\ arg' = arg /\ created' = created /\ lazy' = lazy
  BY DEF StartupCheck
<1>6. pc \in [Thread -> Pc] /\ arg \in [Thread -> Thread \cup {NoThread}]
      /\ k \in KernelState
  BY DEF IInv, TypeOK
<1>7. arg' = [arg EXCEPT ![t] = arg[t]] /\ arg[t] \in Thread \cup {NoThread}
  BY <1>5, <1>6
<1>8. irq = NoThread /\ KernelOK(k)
  <2>1. ~Masked(t) BY <1>1 DEF Masked, ResumePc, DeletePc
  <2> QED BY <1>1, <2>1, Runs
<1>9. to \in Pc \ {"exit_leave"} /\ to \notin ResumePc \cup DeletePc \cup BeforeSchedule /\ pc'[t] = to
  BY <1>4, <1>6 DEF Pc, ResumePc, DeletePc, BeforeSchedule
<1>10. irq' \in {NoThread, t} /\ irq' # t BY <1>5, <1>8, KernelAssumption
<1>11. WindowOK' BY <1>5, <1>8 DEF WindowOK
<1>12. Arrives(t, Idle) BY <1>1, <1>3, <1>5, <1>9 DEF Arrives
<1>13. pc[t] \notin DeletePc \cup {"exit_sched", "exit_leave"} /\ pc[t] \notin BeforeSchedule
  BY <1>1 DEF DeletePc, BeforeSchedule
<1>14. to # "suspend_body" OBVIOUS
<1> HIDE DEF to
<1> QED
  BY <1>1, <1>2, <1>4, <1>5, <1>6, <1>7, <1>9, <1>10, <1>11, <1>12, <1>13, <1>14, QuietStep

\* The calls of the application that do nothing but enter the kernel.
LEMMA CallKeeps ==
  ASSUME IInv, NEW t \in Thread, Running(t), k' \in KernelState, KernelOK(k'),
         k'.current = k.current,
         k'.stat = k.stat, k'.prio = k.prio, k'.wait = k.wait, k'.armed = k.armed,
         NEW name, NEW to \in {"run", "sched"}, Call(t, NoThread, name, to),
         to = "sched" \/ k'.nest > 0 \/ k'.nest = k.nest,
         irq' = irq, created' = created, lazy' = lazy
  PROVE  IInv'
<1>1. /\ t \in Thread \ {Idle} /\ pc[t] = "run"
      /\ pc' = [pc EXCEPT ![t] = to] /\ arg' = [arg EXCEPT ![t] = NoThread]
  BY DEF Call, Goto
<1>2. irq = NoThread
  <2>1. ~Masked(t) BY <1>1 DEF Masked, ResumePc, DeletePc
  <2> QED BY <2>1, Runs
<1>3. WindowOK' BY <1>2 DEF WindowOK
<1>4. /\ pc[t] \notin DeletePc \cup {"exit_sched", "exit_leave"}
      /\ to \in BeforeSchedule \/ k'.nest > 0 \/ (k'.nest = k.nest /\ pc[t] \notin BeforeSchedule)
      /\ to \in Pc \ {"exit_leave"} /\ to \notin ResumePc \cup DeletePc /\ to # "suspend_body"
  BY <1>1 DEF DeletePc, ResumePc, BeforeSchedule, Pc
<1>5. irq' \in {NoThread, t} /\ irq' # t BY <1>2, KernelAssumption
<1>6. pc'[t] = to BY <1>1 DEF IInv, TypeOK
<1>7. Arrives(t, Idle) BY <1>1, <1>6 DEF Arrives, StartPc
<1> QED BY <1>1, <1>3, <1>4, <1>5, <1>7, QuietStep

LEMMA CallScheduleKeeps ==
  ASSUME IInv, NEW t \in Thread, CallSchedule(t)
  PROVE  IInv'
<1>1. Running(t) /\ Call(t, NoThread, "schedule", "sched") /\ k' = k
      /\ irq' = irq /\ created' = created /\ lazy' = lazy
  BY DEF CallSchedule
<1>2. k \in KernelState /\ KernelOK(k)
  <2>1. ~Masked(t) BY <1>1 DEF Masked, ResumePc, DeletePc, Call, Goto
  <2> QED BY <1>1, <2>1, Runs
<1>3. k' \in KernelState /\ KernelOK(k') BY <1>1, <1>2
<1> QED BY <1>1, <1>3, CallKeeps

LEMMA EnterKeeps ==
  ASSUME IInv, NEW t \in Thread, Enter(t)
  PROVE  IInv'
<1>1. Running(t) /\ Call(t, NoThread, "critical", "run") /\ k' = EnterCritical(k)
      /\ irq' = irq /\ created' = created /\ lazy' = lazy
  BY DEF Enter
<1>2. k \in KernelState /\ KernelOK(k)
  <2>1. ~Masked(t) BY <1>1 DEF Masked, ResumePc, DeletePc, Call, Goto
  <2> QED BY <1>1, <2>1, Runs
<1>3. /\ k' \in KernelState /\ k'.current = k.current
      /\ k'.stat = k.stat /\ k'.prio = k.prio /\ k'.wait = k.wait /\ k'.armed = k.armed
      /\ k'.mask = k.mask /\ k'.ready = k.ready /\ k'.group = k.group
      /\ k'.nest > 0
  <2>1. k.nest \in Nat BY <1>2 DEF KernelState
  <2>2. PICK m \in Nat : m = k.nest + 1 BY <2>1
  <2>3. k' = [k EXCEPT !.nest = m] /\ m > 0 BY <1>1, <2>1, <2>2 DEF EnterCritical
  <2> QED BY ONLY <1>2, <2>3 DEF KernelState
<1>4. KernelOK(k') BY <1>2, <1>3, KernelOKFrame
<1> QED BY <1>1, <1>3, <1>4, CallKeeps

LEMMA LeaveKeeps ==
  ASSUME IInv, NEW t \in Thread, Leave(t)
  PROVE  IInv'
<1> DEFINE to == IF k.nest = 1 THEN "sched" ELSE "run"
<1>1. Running(t) /\ Call(t, NoThread, "critical", to) /\ k' = ExitCritical(k)
      /\ irq' = irq /\ created' = created /\ lazy' = lazy /\ k.nest > 0
  BY DEF Leave
<1>2. k \in KernelState /\ KernelOK(k)
  <2>1. ~Masked(t) BY <1>1 DEF Masked, ResumePc, DeletePc, Call, Goto
  <2> QED BY <1>1, <2>1, Runs
<1>3. /\ k' \in KernelState /\ k'.current = k.current
      /\ k'.stat = k.stat /\ k'.prio = k.prio /\ k'.wait = k.wait /\ k'.armed = k.armed
      /\ k'.mask = k.mask /\ k'.ready = k.ready /\ k'.group = k.group
      /\ k.nest # 1 => k'.nest > 0
  <2>1. k.nest \in Nat BY <1>2 DEF KernelState
  <2>2. PICK m : m = IF k.nest <= 1 THEN 0 ELSE k.nest - 1 OBVIOUS
  <2>3. m \in Nat /\ (k.nest # 1 => m > 0) BY <1>1, <2>1, <2>2
  <2>4. k' = [k EXCEPT !.nest = m] BY <1>1, <2>2 DEF ExitCritical
  <2> QED BY ONLY <1>2, <2>3, <2>4 DEF KernelState
<1>4. KernelOK(k') BY <1>2, <1>3, KernelOKFrame
<1>5. to \in {"run", "sched"} /\ (to = "sched" \/ k'.nest > 0) BY <1>3
<1> HIDE DEF to
<1> QED BY <1>1, <1>3, <1>4, <1>5, CallKeeps

LEMMA CallYieldKeeps ==
  ASSUME IInv, NEW t \in Thread, CallYield(t)
  PROVE  IInv'
<1> DEFINE to == IF YieldMoves(k) THEN "sched" ELSE "run"
<1>1. Running(t) /\ Call(t, NoThread, "yield", to)
      /\ k' = (IF YieldMoves(k) THEN YieldTail(k) ELSE k)
      /\ irq' = irq /\ created' = created /\ lazy' = lazy
  BY DEF CallYield
<1>2. k \in KernelState /\ KernelOK(k) /\ k.current \in Thread
  <2>1. ~Masked(t) BY <1>1 DEF Masked, ResumePc, DeletePc, Call, Goto
  <2> QED BY <1>1, <2>1, Runs
<1>3. /\ k' \in KernelState /\ KernelOK(k') /\ k'.current = k.current
      /\ k'.stat = k.stat /\ k'.prio = k.prio /\ k'.wait = k.wait /\ k'.armed = k.armed
      /\ k'.nest = k.nest
  <2>1. CASE YieldMoves(k)
    <3>1. k' = YieldTail(k) BY <1>1, <2>1
    <3>2. /\ YieldTail(k) \in KernelState
          /\ KernelOK(YieldTail(k))
          /\ YieldTail(k).stat = k.stat /\ YieldTail(k).prio = k.prio
          /\ YieldTail(k).error = k.error
          /\ YieldTail(k).wait = k.wait /\ YieldTail(k).armed = k.armed
          /\ YieldTail(k).nest = k.nest /\ YieldTail(k).current = k.current
      BY <1>2, <2>1, YieldTailProperties
    <3> QED BY <3>1, <3>2
  <2>2. CASE ~YieldMoves(k) BY <1>1, <1>2, <2>2
  <2> QED BY <2>1, <2>2
<1>4. to \in {"run", "sched"} OBVIOUS
<1> HIDE DEF to
<1> QED BY <1>1, <1>3, <1>4, CallKeeps

LEMMA SleepReturnKeeps ==
  ASSUME IInv, NEW t \in Thread, SleepReturn(t)
  PROVE  IInv'
<1> DEFINE to == "run"
<1>1. /\ Running(t) /\ pc[t] = "sleep_return" /\ pc' = [pc EXCEPT ![t] = to]
      /\ k' = (IF k.error[t] = "RT_ETIMEOUT" THEN [k EXCEPT !.error[t] = "RT_EOK"] ELSE k)
      /\ irq' = irq /\ arg' = arg /\ created' = created /\ lazy' = lazy
  BY DEF SleepReturn, SleepReturnStep, Goto
<1>2. t \in Thread \ {Idle} BY <1>1, NotIdle DEF IdlePc
<1>3. k \in KernelState /\ KernelOK(k) /\ irq = NoThread
  <2>1. ~Masked(t) BY <1>1 DEF Masked, ResumePc, DeletePc
  <2> QED BY <1>1, <2>1, Runs
<1>4. /\ k' \in KernelState /\ KernelOK(k') /\ k'.current = k.current
      /\ k'.stat = k.stat /\ k'.prio = k.prio /\ k'.wait = k.wait /\ k'.armed = k.armed
      /\ k'.nest = k.nest
  <2>1. "RT_EOK" \in Error BY DEF Error
  <2> DEFINE s == [k EXCEPT !.error[t] = "RT_EOK"]
  <2>2. /\ s \in KernelState
        /\ KernelOK(s)
        /\ s.stat = k.stat /\ s.prio = k.prio /\ s.wait = k.wait
        /\ s.armed = k.armed /\ s.nest = k.nest /\ s.current = k.current
    BY <1>3, <2>1, SetErrorProperties
  <2>3. k' = s \/ k' = k BY <1>1
  <2> HIDE DEF s
  <2> QED BY <1>3, <2>2, <2>3
<1>5. pc \in [Thread -> Pc] /\ arg \in [Thread -> Thread \cup {NoThread}]
  BY DEF IInv, TypeOK
<1>6. arg' = [arg EXCEPT ![t] = arg[t]] /\ arg[t] \in Thread \cup {NoThread}
  BY <1>1, <1>5
<1>7. WindowOK' BY <1>1, <1>3, <1>4 DEF WindowOK
<1>8. /\ pc[t] \notin DeletePc \cup {"exit_sched", "exit_leave"} /\ pc[t] \notin BeforeSchedule
      /\ to \in Pc \ {"exit_leave"} /\ to \notin ResumePc \cup DeletePc /\ to # "suspend_body"
  BY <1>1 DEF DeletePc, ResumePc, BeforeSchedule, Pc
<1>9. irq' \in {NoThread, t} /\ irq' # t BY <1>1, <1>3, KernelAssumption
<1>10. Arrives(t, Idle) BY <1>1, <1>5 DEF Arrives, StartPc
<1> HIDE DEF to
<1> QED BY <1>1, <1>2, <1>4, <1>6, <1>7, <1>8, <1>9, <1>10, QuietStep

LEMMA SuspendCheckKeeps ==
  ASSUME Disciplined, IInv, NEW t \in Thread, NEW u \in Thread, SuspendCheck(t, u)
  PROVE  IInv'
<1>1. Running(t) /\ Live(u) /\ k' = k /\ created' = created /\ lazy' = lazy
  BY DEF SuspendCheck
<1>2. pc[t] = "run" /\ t \in Thread \ {Idle} BY DEF SuspendCheck, Call, Goto
<1>3. k \in KernelState /\ KernelOK(k) /\ irq = NoThread
  <2>1. ~Masked(t) BY <1>2 DEF Masked, ResumePc, DeletePc
  <2> QED BY <1>1, <2>1, Runs
<1>4. k' \in KernelState /\ KernelOK(k') BY <1>1, <1>3
<1>5. CASE k.stat[u] # "ready"
  <2>1. Call(t, NoThread, "suspend", "run") /\ irq' = irq BY <1>5 DEF SuspendCheck
  <2> QED BY <1>1, <1>4, <2>1, CallKeeps
<1>6. CASE k.stat[u] = "ready"
  <2> DEFINE to == "suspend_body"
  <2>1. /\ pc' = [pc EXCEPT ![t] = to] /\ arg' = [arg EXCEPT ![t] = u]
        /\ irq' = IF u = t THEN NoThread ELSE t
    BY <1>6 DEF SuspendCheck, Call, Goto, Bracket, Disciplined
  <2>2. pc'[t] = to /\ arg'[t] = u BY <2>1 DEF IInv, TypeOK
  <2>3. to \in Pc \ {"exit_leave"} /\ to \notin ResumePc \cup DeletePc BY DEF Pc, ResumePc, DeletePc
  <2>4. irq' \in {NoThread, t} /\ (irq' = t <=> u # t) BY <2>1, KernelAssumption
  <2>5. u \in Thread \ {Idle} BY <1>1 DEF Live
  <2>6. WindowOK'
    <3>1. CASE u = t BY <1>4, <2>1, <3>1 DEF WindowOK
    <3>2. CASE u # t
      <4>1. irq' = t /\ arg'[t] = u /\ t # NoThread BY <2>1, <2>2, <3>2, KernelAssumption
      <4>2. Window(t, u)' BY <1>4, <2>2, <2>5 DEF Window, ResumePc, DeletePc
      <4> QED BY <4>1, <4>2 DEF WindowOK
    <3> QED BY <3>1, <3>2
  <2>7. Arrives(t, Idle) BY <1>1, <1>2, <1>6, <2>2, <2>5 DEF Arrives, StartPc
  <2>8. pc[t] \notin DeletePc \cup {"exit_sched", "exit_leave"} /\ pc[t] \notin BeforeSchedule
    BY <1>2 DEF DeletePc, BeforeSchedule
  <2>9. u \in Thread \cup {NoThread} /\ to = "suspend_body" OBVIOUS
  <2> HIDE DEF to
  <2> QED BY <1>1, <1>2, <1>4, <2>1, <2>3, <2>4, <2>6, <2>7, <2>8, <2>9, QuietStep
<1> QED BY <1>5, <1>6

LEMMA ResumeCheckKeeps ==
  ASSUME Disciplined, IInv, NEW t \in Thread, NEW u \in Thread, ResumeCheck(t, u)
  PROVE  IInv'
<1>1. Running(t) /\ Live(u) /\ u # t /\ k' = k /\ created' = created /\ lazy' = lazy
  BY DEF ResumeCheck
<1>2. pc[t] = "run" /\ t \in Thread \ {Idle} BY DEF ResumeCheck, Call, Goto
<1>3. k \in KernelState /\ KernelOK(k) /\ irq = NoThread
  <2>1. ~Masked(t) BY <1>2 DEF Masked, ResumePc, DeletePc
  <2> QED BY <1>1, <2>1, Runs
<1>4. k' \in KernelState /\ KernelOK(k') BY <1>1, <1>3
<1>5. CASE k.stat[u] # "suspend"
  <2>1. Call(t, NoThread, "resume", "run") /\ irq' = irq BY <1>5 DEF ResumeCheck
  <2> QED BY <1>1, <1>4, <2>1, CallKeeps
<1>6. CASE k.stat[u] = "suspend"
  <2> DEFINE to == "resume_unlink"
  <2>1. /\ pc' = [pc EXCEPT ![t] = to] /\ arg' = [arg EXCEPT ![t] = u]
        /\ irq' = t
    BY <1>6 DEF ResumeCheck, Call, Goto, Bracket, Disciplined
  <2>2. pc'[t] = to /\ arg'[t] = u BY <2>1 DEF IInv, TypeOK
  <2>3. to \in Pc \ {"exit_leave"} /\ to \in ResumePc /\ to \notin DeletePc
    BY DEF Pc, ResumePc, DeletePc
  <2>4. u \in Thread \ {Idle} BY <1>1 DEF Live
  <2>5. Moves(t) BY <2>1 DEF IInv, TypeOK, Moves
  <2>6. WindowOK'
    <3>1. ~Starting(u)'
      <4>1. ~Starting(u) BY <1>1 DEF Live
      <4> QED BY <2>2, <2>5, <4>1 DEF Starting, Moves
    <3>2. Window(t, u)' BY <1>1, <1>4, <1>6, <2>2, <2>4, <3>1 DEF Window, ResumePc, DeletePc
    <3>3. irq' = t /\ arg'[t] = u /\ t # NoThread BY <2>1, <2>2, KernelAssumption
    <3> QED BY <3>2, <3>3 DEF WindowOK
  <2>7. Arrives(t, Idle) BY <1>2, <2>2 DEF Arrives, StartPc
  <2>8. pc[t] \notin DeletePc \cup {"exit_sched", "exit_leave"} /\ pc[t] \notin BeforeSchedule
    BY <1>2 DEF DeletePc, BeforeSchedule
  <2>9. u \in Thread \cup {NoThread} /\ irq' \in {NoThread, t} BY <2>1
  <2> HIDE DEF to
  <2> QED BY <1>1, <1>2, <1>4, <2>1, <2>3, <2>6, <2>7, <2>8, <2>9, QuietStep
<1> QED BY <1>5, <1>6

\* A step about u of a thread other than the idle thread, in its own terms.
LEMMA ActiveStep ==
  ASSUME IInv, NEW t \in Thread \ {Idle}, NEW u \in Thread \ {Idle}, Running(t),
         k' \in KernelState, k'.current = k.current, Only(u), Free(t, u), Settled(u),
         NEW to \in Pc, pc' = [pc EXCEPT ![t] = to],
         NEW a \in Thread \cup {NoThread}, arg' = [arg EXCEPT ![t] = a],
         created' = created, lazy' \in BOOLEAN, Arrives(t, u),
         pc[Idle] = "reap_free" => arg[Idle] # u,
         irq' \in {NoThread, t},
         irq' = t => to \in ResumePc \cup DeletePc \/ (to = "suspend_body" /\ a # t),
         to \in ResumePc \/ (to = "suspend_body" /\ a # t) => irq' = t,
         to \in DeletePc => Window(t, a)' /\ (irq' = t \/ k'.nest > 0),
         to = "exit_leave" => k'.nest > 0,
         WindowOK', StaysCurrent(t), StaysBest(t, u)
  PROVE  IInv'
<1>1. TypeOK BY DEF IInv
<1>2. /\ Moves(t) /\ pc'[t] = to /\ arg'[t] = a
      /\ pc'[Idle] = pc[Idle] /\ arg'[Idle] = arg[Idle]
      /\ pc' \in [Thread -> Pc] /\ arg' \in [Thread -> Thread \cup {NoThread}]
  BY <1>1, MoverIsNotIdle
<1>3. k.current = t /\ k'.current = t /\ irq \in {NoThread, t} BY DEF Running
<1>4. TypeOK' BY <1>1, <1>2, <1>3, KernelAssumption DEF TypeOK
<1>5. IdleStays(u) BY <1>2 DEF IdleStays
<1>6. IrqFits(t)' /\ Deletes(t)' /\ (pc'[t] = "exit_leave" => k'.nest > 0)
  BY <1>2 DEF Masked, IrqFits, Deletes
<1>7. k'.stat[Idle] = "ready"
  <2>1. k.stat[Idle] = "ready" BY Runs
  <2> QED BY <2>1, KernelAssumption DEF Only
<1>8. /\ t \in Thread /\ u \in Thread /\ IInv /\ WindowOK' /\ irq' \in {NoThread, t}
      /\ Only(u) /\ Free(t, u) /\ Settled(u) /\ Arrives(t, u)
      /\ StaysCurrent(t) /\ StaysBest(t, u)
  OBVIOUS
<1> QED BY ONLY <1>2, <1>3, <1>4, <1>5, <1>6, <1>7, <1>8, OwnStep

\* A thread that is not dead, as the subject of a step.
LEMMA Subject ==
  ASSUME IInv, NEW t \in Thread, NEW u \in Thread, k.stat[u] # "close"
  PROVE  /\ pc[Idle] = "reap_free" => arg[Idle] # u
         /\ OffLists(k, u)
         /\ k.stat[u] # "suspend" \/ ~Starting(u) \/ u = k.current => Free(t, u)
<1>1. pc[Idle] = "reap_free" => arg[Idle] # u BY DEF IInv, Rest, Settings, IdleOK
<1>2. OffLists(k, u) BY DEF IInv, Rest, Settings, ListsDead, OffLists
<1>3. ASSUME k.stat[u] # "suspend" \/ ~Starting(u) \/ u = k.current PROVE Free(t, u)
  BY <1>3 DEF IInv, Rest, Settings, StartingOK, Untouched, Starting, Free, StartPc
<1> QED BY <1>1, <1>2, <1>3

LEMMA CreateKeeps ==
  ASSUME IInv, NEW t \in Thread, NEW u \in Thread, Create(t, u)
  PROVE  IInv'
<1>1. /\ Running(t) /\ pc[t] = "run" /\ t # Idle /\ u # Idle
      /\ k.stat[u] = "none" /\ created < MaxCreate
      /\ pc' = [pc EXCEPT ![u] = "run"] /\ arg' = [arg EXCEPT ![u] = NoThread]
      /\ created' = created + 1 /\ irq' = irq /\ lazy' = lazy
  BY DEF Create
<1>2. PICK m \in SUBSET Priority : k' = [ThreadInit(k, u) EXCEPT !.mask[u] = m]
  BY DEF Create, InitMasks
<1>3. /\ k \in KernelState /\ KernelOK(k) /\ irq = NoThread /\ k.current = t
      /\ k.stat[Idle] = "ready" /\ k.stat[t] \in {"ready", "suspend"}
      /\ k.stat[t] = "suspend" => k.nest > 0
  <2>1. ~Masked(t) BY <1>1 DEF Masked, ResumePc, DeletePc
  <2> QED BY <1>1, <2>1, Runs DEF BeforeSchedule
<1>4. u # t BY <1>1, <1>3
<1>5. /\ k' \in KernelState
      /\ k'.stat = [k.stat EXCEPT ![u] = "init"]
      /\ k'.prio = [k.prio EXCEPT ![u] = InitPriority[u]]
      /\ k'.mask = [k.mask EXCEPT ![u] = m]
      /\ k'.ready = k.ready /\ k'.wait = k.wait /\ k'.group = k.group
      /\ k'.armed = k.armed \ {u} /\ k'.current = k.current /\ k'.nest = k.nest
  BY <1>2, <1>3, KernelAssumption DEF ThreadInit, KernelState, Stat, Error
<1>6. /\ k'.stat[u] = "init"
      /\ \A v \in Thread \ {u} :
            k'.stat[v] = k.stat[v] /\ k'.prio[v] = k.prio[v] /\ k'.mask[v] = k.mask[v]
  BY <1>3, <1>5 DEF KernelState
<1>7. KernelOK(k')
  <2>1. k.stat[u] # "ready" /\ k'.stat[u] # "ready" /\ u \notin k'.armed
        /\ (k'.stat[u] = "suspend" => k'.mask[u] = {k'.prio[u]})
    BY <1>1, <1>5, <1>6
  <2> QED BY <1>3, <1>5, <1>6, <2>1, RestatProperties
<1>8. Only(u) BY <1>5, <1>6 DEF Only
<1>9. /\ pc[Idle] = "reap_free" => arg[Idle] # u
      /\ OffLists(k, u) /\ Free(u, u)
  BY <1>1, Subject
<1>10. Settled(u) BY <1>5, <1>6, <1>9 DEF Settled, OffLists
<1>11. u \in Thread \ {Idle} /\ TypeOK /\ "run" \in Pc BY <1>1 DEF IInv, Pc
<1>12. /\ Moves(u) /\ pc'[u] = "run" /\ arg'[u] = NoThread
       /\ pc'[Idle] = pc[Idle] /\ arg'[Idle] = arg[Idle]
       /\ pc' \in [Thread -> Pc] /\ arg' \in [Thread -> Thread \cup {NoThread}]
  BY <1>1, <1>11, MoverIsNotIdle
<1>13. IdleStays(u) BY <1>9, <1>12 DEF IdleStays
<1>14. ASSUME NEW s \in Thread PROVE ~Masked(s)
  BY <1>1, <1>3 DEF IInv, IrqOK, Masked, ResumePc, DeletePc
<1>15. Arrives(u, u)
  <2>1. pc[u] # "delete_defunct" BY <1>14 DEF Masked, DeletePc
  <2> QED BY <1>12, <2>1 DEF Arrives, StartPc
<1>16. Settings'
  <2>1. \A s \in Thread \ {u} : pc[s] = "suspend_body" => arg[s] = s BY <1>14 DEF Masked
  <2>2. TypeOK /\ Settings BY DEF IInv, Rest
  <2>3. k'.current = k.current /\ pc[k.current] # "suspend_body" BY <1>1, <1>3, <1>5
  <2> QED BY <1>5, <1>8, <1>9, <1>10, <1>13, <1>15, <2>1, <2>2, <2>3, <1>12, SettingsKept
<1>17. TypeOK'
  <2>1. created' \in 0 .. MaxCreate
    BY <1>1, ThreadsAssumption DEF IInv, TypeOK
  <2> QED BY <1>1, <1>3, <1>5, <1>12, <2>1, KernelAssumption DEF IInv, TypeOK
<1>18. IrqOK' /\ WindowOK' /\ DeleteOK'
  <2>1. ASSUME NEW s \in Thread PROVE irq' # s /\ ~Masked(s)'
    <3>1. irq' # s BY <1>1, <1>3, KernelAssumption
    <3>2. CASE s = u BY <1>12, <3>1, <3>2 DEF Masked, ResumePc, DeletePc
    <3>3. CASE s # u BY <1>12, <1>14, <3>1, <3>3 DEF Masked, Moves
    <3> QED BY <3>2, <3>3
  <2>2. IrqOK' BY <2>1 DEF IrqOK, IrqFits
  <2>3. WindowOK' BY <1>1, <1>3, <1>7 DEF WindowOK
  <2>4. DeleteOK' BY <2>1 DEF DeleteOK, Deletes, Masked
  <2> QED BY <2>2, <2>3, <2>4
<1>19. BootOK' BY <1>3, <1>5, KernelAssumption DEF BootOK
<1>20. pc'[t] = "run" /\ k'.current = t /\ k'.stat[t] = k.stat[t] /\ k'.prio[t] = k.prio[t]
  BY <1>1, <1>3, <1>4, <1>5, <1>6, <1>12 DEF Moves
<1>21. CurrentOK'
  <2>1. k'.stat[Idle] = "ready" BY <1>1, <1>3, <1>6, KernelAssumption
  <2> QED BY <1>3, <1>5, <1>20, <2>1 DEF CurrentOK
<1>22. Best'
  <2>1. SUFFICES ASSUME k.nest = 0, ~lazy, NEW v \in Thread
                 PROVE  /\ k'.stat[t] = "ready"
                        /\ k'.stat[v] = "ready" => k'.prio[t] <= k'.prio[v]
    BY <1>1, <1>5, <1>20 DEF Best
  <2>2. /\ k.stat[t] = "ready"
        /\ k.stat[v] = "ready" => k.prio[t] <= k.prio[v]
    BY <1>1, <1>3, <2>1 DEF IInv, Rest, Best, BeforeSchedule, DeletePc
  <2> QED BY <1>6, <1>20, <2>2
<1>23. LeaveOK'
  <2>1. \A s \in Thread : pc'[s] = "exit_leave" => pc[s] = "exit_leave" /\ s # t
    BY <1>12, <1>20 DEF Moves
  <2> QED BY <1>3, <2>1 DEF IInv, Rest, LeaveOK
<1> QED BY <1>16, <1>17, <1>18, <1>19, <1>21, <1>22, <1>23 DEF IInv, Rest

LEMMA StartupKeeps ==
  ASSUME IInv, NEW t \in Thread, NEW u \in Thread, Startup(t, u)
  PROVE  IInv'
<1> DEFINE to == "startup_check"
<1>1. /\ Running(t) /\ pc[t] = "run" /\ t \in Thread \ {Idle} /\ k.stat[u] = "init"
      /\ pc' = [pc EXCEPT ![t] = to] /\ arg' = [arg EXCEPT ![t] = u]
      /\ k' = StartupBegin(k, u) /\ created' = created /\ irq' = irq /\ lazy' = lazy
  BY DEF Startup, Call, Goto
<1>2. /\ k \in KernelState /\ KernelOK(k) /\ irq = NoThread /\ k.current = t
      /\ k.stat[Idle] = "ready" /\ k.stat[t] \in {"ready", "suspend"}
      /\ k.stat[t] = "suspend" => k.nest > 0
  <2>1. ~Masked(t) BY <1>1 DEF Masked, ResumePc, DeletePc
  <2> QED BY <1>1, <2>1, Runs DEF BeforeSchedule
<1>3. u # t /\ u \in Thread \ {Idle} BY <1>1, <1>2
<1>4. /\ k' \in KernelState
      /\ k'.stat = [k.stat EXCEPT ![u] = "suspend"]
      /\ k'.prio = [k.prio EXCEPT ![u] = InitPriority[u]]
      /\ k'.mask = [k.mask EXCEPT ![u] = {InitPriority[u]}]
      /\ k'.ready = k.ready /\ k'.wait = k.wait /\ k'.group = k.group
      /\ k'.armed = k.armed /\ k'.current = k.current /\ k'.nest = k.nest
  <2>1. PICK p \in Priority : p = InitPriority[u] BY KernelAssumption
  <2>2. k' = [k EXCEPT !.prio[u] = p, !.mask[u] = {p}, !.stat[u] = "suspend"]
    BY <1>1, <2>1 DEF StartupBegin
  <2>3. p = InitPriority[u] /\ p \in Priority /\ {p} \in SUBSET Priority /\ "suspend" \in Stat
    BY <2>1 DEF Stat
  <2>4. k \in KernelState /\ u \in Thread BY <1>2
  <2> QED BY ONLY <2>2, <2>3, <2>4 DEF KernelState
<1>5. /\ k'.stat[u] = "suspend" /\ k'.mask[u] = {k'.prio[u]}
      /\ \A v \in Thread \ {u} :
            k'.stat[v] = k.stat[v] /\ k'.prio[v] = k.prio[v] /\ k'.mask[v] = k.mask[v]
  BY <1>2, <1>4 DEF KernelState
<1>6. u \notin k.armed BY <1>1, <1>2 DEF KernelOK, TimersOK
<1>7. KernelOK(k')
  <2>1. k.stat[u] # "ready" /\ k'.stat[u] # "ready" /\ u \notin k'.armed
        /\ k'.armed = k.armed \ {u}
    BY <1>1, <1>4, <1>5, <1>6
  <2> QED BY <1>2, <1>4, <1>5, <2>1, RestatProperties
<1>8. Only(u) BY <1>4, <1>5 DEF Only
<1>9. /\ pc[Idle] = "reap_free" => arg[Idle] # u
      /\ OffLists(k, u) /\ Free(t, u)
  BY <1>1, Subject
<1>10. Settled(u) BY <1>4, <1>5, <1>9 DEF Settled, OffLists
<1>11. pc'[t] = to /\ arg'[t] = u BY <1>1 DEF IInv, TypeOK
<1>12. Arrives(t, u)
  <2>1. Untouched(k', u) BY <1>2, <1>3, <1>4, <1>5, <1>6, <1>9 DEF Untouched, OffLists
  <2> QED BY <1>1, <1>9, <1>11, <2>1 DEF Arrives, Free
<1>13. WindowOK' BY <1>1, <1>2, <1>7 DEF WindowOK
<1>14. irq' \in {NoThread, t} /\ irq' # t BY <1>1, <1>2, KernelAssumption
<1>15. to \in Pc \ {"exit_leave"} /\ to \notin ResumePc \cup DeletePc /\ to # "suspend_body"
  BY DEF Pc, ResumePc, DeletePc
<1>16. StaysCurrent(t) BY <1>2, <1>3, <1>4, <1>5 DEF StaysCurrent
<1>17. StaysBest(t, u)
  BY <1>1, <1>3, <1>4, <1>5 DEF StaysBest, BeforeSchedule, DeletePc
<1>18. k'.current = k.current /\ u \in Thread \cup {NoThread} /\ lazy' \in BOOLEAN
  BY <1>1, <1>4 DEF IInv, TypeOK
<1> HIDE DEF to
<1> QED BY <1>1, <1>3, <1>4, <1>8, <1>9, <1>10, <1>12, <1>13, <1>14, <1>15, <1>16, <1>17,
           <1>18, ActiveStep

LEMMA StartupUnlinkKeeps ==
  ASSUME IInv, NEW t \in Thread, StartupUnlink(t)
  PROVE  IInv'
<1> DEFINE to == "startup_insert"
           u == arg[t]
<1>1. /\ Running(t) /\ pc[t] = "startup_unlink"
      /\ pc' = [pc EXCEPT ![t] = to] /\ arg' = arg
      /\ k' = ResumeUnlink(k, u) /\ created' = created /\ irq' = irq /\ lazy' = lazy
  BY DEF StartupUnlink, Goto
<1>2. /\ u \in Thread /\ Untouched(k, u)
      /\ \A r \in Thread \ {t} : pc[r] \in StartPc => arg[r] # u
  BY <1>1 DEF IInv, Rest, Settings, StartingOK, StartPc
<1>3. t \in Thread \ {Idle} BY <1>1, NotIdle DEF IdlePc
<1>4. /\ k \in KernelState /\ KernelOK(k) /\ irq = NoThread /\ k.current = t
      /\ k.stat[Idle] = "ready" /\ k.stat[t] \in {"ready", "suspend"}
      /\ k.stat[t] = "suspend" => k.nest > 0
  <2>1. ~Masked(t) BY <1>1 DEF Masked, ResumePc, DeletePc
  <2> QED BY <1>1, <2>1, Runs DEF BeforeSchedule
<1>5. pc \in [Thread -> Pc] /\ arg \in [Thread -> Thread \cup {NoThread}]
  BY DEF IInv, TypeOK
<1>6. arg' = [arg EXCEPT ![t] = u] /\ u \in Thread \cup {NoThread} BY <1>1, <1>5
<1>7. pc'[t] = to /\ arg'[t] = u BY <1>1, <1>5
<1> HIDE DEF u, to
<1>8. k.stat[u] = "suspend" /\ u \notin k.armed /\ OffLists(k, u) /\ u # t
  BY <1>2, <1>4 DEF Untouched
<1>9. u \in Thread \ {Idle} BY <1>2, <1>4, <1>8
<1>10. /\ k' \in KernelState
       /\ KernelOK(k')
       /\ Frame(k', k) /\ k'.armed = k.armed \ {u} /\ k'.stat = k.stat
       /\ \A q \in Queue : ToSet(k'.wait[q]) = ToSet(k.wait[q]) \ {u}
  BY <1>1, <1>2, <1>4, <1>8, ResumeUnlinkKeeps
<1>11. Only(u) BY <1>10 DEF Only, Frame
<1>12. pc[Idle] = "reap_free" => arg[Idle] # u BY <1>2, <1>8, Subject
<1>13. Free(t, u) BY <1>2 DEF Free
<1>14. Settled(u) BY <1>8, <1>10 DEF Settled
<1>15. Arrives(t, u)
  <2>1. Untouched(k', u) BY <1>4, <1>8, <1>10 DEF Untouched, OffLists, Frame
  <2> QED BY <1>1, <1>2, <1>7, <2>1 DEF Arrives, to
<1>16. WindowOK' BY <1>1, <1>4, <1>10 DEF WindowOK
<1>17. irq' \in {NoThread, t} /\ irq' # t BY <1>1, <1>4, KernelAssumption
<1>18. to \in Pc \ {"exit_leave"} /\ to \notin ResumePc \cup DeletePc /\ to # "suspend_body"
  BY DEF Pc, ResumePc, DeletePc, to
<1>19. StaysCurrent(t) BY <1>4, <1>10 DEF StaysCurrent, Frame
<1>20. StaysBest(t, u)
  BY <1>1, <1>8, <1>10 DEF StaysBest, BeforeSchedule, DeletePc, Frame
<1>21. k'.current = k.current /\ lazy' \in BOOLEAN
  BY <1>1, <1>10 DEF IInv, TypeOK, Frame
<1> QED BY <1>1, <1>3, <1>6, <1>9, <1>10, <1>11, <1>12, <1>13, <1>14, <1>15, <1>16, <1>17,
           <1>18, <1>19, <1>20, <1>21, ActiveStep

LEMMA StartupInsertKeeps ==
  ASSUME IInv, NEW t \in Thread, StartupInsert(t)
  PROVE  IInv'
<1> DEFINE to == "sched"
           u == arg[t]
<1>1. /\ Running(t) /\ pc[t] = "startup_insert"
      /\ pc' = [pc EXCEPT ![t] = to] /\ arg' = arg
      /\ k' = ScheduleInsert(k, u) /\ created' = created /\ irq' = irq /\ lazy' = lazy
  BY DEF StartupInsert, Goto
<1>2. /\ u \in Thread /\ Untouched(k, u)
      /\ \A r \in Thread \ {t} : pc[r] \in StartPc => arg[r] # u
  BY <1>1 DEF IInv, Rest, Settings, StartingOK, StartPc
<1>3. t \in Thread \ {Idle} BY <1>1, NotIdle DEF IdlePc
<1>4. /\ k \in KernelState /\ KernelOK(k) /\ irq = NoThread /\ k.current = t
      /\ k.stat[Idle] = "ready" /\ k.stat[t] \in {"ready", "suspend"}
      /\ k.stat[t] = "suspend" => k.nest > 0
  <2>1. ~Masked(t) BY <1>1 DEF Masked, ResumePc, DeletePc
  <2> QED BY <1>1, <2>1, Runs DEF BeforeSchedule
<1>5. pc \in [Thread -> Pc] /\ arg \in [Thread -> Thread \cup {NoThread}]
  BY DEF IInv, TypeOK
<1>6. arg' = [arg EXCEPT ![t] = u] /\ u \in Thread \cup {NoThread} BY <1>1, <1>5
<1>7. pc'[t] = to /\ arg'[t] = u BY <1>1, <1>5
<1> HIDE DEF u, to
<1>8. k.stat[u] = "suspend" /\ u \notin k.armed /\ OffLists(k, u) /\ u # t
  BY <1>2, <1>4 DEF Untouched
<1>9. u \in Thread \ {Idle} BY <1>2, <1>4, <1>8
<1>10. Floating(k, u) BY <1>2, <1>4, <1>8, SuspendedFloats DEF OffLists
<1>11. /\ k' \in KernelState
       /\ KernelOK(k')
       /\ Frame(k', k) /\ k'.wait = k.wait /\ k'.armed = k.armed
       /\ k'.stat = [k.stat EXCEPT ![u] = "ready"]
  BY <1>1, <1>2, <1>4, <1>10, ScheduleInsertProperties
<1>12. k'.stat[u] = "ready" /\ \A v \in Thread \ {u} : k'.stat[v] = k.stat[v]
  BY <1>2, <1>4, <1>11 DEF KernelState
<1>13. Only(u) BY <1>11, <1>12 DEF Only, Frame
<1>14. pc[Idle] = "reap_free" => arg[Idle] # u BY <1>2, <1>8, Subject
<1>15. Free(t, u) BY <1>2 DEF Free
<1>16. Settled(u) BY <1>8, <1>11, <1>12 DEF Settled, OffLists
<1>17. Arrives(t, u) BY <1>1, <1>7 DEF Arrives, to, StartPc
<1>18. WindowOK' BY <1>1, <1>4, <1>11 DEF WindowOK
<1>19. irq' \in {NoThread, t} /\ irq' # t BY <1>1, <1>4, KernelAssumption
<1>20. to \in Pc \ {"exit_leave"} /\ to \notin ResumePc \cup DeletePc /\ to # "suspend_body"
  BY DEF Pc, ResumePc, DeletePc, to
<1>21. StaysCurrent(t) BY <1>4, <1>8, <1>11, <1>12 DEF StaysCurrent, Frame
<1>22. StaysBest(t, u) BY <1>7 DEF StaysBest, BeforeSchedule, to
<1>23. k'.current = k.current /\ lazy' \in BOOLEAN
  BY <1>1, <1>11 DEF IInv, TypeOK, Frame
<1> QED BY <1>1, <1>3, <1>6, <1>9, <1>11, <1>13, <1>14, <1>15, <1>16, <1>17, <1>18, <1>19,
           <1>20, <1>21, <1>22, <1>23, ActiveStep

LEMMA SuspendApplyKeeps ==
  ASSUME IInv, NEW t \in Thread, SuspendApply(t)
  PROVE  IInv'
<1> DEFINE to == IF arg[t] = t THEN "sched" ELSE "run"
           u == arg[t]
<1>1. /\ Running(t) /\ pc[t] = "suspend_body"
      /\ pc' = [pc EXCEPT ![t] = to] /\ arg' = [arg EXCEPT ![t] = NoThread]
      /\ k' = SuspendBody(k, u) /\ created' = created /\ irq' = NoThread /\ lazy' = lazy
  BY DEF SuspendApply, Goto
<1>2. /\ k \in KernelState /\ k.current = t /\ k.stat[Idle] = "ready"
      /\ k.stat[t] \in {"ready", "suspend"}
      /\ k.stat[t] = "suspend" => k.nest > 0
  BY <1>1, Runs DEF BeforeSchedule
<1>3. u \in Thread \ {Idle} /\ k.stat[u] = "ready"
  BY <1>1, <1>2 DEF IInv, Rest, Settings, SuspendOK
<1>4. KernelOK(k) BY <1>1, Runs DEF Window
<1>5. t \in Thread \ {Idle} BY <1>1, NotIdle DEF IdlePc
<1>6. pc'[t] = to /\ arg'[t] = NoThread BY <1>1 DEF IInv, TypeOK
<1>7. /\ to \in Pc \ {"exit_leave"} /\ to \notin ResumePc \cup DeletePc \cup StartPc /\ to # "suspend_body"
      /\ u = t => to \in BeforeSchedule
  BY DEF Pc, ResumePc, DeletePc, StartPc, BeforeSchedule
<1> HIDE DEF u, to
<1>8. k' = Suspend(k, u) BY <1>1, <1>3 DEF Suspend
<1>9. /\ k' \in KernelState
      /\ KernelOK(k')
      /\ \A p \in Priority : u \notin ToSet(k'.ready[p])
      /\ \A q \in Queue : u \notin ToSet(k'.wait[q])
      /\ Frame(k', k) /\ k'.wait = k.wait /\ k'.armed = k.armed
      /\ k'.stat = [k.stat EXCEPT ![u] = "suspend"]
  BY <1>2, <1>3, <1>4, <1>8, SuspendProperties
<1>10. k'.stat[u] = "suspend" /\ \A v \in Thread \ {u} : k'.stat[v] = k.stat[v]
  BY <1>2, <1>3, <1>9 DEF KernelState
<1>11. Only(u) BY <1>9, <1>10 DEF Only, Frame
<1>12. (pc[Idle] = "reap_free" => arg[Idle] # u) /\ Free(t, u) BY <1>3, Subject
<1>13. Settled(u) BY <1>9, <1>10 DEF Settled
<1>14. Arrives(t, u) BY <1>1, <1>6, <1>7 DEF Arrives
<1>15. WindowOK' BY <1>1, <1>9 DEF WindowOK
<1>16. irq' \in {NoThread, t} /\ irq' # t BY <1>1, KernelAssumption
<1>17. StaysCurrent(t) BY <1>2, <1>6, <1>7, <1>9, <1>10 DEF StaysCurrent, Frame
<1>18. StaysBest(t, u)
  BY <1>1, <1>6, <1>7, <1>9, <1>10 DEF StaysBest, BeforeSchedule, DeletePc, Frame
<1>19. k'.current = k.current /\ lazy' \in BOOLEAN /\ NoThread \in Thread \cup {NoThread}
  BY <1>1, <1>9 DEF IInv, TypeOK, Frame
<1> QED BY <1>1, <1>3, <1>5, <1>7, <1>9, <1>11, <1>12, <1>13, <1>14, <1>15, <1>16, <1>17,
           <1>18, <1>19, ActiveStep

\* What holds inside a call about another thread, or in a deletion.
LEMMA InCall ==
  ASSUME IInv, NEW t \in Thread, Running(t), pc[t] \in ResumePc \cup DeletePc
  PROVE  /\ irq = t \/ (irq = NoThread /\ k.nest > 0 /\ pc[t] \in DeletePc)
         /\ Window(t, arg[t]) /\ t \in Thread \ {Idle} /\ t # NoThread
         /\ pc \in [Thread -> Pc] /\ arg \in [Thread -> Thread \cup {NoThread}]
         /\ k \in KernelState /\ k.current = t /\ k.stat[Idle] = "ready"
         /\ k.stat[t] \in {"ready", "suspend", "close"}
         /\ k.stat[t] = "suspend" => k.nest > 0
         /\ k.stat[t] = "close" =>
              k.nest > 0 /\ pc[t] = "delete_defunct" /\ arg[t] = t
<1>1. Masked(t) BY DEF Masked
<1>2. /\ irq = t \/ (irq = NoThread /\ k.nest > 0 /\ pc[t] \in DeletePc)
      /\ Window(t, arg[t])
  BY <1>1, Runs
<1>3. t \in Thread \ {Idle} BY NotIdle DEF IdlePc, ResumePc, DeletePc
<1>4. pc[t] \notin BeforeSchedule BY DEF ResumePc, DeletePc, BeforeSchedule
<1>5. /\ k \in KernelState /\ k.current = t /\ k.stat[Idle] = "ready"
      /\ k.stat[t] \in {"ready", "suspend", "close"}
      /\ k.stat[t] = "suspend" => k.nest > 0
      /\ k.stat[t] = "close" =>
            k.nest > 0 /\ pc[t] = "delete_defunct" /\ arg[t] = t
  BY <1>4, Runs DEF BeforeSchedule, ResumePc, DeletePc
<1> QED BY <1>2, <1>3, <1>5, KernelAssumption DEF IInv, TypeOK

LEMMA ResumeStopKeeps ==
  ASSUME IInv, NEW t \in Thread, ResumeStop(t)
  PROVE  IInv'
<1> DEFINE to == "resume_insert"
<1>0. PICK u : u = arg[t] OBVIOUS
<1>1. /\ Running(t) /\ pc[t] = "resume_unlink"
      /\ pc' = [pc EXCEPT ![t] = to] /\ arg' = arg
      /\ k' = ResumeUnlink(k, u) /\ created' = created /\ irq' = irq /\ lazy' = lazy
  BY <1>0 DEF ResumeStop, Goto
<1>2. /\ irq = t /\ Window(t, u) /\ t \in Thread \ {Idle} /\ t # NoThread
      /\ pc \in [Thread -> Pc] /\ arg \in [Thread -> Thread \cup {NoThread}]
      /\ k \in KernelState /\ k.current = t /\ k.stat[Idle] = "ready"
      /\ k.stat[t] \in {"ready", "suspend"}
      /\ k.stat[t] = "suspend" => k.nest > 0
  BY <1>0, <1>1, InCall DEF ResumePc, DeletePc
<1>3. arg' = [arg EXCEPT ![t] = u] BY <1>0, <1>1, <1>2
<1>4. pc'[t] = to /\ arg'[t] = u BY <1>0, <1>1, <1>2
<1> HIDE DEF to
<1>5. /\ u \in Thread \ {Idle} /\ KernelOK(k) /\ k.stat[u] = "suspend" /\ u # t
      /\ ~Starting(u)
  BY <1>1, <1>2 DEF Window, ResumePc
<1>6. /\ k' \in KernelState
      /\ KernelOK(k')
      /\ Frame(k', k) /\ k'.armed = k.armed \ {u} /\ k'.stat = k.stat
      /\ \A q \in Queue : ToSet(k'.wait[q]) = ToSet(k.wait[q]) \ {u}
  BY <1>1, <1>2, <1>5, ResumeUnlinkKeeps
<1>7. Only(u) BY <1>6 DEF Only, Frame
<1>8. (pc[Idle] = "reap_free" => arg[Idle] # u) /\ Free(t, u) BY <1>5, Subject
<1>9. Settled(u) BY <1>5, <1>6 DEF Settled
<1>10. Arrives(t, u) BY <1>1, <1>4 DEF Arrives, to, StartPc
<1>11. Moves(t) BY <1>1, <1>2 DEF Moves
<1>12. WindowOK'
  <2>1. ~Starting(u)' BY <1>4, <1>5, <1>11 DEF Starting, Moves, to
  <2>2. u \notin k'.armed /\ OffLists(k', u) BY <1>6 DEF OffLists
  <2>3. Window(t, u)'
    BY <1>4, <1>5, <1>6, <2>1, <2>2 DEF Window, ResumePc, DeletePc, to
  <2>4. irq' = t /\ arg'[t] = u /\ t # NoThread BY <1>1, <1>2, <1>4
  <2> QED BY <2>3, <2>4 DEF WindowOK
<1>13. irq' = t /\ irq' \in {NoThread, t} BY <1>1, <1>2
<1>14. to \in Pc \ {"exit_leave"} /\ to \in ResumePc /\ to \notin DeletePc
  BY DEF Pc, ResumePc, DeletePc, to
<1>15. StaysCurrent(t) BY <1>2, <1>6 DEF StaysCurrent, Frame
<1>16. StaysBest(t, u)
  BY <1>1, <1>5, <1>6 DEF StaysBest, BeforeSchedule, DeletePc, Frame
<1>17. k'.current = k.current /\ lazy' \in BOOLEAN /\ u \in Thread \cup {NoThread}
  BY <1>1, <1>5, <1>6 DEF IInv, TypeOK, Frame
<1> QED BY <1>1, <1>2, <1>3, <1>5, <1>6, <1>7, <1>8, <1>9, <1>10, <1>12, <1>13, <1>14,
           <1>15, <1>16, <1>17, ActiveStep

LEMMA ResumeInsertKeeps ==
  ASSUME IInv, NEW t \in Thread, ResumeInsert(t)
  PROVE  IInv'
<1> DEFINE to == "run"
           u == arg[t]
<1>1. /\ Running(t) /\ pc[t] = "resume_insert"
      /\ pc' = [pc EXCEPT ![t] = to] /\ arg' = [arg EXCEPT ![t] = NoThread]
      /\ k' = ScheduleInsert(k, u) /\ created' = created /\ irq' = NoThread /\ lazy' = TRUE
  BY DEF ResumeInsert, Return, Goto
<1>2. /\ irq = t /\ Window(t, u) /\ t \in Thread \ {Idle} /\ t # NoThread
      /\ pc \in [Thread -> Pc] /\ arg \in [Thread -> Thread \cup {NoThread}]
      /\ k \in KernelState /\ k.current = t /\ k.stat[Idle] = "ready"
      /\ k.stat[t] \in {"ready", "suspend"}
      /\ k.stat[t] = "suspend" => k.nest > 0
  BY <1>1, InCall DEF ResumePc, DeletePc
<1>3. pc'[t] = to /\ arg'[t] = NoThread BY <1>1, <1>2
<1> HIDE DEF u, to
<1>4. /\ u \in Thread \ {Idle} /\ KernelOK(k) /\ k.stat[u] = "suspend" /\ u # t
      /\ ~Starting(u) /\ u \notin k.armed /\ OffLists(k, u)
  BY <1>1, <1>2 DEF Window, ResumePc
<1>5. Floating(k, u) BY <1>2, <1>4, SuspendedFloats DEF OffLists
<1>6. /\ k' \in KernelState
      /\ KernelOK(k')
      /\ Frame(k', k) /\ k'.wait = k.wait /\ k'.armed = k.armed
      /\ k'.stat = [k.stat EXCEPT ![u] = "ready"]
  BY <1>1, <1>2, <1>4, <1>5, ScheduleInsertProperties
<1>7. k'.stat[u] = "ready" /\ \A v \in Thread \ {u} : k'.stat[v] = k.stat[v]
  BY <1>2, <1>4, <1>6 DEF KernelState
<1>8. Only(u) BY <1>6, <1>7 DEF Only, Frame
<1>9. (pc[Idle] = "reap_free" => arg[Idle] # u) /\ Free(t, u) BY <1>4, Subject
<1>10. Settled(u) BY <1>4, <1>6, <1>7 DEF Settled, OffLists
<1>11. Arrives(t, u) BY <1>1, <1>3 DEF Arrives, to, StartPc
<1>12. WindowOK' BY <1>1, <1>6 DEF WindowOK
<1>13. irq' \in {NoThread, t} /\ irq' # t BY <1>1, <1>2
<1>14. to \in Pc \ {"exit_leave"} /\ to \notin ResumePc \cup DeletePc /\ to # "suspend_body"
  BY DEF Pc, ResumePc, DeletePc, to
<1>15. StaysCurrent(t) BY <1>2, <1>4, <1>6, <1>7 DEF StaysCurrent, Frame
<1>16. StaysBest(t, u) BY <1>1 DEF StaysBest
<1>17. k'.current = k.current /\ lazy' \in BOOLEAN /\ NoThread \in Thread \cup {NoThread}
  BY <1>1, <1>6 DEF Frame
<1> QED BY <1>1, <1>2, <1>4, <1>6, <1>8, <1>9, <1>10, <1>11, <1>12, <1>13, <1>14,
           <1>15, <1>16, <1>17, ActiveStep

LEMMA DeleteRemoveKeeps ==
  ASSUME Disciplined, IInv, NEW t \in Thread, NEW u \in Thread, DeleteRemove(t, u)
  PROVE  IInv'
<1> DEFINE to == "delete_timer"
<1>1. /\ Running(t) /\ pc[t] = "run" /\ t \in Thread \ {Idle} /\ Live(u)
      /\ u = t => Shielded(t, u)
      /\ pc' = [pc EXCEPT ![t] = to] /\ arg' = [arg EXCEPT ![t] = u]
      /\ k' = ScheduleRemove(k, u) /\ created' = created /\ lazy' = lazy
      /\ irq' = IF Shielded(t, u) THEN NoThread ELSE t
  BY DEF DeleteRemove, Call, Goto, Disciplined
<1>0. Shielded(t, u) <=> k.stat[u] = "ready" /\ k.nest > 0 BY DEF Shielded, Disciplined
<1>2. /\ k \in KernelState /\ KernelOK(k) /\ irq = NoThread /\ k.current = t
      /\ k.stat[Idle] = "ready" /\ k.stat[t] \in {"ready", "suspend"}
      /\ k.stat[t] = "suspend" => k.nest > 0
  <2>1. ~Masked(t) BY <1>1 DEF Masked, ResumePc, DeletePc
  <2> QED BY <1>1, <2>1, Runs DEF BeforeSchedule
<1>3. u \in Thread \ {Idle} /\ k.stat[u] \in {"ready", "suspend"} /\ ~Starting(u)
  BY <1>1 DEF Live
<1>4. pc'[t] = to /\ arg'[t] = u /\ Moves(t) BY <1>1 DEF IInv, TypeOK, Moves
<1> HIDE DEF to
<1>5. /\ k' \in KernelState
      /\ Floating(TimerStop(k', u), u)
      /\ Frame(k', k) /\ k'.stat = k.stat /\ k'.armed = k.armed
      /\ \A q \in Queue : ToSet(k'.wait[q]) = ToSet(k.wait[q]) \ {u}
  BY <1>1, <1>2, <1>3, RemoveProperties
<1>6. Only(u) BY <1>5 DEF Only, Frame
<1>7. (pc[Idle] = "reap_free" => arg[Idle] # u) /\ Free(t, u) BY <1>3, Subject
<1>8. Settled(u) BY <1>3, <1>5 DEF Settled
<1>9. Arrives(t, u) BY <1>1, <1>4 DEF Arrives, to, StartPc
<1>10. Window(t, u)' /\ WindowOK'
  <2>1. ~Starting(u)' BY <1>3, <1>4 DEF Starting, Moves, to
  <2>2. OffLists(k', u) BY <1>5 DEF OffLists
  <2>3. /\ u = t => k'.nest > 0 /\ k'.stat[t] = "ready"
        /\ irq' = NoThread => k'.stat[u] = "ready" /\ u \notin k'.armed
    BY <1>0, <1>1, <1>2, <1>5, KernelAssumption DEF Frame, KernelOK, TimersOK
  <2>4. Window(t, u)'
    BY <1>3, <1>4, <1>5, <2>1, <2>2, <2>3 DEF Window, ResumePc, DeletePc, to
  <2>5. /\ irq' \in {NoThread, t} /\ arg'[t] = u /\ t # NoThread
        /\ k'.current = t /\ pc'[t] \in DeletePc
    BY <1>1, <1>2, <1>4, <1>5, KernelAssumption DEF Frame, DeletePc, to
  <2> QED BY <2>4, <2>5 DEF WindowOK
<1>11. irq' \in {NoThread, t} /\ (irq' = t \/ k'.nest > 0) BY <1>0, <1>1, <1>5 DEF Frame
<1>12. /\ to \in Pc \ {"exit_leave"} /\ to \in DeletePc
       /\ to \notin ResumePc /\ to # "suspend_body"
  BY DEF Pc, DeletePc, ResumePc, to
<1>13. StaysCurrent(t) BY <1>2, <1>5 DEF StaysCurrent, Frame
<1>14. StaysBest(t, u)
  BY <1>1, <1>4, <1>5, <1>12 DEF StaysBest, BeforeSchedule, DeletePc, Frame
<1>15. k'.current = k.current /\ lazy' \in BOOLEAN /\ u \in Thread \cup {NoThread}
  BY <1>1, <1>5 DEF IInv, TypeOK, Frame
<1> QED BY <1>1, <1>3, <1>5, <1>6, <1>7, <1>8, <1>9, <1>10, <1>11, <1>12, <1>13, <1>14,
           <1>15, ActiveStep

LEMMA DeleteTimerKeeps ==
  ASSUME IInv, NEW t \in Thread, DeleteTimer(t)
  PROVE  IInv'
<1> DEFINE to == "delete_stat"
<1>0. PICK u : u = arg[t] OBVIOUS
<1>1. /\ Running(t) /\ pc[t] = "delete_timer"
      /\ pc' = [pc EXCEPT ![t] = to] /\ arg' = arg
      /\ k' = TimerStop(k, u) /\ created' = created /\ irq' = irq /\ lazy' = lazy
  BY <1>0 DEF DeleteTimer, Goto
<1>2. /\ irq = t \/ (irq = NoThread /\ k.nest > 0)
      /\ Window(t, u) /\ t \in Thread \ {Idle} /\ t # NoThread
      /\ pc \in [Thread -> Pc] /\ arg \in [Thread -> Thread \cup {NoThread}]
      /\ k \in KernelState /\ k.current = t /\ k.stat[Idle] = "ready"
      /\ k.stat[t] \in {"ready", "suspend"}
      /\ k.stat[t] = "suspend" => k.nest > 0
  BY <1>0, <1>1, InCall DEF DeletePc
<1>3. arg' = [arg EXCEPT ![t] = u] BY <1>0, <1>1, <1>2
<1>4. pc'[t] = to /\ arg'[t] = u /\ Moves(t) BY <1>0, <1>1, <1>2 DEF Moves
<1> HIDE DEF to
<1>5. /\ u \in Thread \ {Idle} /\ OffLists(k, u) /\ Floating(TimerStop(k, u), u)
      /\ k.stat[u] \in {"ready", "suspend"} /\ ~Starting(u)
      /\ u = t => k.nest > 0 /\ k.stat[t] \in {"ready", "close"}
      /\ irq = NoThread => k.stat[u] = "ready" /\ u \notin k.armed
  BY <1>1, <1>2 DEF Window, DeletePc
<1>6. /\ k' \in KernelState /\ k'.armed = k.armed \ {u}
      /\ k'.stat = k.stat /\ k'.prio = k.prio /\ k'.wait = k.wait
      /\ k'.current = k.current /\ k'.nest = k.nest
      /\ TimerStop(k', u) = k'
  BY <1>1, <1>2 DEF TimerStop, KernelState
<1>7. Only(u) BY <1>6 DEF Only
<1>8. (pc[Idle] = "reap_free" => arg[Idle] # u) /\ Free(t, u) BY <1>5, Subject
<1>9. Settled(u) BY <1>5, <1>6 DEF Settled, OffLists
<1>10. Arrives(t, u) BY <1>1, <1>4 DEF Arrives, to, StartPc
<1>11. Window(t, u)' /\ WindowOK'
  <2>1. ~Starting(u)' BY <1>4, <1>5 DEF Starting, Moves, to
  <2>2. OffLists(k', u) /\ u \notin k'.armed BY <1>5, <1>6 DEF OffLists
  <2>3. Floating(TimerStop(k', u), u) BY <1>1, <1>5, <1>6
  <2>4. Window(t, u)'
    BY <1>1, <1>4, <1>5, <1>6, <2>1, <2>2, <2>3 DEF Window, ResumePc, DeletePc, to
  <2>5. /\ irq' \in {NoThread, t} /\ arg'[t] = u /\ t # NoThread
        /\ k'.current = t /\ pc'[t] \in DeletePc
    BY <1>1, <1>2, <1>4, <1>6 DEF DeletePc, to
  <2> QED BY <2>4, <2>5 DEF WindowOK
<1>12. irq' \in {NoThread, t} /\ (irq' = t \/ k'.nest > 0) BY <1>1, <1>2, <1>6
<1>13. /\ to \in Pc \ {"exit_leave"} /\ to \in DeletePc
       /\ to \notin ResumePc /\ to # "suspend_body"
  BY DEF Pc, DeletePc, ResumePc, to
<1>14. StaysCurrent(t) BY <1>2, <1>6 DEF StaysCurrent
<1>15. StaysBest(t, u)
  BY <1>0, <1>1, <1>4, <1>6, <1>13 DEF StaysBest, BeforeSchedule
<1>16. lazy' \in BOOLEAN /\ u \in Thread \cup {NoThread} BY <1>1, <1>5 DEF IInv, TypeOK
<1> QED BY <1>1, <1>2, <1>3, <1>5, <1>6, <1>7, <1>8, <1>9, <1>10, <1>11, <1>12, <1>13,
           <1>14, <1>15, <1>16, ActiveStep

LEMMA DeleteStatKeeps ==
  ASSUME IInv, NEW t \in Thread, DeleteStat(t)
  PROVE  IInv'
<1> DEFINE to == "delete_defunct"
<1>0. PICK u : u = arg[t] OBVIOUS
<1>1. /\ Running(t) /\ pc[t] = "delete_stat"
      /\ pc' = [pc EXCEPT ![t] = to] /\ arg' = arg
      /\ k' = [k EXCEPT !.stat[u] = "close"]
      /\ created' = created /\ irq' = irq /\ lazy' = lazy
  BY <1>0 DEF DeleteStat, Goto
<1>2. /\ irq = t \/ (irq = NoThread /\ k.nest > 0)
      /\ Window(t, u) /\ t \in Thread \ {Idle} /\ t # NoThread
      /\ pc \in [Thread -> Pc] /\ arg \in [Thread -> Thread \cup {NoThread}]
      /\ k \in KernelState /\ k.current = t /\ k.stat[Idle] = "ready"
      /\ k.stat[t] \in {"ready", "suspend"}
      /\ k.stat[t] = "suspend" => k.nest > 0
  BY <1>0, <1>1, InCall DEF DeletePc
<1>3. arg' = [arg EXCEPT ![t] = u] BY <1>0, <1>1, <1>2
<1>4. pc'[t] = to /\ arg'[t] = u /\ Moves(t) BY <1>0, <1>1, <1>2 DEF Moves
<1> HIDE DEF to
<1>5. /\ u \in Thread \ {Idle} /\ OffLists(k, u) /\ Floating(TimerStop(k, u), u)
      /\ k.stat[u] \in {"ready", "suspend"} /\ ~Starting(u) /\ u \notin k.armed
      /\ u = t => k.nest > 0
  BY <1>1, <1>2 DEF Window, DeletePc
<1>6. Floating(k, u)
  <2>1. TimerStop(k, u) = k BY <1>2, <1>5 DEF TimerStop, KernelState
  <2> QED BY <1>5, <2>1
<1>7. /\ k' \in KernelState
      /\ KernelOK(k')
      /\ Frame(k', k) /\ k'.wait = k.wait /\ k'.armed = k.armed
      /\ k'.stat = [k.stat EXCEPT ![u] = "close"]
  BY <1>1, <1>2, <1>5, <1>6, CloseProperties
<1>8. k'.stat[u] = "close" /\ \A v \in Thread \ {u} : k'.stat[v] = k.stat[v]
  BY <1>2, <1>5, <1>7 DEF KernelState
<1>9. Only(u) BY <1>7, <1>8 DEF Only, Frame
<1>10. (pc[Idle] = "reap_free" => arg[Idle] # u) /\ Free(t, u) BY <1>5, Subject
<1>11. Settled(u)
  <2>1. Awaited(u)' BY <1>4 DEF Awaited, to
  <2> QED BY <1>8, <2>1 DEF Settled
<1>12. Arrives(t, u) BY <1>1, <1>4 DEF Arrives, to, StartPc
<1>13. Window(t, u)' /\ WindowOK'
  <2>1. OffLists(k', u) /\ u \notin k'.armed BY <1>5, <1>7 DEF OffLists
  <2>2. pc'[Idle] = "reap_free" => arg'[Idle] # u
    BY <1>2, <1>4, <1>10, KernelAssumption DEF Moves
  <2>3. Window(t, u)'
    BY <1>4, <1>5, <1>7, <1>8, <2>1, <2>2 DEF Window, ResumePc, DeletePc, to, Frame
  <2>4. /\ irq' \in {NoThread, t} /\ arg'[t] = u /\ t # NoThread
        /\ k'.current = t /\ pc'[t] \in DeletePc
    BY <1>1, <1>2, <1>4, <1>7 DEF DeletePc, to, Frame
  <2> QED BY <2>3, <2>4 DEF WindowOK
<1>14. irq' \in {NoThread, t} /\ (irq' = t \/ k'.nest > 0) BY <1>1, <1>2, <1>7 DEF Frame
<1>15. /\ to \in Pc \ {"exit_leave"} /\ to \in DeletePc
       /\ to \notin ResumePc /\ to # "suspend_body"
  BY DEF Pc, DeletePc, ResumePc, to
<1>16. StaysCurrent(t)
  <2>1. CASE u = t BY <1>4, <1>5, <1>7, <1>8, <2>1 DEF StaysCurrent, Frame, to
  <2>2. CASE u # t BY <1>2, <1>7, <1>8, <2>2 DEF StaysCurrent, Frame
  <2> QED BY <2>1, <2>2
<1>17. StaysBest(t, u)
  BY <1>0, <1>1, <1>4, <1>5, <1>7, <1>8, <1>15 DEF StaysBest, BeforeSchedule, Frame
<1>18. k'.current = k.current /\ lazy' \in BOOLEAN /\ u \in Thread \cup {NoThread}
  BY <1>1, <1>5, <1>7 DEF IInv, TypeOK, Frame
<1> QED BY <1>1, <1>2, <1>3, <1>5, <1>7, <1>9, <1>10, <1>11, <1>12, <1>13, <1>14, <1>15,
           <1>16, <1>17, <1>18, ActiveStep

LEMMA DeleteDefunctKeeps ==
  ASSUME IInv, NEW t \in Thread, DeleteDefunct(t)
  PROVE  IInv'
<1> DEFINE to == IF arg[t] # t THEN "run"
                 ELSE IF k.nest > 0 THEN "exit_leave" ELSE "exit_sched"
<1>6. PICK u : u = arg[t] OBVIOUS
<1>1. /\ Running(t) /\ pc[t] = "delete_defunct"
      /\ pc' = [pc EXCEPT ![t] = to] /\ arg' = [arg EXCEPT ![t] = NoThread]
      /\ k' = IF u \in Static \ HasCleanup THEN k ELSE ListInsertAfter(k, Defunct, u)
      /\ created' = created /\ irq' = NoThread /\ lazy' = lazy
  BY <1>6 DEF DeleteDefunct, Goto
<1>2. /\ Window(t, u) /\ t \in Thread \ {Idle} /\ t # NoThread
      /\ pc \in [Thread -> Pc] /\ arg \in [Thread -> Thread \cup {NoThread}]
      /\ k \in KernelState /\ k.current = t /\ k.stat[Idle] = "ready"
      /\ k.stat[t] \in {"ready", "suspend", "close"}
      /\ k.stat[t] = "suspend" => k.nest > 0
      /\ k.stat[t] = "close" => k.nest > 0 /\ u = t
  BY <1>1, <1>6, InCall DEF DeletePc
<1>3. pc'[t] = to /\ arg'[t] = NoThread BY <1>1, <1>2
<1>4. /\ to \in Pc /\ to \notin ResumePc \cup DeletePc \cup StartPc /\ to # "suspend_body"
      /\ IF u = t THEN k.nest > 0 /\ to = "exit_leave" ELSE to = "run"
  BY <1>1, <1>2, <1>6 DEF Pc, ResumePc, DeletePc, StartPc, Window
<1>5. /\ u \in Thread \ {Idle} /\ KernelOK(k) /\ OffLists(k, u) /\ k.stat[u] = "close"
      /\ pc[Idle] = "reap_free" => arg[Idle] # u
  BY <1>1, <1>2 DEF Window, DeletePc
<1> HIDE DEF to
<1>7. /\ k' \in KernelState
      /\ KernelOK(k')
      /\ Frame(k', k) /\ k'.stat = k.stat /\ k'.armed = k.armed
      /\ \A v \in Thread \ {u} : \A q \in Queue :
            v \in ToSet(k'.wait[q]) <=> v \in ToSet(k.wait[q])
      /\ u \in Static \/ u \in ToSet(k'.wait[Defunct])
  <2>1. CASE u \in Static \ HasCleanup
    <3>1. k' = k BY <1>1, <2>1
    <3> QED BY <1>2, <1>5, <2>1, <3>1 DEF Frame
  <2>2. CASE u \notin Static \ HasCleanup
    <3>1. k' = ListInsertAfter(k, Defunct, u) BY <1>1, <2>2
    <3>2. Defunct \in Queue BY ThreadsAssumption
    <3>3. k.stat[u] # "ready" /\ OffLists(k, u) /\ u \in Thread BY <1>5
    <3>4. k \in KernelState /\ KernelOK(k) BY <1>2, <1>5
    <3> DEFINE s == ListInsertAfter(k, Defunct, u)
    <3>5. /\ s \in KernelState
          /\ KernelOK(s)
          /\ Frame(s, k) /\ s.stat = k.stat /\ s.armed = k.armed
          /\ ToSet(s.wait[Defunct]) = ToSet(k.wait[Defunct]) \cup {u}
          /\ \A r \in Queue \ {Defunct} : s.wait[r] = k.wait[r]
      BY ONLY <3>2, <3>3, <3>4, ListInsertAfterProperties
    <3>6. k' = s BY <3>1
    <3> HIDE DEF s
    <3> QED BY <3>5, <3>6
  <2> QED BY <2>1, <2>2
<1>8. Only(u) BY <1>7 DEF Only, Frame
<1>9. Free(t, u) BY <1>5 DEF IInv, Rest, Settings, StartingOK, Untouched, Free
<1>10. Settled(u)
  <2>1. u \in Static \/ Awaited(u)' BY <1>7 DEF Awaited
  <2> QED BY <1>5, <1>7, <2>1 DEF Settled
<1>11. Arrives(t, u) BY <1>3, <1>4, <1>6 DEF Arrives
<1>12. WindowOK' BY <1>1, <1>7 DEF WindowOK
<1>13. irq' \in {NoThread, t} /\ irq' # t /\ (to = "exit_leave" => k'.nest > 0)
  BY <1>1, <1>2, <1>4, <1>7 DEF Frame
<1>14. StaysCurrent(t) BY <1>2, <1>3, <1>4, <1>7 DEF StaysCurrent, Frame
<1>15. StaysBest(t, u)
  BY <1>1, <1>3, <1>4, <1>5, <1>6, <1>7 DEF StaysBest, BeforeSchedule, DeletePc, Frame
<1>16. k'.current = k.current /\ lazy' \in BOOLEAN /\ NoThread \in Thread \cup {NoThread}
  BY <1>1, <1>7 DEF IInv, TypeOK, Frame
<1> QED BY <1>1, <1>2, <1>4, <1>5, <1>7, <1>8, <1>9, <1>10, <1>11, <1>12, <1>13, <1>14,
           <1>15, <1>16, ActiveStep

LEMMA ExitLeaveKeeps ==
  ASSUME IInv, NEW t \in Thread, ExitLeave(t)
  PROVE  IInv'
<1> DEFINE to == IF k.nest = 1 THEN "exit_sched" ELSE "exit_leave"
<1>1. /\ Running(t) /\ pc[t] = "exit_leave"
      /\ pc' = [pc EXCEPT ![t] = to] /\ arg' = arg /\ k' = ExitCritical(k)
      /\ created' = created /\ irq' = irq /\ lazy' = lazy
  BY DEF ExitLeave, Goto
<1>2. t \in Thread \ {Idle} BY <1>1, NotIdle DEF IdlePc
<1>3. /\ k \in KernelState /\ KernelOK(k) /\ irq = NoThread /\ k.current = t
      /\ k.stat[Idle] = "ready" /\ k.stat[t] \in {"ready", "suspend", "close"}
  <2>1. ~Masked(t) BY <1>1 DEF Masked, ResumePc, DeletePc
  <2> QED BY <1>1, <2>1, Runs
<1>4. k.nest > 0 BY <1>1 DEF IInv, Rest, LeaveOK
<1>5. /\ k' \in KernelState /\ k'.current = k.current
      /\ k'.stat = k.stat /\ k'.prio = k.prio /\ k'.wait = k.wait /\ k'.armed = k.armed
      /\ k'.mask = k.mask /\ k'.ready = k.ready /\ k'.group = k.group
      /\ IF k.nest = 1 THEN k'.nest = 0 ELSE k'.nest > 0
  <2>1. k.nest \in Nat BY <1>3 DEF KernelState
  <2>2. PICK m : m = IF k.nest <= 1 THEN 0 ELSE k.nest - 1 OBVIOUS
  <2>3. m \in Nat /\ (IF k.nest = 1 THEN m = 0 ELSE m > 0) BY <1>4, <2>1, <2>2
  <2>4. k' = [k EXCEPT !.nest = m] BY <1>1, <2>2 DEF ExitCritical
  <2> QED BY ONLY <1>3, <2>3, <2>4 DEF KernelState
<1>6. KernelOK(k') BY <1>3, <1>5, KernelOKFrame
<1>7. /\ k'.stat[Idle] = "ready" /\ Only(Idle) /\ Free(t, Idle) /\ Settled(Idle)
      /\ pc[Idle] = "reap_free" => arg[Idle] # Idle
  BY <1>3, <1>5, Quiet
<1>8. /\ to \in Pc /\ to \notin ResumePc \cup DeletePc \cup StartPc /\ to # "suspend_body"
      /\ IF k.nest = 1 THEN to = "exit_sched" ELSE to = "exit_leave"
  BY DEF Pc, ResumePc, DeletePc, StartPc
<1> HIDE DEF to
<1>9. TypeOK /\ pc \in [Thread -> Pc] /\ arg \in [Thread -> Thread \cup {NoThread}]
  BY DEF IInv, TypeOK
<1>10. /\ Moves(t) /\ pc'[t] = to /\ arg'[t] = arg[t]
       /\ pc'[Idle] = pc[Idle] /\ arg'[Idle] = arg[Idle]
       /\ pc' \in [Thread -> Pc] /\ arg' \in [Thread -> Thread \cup {NoThread}]
  BY <1>1, <1>2, <1>8, <1>9, KernelAssumption DEF Moves
<1>11. TypeOK' BY <1>1, <1>3, <1>5, <1>9, <1>10, KernelAssumption DEF TypeOK
<1>12. WindowOK' BY <1>1, <1>3, <1>6 DEF WindowOK
<1>13. IdleStays(Idle) BY <1>7, <1>10 DEF IdleStays
<1>14. Arrives(t, Idle) BY <1>1, <1>8, <1>10 DEF Arrives
<1>15. StaysCurrent(t) BY <1>3, <1>5, <1>8, <1>10 DEF StaysCurrent, BeforeSchedule
<1>16. StaysBest(t, Idle) BY <1>5, <1>8, <1>10 DEF StaysBest, BeforeSchedule
<1>17. /\ IrqFits(t)' /\ Deletes(t)' /\ (pc'[t] = "exit_leave" => k'.nest > 0)
       /\ irq \in {NoThread, t} /\ irq' \in {NoThread, t}
  BY <1>1, <1>3, <1>5, <1>8, <1>10, KernelAssumption DEF Masked, IrqFits, Deletes
<1>18. Idle \in Thread /\ k'.current = t BY <1>3, <1>5, KernelAssumption
<1> QED BY <1>3, <1>7, <1>10, <1>11, <1>12, <1>13, <1>14, <1>15, <1>16, <1>17, <1>18, OwnStep

LEMMA ExitKeeps ==
  ASSUME IInv, NEW t \in Thread, Exit(t)
  PROVE  IInv'
<1> DEFINE to == "exit_sched"
           r == ScheduleRemove(k, t)
           c == [r EXCEPT !.stat[t] = "close"]
           d == TimerStop(c, t)
<1>1. /\ Running(t) /\ pc[t] = "run" /\ t \in Thread \ {Idle} /\ k.nest = 0
      /\ pc' = [pc EXCEPT ![t] = to] /\ arg' = [arg EXCEPT ![t] = NoThread]
      /\ created' = created /\ irq' = irq /\ lazy' = lazy
  BY DEF Exit, Call, Goto
<1>2. k' = IF t \in Static \ HasCleanup THEN d ELSE ListInsertAfter(d, Defunct, t)
  BY DEF Exit
<1>3. /\ k \in KernelState /\ KernelOK(k) /\ irq = NoThread /\ k.current = t
      /\ k.stat[Idle] = "ready" /\ k.stat[t] = "ready"
  <2>1. ~Masked(t) BY <1>1 DEF Masked, ResumePc, DeletePc
  <2> QED BY <1>1, <2>1, Runs DEF BeforeSchedule
<1>4. /\ r \in KernelState
      /\ Floating(r, t)
      /\ Frame(r, k) /\ r.stat = k.stat /\ r.wait = k.wait /\ r.armed = k.armed
  BY <1>3, ScheduleRemoveProperties
<1> HIDE DEF r
<1>5. /\ c \in KernelState
      /\ KernelOK(c)
      /\ Frame(c, r) /\ c.wait = r.wait /\ c.armed = r.armed
      /\ c.stat = [r.stat EXCEPT ![t] = "close"]
  BY <1>4, CloseProperties
<1> HIDE DEF c
<1>6. /\ d \in KernelState
      /\ KernelOK(d)
      /\ Frame(d, c) /\ d.stat = c.stat /\ d.wait = c.wait
      /\ d.armed = c.armed \ {t}
  BY <1>5, TimerStopProperties
<1> HIDE DEF d
<1>7. d.stat[t] = "close" /\ \A v \in Thread \ {t} : d.stat[v] = k.stat[v]
  BY <1>3, <1>4, <1>5, <1>6 DEF KernelState
<1>8. Frame(d, k) /\ d.wait = k.wait /\ d.armed = k.armed \ {t}
  BY <1>4, <1>5, <1>6 DEF Frame
<1>9. (pc[Idle] = "reap_free" => arg[Idle] # t) /\ OffLists(k, t) /\ Free(t, t)
  BY <1>3, Subject
<1>10. OffLists(d, t) BY <1>8, <1>9 DEF OffLists
<1>11. /\ k' \in KernelState
       /\ KernelOK(k')
       /\ Frame(k', d) /\ k'.stat = d.stat /\ k'.armed = d.armed
       /\ \A v \in Thread \ {t} : \A q \in Queue :
             v \in ToSet(k'.wait[q]) <=> v \in ToSet(d.wait[q])
       /\ t \in Static \/ t \in ToSet(k'.wait[Defunct])
  <2>1. CASE t \in Static \ HasCleanup
    <3>1. k' = d BY <1>2, <2>1
    <3> QED BY <1>6, <2>1, <3>1 DEF Frame
  <2>2. CASE t \notin Static \ HasCleanup
    <3>1. k' = ListInsertAfter(d, Defunct, t) BY <1>2, <2>2
    <3>2. Defunct \in Queue BY ThreadsAssumption
    <3>3. d.stat[t] # "ready" /\ OffLists(d, t) /\ t \in Thread BY <1>7, <1>10
    <3>4. d \in KernelState /\ KernelOK(d) BY <1>6
    <3> DEFINE s == ListInsertAfter(d, Defunct, t)
    <3>5. /\ s \in KernelState
          /\ KernelOK(s)
          /\ Frame(s, d) /\ s.stat = d.stat /\ s.armed = d.armed
          /\ ToSet(s.wait[Defunct]) = ToSet(d.wait[Defunct]) \cup {t}
          /\ \A q \in Queue \ {Defunct} : s.wait[q] = d.wait[q]
      BY ONLY <3>2, <3>3, <3>4, ListInsertAfterProperties
    <3>6. k' = s BY <3>1
    <3> HIDE DEF s
    <3> QED BY <3>5, <3>6
  <2> QED BY <2>1, <2>2
<1>12. pc'[t] = to BY <1>1 DEF IInv, TypeOK
<1>13. Only(t) BY <1>7, <1>8, <1>11 DEF Only, Frame
<1>14. Settled(t)
  <2>1. t \in Static \/ Awaited(t)' BY <1>11 DEF Awaited
  <2> QED BY <1>7, <1>11, <2>1 DEF Settled
<1>15. Arrives(t, t) BY <1>1, <1>12 DEF Arrives, StartPc
<1>16. WindowOK' BY <1>1, <1>3, <1>11 DEF WindowOK
<1>17. irq' \in {NoThread, t} /\ irq' # t BY <1>1, <1>3, KernelAssumption
<1>18. to \in Pc \ {"exit_leave"} /\ to \notin ResumePc \cup DeletePc /\ to # "suspend_body"
  BY DEF Pc, ResumePc, DeletePc
<1>19. StaysCurrent(t) BY <1>1, <1>7, <1>8, <1>11, <1>12 DEF StaysCurrent, Frame
<1>20. StaysBest(t, t) BY <1>12 DEF StaysBest, BeforeSchedule
<1>21. k'.current = k.current /\ lazy' \in BOOLEAN /\ NoThread \in Thread \cup {NoThread}
  BY <1>1, <1>8, <1>11 DEF IInv, TypeOK, Frame
<1> HIDE DEF to
<1> QED BY <1>1, <1>9, <1>11, <1>13, <1>14, <1>15, <1>16, <1>17, <1>18, <1>19, <1>20, <1>21,
           ActiveStep

LEMMA SleepKeeps ==
  ASSUME IInv, NEW t \in Thread, Sleep(t)
  PROVE  IInv'
<1> DEFINE to == "sleep_sched"
           c == Suspend(k, t)
<1>1. /\ Running(t) /\ pc[t] = "run" /\ t \in Thread \ {Idle} /\ k' = TimerStart(c, t)
      /\ pc' = [pc EXCEPT ![t] = to] /\ arg' = arg
      /\ created' = created /\ irq' = irq /\ lazy' = lazy
  BY DEF Sleep, SleepStep, Goto
<1>2. /\ k \in KernelState /\ KernelOK(k) /\ irq = NoThread /\ k.current = t
      /\ k.stat[Idle] = "ready" /\ k.stat[t] \in {"ready", "suspend"}
  <2>1. ~Masked(t) BY <1>1 DEF Masked, ResumePc, DeletePc
  <2> QED BY <1>1, <2>1, Runs DEF BeforeSchedule
<1>3. pc \in [Thread -> Pc] /\ arg \in [Thread -> Thread \cup {NoThread}]
  BY DEF IInv, TypeOK
<1>4. /\ c \in KernelState
      /\ KernelOK(c)
      /\ Frame(c, k) /\ c.wait = k.wait /\ c.armed = k.armed
      /\ c.stat = [k.stat EXCEPT ![t] = "suspend"]
  <2>1. CASE k.stat[t] = "ready" BY <1>2, <2>1, SuspendProperties
  <2>2. CASE k.stat[t] = "suspend"
    <3>1. c = k BY <2>2 DEF Suspend
    <3>2. k.stat = [k.stat EXCEPT ![t] = "suspend"] BY <1>2, <2>2 DEF KernelState
    <3> QED BY <1>2, <3>1, <3>2 DEF Frame
  <2> QED BY <1>2, <2>1, <2>2
<1> HIDE DEF c
<1>5. c.stat[t] = "suspend" /\ \A v \in Thread \ {t} : c.stat[v] = k.stat[v]
  BY <1>2, <1>4 DEF KernelState
<1>6. /\ k' \in KernelState
      /\ KernelOK(k')
      /\ Frame(k', c) /\ k'.stat = c.stat /\ k'.wait = c.wait
      /\ k'.armed = c.armed \cup {t}
  BY <1>1, <1>4, <1>5, TimerStartProperties
<1>7. (pc[Idle] = "reap_free" => arg[Idle] # t) /\ OffLists(k, t) /\ Free(t, t)
  BY <1>2, Subject
<1>8. pc'[t] = to /\ arg' = [arg EXCEPT ![t] = arg[t]] BY <1>1, <1>3
<1>9. Only(t) BY <1>4, <1>5, <1>6 DEF Only, Frame
<1>10. Settled(t) BY <1>4, <1>5, <1>6, <1>7 DEF Settled, OffLists
<1>11. Arrives(t, t) BY <1>1, <1>8 DEF Arrives, StartPc
<1>12. WindowOK' BY <1>1, <1>2, <1>6 DEF WindowOK
<1>13. irq' \in {NoThread, t} /\ irq' # t BY <1>1, <1>2, KernelAssumption
<1>14. to \in Pc \ {"exit_leave"} /\ to \notin ResumePc \cup DeletePc /\ to # "suspend_body"
  BY DEF Pc, ResumePc, DeletePc
<1>15. StaysCurrent(t) BY <1>5, <1>6, <1>8 DEF StaysCurrent, BeforeSchedule
<1>16. StaysBest(t, t) BY <1>8 DEF StaysBest, BeforeSchedule
<1>17. k'.current = k.current /\ lazy' \in BOOLEAN /\ arg[t] \in Thread \cup {NoThread}
  BY <1>1, <1>3, <1>4, <1>6 DEF IInv, TypeOK, Frame
<1> HIDE DEF to
<1> QED BY <1>1, <1>6, <1>7, <1>8, <1>9, <1>10, <1>11, <1>12, <1>13, <1>14, <1>15, <1>16,
           <1>17, ActiveStep

LEMMA SetPriorityKeeps ==
  ASSUME IInv, NEW t \in Thread, NEW u \in Thread, NEW p \in Priority, SetPriority(t, u, p)
  PROVE  IInv'
<1> DEFINE to == "run"
<1>1. /\ Running(t) /\ pc[t] = "run" /\ t \in Thread \ {Idle} /\ Live(u)
      /\ k' = ChangePriority(k, u, p)
      /\ pc' = [pc EXCEPT ![t] = to] /\ arg' = [arg EXCEPT ![t] = NoThread]
      /\ created' = created /\ irq' = irq /\ lazy' = TRUE
  BY DEF SetPriority, Call, Goto
<1>2. /\ k \in KernelState /\ KernelOK(k) /\ irq = NoThread /\ k.current = t
      /\ k.stat[Idle] = "ready" /\ k.stat[t] \in {"ready", "suspend"}
      /\ k.stat[t] = "suspend" => k.nest > 0
  <2>1. ~Masked(t) BY <1>1 DEF Masked, ResumePc, DeletePc
  <2> QED BY <1>1, <2>1, Runs DEF BeforeSchedule
<1>3. u \in Thread \ {Idle} /\ k.stat[u] \in {"ready", "suspend"} /\ ~Starting(u)
  BY <1>1 DEF Live
<1>4. /\ k' \in KernelState
      /\ KernelOK(k')
      /\ k'.stat = k.stat /\ k'.error = k.error /\ k'.wait = k.wait
      /\ k'.armed = k.armed /\ k'.nest = k.nest /\ k'.current = k.current
      /\ k'.prio = [k.prio EXCEPT ![u] = p]
  BY <1>1, <1>2, <1>3, ChangePriorityProperties, ZenonT(90)
<1>5. \A v \in Thread \ {u} : k'.prio[v] = k.prio[v] BY <1>2, <1>4 DEF KernelState
<1>6. Only(u) BY <1>4, <1>5 DEF Only
<1>7. (pc[Idle] = "reap_free" => arg[Idle] # u) /\ OffLists(k, u) /\ Free(t, u)
  BY <1>3, Subject
<1>8. pc'[t] = to BY <1>1 DEF IInv, TypeOK
<1>9. Settled(u) BY <1>3, <1>4, <1>7 DEF Settled, OffLists
<1>10. Arrives(t, u) BY <1>1, <1>8 DEF Arrives, StartPc
<1>11. WindowOK' BY <1>1, <1>2, <1>4 DEF WindowOK
<1>12. irq' \in {NoThread, t} /\ irq' # t BY <1>1, <1>2, KernelAssumption
<1>13. to \in Pc \ {"exit_leave"} /\ to \notin ResumePc \cup DeletePc /\ to # "suspend_body"
  BY DEF Pc, ResumePc, DeletePc
<1>14. StaysCurrent(t) BY <1>2, <1>4 DEF StaysCurrent
<1>15. StaysBest(t, u) BY <1>1 DEF StaysBest
<1>16. lazy' \in BOOLEAN /\ NoThread \in Thread \cup {NoThread} BY <1>1
<1> HIDE DEF to
<1> QED BY <1>1, <1>3, <1>4, <1>6, <1>7, <1>9, <1>10, <1>11, <1>12, <1>13, <1>14, <1>15,
           <1>16, ActiveStep

\* The current thread calls rt_schedule.
LEMMA ScheduleKeeps ==
  ASSUME IInv, NEW t \in Thread, NEW from \in BeforeSchedule,
         NEW to \in {"run", "dead", "sleep_return"}, ScheduleStep(t, from, to),
         NEW a \in Thread \cup {NoThread}, arg' = [arg EXCEPT ![t] = a],
         Rescheduled, created' = created
  PROVE  IInv'
<1>1. /\ Running(t) /\ pc[t] = from /\ pc' = [pc EXCEPT ![t] = to] /\ k' = Schedule(k)
      /\ irq' = irq
  BY DEF ScheduleStep, Goto
<1>2. t \in Thread \ {Idle} BY <1>1, NotIdle DEF IdlePc, BeforeSchedule
<1>3. /\ k \in KernelState /\ KernelOK(k) /\ irq = NoThread /\ k.current = t
      /\ k.stat[Idle] = "ready"
  <2>1. ~Masked(t) BY <1>1 DEF Masked, ResumePc, DeletePc, BeforeSchedule
  <2> QED BY <1>1, <2>1, Runs
<1>4. /\ k' \in KernelState
      /\ KernelOK(k')
      /\ k'.stat = k.stat /\ k'.prio = k.prio /\ k'.error = k.error
      /\ k'.wait = k.wait /\ k'.armed = k.armed /\ k'.nest = k.nest
      /\ IF k.nest = 0 THEN k'.current \in Thread /\ k'.stat[k'.current] = "ready"
         ELSE k'.current = k.current
  BY <1>1, <1>3, ScheduleProperties
<1>5. k.nest = 0 => Elected(k') BY <1>1, <1>3, ScheduleElects
<1>6. /\ k'.stat[Idle] = "ready" /\ Only(Idle) /\ Free(t, Idle) /\ Settled(Idle)
      /\ pc[Idle] = "reap_free" => arg[Idle] # Idle
  BY <1>3, <1>4, Quiet
<1>7. /\ to \in Pc /\ to \notin ResumePc \cup DeletePc \cup StartPc /\ to # "suspend_body"
  BY DEF Pc, ResumePc, DeletePc, StartPc
<1>8. TypeOK BY DEF IInv
<1>9. /\ Moves(t) /\ pc'[t] = to /\ arg'[t] = a
      /\ pc'[Idle] = pc[Idle] /\ arg'[Idle] = arg[Idle]
      /\ pc' \in [Thread -> Pc] /\ arg' \in [Thread -> Thread \cup {NoThread}]
  BY <1>1, <1>2, <1>7, <1>8, MoverIsNotIdle
<1>10. lazy' = (lazy /\ k.nest # 0) BY DEF Rescheduled
<1>11. TypeOK'
  <2>1. k'.current # Wild BY <1>3, <1>4, KernelAssumption
  <2>2. lazy' \in BOOLEAN BY <1>10
  <2> QED BY <1>1, <1>4, <1>8, <1>9, <2>1, <2>2 DEF TypeOK
<1>12. IdleStays(Idle) BY <1>6, <1>9 DEF IdleStays
<1>13. Arrives(t, Idle) BY <1>1, <1>7, <1>9 DEF Arrives, BeforeSchedule
<1>14. ~Masked(t)' BY <1>7, <1>9 DEF Masked
<1>15. IF k.nest = 0 THEN Elected(k')
       ELSE k'.current = t /\ (k'.stat[t] = k.stat[t] \/ k'.stat[t] = "ready")
  BY <1>3, <1>4, <1>5
<1>17. ~Masked(t) /\ (pc[t] = "exit_leave" <=> pc'[t] = "exit_leave")
  BY <1>1, <1>9 DEF Masked, ResumePc, DeletePc, BeforeSchedule
<1>16. Idle \in Thread /\ irq' = NoThread BY <1>1, <1>3, KernelAssumption
<1> QED BY <1>3, <1>4, <1>6, <1>9, <1>10, <1>11, <1>12, <1>13, <1>14, <1>15, <1>16, <1>17,
           ScheduleStepKeeps

LEMMA SchedulesKeep ==
  ASSUME IInv, NEW t \in Thread, ScheduleReturn(t) \/ ExitSchedule(t) \/ SleepSchedule(t)
  PROVE  IInv'
<1>1. NoThread \in Thread \cup {NoThread} /\ arg \in [Thread -> Thread \cup {NoThread}]
  BY DEF IInv, TypeOK
<1>2. ASSUME arg' = arg PROVE arg' = [arg EXCEPT ![t] = arg[t]] BY <1>1, <1>2
<1>3. arg[t] \in Thread \cup {NoThread} BY <1>1
<1>4. "sched" \in BeforeSchedule /\ "exit_sched" \in BeforeSchedule
      /\ "sleep_sched" \in BeforeSchedule
  BY DEF BeforeSchedule
<1>5. CASE ScheduleReturn(t)
  BY <1>1, <1>4, <1>5, ScheduleKeeps DEF ScheduleReturn
<1>6. CASE ExitSchedule(t)
  BY <1>2, <1>3, <1>4, <1>6, ScheduleKeeps DEF ExitSchedule
<1>7. CASE SleepSchedule(t)
  BY <1>2, <1>3, <1>4, <1>7, ScheduleKeeps DEF SleepSchedule
<1> QED BY <1>5, <1>6, <1>7

\* The place of the current thread between two sections of a deletion in which
\* the thread is on no list and not yet CLOSEd.
Removing == pc[k.current] \in {"delete_timer", "delete_stat"}

\* What an interrupt finds.
LEMMA Interrupts ==
  ASSUME IInv, Interrupt
  PROVE  /\ k \in KernelState /\ k.current \in Thread /\ k.stat[Idle] = "ready"
         /\ ~Removing => KernelOK(k)
         /\ Removing => /\ k.nest > 0 /\ Floating(k, arg[k.current])
                        /\ arg[k.current] \in Thread \ {Idle}
                        /\ k.stat[arg[k.current]] = "ready"
<1>1. /\ k \in KernelState /\ k.current \in Thread /\ irq = NoThread /\ irq # k.current
      /\ k.stat[Idle] = "ready"
  BY KernelAssumption DEF IInv, Interrupt, TypeOK, Rest, CurrentOK
<1>2. PICK t \in Thread : t = k.current BY <1>1
<1>3. PICK u : u = arg[t] OBVIOUS
<1>4. ASSUME pc[t] \notin DeletePc PROVE KernelOK(k)
  BY <1>1, <1>2, <1>4 DEF IInv, WindowOK
<1>5. ASSUME pc[t] \in DeletePc PROVE k.nest > 0 /\ Window(t, u)
  BY <1>1, <1>2, <1>3, <1>5 DEF IInv, IrqOK, IrqFits, Masked, DeleteOK, Deletes
<1>6. ASSUME pc[t] \in {"delete_timer", "delete_stat"}
      PROVE  /\ k.nest > 0 /\ Floating(k, u) /\ u \in Thread \ {Idle}
             /\ k.stat[u] = "ready"
  <2>1. k.nest > 0 /\ Window(t, u) BY <1>5, <1>6 DEF DeletePc
  <2>2. /\ u \in Thread \ {Idle} /\ Floating(TimerStop(k, u), u)
        /\ k.stat[u] = "ready" /\ u \notin k.armed
    BY <1>1, <1>6, <2>1 DEF Window
  <2>3. TimerStop(k, u) = k BY <1>1, <2>2 DEF TimerStop, KernelState
  <2> QED BY <2>1, <2>2, <2>3
<1>7. pc[t] = "delete_defunct" => KernelOK(k) BY <1>5 DEF Window, DeletePc
<1> QED BY <1>1, <1>2, <1>3, <1>4, <1>6, <1>7 DEF Removing, DeletePc

\* An interrupt that wakes u, or nobody, and schedules.
LEMMA InterruptKeeps ==
  ASSUME IInv, Interrupt, NEW u \in Thread, k' \in KernelState,
         k'.nest = k.nest, Rescheduled, UNCHANGED <<irq, pc, arg, created>>,
         Only(u), k'.stat[Idle] = "ready",
         k'.stat[u] = "ready", k.stat[u] = "suspend" \/ u = Idle, ~Starting(u),
         OffLists(k', u),
         IF Removing THEN Floating(k', arg[k.current]) ELSE KernelOK(k'),
         IF k.nest = 0 THEN Elected(k') /\ k'.current \in Thread
         ELSE k'.current = k.current
  PROVE  IInv'
<1>1. PICK t \in Thread : t = k.current BY DEF Interrupt
<1>2. irq = NoThread /\ irq' = NoThread /\ pc' = pc /\ arg' = arg /\ created' = created
  BY DEF Interrupt
<1>3. k \in KernelState /\ TypeOK /\ k.stat[u] # "close"
  BY <1>1 DEF IInv, TypeOK, Rest, CurrentOK
<1>4. (pc[Idle] = "reap_free" => arg[Idle] # u) /\ Free(t, u) BY <1>3, Subject
<1>5. lazy' = (lazy /\ k.nest # 0) BY DEF Rescheduled
<1>6. TypeOK'
  <2>1. k'.current # Wild BY <1>1, KernelAssumption
  <2>2. lazy' \in BOOLEAN BY <1>5
  <2> QED BY <1>2, <1>3, <2>1, <2>2 DEF TypeOK
<1>7. IdleStays(u) BY <1>2, <1>4 DEF IdleStays
<1>8. Settled(u) BY DEF Settled, OffLists
<1>9. Moves(t) BY <1>2 DEF Moves
<1>10. Masked(t) => pc[t] \in DeletePc /\ k.nest > 0 /\ Window(t, arg[t])
  BY <1>1, <1>2, KernelAssumption DEF IInv, IrqOK, IrqFits, DeleteOK, Deletes
<1>11. CASE ~Masked(t)
  <2>1. ~Masked(t)' BY <1>2, <1>11 DEF Masked
  <2>2. KernelOK(k') BY <1>1, <1>11 DEF Removing, Masked, DeletePc
  <2>3. k.nest = 0 => k'.stat[k'.current] = "ready" BY <2>2, ElectedIsBest
  <2>4. Arrives(t, u)
    <3>1. pc[t] # "delete_defunct" BY <1>11 DEF Masked, DeletePc
    <3>2. ASSUME pc[t] \in StartPc
          PROVE  /\ arg[t] \in Thread /\ Untouched(k', arg[t])
                 /\ \A r \in Thread \ {t} : pc[r] \in StartPc => arg[r] # arg[t]
      <4>1. /\ arg[t] \in Thread /\ Untouched(k, arg[t])
            /\ \A r \in Thread \ {t} : pc[r] \in StartPc => arg[r] # arg[t]
        BY <3>2 DEF IInv, Rest, Settings, StartingOK
      <4>2. arg[t] # u BY <3>2 DEF Starting, StartPc
      <4>3. k'.stat[arg[t]] = "suspend" /\ arg[t] \notin k'.armed /\ OffLists(k', arg[t])
        BY <4>1, <4>2 DEF Only, Untouched, OffLists
      <4>4. arg[t] # k'.current BY <2>3, <4>1, <4>3 DEF Untouched
      <4> QED BY <4>1, <4>3, <4>4 DEF Untouched
    <3>3. ASSUME pc[t] = "suspend_body"
          PROVE  arg[t] \in Thread \ {Idle} /\ (k'.current = t => k'.stat[arg[t]] = "ready")
      <4>1. arg[t] = t BY <1>11, <3>3 DEF Masked
      <4>2. arg[t] \in Thread \ {Idle} /\ k.stat[t] = "ready"
        BY <1>1, <3>3, <4>1 DEF IInv, Rest, Settings, SuspendOK
      <4> QED BY <4>1, <4>2 DEF Only
    <3> QED BY <1>2, <3>1, <3>2, <3>3 DEF Arrives
  <2>5. IF k.nest = 0 THEN Elected(k')
        ELSE k'.current = t /\ (k'.stat[t] = k.stat[t] \/ k'.stat[t] = "ready")
    BY <1>1 DEF Only
  <2>6. /\ IInv /\ Only(u) /\ k.current = t /\ k'.stat[Idle] = "ready"
        /\ k'.nest = k.nest /\ t \in Thread /\ u \in Thread
        /\ pc[t] = "exit_leave" <=> pc'[t] = "exit_leave"
    BY <1>1, <1>2
  <2> QED BY ONLY <1>2, <1>4, <1>5, <1>6, <1>7, <1>8, <1>9, <1>11, <2>1, <2>2, <2>4, <2>5,
                  <2>6, ScheduleStepKeeps
<1>12. CASE Masked(t)
  <2>1. PICK x : x = arg[t] OBVIOUS
  <2>2. pc[t] \in DeletePc /\ k.nest > 0 /\ Window(t, x) BY <1>10, <1>12, <2>1
  <2>3. /\ x \in Thread \ {Idle} /\ OffLists(k, x)
        /\ pc[t] = "delete_defunct" => /\ k.stat[x] = "close" /\ x \notin k.armed
                                       /\ pc[Idle] = "reap_free" => arg[Idle] # x
        /\ pc[t] # "delete_defunct" => /\ k.stat[x] = "ready" /\ x \notin k.armed
                                       /\ ~Starting(x)
        /\ x = t => k.stat[t] \in {"ready", "close"}
    BY <1>2, <2>2 DEF Window, DeletePc
  <2>4. x # u BY <2>2, <2>3 DEF DeletePc
  <2>5. k'.stat[x] = k.stat[x] /\ x \notin k'.armed /\ OffLists(k', x)
    BY <2>3, <2>4 DEF Only, OffLists
  <2>6. k'.current = t /\ k'.nest > 0 /\ k'.nest = k.nest BY <1>1, <1>3, <2>2 DEF KernelState
  <2>7. Window(t, x)'
    <3>1. pc'[t] = pc[t] /\ arg'[Idle] = arg[Idle] /\ pc'[Idle] = pc[Idle] BY <1>2
    <3>2. pc[t] \notin ResumePc /\ pc[t] # "suspend_body" BY <2>2 DEF ResumePc, DeletePc
    <3>3. CASE pc[t] = "delete_defunct"
      <4>1. KernelOK(k') BY <1>1, <3>3 DEF Removing
      <4> QED BY <2>3, <2>5, <2>6, <3>1, <3>2, <3>3, <4>1 DEF Window, DeletePc
    <3>4. CASE pc[t] # "delete_defunct"
      <4>1. pc[t] \in {"delete_timer", "delete_stat"} BY <2>2, <3>4 DEF DeletePc
      <4>2. Floating(k', x) BY <1>1, <2>1, <4>1 DEF Removing
      <4>3. TimerStop(k', x) = k' BY <2>5 DEF TimerStop, KernelState
      <4>4. Floating(TimerStop(k', x), x) BY <4>2, <4>3
      <4>5. ~Starting(x)' BY <1>2, <2>3, <3>4 DEF Starting
      <4> QED BY <2>3, <2>5, <2>6, <3>1, <3>2, <3>4, <4>1, <4>4, <4>5 DEF Window, DeletePc
    <3> QED BY <3>3, <3>4
  <2>8. WindowOK' BY <1>2, <2>2, <2>6 DEF WindowOK
  <2>9. Arrives(t, u)
    <3>1. pc[t] \notin StartPc /\ pc[t] # "suspend_body" BY <2>2 DEF StartPc, DeletePc
    <3> QED BY <1>2, <3>1 DEF Arrives
  <2>10. StaysCurrent(t)
    <3>1. /\ k.stat[t] \in {"ready", "suspend", "close"}
          /\ k.stat[t] = "close" => pc[t] = "delete_defunct" /\ arg[t] = t
      BY <1>1, <2>2 DEF IInv, Rest, CurrentOK, DeletePc
    <3>2. k'.stat[t] = k.stat[t] \/ k'.stat[t] = "ready" BY DEF Only
    <3> QED BY <1>2, <2>6, <3>1, <3>2 DEF StaysCurrent
  <2>11. StaysBest(t, u) BY <2>6 DEF StaysBest
  <2>12. /\ IrqFits(t)' /\ Deletes(t)' /\ (pc'[t] = "exit_leave" => k'.nest > 0)
         /\ irq \in {NoThread, t} /\ irq' \in {NoThread, t}
    <3>1. Deletes(t)' BY <1>2, <2>1, <2>7 DEF Deletes
    <3>2. IrqFits(t)' BY <1>2, <2>2, <2>6, KernelAssumption DEF IrqFits
    <3> QED BY <1>2, <2>6, <3>1, <3>2
  <2>13. /\ IInv /\ Only(u) /\ k.current = t /\ k'.stat[Idle] = "ready"
         /\ t \in Thread /\ u \in Thread
    BY <1>1
  <2> QED BY ONLY <1>4, <1>6, <1>7, <1>8, <1>9, <2>6, <2>8, <2>9, <2>10, <2>11, <2>12,
                  <2>13, OwnStep
<1> QED BY <1>11, <1>12

\* An interrupt wakes u between two sections of the deletion of another thread.
LEMMA DeletionInterrupted ==
  ASSUME IInv, Interrupt, Removing, NEW u \in Thread, k.stat[u] = "suspend", ~Starting(u),
         NEW c \in KernelState, c.stat = k.stat, c.prio = k.prio, c.mask = k.mask,
         c.ready = k.ready, c.wait = k.wait, c.group = k.group, c.armed = k.armed,
         c.nest = k.nest, c.current = k.current,
         k' = Schedule(Resume(c, u)), Rescheduled, UNCHANGED <<irq, pc, arg, created>>
  PROVE  IInv'
<1>1. PICK x : x = arg[k.current] OBVIOUS
<1>2. /\ k \in KernelState /\ k.current \in Thread /\ k.stat[Idle] = "ready"
      /\ k.nest > 0 /\ Floating(k, x) /\ x \in Thread \ {Idle} /\ k.stat[x] = "ready"
  BY <1>1, Interrupts
<1>3. Floating(c, x)
  <2>1. ListsOK(c) BY <1>2 DEF Floating, ListsOK
  <2>2. BitmapOK(c) BY <1>2 DEF Floating, BitmapOK
  <2>3. Floating(k, x) BY <1>2
  <2> QED BY <2>1, <2>2, <2>3 DEF Floating
<1>4. c.stat[u] = "suspend" /\ u \in Thread \ {x} BY <1>2
<1> DEFINE s == Resume(c, u)
<1>5. /\ s \in KernelState /\ Floating(s, x) /\ Frame(s, c)
      /\ s.stat = [c.stat EXCEPT ![u] = "ready"] /\ s.armed = c.armed \ {u}
      /\ \A q \in Queue : ToSet(s.wait[q]) = ToSet(c.wait[q]) \ {u}
  <2>1. c \in KernelState /\ x \in Thread BY <1>2
  <2> QED BY ONLY <1>3, <1>4, <2>1, FloatingWake
<1> HIDE DEF s
<1>6. k' = s
  <2>1. s.nest # 0 BY <1>2, <1>5 DEF Frame, KernelState
  <2> QED BY <2>1 DEF Schedule, s
<1>7. k'.stat[u] = "ready" /\ \A v \in Thread \ {u} : k'.stat[v] = k.stat[v]
  BY <1>2, <1>5, <1>6 DEF KernelState
<1>8. Only(u) BY <1>5, <1>6, <1>7 DEF Only, Frame
<1>9. OffLists(k', u) BY <1>5, <1>6 DEF OffLists
<1>10. k'.stat[Idle] = "ready" BY <1>2, <1>7, KernelAssumption
<1>11. k' \in KernelState /\ k'.nest = k.nest /\ k'.current = k.current /\ k.nest # 0
  BY <1>2, <1>5, <1>6 DEF Frame, KernelState
<1>12. Floating(k', arg[k.current]) BY <1>1, <1>5, <1>6
<1> QED BY <1>7, <1>8, <1>9, <1>10, <1>11, <1>12, InterruptKeeps

LEMMA TickTimeoutKeeps ==
  ASSUME IInv, NEW u \in Thread, TickTimeout(u)
  PROVE  IInv'
<1>1. /\ Interrupt /\ u \in k.armed /\ k' = ThreadTimeout(k, u)
      /\ Rescheduled /\ UNCHANGED <<irq, pc, arg, created>>
  BY DEF TickTimeout, TimeoutStep
<1>0. /\ k \in KernelState /\ k.current \in Thread /\ k.stat[Idle] = "ready"
      /\ k.stat[u] = "suspend" /\ ~Starting(u)
  <2>1. /\ k \in KernelState /\ k.current \in Thread /\ k.stat[Idle] = "ready"
        /\ ~Removing => KernelOK(k)
        /\ Removing => Floating(k, arg[k.current])
    BY <1>1, Interrupts
  <2>2. k.stat[u] = "suspend" BY <1>1, <2>1 DEF KernelOK, TimersOK, Floating
  <2>3. ~Starting(u)
    BY <1>1 DEF IInv, Rest, Settings, StartingOK, Untouched, Starting, StartPc
  <2> QED BY <2>1, <2>2, <2>3
<1>15. CASE Removing
  <2> DEFINE c == [k EXCEPT !.error[u] = "RT_ETIMEOUT"]
  <2>1. /\ c \in KernelState /\ c.stat = k.stat /\ c.prio = k.prio /\ c.mask = k.mask
        /\ c.ready = k.ready /\ c.wait = k.wait /\ c.group = k.group /\ c.armed = k.armed
        /\ c.nest = k.nest /\ c.current = k.current
    BY <1>0 DEF KernelState, Error
  <2>2. ThreadTimeout(k, u) = Schedule(TimerStop(ScheduleInsert(ListRemove(c, u), u), u))
    BY DEF ThreadTimeout
  <2> HIDE DEF c
  <2>3. Resume(c, u) = ScheduleInsert(TimerStop(ListRemove(c, u), u), u)
    BY <1>0, <2>1 DEF Resume, ResumeUnlink
  <2>4. TimerStop(ScheduleInsert(ListRemove(c, u), u), u)
          = ScheduleInsert(TimerStop(ListRemove(c, u), u), u)
    BY <2>1 DEF TimerStop, ScheduleInsert, ListRemove, KernelState
  <2>5. k' = Schedule(Resume(c, u)) BY <1>1, <2>2, <2>3, <2>4
  <2> QED BY <1>0, <1>1, <1>15, <2>1, <2>5, DeletionInterrupted
<1> SUFFICES ASSUME ~Removing PROVE IInv' BY <1>15
<1>2. k \in KernelState /\ KernelOK(k) /\ k.current \in Thread /\ k.stat[Idle] = "ready"
  BY <1>1, Interrupts
<1> DEFINE s == ThreadTimeout(k, u)
<1>3. /\ s \in KernelState
      /\ KernelOK(s)
      /\ s.stat = [k.stat EXCEPT ![u] = "ready"]
      /\ s.error = [k.error EXCEPT ![u] = "RT_ETIMEOUT"]
      /\ s.armed = k.armed \ {u} /\ s.nest = k.nest /\ s.prio = k.prio
      /\ \A q \in Queue : /\ ToSet(s.wait[q]) = ToSet(k.wait[q]) \ {u}
                          /\ u \notin ToSet(k.wait[q]) => s.wait[q] = k.wait[q]
      /\ IF k.nest = 0 THEN s.current \in Thread /\ s.stat[s.current] = "ready"
         ELSE s.current = k.current
  BY <1>1, <1>2, ThreadTimeoutProperties
<1>4. k.nest = 0 => Elected(s) BY <1>1, <1>2, TimeoutElects
<1>5. k' = s BY <1>1
<1> HIDE DEF s
<1>6. k'.stat[u] = "ready" /\ \A v \in Thread \ {u} : k'.stat[v] = k.stat[v]
  BY <1>2, <1>3, <1>5 DEF KernelState
<1>8. Only(u) BY <1>3, <1>5, <1>6 DEF Only
<1>10. OffLists(k', u) BY <1>3, <1>5 DEF OffLists
<1>11. k'.stat[Idle] = "ready" BY <1>2, <1>6, KernelAssumption
<1>12. IF k.nest = 0 THEN Elected(k') /\ k'.current \in Thread ELSE k'.current = k.current
  BY <1>3, <1>4, <1>5
<1>13. k' \in KernelState /\ KernelOK(k') /\ k'.nest = k.nest BY <1>3, <1>5
<1> QED BY <1>0, <1>1, <1>6, <1>8, <1>10, <1>11, <1>12, <1>13, InterruptKeeps

LEMMA IsrResumeKeeps ==
  ASSUME IInv, NEW u \in Thread, IsrResume(u)
  PROVE  IInv'
<1> DEFINE c == Resume(k, u)
           s == Schedule(c)
<1>1. /\ Interrupt /\ k.stat[u] = "suspend" /\ ~Starting(u) /\ k' = s
      /\ Rescheduled /\ UNCHANGED <<irq, pc, arg, created>>
  BY DEF IsrResume
<1>0. CASE Removing
  <2>1. k \in KernelState BY DEF IInv, TypeOK
  <2> QED BY <1>0, <1>1, <2>1, DeletionInterrupted
<1> SUFFICES ASSUME ~Removing PROVE IInv' BY <1>0
<1>2. k \in KernelState /\ KernelOK(k) /\ k.current \in Thread /\ k.stat[Idle] = "ready"
  BY <1>1, Interrupts
<1>3. /\ c \in KernelState
      /\ KernelOK(c)
      /\ Frame(c, k) /\ c.armed = k.armed \ {u}
      /\ c.stat = [k.stat EXCEPT ![u] = "ready"]
      /\ \A q \in Queue : /\ ToSet(c.wait[q]) = ToSet(k.wait[q]) \ {u}
                          /\ u \notin ToSet(k.wait[q]) => c.wait[q] = k.wait[q]
  BY <1>1, <1>2, ResumeProperties
<1> HIDE DEF c
<1>4. c.stat[u] = "ready" /\ \A v \in Thread \ {u} : c.stat[v] = k.stat[v]
  BY <1>2, <1>3 DEF KernelState
<1>5. c.stat[Idle] = "ready" BY <1>2, <1>4, KernelAssumption
<1>6. /\ s \in KernelState
      /\ KernelOK(s)
      /\ s.stat = c.stat /\ s.prio = c.prio /\ s.error = c.error
      /\ s.wait = c.wait /\ s.armed = c.armed /\ s.nest = c.nest
      /\ IF c.nest = 0 THEN s.current \in Thread /\ s.stat[s.current] = "ready"
         ELSE s.current = c.current
  BY <1>3, <1>5, ScheduleProperties
<1>7. c.nest = 0 => Elected(s) BY <1>3, ScheduleElects
<1> HIDE DEF s
<1>8. k'.stat[u] = "ready" BY <1>1, <1>4, <1>6
<1>9. Only(u) BY <1>1, <1>3, <1>4, <1>6 DEF Only, Frame
<1>10. OffLists(k', u) BY <1>1, <1>3, <1>6 DEF OffLists
<1>11. k'.stat[Idle] = "ready" BY <1>1, <1>5, <1>6
<1>12. IF k.nest = 0 THEN Elected(k') /\ k'.current \in Thread ELSE k'.current = k.current
  BY <1>1, <1>3, <1>6, <1>7 DEF Frame
<1>13. k' \in KernelState /\ KernelOK(k') /\ k'.nest = k.nest BY <1>1, <1>3, <1>6 DEF Frame
<1> QED BY <1>1, <1>8, <1>9, <1>10, <1>11, <1>12, <1>13, InterruptKeeps

LEMMA TickYieldKeeps ==
  ASSUME IInv, TickYield
  PROVE  IInv'
<1> DEFINE m == YieldTail(k)
           s == Schedule(m)
<1>1. /\ Interrupt /\ k' = Yield(k) /\ k' # k
      /\ Rescheduled /\ UNCHANGED <<irq, pc, arg, created>>
  BY DEF TickYield, YieldStep
<1>2. /\ k \in KernelState /\ k.current \in Thread /\ k.stat[Idle] = "ready"
      /\ ~Removing => KernelOK(k)
      /\ Removing => /\ k.nest > 0 /\ Floating(k, arg[k.current])
                     /\ arg[k.current] \in Thread \ {Idle}
  BY <1>1, Interrupts
<1>3. YieldMoves(k) /\ k' = s BY <1>1 DEF Yield
<1>4. /\ m \in KernelState
      /\ IF Removing THEN Floating(m, arg[k.current]) ELSE KernelOK(m)
      /\ m.stat = k.stat /\ m.prio = k.prio
      /\ m.wait = k.wait /\ m.armed = k.armed
      /\ m.nest = k.nest /\ m.current = k.current
  <2>1. CASE Removing
    <3>1. PICK x \in Thread : x = arg[k.current] BY <1>2, <2>1
    <3>2. Floating(k, x) /\ k \in KernelState /\ k.current \in Thread /\ YieldMoves(k)
      BY <1>2, <1>3, <2>1, <3>1
    <3>3. /\ m \in KernelState /\ Floating(m, x) /\ Frame(m, k)
          /\ m.stat = k.stat /\ m.armed = k.armed /\ m.wait = k.wait
      BY ONLY <3>2, x \in Thread, FloatingYield
    <3> HIDE DEF m
    <3> QED BY <2>1, <3>1, <3>3 DEF Frame
  <2>2. CASE ~Removing
    <3>1. /\ m \in KernelState
          /\ KernelOK(m)
          /\ m.stat = k.stat /\ m.prio = k.prio /\ m.error = k.error
          /\ m.wait = k.wait /\ m.armed = k.armed
          /\ m.nest = k.nest /\ m.current = k.current
      BY <1>2, <1>3, <2>2, YieldTailProperties
    <3> HIDE DEF m
    <3> QED BY <2>2, <3>1
  <2> QED BY <2>1, <2>2
<1> HIDE DEF m
<1>5. m.stat[Idle] = "ready" BY <1>2, <1>4
<1>6. /\ s \in KernelState
      /\ IF Removing THEN Floating(s, arg[k.current]) ELSE KernelOK(s)
      /\ s.stat = m.stat /\ s.prio = m.prio
      /\ s.wait = m.wait /\ s.armed = m.armed /\ s.nest = m.nest
      /\ IF m.nest = 0 THEN s.current \in Thread ELSE s.current = m.current
  <2>1. CASE Removing
    <3>1. m.nest # 0 BY <1>2, <1>4, <2>1 DEF KernelState
    <3>2. s = m BY <3>1 DEF Schedule
    <3> QED BY <1>4, <2>1, <3>1, <3>2
  <2>2. CASE ~Removing
    <3>1. /\ s \in KernelState
          /\ KernelOK(s)
          /\ s.stat = m.stat /\ s.prio = m.prio /\ s.error = m.error
          /\ s.wait = m.wait /\ s.armed = m.armed /\ s.nest = m.nest
          /\ IF m.nest = 0 THEN s.current \in Thread /\ s.stat[s.current] = "ready"
             ELSE s.current = m.current
      BY <1>4, <1>5, <2>2, ScheduleProperties
    <3> HIDE DEF s
    <3> QED BY <2>2, <3>1
  <2> QED BY <2>1, <2>2
<1>7. m.nest = 0 => Elected(s) BY <1>4, ScheduleElects
<1> HIDE DEF s
<1>8. k'.stat[Idle] = "ready" /\ k.stat[Idle] # "close" BY <1>2, <1>3, <1>4, <1>6
<1>9. Only(Idle) BY <1>3, <1>4, <1>6 DEF Only
<1>10. OffLists(k', Idle)
  <2>1. OffLists(k, Idle) BY <1>8, KernelAssumption, Subject
  <2> QED BY <1>3, <1>4, <1>6, <2>1 DEF OffLists
<1>11. ~Starting(Idle)
  BY <1>2 DEF IInv, Rest, Settings, StartingOK, Untouched, Starting, StartPc
<1>12. IF k.nest = 0 THEN Elected(k') /\ k'.current \in Thread ELSE k'.current = k.current
  BY <1>3, <1>4, <1>6, <1>7
<1>13. /\ k' \in KernelState /\ k'.nest = k.nest
       /\ IF Removing THEN Floating(k', arg[k.current]) ELSE KernelOK(k')
  BY <1>3, <1>4, <1>6
<1>14. Idle \in Thread BY KernelAssumption
<1> QED BY <1>1, <1>8, <1>9, <1>10, <1>11, <1>12, <1>13, <1>14, InterruptKeeps

\* The steps of the idle thread: what it finds.
LEMMA IdleRuns ==
  ASSUME IInv, Running(Idle)
  PROVE  /\ k \in KernelState /\ KernelOK(k) /\ irq = NoThread /\ k.current = Idle
         /\ k.stat[Idle] = "ready" /\ Idle \in Thread /\ TypeOK
<1>1. pc[Idle] \in IdlePc BY DEF IInv, Rest, Settings, IdleOK
<1>2. ~Masked(Idle) BY <1>1 DEF Masked, IdlePc, ResumePc, DeletePc
<1> QED BY <1>2, Runs, KernelAssumption DEF IInv

\* A step of the idle thread about a dead thread u, or about nobody (itself).
LEMMA IdleStep ==
  ASSUME IInv, Running(Idle), NEW u \in Thread,
         k' \in KernelState, KernelOK(k'), k'.current = k.current, k'.nest = k.nest,
         Only(u), Free(Idle, u), Settled(u),
         k'.stat[u] # "ready" \/ u = Idle, k'.stat[Idle] = "ready",
         k'.prio[Idle] = k.prio[Idle],
         NEW to \in IdlePc, pc' = [pc EXCEPT ![Idle] = to],
         NEW a \in Thread \cup {NoThread}, arg' = [arg EXCEPT ![Idle] = a],
         to = "reap_free" => a \in Thread /\ k'.stat[a] = "close" /\ OffLists(k', a),
         pc[Idle] = "reap_free" => arg[Idle] = u,
         UNCHANGED <<irq, created, lazy>>
  PROVE  IInv'
<1>1. /\ k \in KernelState /\ KernelOK(k) /\ irq = NoThread /\ k.current = Idle
      /\ k.stat[Idle] = "ready" /\ Idle \in Thread /\ TypeOK
  BY IdleRuns
<1>2. /\ to \in Pc /\ to \notin ResumePc \cup DeletePc \cup StartPc \cup BeforeSchedule
      /\ to # "suspend_body"
  BY DEF IdlePc, Pc, ResumePc, DeletePc, StartPc, BeforeSchedule
<1>3. pc'[Idle] = to /\ arg'[Idle] = a /\ Moves(Idle)
      /\ pc' \in [Thread -> Pc] /\ arg' \in [Thread -> Thread \cup {NoThread}]
  BY <1>1, <1>2 DEF TypeOK, Moves
<1>4. TypeOK' BY <1>1, <1>3, KernelAssumption DEF TypeOK
<1>5. WindowOK' BY <1>1 DEF WindowOK
<1>6. IdleStays(u)
  <2>1. IdleOK' BY <1>3 DEF IdleOK
  <2> QED BY <2>1 DEF IdleStays
<1>7. pc[Idle] \in IdlePc BY DEF IInv, Rest, Settings, IdleOK
<1>8. Arrives(Idle, u) BY <1>2, <1>3, <1>7 DEF Arrives, IdlePc
<1>9. StaysCurrent(Idle) BY DEF StaysCurrent
<1>10. StaysBest(Idle, u)
  BY <1>1, <1>7 DEF StaysBest, IdlePc, BeforeSchedule, DeletePc
<1>11. /\ irq' \in {NoThread, Idle} /\ IrqFits(Idle)' /\ Deletes(Idle)'
       /\ pc'[Idle] = "exit_leave" => k'.nest > 0
  BY <1>1, <1>2, <1>3, KernelAssumption DEF Masked, IrqFits, Deletes, IdlePc
<1>12. k'.current = Idle /\ irq \in {NoThread, Idle} BY <1>1
<1> QED BY <1>1, <1>3, <1>4, <1>5, <1>6, <1>8, <1>9, <1>10, <1>11, <1>12, OwnStep

\* The idle thread looks at the list of the dead.
LEMMA IdleLooks ==
  ASSUME IInv, Running(Idle), pc[Idle] # "reap_free", k' = k, arg' = arg,
         NEW to \in {"run", "reap_loop", "reap"}, pc' = [pc EXCEPT ![Idle] = to],
         UNCHANGED <<irq, created, lazy>>
  PROVE  IInv'
<1>1. /\ k \in KernelState /\ KernelOK(k) /\ k.current = Idle
      /\ k.stat[Idle] = "ready" /\ Idle \in Thread /\ TypeOK
  BY IdleRuns
<1>2. Only(Idle) /\ Free(Idle, Idle) /\ Settled(Idle) BY <1>1, Quiet
<1>3. PICK a : a = arg[Idle] OBVIOUS
<1>4. a \in Thread \cup {NoThread} /\ arg' = [arg EXCEPT ![Idle] = a]
  BY <1>1, <1>3 DEF TypeOK
<1>5. to \in IdlePc /\ to # "reap_free" BY DEF IdlePc
<1> QED BY <1>1, <1>2, <1>4, <1>5, IdleStep

LEMMA IdleCallKeeps == ASSUME IInv, IdleCall PROVE IInv'
BY IdleLooks DEF IdleCall, Goto

LEMMA IdleLoopKeeps == ASSUME IInv, IdleLoop PROVE IInv'
<1>1. PICK to \in {"run", "reap"} : pc' = [pc EXCEPT ![Idle] = to]
  BY DEF IdleLoop, Goto
<1> QED BY <1>1, IdleLooks DEF IdleLoop, Goto

LEMMA IdleReapKeeps == ASSUME IInv, IdleReap PROVE IInv'
<1>1. CASE k.wait[Defunct] = <<>> BY <1>1, IdleLooks DEF IdleReap, Goto
<1>2. CASE k.wait[Defunct] # <<>>
  <2>1. PICK u : u = Head(k.wait[Defunct]) OBVIOUS
  <2>2. /\ Running(Idle) /\ k' = ListRemove(k, u) /\ UNCHANGED <<irq, created, lazy>>
        /\ pc[Idle] = "reap"
        /\ u \in Static => pc' = [pc EXCEPT ![Idle] = "run"] /\ arg' = arg
        /\ u \notin Static => /\ pc' = [pc EXCEPT ![Idle] = "reap_free"]
                              /\ arg' = [arg EXCEPT ![Idle] = u]
    BY <1>2, <2>1 DEF IdleReap, Goto
  <2>3. /\ k \in KernelState /\ KernelOK(k) /\ k.current = Idle
        /\ k.stat[Idle] = "ready" /\ Idle \in Thread /\ TypeOK
    BY <2>2, IdleRuns
  <2>4. Defunct \in Queue /\ k.wait[Defunct] \in Seq(Thread)
    BY <2>3, ThreadsAssumption DEF KernelState
  <2>5. u \in ToSet(k.wait[Defunct]) /\ u \in Thread BY <1>2, <2>1, <2>4, HeadToSet
  <2>6. k.stat[u] = "close" BY <2>4, <2>5 DEF IInv, Rest, Settings, ListsDead
  <2> DEFINE s == ListRemove(k, u)
  <2>7. /\ s \in KernelState
        /\ KernelOK(s)
        /\ Frame(s, k) /\ s.stat = k.stat /\ s.armed = k.armed
        /\ \A q \in Queue : ToSet(s.wait[q]) = ToSet(k.wait[q]) \ {u}
    <3>1. k.stat[u] # "ready" /\ u \in Thread /\ k \in KernelState /\ KernelOK(k)
      BY <2>3, <2>5, <2>6
    <3> QED BY ONLY <3>1, UnlinkProperties
  <2>8. k' = s BY <2>2
  <2> HIDE DEF s
  <2>9. Only(u) BY <2>7, <2>8 DEF Only, Frame
  <2>10. Free(Idle, u) BY <2>6 DEF IInv, Rest, Settings, StartingOK, Untouched, Free
  <2>11. OffLists(k', u) /\ k'.stat[u] = "close" BY <2>6, <2>7, <2>8 DEF OffLists
  <2>12. /\ k' \in KernelState /\ KernelOK(k') /\ k'.current = k.current /\ k'.nest = k.nest
         /\ k'.stat[Idle] = "ready" /\ k'.prio[Idle] = k.prio[Idle]
    BY <2>3, <2>7, <2>8 DEF Frame
  <2>13. CASE u \in Static
    <3>1. Settled(u) BY <2>11, <2>13 DEF Settled
    <3>2. PICK a : a = arg[Idle] OBVIOUS
    <3>3. a \in Thread \cup {NoThread} /\ arg' = [arg EXCEPT ![Idle] = a]
      BY <2>2, <2>3, <2>13, <3>2 DEF TypeOK
    <3>4. pc' = [pc EXCEPT ![Idle] = "run"] /\ "run" \in IdlePc BY <2>2, <2>13 DEF IdlePc
    <3> QED BY <2>2, <2>5, <2>9, <2>10, <2>11, <2>12, <3>1, <3>3, <3>4, IdleStep
  <2>14. CASE u \notin Static
    <3>1. /\ pc' = [pc EXCEPT ![Idle] = "reap_free"] /\ arg' = [arg EXCEPT ![Idle] = u]
          /\ "reap_free" \in IdlePc /\ u \in Thread \cup {NoThread}
      BY <2>2, <2>5, <2>14 DEF IdlePc
    <3>2. pc'[Idle] = "reap_free" /\ arg'[Idle] = u BY <2>3, <3>1 DEF TypeOK
    <3>3. Settled(u)
      <4>1. Awaited(u)' BY <3>2 DEF Awaited
      <4> QED BY <2>11, <4>1 DEF Settled
    <3> QED BY <2>2, <2>5, <2>9, <2>10, <2>11, <2>12, <3>1, <3>3, IdleStep
  <2> QED BY <2>13, <2>14
<1> QED BY <1>1, <1>2

LEMMA IdleFreeKeeps == ASSUME IInv, IdleFree PROVE IInv'
<1>1. PICK u : u = arg[Idle] OBVIOUS
<1>2. /\ Running(Idle) /\ k' = [k EXCEPT !.stat[u] = "none"]
      /\ UNCHANGED <<irq, created, lazy>>
      /\ pc[Idle] = "reap_free" /\ pc' = [pc EXCEPT ![Idle] = "reap_loop"]
      /\ arg' = [arg EXCEPT ![Idle] = NoThread]
  BY <1>1 DEF IdleFree, Goto
<1>3. /\ k \in KernelState /\ KernelOK(k) /\ k.current = Idle
      /\ k.stat[Idle] = "ready" /\ Idle \in Thread /\ TypeOK
  BY <1>2, IdleRuns
<1>4. u \in Thread /\ k.stat[u] = "close" /\ OffLists(k, u)
  BY <1>1, <1>2 DEF IInv, Rest, Settings, IdleOK
<1>5. u \notin k.armed BY <1>3, <1>4 DEF KernelOK, TimersOK
<1>6. /\ k' \in KernelState /\ k'.stat[u] = "none"
      /\ k'.ready = k.ready /\ k'.wait = k.wait /\ k'.group = k.group
      /\ k'.armed = k.armed /\ k'.prio = k.prio /\ k'.mask = k.mask
      /\ k'.current = k.current /\ k'.nest = k.nest
      /\ \A v \in Thread \ {u} : k'.stat[v] = k.stat[v]
  BY <1>2, <1>3, <1>4 DEF KernelState, Stat
<1>7. KernelOK(k')
  <2>1. k'.armed = k.armed \ {u} /\ u \notin k'.armed BY <1>5, <1>6
  <2> QED BY <1>3, <1>4, <1>6, <2>1, RestatProperties
<1>8. Only(u) BY <1>6 DEF Only
<1>9. Free(Idle, u) BY <1>4 DEF IInv, Rest, Settings, StartingOK, Untouched, Free
<1>10. Settled(u) BY <1>4, <1>6 DEF Settled, OffLists
<1>11. k'.stat[Idle] = "ready" BY <1>3, <1>4, <1>6
<1>12. "reap_loop" \in IdlePc /\ "reap_loop" # "reap_free" /\ NoThread \in Thread \cup {NoThread}
  BY DEF IdlePc
<1>13. k'.prio[Idle] = k.prio[Idle] /\ k'.stat[u] # "ready" BY <1>6
<1>14. pc[Idle] = "reap_free" => arg[Idle] = u BY <1>1
<1> QED BY <1>2, <1>4, <1>6, <1>7, <1>8, <1>9, <1>10, <1>11, <1>12, <1>13, <1>14, IdleStep

-----------------------------------------------------------------------------
(***************************************************************************)
(* Boot, and the invariance.                                               *)
(***************************************************************************)

\* Before the scheduler starts, or as it does, no call is in progress.
Idling ==
    /\ TypeOK /\ KernelOK(k) /\ irq = NoThread /\ k.nest = 0
    /\ \A t \in Thread :
          /\ pc[t] = "run" /\ arg[t] = NoThread /\ k.stat[t] \in {"none", "ready"}
          /\ OffLists(k, t)
    /\ k.current \in Thread => k.stat[Idle] = "ready" /\ Elected(k)

LEMMA IdlingIsSound == ASSUME Idling PROVE IInv
<1>1. TypeOK /\ KernelOK(k) /\ irq = NoThread /\ k.nest = 0 BY DEF Idling
<1>2. ASSUME NEW t \in Thread
      PROVE  /\ pc[t] = "run" /\ arg[t] = NoThread /\ k.stat[t] \in {"none", "ready"}
             /\ OffLists(k, t)
  BY DEF Idling
<1>3. k \in KernelState /\ Idle \in Thread BY <1>1, KernelAssumption DEF TypeOK
<1>4. IrqOK /\ DeleteOK /\ LeaveOK
  <2>1. ASSUME NEW t \in Thread PROVE ~Masked(t) /\ irq # t
    BY <1>1, <1>2, KernelAssumption DEF Masked, ResumePc, DeletePc
  <2>2. IrqOK BY <2>1 DEF IrqOK, IrqFits
  <2>3. DeleteOK BY <2>1 DEF DeleteOK, Deletes, Masked
  <2> QED BY <1>2, <2>2, <2>3 DEF LeaveOK
<1>5. WindowOK BY <1>1 DEF WindowOK
<1>6. BootOK BY <1>1, <1>2 DEF BootOK
<1>7. Settings
  <2>1. ListsDead BY <1>2 DEF ListsDead, OffLists
  <2>2. StartingOK BY <1>2 DEF StartingOK, StartPc
  <2>3. IdleOK BY <1>2, <1>3 DEF IdleOK, IdlePc
  <2>4. NoneForgotten BY <1>2 DEF NoneForgotten
  <2>5. SuspendOK BY <1>2 DEF SuspendOK
  <2> QED BY <2>1, <2>2, <2>3, <2>4, <2>5 DEF Settings
<1>8. k.current \in Thread =>
         /\ k.stat[Idle] = "ready" /\ k.stat[k.current] = "ready"
         /\ \A v \in Thread : k.stat[v] = "ready" => k.prio[k.current] <= k.prio[v]
  BY <1>1, <1>3, ElectedIsBest DEF Idling
<1>9. CurrentOK BY <1>8 DEF CurrentOK
<1>10. Best BY <1>8 DEF Best
<1> QED BY <1>1, <1>4, <1>5, <1>6, <1>7, <1>9, <1>10 DEF IInv, Rest

LEMMA InitSound == Init => IInv
<1>1. SUFFICES ASSUME Init PROVE Idling BY IdlingIsSound
<1>2. /\ SystemInit /\ arg = [t \in Thread |-> NoThread] /\ created = 0 /\ lazy = FALSE
  BY <1>1 DEF Init
<1>3. /\ SystemOK({})
      /\ pc = [t \in Thread |-> "run"] /\ irq = NoThread
      /\ \A t \in Thread : k.stat[t] = "none"
      /\ \A q \in Queue : k.wait[q] = <<>> /\ ToSet(k.wait[q]) = {}
  BY <1>2, SystemInitOK
<1>4. k.current = NoThread /\ k.nest = 0 BY <1>2 DEF SystemInit, SchedulerInit
<1>5. k \in KernelState /\ KernelOK(k) BY <1>3 DEF SystemOK
<1>6. NoThread \notin Thread /\ NoThread # Wild BY KernelAssumption
<1>7. TypeOK
  <2>1. "run" \in Pc /\ 0 \in 0 .. MaxCreate BY ThreadsAssumption DEF Pc
  <2> QED BY <1>2, <1>3, <1>4, <1>5, <1>6, <2>1 DEF TypeOK
<1> QED BY <1>2, <1>3, <1>4, <1>5, <1>6, <1>7 DEF Idling, OffLists

\* What holds before the scheduler starts.
LEMMA Booting ==
  ASSUME IInv, k.current = NoThread
  PROVE  Idling /\ k \in KernelState /\ k.nest = 0
<1>1. TypeOK /\ WindowOK /\ BootOK /\ ListsDead BY DEF IInv, Rest, Settings
<1>2. /\ irq = NoThread /\ k.nest = 0
      /\ \A t \in Thread :
            pc[t] = "run" /\ arg[t] = NoThread /\ k.stat[t] \in {"none", "ready"}
  BY <1>1 DEF BootOK
<1>3. KernelOK(k) BY <1>1, <1>2, KernelAssumption DEF WindowOK
<1>4. \A t \in Thread : OffLists(k, t) BY <1>1, <1>2 DEF ListsDead, OffLists
<1>5. k.current \notin Thread BY KernelAssumption
<1> QED BY <1>1, <1>2, <1>3, <1>4, <1>5 DEF Idling, TypeOK

LEMMA BootKeeps ==
  ASSUME IInv, NEW t \in Thread, Boot(t)
  PROVE  IInv'
<1>1. /\ k.current = NoThread /\ k.stat[t] = "none" /\ k' = BootThread(k, t)
      /\ irq' = irq /\ pc' = pc /\ arg' = arg /\ created' = created /\ lazy' = lazy
  BY DEF Boot, BootStep
<1>2. Idling /\ k \in KernelState /\ KernelOK(k) /\ k.nest = 0 BY <1>1, Booting DEF Idling
<1> DEFINE s == BootThread(k, t)
<1>3. /\ s \in KernelState
      /\ KernelOK(s)
      /\ s.stat = [k.stat EXCEPT ![t] = "ready"]
      /\ s.nest = k.nest /\ s.current = k.current
      /\ \A q \in Queue : t \notin ToSet(k.wait[q]) => s.wait[q] = k.wait[q]
  BY ONLY <1>1, <1>2, t \in Thread, BootThreadProperties
<1>4. k' = s BY <1>1
<1> HIDE DEF s
<1>5. TypeOK' BY <1>1, <1>2, <1>3, <1>4 DEF Idling, TypeOK
<1>6. ASSUME NEW q \in Queue PROVE k'.wait[q] = k.wait[q]
  BY <1>2, <1>3, <1>4 DEF Idling, OffLists
<1>7. ASSUME NEW v \in Thread
      PROVE  /\ pc'[v] = "run" /\ arg'[v] = NoThread /\ k'.stat[v] \in {"none", "ready"}
             /\ OffLists(k', v)
  <2>1. k'.stat[v] = k.stat[v] \/ k'.stat[v] = "ready" BY <1>2, <1>3, <1>4 DEF KernelState
  <2>2. OffLists(k', v) BY <1>2, <1>6 DEF Idling, OffLists
  <2> QED BY <1>1, <1>2, <2>1, <2>2 DEF Idling
<1>8. k'.current \notin Thread BY <1>1, <1>3, <1>4, KernelAssumption
<1>9. Idling' BY <1>1, <1>2, <1>3, <1>4, <1>5, <1>7, <1>8 DEF Idling
<1> QED BY <1>9, IdlingIsSound, PTL

LEMMA StartKeeps == ASSUME IInv, Start PROVE IInv'
<1>1. /\ k.current = NoThread /\ k.stat[Idle] = "ready"
      /\ k' = [k EXCEPT !.current = HighestReady(k)]
      /\ irq' = irq /\ pc' = pc /\ arg' = arg /\ created' = created /\ lazy' = lazy
  BY DEF Start, StartStep, SchedulerStart
<1>2. Idling /\ k \in KernelState /\ KernelOK(k) /\ k.nest = 0 BY <1>1, Booting DEF Idling
<1>3. PICK h : h = HighestReady(k) OBVIOUS
<1>4. h \in Thread BY <1>1, <1>2, <1>3, HighestReadyProperties
<1>5. /\ k' \in KernelState /\ k'.current = h /\ k'.nest = k.nest
      /\ k'.stat = k.stat /\ k'.prio = k.prio /\ k'.mask = k.mask
      /\ k'.ready = k.ready /\ k'.group = k.group
      /\ k'.wait = k.wait /\ k'.armed = k.armed
  BY <1>1, <1>2, <1>3, <1>4 DEF KernelState
<1>6. KernelOK(k')
  <2>1. ListsOK(k') /\ ReadyOK(k') BY <1>2, <1>5 DEF KernelOK, ListsOK, ReadyOK
  <2>2. BitmapOK(k') BY <1>2, <1>5 DEF KernelOK, BitmapOK
  <2>3. MaskOK(k') /\ TimersOK(k') BY <1>2, <1>5 DEF KernelOK, MaskOK, TimersOK
  <2> QED BY <2>1, <2>2, <2>3 DEF KernelOK
<1>7. Elected(k') BY <1>3, <1>5 DEF Elected, HighestReady
<1>8. TypeOK' BY <1>1, <1>2, <1>4, <1>5, KernelAssumption DEF Idling, TypeOK
<1>9. Idling' BY <1>1, <1>2, <1>5, <1>6, <1>7, <1>8 DEF Idling, OffLists
<1> QED BY <1>9, IdlingIsSound, PTL

LEMMA ThreadStepKeeps ==
  ASSUME Disciplined, IInv, NEW t \in Thread, ThreadStep(t)
  PROVE  IInv'
<1>1. ASSUME NEW u \in Thread,
             \/ Create(t, u) \/ Startup(t, u) \/ SuspendCheck(t, u)
             \/ ResumeCheck(t, u) \/ DeleteRemove(t, u)
             \/ \E p \in Priority : SetPriority(t, u, p)
      PROVE  IInv'
  BY <1>1, CreateKeeps, StartupKeeps, SuspendCheckKeeps, ResumeCheckKeeps,
     DeleteRemoveKeeps, SetPriorityKeeps
<1>2. CASE StartupCheck(t) \/ StartupUnlink(t) \/ StartupInsert(t)
  BY <1>2, StartupCheckKeeps, StartupUnlinkKeeps, StartupInsertKeeps
<1>3. CASE ScheduleReturn(t) \/ ExitSchedule(t) \/ SleepSchedule(t)
  BY <1>3, SchedulesKeep
<1>4. CASE SuspendApply(t) \/ ResumeStop(t) \/ ResumeInsert(t)
  BY <1>4, SuspendApplyKeeps, ResumeStopKeeps, ResumeInsertKeeps
<1>5. CASE DeleteTimer(t) \/ DeleteStat(t) \/ DeleteDefunct(t)
  BY <1>5, DeleteTimerKeeps, DeleteStatKeeps, DeleteDefunctKeeps
<1>6. CASE ExitLeave(t) \/ Exit(t) \/ Sleep(t) \/ SleepReturn(t)
  BY <1>6, ExitLeaveKeeps, ExitKeeps, SleepKeeps, SleepReturnKeeps
<1>7. CASE CallSchedule(t) \/ CallYield(t) \/ Enter(t) \/ Leave(t)
  BY <1>7, CallScheduleKeeps, CallYieldKeeps, EnterKeeps, LeaveKeeps
<1> QED BY <1>1, <1>2, <1>3, <1>4, <1>5, <1>6, <1>7 DEF ThreadStep

LEMMA NextKeeps == ASSUME Disciplined, IInv, [Next]_vars PROVE IInv'
<1>1. CASE Next
  <2>1. CASE Start \/ \E t \in Thread : Boot(t) BY <2>1, StartKeeps, BootKeeps
  <2>2. CASE \E t \in Thread : ThreadStep(t) BY <2>2, ThreadStepKeeps
  <2>3. CASE ReapStep
    BY <2>3, IdleCallKeeps, IdleLoopKeeps, IdleReapKeeps, IdleFreeKeeps DEF ReapStep
  <2>4. CASE InterruptStep
    BY <2>4, TickYieldKeeps, TickTimeoutKeeps, IsrResumeKeeps DEF InterruptStep
  <2> QED BY <1>1, <2>1, <2>2, <2>3, <2>4 DEF Next
<1>2. CASE UNCHANGED vars
  <2>1. k' = k /\ irq' = irq /\ pc' = pc /\ arg' = arg /\ created' = created /\ lazy' = lazy
    BY <1>2 DEF vars
  <2>2. TypeOK' /\ IrqOK' BY <2>1 DEF IInv, TypeOK, IrqOK, IrqFits, Masked
  <2>3. WindowOK' BY <2>1 DEF IInv, WindowOK, Window, Starting
  <2>7. DeleteOK' BY <2>1 DEF IInv, DeleteOK, Deletes, Window, Starting
  <2>8. LeaveOK' BY <2>1 DEF IInv, Rest, LeaveOK
  <2>4. BootOK' /\ CurrentOK' /\ Best' BY <2>1 DEF IInv, Rest, BootOK, CurrentOK, Best
  <2>5. ListsDead' /\ StartingOK' /\ IdleOK' /\ SuspendOK'
    BY <2>1 DEF IInv, Rest, Settings, ListsDead, StartingOK, IdleOK, SuspendOK
  <2>6. NoneForgotten' BY <2>1 DEF IInv, Rest, Settings, NoneForgotten, Awaited
  <2> QED BY <2>2, <2>3, <2>4, <2>5, <2>6, <2>7, <2>8 DEF IInv, Rest, Settings
<1> QED BY <1>1, <1>2

LEMMA Invariance == ASSUME Disciplined PROVE Spec => []IInv
<1>1. Init => IInv BY InitSound
<1>2. IInv /\ [Next]_vars => IInv' BY NextKeeps
<1> QED BY <1>1, <1>2, PTL DEF Spec

-----------------------------------------------------------------------------
\* KernelSound, for every application that respects the discipline: whenever
\* interrupts are enabled, in every window of rt_thread_startup, sleep, exit,
\* the idle loop and of a deletion with the scheduler locked, the ready lists,
\* the bitmap, the masks, the timers and the stat of every thread agree, and
\* rt_schedule never takes the head of an empty list for a thread.
THEOREM ThreadsSound == ASSUME Disciplined PROVE Spec => []KernelSound
<1>1. IInv => KernelSound
  <2>1. SUFFICES ASSUME IInv, irq = NoThread
                 PROVE  KernelOK([k EXCEPT !.stat = [u \in Thread |->
                                     IF Dying(u) THEN "close" ELSE k.stat[u]]])
    BY DEF IInv, KernelSound, KernelConsistent
  <2> DEFINE f == [u \in Thread |-> IF Dying(u) THEN "close" ELSE k.stat[u]]
  <2>2. k \in KernelState BY <2>1 DEF IInv, TypeOK
  <2>3. CASE \E s \in Thread : pc[s] \in {"delete_timer", "delete_stat"}
    <3>1. PICK s \in Thread : pc[s] \in {"delete_timer", "delete_stat"} BY <2>3
    <3>2. ASSUME NEW r \in Thread, pc[r] \in {"delete_timer", "delete_stat"}
          PROVE  k.current = r
      BY <2>1, <3>2 DEF IInv, IrqOK, Masked, DeletePc
    <3>3. k.current = s /\ Interrupt /\ Removing BY <2>1, <3>1, <3>2 DEF Interrupt, Removing
    <3>4. PICK x \in Thread : x = arg[s] /\ Floating(k, x) BY <2>1, <3>3, Interrupts
    <3>5. \A u \in Thread : Dying(u) <=> u = x BY <3>1, <3>2, <3>3, <3>4 DEF Dying
    <3>6. f = [k.stat EXCEPT ![x] = "close"] BY <2>2, <3>5 DEF KernelState
    <3> HIDE DEF f
    <3>7. [k EXCEPT !.stat = f] = [k EXCEPT !.stat[x] = "close"] BY <3>6
    <3>8. KernelOK([k EXCEPT !.stat[x] = "close"]) BY <2>2, <3>4, CloseProperties
    <3> QED BY <3>7, <3>8 DEF f
  <2>4. CASE \A s \in Thread : pc[s] \notin {"delete_timer", "delete_stat"}
    <3>1. \A u \in Thread : ~Dying(u) BY <2>4 DEF Dying
    <3>2. f = k.stat BY <2>2, <3>1 DEF KernelState
    <3> HIDE DEF f
    <3>3. [k EXCEPT !.stat = f] = k BY <2>2, <3>2 DEF KernelState
    <3>4. KernelOK(k)
      <4>1. CASE k.current \in Thread
        <5>1. Interrupt /\ ~Removing BY <2>1, <2>4, <4>1 DEF Interrupt, Removing
        <5> QED BY <2>1, <5>1, Interrupts
      <4>2. CASE k.current \notin Thread BY <2>1, <4>2 DEF IInv, WindowOK
      <4> QED BY <4>1, <4>2
    <3> QED BY <3>3, <3>4 DEF f
  <2> QED BY <2>3, <2>4
<1> QED BY <1>1, Invariance, PTL

\* DeadAwaitIdle: from the moment rt_thread_exit, rt_thread_delete or
\* rt_thread_detach closes a thread until the idle thread has freed it, the
\* thread is on no ready list, has no timer, and is not forgotten.  Ticks,
\* time-outs and handlers come in between any two sections of a deletion with
\* the scheduler locked, of another thread or of the thread itself; only the
\* deletion of a thread that waits, or with the scheduler unlocked, has
\* interrupts disabled (Disciplined).
THEOREM TheDeadAwaitIdle == ASSUME Disciplined PROVE Spec => []DeadAwaitIdle
<1>1. IInv => DeadAwaitIdle
  <2>1. SUFFICES ASSUME IInv, NEW t \in Thread
                 PROVE  /\ k.stat[t] \in {"close", "none"} =>
                             /\ \A p \in Priority : t \notin ToSet(k.ready[p])
                             /\ t \notin k.armed
                             /\ k.current = t =>
                                   pc[t] \in {"delete_defunct", "exit_leave", "exit_sched"}
                        /\ k.stat[t] = "none" => t \notin ToSet(k.wait[Defunct])
                        /\ (k.stat[t] = "close" /\ t \notin Static) => Awaited(t)
    BY DEF DeadAwaitIdle, Awaited
  <2>2. ListsDead /\ NoneForgotten /\ CurrentOK /\ WindowOK
    BY <2>1 DEF IInv, Rest, Settings
  <2>3. ASSUME k.stat[t] \in {"close", "none"}, k.current = t
        PROVE  pc[t] \in {"delete_defunct", "exit_leave", "exit_sched"}
    BY <2>2, <2>3 DEF CurrentOK
  <2>4. ASSUME k.stat[t] \in {"close", "none"}
        PROVE  t \notin k.armed /\ \A p \in Priority : t \notin ToSet(k.ready[p])
    <3>1. CASE KernelOK(k) BY <2>4, <3>1 DEF KernelOK, ReadyOK, TimersOK
    <3>2. CASE ~KernelOK(k)
      <4>1. PICK s \in Thread : Masked(s) /\ Window(s, arg[s])
        <5>1. CASE irq = NoThread
          BY <2>1, <2>2, <3>2, <5>1 DEF WindowOK, IInv, DeleteOK, Deletes, Masked
        <5>2. CASE irq # NoThread
          BY <2>1, <2>2, <5>2 DEF WindowOK, IInv, TypeOK, IrqOK, IrqFits
        <5> QED BY <5>1, <5>2
      <4>2. PICK u : u = arg[s] OBVIOUS
      <4>3. pc[s] \in {"delete_timer", "delete_stat"}
        BY <3>2, <4>1 DEF Masked, Window, DeletePc
      <4>4. /\ u \in Thread /\ Floating(TimerStop(k, u), u)
            /\ k.stat[u] \in {"ready", "suspend"}
        BY <4>1, <4>2, <4>3 DEF Window
      <4>5. k \in KernelState /\ t \in Thread \ {u} BY <2>1, <2>4, <4>4 DEF IInv, TypeOK
      <4>6. PICK c : c = TimerStop(k, u) OBVIOUS
      <4>7. /\ c.ready = k.ready /\ c.stat = k.stat /\ c.prio = k.prio
            /\ c.armed = k.armed \ {u}
        BY <4>5, <4>6 DEF TimerStop, KernelState
      <4> QED BY <2>4, <4>4, <4>5, <4>6, <4>7 DEF Floating
    <3> QED BY <3>1, <3>2
  <2>5. k.stat[t] = "none" => t \notin ToSet(k.wait[Defunct])
    BY <2>2, ThreadsAssumption DEF ListsDead
  <2>6. (k.stat[t] = "close" /\ t \notin Static) => Awaited(t) BY <2>2 DEF NoneForgotten
  <2> QED BY <2>3, <2>4, <2>5, <2>6
<1> QED BY <1>1, Invariance, PTL

\* Preemptive: with the scheduler unlocked, the current thread is READY and no
\* READY thread has a higher priority, unless it is on its way into
\* rt_schedule or the application left the decision open.
THEOREM SchedulingIsPreemptive == ASSUME Disciplined PROVE Spec => []Preemptive
<1>1. IInv => Preemptive BY DEF IInv, Rest, Best, Preemptive
<1> QED BY <1>1, Invariance, PTL

-----------------------------------------------------------------------------
(***************************************************************************)
(* Module Timers: how the timers have to be used.                          *)
(***************************************************************************)

\* A timer is operated by one thread, and all the soft ones by the same:
\* rt_timer_start and rt_timer_stop test the flag before their section.
OneOperator ==
    \A t, u \in App : t # u =>
        /\ AppTimer[t] \cap AppTimer[u] = {}
        /\ AppTimer[t] \cap Soft = {} \/ AppTimer[u] \cap Soft = {}

\* A timer's function operates that timer, or ones that no thread operates;
\* the function of a soft timer stops no other one (run TimersStopNext).
CallbacksApart ==
    \A x \in Timer : \A e \in Effects[x] :
        \/ e.op = "none" \/ e.arg = x
        \/ (\A t \in App : e.arg \notin AppTimer[t]) /\ (x \in Soft => e.op = "start")

\* The timer thread comes before every other one: RT_TIMER_THREAD_PRIO is 0
\* unless it is configured.
TimerThreadFirst == \A t \in Thread \ {T} : InitPriority[T] < InitPriority[t]

\* No time is longer than d, and d and the time that calls are interrupted
\* for are within half of the range of the tick.
Punctual(d) ==
    /\ \A x \in Timer : InitTick[x] <= d /\ \A ticks \in SetTicks[x] : ticks <= d
    /\ \A ticks \in SleepTicks : ticks <= d
    /\ d + MaxSlip <= Half
    /\ d + 2 * MaxSlip + 1 <= TickMod - Half
    /\ 2 * MaxSlip + 1 < Half /\ MaxSlip > 0

WellUsed(d) == OneOperator /\ CallbacksApart /\ TimerThreadFirst /\ Punctual(d)

-----------------------------------------------------------------------------
(***************************************************************************)
(* Ticks, modulo TickMod.                                                  *)
(***************************************************************************)
LEMMA TickRange ==
  /\ TickMod \in Nat /\ TickMax = TickMod - 1 /\ TickMax \in Nat
  /\ Half \in Nat /\ Half > 1 /\ 2 * Half <= TickMax /\ MaxSlip \in Nat
<1>1. TickMod \in Nat /\ MaxSlip \in Nat /\ Half > 1 BY TimersAssumption
<1>2. TickMax \in Int BY <1>1 DEF TickMax
<1>3. Half \in Int /\ 2 * Half <= TickMax BY <1>1, <1>2 DEF Half
<1> QED BY <1>1, <1>2, <1>3 DEF TickMax

LEMMA ModThrice ==
  ASSUME NEW m \in Nat \ {0}, NEW x \in 0 .. 3 * m - 1
  PROVE  x % m = IF x < m THEN x ELSE IF x < 2 * m THEN x - m ELSE x - 2 * m
<1>1. CASE x < m BY <1>1
<1>2. CASE x >= m /\ x < 2 * m BY <1>2
<1>3. CASE x >= 2 * m BY <1>3
<1> QED BY <1>1, <1>2, <1>3

\* The difference of two ticks.
LEMMA MinusIs ==
  ASSUME NEW x \in 0 .. TickMax + Half, NEW y \in 0 .. TickMax
  PROVE  /\ Minus(x, y) \in 0 .. TickMax
         /\ Minus(x, y) = IF x < y THEN x - y + TickMod
                          ELSE IF x - y < TickMod THEN x - y ELSE x - y - TickMod
<1>1. x - y + TickMod \in 0 .. 3 * TickMod - 1 BY TickRange
<1>2. TickMod \in Nat \ {0} BY TickRange
<1>3. (x - y + TickMod) % TickMod =
         IF x - y + TickMod < TickMod THEN x - y + TickMod
         ELSE IF x - y + TickMod < 2 * TickMod THEN x - y ELSE x - y - TickMod
  <2> DEFINE z == x - y + TickMod
  <2>1. z % TickMod = IF z < TickMod THEN z
                      ELSE IF z < 2 * TickMod THEN z - TickMod ELSE z - 2 * TickMod
    BY <1>1, <1>2, ModThrice
  <2> QED BY <2>1, <1>1, <1>2
<1> QED BY <1>1, <1>2, <1>3, TickRange DEF Minus

LEMMA MinusTicks ==
  ASSUME NEW x \in 0 .. TickMax, NEW y \in 0 .. TickMax
  PROVE  /\ Minus(x, y) \in 0 .. TickMax
         /\ Minus(x, y) = IF x < y THEN x - y + TickMod ELSE x - y
<1>1. x \in 0 .. TickMax + Half BY TickRange
<1>2. /\ Minus(x, y) \in 0 .. TickMax
      /\ Minus(x, y) = IF x < y THEN x - y + TickMod
                       ELSE IF x - y < TickMod THEN x - y ELSE x - y - TickMod
  BY <1>1, MinusIs
<1>3. x - y < TickMod BY TickRange
<1> QED BY <1>2, <1>3

\* timer x of s is due in v ticks, whether or not the tick wraps in between
Due(s, x, v) ==
    /\ v \in -Half .. TickMod - Half - 1
    /\ \/ s.timeout[x] = s.tick + v
       \/ s.timeout[x] = s.tick + v + TickMod
       \/ s.timeout[x] = s.tick + v - TickMod

Ticking(s, x) == s.tick \in 0 .. TickMax /\ s.timeout[x] \in 0 .. TickMax

LEMMA LeftIs ==
  ASSUME NEW s, NEW x, Ticking(s, x)
  PROVE  /\ LeftIn(s, x) \in -Half .. TickMod - Half - 1
         /\ Due(s, x, LeftIn(s, x))
         /\ \A v : Due(s, x, v) => v = LeftIn(s, x)
<1> DEFINE a == s.timeout[x] + Half
           m == Minus(a, s.tick)
<1>1. s.tick \in 0 .. TickMax /\ s.timeout[x] \in 0 .. TickMax BY DEF Ticking
<1>2. a \in 0 .. TickMax + Half BY <1>1, TickRange
<1>3. /\ m \in 0 .. TickMax
      /\ m = IF a < s.tick THEN a - s.tick + TickMod
             ELSE IF a - s.tick < TickMod THEN a - s.tick ELSE a - s.tick - TickMod
  BY <1>1, <1>2, MinusIs
<1>4. LeftIn(s, x) = m - Half BY DEF LeftIn
<1> HIDE DEF m
<1>5. LeftIn(s, x) \in -Half .. TickMod - Half - 1 BY <1>3, <1>4, TickRange
<1>6. Due(s, x, LeftIn(s, x)) BY <1>1, <1>3, <1>4, <1>5, TickRange DEF Due
<1>7. \A v : Due(s, x, v) => v = LeftIn(s, x)
  BY <1>1, <1>3, <1>4, <1>5, TickRange DEF Due
<1> QED BY <1>5, <1>6, <1>7

LEMMA LeftOf ==
  ASSUME NEW s, NEW x, Ticking(s, x), NEW v, Due(s, x, v)
  PROVE  LeftIn(s, x) = v
BY LeftIs

\* What a timer is due in depends on the tick and its timeout_tick only.
LEMMA LeftSame ==
  ASSUME NEW s, NEW r, NEW x, r.tick = s.tick, r.timeout[x] = s.timeout[x]
  PROVE  LeftIn(r, x) = LeftIn(s, x)
BY DEF LeftIn

\* One tick later a timer is due in one tick less.
LEMMA LeftTicks ==
  ASSUME NEW s, NEW r, NEW x, Ticking(s, x), r.tick = (s.tick + 1) % TickMod,
         r.timeout[x] = s.timeout[x], LeftIn(s, x) > -Half
  PROVE  LeftIn(r, x) = LeftIn(s, x) - 1
<1>1. s.tick \in 0 .. TickMax /\ s.timeout[x] \in 0 .. TickMax BY DEF Ticking
<1>2. (s.tick + 1) % TickMod = IF s.tick + 1 < TickMod THEN s.tick + 1 ELSE s.tick + 1 - TickMod
  <2> DEFINE z == s.tick + 1
  <2>1. z \in 0 .. 3 * TickMod - 1 /\ TickMod \in Nat \ {0} BY <1>1, TickRange
  <2>2. z % TickMod = IF z < TickMod THEN z
                      ELSE IF z < 2 * TickMod THEN z - TickMod ELSE z - 2 * TickMod
    BY <2>1, ModThrice
  <2> QED BY <2>2, <1>1, TickRange
<1>3. Ticking(r, x) BY <1>1, <1>2, TickRange DEF Ticking
<1>4. LeftIn(s, x) \in -Half .. TickMod - Half - 1 /\ Due(s, x, LeftIn(s, x)) BY LeftIs
<1>5. Due(r, x, LeftIn(s, x) - 1) BY <1>1, <1>2, <1>4, TickRange DEF Due
<1> QED BY <1>3, <1>5, LeftOf

\* A time-out that is set now is due in as many ticks.
LEMMA LeftSet ==
  ASSUME NEW s, NEW x, s.tick \in 0 .. TickMax, NEW ticks \in 0 .. Half - 1,
         s.timeout[x] = (s.tick + ticks) % TickMod
  PROVE  Ticking(s, x) /\ LeftIn(s, x) = ticks
<1>1. s.timeout[x] = IF s.tick + ticks < TickMod THEN s.tick + ticks ELSE s.tick + ticks - TickMod
  <2> DEFINE z == s.tick + ticks
  <2>1. z \in 0 .. 3 * TickMod - 1 /\ TickMod \in Nat \ {0} BY TickRange
  <2>2. z % TickMod = IF z < TickMod THEN z
                      ELSE IF z < 2 * TickMod THEN z - TickMod ELSE z - 2 * TickMod
    BY <2>1, ModThrice
  <2> QED BY <2>2, TickRange
<1>2. Ticking(s, x) BY <1>1, TickRange DEF Ticking
<1>3. Due(s, x, ticks) BY <1>1, TickRange DEF Due
<1> QED BY <1>2, <1>3, LeftOf

\* rt_timer_start finds out which of two timers is due later, if they are not
\* half of the range apart.
LEMMA LaterIs ==
  ASSUME NEW s, NEW x, NEW y, Ticking(s, x), Ticking(s, y),
         LeftIn(s, y) - LeftIn(s, x) \in -(TickMod - Half) .. Half - 1
  PROVE  Later(s, y, x) <=> LeftIn(s, x) < LeftIn(s, y)
<1> DEFINE m == Minus(s.timeout[y], s.timeout[x])
<1>1. /\ s.tick \in 0 .. TickMax /\ s.timeout[x] \in 0 .. TickMax
      /\ s.timeout[y] \in 0 .. TickMax
  BY DEF Ticking
<1>2. /\ LeftIn(s, x) \in -Half .. TickMod - Half - 1 /\ Due(s, x, LeftIn(s, x))
      /\ LeftIn(s, y) \in -Half .. TickMod - Half - 1 /\ Due(s, y, LeftIn(s, y))
  BY LeftIs
<1>3. m = IF s.timeout[y] < s.timeout[x] THEN s.timeout[y] - s.timeout[x] + TickMod
          ELSE s.timeout[y] - s.timeout[x]
  BY <1>1, MinusTicks
<1> HIDE DEF m
<1>4. m \in 1 .. Half - 1 <=> LeftIn(s, x) < LeftIn(s, y)
  BY <1>1, <1>2, <1>3, TickRange DEF Due
<1> QED BY <1>4 DEF Later, m

\* A timer has expired at a tick c ticks ago, or is due after it.
LEMMA ExpiredIs ==
  ASSUME NEW s, NEW x, Ticking(s, x), NEW now \in 0 .. TickMax,
         LeftIn(s, x) > -Half
  PROVE  /\ ~ Expired(s, x, now) => LeftIn(s, x) >= 1 - Minus(s.tick, now)
         /\ now = s.tick => Expired(s, x, now) <=> LeftIn(s, x) <= 0
<1> DEFINE m == Minus(now, s.timeout[x])
           c == Minus(s.tick, now)
<1>1. s.tick \in 0 .. TickMax /\ s.timeout[x] \in 0 .. TickMax BY DEF Ticking
<1>2. LeftIn(s, x) \in -Half .. TickMod - Half - 1 /\ Due(s, x, LeftIn(s, x)) BY LeftIs
<1>3. m = IF now < s.timeout[x] THEN now - s.timeout[x] + TickMod ELSE now - s.timeout[x]
  BY <1>1, MinusTicks
<1>4. c = IF s.tick < now THEN s.tick - now + TickMod ELSE s.tick - now
  BY <1>1, MinusTicks
<1> HIDE DEF m, c
<1>5. ~ (m < Half) => LeftIn(s, x) >= 1 - c
  BY <1>1, <1>2, <1>3, <1>4, TickRange DEF Due
<1>6. now = s.tick => (m < Half <=> LeftIn(s, x) <= 0)
  BY <1>1, <1>2, <1>3, TickRange DEF Due
<1> QED BY <1>5, <1>6 DEF Expired, m, c

-----------------------------------------------------------------------------
(***************************************************************************)
(* Timer lists.                                                            *)
(***************************************************************************)
Entry == Timer \cup Thread

ByDue(s) == {p \in Entry \X Entry : LeftIn(s, p[1]) <= LeftIn(s, p[2])}

\* list is a timer list of s, with nothing due before lo or after d
ListOK(list, s, lo, d) ==
    /\ IsInjective(list) /\ OrderedBy(list, ByDue(s))
    /\ \A x \in ToSet(list) : LeftIn(s, x) \in lo .. d

\* what is on the list before m is in G
Covered(list, m, G) ==
    \A j \in 1 .. Len(list) : list[j] \in G \/ \E i \in 1 .. j : list[i] = m

LEMMA InsertAtCovered ==
  ASSUME NEW X, NEW s \in Seq(X), NEW e \in X, NEW p \in 1 .. Len(s) + 1,
         NEW m, NEW G, e \in G, Covered(s, m, G)
  PROVE  Covered(InsertAt(s, p, e), m, G)
<1> DEFINE r == InsertAt(s, p, e)
<1>1. /\ r \in Seq(X) /\ Len(r) = Len(s) + 1
      /\ \A i \in 1 .. Len(s) + 1 :
            r[i] = IF i < p THEN s[i] ELSE IF i = p THEN e ELSE s[i - 1]
  BY InsertAtElements
<1> HIDE DEF r
<1>2. Len(s) \in Nat OBVIOUS
<1>3. \A i \in 1 .. Len(s) : \E a \in i .. i + 1 : a \in 1 .. Len(r) /\ r[a] = s[i]
               /\ (a = i + 1 => p <= i) /\ (a = i => i < p)
  <2> TAKE i \in 1 .. Len(s)
  <2>1. CASE i < p BY <1>1, <1>2, <2>1
  <2>2. CASE ~ (i < p)
    <3>1. i + 1 \in 1 .. Len(s) + 1 /\ ~ (i + 1 < p) /\ i + 1 # p /\ (i + 1) - 1 = i
      BY <1>2, <2>2
    <3>2. r[i + 1] = s[i] BY <1>1, <3>1
    <3> QED BY <1>1, <1>2, <2>2, <3>1, <3>2
  <2> QED BY <2>1, <2>2
<1>4. ASSUME NEW j \in 1 .. Len(r), r[j] \notin G PROVE \E i \in 1 .. j : r[i] = m
  <2>1. PICK b \in 1 .. Len(s) : r[j] = s[b] /\ ((b = j /\ j < p) \/ (b = j - 1 /\ p < j))
    <3>1. j # p BY <1>1, <1>4
    <3>2. CASE j < p
      <4>1. j \in 1 .. Len(s) BY <1>1, <1>2, <3>2
      <4> QED BY <1>1, <3>2, <4>1
    <3>3. CASE j > p
      <4>1. j - 1 \in 1 .. Len(s) BY <1>1, <1>2, <3>3
      <4> QED BY <1>1, <1>2, <3>3, <4>1
    <3> QED BY <3>1, <3>2, <3>3, <1>1, <1>2
  <2>2. PICK i \in 1 .. b : s[i] = m BY <2>1, <1>4 DEF Covered
  <2>3. PICK a \in i .. i + 1 : /\ a \in 1 .. Len(r) /\ r[a] = s[i]
                                /\ (a = i + 1 => p <= i) /\ (a = i => i < p)
    <3>1. i \in 1 .. Len(s) BY <1>2
    <3> QED BY <1>3, <3>1
  <2>4. a <= j BY <1>2, <2>1, <2>2, <2>3
  <2> QED BY <2>2, <2>3, <2>4
<1> QED BY <1>4 DEF Covered, r

LEMMA InsertKeepsOrder ==
  ASSUME NEW s \in ClockState, NEW X \in SUBSET Entry, NEW list \in Seq(X), NEW x \in X,
         NEW lo \in Int, NEW d \in Int, x \notin ToSet(list), ListOK(list, s, lo, d),
         LeftIn(s, x) \in lo .. d, LeftIn(s, x) >= 1 - MaxSlip,
         d + MaxSlip <= Half, d - lo <= TickMod - Half
  PROVE  LET later == SelectInSeq(list, LAMBDA y : Later(s, y, x))
             place == IF later = 0 THEN Len(list) + 1 ELSE later
             r == InsertAt(list, place, x)
         IN  /\ r \in Seq(X) /\ r # <<>> /\ ToSet(r) = ToSet(list) \cup {x}
             /\ ListOK(r, s, lo, d)
             /\ \A m, G : x \in G /\ Covered(list, m, G) => Covered(r, m, G)
<1> DEFINE I == {i \in 1 .. Len(list) : Later(s, list[i], x)}
           later == SelectInSeq(list, LAMBDA y : Later(s, y, x))
           place == IF later = 0 THEN Len(list) + 1 ELSE later
           r == InsertAt(list, place, x)
<1>1. \A y \in Entry : Ticking(s, y) BY DEF ClockState, Ticking, Entry
<1>2. \A i \in 1 .. Len(list) : list[i] \in X /\ list[i] \in ToSet(list)
  BY DEF ToSet
<1>3. \A i \in 1 .. Len(list) : LeftIn(s, list[i]) \in lo .. d BY <1>2 DEF ListOK
<1>4. ASSUME NEW i \in 1 .. Len(list)
      PROVE  Later(s, list[i], x) <=> LeftIn(s, x) < LeftIn(s, list[i])
  <2>1. LeftIn(s, list[i]) - LeftIn(s, x) \in -(TickMod - Half) .. Half - 1
    BY <1>3, TickRange
  <2> QED BY <1>1, <1>2, <2>1, LaterIs
<1>5. I = {} => later = 0 BY DEF SelectInSeq
<1>6. I # {} => later \in I /\ \A i \in I : later <= i
  <2>1. I \in SUBSET Nat OBVIOUS
  <2>2. ASSUME I # {} PROVE later = Min(I) BY <2>2 DEF SelectInSeq
  <2> HIDE DEF I, later
  <2> QED BY <2>1, <2>2, SmallestNat
<1> HIDE DEF later
<1>7. Len(list) \in Nat OBVIOUS
<1>8. place \in 1 .. Len(list) + 1
  BY <1>5, <1>6, <1>7
<1>9. \A i \in 1 .. Len(list) : i < place => LeftIn(s, list[i]) <= LeftIn(s, x)
  <2> TAKE i \in 1 .. Len(list)
  <2> HAVE i < place
  <2>1. i \notin I BY <1>5, <1>6, <1>7
  <2>2. ~ Later(s, list[i], x) BY <2>1
  <2> QED BY <1>3, <1>4, <2>2
<1>10. \A i \in 1 .. Len(list) : ~ (i < place) => LeftIn(s, x) <= LeftIn(s, list[i])
  <2> TAKE i \in 1 .. Len(list)
  <2> HAVE ~ (i < place)
  <2>1. place \in 1 .. Len(list) /\ Later(s, list[place], x) BY <1>5, <1>6, <1>7
  <2>2. LeftIn(s, x) < LeftIn(s, list[place]) BY <1>4, <2>1
  <2>3. place < i => <<list[place], list[i]>> \in ByDue(s) BY <2>1 DEF ListOK, OrderedBy
  <2>4. place < i => LeftIn(s, list[place]) <= LeftIn(s, list[i]) BY <2>3 DEF ByDue
  <2> QED BY <1>3, <1>8, <2>1, <2>2, <2>4
<1> HIDE DEF place
<1>11. /\ r \in Seq(X) /\ r # <<>> /\ ToSet(r) = ToSet(list) \cup {x} /\ IsInjective(r)
  <2>1. IsInjective(list) BY DEF ListOK
  <2> QED BY <1>8, <2>1, InsertAtToSet
<1>12. OrderedBy(r, ByDue(s))
  <2>1. \A i \in 1 .. Len(list) : IF i < place THEN <<list[i], x>> \in ByDue(s)
                                  ELSE <<x, list[i]>> \in ByDue(s)
    BY <1>2, <1>9, <1>10 DEF ByDue
  <2>2. OrderedBy(list, ByDue(s)) BY DEF ListOK
  <2> QED BY <1>8, <2>1, <2>2, InsertAtOrdered
<1>13. \A m, G : x \in G /\ Covered(list, m, G) => Covered(r, m, G)
  BY <1>8, InsertAtCovered
<1>14. \A y \in ToSet(r) : LeftIn(s, y) \in lo .. d BY <1>11 DEF ListOK
<1>15. ListOK(r, s, lo, d) BY <1>11, <1>12, <1>14 DEF ListOK
<1> HIDE DEF r
<1>16. /\ r \in Seq(X) /\ r # <<>> /\ ToSet(r) = ToSet(list) \cup {x}
       /\ ListOK(r, s, lo, d)
       /\ \A m, G : x \in G /\ Covered(list, m, G) => Covered(r, m, G)
  BY <1>11, <1>13, <1>15
<1> QED BY <1>16 DEF r, place, later

\* Taking a timer off a list.
LEMMA RemoveKeepsOrder ==
  ASSUME NEW s, NEW X, NEW list \in Seq(X), NEW x, NEW lo \in Int, NEW d \in Int,
         ListOK(list, s, lo, d)
  PROVE  /\ RemoveFirst(list, x) \in Seq(X)
         /\ ToSet(RemoveFirst(list, x)) = ToSet(list) \ {x}
         /\ ListOK(RemoveFirst(list, x), s, lo, d)
         /\ x \notin ToSet(list) => RemoveFirst(list, x) = list
<1>1. /\ RemoveFirst(list, x) \in Seq(X) /\ IsInjective(RemoveFirst(list, x))
      /\ ToSet(RemoveFirst(list, x)) = ToSet(list) \ {x}
      /\ x \notin ToSet(list) => RemoveFirst(list, x) = list
  BY RemoveFirstProperties DEF ListOK
<1>2. OrderedBy(RemoveFirst(list, x), ByDue(s)) BY RemoveFirstOrdered DEF ListOK
<1> QED BY <1>1, <1>2 DEF ListOK

\* A list stays in order in a state that gives its timers the same time.
LEMMA SameOrder ==
  ASSUME NEW s, NEW r, NEW list, NEW lo \in Int, NEW d \in Int, NEW a \in Int, NEW b \in Int,
         NEW X \in SUBSET Entry, list \in Seq(X), ListOK(list, s, lo, d), NEW z \in Int,
         \A x \in ToSet(list) : LeftIn(r, x) = LeftIn(s, x) - z,
         \A x \in ToSet(list) : LeftIn(r, x) \in a .. b
  PROVE  ListOK(list, r, a, b)
<1>1. \A i \in 1 .. Len(list) : list[i] \in Entry /\ list[i] \in ToSet(list) BY DEF ToSet
<1>2. ASSUME NEW i \in 1 .. Len(list), NEW j \in 1 .. Len(list), i < j
      PROVE  <<list[i], list[j]>> \in ByDue(r)
  <2>1. <<list[i], list[j]>> \in ByDue(s) BY <1>2 DEF ListOK, OrderedBy
  <2>2. LeftIn(s, list[i]) <= LeftIn(s, list[j]) BY <2>1 DEF ByDue
  <2>3. /\ LeftIn(s, list[i]) \in Int /\ LeftIn(s, list[j]) \in Int
        /\ LeftIn(r, list[i]) = LeftIn(s, list[i]) - z
        /\ LeftIn(r, list[j]) = LeftIn(s, list[j]) - z
    BY <1>1 DEF ListOK
  <2>4. LeftIn(r, list[i]) <= LeftIn(r, list[j]) BY <2>2, <2>3
  <2> QED BY <1>1, <2>4 DEF ByDue
<1> QED BY <1>2 DEF ListOK, OrderedBy

-----------------------------------------------------------------------------
(***************************************************************************)
(* The clock: the tick and both lists.                                     *)
(***************************************************************************)
On(s) == ToSet(s.list["hard"]) \cup ToSet(s.list["soft"])

\* Hard timers are due after low - MaxSlip and threads after low, soft timers
\* after lo, and nothing after d.
Clock(s, low, lo, d) ==
    /\ s \in ClockState
    /\ s.list["hard"] \in Seq(Thread \cup (Timer \ Soft)) /\ s.list["soft"] \in Seq(Soft)
    /\ ListOK(s.list["hard"], s, low - MaxSlip, d)
    /\ ListOK(s.list["soft"], s, lo, d)
    /\ \A x \in ToSet(s.list["hard"]) \cap Thread : LeftIn(s, x) >= low
    /\ \A x \in Timer : s.init[x] \in 1 .. d

Bounds(low, lo, d) ==
    /\ low \in {-1, 0} /\ lo \in Int /\ d \in Nat /\ Punctual(d)
    /\ lo >= -(2 * MaxSlip + 1) /\ lo <= 1

LEMMA ListsApart ==
  ASSUME NEW s, NEW low, NEW lo, NEW d, Clock(s, low, lo, d)
  PROVE  /\ ToSet(s.list["hard"]) \subseteq Thread \cup (Timer \ Soft)
         /\ ToSet(s.list["soft"]) \subseteq Soft
         /\ Soft \cap (Thread \cup (Timer \ Soft)) = {} /\ Soft \subseteq Timer
         /\ Timer \cap Thread = {} /\ On(s) \subseteq Entry
<1>1. /\ ToSet(s.list["hard"]) \subseteq Thread \cup (Timer \ Soft)
      /\ ToSet(s.list["soft"]) \subseteq Soft
  BY HeadToSet DEF Clock
<1> QED BY <1>1, TimersAssumption DEF On, Entry

LEMMA BoundsFacts ==
  ASSUME NEW low, NEW lo, NEW d, Bounds(low, lo, d)
  PROVE  /\ low \in Int /\ low <= 0 /\ lo \in Int /\ d \in Int /\ low - MaxSlip \in Int
         /\ d + MaxSlip <= Half /\ d - lo <= TickMod - Half
         /\ d - (low - MaxSlip) <= TickMod - Half
         /\ lo > -Half /\ low - MaxSlip > -Half /\ d < TickMod - Half
<1>1. low \in {-1, 0} /\ lo \in Int /\ d \in Nat BY DEF Bounds
<1>2. /\ d + MaxSlip <= Half /\ d + 2 * MaxSlip + 1 <= TickMod - Half
      /\ 2 * MaxSlip + 1 < Half /\ lo >= -(2 * MaxSlip + 1)
  BY DEF Bounds, Punctual
<1> QED BY <1>1, <1>2, TickRange

\* A state that differs in what the lists do not depend on.
LEMMA ClockSame ==
  ASSUME NEW s, NEW low, NEW lo, NEW d, Clock(s, low, lo, d), Bounds(low, lo, d),
         NEW r \in ClockState, r.tick = s.tick, r.list = s.list,
         \A x \in Timer : r.init[x] \in 1 .. d,
         \A x \in On(s) : r.timeout[x] = s.timeout[x]
  PROVE  Clock(r, low, lo, d) /\ On(r) = On(s)
         /\ \A x \in On(s) : LeftIn(r, x) = LeftIn(s, x)
<1>1. \A x \in On(s) : LeftIn(r, x) = LeftIn(s, x) BY LeftSame
<1>2. On(r) = On(s) BY DEF On
<1>3. /\ low - MaxSlip \in Int /\ lo \in Int /\ d \in Int /\ 0 \in Int BY BoundsFacts
<1>4. ListOK(r.list["hard"], r, low - MaxSlip, d)
  <2> DEFINE list == s.list["hard"]
  <2>1. list \in Seq(Entry)
    <3>1. list \in Seq(Thread \cup Timer) BY DEF Clock, ClockState
    <3> QED BY <3>1 DEF Entry
  <2>2. ListOK(list, s, low - MaxSlip, d) BY DEF Clock
  <2>3. \A x \in ToSet(list) : LeftIn(r, x) = LeftIn(s, x) - 0 /\ LeftIn(r, x) \in low - MaxSlip .. d
    BY <1>1, <2>2 DEF ListOK, On
  <2> HIDE DEF list
  <2>4. ListOK(list, r, low - MaxSlip, d) BY <1>3, <2>1, <2>2, <2>3, SameOrder
  <2> QED BY <2>4 DEF list
<1>5. ListOK(r.list["soft"], r, lo, d)
  <2> DEFINE list == s.list["soft"]
  <2>1. list \in Seq(Entry)
    <3>1. list \in Seq(Thread \cup Timer) BY DEF Clock, ClockState
    <3> QED BY <3>1 DEF Entry
  <2>2. ListOK(list, s, lo, d) BY DEF Clock
  <2>3. \A x \in ToSet(list) : LeftIn(r, x) = LeftIn(s, x) - 0 /\ LeftIn(r, x) \in lo .. d
    BY <1>1, <2>2 DEF ListOK, On
  <2> HIDE DEF list
  <2>4. ListOK(list, r, lo, d) BY <1>3, <2>1, <2>2, <2>3, SameOrder
  <2> QED BY <2>4 DEF list
<1>6. Clock(r, low, lo, d) BY <1>1, <1>4, <1>5 DEF Clock, On
<1> QED BY <1>1, <1>2, <1>6

\* SetTimeout for a timer that is off its list.
LEMMA SetTimeoutClock ==
  ASSUME NEW s, NEW low, NEW lo, NEW d, Clock(s, low, lo, d), Bounds(low, lo, d),
         NEW x \in Entry, x \notin On(s), NEW ticks \in 0 .. Half - 1
  PROVE  LET r == SetTimeout(s, x, ticks)
         IN  /\ Clock(r, low, lo, d) /\ r.tick = s.tick /\ r.list = s.list /\ r.init = s.init
             /\ r.active = s.active /\ r.periodic = s.periodic
             /\ LeftIn(r, x) = ticks
             /\ \A y \in Entry \ {x} : r.timeout[y] = s.timeout[y] /\ LeftIn(r, y) = LeftIn(s, y)
<1> DEFINE r == SetTimeout(s, x, ticks)
           v == (s.tick + ticks) % TickMod
<1>1. s \in ClockState /\ \A y \in Timer : s.init[y] \in 1 .. d BY DEF Clock
<1>2. v \in 0 .. TickMax
  <2>1. s.tick \in 0 .. TickMax BY <1>1 DEF ClockState
  <2> DEFINE z == s.tick + ticks
  <2>2. z \in 0 .. 3 * TickMod - 1 /\ TickMod \in Nat \ {0} BY <2>1, TickRange
  <2>3. z % TickMod = IF z < TickMod THEN z
                      ELSE IF z < 2 * TickMod THEN z - TickMod ELSE z - 2 * TickMod
    BY <2>2, ModThrice
  <2> QED BY <2>1, <2>3, TickRange
<1> HIDE DEF v
<1>3. r = [s EXCEPT !.timeout[x] = v] BY DEF SetTimeout, v
<1>4. /\ r \in ClockState /\ r.tick = s.tick /\ r.list = s.list /\ r.init = s.init
      /\ r.active = s.active /\ r.periodic = s.periodic
      /\ r.timeout = [s.timeout EXCEPT ![x] = v]
  BY <1>1, <1>2, <1>3 DEF ClockState, Entry
<1> HIDE DEF r
<1>5. r.timeout[x] = v /\ \A y \in Entry \ {x} : r.timeout[y] = s.timeout[y]
  BY <1>1, <1>4 DEF ClockState, Entry
<1>6. LeftIn(r, x) = ticks
  <2>1. r.tick \in 0 .. TickMax BY <1>4 DEF ClockState
  <2>2. r.timeout[x] = (r.tick + ticks) % TickMod BY <1>4, <1>5 DEF v
  <2> QED BY <2>1, <2>2, LeftSet
<1>7. \A y \in On(s) : r.timeout[y] = s.timeout[y] BY <1>5, ListsApart
<1>8. Clock(r, low, lo, d) BY <1>1, <1>4, <1>7, ClockSame
<1>9. \A y \in Entry \ {x} : LeftIn(r, y) = LeftIn(s, y) BY <1>4, <1>5, LeftSame
<1> QED BY <1>4, <1>5, <1>6, <1>8, <1>9 DEF r

\* Tidy forgets nothing that a list or a call still needs.
LEMMA TidyClock ==
  ASSUME NEW s, NEW low, NEW lo, NEW d, Clock(s, low, lo, d), Bounds(low, lo, d), NEW U
  PROVE  LET r == Tidy(s, U)
         IN  /\ Clock(r, low, lo, d) /\ r.tick = s.tick /\ r.list = s.list /\ r.init = s.init
             /\ r.active = s.active /\ r.periodic = s.periodic
             /\ \A y \in Entry \cap (On(s) \cup U) : /\ r.timeout[y] = s.timeout[y]
                                                     /\ LeftIn(r, y) = LeftIn(s, y)
<1> DEFINE r == Tidy(s, U)
<1>1. s \in ClockState /\ \A y \in Timer : s.init[y] \in 1 .. d BY DEF Clock
<1>2. r = [s EXCEPT !.timeout = [x \in Entry |-> IF x \in On(s) \cup U THEN s.timeout[x] ELSE 0]]
  BY DEF Tidy, On, Entry
<1>3. /\ r \in ClockState /\ r.tick = s.tick /\ r.list = s.list /\ r.init = s.init
      /\ r.active = s.active /\ r.periodic = s.periodic
      /\ \A y \in Entry \cap (On(s) \cup U) : r.timeout[y] = s.timeout[y]
  <2>1. 0 \in 0 .. TickMax BY TickRange
  <2>2. [x \in Entry |-> IF x \in On(s) \cup U THEN s.timeout[x] ELSE 0] \in [Entry -> 0 .. TickMax]
    BY <1>1, <2>1 DEF ClockState, Entry
  <2> QED BY <1>1, <1>2, <2>2 DEF ClockState, Entry
<1> HIDE DEF r
<1>4. \A y \in On(s) : r.timeout[y] = s.timeout[y] BY <1>3, ListsApart
<1>5. Clock(r, low, lo, d) BY <1>1, <1>3, <1>4, ClockSame
<1>6. \A y \in Entry \cap (On(s) \cup U) : LeftIn(r, y) = LeftIn(s, y) BY <1>3, LeftSame
<1> QED BY <1>3, <1>5, <1>6 DEF r

\* Taking a timer off its list.
LEMMA RemoveClock ==
  ASSUME NEW s, NEW low, NEW lo, NEW d, Clock(s, low, lo, d), Bounds(low, lo, d),
         NEW x \in Entry
  PROVE  LET r == TimerRemove(s, x)
         IN  /\ Clock(r, low, lo, d) /\ r.tick = s.tick /\ r.init = s.init
             /\ r.timeout = s.timeout /\ r.active = s.active /\ r.periodic = s.periodic
             /\ \A y : LeftIn(r, y) = LeftIn(s, y)
             /\ On(r) = On(s) \ {x}
             /\ x \in Soft => r.list["hard"] = s.list["hard"]
             /\ x \notin Soft => r.list["soft"] = s.list["soft"]
             /\ r.list[ListOf(x)] = RemoveFirst(s.list[ListOf(x)], x)
             /\ x \notin On(s) => r.list = s.list
<1> DEFINE r == TimerRemove(s, x)
           l == ListOf(x)
           list == RemoveFirst(s.list[l], x)
<1>1. /\ s \in ClockState /\ \A y \in Timer : s.init[y] \in 1 .. d
      /\ \A y \in ToSet(s.list["hard"]) \cap Thread : LeftIn(s, y) >= low
  BY DEF Clock
<1>2. l \in {"hard", "soft"} /\ (x \in Soft => l = "soft") /\ (x \notin Soft => l = "hard")
  BY DEF ListOf
<1>3. r = [s EXCEPT !.list[l] = list] BY <1>1 DEF TimerRemove, ClockState
<1> DEFINE X == IF x \in Soft THEN Soft ELSE Thread \cup (Timer \ Soft)
           b == IF x \in Soft THEN lo ELSE low - MaxSlip
<1>4. s.list[l] \in Seq(X) /\ ListOK(s.list[l], s, b, d) /\ b \in Int /\ d \in Int
  BY <1>2, BoundsFacts DEF Clock
<1>5. /\ list \in Seq(X) /\ ToSet(list) = ToSet(s.list[l]) \ {x} /\ ListOK(list, s, b, d)
      /\ x \notin ToSet(s.list[l]) => list = s.list[l]
  <2> DEFINE old == s.list[l]
  <2>1. old \in Seq(X) /\ ListOK(old, s, b, d) BY <1>4
  <2> HIDE DEF X, b, old
  <2>2. /\ RemoveFirst(old, x) \in Seq(X) /\ ToSet(RemoveFirst(old, x)) = ToSet(old) \ {x}
        /\ ListOK(RemoveFirst(old, x), s, b, d)
        /\ x \notin ToSet(old) => RemoveFirst(old, x) = old
    BY <1>4, <2>1, RemoveKeepsOrder
  <2> QED BY <2>2 DEF old
<1> HIDE DEF list
<1>6. list \in Seq(Thread \cup Timer) BY <1>5, TimersAssumption
<1>7. /\ r \in ClockState /\ r.tick = s.tick /\ r.init = s.init
      /\ r.timeout = s.timeout /\ r.active = s.active /\ r.periodic = s.periodic
      /\ r.list = [s.list EXCEPT ![l] = list]
  BY <1>1, <1>2, <1>3, <1>6 DEF ClockState
<1> HIDE DEF r, l
<1>8. r.list[l] = list /\ \A m \in {"hard", "soft"} \ {l} : r.list[m] = s.list[m]
  BY <1>1, <1>2, <1>7 DEF ClockState
<1>9. \A y : LeftIn(r, y) = LeftIn(s, y) BY <1>7, LeftSame
<1>10. \A m, a : ListOK(m, s, a, d) => ListOK(m, r, a, d)
  <2>1. ByDue(r) = ByDue(s) BY <1>9 DEF ByDue
  <2> QED BY <1>9, <2>1 DEF ListOK
<1>11. x \notin On(s) => r.list = s.list
  <2> HAVE x \notin On(s)
  <2>1. x \notin ToSet(s.list[l]) BY <1>2 DEF On
  <2> QED BY <1>1, <1>2, <1>5, <1>7, <2>1 DEF ClockState
<1>12. CASE x \in Soft
  <2>1. r.list["soft"] = list /\ r.list["hard"] = s.list["hard"] /\ l = "soft"
    BY <1>2, <1>8, <1>12
  <2>2. Clock(r, low, lo, d)
    BY <1>1, <1>5, <1>7, <1>9, <1>10, <1>12, <2>1 DEF Clock
  <2>3. On(r) = On(s) \ {x} BY <1>5, <1>12, <2>1, ListsApart DEF On
  <2> QED BY <1>7, <1>9, <1>11, <1>12, <2>1, <2>2, <2>3 DEF r, l, list
<1>13. CASE x \notin Soft
  <2>1. r.list["hard"] = list /\ r.list["soft"] = s.list["soft"] /\ l = "hard"
    BY <1>2, <1>8, <1>13
  <2>2. Clock(r, low, lo, d)
    BY <1>1, <1>5, <1>7, <1>9, <1>10, <1>13, <2>1 DEF Clock
  <2>3. On(r) = On(s) \ {x} BY <1>5, <1>13, <2>1, ListsApart DEF On
  <2> QED BY <1>7, <1>9, <1>11, <1>13, <2>1, <2>2, <2>3 DEF r, l, list
<1> QED BY <1>12, <1>13

\* Putting a timer on its list.
LEMMA InsertClock ==
  ASSUME NEW s, NEW low, NEW lo, NEW d, Clock(s, low, lo, d), Bounds(low, lo, d),
         NEW x \in Entry, x \notin On(s), LeftIn(s, x) >= 1 - MaxSlip, LeftIn(s, x) <= d,
         x \in Thread => LeftIn(s, x) >= low, x \in Soft => LeftIn(s, x) >= lo
  PROVE  LET r == Insert(s, x)
         IN  /\ Clock(r, low, lo, d) /\ r.tick = s.tick /\ r.init = s.init
             /\ r.timeout = s.timeout /\ r.periodic = s.periodic
             /\ r.active = IF x \in Timer THEN s.active \cup {x} ELSE s.active
             /\ \A y : LeftIn(r, y) = LeftIn(s, y)
             /\ On(r) = On(s) \cup {x}
             /\ x \in Soft => r.list["hard"] = s.list["hard"] /\ r.list["soft"] # <<>>
             /\ x \notin Soft => r.list["soft"] = s.list["soft"]
             /\ \A m, G : x \in G /\ Covered(s.list["soft"], m, G) => Covered(r.list["soft"], m, G)
<1> DEFINE r == Insert(s, x)
           l == ListOf(x)
           old == s.list[l]
           later == SelectInSeq(old, LAMBDA y : Later(s, y, x))
           place == IF later = 0 THEN Len(old) + 1 ELSE later
           list == InsertAt(old, place, x)
           active == IF x \in Timer THEN s.active \cup {x} ELSE s.active
<1>1. /\ s \in ClockState /\ \A y \in Timer : s.init[y] \in 1 .. d
      /\ \A y \in ToSet(s.list["hard"]) \cap Thread : LeftIn(s, y) >= low
  BY DEF Clock
<1>2. l \in {"hard", "soft"} /\ (x \in Soft => l = "soft") /\ (x \notin Soft => l = "hard")
  BY DEF ListOf
<1>3. r = [s EXCEPT !.list[l] = list, !.active = active] BY <1>1 DEF Insert, ClockState
<1> DEFINE X == IF x \in Soft THEN Soft ELSE Thread \cup (Timer \ Soft)
           b == IF x \in Soft THEN lo ELSE low - MaxSlip
<1>4. /\ old \in Seq(X) /\ ListOK(old, s, b, d) /\ b \in Int /\ d \in Int
      /\ x \in X /\ X \in SUBSET Entry /\ x \notin ToSet(old)
      /\ d + MaxSlip <= Half /\ d - b <= TickMod - Half
  BY <1>2, BoundsFacts, TimersAssumption DEF Clock, On, Entry
<1>5. LeftIn(s, x) \in b .. d
  <2>1. Ticking(s, x) BY <1>1 DEF Ticking, ClockState, Entry
  <2>2. LeftIn(s, x) \in Int BY <2>1, LeftIs
  <2>3. x \notin Soft => LeftIn(s, x) >= low - MaxSlip BY <2>2, BoundsFacts, TickRange
  <2> QED BY <2>2, <2>3, <1>4
<1>6. /\ list \in Seq(X) /\ list # <<>> /\ ToSet(list) = ToSet(old) \cup {x}
      /\ ListOK(list, s, b, d)
      /\ \A m, G : x \in G /\ Covered(old, m, G) => Covered(list, m, G)
  <2> HIDE DEF X, b, old
  <2> QED BY <1>1, <1>4, <1>5, InsertKeepsOrder
<1> HIDE DEF list
<1>7. list \in Seq(Thread \cup Timer) /\ active \in SUBSET Timer
  BY <1>1, <1>6, TimersAssumption DEF ClockState
<1> HIDE DEF active
<1>8. /\ r \in ClockState /\ r.tick = s.tick /\ r.init = s.init
      /\ r.timeout = s.timeout /\ r.active = active /\ r.periodic = s.periodic
      /\ r.list = [s.list EXCEPT ![l] = list]
  <2> DEFINE lists == [s.list EXCEPT ![l] = list]
  <2>1. r = [s EXCEPT !.list = lists, !.active = active] BY <1>3
  <2>2. lists \in [{"hard", "soft"} -> Seq(Thread \cup Timer)]
    BY <1>1, <1>2, <1>7 DEF ClockState
  <2> HIDE DEF lists, r
  <2>3. /\ r.tick = s.tick /\ r.init = s.init /\ r.timeout = s.timeout
        /\ r.active = active /\ r.periodic = s.periodic /\ r.list = lists
    BY <1>1, <2>1 DEF ClockState
  <2>4. r \in ClockState BY <1>1, <1>7, <2>1, <2>2 DEF ClockState
  <2> QED BY <2>3, <2>4 DEF lists
<1> HIDE DEF r, l
<1>9. r.list[l] = list /\ \A m \in {"hard", "soft"} \ {l} : r.list[m] = s.list[m]
  BY <1>1, <1>2, <1>8 DEF ClockState
<1>10. \A y : LeftIn(r, y) = LeftIn(s, y) BY <1>8, LeftSame
<1>11. \A m, a : ListOK(m, s, a, d) => ListOK(m, r, a, d)
  <2>1. ByDue(r) = ByDue(s) BY <1>10 DEF ByDue
  <2> QED BY <1>10, <2>1 DEF ListOK
<1>12. CASE x \in Soft
  <2>1. /\ r.list["soft"] = list /\ r.list["hard"] = s.list["hard"] /\ l = "soft"
        /\ old = s.list["soft"]
    BY <1>2, <1>9, <1>12
  <2>2. Clock(r, low, lo, d)
    BY <1>1, <1>6, <1>8, <1>10, <1>11, <1>12, <2>1 DEF Clock
  <2>3. On(r) = On(s) \cup {x} BY <1>6, <2>1 DEF On
  <2> QED BY <1>6, <1>8, <1>10, <1>12, <2>1, <2>2, <2>3 DEF r, active
<1>13. CASE x \notin Soft
  <2>1. /\ r.list["hard"] = list /\ r.list["soft"] = s.list["soft"] /\ l = "hard"
        /\ old = s.list["hard"]
    BY <1>2, <1>9, <1>13
  <2>2. Clock(r, low, lo, d)
    BY <1>1, <1>6, <1>8, <1>10, <1>11, <1>13, <2>1 DEF Clock
  <2>3. On(r) = On(s) \cup {x} BY <1>6, <2>1 DEF On
  <2> QED BY <1>6, <1>8, <1>10, <1>13, <2>1, <2>2, <2>3 DEF r, active
<1> QED BY <1>12, <1>13

\* Only the list's own members matter for what covers it.
LEMMA CoveredSame ==
  ASSUME NEW list, NEW m, NEW G, NEW F, Covered(list, m, G),
         \A x \in ToSet(list) : x \in G => x \in F
  PROVE  Covered(list, m, F)
<1>1. \A j \in 1 .. Len(list) : list[j] \in ToSet(list) BY DEF ToSet
<1> QED BY <1>1 DEF Covered

NotBefore(s, z) == {y \in Soft : LeftIn(s, y) >= z}

\* rt_timer_start where nothing comes in between, of a timer that is off.
LEMMA StartNowClock ==
  ASSUME NEW s, NEW low, NEW lo, NEW d, Clock(s, low, lo, d), Bounds(low, lo, d),
         NEW x \in Timer, x \notin On(s), x \notin s.active
  PROVE  LET r == StartNow(s, x)
         IN  /\ Clock(r, low, lo, d) /\ r.tick = s.tick /\ r.init = s.init
             /\ r.periodic = s.periodic /\ r.active = s.active \cup {x}
             /\ \A y \in Entry \ {x} : r.timeout[y] = s.timeout[y] /\ LeftIn(r, y) = LeftIn(s, y)
             /\ LeftIn(r, x) >= 1
             /\ On(r) = On(s) \cup {x}
             /\ x \in Soft => r.list["hard"] = s.list["hard"]
             /\ x \notin Soft => r.list["soft"] = s.list["soft"]
             /\ \A m : \A z \in Int : z <= 1 /\ Covered(s.list["soft"], m, NotBefore(s, z))
                          => Covered(r.list["soft"], m, NotBefore(r, z))
<1> DEFINE ticks == s.init[x]
           a == SetTimeout(s, x, ticks)
           r == Insert(a, x)
<1>1. x \in Entry /\ x \notin Thread BY TimersAssumption DEF Entry
<1>2. ticks \in 0 .. Half - 1 /\ ticks \in 1 .. d BY DEF Clock, ClockState
<1>3. /\ Clock(a, low, lo, d) /\ a.tick = s.tick /\ a.list = s.list /\ a.init = s.init
      /\ a.active = s.active /\ a.periodic = s.periodic
      /\ LeftIn(a, x) = ticks
      /\ \A y \in Entry \ {x} : a.timeout[y] = s.timeout[y] /\ LeftIn(a, y) = LeftIn(s, y)
  <2> HIDE DEF ticks
  <2> QED BY <1>1, <1>2, SetTimeoutClock
<1>4. On(a) = On(s) BY <1>3 DEF On
<1> HIDE DEF a
<1>5. /\ LeftIn(a, x) >= 1 - MaxSlip /\ LeftIn(a, x) <= d /\ LeftIn(a, x) >= lo
      /\ x \notin On(a)
  <2>1. lo <= 1 /\ lo \in Int /\ d \in Int BY BoundsFacts DEF Bounds
  <2> QED BY <1>2, <1>3, <1>4, <2>1, TickRange
<1>6. /\ Clock(r, low, lo, d) /\ r.tick = a.tick /\ r.init = a.init
      /\ r.timeout = a.timeout /\ r.periodic = a.periodic
      /\ r.active = IF x \in Timer THEN a.active \cup {x} ELSE a.active
      /\ \A y : LeftIn(r, y) = LeftIn(a, y)
      /\ On(r) = On(a) \cup {x}
      /\ x \in Soft => r.list["hard"] = a.list["hard"]
      /\ x \notin Soft => r.list["soft"] = a.list["soft"]
      /\ \A m, G : x \in G /\ Covered(a.list["soft"], m, G) => Covered(r.list["soft"], m, G)
  BY <1>1, <1>3, <1>5, InsertClock
<1>7. StartNow(s, x) = r BY DEF StartNow, a
<1> HIDE DEF r
<1>8. ASSUME NEW m, NEW z \in Int, z <= 1, Covered(s.list["soft"], m, NotBefore(s, z))
      PROVE  Covered(r.list["soft"], m, NotBefore(r, z))
  <2>1. CASE x \in Soft
    <3>1. ToSet(s.list["soft"]) \subseteq On(s) /\ On(s) \subseteq Entry BY ListsApart DEF On
    <3>2. \A y \in ToSet(s.list["soft"]) : y \in NotBefore(s, z) => y \in NotBefore(r, z)
      BY <1>3, <1>6, <3>1 DEF NotBefore
    <3>3. Covered(s.list["soft"], m, NotBefore(r, z)) BY <1>8, <3>2, CoveredSame
    <3>4. x \in NotBefore(r, z) BY <1>2, <1>3, <1>6, <1>8, <2>1 DEF NotBefore
    <3> QED BY <1>3, <1>6, <3>3, <3>4
  <2>2. CASE x \notin Soft
    <3>1. ToSet(s.list["soft"]) \subseteq On(s) /\ On(s) \subseteq Entry BY ListsApart DEF On
    <3>2. \A y \in ToSet(s.list["soft"]) : y \in NotBefore(s, z) => y \in NotBefore(r, z)
      BY <1>3, <1>6, <3>1 DEF NotBefore
    <3>3. Covered(s.list["soft"], m, NotBefore(r, z)) BY <1>8, <3>2, CoveredSame
    <3> QED BY <1>3, <1>6, <2>2, <3>3
  <2> QED BY <2>1, <2>2
<1> QED BY <1>2, <1>3, <1>4, <1>6, <1>7, <1>8

\* rt_timer_stop where nothing comes in between, of a timer that is on.
LEMMA StopNowClock ==
  ASSUME NEW s, NEW low, NEW lo, NEW d, Clock(s, low, lo, d), Bounds(low, lo, d),
         NEW x \in Timer, x \in s.active
  PROVE  LET r == StopNow(s, x)
         IN  /\ Clock(r, low, lo, d) /\ r.tick = s.tick /\ r.init = s.init
             /\ r.periodic = s.periodic /\ r.active = s.active \ {x}
             /\ r.timeout = s.timeout /\ \A y : LeftIn(r, y) = LeftIn(s, y)
             /\ On(r) = On(s) \ {x}
             /\ x \in Soft => r.list["hard"] = s.list["hard"]
             /\ x \notin Soft => r.list["soft"] = s.list["soft"]
             /\ x \notin On(s) => r.list = s.list
<1> DEFINE a == TimerRemove(s, x)
           r == [a EXCEPT !.active = @ \ {x}]
<1>1. x \in Entry BY DEF Entry
<1>2. /\ Clock(a, low, lo, d) /\ a.tick = s.tick /\ a.init = s.init
      /\ a.timeout = s.timeout /\ a.active = s.active /\ a.periodic = s.periodic
      /\ \A y : LeftIn(a, y) = LeftIn(s, y)
      /\ On(a) = On(s) \ {x}
      /\ x \in Soft => a.list["hard"] = s.list["hard"]
      /\ x \notin Soft => a.list["soft"] = s.list["soft"]
      /\ x \notin On(s) => a.list = s.list
  BY <1>1, RemoveClock
<1>3. StopNow(s, x) = r BY DEF StopNow
<1> HIDE DEF a
<1>4. a \in ClockState /\ \A y \in Timer : a.init[y] \in 1 .. d BY <1>2 DEF Clock
<1>5. /\ r \in ClockState /\ r.tick = a.tick /\ r.init = a.init /\ r.list = a.list
      /\ r.timeout = a.timeout /\ r.active = a.active \ {x} /\ r.periodic = a.periodic
  BY <1>4 DEF ClockState
<1> HIDE DEF r
<1>6. Clock(r, low, lo, d) /\ On(r) = On(a)
  BY <1>2, <1>4, <1>5, ClockSame
<1>7. \A y : LeftIn(r, y) = LeftIn(a, y) BY <1>5, LeftSame
<1> QED BY <1>2, <1>3, <1>5, <1>6, <1>7

-----------------------------------------------------------------------------
(***************************************************************************)
(* The flags, and what the functions of timers do.                         *)
(***************************************************************************)

\* the flags of s agree with its lists, except for the timers in O
FlagsOK(s, O) ==
    /\ \A x \in Timer \ O : x \in s.active <=> x \in On(s)
    /\ On(s) \cap Timer \subseteq s.active

Operated == UNION {AppTimer[t] : t \in App}

\* r is what is left of s, where timer x has expired and the timers in O are
\* those that calls are in progress on, by the function of x
Applied(s, r, low, lo, d, x, O) ==
    /\ Clock(r, low, lo, d) /\ r.tick = s.tick /\ r.init = s.init
    /\ r.periodic = s.periodic
    /\ x \notin On(r) /\ FlagsOK(r, O \cup {x})
    /\ x \in Soft => r.list["hard"] = s.list["hard"] /\ On(s) \subseteq On(r)
    /\ x \notin Soft => r.list["soft"] = s.list["soft"]
    /\ On(r) \cap Thread = On(s) \cap Thread
    /\ \A y \in On(s) \cup O \cup {x} : /\ r.timeout[y] = s.timeout[y]
                                        /\ LeftIn(r, y) = LeftIn(s, y)
    /\ \A y \in O \ {x} : /\ y \in On(r) <=> y \in On(s)
                          /\ y \in r.active <=> y \in s.active
    /\ \A m : \A z \in Int :
          x \in Soft /\ z <= 1 /\ Covered(s.list["soft"], m, NotBefore(s, z))
             => Covered(r.list["soft"], m, NotBefore(r, z))

\* The function of timer x, which is off its list, leaves the lists in order.
LEMMA ApplyClock ==
  ASSUME NEW s, NEW low, NEW lo, NEW d, NEW x \in Timer, NEW e \in Effects[x], NEW O \in SUBSET Timer,
         Clock(s, low, lo, d), Bounds(low, lo, d),
         CallbacksApart, x \notin On(s), x \in s.active, FlagsOK(s, O \cup {x}),
         \A y \in O : y \in Operated \/ (y \in Soft /\ x \notin Soft)
  PROVE  Applied(s, Apply(s, e), low, lo, d, x, O)
<1> USE DEF Applied
<1> DEFINE r == Apply(s, e)
           y == e.arg
<1>1. /\ e \in Effect /\ y \in Timer
      /\ e.op = "none" \/ (y \in Soft <=> x \in Soft)
      /\ e.op = "none" \/ y = x \/ (y \notin Operated /\ (x \in Soft => e.op = "start"))
      /\ e.op \in {"none", "start", "stop"}
  BY TimersAssumption DEF CallbacksApart, Operated, Effect
<1>2. On(s) \subseteq Entry /\ Timer \cap Thread = {} /\ Soft \subseteq Timer BY ListsApart
<1>3. CASE r = s BY <1>3
<1>4. CASE e.op = "start" /\ y \notin s.active
  <2>1. r = StartNow(s, y) BY <1>4 DEF Apply
  <2>2. y # x /\ y \notin Operated /\ y \notin On(s) /\ (y \in Soft <=> x \in Soft)
    BY <1>1, <1>4 DEF FlagsOK
  <2> HIDE DEF r
  <2>3. /\ Clock(r, low, lo, d) /\ r.tick = s.tick /\ r.init = s.init
        /\ r.periodic = s.periodic /\ r.active = s.active \cup {y}
        /\ \A u \in Entry \ {y} : r.timeout[u] = s.timeout[u] /\ LeftIn(r, u) = LeftIn(s, u)
        /\ On(r) = On(s) \cup {y}
        /\ y \in Soft => r.list["hard"] = s.list["hard"]
        /\ y \notin Soft => r.list["soft"] = s.list["soft"]
        /\ \A m : \A z \in Int : z <= 1 /\ Covered(s.list["soft"], m, NotBefore(s, z))
                     => Covered(r.list["soft"], m, NotBefore(r, z))
    <3> HIDE DEF y
    <3> QED BY <1>1, <1>4, <2>1, <2>2, StartNowClock
  <2>4. \A u \in On(s) \cup O \cup {x} : u \in Entry \ {y}
    BY <1>2, <2>2 DEF Entry
  <2>5. FlagsOK(r, O \cup {x}) BY <2>3 DEF FlagsOK
  <2>6. On(r) \cap Thread = On(s) \cap Thread BY <1>1, <1>2, <2>3
  <2>7. \A u \in O \ {x} : (u \in On(r) <=> u \in On(s)) /\ (u \in r.active <=> u \in s.active)
    BY <2>2, <2>3
  <2> HIDE DEF y
  <2> QED BY <2>2, <2>3, <2>4, <2>5, <2>6, <2>7 DEF r
<1>5. CASE e.op = "stop" /\ y \in s.active
  <2>1. r = StopNow(s, y) BY <1>5 DEF Apply
  <2>2. (y # x => y \notin Operated /\ x \notin Soft) /\ (y \in Soft <=> x \in Soft)
    BY <1>1, <1>5
  <2> HIDE DEF r
  <2>3. /\ Clock(r, low, lo, d) /\ r.tick = s.tick /\ r.init = s.init
        /\ r.periodic = s.periodic /\ r.active = s.active \ {y}
        /\ r.timeout = s.timeout /\ \A u : LeftIn(r, u) = LeftIn(s, u)
        /\ On(r) = On(s) \ {y}
        /\ y \in Soft => r.list["hard"] = s.list["hard"]
        /\ y \notin Soft => r.list["soft"] = s.list["soft"]
        /\ y \notin On(s) => r.list = s.list
    <3> HIDE DEF y
    <3> QED BY <1>1, <1>5, <2>1, <2>2, StopNowClock
  <2>4. FlagsOK(r, O \cup {x}) BY <2>3 DEF FlagsOK
  <2>5. On(r) \cap Thread = On(s) \cap Thread BY <1>1, <1>2, <2>3
  <2>6. \A u \in O \ {x} : (u \in On(r) <=> u \in On(s)) /\ (u \in r.active <=> u \in s.active)
    BY <2>2, <2>3
  <2>7. x \in Soft => r.list = s.list BY <2>2, <2>3
  <2>8. \A z \in Int : NotBefore(r, z) = NotBefore(s, z) BY <2>3 DEF NotBefore
  <2>9. x \in Soft => On(s) \subseteq On(r) BY <2>7 DEF On
  <2> HIDE DEF y
  <2> QED BY <2>2, <2>3, <2>4, <2>5, <2>6, <2>7, <2>8, <2>9 DEF r
<1>6. r = s \/ (e.op = "start" /\ y \notin s.active) \/ (e.op = "stop" /\ y \in s.active)
  BY <1>1 DEF Apply, StartNow, StopNow
<1> QED BY <1>3, <1>4, <1>5, <1>6

-----------------------------------------------------------------------------
(***************************************************************************)
(* The inductive invariant: the threads.                                   *)
(***************************************************************************)

\* where the timer thread walks the soft list, with the scheduler locked
Locked == {"check", "callback", "restart", "restart_insert"}

\* where it may be suspended, or woken and not yet running
Asleep == {"suspend_sched", "lock", "delay_sched", "delay_return"}

\* where a thread is about to call rt_schedule to block
Blocking == {"sleep_sched", "suspend_sched", "delay_sched"}

TimerThreadPc == {"run", "next", "suspend", "delay", "unlock_sched", "lost"} \cup Asleep \cup Locked

\* where a thread of the application is in a call about a timer
Handling == {"start_insert", "stop_remove", "stop_clear", "timer_init"}

\* where it is about to wake the timer thread
WakingPc == {"start_test", "start_resume", "start_ready", "start_sched"}

Sleeping == {"sleep_sched", "sleep_return"}

AppPc == {"run"} \cup Sleeping \cup Handling \cup WakingPc

\* where the timer thread has taken a timer off the list
Walking == {"callback", "restart", "restart_insert"}

PlacesOK ==
    /\ pc \in [Thread -> TimersPc] /\ pc[T] \in TimerThreadPc /\ pc[Idle] = "run"
    /\ \A t \in App : pc[t] \in AppPc
    /\ \A t \in App : pc[t] \in WakingPc => AppTimer[t] \cap Soft # {}
    /\ k.current = NoThread => \A t \in Thread : pc[t] = "run"

\* the scheduler, which the timer thread locks
SchedulerOK ==
    /\ k \in KernelState /\ KernelOK(k) /\ k.current # Wild
    /\ k.prio = InitPriority
    /\ k.nest = IF pc[T] \in Locked THEN 1 ELSE 0
    /\ \A q \in Queue : k.wait[q] = <<>>
    /\ k.current # NoThread => k.stat[Idle] = "ready"
    /\ \A t \in Thread : k.stat[t] \in {"none", "ready", "suspend"}
    /\ \A t \in Thread : k.current = t /\ pc[t] \notin Blocking => k.stat[t] = "ready"
    /\ \A t \in App : k.stat[t] = "suspend" => pc[t] \in Sleeping
    /\ irq \in {NoThread, Handler, T} /\ (irq = T <=> pc[T] = "lost")
    /\ irq # NoThread => k.current \in Thread

\* the timer thread runs when it can
TimerThreadOK ==
    /\ k.current \in Thread /\ k.stat[T] = "ready" =>
          k.current = T \/ (pc[k.current] = "start_sched" /\ pc[T] \in Asleep)
    /\ k.stat[T] = "suspend" => pc[T] \in Asleep
    /\ k.stat[T] = "none" => pc[T] = "run"
    /\ \A t \in App : pc[t] = "start_ready" => k.stat[T] = "suspend" /\ T \notin k.armed

ThreadsOK == PlacesOK /\ SchedulerOK /\ TimerThreadOK

-----------------------------------------------------------------------------
(***************************************************************************)
(* The steps of the threads.                                               *)
(***************************************************************************)
LEMMA ThreadKinds ==
  /\ T \in Thread /\ T # Idle /\ Idle \in Thread /\ App \subseteq Thread
  /\ T \notin App /\ Idle \notin App /\ \A t \in Thread : t \in App \/ t = T \/ t = Idle
  /\ NoThread \notin Thread /\ Wild \notin Thread /\ Handler \notin Thread
  /\ Handler # NoThread
BY TimersAssumption, KernelAssumption DEF T, App

\* What follows while a thread other than the timer thread runs.
LEMMA OtherRuns ==
  ASSUME ThreadsOK, k.current \in Thread, k.current # T
  PROVE  /\ pc[T] \in Asleep \/ (pc[T] = "run" /\ k.stat[T] = "none")
         /\ k.stat[T] = "ready" => pc[k.current] = "start_sched"
         /\ k.nest = 0 /\ irq # T
<1>1. k.stat[T] \in {"none", "ready", "suspend"} BY ThreadKinds DEF ThreadsOK, SchedulerOK
<1>2. pc[T] \in Asleep \/ (pc[T] = "run" /\ k.stat[T] = "none")
  BY <1>1 DEF ThreadsOK, TimerThreadOK
<1>3. k.stat[T] = "ready" => pc[k.current] = "start_sched" BY DEF ThreadsOK, TimerThreadOK
<1>4. pc[T] \notin Locked /\ pc[T] # "lost" BY <1>2 DEF Asleep, Locked
<1> QED BY <1>2, <1>3, <1>4 DEF ThreadsOK, SchedulerOK

\* rt_schedule elects the timer thread if it is READY.
LEMMA TimerThreadElected ==
  ASSUME NEW c \in KernelState, KernelOK(c), c.stat[Idle] = "ready", c.prio = InitPriority,
         Elected(c), TimerThreadFirst
  PROVE  /\ c.current \in Thread /\ c.stat[c.current] = "ready"
         /\ c.stat[T] = "ready" => c.current = T
<1>1. /\ c.current \in Thread /\ c.stat[c.current] = "ready"
      /\ \A v \in Thread : c.stat[v] = "ready" => c.prio[c.current] <= c.prio[v]
  BY ElectedIsBest
<1>2. ASSUME c.stat[T] = "ready", c.current # T PROVE FALSE
  <2>1. InitPriority[c.current] <= InitPriority[T] BY <1>1, <1>2, ThreadKinds
  <2>2. InitPriority[T] < InitPriority[c.current] BY <1>1, <1>2 DEF TimerThreadFirst
  <2>3. InitPriority[T] \in Int /\ InitPriority[c.current] \in Int
    BY <1>1, KernelAssumption, ThreadKinds DEF Priority
  <2> QED BY <2>1, <2>2, <2>3
<1> QED BY <1>1, <1>2

\* A step of the current thread that changes its place only.
LEMMA ThreadGoesOn ==
  ASSUME ThreadsOK, NEW t \in Thread, Running(t), NEW to,
         pc' = [pc EXCEPT ![t] = to], k' = k, irq' = irq,
         \/ /\ t \in App /\ pc[t] \notin {"start_sched", "start_ready"} \cup Blocking
            /\ to \in AppPc \ ({"start_ready"} \cup Sleeping)
            /\ to \in WakingPc => AppTimer[t] \cap Soft # {}
         \/ /\ t = T /\ pc[T] \notin {"lost"} \cup Blocking
            /\ to \in TimerThreadPc \ ({"lost"} \cup Blocking)
            /\ to \in Locked <=> pc[T] \in Locked
  PROVE  ThreadsOK'
<1>1. /\ pc \in [Thread -> TimersPc] /\ k.current = t /\ k.stat[t] = "ready"
      /\ pc'[t] = to /\ \A u \in Thread \ {t} : pc'[u] = pc[u]
  BY DEF ThreadsOK, PlacesOK, SchedulerOK, Running
<1>2. t # Idle /\ k.current # NoThread BY <1>1, ThreadKinds
<1>3. to \in TimersPc
  BY DEF AppPc, TimerThreadPc, TimersPc, Sleeping, Handling, WakingPc, Asleep, Locked
<1>4. pc' \in [Thread -> TimersPc] BY <1>1, <1>3
<1>5. CASE t \in App
  <2>1. to \in AppPc \ ({"start_ready"} \cup Sleeping) /\ pc[t] \notin {"start_sched", "start_ready"} \cup Blocking
        /\ (to \in WakingPc => AppTimer[t] \cap Soft # {}) /\ t # T
    BY <1>5, ThreadKinds
  <2>2. pc'[T] = pc[T] BY <1>1, <2>1, ThreadKinds
  <2>3. k.stat[T] # "ready" BY <1>1, <2>1, OtherRuns
  <2>4. PlacesOK' BY <1>1, <1>2, <1>4, <2>1, <2>2, ThreadKinds DEF ThreadsOK, PlacesOK
  <2>5. SchedulerOK' BY <1>1, <2>1, <2>2, ThreadKinds DEF ThreadsOK, SchedulerOK
  <2>6. TimerThreadOK' BY <1>1, <2>1, <2>2, <2>3, ThreadKinds DEF ThreadsOK, TimerThreadOK
  <2> QED BY <2>4, <2>5, <2>6 DEF ThreadsOK
<1>6. CASE t = T
  <2>1. /\ pc[T] \notin {"lost"} \cup Blocking /\ to \in TimerThreadPc \ ({"lost"} \cup Blocking)
        /\ to \in Locked <=> pc[T] \in Locked
    BY <1>6, ThreadKinds
  <2>2. \A u \in App : pc'[u] = pc[u] BY <1>1, <1>6, ThreadKinds
  <2>3. PlacesOK' BY <1>1, <1>2, <1>4, <1>6, <2>1, <2>2, ThreadKinds DEF ThreadsOK, PlacesOK
  <2>4. SchedulerOK' BY <1>1, <1>6, <2>1, <2>2, ThreadKinds DEF ThreadsOK, SchedulerOK
  <2>5. TimerThreadOK' BY <1>1, <1>6, <2>1, <2>2, ThreadKinds DEF ThreadsOK, TimerThreadOK
  <2> QED BY <2>3, <2>4, <2>5 DEF ThreadsOK
<1> QED BY <1>5, <1>6

\* rt_schedule, at the end of a call or where a thread blocks.
LEMMA Reschedules ==
  ASSUME ThreadsOK, TimerThreadFirst, NEW t \in Thread, NEW from, NEW to,
         ScheduleStep(t, from, to),
         \/ t \in App /\ from = "start_sched" /\ to = "run"
         \/ t \in App /\ from = "sleep_sched" /\ to = "sleep_return"
         \/ t = T /\ from = "suspend_sched" /\ to = "lock"
         \/ t = T /\ from = "delay_sched" /\ to = "delay_return"
         \/ t = T /\ from = "unlock_sched" /\ to = "run"
  PROVE  ThreadsOK' /\ k'.stat = k.stat /\ k'.armed = k.armed
<1>1. /\ pc \in [Thread -> TimersPc] /\ k.current = t /\ k.current \in Thread
      /\ pc[t] = from /\ pc' = [pc EXCEPT ![t] = to] /\ irq' = irq
      /\ k' = Schedule(k) /\ k \in KernelState /\ KernelOK(k) /\ k.stat[Idle] = "ready"
      /\ k.prio = InitPriority
  BY ThreadKinds DEF ThreadsOK, PlacesOK, SchedulerOK, ScheduleStep, Running, Goto
<1>2. pc'[t] = to /\ \A u \in Thread \ {t} : pc'[u] = pc[u] BY <1>1
<1>3. k.nest = 0
  BY <1>1, OtherRuns DEF ThreadsOK, SchedulerOK, Locked
<1>4. /\ k' \in KernelState /\ KernelOK(k') /\ Elected(k')
      /\ k'.stat = k.stat /\ k'.prio = k.prio
      /\ k'.wait = k.wait /\ k'.armed = k.armed /\ k'.nest = k.nest
  BY <1>1, <1>3, ScheduleProperties, ScheduleElects
<1>5. k'.current \in Thread /\ k'.stat[k'.current] = "ready" /\ (k'.stat[T] = "ready" => k'.current = T)
  BY <1>1, <1>4, TimerThreadElected
<1>6. k'.current # NoThread /\ k'.current # Wild BY <1>5, ThreadKinds
<1>7. PlacesOK'
  <2>1. to \in TimersPc BY DEF TimersPc
  <2>2. pc' \in [Thread -> TimersPc] BY <1>1, <2>1
  <2>3. pc'[T] \in TimerThreadPc /\ pc'[Idle] = "run"
    BY <1>2, ThreadKinds DEF ThreadsOK, PlacesOK, TimerThreadPc, Asleep
  <2>4. \A u \in App : pc'[u] \in AppPc /\ (pc'[u] \in WakingPc => AppTimer[u] \cap Soft # {})
    BY <1>2, ThreadKinds DEF ThreadsOK, PlacesOK, AppPc, WakingPc, Sleeping
  <2> QED BY <1>6, <2>2, <2>3, <2>4 DEF PlacesOK
<1>8. pc'[T] \in Locked <=> pc[T] \in Locked BY <1>1, <1>2, ThreadKinds DEF Locked
<1>9. pc'[T] = "lost" <=> pc[T] = "lost" BY <1>1, <1>2, ThreadKinds
<1>10. \A u \in App : k.stat[u] = "suspend" => pc'[u] \in Sleeping
  BY <1>1, <1>2, ThreadKinds DEF ThreadsOK, SchedulerOK, Sleeping, Blocking
<1>11. SchedulerOK'
  <2>1. k'.nest = IF pc'[T] \in Locked THEN 1 ELSE 0
    BY <1>4, <1>8 DEF ThreadsOK, SchedulerOK
  <2>2. irq' \in {NoThread, Handler, T} /\ (irq' = T <=> pc'[T] = "lost")
    BY <1>1, <1>9 DEF ThreadsOK, SchedulerOK
  <2>3. \A u \in Thread : k'.stat[u] \in {"none", "ready", "suspend"}
    BY <1>4 DEF ThreadsOK, SchedulerOK
  <2>4. \A q \in Queue : k'.wait[q] = <<>> BY <1>4 DEF ThreadsOK, SchedulerOK
  <2> QED BY <1>1, <1>4, <1>5, <1>6, <1>10, <2>1, <2>2, <2>3, <2>4 DEF SchedulerOK
<1>12. TimerThreadOK'
  <2>1. k.stat[T] = "suspend" => pc'[T] \in Asleep
    BY <1>1, <1>2, ThreadKinds DEF ThreadsOK, TimerThreadOK, SchedulerOK, Asleep, Blocking
  <2>2. k.stat[T] = "none" => pc'[T] = "run"
    BY <1>1, <1>2, ThreadKinds DEF ThreadsOK, TimerThreadOK
  <2>3. \A u \in App : pc'[u] = "start_ready" => k.stat[T] = "suspend" /\ T \notin k.armed
    BY <1>1, <1>2, ThreadKinds DEF ThreadsOK, TimerThreadOK
  <2> QED BY <1>4, <1>5, <2>1, <2>2, <2>3 DEF TimerThreadOK
<1> QED BY <1>4, <1>7, <1>11, <1>12 DEF ThreadsOK

LEMMA YieldElects ==
  ASSUME NEW c \in KernelState, c.current \in Thread, KernelOK(c), c.nest = 0
  PROVE  Yield(c) = c \/ Elected(Yield(c))
<1>1. CASE YieldMoves(c)
  <2> DEFINE m == YieldTail(c)
  <2>1. m \in KernelState /\ m.nest = c.nest BY <1>1, YieldTailProperties
  <2>2. Yield(c) = Schedule(m) BY <1>1 DEF Yield
  <2> HIDE DEF m
  <2> QED BY <2>1, <2>2, ScheduleElects
<1>2. CASE ~ YieldMoves(c) BY <1>2 DEF Yield
<1> QED BY <1>1, <1>2

\* The tick interrupt, in which the time slice of the current thread may end.
LEMMA Ticks ==
  ASSUME ThreadsOK, TimerThreadFirst, Interrupt, k' \in {k, Yield(k)},
         irq' = Handler, pc' = pc
  PROVE  /\ ThreadsOK' /\ k'.stat = k.stat /\ k'.armed = k.armed
         /\ k'.current \in Thread /\ k.current \in Thread
<1>1. /\ k.current \in Thread /\ irq = NoThread
      /\ k \in KernelState /\ KernelOK(k) /\ k.stat[Idle] = "ready"
      /\ k.prio = InitPriority
  BY ThreadKinds DEF ThreadsOK, SchedulerOK, Interrupt
<1>2. /\ k' \in KernelState /\ KernelOK(k') /\ k'.current \in Thread
      /\ k'.stat = k.stat /\ k'.prio = k.prio
      /\ k'.wait = k.wait /\ k'.armed = k.armed /\ k'.nest = k.nest
      /\ k'.current = k.current \/ (k.nest = 0 /\ k'.stat[k'.current] = "ready")
  <2>1. CASE k' = k BY <1>1, <2>1
  <2>2. CASE k' = Yield(k) BY <1>1, <2>2, YieldProperties
  <2> QED BY <2>1, <2>2
<1>3. k'.current = k.current \/ (k'.stat[k'.current] = "ready" /\ (k'.stat[T] = "ready" => k'.current = T))
  <2>1. CASE k.nest = 0
    <3>1. k' = k \/ Elected(k') BY <1>1, <2>1, YieldElects
    <3> QED BY <1>1, <1>2, <3>1, TimerThreadElected
  <2>2. CASE k.nest # 0 BY <1>2, <2>2
  <2> QED BY <2>1, <2>2
<1>4. k'.current # NoThread /\ k'.current # Wild BY <1>2, ThreadKinds
<1>5. pc[T] # "lost" BY <1>1, ThreadKinds DEF ThreadsOK, SchedulerOK
<1>6. PlacesOK' BY <1>4 DEF ThreadsOK, PlacesOK
<1>7. SchedulerOK' BY <1>1, <1>2, <1>3, <1>4, <1>5, ThreadKinds DEF ThreadsOK, SchedulerOK
<1>8. TimerThreadOK' BY <1>1, <1>2, <1>3 DEF ThreadsOK, TimerThreadOK
<1> QED BY <1>1, <1>2, <1>6, <1>7, <1>8 DEF ThreadsOK

\* Where the scheduler is locked the timer thread is current.
LEMMA LockedRuns ==
  ASSUME ThreadsOK, k.current \in Thread, pc[T] \notin Asleep, k.stat[T] # "none"
  PROVE  k.current = T /\ k.stat[T] = "ready"
<1>1. k.stat[T] \in {"none", "ready", "suspend"} BY ThreadKinds DEF ThreadsOK, SchedulerOK
<1> QED BY <1>1 DEF ThreadsOK, TimerThreadOK

\* A thread timer expires.
LEMMA Wakes ==
  ASSUME ThreadsOK, TimerThreadFirst, irq = Handler, NEW x \in k.armed, k' = ThreadTimeout(k, x),
         irq' = irq, pc' = pc
  PROVE  /\ ThreadsOK' /\ k'.stat = [k.stat EXCEPT ![x] = "ready"] /\ k'.armed = k.armed \ {x}
         /\ x \in Thread /\ k.stat[x] = "suspend" /\ k'.current \in Thread
<1>1. /\ k.current \in Thread
      /\ k \in KernelState /\ KernelOK(k) /\ k.stat[Idle] = "ready"
      /\ k.prio = InitPriority /\ \A q \in Queue : k.wait[q] = <<>>
      /\ k.nest = IF pc[T] \in Locked THEN 1 ELSE 0
  BY ThreadKinds DEF ThreadsOK, SchedulerOK
<1>2. x \in Thread /\ k.stat[x] = "suspend" BY <1>1 DEF KernelOK, TimersOK, KernelState
<1>3. /\ k' \in KernelState /\ KernelOK(k')
      /\ k'.stat = [k.stat EXCEPT ![x] = "ready"]
      /\ k'.armed = k.armed \ {x} /\ k'.nest = k.nest /\ k'.prio = k.prio
      /\ \A q \in Queue : x \notin ToSet(k.wait[q]) => k'.wait[q] = k.wait[q]
      /\ IF k.nest = 0 THEN k'.current \in Thread /\ k'.stat[k'.current] = "ready"
         ELSE k'.current = k.current
  BY <1>1, ThreadTimeoutProperties
<1>4. \A q \in Queue : k'.wait[q] = <<>>
  <2>1. x \notin ToSet(<<>>) BY DEF ToSet
  <2> QED BY <1>1, <1>3, <2>1
<1>5. \A u \in Thread : k'.stat[u] = IF u = x THEN "ready" ELSE k.stat[u]
  BY <1>1, <1>2, <1>3 DEF KernelState
<1>6. x # Idle /\ k'.stat[Idle] = "ready" BY <1>1, <1>2, <1>5, ThreadKinds
<1>7. /\ k'.current \in Thread /\ k'.stat[k'.current] = "ready"
      /\ k'.stat[T] = "ready" => k'.current = T
  <2>1. CASE k.nest = 0
    <3>1. Elected(k') BY <1>1, <2>1, TimeoutElects
    <3> QED BY <1>1, <1>3, <1>6, <3>1, TimerThreadElected
  <2>2. CASE k.nest # 0
    <3>1. pc[T] \in Locked BY <1>1, <2>2
    <3>2. pc[T] \notin Asleep /\ k.stat[T] # "none"
      BY <3>1 DEF Locked, Asleep, ThreadsOK, TimerThreadOK
    <3>3. k.current = T /\ k.stat[T] = "ready" BY <1>1, <3>2, LockedRuns
    <3> QED BY <1>1, <1>3, <1>5, <2>2, <3>3
  <2> QED BY <2>1, <2>2
<1>8. k'.current # NoThread /\ k'.current # Wild BY <1>7, ThreadKinds
<1>9. PlacesOK' BY <1>8 DEF ThreadsOK, PlacesOK
<1>10. SchedulerOK'
  BY <1>1, <1>3, <1>4, <1>5, <1>6, <1>7, <1>8, ThreadKinds DEF ThreadsOK, SchedulerOK
<1>11. TimerThreadOK'
  BY <1>2, <1>3, <1>5, <1>7, ThreadKinds DEF ThreadsOK, TimerThreadOK
<1> QED BY <1>2, <1>3, <1>7, <1>9, <1>10, <1>11 DEF ThreadsOK

\* A thread suspends itself, with or without a time-out.
LEMMA Suspends ==
  ASSUME ThreadsOK, NEW t \in Thread, Running(t), NEW to, pc' = [pc EXCEPT ![t] = to], irq' = irq,
         \/ t \in App /\ pc[t] = "run" /\ to = "sleep_sched"
         \/ t = T /\ pc[t] = "delay" /\ to = "delay_sched"
         \/ t = T /\ pc[t] = "suspend" /\ to = "suspend_sched",
         k' = Suspend(k, t) \/ k' = TimerStart(Suspend(k, t), t)
  PROVE  /\ ThreadsOK' /\ k.stat[t] = "ready" /\ k'.stat = [k.stat EXCEPT ![t] = "suspend"]
         /\ k' = Suspend(k, t) => k'.armed = k.armed
         /\ k' = TimerStart(Suspend(k, t), t) => k'.armed = k.armed \cup {t}
         /\ k'.current = t
<1>1. /\ pc \in [Thread -> TimersPc] /\ k.current = t /\ k.current \in Thread
      /\ k \in KernelState /\ KernelOK(k) /\ k.stat[Idle] = "ready" /\ k.stat[t] = "ready"
  BY ThreadKinds DEF ThreadsOK, PlacesOK, SchedulerOK, Running, Blocking
<1>2. pc'[t] = to /\ \A u \in Thread \ {t} : pc'[u] = pc[u] BY <1>1
<1> DEFINE s == Suspend(k, t)
<1>3. /\ s \in KernelState /\ KernelOK(s) /\ Frame(s, k) /\ s.wait = k.wait /\ s.armed = k.armed
      /\ s.stat = [k.stat EXCEPT ![t] = "suspend"]
  BY <1>1, SuspendProperties
<1> HIDE DEF s
<1>4. s.stat[t] = "suspend" BY <1>1, <1>3 DEF KernelState
<1>5. /\ k' \in KernelState /\ KernelOK(k') /\ k'.wait = k.wait /\ k'.stat = s.stat
      /\ k'.prio = k.prio /\ k'.nest = k.nest /\ k'.current = k.current
      /\ k' = s => k'.armed = k.armed
      /\ k' = TimerStart(s, t) => k'.armed = k.armed \cup {t}
      /\ k'.armed \subseteq k.armed \cup {t}
  <2>1. k' = s \/ k' = TimerStart(s, t) BY DEF s
  <2>2. ASSUME k' = TimerStart(s, t)
        PROVE  /\ k' \in KernelState /\ KernelOK(k') /\ Frame(k', s) /\ k'.stat = s.stat
               /\ k'.wait = s.wait /\ k'.armed = s.armed \cup {t}
    BY <1>3, <1>4, <2>2, TimerStartProperties
  <2> QED BY <1>3, <2>1, <2>2 DEF Frame
<1>6. \A u \in Thread : k'.stat[u] = IF u = t THEN "suspend" ELSE k.stat[u]
  <2>1. k'.stat = [k.stat EXCEPT ![t] = "suspend"] BY <1>3, <1>5
  <2>2. k.stat \in [Thread -> Stat] BY <1>1 DEF KernelState
  <2> QED BY <2>1, <2>2
<1>7. t # Idle /\ to \in Blocking /\ to \in TimersPc BY ThreadKinds DEF Blocking, TimersPc
<1>8. PlacesOK'
  <2>1. pc' \in [Thread -> TimersPc] BY <1>1, <1>7
  <2>2. pc'[T] \in TimerThreadPc /\ pc'[Idle] = "run"
    BY <1>2, ThreadKinds DEF ThreadsOK, PlacesOK, TimerThreadPc, Asleep
  <2>3. \A u \in App : pc'[u] \in AppPc /\ (pc'[u] \in WakingPc => AppTimer[u] \cap Soft # {})
    BY <1>2, ThreadKinds DEF ThreadsOK, PlacesOK, AppPc, WakingPc, Sleeping
  <2> QED BY <1>1, <1>5, <2>1, <2>2, <2>3, ThreadKinds DEF PlacesOK
<1>9. SchedulerOK'
  <2>1. pc'[T] \in Locked <=> pc[T] \in Locked BY <1>2, ThreadKinds DEF Locked
  <2>2. pc'[T] = "lost" <=> pc[T] = "lost" BY <1>2, ThreadKinds
  <2>3. \A u \in App : k'.stat[u] = "suspend" => pc'[u] \in Sleeping
    BY <1>2, <1>6, ThreadKinds DEF ThreadsOK, SchedulerOK, Sleeping
  <2>4. \A u \in Thread : k'.current = u /\ pc'[u] \notin Blocking => k'.stat[u] = "ready"
    BY <1>1, <1>2, <1>5, <1>7
  <2>5. k'.stat[Idle] = "ready" /\ \A u \in Thread : k'.stat[u] \in {"none", "ready", "suspend"}
    BY <1>1, <1>6, <1>7, ThreadKinds DEF ThreadsOK, SchedulerOK
  <2>6. /\ k.nest = IF pc[T] \in Locked THEN 1 ELSE 0
        /\ \A q \in Queue : k.wait[q] = <<>>
        /\ k.prio = InitPriority /\ k.current # Wild
        /\ irq \in {NoThread, Handler, T} /\ (irq = T <=> pc[T] = "lost")
    BY DEF ThreadsOK, SchedulerOK
  <2> QED BY <1>1, <1>5, <2>1, <2>2, <2>3, <2>4, <2>5, <2>6 DEF SchedulerOK
<1>10. TimerThreadOK'
  <2>1. k.stat[T] # "ready" \/ t = T BY <1>1, OtherRuns
  <2>2. \A u \in App : pc'[u] = "start_ready" => k'.stat[T] = "suspend" /\ T \notin k'.armed
    <3> TAKE u \in App
    <3> HAVE pc'[u] = "start_ready"
    <3>1. pc[u] = "start_ready" /\ u # t BY <1>2, ThreadKinds
    <3>2. k.stat[T] = "suspend" /\ T \notin k.armed BY <3>1 DEF ThreadsOK, TimerThreadOK
    <3>3. t # T BY <1>1, <3>2
    <3> QED BY <1>5, <1>6, <3>2, <3>3, ThreadKinds
  <2>3. k'.stat[T] = "suspend" => pc'[T] \in Asleep
    BY <1>2, <1>6, ThreadKinds DEF ThreadsOK, TimerThreadOK, Asleep
  <2>4. k'.stat[T] = "none" => pc'[T] = "run"
    BY <1>2, <1>6, ThreadKinds DEF ThreadsOK, TimerThreadOK
  <2>5. k'.stat[T] # "ready" BY <1>6, <2>1, ThreadKinds
  <2> QED BY <2>2, <2>3, <2>4, <2>5 DEF TimerThreadOK
<1> QED BY <1>1, <1>3, <1>5, <1>8, <1>9, <1>10 DEF ThreadsOK, s

\* rt_thread_resume of the timer thread: its list and its timer.
LEMMA Unlinks ==
  ASSUME ThreadsOK, NEW t \in App, Running(t), pc[t] = "start_resume",
         pc' = [pc EXCEPT ![t] = "start_ready"], irq' = irq,
         k.stat[T] = "suspend", k' = ResumeUnlink(k, T)
  PROVE  ThreadsOK' /\ k'.stat = k.stat /\ k'.armed = k.armed \ {T} /\ k'.current = t
<1>1. /\ pc \in [Thread -> TimersPc] /\ k.current = t /\ k.current \in Thread /\ t # T /\ t # Idle
      /\ k \in KernelState /\ KernelOK(k) /\ \A q \in Queue : k.wait[q] = <<>>
  BY ThreadKinds DEF ThreadsOK, PlacesOK, SchedulerOK, Running
<1>2. /\ pc'[t] = "start_ready" /\ \A u \in Thread \ {t} : pc'[u] = pc[u]
      /\ pc'[T] = pc[T] /\ pc'[Idle] = pc[Idle]
  BY <1>1, ThreadKinds
<1>3. /\ k' \in KernelState /\ Floating(k', T) /\ Frame(k', k)
      /\ k'.armed = k.armed \ {T} /\ k'.stat = k.stat
      /\ \A q \in Queue : T \notin ToSet(k.wait[q]) => k'.wait[q] = k.wait[q]
  BY <1>1, ThreadKinds, ResumeUnlinkProperties
<1>4. \A q \in Queue : k'.wait[q] = <<>>
  <2>1. T \notin ToSet(<<>>) BY DEF ToSet
  <2> QED BY <1>1, <1>3, <2>1
<1>5. KernelOK(k')
  <2>1. ReadyOK(k') BY <1>3 DEF ReadyOK, Floating
  <2>2. MaskOK(k') BY <1>3 DEF MaskOK, Floating
  <2>3. TimersOK(k') BY <1>3 DEF TimersOK, Floating
  <2> QED BY <1>3, <2>1, <2>2, <2>3 DEF KernelOK, Floating
<1>6. PlacesOK'
  <2>1. "start_ready" \in TimersPc \cap AppPc \cap WakingPc BY DEF TimersPc, AppPc, WakingPc
  <2>2. AppTimer[t] \cap Soft # {} BY DEF ThreadsOK, PlacesOK, WakingPc
  <2>3. pc' \in [Thread -> TimersPc] BY <1>1, <2>1
  <2>4. \A u \in App : pc'[u] \in AppPc /\ (pc'[u] \in WakingPc => AppTimer[u] \cap Soft # {})
    BY <1>2, <2>1, <2>2, ThreadKinds DEF ThreadsOK, PlacesOK
  <2>5. pc'[T] \in TimerThreadPc /\ pc'[Idle] = "run" BY <1>2 DEF ThreadsOK, PlacesOK
  <2> QED BY <1>1, <1>3, <2>3, <2>4, <2>5, ThreadKinds DEF PlacesOK, Frame
<1>7. SchedulerOK'
  <2>1. \A u \in App : k'.stat[u] = "suspend" => pc'[u] \in Sleeping
    BY <1>2, <1>3, ThreadKinds DEF ThreadsOK, SchedulerOK, Sleeping
  <2>2. "start_ready" \notin Blocking /\ "start_resume" \notin Blocking BY DEF Blocking
  <2>3. \A u \in Thread : k'.current = u /\ pc'[u] \notin Blocking => k'.stat[u] = "ready"
    BY <1>1, <1>2, <1>3, <2>2 DEF ThreadsOK, SchedulerOK, Frame
  <2> QED BY <1>1, <1>2, <1>3, <1>4, <1>5, <2>1, <2>3 DEF ThreadsOK, SchedulerOK, Frame
<1>8. TimerThreadOK' BY <1>1, <1>2, <1>3 DEF ThreadsOK, TimerThreadOK, Frame
<1> QED BY <1>1, <1>3, <1>6, <1>7, <1>8 DEF ThreadsOK, Frame

\* ... and putting it on its ready list.
LEMMA Readies ==
  ASSUME ThreadsOK, OneOperator, NEW t \in App, Running(t), pc[t] = "start_ready",
         pc' = [pc EXCEPT ![t] = "start_sched"], irq' = irq, k' = ScheduleInsert(k, T)
  PROVE  /\ ThreadsOK' /\ k'.stat = [k.stat EXCEPT ![T] = "ready"] /\ k'.armed = k.armed
         /\ k'.current = t /\ k.stat[T] = "suspend"
<1>1. /\ pc \in [Thread -> TimersPc] /\ k.current = t /\ k.current \in Thread /\ t # T /\ t # Idle
      /\ k \in KernelState /\ KernelOK(k) /\ \A q \in Queue : k.wait[q] = <<>>
      /\ k.stat[T] = "suspend" /\ T \notin k.armed /\ pc[T] \in Asleep
  BY ThreadKinds DEF ThreadsOK, PlacesOK, SchedulerOK, TimerThreadOK, Running
<1>2. /\ pc'[t] = "start_sched" /\ \A u \in Thread \ {t} : pc'[u] = pc[u]
      /\ pc'[T] = pc[T] /\ pc'[Idle] = pc[Idle]
  BY <1>1, ThreadKinds
<1>3. Floating(k, T)
  <2>1. \A p \in Priority : T \notin ToSet(k.ready[p]) BY <1>1, ThreadKinds DEF KernelOK, ReadyOK
  <2>2. \A q \in Queue : T \notin ToSet(k.wait[q])
    <3>1. T \notin ToSet(<<>>) BY DEF ToSet
    <3> QED BY <1>1, <3>1
  <2>3. \A u \in Thread : k.stat[u] \in {"ready", "suspend"} => k.mask[u] = {k.prio[u]}
    BY <1>1 DEF KernelOK, MaskOK
  <2>4. k.mask[T] = {k.prio[T]} BY <1>1, <2>3, ThreadKinds
  <2> QED BY <1>1, <2>1, <2>2, <2>3, <2>4 DEF Floating, KernelOK, ReadyOK, TimersOK
<1>4. /\ k' \in KernelState /\ KernelOK(k') /\ Frame(k', k) /\ k'.wait = k.wait /\ k'.armed = k.armed
      /\ k'.stat = [k.stat EXCEPT ![T] = "ready"]
  BY <1>1, <1>3, ThreadKinds, ScheduleInsertProperties
<1>5. \A u \in Thread : k'.stat[u] = IF u = T THEN "ready" ELSE k.stat[u]
  BY <1>1, <1>4, ThreadKinds DEF KernelState
<1>6. PlacesOK'
  <2>1. "start_sched" \in TimersPc \cap AppPc \cap WakingPc BY DEF TimersPc, AppPc, WakingPc
  <2>2. AppTimer[t] \cap Soft # {} BY DEF ThreadsOK, PlacesOK, WakingPc
  <2>3. pc' \in [Thread -> TimersPc] BY <1>1, <2>1
  <2>4. \A u \in App : pc'[u] \in AppPc /\ (pc'[u] \in WakingPc => AppTimer[u] \cap Soft # {})
    BY <1>2, <2>1, <2>2, ThreadKinds DEF ThreadsOK, PlacesOK
  <2>5. pc'[T] \in TimerThreadPc /\ pc'[Idle] = "run" BY <1>2 DEF ThreadsOK, PlacesOK
  <2> QED BY <1>1, <1>4, <2>3, <2>4, <2>5, ThreadKinds DEF PlacesOK, Frame
<1>7. SchedulerOK'
  <2>1. \A u \in App : k'.stat[u] = "suspend" => pc'[u] \in Sleeping
    BY <1>2, <1>5, ThreadKinds DEF ThreadsOK, SchedulerOK, Sleeping
  <2>2. "start_ready" \notin Blocking BY DEF Blocking
  <2>3. \A u \in Thread : k'.current = u /\ pc'[u] \notin Blocking => k'.stat[u] = "ready"
    BY <1>1, <1>2, <1>4, <1>5, <2>2 DEF ThreadsOK, SchedulerOK, Frame
  <2>4. k'.stat[Idle] = "ready" /\ \A u \in Thread : k'.stat[u] \in {"none", "ready", "suspend"}
    BY <1>1, <1>5, ThreadKinds DEF ThreadsOK, SchedulerOK
  <2> QED BY <1>1, <1>2, <1>4, <2>1, <2>3, <2>4 DEF ThreadsOK, SchedulerOK, Frame
<1>8. TimerThreadOK'
  <2>1. \A u \in App : pc'[u] # "start_ready"
    <3> SUFFICES ASSUME NEW u \in App, pc'[u] = "start_ready" PROVE FALSE OBVIOUS
    <3>1. u # t /\ pc[u] = "start_ready" BY <1>2, ThreadKinds
    <3>2. AppTimer[u] \cap Soft # {} /\ AppTimer[t] \cap Soft # {}
      BY <3>1 DEF ThreadsOK, PlacesOK, WakingPc
    <3> QED BY <3>1, <3>2 DEF OneOperator
  <2>2. k'.stat[T] = "ready" /\ k'.current = t BY <1>1, <1>4, <1>5, ThreadKinds DEF Frame
  <2> QED BY <1>1, <1>2, <2>1, <2>2 DEF TimerThreadOK
<1> QED BY <1>1, <1>4, <1>6, <1>7, <1>8 DEF ThreadsOK, Frame

\* The timer thread locks the scheduler, and unlocks it.
LEMMA Locks ==
  ASSUME ThreadsOK, Running(T), NEW to, pc' = [pc EXCEPT ![T] = to], irq' = irq,
         \/ pc[T] = "lock" /\ to = "check" /\ k' = EnterCritical(k)
         \/ pc[T] = "check" /\ to = "unlock_sched" /\ k' = ExitCritical(k)
  PROVE  ThreadsOK' /\ k'.stat = k.stat /\ k'.armed = k.armed /\ k'.current = T
<1>1. /\ pc \in [Thread -> TimersPc] /\ k.current = T /\ T \in Thread /\ k.stat[T] = "ready"
      /\ k \in KernelState /\ KernelOK(k)
      /\ k.nest = IF pc[T] = "check" THEN 1 ELSE 0
  BY ThreadKinds DEF ThreadsOK, PlacesOK, SchedulerOK, Running, Locked, Blocking
<1>2. pc'[T] = to /\ \A u \in Thread \ {T} : pc'[u] = pc[u] BY <1>1
<1>3. /\ k' \in KernelState
      /\ k'.stat = k.stat /\ k'.prio = k.prio /\ k'.mask = k.mask /\ k'.ready = k.ready
      /\ k'.wait = k.wait /\ k'.group = k.group /\ k'.armed = k.armed
      /\ k'.current = k.current /\ k'.nest = IF to = "check" THEN 1 ELSE 0
  <2>1. CASE pc[T] = "lock"
    <3>1. k' = [k EXCEPT !.nest = 1] /\ to = "check" BY <1>1, <2>1 DEF EnterCritical
    <3> QED BY <1>1, <3>1 DEF KernelState
  <2>2. CASE pc[T] = "check"
    <3>1. k' = [k EXCEPT !.nest = 0] /\ to = "unlock_sched" BY <1>1, <2>2 DEF ExitCritical
    <3> QED BY <1>1, <3>1 DEF KernelState
  <2> QED BY <2>1, <2>2
<1>4. KernelOK(k') BY <1>1, <1>3, KernelOKFrame
<1>5. to \in TimersPc /\ to \in TimerThreadPc /\ to # "lost" /\ to \notin Blocking
      /\ (to \in Locked <=> to = "check")
  BY DEF TimersPc, TimerThreadPc, Locked, Blocking
<1>6. pc' \in [Thread -> TimersPc] BY <1>1, <1>5
<1>7. PlacesOK' BY <1>1, <1>2, <1>3, <1>5, <1>6, ThreadKinds DEF ThreadsOK, PlacesOK
<1>8. SchedulerOK'
  <2>1. \A u \in App : k'.stat[u] = "suspend" => pc'[u] \in Sleeping
    BY <1>2, <1>3, ThreadKinds DEF ThreadsOK, SchedulerOK
  <2>2. irq # T BY <1>1 DEF ThreadsOK, SchedulerOK
  <2> QED BY <1>1, <1>2, <1>3, <1>4, <1>5, <2>1, <2>2 DEF ThreadsOK, SchedulerOK
<1>9. TimerThreadOK' BY <1>1, <1>2, <1>3, ThreadKinds DEF ThreadsOK, TimerThreadOK
<1> QED BY <1>1, <1>3, <1>7, <1>8, <1>9 DEF ThreadsOK

\* The end of rt_thread_sleep clears the error of the time-out.
LEMMA Returns ==
  ASSUME ThreadsOK, NEW t \in Thread, Running(t), NEW to, pc' = [pc EXCEPT ![t] = to], irq' = irq,
         \/ t \in App /\ pc[t] = "sleep_return" /\ to = "run"
         \/ t = T /\ pc[t] = "delay_return" /\ to = "lock",
         NEW e \in Error, k' = [k EXCEPT !.error[t] = e] \/ k' = k
  PROVE  ThreadsOK' /\ k'.stat = k.stat /\ k'.armed = k.armed /\ k'.current = t
<1>1. /\ pc \in [Thread -> TimersPc] /\ k.current = t /\ k.stat[t] = "ready" /\ irq # T /\ t # Idle
      /\ k \in KernelState /\ KernelOK(k)
  BY ThreadKinds DEF ThreadsOK, PlacesOK, SchedulerOK, Running, Blocking
<1>2. pc'[t] = to /\ \A u \in Thread \ {t} : pc'[u] = pc[u] BY <1>1
<1>3. /\ k' \in KernelState /\ KernelOK(k')
      /\ k'.stat = k.stat /\ k'.wait = k.wait /\ k'.prio = k.prio /\ k'.armed = k.armed
      /\ k'.nest = k.nest /\ k'.current = k.current
  <2>1. CASE k' = [k EXCEPT !.error[t] = e] BY <1>1, <2>1, SetErrorProperties
  <2>2. CASE k' = k BY <1>1, <2>2
  <2> QED BY <2>1, <2>2
<1>4. PlacesOK'
  <2>1. to \in TimersPc BY DEF TimersPc
  <2>2. pc' \in [Thread -> TimersPc] BY <1>1, <2>1
  <2>3. pc'[T] \in TimerThreadPc /\ pc'[Idle] = "run"
    BY <1>1, <1>2, ThreadKinds DEF ThreadsOK, PlacesOK, TimerThreadPc, Asleep
  <2>4. \A u \in App : pc'[u] \in AppPc /\ (pc'[u] \in WakingPc => AppTimer[u] \cap Soft # {})
    BY <1>2, ThreadKinds DEF ThreadsOK, PlacesOK, AppPc, WakingPc
  <2> QED BY <1>1, <1>3, <2>2, <2>3, <2>4, ThreadKinds DEF PlacesOK
<1>5. SchedulerOK'
  <2>1. \A u \in App : k'.stat[u] = "suspend" => pc'[u] \in Sleeping
    BY <1>1, <1>2, <1>3, ThreadKinds DEF ThreadsOK, SchedulerOK, Sleeping
  <2>2. pc'[T] \in Locked <=> pc[T] \in Locked BY <1>2, ThreadKinds DEF Locked
  <2>3. pc'[T] = "lost" <=> pc[T] = "lost" BY <1>2, ThreadKinds
  <2>4. \A u \in Thread : k'.current = u /\ pc'[u] \notin Blocking => k'.stat[u] = "ready"
    BY <1>1, <1>3
  <2> QED BY <1>1, <1>3, <2>1, <2>2, <2>3, <2>4 DEF ThreadsOK, SchedulerOK
<1>6. TimerThreadOK'
  <2>1. t \in App => k.stat[T] # "ready" BY <1>1, OtherRuns, ThreadKinds
  <2>2. t = T => pc'[T] \in Asleep BY <1>2 , ThreadKinds DEF Asleep
  <2>3. t # T => pc'[T] = pc[T] BY <1>2, ThreadKinds
  <2>4. \A u \in App : pc'[u] = "start_ready" => pc[u] = "start_ready" BY <1>2, ThreadKinds
  <2> QED BY <1>1, <1>3, <2>1, <2>2, <2>3, <2>4, ThreadKinds DEF ThreadsOK, TimerThreadOK
<1> QED BY <1>1, <1>3, <1>4, <1>5, <1>6 DEF ThreadsOK

\* Boot: threads are started one by one, then the scheduler.
LEMMA Boots ==
  ASSUME ThreadsOK, TimerThreadFirst, StartStep \/ \E t \in Thread : BootStep(t)
  PROVE  /\ ThreadsOK' /\ pc' = pc /\ irq' = irq /\ k.current = NoThread
         /\ \A u \in Thread : pc[u] = "run"
         /\ k.stat[T] # "suspend" /\ k'.stat[T] # "suspend"
         /\ k'.armed = k.armed
<1>1. /\ k \in KernelState /\ KernelOK(k) /\ k.current = NoThread /\ pc' = pc /\ irq' = irq
      /\ irq = NoThread /\ k.nest = 0 /\ k.prio = InitPriority
      /\ \A q \in Queue : k.wait[q] = <<>>
      /\ \A u \in Thread : pc[u] = "run"
      /\ \A u \in Thread : k.stat[u] \in {"none", "ready", "suspend"}
  BY ThreadKinds DEF ThreadsOK, SchedulerOK, PlacesOK, StartStep, BootStep, Locked
<1>2. \A u \in App : k.stat[u] # "suspend" /\ u \in Thread
  BY <1>1, ThreadKinds DEF ThreadsOK, SchedulerOK, Sleeping
<1>3. k.stat[T] # "suspend" BY <1>1, ThreadKinds DEF ThreadsOK, TimerThreadOK, Asleep
<1>4. CASE StartStep
  <2>1. k' = [k EXCEPT !.current = HighestReady(k)] /\ k.stat[Idle] = "ready"
    BY <1>4 DEF StartStep, SchedulerStart
  <2>2. HighestReady(k) \in Thread /\ k.stat[HighestReady(k)] = "ready"
    BY <1>1, <2>1, HighestReadyProperties
  <2>3. /\ k' \in KernelState
        /\ k'.stat = k.stat /\ k'.prio = k.prio /\ k'.mask = k.mask /\ k'.ready = k.ready
        /\ k'.wait = k.wait /\ k'.group = k.group /\ k'.armed = k.armed
        /\ k'.current = HighestReady(k) /\ k'.nest = k.nest
    BY <1>1, <2>1, <2>2 DEF KernelState
  <2>4. KernelOK(k') BY <1>1, <2>3, KernelOKFrame
  <2>5. Elected(k') BY <2>3 DEF Elected, HighestReady
  <2>6. /\ k'.current \in Thread /\ k'.stat[k'.current] = "ready"
        /\ k'.stat[T] = "ready" => k'.current = T
    BY <1>1, <2>1, <2>3, <2>4, <2>5, TimerThreadElected
  <2>7. PlacesOK' BY <1>1, <2>6, ThreadKinds DEF ThreadsOK, PlacesOK
  <2>8. SchedulerOK'
    BY <1>1, <1>2, <2>1, <2>3, <2>4, <2>6, ThreadKinds DEF ThreadsOK, SchedulerOK
  <2>9. TimerThreadOK' BY <1>1, <1>3, <2>3, <2>6 DEF ThreadsOK, TimerThreadOK
  <2> QED BY <1>1, <1>3, <2>3, <2>7, <2>8, <2>9 DEF ThreadsOK
<1>5. ASSUME NEW t \in Thread, BootStep(t)
      PROVE  ThreadsOK' /\ k'.stat[T] # "suspend" /\ k'.armed = k.armed
  <2>1. k' = BootThread(k, t) /\ k.stat[t] = "none" BY <1>5 DEF BootStep
  <2>2. /\ k' \in KernelState
        /\ KernelOK(k')
        /\ k'.stat = [k.stat EXCEPT ![t] = "ready"]
        /\ k'.armed = k.armed \ {t} /\ k'.nest = k.nest /\ k'.current = k.current
        /\ k'.prio = [k.prio EXCEPT ![t] = InitPriority[t]]
        /\ \A q \in Queue : t \notin ToSet(k.wait[q]) => k'.wait[q] = k.wait[q]
    BY <1>1, <2>1, BootThreadProperties
  <2>3. \A q \in Queue : k'.wait[q] = <<>>
    <3>1. t \notin ToSet(<<>>) BY DEF ToSet
    <3> QED BY <1>1, <2>2, <3>1
  <2>4. k'.prio = InitPriority BY <1>1, <2>2, KernelAssumption
  <2>5. \A u \in Thread : k'.stat[u] = IF u = t THEN "ready" ELSE k.stat[u]
    BY <1>1, <2>2 DEF KernelState
  <2>6. PlacesOK' BY <1>1, <2>2 DEF ThreadsOK, PlacesOK
  <2>7. SchedulerOK'
    BY <1>1, <1>2, <2>2, <2>3, <2>4, <2>5, ThreadKinds DEF ThreadsOK, SchedulerOK
  <2>8. TimerThreadOK'
    BY <1>1, <1>3, <2>2, <2>5, ThreadKinds DEF ThreadsOK, TimerThreadOK
  <2>9. t \notin k.armed BY <1>1, <2>1 DEF KernelOK, TimersOK
  <2> QED BY <1>3, <2>2, <2>5, <2>6, <2>7, <2>8, <2>9, ThreadKinds DEF ThreadsOK
<1> QED BY <1>1, <1>3, <1>4, <1>5

\* The end of the tick interrupt.
LEMMA HandlerEnds ==
  ASSUME ThreadsOK, irq = Handler, irq' = NoThread, k' = k, pc' = pc
  PROVE  ThreadsOK'
<1>1. PlacesOK' /\ TimerThreadOK' BY DEF ThreadsOK, PlacesOK, TimerThreadOK
<1>2. SchedulerOK' BY ThreadKinds DEF ThreadsOK, SchedulerOK
<1> QED BY <1>1, <1>2 DEF ThreadsOK

\* The timer thread takes RT_TICK_MAX for "no timer".
LEMMA Loses ==
  ASSUME ThreadsOK, Running(T), pc[T] = "run", pc' = [pc EXCEPT ![T] = "lost"],
         irq' = T, k' = k
  PROVE  ThreadsOK'
<1>1. /\ pc \in [Thread -> TimersPc] /\ k.current = T /\ T \in Thread /\ k.stat[T] = "ready"
  BY ThreadKinds DEF ThreadsOK, PlacesOK, SchedulerOK, Running, Blocking
<1>2. pc'[T] = "lost" /\ \A u \in Thread \ {T} : pc'[u] = pc[u] BY <1>1
<1>3. "lost" \in TimersPc /\ "lost" \in TimerThreadPc /\ "lost" \notin Locked /\ "run" \notin Locked
  BY DEF TimersPc, TimerThreadPc, Locked
<1>4. pc' \in [Thread -> TimersPc] BY <1>1, <1>3
<1>5. PlacesOK' BY <1>1, <1>2, <1>3, <1>4, ThreadKinds DEF ThreadsOK, PlacesOK
<1>6. SchedulerOK' BY <1>1, <1>2, <1>3, ThreadKinds DEF ThreadsOK, SchedulerOK
<1>7. TimerThreadOK' BY <1>1, <1>2, ThreadKinds DEF ThreadsOK, TimerThreadOK
<1> QED BY <1>5, <1>6, <1>7 DEF ThreadsOK

LEMMA ThreadsBegin ==
  ASSUME SystemInit
  PROVE  ThreadsOK /\ k.armed = {} /\ k.stat[T] = "none" /\ irq = NoThread
         /\ k.current = NoThread /\ \A t \in Thread : pc[t] = "run"
<1>1. k = SchedulerInit([t \in Thread |-> {}]) /\ irq = NoThread /\ pc = [t \in Thread |-> "run"]
  BY DEF SystemInit
<1>2. /\ k \in KernelState /\ k.prio = InitPriority /\ k.nest = 0 /\ k.armed = {} /\ k.current = NoThread
      /\ \A t \in Thread : k.stat[t] = "none" /\ \A q \in Queue : k.wait[q] = <<>>
      /\ \A p \in Priority : k.ready[p] = <<>>
      /\ k.group = {}
  BY <1>1, KernelAssumption DEF SchedulerInit, KernelState, Stat, Error
<1>3. KernelOK(k)
  <2>1. \A x : x \notin ToSet(<<>>) BY DEF ToSet
  <2>2. IsInjective(<<>>) BY DEF IsInjective
  <2>3. \A q \in Queue : k.wait[q] = <<>> BY <1>1 DEF SchedulerInit
  <2> QED BY <1>2, <2>1, <2>2, <2>3 DEF KernelOK, ListsOK, ReadyOK, BitmapOK, MaskOK, TimersOK
<1>4. \A t \in Thread : pc[t] = "run" BY <1>1
<1>5. \A q \in Queue : k.wait[q] = <<>> BY <1>1 DEF SchedulerInit
<1>6. "run" \in TimersPc /\ "run" \in TimerThreadPc /\ "run" \in AppPc
      /\ "run" \notin WakingPc /\ "run" \notin Locked
  BY DEF TimersPc, TimerThreadPc, AppPc, WakingPc, Locked
<1>7. PlacesOK BY <1>1, <1>4, <1>6, ThreadKinds DEF PlacesOK
<1>8. SchedulerOK
  BY <1>1, <1>2, <1>3, <1>4, <1>5, <1>6, ThreadKinds, KernelAssumption DEF SchedulerOK
<1>9. TimerThreadOK BY <1>2, <1>4, ThreadKinds DEF TimerThreadOK
<1> QED BY <1>1, <1>2, <1>4, <1>7, <1>8, <1>9, ThreadKinds DEF ThreadsOK

(***************************************************************************)
(* The inductive invariant: the timers.                                    *)
(***************************************************************************)

\* how late a thread's timer and a soft timer can be
Low == IF irq = Handler THEN -1 ELSE 0
Soonest == -(MaxSlip + 1) - slip

Busy == {op[t] : t \in Thread}

ClockOK(d) ==
    /\ Clock(w, Low, Soonest, d) /\ FlagsOK(w, Busy)
    /\ k.armed = Thread \cap ToSet(w.list["hard"])
    /\ next \in 0 .. TickMax /\ cur \in 0 .. TickMax
    /\ n \in Soft \cup {NoTimer} /\ slip \in 0 .. MaxSlip
    /\ k.current = NoThread => w.list["soft"] = <<>>

\* the timers that calls are in progress on
OpsOK ==
    /\ op \in [Thread -> Timer \cup {NoTimer}] /\ op[Idle] = NoTimer
    /\ \A t \in App : IF pc[t] \in Handling THEN op[t] \in AppTimer[t] ELSE op[t] = NoTimer
    /\ IF pc[T] \in Walking THEN op[T] \in Soft ELSE op[T] = NoTimer
    /\ \A t \in App : pc[t] \in Handling \ {"stop_remove"} => op[t] \notin On(w)
    /\ \A t \in App : pc[t] = "start_insert" => op[t] \notin w.active
    /\ pc[T] \in Walking => /\ op[T] \notin On(w)
                            /\ \A t \in App : op[t] = op[T] => pc[t] = "stop_remove"
    /\ pc[T] = "callback" => op[T] \in w.active
    /\ pc[T] = "restart_insert" => op[T] \notin w.active

\* for how many ticks a call of rt_timer_start on x has been interrupted
Age(s, x) == Minus(s.tick, Minus(s.timeout[x], s.init[x]))

\* a timer that is about to be inserted is not late
PendingOK(d) ==
    /\ \A t \in App : pc[t] = "start_insert" => Age(w, op[t]) <= MaxSlip
    /\ pc[T] = "restart_insert" => LeftIn(w, op[T]) \in 1 - slip .. d

\* the walk over the soft list: what comes before the saved node is not due
WalkOK ==
    /\ pc[T] \in Locked => Minus(w.tick, cur) <= slip
    /\ n # NoTimer => pc[T] \in Locked /\ n \in ToSet(w.list["soft"])
    /\ pc[T] \in Locked => Covered(w.list["soft"], n, NotBefore(w, 1 - slip))
    /\ pc[T] \in {"unlock_sched", "run"} /\ k.stat[T] = "ready" =>
          ToSet(w.list["soft"]) \subseteq NotBefore(w, 1 - slip)

\* what the timer thread computes before it sleeps
SleepOK(d) ==
    /\ pc[T] = "next" => next = NextTimeout /\ ~ Sentinel
    /\ pc[T] = "suspend" => w.list["soft"] = <<>>
    /\ pc[T] = "delay" => /\ w.list["soft"] # <<>> /\ next \in 0 .. d /\ next < Half
                          /\ next <= LeftIn(w, Head(w.list["soft"])) + slip
    /\ WakesInTime

TimersAllOK(d) == ClockOK(d) /\ OpsOK /\ PendingOK(d) /\ WalkOK /\ SleepOK(d)

TimersInv(d) == ThreadsOK /\ TimersAllOK(d)

-----------------------------------------------------------------------------
LEMMA BoundsHold ==
  ASSUME NEW d \in Nat, WellUsed(d), slip \in 0 .. MaxSlip
  PROVE  /\ Bounds(Low, Soonest, d) /\ Bounds(0, Soonest, d) /\ Bounds(-1, Soonest, d)
         /\ Soonest \in Int /\ Low \in {-1, 0}
<1>1. Low \in {-1, 0} BY DEF Low
<1>2. Soonest \in Int /\ Soonest >= -(2 * MaxSlip + 1) /\ Soonest <= 1
  BY TickRange DEF Soonest
<1> QED BY <1>1, <1>2 DEF Bounds, WellUsed

\* The first timer of a list is due first.
LEMMA HeadFirst ==
  ASSUME NEW s \in ClockState, NEW X \in SUBSET Entry, NEW list \in Seq(X), NEW lo, NEW d,
         ListOK(list, s, lo, d), NEW x \in ToSet(list)
  PROVE  /\ list # <<>> /\ Head(list) \in ToSet(list) /\ Head(list) \in X
         /\ LeftIn(s, Head(list)) <= LeftIn(s, x)
         /\ LeftIn(s, x) \in Int /\ LeftIn(s, Head(list)) \in Int
<1>1. PICK i \in 1 .. Len(list) : list[i] = x BY DEF ToSet
<1>2. list # <<>> /\ Head(list) = list[1] /\ 1 \in 1 .. Len(list) BY <1>1
<1>3. Head(list) \in ToSet(list) /\ Head(list) \in X BY <1>2, HeadToSet
<1>4. \A y \in ToSet(list) : LeftIn(s, y) \in Int
  <2>1. ToSet(list) \subseteq Entry BY HeadToSet
  <2>2. \A y \in Entry : Ticking(s, y) BY DEF ClockState, Ticking, Entry
  <2> QED BY <2>1, <2>2, LeftIs
<1>5. CASE i = 1 BY <1>1, <1>2, <1>3, <1>4, <1>5
<1>6. CASE i # 1
  <2>1. <<list[1], list[i]>> \in ByDue(s) BY <1>1, <1>2, <1>6 DEF ListOK, OrderedBy
  <2> QED BY <1>1, <1>2, <1>3, <1>4, <2>1 DEF ByDue
<1> QED BY <1>5, <1>6

\* The bridge to the properties of module Timers.
LEMMA InvListsSound ==
  ASSUME NEW d \in Nat, WellUsed(d), TimersInv(d)
  PROVE  ListsSound
<1>1. /\ ThreadsOK /\ ClockOK(d) /\ OpsOK /\ Clock(w, Low, Soonest, d) /\ FlagsOK(w, Busy)
      /\ w \in ClockState
  BY DEF TimersInv, TimersAllOK, ClockOK, Clock
<1>2. Bounds(Low, Soonest, d) BY <1>1, BoundsHold DEF ClockOK
<1>3. TimersTypeOK
  <2>1. /\ k \in KernelState /\ k.current # Wild /\ irq \in Thread \cup {NoThread, Handler}
        /\ pc \in [Thread -> TimersPc]
    BY <1>1, ThreadKinds DEF ThreadsOK, SchedulerOK, PlacesOK
  <2> QED BY <1>1, <2>1 DEF TimersTypeOK, ClockOK, OpsOK, Clock
<1>4. ListsSorted
  <2>1. \A l \in {"hard", "soft"} : \E b \in Int : b > -Half /\ ListOK(w.list[l], w, b, d)
    <3>1. Low - MaxSlip \in Int /\ Soonest \in Int /\ Low - MaxSlip > -Half /\ Soonest > -Half
      BY <1>2, BoundsFacts
    <3> QED BY <1>1, <3>1 DEF Clock
  <2>2. ASSUME NEW l \in {"hard", "soft"}
        PROVE  /\ \A i, j \in 1 .. Len(w.list[l]) :
                    i < j => Left(w.list[l][i]) <= Left(w.list[l][j])
               /\ \A i \in 1 .. Len(w.list[l]) : Left(w.list[l][i]) > -Half
    <3>1. PICK b \in Int : b > -Half /\ ListOK(w.list[l], w, b, d) BY <2>1
    <3>2. \A i \in 1 .. Len(w.list[l]) : LeftIn(w, w.list[l][i]) \in b .. d
      BY <3>1 DEF ListOK, ToSet
    <3>3. \A i, j \in 1 .. Len(w.list[l]) : i < j => LeftIn(w, w.list[l][i]) <= LeftIn(w, w.list[l][j])
      BY <3>1 DEF ListOK, OrderedBy, ByDue
    <3>4. Half \in Int BY TickRange
    <3> QED BY <3>1, <3>2, <3>3, <3>4 DEF Left
  <2> QED BY <2>2 DEF ListsSorted
<1>5. FlagsAgree
  <2>1. \A x \in Timer \ {op[t] : t \in Thread} : x \in w.active <=> x \in Listed
    BY <1>1 DEF FlagsOK, Busy, On, Listed
  <2>2. \A l \in {"hard", "soft"} : IsInjective(w.list[l]) BY <1>1 DEF Clock, ListOK
  <2>3. TimersOK(k) BY <1>1 DEF ThreadsOK, SchedulerOK, KernelOK
  <2> QED BY <1>1, <2>1, <2>2, <2>3 DEF FlagsAgree, ClockOK
<1> QED BY <1>3, <1>4, <1>5 DEF ListsSound

-----------------------------------------------------------------------------
(***************************************************************************)
(* What every step has to keep.                                            *)
(***************************************************************************)

\* The suspended timer thread still wakes in time, z ticks later.
LEMMA StillWakes ==
  ASSUME WakesInTime, NEW low, NEW lo, NEW d, Clock(w, low, lo, d), w' \in ClockState, NEW z \in Int,
         w'.list["soft"] \in Seq(Soft),
         k'.stat[T] = "suspend" => k.stat[T] = "suspend" /\ (T \in k.armed => T \in k'.armed),
         Waking => Waking' \/ k'.stat[T] # "suspend",
         ~ Waking' /\ k'.stat[T] = "suspend" =>
            /\ T \in k.armed => LeftIn(w', T) = LeftIn(w, T) - z
            /\ \A x \in ToSet(w'.list["soft"]) : /\ x \in ToSet(w.list["soft"])
                                                 /\ LeftIn(w', x) = LeftIn(w, x) - z
  PROVE  WakesInTime'
<1> SUFFICES ASSUME k'.stat[T] = "suspend", w'.list["soft"] # <<>>, ~ Waking'
             PROVE  T \in k'.armed /\ LeftIn(w', T) <= LeftIn(w', Head(w'.list["soft"])) + MaxSlip
  BY DEF WakesInTime, Left
<1> DEFINE h == Head(w'.list["soft"])
<1>1. h \in ToSet(w'.list["soft"]) BY HeadToSet
<1>2. h \in ToSet(w.list["soft"]) /\ LeftIn(w', h) = LeftIn(w, h) - z BY <1>1
<1> HIDE DEF h
<1>3. /\ w.list["soft"] # <<>> /\ LeftIn(w, Head(w.list["soft"])) <= LeftIn(w, h)
      /\ LeftIn(w, h) \in Int /\ LeftIn(w, Head(w.list["soft"])) \in Int
  <2>1. Soft \in SUBSET Entry BY TimersAssumption DEF Entry
  <2> QED BY <1>2, <2>1, HeadFirst DEF Clock
<1>4. k.stat[T] = "suspend" /\ ~ Waking OBVIOUS
<1>5. T \in k.armed /\ LeftIn(w, T) <= LeftIn(w, Head(w.list["soft"])) + MaxSlip
  BY <1>3, <1>4 DEF WakesInTime, Left
<1>6. T \in k'.armed /\ LeftIn(w', T) = LeftIn(w, T) - z BY <1>4, <1>5
<1>7. LeftIn(w, T) \in Int
  <2>1. Ticking(w, T) BY ThreadKinds DEF Ticking, Clock, ClockState
  <2> QED BY <2>1, LeftIs
<1>8. LeftIn(w', T) <= LeftIn(w', h) + MaxSlip
  BY <1>2, <1>3, <1>5, <1>6, <1>7, TickRange
<1> QED BY <1>6, <1>8 DEF h

\* Which timers are busy after t goes on to timer y.
LEMMA BusyMoves ==
  ASSUME OpsOK, NEW t \in Thread, NEW y, op' = [op EXCEPT ![t] = y]
  PROVE  /\ op'[t] = y /\ \A u \in Thread \ {t} : op'[u] = op[u]
         /\ Busy \ {op[t]} \subseteq Busy' /\ y \in Busy'
<1>1. op'[t] = y /\ \A u \in Thread \ {t} : op'[u] = op[u] BY DEF OpsOK
<1> QED BY <1>1 DEF Busy

\* A step of thread t of the application, which goes on to timer y.
LEMMA AppKeeps ==
  ASSUME NEW d \in Nat, WellUsed(d), TimersInv(d), NEW t \in App, k.current = t, NEW to, NEW y,
         pc[t] # "start_sched",
         pc' = [pc EXCEPT ![t] = to], op' = [op EXCEPT ![t] = y], irq' = irq,
         k'.current = t, k'.stat[T] = k.stat[T],
         UNCHANGED <<next, cur, n, slip>>,
         IF to \in Handling THEN y \in AppTimer[t] ELSE y = NoTimer,
         to \in Handling \ {"stop_remove"} => y \notin On(w'),
         to = "start_insert" => y \notin w'.active /\ Age(w', y) <= MaxSlip,
         Clock(w', Low, Soonest, d), w'.tick = w.tick,
         k'.armed = Thread \cap ToSet(w'.list["hard"]),
         On(w') \cap Timer \subseteq w'.active,
         \A x \in Timer \ {y} : x \notin Busy \/ x = op[t] => (x \in w'.active <=> x \in On(w')),
         \A u \in App \ {t} : pc[u] \in Handling =>
            /\ op[u] \in On(w') => op[u] \in On(w)
            /\ op[u] \in w'.active => op[u] \in w.active
            /\ w'.timeout[op[u]] = w.timeout[op[u]] /\ w'.init[op[u]] = w.init[op[u]],
         WakesInTime'
  PROVE  TimersAllOK(d)'
<1>1. /\ ThreadsOK /\ ClockOK(d) /\ OpsOK /\ PendingOK(d) /\ WalkOK /\ SleepOK(d)
      /\ pc \in [Thread -> TimersPc] /\ t \in Thread /\ t # T /\ t # Idle
  BY ThreadKinds DEF TimersInv, TimersAllOK, ThreadsOK, PlacesOK
<1>2. /\ pc'[t] = to /\ \A u \in Thread \ {t} : pc'[u] = pc[u]
      /\ op'[t] = y /\ \A u \in Thread \ {t} : op'[u] = op[u]
      /\ Busy \ {op[t]} \subseteq Busy' /\ y \in Busy'
  BY <1>1, BusyMoves
<1>3. pc'[T] = pc[T] /\ op'[T] = op[T] /\ op'[Idle] = op[Idle] BY <1>1, <1>2, ThreadKinds
<1>4. pc[T] \in Asleep \/ (pc[T] = "run" /\ k.stat[T] = "none") BY <1>1, OtherRuns
<1>5. pc[T] \notin Locked \cup Walking \cup {"next", "suspend", "delay", "unlock_sched"}
  BY <1>4 DEF Asleep, Locked, Walking
<1>6. ClockOK(d)'
  <2>1. FlagsOK(w', Busy') BY <1>2 DEF FlagsOK
  <2>2. Low' = Low /\ Soonest' = Soonest BY DEF Low, Soonest
  <2>3. Clock(w', Low', Soonest', d) BY <2>2
  <2>4. k'.current # NoThread BY <1>1, ThreadKinds
  <2> QED BY <1>1, <2>1, <2>3, <2>4 DEF ClockOK
<1>7. OpsOK'
  <2>1. y \in Timer \cup {NoTimer} BY TimersAssumption
  <2>2. op' \in [Thread -> Timer \cup {NoTimer}] BY <1>1, <2>1 DEF OpsOK
  <2>3. \A u \in App : IF pc'[u] \in Handling THEN op'[u] \in AppTimer[u] ELSE op'[u] = NoTimer
    BY <1>1, <1>2, ThreadKinds DEF OpsOK
  <2>4. \A u \in App : pc'[u] \in Handling \ {"stop_remove"} => op'[u] \notin On(w')
    BY <1>1, <1>2, ThreadKinds DEF OpsOK
  <2>5. \A u \in App : pc'[u] = "start_insert" => op'[u] \notin w'.active
    BY <1>1, <1>2, ThreadKinds DEF OpsOK, Handling
  <2> QED BY <1>1, <1>3, <1>5, <2>2, <2>3, <2>4, <2>5 DEF OpsOK, Walking
<1>8. PendingOK(d)'
  <2>1. \A u \in App : pc'[u] = "start_insert" => Age(w', op'[u]) <= MaxSlip
    <3> TAKE u \in App
    <3> HAVE pc'[u] = "start_insert"
    <3>1. CASE u = t BY <1>2, <3>1
    <3>2. CASE u # t
      <4>1. op'[u] = op[u] /\ pc[u] = "start_insert" BY <1>2, <3>2, ThreadKinds
      <4>2. Age(w', op[u]) = Age(w, op[u]) BY <3>2, <4>1 DEF Age, Handling
      <4> QED BY <1>1, <4>1, <4>2 DEF PendingOK
    <3> QED BY <3>1, <3>2
  <2> QED BY <1>3, <1>5, <2>1 DEF PendingOK, Walking
<1>9. WalkOK' BY <1>1, <1>3, <1>4, <1>5 DEF WalkOK, Asleep
<1>10. SleepOK(d)' BY <1>3, <1>5 DEF SleepOK
<1> QED BY <1>6, <1>7, <1>8, <1>9, <1>10 DEF TimersAllOK

-----------------------------------------------------------------------------
(***************************************************************************)
(* How long a call of rt_timer_start has been interrupted.                 *)
(***************************************************************************)
LEMMA AgeIs ==
  ASSUME NEW s \in ClockState, NEW x \in Timer
  PROVE  LET z == Minus(s.timeout[x], s.init[x])
         IN  /\ s.tick \in 0 .. TickMax /\ s.timeout[x] \in 0 .. TickMax
             /\ s.init[x] \in 1 .. Half - 1
             /\ Age(s, x) \in 0 .. TickMax /\ z \in 0 .. TickMax
             /\ z = IF s.timeout[x] < s.init[x] THEN s.timeout[x] - s.init[x] + TickMod
                    ELSE s.timeout[x] - s.init[x]
             /\ Age(s, x) = IF s.tick < z THEN s.tick - z + TickMod ELSE s.tick - z
<1> DEFINE z == Minus(s.timeout[x], s.init[x])
<1>1. s.tick \in 0 .. TickMax /\ s.timeout[x] \in 0 .. TickMax /\ s.init[x] \in 1 .. Half - 1
  BY DEF ClockState
<1>2. s.init[x] \in 0 .. TickMax BY <1>1, TickRange
<1>3. /\ z \in 0 .. TickMax
      /\ z = IF s.timeout[x] < s.init[x] THEN s.timeout[x] - s.init[x] + TickMod
             ELSE s.timeout[x] - s.init[x]
  BY <1>1, <1>2, MinusTicks
<1> HIDE DEF z
<1>4. /\ Minus(s.tick, z) \in 0 .. TickMax
      /\ Minus(s.tick, z) = IF s.tick < z THEN s.tick - z + TickMod ELSE s.tick - z
  BY <1>1, <1>3, MinusTicks
<1>5. Age(s, x) = Minus(s.tick, z) BY DEF Age, z
<1> QED BY <1>1, <1>3, <1>4, <1>5 DEF z

LEMMA AgeSet ==
  ASSUME NEW s \in ClockState, NEW x \in Timer, LeftIn(s, x) = s.init[x]
  PROVE  Age(s, x) = 0
<1> DEFINE z == Minus(s.timeout[x], s.init[x])
<1>1. /\ s.tick \in 0 .. TickMax /\ s.timeout[x] \in 0 .. TickMax
      /\ s.init[x] \in 1 .. Half - 1 /\ z \in 0 .. TickMax
      /\ z = IF s.timeout[x] < s.init[x] THEN s.timeout[x] - s.init[x] + TickMod
             ELSE s.timeout[x] - s.init[x]
      /\ Age(s, x) = IF s.tick < z THEN s.tick - z + TickMod ELSE s.tick - z
  BY AgeIs
<1> HIDE DEF z
<1>2. Due(s, x, s.init[x]) BY <1>1, LeftIs DEF Ticking
<1> QED BY <1>1, <1>2, TickRange DEF Due

\* The timer is due that much sooner than its time.
LEMMA AgeLeft ==
  ASSUME NEW s \in ClockState, NEW x \in Timer, Age(s, x) <= MaxSlip, 2 * MaxSlip + 1 < Half
  PROVE  Age(s, x) \in 0 .. MaxSlip /\ LeftIn(s, x) = s.init[x] - Age(s, x)
<1> DEFINE z == Minus(s.timeout[x], s.init[x])
<1>1. /\ s.tick \in 0 .. TickMax /\ s.timeout[x] \in 0 .. TickMax
      /\ s.init[x] \in 1 .. Half - 1 /\ z \in 0 .. TickMax
      /\ z = IF s.timeout[x] < s.init[x] THEN s.timeout[x] - s.init[x] + TickMod
             ELSE s.timeout[x] - s.init[x]
      /\ Age(s, x) \in 0 .. TickMax
      /\ Age(s, x) = IF s.tick < z THEN s.tick - z + TickMod ELSE s.tick - z
  BY AgeIs
<1> HIDE DEF z
<1>2. Age(s, x) \in 0 .. MaxSlip BY <1>1, TickRange
<1>3. Due(s, x, s.init[x] - Age(s, x)) BY <1>1, <1>2, TickRange DEF Due
<1>4. Ticking(s, x) BY <1>1 DEF Ticking
<1> QED BY <1>2, <1>3, <1>4, LeftOf

LEMMA AgeTicks ==
  ASSUME NEW s \in ClockState, NEW r \in ClockState, NEW x \in Timer,
         r.tick = (s.tick + 1) % TickMod, r.timeout[x] = s.timeout[x], r.init[x] = s.init[x],
         Age(s, x) < MaxSlip, 2 * MaxSlip + 1 < Half
  PROVE  Age(r, x) <= MaxSlip
<1> DEFINE z == Minus(s.timeout[x], s.init[x])
<1>1. /\ s.tick \in 0 .. TickMax /\ s.timeout[x] \in 0 .. TickMax
      /\ s.init[x] \in 1 .. Half - 1 /\ z \in 0 .. TickMax
      /\ Age(s, x) \in 0 .. TickMax
      /\ Age(s, x) = IF s.tick < z THEN s.tick - z + TickMod ELSE s.tick - z
  BY AgeIs
<1>2. Age(r, x) = IF r.tick < z THEN r.tick - z + TickMod ELSE r.tick - z
  BY AgeIs
<1>3. r.tick = IF s.tick + 1 < TickMod THEN s.tick + 1 ELSE s.tick + 1 - TickMod
  <2> DEFINE y == s.tick + 1
  <2>1. y \in 0 .. 3 * TickMod - 1 /\ TickMod \in Nat \ {0} BY <1>1, TickRange
  <2>2. y % TickMod = IF y < TickMod THEN y
                      ELSE IF y < 2 * TickMod THEN y - TickMod ELSE y - 2 * TickMod
    BY <2>1, ModThrice
  <2> QED BY <2>2, <1>1, TickRange
<1> HIDE DEF z
<1> QED BY <1>1, <1>2, <1>3, TickRange

-----------------------------------------------------------------------------
(***************************************************************************)
(* The steps of the application.                                           *)
(***************************************************************************)
LEMMA ListsOn ==
  ASSUME NEW s, NEW low, NEW lo, NEW d, Clock(s, low, lo, d)
  PROVE  /\ Thread \cap ToSet(s.list["hard"]) = Thread \cap On(s)
         /\ ToSet(s.list["soft"]) = Soft \cap On(s)
         /\ On(s) \subseteq Entry /\ Soft \subseteq Timer /\ Timer \cap Thread = {}
         /\ Soft \in SUBSET Entry /\ s \in ClockState /\ s.list["soft"] \in Seq(Soft)
         /\ \A y \in Entry : LeftIn(s, y) \in Int
<1>1. /\ s \in ClockState /\ s.list["soft"] \in Seq(Soft) BY DEF Clock
<1>2. \A y \in Entry : LeftIn(s, y) \in Int
  <2>1. \A y \in Entry : Ticking(s, y) BY <1>1 DEF ClockState, Ticking, Entry
  <2> QED BY <2>1, LeftIs
<1> QED BY <1>1, <1>2, ListsApart DEF On, Entry

LEMMA InvFacts ==
  ASSUME NEW d \in Nat, WellUsed(d), TimersInv(d)
  PROVE  /\ ThreadsOK /\ ClockOK(d) /\ OpsOK /\ PendingOK(d) /\ WalkOK /\ SleepOK(d) /\ WakesInTime
         /\ Clock(w, Low, Soonest, d) /\ Bounds(Low, Soonest, d) /\ FlagsOK(w, Busy)
         /\ w \in ClockState /\ pc \in [Thread -> TimersPc] /\ slip \in 0 .. MaxSlip
         /\ k.armed = Thread \cap On(w)
<1>1. /\ ThreadsOK /\ ClockOK(d) /\ OpsOK /\ PendingOK(d) /\ WalkOK /\ SleepOK(d) /\ WakesInTime
  BY DEF TimersInv, TimersAllOK, SleepOK
<1>2. /\ Clock(w, Low, Soonest, d) /\ FlagsOK(w, Busy) /\ slip \in 0 .. MaxSlip
      /\ k.armed = Thread \cap ToSet(w.list["hard"])
  BY <1>1 DEF ClockOK
<1>3. pc \in [Thread -> TimersPc] BY <1>1 DEF ThreadsOK, PlacesOK
<1> QED BY <1>1, <1>2, <1>3, BoundsHold, ListsOn

\* The other threads of the application operate other timers.
LEMMA OthersApart ==
  ASSUME NEW d \in Nat, WellUsed(d), TimersInv(d), NEW t \in App, NEW x \in AppTimer[t]
  PROVE  \A u \in App \ {t} : pc[u] \in Handling => op[u] # x /\ op[u] \in Timer
<1>1. OpsOK /\ OneOperator BY DEF TimersInv, TimersAllOK, WellUsed
<1>2. AppTimer \in [App -> SUBSET Timer] BY TimersAssumption
<1> QED BY <1>1, <1>2 DEF OpsOK, OneOperator

\* where a thread is about to wake the timer thread (Waking)
Wakers == {"start_test", "start_resume", "start_ready"}

\* A step of thread t of the application that leaves the timer thread a
\* time-out that is early enough, or is on its way to wake it.
LEMMA AppMoves ==
  ASSUME NEW d \in Nat, WellUsed(d), TimersInv(d), NEW t \in App, k.current = t, NEW to, NEW y,
         pc[t] # "start_sched",
         pc' = [pc EXCEPT ![t] = to], op' = [op EXCEPT ![t] = y], irq' = irq,
         k'.current = t, k'.stat[T] = k.stat[T],
         UNCHANGED <<next, cur, n, slip>>,
         IF to \in Handling THEN y \in AppTimer[t] ELSE y = NoTimer,
         to \in Handling \ {"stop_remove"} => y \notin On(w'),
         to = "start_insert" => y \notin w'.active /\ Age(w', y) <= MaxSlip,
         Clock(w', Low, Soonest, d), w'.tick = w.tick,
         k'.armed = Thread \cap On(w'),
         On(w') \cap Timer \subseteq w'.active,
         \A x \in Timer \ {y} : x \notin Busy \/ x = op[t] => (x \in w'.active <=> x \in On(w')),
         \A u \in App \ {t} : pc[u] \in Handling =>
            /\ op[u] \in On(w') => op[u] \in On(w)
            /\ op[u] \in w'.active => op[u] \in w.active
            /\ w'.timeout[op[u]] = w.timeout[op[u]] /\ w'.init[op[u]] = w.init[op[u]],
         to \notin Wakers =>
            /\ pc[t] \in Wakers => k.stat[T] # "suspend"
            /\ T \in On(w) => T \in On(w') /\ LeftIn(w', T) = LeftIn(w, T)
            /\ \A x \in Soft \cap On(w') : x \in On(w) /\ LeftIn(w', x) = LeftIn(w, x)
  PROVE  TimersAllOK(d)'
<1>1. /\ WakesInTime /\ Clock(w, Low, Soonest, d) /\ k.armed = Thread \cap On(w)
      /\ pc \in [Thread -> TimersPc]
  BY InvFacts
<1>2. k'.armed = Thread \cap ToSet(w'.list["hard"]) BY ListsOn
<1>3. \A u \in Thread : pc'[u] = IF u = t THEN to ELSE pc[u] BY <1>1
<1>4. t \in Thread BY ThreadKinds
<1>5. to \in Wakers => Waking' BY <1>3, <1>4 DEF Waking, Wakers
<1>6. Waking => Waking' \/ k'.stat[T] # "suspend"
  <2> SUFFICES ASSUME Waking, k.stat[T] = "suspend" PROVE Waking' OBVIOUS
  <2>1. PICK u \in Thread : pc[u] \in Wakers BY DEF Waking, Wakers
  <2>2. CASE u = t BY <1>5, <2>1, <2>2
  <2>3. CASE u # t BY <1>3, <2>1, <2>3 DEF Waking, Wakers
  <2> QED BY <2>2, <2>3
<1>7. ASSUME to \notin Wakers
      PROVE  /\ T \in k.armed => T \in k'.armed /\ LeftIn(w', T) = LeftIn(w, T) - 0
             /\ \A x \in ToSet(w'.list["soft"]) : /\ x \in ToSet(w.list["soft"])
                                                  /\ LeftIn(w', x) = LeftIn(w, x) - 0
  <2>1. T \in Entry /\ \A x \in Soft : x \in Entry BY ThreadKinds, TimersAssumption DEF Entry
  <2>2. LeftIn(w, T) \in Int /\ \A x \in Soft : LeftIn(w, x) \in Int BY <1>1, <2>1, ListsOn
  <2>3. \A x \in ToSet(w'.list["soft"]) : x \in Soft \cap On(w') BY ListsOn
  <2>4. \A x \in Soft \cap On(w) : x \in ToSet(w.list["soft"]) BY <1>1, ListsOn
  <2> QED BY <1>1, <1>7, <2>2, <2>3, <2>4
<1>8. w' \in ClockState /\ w'.list["soft"] \in Seq(Soft) /\ 0 \in Int BY DEF Clock
<1>9. WakesInTime'
  <2>1. CASE to \in Wakers BY <1>5, <2>1 DEF WakesInTime
  <2>2. CASE to \notin Wakers BY <1>1, <1>6, <1>7, <1>8, <2>2, StillWakes
  <2> QED BY <2>1, <2>2
<1> QED BY <1>2, <1>9, AppKeeps

LEMMA StartTestOK ==
  ASSUME NEW d \in Nat, WellUsed(d), TimersInv(d), NEW t \in Thread, NEW x \in Timer, StartTest(t, x)
  PROVE  TimersInv(d)'
<1>1. /\ Running(t) /\ t \in App /\ x \in AppTimer[t] /\ x \notin w.active /\ pc[t] = "run"
      /\ pc' = [pc EXCEPT ![t] = "start_insert"] /\ w' = SetTimeout(w, x, w.init[x])
      /\ op' = [op EXCEPT ![t] = x] /\ k' = k /\ irq' = irq
      /\ UNCHANGED <<next, cur, n, slip>> /\ k.current = t
  BY DEF StartTest, Goto, walkVars, Running
<1>2. /\ ThreadsOK /\ OpsOK /\ WakesInTime /\ Clock(w, Low, Soonest, d) /\ Bounds(Low, Soonest, d)
      /\ FlagsOK(w, Busy) /\ w \in ClockState /\ k.armed = Thread \cap On(w)
  BY InvFacts
<1>3. ThreadsOK' BY <1>1, <1>2, ThreadGoesOn DEF Blocking, AppPc, Handling, Sleeping, WakingPc
<1>4. x \notin On(w) /\ x \in Entry /\ w.init[x] \in 0 .. Half - 1 /\ x \notin Thread
  BY <1>1, <1>2, TimersAssumption DEF FlagsOK, Entry, ClockState
<1>5. /\ Clock(w', Low, Soonest, d) /\ w'.tick = w.tick /\ w'.list = w.list /\ w'.init = w.init
      /\ w'.active = w.active /\ LeftIn(w', x) = w.init[x]
      /\ \A y \in Entry \ {x} : w'.timeout[y] = w.timeout[y] /\ LeftIn(w', y) = LeftIn(w, y)
  <2> DEFINE ticks == w.init[x]
  <2>1. ticks \in 0 .. Half - 1 /\ w' = SetTimeout(w, x, ticks) BY <1>1, <1>4
  <2> HIDE DEF ticks
  <2>2. /\ Clock(w', Low, Soonest, d) /\ w'.tick = w.tick /\ w'.list = w.list /\ w'.init = w.init
        /\ w'.active = w.active /\ LeftIn(w', x) = ticks
        /\ \A y \in Entry \ {x} : w'.timeout[y] = w.timeout[y] /\ LeftIn(w', y) = LeftIn(w, y)
    BY <1>2, <1>4, <2>1, SetTimeoutClock
  <2> QED BY <2>2 DEF ticks
<1>6. On(w') = On(w) BY <1>5 DEF On
<1>7. Age(w', x) = 0 /\ 0 <= MaxSlip
  <2>1. w' \in ClockState BY <1>5 DEF Clock
  <2> QED BY <1>5, <2>1, AgeSet, TickRange
<1>8. op[t] = NoTimer /\ NoTimer \notin Timer
  BY <1>1, <1>2, TimersAssumption DEF OpsOK, Handling
<1>9. \A u \in App \ {t} : pc[u] \in Handling => op[u] # x /\ op[u] \in Timer BY <1>1, OthersApart
<1>10. TimersAllOK(d)'
  <2>1. k'.armed = Thread \cap On(w') BY <1>1, <1>2, <1>6
  <2>2. \A y \in Timer \ {x} : y \notin Busy \/ y = op[t] => (y \in w'.active <=> y \in On(w'))
    BY <1>2, <1>5, <1>6, <1>8 DEF FlagsOK
  <2>3. On(w') \cap Timer \subseteq w'.active BY <1>2, <1>5, <1>6 DEF FlagsOK
  <2>4. \A u \in App \ {t} : pc[u] \in Handling =>
            /\ op[u] \in On(w') => op[u] \in On(w)
            /\ op[u] \in w'.active => op[u] \in w.active
            /\ w'.timeout[op[u]] = w.timeout[op[u]] /\ w'.init[op[u]] = w.init[op[u]]
    BY <1>5, <1>6, <1>9 DEF Entry
  <2>5. "start_insert" \in Handling /\ pc[t] \notin {"start_sched"} \cup Wakers
    BY <1>1 DEF Handling, Wakers
  <2>6. /\ T \in On(w) => T \in On(w') /\ LeftIn(w', T) = LeftIn(w, T)
        /\ \A y \in Soft \cap On(w') : y \in On(w) /\ LeftIn(w', y) = LeftIn(w, y)
    BY <1>2, <1>4, <1>5, <1>6, ListsOn, ThreadKinds DEF Entry
  <2> QED BY <1>1, <1>4, <1>5, <1>6, <1>7, <2>1, <2>2, <2>3, <2>4, <2>5, <2>6, AppMoves
<1> QED BY <1>3, <1>10 DEF TimersInv

LEMMA StartInsertOK ==
  ASSUME NEW d \in Nat, WellUsed(d), TimersInv(d), NEW t \in App, StartInsert(t)
  PROVE  TimersInv(d)'
<1> DEFINE x == op[t]
           to == IF x \in Soft THEN "start_test" ELSE "run"
<1>1. /\ Running(t) /\ pc[t] = "start_insert" /\ pc' = [pc EXCEPT ![t] = to] /\ w' = Insert(w, x)
      /\ op' = [op EXCEPT ![t] = NoTimer] /\ k' = k /\ irq' = irq
      /\ UNCHANGED <<next, cur, n, slip>> /\ k.current = t
  BY DEF StartInsert, Goto, walkVars, Running
<1>2. /\ ThreadsOK /\ OpsOK /\ PendingOK(d) /\ Clock(w, Low, Soonest, d) /\ Bounds(Low, Soonest, d)
      /\ FlagsOK(w, Busy) /\ w \in ClockState /\ k.armed = Thread \cap On(w) /\ slip \in 0 .. MaxSlip
  BY InvFacts
<1>3. /\ x \in AppTimer[t] /\ x \in Timer /\ x \in Entry /\ x \notin Thread /\ x \notin On(w)
      /\ x \notin w.active /\ Age(w, x) <= MaxSlip /\ x # NoTimer
  BY <1>1, <1>2, TimersAssumption DEF OpsOK, PendingOK, Handling, Entry
<1> HIDE DEF x
<1>4. ThreadsOK'
  <2>1. to \in AppPc \ ({"start_ready"} \cup Sleeping) /\ (to \in WakingPc => AppTimer[t] \cap Soft # {})
    BY <1>3 DEF AppPc, Sleeping, WakingPc
  <2>2. t \in Thread BY ThreadKinds
  <2> HIDE DEF to
  <2> QED BY <1>1, <1>2, <2>1, <2>2, ThreadGoesOn DEF Blocking
<1>5. LeftIn(w, x) \in 1 - MaxSlip .. d
  <2>1. Age(w, x) \in 0 .. MaxSlip /\ LeftIn(w, x) = w.init[x] - Age(w, x)
    BY <1>2, <1>3, AgeLeft DEF WellUsed, Punctual
  <2>2. w.init[x] \in 1 .. d BY <1>2, <1>3 DEF Clock
  <2> QED BY <2>1, <2>2, TickRange
<1>6. LeftIn(w, x) >= Soonest /\ LeftIn(w, x) >= 1 - MaxSlip /\ LeftIn(w, x) <= d
  BY <1>2, <1>5, TickRange DEF Soonest
<1>7. /\ Clock(w', Low, Soonest, d) /\ w'.tick = w.tick /\ w'.init = w.init
      /\ w'.timeout = w.timeout /\ w'.active = w.active \cup {x}
      /\ \A y : LeftIn(w', y) = LeftIn(w, y)
      /\ On(w') = On(w) \cup {x}
  <2>1. LET r == Insert(w, x)
        IN  /\ Clock(r, Low, Soonest, d) /\ r.tick = w.tick /\ r.init = w.init
            /\ r.timeout = w.timeout
            /\ r.active = IF x \in Timer THEN w.active \cup {x} ELSE w.active
            /\ \A y : LeftIn(r, y) = LeftIn(w, y)
            /\ On(r) = On(w) \cup {x}
    BY <1>2, <1>3, <1>6, InsertClock
  <2> QED BY <1>1, <1>3, <2>1
<1>8. \A u \in App \ {t} : pc[u] \in Handling => op[u] # x /\ op[u] \in Timer BY <1>3, OthersApart
<1>9. TimersAllOK(d)'
  <2>1. k'.armed = Thread \cap On(w') BY <1>1, <1>2, <1>3, <1>7
  <2>2. \A y \in Timer \ {NoTimer} : y \notin Busy \/ y = x => (y \in w'.active <=> y \in On(w'))
    BY <1>2, <1>7 DEF FlagsOK
  <2>3. On(w') \cap Timer \subseteq w'.active BY <1>2, <1>7 DEF FlagsOK
  <2>4. \A u \in App \ {t} : pc[u] \in Handling =>
            /\ op[u] \in On(w') => op[u] \in On(w)
            /\ op[u] \in w'.active => op[u] \in w.active
            /\ w'.timeout[op[u]] = w.timeout[op[u]] /\ w'.init[op[u]] = w.init[op[u]]
    BY <1>7, <1>8
  <2>5. to \notin Handling /\ pc[t] \notin {"start_sched"} \cup Wakers /\ to # "start_insert"
    BY <1>1 DEF Handling, Wakers
  <2>6. to \notin Wakers =>
        /\ T \in On(w) => T \in On(w') /\ LeftIn(w', T) = LeftIn(w, T)
        /\ \A y \in Soft \cap On(w') : y \in On(w) /\ LeftIn(w', y) = LeftIn(w, y)
    BY <1>7 DEF Wakers
  <2>7. \A y \in Timer \ {NoTimer} : y \notin Busy \/ y = op[t] => (y \in w'.active <=> y \in On(w'))
    BY <2>2 DEF x
  <2> HIDE DEF to
  <2> QED BY <1>1, <1>7, <2>1, <2>3, <2>4, <2>5, <2>6, <2>7, AppMoves
<1> QED BY <1>4, <1>9 DEF TimersInv

\* A step that leaves the timers alone, at a place about no timer.
LEMMA AppIdles ==
  ASSUME NEW d \in Nat, WellUsed(d), TimersInv(d), NEW t \in App, k.current = t, NEW to,
         pc[t] \notin {"start_sched"} \cup Handling, to \notin Handling,
         pc' = [pc EXCEPT ![t] = to], irq' = irq, UNCHANGED timerVars,
         k'.current = t, k'.stat[T] = k.stat[T], k'.armed = k.armed,
         to \notin Wakers /\ pc[t] \in Wakers => k.stat[T] # "suspend"
  PROVE  TimersAllOK(d)'
<1>1. /\ OpsOK /\ Clock(w, Low, Soonest, d) /\ FlagsOK(w, Busy) /\ k.armed = Thread \cap On(w)
  BY InvFacts
<1>2. w' = w /\ op' = op /\ UNCHANGED <<next, cur, n, slip>> BY DEF timerVars
<1>3. op[t] = NoTimer /\ t \in Thread BY <1>1, ThreadKinds DEF OpsOK
<1>4. op' = [op EXCEPT ![t] = NoTimer] BY <1>1, <1>2, <1>3 DEF OpsOK
<1>5. \A x \in Timer \ {NoTimer} : x \notin Busy \/ x = op[t] => (x \in w'.active <=> x \in On(w'))
  BY <1>1, <1>2, <1>3 DEF FlagsOK
<1>6. On(w') \cap Timer \subseteq w'.active BY <1>1, <1>2 DEF FlagsOK
<1>7. to # "start_insert" BY DEF Handling
<1> QED BY <1>1, <1>2, <1>4, <1>5, <1>6, <1>7, AppMoves

LEMMA StartSoftTestOK ==
  ASSUME NEW d \in Nat, WellUsed(d), TimersInv(d), NEW t \in App, StartSoftTest(t)
  PROVE  TimersInv(d)'
<1> DEFINE to == IF k.stat[T] = "ready" THEN "run" ELSE "start_resume"
<1>1. /\ Running(t) /\ pc[t] = "start_test" /\ pc' = [pc EXCEPT ![t] = to] /\ k' = k /\ irq' = irq
      /\ UNCHANGED timerVars /\ k.current = t
  BY DEF StartSoftTest, Goto, Running, T
<1>2. ThreadsOK BY DEF TimersInv
<1>3. ThreadsOK'
  <2>1. to \in AppPc \ ({"start_ready"} \cup Sleeping) BY DEF AppPc, Sleeping, WakingPc
  <2>2. AppTimer[t] \cap Soft # {} BY <1>1, <1>2 DEF ThreadsOK, PlacesOK, WakingPc
  <2>3. t \in Thread BY ThreadKinds
  <2> HIDE DEF to
  <2> QED BY <1>1, <1>2, <2>1, <2>2, <2>3, ThreadGoesOn DEF Blocking
<1>4. /\ pc[t] \notin {"start_sched"} \cup Handling /\ to \notin Handling
      /\ to \notin Wakers => k.stat[T] # "suspend"
  BY <1>1 DEF Handling, Wakers
<1> HIDE DEF to
<1>5. TimersAllOK(d)' BY <1>1, <1>4, AppIdles
<1> QED BY <1>3, <1>5 DEF TimersInv

\* Tidy keeps the timers of the threads other than t, and the saved node.
LEMMA InUseOthers ==
  ASSUME OpsOK, NEW t \in Thread, NEW u \in Thread \ {t}, op[u] # NoTimer
  PROVE  op[u] \in InUse(t) /\ op[u] \in Entry
BY DEF InUse, OpsOK, Entry

LEMMA StartResumeOK ==
  ASSUME NEW d \in Nat, WellUsed(d), TimersInv(d), NEW t \in App, StartResume(t)
  PROVE  TimersInv(d)'
<1>1. /\ ThreadsOK /\ OpsOK /\ Clock(w, Low, Soonest, d) /\ Bounds(Low, Soonest, d)
      /\ FlagsOK(w, Busy) /\ w \in ClockState /\ k.armed = Thread \cap On(w)
  BY InvFacts
<1>2. /\ Running(t) /\ k.current = t /\ pc[t] = "start_resume" /\ irq' = irq /\ op' = op
      /\ UNCHANGED <<next, cur, n, slip>> /\ t \in Thread /\ t # T
  BY ThreadKinds DEF StartResume, Goto, Running, walkVars
<1>3. pc[t] \notin {"start_sched"} \cup Handling BY <1>2 DEF Handling
<1>4. CASE k.stat[T] = "suspend"
  <2> DEFINE r == TimerRemove(w, T)
             U == InUse(T) \cup {n}
  <2>1. /\ pc' = [pc EXCEPT ![t] = "start_ready"] /\ k' = ResumeUnlink(k, T) /\ w' = Tidy(r, U)
    BY <1>4 DEF StartResume, Goto, T
  <2>2. ThreadsOK' /\ k'.stat = k.stat /\ k'.armed = k.armed \ {T} /\ k'.current = t
    BY <1>1, <1>2, <1>4, <2>1, Unlinks
  <2>3. /\ Clock(r, Low, Soonest, d) /\ r.tick = w.tick /\ r.init = w.init
        /\ r.timeout = w.timeout /\ r.active = w.active /\ On(r) = On(w) \ {T}
    <3>1. T \in Entry BY ThreadKinds DEF Entry
    <3> QED BY <1>1, <3>1, RemoveClock
  <2> HIDE DEF r, U
  <2>4. /\ Clock(w', Low, Soonest, d) /\ w'.tick = r.tick /\ w'.list = r.list /\ w'.init = r.init
        /\ w'.active = r.active
        /\ \A y \in Entry \cap (On(r) \cup U) : w'.timeout[y] = r.timeout[y]
    BY <1>1, <2>1, <2>3, TidyClock
  <2>5. On(w') = On(w) \ {T} BY <2>3, <2>4 DEF On
  <2>6. op[t] = NoTimer /\ op' = [op EXCEPT ![t] = NoTimer] BY <1>1, <1>2, <1>3 DEF OpsOK
  <2>7. T \notin Timer BY ThreadKinds, TimersAssumption
  <2>8. ASSUME NEW u \in App \ {t}, pc[u] \in Handling
        PROVE  w'.timeout[op[u]] = w.timeout[op[u]] /\ w'.init[op[u]] = w.init[op[u]]
    <3>1. op[u] \in AppTimer[u] BY <1>1, <2>8 DEF OpsOK
    <3>2. op[u] # NoTimer BY <3>1, TimersAssumption
    <3>3. op[u] \in U /\ op[u] \in Entry BY <1>1, <3>2, InUseOthers, ThreadKinds DEF U
    <3> QED BY <2>3, <2>4, <3>3
  <2>9. TimersAllOK(d)'
    <3>1. \A x \in Timer \ {NoTimer} : x \notin Busy \/ x = op[t] => (x \in w'.active <=> x \in On(w'))
      BY <1>1, <2>3, <2>4, <2>5, <2>6, <2>7 DEF FlagsOK
    <3>2. On(w') \cap Timer \subseteq w'.active BY <1>1, <2>3, <2>4, <2>5 DEF FlagsOK
    <3>3. k'.armed = Thread \cap On(w') BY <1>1, <2>2, <2>5
    <3>4. "start_ready" \notin Handling /\ "start_ready" \in Wakers BY DEF Handling, Wakers
    <3>5. \A u \in App \ {t} : pc[u] \in Handling =>
            /\ op[u] \in On(w') => op[u] \in On(w)
            /\ op[u] \in w'.active => op[u] \in w.active
            /\ w'.timeout[op[u]] = w.timeout[op[u]] /\ w'.init[op[u]] = w.init[op[u]]
      BY <2>3, <2>4, <2>5, <2>8
    <3>6. w'.tick = w.tick BY <2>3, <2>4
    <3> QED BY <1>2, <1>3, <2>1, <2>2, <2>4, <2>6, <3>1, <3>2, <3>3, <3>4, <3>5, <3>6, AppMoves
  <2> QED BY <2>2, <2>9 DEF TimersInv
<1>5. CASE k.stat[T] # "suspend"
  <2>1. /\ pc' = [pc EXCEPT ![t] = "start_sched"] /\ k' = k /\ w' = w
    BY <1>5 DEF StartResume, Goto, T
  <2>2. UNCHANGED timerVars BY <1>2, <2>1 DEF timerVars
  <2>3. ThreadsOK'
    <3>1. "start_sched" \in AppPc \ ({"start_ready"} \cup Sleeping) BY DEF AppPc, Sleeping, WakingPc
    <3>2. AppTimer[t] \cap Soft # {} BY <1>1, <1>2 DEF ThreadsOK, PlacesOK, WakingPc
    <3> QED BY <1>1, <1>2, <2>1, <3>1, <3>2, ThreadGoesOn DEF Blocking
  <2>4. "start_sched" \notin Handling BY DEF Handling
  <2>5. TimersAllOK(d)' BY <1>2, <1>3, <1>5, <2>1, <2>2, <2>4, AppIdles
  <2> QED BY <2>3, <2>5 DEF TimersInv
<1> QED BY <1>4, <1>5

LEMMA StopTestOK ==
  ASSUME NEW d \in Nat, WellUsed(d), TimersInv(d), NEW t \in Thread, NEW x \in Timer, StopTest(t, x)
  PROVE  TimersInv(d)'
<1>1. /\ Running(t) /\ t \in App /\ x \in AppTimer[t] /\ pc[t] = "run"
      /\ pc' = [pc EXCEPT ![t] = "stop_remove"] /\ w' = w
      /\ op' = [op EXCEPT ![t] = x] /\ k' = k /\ irq' = irq
      /\ UNCHANGED <<next, cur, n, slip>> /\ k.current = t
  BY DEF StopTest, Goto, walkVars, Running
<1>2. /\ ThreadsOK /\ OpsOK /\ Clock(w, Low, Soonest, d) /\ FlagsOK(w, Busy)
      /\ k.armed = Thread \cap On(w)
  BY InvFacts
<1>3. ThreadsOK' BY <1>1, <1>2, ThreadGoesOn DEF Blocking, AppPc, Handling, Sleeping, WakingPc
<1>4. op[t] = NoTimer /\ NoTimer \notin Timer
  BY <1>1, <1>2, TimersAssumption DEF OpsOK, Handling
<1>5. TimersAllOK(d)'
  <2>1. \A y \in Timer \ {x} : y \notin Busy \/ y = op[t] => (y \in w'.active <=> y \in On(w'))
    BY <1>1, <1>2, <1>4 DEF FlagsOK
  <2>2. On(w') \cap Timer \subseteq w'.active BY <1>1, <1>2 DEF FlagsOK
  <2>3. /\ "stop_remove" \in Handling /\ pc[t] \notin {"start_sched"} \cup Wakers
        /\ k'.armed = Thread \cap On(w') /\ "stop_remove" \notin Wakers
    BY <1>1, <1>2 DEF Handling, Wakers
  <2> QED BY <1>1, <1>2, <2>1, <2>2, <2>3, AppMoves
<1> QED BY <1>3, <1>5 DEF TimersInv

\* rt_timer_stop and rt_timer_detach take the timer off its list.
LEMMA TakesOff ==
  ASSUME NEW d \in Nat, WellUsed(d), TimersInv(d), NEW t \in App, Running(t), NEW x \in AppTimer[t], NEW to,
         \/ pc[t] = "stop_remove" /\ op[t] = x /\ to = "stop_clear"
         \/ pc[t] = "run" /\ to = "timer_init",
         pc' = [pc EXCEPT ![t] = to], op' = [op EXCEPT ![t] = x], w' = TimerRemove(w, x),
         k' = k, irq' = irq, UNCHANGED <<next, cur, n, slip>>
  PROVE  TimersInv(d)'
<1>1. /\ ThreadsOK /\ OpsOK /\ Clock(w, Low, Soonest, d) /\ Bounds(Low, Soonest, d)
      /\ FlagsOK(w, Busy) /\ k.armed = Thread \cap On(w) /\ k.current = t /\ t \in Thread
  BY InvFacts, ThreadKinds DEF Running
<1>2. x \in Timer /\ x \in Entry /\ x \notin Thread BY TimersAssumption DEF Entry
<1>3. ThreadsOK'
  <2>1. to \in AppPc \ ({"start_ready"} \cup Sleeping) /\ to \notin WakingPc
    BY DEF AppPc, Sleeping, WakingPc, Handling
  <2>2. pc[t] \notin {"start_sched", "start_ready"} \cup Blocking BY DEF Blocking
  <2> QED BY <1>1, <2>1, <2>2, ThreadGoesOn
<1>4. /\ Clock(w', Low, Soonest, d) /\ w'.tick = w.tick /\ w'.init = w.init
      /\ w'.timeout = w.timeout /\ w'.active = w.active
      /\ \A y : LeftIn(w', y) = LeftIn(w, y)
      /\ On(w') = On(w) \ {x}
  BY <1>1, <1>2, RemoveClock
<1>5. op[t] \in {x, NoTimer} /\ NoTimer \notin Timer
  BY <1>1, TimersAssumption DEF OpsOK, Handling
<1>6. TimersAllOK(d)'
  <2>1. \A y \in Timer \ {x} : y \notin Busy \/ y = op[t] => (y \in w'.active <=> y \in On(w'))
    BY <1>1, <1>4, <1>5 DEF FlagsOK
  <2>2. On(w') \cap Timer \subseteq w'.active BY <1>1, <1>4 DEF FlagsOK
  <2>3. /\ to \in Handling /\ pc[t] \notin {"start_sched"} \cup Wakers
        /\ k'.armed = Thread \cap On(w') /\ to \notin Wakers /\ to # "start_insert" /\ x \notin On(w')
    BY <1>1, <1>2, <1>4 DEF Handling, Wakers
  <2>4. /\ T \in On(w) => T \in On(w') /\ LeftIn(w', T) = LeftIn(w, T)
        /\ \A y \in Soft \cap On(w') : y \in On(w) /\ LeftIn(w', y) = LeftIn(w, y)
    BY <1>2, <1>4, ThreadKinds
  <2>5. \A u \in App \ {t} : pc[u] \in Handling =>
            /\ op[u] \in On(w') => op[u] \in On(w)
            /\ op[u] \in w'.active => op[u] \in w.active
            /\ w'.timeout[op[u]] = w.timeout[op[u]] /\ w'.init[op[u]] = w.init[op[u]]
    BY <1>4
  <2> QED BY <1>1, <1>4, <2>1, <2>2, <2>3, <2>4, <2>5, AppMoves
<1> QED BY <1>3, <1>6 DEF TimersInv

LEMMA StopRemoveOK ==
  ASSUME NEW d \in Nat, WellUsed(d), TimersInv(d), NEW t \in App, StopRemove(t)
  PROVE  TimersInv(d)'
<1> DEFINE x == op[t]
<1>1. /\ Running(t) /\ pc[t] = "stop_remove" /\ pc' = [pc EXCEPT ![t] = "stop_clear"]
      /\ w' = TimerRemove(w, x) /\ op' = op /\ k' = k /\ irq' = irq
      /\ UNCHANGED <<next, cur, n, slip>>
  BY DEF StopRemove, Goto, walkVars
<1>2. OpsOK BY InvFacts
<1>3. x \in AppTimer[t] /\ op' = [op EXCEPT ![t] = x] BY <1>1, <1>2 DEF OpsOK, Handling
<1> HIDE DEF x
<1>4. op[t] = x BY DEF x
<1> QED BY <1>1, <1>3, <1>4, TakesOff

LEMMA DetachOK ==
  ASSUME NEW d \in Nat, WellUsed(d), TimersInv(d), NEW t \in Thread, NEW x \in Timer, Detach(t, x)
  PROVE  TimersInv(d)'
<1>1. /\ Running(t) /\ t \in App /\ x \in AppTimer[t] /\ pc[t] = "run"
      /\ pc' = [pc EXCEPT ![t] = "timer_init"] /\ w' = TimerRemove(w, x)
      /\ op' = [op EXCEPT ![t] = x] /\ k' = k /\ irq' = irq /\ UNCHANGED <<next, cur, n, slip>>
  BY DEF Detach, Goto, walkVars
<1> QED BY <1>1, TakesOff

\* rt_timer_stop and rt_timer_init clear the flag of the timer they are about.
LEMMA ClearsFlag ==
  ASSUME NEW d \in Nat, WellUsed(d), TimersInv(d), NEW t \in App, Running(t), NEW x, x = op[t],
         pc[t] \in {"stop_clear", "timer_init"},
         pc' = [pc EXCEPT ![t] = "run"], op' = [op EXCEPT ![t] = NoTimer],
         k' = k, irq' = irq, UNCHANGED <<next, cur, n, slip>>,
         NEW r \in ClockState, r.tick = w.tick, r.list = w.list, r.timeout = w.timeout,
         r.active = w.active \ {x}, \A y \in Timer : r.init[y] \in 1 .. d,
         \A y \in Timer \ {x} : r.init[y] = w.init[y],
         w' = Tidy(r, InUse(t) \cup {n})
  PROVE  TimersInv(d)'
<1>1. /\ ThreadsOK /\ OpsOK /\ Clock(w, Low, Soonest, d) /\ Bounds(Low, Soonest, d)
      /\ FlagsOK(w, Busy) /\ k.armed = Thread \cap On(w) /\ k.current = t /\ t \in Thread
  BY InvFacts, ThreadKinds DEF Running
<1>2. /\ x \in AppTimer[t] /\ x \in Timer /\ x \notin On(w) /\ NoTimer \notin Timer
  BY <1>1, TimersAssumption DEF OpsOK, Handling
<1>3. ThreadsOK'
  <2>1. "run" \in AppPc \ ({"start_ready"} \cup Sleeping) /\ "run" \notin WakingPc
    BY DEF AppPc, Sleeping, WakingPc, Handling
  <2>2. pc[t] \notin {"start_sched", "start_ready"} \cup Blocking BY DEF Blocking
  <2> QED BY <1>1, <2>1, <2>2, ThreadGoesOn
<1> DEFINE U == InUse(t) \cup {n}
<1>4. Clock(r, Low, Soonest, d) /\ On(r) = On(w) BY <1>1, ClockSame
<1> HIDE DEF U
<1>5. /\ Clock(w', Low, Soonest, d) /\ w'.tick = r.tick /\ w'.list = r.list /\ w'.init = r.init
      /\ w'.active = r.active
      /\ \A y \in Entry \cap (On(r) \cup U) : w'.timeout[y] = r.timeout[y]
  <2>1. w' = Tidy(r, U) BY DEF U
  <2>2. LET q == Tidy(r, U)
        IN  /\ Clock(q, Low, Soonest, d) /\ q.tick = r.tick /\ q.list = r.list /\ q.init = r.init
            /\ q.active = r.active
            /\ \A y \in Entry \cap (On(r) \cup U) : q.timeout[y] = r.timeout[y]
    BY <1>1, <1>4, TidyClock
  <2> QED BY <2>1, <2>2
<1>6. On(w') = On(w) BY <1>4, <1>5 DEF On
<1>7. \A y \in On(w) : LeftIn(w', y) = LeftIn(w, y) /\ y \in Entry
  <2>1. \A y \in On(w) : y \in Entry BY <1>1, ListsOn
  <2>2. \A y \in On(w) : w'.timeout[y] = w.timeout[y] BY <1>4, <1>5, <2>1
  <2>3. w'.tick = w.tick BY <1>5
  <2>4. \A y \in On(w) : LeftIn(w', y) = LeftIn(w, y) BY <2>2, <2>3 DEF LeftIn
  <2> QED BY <2>1, <2>4
<1>8. TimersAllOK(d)'
  <2>1. \A y \in Timer \ {NoTimer} : y \notin Busy \/ y = op[t] => (y \in w'.active <=> y \in On(w'))
    BY <1>1, <1>2, <1>5, <1>6 DEF FlagsOK
  <2>2. On(w') \cap Timer \subseteq w'.active BY <1>1, <1>2, <1>5, <1>6 DEF FlagsOK
  <2>3. /\ "run" \notin Handling /\ pc[t] \notin {"start_sched"} \cup Wakers
        /\ k'.armed = Thread \cap On(w') /\ "run" \notin Wakers
    BY <1>1, <1>6 DEF Handling, Wakers
  <2>4. /\ T \in On(w) => T \in On(w') /\ LeftIn(w', T) = LeftIn(w, T)
        /\ \A y \in Soft \cap On(w') : y \in On(w) /\ LeftIn(w', y) = LeftIn(w, y)
    BY <1>6, <1>7
  <2>5. ASSUME NEW u \in App \ {t}, pc[u] \in Handling
        PROVE  w'.timeout[op[u]] = w.timeout[op[u]] /\ w'.init[op[u]] = w.init[op[u]]
    <3>1. op[u] # x /\ op[u] \in Timer BY <1>2, <2>5, OthersApart
    <3>2. op[u] # NoTimer BY <1>2, <3>1
    <3>3. op[u] \in U /\ op[u] \in Entry BY <1>1, <3>2, InUseOthers, ThreadKinds DEF U
    <3> QED BY <1>5, <3>1, <3>3
  <2>6. \A u \in App \ {t} : pc[u] \in Handling =>
            /\ op[u] \in On(w') => op[u] \in On(w)
            /\ op[u] \in w'.active => op[u] \in w.active
            /\ w'.timeout[op[u]] = w.timeout[op[u]] /\ w'.init[op[u]] = w.init[op[u]]
    BY <1>5, <1>6, <2>5
  <2>7. w'.tick = w.tick BY <1>5
  <2> QED BY <1>1, <1>5, <2>1, <2>2, <2>3, <2>4, <2>6, <2>7, AppMoves
<1> QED BY <1>3, <1>8 DEF TimersInv

LEMMA StopClearOK ==
  ASSUME NEW d \in Nat, WellUsed(d), TimersInv(d), NEW t \in App, StopClear(t)
  PROVE  TimersInv(d)'
<1> DEFINE x == op[t]
           r == [w EXCEPT !.active = @ \ {x}]
<1>1. /\ Running(t) /\ pc[t] = "stop_clear" /\ pc' = [pc EXCEPT ![t] = "run"]
      /\ w' = Tidy(r, InUse(t) \cup {n}) /\ op' = [op EXCEPT ![t] = NoTimer]
      /\ k' = k /\ irq' = irq /\ UNCHANGED <<next, cur, n, slip>>
  BY DEF StopClear, Goto, walkVars
<1>2. w \in ClockState /\ \A y \in Timer : w.init[y] \in 1 .. d BY InvFacts DEF Clock
<1> HIDE DEF x
<1>3. /\ r \in ClockState /\ r.tick = w.tick /\ r.list = w.list /\ r.timeout = w.timeout
      /\ r.active = w.active \ {x} /\ r.init = w.init
  BY <1>2 DEF ClockState
<1> HIDE DEF r
<1>4. x = op[t] BY DEF x
<1> QED BY <1>1, <1>2, <1>3, <1>4, ClearsFlag

LEMMA TimerInitOK ==
  ASSUME NEW d \in Nat, WellUsed(d), TimersInv(d), NEW t \in App, TimerInit(t)
  PROVE  TimersInv(d)'
<1> DEFINE x == op[t]
           per == IF x \in Periodic THEN w.periodic \cup {x} ELSE w.periodic \ {x}
           r == [w EXCEPT !.active = @ \ {x}, !.init[x] = InitTick[x], !.periodic = per]
<1>1. /\ Running(t) /\ pc[t] = "timer_init" /\ pc' = [pc EXCEPT ![t] = "run"]
      /\ op' = [op EXCEPT ![t] = NoTimer]
      /\ k' = k /\ irq' = irq /\ UNCHANGED <<next, cur, n, slip>>
  BY DEF TimerInit, Goto, walkVars
<1>2. /\ w \in ClockState /\ \A y \in Timer : w.init[y] \in 1 .. d BY InvFacts DEF Clock
<1>3. w' = Tidy(r, InUse(t) \cup {n}) BY <1>2 DEF TimerInit, ClockState
<1>4. x \in Timer /\ x = op[t]
  <2>1. OpsOK BY InvFacts
  <2> QED BY <1>1, <2>1, TimersAssumption DEF OpsOK, Handling
<1> HIDE DEF x
<1>5. InitTick[x] \in 1 .. Half - 1 /\ InitTick[x] \in 1 .. d
  BY <1>4, TimersAssumption DEF WellUsed, Punctual
<1>6. per \in SUBSET Timer BY <1>2, <1>4 DEF ClockState
<1> HIDE DEF per
<1>7. /\ r \in ClockState /\ r.tick = w.tick /\ r.list = w.list /\ r.timeout = w.timeout
      /\ r.active = w.active \ {x} /\ r.init = [w.init EXCEPT ![x] = InitTick[x]]
  BY <1>2, <1>4, <1>5, <1>6 DEF ClockState
<1> HIDE DEF r
<1>8. \A y \in Timer : r.init[y] = IF y = x THEN InitTick[x] ELSE w.init[y]
  BY <1>2, <1>7 DEF ClockState
<1>9. /\ \A y \in Timer : r.init[y] \in 1 .. d
      /\ \A y \in Timer \ {x} : r.init[y] = w.init[y]
  BY <1>2, <1>5, <1>8
<1>10. pc[t] \in {"stop_clear", "timer_init"} BY <1>1
<1> QED BY <1>1, <1>3, <1>4, <1>7, <1>9, <1>10, ClearsFlag

LEMMA ControlOK ==
  ASSUME NEW d \in Nat, WellUsed(d), TimersInv(d), NEW t \in Thread, NEW x \in Timer, Control(t, x)
  PROVE  TimersInv(d)'
<1>1. /\ Running(t) /\ t \in App /\ x \in AppTimer[t] /\ pc[t] = "run" /\ k.current = t
      /\ pc' = pc /\ op' = op /\ k' = k /\ irq' = irq /\ UNCHANGED <<next, cur, n, slip>>
  BY DEF Control, walkVars, Running
<1>2. /\ ThreadsOK /\ OpsOK /\ Clock(w, Low, Soonest, d) /\ Bounds(Low, Soonest, d)
      /\ FlagsOK(w, Busy) /\ k.armed = Thread \cap On(w) /\ w \in ClockState
      /\ pc \in [Thread -> TimersPc]
  BY InvFacts
<1>3. /\ w' \in ClockState /\ w'.tick = w.tick /\ w'.list = w.list /\ w'.timeout = w.timeout
      /\ w'.active = w.active /\ \A y \in Timer : w'.init[y] \in 1 .. d
      /\ \A y \in Timer \ {x} : w'.init[y] = w.init[y]
  <2>1. \A y \in Timer : w.init[y] \in 1 .. d BY <1>2 DEF Clock
  <2>2. CASE \E e \in SetTicks[x] : w' = [w EXCEPT !.init[x] = e]
    <3>1. PICK e \in SetTicks[x] : w' = [w EXCEPT !.init[x] = e] BY <2>2
    <3>2. e \in 1 .. Half - 1 /\ e \in 1 .. d BY TimersAssumption DEF WellUsed, Punctual
    <3>3. /\ w' \in ClockState /\ w'.tick = w.tick /\ w'.list = w.list /\ w'.timeout = w.timeout
          /\ w'.active = w.active /\ w'.init = [w.init EXCEPT ![x] = e]
      BY <1>2, <3>1, <3>2 DEF ClockState
    <3>4. \A y \in Timer : w'.init[y] = IF y = x THEN e ELSE w.init[y]
      BY <1>2, <3>3 DEF ClockState
    <3> QED BY <2>1, <3>2, <3>3, <3>4
  <2>3. CASE \/ w' = [w EXCEPT !.periodic = @ \ {x}]
             \/ w' = [w EXCEPT !.periodic = @ \cup {x}]
    BY <1>2, <2>1, <2>3 DEF ClockState
  <2> QED BY <2>2, <2>3 DEF Control
<1>4. Clock(w', Low, Soonest, d) /\ On(w') = On(w) BY <1>2, <1>3, ClockSame
<1>5. \A y : LeftIn(w', y) = LeftIn(w, y) BY <1>3, LeftSame
<1>6. ThreadsOK' BY <1>1, <1>2 DEF ThreadsOK, PlacesOK, SchedulerOK, TimerThreadOK
<1>7. op[t] = NoTimer /\ NoTimer \notin Timer
  BY <1>1, <1>2, TimersAssumption DEF OpsOK, Handling
<1>8. \A u \in App \ {t} : pc[u] \in Handling => op[u] # x /\ op[u] \in Timer BY <1>1, OthersApart
<1>9. TimersAllOK(d)'
  <2>1. pc' = [pc EXCEPT ![t] = "run"] /\ op' = [op EXCEPT ![t] = NoTimer]
    BY <1>1, <1>2, <1>7 DEF OpsOK
  <2>2. \A y \in Timer \ {NoTimer} : y \notin Busy \/ y = op[t] => (y \in w'.active <=> y \in On(w'))
    BY <1>2, <1>3, <1>4, <1>7 DEF FlagsOK
  <2>3. On(w') \cap Timer \subseteq w'.active BY <1>2, <1>3, <1>4 DEF FlagsOK
  <2>4. /\ "run" \notin Handling /\ "run" \notin Wakers /\ k'.armed = Thread \cap On(w')
        /\ pc[t] \notin {"start_sched"} \cup Wakers
    BY <1>1, <1>2, <1>4 DEF Handling, Wakers
  <2>6. /\ T \in On(w) => T \in On(w') /\ LeftIn(w', T) = LeftIn(w, T)
        /\ \A y \in Soft \cap On(w') : y \in On(w) /\ LeftIn(w', y) = LeftIn(w, y)
    BY <1>4, <1>5
  <2>5. \A u \in App \ {t} : pc[u] \in Handling =>
            /\ op[u] \in On(w') => op[u] \in On(w)
            /\ op[u] \in w'.active => op[u] \in w.active
            /\ w'.timeout[op[u]] = w.timeout[op[u]] /\ w'.init[op[u]] = w.init[op[u]]
    BY <1>3, <1>4, <1>8
  <2>7. w'.tick = w.tick /\ k'.current = t /\ k'.stat[T] = k.stat[T] BY <1>1, <1>3
  <2> QED BY <1>1, <1>4, <2>1, <2>2, <2>3, <2>4, <2>5, <2>6, <2>7, AppMoves
<1> QED BY <1>6, <1>9 DEF TimersInv

\* rt_thread_sleep puts the timer of the thread on the list.
LEMMA SleepBodyClock ==
  ASSUME NEW low, NEW lo, NEW d, Clock(w, low, lo, d), Bounds(low, lo, d),
         NEW t \in Thread, t \notin On(w), NEW ticks \in 0 .. Half - 1, ticks <= d
  PROVE  LET r == Insert(SetTimeout(w, t, ticks), t)
         IN  /\ Clock(r, low, lo, d) /\ r.tick = w.tick /\ r.init = w.init
             /\ r.active = w.active /\ On(r) = On(w) \cup {t}
             /\ r.list["soft"] = w.list["soft"] /\ LeftIn(r, t) = ticks
             /\ \A y \in Entry \ {t} : r.timeout[y] = w.timeout[y] /\ LeftIn(r, y) = LeftIn(w, y)
<1> DEFINE s == SetTimeout(w, t, ticks)
           r == Insert(s, t)
<1>1. t \in Entry /\ t \notin Timer /\ t \notin Soft BY TimersAssumption DEF Entry
<1>2. /\ Clock(s, low, lo, d) /\ s.tick = w.tick /\ s.list = w.list /\ s.init = w.init
      /\ s.active = w.active /\ LeftIn(s, t) = ticks
      /\ \A y \in Entry \ {t} : s.timeout[y] = w.timeout[y] /\ LeftIn(s, y) = LeftIn(w, y)
  BY <1>1, SetTimeoutClock
<1> HIDE DEF s
<1>3. t \notin On(s) /\ On(s) = On(w) BY <1>2 DEF On
<1>4. LeftIn(s, t) >= 1 - MaxSlip /\ LeftIn(s, t) <= d /\ LeftIn(s, t) >= low
  <2>1. low \in {-1, 0} /\ MaxSlip > 0 BY DEF Bounds, Punctual
  <2> QED BY <1>2, <2>1, TickRange
<1>5. /\ Clock(r, low, lo, d) /\ r.tick = s.tick /\ r.init = s.init
      /\ r.timeout = s.timeout /\ r.active = s.active
      /\ \A y : LeftIn(r, y) = LeftIn(s, y)
      /\ On(r) = On(s) \cup {t} /\ r.list["soft"] = s.list["soft"]
  <2>1. /\ Clock(r, low, lo, d) /\ r.tick = s.tick /\ r.init = s.init /\ r.timeout = s.timeout
        /\ r.active = IF t \in Timer THEN s.active \cup {t} ELSE s.active
        /\ \A y : LeftIn(r, y) = LeftIn(s, y)
        /\ On(r) = On(s) \cup {t}
        /\ t \in Soft => r.list["hard"] = s.list["hard"] /\ r.list["soft"] # <<>>
        /\ t \notin Soft => r.list["soft"] = s.list["soft"]
    <3>1. Clock(s, low, lo, d) /\ t \in Entry /\ t \notin On(s) BY <1>1, <1>2, <1>3
    <3>2. t \in Soft => LeftIn(s, t) >= lo BY <1>1
    <3>3. LET q == Insert(s, t)
          IN  /\ Clock(q, low, lo, d) /\ q.tick = s.tick /\ q.init = s.init
              /\ q.timeout = s.timeout /\ q.periodic = s.periodic
              /\ q.active = IF t \in Timer THEN s.active \cup {t} ELSE s.active
              /\ \A y : LeftIn(q, y) = LeftIn(s, y)
              /\ On(q) = On(s) \cup {t}
              /\ t \in Soft => q.list["hard"] = s.list["hard"] /\ q.list["soft"] # <<>>
              /\ t \notin Soft => q.list["soft"] = s.list["soft"]
              /\ \A m, G : t \in G /\ Covered(s.list["soft"], m, G) => Covered(q.list["soft"], m, G)
      BY <1>4, <3>1, <3>2, InsertClock, Zenon
    <3> QED BY <3>3
  <2> QED BY <1>1, <2>1
<1> HIDE DEF r
<1>6. /\ r.tick = w.tick /\ r.init = w.init /\ r.active = w.active /\ On(r) = On(w) \cup {t}
      /\ r.list["soft"] = w.list["soft"] /\ LeftIn(r, t) = ticks
      /\ \A y \in Entry \ {t} : r.timeout[y] = w.timeout[y] /\ LeftIn(r, y) = LeftIn(w, y)
  BY <1>2, <1>3, <1>5
<1> QED BY <1>5, <1>6 DEF r, s

\* A READY thread's timer is off the list.
LEMMA ReadyOff ==
  ASSUME NEW d \in Nat, WellUsed(d), TimersInv(d), NEW t \in Thread, k.stat[t] # "suspend"
  PROVE  t \notin On(w)
<1>1. ThreadsOK /\ k.armed = Thread \cap On(w) BY InvFacts
<1>2. TimersOK(k) BY <1>1 DEF ThreadsOK, SchedulerOK, KernelOK
<1> QED BY <1>1, <1>2 DEF TimersOK

LEMMA SleepForOK ==
  ASSUME NEW d \in Nat, WellUsed(d), TimersInv(d), NEW t \in Thread, NEW ticks \in SleepTicks, SleepFor(t, ticks)
  PROVE  TimersInv(d)'
<1>1. /\ Running(t) /\ t \in App /\ pc[t] = "run" /\ pc' = [pc EXCEPT ![t] = "sleep_sched"]
      /\ k' = TimerStart(Suspend(k, t), t) /\ w' = Insert(SetTimeout(w, t, ticks), t)
      /\ op' = op /\ irq' = irq /\ UNCHANGED <<next, cur, n, slip>> /\ k.current = t
  BY DEF SleepFor, SleepBody, Goto, walkVars, Running
<1>2. /\ ThreadsOK /\ OpsOK /\ Clock(w, Low, Soonest, d) /\ Bounds(Low, Soonest, d)
      /\ FlagsOK(w, Busy) /\ k.armed = Thread \cap On(w) /\ k \in KernelState
  BY InvFacts DEF ThreadsOK, SchedulerOK
<1>3. /\ ThreadsOK' /\ k.stat[t] = "ready" /\ k'.stat = [k.stat EXCEPT ![t] = "suspend"]
      /\ k'.armed = k.armed \cup {t} /\ k'.current = t
  BY <1>1, <1>2, Suspends
<1>4. t # T /\ T \in Thread /\ k'.stat[T] = k.stat[T] BY <1>1, <1>2, <1>3, ThreadKinds DEF KernelState
<1>5. ticks \in 0 .. Half - 1 /\ ticks <= d BY TimersAssumption DEF WellUsed, Punctual
<1>6. t \notin On(w) BY <1>3, ReadyOff
<1>7. /\ Clock(w', Low, Soonest, d) /\ w'.tick = w.tick /\ w'.init = w.init
      /\ w'.active = w.active /\ On(w') = On(w) \cup {t}
      /\ \A y \in Entry \ {t} : w'.timeout[y] = w.timeout[y] /\ LeftIn(w', y) = LeftIn(w, y)
  <2>1. LET r == Insert(SetTimeout(w, t, ticks), t)
        IN  /\ Clock(r, Low, Soonest, d) /\ r.tick = w.tick /\ r.init = w.init
            /\ r.active = w.active /\ On(r) = On(w) \cup {t}
            /\ \A y \in Entry \ {t} : r.timeout[y] = w.timeout[y] /\ LeftIn(r, y) = LeftIn(w, y)
    BY <1>2, <1>5, <1>6, SleepBodyClock
  <2> QED BY <1>1, <2>1
<1>8. op[t] = NoTimer /\ op' = [op EXCEPT ![t] = NoTimer] /\ NoTimer \notin Timer
  BY <1>1, <1>2, TimersAssumption DEF OpsOK, Handling
<1>9. t \notin Timer /\ \A x \in Timer : x \in Entry \ {t} BY TimersAssumption DEF Entry
<1>10. TimersAllOK(d)'
  <2>1. k'.armed = Thread \cap On(w') BY <1>2, <1>3, <1>7
  <2>2. \A y \in Timer \ {NoTimer} : y \notin Busy \/ y = op[t] => (y \in w'.active <=> y \in On(w'))
    BY <1>2, <1>7, <1>8, <1>9 DEF FlagsOK
  <2>3. On(w') \cap Timer \subseteq w'.active BY <1>2, <1>7, <1>9 DEF FlagsOK
  <2>4. \A u \in App \ {t} : pc[u] \in Handling =>
            /\ op[u] \in On(w') => op[u] \in On(w)
            /\ op[u] \in w'.active => op[u] \in w.active
            /\ w'.timeout[op[u]] = w.timeout[op[u]] /\ w'.init[op[u]] = w.init[op[u]]
    <3>1. \A u \in App : pc[u] \in Handling => op[u] \in Timer BY <1>2, TimersAssumption DEF OpsOK
    <3> QED BY <1>7, <1>9, <3>1
  <2>5. /\ "sleep_sched" \notin Handling /\ pc[t] \notin {"start_sched"} \cup Wakers
        /\ "sleep_sched" \notin Wakers
    BY <1>1 DEF Handling, Wakers
  <2>6. /\ T \in On(w) => T \in On(w') /\ LeftIn(w', T) = LeftIn(w, T)
        /\ \A y \in Soft \cap On(w') : y \in On(w) /\ LeftIn(w', y) = LeftIn(w, y)
    <3>1. T \in Entry \ {t} /\ \A y \in Soft : y \in Timer BY <1>4, TimersAssumption DEF Entry
    <3> QED BY <1>7, <1>9, <3>1
  <2> QED BY <1>1, <1>3, <1>4, <1>7, <1>8, <2>1, <2>2, <2>3, <2>4, <2>5, <2>6, AppMoves
<1> QED BY <1>3, <1>10 DEF TimersInv

-----------------------------------------------------------------------------
(***************************************************************************)
(* The steps that leave the soft list and what walks over it alone.        *)
(***************************************************************************)

\* where the timer thread depends on the soft list
Deciding == Locked \cup {"next", "suspend", "delay"}

LEMMA Keeps ==
  ASSUME NEW d \in Nat, WellUsed(d), TimersInv(d), op' = op, UNCHANGED <<next, cur, n, slip>>,
         \A t \in App : pc'[t] = pc[t] \/ (pc[t] \notin Handling /\ pc'[t] \notin Handling),
         pc'[T] = pc[T] \/ (pc[T] \notin Deciding /\ pc'[T] \notin Deciding),
         Clock(w', Low', Soonest, d), w'.tick = w.tick, w'.list["soft"] = w.list["soft"],
         FlagsOK(w', Busy), k'.armed = Thread \cap On(w'),
         \A x \in Soft \cap On(w) : w'.timeout[x] = w.timeout[x],
         \A t \in App : pc[t] \in Handling =>
            /\ op[t] \in On(w') => op[t] \in On(w)
            /\ op[t] \in w'.active => op[t] \in w.active,
         \A t \in App : pc[t] = "start_insert" =>
            /\ w'.timeout[op[t]] = w.timeout[op[t]] /\ w'.init[op[t]] = w.init[op[t]],
         pc[T] \in Walking => /\ op[T] \notin On(w') /\ w'.timeout[op[T]] = w.timeout[op[T]]
                              /\ op[T] \in w'.active <=> op[T] \in w.active,
         k'.current = NoThread => k.current = NoThread,
         pc'[T] \in {"unlock_sched", "run"} /\ k'.stat[T] = "ready" =>
            \/ pc[T] \in {"unlock_sched", "run"} /\ k.stat[T] = "ready"
            \/ w.list["soft"] = <<>>,
         k'.stat[T] = "suspend" =>
            /\ k.stat[T] = "suspend"
            /\ T \in On(w) => T \in On(w') /\ w'.timeout[T] = w.timeout[T],
         Waking => Waking' \/ k'.stat[T] # "suspend"
  PROVE  TimersAllOK(d)'
<1>1. /\ ClockOK(d) /\ OpsOK /\ PendingOK(d) /\ WalkOK /\ SleepOK(d) /\ WakesInTime
      /\ Clock(w, Low, Soonest, d) /\ k.armed = Thread \cap On(w)
  BY InvFacts
<1>2. /\ \A x \in Soft \cap On(w) : LeftIn(w', x) = LeftIn(w, x)
      /\ T \in On(w) /\ k'.stat[T] = "suspend" => LeftIn(w', T) = LeftIn(w, T)
  BY LeftSame
<1>3. Busy' = Busy /\ Soonest' = Soonest BY DEF Busy, Soonest
<1>4. /\ ToSet(w.list["soft"]) = Soft \cap On(w) /\ w'.list["soft"] \in Seq(Soft) /\ w' \in ClockState
      /\ k'.armed = Thread \cap ToSet(w'.list["hard"])
  BY <1>1, ListsOn
<1>5. Locked \cup Walking \subseteq Deciding /\ Walking \subseteq Locked
  BY DEF Deciding, Locked, Walking
<1>6. ClockOK(d)'
  <2>1. Clock(w', Low', Soonest', d) /\ FlagsOK(w', Busy') BY <1>3
  <2> QED BY <1>1, <1>4, <2>1 DEF ClockOK
<1>7. OpsOK'
  <2>1. \A t \in App : pc'[t] \in Handling => pc'[t] = pc[t] OBVIOUS
  <2>2. pc'[T] \in Walking <=> pc[T] \in Walking BY <1>5
  <2>3. \A t \in App : IF pc'[t] \in Handling THEN op[t] \in AppTimer[t] ELSE op[t] = NoTimer
    BY <1>1 DEF OpsOK
  <2>4. \A t \in App : pc'[t] \in Handling \ {"stop_remove"} => op[t] \notin On(w')
    BY <1>1, <2>1 DEF OpsOK
  <2>5. \A t \in App : pc'[t] = "start_insert" => op[t] \notin w'.active
    BY <1>1, <2>1 DEF OpsOK, Handling
  <2>6. pc'[T] \in Walking => pc'[T] = pc[T] BY <1>5
  <2>7. pc'[T] \in Walking => /\ op[T] \notin On(w')
                              /\ \A t \in App : op[t] = op[T] => pc'[t] = "stop_remove"
    BY <1>1, <2>6 DEF OpsOK, Handling
  <2>8. pc'[T] = "callback" => op[T] \in w'.active BY <1>1, <2>6 DEF OpsOK, Walking
  <2>9. pc'[T] = "restart_insert" => op[T] \notin w'.active BY <1>1, <2>6 DEF OpsOK, Walking
  <2> QED BY <1>1, <2>2, <2>3, <2>4, <2>5, <2>7, <2>8, <2>9 DEF OpsOK
<1>8. PendingOK(d)'
  <2>1. ASSUME NEW t \in App, pc'[t] = "start_insert" PROVE Age(w', op[t]) <= MaxSlip
    <3>1. pc[t] = "start_insert" BY <2>1 DEF Handling
    <3>2. Age(w', op[t]) = Age(w, op[t]) BY <3>1 DEF Age
    <3> QED BY <1>1, <3>1, <3>2 DEF PendingOK
  <2>2. ASSUME pc'[T] = "restart_insert" PROVE LeftIn(w', op[T]) \in 1 - slip .. d
    <3>1. pc[T] = "restart_insert" /\ pc[T] \in Walking BY <1>5, <2>2 DEF Walking
    <3>2. LeftIn(w', op[T]) = LeftIn(w, op[T]) BY <3>1, LeftSame
    <3> QED BY <1>1, <3>1, <3>2 DEF PendingOK
  <2> QED BY <2>1, <2>2 DEF PendingOK
<1>9. WalkOK'
  <2> DEFINE F == NotBefore(w, 1 - slip)
             G == NotBefore(w', 1 - slip)
  <2>1. \A x \in ToSet(w.list["soft"]) : x \in F => x \in G BY <1>2, <1>4 DEF NotBefore
  <2>2. pc'[T] \in Locked <=> pc[T] \in Locked BY <1>5
  <2>3. pc'[T] \in Locked => Covered(w.list["soft"], n, F) BY <1>1, <2>2 DEF WalkOK
  <2>4. pc'[T] \in {"unlock_sched", "run"} /\ k'.stat[T] = "ready" =>
           ToSet(w.list["soft"]) \subseteq F
    <3>1. w.list["soft"] = <<>> => ToSet(w.list["soft"]) = {} BY DEF ToSet
    <3> QED BY <1>1, <3>1 DEF WalkOK
  <2> HIDE DEF F, G
  <2>5. pc'[T] \in Locked => Covered(w.list["soft"], n, G) BY <2>1, <2>3, CoveredSame
  <2>6. pc'[T] \in {"unlock_sched", "run"} /\ k'.stat[T] = "ready" =>
           ToSet(w'.list["soft"]) \subseteq G
    BY <2>1, <2>4
  <2>7. pc'[T] \in Locked => Covered(w'.list["soft"], n, G) BY <2>5
  <2> QED BY <1>1, <2>2, <2>6, <2>7 DEF WalkOK, G
<1>10. SleepOK(d)'
  <2>1. pc'[T] \in Deciding => pc'[T] = pc[T] OBVIOUS
  <2>2. w.list["soft"] # <<>> =>
           /\ w'.timeout[Head(w.list["soft"])] = w.timeout[Head(w.list["soft"])]
           /\ LeftIn(w', Head(w.list["soft"])) = LeftIn(w, Head(w.list["soft"]))
    <3>1. w.list["soft"] # <<>> => Head(w.list["soft"]) \in ToSet(w.list["soft"])
      BY <1>4, HeadToSet
    <3> QED BY <1>2, <1>4, <3>1
  <2>3. NextTimeout' = NextTimeout /\ Sentinel' = Sentinel BY <2>2 DEF NextTimeout, Sentinel
  <2>4. WakesInTime'
    <3>1. LeftIn(w, T) \in Int /\ \A x \in Soft : LeftIn(w, x) \in Int
      <4>1. T \in Entry /\ \A x \in Soft : x \in Entry BY ThreadKinds, TimersAssumption DEF Entry
      <4> QED BY <1>1, <4>1, ListsOn
    <3>2. T \in Thread BY ThreadKinds
    <3>3. /\ \A x \in ToSet(w'.list["soft"]) : /\ x \in ToSet(w.list["soft"])
                                               /\ LeftIn(w', x) = LeftIn(w, x) - 0
          /\ T \in k.armed /\ k'.stat[T] = "suspend" => T \in k'.armed /\ LeftIn(w', T) = LeftIn(w, T) - 0
      BY <1>1, <1>2, <1>4, <3>1, <3>2
    <3>4. 0 \in Int OBVIOUS
    <3> QED BY <1>1, <1>4, <3>3, <3>4, StillWakes
  <2>5. pc'[T] = "next" => next = NextTimeout' /\ ~ Sentinel'
    BY <1>1, <2>1, <2>3 DEF SleepOK, Deciding
  <2>6. pc'[T] = "suspend" => w'.list["soft"] = <<>> BY <1>1, <2>1 DEF SleepOK, Deciding
  <2>7. pc'[T] = "delay" => /\ w'.list["soft"] # <<>> /\ next \in 0 .. d /\ next < Half
                            /\ next <= LeftIn(w', Head(w'.list["soft"])) + slip
    BY <1>1, <2>1, <2>2 DEF SleepOK, Deciding
  <2> QED BY <2>4, <2>5, <2>6, <2>7 DEF SleepOK
<1> QED BY <1>6, <1>7, <1>8, <1>9, <1>10 DEF TimersAllOK

\* The timers stand still.
LEMMA StandStill ==
  ASSUME NEW d \in Nat, WellUsed(d), TimersInv(d), UNCHANGED timerVars,
         \A t \in App : pc'[t] = pc[t] \/ (pc[t] \notin Handling /\ pc'[t] \notin Handling),
         pc'[T] = pc[T] \/ (pc[T] \notin Deciding /\ pc'[T] \notin Deciding),
         Clock(w, Low', Soonest, d), k'.armed = k.armed,
         k'.current = NoThread => k.current = NoThread,
         pc'[T] \in {"unlock_sched", "run"} /\ k'.stat[T] = "ready" =>
            \/ pc[T] \in {"unlock_sched", "run"} /\ k.stat[T] = "ready"
            \/ w.list["soft"] = <<>>,
         k'.stat[T] = "suspend" => k.stat[T] = "suspend",
         Waking => Waking' \/ k'.stat[T] # "suspend"
  PROVE  TimersAllOK(d)'
<1>1. w' = w /\ op' = op /\ UNCHANGED <<next, cur, n, slip>> BY DEF timerVars
<1>2. /\ FlagsOK(w, Busy) /\ k.armed = Thread \cap On(w) /\ OpsOK
  BY InvFacts
<1>3. pc[T] \in Walking => op[T] \notin On(w) BY <1>2 DEF OpsOK
<1>4. Clock(w', Low', Soonest, d) /\ w'.tick = w.tick BY <1>1
<1>5. w'.list["soft"] = w.list["soft"] /\ w'.timeout = w.timeout /\ w'.init = w.init
      /\ w'.active = w.active /\ On(w') = On(w)
  BY <1>1
<1>6. FlagsOK(w', Busy) /\ k'.armed = Thread \cap On(w') BY <1>1, <1>2
<1> QED BY <1>1, <1>3, <1>4, <1>5, <1>6, Keeps

\* A thread that is not about to wake the timer thread goes on.
LEMMA WakingStays ==
  ASSUME NEW t \in Thread, NEW to, pc \in [Thread -> TimersPc], pc' = [pc EXCEPT ![t] = to],
         pc[t] \notin Wakers
  PROVE  Waking => Waking'
BY DEF Waking, Wakers

LEMMA LowSame ==
  ASSUME NEW d \in Nat, WellUsed(d), TimersInv(d), irq' = Handler <=> irq = Handler
  PROVE  Clock(w, Low', Soonest, d)
<1>1. Clock(w, Low, Soonest, d) BY InvFacts
<1>2. Low' = Low BY DEF Low
<1> QED BY <1>1, <1>2

LEMMA TimersBootOK ==
  ASSUME NEW d \in Nat, WellUsed(d), TimersInv(d), TimersBoot
  PROVE  TimersInv(d)'
<1>1. ThreadsOK /\ ClockOK(d) BY InvFacts
<1>2. UNCHANGED timerVars BY DEF TimersBoot
<1>3. /\ ThreadsOK' /\ pc' = pc /\ irq' = irq /\ k.current = NoThread
      /\ k.stat[T] # "suspend" /\ k'.stat[T] # "suspend" /\ k'.armed = k.armed
  BY <1>1, Boots DEF TimersBoot, WellUsed
<1>4. w.list["soft"] = <<>> BY <1>1, <1>3 DEF ClockOK
<1>5. Clock(w, Low', Soonest, d) BY <1>3, LowSame
<1>6. TimersAllOK(d)' BY <1>2, <1>3, <1>4, <1>5, StandStill
<1> QED BY <1>3, <1>6 DEF TimersInv

\* A step of a thread of the application, between its calls.
LEMMA AppStandsStill ==
  ASSUME NEW d \in Nat, WellUsed(d), TimersInv(d), UNCHANGED timerVars, NEW t \in App, NEW to,
         pc' = [pc EXCEPT ![t] = to], irq' = irq, pc[t] \notin Handling, to \notin Handling,
         k.current = t, k'.current # NoThread, k'.armed = k.armed,
         k'.stat[T] = k.stat[T] \/ k.stat[T] = "suspend",
         k'.stat[T] = "suspend" => k.stat[T] = "suspend",
         pc[t] \notin Wakers \/ k'.stat[T] # "suspend"
  PROVE  TimersAllOK(d)'
<1>1. ThreadsOK /\ pc \in [Thread -> TimersPc] /\ t \in Thread /\ t # T BY InvFacts, ThreadKinds
<1>2. \A u \in Thread : pc'[u] = IF u = t THEN to ELSE pc[u] BY <1>1
<1>3. pc'[T] = pc[T] BY <1>1, <1>2, ThreadKinds
<1>4. pc[T] \in Asleep \/ (pc[T] = "run" /\ k.stat[T] = "none") BY <1>1, OtherRuns
<1>5. Clock(w, Low', Soonest, d) BY LowSame
<1>6. Waking => Waking' \/ k'.stat[T] # "suspend" BY <1>1, WakingStays
<1>7. \A u \in App : pc'[u] = pc[u] \/ (pc[u] \notin Handling /\ pc'[u] \notin Handling)
  BY <1>2, ThreadKinds
<1>8. CASE pc[T] \in Asleep
  <2>1. pc'[T] \notin {"unlock_sched", "run"} BY <1>3, <1>8 DEF Asleep
  <2> QED BY <1>3, <1>5, <1>6, <1>7, <2>1, StandStill
<1>9. CASE pc[T] = "run" /\ k.stat[T] = "none"
  BY <1>3, <1>5, <1>6, <1>7, <1>9, StandStill
<1> QED BY <1>4, <1>8, <1>9

LEMMA StartReadyOK ==
  ASSUME NEW d \in Nat, WellUsed(d), TimersInv(d), NEW t \in App, StartReady(t)
  PROVE  TimersInv(d)'
<1>1. /\ Running(t) /\ pc[t] = "start_ready" /\ pc' = [pc EXCEPT ![t] = "start_sched"]
      /\ k' = ScheduleInsert(k, T) /\ irq' = irq /\ UNCHANGED timerVars /\ k.current = t
  BY DEF StartReady, Goto, Running, T
<1>2. ThreadsOK /\ OneOperator /\ k \in KernelState BY InvFacts DEF WellUsed, ThreadsOK, SchedulerOK
<1>3. /\ ThreadsOK' /\ k'.stat = [k.stat EXCEPT ![T] = "ready"] /\ k'.armed = k.armed
      /\ k'.current = t /\ k.stat[T] = "suspend"
  BY <1>1, <1>2, Readies
<1>4. k'.stat[T] = "ready" /\ k'.current # NoThread BY <1>2, <1>3, ThreadKinds DEF KernelState
<1>5. pc[t] \notin Handling /\ "start_sched" \notin Handling BY <1>1 DEF Handling
<1>6. TimersAllOK(d)' BY <1>1, <1>3, <1>4, <1>5, AppStandsStill
<1> QED BY <1>3, <1>6 DEF TimersInv

LEMMA AppReschedules ==
  ASSUME NEW d \in Nat, WellUsed(d), TimersInv(d), NEW t \in App, NEW from, NEW to,
         ScheduleStep(t, from, to), UNCHANGED timerVars,
         \/ from = "start_sched" /\ to = "run"
         \/ from = "sleep_sched" /\ to = "sleep_return"
  PROVE  TimersInv(d)'
<1>1. /\ Running(t) /\ pc[t] = from /\ pc' = [pc EXCEPT ![t] = to] /\ irq' = irq /\ k.current = t
  BY DEF ScheduleStep, Goto, Running
<1>2. ThreadsOK /\ TimerThreadFirst /\ t \in Thread BY InvFacts, ThreadKinds DEF WellUsed
<1>3. ThreadsOK' /\ k'.stat = k.stat /\ k'.armed = k.armed BY <1>2, Reschedules
<1>4. k'.current # NoThread
  <2>1. pc'[t] = to BY <1>1, InvFacts, <1>2
  <2>2. CASE to = "run"
    <3>1. k' = Schedule(k) /\ k.nest = 0 /\ k \in KernelState /\ KernelOK(k) /\ k.stat[Idle] = "ready"
      BY <1>1, <1>2, OtherRuns, ThreadKinds DEF ScheduleStep, ThreadsOK, SchedulerOK
    <3>2. k' \in KernelState /\ KernelOK(k') /\ Elected(k') /\ k'.stat = k.stat
      BY <1>1, <3>1, <1>2, ScheduleProperties, ScheduleElects
    <3> QED BY <3>1, <3>2, ElectedIsBest, ThreadKinds
  <2>3. CASE to = "sleep_return" BY <1>2, <1>3, <2>1, <2>3, ThreadKinds DEF ThreadsOK, PlacesOK
  <2> QED BY <2>2, <2>3
<1>5. pc[t] \notin Handling \cup Wakers /\ to \notin Handling BY <1>1 DEF Handling, Wakers
<1>6. TimersAllOK(d)' BY <1>1, <1>3, <1>4, <1>5, AppStandsStill
<1> QED BY <1>3, <1>6 DEF TimersInv

LEMMA SleepForReturnOK ==
  ASSUME NEW d \in Nat, WellUsed(d), TimersInv(d), NEW t \in App, SleepForReturn(t)
  PROVE  TimersInv(d)'
<1>1. /\ Running(t) /\ pc[t] = "sleep_return" /\ pc' = [pc EXCEPT ![t] = "run"] /\ irq' = irq
      /\ k.current = t /\ UNCHANGED timerVars
      /\ k' = [k EXCEPT !.error[t] = "RT_EOK"] \/ k' = k
  BY DEF SleepForReturn, SleepReturnStep, Goto, Running
<1>2. ThreadsOK /\ t \in Thread /\ "RT_EOK" \in Error BY InvFacts, ThreadKinds DEF Error
<1>3. ThreadsOK' /\ k'.stat = k.stat /\ k'.armed = k.armed /\ k'.current = t BY <1>1, <1>2, Returns
<1>4. pc[t] \notin Handling \cup Wakers /\ "run" \notin Handling BY <1>1 DEF Handling, Wakers
<1>5. k'.current # NoThread BY <1>2, <1>3, ThreadKinds
<1>6. TimersAllOK(d)' BY <1>1, <1>3, <1>4, <1>5, AppStandsStill
<1> QED BY <1>3, <1>6 DEF TimersInv

\* A step that changes nothing.
LEMMA Stutters ==
  ASSUME NEW d, TimersInv(d), UNCHANGED allVars
  PROVE  TimersInv(d)'
<1>1. k' = k /\ irq' = irq /\ pc' = pc /\ w' = w /\ op' = op /\ next' = next /\ cur' = cur
      /\ n' = n /\ slip' = slip
  BY DEF allVars
<1>2. ThreadsOK' BY <1>1 DEF TimersInv, ThreadsOK, PlacesOK, SchedulerOK, TimerThreadOK
<1>3. ClockOK(d)' BY <1>1 DEF TimersInv, TimersAllOK, ClockOK, Low, Soonest, Busy
<1>4. OpsOK' /\ PendingOK(d)' /\ WalkOK'
  BY <1>1 DEF TimersInv, TimersAllOK, OpsOK, PendingOK, WalkOK
<1>5. SleepOK(d)'
  BY <1>1 DEF TimersInv, TimersAllOK, SleepOK, NextTimeout, Sentinel, WakesInTime, Waking, Left
<1> QED BY <1>2, <1>3, <1>4, <1>5 DEF TimersInv, TimersAllOK

LEMMA ComputeOK ==
  ASSUME NEW d, TimersInv(d), NEW t \in Thread, Compute(t)
  PROVE  TimersInv(d)'
<1>1. UNCHANGED allVars BY DEF Compute, OwnCode, timerVars, allVars
<1> QED BY <1>1, Stutters

(***************************************************************************)
(* The tick interrupt.                                                     *)
(***************************************************************************)

\* Where rt_timer_check stops, nothing on the hard list is due.
LEMMA NoneDue ==
  ASSUME NEW d \in Nat, WellUsed(d), TimersInv(d), ~ HardDue(w.tick), NEW x \in ToSet(w.list["hard"])
  PROVE  LeftIn(w, x) \in Int /\ LeftIn(w, x) > 0
<1>1. Clock(w, Low, Soonest, d) /\ Bounds(Low, Soonest, d) BY InvFacts
<1>2. /\ w \in ClockState /\ w.list["hard"] \in Seq(Thread \cup (Timer \ Soft))
      /\ ListOK(w.list["hard"], w, Low - MaxSlip, d)
  BY <1>1 DEF Clock
<1>3. Thread \cup (Timer \ Soft) \in SUBSET Entry BY DEF Entry
<1> DEFINE h == Head(w.list["hard"])
<1>4. /\ w.list["hard"] # <<>> /\ h \in ToSet(w.list["hard"]) /\ h \in Entry
      /\ LeftIn(w, h) <= LeftIn(w, x) /\ LeftIn(w, x) \in Int /\ LeftIn(w, h) \in Int
  BY <1>2, <1>3, HeadFirst
<1>5. ~ Expired(w, h, w.tick) BY <1>4 DEF HardDue
<1> HIDE DEF h
<1>6. Ticking(w, h) /\ w.tick \in 0 .. TickMax BY <1>2, <1>4 DEF Ticking, ClockState, Entry
<1>7. LeftIn(w, h) > -Half
  <2>1. LeftIn(w, h) \in Low - MaxSlip .. d BY <1>2, <1>4 DEF ListOK
  <2> QED BY <1>1, <2>1, BoundsFacts, TickRange
<1>8. ~ (LeftIn(w, h) <= 0) BY <1>5, <1>6, <1>7, ExpiredIs
<1> QED BY <1>4, <1>8

LEMMA CheckEndOK ==
  ASSUME NEW d \in Nat, WellUsed(d), TimersInv(d), CheckEnd
  PROVE  TimersInv(d)'
<1>1. /\ irq = Handler /\ ~ HardDue(w.tick) /\ irq' = NoThread /\ k' = k /\ pc' = pc
      /\ UNCHANGED timerVars
  BY DEF CheckEnd
<1>2. ThreadsOK /\ Clock(w, Low, Soonest, d) /\ Bounds(Low, Soonest, d) BY InvFacts
<1>3. ThreadsOK' BY <1>1, <1>2, HandlerEnds
<1>4. Clock(w, 0, Soonest, d)
  <2>1. ListOK(w.list["hard"], w, Low - MaxSlip, d) BY <1>2 DEF Clock
  <2>2. \A x \in ToSet(w.list["hard"]) : LeftIn(w, x) \in Int /\ LeftIn(w, x) > 0 BY <1>1, NoneDue
  <2>3. \A x \in ToSet(w.list["hard"]) : LeftIn(w, x) <= d BY <2>1, <2>2 DEF ListOK
  <2>4. \A x \in ToSet(w.list["hard"]) : LeftIn(w, x) \in 0 - MaxSlip .. d BY <2>2, <2>3, TickRange
  <2>5. ListOK(w.list["hard"], w, 0 - MaxSlip, d) BY <2>1, <2>4 DEF ListOK
  <2>6. \A x \in ToSet(w.list["hard"]) \cap Thread : LeftIn(w, x) >= 0 BY <2>2
  <2> QED BY <1>2, <2>5, <2>6 DEF Clock
<1>5. Low' = 0 BY <1>1, ThreadKinds DEF Low
<1>6. Clock(w, Low', Soonest, d) BY <1>4, <1>5
<1>7. Waking' <=> Waking BY <1>1 DEF Waking
<1>8. TimersAllOK(d)' BY <1>1, <1>6, <1>7, StandStill
<1> QED BY <1>3, <1>8 DEF TimersInv

\* The timer is started again, or its flag is cleared.
LEMMA RestartedClock ==
  ASSUME NEW s, NEW low, NEW lo, NEW d, Clock(s, low, lo, d), Bounds(low, lo, d),
         NEW x \in Timer, x \notin On(s), NEW O, FlagsOK(s, O \cup {x})
  PROVE  LET r == Restarted(s, x)
         IN  /\ Clock(r, low, lo, d) /\ r.tick = s.tick /\ r.init = s.init
             /\ FlagsOK(r, O) /\ On(s) \subseteq On(r) /\ On(r) \subseteq On(s) \cup {x}
             /\ \A y \in Entry \ {x} : r.timeout[y] = s.timeout[y]
             /\ \A y \in Timer \ {x} : y \in r.active <=> y \in s.active
             /\ x \in r.active => x \in s.active
             /\ x \notin Soft => r.list["soft"] = s.list["soft"]
<1> DEFINE c == [s EXCEPT !.active = @ \ {x}]
           r == Restarted(s, x)
<1>1. s \in ClockState /\ \A y \in Timer : s.init[y] \in 1 .. d BY DEF Clock
<1>2. /\ c \in ClockState /\ c.tick = s.tick /\ c.list = s.list /\ c.timeout = s.timeout
      /\ c.init = s.init /\ c.active = s.active \ {x}
  BY <1>1 DEF ClockState
<1>3. r = IF x \in s.periodic /\ x \in s.active THEN StartNow(c, x) ELSE c BY DEF Restarted
<1> HIDE DEF c, r
<1>4. Clock(c, low, lo, d) /\ On(c) = On(s) BY <1>1, <1>2, ClockSame
<1>5. CASE x \in s.periodic /\ x \in s.active
  <2>1. x \notin On(c) /\ x \notin c.active BY <1>2, <1>4
  <2>2. LET q == StartNow(c, x)
        IN  /\ Clock(q, low, lo, d) /\ q.tick = c.tick /\ q.init = c.init
            /\ q.periodic = c.periodic /\ q.active = c.active \cup {x}
            /\ \A y \in Entry \ {x} : q.timeout[y] = c.timeout[y] /\ LeftIn(q, y) = LeftIn(c, y)
            /\ LeftIn(q, x) >= 1
            /\ On(q) = On(c) \cup {x}
            /\ x \in Soft => q.list["hard"] = c.list["hard"]
            /\ x \notin Soft => q.list["soft"] = c.list["soft"]
            /\ \A m : \A z \in Int : z <= 1 /\ Covered(c.list["soft"], m, NotBefore(c, z))
                          => Covered(q.list["soft"], m, NotBefore(q, z))
    BY <1>4, <2>1, StartNowClock, Zenon
  <2>3. /\ Clock(r, low, lo, d) /\ r.tick = c.tick /\ r.init = c.init /\ r.active = c.active \cup {x}
        /\ \A y \in Entry \ {x} : r.timeout[y] = c.timeout[y]
        /\ On(r) = On(c) \cup {x}
        /\ x \notin Soft => r.list["soft"] = c.list["soft"]
    BY <1>3, <1>5, <2>2
  <2>4. FlagsOK(r, O) BY <1>2, <1>4, <2>3 DEF FlagsOK
  <2> QED BY <1>2, <1>4, <1>5, <2>3, <2>4 DEF r
<1>6. CASE ~ (x \in s.periodic /\ x \in s.active)
  <2>1. r = c BY <1>3, <1>6
  <2>2. FlagsOK(r, O) BY <1>2, <1>4, <2>1 DEF FlagsOK
  <2> QED BY <1>2, <1>4, <2>1, <2>2 DEF r
<1> QED BY <1>5, <1>6

\* which timers threads are busy with
LEMMA BusyTimers ==
  ASSUME OpsOK
  PROVE  /\ Busy \subseteq Timer \cup {NoTimer} /\ NoTimer \notin Timer
         /\ \A y \in Busy \cap Timer : y \in Operated \/ y \in Soft
         /\ \A t \in App : op[t] # NoTimer <=> pc[t] \in Handling
         /\ \A t \in App : pc[t] \in Handling => op[t] \in Busy \cap Timer /\ op[t] \in Operated
         /\ pc[T] \in Walking => op[T] \in Busy \cap Soft
<1>1. NoTimer \notin Timer /\ Soft \subseteq Timer /\ AppTimer \in [App -> SUBSET Timer]
  BY TimersAssumption
<1>2. \A t \in App : pc[t] \in Handling => op[t] \in AppTimer[t] BY DEF OpsOK
<1>3. \A t \in App : pc[t] \in Handling => op[t] \in Timer /\ op[t] \in Operated
  BY <1>1, <1>2 DEF Operated
<1>4. \A t \in Thread : op[t] \in Timer => op[t] \in Operated \/ op[t] \in Soft
  BY <1>1, <1>3, ThreadKinds DEF OpsOK
<1> QED BY <1>1, <1>3, <1>4, ThreadKinds DEF OpsOK, Busy

LEMMA CheckTimerOK ==
  ASSUME NEW d \in Nat, WellUsed(d), TimersInv(d), CheckTimer
  PROVE  TimersInv(d)'
<1> DEFINE x == Head(w.list["hard"])
           O == Busy \cap Timer
           U == InUse(Idle) \cup {n}
           s1 == TimerRemove(w, x)
<1>1. PICK e \in Effects[x] : w' = Tidy(Restarted(Apply(s1, e), x), U)
  BY DEF CheckTimer
<1>2. /\ x \in Timer /\ irq = Handler /\ w.list["hard"] # <<>>
      /\ k' = k /\ irq' = irq /\ pc' = pc /\ op' = op /\ UNCHANGED <<next, cur, n, slip>>
  BY DEF CheckTimer, HardDue, walkVars
<1>3. /\ ThreadsOK /\ OpsOK /\ WalkOK /\ Clock(w, Low, Soonest, d) /\ Bounds(Low, Soonest, d)
      /\ FlagsOK(w, Busy) /\ k.armed = Thread \cap On(w)
  BY InvFacts
<1>4. x \in ToSet(w.list["hard"]) /\ x \in On(w) /\ x \notin Soft /\ x \in Entry /\ x \notin Thread
  <2>1. w.list["hard"] \in Seq(Thread \cup (Timer \ Soft)) BY <1>3 DEF Clock
  <2>2. x \in ToSet(w.list["hard"]) /\ x \in Thread \cup (Timer \ Soft) BY <1>2, <2>1, HeadToSet
  <2> QED BY <1>2, <2>2, TimersAssumption DEF On, Entry
<1>5. x \in w.active BY <1>2, <1>3, <1>4 DEF FlagsOK
<1> HIDE DEF x, O, U
<1>6. /\ Clock(s1, Low, Soonest, d) /\ s1.tick = w.tick /\ s1.init = w.init
      /\ s1.timeout = w.timeout /\ s1.active = w.active
      /\ On(s1) = On(w) \ {x} /\ s1.list["soft"] = w.list["soft"]
  BY <1>3, <1>4, RemoveClock
<1> HIDE DEF s1
<1>7. /\ O \in SUBSET Timer /\ FlagsOK(s1, O \cup {x})
      /\ \A y \in O : y \in Operated \/ (y \in Soft /\ x \notin Soft)
  <2>1. \A y \in Timer : y \in Busy => y \in O BY DEF O
  <2> QED BY <1>2, <1>3, <1>4, <1>6, <2>1, BusyTimers DEF O, FlagsOK
<1> DEFINE s2 == Apply(s1, e)
<1>8. /\ Clock(s2, Low, Soonest, d) /\ s2.tick = s1.tick /\ s2.init = s1.init
      /\ x \notin On(s2) /\ FlagsOK(s2, O \cup {x})
      /\ s2.list["soft"] = s1.list["soft"]
      /\ On(s2) \cap Thread = On(s1) \cap Thread
      /\ \A y \in On(s1) \cup O \cup {x} : s2.timeout[y] = s1.timeout[y]
      /\ \A y \in O \ {x} : /\ y \in On(s2) <=> y \in On(s1)
                            /\ y \in s2.active <=> y \in s1.active
  <2>1. /\ x \notin On(s1) /\ x \in s1.active /\ CallbacksApart /\ e \in Effects[x]
    BY <1>5, <1>6 DEF WellUsed
  <2>2. Applied(s1, s2, Low, Soonest, d, x, O) BY <1>2, <1>3, <1>6, <1>7, <2>1, ApplyClock
  <2> HIDE DEF s2
  <2> QED BY <1>4, <2>2 DEF Applied
<1> HIDE DEF s2
<1> DEFINE s3 == Restarted(s2, x)
<1>9. /\ Clock(s3, Low, Soonest, d) /\ s3.tick = s2.tick /\ s3.init = s2.init
      /\ FlagsOK(s3, O) /\ On(s2) \subseteq On(s3) /\ On(s3) \subseteq On(s2) \cup {x}
      /\ \A y \in Entry \ {x} : s3.timeout[y] = s2.timeout[y]
      /\ \A y \in Timer \ {x} : y \in s3.active <=> y \in s2.active
      /\ x \notin Soft => s3.list["soft"] = s2.list["soft"]
  BY <1>2, <1>3, <1>8, RestartedClock
<1> HIDE DEF s3
<1>10. /\ Clock(w', Low, Soonest, d) /\ w'.tick = s3.tick /\ w'.list = s3.list /\ w'.init = s3.init
       /\ w'.active = s3.active
       /\ \A y \in Entry \cap (On(s3) \cup U) : w'.timeout[y] = s3.timeout[y]
  <2>1. LET q == Tidy(s3, U)
        IN  /\ Clock(q, Low, Soonest, d) /\ q.tick = s3.tick /\ q.list = s3.list /\ q.init = s3.init
            /\ q.active = s3.active
            /\ \A y \in Entry \cap (On(s3) \cup U) : q.timeout[y] = s3.timeout[y]
    BY <1>3, <1>9, TidyClock
  <2>2. w' = Tidy(s3, U) BY <1>1 DEF s3, s2
  <2> QED BY <2>1, <2>2
<1>11. On(w') = On(s3) BY <1>10 DEF On
<1>12. /\ \A y \in On(w') : y \in On(w) \/ y \in Timer \ O
       /\ Thread \cap On(w') = Thread \cap On(w)
  <2>1. Thread \cap On(w') = Thread \cap On(w) BY <1>4, <1>6, <1>8, <1>9, <1>11
  <2>2. On(s2) \subseteq Entry BY <1>8, ListsOn
  <2> QED BY <1>4, <1>6, <1>8, <1>9, <1>11, <2>1, <2>2 DEF Entry
<1>13. \A y \in O \ {x} : /\ y \in On(w') <=> y \in On(w)
                          /\ y \in w'.active <=> y \in w.active
                          /\ y \in U => w'.timeout[y] = w.timeout[y]
  <2> TAKE y \in O \ {x}
  <2>1. y \in Timer /\ y \in Entry \ {x} BY <1>7 DEF Entry
  <2> QED BY <1>6, <1>8, <1>9, <1>10, <1>11, <2>1
<1>14. \A u \in Thread \ {Idle} : op[u] \in Timer => op[u] \in U /\ op[u] \in O
  BY <1>3, InUseOthers, ThreadKinds, TimersAssumption DEF U, O, Busy
<1>15. TimersAllOK(d)'
  <2>1. FlagsOK(w', Busy) BY <1>9, <1>10, <1>11, TimersAssumption DEF FlagsOK, O
  <2>2. k'.armed = Thread \cap On(w') BY <1>2, <1>3, <1>12
  <2>3. w'.list["soft"] = w.list["soft"] BY <1>4, <1>6, <1>8, <1>9, <1>10
  <2>4. /\ \A y \in Soft \cap On(w) : w'.timeout[y] = w.timeout[y]
        /\ T \in On(w) => T \in On(w') /\ w'.timeout[T] = w.timeout[T]
    <3>1. ASSUME NEW y \in Entry \cap On(w), y # x, y \in On(s3)
          PROVE  w'.timeout[y] = w.timeout[y]
      BY <1>6, <1>8, <1>9, <1>10, <3>1
    <3>2. T \in Thread /\ T \in Entry /\ \A y \in Soft : y \in Entry
      BY ThreadKinds, TimersAssumption DEF Entry
    <3>3. T \in On(w) => T \in On(w') /\ T # x BY <1>4, <1>12, <3>2
    <3>4. \A y \in Soft \cap On(w) : y \in On(s3) /\ y # x
      <4>1. ToSet(w'.list["soft"]) = Soft \cap On(w') /\ ToSet(w.list["soft"]) = Soft \cap On(w)
        BY <1>3, <1>10, ListsOn
      <4> QED BY <1>4, <1>11, <2>3, <4>1
    <3> QED BY <1>11, <3>1, <3>2, <3>3, <3>4
  <2>5. \A t \in App : pc[t] \in Handling =>
            /\ op[t] \in On(w') => op[t] \in On(w)
            /\ op[t] \in w'.active => op[t] \in w.active
    <3>1. \A t \in App : pc[t] \in Handling => op[t] \in O BY <1>3, BusyTimers DEF O
    <3> QED BY <1>4, <1>5, <1>13, <3>1
  <2>6. \A t \in App : pc[t] = "start_insert" =>
            /\ w'.timeout[op[t]] = w.timeout[op[t]] /\ w'.init[op[t]] = w.init[op[t]]
    <3> TAKE t \in App
    <3> HAVE pc[t] = "start_insert"
    <3>1. op[t] \in Timer BY <1>3, BusyTimers DEF Handling
    <3>2. op[t] # x BY <1>3, <1>4 DEF OpsOK, Handling
    <3>3. t \in Thread \ {Idle} BY ThreadKinds
    <3> QED BY <1>6, <1>8, <1>9, <1>10, <1>13, <1>14, <3>1, <3>2, <3>3
  <2>7. pc[T] \in Walking => /\ op[T] \notin On(w') /\ w'.timeout[op[T]] = w.timeout[op[T]]
                             /\ op[T] \in w'.active <=> op[T] \in w.active
    <3> HAVE pc[T] \in Walking
    <3>1. op[T] \in Soft /\ op[T] \in Timer /\ op[T] \notin On(w) BY <1>3, TimersAssumption DEF OpsOK
    <3>2. op[T] # x /\ op[T] \in O /\ op[T] \in U BY <1>4, <1>14, <3>1, ThreadKinds
    <3> QED BY <1>13, <3>1, <3>2
  <2>8. Clock(w', Low', Soonest, d) /\ w'.tick = w.tick
    <3>1. Low' = Low BY <1>2 DEF Low
    <3> QED BY <1>6, <1>8, <1>9, <1>10, <3>1
  <2>9. Waking' <=> Waking BY <1>2 DEF Waking
  <2>10. k' = k /\ pc' = pc /\ op' = op /\ UNCHANGED <<next, cur, n, slip>> BY <1>2
  <2>11. /\ \A t \in App : pc'[t] = pc[t] \/ (pc[t] \notin Handling /\ pc'[t] \notin Handling)
         /\ pc'[T] = pc[T] \/ (pc[T] \notin Deciding /\ pc'[T] \notin Deciding)
         /\ k'.current = NoThread => k.current = NoThread
         /\ pc'[T] \in {"unlock_sched", "run"} /\ k'.stat[T] = "ready" =>
            \/ pc[T] \in {"unlock_sched", "run"} /\ k.stat[T] = "ready"
            \/ w.list["soft"] = <<>>
         /\ k'.stat[T] = "suspend" =>
            /\ k.stat[T] = "suspend"
            /\ T \in On(w) => T \in On(w') /\ w'.timeout[T] = w.timeout[T]
         /\ Waking => Waking' \/ k'.stat[T] # "suspend"
    BY <2>4, <2>9, <2>10
  <2>12. op' = op /\ UNCHANGED <<next, cur, n, slip>> BY <2>10
  <2> QED BY <2>1, <2>2, <2>3, <2>4, <2>5, <2>6, <2>7, <2>8, <2>11, <2>12, Keeps
<1>16. ThreadsOK' BY <1>2, <1>3 DEF ThreadsOK, PlacesOK, SchedulerOK, TimerThreadOK
<1> QED BY <1>15, <1>16 DEF TimersInv

LEMMA CheckThreadOK ==
  ASSUME NEW d \in Nat, WellUsed(d), TimersInv(d), CheckThread
  PROVE  TimersInv(d)'
<1> DEFINE x == Head(w.list["hard"])
           U == InUse(x) \cup {n}
           r == TimerRemove(w, x)
<1>1. /\ x \in Thread /\ irq = Handler /\ w.list["hard"] # <<>>
      /\ w' = Tidy(r, U) /\ k' = ThreadTimeout(k, x)
      /\ irq' = irq /\ pc' = pc /\ op' = op /\ UNCHANGED <<next, cur, n, slip>>
  BY DEF CheckThread, HardDue, walkVars
<1>2. /\ ThreadsOK /\ OpsOK /\ WalkOK /\ Clock(w, Low, Soonest, d) /\ Bounds(Low, Soonest, d)
      /\ FlagsOK(w, Busy) /\ k.armed = Thread \cap On(w) /\ k \in KernelState
  BY InvFacts DEF ThreadsOK, SchedulerOK
<1>3. x \in On(w) /\ x \notin Soft /\ x \in Entry /\ x \notin Timer /\ x \in k.armed
  <2>1. w.list["hard"] \in Seq(Thread \cup (Timer \ Soft)) BY <1>2 DEF Clock
  <2>2. x \in ToSet(w.list["hard"]) BY <1>1, <2>1, HeadToSet
  <2> QED BY <1>1, <1>2, <2>2, TimersAssumption DEF On, Entry
<1> HIDE DEF x
<1>4. /\ ThreadsOK' /\ k'.stat = [k.stat EXCEPT ![x] = "ready"] /\ k'.armed = k.armed \ {x}
      /\ k.stat[x] = "suspend" /\ k'.current \in Thread
  BY <1>1, <1>2, <1>3, Wakes DEF WellUsed
<1>5. op[x] = NoTimer
  <2>1. CASE x \in App
    <3>1. pc[x] \in Sleeping BY <1>2, <1>4, <2>1 DEF ThreadsOK, SchedulerOK
    <3> QED BY <1>2, <2>1, <3>1 DEF OpsOK, Sleeping, Handling
  <2>2. CASE x = T
    <3>1. pc[T] \in Asleep BY <1>2, <1>4, <2>2 DEF ThreadsOK, TimerThreadOK
    <3> QED BY <1>2, <2>2, <3>1 DEF OpsOK, Asleep, Walking
  <2>3. CASE x = Idle BY <1>2, <2>3 DEF OpsOK
  <2> QED BY <1>1, <2>1, <2>2, <2>3, ThreadKinds
<1>6. /\ Clock(r, Low, Soonest, d) /\ r.tick = w.tick /\ r.init = w.init
      /\ r.timeout = w.timeout /\ r.active = w.active
      /\ On(r) = On(w) \ {x} /\ r.list["soft"] = w.list["soft"]
  BY <1>2, <1>3, RemoveClock
<1> HIDE DEF r, U
<1>7. /\ Clock(w', Low, Soonest, d) /\ w'.tick = r.tick /\ w'.list = r.list /\ w'.init = r.init
      /\ w'.active = r.active
      /\ \A y \in Entry \cap (On(r) \cup U) : w'.timeout[y] = r.timeout[y]
  <2>1. LET q == Tidy(r, U)
        IN  /\ Clock(q, Low, Soonest, d) /\ q.tick = r.tick /\ q.list = r.list /\ q.init = r.init
            /\ q.active = r.active
            /\ \A y \in Entry \cap (On(r) \cup U) : q.timeout[y] = r.timeout[y]
    BY <1>2, <1>6, TidyClock
  <2> QED BY <1>1, <2>1
<1>8. On(w') = On(w) \ {x} BY <1>6, <1>7 DEF On
<1>9. \A u \in Thread : op[u] \in Timer => w'.timeout[op[u]] = w.timeout[op[u]]
  <2> TAKE u \in Thread
  <2> HAVE op[u] \in Timer
  <2>1. op[u] # NoTimer /\ u # x BY <1>5, TimersAssumption
  <2>2. op[u] \in U /\ op[u] \in Entry BY <1>1, <1>2, <2>1, InUseOthers DEF U
  <2> QED BY <1>6, <1>7, <2>2
<1>10. TimersAllOK(d)'
  <2>1. FlagsOK(w', Busy) BY <1>2, <1>3, <1>6, <1>7, <1>8 DEF FlagsOK
  <2>2. k'.armed = Thread \cap On(w') BY <1>2, <1>4, <1>8
  <2>3. w'.list["soft"] = w.list["soft"] BY <1>6, <1>7
  <2>4. /\ \A y \in Soft \cap On(w) : w'.timeout[y] = w.timeout[y]
        /\ T \in On(w) /\ T # x => T \in On(w') /\ w'.timeout[T] = w.timeout[T]
    <3>1. T \in Entry /\ \A y \in Soft : y \in Entry BY ThreadKinds, TimersAssumption DEF Entry
    <3> QED BY <1>3, <1>6, <1>7, <1>8, <3>1
  <2>5. \A t \in App : pc[t] \in Handling =>
            /\ op[t] \in On(w') => op[t] \in On(w)
            /\ op[t] \in w'.active => op[t] \in w.active
    BY <1>6, <1>7, <1>8
  <2>6. \A t \in App : pc[t] = "start_insert" =>
            /\ w'.timeout[op[t]] = w.timeout[op[t]] /\ w'.init[op[t]] = w.init[op[t]]
    <3>1. \A t \in App : pc[t] = "start_insert" => op[t] \in Timer BY <1>2, BusyTimers DEF Handling
    <3> QED BY <1>6, <1>7, <1>9, <3>1, ThreadKinds
  <2>7. pc[T] \in Walking => /\ op[T] \notin On(w') /\ w'.timeout[op[T]] = w.timeout[op[T]]
                             /\ op[T] \in w'.active <=> op[T] \in w.active
    <3>1. pc[T] \in Walking => op[T] \in Timer /\ op[T] \notin On(w)
      BY <1>2, TimersAssumption DEF OpsOK
    <3> QED BY <1>6, <1>7, <1>8, <1>9, <3>1, ThreadKinds
  <2>8. Clock(w', Low', Soonest, d) /\ w'.tick = w.tick
    <3>1. Low' = Low BY <1>1 DEF Low
    <3> QED BY <1>6, <1>7, <3>1
  <2>9. Waking' <=> Waking BY <1>1 DEF Waking
  <2>10. k'.stat[T] = IF T = x THEN "ready" ELSE k.stat[T] BY <1>2, <1>4, ThreadKinds DEF KernelState
  <2>11. T = x => pc[T] \in Asleep BY <1>2, <1>4 DEF ThreadsOK, TimerThreadOK
  <2>12. pc'[T] \in {"unlock_sched", "run"} /\ k'.stat[T] = "ready" =>
            pc[T] \in {"unlock_sched", "run"} /\ k.stat[T] = "ready"
    BY <1>1, <2>10, <2>11 DEF Asleep
  <2>13. k'.stat[T] = "suspend" =>
            /\ k.stat[T] = "suspend"
            /\ T \in On(w) => T \in On(w') /\ w'.timeout[T] = w.timeout[T]
    BY <2>4, <2>10
  <2>14. k'.current # NoThread BY <1>4, ThreadKinds
  <2> QED BY <1>1, <2>1, <2>2, <2>3, <2>4, <2>5, <2>6, <2>7, <2>8, <2>9, <2>12, <2>13, <2>14, Keeps
<1> QED BY <1>4, <1>10 DEF TimersInv

-----------------------------------------------------------------------------
\* While the timer thread is awake its delay is counted.
LEMMA AwakeAt ==
  ASSUME ThreadsOK, pc[T] \notin Asleep \/ k.stat[T] # "suspend"
  PROVE  Awake
BY DEF Awake, ThreadsOK, TimerThreadOK, T

\* A soft timer is as late as the invariant allows, one tick on.
LEMMA SoftTicks ==
  ASSUME NEW d \in Nat, WellUsed(d), TimersInv(d), irq = NoThread, NEW x \in ToSet(w.list["soft"])
  PROVE  /\ LeftIn(w, x) \in Soonest .. d
         /\ ~ Awake => LeftIn(w, x) >= -MaxSlip
<1>1. Clock(w, Low, Soonest, d) /\ Bounds(Low, Soonest, d) /\ WakesInTime /\ k.armed = Thread \cap On(w)
  BY InvFacts
<1>2. /\ w \in ClockState /\ w.list["soft"] \in Seq(Soft) /\ ListOK(w.list["soft"], w, Soonest, d)
      /\ \A y \in ToSet(w.list["hard"]) \cap Thread : LeftIn(w, y) >= Low
      /\ Soft \in SUBSET Entry /\ Thread \cap ToSet(w.list["hard"]) = Thread \cap On(w)
  BY <1>1, ListsOn DEF Clock
<1>3. LeftIn(w, x) \in Soonest .. d BY <1>2 DEF ListOK
<1>4. ASSUME ~ Awake PROVE LeftIn(w, x) >= -MaxSlip
  <2>1. k.stat[T] = "suspend" /\ ~ Waking BY <1>4 DEF Awake, T
  <2>2. /\ w.list["soft"] # <<>> /\ LeftIn(w, Head(w.list["soft"])) <= LeftIn(w, x)
        /\ LeftIn(w, x) \in Int /\ LeftIn(w, Head(w.list["soft"])) \in Int
    BY <1>2, HeadFirst
  <2>3. T \in k.armed /\ LeftIn(w, T) <= LeftIn(w, Head(w.list["soft"])) + MaxSlip
    BY <1>1, <2>1, <2>2 DEF WakesInTime, Left
  <2>4. LeftIn(w, T) >= 0
    <3>1. Low = 0 BY ThreadKinds DEF Low
    <3> QED BY <1>1, <1>2, <2>3, <3>1
  <2>5. LeftIn(w, T) \in Int
    <3>1. T \in Entry BY ThreadKinds DEF Entry
    <3> QED BY <1>1, <3>1, ListsOn
  <2> QED BY <2>2, <2>3, <2>4, <2>5, TickRange
<1> QED BY <1>3, <1>4

\* The tick passes.
LEMMA MinusNext ==
  ASSUME NEW s \in ClockState, NEW r, r.tick = (s.tick + 1) % TickMod, NEW c \in 0 .. TickMax,
         NEW z \in 0 .. MaxSlip, Minus(s.tick, c) <= z, z < MaxSlip, 2 * MaxSlip + 1 < Half
  PROVE  Minus(r.tick, c) <= z + 1
<1>1. s.tick \in 0 .. TickMax BY DEF ClockState
<1>2. r.tick = IF s.tick + 1 < TickMod THEN s.tick + 1 ELSE s.tick + 1 - TickMod
  <2> DEFINE y == s.tick + 1
  <2>1. y \in 0 .. 3 * TickMod - 1 /\ TickMod \in Nat \ {0} BY <1>1, TickRange
  <2>2. y % TickMod = IF y < TickMod THEN y
                      ELSE IF y < 2 * TickMod THEN y - TickMod ELSE y - 2 * TickMod
    BY <2>1, ModThrice
  <2> QED BY <2>2, <1>1, TickRange
<1>3. r.tick \in 0 .. TickMax BY <1>1, <1>2, TickRange
<1>4. /\ Minus(s.tick, c) = IF s.tick < c THEN s.tick - c + TickMod ELSE s.tick - c
      /\ Minus(r.tick, c) = IF r.tick < c THEN r.tick - c + TickMod ELSE r.tick - c
  BY <1>1, <1>3, MinusTicks
<1> QED BY <1>1, <1>2, <1>3, <1>4, TickRange

LEMMA TickClock ==
  ASSUME NEW d \in Nat, WellUsed(d), TimersInv(d), TickBegin
  PROVE  /\ Clock(w', Low', Soonest', d) /\ On(w') = On(w) /\ slip' \in 0 .. MaxSlip
         /\ slip' = IF Awake THEN slip + 1 ELSE slip
         /\ \A x \in Entry : LeftIn(w, x) > -Half => LeftIn(w', x) = LeftIn(w, x) - 1
         /\ \A x \in On(w) : LeftIn(w', x) = LeftIn(w, x) - 1
         /\ w'.timeout = w.timeout /\ w'.init = w.init /\ w'.active = w.active /\ w'.list = w.list
         /\ w'.tick = (w.tick + 1) % TickMod
<1>1. /\ irq = NoThread /\ irq' = Handler /\ w' = [w EXCEPT !.tick = (@ + 1) % TickMod]
      /\ slip' = IF Awake THEN slip + 1 ELSE slip
      /\ Awake => slip < MaxSlip
  BY DEF TickBegin, Interrupt, Prompt
<1>2. /\ Clock(w, Low, Soonest, d) /\ Bounds(Low, Soonest, d) /\ slip \in 0 .. MaxSlip /\ w \in ClockState
  BY InvFacts
<1>3. Low = 0 /\ Low' = -1 /\ slip' \in 0 .. MaxSlip
  BY <1>1, <1>2, ThreadKinds, TickRange DEF Low
<1>4. Bounds(-1, Soonest', d) /\ Soonest' \in Int
  <2>1. Soonest' = -(MaxSlip + 1) - slip' BY DEF Soonest
  <2>2. Soonest' \in Int /\ Soonest' >= -(2 * MaxSlip + 1) /\ Soonest' <= 1
    <3>1. MaxSlip \in Int /\ slip' \in Int /\ slip' <= MaxSlip /\ slip' >= 0 /\ MaxSlip >= 0 BY <1>3, TickRange
    <3>2. ASSUME NEW z \in Int, NEW m \in Int, 0 <= z, z <= m, 0 <= m
          PROVE  /\ -(m + 1) - z \in Int /\ -(m + 1) - z >= -(2 * m + 1) /\ -(m + 1) - z <= 1
      BY <3>2
    <3> QED BY <2>1, <3>1, <3>2
  <2> QED BY <1>2, <2>2 DEF Bounds
<1>5. /\ w' \in ClockState /\ w'.timeout = w.timeout /\ w'.init = w.init /\ w'.active = w.active
      /\ w'.list = w.list /\ w'.tick = (w.tick + 1) % TickMod
  <2>1. (w.tick + 1) % TickMod \in 0 .. TickMax
    <3> DEFINE y == w.tick + 1
    <3>1. w.tick \in 0 .. TickMax BY <1>2 DEF ClockState
    <3>2. y \in 0 .. 3 * TickMod - 1 /\ TickMod \in Nat \ {0} BY <3>1, TickRange
    <3>3. y % TickMod = IF y < TickMod THEN y
                        ELSE IF y < 2 * TickMod THEN y - TickMod ELSE y - 2 * TickMod
      BY <3>2, ModThrice
    <3> QED BY <3>1, <3>3, TickRange
  <2> QED BY <1>1, <1>2, <2>1 DEF ClockState
<1>6. On(w') = On(w) BY <1>5 DEF On
<1>7. \A x \in Entry : LeftIn(w, x) > -Half => LeftIn(w', x) = LeftIn(w, x) - 1
  <2>1. \A x \in Entry : Ticking(w, x) BY <1>2 DEF Ticking, ClockState, Entry
  <2> QED BY <1>5, <2>1, LeftTicks
<1>8. /\ ListOK(w.list["hard"], w, Low - MaxSlip, d) /\ ListOK(w.list["soft"], w, Soonest, d)
      /\ w.list["hard"] \in Seq(Thread \cup (Timer \ Soft)) /\ w.list["soft"] \in Seq(Soft)
      /\ \A x \in ToSet(w.list["hard"]) \cap Thread : LeftIn(w, x) >= Low
      /\ \A x \in Timer : w.init[x] \in 1 .. d
      /\ On(w) \subseteq Entry
  BY <1>2, ListsOn DEF Clock
<1>9. Low - MaxSlip \in Int /\ Soonest \in Int /\ Low - MaxSlip > -Half /\ Soonest > -Half /\ d \in Int
  BY <1>2, BoundsFacts
<1>10. \A x \in On(w) : LeftIn(w, x) \in Int /\ LeftIn(w', x) = LeftIn(w, x) - 1
  <2>1. \A x \in On(w) : LeftIn(w, x) \in Int /\ LeftIn(w, x) > -Half
    BY <1>8, <1>9, TickRange DEF ListOK, On
  <2> QED BY <1>7, <1>8, <2>1
<1>11. \A x \in ToSet(w.list["hard"]) : LeftIn(w', x) \in -1 - MaxSlip .. d
  <2>1. \A x \in ToSet(w.list["hard"]) : LeftIn(w, x) \in 0 - MaxSlip .. d BY <1>3, <1>8 DEF ListOK
  <2> QED BY <1>10, <2>1, TickRange DEF On
<1>12. \A x \in ToSet(w.list["soft"]) : LeftIn(w', x) \in Soonest' .. d
  <2> TAKE x \in ToSet(w.list["soft"])
  <2>1. LeftIn(w, x) \in Soonest .. d /\ (~ Awake => LeftIn(w, x) >= -MaxSlip) BY <1>1, SoftTicks
  <2>2. LeftIn(w', x) = LeftIn(w, x) - 1 BY <1>10 DEF On
  <2> QED BY <1>1, <1>2, <1>9, <2>1, <2>2, TickRange DEF Soonest
<1>13. ListOK(w'.list["hard"], w', -1 - MaxSlip, d) /\ ListOK(w'.list["soft"], w', Soonest', d)
  <2>1. Thread \cup (Timer \ Soft) \in SUBSET Entry /\ Soft \in SUBSET Entry
    BY TimersAssumption DEF Entry
  <2>2. -1 - MaxSlip \in Int /\ 1 \in Int BY TickRange
  <2>3. /\ \A x \in ToSet(w.list["hard"]) : LeftIn(w', x) = LeftIn(w, x) - 1
        /\ \A x \in ToSet(w.list["soft"]) : LeftIn(w', x) = LeftIn(w, x) - 1
    BY <1>10 DEF On
  <2>4. ListOK(w.list["hard"], w', -1 - MaxSlip, d)
    BY <1>8, <1>9, <1>11, <2>1, <2>2, <2>3, SameOrder
  <2>5. ListOK(w.list["soft"], w', Soonest', d)
    BY <1>4, <1>8, <1>9, <1>12, <2>1, <2>2, <2>3, SameOrder
  <2> QED BY <1>5, <2>4, <2>5
<1>14. \A x \in ToSet(w'.list["hard"]) \cap Thread : LeftIn(w', x) >= -1
  BY <1>3, <1>5, <1>8, <1>10 DEF On
<1>15. Clock(w', Low', Soonest', d)
  BY <1>3, <1>5, <1>8, <1>13, <1>14 DEF Clock
<1> QED BY <1>1, <1>3, <1>5, <1>6, <1>7, <1>10, <1>15

LEMMA TickBeginOK ==
  ASSUME NEW d \in Nat, WellUsed(d), TimersInv(d), TickBegin
  PROVE  TimersInv(d)'
<1>1. /\ irq = NoThread /\ irq' = Handler /\ Interrupt /\ Prompt /\ k' \in {k, Yield(k)}
      /\ pc' = pc /\ op' = op /\ UNCHANGED <<next, cur, n>>
  BY DEF TickBegin, Interrupt, walkVars
<1>2. /\ ThreadsOK /\ ClockOK(d) /\ OpsOK /\ PendingOK(d) /\ WalkOK /\ SleepOK(d) /\ WakesInTime
      /\ Clock(w, Low, Soonest, d) /\ Bounds(Low, Soonest, d) /\ FlagsOK(w, Busy)
      /\ w \in ClockState /\ slip \in 0 .. MaxSlip /\ k.armed = Thread \cap On(w)
  BY InvFacts
<1>3. /\ ThreadsOK' /\ k'.stat = k.stat /\ k'.armed = k.armed
      /\ k'.current \in Thread /\ k.current \in Thread
  BY <1>1, <1>2, Ticks DEF WellUsed
<1>4. /\ Clock(w', Low', Soonest', d) /\ On(w') = On(w) /\ slip' \in 0 .. MaxSlip
      /\ slip' = IF Awake THEN slip + 1 ELSE slip
      /\ \A x \in Entry : LeftIn(w, x) > -Half => LeftIn(w', x) = LeftIn(w, x) - 1
      /\ \A x \in On(w) : LeftIn(w', x) = LeftIn(w, x) - 1
      /\ w'.timeout = w.timeout /\ w'.init = w.init /\ w'.active = w.active /\ w'.list = w.list
      /\ w'.tick = (w.tick + 1) % TickMod
  BY TickClock
<1>5. /\ ToSet(w.list["soft"]) = Soft \cap On(w) /\ w.list["soft"] \in Seq(Soft)
      /\ w' \in ClockState /\ \A y \in Entry : LeftIn(w, y) \in Int
      /\ On(w) \subseteq Entry
  BY <1>2, <1>4, ListsOn
<1>6. 2 * MaxSlip + 1 < Half BY DEF WellUsed, Punctual
<1>7. ClockOK(d)'
  <2>1. Busy' = Busy BY <1>1 DEF Busy
  <2>2. FlagsOK(w', Busy') BY <1>2, <1>4, <2>1 DEF FlagsOK
  <2>3. k'.current # NoThread BY <1>3, ThreadKinds
  <2>4. k'.armed = Thread \cap ToSet(w'.list["hard"]) BY <1>2, <1>3, <1>4 DEF ClockOK
  <2> QED BY <1>1, <1>2, <1>4, <2>2, <2>3, <2>4 DEF ClockOK
<1>8. OpsOK' BY <1>1, <1>2, <1>4 DEF OpsOK
<1>9. PendingOK(d)'
  <2>1. ASSUME NEW t \in App, pc[t] = "start_insert" PROVE Age(w', op[t]) <= MaxSlip
    <3>1. op[t] \in Timer BY <1>2, <2>1, BusyTimers DEF Handling
    <3>2. Age(w, op[t]) < MaxSlip BY <1>1, <2>1, ThreadKinds DEF Prompt, Age
    <3> QED BY <1>2, <1>4, <1>5, <1>6, <3>1, <3>2, AgeTicks
  <2>2. ASSUME pc[T] = "restart_insert" PROVE LeftIn(w', op[T]) \in 1 - slip' .. d
    <3>1. LeftIn(w, op[T]) \in 1 - slip .. d /\ op[T] \in Entry
      BY <1>2, <2>2, TimersAssumption DEF PendingOK, OpsOK, Walking, Entry
    <3>2. Awake BY <1>2, <2>2, AwakeAt DEF Asleep
    <3>3. LeftIn(w, op[T]) > -Half BY <1>2, <1>6, <3>1, TickRange
    <3>4. LeftIn(w', op[T]) = LeftIn(w, op[T]) - 1 BY <1>4, <3>1, <3>3
    <3> QED BY <1>2, <1>4, <3>1, <3>2, <3>4
  <2> QED BY <1>1, <2>1, <2>2 DEF PendingOK
<1>10. Awake /\ slip' = slip + 1 => \A x \in ToSet(w.list["soft"]) :
          x \in NotBefore(w, 1 - slip) => x \in NotBefore(w', 1 - slip')
  <2> HAVE Awake /\ slip' = slip + 1
  <2> TAKE x \in ToSet(w.list["soft"])
  <2> HAVE x \in NotBefore(w, 1 - slip)
  <2>1. LeftIn(w', x) = LeftIn(w, x) - 1 /\ LeftIn(w, x) \in Int /\ LeftIn(w, x) >= 1 - slip /\ x \in Soft
    BY <1>4, <1>5 DEF NotBefore
  <2>2. LeftIn(w', x) >= 1 - slip' BY <1>2, <2>1
  <2> QED BY <2>1, <2>2 DEF NotBefore
<1>11. WalkOK'
  <2>1. pc[T] \in Locked => Awake /\ slip' = slip + 1
    BY <1>2, <1>4, AwakeAt DEF Asleep, Locked
  <2>2. pc[T] \in {"unlock_sched", "run"} /\ k.stat[T] = "ready" => Awake /\ slip' = slip + 1
    BY <1>2, <1>4, AwakeAt
  <2>3. pc[T] \in Locked => Minus(w'.tick, cur) <= slip'
    <3> HAVE pc[T] \in Locked
    <3>1. Minus(w.tick, cur) <= slip /\ cur \in 0 .. TickMax BY <1>2 DEF WalkOK, ClockOK
    <3>2. slip < MaxSlip BY <1>1, <2>1 DEF Prompt
    <3> QED BY <1>2, <1>4, <1>6, <2>1, <3>1, <3>2, MinusNext
  <2>4. pc[T] \in Locked => Covered(w'.list["soft"], n, NotBefore(w', 1 - slip'))
    <3> DEFINE F == NotBefore(w, 1 - slip)
               G == NotBefore(w', 1 - slip')
    <3> HAVE pc[T] \in Locked
    <3>1. Covered(w.list["soft"], n, F) BY <1>2 DEF WalkOK
    <3>2. \A x \in ToSet(w.list["soft"]) : x \in F => x \in G BY <1>10, <2>1
    <3> HIDE DEF F, G
    <3>3. Covered(w.list["soft"], n, G) BY <3>1, <3>2, CoveredSame
    <3> QED BY <1>4, <3>3 DEF G
  <2>5. pc[T] \in {"unlock_sched", "run"} /\ k.stat[T] = "ready" =>
           ToSet(w'.list["soft"]) \subseteq NotBefore(w', 1 - slip')
    BY <1>2, <1>4, <1>10, <2>2 DEF WalkOK
  <2> QED BY <1>1, <1>2, <1>3, <1>4, <2>3, <2>4, <2>5 DEF WalkOK
<1>12. SleepOK(d)'
  <2>1. NextTimeout' = NextTimeout /\ Sentinel' = Sentinel BY <1>4 DEF NextTimeout, Sentinel
  <2>2. pc[T] = "delay" => next <= LeftIn(w', Head(w'.list["soft"])) + slip'
    <3> DEFINE h == Head(w.list["soft"])
    <3> HAVE pc[T] = "delay"
    <3>1. w.list["soft"] # <<>> /\ next \in 0 .. d /\ next <= LeftIn(w, h) + slip BY <1>2 DEF SleepOK
    <3>2. h \in ToSet(w.list["soft"]) BY <1>5, <3>1, HeadToSet
    <3> HIDE DEF h
    <3>3. LeftIn(w', h) = LeftIn(w, h) - 1 /\ LeftIn(w, h) \in Int BY <1>4, <1>5, <3>2
    <3>4. Awake BY <1>2, AwakeAt DEF Asleep
    <3>5. next <= LeftIn(w', h) + slip' BY <1>2, <1>4, <3>1, <3>3, <3>4
    <3> QED BY <1>4, <3>5 DEF h
  <2>3. WakesInTime'
    <3>1. Waking' <=> Waking BY <1>1 DEF Waking
    <3>2. T \in k.armed => LeftIn(w', T) = LeftIn(w, T) - 1 BY <1>2, <1>4
    <3>3. \A x \in ToSet(w'.list["soft"]) : /\ x \in ToSet(w.list["soft"])
                                            /\ LeftIn(w', x) = LeftIn(w, x) - 1
      BY <1>4, <1>5
    <3>4. w'.list["soft"] \in Seq(Soft) /\ 1 \in Int BY <1>4, <1>5
    <3> QED BY <1>2, <1>3, <1>5, <3>1, <3>2, <3>3, <3>4, StillWakes
  <2> QED BY <1>1, <1>2, <1>4, <2>1, <2>2, <2>3 DEF SleepOK
<1> QED BY <1>3, <1>7, <1>8, <1>9, <1>11, <1>12 DEF TimersInv, TimersAllOK

(***************************************************************************)
(* The steps of the timer thread.                                          *)
(***************************************************************************)

\* The timer thread goes on with timer y.
LEMMA LoopKeeps ==
  ASSUME NEW d \in Nat, WellUsed(d), TimersInv(d), Running(T), NEW to, NEW y,
         pc' = [pc EXCEPT ![T] = to], op' = [op EXCEPT ![T] = y], irq' = irq, k'.current = T,
         Clock(w', Low, Soonest', d), w'.tick = w.tick, FlagsOK(w', Busy'),
         k'.armed = Thread \cap On(w'),
         next' \in 0 .. TickMax, cur' \in 0 .. TickMax, n' \in Soft \cup {NoTimer}, slip' \in 0 .. MaxSlip,
         IF to \in Walking THEN y \in Soft ELSE y = NoTimer,
         to \in Walking => /\ y \notin On(w')
                           /\ \A t \in App : op[t] = y => pc[t] = "stop_remove",
         to = "callback" => y \in w'.active,
         to = "restart_insert" => y \notin w'.active /\ LeftIn(w', y) \in 1 - slip' .. d,
         \A t \in App : pc[t] \in Handling \ {"stop_remove"} => op[t] \notin On(w'),
         \A t \in App : pc[t] = "start_insert" =>
            /\ op[t] \notin w'.active
            /\ w'.timeout[op[t]] = w.timeout[op[t]] /\ w'.init[op[t]] = w.init[op[t]],
         n' # NoTimer => to \in Locked /\ n' \in On(w'),
         to \in Locked => /\ Minus(w'.tick, cur') <= slip'
                          /\ Covered(w'.list["soft"], n', NotBefore(w', 1 - slip')),
         to \in {"unlock_sched", "run"} => ToSet(w'.list["soft"]) \subseteq NotBefore(w', 1 - slip'),
         to = "next" => next' = NextTimeout' /\ ~ Sentinel',
         to = "suspend" => w'.list["soft"] = <<>>,
         to = "delay" => /\ w'.list["soft"] # <<>> /\ next' \in 0 .. d /\ next' < Half
                         /\ next' <= LeftIn(w', Head(w'.list["soft"])) + slip',
         WakesInTime'
  PROVE  TimersAllOK(d)'
<1>1. /\ OpsOK /\ PendingOK(d) /\ pc \in [Thread -> TimersPc] /\ T \in Thread
  BY InvFacts, ThreadKinds
<1>2. /\ pc'[T] = to /\ \A u \in Thread \ {T} : pc'[u] = pc[u]
      /\ op'[T] = y /\ \A u \in Thread \ {T} : op'[u] = op[u]
  BY <1>1 DEF OpsOK
<1>3. \A t \in App : pc'[t] = pc[t] /\ op'[t] = op[t] BY <1>2, ThreadKinds
<1>4. ToSet(w'.list["soft"]) = Soft \cap On(w') /\ k'.armed = Thread \cap ToSet(w'.list["hard"])
  BY ListsOn
<1>5. ClockOK(d)'
  <2>1. Low' = Low BY DEF Low
  <2>2. Clock(w', Low', Soonest', d) BY <2>1
  <2>3. k'.current # NoThread BY <1>1, ThreadKinds
  <2> QED BY <1>4, <2>2, <2>3 DEF ClockOK
<1>6. OpsOK'
  <2>1. y \in Timer \cup {NoTimer} BY TimersAssumption
  <2>2. op' \in [Thread -> Timer \cup {NoTimer}] BY <1>1, <2>1 DEF OpsOK
  <2>3. op'[Idle] = NoTimer BY <1>1, <1>2, ThreadKinds DEF OpsOK
  <2>4. \A t \in App : IF pc'[t] \in Handling THEN op'[t] \in AppTimer[t] ELSE op'[t] = NoTimer
    BY <1>1, <1>3 DEF OpsOK
  <2>5. pc'[T] \in Walking => /\ op'[T] \notin On(w')
                              /\ \A t \in App : op'[t] = op'[T] => pc'[t] = "stop_remove"
    BY <1>2, <1>3
  <2> QED BY <1>2, <1>3, <2>2, <2>3, <2>4, <2>5 DEF OpsOK
<1>7. PendingOK(d)'
  <2>1. \A t \in App : pc'[t] = "start_insert" => Age(w', op'[t]) <= MaxSlip
    <3> TAKE t \in App
    <3> HAVE pc'[t] = "start_insert"
    <3>1. Age(w', op[t]) = Age(w, op[t]) /\ op'[t] = op[t] /\ pc[t] = "start_insert"
      BY <1>3 DEF Age
    <3> QED BY <1>1, <3>1 DEF PendingOK
  <2> QED BY <1>2, <2>1 DEF PendingOK
<1>8. WalkOK' BY <1>2, <1>4 DEF WalkOK
<1>9. SleepOK(d)' BY <1>2 DEF SleepOK
<1> QED BY <1>5, <1>6, <1>7, <1>8, <1>9 DEF TimersAllOK

\* A step that leaves the clock alone.
LEMMA LoopDecides ==
  ASSUME NEW d \in Nat, WellUsed(d), TimersInv(d), Running(T), NEW to, pc[T] \notin Walking, to \notin Walking,
         pc' = [pc EXCEPT ![T] = to], irq' = irq, k'.current = T, w' = w, op' = op, k'.armed = k.armed,
         next' \in 0 .. TickMax, cur' \in 0 .. TickMax, n' \in Soft \cup {NoTimer}, slip' \in {0, slip},
         slip' # slip => ToSet(w.list["soft"]) \subseteq NotBefore(w, 1 - slip),
         n' # NoTimer => to \in Locked /\ n' \in On(w),
         to \in Locked => /\ Minus(w.tick, cur') <= slip'
                          /\ Covered(w.list["soft"], n', NotBefore(w, 1 - slip')),
         to \in {"unlock_sched", "run"} => ToSet(w.list["soft"]) \subseteq NotBefore(w, 1 - slip'),
         to = "next" => next' = NextTimeout /\ ~ Sentinel,
         to = "suspend" => w.list["soft"] = <<>>,
         to = "delay" => /\ w.list["soft"] # <<>> /\ next' \in 0 .. d /\ next' < Half
                         /\ next' <= LeftIn(w, Head(w.list["soft"])) + slip',
         k'.stat[T] = "suspend" => w.list["soft"] = <<>>
  PROVE  TimersAllOK(d)'
<1>1. /\ OpsOK /\ Clock(w, Low, Soonest, d) /\ FlagsOK(w, Busy) /\ k.armed = Thread \cap On(w)
      /\ slip \in 0 .. MaxSlip
  BY InvFacts
<1>2. op' = [op EXCEPT ![T] = NoTimer] BY <1>1, ThreadKinds DEF OpsOK
<1>3. Clock(w', Low, Soonest', d)
  <2>1. ListOK(w.list["soft"], w, Soonest, d) BY <1>1 DEF Clock
  <2>2. \A x \in ToSet(w.list["soft"]) : LeftIn(w, x) \in Soonest .. d BY <2>1 DEF ListOK
  <2>3. Soonest \in Int /\ MaxSlip \in Nat BY <1>1, BoundsHold, TickRange
  <2>4. \A x \in ToSet(w.list["soft"]) : LeftIn(w, x) \in Soonest' .. d
    <3>1. CASE slip' = slip BY <2>2, <3>1 DEF Soonest
    <3>2. CASE slip' = 0 /\ slip' # slip
      <4>1. Soonest' = -(MaxSlip + 1) - 0 BY <3>2 DEF Soonest
      <4>2. \A x \in ToSet(w.list["soft"]) : LeftIn(w, x) >= 1 - slip BY <3>2 DEF NotBefore
      <4>3. \A x \in ToSet(w.list["soft"]) : LeftIn(w, x) \in Int /\ LeftIn(w, x) <= d BY <2>2, <2>3
      <4> QED BY <1>1, <2>3, <4>1, <4>2, <4>3
    <3> QED BY <3>1, <3>2
  <2>5. ListOK(w.list["soft"], w, Soonest', d) BY <2>1, <2>4 DEF ListOK
  <2> QED BY <1>1, <2>5 DEF Clock
<1>4. Busy' = Busy /\ slip' \in 0 .. MaxSlip BY <1>1, TickRange DEF Busy
<1>5. FlagsOK(w', Busy') /\ k'.armed = Thread \cap On(w') /\ w'.tick = w.tick BY <1>1, <1>4
<1>6. WakesInTime' BY DEF WakesInTime
<1>7. NextTimeout' = NextTimeout /\ Sentinel' = Sentinel BY DEF NextTimeout, Sentinel
<1>8. to # "callback" /\ to # "restart_insert" BY DEF Walking
<1>9. /\ \A t \in App : pc[t] \in Handling \ {"stop_remove"} => op[t] \notin On(w')
      /\ \A t \in App : pc[t] = "start_insert" =>
            /\ op[t] \notin w'.active
            /\ w'.timeout[op[t]] = w.timeout[op[t]] /\ w'.init[op[t]] = w.init[op[t]]
  BY <1>1 DEF OpsOK
<1> QED BY <1>2, <1>3, <1>4, <1>5, <1>6, <1>7, <1>8, <1>9, LoopKeeps

\* The steps of the timer thread between its sections.
LEMMA LoopStandsStill ==
  ASSUME NEW d \in Nat, WellUsed(d), TimersInv(d), UNCHANGED timerVars, NEW to, k.current = T,
         pc' = [pc EXCEPT ![T] = to], irq # Handler, irq' # Handler, pc[T] \notin Deciding, to \notin Deciding,
         k'.current # NoThread, k'.armed = k.armed, k'.stat[T] = k.stat[T],
         to \in {"unlock_sched", "run"} => pc[T] \in {"unlock_sched", "run"}
  PROVE  TimersAllOK(d)'
<1>1. ThreadsOK /\ pc \in [Thread -> TimersPc] /\ T \in Thread BY InvFacts, ThreadKinds
<1>2. pc'[T] = to /\ \A u \in Thread \ {T} : pc'[u] = pc[u] BY <1>1
<1>3. pc[T] \notin Wakers
  BY <1>1 DEF ThreadsOK, PlacesOK, TimerThreadPc, Wakers, Asleep, Locked
<1>4. Waking => Waking' BY <1>1, <1>3, WakingStays
<1>5. \A t \in App : pc'[t] = pc[t] BY <1>2, ThreadKinds
<1>6. Clock(w, Low', Soonest, d) BY LowSame
<1> QED BY <1>2, <1>4, <1>5, <1>6, StandStill

LEMMA LoopReschedules ==
  ASSUME NEW d \in Nat, WellUsed(d), TimersInv(d), NEW from, NEW to,
         ScheduleStep(T, from, to), UNCHANGED timerVars,
         \/ from = "suspend_sched" /\ to = "lock"
         \/ from = "delay_sched" /\ to = "delay_return"
         \/ from = "unlock_sched" /\ to = "run"
  PROVE  TimersInv(d)'
<1>1. /\ pc[T] = from /\ pc' = [pc EXCEPT ![T] = to] /\ irq' = irq /\ k.current = T
      /\ irq \in {NoThread, T} /\ k' = Schedule(k)
  BY DEF ScheduleStep, Goto, Running
<1>2. ThreadsOK /\ TimerThreadFirst /\ T \in Thread BY InvFacts, ThreadKinds DEF WellUsed
<1>3. ThreadsOK' /\ k'.stat = k.stat /\ k'.armed = k.armed BY <1>2, Reschedules
<1>4. k'.current # NoThread
  <2>1. pc[T] \notin Locked BY <1>1 DEF Locked
  <2>2. k.nest = 0 /\ k \in KernelState /\ KernelOK(k) /\ k.stat[Idle] = "ready"
    BY <1>1, <1>2, <2>1, ThreadKinds DEF ThreadsOK, SchedulerOK
  <2>3. k' \in KernelState /\ KernelOK(k') /\ Elected(k') /\ k'.stat = k.stat
    BY <1>1, <1>2, <2>2, ScheduleProperties, ScheduleElects
  <2> QED BY <2>2, <2>3, ElectedIsBest, ThreadKinds
<1>5. pc[T] \notin Deciding /\ to \notin Deciding BY <1>1 DEF Deciding, Locked
<1>6. irq # Handler /\ irq' # Handler BY <1>1, ThreadKinds
<1>7. to \in {"unlock_sched", "run"} => pc[T] \in {"unlock_sched", "run"} BY <1>1
<1>8. TimersAllOK(d)' BY <1>1, <1>3, <1>4, <1>5, <1>6, <1>7, LoopStandsStill
<1> QED BY <1>3, <1>8 DEF TimersInv

LEMMA LoopDelayReturnOK ==
  ASSUME NEW d \in Nat, WellUsed(d), TimersInv(d), LoopDelayReturn
  PROVE  TimersInv(d)'
<1> DEFINE e == IF k.error[T] = "RT_ETIMEOUT" THEN "RT_EOK" ELSE k.error[T]
<1>1. ThreadsOK /\ T \in Thread /\ k \in KernelState BY InvFacts, ThreadKinds DEF ThreadsOK, SchedulerOK
<1>2. /\ Running(T) /\ pc[T] = "delay_return" /\ pc' = [pc EXCEPT ![T] = "lock"] /\ irq' = irq
      /\ k.current = T /\ irq \in {NoThread, T} /\ UNCHANGED timerVars /\ k' = [k EXCEPT !.error[T] = e]
  BY <1>1 DEF LoopDelayReturn, Goto, Running, KernelState
<1>3. e \in Error BY <1>1 DEF KernelState, Error
<1> HIDE DEF e
<1>4. ThreadsOK' /\ k'.stat = k.stat /\ k'.armed = k.armed /\ k'.current = T
  BY <1>1, <1>2, <1>3, Returns
<1>5. pc[T] \notin Deciding /\ "lock" \notin Deciding BY <1>2 DEF Deciding, Locked
<1>6. irq # Handler /\ irq' # Handler /\ k'.current # NoThread BY <1>1, <1>2, <1>4, ThreadKinds
<1>7. TimersAllOK(d)' BY <1>2, <1>4, <1>5, <1>6, LoopStandsStill
<1> QED BY <1>4, <1>7 DEF TimersInv

LEMMA LoopLostOK ==
  ASSUME NEW d \in Nat, WellUsed(d), TimersInv(d), LoopLost
  PROVE  TimersInv(d)'
<1>1. ThreadsOK /\ T \in Thread BY InvFacts, ThreadKinds
<1>2. CASE Sentinel /\ Goto(T, "run", "lost") /\ irq' = T /\ UNCHANGED k
  <2>1. /\ Running(T) /\ pc[T] = "run" /\ pc' = [pc EXCEPT ![T] = "lost"] /\ irq' = T /\ k' = k
        /\ k.current = T /\ irq \in {NoThread, T} /\ UNCHANGED timerVars
    BY <1>2 DEF LoopLost, Goto, Running
  <2>2. ThreadsOK' BY <1>1, <2>1, Loses
  <2>3. pc[T] \notin Deciding /\ "lost" \notin Deciding BY <2>1 DEF Deciding, Locked
  <2>4. irq # Handler /\ irq' # Handler /\ k'.current # NoThread BY <1>1, <2>1, ThreadKinds
  <2>5. TimersAllOK(d)' BY <2>1, <2>3, <2>4, LoopStandsStill
  <2> QED BY <2>2, <2>5 DEF TimersInv
<1>3. CASE LostStep(T)
  <2>1. UNCHANGED allVars BY <1>3 DEF LoopLost, LostStep, timerVars, allVars
  <2> QED BY <2>1, Stutters
<1> QED BY <1>2, <1>3 DEF LoopLost

\* What holds of the timer thread while it runs.
LEMMA LoopFacts ==
  ASSUME NEW d \in Nat, WellUsed(d), TimersInv(d), Running(T)
  PROVE  /\ k.current = T /\ irq \in {NoThread, T} /\ irq # Handler
         /\ pc[T] \notin Blocking => k.stat[T] = "ready"
         /\ pc[T] \notin Locked => n = NoTimer
         /\ pc[T] \notin Walking => op[T] = NoTimer
<1>1. ThreadsOK /\ WalkOK /\ OpsOK BY InvFacts
<1>2. k.current = T /\ irq \in {NoThread, T} BY DEF Running
<1>3. irq # Handler BY <1>2, ThreadKinds
<1>4. pc[T] \notin Blocking => k.stat[T] = "ready" BY <1>1, <1>2, ThreadKinds DEF ThreadsOK, SchedulerOK
<1> QED BY <1>1, <1>2, <1>3, <1>4 DEF WalkOK, OpsOK

LEMMA LoopNextOK ==
  ASSUME NEW d \in Nat, WellUsed(d), TimersInv(d), LoopNext
  PROVE  TimersInv(d)'
<1>1. /\ Running(T) /\ ~ Sentinel /\ pc[T] = "run" /\ pc' = [pc EXCEPT ![T] = "next"]
      /\ next' = NextTimeout /\ slip' = 0 /\ k' = k /\ irq' = irq /\ w' = w /\ op' = op
      /\ cur' = cur /\ n' = n
  BY DEF LoopNext, Goto
<1>2. /\ ThreadsOK /\ ClockOK(d) /\ WalkOK /\ Clock(w, Low, Soonest, d) /\ T \in Thread
  BY InvFacts, ThreadKinds
<1>3. pc[T] \notin Locked \cup Walking \cup Blocking /\ "next" \notin Locked \cup Walking \cup Blocking
  BY <1>1 DEF Locked, Walking, Blocking
<1>4. k.current = T /\ k.stat[T] = "ready" /\ n = NoTimer BY <1>1, <1>3, LoopFacts
<1>5. ThreadsOK'
  <2>1. /\ pc[T] \notin {"lost"} \cup Blocking /\ "next" \in TimerThreadPc \ ({"lost"} \cup Blocking)
        /\ "next" \in Locked <=> pc[T] \in Locked
    BY <1>1, <1>3 DEF TimerThreadPc
  <2> QED BY <1>1, <1>2, <2>1, ThreadGoesOn
<1>6. ToSet(w.list["soft"]) \subseteq NotBefore(w, 1 - slip) BY <1>1, <1>2, <1>4 DEF WalkOK
<1>7. next' \in 0 .. TickMax
  <2>1. \A x \in Soft : w.timeout[x] \in 0 .. TickMax
    BY <1>2, TimersAssumption DEF Clock, ClockState
  <2>2. w.list["soft"] # <<>> => Head(w.list["soft"]) \in Soft BY <1>2, HeadToSet DEF Clock
  <2> QED BY <1>1, <2>1, <2>2, TickRange DEF NextTimeout
<1>8. cur' \in 0 .. TickMax /\ n' \in Soft \cup {NoTimer} BY <1>1, <1>2 DEF ClockOK
<1>9. TimersAllOK(d)' BY <1>1, <1>3, <1>4, <1>6, <1>7, <1>8, LoopDecides
<1> QED BY <1>5, <1>9 DEF TimersInv

\* What the timer thread has computed, if the head of the list is not late by
\* more than slip.
LEMMA HeadIsDue ==
  ASSUME NEW d \in Nat, WellUsed(d), TimersInv(d), NEW x \in ToSet(w.list["soft"]),
         Minus(w.timeout[x], w.tick) < Half
  PROVE  /\ Minus(w.timeout[x], w.tick) \in 0 .. Half - 1
         /\ LeftIn(w, x) = Minus(w.timeout[x], w.tick) /\ LeftIn(w, x) <= d
<1> DEFINE m == Minus(w.timeout[x], w.tick)
<1>1. Clock(w, Low, Soonest, d) /\ Bounds(Low, Soonest, d) BY InvFacts
<1>2. x \in Entry /\ LeftIn(w, x) \in Soonest .. d BY <1>1, ListsOn DEF Clock, ListOK
<1>3. Ticking(w, x) BY <1>1, <1>2 DEF Clock, ClockState, Ticking, Entry
<1>4. m \in 0 .. TickMax /\ m = IF w.timeout[x] < w.tick THEN w.timeout[x] - w.tick + TickMod
                               ELSE w.timeout[x] - w.tick
  BY <1>3, MinusTicks DEF Ticking
<1> HIDE DEF m
<1>5. m \in 0 .. Half - 1 BY <1>4, TickRange DEF m
<1>6. Due(w, x, m) BY <1>3, <1>4, <1>5, TickRange DEF Due, Ticking
<1>7. LeftIn(w, x) = m BY <1>3, <1>6, LeftOf
<1>8. LeftIn(w, x) <= d BY <1>1, <1>2, BoundsFacts
<1> QED BY <1>5, <1>7, <1>8 DEF m

LEMMA LoopDecideOK ==
  ASSUME NEW d \in Nat, WellUsed(d), TimersInv(d), LoopDecide
  PROVE  TimersInv(d)'
<1> DEFINE left == Minus(next, w.tick)
           to == IF next = TickMax THEN "suspend" ELSE IF left < Half THEN "delay" ELSE "lock"
<1>1. /\ Running(T) /\ pc[T] = "next" /\ pc' = [pc EXCEPT ![T] = to]
      /\ next' = IF next # TickMax /\ left < Half THEN left ELSE 0
      /\ slip' = slip /\ k' = k /\ irq' = irq /\ w' = w /\ op' = op /\ cur' = cur /\ n' = n
  BY DEF LoopDecide, Goto
<1>2. /\ ThreadsOK /\ ClockOK(d) /\ SleepOK(d) /\ Clock(w, Low, Soonest, d) /\ T \in Thread
      /\ slip \in 0 .. MaxSlip
  BY InvFacts, ThreadKinds
<1>3. pc[T] \notin Locked \cup Walking \cup Blocking /\ to \notin Locked \cup Walking \cup Blocking
  BY <1>1 DEF Locked, Walking, Blocking
<1>4. k.current = T /\ k.stat[T] = "ready" /\ n = NoTimer BY <1>1, <1>3, LoopFacts
<1>5. ThreadsOK'
  <2>1. /\ pc[T] \notin {"lost"} \cup Blocking /\ to \in TimerThreadPc \ ({"lost"} \cup Blocking)
        /\ to \in Locked <=> pc[T] \in Locked
    BY <1>1, <1>3 DEF TimerThreadPc, Asleep
  <2> HIDE DEF to
  <2> QED BY <1>1, <1>2, <2>1, ThreadGoesOn
<1>6. next = NextTimeout /\ ~ Sentinel BY <1>1, <1>2 DEF SleepOK
<1>7. to = "suspend" => w.list["soft"] = <<>> BY <1>6 DEF Sentinel, NextTimeout
<1>8. to = "delay" => /\ w.list["soft"] # <<>> /\ next' \in 0 .. d /\ next' < Half
                      /\ next' <= LeftIn(w, Head(w.list["soft"])) + slip'
  <2> HAVE to = "delay"
  <2>1. next # TickMax /\ left < Half OBVIOUS
  <2>2. w.list["soft"] # <<>> BY <1>6, <2>1 DEF NextTimeout
  <2> DEFINE h == Head(w.list["soft"])
  <2>3. h \in ToSet(w.list["soft"]) BY <1>2, <2>2, HeadToSet DEF Clock
  <2>4. next = w.timeout[h] /\ next' = left BY <1>1, <1>6, <2>1, <2>2 DEF NextTimeout
  <2> HIDE DEF h
  <2>5. left \in 0 .. Half - 1 /\ LeftIn(w, h) = left /\ LeftIn(w, h) <= d
    BY <2>1, <2>3, <2>4, HeadIsDue
  <2>6. left \in 0 .. d /\ left < Half /\ left <= LeftIn(w, h) + slip
    BY <1>2, <2>5, TickRange
  <2> HIDE DEF left
  <2> QED BY <1>1, <2>2, <2>4, <2>6 DEF h
<1>9. next' \in 0 .. TickMax
  <2>1. w.tick \in 0 .. TickMax /\ next \in 0 .. TickMax BY <1>2 DEF Clock, ClockState, ClockOK
  <2>2. left \in 0 .. TickMax BY <2>1, MinusTicks
  <2> QED BY <1>1, <2>2, TickRange
<1>10. cur' \in 0 .. TickMax /\ n' \in Soft \cup {NoTimer} BY <1>1, <1>2 DEF ClockOK
<1>11. to \notin {"unlock_sched", "run", "next"} OBVIOUS
<1>12. slip' # slip => ToSet(w.list["soft"]) \subseteq NotBefore(w, 1 - slip) BY <1>1
<1> HIDE DEF to
<1>13. TimersAllOK(d)' BY <1>1, <1>3, <1>4, <1>7, <1>8, <1>9, <1>10, <1>11, <1>12, LoopDecides
<1> QED BY <1>5, <1>13 DEF TimersInv

LEMMA LoopSuspendOK ==
  ASSUME NEW d \in Nat, WellUsed(d), TimersInv(d), LoopSuspend
  PROVE  TimersInv(d)'
<1>1. /\ Running(T) /\ pc[T] = "suspend" /\ pc' = [pc EXCEPT ![T] = "suspend_sched"]
      /\ k' = Suspend(k, T) /\ slip' = 0 /\ irq' = irq /\ w' = w /\ op' = op
      /\ next' = next /\ cur' = cur /\ n' = n
  BY DEF LoopSuspend, Goto, walkVars
<1>2. /\ ThreadsOK /\ ClockOK(d) /\ SleepOK(d) /\ T \in Thread BY InvFacts, ThreadKinds
<1>3. pc[T] \notin Locked \cup Walking /\ "suspend_sched" \notin Locked \cup Walking
  BY <1>1 DEF Locked, Walking
<1>4. n = NoTimer BY <1>1, <1>3, LoopFacts
<1>5. ThreadsOK' /\ k'.armed = k.armed /\ k'.current = T BY <1>1, <1>2, Suspends
<1>6. w.list["soft"] = <<>> /\ ToSet(w.list["soft"]) = {} BY <1>1, <1>2 DEF SleepOK, ToSet
<1>7. /\ next' \in 0 .. TickMax /\ cur' \in 0 .. TickMax /\ n' \in Soft \cup {NoTimer}
  BY <1>1, <1>2 DEF ClockOK
<1>8. TimersAllOK(d)' BY <1>1, <1>3, <1>4, <1>5, <1>6, <1>7, LoopDecides
<1> QED BY <1>5, <1>8 DEF TimersInv

LEMMA LoopLockOK ==
  ASSUME NEW d \in Nat, WellUsed(d), TimersInv(d), LoopLock
  PROVE  TimersInv(d)'
<1>1. /\ Running(T) /\ pc[T] = "lock" /\ pc' = [pc EXCEPT ![T] = "check"]
      /\ k' = EnterCritical(k) /\ slip' = slip /\ irq' = irq /\ w' = w /\ op' = op
      /\ next' = next /\ cur' = w.tick
      /\ n' = IF w.list["soft"] = <<>> THEN NoTimer ELSE Head(w.list["soft"])
  BY DEF LoopLock, Goto
<1>2. /\ ThreadsOK /\ ClockOK(d) /\ Clock(w, Low, Soonest, d) /\ T \in Thread /\ slip \in 0 .. MaxSlip
  BY InvFacts, ThreadKinds
<1>3. pc[T] \notin Walking \cup Blocking /\ "check" \notin Walking /\ "check" \in Locked
  BY <1>1 DEF Locked, Walking, Blocking
<1>4. k.stat[T] = "ready" BY <1>1, <1>3, LoopFacts
<1>5. ThreadsOK' /\ k'.stat = k.stat /\ k'.armed = k.armed /\ k'.current = T BY <1>1, <1>2, Locks
<1>6. w.list["soft"] \in Seq(Soft) /\ w.tick \in 0 .. TickMax BY <1>2 DEF Clock, ClockState
<1>7. n' # NoTimer => n' \in On(w) /\ n' \in Soft /\ w.list["soft"] # <<>> /\ n' = w.list["soft"][1]
  BY <1>1, <1>6, HeadToSet DEF On
<1>8. Covered(w.list["soft"], n', NotBefore(w, 1 - slip))
  <2> SUFFICES ASSUME NEW j \in 1 .. Len(w.list["soft"])
               PROVE  \E i \in 1 .. j : w.list["soft"][i] = n'
    BY DEF Covered
  <2>1. w.list["soft"] # <<>> /\ 1 \in 1 .. j BY <1>6
  <2>2. w.list["soft"][1] = n' BY <1>1, <2>1
  <2> QED BY <2>1, <2>2
<1>9. Minus(w.tick, cur') <= slip'
  <2>1. Minus(w.tick, w.tick) = 0 BY <1>6, MinusTicks
  <2> QED BY <1>1, <1>2, <2>1
<1>10. next' \in 0 .. TickMax /\ cur' \in 0 .. TickMax /\ n' \in Soft \cup {NoTimer}
  BY <1>1, <1>2, <1>6, <1>7 DEF ClockOK
<1>11. TimersAllOK(d)' BY <1>1, <1>3, <1>4, <1>5, <1>7, <1>8, <1>9, <1>10, LoopDecides
<1> QED BY <1>5, <1>11 DEF TimersInv

LEMMA SoftEndOK ==
  ASSUME NEW d \in Nat, WellUsed(d), TimersInv(d), SoftEnd
  PROVE  TimersInv(d)'
<1> DEFINE list == w.list["soft"]
<1>1. /\ Running(T) /\ ~ SoftDue /\ pc[T] = "check" /\ pc' = [pc EXCEPT ![T] = "unlock_sched"]
      /\ k' = ExitCritical(k) /\ slip' = slip /\ irq' = irq /\ w' = w /\ op' = op
      /\ next' = next /\ cur' = 0 /\ n' = NoTimer
  BY DEF SoftEnd, Goto
<1>2. /\ ThreadsOK /\ ClockOK(d) /\ WalkOK /\ Clock(w, Low, Soonest, d) /\ Bounds(Low, Soonest, d)
      /\ T \in Thread /\ slip \in 0 .. MaxSlip
  BY InvFacts, ThreadKinds
<1>3. /\ pc[T] \notin Walking \cup Blocking /\ pc[T] \in Locked
      /\ "unlock_sched" \notin Walking /\ "unlock_sched" \notin Locked
  BY <1>1 DEF Locked, Walking, Blocking
<1>4. k.stat[T] = "ready" BY <1>1, <1>3, LoopFacts
<1>5. ThreadsOK' /\ k'.stat = k.stat /\ k'.armed = k.armed /\ k'.current = T BY <1>1, <1>2, Locks
<1>6. ToSet(list) \subseteq NotBefore(w, 1 - slip)
  <2> SUFFICES ASSUME NEW x \in ToSet(list) PROVE x \in NotBefore(w, 1 - slip)
    OBVIOUS
  <2>1. PICK j \in 1 .. Len(list) : list[j] = x BY DEF ToSet
  <2>2. CASE x \in NotBefore(w, 1 - slip) BY <2>2
  <2>3. CASE \E i \in 1 .. j : list[i] = n
    <3>1. PICK i \in 1 .. j : list[i] = n BY <2>3
    <3>2. list \in Seq(Soft) /\ i \in 1 .. Len(list) BY <1>2 DEF Clock
    <3>3. n \in ToSet(list) /\ n \in Soft /\ x \in Soft BY <2>1, <3>1, <3>2 DEF ToSet
    <3>4. n # NoTimer BY <3>3, TimersAssumption
    <3>5. ~ Expired(w, n, cur) BY <1>1, <3>4 DEF SoftDue
    <3>6. n \in Entry /\ x \in Entry BY <3>3, TimersAssumption DEF Entry
    <3>7. Ticking(w, n) /\ LeftIn(w, n) \in Int /\ LeftIn(w, x) \in Int
      <4>1. Ticking(w, n) BY <1>2, <3>6 DEF Clock, ClockState, Ticking, Entry
      <4> QED BY <1>2, <3>6, <4>1, ListsOn
    <3>8. LeftIn(w, n) > -Half
      <4>1. LeftIn(w, n) \in Soonest .. d BY <1>2, <3>3 DEF Clock, ListOK
      <4> QED BY <1>2, <3>7, <4>1, BoundsFacts, TickRange
    <3>9. cur \in 0 .. TickMax /\ Minus(w.tick, cur) <= slip BY <1>2, <1>3 DEF ClockOK, WalkOK
    <3>10. LeftIn(w, n) >= 1 - Minus(w.tick, cur) BY <3>5, <3>7, <3>8, <3>9, ExpiredIs
    <3>11. Minus(w.tick, cur) \in Int
      <4>1. w.tick \in 0 .. TickMax BY <1>2 DEF Clock, ClockState
      <4>2. Minus(w.tick, cur) \in 0 .. TickMax BY <3>9, <4>1, MinusTicks
      <4> QED BY <4>2, TickRange
    <3>12. LeftIn(w, n) >= 1 - slip BY <1>2, <3>7, <3>9, <3>10, <3>11, TickRange
    <3>13. LeftIn(w, n) <= LeftIn(w, x)
      <4>1. CASE i = j BY <2>1, <3>1, <3>7, <4>1
      <4>2. CASE i # j
        <5>1. OrderedBy(list, ByDue(w)) BY <1>2 DEF Clock, ListOK
        <5>2. i < j /\ j \in 1 .. Len(list) BY <2>1, <4>2
        <5>3. <<list[i], list[j]>> \in ByDue(w) BY <3>2, <5>1, <5>2 DEF OrderedBy
        <5> QED BY <2>1, <3>1, <5>3 DEF ByDue
      <4> QED BY <4>1, <4>2
    <3> QED BY <1>2, <3>3, <3>7, <3>12, <3>13, TickRange DEF NotBefore
  <2> QED BY <1>2, <1>3, <2>1, <2>2, <2>3 DEF WalkOK, Covered
<1>7. /\ next' \in 0 .. TickMax /\ cur' \in 0 .. TickMax /\ n' \in Soft \cup {NoTimer}
  BY <1>1, <1>2, TickRange DEF ClockOK
<1> HIDE DEF list
<1>8. ToSet(w.list["soft"]) \subseteq NotBefore(w, 1 - slip) BY <1>6 DEF list
<1>9. TimersAllOK(d)' BY <1>1, <1>3, <1>4, <1>5, <1>7, <1>8, LoopDecides
<1> QED BY <1>5, <1>9 DEF TimersInv

LEMMA LoopDelayOK ==
  ASSUME NEW d \in Nat, WellUsed(d), TimersInv(d), LoopDelay
  PROVE  TimersInv(d)'
<1>1. /\ Running(T) /\ pc[T] = "delay" /\ pc' = [pc EXCEPT ![T] = "delay_sched"]
      /\ k' = TimerStart(Suspend(k, T), T) /\ w' = Insert(SetTimeout(w, T, next), T)
      /\ next' = 0 /\ slip' = 0 /\ irq' = irq /\ op' = op /\ cur' = cur /\ n' = n
  BY DEF LoopDelay, SleepBody, Goto
<1>2. /\ ThreadsOK /\ ClockOK(d) /\ OpsOK /\ SleepOK(d) /\ Clock(w, Low, Soonest, d)
      /\ Bounds(Low, Soonest, d) /\ FlagsOK(w, Busy) /\ k.armed = Thread \cap On(w)
      /\ T \in Thread /\ slip \in 0 .. MaxSlip /\ T \notin Timer
  BY InvFacts, ThreadKinds, TimersAssumption
<1>3. /\ pc[T] \notin Locked \cup Walking \cup Blocking
      /\ "delay_sched" \notin Locked \cup Walking
  BY <1>1 DEF Locked, Walking, Blocking
<1>4. k.stat[T] = "ready" /\ n = NoTimer /\ op[T] = NoTimer BY <1>1, <1>3, LoopFacts
<1>5. ThreadsOK' /\ k'.armed = k.armed \cup {T} /\ k'.current = T BY <1>1, <1>2, Suspends
<1>6. /\ w.list["soft"] # <<>> /\ next \in 0 .. d /\ next < Half
      /\ next <= LeftIn(w, Head(w.list["soft"])) + slip
  BY <1>1, <1>2 DEF SleepOK
<1>7. next \in 0 .. Half - 1 /\ next <= d /\ T \notin On(w) BY <1>4, <1>6, TickRange, ReadyOff, ThreadKinds
<1>8. /\ Clock(w', Low, Soonest, d) /\ w'.tick = w.tick /\ w'.init = w.init
      /\ w'.active = w.active /\ On(w') = On(w) \cup {T}
      /\ w'.list["soft"] = w.list["soft"] /\ LeftIn(w', T) = next
      /\ \A y \in Entry \ {T} : w'.timeout[y] = w.timeout[y] /\ LeftIn(w', y) = LeftIn(w, y)
  <2>1. LET r == Insert(SetTimeout(w, T, next), T)
        IN  /\ Clock(r, Low, Soonest, d) /\ r.tick = w.tick /\ r.init = w.init
            /\ r.active = w.active /\ On(r) = On(w) \cup {T}
            /\ r.list["soft"] = w.list["soft"] /\ LeftIn(r, T) = next
            /\ \A y \in Entry \ {T} : r.timeout[y] = w.timeout[y] /\ LeftIn(r, y) = LeftIn(w, y)
    BY <1>2, <1>7, SleepBodyClock
  <2> QED BY <1>1, <2>1
<1> DEFINE h == Head(w.list["soft"])
<1>9. h \in ToSet(w.list["soft"]) /\ h \in Entry \ {T} /\ LeftIn(w, h) \in Int
  <2>1. h \in ToSet(w.list["soft"]) BY <1>2, <1>6, HeadToSet DEF Clock
  <2>2. h \in Soft /\ h \in Entry BY <1>2, <2>1, ListsOn
  <2> QED BY <1>2, <2>1, <2>2, ListsOn, TimersAssumption
<1>10. next <= LeftIn(w, h) + slip /\ next \in Int /\ next >= 0 BY <1>6
<1> HIDE DEF h
<1>11. Clock(w', Low, Soonest', d)
  <2>1. ListOK(w'.list["soft"], w', Soonest, d) BY <1>8 DEF Clock
  <2>2. ASSUME NEW x \in ToSet(w'.list["soft"]) PROVE LeftIn(w', x) \in Soonest' .. d
    <3>1. LeftIn(w', x) \in Soonest .. d BY <2>1 DEF ListOK
    <3>2. x \in ToSet(w.list["soft"]) /\ x \in Entry \ {T}
      <4>1. x \in Soft BY <1>8, ListsOn
      <4> QED BY <1>2, <1>8, <4>1, ListsOn, TimersAssumption
    <3>3. LeftIn(w, h) <= LeftIn(w, x) /\ LeftIn(w, x) \in Int
      <4>1. Soft \in SUBSET Entry /\ w \in ClockState /\ w.list["soft"] \in Seq(Soft)
            /\ ListOK(w.list["soft"], w, Soonest, d)
        BY <1>2, ListsOn DEF Clock
      <4> QED BY <3>2, <4>1, HeadFirst DEF h
    <3>4. LeftIn(w', x) = LeftIn(w, x) BY <1>8, <3>2
    <3>5. Soonest' = -(MaxSlip + 1) - 0 BY <1>1 DEF Soonest
    <3>6. LeftIn(w, x) >= -MaxSlip BY <1>2, <1>9, <1>10, <3>3, TickRange
    <3>7. LeftIn(w', x) <= d BY <1>2, <3>1, BoundsFacts
    <3> QED BY <3>3, <3>4, <3>5, <3>6, <3>7, TickRange
  <2>3. ListOK(w'.list["soft"], w', Soonest', d) BY <2>1, <2>2 DEF ListOK
  <2> QED BY <1>8, <2>3 DEF Clock
<1>12. WakesInTime'
  <2>1. T \in k'.armed BY <1>5
  <2>2. LeftIn(w', h) = LeftIn(w, h) BY <1>8, <1>9
  <2>3. LeftIn(w', T) <= LeftIn(w', h) + MaxSlip BY <1>2, <1>8, <1>9, <1>10, <2>2, TickRange
  <2> QED BY <1>8, <2>1, <2>3 DEF WakesInTime, Left, h
<1>13. op' = [op EXCEPT ![T] = NoTimer] BY <1>1, <1>2, <1>4 DEF OpsOK
<1>14. FlagsOK(w', Busy')
  <2>1. Busy' = Busy BY <1>1 DEF Busy
  <2> QED BY <1>2, <1>8, <2>1 DEF FlagsOK
<1>15. k'.armed = Thread \cap On(w') BY <1>2, <1>5, <1>8
<1>16. /\ next' \in 0 .. TickMax /\ cur' \in 0 .. TickMax /\ n' \in Soft \cup {NoTimer}
       /\ slip' \in 0 .. MaxSlip
  BY <1>1, <1>2, TickRange DEF ClockOK
<1>17. /\ \A t \in App : pc[t] \in Handling \ {"stop_remove"} => op[t] \notin On(w')
       /\ \A t \in App : pc[t] = "start_insert" =>
            /\ op[t] \notin w'.active
            /\ w'.timeout[op[t]] = w.timeout[op[t]] /\ w'.init[op[t]] = w.init[op[t]]
  <2>1. \A t \in App : pc[t] \in Handling => op[t] \in Timer BY <1>2, BusyTimers
  <2>2. \A y \in Timer : y \in Entry \ {T} BY <1>2 DEF Entry
  <2>3. "start_insert" \in Handling BY DEF Handling
  <2> QED BY <1>2, <1>8, <2>1, <2>2, <2>3 DEF OpsOK
<1>18. "delay_sched" \notin {"callback", "restart_insert", "unlock_sched", "run", "next", "suspend", "delay"}
  OBVIOUS
<1>19. TimersAllOK(d)'
  BY <1>1, <1>3, <1>4, <1>5, <1>8, <1>11, <1>12, <1>13, <1>14, <1>15, <1>16, <1>17, <1>18, LoopKeeps
<1> QED BY <1>5, <1>19 DEF TimersInv

\* A step of the timer thread's walk over the soft list.
LEMMA LoopWalks ==
  ASSUME NEW d \in Nat, WellUsed(d), TimersInv(d), Running(T), pc[T] \in Locked, NEW to \in Locked, NEW y,
         pc' = [pc EXCEPT ![T] = to], op' = [op EXCEPT ![T] = y], UNCHANGED <<k, irq, next, slip>>,
         Clock(w', Low, Soonest, d), w'.tick = w.tick, FlagsOK(w', Busy'),
         Thread \cap On(w') = Thread \cap On(w),
         cur' \in 0 .. TickMax, n' \in Soft \cup {NoTimer},
         IF to \in Walking THEN y \in Soft ELSE y = NoTimer,
         to \in Walking => /\ y \notin On(w')
                           /\ \A t \in App : op[t] = y => pc[t] = "stop_remove",
         to = "callback" => y \in w'.active,
         to = "restart_insert" => y \notin w'.active /\ LeftIn(w', y) \in 1 - slip .. d,
         \A t \in App : pc[t] \in Handling \ {"stop_remove"} => op[t] \notin On(w'),
         \A t \in App : pc[t] = "start_insert" =>
            /\ op[t] \notin w'.active
            /\ w'.timeout[op[t]] = w.timeout[op[t]] /\ w'.init[op[t]] = w.init[op[t]],
         n' # NoTimer => n' \in On(w'),
         Minus(w.tick, cur') <= slip,
         Covered(w'.list["soft"], n', NotBefore(w', 1 - slip))
  PROVE  TimersInv(d)'
<1>1. /\ ThreadsOK /\ ClockOK(d) /\ k.armed = Thread \cap On(w) /\ T \in Thread /\ slip \in 0 .. MaxSlip
  BY InvFacts, ThreadKinds
<1>2. /\ pc[T] \notin {"lost"} \cup Blocking /\ to \in TimerThreadPc \ ({"lost"} \cup Blocking)
      /\ to \notin {"unlock_sched", "run", "next", "suspend", "delay"}
  BY DEF Locked, Blocking, TimerThreadPc
<1>3. ThreadsOK' BY <1>1, <1>2, ThreadGoesOn
<1>4. k.stat[T] = "ready" /\ k.current = T BY <1>2, LoopFacts
<1>5. WakesInTime' BY <1>4 DEF WakesInTime
<1>6. Soonest' = Soonest BY DEF Soonest
<1>7. Clock(w', Low, Soonest', d) /\ Minus(w'.tick, cur') <= slip' BY <1>6
<1>8. next' \in 0 .. TickMax /\ slip' \in 0 .. MaxSlip /\ k'.armed = Thread \cap On(w') /\ k'.current = T
  BY <1>1, <1>4 DEF ClockOK
<1>9. to = "restart_insert" => y \notin w'.active /\ LeftIn(w', y) \in 1 - slip' .. d OBVIOUS
<1>10. Covered(w'.list["soft"], n', NotBefore(w', 1 - slip')) OBVIOUS
<1>11. TimersAllOK(d)' BY <1>2, <1>5, <1>7, <1>8, <1>9, <1>10, LoopKeeps
<1> QED BY <1>3, <1>11 DEF TimersInv

\* The saved node is the one that follows the timer that is unlinked.
LEMMA WalkGoesOn ==
  ASSUME NEW s \in ClockState, NEW x \in Soft, s.list["soft"] \in Seq(Soft), IsInjective(s.list["soft"]),
         x \in ToSet(s.list["soft"]), NEW G, Covered(s.list["soft"], x, G)
  PROVE  LET m == NextNode(s, x)
         IN  /\ m \in Soft \cup {NoTimer}
             /\ m # NoTimer => m \in ToSet(s.list["soft"]) /\ m # x
             /\ Covered(RemoveFirst(s.list["soft"], x), m, G)
<1> DEFINE list == s.list["soft"]
           p == SelectInSeq(list, LAMBDA y : y = x)
           m == NextNode(s, x)
           r == RemoveFirst(list, x)
<1>1. PICK i \in 1 .. Len(list) : list[i] = x BY DEF ToSet
<1>2. p \in 1 .. Len(list) /\ list[p] = x
  <2> DEFINE I == {j \in 1 .. Len(list) : list[j] = x}
  <2>1. I # {} /\ I \in SUBSET Nat BY <1>1
  <2>2. Min(I) \in I BY <2>1, SmallestNat
  <2> QED BY <2>1, <2>2 DEF SelectInSeq
<1>3. \A j \in 1 .. Len(list) : list[j] = x => j = i BY <1>1 DEF IsInjective
<1> HIDE DEF p
<1>4. p = i BY <1>2, <1>3
<1>5. m = IF i = Len(list) THEN NoTimer ELSE list[i + 1]
  <2>1. ListOf(x) = "soft" BY DEF ListOf
  <2>2. Contains(list, x) BY <1>1 DEF Contains
  <2>3. Last(list) = x <=> i = Len(list) BY <1>1, <1>3 DEF Last
  <2>4. m = IF ~ Contains(list, x) THEN x
            ELSE IF Last(list) = x THEN NoTimer
            ELSE list[p + 1]
    BY <2>1 DEF NextNode, p
  <2> QED BY <1>4, <2>2, <2>3, <2>4
<1>6. /\ Len(r) = Len(list) - 1
      /\ \A j \in 1 .. Len(list) - 1 : r[j] = IF j < i THEN list[j] ELSE list[j + 1]
  BY <1>1, RemoveFirstElements
<1> HIDE DEF r, m
<1>7. i # Len(list) => i + 1 \in 1 .. Len(list) /\ list[i + 1] \in Soft /\ list[i + 1] # x
  <2> HAVE i # Len(list)
  <2>1. i + 1 \in 1 .. Len(list) BY <1>1
  <2> QED BY <1>3, <2>1
<1>8. /\ m \in Soft \cup {NoTimer}
      /\ m # NoTimer => m \in ToSet(list) /\ m # x
  BY <1>5, <1>7 DEF ToSet
<1>9. Covered(r, m, G)
  <2> SUFFICES ASSUME NEW j \in 1 .. Len(r) PROVE r[j] \in G \/ \E a \in 1 .. j : r[a] = m
    BY DEF Covered
  <2>1. j \in 1 .. Len(list) - 1 /\ j \in 1 .. Len(list) BY <1>6
  <2>2. CASE j < i
    <3>1. r[j] = list[j] BY <1>6, <2>1, <2>2
    <3>2. list[j] \in G \/ \E a \in 1 .. j : list[a] = x BY <2>1 DEF Covered
    <3>3. ~ \E a \in 1 .. j : list[a] = x BY <1>3, <2>1, <2>2
    <3> QED BY <3>1, <3>2, <3>3
  <2>3. CASE ~ (j < i)
    <3>1. i \in 1 .. j /\ i \in 1 .. Len(list) - 1 /\ i # Len(list) BY <1>1, <2>1, <2>3
    <3>2. r[i] = list[i + 1] /\ m = list[i + 1] BY <1>5, <1>6, <3>1
    <3> QED BY <3>1, <3>2
  <2> QED BY <2>2, <2>3
<1> QED BY <1>8, <1>9 DEF m, r

LEMMA SoftFireOK ==
  ASSUME NEW d \in Nat, WellUsed(d), TimersInv(d), SoftFire
  PROVE  TimersInv(d)'
<1>1. /\ Running(T) /\ n # NoTimer /\ pc[T] = "check" /\ pc' = [pc EXCEPT ![T] = "callback"]
      /\ op' = [op EXCEPT ![T] = n] /\ n' = NextNode(w, n) /\ w' = TimerRemove(w, n)
      /\ UNCHANGED <<k, irq, next, slip>> /\ cur' = cur
  BY DEF SoftFire, SoftDue, Goto
<1>2. /\ ThreadsOK /\ ClockOK(d) /\ OpsOK /\ WalkOK /\ Clock(w, Low, Soonest, d) /\ Bounds(Low, Soonest, d)
      /\ FlagsOK(w, Busy) /\ T \in Thread /\ slip \in 0 .. MaxSlip
  BY InvFacts, ThreadKinds
<1>3. pc[T] \in Locked /\ "callback" \in Locked /\ "callback" \in Walking /\ pc[T] \notin Walking
  BY <1>1 DEF Locked, Walking
<1>4. /\ n \in ToSet(w.list["soft"]) /\ n \in Soft /\ n \in Timer /\ n \in Entry /\ n \notin Thread
      /\ n \in On(w) /\ w.list["soft"] \in Seq(Soft) /\ IsInjective(w.list["soft"]) /\ w \in ClockState
  <2>1. n \in ToSet(w.list["soft"]) BY <1>1, <1>2 DEF WalkOK
  <2>2. w.list["soft"] \in Seq(Soft) /\ IsInjective(w.list["soft"]) BY <1>2 DEF Clock, ListOK
  <2> QED BY <1>2, <2>1, <2>2, ListsOn, TimersAssumption DEF Entry
<1>5. /\ Clock(w', Low, Soonest, d) /\ w'.tick = w.tick /\ w'.init = w.init
      /\ w'.timeout = w.timeout /\ w'.active = w.active
      /\ \A y : LeftIn(w', y) = LeftIn(w, y)
      /\ On(w') = On(w) \ {n} /\ w'.list["soft"] = RemoveFirst(w.list["soft"], n)
  <2>1. LET r == TimerRemove(w, n)
        IN  /\ Clock(r, Low, Soonest, d) /\ r.tick = w.tick /\ r.init = w.init
            /\ r.timeout = w.timeout /\ r.active = w.active
            /\ \A y : LeftIn(r, y) = LeftIn(w, y)
            /\ On(r) = On(w) \ {n} /\ r.list[ListOf(n)] = RemoveFirst(w.list[ListOf(n)], n)
    BY <1>2, <1>4, RemoveClock
  <2>2. ListOf(n) = "soft" BY <1>4 DEF ListOf
  <2> QED BY <1>1, <2>1, <2>2
<1>6. /\ n' \in Soft \cup {NoTimer} /\ (n' # NoTimer => n' \in ToSet(w.list["soft"]) /\ n' # n)
      /\ Covered(w'.list["soft"], n', NotBefore(w, 1 - slip))
  <2> DEFINE G == NotBefore(w, 1 - slip)
  <2>1. Covered(w.list["soft"], n, G) BY <1>2, <1>3 DEF WalkOK
  <2> HIDE DEF G
  <2>2. LET m == NextNode(w, n)
        IN  /\ m \in Soft \cup {NoTimer}
            /\ m # NoTimer => m \in ToSet(w.list["soft"]) /\ m # n
            /\ Covered(RemoveFirst(w.list["soft"], n), m, G)
    BY <1>4, <2>1, WalkGoesOn
  <2> QED BY <1>1, <1>5, <2>2 DEF G
<1>7. NotBefore(w', 1 - slip) = NotBefore(w, 1 - slip) BY <1>5 DEF NotBefore
<1>8. n' # NoTimer => n' \in On(w') BY <1>2, <1>5, <1>6, ListsOn
<1>9. FlagsOK(w', Busy')
  <2>1. Busy \ {op[T]} \subseteq Busy' /\ n \in Busy' BY <1>1, <1>2, BusyMoves
  <2>2. op[T] = NoTimer /\ NoTimer \notin Timer BY <1>1, <1>3, LoopFacts, TimersAssumption
  <2> QED BY <1>2, <1>5, <2>1, <2>2 DEF FlagsOK
<1>10. /\ Thread \cap On(w') = Thread \cap On(w) /\ n \notin On(w') /\ n \in w'.active
  BY <1>2, <1>4, <1>5 DEF FlagsOK
<1>11. \A t \in App : op[t] = n => pc[t] = "stop_remove" BY <1>1, <1>2, <1>4 DEF OpsOK
<1>12. /\ \A t \in App : pc[t] \in Handling \ {"stop_remove"} => op[t] \notin On(w')
       /\ \A t \in App : pc[t] = "start_insert" =>
            /\ op[t] \notin w'.active
            /\ w'.timeout[op[t]] = w.timeout[op[t]] /\ w'.init[op[t]] = w.init[op[t]]
  BY <1>2, <1>5 DEF OpsOK
<1>13. cur' \in 0 .. TickMax /\ Minus(w.tick, cur') <= slip BY <1>1, <1>2, <1>3 DEF ClockOK, WalkOK
<1>14. Covered(w'.list["soft"], n', NotBefore(w', 1 - slip)) BY <1>6, <1>7
<1> QED
  BY <1>1, <1>3, <1>4, <1>5, <1>6, <1>8, <1>9, <1>10, <1>11, <1>12, <1>13, <1>14, LoopWalks

LEMMA SoftRestartInsertOK ==
  ASSUME NEW d \in Nat, WellUsed(d), TimersInv(d), SoftRestartInsert
  PROVE  TimersInv(d)'
<1> DEFINE x == op[T]
<1>1. /\ Running(T) /\ pc[T] = "restart_insert" /\ pc' = [pc EXCEPT ![T] = "check"]
      /\ op' = [op EXCEPT ![T] = NoTimer] /\ w' = Insert(w, x)
      /\ UNCHANGED <<k, irq, next, slip>> /\ cur' = cur /\ n' = n
  BY DEF SoftRestartInsert, Goto, walkVars
<1>2. /\ ThreadsOK /\ ClockOK(d) /\ OpsOK /\ PendingOK(d) /\ WalkOK /\ Clock(w, Low, Soonest, d)
      /\ Bounds(Low, Soonest, d) /\ FlagsOK(w, Busy) /\ T \in Thread /\ slip \in 0 .. MaxSlip
  BY InvFacts, ThreadKinds
<1>3. pc[T] \in Locked /\ pc[T] \in Walking /\ "check" \in Locked /\ "check" \notin Walking
  BY <1>1 DEF Locked, Walking
<1>4. /\ x \in Soft /\ x \in Timer /\ x \in Entry /\ x \notin Thread /\ x \notin On(w)
      /\ \A t \in App : op[t] = x => pc[t] = "stop_remove"
  BY <1>2, <1>3, TimersAssumption DEF OpsOK, Entry
<1>5. LeftIn(w, x) \in 1 - slip .. d BY <1>1, <1>2 DEF PendingOK
<1>6. LeftIn(w, x) >= 1 - MaxSlip /\ LeftIn(w, x) <= d /\ LeftIn(w, x) >= Soonest
  <2>1. MaxSlip \in Int /\ slip \in Int BY <1>2, TickRange
  <2> QED BY <1>2, <1>5, <2>1, BoundsFacts DEF Soonest
<1> HIDE DEF x
<1>7. /\ Clock(w', Low, Soonest, d) /\ w'.tick = w.tick /\ w'.init = w.init
      /\ w'.timeout = w.timeout /\ w'.active = w.active \cup {x}
      /\ \A y : LeftIn(w', y) = LeftIn(w, y)
      /\ On(w') = On(w) \cup {x}
      /\ \A m, G : x \in G /\ Covered(w.list["soft"], m, G) => Covered(w'.list["soft"], m, G)
  <2>1. LET r == Insert(w, x)
        IN  /\ Clock(r, Low, Soonest, d) /\ r.tick = w.tick /\ r.init = w.init
            /\ r.timeout = w.timeout
            /\ r.active = IF x \in Timer THEN w.active \cup {x} ELSE w.active
            /\ \A y : LeftIn(r, y) = LeftIn(w, y)
            /\ On(r) = On(w) \cup {x}
            /\ \A m, G : x \in G /\ Covered(w.list["soft"], m, G) => Covered(r.list["soft"], m, G)
    BY <1>2, <1>4, <1>6, InsertClock
  <2> QED BY <1>1, <1>4, <2>1
<1>8. Covered(w'.list["soft"], n', NotBefore(w', 1 - slip))
  <2>1. NotBefore(w', 1 - slip) = NotBefore(w, 1 - slip) BY <1>7 DEF NotBefore
  <2>2. x \in NotBefore(w, 1 - slip)
    <3>1. slip \in Int BY <1>2, TickRange
    <3> QED BY <1>4, <1>5, <3>1 DEF NotBefore
  <2>3. Covered(w.list["soft"], n, NotBefore(w, 1 - slip)) BY <1>2, <1>3 DEF WalkOK
  <2> QED BY <1>1, <1>7, <2>1, <2>2, <2>3
<1>9. FlagsOK(w', Busy')
  <2>1. Busy \ {x} \subseteq Busy' BY <1>1, <1>2, BusyMoves DEF x
  <2> QED BY <1>2, <1>7, <2>1 DEF FlagsOK
<1>10. /\ Thread \cap On(w') = Thread \cap On(w) /\ (n' # NoTimer => n' \in On(w'))
       /\ n' \in Soft \cup {NoTimer}
  <2>1. n # NoTimer => n \in On(w) BY <1>2 DEF WalkOK, On
  <2> QED BY <1>1, <1>2, <1>4, <1>7, <2>1 DEF ClockOK
<1>11. /\ \A t \in App : pc[t] \in Handling \ {"stop_remove"} => op[t] \notin On(w')
       /\ \A t \in App : pc[t] = "start_insert" =>
            /\ op[t] \notin w'.active
            /\ w'.timeout[op[t]] = w.timeout[op[t]] /\ w'.init[op[t]] = w.init[op[t]]
  BY <1>2, <1>4, <1>7 DEF OpsOK
<1>12. cur' \in 0 .. TickMax /\ Minus(w.tick, cur') <= slip BY <1>1, <1>2, <1>3 DEF ClockOK, WalkOK
<1> QED
  BY <1>1, <1>3, <1>7, <1>8, <1>9, <1>10, <1>11, <1>12, LoopWalks

LEMMA SoftCallbackOK ==
  ASSUME NEW d \in Nat, WellUsed(d), TimersInv(d), SoftCallback
  PROVE  TimersInv(d)'
<1> DEFINE x == op[T]
           O == {op[t] : t \in App} \cap Timer
           U == InUse(Idle) \cup {n}
<1>1. PICK e \in Effects[x] : w' = Tidy(Apply(w, e), U) BY DEF SoftCallback
<1>2. /\ Running(T) /\ pc[T] = "callback" /\ pc' = [pc EXCEPT ![T] = "restart"] /\ op' = op
      /\ UNCHANGED <<k, irq, next, slip>> /\ cur' = cur /\ n' = n
  BY DEF SoftCallback, Goto, walkVars
<1>3. /\ ThreadsOK /\ ClockOK(d) /\ OpsOK /\ WalkOK /\ Clock(w, Low, Soonest, d)
      /\ Bounds(Low, Soonest, d) /\ FlagsOK(w, Busy) /\ T \in Thread /\ slip \in 0 .. MaxSlip
  BY InvFacts, ThreadKinds
<1>4. pc[T] \in Locked /\ pc[T] \in Walking /\ "restart" \in Locked /\ "restart" \in Walking
  BY <1>2 DEF Locked, Walking
<1>5. /\ x \in Soft /\ x \in Timer /\ x \in Entry /\ x \notin Thread /\ x \notin On(w) /\ x \in w.active
      /\ \A t \in App : op[t] = x => pc[t] = "stop_remove"
  BY <1>2, <1>3, <1>4, TimersAssumption DEF OpsOK, Entry
<1>6. Busy \cap Timer = O \cup {x}
  <2>1. op[Idle] \notin Timer BY <1>3, TimersAssumption DEF OpsOK
  <2>2. \A t \in Thread : op[t] \in Timer => op[t] \in O \cup {x} BY <2>1, ThreadKinds
  <2> QED BY <1>3, <1>5, <2>2, ThreadKinds DEF Busy
<1>7. /\ O \in SUBSET Timer /\ FlagsOK(w, O \cup {x})
      /\ \A y \in O : y \in Operated \/ (y \in Soft /\ x \notin Soft)
      /\ \A t \in App : pc[t] \in Handling => op[t] \in O
  <2>1. FlagsOK(w, O \cup {x}) BY <1>3, <1>6 DEF FlagsOK
  <2>2. \A t \in App : op[t] \in Timer => op[t] \in Operated
    BY <1>3, BusyTimers, TimersAssumption
  <2> QED BY <1>3, <2>1, <2>2, BusyTimers
<1>8. /\ op[T] \in U /\ n \in U /\ \A t \in App : op[t] \in Timer => op[t] \in U
  BY <1>3, <1>5, InUseOthers, ThreadKinds, TimersAssumption DEF U
<1> HIDE DEF x, O, U
<1> DEFINE s == Apply(w, e)
<1>9. Applied(w, s, Low, Soonest, d, x, O)
  <2>1. CallbacksApart BY DEF WellUsed
  <2> QED BY <1>1, <1>3, <1>5, <1>7, <2>1, ApplyClock
<1> HIDE DEF s
<1>10. /\ Clock(s, Low, Soonest, d) /\ s.tick = w.tick /\ s.init = w.init
       /\ x \notin On(s) /\ FlagsOK(s, O \cup {x}) /\ On(w) \subseteq On(s)
       /\ On(s) \cap Thread = On(w) \cap Thread
       /\ \A y \in On(w) \cup O \cup {x} : s.timeout[y] = w.timeout[y]
       /\ \A y \in O \ {x} : /\ y \in On(s) <=> y \in On(w)
                             /\ y \in s.active <=> y \in w.active
       /\ \A m : \A z \in Int : z <= 1 /\ Covered(w.list["soft"], m, NotBefore(w, z))
                    => Covered(s.list["soft"], m, NotBefore(s, z))
  BY <1>5, <1>9 DEF Applied
<1>11. /\ Clock(w', Low, Soonest, d) /\ w'.tick = s.tick /\ w'.list = s.list /\ w'.init = s.init
       /\ w'.active = s.active
       /\ \A y \in Entry \cap (On(s) \cup U) : w'.timeout[y] = s.timeout[y] /\ LeftIn(w', y) = LeftIn(s, y)
  <2>1. LET q == Tidy(s, U)
        IN  /\ Clock(q, Low, Soonest, d) /\ q.tick = s.tick /\ q.list = s.list /\ q.init = s.init
            /\ q.active = s.active
            /\ \A y \in Entry \cap (On(s) \cup U) : q.timeout[y] = s.timeout[y] /\ LeftIn(q, y) = LeftIn(s, y)
    BY <1>3, <1>10, TidyClock
  <2>2. w' = Tidy(s, U) BY <1>1 DEF s
  <2> QED BY <2>1, <2>2
<1>12. On(w') = On(s) BY <1>11 DEF On
<1>13. Covered(w'.list["soft"], n', NotBefore(w', 1 - slip))
  <2> DEFINE z == 1 - slip
  <2>1. z \in Int /\ z <= 1 BY <1>3, TickRange
  <2>2. Covered(w.list["soft"], n, NotBefore(w, z)) BY <1>3, <1>4 DEF WalkOK
  <2> HIDE DEF z
  <2>3. Covered(s.list["soft"], n, NotBefore(s, z)) BY <1>10, <2>1, <2>2
  <2>4. \A y \in ToSet(s.list["soft"]) : y \in Entry \cap On(s) BY <1>10, ListsOn
  <2>5. \A y \in ToSet(s.list["soft"]) : y \in NotBefore(s, z) => y \in NotBefore(w', z)
    BY <1>11, <2>4 DEF NotBefore
  <2>6. Covered(s.list["soft"], n, NotBefore(w', z)) BY <2>3, <2>5, CoveredSame
  <2> QED BY <1>2, <1>11, <2>6 DEF z
<1>14. op' = [op EXCEPT ![T] = x] BY <1>2, <1>3 DEF OpsOK, x
<1>15. FlagsOK(w', Busy')
  <2>1. Busy' = Busy BY <1>2 DEF Busy
  <2>2. \A y \in Timer \ Busy : y \in Timer \ (O \cup {x}) BY <1>6
  <2> QED BY <1>10, <1>11, <1>12, <2>1, <2>2 DEF FlagsOK
<1>16. /\ Thread \cap On(w') = Thread \cap On(w) /\ (n' # NoTimer => n' \in On(w'))
       /\ n' \in Soft \cup {NoTimer} /\ x \notin On(w')
  <2>1. n # NoTimer => n \in On(w) BY <1>3 DEF WalkOK, On
  <2> QED BY <1>2, <1>3, <1>10, <1>12, <2>1 DEF ClockOK
<1>17. \A t \in App : pc[t] \in Handling \ {"stop_remove"} => op[t] \notin On(w')
  <2>1. \A t \in App : pc[t] \in Handling \ {"stop_remove"} => op[t] \in O \ {x} /\ op[t] \notin On(w)
    BY <1>3, <1>5, <1>7 DEF OpsOK
  <2> QED BY <1>10, <1>12, <2>1
<1>18. \A t \in App : pc[t] = "start_insert" =>
            /\ op[t] \notin w'.active
            /\ w'.timeout[op[t]] = w.timeout[op[t]] /\ w'.init[op[t]] = w.init[op[t]]
  <2> TAKE t \in App
  <2> HAVE pc[t] = "start_insert"
  <2>1. op[t] \in O \ {x} /\ op[t] \notin w.active BY <1>3, <1>5, <1>7 DEF OpsOK, Handling
  <2>2. op[t] \in Timer /\ op[t] \in U /\ op[t] \in Entry BY <1>7, <1>8, <2>1 DEF Entry
  <2> QED BY <1>10, <1>11, <2>1, <2>2
<1>19. cur' \in 0 .. TickMax /\ Minus(w.tick, cur') <= slip BY <1>2, <1>3, <1>4 DEF ClockOK, WalkOK
<1>20. w'.tick = w.tick BY <1>10, <1>11
<1> QED
  BY <1>2, <1>4, <1>5, <1>11, <1>13, <1>14, <1>15, <1>16, <1>17, <1>18, <1>19, <1>20, LoopWalks

LEMMA SoftRestartOK ==
  ASSUME NEW d \in Nat, WellUsed(d), TimersInv(d), SoftRestart
  PROVE  TimersInv(d)'
<1> DEFINE x == op[T]
           again == x \in w.periodic /\ x \in w.active
           cleared == [w EXCEPT !.active = @ \ {x}]
           U == InUse(T) \cup {n}
<1>1. /\ Running(T) /\ pc[T] = "restart"
      /\ pc' = [pc EXCEPT ![T] = IF again THEN "restart_insert" ELSE "check"]
      /\ w' = IF again THEN SetTimeout(cleared, x, w.init[x]) ELSE Tidy(cleared, U)
      /\ op' = IF again THEN op ELSE [op EXCEPT ![T] = NoTimer]
      /\ UNCHANGED <<k, irq, next, slip>> /\ cur' = w.tick /\ n' = n
  BY DEF SoftRestart, Goto
<1>2. /\ ThreadsOK /\ ClockOK(d) /\ OpsOK /\ WalkOK /\ Clock(w, Low, Soonest, d)
      /\ Bounds(Low, Soonest, d) /\ FlagsOK(w, Busy) /\ T \in Thread /\ slip \in 0 .. MaxSlip
  BY InvFacts, ThreadKinds
<1>3. /\ pc[T] \in Locked /\ pc[T] \in Walking /\ "check" \in Locked /\ "check" \notin Walking
      /\ "restart_insert" \in Locked /\ "restart_insert" \in Walking
  BY <1>1 DEF Locked, Walking
<1>4. /\ x \in Soft /\ x \in Timer /\ x \in Entry /\ x \notin Thread /\ x \notin On(w)
      /\ \A t \in App : op[t] = x => pc[t] = "stop_remove"
  BY <1>2, <1>3, TimersAssumption DEF OpsOK, Entry
<1>5. w.init[x] \in 1 .. d /\ w.init[x] \in 0 .. Half - 1
  <2>1. w.init[x] \in 1 .. Half - 1 BY <1>2, <1>4 DEF Clock, ClockState
  <2>2. Half - 1 \in Int BY TickRange
  <2> QED BY <1>2, <1>4, <2>1, <2>2 DEF Clock
<1>6. Busy \ {x} \subseteq Busy' /\ (again => x \in Busy')
  <2>1. CASE again BY <1>1, <1>2, <2>1 DEF Busy
  <2>2. CASE ~ again BY <1>1, <1>2, <2>2, BusyMoves
  <2> QED BY <2>1, <2>2
<1> HIDE DEF x, U
<1>7. /\ Clock(cleared, Low, Soonest, d) /\ On(cleared) = On(w)
      /\ cleared.tick = w.tick /\ cleared.list = w.list /\ cleared.timeout = w.timeout
      /\ cleared.init = w.init /\ cleared.active = w.active \ {x}
      /\ \A y : LeftIn(cleared, y) = LeftIn(w, y)
  <2>1. /\ cleared \in ClockState /\ cleared.tick = w.tick /\ cleared.list = w.list
        /\ cleared.timeout = w.timeout /\ cleared.init = w.init /\ cleared.active = w.active \ {x}
    BY <1>2 DEF Clock, ClockState
  <2> HIDE DEF cleared
  <2>2. \A y \in Timer : cleared.init[y] \in 1 .. d BY <1>2, <2>1 DEF Clock
  <2>3. Clock(cleared, Low, Soonest, d) /\ On(cleared) = On(w) BY <1>2, <2>1, <2>2, ClockSame
  <2> QED BY <2>1, <2>3 DEF LeftIn
<1> HIDE DEF cleared
<1>8. cur' \in 0 .. TickMax /\ Minus(w.tick, cur') <= slip
  <2>1. w.tick \in 0 .. TickMax BY <1>2 DEF Clock, ClockState
  <2>2. Minus(w.tick, w.tick) = 0 BY <2>1, MinusTicks
  <2> QED BY <1>1, <1>2, <2>1, <2>2
<1>9. /\ Clock(w', Low, Soonest, d) /\ w'.tick = w.tick /\ w'.list = w.list /\ w'.init = w.init
      /\ w'.active = w.active \ {x}
      /\ again => LeftIn(w', x) = w.init[x]
      /\ \A y \in (Entry \cap (On(w) \cup U)) \ {x} :
            w'.timeout[y] = w.timeout[y] /\ LeftIn(w', y) = LeftIn(w, y)
  <2>1. CASE again
    <3> DEFINE ticks == w.init[x]
    <3>1. ticks \in 0 .. Half - 1 /\ x \notin On(cleared) BY <1>4, <1>5, <1>7
    <3> HIDE DEF ticks
    <3>2. LET r == SetTimeout(cleared, x, ticks)
          IN  /\ Clock(r, Low, Soonest, d) /\ r.tick = cleared.tick /\ r.list = cleared.list
              /\ r.init = cleared.init /\ r.active = cleared.active
              /\ LeftIn(r, x) = ticks
              /\ \A y \in Entry \ {x} : r.timeout[y] = cleared.timeout[y] /\ LeftIn(r, y) = LeftIn(cleared, y)
      BY <1>2, <1>4, <1>7, <3>1, SetTimeoutClock
    <3>3. w' = SetTimeout(cleared, x, ticks) BY <1>1, <2>1 DEF ticks
    <3> QED BY <1>7, <3>2, <3>3 DEF ticks
  <2>2. CASE ~ again
    <3>1. LET r == Tidy(cleared, U)
          IN  /\ Clock(r, Low, Soonest, d) /\ r.tick = cleared.tick /\ r.list = cleared.list
              /\ r.init = cleared.init /\ r.active = cleared.active
              /\ \A y \in Entry \cap (On(cleared) \cup U) :
                    r.timeout[y] = cleared.timeout[y] /\ LeftIn(r, y) = LeftIn(cleared, y)
      BY <1>2, <1>7, TidyClock
    <3>2. w' = Tidy(cleared, U) BY <1>1, <2>2
    <3> QED BY <1>7, <2>2, <3>1, <3>2
  <2> QED BY <2>1, <2>2
<1>10. On(w') = On(w) BY <1>9 DEF On
<1>11. Covered(w'.list["soft"], n', NotBefore(w', 1 - slip))
  <2>1. Covered(w.list["soft"], n, NotBefore(w, 1 - slip)) BY <1>2, <1>3 DEF WalkOK
  <2>2. \A y \in ToSet(w.list["soft"]) : y \in (Entry \cap On(w)) \ {x} BY <1>2, <1>4, ListsOn
  <2>3. \A y \in ToSet(w.list["soft"]) : y \in NotBefore(w, 1 - slip) => y \in NotBefore(w', 1 - slip)
    BY <1>9, <2>2 DEF NotBefore
  <2> DEFINE G == NotBefore(w, 1 - slip)
             F == NotBefore(w', 1 - slip)
  <2> HIDE DEF G, F
  <2>4. Covered(w.list["soft"], n, F)
    <3>1. Covered(w.list["soft"], n, G) BY <2>1 DEF G
    <3>2. \A y \in ToSet(w.list["soft"]) : y \in G => y \in F BY <2>3 DEF G, F
    <3> QED BY <3>1, <3>2, CoveredSame
  <2> QED BY <1>1, <1>9, <2>4 DEF F
<1>12. FlagsOK(w', Busy') BY <1>2, <1>4, <1>6, <1>9, <1>10 DEF FlagsOK
<1>13. /\ Thread \cap On(w') = Thread \cap On(w) /\ (n' # NoTimer => n' \in On(w'))
       /\ n' \in Soft \cup {NoTimer} /\ x \notin On(w') /\ x \notin w'.active
  <2>1. n # NoTimer => n \in On(w) BY <1>2 DEF WalkOK, On
  <2> QED BY <1>1, <1>2, <1>4, <1>9, <1>10, <2>1 DEF ClockOK
<1>14. /\ \A t \in App : pc[t] \in Handling \ {"stop_remove"} => op[t] \notin On(w')
       /\ \A t \in App : pc[t] = "start_insert" =>
            /\ op[t] \notin w'.active
            /\ w'.timeout[op[t]] = w.timeout[op[t]] /\ w'.init[op[t]] = w.init[op[t]]
  <2>1. \A t \in App : pc[t] = "start_insert" =>
            op[t] # x /\ op[t] \in Entry \cap U /\ op[t] \notin w.active
    <3> TAKE t \in App
    <3> HAVE pc[t] = "start_insert"
    <3>1. op[t] \in Timer /\ op[t] # NoTimer BY <1>2, BusyTimers DEF Handling
    <3>2. op[t] \in InUse(T) /\ op[t] \in Entry BY <1>2, <3>1, InUseOthers, ThreadKinds
    <3> QED BY <1>2, <1>4, <3>2 DEF OpsOK, U
  <2> QED BY <1>2, <1>9, <1>10, <2>1 DEF OpsOK
<1>15. CASE again
  <2>1. op' = [op EXCEPT ![T] = x] /\ pc' = [pc EXCEPT ![T] = "restart_insert"]
    BY <1>1, <1>2, <1>15 DEF OpsOK, x
  <2>2. LeftIn(w', x) \in 1 - slip .. d
    <3>1. slip \in Nat BY <1>2, TickRange
    <3> QED BY <1>5, <1>9, <1>15, <3>1
  <2>3. UNCHANGED <<k, irq, next, slip>> /\ Running(T) BY <1>1
  <2> HIDE DEF again
  <2> QED BY <1>3, <1>4, <1>8, <1>9, <1>11, <1>12, <1>13, <1>14, <2>1, <2>2, <2>3, LoopWalks
<1>16. CASE ~ again
  <2>1. op' = [op EXCEPT ![T] = NoTimer] /\ pc' = [pc EXCEPT ![T] = "check"]
    BY <1>1, <1>16
  <2>2. UNCHANGED <<k, irq, next, slip>> /\ Running(T) BY <1>1
  <2> HIDE DEF again
  <2> QED BY <1>3, <1>8, <1>9, <1>11, <1>12, <1>13, <1>14, <2>1, <2>2, LoopWalks
<1> QED BY <1>15, <1>16

-----------------------------------------------------------------------------
(***************************************************************************)
(* The theorems.                                                           *)
(***************************************************************************)

\* rt_system_timer_init: the lists are empty.
LEMMA TimersBegin ==
  ASSUME NEW d \in Nat, WellUsed(d), TimersInit
  PROVE  TimersInv(d)
<1>1. /\ SystemInit /\ op = [t \in Thread |-> NoTimer] /\ next = 0 /\ cur = 0 /\ n = NoTimer /\ slip = 0
      /\ w.tick = 0 /\ w.list["hard"] = <<>> /\ w.list["soft"] = <<>> /\ w.active = {} /\ w.init = InitTick
  BY DEF TimersInit
<1>2. /\ ThreadsOK /\ k.armed = {} /\ k.stat[T] = "none" /\ irq = NoThread
      /\ k.current = NoThread /\ \A t \in Thread : pc[t] = "run"
  BY <1>1, ThreadsBegin
<1>3. w \in ClockState
  <2>1. <<>> \in Seq(Thread \cup Timer) OBVIOUS
  <2>2. 0 \in 0 .. TickMax BY TickRange
  <2>3. InitTick \in [Timer -> 1 .. Half - 1] /\ Periodic \subseteq Timer BY TimersAssumption
  <2>4. w = [tick |-> 0, list |-> [l \in {"hard", "soft"} |-> <<>>],
             timeout |-> [x \in Timer \cup Thread |-> 0],
             init |-> InitTick, active |-> {}, periodic |-> Periodic]
    BY DEF TimersInit
  <2> QED BY <2>1, <2>2, <2>3, <2>4 DEF ClockState
<1>4. ToSet(w.list["hard"]) = {} /\ ToSet(w.list["soft"]) = {} /\ On(w) = {}
  BY <1>1 DEF ToSet, On
<1>5. \A x \in Timer : w.init[x] \in 1 .. d
  <2>1. \A x \in Timer : InitTick[x] \in 1 .. Half - 1 /\ InitTick[x] <= d
    BY TimersAssumption DEF WellUsed, Punctual
  <2>2. Half - 1 \in Int BY TickRange
  <2> QED BY <1>1, <2>1, <2>2
<1>6. \A lo : ListOK(<<>>, w, lo, d)
  BY DEF ListOK, ToSet, IsInjective, OrderedBy
<1>7. Clock(w, Low, Soonest, d)
  <2>1. <<>> \in Seq(Thread \cup (Timer \ Soft)) /\ <<>> \in Seq(Soft) OBVIOUS
  <2> QED BY <1>1, <1>3, <1>4, <1>5, <1>6, <2>1 DEF Clock
<1>8. ClockOK(d)
  <2>1. FlagsOK(w, Busy) BY <1>1, <1>4 DEF FlagsOK
  <2> QED BY <1>1, <1>2, <1>4, <1>7, <2>1, TickRange DEF ClockOK
<1>9. pc[T] = "run" /\ "run" \notin Walking \cup Locked \cup Handling
  BY <1>2, ThreadKinds DEF Walking, Locked, Handling
<1>10. OpsOK
  <2>1. op[T] = NoTimer /\ op[Idle] = NoTimer /\ \A t \in App : op[t] = NoTimer /\ pc[t] = "run"
    BY <1>1, <1>2, ThreadKinds
  <2> QED BY <1>1, <1>9, <2>1 DEF OpsOK, Handling
<1>11. PendingOK(d) BY <1>2, <1>9, ThreadKinds DEF PendingOK
<1>12. WalkOK BY <1>1, <1>2, <1>9 DEF WalkOK
<1>13. SleepOK(d) BY <1>1, <1>9 DEF SleepOK, WakesInTime
<1> QED BY <1>2, <1>8, <1>10, <1>11, <1>12, <1>13 DEF TimersInv, TimersAllOK

\* Only a thread of the application calls the timer functions and sleeps.
LEMMA OnlyApp ==
  ASSUME NEW d \in Nat, WellUsed(d), TimersInv(d), NEW t \in Thread,
         pc[t] \in Handling \cup WakingPc \cup Sleeping
  PROVE  t \in App
<1>1. ThreadsOK BY InvFacts
<1>2. "run" \notin Handling \cup WakingPc \cup Sleeping BY DEF Handling, WakingPc, Sleeping
<1>3. TimerThreadPc \cap (Handling \cup WakingPc \cup Sleeping) = {}
  BY DEF Handling, WakingPc, Sleeping, TimerThreadPc, Asleep, Locked
<1> QED BY <1>1, <1>2, <1>3, ThreadKinds DEF ThreadsOK, PlacesOK

\* Each step of a thread of the application keeps the invariant.
LEMMA AppStepOK ==
  ASSUME NEW d \in Nat, WellUsed(d), TimersInv(d), NEW t \in Thread, AppStep(t)
  PROVE  TimersInv(d)'
<1> USE DEF Handling, WakingPc, Sleeping
<1>1. CASE \E x \in Timer : StartTest(t, x) \/ StopTest(t, x) \/ Detach(t, x) \/ Control(t, x)
  BY <1>1, StartTestOK, StopTestOK, DetachOK, ControlOK
<1>2. CASE StartInsert(t)
  <2>1. t \in App BY <1>2, OnlyApp DEF StartInsert, Goto
  <2> QED BY <1>2, <2>1, StartInsertOK
<1>3. CASE StartSoftTest(t)
  <2>1. t \in App BY <1>3, OnlyApp DEF StartSoftTest, Goto
  <2> QED BY <1>3, <2>1, StartSoftTestOK
<1>4. CASE StartResume(t)
  <2>1. t \in App BY <1>4, OnlyApp DEF StartResume, Goto
  <2> QED BY <1>4, <2>1, StartResumeOK
<1>5. CASE StartReady(t)
  <2>1. t \in App BY <1>5, OnlyApp DEF StartReady, Goto
  <2> QED BY <1>5, <2>1, StartReadyOK
<1>6. CASE StartSchedule(t)
  <2>1. ScheduleStep(t, "start_sched", "run") /\ UNCHANGED timerVars BY <1>6 DEF StartSchedule
  <2>2. t \in App BY <2>1, OnlyApp DEF ScheduleStep, Goto
  <2> QED BY <2>1, <2>2, AppReschedules
<1>7. CASE StopRemove(t)
  <2>1. t \in App BY <1>7, OnlyApp DEF StopRemove, Goto
  <2> QED BY <1>7, <2>1, StopRemoveOK
<1>8. CASE StopClear(t)
  <2>1. t \in App BY <1>8, OnlyApp DEF StopClear, Goto
  <2> QED BY <1>8, <2>1, StopClearOK
<1>9. CASE TimerInit(t)
  <2>1. t \in App BY <1>9, OnlyApp DEF TimerInit, Goto
  <2> QED BY <1>9, <2>1, TimerInitOK
<1>10. CASE \E ticks \in SleepTicks : SleepFor(t, ticks) BY <1>10, SleepForOK
<1>11. CASE SleepForSchedule(t)
  <2>1. ScheduleStep(t, "sleep_sched", "sleep_return") /\ UNCHANGED timerVars BY <1>11 DEF SleepForSchedule
  <2>2. t \in App BY <2>1, OnlyApp DEF ScheduleStep, Goto
  <2> QED BY <2>1, <2>2, AppReschedules
<1>12. CASE SleepForReturn(t)
  <2>1. t \in App BY <1>12, OnlyApp DEF SleepForReturn, SleepReturnStep, Goto
  <2> QED BY <1>12, <2>1, SleepForReturnOK
<1>13. CASE Compute(t) BY <1>13, ComputeOK
<1> QED
  BY <1>1, <1>2, <1>3, <1>4, <1>5, <1>6, <1>7, <1>8, <1>9, <1>10, <1>11, <1>12, <1>13 DEF AppStep

\* So does each step of the timer thread.
LEMMA TimerThreadStepOK ==
  ASSUME NEW d \in Nat, WellUsed(d), TimersInv(d), TimerThreadStep
  PROVE  TimersInv(d)'
<1>1. CASE LoopSuspendSchedule BY <1>1, LoopReschedules DEF LoopSuspendSchedule
<1>2. CASE LoopDelaySchedule BY <1>2, LoopReschedules DEF LoopDelaySchedule
<1>3. CASE LoopUnlock BY <1>3, LoopReschedules DEF LoopUnlock
<1> QED
  BY <1>1, <1>2, <1>3, LoopNextOK, LoopLostOK, LoopDecideOK, LoopSuspendOK, LoopDelayOK, LoopDelayReturnOK,
     LoopLockOK, SoftFireOK, SoftCallbackOK, SoftRestartOK, SoftRestartInsertOK, SoftEndOK
  DEF TimerThreadStep

LEMMA TimersInductive ==
  ASSUME NEW d \in Nat, WellUsed(d), TimersInv(d), [TimersNext]_allVars
  PROVE  TimersInv(d)'
<1>1. CASE UNCHANGED allVars BY <1>1, Stutters
<1>2. CASE TimersBoot BY <1>2, TimersBootOK
<1>3. CASE TickStep BY <1>3, TickBeginOK, CheckThreadOK, CheckTimerOK, CheckEndOK DEF TickStep
<1>4. CASE TimerThreadStep BY <1>4, TimerThreadStepOK
<1>5. CASE \E t \in Thread : AppStep(t) BY <1>5, AppStepOK
<1> QED BY <1>1, <1>2, <1>3, <1>4, <1>5 DEF TimersNext

\* TimersInv is an invariant of every well-used instance.
LEMMA TimersInvariant ==
  ASSUME NEW d \in Nat, WellUsed(d)
  PROVE  TimersSpec => []TimersInv(d)
<1>1. TimersInit => TimersInv(d) BY TimersBegin
<1>2. TimersInv(d) /\ [TimersNext]_allVars => TimersInv(d)' BY TimersInductive
<1> QED BY <1>1, <1>2, PTL DEF TimersSpec

\* ListsSound, for any timers, threads, range of the tick and times up to d: in
\* every window of rt_timer_start, rt_timer_stop and rt_timer_detach, of the
\* tick interrupt and of the timer thread's walk, both lists are sorted across
\* the wrap-around of the tick, nothing on them is late by half of its range,
\* and the lists, the flags and the threads agree.
THEOREM TimerListsAreSound ==
  ASSUME NEW d \in Nat, WellUsed(d)
  PROVE  TimersSpec => []ListsSound
<1>1. TimersInv(d) => ListsSound BY InvListsSound
<1> QED BY <1>1, TimersInvariant, PTL

\* WakesInTime: whenever soft timers wait and no rt_timer_start is on its way to
\* wake it, the suspended timer thread has a time-out at most MaxSlip ticks
\* after the first of them is due.
THEOREM TimerThreadWakesInTime ==
  ASSUME NEW d \in Nat, WellUsed(d)
  PROVE  TimersSpec => []WakesInTime
<1>1. TimersInv(d) => WakesInTime BY InvFacts
<1> QED BY <1>1, TimersInvariant, PTL

\* StoppedStaysSilent: rt_soft_timer_check calls no function of a timer that is
\* stopped, as long as the function of a soft timer stops no other one.
THEOREM StoppedTimersStaySilent ==
  ASSUME NEW d \in Nat, WellUsed(d)
  PROVE  TimersSpec => []StoppedStaysSilent
<1>1. TimersInv(d) => StoppedStaysSilent BY DEF TimersInv, TimersAllOK, OpsOK, StoppedStaysSilent
<1> QED BY <1>1, TimersInvariant, PTL

\* ServedInTime: when the tick interrupt ends, rt_timer_check has served every
\* timer of the hard list that is due, although it stops at the first one that
\* is not.
THEOREM HardTimersServedInTime ==
  ASSUME NEW d \in Nat, WellUsed(d)
  PROVE  TimersSpec => ServedInTime
<1> DEFINE Served == irq = Handler /\ irq' = NoThread => \A x \in ToSet(w.list["hard"]) : Left(x) > 0
<1>1. TimersInv(d) /\ [TimersNext]_allVars => [Served]_allVars
  <2> SUFFICES ASSUME TimersInv(d), TimersNext, irq = Handler, irq' = NoThread,
                      NEW x \in ToSet(w.list["hard"])
               PROVE  Left(x) > 0
    OBVIOUS
  <2>1. CheckEnd
    <3>1. irq' # irq /\ irq # NoThread /\ \A t \in Thread : ~ Running(t) BY ThreadKinds DEF Running
    <3>2. ~ TimersBoot
      <4>1. ThreadsOK /\ TimerThreadFirst BY InvFacts DEF WellUsed
      <4> QED BY <3>1, <4>1, Boots DEF TimersBoot
    <3>3. ~ TickBegin /\ ~ CheckThread /\ ~ CheckTimer
      BY <3>1 DEF TickBegin, Interrupt, CheckThread, CheckTimer
    <3>4. ~ TimerThreadStep
      BY <3>1, ThreadKinds
      DEF TimerThreadStep, LoopNext, LoopLost, LoopDecide, LoopSuspend, LoopSuspendSchedule, LoopDelay,
          LoopDelaySchedule, LoopDelayReturn, LoopLock, SoftFire, SoftCallback, SoftRestart,
          SoftRestartInsert, SoftEnd, LoopUnlock, ScheduleStep
    <3>5. \A t \in Thread : ~ AppStep(t)
      BY <3>1
      DEF AppStep, StartTest, StopTest, Detach, Control, StartInsert, StartSoftTest, StartResume, StartReady,
          StartSchedule, StopRemove, StopClear, TimerInit, SleepFor, SleepForSchedule, SleepForReturn,
          Compute, ScheduleStep, SleepReturnStep, OwnCode
    <3> QED BY <3>2, <3>3, <3>4, <3>5 DEF TimersNext, TickStep
  <2>2. ~ HardDue(w.tick) BY <2>1 DEF CheckEnd
  <2> QED BY <2>2, NoneDue DEF Left
<1> QED BY <1>1, TimersInvariant, PTL DEF TimersSpec, ServedInTime
=============================================================================
