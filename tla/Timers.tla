------------------------------- MODULE Timers -------------------------------
(***************************************************************************)
(* The clock and the timers of src/clock.c and src/timer.c: the tick that  *)
(* wraps around, the list of hard timers that rt_timer_check serves in the *)
(* tick interrupt (the timers of sleeping threads are on it too), and the  *)
(* list of soft timers that a thread serves with the scheduler locked.     *)
(* The lists have one level, which is the default of the skip list.        *)
(*                                                                         *)
(*   w.tick          rt_tick                                               *)
(*   w.list["hard"]  rt_timer_list; a thread stands for its thread_timer   *)
(*   w.list["soft"]  rt_soft_timer_list                                    *)
(*   w.timeout[x]    timer->timeout_tick (0 while nothing will read it)    *)
(*   w.init[x]       timer->init_tick                                      *)
(*   w.active        the timers with RT_TIMER_FLAG_ACTIVATED (k.armed has  *)
(*                   the threads)                                          *)
(*   w.periodic      the timers with RT_TIMER_FLAG_PERIODIC                *)
(*   op[t]           the timer of t's call in progress                     *)
(*   next, cur, n    next_timeout, current_tick and the saved node of the  *)
(*                   timer thread                                          *)
(*   slip            the ticks that have passed while the timer thread had *)
(*                   something to do, since it last slept or began again   *)
(*                                                                         *)
(* irq = Handler while the tick interrupt is served.                       *)
(***************************************************************************)
EXTENDS System

CONSTANTS
    TimerThread,      \* timer_thread
    Handler,          \* the tick interrupt
    Timer, NoTimer,   \* the timers of the application
    Soft,             \* those with RT_TIMER_FLAG_SOFT_TIMER
    Periodic,         \* those initialised with RT_TIMER_FLAG_PERIODIC
    AppTimer,         \* those that each thread of the application operates
    Effects,          \* what the timeout function of each timer may do
    TickMod,          \* 2^32 in the code
    InitTick,         \* the time each timer is initialised with
    SetTicks,         \* the times that rt_timer_control sets for each timer
    SetModes,         \* the timers it sets to one-shot and to periodic
    SleepTicks,       \* the times that threads sleep
    TimerOps,         \* the other calls this application makes
    MaxSlip           \* how many ticks a call may be interrupted for

VARIABLES w, op, next, cur, n, slip

walkVars == <<next, cur, n>>
timerVars == <<w, op, next, cur, n, slip>>
allVars == <<k, irq, pc, w, op, next, cur, n, slip>>

TickMax == TickMod - 1
Half == TickMax \div 2

App == Thread \ {Idle, TimerThread}

Effect == [op : {"none", "start", "stop"}, arg : Timer]

ASSUME TimersAssumption ==
    /\ TimerThread \in Thread \ {Idle}
    /\ Handler \notin Thread \cup {NoThread}
    /\ NoTimer \notin Timer /\ Timer \cap Thread = {}
    /\ Soft \subseteq Timer /\ Periodic \subseteq Timer
    /\ AppTimer \in [App -> SUBSET Timer]
    /\ Effects \in [Timer -> SUBSET Effect]
    /\ \A x \in Timer : \A e \in Effects[x] :
          e.op = "none" \/ (e.arg \in Soft <=> x \in Soft)
    /\ TickMod \in Nat /\ MaxSlip \in Nat /\ Half > 1
    /\ InitTick \in [Timer -> 1 .. Half - 1]
    /\ SetTicks \in [Timer -> SUBSET (1 .. Half - 1)]
    /\ SetModes \subseteq Timer /\ SleepTicks \subseteq 0 .. Half - 1
    /\ TimerOps \subseteq {"stop", "detach"}

TimersPc ==
    {"run", "sleep_sched", "sleep_return",
     "start_insert", "start_test", "start_resume", "start_ready", "start_sched",
     "stop_remove", "stop_clear", "timer_init",
     "next", "suspend", "suspend_sched", "delay", "delay_sched", "delay_return",
     "lock", "check", "callback", "restart", "restart_insert", "unlock_sched", "lost"}

-----------------------------------------------------------------------------
(***************************************************************************)
(* The timer lists.                                                        *)
(***************************************************************************)
Minus(x, y) == (x - y + TickMod) % TickMod

ListOf(x) == IF x \in Soft THEN "soft" ELSE "hard"

Listed == ToSet(w.list["hard"]) \cup ToSet(w.list["soft"])

TimerRemove(s, x) == [s EXCEPT !.list[ListOf(x)] = RemoveFirst(@, x)]

\* timeout_tick = rt_tick_get() + init_tick
SetTimeout(s, x, ticks) == [s EXCEPT !.timeout[x] = (s.tick + ticks) % TickMod]

\* mutation: timeout_tick is compared as a number
LaterPlain(s, y, x) == s.timeout[y] > s.timeout[x]

\* y is due after x, as far as rt_timer_start can tell
Later(s, y, x) == Minus(s.timeout[y], s.timeout[x]) \in 1 .. Half - 1

\* the section of rt_timer_start: before the first timer that is due later
Insert(s, x) ==
    LET list == s.list[ListOf(x)]
        later == SelectInSeq(list, LAMBDA y : Later(s, y, x))
        place == IF later = 0 THEN Len(list) + 1 ELSE later
    IN  [s EXCEPT !.list[ListOf(x)] = InsertAt(list, place, x),
                  !.active = IF x \in Timer THEN @ \cup {x} ELSE @]

\* rt_timer_start and rt_timer_stop called where nothing comes in between
StartNow(s, x) ==
    IF x \in s.active THEN s ELSE Insert(SetTimeout(s, x, s.init[x]), x)

StopNow(s, x) ==
    IF x \in s.active THEN [TimerRemove(s, x) EXCEPT !.active = @ \ {x}] ELSE s

Apply(s, e) ==
    CASE e.op = "none"  -> s
      [] e.op = "start" -> StartNow(s, e.arg)
      [] e.op = "stop"  -> StopNow(s, e.arg)

Expired(s, x, now) == Minus(now, s.timeout[x]) < Half

\* rt_timer_check at tick now has a timer to serve
HardDue(now) == w.list["hard"] # <<>> /\ Expired(w, Head(w.list["hard"]), now)

\* Nothing reads the timeout_tick of a timer that is off its list, unless a
\* call is in progress on it or the timer thread has saved its node.
Tidy(s, inUse) ==
    [s EXCEPT !.timeout = [x \in Timer \cup Thread |->
        IF x \in ToSet(s.list["hard"]) \cup ToSet(s.list["soft"]) \cup inUse
        THEN s.timeout[x] ELSE 0]]

\* the node that follows x on its list; a node that is off its list is linked
\* to itself
NextNode(s, x) ==
    LET list == s.list[ListOf(x)]
    IN  IF ~Contains(list, x) THEN x
        ELSE IF Last(list) = x THEN NoTimer
        ELSE list[SelectInSeq(list, LAMBDA y : y = x) + 1]

-----------------------------------------------------------------------------
(***************************************************************************)
(* rt_system_timer_init, rt_system_timer_thread_init, and _rt_timer_init   *)
(* of every timer.                                                         *)
(***************************************************************************)
TimersInit ==
    /\ SystemInit
    /\ w = [tick |-> 0, list |-> [l \in {"hard", "soft"} |-> <<>>],
            timeout |-> [x \in Timer \cup Thread |-> 0],
            init |-> InitTick, active |-> {}, periodic |-> Periodic]
    /\ op = [t \in Thread |-> NoTimer]
    /\ next = 0 /\ cur = 0 /\ n = NoTimer /\ slip = 0

InUse(t) == {op[u] : u \in Thread \ {t}} \ {NoTimer}

-----------------------------------------------------------------------------
(***************************************************************************)
(* rt_tick_increase, in the tick interrupt: the tick, the time slice, and  *)
(* rt_timer_check until its first timer is not due.                        *)
(***************************************************************************)

\* a thread that has started a soft timer is about to wake the timer thread
Waking == \E t \in Thread : pc[t] \in {"start_test", "start_resume", "start_ready"}

\* the timer thread has something to do before it sleeps (again)
Awake == k.stat[TimerThread] # "suspend" \/ Waking

\* The code supposes that nothing is late by half of the range of the tick.
\* Here a call is interrupted for at most MaxSlip ticks.
Prompt ==
    /\ \A t \in Thread : pc[t] = "start_insert" =>
          Minus(w.tick, Minus(w.timeout[op[t]], w.init[op[t]])) < MaxSlip
    /\ Awake => slip < MaxSlip

TickBegin ==
    /\ Interrupt /\ Prompt
    /\ w' = [w EXCEPT !.tick = (@ + 1) % TickMod]
    /\ k' \in {k, Yield(k)}
    /\ irq' = Handler
    /\ slip' = IF Awake THEN slip + 1 ELSE slip
    /\ UNCHANGED <<pc, op, walkVars>>

\* the end of rt_timer_check's loop for timer x: restart it or clear its flag
Restarted(s, x) ==
    LET cleared == [s EXCEPT !.active = @ \ {x}]
    IN  IF x \in s.periodic /\ x \in s.active THEN StartNow(cleared, x) ELSE cleared

\* the first timer is a thread's, or the application's
CheckThread ==
    LET x == Head(w.list["hard"])
    IN  /\ irq = Handler /\ HardDue(w.tick)
        /\ x \in Thread
        /\ w' = Tidy(TimerRemove(w, x), InUse(x) \cup {n})
        /\ k' = ThreadTimeout(k, x)
        /\ UNCHANGED <<irq, pc, op, walkVars, slip>>

CheckTimer ==
    LET x == Head(w.list["hard"])
    IN  /\ irq = Handler /\ HardDue(w.tick)
        /\ x \in Timer
        /\ \E e \in Effects[x] :
              w' = Tidy(Restarted(Apply(TimerRemove(w, x), e), x), InUse(Idle) \cup {n})
        /\ UNCHANGED <<k, irq, pc, op, walkVars, slip>>

\* mutation: a timer that is due at this very tick is left for the next
CheckEndEarly ==
    /\ irq = Handler
    /\ ~ HardDue((w.tick + TickMax) % TickMod)
    /\ irq' = NoThread
    /\ UNCHANGED <<k, pc, timerVars>>

CheckEnd ==
    /\ irq = Handler
    /\ ~ HardDue(w.tick)
    /\ irq' = NoThread
    /\ UNCHANGED <<k, pc, timerVars>>

-----------------------------------------------------------------------------
(***************************************************************************)
(* rt_timer_start by a thread: the test of the flag and timeout_tick; the  *)
(* section that inserts the timer; for a soft timer, waking the timer      *)
(* thread if it is not READY, in the sections of rt_thread_resume.         *)
(***************************************************************************)
StartTest(t, x) ==
    /\ Running(t) /\ t \in App /\ x \in AppTimer[t] \ w.active
    /\ Goto(t, "run", "start_insert")
    /\ w' = SetTimeout(w, x, w.init[x])
    /\ op' = [op EXCEPT ![t] = x]
    /\ UNCHANGED <<k, irq, walkVars, slip>>

StartInsert(t) ==
    /\ Running(t)
    /\ Goto(t, "start_insert", IF op[t] \in Soft THEN "start_test" ELSE "run")
    /\ w' = Insert(w, op[t])
    /\ op' = [op EXCEPT ![t] = NoTimer]
    /\ UNCHANGED <<k, irq, walkVars, slip>>

\* mutation: the timer thread is only woken when it has no time-out
StartSoftTestIdle(t) ==
    /\ Running(t)
    /\ Goto(t, "start_test",
            IF k.stat[TimerThread] = "ready" \/ TimerThread \in k.armed
            THEN "run" ELSE "start_resume")
    /\ UNCHANGED <<k, irq, timerVars>>

StartSoftTest(t) ==
    /\ Running(t)
    /\ Goto(t, "start_test", IF k.stat[TimerThread] = "ready" THEN "run" ELSE "start_resume")
    /\ UNCHANGED <<k, irq, timerVars>>

\* The test of timer_thread.stat in rt_thread_resume and the section after it
\* are one step.  The timer thread has the highest priority
\* (RT_TIMER_THREAD_PRIO is 0): if a tick between them wakes it, it has served
\* its list and is suspended again when t goes on.
StartResume(t) ==
    /\ Running(t)
    /\ \/ /\ k.stat[TimerThread] = "suspend"
          /\ Goto(t, "start_resume", "start_ready")
          /\ k' = ResumeUnlink(k, TimerThread)
          /\ w' = Tidy(TimerRemove(w, TimerThread), InUse(TimerThread) \cup {n})
       \/ /\ k.stat[TimerThread] # "suspend"
          /\ Goto(t, "start_resume", "start_sched")
          /\ UNCHANGED <<k, w>>
    /\ UNCHANGED <<irq, op, walkVars, slip>>

StartReady(t) ==
    /\ Running(t)
    /\ Goto(t, "start_ready", "start_sched")
    /\ k' = ScheduleInsert(k, TimerThread)
    /\ UNCHANGED <<irq, timerVars>>

StartSchedule(t) == ScheduleStep(t, "start_sched", "run") /\ UNCHANGED timerVars

(***************************************************************************)
(* rt_timer_stop by a thread: the test, the section that unlinks the       *)
(* timer, and the flag.                                                    *)
(***************************************************************************)
StopTest(t, x) ==
    /\ Running(t) /\ t \in App /\ x \in AppTimer[t] \cap w.active
    /\ "stop" \in TimerOps
    /\ Goto(t, "run", "stop_remove")
    /\ op' = [op EXCEPT ![t] = x]
    /\ UNCHANGED <<k, irq, w, walkVars, slip>>

\* mutation: the timer stays on its list
StopRemoveNot(t) ==
    /\ Running(t)
    /\ Goto(t, "stop_remove", "stop_clear")
    /\ UNCHANGED <<k, irq, timerVars>>

StopRemove(t) ==
    /\ Running(t)
    /\ Goto(t, "stop_remove", "stop_clear")
    /\ w' = TimerRemove(w, op[t])
    /\ UNCHANGED <<k, irq, op, walkVars, slip>>

StopClear(t) ==
    /\ Running(t)
    /\ Goto(t, "stop_clear", "run")
    /\ w' = Tidy([w EXCEPT !.active = @ \ {op[t]}], InUse(t) \cup {n})
    /\ op' = [op EXCEPT ![t] = NoTimer]
    /\ UNCHANGED <<k, irq, walkVars, slip>>

\* rt_timer_detach or rt_timer_delete, and then rt_timer_init or
\* rt_timer_create
Detach(t, x) ==
    /\ Running(t) /\ t \in App /\ x \in AppTimer[t]
    /\ "detach" \in TimerOps
    /\ Goto(t, "run", "timer_init")
    /\ w' = TimerRemove(w, x)
    /\ op' = [op EXCEPT ![t] = x]
    /\ UNCHANGED <<k, irq, walkVars, slip>>

TimerInit(t) ==
    /\ Running(t)
    /\ Goto(t, "timer_init", "run")
    /\ w' = Tidy([w EXCEPT !.active = @ \ {op[t]}, !.init[op[t]] = InitTick[op[t]],
                           !.periodic = IF op[t] \in Periodic THEN @ \cup {op[t]}
                                                              ELSE @ \ {op[t]}],
                 InUse(t) \cup {n})
    /\ op' = [op EXCEPT ![t] = NoTimer]
    /\ UNCHANGED <<k, irq, walkVars, slip>>

\* rt_timer_control
Control(t, x) ==
    /\ Running(t) /\ t \in App /\ x \in AppTimer[t]
    /\ pc[t] = "run"
    /\ \/ \E d \in SetTicks[x] : w' = [w EXCEPT !.init[x] = d]
       \/ x \in SetModes /\ w' = [w EXCEPT !.periodic = @ \ {x}]
       \/ x \in SetModes /\ w' = [w EXCEPT !.periodic = @ \cup {x}]
    /\ UNCHANGED <<k, irq, pc, op, walkVars, slip>>

(***************************************************************************)
(* rt_thread_sleep.                                                        *)
(***************************************************************************)
SleepBody(t, ticks) ==
    /\ k' = TimerStart(Suspend(k, t), t)
    /\ w' = Insert(SetTimeout(w, t, ticks), t)

SleepFor(t, ticks) ==
    /\ Running(t) /\ t \in App
    /\ Goto(t, "run", "sleep_sched")
    /\ SleepBody(t, ticks)
    /\ UNCHANGED <<irq, op, walkVars, slip>>

SleepForSchedule(t) == ScheduleStep(t, "sleep_sched", "sleep_return") /\ UNCHANGED timerVars

SleepForReturn(t) == SleepReturnStep(t) /\ UNCHANGED timerVars

-----------------------------------------------------------------------------
(***************************************************************************)
(* rt_thread_timer_entry, the loop of the timer thread.                    *)
(***************************************************************************)
T == TimerThread

\* rt_timer_list_next_timeout
NextTimeout == IF w.list["soft"] = <<>> THEN TickMax ELSE w.timeout[Head(w.list["soft"])]

\* RT_TICK_MAX means "no timer" here, and may be the timeout_tick of one.
Sentinel == w.list["soft"] # <<>> /\ NextTimeout = TickMax

LoopNext ==
    /\ Running(T) /\ ~ Sentinel
    /\ Goto(T, "run", "next")
    /\ next' = NextTimeout
    /\ slip' = 0
    /\ UNCHANGED <<k, irq, w, op, cur, n>>

\* The timer thread is about to suspend itself although a timer is waiting.
\* What becomes of that timer is not followed.
LoopLost ==
    /\ Running(T)
    /\ \/ Sentinel /\ Goto(T, "run", "lost") /\ irq' = T /\ UNCHANGED k
       \/ LostStep(T)
    /\ UNCHANGED timerVars

LoopDecide ==
    LET left == Minus(next, w.tick)
    IN  /\ Running(T)
        /\ Goto(T, "next", IF next = TickMax THEN "suspend"
                           ELSE IF left < Half THEN "delay" ELSE "lock")
        /\ next' = IF next # TickMax /\ left < Half THEN left ELSE 0
        /\ UNCHANGED <<k, irq, w, op, cur, n, slip>>

LoopSuspend ==
    /\ Running(T)
    /\ Goto(T, "suspend", "suspend_sched")
    /\ k' = Suspend(k, T)
    /\ slip' = 0
    /\ UNCHANGED <<irq, w, op, walkVars>>

LoopSuspendSchedule == ScheduleStep(T, "suspend_sched", "lock") /\ UNCHANGED timerVars

LoopDelay ==
    /\ Running(T)
    /\ Goto(T, "delay", "delay_sched")
    /\ SleepBody(T, next)
    /\ next' = 0 /\ slip' = 0
    /\ UNCHANGED <<irq, op, cur, n>>

LoopDelaySchedule == ScheduleStep(T, "delay_sched", "delay_return") /\ UNCHANGED timerVars

LoopDelayReturn ==
    /\ Running(T)
    /\ Goto(T, "delay_return", "lock")
    /\ k' = [k EXCEPT !.error[T] = IF @ = "RT_ETIMEOUT" THEN "RT_EOK" ELSE @]
    /\ UNCHANGED <<irq, timerVars>>

\* rt_enter_critical, and rt_soft_timer_check up to its loop
LoopLock ==
    /\ Running(T)
    /\ Goto(T, "lock", "check")
    /\ k' = EnterCritical(k)
    /\ cur' = w.tick
    /\ n' = IF w.list["soft"] = <<>> THEN NoTimer ELSE Head(w.list["soft"])
    /\ UNCHANGED <<irq, w, op, next, slip>>

SoftDue == n # NoTimer /\ Expired(w, n, cur)

\* the node is due: save the next one and unlink it
SoftFire ==
    /\ Running(T) /\ SoftDue
    /\ Goto(T, "check", "callback")
    /\ op' = [op EXCEPT ![T] = n]
    /\ n' = NextNode(w, n)
    /\ w' = TimerRemove(w, n)
    /\ UNCHANGED <<k, irq, next, cur, slip>>

\* The function of the timer.  What it starts or stops it does in one step,
\* although interrupts are enabled: the tick inside a call of rt_timer_start or
\* rt_timer_stop is in the calls of the threads, and in SoftRestart.
SoftCallback ==
    /\ Running(T)
    /\ Goto(T, "callback", "restart")
    /\ \E e \in Effects[op[T]] :
          w' = Tidy(Apply(w, e), InUse(Idle) \cup {n})
    /\ UNCHANGED <<k, irq, op, walkVars, slip>>

SoftRestart ==
    LET x == op[T]
        again == x \in w.periodic /\ x \in w.active
        cleared == [w EXCEPT !.active = @ \ {x}]
    IN  /\ Running(T)
        /\ Goto(T, "restart", IF again THEN "restart_insert" ELSE "check")
        /\ cur' = w.tick
        /\ w' = IF again THEN SetTimeout(cleared, x, w.init[x])
                         ELSE Tidy(cleared, InUse(T) \cup {n})
        /\ op' = IF again THEN op ELSE [op EXCEPT ![T] = NoTimer]
        /\ UNCHANGED <<k, irq, next, n, slip>>

SoftRestartInsert ==
    /\ Running(T)
    /\ Goto(T, "restart_insert", "check")
    /\ w' = Insert(w, op[T])
    /\ op' = [op EXCEPT ![T] = NoTimer]
    /\ UNCHANGED <<k, irq, walkVars, slip>>

\* the loop ends, and rt_exit_critical
SoftEnd ==
    /\ Running(T) /\ ~ SoftDue
    /\ Goto(T, "check", "unlock_sched")
    /\ k' = ExitCritical(k)
    /\ cur' = 0 /\ n' = NoTimer
    /\ UNCHANGED <<irq, w, op, next, slip>>

LoopUnlock == ScheduleStep(T, "unlock_sched", "run") /\ UNCHANGED timerVars

-----------------------------------------------------------------------------
TimersBoot == (StartStep \/ \E t \in Thread : BootStep(t)) /\ UNCHANGED timerVars

Compute(t) == t # T /\ OwnCode(t) /\ UNCHANGED timerVars

AppStep(t) ==
    \/ \E x \in Timer : StartTest(t, x) \/ StopTest(t, x) \/ Detach(t, x) \/ Control(t, x)
    \/ StartInsert(t) \/ StartSoftTest(t) \/ StartResume(t) \/ StartReady(t)
    \/ StartSchedule(t) \/ StopRemove(t) \/ StopClear(t) \/ TimerInit(t)
    \/ \E ticks \in SleepTicks : SleepFor(t, ticks)
    \/ SleepForSchedule(t) \/ SleepForReturn(t) \/ Compute(t)

TimerThreadStep ==
    \/ LoopNext \/ LoopLost \/ LoopDecide \/ LoopSuspend \/ LoopSuspendSchedule \/ LoopDelay
    \/ LoopDelaySchedule \/ LoopDelayReturn \/ LoopLock \/ SoftFire \/ SoftCallback \/ SoftRestart
    \/ SoftRestartInsert \/ SoftEnd \/ LoopUnlock

TickStep == TickBegin \/ CheckThread \/ CheckTimer \/ CheckEnd

TimersNext == TimersBoot \/ TickStep \/ TimerThreadStep \/ \E t \in Thread : AppStep(t)

TimersSpec == TimersInit /\ [][TimersNext]_allVars

-----------------------------------------------------------------------------
(***************************************************************************)
(* Correctness.                                                            *)
(***************************************************************************)

ClockState ==
    [tick : 0 .. TickMax, list : [{"hard", "soft"} -> Seq(Thread \cup Timer)],
     timeout : [Timer \cup Thread -> 0 .. TickMax], init : [Timer -> 1 .. Half - 1],
     active : SUBSET Timer, periodic : SUBSET Timer]

\* Every variable has its type, and rt_schedule always finds a thread.
TimersTypeOK ==
    /\ k \in KernelState /\ k.current # Wild
    /\ irq \in Thread \cup {NoThread, Handler}
    /\ pc \in [Thread -> TimersPc]
    /\ w \in ClockState
    /\ w.list["hard"] \in Seq(Thread \cup (Timer \ Soft)) /\ w.list["soft"] \in Seq(Soft)
    /\ op \in [Thread -> Timer \cup {NoTimer}]
    /\ next \in 0 .. TickMax /\ cur \in 0 .. TickMax
    /\ n \in Soft \cup {NoTimer} /\ slip \in 0 .. MaxSlip

\* how many ticks from now timer x is due, negative when it is late
LeftIn(s, x) == Minus(s.timeout[x] + Half, s.tick) - Half

Left(x) == LeftIn(w, x)

\* Both lists are in the order in which their timers are due, and nothing on
\* them is late by half of the tick's range, wherever the tick has wrapped.
ListsSorted ==
    \A l \in {"hard", "soft"} :
        /\ \A i, j \in 1 .. Len(w.list[l]) :
              i < j => Left(w.list[l][i]) <= Left(w.list[l][j])
        /\ \A i \in 1 .. Len(w.list[l]) : Left(w.list[l][i]) > -Half

\* A timer is on its list, once, exactly when its flag says so, except while a
\* call or its own function is in progress on it; and the thread timers on the
\* list are the activated ones, of suspended threads, as rt_thread_timeout
\* asserts.
FlagsAgree ==
    /\ \A x \in Timer \ {op[t] : t \in Thread} : x \in w.active <=> x \in Listed
    /\ \A l \in {"hard", "soft"} : IsInjective(w.list[l])
    /\ k.armed = Thread \cap ToSet(w.list["hard"])
    /\ TimersOK(k)

\* The timer lists of timer.c are sound: of the right type, sorted across the
\* wrap-around of the tick, and in agreement with the flags of the timers.
ListsSound == TimersTypeOK /\ ListsSorted /\ FlagsAgree

\* When the tick interrupt is over, no timer on the hard list is due: each one
\* is served in the tick in which it expires.
ServedInTime ==
    [][irq = Handler /\ irq' = NoThread =>
          \A x \in ToSet(w.list["hard"]) : Left(x) > 0]_allVars

\* While soft timers are waiting and no start is on its way to wake it, the
\* suspended timer thread has a time-out, at most MaxSlip ticks after the
\* first of them is due.
WakesInTime ==
    k.stat[T] = "suspend" /\ w.list["soft"] # <<>> /\ ~ Waking
    => /\ T \in k.armed
       /\ Left(T) <= Left(Head(w.list["soft"])) + MaxSlip

\* The timer thread never calls the function of a soft timer that is stopped.
StoppedStaysSilent == pc[T] = "callback" => op[T] \in w.active
=============================================================================
