CONSTANTS
    timer = timer  a = a  idle = idle  isr = isr  null = null  wild = wild
    h1 = h1  h2 = h2  s1 = s1  s2 = s2  none = none
    Thread <- MCThread
    Idle = idle
    NoThread = null
    Wild = wild
    PriorityMax = 3
    InitPriority <- MCInitPriority
    Queue <- MCQueue
    TimerThread = timer
    Handler = isr
    Timer <- MCTimer
    NoTimer = none
    Soft <- MCSoft
    Periodic <- MCPeriodic
    AppTimer <- MCAppTimer
    Effects <- MCEffects
    TickMod = 10
    InitTick <- MCInitTick
    SetTicks <- MCSetTicks
    SetModes <- MCSetModes
    SleepTicks <- MCSleepTicks
    TimerOps <- MCTimerOps
    MaxSlip = 1
SPECIFICATION TimersSpec
INVARIANTS ListsSound WakesInTime StoppedStaysSilent
PROPERTY ServedInTime
