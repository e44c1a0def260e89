CONSTANTS
    a = a  b = b  c = c  idle = idle  null = null  wild = wild  ev = ev
    isr = isr
    Thread <- MCThread
    Idle = idle
    NoThread = null
    Wild = wild
    PriorityMax = 3
    InitPriority <- MCInitPriority
    Queue <- MCQueue
    Ev = ev
    Flag = "RT_IPC_FLAG_PRIO"
    Bit <- MCBit
    Request <- MCRequest
    Handler = isr
    Times <- MCTimes
    Ops <- MCOps
SPECIFICATION Spec
INVARIANTS NoMissedEvent EventsConserved ReceivedWasSent
