CONSTANTS
    a = a  b = b  c = c  idle = idle  null = null  wild = wild  sem = sem
    Thread <- MCThread
    Idle = idle
    NoThread = null
    Wild = wild
    PriorityMax = 3
    InitPriority <- MCInitPriority
    Queue <- MCQueue
    Sem = sem
    Flag = "RT_IPC_FLAG_FIFO"
    InitValue = 0
    ValueMod = 8
    Times <- MCUntimed
    Ops <- MCFifoOps
    MaxCredit = 1
SPECIFICATION Spec
INVARIANT ServiceOrder
