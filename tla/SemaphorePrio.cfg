CONSTANTS
    a = a  b = b  c = c  idle = idle  null = null  wild = wild  sem = sem
    Thread <- MCThread
    Idle = idle
    NoThread = null
    Wild = wild
    PriorityMax = 3
    InitPriority <- MCInitPriority
    Queue <- MCQueue
    Sem = sem
    Flag = "RT_IPC_FLAG_PRIO"
    InitValue = 1
    ValueMod = 8
    Times <- MCTimes
    Ops <- MCOps
    MaxCredit = 2
SPECIFICATION FairSpec
INVARIANTS KernelSound NoLostWakeup NoStranded ServiceOrder Conservation
PROPERTIES RefinesCounting TopTakeReturns
