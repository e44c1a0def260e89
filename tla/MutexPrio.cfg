CONSTANTS
    high = high  mid = mid  low = low  idle = idle
    null = null  wild = wild  m1 = m1  m2 = m2  none = none
    Thread <- MCThread
    Idle = idle
    NoThread = null
    Wild = wild
    PriorityMax = 4
    InitPriority <- MCInitPriority
    Queue <- MCOneMutex
    Mutexes <- MCOneMutex
    NoMutex = none
    Flag = "RT_IPC_FLAG_PRIO"
    Times <- MCTimes
    Ops <- MCForeign
    MaxHold = 2
SPECIFICATION FairSpec
INVARIANTS KernelSound OwnersAgree WaitersAccounted Inherited BoostEnds
PROPERTY TopTakesMutex
