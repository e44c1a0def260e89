CONSTANTS
    high = high  mid = mid  low = low  idle = idle
    null = null  wild = wild  m1 = m1  m2 = m2  none = none
    Thread <- MCPair
    Idle = idle
    NoThread = null
    Wild = wild
    PriorityMax = 3
    InitPriority <- MCPairPriority
    Queue <- MCTwoMutexes
    Mutexes <- MCTwoMutexes
    NoMutex = none
    Flag = "RT_IPC_FLAG_FIFO"
    Times <- MCTimes
    Ops <- MCDetach
    MaxHold = 2
SPECIFICATION Spec
INVARIANT OwnersAgree
