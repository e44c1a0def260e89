CONSTANTS
    a = a  b = b  c = c  idle = idle  null = null  wild = wild
    pool = pool  b1 = b1  b2 = b2  none = none
    Thread <- MCThread
    Idle = idle
    NoThread = null
    Wild = wild
    PriorityMax = 3
    InitPriority <- MCInitPriority
    Queue <- MCQueue
    Pool = pool
    Blocks <- MCBlocks
    NoBlock = none
    Times <- MCTimes
    Ops <- MCOps
    MaxHeld = 1
    MaxWaiting = 3
SPECIFICATION FairSpec
INVARIANTS BlocksAccounted NoLostWakeup
PROPERTY Transmitted
