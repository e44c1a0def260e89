CONSTANTS
    a = a  b = b  idle = idle  null = null  wild = wild  defunct = defunct
    Thread <- MCThread
    Idle = idle
    NoThread = null
    Wild = wild
    PriorityMax = 3
    InitPriority <- MCInitPriority
    Queue <- MCQueue
    Defunct = defunct
    Static <- MCStatic
    HasCleanup <- MCHasCleanup
    Ops <- MCAllOps
    Bracketed = TRUE
    MaxCreate = 1
    MaxNest = 1
SPECIFICATION Spec
INVARIANTS KernelSound DeadAwaitIdle Preemptive
