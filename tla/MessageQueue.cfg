CONSTANTS
    a = a  b = b  c = c  idle = idle  null = null  wild = wild
    mq = mq  v1 = v1  v2 = v2  none = none
    Thread <- MCThread
    Idle = idle
    NoThread = null
    Wild = wild
    PriorityMax = 3
    InitPriority <- MCInitPriority
    Queue <- MCQueue
    Mq = mq
    Flag = "RT_IPC_FLAG_FIFO"
    MaxMsgs = 2
    Value <- MCValue
    NoValue = none
    Sender <- MCSender
    Receiver <- MCReceiver
    Times <- MCTimes
    Ops <- MCOps
SPECIFICATION Spec
INVARIANTS MessagesAccounted NoLostWakeup
PROPERTY RefinesQueue
SYMMETRY MCSymmetry
