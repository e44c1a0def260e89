CONSTANTS
    a = a  b = b  c = c  idle = idle  null = null  wild = wild
    recv = recv  send = send  m1 = m1  m2 = m2  none = none
    Thread <- MCThread
    Idle = idle
    NoThread = null
    Wild = wild
    PriorityMax = 3
    InitPriority <- MCInitPriority
    Queue <- MCQueue
    Recv = recv
    Send = send
    Flag = "RT_IPC_FLAG_FIFO"
    Size = 2
    Mail <- MCMail
    NoMail = none
    Sender <- MCSender
    Receiver <- MCReceiver
    Times <- MCTimes
    Ops <- MCOps
SPECIFICATION Spec
INVARIANTS NoLostWakeup TimedStaysTimed
PROPERTY RefinesQueue
SYMMETRY MCSymmetry
