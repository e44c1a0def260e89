--------------------------- MODULE MCMessageQueue ---------------------------
(***************************************************************************)
(* A small instance of module MessageQueue: two messages, two contents,    *)
(* one thread that does both, one that sends and one that receives.        *)
(***************************************************************************)
EXTENDS MessageQueue, TLC

CONSTANTS a, b, c, idle, null, wild, mq, v1, v2, none

MCThread == {a, b, c, idle}
MCQueue == {mq}
MCInitPriority == (a :> 0 @@ b :> 1 @@ c :> 1 @@ idle :> 2)
MCValue == {v1, v2}
MCSender == {a, b}
MCReceiver == {a, c}
MCTimes == {"zero", "timed", "forever"}
MCOps == {"urgent", "isr_send", "reset", "detach"}
MCSymmetry == Permutations(MCValue)
=============================================================================
