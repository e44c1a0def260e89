----------------------------- MODULE MCSemaphore -----------------------------
(***************************************************************************)
(* Small instances of module Semaphore: three application threads, one of  *)
(* high priority and two of the same priority, and the idle thread.        *)
(***************************************************************************)
EXTENDS Semaphore

CONSTANTS a, b, c, idle, null, wild, sem

MCThread == {a, b, c, idle}
MCQueue == {sem}
MCInitPriority == (a :> 0 @@ b :> 1 @@ c :> 1 @@ idle :> 2)
MCOps == {"isr_release", "isr_trytake", "reset", "sleep"}
MCFifoOps == {"isr_release", "detach", "priority", "critical"}
MCUntimed == {"zero", "forever"}
MCTimes == {"zero", "timed", "forever"}
=============================================================================
