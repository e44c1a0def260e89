------------------------------- MODULE MCMutex -------------------------------
(***************************************************************************)
(* Small instances of module Mutex: a thread of high, one of middle and    *)
(* one of low priority, and the idle thread; one mutex or two.  The pair   *)
(* is the instance with two mutexes and without the middle thread.         *)
(***************************************************************************)
EXTENDS Mutex

CONSTANTS high, mid, low, idle, null, wild, m1, m2, none

MCThread == {high, mid, low, idle}
MCPair == {high, low, idle}
MCOneMutex == {m1}
MCTwoMutexes == {m1, m2}
MCInitPriority == (high :> 0 @@ mid :> 1 @@ low :> 2 @@ idle :> 3)
MCPairPriority == (high :> 0 @@ low :> 1 @@ idle :> 2)
MCTimes == {"zero", "timed", "forever"}
MCForeign == {"sleep", "release_foreign"}
MCDetach == {"sleep", "detach"}
=============================================================================
