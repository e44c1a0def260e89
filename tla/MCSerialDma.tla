----------------------------- MODULE MCSerialDma -----------------------------
(***************************************************************************)
(* A small instance of module SerialDma: two blocks and three threads, two *)
(* of them of the same priority.                                           *)
(***************************************************************************)
EXTENDS SerialDma, TLC

CONSTANTS a, b, c, idle, null, wild, pool, b1, b2, none

MCThread == {a, b, c, idle}
MCQueue == {pool}
MCInitPriority == (a :> 0 @@ b :> 1 @@ c :> 1 @@ idle :> 2)
MCBlocks == <<b1, b2>>
MCTimes == {"zero", "timed", "forever"}
MCOps == {"free", "detach"}
=============================================================================
