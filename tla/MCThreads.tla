------------------------------ MODULE MCThreads ------------------------------
(***************************************************************************)
(* A small instance of module Threads: two application threads of          *)
(* different priority, and the idle thread.                                *)
(***************************************************************************)
EXTENDS Threads

CONSTANTS a, b, idle, null, wild, defunct

MCThread == {a, b, idle}
MCQueue == {defunct}
MCInitPriority == (a :> 0 @@ b :> 1 @@ idle :> 2)
MCStatic == {b, idle}
MCHasCleanup == {b}
MCAllOps == OpName \ {"delete_init"}
=============================================================================
