------------------------------- MODULE MCHeap -------------------------------
(***************************************************************************)
(* A small instance of module Heap: two threads that behave alike, and a   *)
(* heap for three blocks or four of the least size.                        *)
(***************************************************************************)
EXTENDS Heap, TLC

CONSTANTS first, second

MCClient == {first, second}
MCSizes == {0, 1, 3, 10}
MCSymmetry == Permutations(MCClient)
=============================================================================
