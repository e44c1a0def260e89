------------------------------ MODULE Allocator ------------------------------
(***************************************************************************)
(* What a heap promises those who use it: a set of places in memory, each  *)
(* as large as was asked for, no two of which have a byte in common.       *)
(***************************************************************************)
EXTENDS Integers, FiniteSets

CONSTANTS
    Memory,     \* the number of bytes of memory
    Sizes       \* the sizes that are asked for

VARIABLE places     \* a set of [at, size], the memory that is in use

Place == [at : 0 .. Memory, size : Sizes]

\* a and b have no byte in common, and are not taken for one another
Apart(a, b) ==
    /\ a.at # b.at
    /\ a.at + a.size <= b.at \/ b.at + b.size <= a.at

Fits(a, others) == a.at + a.size <= Memory /\ \A b \in others : Apart(a, b)

Init == places = {}

Obtain(a) == Fits(a, places) /\ places' = places \cup {a}

Release(a) == places' = places \ {a}

\* the place of a becomes larger or smaller
Resize(a, size) ==
    LET b == [a EXCEPT !.size = size]
    IN  Fits(b, places \ {a}) /\ places' = (places \ {a}) \cup {b}

Next ==
    \/ \E a \in Place : Obtain(a)
    \/ \E a \in places : Release(a) \/ \E size \in Sizes : Resize(a, size)

Spec == Init /\ [][Next]_places
=============================================================================
