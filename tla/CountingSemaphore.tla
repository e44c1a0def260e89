-------------------------- MODULE CountingSemaphore --------------------------
(***************************************************************************)
(* What a semaphore of the kernel promises its users, without a scheduler, *)
(* lists, timers or interrupts: a count, the threads that wait for it, the *)
(* threads that were given it but have not come back from the call, and    *)
(* whether it is open: not between the beginning and the end of a reset,   *)
(* nor between a detach and the next initialisation.  The count is kept in *)
(* so many bits: a release may wrap it.                                    *)
(***************************************************************************)
EXTENDS Naturals

CONSTANTS Thread, Modulus

VARIABLES avail, waiting, granted, open

vars == <<avail, waiting, granted, open>>

Init == avail \in 0 .. Modulus - 1 /\ waiting = {} /\ granted = {} /\ open = TRUE

\* A take finds the semaphore available.
Acquire == avail > 0 /\ avail' = avail - 1 /\ UNCHANGED <<waiting, granted, open>>

\* A take has to wait, which it does only when nothing is available.
Wait(t) ==
    /\ avail = 0
    /\ t \notin waiting \cup granted
    /\ waiting' = waiting \cup {t}
    /\ UNCHANGED <<avail, granted, open>>

\* A release counts only when no thread waits ...
Release ==
    /\ waiting = {}
    /\ avail' = (avail + 1) % Modulus
    /\ UNCHANGED <<waiting, granted, open>>

\* ... and otherwise goes to exactly one of the threads that do.
Grant(t) ==
    /\ t \in waiting
    /\ waiting' = waiting \ {t}
    /\ granted' = granted \cup {t}
    /\ UNCHANGED <<avail, open>>

\* A wait ends without the semaphore: time-out, reset, detach.
GiveUp(t) ==
    /\ t \in waiting
    /\ waiting' = waiting \ {t}
    /\ UNCHANGED <<avail, granted, open>>

\* A take that waited returns with the semaphore.
Collect(t) ==
    /\ t \in granted
    /\ granted' = granted \ {t}
    /\ UNCHANGED <<avail, waiting, open>>

\* A reset or a detach begins: the value stays, and so do the threads, which
\* give up one by one.
Close == open' = FALSE /\ UNCHANGED <<avail, waiting, granted>>

\* The only way to change the value other than by one: at the end of a reset,
\* or by an initialisation, when no thread waits any more.
SetValue ==
    /\ ~open /\ waiting = {}
    /\ avail' \in 0 .. Modulus - 1 /\ open' \in BOOLEAN
    /\ UNCHANGED <<waiting, granted>>

Next ==
    \/ Acquire \/ Release \/ Close \/ SetValue
    \/ \E t \in Thread : Wait(t) \/ Grant(t) \/ GiveUp(t) \/ Collect(t)

Spec == Init /\ [][Next]_vars
=============================================================================
