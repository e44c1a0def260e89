---------------------------- MODULE BoundedQueue ----------------------------
(***************************************************************************)
(* What the users of a mailbox or of a message queue rely on: a queue of   *)
(* at most Capacity values that come out in the order they went in, each   *)
(* to one reader, and none lost, repeated or altered.  The exceptions: a   *)
(* value that its writer has announced as urgent goes to the front, and    *)
(* all are dropped by a reset, while the queue is not open.                *)
(*                                                                         *)
(*   items     the values in the queue                                     *)
(*   got[r]    the value that reader r has taken and not yet returned with *)
(*   urgent    the writers that have begun to put an urgent value          *)
(*   open      FALSE from the beginning of a reset to its end, and between *)
(*             a detach and the next initialisation                        *)
(***************************************************************************)
EXTENDS Naturals, Sequences

CONSTANTS Reader, Writer, Value, NoValue, Capacity

VARIABLES items, got, urgent, open

vars == <<items, got, urgent, open>>

Init ==
    /\ items = <<>>
    /\ got = [r \in Reader |-> NoValue]
    /\ urgent = {}
    /\ open = TRUE

Put(v) ==
    /\ Len(items) < Capacity
    /\ items' = Append(items, v)
    /\ UNCHANGED <<got, urgent, open>>

Announce(w) ==
    /\ w \notin urgent
    /\ urgent' = urgent \cup {w}
    /\ UNCHANGED <<items, got, open>>

PutUrgent(w, v) ==
    /\ w \in urgent /\ Len(items) < Capacity
    /\ urgent' = urgent \ {w}
    /\ items' = <<v>> \o items
    /\ UNCHANGED <<got, open>>

Take(r) ==
    /\ items # <<>> /\ got[r] = NoValue
    /\ got' = [got EXCEPT ![r] = Head(items)]
    /\ items' = Tail(items)
    /\ UNCHANGED <<urgent, open>>

Return(r) ==
    /\ got' = [got EXCEPT ![r] = NoValue]
    /\ UNCHANGED <<items, urgent, open>>

\* The beginning, a step or the end of a reset: the values may be dropped.
Reset ==
    /\ open' \in BOOLEAN /\ ~(open /\ open')
    /\ items' = items \/ items' = <<>>
    /\ UNCHANGED <<got, urgent>>

Next ==
    \/ \E v \in Value : Put(v) \/ \E w \in Writer : PutUrgent(w, v)
    \/ \E w \in Writer : Announce(w)
    \/ \E r \in Reader : Take(r) \/ Return(r)
    \/ Reset

Spec == Init /\ [][Next]_vars
=============================================================================
