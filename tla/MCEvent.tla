------------------------------- MODULE MCEvent -------------------------------
(***************************************************************************)
(* A small instance of module Event: two bits, and a thread that waits for *)
(* both or looks at one, one that takes either, one that takes the first.  *)
(***************************************************************************)
EXTENDS Event

CONSTANTS a, b, c, idle, null, wild, ev, isr

MCThread == {a, b, c, idle}
MCQueue == {ev}
MCBit == {0, 1}
MCInitPriority == (a :> 0 @@ b :> 1 @@ c :> 1 @@ idle :> 2)
Asks(bits, and, clear) == [set |-> bits, option |-> [and |-> and, clear |-> clear]]
MCRequest == (a :> {Asks({0, 1}, TRUE, TRUE), Asks({1}, FALSE, FALSE)}
              @@ b :> {Asks({0, 1}, FALSE, TRUE)}
              @@ c :> {Asks({0}, FALSE, TRUE)}
              @@ idle :> {})
MCTimes == {"zero", "timed", "forever"}
MCOps == {"isr_send", "reset", "detach"}
=============================================================================
