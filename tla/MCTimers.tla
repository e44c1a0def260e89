------------------------------ MODULE MCTimers ------------------------------
(***************************************************************************)
(* A small instance of module Timers: one application thread below the     *)
(* timer thread, a periodic hard timer whose function starts and stops a   *)
(* one-shot one, a periodic soft timer whose function starts another.      *)
(***************************************************************************)
EXTENDS Timers, TLC

CONSTANTS timer, a, idle, isr, null, wild, h1, h2, s1, s2, none

MCThread == {timer, a, idle}
MCQueue == {}
MCInitPriority == (timer :> 0 @@ a :> 1 @@ idle :> 2)
MCTimer == {h1, h2, s1, s2}
MCSoft == {s1, s2}
MCPeriodic == {h1, s1}
MCAppTimer == (a :> {h1, s1})

None == [op |-> "none", arg |-> h1]
DoStart(x) == [op |-> "start", arg |-> x]
DoStop(x) == [op |-> "stop", arg |-> x]

MCEffects ==
    (h1 :> {None, DoStop(h1), DoStart(h2), DoStop(h2)}
     @@ h2 :> {None} @@ s1 :> {DoStop(s1), DoStart(s2)} @@ s2 :> {None})

\* for the run about a function that stops another soft timer
MCStopsNext ==
    (h1 :> {None} @@ h2 :> {None} @@ s1 :> {DoStart(s2), DoStop(s2)} @@ s2 :> {DoStop(s1)})

MCInitTick == (h1 :> 1 @@ h2 :> 2 @@ s1 :> 2 @@ s2 :> 3)
MCSetTicks == (h1 :> {} @@ h2 :> {} @@ s1 :> {1} @@ s2 :> {})
MCSetModes == {h1}
MCSleepTicks == {2}
MCTimerOps == {"stop", "detach"}
=============================================================================
