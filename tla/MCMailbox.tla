------------------------------ MODULE MCMailbox ------------------------------
(***************************************************************************)
(* A small instance of module Mailbox: two slots, two mails, one thread    *)
(* that does both, one that sends and one that receives.                   *)
(***************************************************************************)
EXTENDS Mailbox, TLC

CONSTANTS a, b, c, idle, null, wild, recv, send, m1, m2, none

MCThread == {a, b, c, idle}
MCQueue == {recv, send}
MCInitPriority == (a :> 0 @@ b :> 1 @@ c :> 1 @@ idle :> 2)
MCMail == {m1, m2}
MCSender == {a, b}
MCReceiver == {a, c}
MCTimes == {"zero", "timed", "forever"}
MCOps == {"isr_send", "reset", "detach"}
MCSymmetry == Permutations(MCMail)
=============================================================================
