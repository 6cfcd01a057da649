------------------------- MODULE MCListenersAndIdle -------------------------
(* Instances of Listeners and IdleHandler for TLC.  They share no state, so   *)
(* that one is checked while the other is as it was in the beginning.         *)
EXTENDS Listeners, IdleHandler

MCInit == Init /\ IdleInit

MCNext ==
  \/ IdleInit /\ Next /\ UNCHANGED idleVars
  \/ Init /\ IdleNext /\ UNCHANGED vars

MCSpec == MCInit /\ [][MCNext]_<<vars, idleVars>> /\ Fairness /\ IdleFairness
=============================================================================
