--------------------------- MODULE MCIdleHandler ----------------------------
(* Instances of IdleHandler for TLC.                                        *)
EXTENDS IdleHandler
=============================================================================
