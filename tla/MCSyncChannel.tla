--------------------------- MODULE MCSyncChannel ---------------------------
(* Instances of SyncChannel for TLC.                                        *)
EXTENDS SyncChannel

\* A peer that may stop reading, on transports that do not flush in Close, and
\* one that reads, on one that does.
MCLinks ==
  {[kind |-> "raw", peerReads |-> FALSE],
   [kind |-> "buffered", peerReads |-> FALSE],
   [kind |-> "flushing", peerReads |-> TRUE]}
=============================================================================
