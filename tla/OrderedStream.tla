--------------------------- MODULE OrderedStream ---------------------------
(***************************************************************************)
(* What a channel's write side promises, whatever queues, batches and      *)
(* buffers it uses: messages are accepted one by one, the peer receives a  *)
(* prefix of what was accepted, and nothing more once the connection is    *)
(* down.                                                                   *)
(***************************************************************************)
EXTENDS Integers, Sequences

CONSTANT Messages

VARIABLES
  accepted,   \* messages in the order the channel took them
  delivered,  \* messages the connection has carried
  up          \* the connection carries messages

vars == <<accepted, delivered, up>>

Init == accepted = <<>> /\ delivered = <<>> /\ up = TRUE

\* The channel takes a message; it may do so on a dead connection too.
Accept ==
  /\ \E m \in Messages : accepted' = Append(accepted, m)
  /\ UNCHANGED <<delivered, up>>

\* The connection carries some messages more, and may break while it does.
Deliver ==
  /\ up
  /\ \E n \in Len(delivered) .. Len(accepted) : delivered' = SubSeq(accepted, 1, n)
  /\ up' \in BOOLEAN
  /\ UNCHANGED accepted

Next == Accept \/ Deliver

Spec == Init /\ [][Next]_vars

\* Every message taken is carried unless the connection goes down.
Carried ==
  \A m \in Messages :
    (\E i \in DOMAIN accepted : accepted[i] = m)
      ~> (~up \/ \E i \in DOMAIN delivered : delivered[i] = m)
=============================================================================
