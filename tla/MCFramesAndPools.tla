-------------------------- MODULE MCFramesAndPools --------------------------
(* Instances of FrameCodec and BytesPool for TLC.  They share no state, so    *)
(* that one is checked while the other is as it was in the beginning.         *)
EXTENDS FrameCodec, BytesPool

Powers == {2 ^ k : k \in 0 .. 9}

LengthField(little, width, offset, adjust, strip, max, prepend, includes) ==
  [kind |-> "lengthField", little |-> little, width |-> width, offset |-> offset,
   adjust |-> adjust, strip |-> strip, max |-> max, prepend |-> prepend, includes |-> includes]

\* LengthFieldCodec as it is made, with fields of one to eight bytes; with a
\* prepender of its own, whose length counts the field or not; and the others.
MCCodecs ==
  {LengthField(FALSE, 1, 0, 0, 1, 4, 0, FALSE),
   LengthField(FALSE, 2, 0, 0, 2, 5, 0, FALSE),
   LengthField(TRUE, 2, 1, -2, 4, 7, 0, TRUE),
   LengthField(TRUE, 4, 0, 0, 4, 6, 0, FALSE),
   LengthField(FALSE, 1, 1, 1, 0, 5, -1, FALSE),
   LengthField(FALSE, 8, 0, 0, 8, 10, 0, FALSE),
   [kind |-> "varint", max |-> 3],
   [kind |-> "delimiter", max |-> 4, delimiter |-> <<1, 1>>, strip |-> 1],
   [kind |-> "delimiter", max |-> 5, delimiter |-> <<1, 0>>, strip |-> 0],
   [kind |-> "fixed", length |-> 2]}

\* All messages of up to four bytes that are 0 or 1, and one that is a negative
\* number where it is taken for a field of eight bytes.
MCBodies == UNION {[1 .. n -> {0, 1}] : n \in 0 .. 4} \cup {<<3, 3, 3, 3>>}

-----------------------------------------------------------------------------
\* The codec makes no difference to the pools.
FramesRest == Init /\ codec.kind = "fixed"

MCInit == Init /\ PoolInit

MCNext ==
  \/ PoolInit /\ Next /\ UNCHANGED poolVars
  \/ FramesRest /\ PoolNext /\ UNCHANGED vars

MCSpec == MCInit /\ [][MCNext]_<<vars, poolVars>> /\ Fairness
=============================================================================
