------------------------- MODULE SyncChannel_proofs -------------------------
(***************************************************************************)
(* Proofs about SyncChannel: types and ownership of writeLock, what the    *)
(* next owner of the lock finds, the order of what is sent, and that a     *)
(* write that reports success was sent.                                    *)
(***************************************************************************)
EXTENDS SyncChannel, SequenceTheorems, TLAPS

-----------------------------------------------------------------------------
(* Types, and the lock.                                                    *)

\* A new channel is well typed.
LEMMA InitType == Init => TypeOK
<1> SUFFICES ASSUME Init PROVE TypeOK
  OBVIOUS
<1> USE ConstantsAssumption DEF Init, Procs
<1>1. NoOwner \notin Procs /\ <<>> \in Seq(Halves)
  OBVIOUS
<1>2. pc \in [Procs -> Labels] /\ op \in [Procs -> Ops \cup {"none"}]
  BY DEF Labels
<1>3. calls \in [Procs -> 0 .. MaxCalls] /\ chunk \in [Procs -> 0 .. MaxChunks]
  OBVIOUS
<1>4. \A p \in Procs : pc[p] \in Locked <=> lock = p
  BY <1>1 DEF Locked
<1>5. QED
  BY <1>1, <1>2, <1>3, <1>4 DEF TypeOK

\* What a call hands to the transport are halves.
LEMMA ChunkType ==
  ASSUME TypeOK, NEW p \in Procs
  PROVE  /\ Chunk(p) \in Seq(Halves) /\ Len(Chunk(p)) = 2
         /\ \A c \in 0 .. MaxChunks, h \in {1, 2} : Half(p, c, h) \in Halves
<1>1. \A c \in 0 .. MaxChunks, h \in {1, 2} : Half(p, c, h) \in Halves
  BY ConstantsAssumption DEF TypeOK, Half, Halves
<1>2. Half(p, chunk[p], 1) \in Halves /\ Half(p, chunk[p], 2) \in Halves
  BY <1>1 DEF TypeOK
<1>3. QED
  BY <1>1, <1>2 DEF Chunk

\* The head and the tail of a sequence of halves.
LEMMA HeadTailType ==
  ASSUME NEW s \in Seq(Halves), s # <<>>
  PROVE  Head(s) \in Halves /\ Tail(s) \in Seq(Halves)
OBVIOUS

\* The empty sequence is one of halves.
LEMMA EmptyType == <<>> \in Seq(Halves)
OBVIOUS

\* So is one with a half appended.
LEMMA AppendType ==
  ASSUME NEW s \in Seq(Halves), NEW u \in Halves
  PROVE  Append(s, u) \in Seq(Halves)
OBVIOUS

\* Every step keeps the types, and the lock with the goroutine in the locked
\* part of a write.
LEMMA TypeStep == TypeOK /\ [Next]_vars => TypeOK'
<1> SUFFICES ASSUME TypeOK, [Next]_vars PROVE TypeOK'
  OBVIOUS
<1> USE ConstantsAssumption
    DEF TypeOK, connVars, closeVars, callVars, Goto, Procs, Labels, Locked, Closing, Ops, OpsOf,
        Errors
<1>1. ASSUME NEW p \in Procs, NEW o \in OpsOf(p), Call(p, o) PROVE TypeOK'
  <2>1. pc' \in [Procs -> Labels]
    BY <1>1 DEF Call, Entry
  <2>2. op' \in [Procs -> Ops \cup {"none"}]
    BY <1>1 DEF Call, Entry
  <2>3. calls' \in [Procs -> 0 .. MaxCalls]
    BY <1>1 DEF Call, Entry
  <2>4. chunk' \in [Procs -> 0 .. MaxChunks]
    BY <1>1 DEF Call, Entry
  <2>5. outcome' \in [Procs -> {"none", "ok", "closed", "readError"} \cup Errors]
    BY <1>1 DEF Call, Entry
  <2>6. \A q \in Procs : pc'[q] \in Locked <=> lock' = q
    BY <1>1 DEF Call, Entry
  <2>7. UNCHANGED <<connVars, closeVars, lock>>
    BY <1>1 DEF Call, Entry
  <2>8. QED
    BY <2>1, <2>2, <2>3, <2>4, <2>5, <2>6, <2>7
<1>2. ASSUME NEW p \in Procs, Lock(p) PROVE TypeOK'
  <2>1. rest' \in Seq(Halves)
    BY <1>2, ChunkType DEF Lock
  <2>2. pc' \in [Procs -> Labels] /\ lock' \in Procs \cup {NoOwner}
    BY <1>2 DEF Lock
  <2>3. \A q \in Procs : pc'[q] \in Locked <=> lock' = q
    BY <1>2 DEF Lock
  <2>4. UNCHANGED <<link, deadline, conn, buffered, bufErr, wire, closeVars, callVars, outcome>>
    BY <1>2 DEF Lock
  <2>5. QED
    BY <2>1, <2>2, <2>3, <2>4
<1>3. ASSUME NEW p \in Procs, CheckCloseErr(p) PROVE TypeOK'
  <2>1. pc' \in [Procs -> Labels]
    BY <1>3 DEF CheckCloseErr, Return
  <2>2. op' \in [Procs -> Ops \cup {"none"}]
    BY <1>3 DEF CheckCloseErr, Return
  <2>3. outcome' \in [Procs -> {"none", "ok", "closed", "readError"} \cup Errors]
    BY <1>3 DEF CheckCloseErr, Return
  <2>4. \A q \in Procs : pc'[q] \in Locked <=> lock' = q
    BY <1>3 DEF CheckCloseErr, Return
  <2>5. UNCHANGED <<connVars, closeVars, calls, chunk, lock>>
    BY <1>3 DEF CheckCloseErr, Return
  <2>6. QED
    BY <2>1, <2>2, <2>3, <2>4, <2>5
<1>4. ASSUME NEW p \in Procs, ReadChunk(p) PROVE TypeOK'
  <2>1. pc' \in [Procs -> Labels]
    BY <1>4 DEF ReadChunk
  <2>2. chunk' \in [Procs -> 0 .. MaxChunks]
    BY <1>4 DEF ReadChunk
  <2>3. outcome' \in [Procs -> {"none", "ok", "closed", "readError"} \cup Errors]
    BY <1>4 DEF ReadChunk
  <2>4. \A q \in Procs : pc'[q] \in Locked <=> lock' = q
    BY <1>4 DEF ReadChunk
  <2>5. UNCHANGED <<connVars, closeVars, op, calls, lock>>
    BY <1>4 DEF ReadChunk
  <2>6. QED
    BY <2>1, <2>2, <2>3, <2>4, <2>5
<1>5. ASSUME NEW p \in Procs, ReadEnds(p) PROVE TypeOK'
  <2>1. PICK out \in {"ok", "readError"} : Return(p, out)
    BY <1>5 DEF ReadEnds
  <2>2. pc[p] = "read" /\ UNCHANGED <<connVars, closeVars, calls, chunk, lock>>
    BY <1>5 DEF ReadEnds
  <2>3. pc' \in [Procs -> Labels] /\ op' \in [Procs -> Ops \cup {"none"}]
    BY <2>1 DEF Return
  <2>4. outcome' \in [Procs -> {"none", "ok", "closed", "readError"} \cup Errors]
    BY <2>1 DEF Return
  <2>5. \A q \in Procs : pc'[q] \in Locked <=> lock' = q
    BY <2>1, <2>2 DEF Return
  <2>6. QED
    BY <2>2, <2>3, <2>4, <2>5
<1>6. ASSUME NEW p \in Procs, SetDeadline(p) PROVE TypeOK'
  <2>1. pc' \in [Procs -> Labels] /\ deadline' \in BOOLEAN
    BY <1>6 DEF SetDeadline
  <2>2. rest' \in Seq(Halves)
    <3>1. rest' = rest \/ rest' = <<>>
      BY <1>6 DEF SetDeadline
    <3>2. QED
      BY <3>1, EmptyType
  <2>3. outcome' \in [Procs -> {"none", "ok", "closed", "readError"} \cup Errors]
    <3>1. outcome' = outcome \/ outcome' = [outcome EXCEPT ![p] = "failed"]
      BY <1>6 DEF SetDeadline
    <3>2. QED
      BY <3>1
  <2>4. \A q \in Procs : pc'[q] \in Locked <=> lock' = q
    BY <1>6 DEF SetDeadline
  <2>5. UNCHANGED <<link, conn, buffered, bufErr, wire, closeVars, callVars, lock>>
    BY <1>6 DEF SetDeadline
  <2>6. QED
    BY <2>1, <2>2, <2>3, <2>4, <2>5
<1>7. ASSUME NEW p \in Procs, HandHalf(p) PROVE TypeOK'
  <2>1. rest' \in Seq(Halves) /\ Head(rest) \in Halves
    BY <1>7, HeadTailType DEF HandHalf
  <2>2. buffered' \in Seq(Halves) /\ wire' \in Seq(Halves)
    <3>1. /\ buffered' = buffered \/ buffered' = Append(buffered, Head(rest))
          /\ wire' = wire \/ wire' = Append(wire, Head(rest))
      BY <1>7 DEF HandHalf
    <3>2. buffered \in Seq(Halves) /\ wire \in Seq(Halves)
      OBVIOUS
    <3>3. QED
      <4> HIDE DEF TypeOK
      <4> QED
        BY <2>1, <3>1, <3>2, AppendType
  <2>3. pc' \in [Procs -> Labels]
    BY <1>7 DEF HandHalf
  <2>4. \A q \in Procs : pc'[q] \in Locked <=> lock' = q
    BY <1>7 DEF HandHalf
  <2>5. UNCHANGED <<link, deadline, conn, bufErr, closeVars, callVars, lock, outcome>>
    BY <1>7 DEF HandHalf
  <2>6. QED
    BY <2>1, <2>2, <2>3, <2>4, <2>5
<1>8. ASSUME NEW p \in Procs, SendBuffered(p) PROVE TypeOK'
  <2>1. wire' = Append(wire, Head(buffered)) /\ buffered' = Tail(buffered) /\ buffered # <<>>
    BY <1>8 DEF SendBuffered
  <2>2. wire' \in Seq(Halves) /\ buffered' \in Seq(Halves)
    BY <2>1, HeadTailType, AppendType
  <2>3. UNCHANGED <<link, deadline, conn, rest, bufErr, closeVars, callVars, lock, pc, outcome>>
    BY <1>8 DEF SendBuffered
  <2>4. QED
    BY <2>1, <2>2, <2>3
<1>9. ASSUME NEW p \in Procs, Flushed(p) PROVE TypeOK'
  <2>1. pc' \in [Procs -> Labels]
    BY <1>9 DEF Flushed, Finish
  <2>2. outcome' \in [Procs -> {"none", "ok", "closed", "readError"} \cup Errors]
    BY <1>9 DEF Flushed, Finish
  <2>3. \A q \in Procs : pc'[q] \in Locked <=> lock' = q
    BY <1>9 DEF Flushed, Finish
  <2>4. UNCHANGED <<connVars, closeVars, callVars, lock>>
    BY <1>9 DEF Flushed, Finish
  <2>5. QED
    BY <2>1, <2>2, <2>3, <2>4
<1>10. ASSUME NEW p \in Procs, SendFails(p) PROVE TypeOK'
  <2>1. pc' \in [Procs -> Labels]
    BY <1>10 DEF SendFails, Fails, Finish, Sending
  <2>2. rest' = <<>>
    BY <1>10 DEF SendFails, Fails, Finish, Sending
  <2>3. rest' \in Seq(Halves)
    BY <2>2, EmptyType
  <2>4. bufErr' \in Errors \cup {"none"} /\ conn' \in {"open", "broken", "closed"}
    BY <1>10 DEF SendFails, Fails, Finish, Sending
  <2>5. outcome' \in [Procs -> {"none", "ok", "closed", "readError"} \cup Errors]
    BY <1>10 DEF SendFails, Fails, Finish, Sending
  <2>6. \A q \in Procs : pc'[q] \in Locked <=> lock' = q
    BY <1>10 DEF SendFails, Fails, Finish, Sending
  <2>7. UNCHANGED <<link, deadline, buffered, wire, closeVars, callVars, lock>>
    BY <1>10 DEF SendFails, Fails, Finish, Sending
  <2>8. QED
    BY <2>1, <2>2, <2>3, <2>4, <2>5, <2>6, <2>7
<1>11. ASSUME NEW p \in Procs, SendTimesOut(p) PROVE TypeOK'
  <2>1. pc' \in [Procs -> Labels]
    BY <1>11 DEF SendTimesOut, Fails, Finish, Sending
  <2>2. rest' = <<>>
    BY <1>11 DEF SendTimesOut, Fails, Finish, Sending
  <2>3. rest' \in Seq(Halves)
    BY <2>2, EmptyType
  <2>4. bufErr' \in Errors \cup {"none"} /\ conn' \in {"open", "broken", "closed"}
    BY <1>11 DEF SendTimesOut, Fails, Finish, Sending
  <2>5. outcome' \in [Procs -> {"none", "ok", "closed", "readError"} \cup Errors]
    BY <1>11 DEF SendTimesOut, Fails, Finish, Sending
  <2>6. \A q \in Procs : pc'[q] \in Locked <=> lock' = q
    BY <1>11 DEF SendTimesOut, Fails, Finish, Sending
  <2>7. UNCHANGED <<link, deadline, buffered, wire, closeVars, callVars, lock>>
    BY <1>11 DEF SendTimesOut, Fails, Finish, Sending
  <2>8. QED
    BY <2>1, <2>2, <2>3, <2>4, <2>5, <2>6, <2>7
<1>12. ASSUME NEW p \in Procs, StickyError(p) PROVE TypeOK'
  <2>1. pc' \in [Procs -> Labels]
    BY <1>12 DEF StickyError, Fails, Finish
  <2>2. rest' = <<>>
    BY <1>12 DEF StickyError, Fails, Finish
  <2>3. rest' \in Seq(Halves)
    BY <2>2, EmptyType
  <2>4. bufErr' \in Errors \cup {"none"} /\ conn' \in {"open", "broken", "closed"}
    BY <1>12 DEF StickyError, Fails, Finish
  <2>5. outcome' \in [Procs -> {"none", "ok", "closed", "readError"} \cup Errors]
    BY <1>12 DEF StickyError, Fails, Finish
  <2>6. \A q \in Procs : pc'[q] \in Locked <=> lock' = q
    BY <1>12 DEF StickyError, Fails, Finish
  <2>7. UNCHANGED <<link, deadline, buffered, wire, closeVars, callVars, lock>>
    BY <1>12 DEF StickyError, Fails, Finish
  <2>8. QED
    BY <2>1, <2>2, <2>3, <2>4, <2>5, <2>6, <2>7
<1>13. ASSUME NEW p \in Procs, ResetDeadline(p) PROVE TypeOK'
  <2>1. pc' \in [Procs -> Labels] /\ deadline' \in BOOLEAN
    BY <1>13 DEF ResetDeadline
  <2>2. \A q \in Procs : pc'[q] \in Locked <=> lock' = q
    BY <1>13 DEF ResetDeadline
  <2>3. UNCHANGED <<link, conn, rest, buffered, bufErr, wire, closeVars, callVars, lock, outcome>>
    BY <1>13 DEF ResetDeadline
  <2>4. QED
    BY <2>1, <2>2, <2>3
<1>14. ASSUME NEW p \in Procs, Unlock(p) PROVE TypeOK'
  <2>1. pc' \in [Procs -> Labels]
    BY <1>14 DEF Unlock, Return
  <2>2. op' \in [Procs -> Ops \cup {"none"}]
    BY <1>14 DEF Unlock, Return
  <2>3. outcome' \in [Procs -> {"none", "ok", "closed", "readError"} \cup Errors]
    BY <1>14 DEF Unlock, Return
  <2>4. lock' \in Procs \cup {NoOwner}
    BY <1>14 DEF Unlock, Return
  <2>5. \A q \in Procs : pc'[q] \in Locked <=> lock' = q
    BY <1>14, ZenonT(30) DEF Unlock, Return
  <2>6. UNCHANGED <<connVars, closeVars, calls, chunk>>
    BY <1>14 DEF Unlock, Return
  <2>7. QED
    BY <2>1, <2>2, <2>3, <2>4, <2>5, <2>6
<1>15. ASSUME NEW p \in Procs, CloseCas(p) PROVE TypeOK'
  <2>1. pc' \in [Procs -> Labels] /\ closed' \in BOOLEAN
    BY <1>15 DEF CloseCas
  <2>2. \A q \in Procs : pc'[q] \in Locked <=> lock' = q
    BY <1>15 DEF CloseCas
  <2>3. UNCHANGED <<connVars, callVars, closeErr, collided, lock, outcome>>
    BY <1>15 DEF CloseCas
  <2>4. QED
    BY <2>1, <2>2, <2>3
<1>16. ASSUME NEW p \in Procs, CloseSetErr(p) PROVE TypeOK'
  <2>1. pc' \in [Procs -> Labels] /\ closeErr' \in {"nil", "err"}
    BY <1>16 DEF CloseSetErr
  <2>2. \A q \in Procs : pc'[q] \in Locked <=> lock' = q
    BY <1>16 DEF CloseSetErr
  <2>3. UNCHANGED <<connVars, callVars, closed, collided, lock, outcome>>
    BY <1>16 DEF CloseSetErr
  <2>4. QED
    BY <2>1, <2>2, <2>3
<1>17. ASSUME NEW p \in Procs, CloseTransport(p) PROVE TypeOK'
  <2>1. pc' \in [Procs -> Labels] /\ collided' \in BOOLEAN
    BY <1>17 DEF CloseTransport
  <2>2. \A q \in Procs : pc'[q] \in Locked <=> lock' = q
    BY <1>17 DEF CloseTransport
  <2>3. UNCHANGED <<connVars, callVars, closed, closeErr, lock, outcome>>
    BY <1>17 DEF CloseTransport
  <2>4. QED
    BY <2>1, <2>2, <2>3
<1>18. ASSUME NEW p \in Procs, CloseFlushEnds(p) PROVE TypeOK'
  <2>1. buffered' = buffered \/ buffered' = <<>>
    BY <1>18 DEF CloseFlushEnds
  <2>2. buffered' \in Seq(Halves)
    BY <2>1, EmptyType
  <2>3. bufErr' \in Errors \cup {"none"}
    BY <1>18 DEF CloseFlushEnds
  <2>4. pc' \in [Procs -> Labels] /\ \A q \in Procs : pc'[q] \in Locked <=> lock' = q
    BY <1>18 DEF CloseFlushEnds
  <2>5. UNCHANGED <<link, deadline, conn, rest, wire, callVars, closeVars, lock, outcome>>
    BY <1>18 DEF CloseFlushEnds
  <2>6. QED
    BY <2>2, <2>3, <2>4, <2>5
<1>19. ASSUME NEW p \in Procs, CloseConn(p) PROVE TypeOK'
  <2>1. pc' \in [Procs -> Labels] /\ conn' \in {"open", "broken", "closed"}
    BY <1>19 DEF CloseConn
  <2>2. \A q \in Procs : pc'[q] \in Locked <=> lock' = q
    BY <1>19 DEF CloseConn
  <2>3. UNCHANGED <<link, deadline, rest, buffered, bufErr, wire, closeVars, callVars, lock, outcome>>
    BY <1>19 DEF CloseConn
  <2>4. QED
    BY <2>1, <2>2, <2>3
<1>20. ASSUME UNCHANGED vars PROVE TypeOK'
  BY <1>20 DEF vars
<1>21. QED
  <2> HIDE DEF TypeOK, OpsOf
  <2> QED
    BY <1>1, <1>2, <1>3, <1>4, <1>5, <1>6, <1>7, <1>8, <1>9, <1>10, <1>11, <1>12, <1>13,
       <1>14, <1>15, <1>16, <1>17, <1>18, <1>19, <1>20
    DEF Next, OwnStep, PeerStep, Done

\* Every variable keeps its type, and writeLock belongs to the goroutine that is
\* in the locked part of a write and to nobody else (channel.go, writeLock).
THEOREM TypeInvariant == Spec => []TypeOK
<1>1. TypeOK /\ [Next]_vars => TypeOK'
  BY TypeStep
<1>2. QED
  BY InitType, <1>1, PTL DEF Spec

-----------------------------------------------------------------------------
(* What the next owner of the lock finds.                                  *)

\* What a free lock promises, carried through the locked part of a write.
CleanInv ==
  /\ FreeIsClean
  /\ ~Buffering => buffered = <<>> /\ bufErr = "none"
  /\ \A p \in Procs :
       /\ pc[p] \in {"deadline", "reset", "unlock"} => (bufErr = "none" => buffered = <<>>)
       /\ pc[p] \in {"flush", "reset", "unlock"} => rest = <<>>
       /\ pc[p] \in {"deadline", "unlock"} => ~deadline
       /\ pc[p] = "closeFlush" => link.kind = "flushing" /\ collided

\* A new transport is clean.
LEMMA InitClean == Init => CleanInv
BY ConstantsAssumption DEF Init, CleanInv, FreeIsClean, Procs

\* The owner of the lock is in the locked part of its write; the others are not.
LEMMA LockFacts ==
  ASSUME TypeOK
  PROVE  /\ pc \in [Procs -> Labels] /\ rest \in Seq(Halves)
         /\ \A p \in Procs : pc[p] \in Locked <=> lock = p
         /\ NoOwner \notin Procs
BY ConstantsAssumption DEF TypeOK, Procs

\* Every step keeps it.
LEMMA CleanStep == TypeOK /\ CleanInv /\ [Next]_vars => CleanInv'
<1> SUFFICES ASSUME TypeOK, CleanInv, [Next]_vars PROVE CleanInv'
  OBVIOUS
<1> USE LockFacts
    DEF CleanInv, FreeIsClean, Buffering, connVars, closeVars, callVars, Goto, Locked, Labels
<1>1. ASSUME NEW p \in Procs, NEW o \in OpsOf(p), Call(p, o) PROVE CleanInv'
  BY <1>1 DEF Call, Entry, OpsOf, Ops
<1>2. ASSUME NEW p \in Procs, Lock(p) PROVE CleanInv'
  BY <1>2 DEF Lock
<1>3. ASSUME NEW p \in Procs, CheckCloseErr(p) PROVE CleanInv'
  BY <1>3 DEF CheckCloseErr, Return
<1>4. ASSUME NEW p \in Procs, ReadChunk(p) PROVE CleanInv'
  BY <1>4 DEF ReadChunk
<1>5. ASSUME NEW p \in Procs, ReadEnds(p) PROVE CleanInv'
  BY <1>5 DEF ReadEnds, Return
<1>6. ASSUME NEW p \in Procs, SetDeadline(p) PROVE CleanInv'
  BY <1>6 DEF SetDeadline
<1>7. ASSUME NEW p \in Procs, HandHalf(p) PROVE CleanInv'
  <2>1. pc[p] = "write" /\ pc' = [pc EXCEPT ![p] = IF Len(rest) = 1 THEN "flush" ELSE "write"]
    BY <1>7 DEF HandHalf
  <2>2. Len(rest) = 1 => rest' = <<>>
    BY <1>7 DEF HandHalf
  <2>3. ~Buffering => buffered' = <<>> /\ bufErr' = "none"
    BY <1>7 DEF HandHalf
  <2>4. UNCHANGED <<link, deadline, bufErr, collided, lock>>
    BY <1>7 DEF HandHalf
  <2>5. QED
    BY <2>1, <2>2, <2>3, <2>4
<1>8. ASSUME NEW p \in Procs, SendBuffered(p) PROVE CleanInv'
  BY <1>8 DEF SendBuffered
<1>9. ASSUME NEW p \in Procs, Flushed(p) PROVE CleanInv'
  BY <1>9 DEF Flushed, Finish
<1>10. ASSUME NEW p \in Procs, SendFails(p) PROVE CleanInv'
  BY <1>10 DEF SendFails, Fails, Finish, Sending
<1>11. ASSUME NEW p \in Procs, SendTimesOut(p) PROVE CleanInv'
  BY <1>11 DEF SendTimesOut, Fails, Finish, Sending
<1>12. ASSUME NEW p \in Procs, StickyError(p) PROVE CleanInv'
  BY <1>12 DEF StickyError, Fails, Finish
<1>13. ASSUME NEW p \in Procs, ResetDeadline(p) PROVE CleanInv'
  BY <1>13 DEF ResetDeadline
<1>14. ASSUME NEW p \in Procs, Unlock(p) PROVE CleanInv'
  BY <1>14 DEF Unlock, Return
<1>15. ASSUME NEW p \in Procs, CloseCas(p) PROVE CleanInv'
  BY <1>15 DEF CloseCas
<1>16. ASSUME NEW p \in Procs, CloseSetErr(p) PROVE CleanInv'
  BY <1>16 DEF CloseSetErr
<1>17. ASSUME NEW p \in Procs, CloseTransport(p) PROVE CleanInv'
  BY <1>17 DEF CloseTransport
<1>18. ASSUME NEW p \in Procs, CloseFlushEnds(p) PROVE CleanInv'
  BY <1>18 DEF CloseFlushEnds, Errors
<1>19. ASSUME NEW p \in Procs, CloseConn(p) PROVE CleanInv'
  BY <1>19 DEF CloseConn
<1>20. ASSUME UNCHANGED vars PROVE CleanInv'
  BY <1>20 DEF vars
<1>21. QED
  <2> HIDE DEF CleanInv
  <2> QED
    BY <1>1, <1>2, <1>3, <1>4, <1>5, <1>6, <1>7, <1>8, <1>9, <1>10, <1>11, <1>12, <1>13,
       <1>14, <1>15, <1>16, <1>17, <1>18, <1>19, <1>20
    DEF Next, OwnStep, PeerStep, Done

\* Whoever gets the lock finds no deadline and no byte of an earlier write
\* (channel.go, CtxWrite1, "reset write deadline", and Flush under the lock).
THEOREM FreeIsCleanHolds == Spec => []FreeIsClean
<1>1. Init => TypeOK /\ CleanInv
  BY InitType, InitClean
<1>2. TypeOK /\ CleanInv /\ [Next]_vars => TypeOK' /\ CleanInv'
  BY TypeStep, CleanStep
<1>3. CleanInv => FreeIsClean
  BY DEF CleanInv
<1>4. QED
  BY <1>1, <1>2, <1>3, PTL DEF Spec

-----------------------------------------------------------------------------
(* What is sent.  On its way from a write through the buffer to the wire    *)
(* a half keeps its place in Flow.                                          *)

\* What the peer has got and, unless the transport failed, will get.
Flow == IF bufErr = "none" THEN wire \o buffered \o rest ELSE wire

\* What StreamOrder says of the wire, of any sequence of halves.
Ordered(s) ==
  /\ \A i, j \in DOMAIN s : i < j /\ s[i].by = s[j].by => Before(s[i], s[j])
  /\ \A i \in DOMAIN s : s[i].half = 2 => i > 1 /\ s[i - 1] = [s[i] EXCEPT !.half = 1]
  /\ \A i \in DOMAIN s : Buffering /\ s[i].half = 1 =>
       i = Len(s) \/ (i + 1 \in DOMAIN s /\ s[i + 1] = [s[i] EXCEPT !.half = 2])

Whole(s) == s = <<>> \/ s[Len(s)].half = 2

\* u is of p's present chunk or an earlier one, or of an earlier one.
Upto(p, u) == u.call < calls[p] \/ (u.call = calls[p] /\ u.chunk <= chunk[p])
Earlier(p, u) == u.call < calls[p] \/ (u.call = calls[p] /\ u.chunk < chunk[p])

InFlow(u) == \E i \in DOMAIN Flow : Flow[i] = u

OrderInv ==
  /\ Ordered(Flow)
  /\ Buffering /\ bufErr = "none" =>
       Whole(Flow) /\ \A p \in Procs : pc[p] = "deadline" => Whole(wire)

\* What p is about to send comes after all it has sent; if it was refused, it
\* has not sent it.
FreshInv ==
  \A p \in Procs :
    /\ \A u \in Halves : InFlow(u) /\ u.by = p => Upto(p, u)
    /\ pc[p] \in {"enter", "check", "lock"} \/ outcome[p] = "closed" =>
         \A u \in Halves : InFlow(u) /\ u.by = p => Earlier(p, u)
    /\ outcome[p] = "closed" => pc[p] \in {"idle", "closeCas"} \cup Closing

\* What p has sent when it reports success.
Of(p, u) == u.by = p /\ u.call = calls[p] /\ u.chunk >= 1

SentInv ==
  \A p \in Procs :
    /\ pc[p] = "enter" => chunk[p] = 0
    /\ pc[p] \in {"deadline", "write", "flush"} /\ bufErr = "none" =>
         \A u \in Halves : Of(p, u) /\ u.chunk = chunk[p] => InFlow(u)
    /\ pc[p] \in {"check", "lock", "deadline", "write", "flush"} =>
         \A u \in Halves : Of(p, u) /\ u.chunk < chunk[p] => Sent(u)
    /\ pc[p] = "read" \/ outcome[p] = "ok" =>
         \A u \in Halves : Of(p, u) /\ u.chunk <= chunk[p] => Sent(u)

FlowInv == ~collided => OrderInv /\ FreshInv /\ SentInv

\* A half goes from the front of one sequence to the end of the one before it.
LEMMA MoveHead ==
  ASSUME NEW s \in Seq(Halves), NEW t \in Seq(Halves), t # <<>>
  PROVE  Append(s, Head(t)) \o Tail(t) = s \o t
<1>1. Head(t) \in Halves /\ Tail(t) \in Seq(Halves)
  BY HeadTailType
<1>2. <<Head(t)>> \in Seq(Halves)
  BY <1>1
<1>3. t = <<Head(t)>> \o Tail(t)
  BY <1>1
<1>4. Append(s, Head(t)) = s \o <<Head(t)>>
  BY <1>1, AppendIsConcat
<1>5. (s \o <<Head(t)>>) \o Tail(t) = s \o (<<Head(t)>> \o Tail(t))
  BY <1>1, <1>2, ConcatAssociative
<1>6. QED
  BY <1>3, <1>4, <1>5

\* What has been sent is the front of Flow.
LEMMA FlowType ==
  ASSUME TypeOK
  PROVE  /\ Flow \in Seq(Halves) /\ wire \in Seq(Halves) /\ Len(wire) <= Len(Flow)
         /\ \A i \in 1 .. Len(wire) : Flow[i] = wire[i]
         /\ \A u : Sent(u) => InFlow(u)
<1>1. wire \in Seq(Halves) /\ buffered \in Seq(Halves) /\ rest \in Seq(Halves)
  BY DEF TypeOK
<1>2. wire \o buffered \in Seq(Halves) /\ Len(wire) <= Len(wire \o buffered)
  BY <1>1, ConcatProperties
<1>3. \A i \in 1 .. Len(wire) : (wire \o buffered)[i] = wire[i]
  BY <1>1, ConcatProperties
<1>4. /\ (wire \o buffered) \o rest \in Seq(Halves)
      /\ Len(wire \o buffered) <= Len((wire \o buffered) \o rest)
      /\ \A i \in 1 .. Len(wire \o buffered) :
           ((wire \o buffered) \o rest)[i] = (wire \o buffered)[i]
  BY <1>1, <1>2, ConcatProperties
<1>5. /\ Flow \in Seq(Halves) /\ Len(wire) <= Len(Flow)
      /\ \A i \in 1 .. Len(wire) : Flow[i] = wire[i]
  BY <1>1, <1>2, <1>3, <1>4 DEF Flow
<1>6. ASSUME NEW u, Sent(u) PROVE InFlow(u)
  <2>1. PICK i \in 1 .. Len(wire) : wire[i] = u
    BY <1>1, <1>6 DEF Sent
  <2>2. i \in DOMAIN Flow /\ Flow[i] = u
    BY <1>1, <1>5, <2>1
  <2>3. QED
    BY <2>2 DEF InFlow
<1>7. QED
  BY <1>1, <1>5, <1>6

\* A step that moves nothing.
LEMMA Still ==
  ASSUME UNCHANGED <<wire, buffered, rest, bufErr>>
  PROVE  Flow' = Flow /\ \A u : (InFlow(u)' <=> InFlow(u)) /\ (Sent(u)' <=> Sent(u))
BY DEF Flow, InFlow, Sent

\* A step that appends to the wire unsends nothing.
LEMMA SentGrows ==
  ASSUME TypeOK, NEW v \in Halves, wire' = Append(wire, v), NEW u, Sent(u)
  PROVE  Sent(u)'
<1>1. wire \in Seq(Halves)
  BY DEF TypeOK
<1>2. PICK i \in DOMAIN wire : wire[i] = u
  BY DEF Sent
<1>3. i \in DOMAIN wire' /\ wire'[i] = u
  BY <1>1, <1>2
<1>4. QED
  BY <1>3 DEF Sent

\* The steps that move a half.
LEMMA Moves ==
  ASSUME TypeOK, CleanInv, NEW p \in Procs, HandHalf(p) \/ SendBuffered(p)
  PROVE  /\ Flow' = Flow
         /\ \A u : (InFlow(u)' <=> InFlow(u)) /\ (Sent(u) => Sent(u)')
<1> USE DEF connVars
<1>1. wire \in Seq(Halves) /\ buffered \in Seq(Halves) /\ rest \in Seq(Halves)
  BY DEF TypeOK
<1>2. CASE HandHalf(p) /\ Buffering
  <2>1. rest # <<>> /\ bufErr = "none" /\ bufErr' = "none" /\ wire' = wire
    BY <1>2 DEF HandHalf
  <2>2. buffered' = Append(buffered, Head(rest)) /\ rest' = Tail(rest)
    BY <1>2 DEF HandHalf
  <2>3. buffered' \o rest' = buffered \o rest
    BY <1>1, <2>1, <2>2, MoveHead
  <2>4. buffered' \in Seq(Halves) /\ rest' \in Seq(Halves)
    BY <1>1, <2>1, <2>2, HeadTailType, AppendType
  <2>5. (wire \o buffered) \o rest = wire \o (buffered \o rest)
    BY <1>1, ConcatAssociative
  <2>6. (wire \o buffered') \o rest' = wire \o (buffered' \o rest')
    BY <1>1, <2>4, ConcatAssociative, SMTT(20)
  <2>7. Flow' = Flow
    BY <2>1, <2>3, <2>5, <2>6 DEF Flow
  <2>8. QED
    BY <2>1, <2>7 DEF InFlow, Sent
<1>3. CASE HandHalf(p) /\ ~Buffering
  <2>1. rest # <<>> /\ bufErr = "none" /\ bufErr' = "none"
    BY <1>3 DEF HandHalf, CleanInv
  <2>2. wire' = Append(wire, Head(rest)) /\ rest' = Tail(rest)
    BY <1>3 DEF HandHalf
  <2>3. buffered = <<>> /\ buffered' = <<>>
    BY <1>3 DEF HandHalf, CleanInv
  <2>4. wire' \o rest' = wire \o rest
    BY <1>1, <2>1, <2>2, MoveHead
  <2>5. wire' \in Seq(Halves) /\ Head(rest) \in Halves
    BY <1>1, <2>1, <2>2, HeadTailType, AppendType
  <2>6. wire \o buffered = wire /\ wire' \o buffered' = wire'
    BY <1>1, <2>3, <2>5, ConcatEmptySeq
  <2>7. Flow' = Flow
    BY <2>1, <2>4, <2>6 DEF Flow
  <2>8. QED
    BY <2>2, <2>5, <2>7, SentGrows DEF InFlow
<1>4. CASE SendBuffered(p)
  <2>1. bufErr = "none" /\ bufErr' = "none" /\ rest' = rest /\ buffered # <<>>
    BY <1>4 DEF SendBuffered
  <2>2. wire' = Append(wire, Head(buffered)) /\ buffered' = Tail(buffered)
    BY <1>4 DEF SendBuffered
  <2>3. wire' \o buffered' = wire \o buffered
    BY <1>1, <2>1, <2>2, MoveHead
  <2>4. Flow' = Flow
    BY <2>1, <2>3 DEF Flow
  <2>5. Head(buffered) \in Halves
    BY <1>1, <2>1, HeadTailType
  <2>6. QED
    BY <2>2, <2>4, <2>5, SentGrows DEF InFlow
<1>5. QED
  BY <1>2, <1>3, <1>4

\* A call that ends early forgets what it has not sent.
LEMMA Drops ==
  ASSUME TypeOK, UNCHANGED <<wire, buffered>>, rest' = <<>>,
         bufErr' # "none" \/ buffered = <<>>
  PROVE  /\ Flow' = wire
         /\ \A u : (InFlow(u)' <=> Sent(u)) /\ (Sent(u)' <=> Sent(u))
<1>1. wire \in Seq(Halves)
  BY DEF TypeOK
<1>2. wire \o <<>> = wire
  BY <1>1, ConcatEmptySeq
<1>3. Flow' = wire
  BY <1>2 DEF Flow
<1>4. QED
  BY <1>3 DEF InFlow, Sent

\* The lock is taken when everything before has been sent, or the buffer has
\* failed for good.
LEMMA Takes ==
  ASSUME TypeOK, CleanInv, NEW p \in Procs, Lock(p)
  PROVE  /\ Flow = wire
         /\ Flow' = IF bufErr = "none" THEN wire \o Chunk(p) ELSE wire
         /\ \A u : 
              InFlow(u)' => \/ InFlow(u)
                            \/ u.by = p /\ \E h \in {1, 2} : u = Half(p, chunk[p], h)
         /\ bufErr = "none" =>
              \A u \in Halves : Of(p, u) /\ u.chunk = chunk[p] => InFlow(u)'
         /\ \A u : Sent(u)' <=> Sent(u)
<1>1. wire \in Seq(Halves)
  BY DEF TypeOK
<1>2. wire \o <<>> = wire
  BY <1>1, ConcatEmptySeq
<1>3. rest = <<>> /\ (bufErr = "none" => buffered = <<>>)
  BY DEF Lock, CleanInv, FreeIsClean
<1>4. UNCHANGED <<wire, buffered, bufErr>> /\ rest' = Chunk(p)
  BY DEF Lock
<1>5. Flow = wire /\ Flow' = IF bufErr = "none" THEN wire \o Chunk(p) ELSE wire
  BY <1>2, <1>3, <1>4 DEF Flow
<1>6. \A u : (Sent(u)' <=> Sent(u)) /\ (InFlow(u) <=> Sent(u))
  BY <1>4, <1>5 DEF Sent, InFlow
<1>7. CASE bufErr = "none"
  <2>1. Chunk(p) \in Seq(Halves) /\ Len(Chunk(p)) = 2
    BY ChunkType
  <2> DEFINE W == wire \o Chunk(p)
  <2>v. /\ W \in Seq(Halves) /\ Len(W) = Len(wire) + Len(Chunk(p))
        /\ \A i \in 1 .. Len(wire) + Len(Chunk(p)) :
             W[i] = IF i <= Len(wire) THEN wire[i] ELSE Chunk(p)[i - Len(wire)]
    BY <1>1, <2>1, ConcatProperties
  <2>w. /\ W \in Seq(Halves) /\ Len(W) = Len(wire) + 2
        /\ \A i \in 1 .. Len(wire) + 2 :
             W[i] = IF i <= Len(wire) THEN wire[i] ELSE Chunk(p)[i - Len(wire)]
    BY <2>1, <2>v
  <2>2. /\ Flow' \in Seq(Halves) /\ Len(Flow') = Len(wire) + 2
        /\ \A i \in 1 .. Len(wire) + 2 :
             Flow'[i] = IF i <= Len(wire) THEN wire[i] ELSE Chunk(p)[i - Len(wire)]
    BY <1>5, <1>7, <2>w
  <2>3. Chunk(p)[1] = Half(p, chunk[p], 1) /\ Chunk(p)[2] = Half(p, chunk[p], 2)
    BY DEF Chunk
  <2>4. ASSUME NEW u, InFlow(u)', ~InFlow(u)
        PROVE  u = Half(p, chunk[p], 1) \/ u = Half(p, chunk[p], 2)
    <3>1. PICK i \in DOMAIN Flow' : Flow'[i] = u
      BY <2>4 DEF InFlow
    <3>2. i \in 1 .. Len(wire) + 2 /\ ~(i <= Len(wire))
      BY <1>1, <1>5, <2>2, <2>4, <3>1 DEF InFlow
    <3>3. i - Len(wire) = 1 \/ i - Len(wire) = 2
      BY <1>1, <3>2
    <3>4. QED
      BY <2>2, <2>3, <3>1, <3>2, <3>3
  <2>5. \A h \in {1, 2} : Half(p, chunk[p], h).by = p
    BY DEF Half
  <2>6. ASSUME NEW u \in Halves, Of(p, u), u.chunk = chunk[p] PROVE InFlow(u)'
    <3>1. u.half \in {1, 2} /\ u = Half(p, chunk[p], u.half)
      BY <2>6 DEF Of, Half, Halves
    <3>2. Len(wire) + u.half \in DOMAIN Flow' /\ Flow'[Len(wire) + u.half] = Chunk(p)[u.half]
      BY <1>1, <2>2, <3>1
    <3>3. Flow'[Len(wire) + u.half] = u
      BY <2>3, <3>1, <3>2
    <3>4. QED
      BY <3>2, <3>3 DEF InFlow
  <2>7. ASSUME NEW u, InFlow(u)', ~InFlow(u)
        PROVE  u.by = p /\ \E h \in {1, 2} : u = Half(p, chunk[p], h)
    BY <2>4, <2>5, <2>7
  <2>8. QED
    BY <1>5, <1>6, <2>6, <2>7
<1>8. CASE bufErr # "none"
  <2>1. \A u : InFlow(u)' <=> InFlow(u)
    BY <1>5, <1>8 DEF InFlow
  <2>2. QED
    BY <1>5, <1>6, <1>8, <2>1
<1>9. QED
  BY <1>7, <1>8

\* The order of Flow is kept by a step that moves nothing out of its place.
LEMMA OrderedKept ==
  ASSUME link' = link, Flow' = Flow, Ordered(Flow)
  PROVE  Ordered(Flow)'
BY DEF Ordered, Buffering

\* What has been sent is in order if Flow is;
LEMMA OrderedFront ==
  ASSUME TypeOK, Ordered(Flow)
  PROVE  Ordered(wire)
<1> DEFINE W == wire
<1>1. /\ Flow \in Seq(Halves) /\ W \in Seq(Halves) /\ Len(W) <= Len(Flow)
      /\ \A i \in 1 .. Len(W) : Flow[i] = W[i]
  BY FlowType
<1> HIDE DEF W
<1>2. \A i, j \in DOMAIN W : i < j /\ W[i].by = W[j].by => Before(W[i], W[j])
  BY <1>1 DEF Ordered
<1>3. \A i \in DOMAIN W : W[i].half = 2 => i > 1 /\ W[i - 1] = [W[i] EXCEPT !.half = 1]
  <2> SUFFICES ASSUME NEW i \in DOMAIN W, W[i].half = 2
               PROVE  i > 1 /\ W[i - 1] = [W[i] EXCEPT !.half = 1]
    OBVIOUS
  <2>1. i \in DOMAIN Flow /\ Flow[i] = W[i]
    BY <1>1
  <2>2. i > 1 /\ Flow[i - 1] = [W[i] EXCEPT !.half = 1]
    BY <2>1 DEF Ordered
  <2>3. QED
    BY <1>1, <2>2
<1>4. \A i \in DOMAIN W : Buffering /\ W[i].half = 1 =>
        i = Len(W) \/ (i + 1 \in DOMAIN W /\ W[i + 1] = [W[i] EXCEPT !.half = 2])
  <2> SUFFICES ASSUME NEW i \in DOMAIN W, Buffering, W[i].half = 1, i # Len(W)
               PROVE  i + 1 \in DOMAIN W /\ W[i + 1] = [W[i] EXCEPT !.half = 2]
    OBVIOUS
  <2>1. i \in DOMAIN Flow /\ Flow[i] = W[i] /\ i + 1 \in 1 .. Len(W) /\ i # Len(Flow)
    BY <1>1
  <2>2. Flow[i + 1] = [W[i] EXCEPT !.half = 2]
    BY <2>1 DEF Ordered
  <2>3. QED
    BY <1>1, <2>1, <2>2
<1>5. QED
  BY <1>2, <1>3, <1>4 DEF Ordered, W

\* so its order is kept by a step that forgets what was not sent,
LEMMA OrderedDropped ==
  ASSUME TypeOK, link' = link, Flow' = wire, Ordered(Flow)
  PROVE  Ordered(Flow)'
BY OrderedFront DEF Ordered, Buffering

\* and by one that puts a new chunk at its end.
LEMMA OrderedTaken ==
  ASSUME TypeOK, NEW p \in Procs, Ordered(wire), Buffering => Whole(wire),
         \A u \in Halves : Sent(u) /\ u.by = p => Earlier(p, u)
  PROVE  Ordered(wire \o Chunk(p)) /\ Whole(wire \o Chunk(p))
<1> DEFINE C == Chunk(p)
           W == wire \o Chunk(p)
           n == Len(wire)
<1>1. wire \in Seq(Halves) /\ n \in Nat
  BY DEF TypeOK
<1>2. C \in Seq(Halves) /\ Len(C) = 2 /\ C[1] = Half(p, chunk[p], 1) /\ C[2] = Half(p, chunk[p], 2)
  BY ChunkType DEF Chunk
<1>3. /\ W \in Seq(Halves) /\ Len(W) = n + Len(C)
      /\ \A i \in 1 .. n + Len(C) : W[i] = IF i <= n THEN wire[i] ELSE C[i - n]
  BY <1>1, <1>2, ConcatProperties
<1>4. Len(W) = n + 2 /\ DOMAIN W = 1 .. n + 2 /\ DOMAIN wire = 1 .. n
  BY <1>1, <1>2, <1>3
<1>5. \A i \in 1 .. n : W[i] = wire[i] /\ wire[i] \in Halves
  BY <1>1, <1>2, <1>3
<1>6. W[n + 1] = Half(p, chunk[p], 1) /\ W[n + 2] = Half(p, chunk[p], 2)
  <2>1. n + 1 \in 1 .. n + Len(C) /\ n + 2 \in 1 .. n + Len(C) /\ (n + 1) - n = 1 /\ (n + 2) - n = 2
    BY <1>1, <1>2
  <2>2. W[n + 1] = C[1] /\ W[n + 2] = C[2]
    BY <1>1, <1>3, <2>1
  <2>3. QED
    BY <1>2, <2>2
<1>7. \A h \in {1, 2} : /\ Half(p, chunk[p], h).by = p /\ Half(p, chunk[p], h).call = calls[p]
                        /\ Half(p, chunk[p], h).chunk = chunk[p] /\ Half(p, chunk[p], h).half = h
  BY DEF Half
<1>8. calls[p] \in Nat /\ chunk[p] \in Nat /\ \A u \in Halves : u.call \in Nat /\ u.chunk \in Nat
  BY DEF TypeOK, Halves, Procs
<1>9. \A i \in 1 .. n : wire[i].by = p => Earlier(p, wire[i])
  BY <1>4, <1>5 DEF Sent
<1> HIDE DEF C, W, n
<1>10. ASSUME NEW i \in DOMAIN W, NEW j \in DOMAIN W, i < j, W[i].by = W[j].by
       PROVE  Before(W[i], W[j])
  <2>1. CASE j <= n
    <3>1. i \in 1 .. n /\ j \in 1 .. n
      BY <1>1, <1>4, <1>10, <2>1
    <3>2. QED
      BY <1>4, <1>5, <1>10, <3>1 DEF Ordered
  <2>2. CASE i <= n /\ j > n
    <3>1. i \in 1 .. n /\ j \in {n + 1, n + 2}
      BY <1>1, <1>4, <1>10, <2>2
    <3>2. W[j].by = p /\ W[j].call = calls[p] /\ W[j].chunk = chunk[p]
      BY <1>6, <1>7, <3>1
    <3>3. Earlier(p, W[i])
      BY <1>5, <1>9, <1>10, <3>1, <3>2
    <3>4. QED
      BY <3>2, <3>3 DEF Earlier, Before
  <2>3. CASE i > n
    <3>1. i = n + 1 /\ j = n + 2
      BY <1>1, <1>4, <1>10, <2>3
    <3>2. W[i].half = 1 /\ W[j].half = 2 /\ W[i].call = W[j].call /\ W[i].chunk = W[j].chunk
      BY <1>6, <1>7, <3>1
    <3>3. QED
      BY <3>2 DEF Before
  <2>4. QED
    BY <1>1, <1>4, <1>10, <2>1, <2>2, <2>3
<1>11. ASSUME NEW i \in DOMAIN W, W[i].half = 2
       PROVE  i > 1 /\ W[i - 1] = [W[i] EXCEPT !.half = 1]
  <2>1. CASE i <= n
    <3>1. i \in 1 .. n /\ W[i] = wire[i]
      BY <1>1, <1>4, <1>5, <2>1
    <3>2. i > 1 /\ wire[i - 1] = [wire[i] EXCEPT !.half = 1]
      BY <1>4, <1>11, <3>1 DEF Ordered
    <3>3. i - 1 \in 1 .. n
      BY <1>1, <3>1, <3>2
    <3>4. QED
      BY <1>5, <3>1, <3>2, <3>3
  <2>2. CASE i = n + 1
    BY <1>6, <1>7, <1>11, <2>2
  <2>3. CASE i = n + 2
    <3>1. i > 1 /\ i - 1 = n + 1
      BY <1>1, <2>3
    <3>2. [Half(p, chunk[p], 2) EXCEPT !.half = 1] = Half(p, chunk[p], 1)
      BY DEF Half
    <3>3. QED
      BY <1>6, <2>3, <3>1, <3>2
  <2>4. QED
    BY <1>1, <1>4, <2>1, <2>2, <2>3
<1>12. ASSUME NEW i \in DOMAIN W, Buffering, W[i].half = 1, i # Len(W)
       PROVE  i + 1 \in DOMAIN W /\ W[i + 1] = [W[i] EXCEPT !.half = 2]
  <2>1. CASE i < n
    <3>1. i \in 1 .. n /\ i + 1 \in 1 .. n /\ W[i] = wire[i] /\ W[i + 1] = wire[i + 1]
      BY <1>1, <1>4, <1>5, <2>1
    <3>2. wire[i + 1] = [wire[i] EXCEPT !.half = 2]
      <4>1. i \in DOMAIN wire /\ wire[i].half = 1 /\ i # Len(wire)
        BY <1>1, <1>4, <1>12, <2>1, <3>1 DEF n
      <4>2. QED
        BY <1>12, <4>1 DEF Ordered
    <3>3. i + 1 \in DOMAIN W
      BY <1>1, <1>4, <3>1
    <3>4. QED
      BY <3>1, <3>2, <3>3
  <2>2. CASE i = n
    <3>1. i \in 1 .. n /\ W[i] = wire[n]
      BY <1>1, <1>4, <1>5, <2>2
    <3>2. wire # <<>> /\ wire[n].half = 2
      BY <1>1, <1>12, <3>1 DEF Whole, n
    <3>3. QED
      BY <1>12, <3>1, <3>2
  <2>3. CASE i = n + 1
    <3>1. i + 1 = n + 2 /\ i + 1 \in DOMAIN W
      BY <1>1, <1>4, <2>3
    <3>2. [Half(p, chunk[p], 1) EXCEPT !.half = 2] = Half(p, chunk[p], 2)
      BY DEF Half
    <3>3. QED
      BY <1>6, <2>3, <3>1, <3>2
  <2>4. i \in 1 .. n + 2 /\ i # n + 2
    BY <1>4, <1>12
  <2>5. QED
    BY <1>1, <2>1, <2>2, <2>3, <2>4
<1>13. Whole(W)
  BY <1>1, <1>4, <1>6, <1>7 DEF Whole
<1>14. Ordered(W)
  BY <1>10, <1>11, <1>12 DEF Ordered
<1>15. QED
  BY <1>13, <1>14 DEF W

\* A collision is never forgotten.
LEMMA CollidedStays == [Next]_vars /\ ~collided' => ~collided
<1> SUFFICES ASSUME [Next]_vars, ~collided' PROVE ~collided
  OBVIOUS
<1> USE DEF closeVars
<1>1. ASSUME NEW p \in Procs, NEW o \in OpsOf(p), Call(p, o) PROVE ~collided
  BY <1>1 DEF Call
<1>2. ASSUME NEW p \in Procs, Lock(p) PROVE ~collided
  BY <1>2 DEF Lock
<1>3. ASSUME NEW p \in Procs, CheckCloseErr(p) PROVE ~collided
  BY <1>3 DEF CheckCloseErr, Return
<1>4. ASSUME NEW p \in Procs, ReadChunk(p) PROVE ~collided
  BY <1>4 DEF ReadChunk
<1>5. ASSUME NEW p \in Procs, ReadEnds(p) PROVE ~collided
  BY <1>5 DEF ReadEnds, Return
<1>6. ASSUME NEW p \in Procs, SetDeadline(p) PROVE ~collided
  BY <1>6 DEF SetDeadline
<1>7. ASSUME NEW p \in Procs, HandHalf(p) PROVE ~collided
  BY <1>7 DEF HandHalf
<1>8. ASSUME NEW p \in Procs, SendBuffered(p) PROVE ~collided
  BY <1>8 DEF SendBuffered
<1>9. ASSUME NEW p \in Procs, Flushed(p) PROVE ~collided
  BY <1>9 DEF Flushed, Finish
<1>10. ASSUME NEW p \in Procs, SendFails(p) PROVE ~collided
  BY <1>10 DEF SendFails, Fails, Finish, Sending
<1>11. ASSUME NEW p \in Procs, SendTimesOut(p) PROVE ~collided
  BY <1>11 DEF SendTimesOut, Fails, Finish, Sending
<1>12. ASSUME NEW p \in Procs, StickyError(p) PROVE ~collided
  BY <1>12 DEF StickyError, Fails, Finish
<1>13. ASSUME NEW p \in Procs, ResetDeadline(p) PROVE ~collided
  BY <1>13 DEF ResetDeadline
<1>14. ASSUME NEW p \in Procs, Unlock(p) PROVE ~collided
  BY <1>14 DEF Unlock, Return
<1>15. ASSUME NEW p \in Procs, CloseCas(p) PROVE ~collided
  BY <1>15 DEF CloseCas
<1>16. ASSUME NEW p \in Procs, CloseSetErr(p) PROVE ~collided
  BY <1>16 DEF CloseSetErr
<1>17. ASSUME NEW p \in Procs, CloseTransport(p) PROVE ~collided
  BY <1>17 DEF CloseTransport
<1>18. ASSUME NEW p \in Procs, CloseFlushEnds(p) PROVE ~collided
  BY <1>18 DEF CloseFlushEnds
<1>19. ASSUME NEW p \in Procs, CloseConn(p) PROVE ~collided
  BY <1>19 DEF CloseConn
<1>20. ASSUME UNCHANGED vars PROVE ~collided
  BY <1>20 DEF vars
<1>21. QED
  BY <1>1, <1>2, <1>3, <1>4, <1>5, <1>6, <1>7, <1>8, <1>9, <1>10, <1>11, <1>12, <1>13,
     <1>14, <1>15, <1>16, <1>17, <1>18, <1>19, <1>20
  DEF Next, OwnStep, PeerStep, Done

\* A step that moves nothing and starts no write keeps the order.
LEMMA QuietOrder ==
  ASSUME OrderInv, UNCHANGED <<link, wire, buffered, rest, bufErr>>,
         \A p \in Procs : pc'[p] = "deadline" => pc[p] = "deadline"
  PROVE  OrderInv'
BY Still, OrderedKept DEF OrderInv, Buffering, Whole

\* So does one that forgets what was not sent, if it is not needed.
LEMMA DropOrder ==
  ASSUME TypeOK, OrderInv, UNCHANGED <<link, wire, buffered>>, rest' = <<>>,
         bufErr' # "none" \/ buffered = <<>>, Buffering /\ bufErr' = "none" => Whole(wire),
         \A p \in Procs : pc'[p] = "deadline" => pc[p] = "deadline"
  PROVE  OrderInv'
<1>1. Flow' = wire
  BY Drops
<1>2. Ordered(Flow)'
  BY <1>1, OrderedDropped DEF OrderInv
<1>3. Buffering /\ bufErr' = "none" => Whole(Flow)' /\ Whole(wire)'
  BY <1>1 DEF Whole
<1>4. Buffering' <=> Buffering
  BY DEF Buffering
<1>5. QED
  BY <1>2, <1>3, <1>4 DEF OrderInv

\* A write that fails on a buffered transport ends it for good.
LEMMA FailsDrop ==
  ASSUME TypeOK, CleanInv, NEW p \in Procs, NEW e \in Errors, Fails(p, e)
  PROVE  /\ UNCHANGED <<link, wire, buffered>> /\ rest' = <<>>
         /\ bufErr' # "none" \/ buffered = <<>>
         /\ Buffering => bufErr' # "none"
         /\ \A q \in Procs : pc'[q] = "deadline" => pc[q] = "deadline"
BY LockFacts DEF Fails, Finish, Goto, Errors, CleanInv

\* Every step keeps the order.
LEMMA OrderStep ==
  TypeOK /\ CleanInv /\ OrderInv /\ FreshInv /\ [Next]_vars /\ ~collided' => OrderInv'
<1> SUFFICES ASSUME TypeOK, CleanInv, OrderInv, FreshInv, [Next]_vars, ~collided' PROVE OrderInv'
  OBVIOUS
<1> USE LockFacts DEF connVars, closeVars, callVars, Goto
<1>1. ASSUME NEW p \in Procs, NEW o \in OpsOf(p), Call(p, o) PROVE OrderInv'
  BY <1>1, QuietOrder DEF Call, Entry, OpsOf, Ops
<1>2. ASSUME NEW p \in Procs, Lock(p) PROVE OrderInv'
  <2>1. /\ Flow = wire /\ \A u : Sent(u) => InFlow(u)
        /\ Flow' = IF bufErr = "none" THEN wire \o Chunk(p) ELSE wire
    BY <1>2, Takes, FlowType
  <2>2. UNCHANGED <<link, wire, bufErr>> /\ pc[p] = "lock" /\ (Buffering' <=> Buffering)
    BY <1>2 DEF Lock, Buffering
  <2>3. Ordered(wire) /\ (Buffering /\ bufErr = "none" => Whole(wire))
    BY <2>1 DEF OrderInv
  <2>4. CASE bufErr = "none"
    <3>1. \A u \in Halves : Sent(u) /\ u.by = p => Earlier(p, u)
      BY <2>1, <2>2 DEF FreshInv
    <3>2. Ordered(wire \o Chunk(p)) /\ Whole(wire \o Chunk(p))
      BY <2>3, <2>4, <3>1, OrderedTaken
    <3>3. Flow' = wire \o Chunk(p)
      BY <2>1, <2>4
    <3>4. Ordered(Flow)'
      BY <2>2, <3>2, <3>3 DEF Ordered
    <3>5. Whole(Flow)' /\ (Whole(wire)' <=> Whole(wire))
      BY <2>2, <3>2, <3>3 DEF Whole
    <3>6. QED
      BY <2>2, <2>3, <2>4, <3>4, <3>5 DEF OrderInv
  <2>5. CASE bufErr # "none"
    <3>1. Ordered(Flow)'
      BY <2>1, <2>2, <2>3, <2>5, OrderedKept DEF OrderInv
    <3>2. QED
      BY <2>2, <2>5, <3>1 DEF OrderInv
  <2>6. QED
    BY <2>4, <2>5
<1>3. ASSUME NEW p \in Procs, CheckCloseErr(p) PROVE OrderInv'
  BY <1>3, QuietOrder DEF CheckCloseErr, Return
<1>4. ASSUME NEW p \in Procs, ReadChunk(p) PROVE OrderInv'
  BY <1>4, QuietOrder DEF ReadChunk
<1>5. ASSUME NEW p \in Procs, ReadEnds(p) PROVE OrderInv'
  BY <1>5, QuietOrder DEF ReadEnds, Return
<1>6. ASSUME NEW p \in Procs, SetDeadline(p) PROVE OrderInv'
  <2>1. CASE rest' = rest
    BY <1>6, <2>1, QuietOrder DEF SetDeadline, Locked
  <2>2. CASE rest' # rest
    <3>1. /\ pc[p] = "deadline" /\ rest' = <<>> /\ UNCHANGED <<link, wire, buffered, bufErr>>
          /\ pc' = [pc EXCEPT ![p] = "unlock"]
      BY <1>6, <2>2 DEF SetDeadline
    <3>2. bufErr' = "none" => buffered = <<>>
      BY <3>1 DEF CleanInv
    <3>3. Buffering /\ bufErr = "none" => Whole(wire)
      BY <3>1 DEF OrderInv
    <3>4. \A q \in Procs : pc'[q] = "deadline" => pc[q] = "deadline"
      BY <3>1
    <3>5. QED
      BY <3>1, <3>2, <3>3, <3>4, DropOrder
  <2>3. QED
    BY <2>1, <2>2
<1>7. ASSUME NEW p \in Procs, HandHalf(p) PROVE OrderInv'
  <2>1. Flow' = Flow /\ link' = link /\ bufErr' = bufErr
    BY <1>7, Moves DEF HandHalf
  <2>2. Ordered(Flow)' /\ (Buffering /\ bufErr' = "none" => Whole(Flow)')
    BY <2>1, OrderedKept DEF OrderInv, Whole
  <2>3. \A q \in Procs : pc'[q] # "deadline"
    BY <1>7 DEF HandHalf, Locked
  <2>4. QED
    BY <2>1, <2>2, <2>3 DEF OrderInv, Buffering
<1>8. ASSUME NEW p \in Procs, SendBuffered(p) PROVE OrderInv'
  <2>1. Flow' = Flow /\ link' = link /\ bufErr' = bufErr
    BY <1>8, Moves DEF SendBuffered
  <2>2. Ordered(Flow)' /\ (Buffering /\ bufErr' = "none" => Whole(Flow)')
    BY <2>1, OrderedKept DEF OrderInv, Whole
  <2>3. \A q \in Procs : pc'[q] # "deadline"
    BY <1>8 DEF SendBuffered, Locked
  <2>4. QED
    BY <2>1, <2>2, <2>3 DEF OrderInv, Buffering
<1>9. ASSUME NEW p \in Procs, Flushed(p) PROVE OrderInv'
  BY <1>9, QuietOrder DEF Flushed, Finish
<1>10. ASSUME NEW p \in Procs, SendFails(p) PROVE OrderInv'
  BY <1>10, FailsDrop, DropOrder DEF SendFails, Errors
<1>11. ASSUME NEW p \in Procs, SendTimesOut(p) PROVE OrderInv'
  BY <1>11, FailsDrop, DropOrder DEF SendTimesOut, Errors
<1>12. ASSUME NEW p \in Procs, StickyError(p) PROVE OrderInv'
  <2>1. bufErr \in Errors /\ Fails(p, bufErr)
    BY <1>12 DEF StickyError, TypeOK
  <2>2. QED
    BY <2>1, FailsDrop, DropOrder
<1>13. ASSUME NEW p \in Procs, ResetDeadline(p) PROVE OrderInv'
  BY <1>13, QuietOrder DEF ResetDeadline
<1>14. ASSUME NEW p \in Procs, Unlock(p) PROVE OrderInv'
  BY <1>14, QuietOrder DEF Unlock, Return
<1>15. ASSUME NEW p \in Procs, CloseCas(p) PROVE OrderInv'
  BY <1>15, QuietOrder DEF CloseCas
<1>16. ASSUME NEW p \in Procs, CloseSetErr(p) PROVE OrderInv'
  BY <1>16, QuietOrder DEF CloseSetErr
<1>17. ASSUME NEW p \in Procs, CloseTransport(p) PROVE OrderInv'
  BY <1>17, QuietOrder DEF CloseTransport
<1>18. ASSUME NEW p \in Procs, CloseFlushEnds(p) PROVE OrderInv'
  BY <1>18 DEF CloseFlushEnds, CleanInv
<1>19. ASSUME NEW p \in Procs, CloseConn(p) PROVE OrderInv'
  BY <1>19, QuietOrder DEF CloseConn
<1>20. ASSUME UNCHANGED vars PROVE OrderInv'
  BY <1>20, QuietOrder DEF vars
<1>21. QED
  BY <1>1, <1>2, <1>3, <1>4, <1>5, <1>6, <1>7, <1>8, <1>9, <1>10, <1>11, <1>12, <1>13,
     <1>14, <1>15, <1>16, <1>17, <1>18, <1>19, <1>20
  DEF Next, OwnStep, PeerStep, Done

\* The numbers in a half, and those of its goroutine.
LEMMA NumberTypes ==
  ASSUME TypeOK
  PROVE  /\ \A u \in Halves : u.call \in Nat /\ u.chunk \in Nat
         /\ calls \in [Procs -> Nat] /\ chunk \in [Procs -> Nat]
         /\ DOMAIN outcome = Procs /\ pc \in [Procs -> Labels]
BY ConstantsAssumption DEF TypeOK, Halves

\* Every step keeps what is new, new.
LEMMA FreshStep ==
  TypeOK /\ CleanInv /\ FreshInv /\ [Next]_vars /\ ~collided' => FreshInv'
<1> SUFFICES ASSUME TypeOK, CleanInv, FreshInv, [Next]_vars, ~collided' PROVE FreshInv'
  OBVIOUS
<1> USE NumberTypes
    DEF FreshInv, Upto, Earlier, Closing, connVars, closeVars, callVars, Goto
<1>1. ASSUME NEW p \in Procs, NEW o \in OpsOf(p), Call(p, o) PROVE FreshInv'
  BY <1>1, Still DEF Call, Entry, OpsOf, Ops
<1>2. ASSUME NEW p \in Procs, Lock(p) PROVE FreshInv'
  <2>1. \A u : InFlow(u)' => InFlow(u) \/ (u.by = p /\ u.call = calls[p] /\ u.chunk = chunk[p])
    <3>1. \A h \in {1, 2} : LET u == Half(p, chunk[p], h) IN
                                u.by = p /\ u.call = calls[p] /\ u.chunk = chunk[p]
      BY DEF Half
    <3>2. QED
      BY <1>2, <3>1, Takes, SMTT(20)
  <2>2. /\ pc[p] = "lock" /\ pc' = [pc EXCEPT ![p] = pc'[p]] /\ pc'[p] \in {"deadline", "write"}
        /\ UNCHANGED <<calls, chunk, outcome>>
    BY <1>2 DEF Lock
  <2>3. QED
    BY <2>1, <2>2
<1>3. ASSUME NEW p \in Procs, CheckCloseErr(p) PROVE FreshInv'
  BY <1>3, Still DEF CheckCloseErr, Return
<1>4. ASSUME NEW p \in Procs, ReadChunk(p) PROVE FreshInv'
  BY <1>4, Still DEF ReadChunk
<1>5. ASSUME NEW p \in Procs, ReadEnds(p) PROVE FreshInv'
  BY <1>5, Still DEF ReadEnds, Return
<1>6. ASSUME NEW p \in Procs, SetDeadline(p) PROVE FreshInv'
  <2>1. CASE UNCHANGED <<rest, outcome>>
    BY <1>6, <2>1, Still DEF SetDeadline
  <2>2. CASE rest' = <<>> /\ conn = "closed" /\ outcome' = [outcome EXCEPT ![p] = "failed"]
    <3>1. pc[p] = "deadline" /\ UNCHANGED <<wire, buffered, bufErr, calls, chunk>>
      BY <1>6 DEF SetDeadline
    <3>2. \A u : InFlow(u)' => InFlow(u)
      BY <2>2, <3>1, Drops, FlowType DEF CleanInv
    <3>3. pc' = [pc EXCEPT ![p] = pc'[p]] /\ pc'[p] \in {"write", "unlock"}
      BY <1>6 DEF SetDeadline
    <3>4. QED
      BY <2>2, <3>1, <3>2, <3>3
  <2>3. QED
    BY <1>6, <2>1, <2>2 DEF SetDeadline
<1>7. ASSUME NEW p \in Procs, HandHalf(p) PROVE FreshInv'
  BY <1>7, Moves DEF HandHalf
<1>8. ASSUME NEW p \in Procs, SendBuffered(p) PROVE FreshInv'
  BY <1>8, Moves DEF SendBuffered
<1>9. ASSUME NEW p \in Procs, Flushed(p) PROVE FreshInv'
  BY <1>9, Still DEF Flushed, Finish
<1>10. ASSUME NEW p \in Procs, SendFails(p) PROVE FreshInv'
  <2>1. \A u : InFlow(u)' => InFlow(u)
    BY <1>10, Drops, FlowType DEF SendFails, Fails, Finish, Sending, CleanInv, Errors
  <2>2. /\ outcome' = [outcome EXCEPT ![p] = "failed"] /\ pc' = [pc EXCEPT ![p] = pc'[p]]
        /\ pc[p] \in {"write", "flush"} /\ pc'[p] \in {"reset", "unlock"}
        /\ UNCHANGED <<calls, chunk>>
    BY <1>10 DEF SendFails, Fails, Finish, Sending
  <2>3. QED
    BY <2>1, <2>2
<1>11. ASSUME NEW p \in Procs, SendTimesOut(p) PROVE FreshInv'
  <2>1. \A u : InFlow(u)' => InFlow(u)
    BY <1>11, Drops, FlowType DEF SendTimesOut, Fails, Finish, Sending, CleanInv, Errors
  <2>2. /\ outcome' = [outcome EXCEPT ![p] = "timeout"] /\ pc' = [pc EXCEPT ![p] = pc'[p]]
        /\ pc[p] \in {"write", "flush"} /\ pc'[p] \in {"reset", "unlock"}
        /\ UNCHANGED <<calls, chunk>>
    BY <1>11 DEF SendTimesOut, Fails, Finish, Sending
  <2>3. QED
    BY <2>1, <2>2
<1>12. ASSUME NEW p \in Procs, StickyError(p) PROVE FreshInv'
  <2>1. \A u : InFlow(u)' => InFlow(u)
    BY <1>12, Drops, FlowType DEF StickyError, Fails, Finish, CleanInv, Errors
  <2>2. /\ outcome' = [outcome EXCEPT ![p] = bufErr] /\ pc' = [pc EXCEPT ![p] = pc'[p]]
        /\ pc[p] \in {"write", "flush"} /\ pc'[p] \in {"reset", "unlock"}
        /\ UNCHANGED <<calls, chunk>>
    BY <1>12 DEF StickyError, Fails, Finish
  <2>3. QED
    BY <2>1, <2>2 DEF TypeOK, Errors
<1>13. ASSUME NEW p \in Procs, ResetDeadline(p) PROVE FreshInv'
  BY <1>13, Still DEF ResetDeadline
<1>14. ASSUME NEW p \in Procs, Unlock(p) PROVE FreshInv'
  BY <1>14, Still DEF Unlock, Return
<1>15. ASSUME NEW p \in Procs, CloseCas(p) PROVE FreshInv'
  BY <1>15, Still DEF CloseCas
<1>16. ASSUME NEW p \in Procs, CloseSetErr(p) PROVE FreshInv'
  BY <1>16, Still DEF CloseSetErr
<1>17. ASSUME NEW p \in Procs, CloseTransport(p) PROVE FreshInv'
  BY <1>17, Still DEF CloseTransport
<1>18. ASSUME NEW p \in Procs, CloseFlushEnds(p) PROVE FreshInv'
  BY <1>18 DEF CloseFlushEnds, CleanInv
<1>19. ASSUME NEW p \in Procs, CloseConn(p) PROVE FreshInv'
  BY <1>19, Still DEF CloseConn
<1>20. ASSUME UNCHANGED vars PROVE FreshInv'
  BY <1>20, Still DEF vars
<1>21. QED
  <2> HIDE DEF FreshInv
  <2> QED
    BY <1>1, <1>2, <1>3, <1>4, <1>5, <1>6, <1>7, <1>8, <1>9, <1>10, <1>11, <1>12, <1>13,
       <1>14, <1>15, <1>16, <1>17, <1>18, <1>19, <1>20
    DEF Next, OwnStep, PeerStep, Done

\* Every step keeps what was sent.
LEMMA SentStep ==
  TypeOK /\ CleanInv /\ SentInv /\ [Next]_vars /\ ~collided' => SentInv'
<1> SUFFICES ASSUME TypeOK, CleanInv, SentInv, [Next]_vars, ~collided' PROVE SentInv'
  OBVIOUS
<1> USE NumberTypes, LockFacts
    DEF SentInv, Of, connVars, closeVars, callVars, Goto
<1>1. ASSUME NEW p \in Procs, NEW o \in OpsOf(p), Call(p, o) PROVE SentInv'
  <2>1. /\ pc[p] = "idle" /\ pc' = [pc EXCEPT ![p] = pc'[p]]
        /\ pc'[p] \in {"check", "lock", "enter", "closeCas"}
        /\ pc'[p] = "enter" => chunk'[p] = 0
        /\ outcome' = [outcome EXCEPT ![p] = "none"]
        /\ calls' = [calls EXCEPT ![p] = calls[p] + 1]
        /\ chunk' = [chunk EXCEPT ![p] = chunk'[p]] /\ chunk'[p] \in {0, 1}
    BY <1>1 DEF Call, Entry, OpsOf, Ops
  <2>2. UNCHANGED <<wire, buffered, rest, bufErr>>
    BY <1>1 DEF Call
  <2>3. \A u : (InFlow(u)' <=> InFlow(u)) /\ (Sent(u)' <=> Sent(u))
    BY <2>2, Still
  <2>4. QED
    BY <2>1, <2>2, <2>3
<1>2. ASSUME NEW p \in Procs, Lock(p) PROVE SentInv'
  <2>1. bufErr = "none" => \A u \in Halves : Of(p, u) /\ u.chunk = chunk[p] => InFlow(u)'
    BY <1>2, Takes
  <2>2. /\ pc[p] = "lock" /\ pc' = [pc EXCEPT ![p] = pc'[p]] /\ pc'[p] \in {"deadline", "write"}
        /\ UNCHANGED <<calls, chunk, outcome, bufErr>>
    BY <1>2 DEF Lock
  <2>3. \A u : Sent(u)' <=> Sent(u)
    BY <1>2, Takes
  <2>4. lock = NoOwner
    BY <1>2 DEF Lock
  <2>5. \A q \in Procs : q # p => pc'[q] \notin Locked
    BY <2>2, <2>4
  <2>6. \A q \in Procs : /\ q # p => pc'[q] = pc[q] /\ pc[q] \notin Locked
                         /\ pc[p] \notin {"read"} /\ pc'[p] \notin {"read", "check", "lock"}
    BY <2>2, <2>5
  <2>7. \A q \in Procs : pc'[q] \in {"deadline", "write", "flush"} => q = p
    BY <2>6 DEF Locked
  <2>8. QED
    BY <2>1, <2>2, <2>3, <2>6, <2>7
<1>3. ASSUME NEW p \in Procs, CheckCloseErr(p) PROVE SentInv'
  BY <1>3, Still DEF CheckCloseErr, Return
<1>4. ASSUME NEW p \in Procs, ReadChunk(p) PROVE SentInv'
  BY <1>4, Still DEF ReadChunk
<1>5. ASSUME NEW p \in Procs, ReadEnds(p) PROVE SentInv'
  BY <1>5, Still DEF ReadEnds, Return
<1>6. ASSUME NEW p \in Procs, SetDeadline(p) PROVE SentInv'
  <2>1. CASE UNCHANGED <<rest, outcome>>
    BY <1>6, <2>1, Still DEF SetDeadline
  <2>2. CASE /\ rest' = <<>> /\ pc' = [pc EXCEPT ![p] = "unlock"]
             /\ outcome' = [outcome EXCEPT ![p] = "failed"]
    <3>1. pc[p] = "deadline" /\ UNCHANGED <<wire, buffered, bufErr, calls, chunk>>
      BY <1>6 DEF SetDeadline
    <3>2. \A u : Sent(u)' <=> Sent(u)
      BY <3>1 DEF Sent
    <3>3. \A q \in Procs : pc'[q] \notin {"deadline", "write", "flush"}
      BY <2>2, <3>1 DEF Locked
    <3>4. QED
      BY <2>2, <3>1, <3>2, <3>3
  <2>3. QED
    BY <1>6, <2>1, <2>2 DEF SetDeadline
<1>7. ASSUME NEW p \in Procs, HandHalf(p) PROVE SentInv'
  BY <1>7, Moves DEF HandHalf
<1>8. ASSUME NEW p \in Procs, SendBuffered(p) PROVE SentInv'
  BY <1>8, Moves DEF SendBuffered
<1>9. ASSUME NEW p \in Procs, Flushed(p) PROVE SentInv'
  <2>1. /\ pc[p] = "flush" /\ rest = <<>> /\ buffered = <<>> /\ bufErr = "none"
        /\ pc' = [pc EXCEPT ![p] = pc'[p]] /\ pc'[p] \in {"reset", "unlock"}
        /\ outcome' = [outcome EXCEPT ![p] = "ok"]
        /\ UNCHANGED <<wire, buffered, rest, bufErr, calls, chunk>>
    BY <1>9 DEF Flushed, Finish, CleanInv
  <2>2. Flow = wire
    <3>1. wire \in Seq(Halves)
      BY DEF TypeOK
    <3>2. QED
      BY <2>1, <3>1, ConcatEmptySeq DEF Flow
  <2>3. \A u : (InFlow(u) <=> Sent(u)) /\ (InFlow(u)' <=> InFlow(u)) /\ (Sent(u)' <=> Sent(u))
    BY <2>1, <2>2, Still DEF InFlow, Sent
  <2>4. QED
    BY <2>1, <2>3
<1>10. ASSUME NEW p \in Procs, SendFails(p) PROVE SentInv'
  <2>1. \A u : Sent(u)' <=> Sent(u)
    BY <1>10, Drops DEF SendFails, Fails, Finish, Sending, CleanInv, Errors
  <2>2. /\ outcome' = [outcome EXCEPT ![p] = "failed"] /\ pc' = [pc EXCEPT ![p] = pc'[p]]
        /\ pc[p] \in {"write", "flush"} /\ pc'[p] \in {"reset", "unlock"}
        /\ UNCHANGED <<calls, chunk>>
    BY <1>10 DEF SendFails, Fails, Finish, Sending
  <2>3. \A q \in Procs : pc'[q] \notin {"deadline", "write", "flush"}
    BY <2>2 DEF Locked
  <2>4. QED
    BY <2>1, <2>2, <2>3
<1>11. ASSUME NEW p \in Procs, SendTimesOut(p) PROVE SentInv'
  <2>1. \A u : Sent(u)' <=> Sent(u)
    BY <1>11, Drops DEF SendTimesOut, Fails, Finish, Sending, CleanInv, Errors
  <2>2. /\ outcome' = [outcome EXCEPT ![p] = "timeout"] /\ pc' = [pc EXCEPT ![p] = pc'[p]]
        /\ pc[p] \in {"write", "flush"} /\ pc'[p] \in {"reset", "unlock"}
        /\ UNCHANGED <<calls, chunk>>
    BY <1>11 DEF SendTimesOut, Fails, Finish, Sending
  <2>3. \A q \in Procs : pc'[q] \notin {"deadline", "write", "flush"}
    BY <2>2 DEF Locked
  <2>4. QED
    BY <2>1, <2>2, <2>3
<1>12. ASSUME NEW p \in Procs, StickyError(p) PROVE SentInv'
  <2>1. \A u : Sent(u)' <=> Sent(u)
    BY <1>12, Drops DEF StickyError, Fails, Finish, CleanInv, Errors
  <2>2. /\ outcome' = [outcome EXCEPT ![p] = bufErr] /\ pc' = [pc EXCEPT ![p] = pc'[p]]
        /\ pc[p] \in {"write", "flush"} /\ pc'[p] \in {"reset", "unlock"}
        /\ UNCHANGED <<calls, chunk>>
    BY <1>12 DEF StickyError, Fails, Finish
  <2>3. \A q \in Procs : pc'[q] \notin {"deadline", "write", "flush"}
    BY <2>2 DEF Locked
  <2>4. QED
    BY <2>1, <2>2, <2>3 DEF TypeOK, Errors
<1>13. ASSUME NEW p \in Procs, ResetDeadline(p) PROVE SentInv'
  BY <1>13, Still DEF ResetDeadline
<1>14. ASSUME NEW p \in Procs, Unlock(p) PROVE SentInv'
  BY <1>14, Still DEF Unlock, Return
<1>15. ASSUME NEW p \in Procs, CloseCas(p) PROVE SentInv'
  BY <1>15, Still DEF CloseCas
<1>16. ASSUME NEW p \in Procs, CloseSetErr(p) PROVE SentInv'
  BY <1>16, Still DEF CloseSetErr
<1>17. ASSUME NEW p \in Procs, CloseTransport(p) PROVE SentInv'
  BY <1>17, Still DEF CloseTransport
<1>18. ASSUME NEW p \in Procs, CloseFlushEnds(p) PROVE SentInv'
  BY <1>18 DEF CloseFlushEnds, CleanInv
<1>19. ASSUME NEW p \in Procs, CloseConn(p) PROVE SentInv'
  BY <1>19, Still DEF CloseConn
<1>20. ASSUME UNCHANGED vars PROVE SentInv'
  BY <1>20, Still DEF vars
<1>21. QED
  <2> HIDE DEF SentInv
  <2> QED
    BY <1>1, <1>2, <1>3, <1>4, <1>5, <1>6, <1>7, <1>8, <1>9, <1>10, <1>11, <1>12, <1>13,
       <1>14, <1>15, <1>16, <1>17, <1>18, <1>19, <1>20
    DEF Next, OwnStep, PeerStep, Done

\* What is on the wire of a new channel: nothing.
LEMMA InitFlow == Init => FlowInv
<1> SUFFICES ASSUME Init PROVE FlowInv
  OBVIOUS
<1>1. <<>> \in Seq(Halves)
  OBVIOUS
<1>2. Flow = <<>>
  <2>1. <<>> \o <<>> = <<>>
    BY <1>1, ConcatEmptySeq
  <2>2. QED
    BY <2>1 DEF Init, Flow
<1>3. OrderInv
  BY <1>2 DEF Init, OrderInv, Ordered, Whole
<1>4. \A u : ~InFlow(u) /\ ~Sent(u)
  BY <1>2 DEF Init, InFlow, Sent
<1>5. FreshInv
  BY <1>4 DEF Init, FreshInv
<1>6. SentInv
  BY DEF Init, SentInv, Of, Halves
<1>7. QED
  BY <1>3, <1>5, <1>6 DEF FlowInv

\* Every step keeps the three, if no collision ends the promise.
LEMMA FlowStep == TypeOK /\ CleanInv /\ FlowInv /\ [Next]_vars => FlowInv'
BY CollidedStays, OrderStep, FreshStep, SentStep DEF FlowInv

\* On the wire writes are not mixed, none is sent twice, a goroutine's writes keep
\* their order, and on a buffered transport nothing follows a torn one
\* (channel.go, writeLock; buffered.go).
THEOREM StreamOrderHolds == Spec => []StreamOrder
<1>1. Init => TypeOK /\ CleanInv /\ FlowInv
  BY InitType, InitClean, InitFlow
<1>2. TypeOK /\ CleanInv /\ FlowInv /\ [Next]_vars => TypeOK' /\ CleanInv' /\ FlowInv'
  BY TypeStep, CleanStep, FlowStep
<1>3. ASSUME TypeOK, FlowInv PROVE StreamOrder
  <2>1. CASE collided
    BY <2>1 DEF StreamOrder
  <2>2. CASE ~collided
    <3>1. Ordered(Flow)
      BY <1>3, <2>2 DEF FlowInv, OrderInv
    <3>2. Ordered(wire)
      BY <1>3, <3>1, OrderedFront
    <3>3. QED
      BY <3>2 DEF Ordered, StreamOrder, Joined
  <2>3. QED
    BY <2>1, <2>2
<1>4. QED
  BY <1>1, <1>2, <1>3, PTL DEF Spec

\* A write that reports success has given the connection every byte; one that was
\* refused has sent none (channel.go, write1, CtxWrite1 and ReadFrom).
THEOREM OutcomeIsTrueHolds == Spec => []OutcomeIsTrue
<1>1. Init => TypeOK /\ CleanInv /\ FlowInv
  BY InitType, InitClean, InitFlow
<1>2. TypeOK /\ CleanInv /\ FlowInv /\ [Next]_vars => TypeOK' /\ CleanInv' /\ FlowInv'
  BY TypeStep, CleanStep, FlowStep
<1>3. ASSUME TypeOK, FlowInv PROVE OutcomeIsTrue
  <2> SUFFICES ASSUME ~collided, NEW p \in Procs
               PROVE  /\ outcome[p] = "ok" =>
                           \A c \in 1 .. chunk[p], h \in {1, 2} : Sent(Half(p, c, h))
                      /\ outcome[p] = "closed" => ~Sent(Half(p, chunk[p], 1))
    BY DEF OutcomeIsTrue
  <2>1. SentInv /\ FreshInv
    BY <1>3 DEF FlowInv
  <2>2. chunk[p] \in 0 .. MaxChunks /\ calls[p] \in Nat /\ MaxChunks \in Nat
    BY <1>3, NumberTypes, ConstantsAssumption DEF TypeOK
  <2>3. ASSUME outcome[p] = "ok", NEW c \in 1 .. chunk[p], NEW h \in {1, 2}
        PROVE  Sent(Half(p, c, h))
    <3>1. c \in 0 .. MaxChunks /\ c >= 1 /\ c <= chunk[p]
      BY <2>2
    <3>2. Half(p, c, h) \in Halves
      BY <1>3, <3>1, ChunkType
    <3>3. Of(p, Half(p, c, h)) /\ Half(p, c, h).chunk <= chunk[p]
      BY <3>1 DEF Of, Half
    <3>4. QED
      BY <2>1, <2>3, <3>2, <3>3 DEF SentInv
  <2>4. ASSUME outcome[p] = "closed" PROVE ~Sent(Half(p, chunk[p], 1))
    <3>1. Half(p, chunk[p], 1) \in Halves
      BY <1>3, <2>2, ChunkType
    <3>2. Half(p, chunk[p], 1).by = p /\ ~Earlier(p, Half(p, chunk[p], 1))
      BY <2>2 DEF Earlier, Half
    <3>3. QED
      BY <1>3, <2>1, <2>4, <3>1, <3>2, FlowType DEF FreshInv
  <2>5. QED
    BY <2>3, <2>4
<1>4. QED
  BY <1>1, <1>2, <1>3, PTL DEF Spec

=============================================================================
