----------------------------- MODULE SyncChannel -----------------------------
(***************************************************************************)
(* The synchronous write path of a channel made by NewChannel and its      *)
(* Close (channel.go), on the transports of transport/buffered.go.         *)
(*                                                                         *)
(* A write locks writeLock, hands its bytes to the transport, flushes and  *)
(* unlocks; with a deadline in its context it sets the deadline of the     *)
(* connection under the lock and resets it.  ReadFrom does so for every    *)
(* chunk of a reader, so chunks of others may come in between.  Close      *)
(* takes no lock.  The bytes of one transport call are two halves, which   *)
(* is what a call needs to end in the middle.                              *)
(*                                                                         *)
(* "Write1" also stands for Writev and "CtxWrite1" for CtxWritev, which    *)
(* differ in the transport's method only, and "ReadFrom" for a WriterTo    *)
(* that writes to Writer().  What Write does before and after them, in     *)
(* IsActive and invokeMethod, is in AsyncChannel.                          *)
(***************************************************************************)
EXTENDS Integers, Sequences

CONSTANTS
  Writers,    \* goroutines that write; they also close after an error
  Closers,    \* goroutines that call Close
  NoOwner,    \* the owner of a free lock
  Links,      \* the transports and peers a channel may have, of LinkKinds
  MaxCalls,   \* calls per goroutine (bound)
  MaxChunks   \* chunks a reader delivers (bound)

\* kind: "raw" is a rawConn or a bufReadConn, "buffered" a bufWriteConn and
\* "flushing" a bufConn, which flushes in Close;
\* peerReads: the peer never stops reading for ever.
LinkKinds == [kind : {"raw", "buffered", "flushing"}, peerReads : BOOLEAN]

ASSUME ConstantsAssumption ==
  /\ Writers \cap Closers = {} /\ NoOwner \notin Writers \cup Closers
  /\ Links \subseteq LinkKinds
  /\ MaxCalls \in Nat /\ MaxChunks \in Nat \ {0}

VARIABLES
  link,       \* how the channel is connected: Init picks, no step changes it
  lock,       \* the owner of writeLock
  deadline,   \* the connection has a write deadline
  conn,       \* "open", "broken" by the peer, or "closed"
  rest,       \* halves the lock's owner has not handed to the transport
  buffered,   \* halves in the transport's bufio.Writer
  bufErr,     \* the error the bufio.Writer keeps, or "none"
  wire,       \* halves the connection has sent
  closed,     \* the flag Close sets first
  closeErr,   \* "nil" or "err"
  collided,   \* Close flushed the buffer under a write in progress
  pc,         \* where every goroutine is
  op,         \* the operation it is in
  calls,      \* number of calls it has begun
  chunk,      \* chunks of its present call
  outcome     \* how its last finished write ended

connVars  == <<link, deadline, conn, rest, buffered, bufErr, wire>>
closeVars == <<closed, closeErr, collided>>
callVars  == <<op, calls, chunk>>
vars == <<connVars, closeVars, callVars, lock, pc, outcome>>

Procs == Writers \cup Closers

Locked == {"deadline", "write", "flush", "reset", "unlock"}
Closing == {"closeErr", "closeTransport", "closeFlush", "closeConn"}
Labels == {"idle", "enter", "read", "check", "lock", "closeCas"} \cup Locked \cup Closing

Ops == {"Write1", "CtxWrite1", "ReadFrom", "Close"}
OpsOf(p) == IF p \in Writers THEN Ops \ {"Close"} ELSE {"Close"}
Errors == {"failed", "timeout"}
Halves == [by : Procs, call : 0 .. MaxCalls, chunk : 0 .. MaxChunks, half : {1, 2}]

Goto(p, label) == pc' = [pc EXCEPT ![p] = label]

\* What p's present call hands to the transport.
Half(p, c, h) == [by |-> p, call |-> calls[p], chunk |-> c, half |-> h]
Chunk(p) == <<Half(p, chunk[p], 1), Half(p, chunk[p], 2)>>

Buffering == link.kind # "raw"

Init ==
  /\ link \in Links
  /\ lock = NoOwner /\ deadline = FALSE /\ conn = "open"
  /\ rest = <<>> /\ buffered = <<>> /\ bufErr = "none" /\ wire = <<>>
  /\ closed = FALSE /\ closeErr = "nil" /\ collided = FALSE
  /\ pc = [p \in Procs |-> "idle"]
  /\ op = [p \in Procs |-> "none"]
  /\ calls = [p \in Procs |-> 0]
  /\ chunk = [p \in Procs |-> 0]
  /\ outcome = [p \in Procs |-> "none"]

-----------------------------------------------------------------------------
(* Calls, up to the lock.                                                  *)

\* Where an operation begins.  CtxWrite1 does not look at closeErr.
Entry == [Write1 |-> "check", CtxWrite1 |-> "lock", ReadFrom |-> "enter", Close |-> "closeCas"]

Call(p, o) ==
  /\ pc[p] = "idle" /\ calls[p] < MaxCalls
  /\ op' = [op EXCEPT ![p] = o]
  /\ calls' = [calls EXCEPT ![p] = @ + 1]
  /\ chunk' = [chunk EXCEPT ![p] = IF o \in {"Write1", "CtxWrite1"} THEN 1 ELSE 0]
  /\ outcome' = [outcome EXCEPT ![p] = "none"]
  /\ Goto(p, Entry[o])
  /\ UNCHANGED <<connVars, closeVars, lock>>

\* The call ends.  After an error the caller may close the channel, as
\* invokeMethod and the tail handler do.
Return(p, out) ==
  /\ op' = [op EXCEPT ![p] = "none"]
  /\ outcome' = [outcome EXCEPT ![p] = out]
  /\ \/ Goto(p, "idle")
     \/ out # "ok" /\ Goto(p, "closeCas")

\* write1 and ReadFrom begin by looking at closeErr.
CheckCloseErr(p) ==
  /\ pc[p] \in {"enter", "check"}
  /\ \/ closeErr # "nil" /\ Return(p, "closed")
     \/ /\ closeErr = "nil"
        /\ Goto(p, IF pc[p] = "enter" THEN "read" ELSE "lock")
        /\ UNCHANGED <<op, outcome>>
  /\ UNCHANGED <<connVars, closeVars, calls, chunk, lock>>

\* The reader has a chunk for ReadFrom ...
ReadChunk(p) ==
  /\ pc[p] = "read" /\ chunk[p] < MaxChunks
  /\ chunk' = [chunk EXCEPT ![p] = @ + 1]
  /\ outcome' = [outcome EXCEPT ![p] = "none"]
  /\ Goto(p, "check")
  /\ UNCHANGED <<connVars, closeVars, op, calls, lock>>

\* ... or is at its end, or fails.
ReadEnds(p) ==
  /\ pc[p] = "read"
  /\ \E out \in {"ok", "readError"} : Return(p, out)
  /\ UNCHANGED <<connVars, closeVars, calls, chunk, lock>>

\* Mutant: the lock is not taken.
MutantLock(p) ==
  /\ pc[p] = "lock"
  /\ lock' = p
  /\ rest' = Chunk(p)
  /\ Goto(p, IF op[p] = "CtxWrite1" THEN "deadline" ELSE "write")
  /\ UNCHANGED <<link, deadline, conn, buffered, bufErr, wire, closeVars, callVars,
                 outcome>>

Lock(p) ==
  /\ pc[p] = "lock" /\ lock = NoOwner
  /\ lock' = p
  /\ rest' = Chunk(p)
  /\ Goto(p, IF op[p] = "CtxWrite1" THEN "deadline" ELSE "write")
  /\ UNCHANGED <<link, deadline, conn, buffered, bufErr, wire, closeVars, callVars,
                 outcome>>

-----------------------------------------------------------------------------
(* The owner of the lock.                                                  *)

\* SetWriteDeadline; a closed connection refuses it.  A context without a
\* deadline sets none.
SetDeadline(p) ==
  /\ pc[p] = "deadline"
  /\ \/ conn # "closed" /\ deadline' = TRUE /\ Goto(p, "write") /\ UNCHANGED <<rest, outcome>>
     \/ Goto(p, "write") /\ UNCHANGED <<deadline, rest, outcome>>
     \/ /\ conn = "closed"
        /\ rest' = <<>>
        /\ outcome' = [outcome EXCEPT ![p] = "failed"]
        /\ Goto(p, "unlock")
        /\ UNCHANGED deadline
  /\ UNCHANGED <<link, conn, buffered, bufErr, wire, closeVars, callVars, lock>>

\* Write or Writev of the transport takes the next half: the connection sends
\* it, or a bufio.Writer copies it.
HandHalf(p) ==
  /\ pc[p] = "write" /\ rest # <<>>
  /\ rest' = Tail(rest)
  /\ \/ /\ Buffering /\ bufErr = "none"
        /\ buffered' = Append(buffered, Head(rest)) /\ UNCHANGED wire
     \/ /\ ~Buffering /\ conn = "open"
        /\ wire' = Append(wire, Head(rest)) /\ UNCHANGED buffered
  /\ Goto(p, IF Len(rest) = 1 THEN "flush" ELSE "write")
  /\ UNCHANGED <<link, deadline, conn, bufErr, closeVars, callVars, lock, outcome>>

\* A bufio.Writer sends what it holds, when it is full or in Flush.
SendBuffered(p) ==
  /\ pc[p] \in {"write", "flush"}
  /\ buffered # <<>> /\ bufErr = "none" /\ conn = "open"
  /\ wire' = Append(wire, Head(buffered))
  /\ buffered' = Tail(buffered)
  /\ UNCHANGED <<link, deadline, conn, rest, bufErr, closeVars, callVars, lock, pc, outcome>>

\* The transport call is over.  A deadline that was set is reset first.
Finish(p, out) ==
  /\ outcome' = [outcome EXCEPT ![p] = out]
  /\ Goto(p, IF deadline THEN "reset" ELSE "unlock")

\* Mutant: no Flush after Write.
MutantFlushed(p) ==
  /\ pc[p] = "flush"
  /\ Finish(p, "ok")
  /\ UNCHANGED <<connVars, closeVars, callVars, lock>>

\* Flush has nothing left to send; on a rawConn it never has.
Flushed(p) ==
  /\ pc[p] = "flush" /\ buffered = <<>> /\ bufErr = "none"
  /\ Finish(p, "ok")
  /\ UNCHANGED <<connVars, closeVars, callVars, lock>>

\* The call uses the connection: it can fail and time out.
Sending(p) ==
  /\ pc[p] \in {"write", "flush"} /\ bufErr = "none"
  /\ IF Buffering THEN buffered # <<>> ELSE pc[p] = "write"

\* A bufio.Writer keeps its error and sends nothing any more.
Fails(p, e) ==
  /\ rest' = <<>>
  /\ bufErr' = IF Buffering THEN e ELSE bufErr
  /\ Finish(p, e)
  /\ UNCHANGED <<link, deadline, buffered, wire, closeVars, callVars, lock>>

\* The connection is closed, broken, or breaks now.
SendFails(p) ==
  /\ Sending(p)
  /\ conn' = IF conn = "open" THEN "broken" ELSE conn
  /\ Fails(p, "failed")

SendTimesOut(p) ==
  Sending(p) /\ deadline /\ Fails(p, "timeout") /\ UNCHANGED conn

StickyError(p) ==
  /\ pc[p] \in {"write", "flush"} /\ bufErr # "none"
  /\ Fails(p, bufErr) /\ UNCHANGED conn

\* Mutant: the deadline is not reset.
MutantResetDeadline(p) ==
  /\ pc[p] = "reset"
  /\ Goto(p, "unlock")
  /\ UNCHANGED <<connVars, closeVars, callVars, lock, outcome>>

ResetDeadline(p) ==
  /\ pc[p] = "reset"
  /\ deadline' = FALSE
  /\ Goto(p, "unlock")
  /\ UNCHANGED <<link, conn, rest, buffered, bufErr, wire, closeVars, callVars, lock, outcome>>

\* ReadFrom goes on to the next chunk.
Unlock(p) ==
  /\ pc[p] = "unlock"
  /\ lock' = NoOwner
  /\ \/ /\ op[p] = "ReadFrom" /\ outcome[p] = "ok"
        /\ Goto(p, "read") /\ UNCHANGED <<op, outcome>>
     \/ /\ op[p] # "ReadFrom" \/ outcome[p] # "ok"
        /\ Return(p, outcome[p])
  /\ UNCHANGED <<connVars, closeVars, calls, chunk>>

-----------------------------------------------------------------------------
(* Close.  The end of its context and its inactive event are in            *)
(* AsyncChannel.                                                           *)

CloseCas(p) ==
  /\ pc[p] = "closeCas"
  /\ closed' = TRUE
  /\ Goto(p, IF closed THEN "idle" ELSE "closeErr")
  /\ UNCHANGED <<connVars, callVars, closeErr, collided, lock, outcome>>

\* Close(nil) is legal.
CloseSetErr(p) ==
  /\ pc[p] = "closeErr"
  /\ closeErr' \in {"nil", "err"}
  /\ Goto(p, "closeTransport")
  /\ UNCHANGED <<connVars, callVars, closed, collided, lock, outcome>>

\* bufConn.Close calls Flush without the lock.  If there is something in the
\* buffer, a write is in progress; both then send and reset the same buffer.
CloseTransport(p) ==
  /\ pc[p] = "closeTransport"
  /\ IF link.kind = "flushing" /\ buffered # <<>> /\ bufErr = "none"
     THEN collided' = TRUE /\ Goto(p, "closeFlush")
     ELSE Goto(p, "closeConn") /\ UNCHANGED collided
  /\ UNCHANGED <<connVars, callVars, closed, closeErr, lock, outcome>>

\* That Flush ends.  What reaches the peer in a collision is anything.
CloseFlushEnds(p) ==
  /\ pc[p] = "closeFlush"
  /\ \/ buffered' = <<>> /\ UNCHANGED bufErr
     \/ bufErr' \in Errors /\ UNCHANGED buffered
  /\ Goto(p, "closeConn")
  /\ UNCHANGED <<link, deadline, conn, rest, wire, callVars, closeVars, lock, outcome>>

\* Mutant: the connection is not closed.
MutantCloseConn(p) ==
  /\ pc[p] = "closeConn"
  /\ Goto(p, "idle")
  /\ UNCHANGED <<connVars, closeVars, callVars, lock, outcome>>

CloseConn(p) ==
  /\ pc[p] = "closeConn"
  /\ conn' = "closed"
  /\ Goto(p, "idle")
  /\ UNCHANGED <<link, deadline, rest, buffered, bufErr, wire, closeVars, callVars, lock,
                 outcome>>

-----------------------------------------------------------------------------
\* Steps that depend on nobody else.
OwnStep(p) ==
  \/ CheckCloseErr(p) \/ ReadChunk(p) \/ ReadEnds(p) \/ SetDeadline(p)
  \/ (Buffering /\ HandHalf(p)) \/ Flushed(p) \/ StickyError(p) \/ SendTimesOut(p)
  \/ ResetDeadline(p) \/ Unlock(p)
  \/ CloseCas(p) \/ CloseSetErr(p) \/ CloseTransport(p) \/ CloseConn(p)

\* Steps that wait for the peer to read.
PeerStep(p) == HandHalf(p) \/ SendBuffered(p) \/ CloseFlushEnds(p)

\* Nobody will make another call.
Done == (\A p \in Procs : pc[p] = "idle" /\ calls[p] = MaxCalls) /\ UNCHANGED vars

Next ==
  \/ \E p \in Procs : (\E o \in OpsOf(p) : Call(p, o)) \/ Lock(p) \/ OwnStep(p) \/ PeerStep(p)
                      \/ SendFails(p)
  \/ Done

Spec == Init /\ [][Next]_vars

\* The scheduler runs every goroutine, one that waits for a lock that is free
\* included; readers come to an end; a deadline expires; a connection that is
\* not open fails what is called on it, and one whose peer reads makes progress.
FairSpec ==
  /\ Spec
  /\ \A p \in Procs :
       /\ WF_vars(OwnStep(p))
       /\ WF_vars(Lock(p))
       /\ WF_vars(conn # "open" /\ (SendFails(p) \/ CloseFlushEnds(p)))
       /\ WF_vars(link.peerReads /\ PeerStep(p))

-----------------------------------------------------------------------------
\* Types; and on every way into and out of the locked part of a write, whoever
\* is in it owns the lock, and nobody else does.
TypeOK ==
  /\ link \in Links
  /\ lock \in Procs \cup {NoOwner}
  /\ deadline \in BOOLEAN /\ closed \in BOOLEAN /\ collided \in BOOLEAN
  /\ conn \in {"open", "broken", "closed"} /\ closeErr \in {"nil", "err"}
  /\ bufErr \in Errors \cup {"none"}
  /\ rest \in Seq(Halves) /\ buffered \in Seq(Halves) /\ wire \in Seq(Halves)
  /\ pc \in [Procs -> Labels]
  /\ op \in [Procs -> Ops \cup {"none"}]
  /\ calls \in [Procs -> 0 .. MaxCalls]
  /\ chunk \in [Procs -> 0 .. MaxChunks]
  /\ outcome \in [Procs -> {"none", "ok", "closed", "readError"} \cup Errors]
  /\ \A p \in Procs : pc[p] \in Locked <=> lock = p

\* Whoever gets the lock finds the transport as a new one: no deadline of an
\* earlier write that would end his, no byte of an earlier write in the
\* buffer, unless the buffer failed for good (channel.go, CtxWrite1, "reset
\* write deadline", and Flush under the lock).
FreeIsClean ==
  lock = NoOwner => ~deadline /\ rest = <<>> /\ (bufErr = "none" => buffered = <<>>)

\* Of two halves of one goroutine, u is handed to the transport before v.
Before(u, v) ==
  \/ u.call < v.call
  \/ u.call = v.call /\ u.chunk < v.chunk
  \/ u.call = v.call /\ u.chunk = v.chunk /\ u.half < v.half

\* A second half follows its first; a first half without its second is torn.
Joined(i) == i + 1 \in DOMAIN wire /\ wire[i + 1] = [wire[i] EXCEPT !.half = 2]

\* On the wire no write is mixed with another, nothing is sent twice and a
\* goroutine's writes keep their order; a write that ended half way is, on a
\* buffered transport, the last thing sent, so the peer can read everything
\* before it.  (On a raw one others follow it, which is why a caller whose
\* CtxWrite1 timed out has to close the channel.)  A bufConn that is closed
\* under a write promises nothing (channel.go, writeLock; buffered.go).
StreamOrder ==
  ~collided =>
    /\ \A i, j \in DOMAIN wire :
         i < j /\ wire[i].by = wire[j].by => Before(wire[i], wire[j])
    /\ \A i \in DOMAIN wire :
         wire[i].half = 2 => i > 1 /\ wire[i - 1] = [wire[i] EXCEPT !.half = 1]
    /\ \A i \in DOMAIN wire :
         Buffering /\ wire[i].half = 1 => i = Len(wire) \/ Joined(i)

Sent(u) == \E i \in DOMAIN wire : wire[i] = u

\* A write that reports success has given the connection every byte, those in
\* the transport's buffer included, whoever closed the channel meanwhile; one
\* that was refused before it began has sent none (channel.go, write1,
\* CtxWrite1 and ReadFrom).
OutcomeIsTrue ==
  ~collided => \A p \in Procs :
    /\ outcome[p] = "ok" =>
         \A c \in 1 .. chunk[p], h \in {1, 2} : Sent(Half(p, c, h))
    /\ outcome[p] = "closed" => ~Sent(Half(p, chunk[p], 1))

\* What frees goroutine p: a peer that reads; a Close, which on a bufConn has
\* to get past its Flush; or the deadline of p's own write, if it has got the
\* lock.
Freed(p) ==
  \/ link.peerReads
  \/ closed /\ link.kind # "flushing"
  \/ conn = "closed"
  \/ lock = p /\ deadline

\* Every call that is freed returns; a stalled peer blocks a write with a
\* deadline no longer than that, and Close interrupts the write that holds
\* the lock and lets the others through (channel.go, CtxWrite1, "the blocking
\* write operation is interrupted after a timeout", and Close).
CallsReturn == \A p \in Procs : Freed(p) ~> pc[p] = "idle"
=============================================================================
