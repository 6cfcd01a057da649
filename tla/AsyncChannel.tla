---------------------------- MODULE AsyncChannel ----------------------------
(***************************************************************************)
(* The asynchronous write path of a channel and its Close (channel.go).    *)
(*                                                                         *)
(* Writers put packets into the bounded writeQueue.  Whoever moves the     *)
(* flag `running' from idle to running launches a goroutine that executes  *)
(* writeOnce: it drains the queue in batches into the transport, stores    *)
(* idle, looks at the queue once more and leaves.  Close waits for the     *)
(* flag to be idle, then closes the transport, cancels the context and     *)
(* fires the inactive event.  Nothing but atomics, the Go channel and the  *)
(* context orders these goroutines, and each of their accesses to shared   *)
(* state is one action here.                                               *)
(*                                                                         *)
(* A packet is <<w, n>>, the n-th write of writer w.  closeErr is read and *)
(* written without synchronisation; no step depends on two reads of it,    *)
(* so a stale read is a read that happened earlier and is covered by the   *)
(* interleavings.                                                          *)
(***************************************************************************)
EXTENDS Integers, Sequences

CONSTANTS
  Writers,       \* goroutines that write to the channel
  Closers,       \* goroutines that call Close (user code, CloseAll, readLoop)
  Drainers,      \* goroutines the executor may run writeOnce on (bound)
  QueueSize,     \* capacity of writeQueue
  MaxWait,       \* rounds Close waits when not UntilWrite (10 in the code)
  Options,       \* the ways a channel may be made, of ChannelOptions
  MaxWrites      \* writes per writer (bound)

\* untilWrite: block on a full queue, wait for idle in Close;
\* writeBuffered: the transport is a bufWriteConn, or else a rawConn;
\* peerReads: the peer never stops reading for ever;
\* ops: the write operations the writers call.
WriteOps == {"Write", "Write1", "CtxWrite1"}
ChannelOptions ==
  [untilWrite : BOOLEAN, writeBuffered : BOOLEAN, peerReads : BOOLEAN,
   ops : SUBSET WriteOps]

ASSUME ConstantsAssumption ==
  /\ Writers \cap Closers = {}
  /\ Writers \cap Drainers = {}
  /\ Closers \cap Drainers = {}
  /\ QueueSize \in Nat \ {0}
  /\ MaxWait \in Nat
  /\ Options \subseteq ChannelOptions
  /\ MaxWrites \in Nat

VARIABLES
  options,       \* how this channel was made and is used: Init picks, no step changes
  writeQueue,    \* the Go channel of packets
  running,       \* "idle" or "running"
  writeBuffers,  \* the batch writeOnce has not handed over yet
  closed,        \* the flag Close sets first
  closeErr,      \* "nil" or "err"
  ctxDone,       \* the channel's context is done
  transport,     \* "open" until Close closes it
  failed,        \* a send failed: writes fail from then on
  buffered,      \* packets in the transport's own write buffer
  wire,          \* packets the transport has sent
  waited,        \* maxWaitNum of the Close in progress
  pc,            \* where every goroutine is
  op,            \* the operation a writer is in
  writes,        \* number of writes a writer has begun
  outcome,       \* how a writer's last finished call ended
  inactive,      \* how often the inactive event was fired
  accepted,      \* history: packets in the order they entered the queue
  promised       \* history: Returned when Close was entered

chanVars  == <<options, writeQueue, accepted>>
sendVars  == <<writeBuffers, buffered, wire, failed>>
closeVars == <<closed, closeErr, ctxDone, waited, inactive, promised>>
callVars  == <<op, writes, outcome>>
vars == <<chanVars, sendVars, closeVars, callVars, running, transport, pc>>

UntilWrite == options.untilWrite
WriteBuffered == options.writeBuffered

Procs == Writers \cup Closers \cup Drainers

CloseLabels == {"closeCas", "closeWait", "closeErr", "closeTransport",
                "closeCancel", "closeInactive"}
WriterLabels == CloseLabels \cup
  {"idle", "entry", "waitDone", "check", "select", "trySend", "recover"}
CloserLabels == CloseLabels \cup {"start", "done"}
DrainerLabels == CloseLabels \cup
  {"off", "top", "fill", "writev", "more", "flush", "storeIdle",
   "recheck", "reCas", "panic"}

\* Where a goroutine is when it is in no call of the channel.
Home(p) == IF p \in Writers THEN "idle"
           ELSE IF p \in Closers THEN "done" ELSE "off"

Goto(p, label) == pc' = [pc EXCEPT ![p] = label]

Packet(w) == <<w, writes[w]>>
Packets == Writers \X (1 .. MaxWrites)

IsAccepted(m) == \E i \in DOMAIN accepted : accepted[i] = m
OnWire(m) == \E i \in DOMAIN wire : wire[i] = m

\* The packets whose write has returned success.
Returned ==
  {m \in Packets :
     IsAccepted(m) /\ ~(pc[m[1]] = "trySend" /\ writes[m[1]] = m[2])}

\* What the transport is given reaches the peer.
Working == transport = "open" /\ ~failed

\* cap(writeBuffers): the most packets one Writev sends.
BatchCap == QueueSize \div 2 + 1

Init ==
  /\ options \in Options
  /\ writeQueue = <<>> /\ writeBuffers = <<>> /\ buffered = <<>> /\ wire = <<>>
  /\ running = "idle" /\ closed = FALSE /\ closeErr = "nil" /\ ctxDone = FALSE
  /\ transport = "open" /\ waited = 0 /\ inactive = 0
  /\ pc = [p \in Procs |-> IF p \in Closers THEN "start" ELSE Home(p)]
  /\ op = [w \in Writers |-> "none"]
  /\ writes = [w \in Writers |-> 0]
  /\ outcome = [w \in Writers |-> "none"]
  /\ accepted = <<>> /\ promised = {} /\ failed = FALSE

-----------------------------------------------------------------------------
(* Writers: Write, Write1 and Writev, CtxWrite1 and CtxWritev.             *)

\* A writer begins a call.  CtxWrite1 and CtxWritev go straight to the queue,
\* Write1 and Writev look at closeErr first, Write looks at closed first.
Call(w, o) ==
  /\ pc[w] = "idle" /\ writes[w] < MaxWrites
  /\ writes' = [writes EXCEPT ![w] = @ + 1]
  /\ op' = [op EXCEPT ![w] = o]
  /\ outcome' = [outcome EXCEPT ![w] = "none"]
  /\ Goto(w, CASE o = "Write" -> "entry"
               [] o = "Write1" -> "check"
               [] o = "CtxWrite1" -> "select")
  /\ UNCHANGED <<chanVars, sendVars, closeVars, running, transport>>

\* Write: IsActive.
WriteEntry(w) ==
  /\ pc[w] = "entry"
  /\ Goto(w, IF closed THEN "waitDone" ELSE "check")
  /\ UNCHANGED <<chanVars, sendVars, closeVars, callVars, running, transport>>

\* The call ends with `out' and no packet queued.  Under Write an error is
\* thrown by the head handler and recovered in invokeMethod; (0, nil) is not.
Refuse(w, out) ==
  /\ outcome' = [outcome EXCEPT ![w] = out]
  /\ Goto(w, IF op[w] = "Write" /\ out # "dropped" THEN "recover" ELSE "idle")
  /\ UNCHANGED <<chanVars, sendVars, closeVars, op, writes, running,
                 transport>>

\* Write on an inactive channel blocks until the context is done.
WriteInactive(w) ==
  /\ pc[w] = "waitDone" /\ ctxDone
  /\ outcome' = [outcome EXCEPT ![w] = IF closeErr = "nil" THEN "dropped" ELSE "closed"]
  /\ Goto(w, "idle")
  /\ UNCHANGED <<chanVars, sendVars, closeVars, op, writes, running,
                 transport>>

CheckCloseErr(w) ==
  /\ pc[w] = "check"
  /\ \/ closeErr # "nil" /\ Refuse(w, "closed")
     \/ /\ closeErr = "nil" /\ Goto(w, "select")
        /\ UNCHANGED <<chanVars, sendVars, closeVars, callVars, running, transport>>

\* Mutant: the queue is not bounded.
MutantSelectEnqueue(w) ==
  /\ pc[w] = "select"
  /\ writeQueue' = Append(writeQueue, Packet(w))
  /\ accepted' = Append(accepted, Packet(w))
  /\ Goto(w, "trySend")
  /\ UNCHANGED <<options, sendVars, closeVars, callVars, running, transport>>

\* The cases of the select in asyncWrite: Go takes any that is ready.
SelectEnqueue(w) ==
  /\ pc[w] = "select" /\ Len(writeQueue) < QueueSize
  /\ writeQueue' = Append(writeQueue, Packet(w))
  /\ accepted' = Append(accepted, Packet(w))
  /\ Goto(w, "trySend")
  /\ UNCHANGED <<options, sendVars, closeVars, callVars, running, transport>>

\* The context of a CtxWrite1 expires or is cancelled by the caller.
SelectExpired(w) ==
  pc[w] = "select" /\ op[w] = "CtxWrite1" /\ Refuse(w, "expired")

\* closeErr is still nil when the context was cancelled by its parent or by
\* Close(nil): the call then returns (0, nil).
SelectClosed(w) ==
  /\ pc[w] = "select" /\ ctxDone
  /\ Refuse(w, IF closeErr = "nil" THEN "dropped" ELSE "closed")

\* default: only without untilWrite and with no other case ready.
SelectFull(w) ==
  /\ pc[w] = "select" /\ ~UntilWrite
  /\ Len(writeQueue) = QueueSize /\ ~ctxDone
  /\ Refuse(w, "noSpace")

\* Mutant: a load of running and a store where the code has one CAS, so the
\* load may be stale: the launch does not depend on it.
MutantTrySend(w) ==
  /\ pc[w] = "trySend"
  /\ running' = "running"
  /\ \E d \in Drainers :
       /\ pc[d] = "off"
       /\ pc' = [pc EXCEPT ![w] = "idle", ![d] = "top"]
  /\ outcome' = [outcome EXCEPT ![w] = "ok"]
  /\ UNCHANGED <<chanVars, sendVars, closeVars, op, writes, transport>>

\* try send: the CAS, and the launch of writeOnce when it succeeds.  Between
\* the two only this goroutine acts, and a launched goroutine may be late.
TrySend(w) ==
  /\ pc[w] = "trySend"
  /\ \/ /\ running = "idle" /\ running' = "running"
        /\ \E d \in Drainers :
             /\ pc[d] = "off"
             /\ pc' = [pc EXCEPT ![w] = "idle", ![d] = "top"]
     \/ running = "running" /\ Goto(w, "idle") /\ UNCHANGED running
  /\ outcome' = [outcome EXCEPT ![w] = "ok"]
  /\ UNCHANGED <<chanVars, sendVars, closeVars, op, writes, transport>>

\* invokeMethod: on an open channel the exception is fired through the
\* pipeline, where a handler (the tail at the latest) may close the channel.
Recover(w) ==
  /\ pc[w] = "recover"
  /\ \/ Goto(w, "idle")
     \/ ~closed /\ Goto(w, "closeCas")
  /\ UNCHANGED <<chanVars, sendVars, closeVars, callVars, running, transport>>

-----------------------------------------------------------------------------
(* Drainers: writeOnce.                                                    *)

DrainTop(d) ==
  /\ pc[d] = "top"
  /\ writeBuffers' = <<>>
  /\ Goto(d, "fill")
  /\ UNCHANGED <<chanVars, buffered, wire, failed, closeVars, callVars, running,
                 transport>>

PollPacket(d) ==
  /\ pc[d] = "fill" /\ Len(writeBuffers) < BatchCap /\ writeQueue # <<>>
  /\ writeBuffers' = Append(writeBuffers, Head(writeQueue))
  /\ writeQueue' = Tail(writeQueue)
  /\ UNCHANGED <<options, accepted, buffered, wire, failed, closeVars, callVars,
                 running, transport, pc>>

PollDone(d) ==
  /\ pc[d] = "fill" /\ (Len(writeBuffers) = BatchCap \/ writeQueue = <<>>)
  /\ Goto(d, IF writeBuffers = <<>> THEN "flush" ELSE "writev")
  /\ UNCHANGED <<chanVars, sendVars, closeVars, callVars, running, transport>>

\* Writev takes the next packet of the batch; it returns after the last one.
\* A bufio.Writer with room does not notice that the connection is closed.
WritevPacket(d) ==
  /\ pc[d] = "writev" /\ writeBuffers # <<>>
  /\ ~failed /\ (WriteBuffered \/ transport = "open")
  /\ writeBuffers' = Tail(writeBuffers)
  /\ IF WriteBuffered
     THEN buffered' = Append(buffered, Head(writeBuffers)) /\ UNCHANGED wire
     ELSE wire' = Append(wire, Head(writeBuffers)) /\ UNCHANGED buffered
  /\ Goto(d, IF Len(writeBuffers) = 1 THEN "more" ELSE "writev")
  /\ UNCHANGED <<chanVars, failed, closeVars, callVars, running, transport>>

\* During Writev a full bufio.Writer sends what it holds.
Spill(d) ==
  /\ pc[d] = "writev" /\ Working /\ buffered # <<>>
  /\ wire' = wire \o buffered
  /\ buffered' = <<>>
  /\ UNCHANGED <<chanVars, writeBuffers, failed, closeVars, callVars, running,
                 transport, pc>>

\* The first n packets of the transport's buffer are sent.
SendBuffered(n) ==
  /\ n > 0 => Working
  /\ wire' = wire \o SubSeq(buffered, 1, n)
  /\ buffered' = SubSeq(buffered, n + 1, Len(buffered))

\* A send fails, after some packets of the buffer were sent: the connection
\* broke, or somebody closed it.  A failed bufio.Writer keeps its error.
SendFails(d) ==
  /\ \E n \in 0 .. Len(buffered) : SendBuffered(n)
  /\ failed' = TRUE
  /\ Goto(d, "panic")
  /\ UNCHANGED <<chanVars, writeBuffers, closeVars, callVars, running, transport>>

WritevFail(d) == pc[d] = "writev" /\ SendFails(d)

\* Mutant: the transport is not flushed.
MutantMorePackets(d) ==
  /\ pc[d] = "more"
  /\ Goto(d, IF writeQueue # <<>> THEN "top" ELSE "storeIdle")
  /\ UNCHANGED <<chanVars, sendVars, closeVars, callVars, running, transport>>

MorePackets(d) ==
  /\ pc[d] = "more"
  /\ Goto(d, IF writeQueue # <<>> THEN "top" ELSE "flush")
  /\ UNCHANGED <<chanVars, sendVars, closeVars, callVars, running, transport>>

\* Flush: a no-op on a rawConn; on a bufWriteConn it sends what is buffered.
Flush(d) ==
  /\ pc[d] = "flush"
  /\ WriteBuffered => ~failed /\ (buffered = <<>> \/ transport = "open")
  /\ wire' = wire \o buffered
  /\ buffered' = <<>>
  /\ Goto(d, "storeIdle")
  /\ UNCHANGED <<chanVars, writeBuffers, failed, closeVars, callVars, running,
                 transport>>

FlushFail(d) ==
  /\ pc[d] = "flush" /\ WriteBuffered /\ (failed \/ buffered # <<>>)
  /\ SendFails(d)

StoreIdle(d) ==
  /\ pc[d] = "storeIdle"
  /\ running' = "idle"
  /\ Goto(d, "recheck")
  /\ UNCHANGED <<chanVars, sendVars, closeVars, callVars, transport>>

\* Mutant: no double check.
MutantRecheck(d) ==
  /\ pc[d] = "recheck"
  /\ Goto(d, "off")
  /\ UNCHANGED <<chanVars, sendVars, closeVars, callVars, running, transport>>

\* double check
Recheck(d) ==
  /\ pc[d] = "recheck"
  /\ Goto(d, IF writeQueue # <<>> THEN "reCas" ELSE "off")
  /\ UNCHANGED <<chanVars, sendVars, closeVars, callVars, running, transport>>

\* Mutant: after the double check the flag is stored without a CAS.
MutantReCas(d) ==
  /\ pc[d] = "reCas"
  /\ running' = "running"
  /\ Goto(d, "top")
  /\ UNCHANGED <<chanVars, sendVars, closeVars, callVars, transport>>

ReCas(d) ==
  /\ pc[d] = "reCas"
  /\ \/ running = "idle" /\ running' = "running" /\ Goto(d, "top")
     \/ running = "running" /\ Goto(d, "off") /\ UNCHANGED running
  /\ UNCHANGED <<chanVars, sendVars, closeVars, callVars, transport>>

\* Mutant: the failed drainer closes the channel with the flag still set.
MutantPanic(d) ==
  /\ pc[d] = "panic"
  /\ Goto(d, "closeCas")
  /\ UNCHANGED <<chanVars, sendVars, closeVars, callVars, running, transport>>

\* The deferred recover of writeOnce: store idle, then Close with the error.
Panic(d) ==
  /\ pc[d] = "panic"
  /\ running' = "idle"
  /\ Goto(d, "closeCas")
  /\ UNCHANGED <<chanVars, sendVars, closeVars, callVars, transport>>

-----------------------------------------------------------------------------
(* Close, by whichever goroutine calls it.                                 *)

UserClose(c) ==
  /\ pc[c] = "start"
  /\ Goto(c, "closeCas")
  /\ UNCHANGED <<chanVars, sendVars, closeVars, callVars, running, transport>>

\* Mutant: a load of closed and a store where the code has one CAS.
MutantCloseCas(p) ==
  /\ pc[p] = "closeCas"
  /\ closed' = TRUE /\ promised' = Returned
  /\ Goto(p, "closeWait")
  /\ UNCHANGED <<chanVars, sendVars, callVars, closeErr, ctxDone, waited, inactive,
                 running, transport>>

CloseCas(p) ==
  /\ pc[p] = "closeCas"
  /\ \/ /\ ~closed
        /\ closed' = TRUE /\ promised' = Returned
        /\ Goto(p, "closeWait")
     \/ closed /\ Goto(p, Home(p)) /\ UNCHANGED <<closed, promised>>
  /\ UNCHANGED <<chanVars, sendVars, callVars, closeErr, ctxDone, waited, inactive,
                 running, transport>>

\* wait async send finished: one more round of sleep (unbounded, and so no
\* step of its own, under untilWrite).
CloseSleep(p) ==
  /\ pc[p] = "closeWait" /\ running # "idle" /\ ~UntilWrite /\ waited < MaxWait
  /\ waited' = waited + 1
  /\ UNCHANGED <<chanVars, sendVars, callVars, closed, closeErr, ctxDone, inactive,
                 promised, running, transport, pc>>

CloseWaitEnds(p) ==
  /\ pc[p] = "closeWait"
  /\ running = "idle" \/ (~UntilWrite /\ waited >= MaxWait)
  /\ Goto(p, "closeErr")
  /\ UNCHANGED <<chanVars, sendVars, closeVars, callVars, running, transport>>

\* Close(nil) is legal for users; writeOnce and the exceptions pass an error.
CloseSetErr(p) ==
  /\ pc[p] = "closeErr"
  /\ \E e \in {"nil", "err"} :
       /\ e = "nil" => p \in Closers
       /\ closeErr' = e
  /\ Goto(p, "closeTransport")
  /\ UNCHANGED <<chanVars, sendVars, callVars, closed, ctxDone, waited, inactive,
                 promised, running, transport>>

CloseTransport(p) ==
  /\ pc[p] = "closeTransport"
  /\ transport' = "closed"
  /\ Goto(p, "closeCancel")
  /\ UNCHANGED <<chanVars, sendVars, closeVars, callVars, running>>

\* Mutant: the context is not cancelled.
MutantCloseCancel(p) ==
  /\ pc[p] = "closeCancel"
  /\ Goto(p, "closeInactive")
  /\ UNCHANGED <<chanVars, sendVars, closeVars, callVars, running, transport>>

CloseCancel(p) ==
  /\ pc[p] = "closeCancel"
  /\ ctxDone' = TRUE
  /\ Goto(p, "closeInactive")
  /\ UNCHANGED <<chanVars, sendVars, callVars, closed, closeErr, waited, inactive,
                 promised, running, transport>>

CloseInactive(p) ==
  /\ pc[p] = "closeInactive"
  /\ inactive' = inactive + 1
  /\ Goto(p, Home(p))
  /\ UNCHANGED <<chanVars, sendVars, callVars, closed, closeErr, ctxDone, waited,
                 promised, running, transport>>

\* The bootstrap's context, the parent of the channel's, is cancelled.
ParentCancel ==
  /\ ~ctxDone /\ ctxDone' = TRUE
  /\ UNCHANGED <<chanVars, sendVars, callVars, closed, closeErr, waited, inactive,
                 promised, running, transport, pc>>

-----------------------------------------------------------------------------
WriterStep(w) ==
  \/ WriteEntry(w) \/ WriteInactive(w) \/ CheckCloseErr(w) \/ SelectEnqueue(w)
  \/ SelectClosed(w) \/ SelectFull(w) \/ TrySend(w) \/ Recover(w)

\* Steps of writeOnce that do not depend on the peer.
DrainerStep(d) ==
  \/ DrainTop(d) \/ PollPacket(d) \/ PollDone(d) \/ MorePackets(d)
  \/ StoreIdle(d) \/ Recheck(d) \/ ReCas(d) \/ Panic(d)

\* Progress, or the end, of a transport call.
TransportStep(d) == WritevPacket(d) \/ Spill(d) \/ Flush(d)
TransportFail(d) == WritevFail(d) \/ FlushFail(d)

CloseStep(p) ==
  \/ CloseCas(p) \/ CloseSleep(p) \/ CloseWaitEnds(p) \/ CloseSetErr(p)
  \/ CloseTransport(p) \/ CloseCancel(p) \/ CloseInactive(p)

\* Every call has returned and nobody will make another one.
Rest ==
  /\ \A w \in Writers : pc[w] = "idle" /\ writes[w] = MaxWrites
  /\ \A c \in Closers : pc[c] = "done"
  /\ \A d \in Drainers : pc[d] = "off"
  /\ ctxDone
  /\ UNCHANGED vars

Next ==
  \/ \E w \in Writers :
       (\E o \in options.ops : Call(w, o)) \/ SelectExpired(w) \/ WriterStep(w)
  \/ \E d \in Drainers : DrainerStep(d) \/ TransportStep(d) \/ TransportFail(d)
  \/ \E c \in Closers : UserClose(c)
  \/ \E p \in Procs : CloseStep(p)
  \/ ParentCancel
  \/ Rest

Spec == Init /\ [][Next]_vars

\* The Go scheduler runs every goroutine that can run, and a call on a
\* transport that is no longer open returns.  Nobody has to call anything.
Scheduling ==
  /\ \A w \in Writers : WF_vars(WriterStep(w))
  /\ \A d \in Drainers : WF_vars(DrainerStep(d))
  /\ \A d \in Drainers : WF_vars(~Working /\ (TransportFail(d) \/ Flush(d)))
  /\ \A p \in Procs : WF_vars(CloseStep(p))

FairSpec == Spec /\ Scheduling

\* In addition a peer that reads: a call on an open transport makes progress.
PeerSpec ==
  FairSpec /\ \A d \in Drainers : WF_vars(options.peerReads /\ TransportStep(d))

-----------------------------------------------------------------------------
TypeOK ==
  /\ options \in Options
  /\ writeQueue \in Seq(Packets) /\ Len(writeQueue) <= QueueSize
  /\ writeBuffers \in Seq(Packets) /\ Len(writeBuffers) <= BatchCap
  /\ buffered \in Seq(Packets) /\ wire \in Seq(Packets) /\ accepted \in Seq(Packets)
  /\ running \in {"idle", "running"}
  /\ closed \in BOOLEAN /\ ctxDone \in BOOLEAN
  /\ closeErr \in {"nil", "err"}
  /\ transport \in {"open", "closed"} /\ failed \in BOOLEAN
  /\ waited \in 0 .. MaxWait /\ inactive \in Nat
  /\ pc \in [Procs -> WriterLabels \cup CloserLabels \cup DrainerLabels]
  /\ \A w \in Writers : pc[w] \in WriterLabels
  /\ \A c \in Closers : pc[c] \in CloserLabels
  /\ \A d \in Drainers : pc[d] \in DrainerLabels
  /\ op \in [Writers -> WriteOps \cup {"none"}]
  /\ writes \in [Writers -> 0 .. MaxWrites]
  /\ \A w \in Writers : pc[w] # "idle" => writes[w] \in 1 .. MaxWrites
  /\ outcome \in [Writers -> {"none", "ok", "closed", "dropped", "expired", "noSpace"}]
  /\ promised \subseteq Packets

\* Drainer d is in the part of writeOnce that uses writeBuffers and the
\* transport.
Sending(d) ==
  pc[d] \in {"top", "fill", "writev", "more", "flush", "storeIdle", "panic"}

\* The write goroutine is unique: writeBuffers and the transport's write side
\* are never used by two writeOnce at a time, whatever mix of first sends,
\* re-checks and failed sends launched them (channel.go, writeOnce, running).
DrainExclusive ==
  \A d, e \in Drainers : Sending(d) /\ Sending(e) => d = e

\* Somebody is in writeOnce, will look at the queue again or will try to launch.
Attended ==
  \/ \E d \in Drainers : Sending(d) \/ pc[d] \in {"recheck", "reCas"}
  \/ \E w \in Writers : pc[w] = "trySend"

\* No lost wake-up: while packets wait on a transport that has not failed
\* somebody is going to send them, even in the window between a drainer's
\* last poll, its store of idle and a writer's failed CAS (channel.go,
\* "double check").
NoStrandedPacket == writeQueue # <<>> /\ ~failed => Attended

InFlight == wire \o buffered \o writeBuffers \o writeQueue

\* Until a send fails every accepted packet is on the wire, in the
\* transport's buffer, in the batch or in the queue, once and in order; after
\* a failure what was sent is still a prefix of what was accepted: no gap, no
\* duplicate, no reordering (channel.go, asyncWrite and writeOnce).
StreamOrder ==
  /\ ~failed => InFlight = accepted
  /\ \E n \in 0 .. Len(accepted) : wire \o buffered = SubSeq(accepted, 1, n)

\* The flag is idle only when nothing is left in the batch or the transport's
\* buffer: the drainer flushes before it lets go, so Close, which waits for
\* idle, cuts nothing short that was polled before (channel.go, "flush
\* transport buffer").
IdleIsFlushed ==
  running = "idle" /\ ~failed => buffered = <<>> /\ writeBuffers = <<>>

\* However many goroutines close the channel (users, a failed send, a failed
\* Write), one of them runs the body of Close: the inactive event is fired at
\* most once, and only after the transport was closed and the context was
\* cancelled (channel.go, Close).
InactiveOnce ==
  /\ inactive <= 1
  /\ inactive = 1 => transport = "closed" /\ ctxDone /\ closed

\* The write side implements the ordered stream: packets reach the peer in
\* the order of the queue, each once, and none after a failure or after Close
\* closed the transport (channel.go, asyncWrite, writeOnce and Close).
Stream == INSTANCE OrderedStream WITH
            Messages <- Packets, delivered <- wire, up <- Working
ImplementsStream == Stream!Spec

\* Before Close lets go of a working transport, every packet whose write had
\* returned success when Close was called is on the wire (channel.go,
\* "wait async send finished").  The code does not achieve this.
CloseWaitsForSends ==
  \A p \in Procs :
    UntilWrite /\ pc[p] = "closeTransport" /\ Working =>
      \A m \in promised : OnWire(m)

\* A peer that reads gets every accepted packet unless the channel breaks or
\* is closed: none waits in a queue nobody drains or a buffer nobody flushes
\* (channel.go, writeOnce).
AcceptedIsSent == options.peerReads => Stream!Carried

\* Every goroutine that calls Close gets out of it, the one that sends
\* included when a failed send makes it close the channel (channel.go, Close,
\* "wait async send finished", and the deferred recover of writeOnce).
CloseReturns ==
  \A p \in Procs : pc[p] = "closeCas" ~> pc[p] = Home(p)

\* Every write call returns: nobody stays blocked on a full queue after the
\* drainer failed, or in Write on a channel somebody is closing (channel.go,
\* asyncWrite and Write).  Under untilWrite that needs a peer that reads.
WriteReturns ==
  \A w \in Writers : pc[w] # "idle" ~> pc[w] = "idle"
=============================================================================
