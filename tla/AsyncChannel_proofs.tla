------------------------ MODULE AsyncChannel_proofs ------------------------
(***************************************************************************)
(* Proofs about AsyncChannel, for any number of writers, closers and       *)
(* drainers, any queue size and either kind of transport.                  *)
(*                                                                         *)
(* The inductive invariant is IndInv: the types, the ownership of the flag *)
(* `running' (Ownership), the wake-up condition (NoStrandedPacket), where  *)
(* the batch and the transport's buffer may hold packets (Buffers), and    *)
(* the account of every accepted packet (StreamOrder).                     *)
(***************************************************************************)
EXTENDS AsyncChannel, SequenceTheorems, TLAPS

\* running is the lock of writeOnce: it is set exactly when one drainer is
\* between its launch and its store of idle.
Ownership ==
  /\ \A d \in Drainers : Sending(d) => running = "running"
  /\ running = "running" => \E d \in Drainers : Sending(d)
  /\ DrainExclusive

\* Only a failed send panics; until then the batch is empty outside of fill
\* and writev, and what the transport buffered is gone once it was flushed.
Buffers ==
  /\ \A d \in Drainers : pc[d] = "panic" => failed
  /\ ~WriteBuffered => buffered = <<>>
  /\ ~failed =>
       /\ \A d \in Drainers :
            pc[d] \in {"top", "more", "flush", "storeIdle"} => writeBuffers = <<>>
       /\ \A d \in Drainers : pc[d] = "storeIdle" => buffered = <<>>
  /\ IdleIsFlushed

IndInv == TypeOK /\ Ownership /\ NoStrandedPacket /\ Buffers /\ StreamOrder

-----------------------------------------------------------------------------
(* Types.                                                                  *)

\* writeBuffers has room for at least one packet.
LEMMA BatchCapPositive == BatchCap \in Nat /\ BatchCap >= 1
BY ConstantsAssumption DEF BatchCap

\* The operations of a channel are among the ones there are.
LEMMA OpsAreWriteOps == options \in Options => options.ops \subseteq WriteOps
BY ConstantsAssumption DEF ChannelOptions

\* A new channel is well typed.
LEMMA InitType == Init => TypeOK
<1>1. SUFFICES ASSUME Init PROVE TypeOK
  OBVIOUS
<1>2. /\ writeQueue \in Seq(Packets) /\ Len(writeQueue) <= QueueSize
      /\ writeBuffers \in Seq(Packets) /\ Len(writeBuffers) <= BatchCap
      /\ buffered \in Seq(Packets) /\ wire \in Seq(Packets) /\ accepted \in Seq(Packets)
  BY <1>1, BatchCapPositive, ConstantsAssumption DEF Init
<1>3. /\ \A w \in Writers : pc[w] = "idle"
      /\ \A c \in Closers : pc[c] = "start"
      /\ \A d \in Drainers : pc[d] = "off"
      /\ DOMAIN pc = Procs /\ pc = [p \in Procs |-> pc[p]]
  BY <1>1, ConstantsAssumption DEF Init, Procs, Home
<1>4. pc \in [Procs -> WriterLabels \cup CloserLabels \cup DrainerLabels]
  BY <1>3 DEF Procs, WriterLabels, CloserLabels, DrainerLabels
<1>5. /\ \A w \in Writers : pc[w] \in WriterLabels
      /\ \A c \in Closers : pc[c] \in CloserLabels
      /\ \A d \in Drainers : pc[d] \in DrainerLabels
  BY <1>3 DEF WriterLabels, CloserLabels, DrainerLabels
<1>6. /\ running \in {"idle", "running"} /\ closeErr \in {"nil", "err"}
      /\ transport \in {"open", "closed"}
      /\ waited \in 0 .. MaxWait /\ inactive \in Nat
  BY <1>1, ConstantsAssumption DEF Init
<1>7. closed \in BOOLEAN /\ ctxDone \in BOOLEAN /\ failed \in BOOLEAN
  BY <1>1 DEF Init
<1>8. /\ op \in [Writers -> WriteOps \cup {"none"}]
      /\ writes \in [Writers -> 0 .. MaxWrites]
      /\ outcome \in [Writers -> {"none", "ok", "closed", "dropped", "expired", "noSpace"}]
      /\ promised \subseteq Packets
  BY <1>1, ConstantsAssumption DEF Init
<1>9. options \in Options
  BY <1>1 DEF Init
<1>10. QED
  BY <1>2, <1>3, <1>4, <1>5, <1>6, <1>7, <1>8, <1>9 DEF TypeOK

\* Every step keeps the types.
LEMMA TypeStep == TypeOK /\ [Next]_vars => TypeOK'
<1> SUFFICES ASSUME TypeOK, [Next]_vars PROVE TypeOK'
  OBVIOUS
<1> USE ConstantsAssumption, BatchCapPositive
    DEF TypeOK, chanVars, sendVars, closeVars, callVars, Goto, Home, Procs,
        CloseLabels, WriterLabels, CloserLabels, DrainerLabels
<1>1. ASSUME NEW w \in Writers, NEW o \in options.ops, Call(w, o) PROVE TypeOK'
  <2>1. o \in WriteOps
    BY OpsAreWriteOps
  <2>2. QED
    BY <1>1, <2>1 DEF Call, WriteOps
<1>2. ASSUME NEW w \in Writers, WriteEntry(w) PROVE TypeOK'
  BY <1>2 DEF WriteEntry
<1>3. ASSUME NEW w \in Writers, WriteInactive(w) PROVE TypeOK'
  BY <1>3 DEF WriteInactive
<1>4. ASSUME NEW w \in Writers, CheckCloseErr(w) PROVE TypeOK'
  <2>1. CASE closeErr # "nil" /\ Refuse(w, "closed")
    BY <2>1, <1>4 DEF CheckCloseErr, Refuse
  <2>2. CASE /\ Goto(w, "select")
             /\ UNCHANGED <<chanVars, sendVars, closeVars, callVars, running, transport>>
    BY <2>2, <1>4 DEF CheckCloseErr
  <2>3. QED
    BY <2>1, <2>2, <1>4 DEF CheckCloseErr
<1>5. ASSUME NEW w \in Writers, SelectEnqueue(w) PROVE TypeOK'
  <2>1. Packet(w) \in Packets
    BY <1>5 DEF SelectEnqueue, Packet, Packets
  <2>2. /\ writeQueue' \in Seq(Packets) /\ Len(writeQueue') <= QueueSize
        /\ accepted' \in Seq(Packets)
    BY <2>1, <1>5 DEF SelectEnqueue
  <2>3. QED
    BY <2>2, <1>5 DEF SelectEnqueue
<1>6. ASSUME NEW w \in Writers, SelectExpired(w) PROVE TypeOK'
  BY <1>6 DEF SelectExpired, Refuse
<1>7. ASSUME NEW w \in Writers, SelectClosed(w) PROVE TypeOK'
  BY <1>7 DEF SelectClosed, Refuse
<1>8. ASSUME NEW w \in Writers, SelectFull(w) PROVE TypeOK'
  BY <1>8 DEF SelectFull, Refuse
<1>9. ASSUME NEW w \in Writers, TrySend(w) PROVE TypeOK'
  <2>1. \/ pc' = [pc EXCEPT ![w] = "idle"]
        \/ \E d \in Drainers : pc' = [pc EXCEPT ![w] = "idle", ![d] = "top"]
    BY <1>9 DEF TrySend
  <2>2. /\ running' \in {"idle", "running"}
        /\ outcome' = [outcome EXCEPT ![w] = "ok"]
        /\ UNCHANGED <<chanVars, sendVars, closeVars, op, writes, transport>>
    BY <1>9 DEF TrySend
  <2>3. /\ pc' \in [Procs -> WriterLabels \cup CloserLabels \cup DrainerLabels]
        /\ \A v \in Writers : pc'[v] \in WriterLabels /\ (pc'[v] = "idle" \/ pc[v] # "idle")
        /\ \A c \in Closers : pc'[c] \in CloserLabels
        /\ \A d \in Drainers : pc'[d] \in DrainerLabels
    <3>1. CASE pc' = [pc EXCEPT ![w] = "idle"]
      BY <3>1
    <3>2. CASE \E d \in Drainers : pc' = [pc EXCEPT ![w] = "idle", ![d] = "top"]
      <4>1. PICK d \in Drainers : pc' = [pc EXCEPT ![w] = "idle", ![d] = "top"]
        BY <3>2
      <4>2. \A q \in Procs : pc'[q] = IF q = d THEN "top" ELSE IF q = w THEN "idle" ELSE pc[q]
        BY <4>1
      <4>3. DOMAIN pc' = Procs /\ pc' = [q \in Procs |-> pc'[q]]
        BY <4>1
      <4>4. /\ \A v \in Writers : pc'[v] = "idle" \/ pc'[v] = pc[v]
            /\ \A c \in Closers : pc'[c] = pc[c]
            /\ \A e \in Drainers : pc'[e] = "top" \/ pc'[e] = pc[e]
        <5> HIDE DEF TypeOK
        <5>1. /\ \A v \in Writers : v \in Procs /\ v # d
              /\ \A c \in Closers : c \in Procs /\ c # d /\ c # w
              /\ \A e \in Drainers : e \in Procs /\ e # w
          OBVIOUS
        <5>2. QED
          BY ONLY <4>2, <5>1
      <4>5. \A q \in Procs : pc'[q] \in WriterLabels \cup CloserLabels \cup DrainerLabels
        BY <4>2
      <4>6. pc' \in [Procs -> WriterLabels \cup CloserLabels \cup DrainerLabels]
        BY <4>3, <4>5, Zenon
      <4>7. QED
        BY <4>4, <4>6
    <3>3. QED
      BY <2>1, <3>1, <3>2
  <2>4. QED
    BY <2>2, <2>3
<1>10. ASSUME NEW w \in Writers, Recover(w) PROVE TypeOK'
  <2>1. PICK l \in {"idle", "closeCas"} : pc' = [pc EXCEPT ![w] = l]
    BY <1>10 DEF Recover
  <2>2. UNCHANGED <<chanVars, sendVars, closeVars, callVars, running, transport>>
    BY <1>10 DEF Recover
  <2>3. /\ pc' \in [Procs -> WriterLabels \cup CloserLabels \cup DrainerLabels]
        /\ \A v \in Writers : pc'[v] \in WriterLabels /\ (pc'[v] = "idle" \/ pc[v] # "idle")
        /\ \A c \in Closers : pc'[c] \in CloserLabels
        /\ \A d \in Drainers : pc'[d] \in DrainerLabels
    BY <1>10, <2>1 DEF Recover
  <2>4. QED
    BY <2>2, <2>3
<1>11. ASSUME NEW d \in Drainers, DrainTop(d) PROVE TypeOK'
  <2>1. writeBuffers' \in Seq(Packets) /\ Len(writeBuffers') <= BatchCap
    BY <1>11 DEF DrainTop
  <2>2. QED
    BY <2>1, <1>11 DEF DrainTop
<1>12. ASSUME NEW d \in Drainers, PollPacket(d) PROVE TypeOK'
  BY <1>12 DEF PollPacket
<1>13. ASSUME NEW d \in Drainers, PollDone(d) PROVE TypeOK'
  BY <1>13 DEF PollDone
<1>14. ASSUME NEW d \in Drainers, WritevPacket(d) PROVE TypeOK'
  <2>1. /\ Head(writeBuffers) \in Packets /\ Tail(writeBuffers) \in Seq(Packets)
        /\ Len(Tail(writeBuffers)) <= BatchCap
    BY <1>14 DEF WritevPacket
  <2>2. /\ writeBuffers' \in Seq(Packets) /\ Len(writeBuffers') <= BatchCap
        /\ buffered' \in Seq(Packets) /\ wire' \in Seq(Packets)
    <3>1. /\ writeBuffers' = Tail(writeBuffers)
          /\ WriteBuffered => buffered' = Append(buffered, Head(writeBuffers)) /\ wire' = wire
          /\ ~WriteBuffered => wire' = Append(wire, Head(writeBuffers)) /\ buffered' = buffered
      BY <1>14 DEF WritevPacket
    <3>2. writeBuffers' \in Seq(Packets) /\ Len(writeBuffers') <= BatchCap
      BY <2>1, <3>1
    <3>3. /\ Append(buffered, Head(writeBuffers)) \in Seq(Packets)
          /\ Append(wire, Head(writeBuffers)) \in Seq(Packets)
          /\ buffered \in Seq(Packets) /\ wire \in Seq(Packets)
      BY <2>1
    <3> HIDE DEF TypeOK
    <3>4. buffered' \in Seq(Packets) /\ wire' \in Seq(Packets)
      BY <3>1, <3>3, Zenon
    <3>5. QED
      BY <3>2, <3>4
  <2>3. QED
    BY <2>2, <1>14 DEF WritevPacket
<1>15. ASSUME NEW d \in Drainers, Spill(d) PROVE TypeOK'
  BY <1>15 DEF Spill
<1>16. ASSUME NEW d \in Drainers, WritevFail(d) PROVE TypeOK'
  BY <1>16 DEF WritevFail, SendFails, SendBuffered
<1>17. ASSUME NEW d \in Drainers, MorePackets(d) PROVE TypeOK'
  BY <1>17 DEF MorePackets
<1>18. ASSUME NEW d \in Drainers, Flush(d) PROVE TypeOK'
  BY <1>18 DEF Flush
<1>19. ASSUME NEW d \in Drainers, FlushFail(d) PROVE TypeOK'
  BY <1>19 DEF FlushFail, SendFails, SendBuffered
<1>20. ASSUME NEW d \in Drainers, StoreIdle(d) PROVE TypeOK'
  BY <1>20 DEF StoreIdle
<1>21. ASSUME NEW d \in Drainers, Recheck(d) PROVE TypeOK'
  BY <1>21 DEF Recheck
<1>22. ASSUME NEW d \in Drainers, ReCas(d) PROVE TypeOK'
  <2>1. pc' \in [Procs -> WriterLabels \cup CloserLabels \cup DrainerLabels]
    BY <1>22 DEF ReCas
  <2>2. /\ \A w \in Writers : pc'[w] = pc[w]
        /\ \A c \in Closers : pc'[c] = pc[c]
        /\ \A e \in Drainers : pc'[e] = pc[e] \/ pc'[e] \in {"top", "off"}
    BY <1>22 DEF ReCas
  <2>3. running' \in {"idle", "running"}
    BY <1>22 DEF ReCas
  <2>4. QED
    BY <2>1, <2>2, <2>3, <1>22 DEF ReCas
<1>23. ASSUME NEW d \in Drainers, Panic(d) PROVE TypeOK'
  BY <1>23 DEF Panic
<1>24. ASSUME NEW c \in Closers, UserClose(c) PROVE TypeOK'
  BY <1>24 DEF UserClose
<1>25. ASSUME NEW p \in Procs, CloseCas(p) PROVE TypeOK'
  <2>1. promised' \subseteq Packets /\ closed' \in BOOLEAN
    BY <1>25 DEF CloseCas, Returned
  <2>2. CASE Goto(p, "closeWait")
    BY <2>1, <2>2, <1>25 DEF CloseCas
  <2>3. CASE Goto(p, Home(p))
    BY <2>1, <2>3, <1>25 DEF CloseCas
  <2>4. QED
    BY <2>2, <2>3, <1>25 DEF CloseCas
<1>26. ASSUME NEW p \in Procs, CloseSleep(p) PROVE TypeOK'
  BY <1>26 DEF CloseSleep
<1>27. ASSUME NEW p \in Procs, CloseWaitEnds(p) PROVE TypeOK'
  BY <1>27 DEF CloseWaitEnds
<1>28. ASSUME NEW p \in Procs, CloseSetErr(p) PROVE TypeOK'
  BY <1>28 DEF CloseSetErr
<1>29. ASSUME NEW p \in Procs, CloseTransport(p) PROVE TypeOK'
  BY <1>29 DEF CloseTransport
<1>30. ASSUME NEW p \in Procs, CloseCancel(p) PROVE TypeOK'
  BY <1>30 DEF CloseCancel
<1>31. ASSUME NEW p \in Procs, CloseInactive(p) PROVE TypeOK'
  BY <1>31 DEF CloseInactive
<1>32. CASE ParentCancel
  BY <1>32 DEF ParentCancel
<1>33. CASE UNCHANGED vars
  BY <1>33 DEF vars
<1>34. QED
  BY <1>1, <1>2, <1>3, <1>4, <1>5, <1>6, <1>7, <1>8, <1>9, <1>10, <1>11, <1>12, <1>13, <1>14, <1>15, <1>16, <1>17, <1>18, <1>19, <1>20, <1>21, <1>22, <1>23, <1>24, <1>25, <1>26, <1>27, <1>28, <1>29, <1>30, <1>31, <1>32, <1>33
  DEF Next, WriterStep, DrainerStep, TransportStep, TransportFail, CloseStep, Rest

\* Every variable keeps its type, the queue stays within its capacity and the
\* batch within its own (channel.go, newChannelWith and writeOnce).
THEOREM TypeInvariant == Spec => []TypeOK
<1>1. TypeOK /\ [Next]_vars => TypeOK'
  BY TypeStep
<1>2. QED
  BY InitType, <1>1, PTL DEF Spec

-----------------------------------------------------------------------------
(* Mutual exclusion of writeOnce.                                          *)

\* A step leaves the flag and the senders alone, or launches one sender on an
\* idle flag, or lets one sender go and leaves the flag idle.
SameSenders ==
  running' = running /\ \A d \in Drainers : Sending(d)' <=> Sending(d)

Launches(d) ==
  /\ running = "idle" /\ running' = "running" /\ Sending(d)'
  /\ \A e \in Drainers \ {d} : Sending(e)' <=> Sending(e)

LetsGo(d) ==
  /\ Sending(d) /\ ~Sending(d)' /\ running' = "idle"
  /\ \A e \in Drainers \ {d} : Sending(e)' <=> Sending(e)

\* Those are the only effects of a step on who sends.
LEMMA SenderSteps ==
  ASSUME TypeOK, [Next]_vars
  PROVE  SameSenders \/ \E d \in Drainers : Launches(d) \/ LetsGo(d)
<1>0. /\ pc \in [Procs -> WriterLabels \cup CloserLabels \cup DrainerLabels]
      /\ \A d \in Drainers : d \in Procs /\ d \notin Writers /\ d \notin Closers
  BY ConstantsAssumption DEF TypeOK, Procs
<1> USE <1>0 DEF Sending, Goto, callVars, closeVars
<1>1. ASSUME NEW w \in Writers, NEW o \in options.ops, Call(w, o) PROVE SameSenders
  BY <1>1 DEF Call, SameSenders
<1>2. ASSUME NEW w \in Writers, WriteEntry(w) PROVE SameSenders
  BY <1>2 DEF WriteEntry, SameSenders
<1>3. ASSUME NEW w \in Writers, WriteInactive(w) PROVE SameSenders
  BY <1>3 DEF WriteInactive, SameSenders
<1>4. ASSUME NEW w \in Writers, CheckCloseErr(w) PROVE SameSenders
  BY <1>4 DEF CheckCloseErr, Refuse, SameSenders
<1>5. ASSUME NEW w \in Writers, SelectEnqueue(w) PROVE SameSenders
  BY <1>5 DEF SelectEnqueue, Packet, Packets, SameSenders
<1>6. ASSUME NEW w \in Writers, SelectExpired(w) PROVE SameSenders
  BY <1>6 DEF SelectExpired, Refuse, SameSenders
<1>7. ASSUME NEW w \in Writers, SelectClosed(w) PROVE SameSenders
  BY <1>7 DEF SelectClosed, Refuse, SameSenders
<1>8. ASSUME NEW w \in Writers, SelectFull(w) PROVE SameSenders
  BY <1>8 DEF SelectFull, Refuse, SameSenders
<1>9. ASSUME NEW w \in Writers, TrySend(w)
      PROVE  SameSenders \/ \E d \in Drainers : Launches(d)
  <2>1. CASE running = "running" /\ Goto(w, "idle") /\ UNCHANGED running
    BY <2>1, <1>9 DEF SameSenders
  <2>2. ASSUME NEW d \in Drainers, running = "idle", running' = "running",
               pc[d] = "off", pc' = [pc EXCEPT ![w] = "idle", ![d] = "top"]
        PROVE  Launches(d)
    BY <2>2 DEF Launches
  <2>3. QED
    BY <2>1, <2>2, <1>9 DEF TrySend
<1>10. ASSUME NEW w \in Writers, Recover(w) PROVE SameSenders
  BY <1>10 DEF Recover, SameSenders
<1>11. ASSUME NEW d \in Drainers, DrainTop(d) PROVE SameSenders
  BY <1>11 DEF DrainTop, SameSenders
<1>12. ASSUME NEW d \in Drainers, PollPacket(d) PROVE SameSenders
  BY <1>12 DEF PollPacket, SameSenders
<1>13. ASSUME NEW d \in Drainers, PollDone(d) PROVE SameSenders
  BY <1>13 DEF PollDone, SameSenders
<1>14. ASSUME NEW d \in Drainers, WritevPacket(d) PROVE SameSenders
  BY <1>14 DEF WritevPacket, SameSenders
<1>15. ASSUME NEW d \in Drainers, Spill(d) PROVE SameSenders
  BY <1>15 DEF Spill, SameSenders
<1>16. ASSUME NEW d \in Drainers, WritevFail(d) PROVE SameSenders
  BY <1>16 DEF WritevFail, SendFails, SendBuffered, SameSenders
<1>17. ASSUME NEW d \in Drainers, MorePackets(d) PROVE SameSenders
  BY <1>17 DEF MorePackets, SameSenders
<1>18. ASSUME NEW d \in Drainers, Flush(d) PROVE SameSenders
  BY <1>18 DEF Flush, SameSenders
<1>19. ASSUME NEW d \in Drainers, FlushFail(d) PROVE SameSenders
  BY <1>19 DEF FlushFail, SendFails, SendBuffered, SameSenders
<1>20. ASSUME NEW d \in Drainers, StoreIdle(d) PROVE LetsGo(d)
  BY <1>20 DEF StoreIdle, LetsGo
<1>21. ASSUME NEW d \in Drainers, Recheck(d) PROVE SameSenders
  BY <1>21 DEF Recheck, SameSenders
<1>22. ASSUME NEW d \in Drainers, ReCas(d) PROVE SameSenders \/ Launches(d)
  <2>1. CASE running = "idle" /\ running' = "running" /\ Goto(d, "top")
    BY <2>1, <1>22 DEF ReCas, Launches
  <2>2. CASE running = "running" /\ Goto(d, "off") /\ UNCHANGED running
    BY <2>2, <1>22 DEF ReCas, SameSenders
  <2>3. QED
    BY <2>1, <2>2, <1>22 DEF ReCas
<1>23. ASSUME NEW d \in Drainers, Panic(d) PROVE LetsGo(d)
  BY <1>23 DEF Panic, LetsGo
<1>24. ASSUME NEW c \in Closers, UserClose(c) PROVE SameSenders
  BY <1>24 DEF UserClose, SameSenders
<1>25. ASSUME NEW p \in Procs, CloseCas(p) PROVE SameSenders
  BY <1>25 DEF CloseCas, Returned, SameSenders, Home, Procs
<1>26. ASSUME NEW p \in Procs, CloseSleep(p) PROVE SameSenders
  BY <1>26 DEF CloseSleep, SameSenders, Home, Procs
<1>27. ASSUME NEW p \in Procs, CloseWaitEnds(p) PROVE SameSenders
  BY <1>27 DEF CloseWaitEnds, SameSenders, Home, Procs
<1>28. ASSUME NEW p \in Procs, CloseSetErr(p) PROVE SameSenders
  BY <1>28 DEF CloseSetErr, SameSenders, Home, Procs
<1>29. ASSUME NEW p \in Procs, CloseTransport(p) PROVE SameSenders
  BY <1>29 DEF CloseTransport, SameSenders, Home, Procs
<1>30. ASSUME NEW p \in Procs, CloseCancel(p) PROVE SameSenders
  BY <1>30 DEF CloseCancel, SameSenders, Home, Procs
<1>31. ASSUME NEW p \in Procs, CloseInactive(p) PROVE SameSenders
  BY <1>31 DEF CloseInactive, SameSenders, Home, Procs
<1>32. CASE ParentCancel
  BY <1>32 DEF ParentCancel, SameSenders
<1>33. CASE UNCHANGED vars
  BY <1>33 DEF vars, SameSenders
<1>34. QED
  BY <1>1, <1>2, <1>3, <1>4, <1>5, <1>6, <1>7, <1>8, <1>9, <1>10, <1>11, <1>12, <1>13, <1>14, <1>15, <1>16, <1>17, <1>18, <1>19, <1>20, <1>21, <1>22, <1>23, <1>24, <1>25, <1>26, <1>27, <1>28, <1>29, <1>30, <1>31, <1>32, <1>33
  DEF Next, WriterStep, DrainerStep, TransportStep, TransportFail, CloseStep, Rest

\* Every step keeps the ownership of running.
LEMMA OwnershipStep ==
  ASSUME TypeOK, Ownership, [Next]_vars
  PROVE  Ownership'
<1>1. CASE SameSenders
  BY <1>1 DEF Ownership, SameSenders, DrainExclusive
<1>2. ASSUME NEW d \in Drainers, Launches(d) PROVE Ownership'
  BY <1>2 DEF Ownership, Launches, DrainExclusive
<1>3. ASSUME NEW d \in Drainers, LetsGo(d) PROVE Ownership'
  BY <1>3 DEF Ownership, LetsGo, DrainExclusive
<1>4. QED
  BY <1>1, <1>2, <1>3, SenderSteps

\* Nobody sends on a new channel.
LEMMA InitOwnership == Init => Ownership
BY ConstantsAssumption DEF Init, Ownership, DrainExclusive, Sending, Procs, Home

\* At most one goroutine is in writeOnce's critical part at a time, for any
\* number of writers, closers and launches (channel.go, running).
THEOREM MutualExclusion == Spec => []DrainExclusive
<1>1. TypeOK /\ Ownership /\ [Next]_vars => TypeOK' /\ Ownership'
  BY TypeStep, OwnershipStep
<1>2. Ownership => DrainExclusive
  BY DEF Ownership
<1>3. QED
  BY InitType, InitOwnership, <1>1, <1>2, PTL DEF Spec

-----------------------------------------------------------------------------
(* The body of Close runs once.                                            *)

\* p won the CAS of Close and is in its body.
Closing(p) ==
  pc[p] \in {"closeWait", "closeErr", "closeTransport", "closeCancel", "closeInactive"}

\* One goroutine at most is in the body of Close, and it does things in order.
CloseOrder ==
  /\ \A p \in Procs : Closing(p) => closed /\ inactive = 0
  /\ \A p, q \in Procs : Closing(p) /\ Closing(q) => p = q
  /\ \A p \in Procs : pc[p] \in {"closeCancel", "closeInactive"} => transport = "closed"
  /\ \A p \in Procs : pc[p] = "closeInactive" => ctxDone
  /\ ~closed => inactive = 0
  /\ InactiveOnce

\* Every step keeps the order of Close.
LEMMA CloseOrderStep ==
  ASSUME TypeOK, CloseOrder, [Next]_vars
  PROVE  CloseOrder'
<1>typ. /\ pc \in [Procs -> WriterLabels \cup CloserLabels \cup DrainerLabels]
        /\ \A w \in Writers : w \in Procs
        /\ \A c \in Closers : c \in Procs
        /\ \A d \in Drainers : d \in Procs
        /\ \A p \in Procs : Home(p) \in {"idle", "done", "off"}
  BY DEF TypeOK, Procs, Home
<1> USE <1>typ DEF CloseOrder, Closing, InactiveOnce, Goto, closeVars, callVars
<1>1. ASSUME NEW w \in Writers, NEW o \in options.ops, Call(w, o) PROVE CloseOrder'
  <2>1. PICK l \in {"entry", "check", "select"} : pc' = [pc EXCEPT ![w] = l]
    <3>1. o \in WriteOps
      BY OpsAreWriteOps DEF TypeOK
    <3>2. QED
      BY <1>1, <3>1 DEF Call, WriteOps
  <2>2. UNCHANGED <<closed, ctxDone, inactive, transport>>
    BY <1>1 DEF Call
  <2>3. QED
    BY <2>1, <2>2
<1>2. ASSUME NEW w \in Writers, WriteEntry(w) PROVE CloseOrder'
  BY <1>2 DEF WriteEntry
<1>3. ASSUME NEW w \in Writers, WriteInactive(w) PROVE CloseOrder'
  BY <1>3 DEF WriteInactive
<1>4. ASSUME NEW w \in Writers, CheckCloseErr(w) PROVE CloseOrder'
  BY <1>4 DEF CheckCloseErr, Refuse
<1>5. ASSUME NEW w \in Writers, SelectEnqueue(w) PROVE CloseOrder'
  BY <1>5 DEF SelectEnqueue
<1>6. ASSUME NEW w \in Writers, SelectExpired(w) PROVE CloseOrder'
  BY <1>6 DEF SelectExpired, Refuse
<1>7. ASSUME NEW w \in Writers, SelectClosed(w) PROVE CloseOrder'
  BY <1>7 DEF SelectClosed, Refuse
<1>8. ASSUME NEW w \in Writers, SelectFull(w) PROVE CloseOrder'
  BY <1>8 DEF SelectFull, Refuse
<1>9. ASSUME NEW w \in Writers, TrySend(w) PROVE CloseOrder'
  BY <1>9 DEF TrySend
<1>10. ASSUME NEW w \in Writers, Recover(w) PROVE CloseOrder'
  BY <1>10 DEF Recover
<1>11. ASSUME NEW d \in Drainers, DrainTop(d) PROVE CloseOrder'
  BY <1>11 DEF DrainTop
<1>12. ASSUME NEW d \in Drainers, PollPacket(d) PROVE CloseOrder'
  BY <1>12 DEF PollPacket
<1>13. ASSUME NEW d \in Drainers, PollDone(d) PROVE CloseOrder'
  BY <1>13 DEF PollDone
<1>14. ASSUME NEW d \in Drainers, WritevPacket(d) PROVE CloseOrder'
  BY <1>14 DEF WritevPacket
<1>15. ASSUME NEW d \in Drainers, Spill(d) PROVE CloseOrder'
  BY <1>15 DEF Spill
<1>16. ASSUME NEW d \in Drainers, WritevFail(d) PROVE CloseOrder'
  BY <1>16 DEF WritevFail, SendFails
<1>17. ASSUME NEW d \in Drainers, MorePackets(d) PROVE CloseOrder'
  BY <1>17 DEF MorePackets
<1>18. ASSUME NEW d \in Drainers, Flush(d) PROVE CloseOrder'
  BY <1>18 DEF Flush
<1>19. ASSUME NEW d \in Drainers, FlushFail(d) PROVE CloseOrder'
  BY <1>19 DEF FlushFail, SendFails
<1>20. ASSUME NEW d \in Drainers, StoreIdle(d) PROVE CloseOrder'
  BY <1>20 DEF StoreIdle
<1>21. ASSUME NEW d \in Drainers, Recheck(d) PROVE CloseOrder'
  BY <1>21 DEF Recheck
<1>22. ASSUME NEW d \in Drainers, ReCas(d) PROVE CloseOrder'
  BY <1>22 DEF ReCas
<1>23. ASSUME NEW d \in Drainers, Panic(d) PROVE CloseOrder'
  BY <1>23 DEF Panic
<1>24. ASSUME NEW c \in Closers, UserClose(c) PROVE CloseOrder'
  BY <1>24 DEF UserClose
<1>25. ASSUME NEW p \in Procs, CloseCas(p) PROVE CloseOrder'
  BY <1>25 DEF CloseCas
<1>26. ASSUME NEW p \in Procs, CloseSleep(p) PROVE CloseOrder'
  BY <1>26 DEF CloseSleep
<1>27. ASSUME NEW p \in Procs, CloseWaitEnds(p) PROVE CloseOrder'
  BY <1>27 DEF CloseWaitEnds
<1>28. ASSUME NEW p \in Procs, CloseSetErr(p) PROVE CloseOrder'
  BY <1>28 DEF CloseSetErr
<1>29. ASSUME NEW p \in Procs, CloseTransport(p) PROVE CloseOrder'
  BY <1>29 DEF CloseTransport
<1>30. ASSUME NEW p \in Procs, CloseCancel(p) PROVE CloseOrder'
  BY <1>30 DEF CloseCancel
<1>31. ASSUME NEW p \in Procs, CloseInactive(p) PROVE CloseOrder'
  BY <1>31 DEF CloseInactive
<1>32. CASE ParentCancel
  BY <1>32 DEF ParentCancel
<1>33. CASE UNCHANGED vars
  BY <1>33 DEF vars
<1>34. QED
  BY <1>1, <1>2, <1>3, <1>4, <1>5, <1>6, <1>7, <1>8, <1>9, <1>10, <1>11, <1>12, <1>13, <1>14, <1>15, <1>16, <1>17, <1>18, <1>19, <1>20, <1>21, <1>22, <1>23, <1>24, <1>25, <1>26, <1>27, <1>28, <1>29, <1>30, <1>31, <1>32, <1>33
  DEF Next, WriterStep, DrainerStep, TransportStep, TransportFail, CloseStep, Rest

\* Close fires the inactive event once, when everything is shut, for any
\* number of goroutines that call it (channel.go, Close).
THEOREM CloseOnce == Spec => []InactiveOnce
<1>1. Init => CloseOrder
  <2>1. Init => \A p \in Procs : pc[p] \in {"idle", "start", "off"}
    BY DEF Init, Home
  <2>2. QED
    BY <2>1 DEF Init, CloseOrder, Closing, InactiveOnce
<1>2. TypeOK /\ CloseOrder /\ [Next]_vars => TypeOK' /\ CloseOrder'
  BY TypeStep, CloseOrderStep
<1>3. CloseOrder => InactiveOnce
  BY DEF CloseOrder
<1>4. QED
  BY InitType, <1>1, <1>2, <1>3, PTL DEF Spec

-----------------------------------------------------------------------------
(* No lost wake-up.                                                        *)

\* p keeps an eye on the queue: it sends, or will look, or will try to launch.
Watching(p) ==
  pc[p] \in {"top", "fill", "writev", "more", "flush", "storeIdle", "panic",
             "recheck", "reCas", "trySend"}

\* The queue is attended exactly when somebody watches it.
LEMMA AttendedByWatcher ==
  ASSUME TypeOK
  PROVE  Attended <=> \E p \in Procs : Watching(p)
<1>1. /\ \A w \in Writers : w \in Procs /\ (Watching(w) <=> pc[w] = "trySend")
      /\ \A c \in Closers : ~Watching(c)
      /\ \A d \in Drainers :
           d \in Procs /\ (Watching(d) <=> Sending(d) \/ pc[d] \in {"recheck", "reCas"})
  BY DEF TypeOK, Procs, Watching, Sending, CloseLabels, WriterLabels, CloserLabels,
         DrainerLabels
<1>2. QED
  BY <1>1 DEF Attended, Procs

\* Whoever watches goes on watching, unless it knows better.
WatchKept == \A p \in Procs : Watching(p) => Watching(p)'

\* No step leaves packets in the queue unattended.
LEMMA NoStrandedStep ==
  ASSUME TypeOK, TypeOK', Ownership, Buffers, NoStrandedPacket, [Next]_vars,
         writeQueue' # <<>>, ~failed'
  PROVE  Attended'
<1>0. ASSUME WatchKept, writeQueue # <<>>, ~failed PROVE Attended'
  <2>1. PICK p \in Procs : Watching(p)
    BY <1>0, AttendedByWatcher DEF NoStrandedPacket
  <2>2. Watching(p)'
    BY <2>1, <1>0 DEF WatchKept
  <2>3. CASE p \in Writers
    BY <2>2, <2>3 DEF TypeOK, Watching, Attended, CloseLabels, WriterLabels
  <2>4. CASE p \in Closers
    BY <2>2, <2>4 DEF TypeOK, Watching, CloseLabels, CloserLabels
  <2>5. CASE p \in Drainers
    BY <2>2, <2>5 DEF TypeOK, Watching, Attended, Sending, CloseLabels, DrainerLabels
  <2>6. QED
    BY <2>3, <2>4, <2>5 DEF Procs
<1>typ. /\ pc \in [Procs -> WriterLabels \cup CloserLabels \cup DrainerLabels]
      /\ \A w \in Writers : w \in Procs
      /\ \A d \in Drainers : d \in Procs
  BY DEF TypeOK, Procs
<1> USE <1>typ DEF Watching, WatchKept, Goto, chanVars, sendVars, callVars, closeVars
<1>1. ASSUME NEW w \in Writers, NEW o \in options.ops, Call(w, o)
      PROVE  WatchKept /\ writeQueue # <<>> /\ ~failed
  BY <1>1 DEF Call
<1>2. ASSUME NEW w \in Writers, WriteEntry(w)
      PROVE  WatchKept /\ writeQueue # <<>> /\ ~failed
  BY <1>2 DEF WriteEntry
<1>3. ASSUME NEW w \in Writers, WriteInactive(w)
      PROVE  WatchKept /\ writeQueue # <<>> /\ ~failed
  BY <1>3 DEF WriteInactive
<1>4. ASSUME NEW w \in Writers, CheckCloseErr(w)
      PROVE  WatchKept /\ writeQueue # <<>> /\ ~failed
  BY <1>4 DEF CheckCloseErr, Refuse
<1>5. ASSUME NEW w \in Writers, SelectEnqueue(w) PROVE Attended'
  BY <1>5 DEF SelectEnqueue, Attended
<1>6. ASSUME NEW w \in Writers, SelectExpired(w)
      PROVE  WatchKept /\ writeQueue # <<>> /\ ~failed
  BY <1>6 DEF SelectExpired, Refuse
<1>7. ASSUME NEW w \in Writers, SelectClosed(w)
      PROVE  WatchKept /\ writeQueue # <<>> /\ ~failed
  BY <1>7 DEF SelectClosed, Refuse
<1>8. ASSUME NEW w \in Writers, SelectFull(w)
      PROVE  WatchKept /\ writeQueue # <<>> /\ ~failed
  BY <1>8 DEF SelectFull, Refuse
<1>9. ASSUME NEW w \in Writers, TrySend(w) PROVE Attended'
  <2>1. CASE running = "idle"
    BY <2>1, <1>9 DEF TrySend, Attended, Sending
  <2>2. CASE running # "idle"
    <3>1. PICK d \in Drainers : Sending(d)
      BY <2>2, <1>9 DEF TrySend, Ownership
    <3>2. Sending(d)'
      BY <2>2, <3>1, <1>9 DEF TrySend, Sending
    <3>3. QED
      BY <3>2 DEF Attended
  <2>3. QED
    BY <2>1, <2>2
<1>10. ASSUME NEW w \in Writers, Recover(w)
      PROVE  WatchKept /\ writeQueue # <<>> /\ ~failed
  BY <1>10 DEF Recover
<1>11. ASSUME NEW d \in Drainers, DrainTop(d)
      PROVE  WatchKept /\ writeQueue # <<>> /\ ~failed
  BY <1>11 DEF DrainTop
<1>12. ASSUME NEW d \in Drainers, PollPacket(d)
      PROVE  WatchKept /\ writeQueue # <<>> /\ ~failed
  BY <1>12 DEF PollPacket
<1>13. ASSUME NEW d \in Drainers, PollDone(d)
      PROVE  WatchKept /\ writeQueue # <<>> /\ ~failed
  BY <1>13 DEF PollDone
<1>14. ASSUME NEW d \in Drainers, WritevPacket(d)
      PROVE  WatchKept /\ writeQueue # <<>> /\ ~failed
  BY <1>14 DEF WritevPacket
<1>15. ASSUME NEW d \in Drainers, Spill(d)
      PROVE  WatchKept /\ writeQueue # <<>> /\ ~failed
  BY <1>15 DEF Spill
<1>16. ASSUME NEW d \in Drainers, WritevFail(d)
      PROVE  WatchKept /\ writeQueue # <<>> /\ ~failed
  BY <1>16 DEF WritevFail, SendFails, SendBuffered
<1>17. ASSUME NEW d \in Drainers, MorePackets(d)
      PROVE  WatchKept /\ writeQueue # <<>> /\ ~failed
  BY <1>17 DEF MorePackets
<1>18. ASSUME NEW d \in Drainers, Flush(d)
      PROVE  WatchKept /\ writeQueue # <<>> /\ ~failed
  BY <1>18 DEF Flush
<1>19. ASSUME NEW d \in Drainers, FlushFail(d)
      PROVE  WatchKept /\ writeQueue # <<>> /\ ~failed
  BY <1>19 DEF FlushFail, SendFails, SendBuffered
<1>20. ASSUME NEW d \in Drainers, StoreIdle(d)
      PROVE  WatchKept /\ writeQueue # <<>> /\ ~failed
  BY <1>20 DEF StoreIdle
<1>21. ASSUME NEW d \in Drainers, Recheck(d) PROVE Attended'
  BY <1>21 DEF Recheck, Attended
<1>22. ASSUME NEW d \in Drainers, ReCas(d) PROVE Attended'
  <2>1. CASE running = "idle"
    BY <2>1, <1>22 DEF ReCas, Attended, Sending
  <2>2. CASE running # "idle"
    <3>1. PICK e \in Drainers : Sending(e)
      BY <2>2, <1>22 DEF ReCas, Ownership
    <3>2. Sending(e)'
      <4>1. e # d /\ pc' = [pc EXCEPT ![d] = "off"]
        BY <2>2, <3>1, <1>22 DEF ReCas, Sending
      <4>2. QED
        BY <3>1, <4>1 DEF Sending
    <3>3. QED
      BY <3>2 DEF Attended
  <2>3. QED
    BY <2>1, <2>2
<1>23. ASSUME NEW d \in Drainers, Panic(d) PROVE FALSE
  BY <1>23 DEF Panic, Buffers
<1>24. ASSUME NEW c \in Closers, UserClose(c)
      PROVE  WatchKept /\ writeQueue # <<>> /\ ~failed
  BY <1>24 DEF UserClose
<1>25. ASSUME NEW p \in Procs, CloseCas(p)
      PROVE  WatchKept /\ writeQueue # <<>> /\ ~failed
  BY <1>25 DEF CloseCas, Returned, Home, Procs
<1>26. ASSUME NEW p \in Procs, CloseSleep(p)
      PROVE  WatchKept /\ writeQueue # <<>> /\ ~failed
  BY <1>26 DEF CloseSleep, Home, Procs
<1>27. ASSUME NEW p \in Procs, CloseWaitEnds(p)
      PROVE  WatchKept /\ writeQueue # <<>> /\ ~failed
  BY <1>27 DEF CloseWaitEnds, Home, Procs
<1>28. ASSUME NEW p \in Procs, CloseSetErr(p)
      PROVE  WatchKept /\ writeQueue # <<>> /\ ~failed
  BY <1>28 DEF CloseSetErr, Home, Procs
<1>29. ASSUME NEW p \in Procs, CloseTransport(p)
      PROVE  WatchKept /\ writeQueue # <<>> /\ ~failed
  BY <1>29 DEF CloseTransport, Home, Procs
<1>30. ASSUME NEW p \in Procs, CloseCancel(p)
      PROVE  WatchKept /\ writeQueue # <<>> /\ ~failed
  BY <1>30 DEF CloseCancel, Home, Procs
<1>31. ASSUME NEW p \in Procs, CloseInactive(p)
      PROVE  WatchKept /\ writeQueue # <<>> /\ ~failed
  BY <1>31 DEF CloseInactive, Home, Procs
<1>32. ASSUME ParentCancel PROVE WatchKept /\ writeQueue # <<>> /\ ~failed
  BY <1>32 DEF ParentCancel
<1>33. ASSUME UNCHANGED vars PROVE WatchKept /\ writeQueue # <<>> /\ ~failed
  BY <1>33 DEF vars
<1>34. QED
  BY <1>0, <1>1, <1>2, <1>3, <1>4, <1>5, <1>6, <1>7, <1>8, <1>9, <1>10, <1>11, <1>12, <1>13, <1>14, <1>15, <1>16, <1>17, <1>18, <1>19, <1>20, <1>21, <1>22, <1>23, <1>24, <1>25, <1>26, <1>27, <1>28, <1>29, <1>30, <1>31, <1>32, <1>33
  DEF Next, WriterStep, DrainerStep, TransportStep, TransportFail, CloseStep, Rest

-----------------------------------------------------------------------------
(* The batch and the transport's buffer.                                   *)

\* No step changes how the channel was made.
LEMMA OptionsKept == [Next]_vars => options' = options
<1> SUFFICES ASSUME [Next]_vars PROVE options' = options
  OBVIOUS
<1> USE DEF chanVars
<1>1. ASSUME NEW w \in Writers, WriterStep(w) \/ SelectExpired(w) \/ \E o \in options.ops : Call(w, o)
      PROVE  options' = options
  BY <1>1, Zenon DEF Call, WriterStep, WriteEntry, WriteInactive, CheckCloseErr, SelectEnqueue,
       SelectExpired, SelectClosed, SelectFull, TrySend, Recover, Refuse
<1>2. ASSUME NEW d \in Drainers, DrainerStep(d) \/ TransportStep(d) \/ TransportFail(d)
      PROVE  options' = options
  BY <1>2 DEF DrainerStep, TransportStep, TransportFail, DrainTop, PollPacket, PollDone,
       WritevPacket, Spill, WritevFail, SendFails, MorePackets, Flush, FlushFail, StoreIdle,
       Recheck, ReCas, Panic
<1>3. ASSUME NEW p \in Procs, CloseStep(p) PROVE options' = options
  BY <1>3 DEF CloseStep, CloseCas, CloseSleep, CloseWaitEnds, CloseSetErr, CloseTransport,
       CloseCancel, CloseInactive
<1>4. ASSUME NEW c \in Closers, UserClose(c) PROVE options' = options
  BY <1>4 DEF UserClose
<1>5. CASE ParentCancel \/ Rest \/ UNCHANGED vars
  BY <1>5 DEF ParentCancel, Rest, vars
<1>6. QED
  BY <1>1, <1>2, <1>3, <1>4, <1>5 DEF Next

\* Every step keeps the batch and the buffer where they belong.
LEMMA BuffersStep ==
  ASSUME TypeOK, TypeOK', Ownership, Buffers, [Next]_vars
  PROVE  Buffers'
<1>typ. /\ pc \in [Procs -> WriterLabels \cup CloserLabels \cup DrainerLabels]
        /\ \A w \in Writers : w \in Procs /\ w \notin Drainers
        /\ \A c \in Closers : c \in Procs /\ c \notin Drainers
        /\ \A d \in Drainers : d \in Procs
        /\ failed \in BOOLEAN /\ running \in {"idle", "running"}
  BY ConstantsAssumption DEF TypeOK, Procs
<1>own. \A d, e \in Drainers : Sending(d) => running = "running" /\ (Sending(e) => d = e)
  BY DEF Ownership, DrainExclusive
<1>opt. WriteBuffered' = WriteBuffered
  BY OptionsKept DEF WriteBuffered
<1> USE <1>typ, <1>own, <1>opt DEF Buffers, IdleIsFlushed, Sending, Goto, chanVars, sendVars, callVars,
        closeVars
<1>1. ASSUME NEW w \in Writers, NEW o \in options.ops, Call(w, o) PROVE Buffers'
  BY <1>1 DEF Call
<1>2. ASSUME NEW w \in Writers, WriteEntry(w) PROVE Buffers'
  BY <1>2 DEF WriteEntry
<1>3. ASSUME NEW w \in Writers, WriteInactive(w) PROVE Buffers'
  BY <1>3 DEF WriteInactive
<1>4. ASSUME NEW w \in Writers, CheckCloseErr(w) PROVE Buffers'
  BY <1>4 DEF CheckCloseErr, Refuse
<1>5. ASSUME NEW w \in Writers, SelectEnqueue(w) PROVE Buffers'
  BY <1>5 DEF SelectEnqueue, Packet, Packets
<1>6. ASSUME NEW w \in Writers, SelectExpired(w) PROVE Buffers'
  BY <1>6 DEF SelectExpired, Refuse
<1>7. ASSUME NEW w \in Writers, SelectClosed(w) PROVE Buffers'
  BY <1>7 DEF SelectClosed, Refuse
<1>8. ASSUME NEW w \in Writers, SelectFull(w) PROVE Buffers'
  BY <1>8 DEF SelectFull, Refuse
<1>9. ASSUME NEW w \in Writers, TrySend(w) PROVE Buffers'
  BY <1>9 DEF TrySend
<1>10. ASSUME NEW w \in Writers, Recover(w) PROVE Buffers'
  BY <1>10 DEF Recover
<1>11. ASSUME NEW d \in Drainers, DrainTop(d) PROVE Buffers'
  BY <1>11 DEF DrainTop
<1>12. ASSUME NEW d \in Drainers, PollPacket(d) PROVE Buffers'
  BY <1>12 DEF PollPacket
<1>13. ASSUME NEW d \in Drainers, PollDone(d) PROVE Buffers'
  BY <1>13 DEF PollDone
<1>14. ASSUME NEW d \in Drainers, WritevPacket(d) PROVE Buffers'
  <2>1. /\ running' = "running" /\ failed' = failed
        /\ \A e \in Drainers \ {d} : ~Sending(e) /\ pc'[e] = pc[e]
        /\ pc'[d] = IF Len(writeBuffers) = 1 THEN "more" ELSE "writev"
    BY <1>14 DEF WritevPacket
  <2>2. pc'[d] = "more" => writeBuffers' = <<>>
    BY <2>1, <1>14, HeadTailProperties, EmptySeq DEF WritevPacket, TypeOK
  <2>3. ~WriteBuffered => buffered' = <<>>
    BY <1>14 DEF WritevPacket
  <2>4. QED
    BY <2>1, <2>2, <2>3
<1>15. ASSUME NEW d \in Drainers, Spill(d) PROVE Buffers'
  BY <1>15 DEF Spill
<1>16. ASSUME NEW d \in Drainers, WritevFail(d) PROVE Buffers'
  BY <1>16 DEF WritevFail, SendFails, SendBuffered
<1>17. ASSUME NEW d \in Drainers, MorePackets(d) PROVE Buffers'
  BY <1>17 DEF MorePackets
<1>18. ASSUME NEW d \in Drainers, Flush(d) PROVE Buffers'
  BY <1>18 DEF Flush
<1>19. ASSUME NEW d \in Drainers, FlushFail(d) PROVE Buffers'
  BY <1>19 DEF FlushFail, SendFails, SendBuffered
<1>20. ASSUME NEW d \in Drainers, StoreIdle(d) PROVE Buffers'
  BY <1>20 DEF StoreIdle
<1>21. ASSUME NEW d \in Drainers, Recheck(d) PROVE Buffers'
  BY <1>21 DEF Recheck
<1>22. ASSUME NEW d \in Drainers, ReCas(d) PROVE Buffers'
  BY <1>22 DEF ReCas
<1>23. ASSUME NEW d \in Drainers, Panic(d) PROVE Buffers'
  BY <1>23 DEF Panic
<1>24. ASSUME NEW c \in Closers, UserClose(c) PROVE Buffers'
  BY <1>24 DEF UserClose
<1>25. ASSUME NEW p \in Procs, CloseCas(p) PROVE Buffers'
  BY <1>25 DEF CloseCas, Returned, Home, Procs
<1>26. ASSUME NEW p \in Procs, CloseSleep(p) PROVE Buffers'
  BY <1>26 DEF CloseSleep, Home, Procs
<1>27. ASSUME NEW p \in Procs, CloseWaitEnds(p) PROVE Buffers'
  BY <1>27 DEF CloseWaitEnds, Home, Procs
<1>28. ASSUME NEW p \in Procs, CloseSetErr(p) PROVE Buffers'
  BY <1>28 DEF CloseSetErr, Home, Procs
<1>29. ASSUME NEW p \in Procs, CloseTransport(p) PROVE Buffers'
  BY <1>29 DEF CloseTransport, Home, Procs
<1>30. ASSUME NEW p \in Procs, CloseCancel(p) PROVE Buffers'
  BY <1>30 DEF CloseCancel, Home, Procs
<1>31. ASSUME NEW p \in Procs, CloseInactive(p) PROVE Buffers'
  BY <1>31 DEF CloseInactive, Home, Procs
<1>32. ASSUME ParentCancel PROVE Buffers'
  BY <1>32 DEF ParentCancel
<1>33. ASSUME UNCHANGED vars PROVE Buffers'
  BY <1>33 DEF vars
<1>34. QED
  BY <1>1, <1>2, <1>3, <1>4, <1>5, <1>6, <1>7, <1>8, <1>9, <1>10, <1>11, <1>12, <1>13, <1>14, <1>15, <1>16, <1>17, <1>18, <1>19, <1>20, <1>21, <1>22, <1>23, <1>24, <1>25, <1>26, <1>27, <1>28, <1>29, <1>30, <1>31, <1>32, <1>33
  DEF Next, WriterStep, DrainerStep, TransportStep, TransportFail, CloseStep, Rest

-----------------------------------------------------------------------------
(* The account of every accepted packet.                                   *)

\* Appending to the right operand of a concatenation.
LEMMA AppendConcat ==
  ASSUME NEW S, NEW s \in Seq(S), NEW t \in Seq(S), NEW x \in S
  PROVE  s \o Append(t, x) = Append(s \o t, x)
OBVIOUS

\* Moving the head of a sequence to the end of the one before it.
LEMMA MoveHead ==
  ASSUME NEW S, NEW s \in Seq(S), NEW t \in Seq(S), t # <<>>
  PROVE  Append(s, Head(t)) \o Tail(t) = s \o t
OBVIOUS

\* A sequence is its first n elements and then the others.
LEMMA SplitConcat ==
  ASSUME NEW S, NEW s \in Seq(S), NEW n \in 0 .. Len(s)
  PROVE  SubSeq(s, 1, n) \o SubSeq(s, n + 1, Len(s)) = s
<1>1. SubSeq(s, 1, n) \o SubSeq(s, n + 1, Len(s)) = SubSeq(s, 1, Len(s))
  <2>1. /\ Len(s) \in Nat /\ 1 \in 1 .. Len(s) + 1
        /\ n \in 1 - 1 .. Len(s) /\ Len(s) \in n .. Len(s)
    BY LenProperties
  <2>2. QED
    BY <2>1, ConcatAdjacentSubSeq
<1>2. QED
  BY <1>1, SubSeqFull

\* Subsequences keep the element type.
LEMMA SubSeqTyped ==
  ASSUME NEW S, NEW s \in Seq(S), NEW m \in 1 .. Len(s) + 1, NEW n \in 0 .. Len(s)
  PROVE  SubSeq(s, m, n) \in Seq(S)
OBVIOUS

\* The left operand is a prefix of a concatenation.
LEMMA PrefixOfConcat ==
  ASSUME NEW S, NEW s \in Seq(S), NEW t \in Seq(S)
  PROVE  SubSeq(s \o t, 1, Len(s)) = s
OBVIOUS

\* Appending does not change the prefixes there were.
LEMMA PrefixOfAppend ==
  ASSUME NEW S, NEW s \in Seq(S), NEW x \in S, NEW n \in 0 .. Len(s)
  PROVE  SubSeq(Append(s, x), 1, n) = SubSeq(s, 1, n)
OBVIOUS

\* A prefix of a prefix is a prefix.
LEMMA PrefixOfPrefix ==
  ASSUME NEW S, NEW s \in Seq(S), NEW n \in 0 .. Len(s), NEW m \in 0 .. n
  PROVE  SubSeq(SubSeq(s, 1, n), 1, m) = SubSeq(s, 1, m)
OBVIOUS

\* What the transport was given: sent, or in its buffer.
Given == wire \o buffered

streamVars == <<chanVars, sendVars>>

\* The sequence-valued variables.
LEMMA SeqTypes ==
  ASSUME TypeOK
  PROVE  /\ writeQueue \in Seq(Packets) /\ writeBuffers \in Seq(Packets)
         /\ buffered \in Seq(Packets) /\ wire \in Seq(Packets)
         /\ accepted \in Seq(Packets) /\ Given \in Seq(Packets)
         /\ failed \in BOOLEAN
BY ConcatProperties DEF TypeOK, Given

\* Every step keeps the account of the accepted packets.
LEMMA StreamStep ==
  ASSUME TypeOK, TypeOK', Buffers, StreamOrder, [Next]_vars
  PROVE  StreamOrder'
<1>q. /\ writeQueue \in Seq(Packets) /\ writeBuffers \in Seq(Packets)
      /\ buffered \in Seq(Packets) /\ wire \in Seq(Packets)
      /\ accepted \in Seq(Packets) /\ Given \in Seq(Packets) /\ failed \in BOOLEAN
  BY SeqTypes
<1>s. /\ ~failed => (Given \o writeBuffers) \o writeQueue = accepted
      /\ \E n \in 0 .. Len(accepted) : Given = SubSeq(accepted, 1, n)
  BY DEF StreamOrder, InFlight, Given
<1>u. ASSUME UNCHANGED streamVars PROVE StreamOrder'
  BY <1>u DEF streamVars, chanVars, sendVars, StreamOrder, InFlight
\* A step that only moves packets from the transport's buffer to the wire, or
\* gives up the batch because a send failed.
<1>g. ASSUME Given' = Given, accepted' = accepted,
             ~failed' => /\ ~failed
                         /\ (Given \o writeBuffers') \o writeQueue'
                              = (Given \o writeBuffers) \o writeQueue
      PROVE  StreamOrder'
  BY <1>g, <1>s DEF StreamOrder, InFlight, Given
<1> HIDE DEF Given
<1>1. ASSUME NEW w \in Writers, NEW o \in options.ops, Call(w, o) PROVE UNCHANGED streamVars
  BY <1>1 DEF Call, streamVars
<1>2. ASSUME NEW w \in Writers, WriteEntry(w) PROVE UNCHANGED streamVars
  BY <1>2 DEF WriteEntry, streamVars
<1>3. ASSUME NEW w \in Writers, WriteInactive(w) PROVE UNCHANGED streamVars
  BY <1>3 DEF WriteInactive, streamVars
<1>4. ASSUME NEW w \in Writers, CheckCloseErr(w) PROVE UNCHANGED streamVars
  BY <1>4 DEF CheckCloseErr, Refuse, streamVars
<1>5. ASSUME NEW w \in Writers, SelectEnqueue(w) PROVE StreamOrder'
  <2>1. /\ Packet(w) \in Packets /\ Given' = Given /\ failed' = failed
        /\ writeBuffers' = writeBuffers
        /\ writeQueue' = Append(writeQueue, Packet(w))
        /\ accepted' = Append(accepted, Packet(w))
    BY <1>5 DEF SelectEnqueue, Packet, Packets, TypeOK, sendVars, Given
  <2>2. ASSUME ~failed
        PROVE  (Given' \o writeBuffers') \o writeQueue' = accepted'
    <3>1. Given \o writeBuffers \in Seq(Packets)
      BY <1>q, ConcatProperties
    <3>2. (Given \o writeBuffers) \o Append(writeQueue, Packet(w))
            = Append((Given \o writeBuffers) \o writeQueue, Packet(w))
      BY <1>q, <2>1, <3>1, AppendConcat
    <3>3. QED
      BY <1>s, <2>1, <2>2, <3>2
  <2>3. PICK n \in 0 .. Len(accepted) : Given = SubSeq(accepted, 1, n)
    BY <1>s
  <2>4. n \in 0 .. Len(accepted') /\ Given' = SubSeq(accepted', 1, n)
    BY <1>q, <2>1, <2>3, PrefixOfAppend
  <2>5. QED
    BY <2>1, <2>2, <2>4 DEF StreamOrder, InFlight, Given
<1>6. ASSUME NEW w \in Writers, SelectExpired(w) PROVE UNCHANGED streamVars
  BY <1>6 DEF SelectExpired, Refuse, streamVars
<1>7. ASSUME NEW w \in Writers, SelectClosed(w) PROVE UNCHANGED streamVars
  BY <1>7 DEF SelectClosed, Refuse, streamVars
<1>8. ASSUME NEW w \in Writers, SelectFull(w) PROVE UNCHANGED streamVars
  BY <1>8 DEF SelectFull, Refuse, streamVars
<1>9. ASSUME NEW w \in Writers, TrySend(w) PROVE UNCHANGED streamVars
  BY <1>9 DEF TrySend, streamVars
<1>10. ASSUME NEW w \in Writers, Recover(w) PROVE UNCHANGED streamVars
  BY <1>10 DEF Recover, streamVars
<1>11. ASSUME NEW d \in Drainers, DrainTop(d) PROVE StreamOrder'
  <2>1. /\ Given' = Given /\ accepted' = accepted /\ failed' = failed
        /\ writeQueue' = writeQueue /\ writeBuffers' = <<>>
    BY <1>11 DEF DrainTop, chanVars, Given
  <2>2. ~failed => writeBuffers' = writeBuffers
    BY <1>11, <2>1 DEF DrainTop, Buffers
  <2>3. QED
    BY <1>g, <2>1, <2>2
<1>12. ASSUME NEW d \in Drainers, PollPacket(d) PROVE StreamOrder'
  <2>1. /\ Given' = Given /\ accepted' = accepted /\ failed' = failed
        /\ writeQueue # <<>> /\ writeQueue' = Tail(writeQueue)
        /\ writeBuffers' = Append(writeBuffers, Head(writeQueue))
    BY <1>12 DEF PollPacket, Given
  <2>2. Head(writeQueue) \in Packets /\ Given \o writeBuffers \in Seq(Packets)
    BY <1>q, <2>1, HeadTailProperties, ConcatProperties
  <2>3. Given \o writeBuffers' = Append(Given \o writeBuffers, Head(writeQueue))
    BY <1>q, <2>1, <2>2, AppendConcat
  <2>4. (Given \o writeBuffers') \o writeQueue' = (Given \o writeBuffers) \o writeQueue
    BY <1>q, <2>1, <2>2, <2>3, MoveHead
  <2>5. QED
    BY <1>g, <2>1, <2>4
<1>13. ASSUME NEW d \in Drainers, PollDone(d) PROVE UNCHANGED streamVars
  BY <1>13 DEF PollDone, streamVars
<1>14. ASSUME NEW d \in Drainers, WritevPacket(d) PROVE StreamOrder'
  <2>1. /\ accepted' = accepted /\ ~failed /\ failed' = failed
        /\ writeQueue' = writeQueue /\ writeBuffers # <<>>
        /\ writeBuffers' = Tail(writeBuffers)
    BY <1>14 DEF WritevPacket, chanVars
  <2>2. Head(writeBuffers) \in Packets /\ writeBuffers' \in Seq(Packets)
    BY <1>q, <2>1, HeadTailProperties
  <2>3. Given' = Append(Given, Head(writeBuffers))
    <3>1. CASE WriteBuffered
      <4>1. wire' = wire /\ buffered' = Append(buffered, Head(writeBuffers))
        BY <3>1, <1>14, Zenon DEF WritevPacket
      <4>2. QED
        BY <1>q, <2>2, <4>1, AppendConcat DEF Given
    <3>2. CASE ~WriteBuffered
      <4>1. wire' = Append(wire, Head(writeBuffers)) /\ buffered' = buffered
        BY <3>2, <1>14, Zenon DEF WritevPacket
      <4>2. buffered = <<>>
        BY <3>2, Zenon DEF Buffers
      <4>3. wire' \in Seq(Packets)
        BY <1>q, <2>2, <4>1
      <4>4. wire' \o <<>> = wire' /\ wire \o <<>> = wire
        BY <1>q, <4>3, ConcatEmptySeq
      <4>5. QED
        BY <4>1, <4>2, <4>4 DEF Given
    <3>3. QED
      BY <3>1, <3>2
  <2>4. Given' \o writeBuffers' = Given \o writeBuffers
    BY <1>q, <2>1, <2>3, MoveHead
  <2>5. (Given' \o writeBuffers') \o writeQueue' = accepted'
    BY <1>s, <2>1, <2>4
  <2>6. Given' \in Seq(Packets) /\ writeQueue' \in Seq(Packets)
    BY <1>q, <2>1, <2>2, <2>3
  <2>7. accepted' = Given' \o (writeBuffers' \o writeQueue')
    <3>1. (Given' \o writeBuffers') \o writeQueue' = Given' \o (writeBuffers' \o writeQueue')
      BY <2>2, <2>6, ConcatAssociative
    <3>2. QED
      BY <2>5, <3>1
  <2>8. Len(Given') \in 0 .. Len(accepted') /\ Given' = SubSeq(accepted', 1, Len(Given'))
    BY <2>2, <2>6, <2>7, PrefixOfConcat, ConcatProperties
  <2>9. QED
    BY <2>5, <2>8 DEF StreamOrder, InFlight, Given
<1>15. ASSUME NEW d \in Drainers, Spill(d) PROVE StreamOrder'
  <2>1. /\ wire' = wire \o buffered /\ buffered' = <<>> /\ UNCHANGED <<chanVars, failed>>
        /\ writeBuffers' = writeBuffers
    BY <1>15 DEF Spill
  <2>2. Given' = Given
    BY <1>q, <2>1, ConcatEmptySeq DEF Given
  <2>3. QED
    BY <1>g, <2>1, <2>2 DEF chanVars
<1>f. ASSUME NEW d \in Drainers, SendFails(d) PROVE StreamOrder'
  <2>1. PICK n \in 0 .. Len(buffered) : SendBuffered(n)
    BY <1>f DEF SendFails
  <2> DEFINE sent == SubSeq(buffered, 1, n)
             kept == SubSeq(buffered, n + 1, Len(buffered))
  <2>2. sent \in Seq(Packets) /\ kept \in Seq(Packets)
    <3>1. /\ Len(buffered) \in Nat /\ n + 1 \in 1 .. Len(buffered) + 1
          /\ 1 \in 1 .. Len(buffered) + 1 /\ Len(buffered) \in 0 .. Len(buffered)
      BY <1>q, LenProperties
    <3>2. QED
      BY <1>q, <3>1, SubSeqTyped
  <2>3. sent \o kept = buffered
    BY <1>q, SplitConcat
  <2>4. Given' = (wire \o sent) \o kept
    BY <2>1 DEF SendBuffered, Given
  <2> HIDE DEF sent, kept
  <2>5. Given' = Given
    <3>1. (wire \o sent) \o kept = wire \o (sent \o kept)
      BY <1>q, <2>2
    <3>2. QED
      BY <2>3, <2>4, <3>1 DEF Given
  <2>6. accepted' = accepted /\ failed'
    BY <1>f DEF SendFails, chanVars
  <2>7. QED
    BY <1>g, <2>5, <2>6
<1>16. ASSUME NEW d \in Drainers, WritevFail(d) PROVE StreamOrder'
  BY <1>16, <1>f DEF WritevFail
<1>17. ASSUME NEW d \in Drainers, MorePackets(d) PROVE UNCHANGED streamVars
  BY <1>17 DEF MorePackets, streamVars
<1>18. ASSUME NEW d \in Drainers, Flush(d) PROVE StreamOrder'
  <2>1. /\ wire' = wire \o buffered /\ buffered' = <<>> /\ UNCHANGED <<chanVars, failed>>
        /\ writeBuffers' = writeBuffers
    BY <1>18 DEF Flush
  <2>2. Given' = Given
    BY <1>q, <2>1, ConcatEmptySeq DEF Given
  <2>3. QED
    BY <1>g, <2>1, <2>2 DEF chanVars
<1>19. ASSUME NEW d \in Drainers, FlushFail(d) PROVE StreamOrder'
  BY <1>19, <1>f DEF FlushFail
<1>20. ASSUME NEW d \in Drainers, StoreIdle(d) PROVE UNCHANGED streamVars
  BY <1>20 DEF StoreIdle, streamVars
<1>21. ASSUME NEW d \in Drainers, Recheck(d) PROVE UNCHANGED streamVars
  BY <1>21 DEF Recheck, streamVars
<1>22. ASSUME NEW d \in Drainers, ReCas(d) PROVE UNCHANGED streamVars
  BY <1>22 DEF ReCas, streamVars
<1>23. ASSUME NEW d \in Drainers, Panic(d) PROVE UNCHANGED streamVars
  BY <1>23 DEF Panic, streamVars
<1>24. ASSUME NEW c \in Closers, UserClose(c) PROVE UNCHANGED streamVars
  BY <1>24 DEF UserClose, streamVars
<1>25. ASSUME NEW p \in Procs, CloseCas(p) PROVE UNCHANGED streamVars
  BY <1>25 DEF CloseCas, streamVars
<1>26. ASSUME NEW p \in Procs, CloseSleep(p) PROVE UNCHANGED streamVars
  BY <1>26 DEF CloseSleep, streamVars
<1>27. ASSUME NEW p \in Procs, CloseWaitEnds(p) PROVE UNCHANGED streamVars
  BY <1>27 DEF CloseWaitEnds, streamVars
<1>28. ASSUME NEW p \in Procs, CloseSetErr(p) PROVE UNCHANGED streamVars
  BY <1>28 DEF CloseSetErr, streamVars
<1>29. ASSUME NEW p \in Procs, CloseTransport(p) PROVE UNCHANGED streamVars
  BY <1>29 DEF CloseTransport, streamVars
<1>30. ASSUME NEW p \in Procs, CloseCancel(p) PROVE UNCHANGED streamVars
  BY <1>30 DEF CloseCancel, streamVars
<1>31. ASSUME NEW p \in Procs, CloseInactive(p) PROVE UNCHANGED streamVars
  BY <1>31 DEF CloseInactive, streamVars
<1>32. CASE ParentCancel
  BY <1>u, <1>32 DEF ParentCancel, streamVars
<1>33. CASE UNCHANGED vars
  BY <1>u, <1>33 DEF vars, streamVars
<1>34. QED
  BY <1>u, <1>1, <1>2, <1>3, <1>4, <1>5, <1>6, <1>7, <1>8, <1>9, <1>10, <1>11, <1>12, <1>13, <1>14, <1>15, <1>16, <1>17, <1>18, <1>19, <1>20, <1>21, <1>22, <1>23, <1>24, <1>25, <1>26, <1>27, <1>28, <1>29, <1>30, <1>31, <1>32, <1>33
  DEF Next, WriterStep, DrainerStep, TransportStep, TransportFail, CloseStep, Rest

\* The inductive invariant holds of a new channel.
LEMMA InitIndInv == Init => IndInv
<1>1. SUFFICES ASSUME Init PROVE Ownership /\ NoStrandedPacket /\ Buffers /\ StreamOrder
  BY InitType DEF IndInv
<1>2. NoStrandedPacket
  BY <1>1 DEF Init, NoStrandedPacket
<1>3. Buffers
  BY <1>1, ConstantsAssumption DEF Init, Buffers, IdleIsFlushed, Procs, Home
<1>4. <<>> \o <<>> = <<>> /\ SubSeq(<<>>, 1, 0) = <<>>
  OBVIOUS
<1>5. StreamOrder
  BY <1>1, <1>4 DEF Init, StreamOrder, InFlight
<1>6. QED
  BY <1>1, <1>2, <1>3, <1>5, InitOwnership

\* Every step keeps the inductive invariant.
LEMMA IndInvStep == IndInv /\ [Next]_vars => IndInv'
<1> SUFFICES ASSUME IndInv, [Next]_vars PROVE IndInv'
  OBVIOUS
<1>1. TypeOK /\ Ownership /\ NoStrandedPacket /\ Buffers /\ StreamOrder
  BY DEF IndInv
<1>2. TypeOK'
  BY <1>1, TypeStep
<1>3. Ownership'
  BY <1>1, OwnershipStep
<1>4. NoStrandedPacket'
  BY <1>1, <1>2, NoStrandedStep DEF NoStrandedPacket
<1>5. Buffers'
  BY <1>1, <1>2, BuffersStep
<1>6. StreamOrder'
  BY <1>1, <1>2, StreamStep
<1>7. QED
  BY <1>2, <1>3, <1>4, <1>5, <1>6 DEF IndInv

\* The inductive invariant holds throughout (channel.go).
LEMMA IndInvariant == Spec => []IndInv
BY InitIndInv, IndInvStep, PTL DEF Spec

\* No packet ever waits in the queue of a channel that has not failed without
\* somebody about to send it (channel.go, "double check").
THEOREM NoLostWakeUp == Spec => []NoStrandedPacket
<1>1. IndInv => NoStrandedPacket
  BY DEF IndInv
<1>2. QED
  BY <1>1, IndInvariant, PTL

\* Every accepted packet is accounted for, once and in order (channel.go,
\* asyncWrite and writeOnce).
THEOREM StreamIsKept == Spec => []StreamOrder
<1>1. IndInv => StreamOrder
  BY DEF IndInv
<1>2. QED
  BY <1>1, IndInvariant, PTL

\* An idle flag means that nothing is half sent (channel.go, "flush transport
\* buffer").
THEOREM IdleMeansFlushed == Spec => []IdleIsFlushed
<1>1. IndInv => IdleIsFlushed
  BY DEF IndInv, Buffers
<1>2. QED
  BY <1>1, IndInvariant, PTL

-----------------------------------------------------------------------------
(* The write side implements OrderedStream.                                *)

\* What was sent is a prefix of what was accepted.
LEMMA PrefixLemma ==
  ASSUME NEW S, NEW snt \in Seq(S), NEW buf \in Seq(S), NEW acc \in Seq(S),
         NEW n \in 0 .. Len(acc), snt \o buf = SubSeq(acc, 1, n)
  PROVE  Len(snt) \in 0 .. Len(acc) /\ snt = SubSeq(acc, 1, Len(snt))
<1>1. Len(snt) \in 0 .. n
  <2>1. Len(snt \o buf) = Len(snt) + Len(buf)
    BY ConcatProperties
  <2>2. Len(SubSeq(acc, 1, n)) = n
    OBVIOUS
  <2>3. QED
    BY <2>1, <2>2, LenProperties
<1>2. snt = SubSeq(SubSeq(acc, 1, n), 1, Len(snt))
  BY PrefixOfConcat
<1>3. snt = SubSeq(acc, 1, Len(snt))
  BY <1>1, <1>2, PrefixOfPrefix
<1>4. QED
  BY <1>1, <1>3

\* Every step is one of OrderedStream, or none.
LEMMA RefinementStep ==
  ASSUME TypeOK, TypeOK', Buffers, StreamOrder, StreamOrder', [Next]_vars
  PROVE  [Stream!Next]_(Stream!vars)
<1>q. /\ buffered \in Seq(Packets) /\ wire \in Seq(Packets) /\ accepted \in Seq(Packets)
      /\ buffered' \in Seq(Packets) /\ wire' \in Seq(Packets) /\ accepted' \in Seq(Packets)
  BY DEF TypeOK
\* The three ways a step shows: not at all, an acceptance, a delivery.
<1>u. ASSUME UNCHANGED <<accepted, wire, transport, failed>>
      PROVE  UNCHANGED Stream!vars
  BY <1>u DEF Stream!vars, Working
<1>d. ASSUME Working, accepted' = accepted, Len(wire) <= Len(wire')
      PROVE  Stream!Deliver
  <2>1. /\ Len(wire') \in 0 .. Len(accepted')
        /\ wire' = SubSeq(accepted', 1, Len(wire'))
    <3>1. PICK n \in 0 .. Len(accepted') : wire' \o buffered' = SubSeq(accepted', 1, n)
      BY DEF StreamOrder
    <3>2. QED
      BY <1>q, <3>1, PrefixLemma
  <2>2. Len(wire') \in Len(wire) .. Len(accepted) /\ wire' = SubSeq(accepted, 1, Len(wire'))
    BY <1>q, <1>d, <2>1, LenProperties
  <2>3. Working' \in BOOLEAN
    BY DEF Working
  <2>4. QED
    BY <1>d, <2>2, <2>3 DEF Stream!Deliver
<1>1. ASSUME NEW w \in Writers, NEW o \in options.ops, Call(w, o) PROVE UNCHANGED Stream!vars
  BY <1>1, <1>u DEF Call, chanVars, sendVars
<1>2. ASSUME NEW w \in Writers, WriteEntry(w) PROVE UNCHANGED Stream!vars
  BY <1>2, <1>u DEF WriteEntry, chanVars, sendVars
<1>3. ASSUME NEW w \in Writers, WriteInactive(w) PROVE UNCHANGED Stream!vars
  BY <1>3, <1>u DEF WriteInactive, chanVars, sendVars
<1>4. ASSUME NEW w \in Writers, CheckCloseErr(w) PROVE UNCHANGED Stream!vars
  BY <1>4, <1>u DEF CheckCloseErr, Refuse, chanVars, sendVars
<1>5. ASSUME NEW w \in Writers, SelectEnqueue(w) PROVE Stream!Accept
  <2>1. Packet(w) \in Packets /\ accepted' = Append(accepted, Packet(w))
    BY <1>5 DEF SelectEnqueue, Packet, Packets, TypeOK
  <2>2. wire' = wire /\ Working' = Working
    BY <1>5 DEF SelectEnqueue, sendVars, Working
  <2>3. QED
    BY <2>1, <2>2 DEF Stream!Accept
<1>6. ASSUME NEW w \in Writers, SelectExpired(w) PROVE UNCHANGED Stream!vars
  BY <1>6, <1>u DEF SelectExpired, Refuse, chanVars, sendVars
<1>7. ASSUME NEW w \in Writers, SelectClosed(w) PROVE UNCHANGED Stream!vars
  BY <1>7, <1>u DEF SelectClosed, Refuse, chanVars, sendVars
<1>8. ASSUME NEW w \in Writers, SelectFull(w) PROVE UNCHANGED Stream!vars
  BY <1>8, <1>u DEF SelectFull, Refuse, chanVars, sendVars
<1>9. ASSUME NEW w \in Writers, TrySend(w) PROVE UNCHANGED Stream!vars
  BY <1>9, <1>u DEF TrySend, chanVars, sendVars
<1>10. ASSUME NEW w \in Writers, Recover(w) PROVE UNCHANGED Stream!vars
  BY <1>10, <1>u DEF Recover, chanVars, sendVars
<1>11. ASSUME NEW d \in Drainers, DrainTop(d) PROVE UNCHANGED Stream!vars
  BY <1>11, <1>u DEF DrainTop, chanVars, sendVars
<1>12. ASSUME NEW d \in Drainers, PollPacket(d) PROVE UNCHANGED Stream!vars
  BY <1>12, <1>u DEF PollPacket, chanVars, sendVars
<1>13. ASSUME NEW d \in Drainers, PollDone(d) PROVE UNCHANGED Stream!vars
  BY <1>13, <1>u DEF PollDone, chanVars, sendVars
<1>14. ASSUME NEW d \in Drainers, WritevPacket(d)
      PROVE  Stream!Deliver \/ UNCHANGED Stream!vars
  <2>1. accepted' = accepted /\ failed' = failed /\ transport' = transport
    BY <1>14 DEF WritevPacket, chanVars
  <2>2. CASE WriteBuffered
    <3>1. wire' = wire
      BY <2>2, <1>14, Zenon DEF WritevPacket
    <3>2. QED
      BY <2>1, <3>1, <1>u
  <2>3. CASE ~WriteBuffered
    <3>1. wire' = Append(wire, Head(writeBuffers)) /\ Working
      BY <2>3, <1>14, Zenon DEF WritevPacket, Working
    <3>2. Head(writeBuffers) \in Packets
      BY <1>14, HeadTailProperties DEF WritevPacket, TypeOK
    <3>3. Len(wire) <= Len(wire')
      BY <1>q, <3>1, <3>2
    <3>4. QED
      BY <2>1, <3>1, <3>3, <1>d
  <2>4. QED
    BY <2>2, <2>3
<1>15. ASSUME NEW d \in Drainers, Spill(d) PROVE Stream!Deliver
  <2>1. Working /\ accepted' = accepted /\ wire' = wire \o buffered
    BY <1>15 DEF Spill, chanVars
  <2>2. Len(wire) <= Len(wire')
    BY <1>q, <2>1, ConcatProperties, LenProperties
  <2>3. QED
    BY <2>1, <2>2, <1>d
<1>f. ASSUME NEW d \in Drainers, SendFails(d)
      PROVE  Stream!Deliver \/ UNCHANGED Stream!vars
  <2>1. PICK n \in 0 .. Len(buffered) : SendBuffered(n)
    BY <1>f DEF SendFails
  <2>2. accepted' = accepted /\ failed' = TRUE /\ transport' = transport
    BY <1>f DEF SendFails, chanVars
  <2>3. wire' = wire \o SubSeq(buffered, 1, n)
    BY <2>1 DEF SendBuffered
  <2>4. SubSeq(buffered, 1, n) \in Seq(Packets)
    BY <1>q
  <2>5. CASE Working
    <3>1. Len(wire) <= Len(wire')
      BY <1>q, <2>3, <2>4, ConcatProperties, LenProperties
    <3>2. QED
      BY <2>2, <2>5, <3>1, <1>d
  <2>6. CASE ~Working
    <3>1. n = 0
      BY <2>1, <2>6, <1>q DEF SendBuffered
    <3>2. wire' = wire
      BY <1>q, <2>3, <3>1, SubSeqEmpty, ConcatEmptySeq
    <3>3. ~Working'
      BY <2>2, <2>6 DEF Working
    <3>4. QED
      BY <2>2, <2>6, <3>2, <3>3 DEF Stream!vars, Working
  <2>7. QED
    BY <2>5, <2>6
<1>16. ASSUME NEW d \in Drainers, WritevFail(d)
      PROVE  Stream!Deliver \/ UNCHANGED Stream!vars
  BY <1>16, <1>f DEF WritevFail
<1>17. ASSUME NEW d \in Drainers, MorePackets(d) PROVE UNCHANGED Stream!vars
  BY <1>17, <1>u DEF MorePackets, chanVars, sendVars
<1>18. ASSUME NEW d \in Drainers, Flush(d)
      PROVE  Stream!Deliver \/ UNCHANGED Stream!vars
  <2>1. /\ accepted' = accepted /\ failed' = failed /\ transport' = transport
        /\ wire' = wire \o buffered
    BY <1>18 DEF Flush, chanVars
  <2>2. CASE buffered = <<>>
    <3>1. wire' = wire
      BY <1>q, <2>1, <2>2, ConcatEmptySeq
    <3>2. QED
      BY <2>1, <3>1, <1>u
  <2>3. CASE buffered # <<>>
    <3>1. Working
      BY <2>3, <1>18, Zenon DEF Flush, Buffers, Working
    <3>2. Len(wire) <= Len(wire')
      BY <1>q, <2>1, ConcatProperties, LenProperties
    <3>3. QED
      BY <2>1, <3>1, <3>2, <1>d
  <2>4. QED
    BY <2>2, <2>3
<1>19. ASSUME NEW d \in Drainers, FlushFail(d)
      PROVE  Stream!Deliver \/ UNCHANGED Stream!vars
  BY <1>19, <1>f DEF FlushFail
<1>20. ASSUME NEW d \in Drainers, StoreIdle(d) PROVE UNCHANGED Stream!vars
  BY <1>20, <1>u DEF StoreIdle, chanVars, sendVars
<1>21. ASSUME NEW d \in Drainers, Recheck(d) PROVE UNCHANGED Stream!vars
  BY <1>21, <1>u DEF Recheck, chanVars, sendVars
<1>22. ASSUME NEW d \in Drainers, ReCas(d) PROVE UNCHANGED Stream!vars
  BY <1>22, <1>u DEF ReCas, chanVars, sendVars
<1>23. ASSUME NEW d \in Drainers, Panic(d) PROVE UNCHANGED Stream!vars
  BY <1>23, <1>u DEF Panic, chanVars, sendVars
<1>24. ASSUME NEW c \in Closers, UserClose(c) PROVE UNCHANGED Stream!vars
  BY <1>24, <1>u DEF UserClose, chanVars, sendVars
<1>25. ASSUME NEW p \in Procs, CloseCas(p) PROVE UNCHANGED Stream!vars
  BY <1>25, <1>u DEF CloseCas, chanVars, sendVars
<1>26. ASSUME NEW p \in Procs, CloseSleep(p) PROVE UNCHANGED Stream!vars
  BY <1>26, <1>u DEF CloseSleep, chanVars, sendVars
<1>27. ASSUME NEW p \in Procs, CloseWaitEnds(p) PROVE UNCHANGED Stream!vars
  BY <1>27, <1>u DEF CloseWaitEnds, chanVars, sendVars
<1>28. ASSUME NEW p \in Procs, CloseSetErr(p) PROVE UNCHANGED Stream!vars
  BY <1>28, <1>u DEF CloseSetErr, chanVars, sendVars
<1>29. ASSUME NEW p \in Procs, CloseTransport(p)
      PROVE  Stream!Deliver \/ UNCHANGED Stream!vars
  <2>1. accepted' = accepted /\ wire' = wire /\ failed' = failed /\ transport' = "closed"
    BY <1>29 DEF CloseTransport, chanVars, sendVars
  <2>2. CASE Working
    BY <1>q, <2>1, <2>2, <1>d, LenProperties
  <2>3. CASE ~Working
    BY <2>1, <2>3 DEF Stream!vars, Working
  <2>4. QED
    BY <2>2, <2>3
<1>30. ASSUME NEW p \in Procs, CloseCancel(p) PROVE UNCHANGED Stream!vars
  BY <1>30, <1>u DEF CloseCancel, chanVars, sendVars
<1>31. ASSUME NEW p \in Procs, CloseInactive(p) PROVE UNCHANGED Stream!vars
  BY <1>31, <1>u DEF CloseInactive, chanVars, sendVars
<1>32. CASE ParentCancel
  BY <1>u, <1>32 DEF ParentCancel, chanVars, sendVars
<1>33. CASE UNCHANGED vars
  BY <1>u, <1>33 DEF vars, chanVars, sendVars
<1>34. QED
  BY <1>1, <1>2, <1>3, <1>4, <1>5, <1>6, <1>7, <1>8, <1>9, <1>10, <1>11, <1>12, <1>13, <1>14, <1>15, <1>16, <1>17, <1>18, <1>19, <1>20, <1>21, <1>22, <1>23, <1>24, <1>25, <1>26, <1>27, <1>28, <1>29, <1>30, <1>31, <1>32, <1>33
  DEF Next, WriterStep, DrainerStep, TransportStep, TransportFail, CloseStep, Rest,
      Stream!Next

\* The queue, the batches, the transport's buffer, the hand-over of writeOnce
\* between goroutines, its failures and Close: to the peer all of it is the
\* ordered stream (channel.go, asyncWrite, writeOnce and Close).
THEOREM Refinement == Spec => ImplementsStream
<1>1. Init => Stream!Init
  BY DEF Init, Stream!Init, Working
<1>2. IndInv /\ IndInv' /\ [Next]_vars => [Stream!Next]_(Stream!vars)
  BY RefinementStep DEF IndInv
<1>3. QED
  BY <1>1, <1>2, IndInvariant, PTL DEF Spec, ImplementsStream, Stream!Spec
=============================================================================
