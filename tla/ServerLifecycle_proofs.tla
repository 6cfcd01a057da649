----------------------- MODULE ServerLifecycle_proofs -----------------------
(***************************************************************************)
(* Proofs about ServerLifecycle, for any number of channels, users and     *)
(* goroutines that call Shutdown.                                          *)
(***************************************************************************)
EXTENDS ServerLifecycle, TLAPS

-----------------------------------------------------------------------------
(* Types.                                                                  *)

\* The bootstrap starts well typed.
LEMMA InitType == Init => TypeOK
BY LifecycleAssumption
   DEF Init, TypeOK, Procs, ReaderLabels, CloserLabels, StopperLabels, CloseLabels

\* Every step keeps the types.
LEMMA TypeStep == TypeOK /\ [Next]_vars => TypeOK'
<1> SUFFICES ASSUME TypeOK, [Next]_vars PROVE TypeOK'
  OBVIOUS
<1> USE LifecycleAssumption
    DEF TypeOK, listenVars, holderVars, closeVars, Goto, Procs,
        ReaderLabels, CloserLabels, StopperLabels, CloseLabels
<1>1. ASSUME NEW c \in Channels, Accept(c) PROVE TypeOK'
  BY <1>1 DEF Accept
<1>2. ASSUME NEW c \in Channels, Connect(c) PROVE TypeOK'
  BY <1>2 DEF Connect, ServeCtxDone
<1>3. ASSUME NEW c \in Channels, AddChannel(c) PROVE TypeOK'
  BY <1>3 DEF AddChannel
<1>4. ASSUME NEW c \in Channels, HandlerReturns(c) PROVE TypeOK'
  BY <1>4 DEF HandlerReturns, AfterEvent
<1>5. ASSUME NEW c \in Channels, HandlerPanics(c) PROVE TypeOK'
  BY <1>5 DEF HandlerPanics
<1>6. ASSUME NEW c \in Channels, HandlerCloses(c) PROVE TypeOK'
  BY <1>6 DEF HandlerCloses, CallClose
<1>7. ASSUME NEW c \in Channels, Swallowed(c) PROVE TypeOK'
  BY <1>7 DEF Swallowed, AfterEvent
<1>8. ASSUME NEW c \in Channels, ExceptionPanics(c) PROVE TypeOK'
  BY <1>8 DEF ExceptionPanics
<1>9. ASSUME NEW c \in Channels, ActiveDone(c) PROVE TypeOK'
  BY <1>9 DEF ActiveDone
<1>10. ASSUME NEW c \in Channels, Loop(c) PROVE TypeOK'
  BY <1>10 DEF Loop, CtxDone, ServeCtxDone
<1>11. ASSUME NEW c \in Channels, Exit(c) PROVE TypeOK'
  BY <1>11 DEF Exit, CallClose
<1>12. CASE AcceptFails
  BY <1>12 DEF AcceptFails
<1>13. CASE Served
  BY <1>13 DEF Served
<1>14. CASE Report
  BY <1>14 DEF Report, ServeCtxDone
<1>15. CASE UserCloseListener
  BY <1>15 DEF UserCloseListener
<1>16. ASSUME NEW u \in Closers, UserClose(u) PROVE TypeOK'
  BY <1>16 DEF UserClose, CallClose
<1>17. ASSUME NEW s \in Stoppers, Cancel(s) PROVE TypeOK'
  BY <1>17 DEF Cancel
<1>18. ASSUME NEW s \in Stoppers, CloseListeners(s) PROVE TypeOK'
  BY <1>18 DEF CloseListeners
<1>19. ASSUME NEW s \in Stoppers, TakeChannels(s) PROVE TypeOK'
  BY <1>19 DEF TakeChannels
<1>20. ASSUME NEW s \in Stoppers, CloseNext(s) PROVE TypeOK'
  BY <1>20 DEF CloseNext, CallClose
<1>21. ASSUME NEW s \in Stoppers, ShutdownDone(s) PROVE TypeOK'
  BY <1>21 DEF ShutdownDone
<1>22. ASSUME NEW p \in Procs, CloseCas(p) PROVE TypeOK'
  BY <1>22 DEF CloseCas, Return
<1>23. ASSUME NEW p \in Procs, CloseTransport(p) PROVE TypeOK'
  BY <1>23 DEF CloseTransport
<1>24. ASSUME NEW p \in Procs, CloseCancel(p) PROVE TypeOK'
  BY <1>24 DEF CloseCancel
<1>25. ASSUME NEW p \in Procs, DelChannel(p) PROVE TypeOK'
  BY <1>25 DEF DelChannel
<1>26. ASSUME NEW p \in Procs, CloseInactive(p) PROVE TypeOK'
  BY <1>26 DEF CloseInactive, Return
<1>27. CASE UNCHANGED vars
  BY <1>27 DEF vars
<1>28. QED
  BY <1>1, <1>2, <1>3, <1>4, <1>5, <1>6, <1>7, <1>8, <1>9, <1>10, <1>11, <1>12, <1>13, <1>14, <1>15, <1>16, <1>17, <1>18, <1>19, <1>20, <1>21, <1>22, <1>23, <1>24, <1>25, <1>26, <1>27
  DEF Next, ReaderStep, HandlerStep, CloseStep, ShutdownStep

\* Every variable keeps its type, and no read loop runs before it signalled
\* the end of its active event (channel.go, readLoop).
THEOREM TypeInvariant == Spec => []TypeOK
<1>1. TypeOK /\ [Next]_vars => TypeOK'
  BY TypeStep
<1>2. QED
  BY InitType, <1>1, PTL DEF Spec

-----------------------------------------------------------------------------
(* The holder is exact.                                                    *)

\* The holder saw the active event of c.
Started(c) == pc[c] \notin {"none", "add"}

\* Close is called on channels that are served, and its body on channels that
\* are closed.
ClosesServed ==
  \A p \in Procs :
    /\ pc[p] \in CloseLabels => pc[target[p]] # "none"
    /\ pc[p] \in CloseLabels \ {"closeCas"} => target[p] \in closed

\* Nothing is closed before it is served, nor held or taken from the holder
\* before it started.
NothingEarly ==
  /\ inactive \subseteq closed
  /\ \A c \in Channels :
       /\ pc[c] = "none" => c \notin closed
       /\ ~Started(c) => c \notin holder /\ \A s \in Stoppers : c \notin pending[s]

\* A stopper has nothing left of the map before it takes it.
TakesOnce ==
  \A s \in Stoppers : pc[s] \in {"start", "listeners", "swap"} => pending[s] = {}

\* A channel that was closed before it started is known to be early once its
\* inactive event passed the holder.
EarlyIsKnown ==
  /\ \A c \in Channels : pc[c] = "add" /\ c \in inactive => c \in early
  /\ \A p \in Procs :
       pc[p] = "closeInactive" /\ pc[target[p]] = "add" => target[p] \in early

\* Any other channel is not in the holder between its two inactive handlers.
Deleted ==
  \A p \in Procs :
    pc[p] = "closeInactive" => target[p] \notin holder \/ target[p] \in early

HolderInv ==
  ClosesServed /\ NothingEarly /\ TakesOnce /\ EarlyIsKnown /\ Deleted /\ HolderIsExact

\* The holder is empty at first.
LEMMA InitHolder == Init => HolderInv
BY LifecycleAssumption
   DEF Init, HolderInv, ClosesServed, NothingEarly, TakesOnce, EarlyIsKnown, Deleted, HolderIsExact,
       Started, Procs, CloseLabels

\* Close stays with channels that are served.
LEMMA ClosesServedStep == TypeOK /\ HolderInv /\ [Next]_vars => ClosesServed'
<1> SUFFICES ASSUME TypeOK, HolderInv, [Next]_vars PROVE ClosesServed'
  OBVIOUS
<1> USE LifecycleAssumption
    DEF TypeOK, HolderInv, ClosesServed, NothingEarly, Started, listenVars, holderVars, closeVars, Goto, Procs, CloseLabels
<1>1. ASSUME NEW c \in Channels, Accept(c) PROVE ClosesServed'
  BY <1>1 DEF Accept
<1>2. ASSUME NEW c \in Channels, Connect(c) PROVE ClosesServed'
  BY <1>2 DEF Connect, ServeCtxDone
<1>3. ASSUME NEW c \in Channels, AddChannel(c) PROVE ClosesServed'
  BY <1>3 DEF AddChannel
<1>4. ASSUME NEW c \in Channels, HandlerReturns(c) PROVE ClosesServed'
  BY <1>4 DEF HandlerReturns, AfterEvent
<1>5. ASSUME NEW c \in Channels, HandlerPanics(c) PROVE ClosesServed'
  BY <1>5 DEF HandlerPanics
<1>6. ASSUME NEW c \in Channels, HandlerCloses(c) PROVE ClosesServed'
  BY <1>6 DEF HandlerCloses, CallClose
<1>7. ASSUME NEW c \in Channels, Swallowed(c) PROVE ClosesServed'
  BY <1>7 DEF Swallowed, AfterEvent
<1>8. ASSUME NEW c \in Channels, ExceptionPanics(c) PROVE ClosesServed'
  BY <1>8 DEF ExceptionPanics
<1>9. ASSUME NEW c \in Channels, ActiveDone(c) PROVE ClosesServed'
  BY <1>9 DEF ActiveDone
<1>10. ASSUME NEW c \in Channels, Loop(c) PROVE ClosesServed'
  BY <1>10 DEF Loop, CtxDone, ServeCtxDone
<1>11. ASSUME NEW c \in Channels, Exit(c) PROVE ClosesServed'
  BY <1>11 DEF Exit, CallClose
<1>12. CASE AcceptFails
  BY <1>12 DEF AcceptFails
<1>13. CASE Served
  BY <1>13 DEF Served
<1>14. CASE Report
  BY <1>14 DEF Report, ServeCtxDone
<1>15. CASE UserCloseListener
  BY <1>15 DEF UserCloseListener
<1>16. ASSUME NEW u \in Closers, UserClose(u) PROVE ClosesServed'
  BY <1>16 DEF UserClose, CallClose
<1>17. ASSUME NEW s \in Stoppers, Cancel(s) PROVE ClosesServed'
  BY <1>17 DEF Cancel
<1>18. ASSUME NEW s \in Stoppers, CloseListeners(s) PROVE ClosesServed'
  BY <1>18 DEF CloseListeners
<1>19. ASSUME NEW s \in Stoppers, TakeChannels(s) PROVE ClosesServed'
  BY <1>19 DEF TakeChannels
<1>20. ASSUME NEW s \in Stoppers, CloseNext(s) PROVE ClosesServed'
  BY <1>20 DEF CloseNext, CallClose
<1>21. ASSUME NEW s \in Stoppers, ShutdownDone(s) PROVE ClosesServed'
  BY <1>21 DEF ShutdownDone
<1>22. ASSUME NEW p \in Procs, CloseCas(p) PROVE ClosesServed'
  BY <1>22 DEF CloseCas, Return
<1>23. ASSUME NEW p \in Procs, CloseTransport(p) PROVE ClosesServed'
  BY <1>23 DEF CloseTransport
<1>24. ASSUME NEW p \in Procs, CloseCancel(p) PROVE ClosesServed'
  BY <1>24 DEF CloseCancel
<1>25. ASSUME NEW p \in Procs, DelChannel(p) PROVE ClosesServed'
  BY <1>25 DEF DelChannel
<1>26. ASSUME NEW p \in Procs, CloseInactive(p) PROVE ClosesServed'
  BY <1>26 DEF CloseInactive, Return
<1>27. CASE UNCHANGED vars
  BY <1>27 DEF vars
<1>28. QED
  BY <1>1, <1>2, <1>3, <1>4, <1>5, <1>6, <1>7, <1>8, <1>9, <1>10, <1>11, <1>12, <1>13, <1>14, <1>15, <1>16, <1>17, <1>18, <1>19, <1>20, <1>21, <1>22, <1>23, <1>24, <1>25, <1>26, <1>27
  DEF Next, ReaderStep, HandlerStep, CloseStep, ShutdownStep

\* A channel is served before anybody closes it, and starts before anybody
\* holds or takes it.
LEMMA NothingEarlyStep == TypeOK /\ HolderInv /\ [Next]_vars => NothingEarly'
<1> SUFFICES ASSUME TypeOK, HolderInv, [Next]_vars PROVE NothingEarly'
  OBVIOUS
<1> USE LifecycleAssumption
    DEF TypeOK, HolderInv, ClosesServed, NothingEarly, Started, listenVars, holderVars, closeVars, Goto, Procs, CloseLabels
<1>1. ASSUME NEW c \in Channels, Accept(c) PROVE NothingEarly'
  BY <1>1 DEF Accept
<1>2. ASSUME NEW c \in Channels, Connect(c) PROVE NothingEarly'
  BY <1>2 DEF Connect, ServeCtxDone
<1>3. ASSUME NEW c \in Channels, AddChannel(c) PROVE NothingEarly'
  BY <1>3 DEF AddChannel
<1>4. ASSUME NEW c \in Channels, HandlerReturns(c) PROVE NothingEarly'
  BY <1>4 DEF HandlerReturns, AfterEvent
<1>5. ASSUME NEW c \in Channels, HandlerPanics(c) PROVE NothingEarly'
  BY <1>5 DEF HandlerPanics
<1>6. ASSUME NEW c \in Channels, HandlerCloses(c) PROVE NothingEarly'
  BY <1>6 DEF HandlerCloses, CallClose
<1>7. ASSUME NEW c \in Channels, Swallowed(c) PROVE NothingEarly'
  BY <1>7 DEF Swallowed, AfterEvent
<1>8. ASSUME NEW c \in Channels, ExceptionPanics(c) PROVE NothingEarly'
  BY <1>8 DEF ExceptionPanics
<1>9. ASSUME NEW c \in Channels, ActiveDone(c) PROVE NothingEarly'
  BY <1>9 DEF ActiveDone
<1>10. ASSUME NEW c \in Channels, Loop(c) PROVE NothingEarly'
  BY <1>10 DEF Loop, CtxDone, ServeCtxDone
<1>11. ASSUME NEW c \in Channels, Exit(c) PROVE NothingEarly'
  BY <1>11 DEF Exit, CallClose
<1>12. CASE AcceptFails
  BY <1>12 DEF AcceptFails
<1>13. CASE Served
  BY <1>13 DEF Served
<1>14. CASE Report
  BY <1>14 DEF Report, ServeCtxDone
<1>15. CASE UserCloseListener
  BY <1>15 DEF UserCloseListener
<1>16. ASSUME NEW u \in Closers, UserClose(u) PROVE NothingEarly'
  BY <1>16 DEF UserClose, CallClose
<1>17. ASSUME NEW s \in Stoppers, Cancel(s) PROVE NothingEarly'
  BY <1>17 DEF Cancel
<1>18. ASSUME NEW s \in Stoppers, CloseListeners(s) PROVE NothingEarly'
  BY <1>18 DEF CloseListeners
<1>19. ASSUME NEW s \in Stoppers, TakeChannels(s) PROVE NothingEarly'
  BY <1>19 DEF TakeChannels
<1>20. ASSUME NEW s \in Stoppers, CloseNext(s) PROVE NothingEarly'
  BY <1>20 DEF CloseNext, CallClose
<1>21. ASSUME NEW s \in Stoppers, ShutdownDone(s) PROVE NothingEarly'
  BY <1>21 DEF ShutdownDone
<1>22. ASSUME NEW p \in Procs, CloseCas(p) PROVE NothingEarly'
  BY <1>22 DEF CloseCas, Return
<1>23. ASSUME NEW p \in Procs, CloseTransport(p) PROVE NothingEarly'
  BY <1>23 DEF CloseTransport
<1>24. ASSUME NEW p \in Procs, CloseCancel(p) PROVE NothingEarly'
  BY <1>24 DEF CloseCancel
<1>25. ASSUME NEW p \in Procs, DelChannel(p) PROVE NothingEarly'
  BY <1>25 DEF DelChannel
<1>26. ASSUME NEW p \in Procs, CloseInactive(p) PROVE NothingEarly'
  BY <1>26 DEF CloseInactive, Return
<1>27. CASE UNCHANGED vars
  BY <1>27 DEF vars
<1>28. QED
  BY <1>1, <1>2, <1>3, <1>4, <1>5, <1>6, <1>7, <1>8, <1>9, <1>10, <1>11, <1>12, <1>13, <1>14, <1>15, <1>16, <1>17, <1>18, <1>19, <1>20, <1>21, <1>22, <1>23, <1>24, <1>25, <1>26, <1>27
  DEF Next, ReaderStep, HandlerStep, CloseStep, ShutdownStep

\* A stopper takes the map once.
LEMMA TakesOnceStep == TypeOK /\ HolderInv /\ [Next]_vars => TakesOnce'
<1> SUFFICES ASSUME TypeOK, HolderInv, [Next]_vars PROVE TakesOnce'
  OBVIOUS
<1> USE LifecycleAssumption
    DEF TypeOK, HolderInv, TakesOnce, listenVars, holderVars, closeVars, Goto, Procs, CloseLabels
<1>1. ASSUME NEW c \in Channels, Accept(c) PROVE TakesOnce'
  BY <1>1 DEF Accept
<1>2. ASSUME NEW c \in Channels, Connect(c) PROVE TakesOnce'
  BY <1>2 DEF Connect, ServeCtxDone
<1>3. ASSUME NEW c \in Channels, AddChannel(c) PROVE TakesOnce'
  BY <1>3 DEF AddChannel
<1>4. ASSUME NEW c \in Channels, HandlerReturns(c) PROVE TakesOnce'
  BY <1>4 DEF HandlerReturns, AfterEvent
<1>5. ASSUME NEW c \in Channels, HandlerPanics(c) PROVE TakesOnce'
  BY <1>5 DEF HandlerPanics
<1>6. ASSUME NEW c \in Channels, HandlerCloses(c) PROVE TakesOnce'
  BY <1>6 DEF HandlerCloses, CallClose
<1>7. ASSUME NEW c \in Channels, Swallowed(c) PROVE TakesOnce'
  BY <1>7 DEF Swallowed, AfterEvent
<1>8. ASSUME NEW c \in Channels, ExceptionPanics(c) PROVE TakesOnce'
  BY <1>8 DEF ExceptionPanics
<1>9. ASSUME NEW c \in Channels, ActiveDone(c) PROVE TakesOnce'
  BY <1>9 DEF ActiveDone
<1>10. ASSUME NEW c \in Channels, Loop(c) PROVE TakesOnce'
  BY <1>10 DEF Loop, CtxDone, ServeCtxDone
<1>11. ASSUME NEW c \in Channels, Exit(c) PROVE TakesOnce'
  BY <1>11 DEF Exit, CallClose
<1>12. CASE AcceptFails
  BY <1>12 DEF AcceptFails
<1>13. CASE Served
  BY <1>13 DEF Served
<1>14. CASE Report
  BY <1>14 DEF Report, ServeCtxDone
<1>15. CASE UserCloseListener
  BY <1>15 DEF UserCloseListener
<1>16. ASSUME NEW u \in Closers, UserClose(u) PROVE TakesOnce'
  BY <1>16 DEF UserClose, CallClose
<1>17. ASSUME NEW s \in Stoppers, Cancel(s) PROVE TakesOnce'
  BY <1>17 DEF Cancel
<1>18. ASSUME NEW s \in Stoppers, CloseListeners(s) PROVE TakesOnce'
  BY <1>18 DEF CloseListeners
<1>19. ASSUME NEW s \in Stoppers, TakeChannels(s) PROVE TakesOnce'
  BY <1>19 DEF TakeChannels
<1>20. ASSUME NEW s \in Stoppers, CloseNext(s) PROVE TakesOnce'
  BY <1>20 DEF CloseNext, CallClose
<1>21. ASSUME NEW s \in Stoppers, ShutdownDone(s) PROVE TakesOnce'
  BY <1>21 DEF ShutdownDone
<1>22. ASSUME NEW p \in Procs, CloseCas(p) PROVE TakesOnce'
  BY <1>22 DEF CloseCas, Return
<1>23. ASSUME NEW p \in Procs, CloseTransport(p) PROVE TakesOnce'
  BY <1>23 DEF CloseTransport
<1>24. ASSUME NEW p \in Procs, CloseCancel(p) PROVE TakesOnce'
  BY <1>24 DEF CloseCancel
<1>25. ASSUME NEW p \in Procs, DelChannel(p) PROVE TakesOnce'
  BY <1>25 DEF DelChannel
<1>26. ASSUME NEW p \in Procs, CloseInactive(p) PROVE TakesOnce'
  BY <1>26 DEF CloseInactive, Return
<1>27. CASE UNCHANGED vars
  BY <1>27 DEF vars
<1>28. QED
  BY <1>1, <1>2, <1>3, <1>4, <1>5, <1>6, <1>7, <1>8, <1>9, <1>10, <1>11, <1>12, <1>13, <1>14, <1>15, <1>16, <1>17, <1>18, <1>19, <1>20, <1>21, <1>22, <1>23, <1>24, <1>25, <1>26, <1>27
  DEF Next, ReaderStep, HandlerStep, CloseStep, ShutdownStep

\* Every step knows the channels that were closed early.
LEMMA EarlyStep == TypeOK /\ HolderInv /\ [Next]_vars => EarlyIsKnown'
<1> SUFFICES ASSUME TypeOK, HolderInv, [Next]_vars PROVE EarlyIsKnown'
  OBVIOUS
<1> USE LifecycleAssumption
    DEF TypeOK, HolderInv, EarlyIsKnown, ClosesServed, NothingEarly, Started, listenVars, holderVars,
        closeVars, Goto, Procs, CloseLabels
<1>1. ASSUME NEW c \in Channels, Accept(c) PROVE EarlyIsKnown'
  BY <1>1 DEF Accept
<1>2. ASSUME NEW c \in Channels, Connect(c) PROVE EarlyIsKnown'
  BY <1>2 DEF Connect, ServeCtxDone
<1>3. ASSUME NEW c \in Channels, AddChannel(c) PROVE EarlyIsKnown'
  BY <1>3 DEF AddChannel
<1>4. ASSUME NEW c \in Channels, HandlerReturns(c) PROVE EarlyIsKnown'
  BY <1>4 DEF HandlerReturns, AfterEvent
<1>5. ASSUME NEW c \in Channels, HandlerPanics(c) PROVE EarlyIsKnown'
  BY <1>5 DEF HandlerPanics
<1>6. ASSUME NEW c \in Channels, HandlerCloses(c) PROVE EarlyIsKnown'
  BY <1>6 DEF HandlerCloses, CallClose
<1>7. ASSUME NEW c \in Channels, Swallowed(c) PROVE EarlyIsKnown'
  BY <1>7 DEF Swallowed, AfterEvent
<1>8. ASSUME NEW c \in Channels, ExceptionPanics(c) PROVE EarlyIsKnown'
  BY <1>8 DEF ExceptionPanics
<1>9. ASSUME NEW c \in Channels, ActiveDone(c) PROVE EarlyIsKnown'
  BY <1>9 DEF ActiveDone
<1>10. ASSUME NEW c \in Channels, Loop(c) PROVE EarlyIsKnown'
  BY <1>10 DEF Loop, CtxDone, ServeCtxDone
<1>11. ASSUME NEW c \in Channels, Exit(c) PROVE EarlyIsKnown'
  BY <1>11 DEF Exit, CallClose
<1>12. CASE AcceptFails
  BY <1>12 DEF AcceptFails
<1>13. CASE Served
  BY <1>13 DEF Served
<1>14. CASE Report
  BY <1>14 DEF Report, ServeCtxDone
<1>15. CASE UserCloseListener
  BY <1>15 DEF UserCloseListener
<1>16. ASSUME NEW u \in Closers, UserClose(u) PROVE EarlyIsKnown'
  BY <1>16 DEF UserClose, CallClose
<1>17. ASSUME NEW s \in Stoppers, Cancel(s) PROVE EarlyIsKnown'
  BY <1>17 DEF Cancel
<1>18. ASSUME NEW s \in Stoppers, CloseListeners(s) PROVE EarlyIsKnown'
  BY <1>18 DEF CloseListeners
<1>19. ASSUME NEW s \in Stoppers, TakeChannels(s) PROVE EarlyIsKnown'
  BY <1>19 DEF TakeChannels
<1>20. ASSUME NEW s \in Stoppers, CloseNext(s) PROVE EarlyIsKnown'
  BY <1>20 DEF CloseNext, CallClose
<1>21. ASSUME NEW s \in Stoppers, ShutdownDone(s) PROVE EarlyIsKnown'
  BY <1>21 DEF ShutdownDone
<1>22. ASSUME NEW p \in Procs, CloseCas(p) PROVE EarlyIsKnown'
  BY <1>22 DEF CloseCas, Return
<1>23. ASSUME NEW p \in Procs, CloseTransport(p) PROVE EarlyIsKnown'
  BY <1>23 DEF CloseTransport
<1>24. ASSUME NEW p \in Procs, CloseCancel(p) PROVE EarlyIsKnown'
  BY <1>24 DEF CloseCancel
<1>25. ASSUME NEW p \in Procs, DelChannel(p) PROVE EarlyIsKnown'
  BY <1>25 DEF DelChannel
<1>26. ASSUME NEW p \in Procs, CloseInactive(p) PROVE EarlyIsKnown'
  BY <1>26 DEF CloseInactive, Return
<1>27. CASE UNCHANGED vars
  BY <1>27 DEF vars
<1>28. QED
  BY <1>1, <1>2, <1>3, <1>4, <1>5, <1>6, <1>7, <1>8, <1>9, <1>10, <1>11, <1>12, <1>13, <1>14, <1>15, <1>16, <1>17, <1>18, <1>19, <1>20, <1>21, <1>22, <1>23, <1>24, <1>25, <1>26, <1>27
  DEF Next, ReaderStep, HandlerStep, CloseStep, ShutdownStep

\* The holder forgets a channel before the user hears of its end.
LEMMA DeletedStep == TypeOK /\ HolderInv /\ [Next]_vars => Deleted'
<1> SUFFICES ASSUME TypeOK, HolderInv, [Next]_vars PROVE Deleted'
  OBVIOUS
<1> USE LifecycleAssumption
    DEF TypeOK, HolderInv, Deleted, EarlyIsKnown, ClosesServed, NothingEarly, Started, listenVars, holderVars, closeVars, Goto, Procs, CloseLabels
<1>1. ASSUME NEW c \in Channels, Accept(c) PROVE Deleted'
  BY <1>1 DEF Accept
<1>2. ASSUME NEW c \in Channels, Connect(c) PROVE Deleted'
  BY <1>2 DEF Connect, ServeCtxDone
<1>3. ASSUME NEW c \in Channels, AddChannel(c) PROVE Deleted'
  BY <1>3 DEF AddChannel
<1>4. ASSUME NEW c \in Channels, HandlerReturns(c) PROVE Deleted'
  BY <1>4 DEF HandlerReturns, AfterEvent
<1>5. ASSUME NEW c \in Channels, HandlerPanics(c) PROVE Deleted'
  BY <1>5 DEF HandlerPanics
<1>6. ASSUME NEW c \in Channels, HandlerCloses(c) PROVE Deleted'
  BY <1>6 DEF HandlerCloses, CallClose
<1>7. ASSUME NEW c \in Channels, Swallowed(c) PROVE Deleted'
  BY <1>7 DEF Swallowed, AfterEvent
<1>8. ASSUME NEW c \in Channels, ExceptionPanics(c) PROVE Deleted'
  BY <1>8 DEF ExceptionPanics
<1>9. ASSUME NEW c \in Channels, ActiveDone(c) PROVE Deleted'
  BY <1>9 DEF ActiveDone
<1>10. ASSUME NEW c \in Channels, Loop(c) PROVE Deleted'
  BY <1>10 DEF Loop, CtxDone, ServeCtxDone
<1>11. ASSUME NEW c \in Channels, Exit(c) PROVE Deleted'
  BY <1>11 DEF Exit, CallClose
<1>12. CASE AcceptFails
  BY <1>12 DEF AcceptFails
<1>13. CASE Served
  BY <1>13 DEF Served
<1>14. CASE Report
  BY <1>14 DEF Report, ServeCtxDone
<1>15. CASE UserCloseListener
  BY <1>15 DEF UserCloseListener
<1>16. ASSUME NEW u \in Closers, UserClose(u) PROVE Deleted'
  BY <1>16 DEF UserClose, CallClose
<1>17. ASSUME NEW s \in Stoppers, Cancel(s) PROVE Deleted'
  BY <1>17 DEF Cancel
<1>18. ASSUME NEW s \in Stoppers, CloseListeners(s) PROVE Deleted'
  BY <1>18 DEF CloseListeners
<1>19. ASSUME NEW s \in Stoppers, TakeChannels(s) PROVE Deleted'
  BY <1>19 DEF TakeChannels
<1>20. ASSUME NEW s \in Stoppers, CloseNext(s) PROVE Deleted'
  BY <1>20 DEF CloseNext, CallClose
<1>21. ASSUME NEW s \in Stoppers, ShutdownDone(s) PROVE Deleted'
  BY <1>21 DEF ShutdownDone
<1>22. ASSUME NEW p \in Procs, CloseCas(p) PROVE Deleted'
  BY <1>22 DEF CloseCas, Return
<1>23. ASSUME NEW p \in Procs, CloseTransport(p) PROVE Deleted'
  BY <1>23 DEF CloseTransport
<1>24. ASSUME NEW p \in Procs, CloseCancel(p) PROVE Deleted'
  BY <1>24 DEF CloseCancel
<1>25. ASSUME NEW p \in Procs, DelChannel(p) PROVE Deleted'
  BY <1>25 DEF DelChannel
<1>26. ASSUME NEW p \in Procs, CloseInactive(p) PROVE Deleted'
  BY <1>26 DEF CloseInactive, Return
<1>27. CASE UNCHANGED vars
  BY <1>27 DEF vars
<1>28. QED
  BY <1>1, <1>2, <1>3, <1>4, <1>5, <1>6, <1>7, <1>8, <1>9, <1>10, <1>11, <1>12, <1>13, <1>14, <1>15, <1>16, <1>17, <1>18, <1>19, <1>20, <1>21, <1>22, <1>23, <1>24, <1>25, <1>26, <1>27
  DEF Next, ReaderStep, HandlerStep, CloseStep, ShutdownStep

\* Every step keeps the holder exact.
LEMMA ExactStep == TypeOK /\ HolderInv /\ [Next]_vars => HolderIsExact'
<1> SUFFICES ASSUME TypeOK, HolderInv, [Next]_vars PROVE HolderIsExact'
  OBVIOUS
<1> USE LifecycleAssumption
    DEF TypeOK, HolderInv, HolderIsExact, WillClose, Deleted, EarlyIsKnown, TakesOnce,
        ClosesServed, NothingEarly, Started, listenVars, holderVars, closeVars, Goto, Procs, CloseLabels
<1>1. ASSUME NEW c \in Channels, Accept(c) PROVE HolderIsExact'
  BY <1>1 DEF Accept
<1>2. ASSUME NEW c \in Channels, Connect(c) PROVE HolderIsExact'
  BY <1>2 DEF Connect, ServeCtxDone
<1>3. ASSUME NEW c \in Channels, AddChannel(c) PROVE HolderIsExact'
  BY <1>3 DEF AddChannel
<1>4. ASSUME NEW c \in Channels, HandlerReturns(c) PROVE HolderIsExact'
  BY <1>4 DEF HandlerReturns, AfterEvent
<1>5. ASSUME NEW c \in Channels, HandlerPanics(c) PROVE HolderIsExact'
  BY <1>5 DEF HandlerPanics
<1>6. ASSUME NEW c \in Channels, HandlerCloses(c) PROVE HolderIsExact'
  BY <1>6 DEF HandlerCloses, CallClose
<1>7. ASSUME NEW c \in Channels, Swallowed(c) PROVE HolderIsExact'
  BY <1>7 DEF Swallowed, AfterEvent
<1>8. ASSUME NEW c \in Channels, ExceptionPanics(c) PROVE HolderIsExact'
  BY <1>8 DEF ExceptionPanics
<1>9. ASSUME NEW c \in Channels, ActiveDone(c) PROVE HolderIsExact'
  BY <1>9 DEF ActiveDone
<1>10. ASSUME NEW c \in Channels, Loop(c) PROVE HolderIsExact'
  BY <1>10 DEF Loop, CtxDone, ServeCtxDone
<1>11. ASSUME NEW c \in Channels, Exit(c) PROVE HolderIsExact'
  BY <1>11 DEF Exit, CallClose
<1>12. CASE AcceptFails
  BY <1>12 DEF AcceptFails
<1>13. CASE Served
  BY <1>13 DEF Served
<1>14. CASE Report
  BY <1>14 DEF Report, ServeCtxDone
<1>15. CASE UserCloseListener
  BY <1>15 DEF UserCloseListener
<1>16. ASSUME NEW u \in Closers, UserClose(u) PROVE HolderIsExact'
  BY <1>16 DEF UserClose, CallClose
<1>17. ASSUME NEW s \in Stoppers, Cancel(s) PROVE HolderIsExact'
  BY <1>17 DEF Cancel
<1>18. ASSUME NEW s \in Stoppers, CloseListeners(s) PROVE HolderIsExact'
  BY <1>18 DEF CloseListeners
<1>19. ASSUME NEW s \in Stoppers, TakeChannels(s) PROVE HolderIsExact'
  BY <1>19 DEF TakeChannels
<1>20. ASSUME NEW s \in Stoppers, CloseNext(s) PROVE HolderIsExact'
  BY <1>20 DEF CloseNext, CallClose
<1>21. ASSUME NEW s \in Stoppers, ShutdownDone(s) PROVE HolderIsExact'
  BY <1>21 DEF ShutdownDone
<1>22. ASSUME NEW p \in Procs, CloseCas(p) PROVE HolderIsExact'
  BY <1>22 DEF CloseCas, Return
<1>23. ASSUME NEW p \in Procs, CloseTransport(p) PROVE HolderIsExact'
  BY <1>23 DEF CloseTransport
<1>24. ASSUME NEW p \in Procs, CloseCancel(p) PROVE HolderIsExact'
  BY <1>24 DEF CloseCancel
<1>25. ASSUME NEW p \in Procs, DelChannel(p) PROVE HolderIsExact'
  BY <1>25 DEF DelChannel
<1>26. ASSUME NEW p \in Procs, CloseInactive(p) PROVE HolderIsExact'
  BY <1>26 DEF CloseInactive, Return
<1>27. CASE UNCHANGED vars
  BY <1>27 DEF vars
<1>28. QED
  BY <1>1, <1>2, <1>3, <1>4, <1>5, <1>6, <1>7, <1>8, <1>9, <1>10, <1>11, <1>12, <1>13, <1>14, <1>15, <1>16, <1>17, <1>18, <1>19, <1>20, <1>21, <1>22, <1>23, <1>24, <1>25, <1>26, <1>27
  DEF Next, ReaderStep, HandlerStep, CloseStep, ShutdownStep

\* TypeOK and HolderInv hold together in every reachable state.
LEMMA HolderInvariant == Spec => [](TypeOK /\ HolderInv)
<1>1. TypeOK /\ HolderInv /\ [Next]_vars => TypeOK' /\ HolderInv'
  BY TypeStep, ClosesServedStep, NothingEarlyStep, TakesOnceStep, EarlyStep, DeletedStep, ExactStep
     DEF HolderInv
<1>2. QED
  BY InitType, InitHolder, <1>1, PTL DEF Spec

\* A live channel can always be reached by Shutdown, and an ended one is kept
\* only if its inactive event came before its active one (holder.go, addChannel,
\* delChannel and CloseAll).
THEOREM HolderExactness == Spec => []HolderIsExact
<1>1. HolderInv => HolderIsExact
  BY DEF HolderInv
<1>2. QED
  BY HolderInvariant, <1>1, PTL

-----------------------------------------------------------------------------
(* Shutdown reaches every reader.                                          *)

\* Goroutine s has taken the holder's map.
Swapped(s) == pc[s] \in CloseLabels \cup {"closeAll", "done"}

\* Once somebody called Shutdown the context is cancelled, and once the map
\* was taken the holder has no open channel that reads: those that join it
\* later see the context first.
LateDoNotRead ==
  /\ \A s \in Stoppers : pc[s] # "start" => ctxDone
  /\ \A s \in Stoppers, c \in Channels :
       Swapped(s) /\ pc[c] = "read" /\ c \notin closed => c \notin holder

\* No channel starts to read after the context was cancelled.
LEMMA LateStep ==
  ASSUME ContextDerived
  PROVE  TypeOK /\ LateDoNotRead /\ [Next]_vars => LateDoNotRead'
<1> SUFFICES ASSUME TypeOK, LateDoNotRead, [Next]_vars PROVE LateDoNotRead'
  OBVIOUS
<1> USE ContextDerived, LifecycleAssumption
    DEF TypeOK, LateDoNotRead, Swapped, listenVars, holderVars, closeVars, Goto, Procs,
        CloseLabels
<1>1. ASSUME NEW c \in Channels, Accept(c) PROVE LateDoNotRead'
  BY <1>1 DEF Accept
<1>2. ASSUME NEW c \in Channels, Connect(c) PROVE LateDoNotRead'
  BY <1>2 DEF Connect, ServeCtxDone
<1>3. ASSUME NEW c \in Channels, AddChannel(c) PROVE LateDoNotRead'
  BY <1>3 DEF AddChannel
<1>4. ASSUME NEW c \in Channels, HandlerReturns(c) PROVE LateDoNotRead'
  BY <1>4 DEF HandlerReturns, AfterEvent
<1>5. ASSUME NEW c \in Channels, HandlerPanics(c) PROVE LateDoNotRead'
  BY <1>5 DEF HandlerPanics
<1>6. ASSUME NEW c \in Channels, HandlerCloses(c) PROVE LateDoNotRead'
  BY <1>6 DEF HandlerCloses, CallClose
<1>7. ASSUME NEW c \in Channels, Swallowed(c) PROVE LateDoNotRead'
  BY <1>7 DEF Swallowed, AfterEvent
<1>8. ASSUME NEW c \in Channels, ExceptionPanics(c) PROVE LateDoNotRead'
  BY <1>8 DEF ExceptionPanics
<1>9. ASSUME NEW c \in Channels, ActiveDone(c) PROVE LateDoNotRead'
  BY <1>9 DEF ActiveDone
<1>10. ASSUME NEW c \in Channels, Loop(c) PROVE LateDoNotRead'
  BY <1>10 DEF Loop, CtxDone, ServeCtxDone
<1>11. ASSUME NEW c \in Channels, Exit(c) PROVE LateDoNotRead'
  BY <1>11 DEF Exit, CallClose
<1>12. CASE AcceptFails
  BY <1>12 DEF AcceptFails
<1>13. CASE Served
  BY <1>13 DEF Served
<1>14. CASE Report
  BY <1>14 DEF Report, ServeCtxDone
<1>15. CASE UserCloseListener
  BY <1>15 DEF UserCloseListener
<1>16. ASSUME NEW u \in Closers, UserClose(u) PROVE LateDoNotRead'
  BY <1>16 DEF UserClose, CallClose
<1>17. ASSUME NEW s \in Stoppers, Cancel(s) PROVE LateDoNotRead'
  BY <1>17 DEF Cancel
<1>18. ASSUME NEW s \in Stoppers, CloseListeners(s) PROVE LateDoNotRead'
  BY <1>18 DEF CloseListeners
<1>19. ASSUME NEW s \in Stoppers, TakeChannels(s) PROVE LateDoNotRead'
  BY <1>19 DEF TakeChannels
<1>20. ASSUME NEW s \in Stoppers, CloseNext(s) PROVE LateDoNotRead'
  BY <1>20 DEF CloseNext, CallClose
<1>21. ASSUME NEW s \in Stoppers, ShutdownDone(s) PROVE LateDoNotRead'
  BY <1>21 DEF ShutdownDone
<1>22. ASSUME NEW p \in Procs, CloseCas(p) PROVE LateDoNotRead'
  BY <1>22 DEF CloseCas, Return
<1>23. ASSUME NEW p \in Procs, CloseTransport(p) PROVE LateDoNotRead'
  BY <1>23 DEF CloseTransport
<1>24. ASSUME NEW p \in Procs, CloseCancel(p) PROVE LateDoNotRead'
  BY <1>24 DEF CloseCancel
<1>25. ASSUME NEW p \in Procs, DelChannel(p) PROVE LateDoNotRead'
  BY <1>25 DEF DelChannel
<1>26. ASSUME NEW p \in Procs, CloseInactive(p) PROVE LateDoNotRead'
  BY <1>26 DEF CloseInactive, Return
<1>27. CASE UNCHANGED vars
  BY <1>27 DEF vars
<1>28. QED
  BY <1>1, <1>2, <1>3, <1>4, <1>5, <1>6, <1>7, <1>8, <1>9, <1>10, <1>11, <1>12, <1>13, <1>14, <1>15, <1>16, <1>17, <1>18, <1>19, <1>20, <1>21, <1>22, <1>23, <1>24, <1>25, <1>26, <1>27
  DEF Next, ReaderStep, HandlerStep, CloseStep, ShutdownStep

\* Unless the user replaced the context, Shutdown leaves no read loop behind on
\* a transport nobody will close (bootstrap.go, Shutdown).
THEOREM ShutdownReach ==
  ASSUME ContextDerived
  PROVE  Spec => []ShutdownReachesReaders
<1>1. Init => LateDoNotRead
  BY LifecycleAssumption DEF Init, LateDoNotRead, Swapped, Procs, CloseLabels
<1>2. TypeOK /\ LateDoNotRead /\ [Next]_vars => LateDoNotRead'
  BY LateStep, ContextDerived
<1>3. HolderInv /\ LateDoNotRead => ShutdownReachesReaders
  <2>1. SUFFICES ASSUME HolderInv, LateDoNotRead,
                        NEW s \in Stoppers, NEW c \in Channels,
                        pc[s] = "done", pc[c] = "read", c \notin closed
                 PROVE  \E t \in Stoppers : WillClose(t, c)
    BY DEF ShutdownReachesReaders
  <2>2. c \notin holder
    BY <2>1 DEF LateDoNotRead, Swapped
  <2>3. QED
    BY <2>1, <2>2 DEF HolderInv, HolderIsExact
<1>4. QED
  BY HolderInvariant, <1>1, <1>2, <1>3, PTL DEF Spec

-----------------------------------------------------------------------------
(* Sync reports Shutdown.                                                  *)

\* Who closed the acceptor, and why an accept failed.
Blame ==
  /\ \A s \in Stoppers : pc[s] # "start" => ctxDone
  /\ acceptor = "closed" => userClosed \/ ctxDone
  /\ loop = "failed" => acceptFailed \/ acceptor = "closed"
  /\ ShutdownIsReported

\* The context is cancelled before the acceptor is closed.
LEMMA BlameStep ==
  ASSUME ContextDerived
  PROVE  TypeOK /\ Blame /\ [Next]_vars => Blame'
<1> SUFFICES ASSUME TypeOK, Blame, [Next]_vars PROVE Blame'
  OBVIOUS
<1> USE ContextDerived, LifecycleAssumption
    DEF TypeOK, Blame, ShutdownIsReported, listenVars, holderVars, closeVars, Goto, Procs,
        CloseLabels
<1>1. ASSUME NEW c \in Channels, Accept(c) PROVE Blame'
  BY <1>1 DEF Accept
<1>2. ASSUME NEW c \in Channels, Connect(c) PROVE Blame'
  BY <1>2 DEF Connect, ServeCtxDone
<1>3. ASSUME NEW c \in Channels, AddChannel(c) PROVE Blame'
  BY <1>3 DEF AddChannel
<1>4. ASSUME NEW c \in Channels, HandlerReturns(c) PROVE Blame'
  BY <1>4 DEF HandlerReturns, AfterEvent
<1>5. ASSUME NEW c \in Channels, HandlerPanics(c) PROVE Blame'
  BY <1>5 DEF HandlerPanics
<1>6. ASSUME NEW c \in Channels, HandlerCloses(c) PROVE Blame'
  BY <1>6 DEF HandlerCloses, CallClose
<1>7. ASSUME NEW c \in Channels, Swallowed(c) PROVE Blame'
  BY <1>7 DEF Swallowed, AfterEvent
<1>8. ASSUME NEW c \in Channels, ExceptionPanics(c) PROVE Blame'
  BY <1>8 DEF ExceptionPanics
<1>9. ASSUME NEW c \in Channels, ActiveDone(c) PROVE Blame'
  BY <1>9 DEF ActiveDone
<1>10. ASSUME NEW c \in Channels, Loop(c) PROVE Blame'
  BY <1>10 DEF Loop, CtxDone, ServeCtxDone
<1>11. ASSUME NEW c \in Channels, Exit(c) PROVE Blame'
  BY <1>11 DEF Exit, CallClose
<1>12. CASE AcceptFails
  BY <1>12 DEF AcceptFails
<1>13. CASE Served
  BY <1>13 DEF Served
<1>14. CASE Report
  BY <1>14 DEF Report, ServeCtxDone
<1>15. CASE UserCloseListener
  BY <1>15 DEF UserCloseListener
<1>16. ASSUME NEW u \in Closers, UserClose(u) PROVE Blame'
  BY <1>16 DEF UserClose, CallClose
<1>17. ASSUME NEW s \in Stoppers, Cancel(s) PROVE Blame'
  BY <1>17 DEF Cancel
<1>18. ASSUME NEW s \in Stoppers, CloseListeners(s) PROVE Blame'
  BY <1>18 DEF CloseListeners
<1>19. ASSUME NEW s \in Stoppers, TakeChannels(s) PROVE Blame'
  BY <1>19 DEF TakeChannels
<1>20. ASSUME NEW s \in Stoppers, CloseNext(s) PROVE Blame'
  BY <1>20 DEF CloseNext, CallClose
<1>21. ASSUME NEW s \in Stoppers, ShutdownDone(s) PROVE Blame'
  BY <1>21 DEF ShutdownDone
<1>22. ASSUME NEW p \in Procs, CloseCas(p) PROVE Blame'
  BY <1>22 DEF CloseCas, Return
<1>23. ASSUME NEW p \in Procs, CloseTransport(p) PROVE Blame'
  BY <1>23 DEF CloseTransport
<1>24. ASSUME NEW p \in Procs, CloseCancel(p) PROVE Blame'
  BY <1>24 DEF CloseCancel
<1>25. ASSUME NEW p \in Procs, DelChannel(p) PROVE Blame'
  BY <1>25 DEF DelChannel
<1>26. ASSUME NEW p \in Procs, CloseInactive(p) PROVE Blame'
  BY <1>26 DEF CloseInactive, Return
<1>27. CASE UNCHANGED vars
  BY <1>27 DEF vars
<1>28. QED
  BY <1>1, <1>2, <1>3, <1>4, <1>5, <1>6, <1>7, <1>8, <1>9, <1>10, <1>11, <1>12, <1>13, <1>14, <1>15, <1>16, <1>17, <1>18, <1>19, <1>20, <1>21, <1>22, <1>23, <1>24, <1>25, <1>26, <1>27
  DEF Next, ReaderStep, HandlerStep, CloseStep, ShutdownStep

\* After Shutdown, Sync returns a raw error only if the user closed the
\* listener or an accept failed on its own (bootstrap.go, Sync and Shutdown).
THEOREM ShutdownReport ==
  ASSUME ContextDerived
  PROVE  Spec => []ShutdownIsReported
<1>1. Init => Blame
  BY LifecycleAssumption DEF Init, Blame, ShutdownIsReported, Procs
<1>2. TypeOK /\ Blame /\ [Next]_vars => Blame'
  BY BlameStep, ContextDerived
<1>3. Blame => ShutdownIsReported
  BY DEF Blame
<1>4. QED
  BY TypeInvariant, <1>1, <1>2, <1>3, PTL DEF Spec
=============================================================================
