-------------------------- MODULE Listeners_proofs --------------------------
(***************************************************************************)
(* Proofs about Listeners, for any number of listeners, urls and users.    *)
(* They assume what the properties need (OrderlyUse): users close a        *)
(* listener once, and Shutdown is called by one goroutine.                 *)
(***************************************************************************)
EXTENDS Listeners, TLAPS

OrderlyUse == ~CloseTwice /\ \A s, t \in Stoppers : s = t


\* What is registered under a url is a listener of that url that Listen
\* returned, and such listeners only are closed.
Known ==
  /\ \A u \in Urls, o \in Owners : listeners[u] = o => url[o] = u /\ Created(o)
  /\ \A p \in Closers \cup Stoppers, o \in Owners : Closing(p, o) => Created(o)

-----------------------------------------------------------------------------
(* Types.                                                                  *)

\* The bootstrap starts well typed.
LEMMA InitType == Init => TypeOK
BY ListenersAssumption, ZenonT(30)
   DEF Init, TypeOK, Procs, OwnerLabels, CloserLabels, StopperLabels

\* Every step keeps the types.
LEMMA TypeStep == TypeOK /\ Known /\ [Next]_vars => TypeOK'
<1> SUFFICES ASSUME TypeOK, Known, [Next]_vars PROVE TypeOK'
  OBVIOUS
<1> USE ListenersAssumption
    DEF TypeOK, Known, Created, Goto, Procs, OwnerLabels, CloserLabels, StopperLabels
<1>1. ASSUME NEW o \in Owners, Listen(o) PROVE TypeOK'
  BY <1>1 DEF Listen
<1>2. ASSUME NEW o \in Owners, Store(o) PROVE TypeOK'
  BY <1>2 DEF Store
<1>3. ASSUME NEW o \in Owners, Acquire(o) PROVE TypeOK'
  BY <1>3 DEF Acquire
<1>4. ASSUME NEW o \in Owners, AcquireFails(o) PROVE TypeOK'
  BY <1>4 DEF AcquireFails
<1>5. ASSUME NEW o \in Owners, AcceptFails(o) PROVE TypeOK'
  BY <1>5 DEF AcceptFails
<1>6. ASSUME NEW o \in Owners, Report(o) PROVE TypeOK'
  BY <1>6 DEF Report
<1>7. ASSUME NEW c \in Closers, UserClose(c) PROVE TypeOK'
  BY <1>7 DEF UserClose, CallClose
<1>8. ASSUME NEW p \in Closers \cup Stoppers, RemoveListener(p) PROVE TypeOK'
  BY <1>8 DEF RemoveListener
<1>9. ASSUME NEW p \in Closers \cup Stoppers, CloseAcceptor(p) PROVE TypeOK'
  BY <1>9 DEF CloseAcceptor
<1>10. ASSUME NEW s \in Stoppers, Cancel(s) PROVE TypeOK'
  BY <1>10 DEF Cancel
<1>11. ASSUME NEW s \in Stoppers, RangeBegins(s) PROVE TypeOK'
  BY <1>11 DEF RangeBegins
<1>12. ASSUME NEW s \in Stoppers, RangeNext(s) PROVE TypeOK'
  BY <1>12 DEF RangeNext, CallClose
<1>13. ASSUME NEW s \in Stoppers, ShutdownDone(s) PROVE TypeOK'
  BY <1>13 DEF ShutdownDone
<1>14. CASE UNCHANGED vars
  BY <1>14 DEF vars
<1>15. QED
  BY <1>1, <1>2, <1>3, <1>4, <1>5, <1>6, <1>7, <1>8, <1>9, <1>10, <1>11, <1>12, <1>13, <1>14
  DEF Next, OwnerStep, CloseStep, ShutdownStep

\* No listener is known at first.
LEMMA InitKnown == Init => Known
BY ListenersAssumption DEF Init, Known, Closing, Procs

\* Listen registers what it returns.
LEMMA KnownStep == TypeOK /\ Known /\ [Next]_vars => Known'
<1> SUFFICES ASSUME TypeOK, Known, [Next]_vars PROVE Known'
  OBVIOUS
<1> USE ListenersAssumption
    DEF TypeOK, Known, Created, Closing, Goto, Procs
<1>1. ASSUME NEW o \in Owners, Listen(o) PROVE Known'
  BY <1>1 DEF Listen
<1>2. ASSUME NEW o \in Owners, Store(o) PROVE Known'
  BY <1>2 DEF Store
<1>3. ASSUME NEW o \in Owners, Acquire(o) PROVE Known'
  BY <1>3 DEF Acquire
<1>4. ASSUME NEW o \in Owners, AcquireFails(o) PROVE Known'
  BY <1>4 DEF AcquireFails
<1>5. ASSUME NEW o \in Owners, AcceptFails(o) PROVE Known'
  BY <1>5 DEF AcceptFails
<1>6. ASSUME NEW o \in Owners, Report(o) PROVE Known'
  BY <1>6 DEF Report
<1>7. ASSUME NEW c \in Closers, UserClose(c) PROVE Known'
  BY <1>7 DEF UserClose, CallClose
<1>8. ASSUME NEW p \in Closers \cup Stoppers, RemoveListener(p) PROVE Known'
  BY <1>8 DEF RemoveListener
<1>9. ASSUME NEW p \in Closers \cup Stoppers, CloseAcceptor(p) PROVE Known'
  BY <1>9 DEF CloseAcceptor
<1>10. ASSUME NEW s \in Stoppers, Cancel(s) PROVE Known'
  BY <1>10 DEF Cancel
<1>11. ASSUME NEW s \in Stoppers, RangeBegins(s) PROVE Known'
  BY <1>11 DEF RangeBegins
<1>12. ASSUME NEW s \in Stoppers, RangeNext(s) PROVE Known'
  BY <1>12 DEF RangeNext, CallClose
<1>13. ASSUME NEW s \in Stoppers, ShutdownDone(s) PROVE Known'
  BY <1>13 DEF ShutdownDone
<1>14. CASE UNCHANGED vars
  BY <1>14 DEF vars
<1>15. QED
  BY <1>1, <1>2, <1>3, <1>4, <1>5, <1>6, <1>7, <1>8, <1>9, <1>10, <1>11, <1>12, <1>13, <1>14
  DEF Next, OwnerStep, CloseStep, ShutdownStep

\* Every variable keeps its type, and a listener without an acceptor is not
\* closed (bootstrap.go, Close).
THEOREM TypeInvariant == Spec => []TypeOK
<1>1. TypeOK /\ Known /\ [Next]_vars => TypeOK' /\ Known'
  BY TypeStep, KnownStep
<1>2. QED
  BY InitType, InitKnown, <1>1, PTL DEF Spec

-----------------------------------------------------------------------------
(* Registrations are kept.                                                 *)

\* The context tells whether Shutdown was called.
Cancelled == ctxDone <=> \E s \in Stoppers : pc[s] # "start"

\* A listener has at most one user that closes it.
OneCloser ==
  /\ \A c \in Closers, o \in Owners : Closing(c, o) => o \in userClosed
  /\ \A c, d \in Closers, o \in Owners : Closing(c, o) /\ Closing(d, o) => c = d

\* Until Shutdown is called, a listener is registered from Listen to the
\* removal by the user that closes it.
Kept ==
  ~ctxDone =>
    \A o \in Owners :
      /\ Created(o) /\ o \notin userClosed => Registered(o)
      /\ \A c \in Closers : pc[c] = "remove" /\ target[c] = o => Registered(o)

RegInv == Cancelled /\ OneCloser /\ Kept

\* Nothing is closed at first.
LEMMA InitReg == Init => RegInv
BY ListenersAssumption
   DEF Init, RegInv, Cancelled, OneCloser, Kept, Closing, Created, Procs

\* Only Shutdown cancels the context.
LEMMA CancelledStep == TypeOK /\ Cancelled /\ [Next]_vars => Cancelled'
<1> SUFFICES ASSUME TypeOK, Cancelled, [Next]_vars PROVE Cancelled'
  OBVIOUS
<1> USE ListenersAssumption
    DEF TypeOK, Cancelled, Goto, Procs
<1>1. ASSUME NEW o \in Owners, Listen(o) PROVE Cancelled'
  BY <1>1 DEF Listen
<1>2. ASSUME NEW o \in Owners, Store(o) PROVE Cancelled'
  BY <1>2 DEF Store
<1>3. ASSUME NEW o \in Owners, Acquire(o) PROVE Cancelled'
  BY <1>3 DEF Acquire
<1>4. ASSUME NEW o \in Owners, AcquireFails(o) PROVE Cancelled'
  BY <1>4 DEF AcquireFails
<1>5. ASSUME NEW o \in Owners, AcceptFails(o) PROVE Cancelled'
  BY <1>5 DEF AcceptFails
<1>6. ASSUME NEW o \in Owners, Report(o) PROVE Cancelled'
  BY <1>6 DEF Report
<1>7. ASSUME NEW c \in Closers, UserClose(c) PROVE Cancelled'
  BY <1>7 DEF UserClose, CallClose
<1>8. ASSUME NEW p \in Closers \cup Stoppers, RemoveListener(p) PROVE Cancelled'
  BY <1>8 DEF RemoveListener
<1>9. ASSUME NEW p \in Closers \cup Stoppers, CloseAcceptor(p) PROVE Cancelled'
  BY <1>9 DEF CloseAcceptor
<1>10. ASSUME NEW s \in Stoppers, Cancel(s) PROVE Cancelled'
  BY <1>10 DEF Cancel
<1>11. ASSUME NEW s \in Stoppers, RangeBegins(s) PROVE Cancelled'
  BY <1>11 DEF RangeBegins
<1>12. ASSUME NEW s \in Stoppers, RangeNext(s) PROVE Cancelled'
  BY <1>12 DEF RangeNext, CallClose
<1>13. ASSUME NEW s \in Stoppers, ShutdownDone(s) PROVE Cancelled'
  BY <1>13 DEF ShutdownDone
<1>14. CASE UNCHANGED vars
  BY <1>14 DEF vars
<1>15. QED
  BY <1>1, <1>2, <1>3, <1>4, <1>5, <1>6, <1>7, <1>8, <1>9, <1>10, <1>11, <1>12, <1>13, <1>14
  DEF Next, OwnerStep, CloseStep, ShutdownStep

\* Users close a listener once.
LEMMA OneCloserStep ==
  ASSUME OrderlyUse
  PROVE  TypeOK /\ OneCloser /\ [Next]_vars => OneCloser'
<1> SUFFICES ASSUME TypeOK, OneCloser, [Next]_vars PROVE OneCloser'
  OBVIOUS
<1> USE OrderlyUse, ListenersAssumption
    DEF TypeOK, OneCloser, OrderlyUse, Closing, Goto, Procs
<1>1. ASSUME NEW o \in Owners, Listen(o) PROVE OneCloser'
  BY <1>1 DEF Listen
<1>2. ASSUME NEW o \in Owners, Store(o) PROVE OneCloser'
  BY <1>2 DEF Store
<1>3. ASSUME NEW o \in Owners, Acquire(o) PROVE OneCloser'
  BY <1>3 DEF Acquire
<1>4. ASSUME NEW o \in Owners, AcquireFails(o) PROVE OneCloser'
  BY <1>4 DEF AcquireFails
<1>5. ASSUME NEW o \in Owners, AcceptFails(o) PROVE OneCloser'
  BY <1>5 DEF AcceptFails
<1>6. ASSUME NEW o \in Owners, Report(o) PROVE OneCloser'
  BY <1>6 DEF Report
<1>7. ASSUME NEW c \in Closers, UserClose(c) PROVE OneCloser'
  BY <1>7 DEF UserClose, CallClose
<1>8. ASSUME NEW p \in Closers \cup Stoppers, RemoveListener(p) PROVE OneCloser'
  BY <1>8 DEF RemoveListener
<1>9. ASSUME NEW p \in Closers \cup Stoppers, CloseAcceptor(p) PROVE OneCloser'
  BY <1>9 DEF CloseAcceptor
<1>10. ASSUME NEW s \in Stoppers, Cancel(s) PROVE OneCloser'
  BY <1>10 DEF Cancel
<1>11. ASSUME NEW s \in Stoppers, RangeBegins(s) PROVE OneCloser'
  BY <1>11 DEF RangeBegins
<1>12. ASSUME NEW s \in Stoppers, RangeNext(s) PROVE OneCloser'
  BY <1>12 DEF RangeNext, CallClose
<1>13. ASSUME NEW s \in Stoppers, ShutdownDone(s) PROVE OneCloser'
  BY <1>13 DEF ShutdownDone
<1>14. CASE UNCHANGED vars
  BY <1>14 DEF vars
<1>15. QED
  BY <1>1, <1>2, <1>3, <1>4, <1>5, <1>6, <1>7, <1>8, <1>9, <1>10, <1>11, <1>12, <1>13, <1>14
  DEF Next, OwnerStep, CloseStep, ShutdownStep

\* No other listener takes the place of one that is not closed.
LEMMA KeptStep ==
  ASSUME OrderlyUse
  PROVE  TypeOK /\ Known /\ RegInv /\ [Next]_vars => Kept'
<1> SUFFICES ASSUME TypeOK, Known, RegInv, [Next]_vars PROVE Kept'
  OBVIOUS
<1> USE OrderlyUse, ListenersAssumption
    DEF TypeOK, Known, RegInv, Cancelled, OneCloser, Kept, OrderlyUse, Registered, Created,
        Closing, Goto, Procs
<1>1. ASSUME NEW o \in Owners, Listen(o) PROVE Kept'
  BY <1>1 DEF Listen
<1>2. ASSUME NEW o \in Owners, Store(o) PROVE Kept'
  BY <1>2 DEF Store
<1>3. ASSUME NEW o \in Owners, Acquire(o) PROVE Kept'
  BY <1>3 DEF Acquire
<1>4. ASSUME NEW o \in Owners, AcquireFails(o) PROVE Kept'
  BY <1>4 DEF AcquireFails
<1>5. ASSUME NEW o \in Owners, AcceptFails(o) PROVE Kept'
  BY <1>5 DEF AcceptFails
<1>6. ASSUME NEW o \in Owners, Report(o) PROVE Kept'
  BY <1>6 DEF Report
<1>7. ASSUME NEW c \in Closers, UserClose(c) PROVE Kept'
  BY <1>7 DEF UserClose, CallClose
<1>8. ASSUME NEW p \in Closers \cup Stoppers, RemoveListener(p) PROVE Kept'
  BY <1>8 DEF RemoveListener
<1>9. ASSUME NEW p \in Closers \cup Stoppers, CloseAcceptor(p) PROVE Kept'
  BY <1>9 DEF CloseAcceptor
<1>10. ASSUME NEW s \in Stoppers, Cancel(s) PROVE Kept'
  BY <1>10 DEF Cancel
<1>11. ASSUME NEW s \in Stoppers, RangeBegins(s) PROVE Kept'
  BY <1>11 DEF RangeBegins
<1>12. ASSUME NEW s \in Stoppers, RangeNext(s) PROVE Kept'
  BY <1>12 DEF RangeNext, CallClose
<1>13. ASSUME NEW s \in Stoppers, ShutdownDone(s) PROVE Kept'
  BY <1>13 DEF ShutdownDone
<1>14. CASE UNCHANGED vars
  BY <1>14 DEF vars
<1>15. QED
  BY <1>1, <1>2, <1>3, <1>4, <1>5, <1>6, <1>7, <1>8, <1>9, <1>10, <1>11, <1>12, <1>13, <1>14
  DEF Next, OwnerStep, CloseStep, ShutdownStep

\* The registrations of all reachable states.
LEMMA RegInvariant ==
  ASSUME OrderlyUse
  PROVE  Spec => [](TypeOK /\ Known /\ RegInv)
<1>1. TypeOK /\ Known /\ RegInv /\ [Next]_vars => TypeOK' /\ Known' /\ RegInv'
  BY OrderlyUse, TypeStep, KnownStep, CancelledStep, OneCloserStep, KeptStep DEF RegInv
<1>2. QED
  BY InitType, InitKnown, InitReg, <1>1, PTL DEF Spec

\* A listener nobody closes stays where Shutdown finds it (bootstrap.go,
\* Listen and removeListener).
THEOREM RegistrationIsKept ==
  ASSUME OrderlyUse
  PROVE  Spec => []RegistrationKept
<1>1. RegInv => RegistrationKept
  BY DEF RegInv, Kept, RegistrationKept
<1>2. QED
  BY RegInvariant, OrderlyUse, <1>1, PTL

-----------------------------------------------------------------------------
(* Shutdown closes what it finds.                                          *)

\* Other listeners of the url of a listener Shutdown found are out of the way.
OthersGone ==
  \A s \in Stoppers : \A o \in found[s] :
    Registered(o) =>
      \A q \in Owners : q # o /\ Created(q) /\ url[q] = url[o] =>
        /\ q \in userClosed
        /\ \A p \in Closers \cup Stoppers : ~(pc[p] = "remove" /\ target[p] = q)

\* A listener Shutdown found is closed, somebody closes it, or it is still
\* registered and Shutdown has yet to visit its url.
Pending(s, o) ==
  \/ pc[s] = "listeners"
  \/ pc[s] \in {"range", "remove", "closeAcceptor"} /\ url[o] \in todo[s]

FoundIsClosed ==
  \A s \in Stoppers : \A o \in found[s] :
    /\ acceptor[o] # "nil"
    /\ acceptor[o] = "open" =>
         \/ \E p \in Closers \cup Stoppers : Closing(p, o)
         \/ Registered(o) /\ Pending(s, o)

FoundInv == OthersGone /\ FoundIsClosed

\* Nothing was found at first.
LEMMA InitFound == Init => FoundInv
BY DEF Init, FoundInv, OthersGone, FoundIsClosed

\* No other Close removes what Shutdown found.
LEMMA OthersGoneStep ==
  ASSUME OrderlyUse
  PROVE  TypeOK /\ Known /\ RegInv /\ FoundInv /\ [Next]_vars => OthersGone'
<1> SUFFICES ASSUME TypeOK, Known, RegInv, FoundInv, [Next]_vars PROVE OthersGone'
  OBVIOUS
<1> USE OrderlyUse, ListenersAssumption
    DEF TypeOK, Known, RegInv, FoundInv, OthersGone, FoundIsClosed, Pending, Cancelled, OneCloser,
        Kept, OrderlyUse, Registered, Created, Closing, Goto, Procs
<1>1. ASSUME NEW o \in Owners, Listen(o) PROVE OthersGone'
  BY <1>1 DEF Listen
<1>2. ASSUME NEW o \in Owners, Store(o) PROVE OthersGone'
  BY <1>2 DEF Store
<1>3. ASSUME NEW o \in Owners, Acquire(o) PROVE OthersGone'
  BY <1>3 DEF Acquire
<1>4. ASSUME NEW o \in Owners, AcquireFails(o) PROVE OthersGone'
  BY <1>4 DEF AcquireFails
<1>5. ASSUME NEW o \in Owners, AcceptFails(o) PROVE OthersGone'
  BY <1>5 DEF AcceptFails
<1>6. ASSUME NEW o \in Owners, Report(o) PROVE OthersGone'
  BY <1>6 DEF Report
<1>7. ASSUME NEW c \in Closers, UserClose(c) PROVE OthersGone'
  BY <1>7 DEF UserClose, CallClose
<1>8. ASSUME NEW p \in Closers \cup Stoppers, RemoveListener(p) PROVE OthersGone'
  BY <1>8 DEF RemoveListener
<1>9. ASSUME NEW p \in Closers \cup Stoppers, CloseAcceptor(p) PROVE OthersGone'
  BY <1>9 DEF CloseAcceptor
<1>10. ASSUME NEW s \in Stoppers, Cancel(s) PROVE OthersGone'
  BY <1>10 DEF Cancel
<1>11. ASSUME NEW s \in Stoppers, RangeBegins(s) PROVE OthersGone'
  BY <1>11 DEF RangeBegins
<1>12. ASSUME NEW s \in Stoppers, RangeNext(s) PROVE OthersGone'
  BY <1>12 DEF RangeNext, CallClose
<1>13. ASSUME NEW s \in Stoppers, ShutdownDone(s) PROVE OthersGone'
  BY <1>13 DEF ShutdownDone
<1>14. CASE UNCHANGED vars
  BY <1>14 DEF vars
<1>15. QED
  BY <1>1, <1>2, <1>3, <1>4, <1>5, <1>6, <1>7, <1>8, <1>9, <1>10, <1>11, <1>12, <1>13, <1>14
  DEF Next, OwnerStep, CloseStep, ShutdownStep

\* Shutdown visits what it found.
LEMMA FoundStep ==
  ASSUME OrderlyUse
  PROVE  TypeOK /\ Known /\ RegInv /\ FoundInv /\ [Next]_vars => FoundIsClosed'
<1> SUFFICES ASSUME TypeOK, Known, RegInv, FoundInv, [Next]_vars PROVE FoundIsClosed'
  OBVIOUS
<1> USE OrderlyUse, ListenersAssumption
    DEF TypeOK, Known, RegInv, FoundInv, OthersGone, FoundIsClosed, Pending, Cancelled, OneCloser,
        Kept, OrderlyUse, Registered, Created, Closing, Goto, Procs
<1>1. ASSUME NEW o \in Owners, Listen(o) PROVE FoundIsClosed'
  BY <1>1 DEF Listen
<1>2. ASSUME NEW o \in Owners, Store(o) PROVE FoundIsClosed'
  BY <1>2 DEF Store
<1>3. ASSUME NEW o \in Owners, Acquire(o) PROVE FoundIsClosed'
  BY <1>3 DEF Acquire
<1>4. ASSUME NEW o \in Owners, AcquireFails(o) PROVE FoundIsClosed'
  BY <1>4 DEF AcquireFails
<1>5. ASSUME NEW o \in Owners, AcceptFails(o) PROVE FoundIsClosed'
  BY <1>5 DEF AcceptFails
<1>6. ASSUME NEW o \in Owners, Report(o) PROVE FoundIsClosed'
  BY <1>6 DEF Report
<1>7. ASSUME NEW c \in Closers, UserClose(c) PROVE FoundIsClosed'
  BY <1>7 DEF UserClose, CallClose
<1>8. ASSUME NEW p \in Closers \cup Stoppers, RemoveListener(p) PROVE FoundIsClosed'
  BY <1>8 DEF RemoveListener
<1>9. ASSUME NEW p \in Closers \cup Stoppers, CloseAcceptor(p) PROVE FoundIsClosed'
  BY <1>9 DEF CloseAcceptor
<1>10. ASSUME NEW s \in Stoppers, Cancel(s) PROVE FoundIsClosed'
  BY <1>10 DEF Cancel
<1>11. ASSUME NEW s \in Stoppers, RangeBegins(s) PROVE FoundIsClosed'
  BY <1>11 DEF RangeBegins
<1>12. ASSUME NEW s \in Stoppers, RangeNext(s) PROVE FoundIsClosed'
  BY <1>12 DEF RangeNext, CallClose
<1>13. ASSUME NEW s \in Stoppers, ShutdownDone(s) PROVE FoundIsClosed'
  BY <1>13 DEF ShutdownDone
<1>14. CASE UNCHANGED vars
  BY <1>14 DEF vars
<1>15. QED
  BY <1>1, <1>2, <1>3, <1>4, <1>5, <1>6, <1>7, <1>8, <1>9, <1>10, <1>11, <1>12, <1>13, <1>14
  DEF Next, OwnerStep, CloseStep, ShutdownStep

\* Used in an orderly way, Shutdown closes every listener that is registered
\* and listening when it is called (bootstrap.go, Shutdown).
THEOREM ShutdownCloses ==
  ASSUME OrderlyUse
  PROVE  Spec => []ShutdownClosesRegistered
<1>1. TypeOK /\ Known /\ RegInv /\ FoundInv /\ [Next]_vars => FoundInv'
  BY OrderlyUse, OthersGoneStep, FoundStep DEF FoundInv
<1>2. FoundInv => ShutdownClosesRegistered
  BY OrderlyUse
     DEF OrderlyUse, FoundInv, FoundIsClosed, ShutdownClosesRegistered, Pending, Closing
<1>3. QED
  BY OrderlyUse, RegInvariant, InitFound, <1>1, <1>2, PTL DEF Spec
=============================================================================
