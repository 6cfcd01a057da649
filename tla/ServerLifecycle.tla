-------------------------- MODULE ServerLifecycle --------------------------
(***************************************************************************)
(* From accept to inactive: the accept loop of a listener, the read loop   *)
(* of every channel, the channel holder, Close, and the Shutdown of the    *)
(* bootstrap (bootstrap.go, holder.go, channel.go).                        *)
(*                                                                         *)
(* A channel is also the name of the goroutine that runs its read loop.    *)
(* Its pipeline is the holder, which ServeChannel puts first, and then the *)
(* user's handlers.  They may return, panic or close the channel; their    *)
(* exception handler may swallow the exception, panic itself, or pass it   *)
(* to the tail, which closes the channel.  The time Close waits for an     *)
(* asynchronous write is the time between two of its steps; AsyncChannel   *)
(* says when that ends.                                                    *)
(***************************************************************************)
EXTENDS Integers, FiniteSets

CONSTANTS
  Accepted,       \* channels the listener may accept (bound)
  Dialed,         \* channels Connect may make (bound)
  Closers,        \* user goroutines, each may close one channel
  Stoppers,       \* user goroutines, each may call Shutdown
  ContextDerived  \* options.Context is, or derives from, the bootstrap's

Channels == Accepted \cup Dialed
Procs == Channels \cup Closers \cup Stoppers
NoChannel == "none"

ASSUME LifecycleAssumption ==
  /\ Accepted \cap Dialed = {}
  /\ Channels \cap (Closers \cup Stoppers) = {} /\ Closers \cap Stoppers = {}
  /\ NoChannel \notin Channels
  /\ ContextDerived \in BOOLEAN

VARIABLES
  ctxDone,     \* the bootstrap's context is cancelled
  acceptor,    \* "open" or "closed"
  loop,        \* Sync: "accept", "serve", "failed", "serverClosed" or "error"
  serving,     \* the channel Sync waits for
  holder,      \* channelHolder.channels
  pending,     \* what is left of the map a stopper took from the holder
  pc,          \* where every goroutine is
  target,      \* the channel a goroutine is closing
  next,        \* where a read loop goes after its active event or a Close
  signalled,   \* channels whose active event is over
  closed,      \* channels whose closed flag is set
  cut,         \* channels whose transport is closed
  cancelled,   \* channels that cancelled their own context
  inactive,    \* channels whose inactive event is over
  early,       \* history: channels whose inactive event came before the active one
  userClosed,  \* history: the user closed the listener
  acceptFailed \* history: an accept failed on an open listener

listenVars == <<acceptor, loop, serving, userClosed, acceptFailed>>
closeVars == <<closed, cut, cancelled, inactive, early>>
holderVars == <<holder, pending>>
vars == <<ctxDone, listenVars, holderVars, pc, target, next, signalled, closeVars>>

CloseLabels == {"closeCas", "closeTransport", "closeCancel", "closeDel", "closeInactive"}
ReaderLabels == CloseLabels \cup
  {"none", "add", "active", "raised", "activeDone", "loop", "read", "exit", "done"}
CloserLabels == CloseLabels \cup {"start", "done"}
StopperLabels == CloseLabels \cup {"start", "listeners", "swap", "closeAll", "done"}

Init ==
  /\ ctxDone = FALSE /\ acceptor = "open" /\ loop = "accept" /\ serving = NoChannel
  /\ holder = {} /\ pending = [s \in Stoppers |-> {}]
  /\ pc = [p \in Procs |-> IF p \in Channels THEN "none" ELSE "start"]
  /\ target = [p \in Procs |-> NoChannel]
  /\ next = [c \in Channels |-> "loop"] /\ signalled = {}
  /\ closed = {} /\ cut = {} /\ cancelled = {} /\ inactive = {}
  /\ early = {}
  /\ userClosed = FALSE /\ acceptFailed = FALSE

Goto(p, label) == pc' = [pc EXCEPT ![p] = label]

\* p calls Close on channel c.
CallClose(p, c) ==
  pc' = [pc EXCEPT ![p] = "closeCas"] /\ target' = [target EXCEPT ![p] = c]

\* options.Context, and the context of a channel, which derives from it.
ServeCtxDone == ContextDerived /\ ctxDone
CtxDone(c) == c \in cancelled \/ ServeCtxDone

-----------------------------------------------------------------------------
(* Sync: the accept loop.  Connect.                                        *)

\* Accept returns a transport; Sync serves it and waits for its active event.
Accept(c) ==
  /\ loop = "accept" /\ acceptor = "open" /\ c \in Accepted /\ pc[c] = "none"
  /\ loop' = "serve" /\ serving' = c
  /\ Goto(c, "add")
  /\ UNCHANGED <<ctxDone, acceptor, userClosed, acceptFailed, holderVars, target,
                 next, signalled, closeVars>>

\* <-signal
Served ==
  /\ loop = "serve" /\ serving \in signalled
  /\ loop' = "accept" /\ serving' = NoChannel
  /\ UNCHANGED <<ctxDone, acceptor, userClosed, acceptFailed, holderVars, pc, target,
                 next, signalled, closeVars>>

\* Accept fails because the acceptor was closed, or on its own: a socket
\* option of a new connection, an error of the operating system.
AcceptFails ==
  /\ loop = "accept"
  /\ loop' = "failed"
  /\ acceptFailed' = (acceptFailed \/ acceptor = "open")
  /\ UNCHANGED <<ctxDone, acceptor, serving, userClosed, holderVars, pc, target,
                 next, signalled, closeVars>>

\* Sync asks the context what to report.
Report ==
  /\ loop = "failed"
  /\ loop' = IF ServeCtxDone THEN "serverClosed" ELSE "error"
  /\ UNCHANGED <<ctxDone, acceptor, serving, userClosed, acceptFailed, holderVars,
                 pc, target, next, signalled, closeVars>>

\* Connect dials with options.Context and serves the transport.
Connect(c) ==
  /\ c \in Dialed /\ pc[c] = "none" /\ ~ServeCtxDone
  /\ Goto(c, "add")
  /\ UNCHANGED <<ctxDone, listenVars, holderVars, target, next, signalled, closeVars>>

\* Listener.Close by the user.
UserCloseListener ==
  /\ ~userClosed
  /\ userClosed' = TRUE /\ acceptor' = "closed"
  /\ UNCHANGED <<ctxDone, loop, serving, acceptFailed, holderVars, pc, target,
                 next, signalled, closeVars>>

-----------------------------------------------------------------------------
(* The read loop of channel c.                                             *)

\* The holder is the first to see the active event.
AddChannel(c) ==
  /\ pc[c] = "add"
  /\ holder' = holder \cup {c}
  /\ Goto(c, "active")
  /\ UNCHANGED <<ctxDone, listenVars, pending, target, next, signalled, closeVars>>

\* Where the read loop is when an event was handled.
AfterEvent(c) == IF c \in signalled THEN "loop" ELSE "activeDone"

\* An event handler runs: the rest of HandleActive, or HandleRead once it
\* read something or the transport failed.  It returns, or panics, which is
\* fired as an exception if the channel is not closed, or closes the channel.
HandlerReturns(c) ==
  /\ pc[c] \in {"active", "read"}
  /\ Goto(c, AfterEvent(c))
  /\ UNCHANGED <<ctxDone, listenVars, holderVars, target, next, signalled, closeVars>>

HandlerPanics(c) ==
  /\ pc[c] \in {"active", "read"} /\ c \notin closed
  /\ Goto(c, "raised")
  /\ UNCHANGED <<ctxDone, listenVars, holderVars, target, next, signalled, closeVars>>

\* The handler of an event or of an exception, the tail at the latest, or
\* invokeMethod itself after a network error, closes the channel.
HandlerCloses(c) ==
  /\ pc[c] \in {"active", "read", "raised"}
  /\ CallClose(c, c)
  /\ UNCHANGED <<ctxDone, listenVars, holderVars, next, signalled, closeVars>>

\* Mutant: the active event is not done when its exception was handled.
MutantSwallowed(c) ==
  /\ pc[c] = "raised"
  /\ Goto(c, "loop")
  /\ UNCHANGED <<ctxDone, listenVars, holderVars, target, next, signalled, closeVars>>

Swallowed(c) ==
  /\ pc[c] = "raised"
  /\ Goto(c, AfterEvent(c))
  /\ UNCHANGED <<ctxDone, listenVars, holderVars, target, next, signalled, closeVars>>

\* The exception handler panics: nothing but the deferred calls of the read
\* loop is left.
ExceptionPanics(c) ==
  /\ pc[c] = "raised"
  /\ next' = [next EXCEPT ![c] = "exit"]
  /\ Goto(c, IF c \in signalled THEN "exit" ELSE "activeDone")
  /\ UNCHANGED <<ctxDone, listenVars, holderVars, target, signalled, closeVars>>

\* defer done()
ActiveDone(c) ==
  /\ pc[c] = "activeDone"
  /\ signalled' = signalled \cup {c}
  /\ Goto(c, next[c])
  /\ UNCHANGED <<ctxDone, listenVars, holderVars, target, next, closeVars>>

\* Mutant: the context is not looked at.
MutantLoop(c) ==
  /\ pc[c] = "loop"
  /\ Goto(c, "read")
  /\ UNCHANGED <<ctxDone, listenVars, holderVars, target, next, signalled, closeVars>>

Loop(c) ==
  /\ pc[c] = "loop"
  /\ Goto(c, IF CtxDone(c) THEN "exit" ELSE "read")
  /\ UNCHANGED <<ctxDone, listenVars, holderVars, target, next, signalled, closeVars>>

\* The deferred Close of the read loop.
Exit(c) ==
  /\ pc[c] = "exit"
  /\ next' = [next EXCEPT ![c] = "done"]
  /\ CallClose(c, c)
  /\ UNCHANGED <<ctxDone, listenVars, holderVars, signalled, closeVars>>

-----------------------------------------------------------------------------
(* Close, by goroutine p on channel target[p].                             *)

\* Where p goes on when its Close returns.
Return(p) ==
  /\ Goto(p, IF p \in Stoppers THEN "closeAll"
             ELSE IF p \in Closers THEN "done"
             ELSE IF p \in signalled THEN next[p] ELSE "activeDone")
  /\ target' = [target EXCEPT ![p] = NoChannel]

\* User code has the channel from its initializer on, which ServeChannel calls
\* before the pipeline has the holder and before the read loop starts: "add"
\* is everything from there to the holder's HandleActive.
UserClose(u) ==
  /\ pc[u] = "start"
  /\ \E c \in Channels : pc[c] # "none" /\ CallClose(u, c)
  /\ UNCHANGED <<ctxDone, listenVars, holderVars, next, signalled, closeVars>>

CloseCas(p) ==
  /\ pc[p] = "closeCas"
  /\ \/ /\ target[p] \notin closed
        /\ closed' = closed \cup {target[p]}
        /\ Goto(p, "closeTransport") /\ UNCHANGED target
     \/ target[p] \in closed /\ Return(p) /\ UNCHANGED closed
  /\ UNCHANGED <<ctxDone, listenVars, holderVars, next, signalled, cut, cancelled,
                 inactive, early>>

CloseTransport(p) ==
  /\ pc[p] = "closeTransport"
  /\ cut' = cut \cup {target[p]}
  /\ Goto(p, "closeCancel")
  /\ UNCHANGED <<ctxDone, listenVars, holderVars, target, next, signalled,
                 closed, cancelled, inactive, early>>

CloseCancel(p) ==
  /\ pc[p] = "closeCancel"
  /\ cancelled' = cancelled \cup {target[p]}
  /\ Goto(p, "closeDel")
  /\ UNCHANGED <<ctxDone, listenVars, holderVars, target, next, signalled,
                 closed, cut, inactive, early>>

\* Mutant: the inactive event does not reach the holder.
MutantDelChannel(p) ==
  /\ pc[p] = "closeDel"
  /\ Goto(p, "closeInactive")
  /\ UNCHANGED <<ctxDone, listenVars, holderVars, target, next, signalled, closeVars>>

\* The holder sees the inactive event first, then the user's handlers.  If the
\* active event was not there yet, or the pipeline has no holder yet, there is
\* nothing to delete.
DelChannel(p) ==
  /\ pc[p] = "closeDel"
  /\ holder' = holder \ {target[p]}
  /\ early' = IF pc[target[p]] = "add" THEN early \cup {target[p]} ELSE early
  /\ Goto(p, "closeInactive")
  /\ UNCHANGED <<ctxDone, listenVars, pending, target, next, signalled, closed, cut,
                 cancelled, inactive>>

CloseInactive(p) ==
  /\ pc[p] = "closeInactive"
  /\ inactive' = inactive \cup {target[p]}
  /\ Return(p)
  /\ UNCHANGED <<ctxDone, listenVars, holderVars, next, signalled, closed, cut,
                 cancelled, early>>

-----------------------------------------------------------------------------
(* Shutdown, by goroutine s.                                               *)

\* Mutant: the acceptor is closed before the context is cancelled.
MutantCancel(s) ==
  /\ pc[s] = "start"
  /\ acceptor' = "closed"
  /\ Goto(s, "listeners")
  /\ UNCHANGED <<ctxDone, loop, serving, userClosed, acceptFailed, holderVars, target,
                 next, signalled, closeVars>>

\* all channels will be canceled.
Cancel(s) ==
  /\ pc[s] = "start"
  /\ ctxDone' = TRUE
  /\ Goto(s, "listeners")
  /\ UNCHANGED <<listenVars, holderVars, target, next, signalled, closeVars>>

\* close all listener
CloseListeners(s) ==
  /\ pc[s] = "listeners"
  /\ acceptor' = "closed"
  /\ Goto(s, "swap")
  /\ UNCHANGED <<ctxDone, loop, serving, userClosed, acceptFailed, holderVars, target,
                 next, signalled, closeVars>>

\* CloseAll takes the holder's map and leaves a new one.
TakeChannels(s) ==
  /\ pc[s] = "swap"
  /\ pending' = [pending EXCEPT ![s] = holder]
  /\ holder' = {}
  /\ Goto(s, "closeAll")
  /\ UNCHANGED <<ctxDone, listenVars, target, next, signalled, closeVars>>

\* It closes the channels it took one by one, in the order of the map.
CloseNext(s) ==
  /\ pc[s] = "closeAll"
  /\ \E c \in pending[s] :
       /\ pending' = [pending EXCEPT ![s] = @ \ {c}]
       /\ CallClose(s, c)
  /\ UNCHANGED <<ctxDone, listenVars, holder, next, signalled, closeVars>>

ShutdownDone(s) ==
  /\ pc[s] = "closeAll" /\ pending[s] = {}
  /\ Goto(s, "done")
  /\ UNCHANGED <<ctxDone, listenVars, holderVars, target, next, signalled, closeVars>>

-----------------------------------------------------------------------------
ReaderStep(c) ==
  \/ AddChannel(c) \/ Swallowed(c) \/ ExceptionPanics(c) \/ ActiveDone(c)
  \/ Loop(c) \/ Exit(c)
HandlerStep(c) == HandlerReturns(c) \/ HandlerPanics(c) \/ HandlerCloses(c)
CloseStep(p) ==
  CloseCas(p) \/ CloseTransport(p) \/ CloseCancel(p) \/ DelChannel(p) \/ CloseInactive(p)
ShutdownStep(s) ==
  CloseListeners(s) \/ TakeChannels(s) \/ CloseNext(s) \/ ShutdownDone(s)
SyncStep == Served \/ (acceptor = "closed" /\ AcceptFails) \/ Report

Next ==
  \/ \E c \in Channels : Accept(c) \/ Connect(c) \/ ReaderStep(c) \/ HandlerStep(c)
  \/ AcceptFails \/ Served \/ Report \/ UserCloseListener
  \/ \E u \in Closers : UserClose(u)
  \/ \E s \in Stoppers : Cancel(s) \/ ShutdownStep(s)
  \/ \E p \in Procs : CloseStep(p)

Spec == Init /\ [][Next]_vars

\* Goroutines that can run do run; a handler returns from the active event,
\* and from a read when the transport is closed.  A read on an open transport
\* may block for ever, and nobody has to connect, close or shut down.
Fairness ==
  /\ WF_vars(SyncStep)
  /\ \A c \in Channels :
       /\ WF_vars(ReaderStep(c))
       /\ WF_vars((pc[c] = "active" \/ c \in cut) /\ HandlerStep(c))
  /\ \A p \in Procs : WF_vars(CloseStep(p))
  /\ \A s \in Stoppers : WF_vars(ShutdownStep(s))

FairSpec == Spec /\ Fairness

-----------------------------------------------------------------------------
TypeOK ==
  /\ ctxDone \in BOOLEAN /\ userClosed \in BOOLEAN /\ acceptFailed \in BOOLEAN
  /\ acceptor \in {"open", "closed"}
  /\ loop \in {"accept", "serve", "failed", "serverClosed", "error"}
  /\ serving \in Channels \cup {NoChannel} /\ (loop = "serve" => serving \in Channels)
  /\ holder \subseteq Channels /\ pending \in [Stoppers -> SUBSET Channels]
  /\ pc \in [Procs -> ReaderLabels \cup CloserLabels \cup StopperLabels]
  /\ \A c \in Channels : pc[c] \in ReaderLabels
  /\ \A u \in Closers : pc[u] \in CloserLabels
  /\ \A s \in Stoppers : pc[s] \in StopperLabels
  /\ target \in [Procs -> Channels \cup {NoChannel}]
  /\ \A p \in Procs : pc[p] \in CloseLabels => target[p] \in Channels
  /\ next \in [Channels -> {"loop", "exit", "done"}]
  /\ signalled \subseteq Channels
  /\ \A c \in Channels : pc[c] \in {"loop", "read", "exit"} => c \in signalled
  /\ closed \subseteq Channels /\ cut \subseteq Channels
  /\ cancelled \subseteq Channels /\ inactive \subseteq Channels /\ early \subseteq Channels

\* s is about to close c on behalf of CloseAll.
WillClose(s, c) == c \in pending[s] \/ (pc[s] = "closeCas" /\ target[s] = c)

\* The holder is exact, whoever closes channels while others become active
\* and CloseAll swaps the map: a channel whose active event began and that is
\* not closed can be reached by Shutdown, and a channel that ended does not
\* stay in the map, unless it was closed so early that its inactive event came
\* before its active one (holder.go, addChannel, delChannel and CloseAll).
HolderIsExact ==
  \A c \in Channels :
    /\ pc[c] \notin {"none", "add"} /\ c \notin closed =>
         c \in holder \/ \E s \in Stoppers : WillClose(s, c)
    /\ c \in inactive /\ c \notin early => c \notin holder

\* When Shutdown returns, no read loop is blocked on a transport nobody will
\* close: a channel it did not find in the holder sees the cancelled context
\* before it reads (bootstrap.go, Shutdown, "all channels will be canceled.").
ShutdownReachesReaders ==
  \A s \in Stoppers, c \in Channels :
    pc[s] = "done" /\ pc[c] = "read" =>
      c \in closed \/ \E t \in Stoppers : WillClose(t, c)

\* Sync reports ErrServerClosed after Shutdown: the raw error of Accept comes
\* out only if the user closed the listener or an accept failed, because the
\* context is cancelled before the acceptor is closed (bootstrap.go, Sync and
\* Shutdown).
ShutdownIsReported == loop = "error" => userClosed \/ acceptFailed

\* Shutdown ends everything: the accept loop returns, every channel that was
\* served is closed, fires its inactive event and its read loop returns, the
\* ones accepted while Shutdown ran included (bootstrap.go, Shutdown).
ShutdownEndsAll ==
  \A s \in Stoppers :
    pc[s] = "listeners" ~>
      /\ loop \in {"serverClosed", "error"}
      /\ \A c \in Channels : pc[c] = "none" \/ (pc[c] = "done" /\ c \in inactive)

\* The accept loop gets past every channel, also when the user's handlers
\* panic or close the channel in the active event (channel.go, serveChannel
\* and readLoop, "defer done()").
AcceptLoopResumes == loop = "serve" ~> loop # "serve"

\* A closed channel comes to rest, whoever closed it and wherever its read
\* loop was: the inactive event is fired and the read loop returns
\* (channel.go, Close and readLoop).
ClosedChannelEnds ==
  \A c \in Channels : c \in closed ~> c \in inactive /\ pc[c] = "done"
=============================================================================
