----------------------------- MODULE Listeners -----------------------------
(***************************************************************************)
(* The listeners of a bootstrap: Listen, Acquire, Sync, Listener.Close and *)
(* the part of Shutdown that closes them (bootstrap.go).                   *)
(*                                                                         *)
(* The bootstrap registers listeners by url in a sync.Map; a listener has  *)
(* no acceptor until Acquire listens on the url.  Acceptor, registration   *)
(* and context are looked at one after the other, without a lock.  An      *)
(* owner is a goroutine that calls Listen and then Sync, and the name of   *)
(* the listener it gets.  What Sync accepts is in ServerLifecycle, and so is   *)
(* a context that does not derive from the bootstrap's.                    *)
(***************************************************************************)
EXTENDS Integers, FiniteSets

CONSTANTS
  Owners,     \* goroutines that call Listen and then Sync
  Urls,       \* addresses to listen on
  Closers,    \* user goroutines, each may call Close on one listener
  Stoppers,   \* goroutines, each may call Shutdown
  CloseTwice  \* users may close a listener that a user closed before

NoOwner == "nobody"
NoUrl == "nowhere"
Procs == Owners \cup Closers \cup Stoppers

ASSUME ListenersAssumption ==
  /\ Owners \cap (Closers \cup Stoppers) = {} /\ Closers \cap Stoppers = {}
  /\ NoOwner \notin Owners /\ NoUrl \notin Urls
  /\ CloseTwice \in BOOLEAN

VARIABLES
  listeners,  \* bootstrap.listeners: the listener registered for a url
  url,        \* the url of a listener
  acceptor,   \* of a listener: "nil", "open" or "closed"
  ctxDone,    \* the bootstrap's context is cancelled
  pc,         \* where every goroutine is
  target,     \* the listener a goroutine is closing
  todo,       \* urls the Range of a Shutdown has still to visit
  userClosed, \* history: listeners users have begun to close
  found       \* history: registered, open listeners when a Shutdown began

vars == <<listeners, url, acceptor, ctxDone, pc, target, todo, userClosed, found>>

OwnerLabels == {"listen", "store", "created", "accept", "failed", "panic",
                "notListening", "serverClosed", "error"}
CloserLabels == {"start", "remove", "closeAcceptor", "done"}
StopperLabels == CloserLabels \cup {"listeners", "range"}

Init ==
  /\ listeners = [u \in Urls |-> NoOwner]
  /\ url = [o \in Owners |-> NoUrl] /\ acceptor = [o \in Owners |-> "nil"]
  /\ ctxDone = FALSE
  /\ pc = [p \in Procs |-> IF p \in Owners THEN "listen" ELSE "start"]
  /\ target = [p \in Closers \cup Stoppers |-> NoOwner]
  /\ todo = [s \in Stoppers |-> {}] /\ found = [s \in Stoppers |-> {}]
  /\ userClosed = {}

Goto(p, label) == pc' = [pc EXCEPT ![p] = label]

Registered(o) == url[o] # NoUrl /\ listeners[url[o]] = o

\* Listen returned the listener.
Created(o) == pc[o] \notin {"listen", "store", "panic"}

-----------------------------------------------------------------------------
(* Owners.                                                                 *)

\* Listen: the first look for a listener of the url.
Listen(o) ==
  /\ pc[o] = "listen"
  /\ \E u \in Urls :
       /\ url' = [url EXCEPT ![o] = u]
       /\ Goto(o, IF listeners[u] = NoOwner THEN "store" ELSE "panic")
  /\ UNCHANGED <<listeners, acceptor, ctxDone, target, todo, userClosed, found>>

\* Mutant: Store where the code has LoadOrStore.
MutantStore(o) ==
  /\ pc[o] = "store"
  /\ listeners' = [listeners EXCEPT ![url[o]] = o]
  /\ Goto(o, "created")
  /\ UNCHANGED <<url, acceptor, ctxDone, target, todo, userClosed, found>>

\* LoadOrStore: another Listen may have been faster.
Store(o) ==
  /\ pc[o] = "store"
  /\ \/ /\ listeners[url[o]] = NoOwner
        /\ listeners' = [listeners EXCEPT ![url[o]] = o]
        /\ Goto(o, "created")
     \/ /\ listeners[url[o]] # NoOwner
        /\ Goto(o, "panic") /\ UNCHANGED listeners
  /\ UNCHANGED <<url, acceptor, ctxDone, target, todo, userClosed, found>>

\* The operating system gives an address to one listener at a time.
Free(u) == \A o \in Owners : ~(url[o] = u /\ acceptor[o] = "open")

\* Acquire: neither the registration nor the context is looked at.
Acquire(o) ==
  /\ pc[o] = "created" /\ Free(url[o])
  /\ acceptor' = [acceptor EXCEPT ![o] = "open"]
  /\ Goto(o, "accept")
  /\ UNCHANGED <<listeners, url, ctxDone, target, todo, userClosed, found>>

\* Listening fails, on a url in use for sure.
AcquireFails(o) ==
  /\ pc[o] = "created"
  /\ Goto(o, "notListening")
  /\ UNCHANGED <<listeners, url, acceptor, ctxDone, target, todo, userClosed, found>>

\* Accept fails when the acceptor is closed, and may fail before.
AcceptFails(o) ==
  /\ pc[o] = "accept"
  /\ Goto(o, "failed")
  /\ UNCHANGED <<listeners, url, acceptor, ctxDone, target, todo, userClosed, found>>

Report(o) ==
  /\ pc[o] = "failed"
  /\ Goto(o, IF ctxDone THEN "serverClosed" ELSE "error")
  /\ UNCHANGED <<listeners, url, acceptor, ctxDone, target, todo, userClosed, found>>

-----------------------------------------------------------------------------
(* Listener.Close, by a user or by Shutdown.                               *)

CallClose(p, o) ==
  pc' = [pc EXCEPT ![p] = "remove"] /\ target' = [target EXCEPT ![p] = o]

\* User code has a listener once Listen returned it.
UserClose(c) ==
  /\ pc[c] = "start"
  /\ \E o \in Owners :
       /\ Created(o)
       /\ CloseTwice \/ o \notin userClosed
       /\ userClosed' = userClosed \cup {o}
       /\ CallClose(c, o)
  /\ UNCHANGED <<listeners, url, acceptor, ctxDone, todo, found>>

\* removeListener: by url, whoever is registered.
RemoveListener(p) ==
  /\ pc[p] = "remove"
  /\ listeners' = [listeners EXCEPT ![url[target[p]]] = NoOwner]
  /\ Goto(p, "closeAcceptor")
  /\ UNCHANGED <<url, acceptor, ctxDone, target, todo, userClosed, found>>

\* Without an acceptor there is nothing to close.
CloseAcceptor(p) ==
  /\ pc[p] = "closeAcceptor"
  /\ acceptor' = [acceptor EXCEPT ![target[p]] = IF @ = "nil" THEN "nil" ELSE "closed"]
  /\ Goto(p, IF p \in Stoppers THEN "range" ELSE "done")
  /\ target' = [target EXCEPT ![p] = NoOwner]
  /\ UNCHANGED <<listeners, url, ctxDone, todo, userClosed, found>>

-----------------------------------------------------------------------------
(* Shutdown.                                                               *)

Cancel(s) ==
  /\ pc[s] = "start"
  /\ ctxDone' = TRUE
  /\ found' = [found EXCEPT ![s] =
                 {o \in Owners : Registered(o) /\ acceptor[o] = "open"}]
  /\ Goto(s, "listeners")
  /\ UNCHANGED <<listeners, url, acceptor, target, todo, userClosed>>

\* Range visits the urls that are registered, and may or may not see the ones
\* that are registered while it runs.
RangeBegins(s) ==
  /\ pc[s] = "listeners"
  /\ \E us \in SUBSET Urls :
       /\ {u \in Urls : listeners[u] # NoOwner} \subseteq us
       /\ todo' = [todo EXCEPT ![s] = us]
  /\ Goto(s, "range")
  /\ UNCHANGED <<listeners, url, acceptor, ctxDone, target, userClosed, found>>

\* Mutant: Range stops at a url that is gone.
MutantRangeNext(s) ==
  /\ pc[s] = "range"
  /\ \E u \in todo[s] :
       \/ /\ listeners[u] # NoOwner
          /\ CallClose(s, listeners[u])
          /\ todo' = [todo EXCEPT ![s] = @ \ {u}]
       \/ /\ listeners[u] = NoOwner
          /\ todo' = [todo EXCEPT ![s] = {}]
          /\ UNCHANGED <<pc, target>>
  /\ UNCHANGED <<listeners, url, acceptor, ctxDone, userClosed, found>>

RangeNext(s) ==
  /\ pc[s] = "range"
  /\ \E u \in todo[s] :
       /\ todo' = [todo EXCEPT ![s] = @ \ {u}]
       /\ IF listeners[u] = NoOwner THEN UNCHANGED <<pc, target>>
          ELSE CallClose(s, listeners[u])
  /\ UNCHANGED <<listeners, url, acceptor, ctxDone, userClosed, found>>

ShutdownDone(s) ==
  /\ pc[s] = "range" /\ todo[s] = {}
  /\ Goto(s, "done")
  /\ UNCHANGED <<listeners, url, acceptor, ctxDone, target, todo, userClosed, found>>

-----------------------------------------------------------------------------
OwnerStep(o) == Store(o) \/ Acquire(o) \/ AcquireFails(o) \/ Report(o)
CloseStep(p) == RemoveListener(p) \/ CloseAcceptor(p)
ShutdownStep(s) == RangeBegins(s) \/ RangeNext(s) \/ ShutdownDone(s)

Next ==
  \/ \E o \in Owners : Listen(o) \/ OwnerStep(o) \/ AcceptFails(o)
  \/ \E c \in Closers : UserClose(c)
  \/ \E p \in Closers \cup Stoppers : CloseStep(p)
  \/ \E s \in Stoppers : Cancel(s) \/ ShutdownStep(s)

Spec == Init /\ [][Next]_vars

\* Goroutines that can run do run; Accept on a closed acceptor returns.
Fairness ==
  /\ \A o \in Owners :
       WF_vars(OwnerStep(o)) /\ WF_vars(acceptor[o] = "closed" /\ AcceptFails(o))
  /\ \A p \in Closers \cup Stoppers : WF_vars(CloseStep(p))
  /\ \A s \in Stoppers : WF_vars(ShutdownStep(s))

-----------------------------------------------------------------------------
TypeOK ==
  /\ listeners \in [Urls -> Owners \cup {NoOwner}]
  /\ url \in [Owners -> Urls \cup {NoUrl}]
  /\ acceptor \in [Owners -> {"nil", "open", "closed"}]
  /\ ctxDone \in BOOLEAN
  /\ pc \in [Procs -> OwnerLabels \cup StopperLabels]
  /\ \A o \in Owners : pc[o] \in OwnerLabels
  /\ \A o \in Owners :
       /\ pc[o] # "listen" => url[o] \in Urls
       /\ acceptor[o] # "nil" => pc[o] \in {"accept", "failed", "serverClosed", "error"}
  /\ \A c \in Closers : pc[c] \in CloserLabels
  /\ \A s \in Stoppers : pc[s] \in StopperLabels
  /\ target \in [Closers \cup Stoppers -> Owners \cup {NoOwner}]
  /\ \A p \in Closers \cup Stoppers :
       pc[p] \in {"remove", "closeAcceptor"} => target[p] \in Owners /\ url[target[p]] \in Urls
  /\ todo \in [Stoppers -> SUBSET Urls]
  /\ userClosed \subseteq Owners /\ found \in [Stoppers -> SUBSET Owners]

Closing(p, o) == target[p] = o /\ pc[p] \in {"remove", "closeAcceptor"}

\* A listener that was registered and listening when Shutdown was called does
\* not listen when it returns, unless a user is in the middle of closing it,
\* whatever other listeners come, go and reuse its url (bootstrap.go,
\* Shutdown, "close all listener").  It needs users that close a listener
\* once, and one Shutdown.
ShutdownClosesRegistered ==
  \A s \in Stoppers : pc[s] = "done" =>
    \A o \in found[s] :
      acceptor[o] = "open" => \E c \in Closers : Closing(c, o)

\* A listener stays registered until it is closed, or the next Shutdown would
\* miss it: neither a second Listen of its url nor the Close of an earlier
\* listener takes its place in the map (bootstrap.go, Listen and
\* removeListener).  It needs users that close a listener once.
RegistrationKept ==
  \A o \in Owners :
    Created(o) /\ o \notin userClosed /\ ~ctxDone => Registered(o)

\* Sync returns from every listener Shutdown found registered and listening
\* (bootstrap.go, Sync and Shutdown).
SyncReturns ==
  \A s \in Stoppers, o \in Owners :
    o \in found[s] ~> pc[o] \in {"serverClosed", "error"}
=============================================================================
