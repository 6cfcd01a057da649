------------------------------ MODULE Pipeline ------------------------------
(***************************************************************************)
(* The pipeline of a channel (pipeline.go, context.go): a doubly linked    *)
(* list of handler contexts between a head and a tail, operations that add *)
(* and look up handlers, and events that travel from context to context.   *)
(*                                                                         *)
(* One goroutine uses the pipeline, as while the channel is initialized or *)
(* from its read loop; the pipeline has no lock.  A handler may add other  *)
(* handlers and start other events while its event is under way, so calls  *)
(* nest: stack holds the handlers that run, and op is what the last of     *)
(* them has called in the pipeline.  chain is what the list should be.     *)
(***************************************************************************)
EXTENDS Integers, SequencesExt

CONSTANTS
  Contexts,  \* handlerContexts of user handlers
  Casts,     \* what user handlers implement: a set of sets of Kinds
  Outside,   \* events that are fired while no handler runs
  MaxDepth   \* handlers that run within each other (bound)

Kinds == {"active", "read", "write", "exception", "inactive", "event"}
head == "head"
tail == "tail"
Nil == "nil"
Nodes == Contexts \cup {head, tail}

ASSUME PipelineAssumption ==
  /\ Contexts \cap {head, tail, Nil} = {}
  /\ Casts \subseteq SUBSET Kinds /\ {} \notin Casts  \* checkHandler
  /\ Outside \subseteq Kinds /\ MaxDepth \in Nat

VARIABLES
  next, prev,  \* links of a context, Nil where there is none
  casts,       \* events a context's handler implements
  size,        \* pipeline.size
  op,          \* the operation under way, or its answer, or "none"
  cur,         \* the context the operation has got to
  pos,         \* the index the operation has got to
  goal,        \* the position it looks for
  match,       \* the handlers it looks for
  event,       \* the event under way: its kind, where it comes from and who
               \* recovers panics of its handlers
  stack,       \* events that are being handled, and at which context
  closed,      \* channel.closed
  chain        \* history: the contexts in the order they should have

listVars == <<next, prev, casts, size, chain>>
seekVars == <<cur, pos, goal, match>>
callVars == <<event, stack, closed>>
vars == <<listVars, seekVars, callVars, op>>

NoEvent == [kind |-> "none", from |-> head, recovers |-> "no"]

Init ==
  /\ next = [n \in Nodes |-> IF n = head THEN tail ELSE Nil]
  /\ prev = [n \in Nodes |-> IF n = tail THEN head ELSE Nil]
  /\ casts = [n \in Nodes |-> CASE n = head -> {"write"} [] n = tail -> {"exception"}
                                [] OTHER -> {}]
  /\ size = 2 /\ chain = <<head, tail>>
  /\ op = "none" /\ cur = head /\ pos = 0 /\ goal = 0 /\ match = {}
  /\ event = NoEvent /\ stack = <<>> /\ closed = FALSE

\* User code runs: a handler, or the code that set the channel up.
UserRuns == op = "none" /\ (stack # <<>> => Last(stack).at \in Contexts)

\* The operation starts at context n, which has index i, and looks for
\* position g or for the handlers ms.
Begin(o, n, i, g, ms) ==
  op' = o /\ cur' = n /\ pos' = i /\ goal' = g /\ match' = ms

Finish == Begin("none", head, 0, 0, {})

-----------------------------------------------------------------------------
(* Adding handlers.                                                        *)

\* newHandlerContext between a and b, and the links of both to it.
Link(a, n, b) ==
  /\ next' = [next EXCEPT ![n] = b, ![a] = n]
  /\ prev' = [prev EXCEPT ![n] = a, ![b] = n]
  /\ \E c \in Casts : casts' = [casts EXCEPT ![n] = c]
  /\ size' = size + 1

Unused(n) == \A i \in DOMAIN chain : chain[i] # n

AddFirst ==
  UserRuns /\ Begin("first", head, 0, 0, {}) /\ UNCHANGED <<listVars, callVars>>

AddLast ==
  UserRuns /\ Begin("last", head, 0, 0, {}) /\ UNCHANGED <<listVars, callVars>>

\* Positions below -1 are taken for 0.
AddHandler ==
  /\ UserRuns
  /\ \E p \in -2 .. size - 1 :
       IF p = -1 \/ p = size - 1 THEN Begin("last", head, 0, 0, {})
       ELSE Begin("seek", head, 0, p, {})
  /\ UNCHANGED <<listVars, callVars>>

\* Seek steps to the position from the head.
Seek(o, then) ==
  /\ op = o
  /\ IF pos < goal THEN Begin(o, next[cur], pos + 1, goal, {})
                   ELSE Begin(then, cur, pos, goal, {})
  /\ UNCHANGED <<listVars, callVars>>

SeekPosition == Seek("seek", "after")

InsertFirst ==
  /\ op = "first"
  /\ \E n \in Contexts :
       Unused(n) /\ Link(head, n, next[head]) /\ chain' = InsertAt(chain, 2, n)
  /\ UNCHANGED <<op, seekVars, callVars>>

InsertLast ==
  /\ op = "last"
  /\ \E n \in Contexts :
       Unused(n) /\ Link(prev[tail], n, tail) /\ chain' = InsertAt(chain, Len(chain), n)
  /\ UNCHANGED <<op, seekVars, callVars>>

\* Mutant: the context after the new one keeps its link to the one before it.
MutantInsertAfter ==
  /\ op = "after"
  /\ \E n \in Contexts :
       /\ Unused(n)
       /\ next' = [next EXCEPT ![n] = next[cur], ![cur] = n]
       /\ prev' = [prev EXCEPT ![n] = cur]
       /\ \E c \in Casts : casts' = [casts EXCEPT ![n] = c]
       /\ size' = size + 1
       /\ chain' = InsertAt(chain, pos + 2, n)
       /\ Begin("after", n, pos + 1, goal, {})
  /\ UNCHANGED callVars

\* The next handler goes behind this one.
InsertAfter ==
  /\ op = "after"
  /\ \E n \in Contexts :
       /\ Unused(n) /\ Link(cur, n, next[cur]) /\ chain' = InsertAt(chain, pos + 2, n)
       /\ Begin("after", n, pos + 1, goal, {})
  /\ UNCHANGED callVars

\* There are no more handlers to add.
Added ==
  op \in {"first", "last", "after"} /\ Finish /\ UNCHANGED <<listVars, callVars>>

-----------------------------------------------------------------------------
(* Looking up handlers.                                                    *)

ContextAt ==
  /\ UserRuns
  /\ \E p \in -2 .. size - 1 : p # -1 /\ Begin("seekContext", head, 0, p, {})
  /\ UNCHANGED <<listVars, callVars>>

SeekContext == Seek("seekContext", "context")

IndexOf ==
  /\ UserRuns
  /\ \E ms \in SUBSET Nodes : Begin("seekIndex", head, 0, 0, ms)
  /\ UNCHANGED <<listVars, callVars>>

LastIndexOf ==
  /\ UserRuns
  /\ \E ms \in SUBSET Nodes : Begin("seekLast", tail, size - 1, 0, ms)
  /\ UNCHANGED <<listVars, callVars>>

\* One round of the loop: link leads on and step counts.
SeekHandler(o, answer, link, step) ==
  /\ op = o
  /\ IF cur \in match THEN Begin(answer, cur, pos, 0, match)
     ELSE IF link[cur] = Nil THEN Begin(answer, cur, -1, 0, match)
     ELSE Begin(o, link[cur], pos + step, 0, match)
  /\ UNCHANGED <<listVars, callVars>>

\* Mutant: IndexOf counts from one.
MutantSeekIndex == SeekHandler("seekIndex", "index", next, IF cur = head THEN 2 ELSE 1)

SeekIndex == SeekHandler("seekIndex", "index", next, 1)
SeekLast == SeekHandler("seekLast", "lastIndex", prev, -1)

Answered ==
  op \in {"index", "lastIndex", "context"} /\ Finish /\ UNCHANGED <<listVars, callVars>>

-----------------------------------------------------------------------------
(* Events.                                                                 *)

\* An event of kind k leaves context n; r recovers.
Leave(k, n, r) ==
  /\ Begin("event", n, 0, 0, {})
  /\ event' = [kind |-> k, from |-> n, recovers |-> r]

Call(k, n, r) == Len(stack) < MaxDepth /\ Leave(k, n, r)

\* The channel fires an event at an end of the pipeline under invokeMethod:
\* the read loop does, Channel.Write and Channel.Trigger do.  A closed channel
\* neither reads nor writes.
Fire ==
  /\ UserRuns
  /\ \E k \in IF stack = <<>> THEN Outside ELSE Outside \cap {"write", "event"} :
       /\ closed => k \notin {"read", "write"}
       /\ Call(k, IF k = "write" THEN tail ELSE head, "channel")
  /\ UNCHANGED <<listVars, stack, closed>>

AtTail == stack # <<>> /\ Last(stack).at = tail

\* Close by a handler, by the tail's for one, or by the read loop.
Close ==
  /\ UserRuns \/ (op = "none" /\ AtTail)
  /\ Len(stack) < MaxDepth \/ AtTail
  /\ ~closed /\ closed' = TRUE
  /\ Leave("inactive", head, "channel")
  /\ UNCHANGED <<listVars, stack>>

\* The handler passes its event on: ctx.HandleRead and the like.
PassOn ==
  /\ UserRuns /\ stack # <<>>
  /\ Call(Last(stack).kind, Last(stack).at, "no")
  /\ UNCHANGED <<listVars, stack, closed>>

\* ctx.Write and ctx.Trigger, which recover panics themselves.
Send ==
  /\ UserRuns /\ stack # <<>>
  /\ \E k \in {"write", "event"} : Call(k, Last(stack).at, "context")
  /\ UNCHANGED <<listVars, stack, closed>>

\* Mutant: writes travel like other events.
MutantVisit ==
  /\ op = "event"
  /\ LET n == next[cur] IN
     IF n = Nil THEN Finish /\ event' = NoEvent /\ UNCHANGED stack
     ELSE IF event.kind \in casts[n]
     THEN /\ Finish /\ event' = NoEvent
          /\ stack' = Append(stack, [kind |-> event.kind, at |-> n,
                                     recovers |-> event.recovers])
     ELSE Begin("event", n, 0, 0, {}) /\ UNCHANGED <<event, stack>>
  /\ UNCHANGED <<listVars, closed>>

\* One round of the loops of HandleRead, HandleWrite and the like.
Visit ==
  /\ op = "event"
  /\ LET n == IF event.kind = "write" THEN prev[cur] ELSE next[cur] IN
     IF n = Nil THEN Finish /\ event' = NoEvent /\ UNCHANGED stack
     ELSE IF event.kind \in casts[n]
     THEN /\ Finish /\ event' = NoEvent
          /\ stack' = Append(stack, [kind |-> event.kind, at |-> n,
                                     recovers |-> event.recovers])
     ELSE Begin("event", n, 0, 0, {}) /\ UNCHANGED <<event, stack>>
  /\ UNCHANGED <<listVars, closed>>

\* The tail's handler has closed the channel.
Return ==
  /\ op = "none" /\ stack # <<>>
  /\ AtTail => closed
  /\ stack' = Front(stack)
  /\ UNCHANGED <<listVars, seekVars, op, event, closed>>

\* A handler panics, or the pipeline does on an invalid position or handler.
\* The innermost call that recovers fires the exception, unless it is
\* invokeMethod and the channel is closed; a panic in the handlers of the
\* exception goes on from there.  readLoop closes the channel if nothing else
\* recovers.
Panic ==
  /\ op = "none" /\ stack # <<>> /\ Last(stack).at # tail
  /\ LET rs == {i \in DOMAIN stack : stack[i].recovers # "no"} IN
     \/ /\ rs = {} /\ stack' = <<>>
        /\ closed' = TRUE
        /\ IF closed THEN UNCHANGED <<op, seekVars, event>>
                     ELSE Leave("inactive", head, "channel")
     \/ \E i \in rs :
          /\ \A j \in rs : j <= i
          /\ stack' = SubSeq(stack, 1, i - 1) /\ closed' = closed
          /\ IF closed /\ stack[i].recovers = "channel"
             THEN UNCHANGED <<op, seekVars, event>>
             ELSE Leave("exception", head, "no")
  /\ UNCHANGED listVars

-----------------------------------------------------------------------------
Next ==
  \/ AddFirst \/ AddLast \/ AddHandler \/ SeekPosition
  \/ InsertFirst \/ InsertLast \/ InsertAfter \/ Added
  \/ ContextAt \/ SeekContext \/ IndexOf \/ LastIndexOf \/ SeekIndex \/ SeekLast
  \/ Answered
  \/ Fire \/ Close \/ PassOn \/ Send \/ Visit \/ Return \/ Panic

Spec == Init /\ [][Next]_vars

-----------------------------------------------------------------------------
Ops == {"none", "first", "last", "seek", "after", "seekContext", "context",
        "seekIndex", "index", "seekLast", "lastIndex", "event"}
Recovers == {"no", "context", "channel"}

TypeOK ==
  /\ next \in [Nodes -> Nodes \cup {Nil}] /\ prev \in [Nodes -> Nodes \cup {Nil}]
  /\ casts \in [Nodes -> SUBSET Kinds]
  /\ size \in Nat /\ chain \in Seq(Nodes)
  /\ op \in Ops /\ cur \in Nodes /\ pos \in Int /\ goal \in Int
  /\ match \in SUBSET Nodes
  /\ event \in [kind : Kinds \cup {"none"}, from : Nodes, recovers : Recovers]
  /\ op = "event" => event.kind \in Kinds
  /\ stack \in Seq([kind : Kinds, at : Nodes, recovers : Recovers])
  /\ closed \in BOOLEAN

\* The links in both directions and the size agree with the order the
\* handlers should have: AddFirst puts each in front of the others, AddLast
\* behind them, AddHandler behind the one at the position and behind those it
\* just added, whoever adds them while an event is on its way (pipeline.go).
Linked ==
  /\ size = Len(chain) /\ size >= 2
  /\ chain[1] = head /\ chain[size] = tail
  /\ \A i, j \in 1 .. size : chain[i] = chain[j] => i = j
  /\ \A i \in 1 .. size - 1 : next[chain[i]] = chain[i + 1] /\ prev[chain[i + 1]] = chain[i]
  /\ prev[head] = Nil /\ next[tail] = Nil

\* What the lookups return agrees with that order: IndexOf finds the first
\* match and LastIndexOf, which counts down from the size, the last one, and
\* ContextAt the context at its position (pipeline.go).
LookupsAgree ==
  /\ op = "index" =>
       IF pos = -1 THEN \A i \in 1 .. size : chain[i] \notin match
       ELSE /\ pos + 1 \in 1 .. size /\ chain[pos + 1] \in match
            /\ \A i \in 1 .. pos : chain[i] \notin match
  /\ op = "lastIndex" =>
       IF pos = -1 THEN \A i \in 1 .. size : chain[i] \notin match
       ELSE /\ pos + 1 \in 1 .. size /\ chain[pos + 1] \in match
            /\ \A i \in pos + 2 .. size : chain[i] \notin match
  /\ op = "context" => cur = chain[IF goal < 0 THEN 1 ELSE goal + 1]

\* Context b comes after context a for events of kind k.
Ahead(k, a, b) ==
  \E i, j \in DOMAIN chain :
    chain[i] = a /\ chain[j] = b /\ IF k = "write" THEN j < i ELSE i < j

Handlers(k, a) == {n \in Nodes : Ahead(k, a, n) /\ k \in casts[n]}

\* An event goes from a handler to the nearest one ahead that takes it, and
\* is dropped only if there is none, whatever was added while the handlers
\* before it ran (context.go).
NearestHandler ==
  [][op = "event" /\ op' = "none" =>
       LET hs == Handlers(event.kind, event.from) IN
       IF stack' = stack THEN hs = {}
       ELSE /\ Last(stack').at \in hs
            /\ \A n \in hs : ~Ahead(event.kind, n, Last(stack').at)]_vars

\* A write never misses the head, which hands it to the channel, and an
\* exception never misses the tail, which closes the channel (handler.go).
NothingFallsOff ==
  op = "event" =>
    /\ event.kind = "write" => cur # head
    /\ event.kind = "exception" => cur # tail
=============================================================================
