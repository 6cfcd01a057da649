# A TLA+ specification of go-netty

go-netty is a Go framework for network servers and clients. A *bootstrap* listens
or connects; every connection becomes a *channel* with a *pipeline* of handlers;
one goroutine per channel reads, any goroutine writes, and a goroutine that comes
and goes sends. This directory specifies the parts of it in which goroutines meet,
checks them with TLC and proves what matters most with TLAPS.

## 1. Inventory

| Part (source) | State | Operations | What is hard | What makes it correct |
|---|---|---|---|---|
| Asynchronous write side (`channel.go`) | `writeQueue`, `running`, `writeBuffers`, `closed`, `closeErr`, context, transport | `Write`, `Write1`, `Writev`, `CtxWrite1`, `CtxWritev`, `writeOnce`, `Close` | only atomics, a Go channel and a context order the goroutines: launch of the drain goroutine, its last look at the queue, its failure, `Close` under all of it | one drain goroutine at a time, no lost wake-up, no loss, duplicate or reordering, every call returns |
| Synchronous write side (`channel.go`) | `writeLock`, write deadline | the same operations without a queue | one writer's deadline seen by another; error between Write and Flush | whoever gets the lock finds the transport clean, writes are not mixed, outcomes are true, calls return |
| Read loop (`channel.go`, `exception.go`) | context, `closed` | `serveChannel`, `readLoop`, `invokeMethod`, exceptions | panics of handlers, closing from inside handlers, closing from outside | the accept loop is released, the loop ends, the inactive event is fired |
| Bootstrap, listeners (`bootstrap.go`) | context, map of listeners, acceptor | `Listen`, `Acquire`, `Sync`, `Async`, `Listener.Close`, `Connect`, `Shutdown` | no locks around acceptor and registration; Shutdown against accept, connect and acquire | Shutdown leaves nothing open and is reported |
| Channel holder (`holder.go`) | map of channels | active event, inactive event, `CloseAll` | the map is swapped while channels come and go and close each other | exactly the live channels can be reached |
| Pipeline (`pipeline.go`, `context.go`) | doubly linked list of contexts, size | `AddFirst`, `AddLast`, `AddHandler`, `Fire...`, `IndexOf`, ... | pointers, traversal while the list changes | list refines a sequence, events visit handlers in order |
| Idle handlers (`handler.go`) | timer, last read/write time, mutex | active, inactive, read/write, timer callback | timer callback against inactive | no timer is armed for ever |
| Transport buffers (`transport/buffered.go`) | `bufio` reader/writer | `Write`, `Writev`, `Flush`, `Close` | not safe for two goroutines; `Close` flushes | bytes leave once, in order |
| TCP transport (`transport/tcp`) | socket | `Listen`, `Accept`, `Connect` | errors of `Accept` | - |
| Pools (`utils/pool`) | `sync.Pool` per size class | `Get`, `Put` | class boundaries, foreign capacities | `Get` returns enough capacity |
| Frame codecs (`codec/frame`) | none, or partial frames | encode, decode | truncation, boundaries | decode(encode(m)) = m |
| HTTP codec (`codec/xhttp`) | response writer, pool of `bufio.Writer`s, read-ahead of the request reader | `HandleRead`, `HandleWrite`, `Header`, `Write`, `WriteHeader`, `Flush`, `Close` | order of calls, panics of handlers, writers that connections share through the pool | every response to its own client, in order, one head each, with an end the client can see |
| Format codecs, `utils` | none | conversions | - | - |

How they interact: `Listener.Sync` (or `Connect`) obtains a transport and calls
`ServeChannel`, which builds pipeline and channel, puts the holder first and starts
the read loop, then waits for the channel's active event. Handlers run on the read
loop; `Write` travels the pipeline on the writer's goroutine down to the head, which
calls `Write1`/`Writev`. `Close` may come from a user, a handler, a failed send, the
read loop or `Shutdown` (through the holder), and fires the inactive event on the
goroutine that calls it.

## 2. Plan

Order: first what every program that uses the library depends on.

1. **AsyncChannel** with **OrderedStream** (abstract): done, checked and proved.
2. **ServerLifecycle**: accept loop, read loops, holder, Close, Shutdown: done, checked and proved.
3. **Listeners**: registration of listeners, `Acquire`, `Close` and `Sync` against Shutdown: done, checked and proved. Left: a second goroutine that calls `Acquire` on the same listener.
4. **BytesPool**: size classes, `Get` and `Put`: done, checked and proved.
5. **Pipeline**: the linked list is a sequence; lookups; the walk of events; panics: done, checked and proved. Left: several goroutines.
6. **IdleHandler**: timers against messages and the inactive event: done, checked and proved.
7. **SyncChannel**: lock, deadline, errors between Write and Flush, `bufConn.Close` flushing under a write: done, checked and proved.
8. **FrameCodec**: encoders against decoders over bounded inputs: done, checked and proved.
9. **HttpServer**: requests and responses on connections that share a pool of writers: done, checked and proved.

Every safety property that the passing runs check is proved (section 6). What the plan has left are
the hazards without a property (section 7): a second `Acquire` of one listener, several
goroutines in one pipeline, and contexts of the user under Shutdown.

## 3. Modules

### AsyncChannel (`channel.go`)

One channel made by `NewAsyncWriteChannel`, in one of the ways `Options` lists (`untilWrite`,
the transport, the operations its users call, whether its peer reads). Goroutines are `Writers`, `Closers` (all
callers of `Close` from outside) and `Drainers` (goroutines the executor runs
`writeOnce` on; a launch takes a free one). `pc` says where each is; an action is one
access to shared state, so between two actions anything may happen:

| Code | Actions |
|---|---|
| `Write`: `IsActive`, wait for the context | `Call`, `WriteEntry`, `WriteInactive` |
| `Write1`/`Writev`: `closeErr` | `CheckCloseErr` |
| `asyncWrite`/`asyncWritev`: the cases of the `select` | `SelectEnqueue`, `SelectExpired`, `SelectClosed`, `SelectFull` |
| "try send": CAS and launch | `TrySend` |
| `invokeMethod` around a refused `Write` | `Recover` |
| `writeOnce` | `DrainTop`, `PollPacket`, `PollDone`, `WritevPacket`, `Spill`, `WritevFail`, `MorePackets`, `Flush`, `FlushFail`, `StoreIdle`, `Recheck`, `ReCas`, `Panic` |
| `Close` | `UserClose`, `CloseCas`, `CloseSleep`, `CloseWaitEnds`, `CloseSetErr`, `CloseTransport`, `CloseCancel`, `CloseInactive` |
| `Shutdown` cancels the parent context | `ParentCancel` |

A packet is `<<writer, number>>`. `wire` is what the transport has sent; with
`writeBuffered` packets pass through `buffered`, the `bufio.Writer` of a
`bufWriteConn`, which may send on its own (`Spill`), fail half way (`SendFails`) and
does not notice a closed connection before it sends. The history variables
`accepted` and `promised` serve the properties only. The CAS of "try send" and the
launch are one step: nobody else can use the flag between them, and a launched
goroutine may be late anyway. Under `untilWrite` the sleep of `Close` changes
nothing and is no step.

### OrderedStream

The promise of a write side: messages are accepted one at a time, the peer receives
prefixes of what was accepted, nothing arrives once the connection is down, and
(`Carried`) everything arrives unless it goes down. AsyncChannel implements it with
`delivered <- wire`, `up <- Working` (the transport is open and no send failed).

### SyncChannel (`channel.go`, `transport/buffered.go`)

One channel made by `NewChannel` on one of the transports in `Links`. A transport call
is two *halves*, which is what it takes for a write to end in the middle, and
`ReadFrom` makes such a call for every chunk of its reader.

| Code | Actions |
|---|---|
| `Write1`, `Writev`, `CtxWrite1`, `CtxWritev`, `ReadFrom` | `Call`; `CheckCloseErr`, `ReadChunk`, `ReadEnds` |
| `writeLock.Lock()`, `Unlock()` | `Lock`, `Unlock` |
| `SetWriteDeadline`, and its reset | `SetDeadline`, `ResetDeadline` |
| `Write`/`Writev` and `Flush` of the transport | `HandHalf`, `SendBuffered`, `Flushed`, `SendFails`, `SendTimesOut`, `StickyError` |
| `Close` | `CloseCas`, `CloseSetErr`, `CloseTransport`, `CloseFlushEnds`, `CloseConn` |

The error of a `bufio.Writer` is sticky (`bufErr`). `Close` takes no lock, and that of a
`bufConn` flushes: if that happens under a write (`collided`), both use a `bufio.Writer`
that is not made for two, and the model leaves open what reaches the peer. A context
that is cancelled without a deadline is not looked at by the code, nor here.

### ServerLifecycle (`bootstrap.go`, `holder.go`, `channel.go`)

One acquired listener, channels accepted by it or made by `Connect`, the read loop of
each (a channel is also the name of its goroutine), users that close channels or the
listener, and goroutines that call `Shutdown`.

| Code | Actions |
|---|---|
| `Sync`, `tcpAcceptor.Accept` | `Accept`, `AcceptFails`, `Report` |
| `serveChannel`: `<-signal` | `Served` (for `Connect` the wait has no effect on others) |
| holder's `HandleActive`, `HandleInactive` | `AddChannel`, `DelChannel` |
| user handlers under `invokeMethod` | `HandlerReturns`, `HandlerPanics`, `HandlerCloses`, `Swallowed`, `ExceptionPanics` |
| `readLoop` | `ActiveDone`, `Loop`, `Exit` |
| `Close` | `UserClose`, `CloseCas`, `CloseTransport`, `CloseCancel`, `DelChannel`, `CloseInactive` |
| `Shutdown`, `CloseAll` | `Cancel`, `CloseListeners`, `TakeChannels`, `CloseNext`, `ShutdownDone` |

Users have a channel from the moment `ServeChannel` gives it to an initializer
(`bootstrap.go:94`), which is before the holder is in its pipeline and before its active
event, so `UserClose` is possible from `Accept` or `Connect` on. A close that comes so
early finds nothing in the holder, or no holder in the pipeline, and `DelChannel` does
nothing in both cases; the history variable `early` has these channels.

`ContextDerived` is FALSE when the user passed `transport.WithContext` with a context
of his own; what is checked and proved of Shutdown needs it to be TRUE. The wait of `Close` for the asynchronous writer is the time between
`CloseCas` and `CloseTransport`; AsyncChannel shows when it ends. Channel ids are
unique (`SequenceID`), so the holder's panic on a duplicate id is left out.

### Listeners (`bootstrap.go`)

What ServerLifecycle leaves out: which listeners Shutdown finds. An *owner* is a
goroutine that calls `Listen` and then `Sync`, and stands for the listener it gets.

| Code | Actions |
|---|---|
| `Listen` | `Listen` (first `Load`), `Store` (`LoadOrStore`) |
| `Acquire` | `Acquire`, `AcquireFails` |
| `Sync` | `AcceptFails`, `Report`; what it accepts is in ServerLifecycle |
| `Listener.Close` | `UserClose`, `RemoveListener`, `CloseAcceptor` |
| `Shutdown` | `Cancel`, `RangeBegins`, `RangeNext` (and the steps of Close), `ShutdownDone` |

`sync.Map.Range` visits every url registered when it began unless it is deleted
before the visit, and may visit urls registered later: `RangeBegins` picks the set.
`CloseTwice` allows users to close a listener that was closed before.

### BytesPool (`utils/pool`)

The size classes of one pool, the objects in them and in the hands of clients. `Get`
is `GetPooled` or, when the class has nothing to give, `GetNew`; `Put` is `Put`;
`Collect` is what `sync.Pool` and the garbage collector may do at any time. `Bring` is
an object of another origin, of a capacity in `ForeignCaps`. `PowersOfTwo` is a
constant with the facts the arithmetic needs: powers of two divide larger ones, and
there is one between `n` and `2n`. The contents of objects is left out. What other
modules call `Init`, `Next` and `TypeOK` is `PoolInit`, `PoolNext` and `PoolTypeOK` here,
because one module has the proofs, and one the instances, of pools and codecs.

### Pipeline (`pipeline.go`, `context.go`, `channel.go`)

`next` and `prev` are the links of the contexts, `size` the field of that name, and
`chain` - history - the order the contexts should have. An operation is a loop, and a
step is one round of it: `op` says which, `cur` and `pos` are its pointer and its
counter.

| Code | Actions |
|---|---|
| `AddFirst`, `AddLast`, `AddHandler` | the same, then `SeekPosition`, `InsertFirst`, `InsertLast`, `InsertAfter` for each handler, and `Added` |
| `ContextAt`, `IndexOf`, `LastIndexOf` | the same, then `SeekContext`, `SeekIndex`, `SeekLast`, and `Answered` |
| `FireChannel...` under `invokeMethod` | `Fire`; `Close` for the inactive event |
| `ctx.HandleRead` and the like in a handler | `PassOn` |
| `ctx.Write`, `ctx.Trigger` | `Send` |
| the loops of `HandleRead`, `HandleWrite`, ... | `Visit` |
| a handler returns, or panics | `Return`, `Panic` |

`casts` says which events the handler of a context takes; a new context gets any of
`Casts`. Handlers may do all of that while their event is under way, so calls nest:
`stack` has the handlers that run, each with who recovers its panic (`invokeMethod`,
`ctx.Write` or `ctx.Trigger`, or nobody). Invalid arguments panic, which is `Panic`
of the handler that passed them. The list has no lock: the model, like the
library's users must, has it changed by one goroutine.

### IdleHandler (`handler.go`)

One `readIdleHandler` or `writeIdleHandler`. Time is a clock of ticks: `elapsed` is the
time since the last message, as far as it matters, and `left` what the timer has to
run; a timer that is due may fire late. Each section under the handler's mutex is an
action (`HandleActive`, `HandleMessage`, `HandleInactive`, `Check`, `ResetTimer`); between
`Check` and `ResetTimer` the callback triggers the idle event without the lock
(`Trigger`), so that messages, the inactive event - also from handlers of the idle
event - and further callbacks come in between. The active event may come after the
inactive one (section 4); the history variable `late` says that it did. `IdleInit`,
`IdleNext` and so on have their names because one module has the instances of listeners
and idle handlers.

### FrameCodec (`codec/frame`)

Two peers with the same codec; one writes, `stream` carries the bytes, and the other's
read loop calls `HandleRead` for one frame after the other. `Base` stands for the 256
values of a byte, so that lengths at the border of a field, varints of two bytes and
truncated lengths are met with messages of a few bytes. An `int64`, and an `int`, has eight
bytes (`Int64`, `Ints`): a field of eight bytes may be a negative number, and the sum of
length, adjustment and offset may wrap.

| Code | Definitions |
|---|---|
| `LengthFieldCodec`, `VarintLengthFieldCodec`, ... | what the constructors assert, as sets of records; `Codecs` is a part of them |
| `HandleWrite`, `packFieldLength` | `Write`, `Encode`, `Pack`, `Digits` (`Digits2`, `Digits4`, `Digits8`) |
| `unpackFieldLength` | `Unpack`, `Value` (`Value2`, `Value4`, `Value8`) |
| `binary.PutUvarint`, `binary.ReadUvarint` | the recursive functions `PutUvarint`, `Uvarint` |
| `HandleRead` until the frame is passed on | `ReadLengthField`, `ReadVarint`, `ReadDelimited`, `ReadFixed`, a byte at a time |
| a panic in `HandleRead` | `Refuse` in these actions |
| `initialBytesToStrip`, and the next handler reading the `LimitReader` | `ReadFrame`, `EndFrame` |
| the next handler returning early, or a read that fails | `LeaveFrame` |

`spoiled` remembers what the codecs cannot put right: a message that does not fit (its
length overflows the field, it contains the delimiter, it is not of the fixed
length), a refusal, a frame that was not read to the end. From then on the decoder
may take any bytes for a header, and only `FramesAreBounded` is asked of it. A
`LengthFieldCodec` with an offset, an adjustment or a prepender of its own is used
with a handler in between that puts the bytes before the field; `Fits` says which
parameters of the two sides go together.

### HttpServer (`codec/xhttp`)

Connections with a `ServerCodec`, a `Handler` and its response writers, and on the other
side `ClientCodec` (its user waits for each response) or, in `Pipelining`, another
program. A response is *tokens*: a head, pieces of a body, an end if it is chunked.
`held` is what a `bufio.Writer` of the pool holds and `target` what it writes to; a
response writer knows its writer (`writer`) and, if chunked, also the one its chunk
writer writes to (`chunkWriter`).

| Code | Actions |
|---|---|
| `requestCodec.HandleWrite`, `responseCodec.HandleRead` | `ClientSend`, `ClientRead` |
| `readLoop`, `requestCodec.HandleRead`, `NewResponseWriter` | `BeginRead`, `ReadRequest`, `ReadFails` |
| the handler's `Header().Set`, `Write`, `WriteHeader`, `Flush`, return, panic | `HandlerSetsHeader`, `HandlerWrites`, `HandlerFlushes`, `HandlerEnds` |
| `Flush`, `Close` of the response writer | `BeginFlush`, `Send`, `SendFails`, `PutBack` |
| `handlerAdapter` after the handler, `HandleException` | `AfterRequest`, `HandleException` |
| the connection goes down | `Break` |

`Orderly` is what is assumed of headers and lengths (section 4). Handlers may call `Flush`
in a chunked response too; `flushed` - history - has the responses
whose handler did. What such a handler writes afterwards goes to a `bufio.Writer` that may
be another response's by then (`Stray`), and the two goroutines use it without a lock. The model keeps
tokens whole in that case, and lets `PutBack` lose what the other goroutine adds between
the last `Send` and `Reset(nil)`; torn tokens are left out.

The channel below is a synchronous one, so `Send` needs of it what SyncChannel shows:
one goroutine's writes keep their order, and a failed one is the last.

## 4. Runs

| Run | Instance | What it shows |
|---|---|---|
| `async_safety` | 2 writers x 2 `Write`, 1 closer, 2 drainers, queue 2, buffered, `untilWrite` | types, one drainer, no lost wake-up, no loss or reordering, everything flushed when the flag is idle, Close once, refinement of OrderedStream |
| `async_live` | 2 writers x 1 write, queue 1; buffered with `untilWrite` and a peer that reads, or raw without it, with `CtxWrite1` and a peer that may stall | accepted packets are sent (if the peer reads), `Close` and `Write` return |
| `close_loses_packets` | 1 write each | the divergence below |
| `server_safety` | 1 accepted, 1 dialed channel, 1 user, 2 Shutdowns | holder exact, Shutdown reaches every reader, Sync reports it |
| `server_live` | 1 accepted channel, 2 users, 1 Shutdown | Shutdown ends everything, the accept loop resumes, a closed channel comes to rest |
| `listeners_and_idle` | 2 listeners on 2 urls, 2 users, 1 Shutdown | registrations are kept; Shutdown closes the listeners it should find and `Sync` returns from them |
| | idle time 3, 3 messages, 3 callbacks | the channel is watched, idleness is noticed, nothing sets the timer after the inactive event but a late active event |
| `pipeline_safety` | 3 handlers of 3 kinds, calls nest 3 deep | the list is the sequence it should be, lookups agree with it, events reach the nearest handler |
| `frames_and_pools` | 10 codecs with fields of 1 to 8 bytes, in both orders, varints, delimiters and fixed lengths, 2 messages of up to 4 bytes, `Base` 4 | frames arrive whole, in order and all, and none is too large whatever is taken for a header |
| | 2 clients, 3 objects, step 4, 64 classes | `Get` returns enough capacity |
| `idle_stops` | idle time 2, 2 messages, 1 callback | the second divergence below |
| `sync_safety` | 2 writers and 1 closer, 1 call each, readers of up to 2 chunks; a raw and a buffered transport whose peer may stall, a `bufConn` whose peer reads | types, a free lock finds the transport clean, no write is mixed with another, outcomes are true, calls return |
| `http_safety` | 2 connections, one pipelining, 2 writers in the pool, 2 requests, bodies of up to 1 piece, `Orderly` | writers have one owner, and only what follows a `Flush` in a chunked response goes astray; until a handler does that, responses are in order and match their requests, and nobody waits for ever |
| `http_flush` | as `http_safety` | the third divergence below |

`listeners_and_idle` and `frames_and_pools` each have two modules that share no state, and
in a behaviour of `MCSpec` only one of the two takes steps: the other stays as it
began. So the reachable states are those of each module with the other at rest,
and not their product. No action that fairness is assumed of can be taken in
the initial state of its module, so that no behaviour is lost by that either.

Three runs are expected to be violated. `close_loses_packets`: `Close` under `untilWrite` waits for
`running == idle`, but `writeOnce` stores idle *before* it looks at the queue a second
time. A packet queued in between, by a write that returned success, is cut off by
`Close` (`CloseWaitsForSends`).

`idle_stops`: `Shutdown` may close a channel whose active event has passed the holder but
not the idle handler behind it. `HandleActive` (`handler.go:242`) then starts a timer
after the inactive event ("stop the timer.", `handler.go:363`), and nothing ever stops it
(`StoppedAtEnd`). `StaysStopped` says that nothing else sets the timer of a
closed channel: no callback, and no message.

`http_flush`: after `Flush` in a chunked response the chunk writer still has the
`bufio.Writer` that `Close` gave back to the pool (`response_writer.go:90`, `134-136`), although
the response writer declares `http.Flusher` (`response_writer.go:28-31`). Once a response on
another connection has taken that writer, what the handler writes next is sent to the
client of the other connection (`OwnResponses`; "flush response", `http.go:60`).
`WritersAreOwned` says what remains true of all handlers.

A fourth divergence is in the model without a run of its own. The holder adds a channel at
its active event (`holder.go:35`) without looking whether it is closed. A user closes the
channel in an initializer, or from a goroutine or timer that got it there, before that
event: the inactive event has passed, and found no holder or nothing in it, when the
channel is added, and the `Close` at the end of its read loop does nothing. So the closed
channel stays in the map for ever, and a map of live channels it is not: in the instance of
`server_safety` TLC finds `inactive \cap holder = {}` violated. `HolderIsExact` says what
remains true: the holder misses no live channel, and keeps none that ended but those in
`early`, which were closed before their active event got to it.

The passing runs rest on assumptions that the code does not enforce:

- No handler has called `Flush` in a chunked response (HttpServer): `ResponsesInOrder`,
  `AnswersMatch` and `NobodyWaits` say it (`flushed = {}`). After such a call, by a handler that
  is `Orderly` otherwise, what `ResponsesInOrder` says is false, as `OwnResponses` is, because
  foreign tokens reach a client. TLC finds no state of the instance in which what the
  other two say is false then; it is not claimed for such handlers.
- `Orderly` (HttpServer): handlers leave the header map alone after `WriteHeader` and
  write as much as they announced. `shouldClose` looks at the header map and not at what
  was sent. Without it `ResponsesInOrder` and `NobodyWaits` fail as they stand, and `OwnResponses`
  fails with no `Flush` in a chunked response: a header changed after `WriteHeader` is enough.
  `WritersAreOwned` does not need it: the run has handlers that are
  `Orderly`, for its instance would be too large otherwise, and the theorem has any.
- `ContextDerived` (ServerLifecycle): with `transport.WithContext` and a context that
  does not derive from the bootstrap's, a channel accepted while Shutdown runs
  survives it.
- Listeners that are *listening* when Shutdown is called (`ShutdownClosesRegistered`):
  `Acquire` looks at neither the context nor the registration, so a listener that
  Shutdown found without an acceptor opens one afterwards and keeps it.
- `CloseTwice = FALSE` (Listeners): `Listener.Close` removes whatever is registered
  under its url, so closing an old listener again hides a new one from Shutdown.
- `ForeignCaps` are powers of two (BytesPool): `Put` takes objects of any capacity,
  which come back for sizes they have no room for, while its comment says that it
  takes powers of two only. The library itself only puts back what `Get` made.

Comments of the code also promise more than it does; the models follow the code.
Without `untilWrite`, `CtxWrite1` does not block on a full queue but returns
`ErrAsyncNoSpace` (action `SelectFull`). After `Listener.Close`, `Sync` returns the raw
accept error and not `ErrServerClosed` (action `Report`). `CtxWrite1` waits for `writeLock` beyond its
deadline when a `Write1` before it has stalled (`channel.go:60-61`; `Freed` in SyncChannel
counts a deadline only for who has the lock), and a write of its that timed out on a
raw transport leaves half a message, after which others go on; the caller has to
close the channel. `Close` of a `bufConn` blocks on a peer that does not read. A
connection whose socket options fail ends the accept loop (`AcceptFails`). Any `Flush`
by an HTTP handler makes the deferred one panic on a nil writer, which closes the
connection after the response, and a handler that panics before it writes is answered
"200 OK" before the connection closes.

Bounds. Two writers with two writes each and a queue of one or two let the queue fill,
the batch limit (`QueueSize \div 2 + 1`) be reached, and a packet arrive at every point
of a drainer's exit. Two drainers are what is needed for one to be between its store
of idle and its exit while the next runs; a third could only wait there too. `MaxWait`
is 1 for the 10 of the code: what matters is that the wait ends. Two channels and two
Shutdowns let one channel be in the map one Shutdown took and another come late, and
one Shutdown find the map the other emptied. Two listeners on two urls let one
listener follow another on a url, or Shutdown visit both in either order. Three handlers in a pipeline give every
operation both neighbours, and an event a handler to skip between two that take it;
depth three lets a handler of an exception run inside a write inside a read. Two halves per transport call let every call fail or
time out in its middle, and a reader of two chunks lets others write between them.
Two connections with two writers in the pool let a writer go from one connection to
the other while the first still has another, and two requests let one be read ahead
of the response to the other, or both be on different connections. An idle
time of three ticks leaves room for messages before, while and after a callback
starts, and the third message and callback find two others under way. Two messages make a stream on which the second
frame is found only if the first was left at its end; four bytes exceed the largest
length that one digit of base 4 holds, one message is a negative number where it is
taken for a field of eight bytes, and the codecs' maxima lie below, at and above
the largest frame. The sizes of the
pool's runs lie on both sides of its step, of a power of two and of its largest
class. The theorems have no bounds.

`CHECK_DEADLOCK FALSE` is used for ServerLifecycle, Listeners, IdleHandler, FrameCodec and BytesPool (which shares a run): a server
nobody talks to stops, and so does a handler whose channel is closed and a peer that
has read everything.
AsyncChannel has a step `Rest` for the state in which all calls have returned, so
there TLC checks that nobody is blocked earlier; so have SyncChannel and HttpServer (`Done`).

## 5. Fairness

- AsyncChannel, `Scheduling`: weak fairness for each goroutine's own steps; the Go
  scheduler does that. Calls on a transport that no longer works return an error or
  do nothing. No goroutine has to call anything, no timeout has to expire.
- `PeerSpec` adds that, if `peerReads`, a transport call on a working connection makes
  progress, which is up to the peer; `untilWrite` needs it, since `Close` then waits without bound.
- ServerLifecycle, `Fairness`: weak fairness for the loops, for the steps of `Close`
  and `Shutdown`, for the active handlers (which must return: the accept loop waits
  for them) and for a read on a closed transport (package net returns an error).
  A read on an open transport may block for ever.
- Listeners, `Fairness`: weak fairness for what follows a call of `Listen`, `Close` or
  `Shutdown`, and for `Accept` on a closed acceptor, which returns an error. Nobody
  has to call anything, and `Accept` on an open acceptor may block for ever.
- IdleHandler, `IdleFairness`: weak fairness for the clock, for a timer that is due and for
  callbacks, whose handlers return. No message and no close has to come.
- FrameCodec, `Fairness`: weak fairness for reading: the read loop goes on and the next
  handler reads what there is. Nobody has to write.

- SyncChannel, `FairSpec`: weak fairness for a goroutine's own steps, for `Lock` (a
  goroutine that waits for a lock that is free gets it in the end; the instance has a
  bounded number of others), for calls on a connection that is not open, which fail,
  and, if `peerReads`, for the steps that wait for the peer. Deadlines expire and readers
  come to an end. Nobody has to call anything.
- HttpServer has no fairness: its properties are safety properties. `NobodyWaits` says as
  one what the codec contributes to progress.

## 6. Proofs

`AsyncChannel_proofs` proves for all parameters, from `ConstantsAssumption` alone
(goroutine sets disjoint, queue size positive, options of the types they have; so for
all combinations of options, those no run has included):

| Theorem | Property |
|---|---|
| `TypeInvariant` | `TypeOK` |
| `MutualExclusion` | `DrainExclusive` |
| `CloseOnce` | `InactiveOnce` |
| `NoLostWakeUp` | `NoStrandedPacket` |
| `StreamIsKept` | `StreamOrder` |
| `IdleMeansFlushed` | `IdleIsFlushed` |
| `Refinement` | `ImplementsStream` |

The inductive invariant is
`IndInv == TypeOK /\ Ownership /\ NoStrandedPacket /\ Buffers /\ StreamOrder`.
`Ownership`: the flag is `running` exactly while one drainer is between its launch
and its store of idle - the flag is a lock, and every step either keeps the senders,
launches one on an idle flag or releases the only one. `NoStrandedPacket` is
inductive given `Ownership`: a writer's CAS fails only when somebody is sending, and
that sender looks at the queue after it stores idle. `Buffers` says where the batch
and the transport's buffer can hold packets (after `fill`, before the end of
`writev`; before the flush), and `StreamOrder` accounts for every accepted packet as
`wire \o buffered \o writeBuffers \o writeQueue`; without `Buffers`, `DrainTop` would
drop what a batch still held. `CloseOnce` has an invariant of its own (`CloseOrder`:
at most one goroutine is in the body of `Close`, and what it has done so far).
The refinement takes each step to `Accept`, `Deliver` or a stutter; the lemmas about
prefixes show that what is sent stays a prefix of what was accepted.

`SyncChannel_proofs`, for all writers, closers, transports and bounds:

| Theorem | Property |
|---|---|
| `TypeInvariant` | `TypeOK` (with the mutual exclusion of the lock) |
| `FreeIsCleanHolds` | `FreeIsClean` |
| `StreamOrderHolds` | `StreamOrder` |
| `OutcomeIsTrueHolds` | `OutcomeIsTrue` |

`CleanInv` says what the owner of the lock leaves at each of its labels, so that the
unlock leaves a clean transport. `FlowInv` speaks of `Flow`, which is
`wire \o buffered \o rest`, or `wire` alone once the buffer has failed. As long as no
Close collided, it is in order, and on a sound buffer ends with whole writes
(`OrderInv`); what a goroutine has yet to hand over is not in it (`FreshInv`); and what
a write has behind it has been sent (`SentInv`). Steps of the transport move halves
within `Flow`, `Lock` appends a chunk, and a failure cuts off the end. Nothing follows a
torn write on a buffered transport because its error stays.

`HttpServer_proofs`, for all connections, pools and bounds:

| Theorem | Property |
|---|---|
| `TypeInvariant` | `TypeOK` |
| `WritersAreOwnedHolds` | `WritersAreOwned` |
| `ResponsesInOrderHolds` | `ResponsesInOrder`, if `Orderly` |
| `NobodyWaitsHolds` | `NobodyWaits`, if `Orderly` |
| `AnswersMatchHolds` | `AnswersMatch`, if `Orderly` |

`ChunksInv` ties the chunk writer to the response writer: they write to the same
`bufio.Writer` unless the handler called `Flush` in a chunked response. So whatever is written
goes to the writer of its own response, or belongs to one in `flushed`, and the steps keep
`WritersAreOwned` (`OwnedWrites`); this holds for all handlers. As long as `flushed` is empty - it
never shrinks (`FlushedStays`) - `WriterInv` says it of all responses, and nothing is shared at
all (`OnlyOwn`; together `Unmixed`). For `Orderly` handlers and an empty `flushed`, `FlowInv` follows each connection's
`Flow(c) == wire[c] \o held[writer[c]]`: earlier responses ended where a client sees it, and
the present one has got as far as the response writer's fields say.

`AnswersMatch` adds the client, in `ClientInv`: it has at most one request without a
response, the heads it has not read belong to later requests than those it has
responses to, and the last response it got did not go on to the end of the connection
unless it is all there will be. So the next head it finds is the one of its
next response, and what its reader drops is nothing anybody waits for.

`ServerLifecycle_proofs`, from the assumptions of the module on its sets of goroutines:

| Theorem | Property |
|---|---|
| `TypeInvariant` | `TypeOK` |
| `HolderExactness` | `HolderIsExact` |
| `ShutdownReach` | `ShutdownReachesReaders`, if `ContextDerived` |
| `ShutdownReport` | `ShutdownIsReported`, if `ContextDerived` |

`HolderInv` makes `HolderIsExact` inductive: `Close` runs on channels that started and
its body on channels that are marked closed, nothing is held before it started, a
Shutdown takes the map once, and a channel leaves the holder before its user handlers
hear of its end; `EarlyIsKnown` says that `Close` passed the holder before the channel was
added only if the channel is in `early`. `ShutdownReach` adds `LateDoNotRead`: once a Shutdown took the map, an
open channel in the (new) map does not read, because a channel that joins that late
finds the context cancelled at the top of its read loop; with a context of the user's
this step fails. `ShutdownReport` adds `Blame`: who
closed the acceptor, and that Shutdown cancelled the context before it did.

`Listeners_proofs`:

| Theorem | Property |
|---|---|
| `TypeInvariant` | `TypeOK` |
| `RegistrationIsKept` | `RegistrationKept`, under `OrderlyUse` |
| `ShutdownCloses` | `ShutdownClosesRegistered`, under `OrderlyUse` |

`OrderlyUse`: users close a listener once, and one goroutine calls Shutdown. The first
is needed (section 4). `RegInv` says that at most one user closes a listener and
that a listener stays registered until that user, or Shutdown, removes it. `FoundInv`
follows a listener Shutdown has found from the map through the visit of `Range` to
the call of `Close`; a listener that leaves the map in between has a user to close it.

`FramesAndPools_proofs`, for bytes of any size, all codecs the constructors accept and
all messages, and for pools of any size:

| Theorem | Property |
|---|---|
| `TypeCorrect` | `TypeOK` of FrameCodec |
| `FramesBounded` | `FramesAreBounded` |
| `FramesArriveHolds` | `FramesArrive` |
| `PoolTypeCorrect` | `PoolTypeOK` of BytesPool |
| `GetReturnsEnough` | `GetSuffices`, if all of `ForeignCaps` are powers of two, or 0 |

`Bounded` is `TypeOK`, `FramesAreBounded` and room for one more byte while a delimiter is
looked for. `Aligned` says, as long as nothing is spoiled, where the reader stands: the
*tails* of the stream (`IsTails`) are what is on it from each message on, and what the
reader has of a header (`HeaderAt`) or of a frame (`FrameAt`), followed by the stream, is
the tail of the message whose turn it is. For each codec a lemma (`LengthFieldRead`,
`VarintRead`, `DelimitedRead`) says that a byte of an encoded message either leaves the reader
inside the header (`InHeader`) or makes it pass on the right frame (`Completes`).
These rest on `UnpackPack` and `UvarintPut`: a number that has room is read from a length
field, of one to eight bytes, and every number from a varint, as it was written. No sum
wraps on the way, for a frame is not larger than a maximum that is an `int` (`Int64Facts`).

`PutUvarint` and `Uvarint` are recursive functions. The induction theorems of the library
take an operator and cannot be used, so the proofs take the least element of the set
of counterexamples instead (`NatMin`, `MeasureInduction`), and also show by it that the
functions are defined as they are written (`RecursionExists`).

In the pool two powers of two of at least the step that are in the same class are
equal (`SameClass`), so a pooled object has exactly the capacity that `Get` would
allocate (`PoolFit`). Objects of other capacities are the case the assumption excludes;
`PoolTypeCorrect` holds with them too. Both assume that `NoObject` is no object.

`Pipeline_proofs`, from the assumption that no handler's context is the head or the tail
and that handlers implement some event (`checkHandler`):

| Theorem | Property |
|---|---|
| `TypeInvariant` | `TypeOK` |
| `ListIsSequence` | `Linked` |
| `LookupsAreRight` | `LookupsAgree` |
| `EventsReachNearest` | `NearestHandler` |
| `EndsCatch` | `NothingFallsOff`: whatever is fired or passed on, a handler takes it |

`Linked` is kept by an insertion between any two neighbours (`LinkStep`), and the three
ways to add a handler are such insertions. `Cursor` ties the pointer of a loop to its
counter; `Travel` says that no handler between the start of an event and the place it
has got to takes it, so that the next that does is the nearest (`VisitLemma`); `Ends`
and `InList` say what head and tail take and that handlers run at contexts of the list.

`IdleHandler_proofs`:

| Theorem | Property |
|---|---|
| `TypeInvariant` | `TypeOK` |
| `AlwaysWatched` | `Watched` |
| `StoppedForGood` | `StaysStopped` |

`Watched` is inductive with the types. `StoppedForGood` rests on `Owned`: an armed timer
is one the handler has, and after the inactive event it has none, unless the active
event comes after it.

The type invariants of ServerLifecycle, Listeners, Pipeline and IdleHandler, and
`NothingFallsOff`, are proved and therefore not checked again by a run.

Only model-checked: everything under fairness (`AcceptedIsSent`, `CloseReturns`,
`WriteReturns`, `ShutdownEndsAll`, `AcceptLoopResumes`, `ClosedChannelEnds`,
`SyncReturns`, `IdleIsNoticed`, `AllArrive`, `CallsReturn`), which needs ENABLED.

## 7. Not modelled

Two goroutines in one pipeline (the list has no lock), contexts of the user under
Shutdown, a listener closed twice, and a second `Acquire` of one listener are hazards
listed without a property. So is a write on a channel whose context is done, which
reports neither an error nor a byte: no text of the repository says what it should do.

Of the frame codecs, the end of the stream within a frame, `VariableLengthCodec` and
`PacketCodec` are left out. Of the HTTP codec, left out are request bodies that a handler
does not read (the next `ReadRequest` then finds their bytes and fails), trailers,
servers that answer with `*http.Response` messages, and asynchronous channels below it:
there the write of a response to a full queue may be refused, `Close` of the response
writer ignores that, and `Close` of the channel may cut off a response that ends with
the connection. Of the transports, read buffers, socket options and addresses are left
out; `Accept` and its errors are in ServerLifecycle. Formatting, JSON and text codecs,
`utils/reader.go` and the parsing done by `net/http` have no state or ordering of
go-netty's own to check, and the option functions only set fields.
