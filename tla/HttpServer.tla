----------------------------- MODULE HttpServer -----------------------------
(***************************************************************************)
(* The HTTP codec (codec/xhttp): on every connection the read loop of the  *)
(* server reads requests from a buffered reader, serves them one after the *)
(* other through a response writer, and closes; a client sends requests,   *)
(* with ClientCodec or another program.  All response writers take their   *)
(* bufio.Writer from one pool.                                             *)
(*                                                                         *)
(* A response is a head, pieces of a body and, if it is chunked, an end.   *)
(* net/http is external: requests and responses are numbers, and a request *)
(* is well formed or ends the connection.  The channel under the codec is  *)
(* one of NewChannel, of which SyncChannel says that it keeps the order of *)
(* one goroutine's writes, and that it stays broken once a write failed.   *)
(***************************************************************************)
EXTENDS Integers, Sequences, FiniteSets

CONSTANTS
  Conns,        \* connections
  Pipelining,   \* those whose client sends without waiting for responses
  Writers,      \* bufio.Writers there may be (bound)
  NoWriter,     \* a response writer's nil
  NoConn,       \* what the bufio.Writers of the pool write to
  Orderly,      \* handlers keep the rules on headers and lengths Handler* below state
  MaxRequests,  \* requests on all connections (bound)
  MaxPieces     \* pieces per body (bound)

ASSUME ConstantsAssumption ==
  /\ Pipelining \subseteq Conns /\ NoConn \notin Conns /\ NoWriter \notin Writers
  /\ Orderly \in BOOLEAN /\ MaxRequests \in Nat /\ MaxPieces \in Nat

VARIABLES
  link,         \* of a connection: "open" or "closed"
  sent,         \* number of requests the client has sent
  asks,         \* number of the request that asks to close after it, or 0
  got,          \* numbers of the responses ClientCodec has delivered
  parsed,       \* tokens of the wire ClientCodec has read
  pc,           \* where the server's read loop is
  after,        \* where it goes after the Flush it is in
  ahead,        \* last request its buffered reader has read
  request,      \* number of its present request
  close,        \* request.Close
  writer,       \* the response writer: its bufio.Writer,
  header,       \* its header map,
  wroteHeader,  \* wroteHeader,
  chunkWriter,  \* and the bufio.Writer its chunkWriter writes to
  pieces,       \* pieces the handler has written
  pool,         \* bufio.Writers in bufioWriterPool
  held,         \* tokens in a bufio.Writer
  target,       \* the connection it writes to
  wire,         \* tokens sent on a connection
  flushed       \* history: chunked responses whose handler called Flush itself

clientVars == <<sent, asks, got, parsed>>
loopVars == <<ahead, request, close>>
writerVars == <<writer, header, wroteHeader, chunkWriter, pieces>>
poolVars == <<pool, held, target>>
vars == <<link, clientVars, pc, after, loopVars, writerVars, poolVars, wire,
          flushed>>

Labels == {"loop", "read", "serve", "flush", "send", "replied", "exception", "done"}

\* What the header map says of the length of the body: nothing,
\* "Transfer-Encoding: chunked", or a "Content-Length".
Plain == [framing |-> "none", size |-> 0]
Chunked == [framing |-> "chunked", size |-> 0]
Headers == {Plain, Chunked} \cup [framing : {"length"}, size : 0 .. MaxPieces]

Tokens == [part : {"head", "piece", "end"}, on : Conns, of : Nat, header : Headers]
Token(part, c) == [part |-> part, on |-> c, of |-> request[c], header |-> header[c]]

\* Response r[2] on connection r[1].
Responses == Conns \X Nat

Goto(c, label) == pc' = [pc EXCEPT ![c] = label]

Init ==
  /\ link = [c \in Conns |-> "open"]
  /\ sent = [c \in Conns |-> 0] /\ asks = [c \in Conns |-> 0]
  /\ got = [c \in Conns |-> <<>>] /\ parsed = [c \in Conns |-> 0]
  /\ pc = [c \in Conns |-> "loop"] /\ after = [c \in Conns |-> "replied"]
  /\ ahead = [c \in Conns |-> 0] /\ request = [c \in Conns |-> 0]
  /\ close = [c \in Conns |-> FALSE]
  /\ writer = [c \in Conns |-> NoWriter] /\ chunkWriter = [c \in Conns |-> NoWriter]
  /\ header = [c \in Conns |-> Plain] /\ wroteHeader = [c \in Conns |-> FALSE]
  /\ pieces = [c \in Conns |-> 0]
  /\ pool = {} /\ held = [w \in Writers |-> <<>>] /\ target = [w \in Writers |-> NoConn]
  /\ wire = [c \in Conns |-> <<>>] /\ flushed = {}

-----------------------------------------------------------------------------
(* Responses as a client reads them.                                       *)

\* The response whose head is at position i of s is complete at j: its body
\* has as many pieces as announced, or its last chunk.
Ends(s, i, j) ==
  /\ j \in i .. Len(s) /\ s[i].part = "head" /\ s[j].of = s[i].of
  /\ \/ s[i].header.framing = "length" /\ j - i = s[i].header.size
     \/ s[i].header.framing = "chunked" /\ s[j].part = "end"

\* s is a sequence of responses to c as a client can read them: with one head
\* each, which comes at the end of the response before it.
InOrder(s, c) ==
  \A j \in DOMAIN s :
    /\ s[j].on = c
    /\ s[j].part = "head" =>
         IF j = 1 THEN s[j].of = 1
         ELSE \E i \in 1 .. j - 1 : Ends(s, i, j - 1) /\ s[j].of = s[i].of + 1
    /\ s[j].part # "head" => j > 1 /\ s[j].of = s[j - 1].of /\ s[j - 1].part # "end"

-----------------------------------------------------------------------------
(* The client.                                                             *)

\* requestCodec.HandleWrite, or another program.  With ClientCodec the user
\* waits for the response: responseCodec reads every response through a
\* buffered reader of its own.
ClientSend(c) ==
  /\ link[c] = "open" /\ asks[c] = 0
  /\ Cardinality({r \in Conns \X (1 .. MaxRequests) : r[2] <= sent[r[1]]}) < MaxRequests
  /\ c \notin Pipelining => Len(got[c]) = sent[c]
  /\ sent' = [sent EXCEPT ![c] = @ + 1]
  /\ asks' \in {asks, [asks EXCEPT ![c] = sent'[c]]}
  /\ UNCHANGED <<link, got, parsed, pc, after, loopVars, writerVars, poolVars, wire, flushed>>

\* responseCodec.HandleRead reads a response, and its reader up to whatever
\* has arrived by then; what it read beyond the response is lost.
ClientRead(c) ==
  /\ c \notin Pipelining
  /\ \E j \in parsed[c] + 1 .. Len(wire[c]) :
       /\ \/ Ends(wire[c], parsed[c] + 1, j)
          \/ link[c] = "closed" /\ wire[c][parsed[c] + 1].header = Plain /\ j = Len(wire[c])
       /\ got' = [got EXCEPT ![c] = Append(@, wire[c][parsed[c] + 1].of)]
       /\ \E last \in j .. Len(wire[c]) : parsed' = [parsed EXCEPT ![c] = last]
  /\ UNCHANGED <<link, sent, asks, pc, after, loopVars, writerVars, poolVars, wire, flushed>>

\* The connection fails, the client leaves, or somebody else closes the
\* server's channel.  What has not been read by then is lost.
Break(c) ==
  /\ link[c] = "open"
  /\ link' = [link EXCEPT ![c] = "closed"]
  /\ UNCHANGED <<clientVars, pc, after, loopVars, writerVars, poolVars, wire, flushed>>

-----------------------------------------------------------------------------
(* The read loop and the request codec.                                    *)

\* readLoop: requestCodec.HandleRead begins with a new buffered reader, and
\* what the last one had read ahead is lost.
BeginRead(c) ==
  /\ pc[c] = "loop"
  /\ request' = [request EXCEPT ![c] = ahead[c]]
  /\ Goto(c, IF link[c] = "closed" THEN "done" ELSE "read")
  /\ UNCHANGED <<link, clientVars, after, ahead, close, writerVars, poolVars, wire, flushed>>

\* http.ReadRequest takes a request its reader has, or reads from the
\* connection what has arrived; handlerAdapter makes a response writer.
\* sync.Pool returns any object it has, or none.
ReadRequest(c) ==
  /\ pc[c] = "read"
  /\ \/ request[c] < ahead[c] /\ UNCHANGED ahead
     \/ /\ request[c] = ahead[c] /\ link[c] = "open"
        /\ \E last \in ahead[c] + 1 .. sent[c] : ahead' = [ahead EXCEPT ![c] = last]
  /\ request' = [request EXCEPT ![c] = @ + 1]
  /\ close' = [close EXCEPT ![c] = request'[c] = asks[c]]
  /\ \E w \in Writers :
       /\ w \in pool \/ \A d \in Conns : w \notin {writer[d], chunkWriter[d]}
       /\ pool' = pool \ {w}
       /\ writer' = [writer EXCEPT ![c] = w]
       /\ held' = [held EXCEPT ![w] = <<>>]
       /\ target' = [target EXCEPT ![w] = c]
  /\ Goto(c, "serve")
  /\ UNCHANGED <<link, clientVars, after, header, wroteHeader, chunkWriter, pieces, wire, flushed>>

\* http.ReadRequest fails: Assert panics.
ReadFails(c) ==
  /\ pc[c] = "read" /\ request[c] = ahead[c] /\ link[c] = "closed"
  /\ Goto(c, "exception")
  /\ UNCHANGED <<link, clientVars, after, loopVars, writerVars, poolVars, wire, flushed>>

\* Nobody knows the response writer any more.
Forget(c) ==
  /\ header' = [header EXCEPT ![c] = Plain]
  /\ wroteHeader' = [wroteHeader EXCEPT ![c] = FALSE]
  /\ writer' = [writer EXCEPT ![c] = NoWriter]
  /\ chunkWriter' = [chunkWriter EXCEPT ![c] = NoWriter]
  /\ pieces' = [pieces EXCEPT ![c] = 0]
  /\ after' = [after EXCEPT ![c] = "replied"]

\* The handler has returned and its response is flushed.
AfterRequest(c) ==
  /\ pc[c] = "replied"
  /\ IF close[c]
     THEN link' = [link EXCEPT ![c] = "closed"] /\ Goto(c, "loop")
     ELSE UNCHANGED link /\ Goto(c, "read")
  /\ Forget(c)
  /\ UNCHANGED <<clientVars, loopVars, poolVars, wire, flushed>>

\* Mutant: an exception does not close the channel.
MutantHandleException(c) ==
  /\ pc[c] = "exception"
  /\ Goto(c, "loop")
  /\ Forget(c)
  /\ UNCHANGED <<link, clientVars, loopVars, poolVars, wire, flushed>>

\* invokeMethod recovers, and handlerAdapter.HandleException closes.
HandleException(c) ==
  /\ pc[c] = "exception"
  /\ link' = [link EXCEPT ![c] = "closed"]
  /\ Goto(c, "loop")
  /\ Forget(c)
  /\ UNCHANGED <<clientVars, loopVars, poolVars, wire, flushed>>

-----------------------------------------------------------------------------
(* The handler, which calls the response writer.                           *)

\* Mutant: every Write, and Flush, writes a header.
MutantHeadNow(c) == <<Token("head", c)>>

\* What WriteHeader leaves behind when it is called now.
HeadNow(c) == IF wroteHeader[c] THEN <<>> ELSE <<Token("head", c)>>
ChunkWriterNow(c) ==
  IF ~wroteHeader[c] /\ header[c] = Chunked THEN writer[c] ELSE chunkWriter[c]

\* The bufio.Writer that takes what is written now, and what ends the body.
DestNow(c) == IF ChunkWriterNow(c) = NoWriter THEN writer[c] ELSE ChunkWriterNow(c)
EndNow(c) == IF ChunkWriterNow(c) = NoWriter THEN <<>> ELSE <<Token("end", c)>>

\* An orderly handler leaves the header map alone once the header is written.
HandlerSetsHeader(c) ==
  /\ pc[c] = "serve" /\ (Orderly => ~wroteHeader[c])
  /\ \E h \in Headers \ {header[c], Plain} : header' = [header EXCEPT ![c] = h]
  /\ UNCHANGED <<link, clientVars, pc, after, loopVars, writer, wroteHeader, chunkWriter,
                 pieces, poolVars, wire, flushed>>

\* WriteHeader, or Write of a piece.  Orderly: no more than was announced.
HandlerWrites(c) ==
  /\ pc[c] = "serve"
  /\ DestNow(c) # NoWriter
  /\ \/ /\ ~wroteHeader[c]
        /\ held' = [held EXCEPT ![DestNow(c)] = @ \o HeadNow(c)]
        /\ UNCHANGED pieces
     \/ /\ pieces[c] < MaxPieces
        /\ Orderly /\ header[c].framing = "length" => pieces[c] < header[c].size
        /\ held' = [held EXCEPT ![DestNow(c)] = @ \o HeadNow(c) \o <<Token("piece", c)>>]
        /\ pieces' = [pieces EXCEPT ![c] = @ + 1]
  /\ wroteHeader' = [wroteHeader EXCEPT ![c] = TRUE]
  /\ chunkWriter' = [chunkWriter EXCEPT ![c] = ChunkWriterNow(c)]
  /\ UNCHANGED <<link, clientVars, pc, after, loopVars, writer, header, pool, target, wire,
                 flushed>>

\* The handler returns or panics, as it does when it writes after its own
\* Flush, and Flush, which is deferred, is called.  Orderly: it does not return
\* before it has written what it announced.
HandlerEnds(c) ==
  /\ pc[c] = "serve"
  /\ \/ /\ Orderly /\ header[c].framing = "length" => pieces[c] = header[c].size
        /\ after' = [after EXCEPT ![c] = "replied"]
     \/ after' = [after EXCEPT ![c] = "exception"]
  /\ Goto(c, "flush")
  /\ UNCHANGED <<link, clientVars, loopVars, writerVars, poolVars, wire, flushed>>

\* The handler calls Flush itself: the response writer is an http.Flusher.
HandlerFlushes(c) ==
  /\ pc[c] = "serve"
  /\ after' = [after EXCEPT ![c] = "serve"]
  /\ flushed' = IF ChunkWriterNow(c) = NoWriter THEN flushed
                ELSE flushed \cup {<<c, request[c]>>}
  /\ Goto(c, "flush")
  /\ UNCHANGED <<link, clientVars, loopVars, writerVars, poolVars, wire>>

-----------------------------------------------------------------------------
(* Flush and Close of the response writer.                                 *)

\* Flush writes the header if nobody did; Close ends the chunks.  In a second
\* Flush the bufio.Writer is nil, and Close panics, but a chunk writer still
\* writes to the one it had.
BeginFlush(c) ==
  /\ pc[c] = "flush"
  /\ held' = [w \in Writers |-> IF w = DestNow(c) THEN held[w] \o HeadNow(c) \o EndNow(c)
                               ELSE held[w]]
  /\ wroteHeader' = [wroteHeader EXCEPT ![c] = TRUE]
  /\ chunkWriter' = [chunkWriter EXCEPT ![c] = ChunkWriterNow(c)]
  /\ \/ writer[c] # NoWriter /\ Goto(c, "send") /\ UNCHANGED after
     \/ /\ writer[c] = NoWriter
        /\ Goto(c, IF after[c] = "serve" THEN "flush" ELSE "exception")
        /\ after' = [after EXCEPT ![c] = "exception"]
  /\ UNCHANGED <<link, clientVars, loopVars, writer, header, pieces, pool, target, wire, flushed>>

\* The bufio.Writer gives the channel all it holds, when it is full or in
\* Flush,
Send(c) ==
  LET w == writer[c] IN
  /\ pc[c] \in {"serve", "send"} /\ w # NoWriter /\ held[w] # <<>>
  /\ link[target[w]] = "open"
  /\ wire' = [wire EXCEPT ![target[w]] = @ \o held[w]]
  /\ held' = [held EXCEPT ![w] = <<>>]
  /\ UNCHANGED <<link, clientVars, pc, after, loopVars, writerVars, pool, target, flushed>>

\* which fails; the error of Close is ignored.
SendFails(c) ==
  LET w == writer[c] IN
  /\ pc[c] \in {"serve", "send"} /\ w # NoWriter /\ held[w] # <<>>
  /\ link[target[w]] = "closed"
  /\ held' = [held EXCEPT ![w] = <<>>]
  /\ UNCHANGED <<link, clientVars, pc, after, loopVars, writerVars, pool, target, wire, flushed>>

\* All of the response of c that w held is sent.  What a chunk writer of
\* another response, which had w before, puts there after that is lost.
Emptied(w, c) == \A i \in DOMAIN held[w] : held[w][i].on # c

\* Mutant: the writer is not set to nil after it went to the pool.
MutantPutBack(c) ==
  LET w == writer[c] IN
  /\ pc[c] = "send" /\ w # NoWriter /\ Emptied(w, c)
  /\ held' = [held EXCEPT ![w] = <<>>]
  /\ close' = [close EXCEPT ![c] = @ \/ header[c] = Plain]
  /\ pool' = pool \cup {w}
  /\ target' = [target EXCEPT ![w] = NoConn]
  /\ Goto(c, after[c])
  /\ UNCHANGED <<link, clientVars, after, ahead, request, writerVars, wire, flushed>>

\* Mutant: without a length the connection stays open.
MutantShouldClose(c) ==
  LET w == writer[c] IN
  /\ pc[c] = "send" /\ w # NoWriter /\ Emptied(w, c)
  /\ held' = [held EXCEPT ![w] = <<>>]
  /\ pool' = pool \cup {w}
  /\ target' = [target EXCEPT ![w] = NoConn]
  /\ writer' = [writer EXCEPT ![c] = NoWriter]
  /\ Goto(c, after[c])
  /\ UNCHANGED <<link, clientVars, after, loopVars, header, wroteHeader, chunkWriter, pieces,
                 wire, flushed>>

\* The end of Close: a response whose end the client cannot see closes the
\* connection.
PutBack(c) ==
  LET w == writer[c] IN
  /\ pc[c] = "send" /\ w # NoWriter /\ Emptied(w, c)
  /\ held' = [held EXCEPT ![w] = <<>>]
  /\ close' = [close EXCEPT ![c] = @ \/ header[c] = Plain]
  /\ pool' = pool \cup {w}
  /\ target' = [target EXCEPT ![w] = NoConn]
  /\ writer' = [writer EXCEPT ![c] = NoWriter]
  /\ Goto(c, after[c])
  /\ UNCHANGED <<link, clientVars, after, ahead, request, header, wroteHeader, chunkWriter,
                 pieces, wire, flushed>>

-----------------------------------------------------------------------------
LoopStep(c) ==
  \/ BeginRead(c) \/ ReadRequest(c) \/ ReadFails(c) \/ AfterRequest(c) \/ HandleException(c)
  \/ BeginFlush(c) \/ Send(c) \/ SendFails(c) \/ PutBack(c)

\* Every read loop has ended.
Done == (\A c \in Conns : pc[c] = "done") /\ UNCHANGED vars

Next ==
  \/ \E c \in Conns :
       \/ ClientSend(c) \/ ClientRead(c) \/ Break(c) \/ LoopStep(c)
       \/ HandlerSetsHeader(c) \/ HandlerWrites(c) \/ HandlerFlushes(c) \/ HandlerEnds(c)
  \/ Done

Spec == Init /\ [][Next]_vars

-----------------------------------------------------------------------------
TypeOK ==
  /\ link \in [Conns -> {"open", "closed"}]
  /\ sent \in [Conns -> Nat] /\ asks \in [Conns -> Nat]
  /\ got \in [Conns -> Seq(Nat)] /\ parsed \in [Conns -> Nat]
  /\ pc \in [Conns -> Labels] /\ after \in [Conns -> {"replied", "exception", "serve"}]
  /\ ahead \in [Conns -> Nat] /\ request \in [Conns -> Nat]
  /\ close \in [Conns -> BOOLEAN]
  /\ writer \in [Conns -> Writers \cup {NoWriter}]
  /\ chunkWriter \in [Conns -> Writers \cup {NoWriter}]
  /\ header \in [Conns -> Headers] /\ wroteHeader \in [Conns -> BOOLEAN]
  /\ pieces \in [Conns -> 0 .. MaxPieces]
  /\ pool \subseteq Writers /\ held \in [Writers -> Seq(Tokens)]
  /\ target \in [Writers -> Conns \cup {NoConn}]
  /\ wire \in [Conns -> Seq(Tokens)] /\ flushed \subseteq Responses
  /\ \A c \in Conns : request[c] <= ahead[c] /\ ahead[c] <= sent[c]

\* The token is of one of these responses.
Stray(t, responses) == <<t.on, t.of>> \in responses

\* Whatever handlers and other connections do, no two responses have the same
\* bufio.Writer, none that is in use is in the pool, one in the pool writes to
\* nobody, and nothing of a response gets into a bufio.Writer or to a client of
\* another, except what a handler writes after it called Flush in a chunked
\* response (response_writer.go, NewResponseWriter and Close).
WritersAreOwned ==
  /\ \A w \in pool : target[w] = NoConn /\ \A i \in DOMAIN held[w] : Stray(held[w][i], flushed)
  /\ \A c \in Conns : writer[c] # NoWriter =>
       /\ writer[c] \notin pool /\ target[writer[c]] = c
       /\ \A d \in Conns \ {c} : writer[d] # writer[c]
       /\ \A i \in DOMAIN held[writer[c]] :
            LET t == held[writer[c]][i] IN (t.on = c /\ t.of = request[c]) \/ Stray(t, flushed)
  /\ \A c \in Conns : \A i \in DOMAIN wire[c] : wire[c][i].on = c \/ Stray(wire[c][i], flushed)

\* Flush flushes the response (response_writer.go:124 and http.go:60, "flush
\* response"), which is all that a client gets: nothing of another client's.
OwnResponses == \A c \in Conns : \A i \in DOMAIN wire[c] : wire[c][i].on = c

\* As long as no handler has called Flush in a chunked response, a client reads
\* the responses to its requests in their order, each with one head: the next
\* head comes when the client has seen the end of the response before it, and
\* none comes after a response that ends with the connection
\* (response_writer.go, WriteHeader, Flush and shouldClose).
ResponsesInOrder == flushed = {} => \A c \in Conns : InOrder(wire[c], c)

\* As long as that is so, with ClientCodec the k-th response delivered is the
\* one to the k-th request, although its reader drops what it has read beyond a
\* response (response.go, HandleRead).
AnswersMatch == flushed = {} => \A c \in Conns : \A k \in DOMAIN got[c] : got[c][k] = k

\* And when the server waits for the next request, its client has got every
\* response to an end it can see: nobody waits for ever, neither for a response
\* nor for the rest of one (response_writer.go, shouldClose; request.go).
NobodyWaits ==
  \A c \in Conns : pc[c] = "read" /\ link[c] = "open" /\ flushed = {} =>
    \A k \in 1 .. request[c] : \E i, j \in DOMAIN wire[c] :
      wire[c][i].of = k /\ Ends(wire[c], i, j)
=============================================================================
