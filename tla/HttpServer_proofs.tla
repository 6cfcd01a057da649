------------------------- MODULE HttpServer_proofs --------------------------
(***************************************************************************)
(* Proofs about HttpServer, for any number of connections, bufio.Writers,  *)
(* requests and pieces.                                                    *)
(***************************************************************************)
EXTENDS HttpServer, SequenceTheorems, WellFoundedInduction, TLAPS

-----------------------------------------------------------------------------
(* Types.                                                                  *)

\* A server starts well typed.
LEMMA InitType == Init => TypeOK
<1> SUFFICES ASSUME Init PROVE TypeOK
  OBVIOUS
<1>1. <<>> \in Seq(Nat) /\ <<>> \in Seq(Tokens) /\ Plain \in Headers
  BY DEF Headers
<1>2. QED
  BY <1>1, ConstantsAssumption DEF Init, TypeOK, Labels

\* What a connection writes are tokens.
LEMMA TokenType ==
  ASSUME TypeOK, NEW c \in Conns
  PROVE  /\ \A part \in {"head", "piece", "end"} : Token(part, c) \in Tokens
         /\ HeadNow(c) \in Seq(Tokens)
         /\ EndNow(c) \in Seq(Tokens)
         /\ ChunkWriterNow(c) \in Writers \cup {NoWriter}
         /\ DestNow(c) \in Writers \cup {NoWriter}
<1>1. \A part \in {"head", "piece", "end"} : Token(part, c) \in Tokens
  BY DEF TypeOK, Token, Tokens
<1>2. QED
  BY <1>1 DEF TypeOK, HeadNow, EndNow, ChunkWriterNow, DestNow

\* The empty sequence is one of tokens.
LEMMA EmptyType == <<>> \in Seq(Tokens)
OBVIOUS

\* So are two sequences of tokens, one after the other.
LEMMA ConcatType ==
  ASSUME NEW s \in Seq(Tokens), NEW t \in Seq(Tokens)
  PROVE  s \o t \in Seq(Tokens)
OBVIOUS

\* Numbers of responses: one more is one more.
LEMMA AppendNat ==
  ASSUME NEW s \in Seq(Nat), NEW n \in Nat
  PROVE  Append(s, n) \in Seq(Nat)
OBVIOUS

\* An empty header is one.
LEMMA PlainType == Plain \in Headers
BY DEF Headers

\* Every step keeps the types.
LEMMA TypeStep == TypeOK /\ [Next]_vars => TypeOK'
<1> SUFFICES ASSUME TypeOK, [Next]_vars PROVE TypeOK'
  OBVIOUS
<1> USE ConstantsAssumption
    DEF TypeOK, clientVars, loopVars, writerVars, poolVars, Goto, Labels
<1>1. ASSUME NEW c \in Conns, ClientSend(c) PROVE TypeOK'
  <2>1. sent' = [sent EXCEPT ![c] = @ + 1] /\ asks' \in {asks, [asks EXCEPT ![c] = sent'[c]]}
        /\ UNCHANGED <<link, got, parsed, pc, after, loopVars, writerVars, poolVars, wire, flushed>>
    BY <1>1 DEF ClientSend
  <2>2. sent' \in [Conns -> Nat] /\ \A e \in Conns : sent[e] <= sent'[e]
    BY <2>1, SMTT(20)
  <2>3. asks' \in [Conns -> Nat]
    BY <2>1, <2>2
  <2>4. \A e \in Conns : request'[e] <= ahead'[e] /\ ahead'[e] <= sent'[e]
    BY <2>1, <2>2
  <2>5. QED
    BY <2>1, <2>2, <2>3, <2>4
<1>2. ASSUME NEW c \in Conns, ClientRead(c) PROVE TypeOK'
  <2>1. PICK j \in parsed[c] + 1 .. Len(wire[c]) :
          /\ got' = [got EXCEPT ![c] = Append(@, wire[c][parsed[c] + 1].of)]
          /\ \E last \in j .. Len(wire[c]) : parsed' = [parsed EXCEPT ![c] = last]
    BY <1>2 DEF ClientRead
  <2>2. PICK last \in j .. Len(wire[c]) : parsed' = [parsed EXCEPT ![c] = last]
    BY <2>1
  <2>3. last \in Nat /\ wire[c][parsed[c] + 1] \in Tokens
    OBVIOUS
  <2>4. got' \in [Conns -> Seq(Nat)] /\ parsed' \in [Conns -> Nat]
    <3>1. Append(got[c], wire[c][parsed[c] + 1].of) \in Seq(Nat)
      BY <2>3, AppendNat DEF Tokens
    <3>2. QED
      BY <2>1, <2>2, <2>3, <3>1
  <2>5. UNCHANGED <<link, sent, asks, pc, after, loopVars, writerVars, poolVars, wire, flushed>>
    BY <1>2 DEF ClientRead
  <2>6. QED
    BY <2>4, <2>5
<1>3. ASSUME NEW c \in Conns, Break(c) PROVE TypeOK'
  BY <1>3 DEF Break
<1>4. ASSUME NEW c \in Conns, BeginRead(c) PROVE TypeOK'
  BY <1>4 DEF BeginRead
<1>5. ASSUME NEW c \in Conns, ReadRequest(c) PROVE TypeOK'
  <2>1. PICK w \in Writers :
          /\ pool' = pool \ {w} /\ writer' = [writer EXCEPT ![c] = w]
          /\ held' = [held EXCEPT ![w] = <<>>] /\ target' = [target EXCEPT ![w] = c]
    BY <1>5 DEF ReadRequest
  <2>2. pool' \subseteq Writers /\ writer' \in [Conns -> Writers \cup {NoWriter}]
        /\ target' \in [Writers -> Conns \cup {NoConn}]
    BY <2>1
  <2>3. held' \in [Writers -> Seq(Tokens)]
    BY <2>1, EmptyType
  <2>4. request' \in [Conns -> Nat] /\ ahead' \in [Conns -> Nat]
        /\ \A e \in Conns : request'[e] <= ahead'[e] /\ ahead'[e] <= sent[e]
    <3>1. request' = [request EXCEPT ![c] = @ + 1]
          /\ (\/ request[c] < ahead[c] /\ ahead' = ahead
              \/ request[c] = ahead[c]
                 /\ \E last \in ahead[c] + 1 .. sent[c] : ahead' = [ahead EXCEPT ![c] = last])
      BY <1>5 DEF ReadRequest
    <3>2. request' \in [Conns -> Nat]
      BY <3>1
    <3>3. ahead' \in [Conns -> Nat]
      <4>1. CASE \E last \in ahead[c] + 1 .. sent[c] : ahead' = [ahead EXCEPT ![c] = last]
        <5>1. PICK last \in ahead[c] + 1 .. sent[c] : ahead' = [ahead EXCEPT ![c] = last]
          BY <4>1
        <5>2. last \in Nat
          OBVIOUS
        <5>3. QED
          BY <5>1, <5>2
      <4>2. QED
        BY <3>1, <4>1
    <3>4. ASSUME NEW e \in Conns PROVE request'[e] <= ahead'[e] /\ ahead'[e] <= sent[e]
      <4>1. CASE e = c
        BY <3>1, <4>1
      <4>2. CASE e # c
        BY <3>1, <4>2
      <4>3. QED
        BY <4>1, <4>2
    <3>5. QED
      BY <3>2, <3>3, <3>4
  <2>5. close' \in [Conns -> BOOLEAN] /\ pc' \in [Conns -> Labels]
    BY <1>5 DEF ReadRequest
  <2>6. UNCHANGED <<link, clientVars, after, header, wroteHeader, chunkWriter, pieces, wire, flushed>>
    BY <1>5 DEF ReadRequest
  <2>7. QED
    BY <2>2, <2>3, <2>4, <2>5, <2>6
<1>6. ASSUME NEW c \in Conns, ReadFails(c) PROVE TypeOK'
  BY <1>6 DEF ReadFails
<1>7. ASSUME NEW c \in Conns, AfterRequest(c) PROVE TypeOK'
  <2>1. /\ Forget(c) /\ pc' \in [Conns -> Labels] /\ link' \in [Conns -> {"open", "closed"}]
        /\ UNCHANGED <<clientVars, loopVars, poolVars, wire, flushed>>
    BY <1>7 DEF AfterRequest
  <2>2. QED
    BY <2>1, PlainType, SMTT(20) DEF Forget
<1>8. ASSUME NEW c \in Conns, HandleException(c) PROVE TypeOK'
  BY <1>8, PlainType DEF HandleException, Forget
<1>9. ASSUME NEW c \in Conns, BeginFlush(c) PROVE TypeOK'
  <2>1. chunkWriter' \in [Conns -> Writers \cup {NoWriter}]
        /\ wroteHeader' \in [Conns -> BOOLEAN]
    BY <1>9, TokenType DEF BeginFlush
  <2>2. held' \in [Writers -> Seq(Tokens)]
    <3>1. held' = [w \in Writers |-> IF w = DestNow(c) THEN held[w] \o HeadNow(c) \o EndNow(c)
                                     ELSE held[w]]
      BY <1>9 DEF BeginFlush
    <3>2. \A w \in Writers : held[w] \o HeadNow(c) \o EndNow(c) \in Seq(Tokens)
      BY TokenType, ConcatType
    <3>3. QED
      BY <3>1, <3>2
  <2>3. pc' \in [Conns -> Labels]
    <3>1. \E l \in Labels : pc' = [pc EXCEPT ![c] = l]
      BY <1>9 DEF BeginFlush
    <3>2. QED
      BY <3>1
  <2>4. after' \in [Conns -> {"replied", "exception", "serve"}]
    BY <1>9 DEF BeginFlush
  <2>5. UNCHANGED <<link, clientVars, loopVars, writer, header, pieces, pool, target, wire, flushed>>
    BY <1>9 DEF BeginFlush
  <2>6. QED
    BY <2>1, <2>2, <2>3, <2>4, <2>5
<1>10. ASSUME NEW c \in Conns, Send(c) PROVE TypeOK'
  <2>1. PICK w \in Writers :
          /\ link[target[w]] = "open" /\ held' = [held EXCEPT ![w] = <<>>]
          /\ wire' = [wire EXCEPT ![target[w]] = @ \o held[w]]
    BY <1>10 DEF Send
  <2>2. held' \in [Writers -> Seq(Tokens)]
    BY <2>1, EmptyType
  <2>3. wire' \in [Conns -> Seq(Tokens)]
    <3>1. \A d \in Conns : wire[d] \o held[w] \in Seq(Tokens)
      BY ConcatType
    <3>2. QED
      BY <2>1, <3>1
  <2>4. UNCHANGED <<link, clientVars, pc, after, loopVars, writerVars, pool, target, flushed>>
    BY <1>10 DEF Send
  <2>5. QED
    BY <2>2, <2>3, <2>4
<1>11. ASSUME NEW c \in Conns, SendFails(c) PROVE TypeOK'
  <2>1. PICK w \in Writers : held' = [held EXCEPT ![w] = <<>>]
    BY <1>11 DEF SendFails
  <2>2. held' \in [Writers -> Seq(Tokens)]
    BY <2>1, EmptyType
  <2>3. UNCHANGED <<link, clientVars, pc, after, loopVars, writerVars, pool, target, wire, flushed>>
    BY <1>11 DEF SendFails
  <2>4. QED
    BY <2>2, <2>3
<1>12. ASSUME NEW c \in Conns, PutBack(c) PROVE TypeOK'
  <2>1. /\ pc[c] = "send" /\ writer[c] \in Writers /\ pc' = [pc EXCEPT ![c] = after[c]]
        /\ pool' = pool \cup {writer[c]} /\ target' = [target EXCEPT ![writer[c]] = NoConn]
        /\ writer' = [writer EXCEPT ![c] = NoWriter]
        /\ held' = [held EXCEPT ![writer[c]] = <<>>]
    BY <1>12 DEF PutBack
  <2>2. close' \in [Conns -> BOOLEAN]
    <3>1. close' = [close EXCEPT ![c] = @ \/ header[c] = Plain]
      BY <1>12 DEF PutBack
    <3>2. QED
      BY <3>1
  <2>3. UNCHANGED <<link, clientVars, after, ahead, request, header, wroteHeader, chunkWriter,
                    pieces, wire, flushed>>
    BY <1>12 DEF PutBack
  <2>4. held' \in [Writers -> Seq(Tokens)]
    BY <2>1, EmptyType
  <2>5. QED
    BY <2>1, <2>2, <2>3, <2>4
<1>13. ASSUME NEW c \in Conns, HandlerSetsHeader(c) PROVE TypeOK'
  BY <1>13, SMTT(20) DEF HandlerSetsHeader
<1>14. ASSUME NEW c \in Conns, HandlerWrites(c) PROVE TypeOK'
  <2>1. chunkWriter' \in [Conns -> Writers \cup {NoWriter}]
        /\ wroteHeader' \in [Conns -> BOOLEAN]
    BY <1>14, TokenType DEF HandlerWrites
  <2>2. DestNow(c) \in Writers
    BY <1>14, TokenType DEF HandlerWrites
  <2>3. \/ held' = [held EXCEPT ![DestNow(c)] = @ \o HeadNow(c)]
        \/ held' = [held EXCEPT ![DestNow(c)] = @ \o HeadNow(c) \o <<Token("piece", c)>>]
    BY <1>14 DEF HandlerWrites
  <2>4. held' \in [Writers -> Seq(Tokens)]
    <3>1. \A w \in Writers : /\ held[w] \o HeadNow(c) \in Seq(Tokens)
                            /\ held[w] \o HeadNow(c) \o <<Token("piece", c)>> \in Seq(Tokens)
      <4>1. HeadNow(c) \in Seq(Tokens) /\ <<Token("piece", c)>> \in Seq(Tokens)
        BY TokenType, SMTT(20)
      <4>2. \A w \in Writers : held[w] \in Seq(Tokens)
        OBVIOUS
      <4>3. QED
        BY <4>1, <4>2, ConcatType
    <3>2. QED
      BY <2>2, <2>3, <3>1
  <2>5. pieces' \in [Conns -> 0 .. MaxPieces]
    BY <1>14, SMTT(20) DEF HandlerWrites
  <2>6. UNCHANGED <<link, clientVars, pc, after, loopVars, writer, header, pool, target, wire, flushed>>
    BY <1>14 DEF HandlerWrites
  <2>7. QED
    BY <2>1, <2>4, <2>5, <2>6
<1>15. ASSUME NEW c \in Conns, HandlerFlushes(c) PROVE TypeOK'
  <2>1. flushed' \subseteq Responses
    BY <1>15 DEF HandlerFlushes, Responses
  <2>2. QED
    BY <1>15, <2>1 DEF HandlerFlushes
<1>16. ASSUME NEW c \in Conns, HandlerEnds(c) PROVE TypeOK'
  BY <1>16 DEF HandlerEnds
<1>17. CASE UNCHANGED vars
  BY <1>17 DEF vars
<1>18. QED
  <2> HIDE DEF TypeOK, vars
  <2> QED
    BY <1>1, <1>2, <1>3, <1>4, <1>5, <1>6, <1>7, <1>8, <1>9, <1>10, <1>11, <1>12, <1>13,
       <1>14, <1>15, <1>16, <1>17
    DEF Next, LoopStep, Done

\* TypeOK, which says besides that the server reads no request that was not
\* sent.
THEOREM TypeInvariant == Spec => []TypeOK
BY InitType, TypeStep, PTL DEF Spec

-----------------------------------------------------------------------------
(* Response writers: what the read loop knows of its own one, and that no   *)
(* two share a bufio.Writer.                                                *)

Active == {"serve", "flush", "send"}

\* What a read loop knows of its response writer whatever its handler does: a
\* chunk writer writes to the response writer's own bufio.Writer, unless the
\* handler called Flush while it had the chunk writer.
ChunksOf(c) ==
  /\ pc[c] \notin Active => writer[c] = NoWriter
  /\ pc[c] \in {"loop", "read", "done"} => ~wroteHeader[c] /\ chunkWriter[c] = NoWriter
  /\ pc[c] = "send" => wroteHeader[c]
  /\ pc[c] \in Active /\ ~wroteHeader[c] => writer[c] # NoWriter /\ chunkWriter[c] = NoWriter
  /\ pc[c] \in Active /\ chunkWriter[c] # NoWriter =>
       chunkWriter[c] = writer[c] \/ <<c, request[c]>> \in flushed
  /\ pc[c] \in {"flush", "send"} /\ after[c] = "serve" /\ ChunkWriterNow(c) # NoWriter =>
       <<c, request[c]>> \in flushed

ChunksInv == \A c \in Conns : ChunksOf(c)

\* There is no chunk writer at first.
LEMMA InitChunks == Init => ChunksInv
BY DEF Init, ChunksInv, ChunksOf, Active

\* What a step of one connection leaves alone of another one.
Untouched(d) ==
  /\ pc'[d] = pc[d] /\ writer'[d] = writer[d] /\ wroteHeader'[d] = wroteHeader[d]
  /\ chunkWriter'[d] = chunkWriter[d] /\ request'[d] = request[d] /\ after'[d] = after[d]
  /\ header'[d] = header[d] /\ flushed \subseteq flushed'

\* That is all ChunksOf speaks of.
LEMMA ChunksSame ==
  ASSUME NEW d \in Conns, ChunksOf(d), Untouched(d)
  PROVE  ChunksOf(d)'
BY DEF ChunksOf, Untouched, ChunkWriterNow

\* Every step keeps ChunksInv.
LEMMA ChunksStep == TypeOK /\ ChunksInv /\ [Next]_vars => ChunksInv'
<1> SUFFICES ASSUME TypeOK, ChunksInv, [Next]_vars PROVE ChunksInv'
  OBVIOUS
<1> USE ConstantsAssumption DEF clientVars, loopVars, writerVars, poolVars, Goto
<1> DEFINE Step(c) ==
      \/ ClientSend(c) \/ ClientRead(c) \/ Break(c) \/ LoopStep(c)
      \/ HandlerSetsHeader(c) \/ HandlerWrites(c) \/ HandlerFlushes(c) \/ HandlerEnds(c)
<1>1. ASSUME NEW c \in Conns, Step(c), NEW d \in Conns \ {c} PROVE Untouched(d)
  <2>1. CASE ClientSend(c) \/ ClientRead(c) \/ Break(c) \/ BeginRead(c) \/ ReadRequest(c)
    BY <2>1 DEF ClientSend, ClientRead, Break, BeginRead, ReadRequest, Untouched, TypeOK
  <2>2. CASE ReadFails(c)
    BY <2>2 DEF ReadFails, Untouched, TypeOK
  <2>3. CASE AfterRequest(c)
    BY <2>3 DEF AfterRequest, Forget, Untouched, TypeOK
  <2>4. CASE HandleException(c)
    BY <2>4 DEF HandleException, Forget, Untouched, TypeOK
  <2>5. CASE BeginFlush(c)
    BY <2>5 DEF BeginFlush, Untouched, TypeOK
  <2>6. CASE Send(c) \/ SendFails(c)
    BY <2>6 DEF Send, SendFails, Untouched, TypeOK
  <2>7. CASE PutBack(c)
    BY <2>7 DEF PutBack, Untouched, TypeOK
  <2>8. CASE HandlerSetsHeader(c) \/ HandlerWrites(c) \/ HandlerFlushes(c) \/ HandlerEnds(c)
    BY <2>8 DEF HandlerSetsHeader, HandlerWrites, HandlerFlushes, HandlerEnds, Untouched, TypeOK
  <2>9. QED
    BY <1>1, <2>1, <2>2, <2>3, <2>4, <2>5, <2>6, <2>7, <2>8 DEF LoopStep
<1>2. ASSUME NEW c \in Conns, Step(c) PROVE ChunksOf(c)'
  <2>1. ChunksOf(c)
    BY DEF ChunksInv
  <2>2. CASE ClientSend(c) \/ ClientRead(c) \/ Break(c) \/ Send(c) \/ SendFails(c)
    BY <2>1, <2>2, ChunksSame
       DEF ClientSend, ClientRead, Break, Send, SendFails, Untouched
  <2>3. CASE BeginRead(c)
    BY <2>1, <2>3 DEF BeginRead, ChunksOf, Active, TypeOK
  <2>4. CASE ReadRequest(c)
    <3>1. /\ pc[c] = "read" /\ pc'[c] = "serve" /\ wroteHeader' = wroteHeader
          /\ chunkWriter' = chunkWriter /\ writer'[c] \in Writers
      BY <2>4 DEF ReadRequest, TypeOK
    <3>2. QED
      BY <2>1, <3>1 DEF ChunksOf, Active
  <2>5. CASE ReadFails(c)
    BY <2>1, <2>5 DEF ReadFails, ChunksOf, Active, TypeOK
  <2>6. CASE AfterRequest(c) \/ HandleException(c)
    <3>1. /\ pc'[c] \in {"loop", "read"} /\ writer'[c] = NoWriter /\ ~wroteHeader'[c]
          /\ chunkWriter'[c] = NoWriter
      BY <2>6 DEF AfterRequest, HandleException, Forget, TypeOK
    <3>2. QED
      BY <3>1 DEF ChunksOf, Active
  <2>7. CASE BeginFlush(c)
    <3>1. /\ pc[c] = "flush" /\ wroteHeader'[c] = TRUE /\ chunkWriter'[c] = ChunkWriterNow(c)
          /\ UNCHANGED <<writer, header, request, flushed>>
      BY <2>7 DEF BeginFlush, TypeOK
    <3>2. \/ writer[c] # NoWriter /\ pc'[c] = "send" /\ after'[c] = after[c]
          \/ writer[c] = NoWriter /\ pc'[c] \in {"flush", "exception"} /\ after'[c] = "exception"
      BY <2>7 DEF BeginFlush, TypeOK
    <3>3. ChunkWriterNow(c)' = ChunkWriterNow(c)
      BY <3>1 DEF ChunkWriterNow
    <3>4. ChunkWriterNow(c) \in {writer[c], chunkWriter[c]}
          /\ (writer[c] = NoWriter => ChunkWriterNow(c) = chunkWriter[c])
      BY <2>1, <3>1 DEF ChunkWriterNow, ChunksOf, Active
    <3>5. QED
      BY <2>1, <3>1, <3>2, <3>3, <3>4 DEF ChunksOf, Active
  <2>8. CASE PutBack(c)
    <3>1. /\ pc[c] = "send" /\ pc'[c] = after[c] /\ writer'[c] = NoWriter
          /\ after[c] \in {"replied", "exception", "serve"}
          /\ UNCHANGED <<after, request, header, wroteHeader, chunkWriter, flushed>>
      BY <2>8 DEF PutBack, TypeOK
    <3>2. wroteHeader[c] /\ ChunkWriterNow(c) = chunkWriter[c]
      BY <2>1, <3>1 DEF ChunksOf, ChunkWriterNow
    <3>3. QED
      BY <2>1, <3>1, <3>2 DEF ChunksOf, Active
  <2>9. CASE HandlerSetsHeader(c)
    BY <2>1, <2>9 DEF HandlerSetsHeader, ChunksOf, Active
  <2>10. CASE HandlerWrites(c)
    <3>1. /\ pc[c] = "serve" /\ wroteHeader'[c] = TRUE /\ chunkWriter'[c] = ChunkWriterNow(c)
          /\ UNCHANGED <<pc, after, writer, request, flushed>>
      BY <2>10 DEF HandlerWrites, TypeOK
    <3>2. ChunkWriterNow(c) \in {writer[c], chunkWriter[c]}
      BY DEF ChunkWriterNow
    <3>3. QED
      BY <2>1, <3>1, <3>2 DEF ChunksOf, Active
  <2>11. CASE HandlerFlushes(c)
    <3>1. /\ pc[c] = "serve" /\ pc'[c] = "flush"
          /\ UNCHANGED <<writer, request, wroteHeader, chunkWriter, header>>
          /\ flushed \subseteq flushed'
          /\ (ChunkWriterNow(c) # NoWriter => <<c, request[c]>> \in flushed')
      BY <2>11 DEF HandlerFlushes, TypeOK
    <3>2. ChunkWriterNow(c)' = ChunkWriterNow(c)
      BY <3>1 DEF ChunkWriterNow
    <3>3. QED
      BY <2>1, <3>1, <3>2 DEF ChunksOf, Active
  <2>12. CASE HandlerEnds(c)
    BY <2>1, <2>12 DEF HandlerEnds, ChunksOf, Active, TypeOK
  <2>13. QED
    BY <1>2, <2>2, <2>3, <2>4, <2>5, <2>6, <2>7, <2>8, <2>9, <2>10, <2>11, <2>12 DEF LoopStep
<1>3. ASSUME NEW c \in Conns, Step(c) PROVE ChunksInv'
  <2>1. ASSUME NEW d \in Conns PROVE ChunksOf(d)'
    BY <1>1, <1>2, <1>3, <2>1, ChunksSame DEF ChunksInv
  <2>2. QED
    BY <2>1 DEF ChunksInv
<1>4. CASE UNCHANGED vars
  BY <1>4, ChunksSame DEF vars, Untouched, ChunksInv
<1>5. QED
  BY <1>3, <1>4 DEF Next, Done

\* The tokens in s are of response r to connection c.
OfResponse(s, c, r) == \A i \in DOMAIN s : s[i].on = c /\ s[i].of = r

\* What a connection writes is of its present response.
LEMMA WritesOfResponse ==
  ASSUME NEW c \in Conns
  PROVE  /\ OfResponse(HeadNow(c), c, request[c])
         /\ OfResponse(EndNow(c), c, request[c])
         /\ OfResponse(<<Token("piece", c)>>, c, request[c])
BY DEF OfResponse, HeadNow, EndNow, Token

\* t is of the present response to c.
Own(t, c) == t.on = c /\ t.of = request[c]

\* s has only what base has, and tokens of the present response to c.
Adds(s, base, c) ==
  \A i \in DOMAIN s : (\E j \in DOMAIN base : s[i] = base[j]) \/ Own(s[i], c)

\* What a connection writes adds to what was there.
LEMMA AddsMore ==
  ASSUME NEW s \in Seq(Tokens), NEW t \in Seq(Tokens), NEW base \in Seq(Tokens),
         NEW c \in Conns, Adds(s, base, c), OfResponse(t, c, request[c])
  PROVE  Adds(s \o t, base, c)
BY DEF Adds, OfResponse, Own

\* WritersAreOwned at first: the pool is empty.
LEMMA InitOwned == Init => WritersAreOwned
BY DEF Init, WritersAreOwned

\* A step that leaves bufio.Writers, response writers, present requests and what
\* was sent alone keeps WritersAreOwned.
LEMMA OwnedStill ==
  ASSUME WritersAreOwned, UNCHANGED <<request, writer, poolVars, wire>>, flushed \subseteq flushed'
  PROVE  WritersAreOwned'
<1>1. \A t : Stray(t, flushed) => Stray(t, flushed')
  BY DEF Stray
<1>2. QED
  BY <1>1 DEF WritersAreOwned, poolVars

\* So does one that only adds tokens of a response to the bufio.Writer of its
\* connection or, if its handler called Flush, to any other, or that takes some
\* out.
LEMMA OwnedWrites ==
  ASSUME TypeOK, WritersAreOwned, NEW c \in Conns, NEW w \in Writers,
         w = writer[c] \/ <<c, request[c]>> \in flushed,
         UNCHANGED <<request, writer, pool, target, wire, flushed>>,
         NEW s, held' = [held EXCEPT ![w] = s], Adds(s, held[w], c)
  PROVE  WritersAreOwned'
<1>1. held'[w] = s /\ \A v \in Writers : v # w => held'[v] = held[v]
  BY DEF TypeOK
<1>2. ASSUME NEW v \in pool'
      PROVE  target'[v] = NoConn /\ \A i \in DOMAIN held'[v] : Stray(held'[v][i], flushed')
  <2>1. v \in pool /\ v \in Writers /\ target'[v] = NoConn
        /\ \A i \in DOMAIN held[v] : Stray(held[v][i], flushed)
    BY DEF WritersAreOwned, TypeOK
  <2>2. CASE v = w
    <3>1. w # writer[c]
      BY <2>1, <2>2, ConstantsAssumption DEF WritersAreOwned
    <3>2. <<c, request[c]>> \in flushed
      BY <3>1
    <3>3. ASSUME NEW i \in DOMAIN s PROVE Stray(s[i], flushed')
      <4>1. CASE \E j \in DOMAIN held[w] : s[i] = held[w][j]
        BY <2>1, <2>2, <4>1
      <4>2. CASE Own(s[i], c)
        BY <3>2, <4>2 DEF Own, Stray
      <4>3. QED
        BY <4>1, <4>2 DEF Adds
    <3>4. QED
      BY <1>1, <2>1, <2>2, <3>3
  <2>3. CASE v # w
    BY <1>1, <2>1, <2>3
  <2>4. QED
    BY <2>2, <2>3
<1>3. ASSUME NEW e \in Conns, writer'[e] # NoWriter
      PROVE  /\ writer'[e] \notin pool' /\ target'[writer'[e]] = e
             /\ \A d \in Conns \ {e} : writer'[d] # writer'[e]
             /\ \A i \in DOMAIN held'[writer'[e]] :
                  LET t == held'[writer'[e]][i]
                  IN  (t.on = e /\ t.of = request'[e]) \/ Stray(t, flushed')
  <2>1. /\ writer[e] \in Writers /\ writer[e] \notin pool /\ target[writer[e]] = e
        /\ \A d \in Conns \ {e} : writer[d] # writer[e]
        /\ \A i \in DOMAIN held[writer[e]] :
             Own(held[writer[e]][i], e) \/ Stray(held[writer[e]][i], flushed)
    BY <1>3 DEF WritersAreOwned, TypeOK, Own
  <2>2. ASSUME NEW i \in DOMAIN held'[writer[e]]
        PROVE  Own(held'[writer[e]][i], e) \/ Stray(held'[writer[e]][i], flushed)
    <3>1. CASE writer[e] # w
      BY <1>1, <2>1, <2>2, <3>1
    <3>2. CASE writer[e] = w
      <4>1. CASE \E j \in DOMAIN held[w] : s[i] = held[w][j]
        BY <1>1, <2>1, <3>2, <4>1
      <4>2. CASE Own(s[i], c)
        <5>1. e = c \/ <<c, request[c]>> \in flushed
          BY <2>1, <3>2
        <5>2. Own(s[i], e) \/ Stray(s[i], flushed)
          BY <4>2, <5>1 DEF Own, Stray
        <5>3. QED
          BY <1>1, <3>2, <5>2
      <4>3. QED
        BY <1>1, <2>2, <3>2, <4>1, <4>2 DEF Adds
    <3>3. QED
      BY <3>1, <3>2
  <2>3. QED
    BY <2>1, <2>2 DEF Own
<1>4. \A d \in Conns : \A i \in DOMAIN wire'[d] : wire'[d][i].on = d \/ Stray(wire'[d][i], flushed')
  BY DEF WritersAreOwned
<1>5. QED
  BY <1>2, <1>3, <1>4 DEF WritersAreOwned

\* Where a connection writes: to its response writer's bufio.Writer or, once its
\* handler called Flush with a chunk writer, to the one that had.
LEMMA Destination ==
  ASSUME TypeOK, ChunksInv, NEW c \in Conns, pc[c] \in {"serve", "flush"},
         DestNow(c) # NoWriter
  PROVE  /\ DestNow(c) \in Writers
         /\ DestNow(c) = writer[c] \/ <<c, request[c]>> \in flushed
BY DEF TypeOK, ChunksInv, ChunksOf, Active, DestNow, ChunkWriterNow

\* An element of a concatenation is one of either sequence.
LEMMA ConcatElement ==
  ASSUME NEW s \in Seq(Tokens), NEW t \in Seq(Tokens), NEW i \in DOMAIN (s \o t)
  PROVE  \/ i \in DOMAIN s /\ (s \o t)[i] = s[i]
         \/ \E j \in DOMAIN t : (s \o t)[i] = t[j]
<1>1. CASE i <= Len(s)
  BY <1>1
<1>2. CASE ~(i <= Len(s))
  <2>1. i - Len(s) \in DOMAIN t /\ (s \o t)[i] = t[i - Len(s)]
    BY <1>2
  <2>2. QED
    BY <2>1
<1>3. QED
  BY <1>1, <1>2

\* Every step keeps WritersAreOwned.
LEMMA OwnedStep ==
  TypeOK /\ ChunksInv /\ WritersAreOwned /\ [Next]_vars => WritersAreOwned'
<1> SUFFICES ASSUME TypeOK, ChunksInv, WritersAreOwned, [Next]_vars
             PROVE  WritersAreOwned'
  OBVIOUS
<1> USE ConstantsAssumption
    DEF clientVars, loopVars, writerVars, poolVars, Goto
<1>1. ASSUME NEW c \in Conns, ClientSend(c) PROVE WritersAreOwned'
  BY <1>1, OwnedStill DEF ClientSend
<1>2. ASSUME NEW c \in Conns, ClientRead(c) PROVE WritersAreOwned'
  BY <1>2, OwnedStill DEF ClientRead
<1>3. ASSUME NEW c \in Conns, Break(c) PROVE WritersAreOwned'
  BY <1>3, OwnedStill DEF Break
<1>4. ASSUME NEW c \in Conns, BeginRead(c) PROVE WritersAreOwned'
  <2>1. writer[c] = NoWriter /\ UNCHANGED <<writer, pool, held, target, wire, flushed>>
    BY <1>4 DEF BeginRead, ChunksInv, ChunksOf, Active
  <2>2. \A e \in Conns : e # c => request'[e] = request[e]
    BY <1>4 DEF BeginRead, TypeOK
  <2>3. QED
    BY <2>1, <2>2 DEF WritersAreOwned
<1>5. ASSUME NEW c \in Conns, ReadRequest(c) PROVE WritersAreOwned'
  <2>1. PICK w \in Writers :
          /\ w \in pool \/ \A d \in Conns : w \notin {writer[d], chunkWriter[d]}
          /\ pool' = pool \ {w} /\ writer' = [writer EXCEPT ![c] = w]
          /\ held' = [held EXCEPT ![w] = <<>>] /\ target' = [target EXCEPT ![w] = c]
    BY <1>5 DEF ReadRequest
  <2>2. \A d \in Conns : writer[d] # w
    BY <2>1 DEF WritersAreOwned
  <2>3. /\ writer'[c] = w /\ \A d \in Conns \ {c} : writer'[d] = writer[d]
        /\ held'[w] = <<>> /\ \A v \in Writers \ {w} : held'[v] = held[v]
        /\ target'[w] = c /\ \A v \in Writers \ {w} : target'[v] = target[v]
    BY <2>1 DEF TypeOK
  <2>4. UNCHANGED <<wire, flushed>> /\ \A d \in Conns \ {c} : request'[d] = request[d]
    BY <1>5 DEF ReadRequest, TypeOK
  <2>5. ASSUME NEW v \in pool'
        PROVE  target'[v] = NoConn /\ \A i \in DOMAIN held'[v] : Stray(held'[v][i], flushed')
    BY <2>1, <2>3, <2>4 DEF WritersAreOwned, TypeOK
  <2>6. ASSUME NEW e \in Conns, writer'[e] # NoWriter
        PROVE  /\ writer'[e] \notin pool' /\ target'[writer'[e]] = e
               /\ \A d \in Conns \ {e} : writer'[d] # writer'[e]
               /\ \A i \in DOMAIN held'[writer'[e]] :
                    LET t == held'[writer'[e]][i]
                    IN  (t.on = e /\ t.of = request'[e]) \/ Stray(t, flushed')
    <3>1. CASE e = c
      BY <2>1, <2>2, <2>3, <3>1
    <3>2. CASE e # c
      <4>1. writer'[e] = writer[e] /\ writer[e] \in Writers \ {w}
        BY <2>2, <2>3, <2>6, <3>2, SMTT(20) DEF TypeOK
      <4>2. QED
        BY <2>1, <2>2, <2>3, <2>4, <2>6, <3>2, <4>1 DEF WritersAreOwned
    <3>3. QED
      BY <3>1, <3>2
  <2>7. \A d \in Conns : \A i \in DOMAIN wire'[d] : wire'[d][i].on = d \/ Stray(wire'[d][i], flushed')
    BY <2>4 DEF WritersAreOwned
  <2>8. QED
    BY <2>5, <2>6, <2>7 DEF WritersAreOwned
<1>6. ASSUME NEW c \in Conns, ReadFails(c) PROVE WritersAreOwned'
  BY <1>6, OwnedStill DEF ReadFails
<1>7. ASSUME NEW c \in Conns, AfterRequest(c) \/ HandleException(c) PROVE WritersAreOwned'
  <2>1. writer[c] = NoWriter /\ writer' = [writer EXCEPT ![c] = NoWriter]
        /\ UNCHANGED <<request, poolVars, wire, flushed>>
    BY <1>7 DEF AfterRequest, HandleException, Forget, ChunksInv, ChunksOf, Active
  <2>2. writer' = writer
    BY <2>1 DEF TypeOK
  <2>3. QED
    BY <2>1, <2>2, OwnedStill
<1>9. ASSUME NEW c \in Conns, BeginFlush(c) PROVE WritersAreOwned'
  <2>1. /\ pc[c] = "flush" /\ UNCHANGED <<request, writer, pool, target, wire, flushed>>
        /\ held' = [w \in Writers |-> IF w = DestNow(c) THEN held[w] \o HeadNow(c) \o EndNow(c)
                                      ELSE held[w]]
    BY <1>9 DEF BeginFlush
  <2>2. CASE DestNow(c) = NoWriter
    <3>1. held' = held
      BY <2>1, <2>2 DEF TypeOK
    <3>2. QED
      BY <2>1, <3>1, OwnedStill
  <2>3. CASE DestNow(c) # NoWriter
    <3> DEFINE w == DestNow(c)
               s == held[w] \o HeadNow(c) \o EndNow(c)
    <3>1. w \in Writers /\ (w = writer[c] \/ <<c, request[c]>> \in flushed)
      BY <2>1, <2>3, Destination
    <3>2. held' = [held EXCEPT ![w] = s]
      BY <2>1, <3>1 DEF TypeOK
    <3>3. Adds(s, held[w], c)
      <4>1. held[w] \in Seq(Tokens) /\ Adds(held[w], held[w], c)
        BY <3>1 DEF TypeOK, Adds
      <4>2. /\ held[w] \o HeadNow(c) \in Seq(Tokens)
            /\ Adds(held[w] \o HeadNow(c), held[w], c)
        BY <4>1, TokenType, ConcatType, WritesOfResponse, AddsMore
      <4>3. QED
        BY <4>1, <4>2, TokenType, WritesOfResponse, AddsMore
    <3> HIDE DEF s, w
    <3>4. QED
      BY <2>1, <3>1, <3>2, <3>3, OwnedWrites
  <2>4. QED
    BY <2>2, <2>3
<1>10. ASSUME NEW c \in Conns, Send(c) PROVE WritersAreOwned'
  <2>1. /\ writer[c] \in Writers /\ writer[c] # NoWriter
        /\ UNCHANGED <<request, writer, pool, target, flushed>>
    BY <1>10 DEF Send, TypeOK
  <2>2. /\ target[writer[c]] = c
        /\ \A i \in DOMAIN held[writer[c]] :
             held[writer[c]][i].on = c \/ Stray(held[writer[c]][i], flushed)
    BY <2>1 DEF WritersAreOwned
  <2>3. /\ held' = [held EXCEPT ![writer[c]] = <<>>]
        /\ wire' = [wire EXCEPT ![c] = @ \o held[writer[c]]]
    BY <1>10, <2>2 DEF Send
  <2>4. held'[writer[c]] = <<>> /\ \A v \in Writers : v # writer[c] => held'[v] = held[v]
    BY <2>1, <2>3 DEF TypeOK
  <2>5. ASSUME NEW v \in pool'
        PROVE  target'[v] = NoConn /\ \A i \in DOMAIN held'[v] : Stray(held'[v][i], flushed')
    <3>1. v \in pool /\ v \in Writers /\ v # writer[c]
      BY <2>1 DEF WritersAreOwned, TypeOK
    <3>2. QED
      BY <2>1, <2>4, <3>1 DEF WritersAreOwned
  <2>6. ASSUME NEW e \in Conns, writer'[e] # NoWriter
        PROVE  /\ writer'[e] \notin pool' /\ target'[writer'[e]] = e
               /\ \A d \in Conns \ {e} : writer'[d] # writer'[e]
               /\ \A i \in DOMAIN held'[writer'[e]] :
                    LET t == held'[writer'[e]][i]
                    IN  (t.on = e /\ t.of = request'[e]) \/ Stray(t, flushed')
    <3>1. writer[e] \in Writers
      BY <2>1, <2>6 DEF TypeOK
    <3>2. CASE writer[e] = writer[c]
      BY <2>1, <2>4, <2>6, <3>2 DEF WritersAreOwned
    <3>3. CASE writer[e] # writer[c]
      BY <2>1, <2>4, <2>6, <3>1, <3>3 DEF WritersAreOwned
    <3>4. QED
      BY <3>2, <3>3
  <2>7. ASSUME NEW d \in Conns, NEW i \in DOMAIN wire'[d]
        PROVE  wire'[d][i].on = d \/ Stray(wire'[d][i], flushed')
    <3>1. \A j \in DOMAIN wire[d] : wire[d][j].on = d \/ Stray(wire[d][j], flushed)
      BY DEF WritersAreOwned
    <3>2. CASE d # c
      BY <2>1, <2>3, <2>7, <3>1, <3>2 DEF TypeOK
    <3>3. CASE d = c
      <4>1. wire[c] \in Seq(Tokens) /\ held[writer[c]] \in Seq(Tokens)
            /\ wire'[c] = wire[c] \o held[writer[c]]
        BY <2>1, <2>3 DEF TypeOK
      <4>2. \/ i \in DOMAIN wire[c] /\ wire'[c][i] = wire[c][i]
            \/ \E j \in DOMAIN held[writer[c]] : wire'[c][i] = held[writer[c]][j]
        <5> DEFINE s == wire[c]
                   t == held[writer[c]]
        <5>1. s \in Seq(Tokens) /\ t \in Seq(Tokens) /\ i \in DOMAIN (s \o t)
          BY <2>7, <3>3, <4>1
        <5> HIDE DEF s, t
        <5>2. \/ i \in DOMAIN s /\ (s \o t)[i] = s[i]
              \/ \E j \in DOMAIN t : (s \o t)[i] = t[j]
          BY <5>1, ConcatElement
        <5>3. QED
          BY <4>1, <5>2, Zenon DEF s, t
      <4>3. QED
        BY <2>1, <2>2, <3>1, <3>3, <4>2
    <3>4. QED
      BY <3>2, <3>3
  <2>8. QED
    BY <2>5, <2>6, <2>7 DEF WritersAreOwned
<1>11. ASSUME NEW c \in Conns, SendFails(c) PROVE WritersAreOwned'
  <2>1. writer[c] \in Writers /\ held' = [held EXCEPT ![writer[c]] = <<>>]
        /\ UNCHANGED <<request, writer, pool, target, wire, flushed>>
    BY <1>11 DEF SendFails, TypeOK
  <2>2. Adds(<<>>, held[writer[c]], c)
    BY DEF Adds
  <2>3. QED
    BY <2>1, <2>2, OwnedWrites
<1>12. ASSUME NEW c \in Conns, PutBack(c) PROVE WritersAreOwned'
  <2>1. /\ writer[c] \in Writers /\ held' = [held EXCEPT ![writer[c]] = <<>>]
        /\ pool' = pool \cup {writer[c]} /\ target' = [target EXCEPT ![writer[c]] = NoConn]
        /\ writer' = [writer EXCEPT ![c] = NoWriter] /\ UNCHANGED <<request, wire, flushed>>
    BY <1>12 DEF PutBack, TypeOK
  <2>2. /\ writer'[c] = NoWriter /\ \A d \in Conns \ {c} : writer'[d] = writer[d]
        /\ target'[writer[c]] = NoConn /\ held'[writer[c]] = <<>>
        /\ \A v \in Writers \ {writer[c]} : target'[v] = target[v] /\ held'[v] = held[v]
    BY <2>1 DEF TypeOK
  <2>3. ASSUME NEW v \in pool'
        PROVE  target'[v] = NoConn /\ \A i \in DOMAIN held'[v] : Stray(held'[v][i], flushed')
    BY <2>1, <2>2 DEF WritersAreOwned, TypeOK
  <2>4. ASSUME NEW e \in Conns, writer'[e] # NoWriter
        PROVE  /\ writer'[e] \notin pool' /\ target'[writer'[e]] = e
               /\ \A d \in Conns \ {e} : writer'[d] # writer'[e]
               /\ \A i \in DOMAIN held'[writer'[e]] :
                    LET t == held'[writer'[e]][i]
                    IN  (t.on = e /\ t.of = request'[e]) \/ Stray(t, flushed')
    <3>1. e # c /\ writer'[e] = writer[e] /\ writer[e] \in Writers
      BY <2>2, <2>4 DEF TypeOK
    <3>2. writer[e] # writer[c]
      BY <2>1, <2>4, <3>1 DEF WritersAreOwned
    <3>3. QED
      BY <2>1, <2>2, <2>4, <3>1, <3>2 DEF WritersAreOwned
  <2>5. \A d \in Conns : \A i \in DOMAIN wire'[d] : wire'[d][i].on = d \/ Stray(wire'[d][i], flushed')
    BY <2>1 DEF WritersAreOwned
  <2>6. QED
    BY <2>3, <2>4, <2>5 DEF WritersAreOwned
<1>13. ASSUME NEW c \in Conns, HandlerSetsHeader(c) PROVE WritersAreOwned'
  BY <1>13, OwnedStill DEF HandlerSetsHeader
<1>14. ASSUME NEW c \in Conns, HandlerWrites(c) PROVE WritersAreOwned'
  <2> DEFINE w == DestNow(c)
  <2>1. /\ pc[c] = "serve" /\ w # NoWriter
        /\ UNCHANGED <<request, writer, pool, target, wire, flushed>>
    BY <1>14 DEF HandlerWrites
  <2>2. w \in Writers /\ (w = writer[c] \/ <<c, request[c]>> \in flushed)
    BY <2>1, Destination
  <2>3. PICK s \in {held[w] \o HeadNow(c), held[w] \o HeadNow(c) \o <<Token("piece", c)>>} :
          held' = [held EXCEPT ![w] = s]
    BY <1>14, <2>2 DEF HandlerWrites
  <2>4. Adds(s, held[w], c)
    <3>1. held[w] \in Seq(Tokens) /\ Adds(held[w], held[w], c)
      BY <2>2 DEF TypeOK, Adds
    <3>2. /\ held[w] \o HeadNow(c) \in Seq(Tokens) /\ <<Token("piece", c)>> \in Seq(Tokens)
          /\ Adds(held[w] \o HeadNow(c), held[w], c)
      BY <3>1, TokenType, ConcatType, WritesOfResponse, AddsMore
    <3>3. Adds(held[w] \o HeadNow(c) \o <<Token("piece", c)>>, held[w], c)
      BY <3>1, <3>2, WritesOfResponse, AddsMore
    <3>4. QED
      BY <3>2, <3>3
  <2> HIDE DEF w
  <2>5. QED
    BY <2>1, <2>2, <2>3, <2>4, OwnedWrites
<1>15. ASSUME NEW c \in Conns, HandlerFlushes(c) PROVE WritersAreOwned'
  BY <1>15, OwnedStill DEF HandlerFlushes
<1>16. ASSUME NEW c \in Conns, HandlerEnds(c) PROVE WritersAreOwned'
  BY <1>16, OwnedStill DEF HandlerEnds
<1>17. CASE UNCHANGED vars
  BY <1>17, OwnedStill DEF vars
<1>18. QED
  <2> HIDE DEF vars
  <2> QED
    BY <1>1, <1>2, <1>3, <1>4, <1>5, <1>6, <1>7, <1>9, <1>10, <1>11, <1>12, <1>13,
       <1>14, <1>15, <1>16, <1>17
    DEF Next, LoopStep, Done

\* Whatever handlers do, responses share no bufio.Writer, and nothing of one gets
\* into another but what a handler writes after it called Flush in a chunked
\* response (response_writer.go, NewResponseWriter and Close).
THEOREM WritersAreOwnedHolds == Spec => []WritersAreOwned
<1>1. Init => TypeOK /\ ChunksInv /\ WritersAreOwned
  BY InitType, InitChunks, InitOwned
<1>2. TypeOK /\ ChunksInv /\ WritersAreOwned /\ [Next]_vars
        => (TypeOK /\ ChunksInv /\ WritersAreOwned)'
  BY TypeStep, ChunksStep, OwnedStep
<1>3. QED
  BY <1>1, <1>2, PTL DEF Spec

-----------------------------------------------------------------------------
(* As long as no handler has called Flush in a chunked response, nothing is  *)
(* shared at all.  The theorems that follow assume orderly handlers.         *)

\* The response writer of a connection: it has a bufio.Writer while it has
\* not written its header or not been flushed, and its chunk writer, which a
\* chunked response has once the header is written, writes to the same one.
WriterOf(c) ==
  /\ pc[c] \notin Active => writer[c] = NoWriter
  /\ pc[c] \in {"loop", "read", "done"} =>
       header[c] = Plain /\ ~wroteHeader[c] /\ pieces[c] = 0
  /\ chunkWriter[c] # NoWriter <=> header[c] = Chunked /\ wroteHeader[c]
  /\ pc[c] \in Active /\ chunkWriter[c] # NoWriter => chunkWriter[c] = writer[c]
  /\ pc[c] = "send" \/ (pc[c] \in Active /\ ~wroteHeader[c]) => writer[c] # NoWriter
  /\ pc[c] \in {"send", "replied"} => wroteHeader[c]
  /\ pc[c] \in {"flush", "send"} /\ after[c] = "serve" => header[c] # Chunked

WriterInv == \A c \in Conns : WriterOf(c)

\* There is no response writer at first.
LEMMA InitWriter == Init => WriterInv
BY DEF Init, WriterInv, WriterOf, Active, Plain

\* A step keeps WriterInv unless a handler calls Flush in a chunked response.
LEMMA WriterStep ==
  Orderly /\ TypeOK /\ WriterInv /\ [Next]_vars /\ flushed' = {} => WriterInv'
<1> SUFFICES ASSUME Orderly, TypeOK, WriterInv, [Next]_vars, flushed' = {} PROVE WriterInv'
  OBVIOUS
<1> USE ConstantsAssumption
    DEF TypeOK, WriterInv, WriterOf, Active, clientVars, loopVars, writerVars, poolVars, Goto,
        Labels, Plain, Chunked
<1>1. ASSUME NEW c \in Conns, ClientSend(c) PROVE WriterInv'
  BY <1>1 DEF ClientSend
<1>2. ASSUME NEW c \in Conns, ClientRead(c) PROVE WriterInv'
  BY <1>2 DEF ClientRead
<1>3. ASSUME NEW c \in Conns, Break(c) PROVE WriterInv'
  BY <1>3 DEF Break
<1>4. ASSUME NEW c \in Conns, BeginRead(c) PROVE WriterInv'
  BY <1>4 DEF BeginRead
<1>5. ASSUME NEW c \in Conns, ReadRequest(c) PROVE WriterInv'
  BY <1>5, SMTT(20) DEF ReadRequest
<1>6. ASSUME NEW c \in Conns, ReadFails(c) PROVE WriterInv'
  BY <1>6 DEF ReadFails
<1>7. ASSUME NEW c \in Conns, AfterRequest(c) PROVE WriterInv'
  BY <1>7, SMTT(20) DEF AfterRequest, Forget
<1>8. ASSUME NEW c \in Conns, HandleException(c) PROVE WriterInv'
  BY <1>8 DEF HandleException, Forget
<1>9. ASSUME NEW c \in Conns, BeginFlush(c) PROVE WriterInv'
  <2>1. \A d \in Conns \ {c} :
          /\ pc'[d] = pc[d] /\ after'[d] = after[d] /\ writer'[d] = writer[d]
          /\ header'[d] = header[d] /\ wroteHeader'[d] = wroteHeader[d]
          /\ chunkWriter'[d] = chunkWriter[d] /\ pieces'[d] = pieces[d]
    BY <1>9 DEF BeginFlush
  <2>2. /\ pc[c] = "flush" /\ writer'[c] = writer[c] /\ header'[c] = header[c]
        /\ wroteHeader'[c] = TRUE /\ chunkWriter'[c] = ChunkWriterNow(c)
    BY <1>9 DEF BeginFlush
  <2>3. \/ writer[c] # NoWriter /\ pc'[c] = "send" /\ after'[c] = after[c]
        \/ writer[c] = NoWriter /\ pc'[c] \in {"flush", "exception"} /\ after'[c] = "exception"
    BY <1>9 DEF BeginFlush
  <2>4. ASSUME NEW d \in Conns \ {c} PROVE WriterOf(d)'
    <3>1. WriterOf(d)
      OBVIOUS
    <3>2. QED
      BY <2>1, <3>1
  <2>5. WriterOf(c)'
    <3>1. WriterOf(c) /\ pc[c] \in Active
      BY <2>2
    <3>2. ChunkWriterNow(c) # NoWriter <=> header[c] = Chunked
      BY <2>2, <3>1 DEF ChunkWriterNow
    <3>3. ChunkWriterNow(c) # NoWriter => ChunkWriterNow(c) = writer[c]
      BY <2>2, <3>1 DEF ChunkWriterNow
    <3>4. QED
      BY <2>2, <2>3, <3>1, <3>2, <3>3
  <2>6. QED
    BY <2>4, <2>5
<1>10. ASSUME NEW c \in Conns, Send(c) PROVE WriterInv'
  BY <1>10 DEF Send
<1>11. ASSUME NEW c \in Conns, SendFails(c) PROVE WriterInv'
  BY <1>11 DEF SendFails
<1>12. ASSUME NEW c \in Conns, PutBack(c) PROVE WriterInv'
  BY <1>12 DEF PutBack
<1>13. ASSUME NEW c \in Conns, HandlerSetsHeader(c) PROVE WriterInv'
  BY <1>13, SMTT(20) DEF HandlerSetsHeader
<1>14. ASSUME NEW c \in Conns, HandlerWrites(c) PROVE WriterInv'
  BY <1>14, SMTT(20) DEF HandlerWrites, ChunkWriterNow
<1>15. ASSUME NEW c \in Conns, HandlerFlushes(c) PROVE WriterInv'
  <2>1. pc[c] = "serve" /\ ChunkWriterNow(c) = NoWriter
    BY <1>15 DEF HandlerFlushes
  <2>2. header[c] # Chunked
    BY <2>1 DEF ChunkWriterNow
  <2>3. QED
    BY <1>15, <2>2 DEF HandlerFlushes
<1>16. ASSUME NEW c \in Conns, HandlerEnds(c) PROVE WriterInv'
  BY <1>16, SMTT(20) DEF HandlerEnds
<1>17. CASE UNCHANGED vars
  BY <1>17 DEF vars
<1>18. QED
  <2> HIDE DEF TypeOK, WriterInv, vars
  <2> QED
    BY <1>1, <1>2, <1>3, <1>4, <1>5, <1>6, <1>7, <1>8, <1>9, <1>10, <1>11, <1>12, <1>13,
       <1>14, <1>15, <1>16, <1>17
    DEF Next, LoopStep, Done

\* What a connection writes to a bufio.Writer goes to the one of its response
\* writer.
LEMMA OwnWriter ==
  ASSUME TypeOK, WriterInv, NEW c \in Conns, pc[c] \in {"serve", "flush"}
  PROVE  /\ DestNow(c) = writer[c]
         /\ ChunkWriterNow(c) # NoWriter => writer[c] \in Writers
BY ConstantsAssumption DEF TypeOK, WriterInv, WriterOf, Active, DestNow, ChunkWriterNow

\* No two responses share a bufio.Writer, none that is in use is in the pool,
\* one in the pool holds nothing and writes to nobody, and one in use holds only
\* what belongs to its response.
OnlyOwn ==
  /\ \A w \in pool : held[w] = <<>> /\ target[w] = NoConn
  /\ \A c \in Conns : writer[c] # NoWriter =>
       /\ writer[c] \notin pool /\ target[writer[c]] = c
       /\ \A d \in Conns \ {c} : writer[d] # writer[c]
       /\ \A i \in DOMAIN held[writer[c]] :
            held[writer[c]][i].on = c /\ held[writer[c]][i].of = request[c]

\* flushed only grows.
LEMMA FlushedStays == [Next]_vars => flushed \subseteq flushed'
<1> SUFFICES ASSUME [Next]_vars PROVE flushed \subseteq flushed'
  OBVIOUS
<1>1. ASSUME NEW c \in Conns,
             \/ ClientSend(c) \/ ClientRead(c) \/ Break(c) \/ LoopStep(c)
             \/ HandlerSetsHeader(c) \/ HandlerWrites(c) \/ HandlerFlushes(c) \/ HandlerEnds(c)
      PROVE  flushed \subseteq flushed'
  BY <1>1 DEF ClientSend, ClientRead, Break, LoopStep, BeginRead, ReadRequest, ReadFails,
              AfterRequest, HandleException, BeginFlush, Send, SendFails, PutBack,
              HandlerSetsHeader, HandlerWrites, HandlerFlushes, HandlerEnds
<1>2. CASE UNCHANGED vars
  BY <1>2 DEF vars
<1>3. QED
  BY <1>1, <1>2 DEF Next, Done

\* While it is empty nothing is stray.
LEMMA Unshared == TypeOK /\ WritersAreOwned /\ flushed = {} => OnlyOwn
<1> SUFFICES ASSUME TypeOK, WritersAreOwned, flushed = {} PROVE OnlyOwn
  OBVIOUS
<1>1. \A t : ~Stray(t, flushed)
  BY DEF Stray
<1>2. ASSUME NEW w \in pool PROVE held[w] = <<>> /\ target[w] = NoConn
  <2>1. held[w] \in Seq(Tokens) /\ DOMAIN held[w] = {}
    BY <1>1 DEF TypeOK, WritersAreOwned
  <2>2. QED
    BY <2>1 DEF WritersAreOwned
<1>3. QED
  BY <1>1, <1>2 DEF WritersAreOwned, OnlyOwn

\* What the theorems below rest on.
Unmixed == flushed = {} => WriterInv /\ OnlyOwn

LEMMA OrderlyInvariant == Orderly => (Spec => [](TypeOK /\ Unmixed))
<1> SUFFICES ASSUME Orderly PROVE Spec => [](TypeOK /\ Unmixed)
  OBVIOUS
<1>1. Init => (flushed = {} => WriterInv)
  BY InitWriter
<1>2. TypeOK /\ (flushed = {} => WriterInv) /\ [Next]_vars => (flushed = {} => WriterInv)'
  BY WriterStep, FlushedStays
<1>3. TypeOK /\ WritersAreOwned /\ (flushed = {} => WriterInv) => Unmixed
  BY Unshared DEF Unmixed
<1>4. QED
  BY <1>1, <1>2, <1>3, TypeInvariant, WritersAreOwnedHolds, PTL DEF Spec

-----------------------------------------------------------------------------
(* The order of the responses, and what the client of a waiting server got. *)

\* What a connection has written: sent, or in its bufio.Writer.
Flow(c) == IF writer[c] = NoWriter THEN wire[c] ELSE wire[c] \o held[writer[c]]

\* s ends with the end of response r.
Complete(s, r) ==
  IF r = 0 THEN s = <<>> ELSE \E i \in DOMAIN s : Ends(s, i, Len(s)) /\ s[i].of = r

\* s ends with the head of response r, and n pieces of its body.
Body(s, r, h, n) ==
  \E i \in DOMAIN s :
    /\ s[i].part = "head" /\ s[i].of = r /\ s[i].header = h
    /\ Len(s) = i + n /\ s[Len(s)].of = r /\ s[Len(s)].part # "end"

\* s is in order, and what it says of the length of a response is one thing.
Written(s, c) ==
  InOrder(s, c) /\ \A i, j \in DOMAIN s : s[i].of = s[j].of => s[i].header = s[j].header

\* A client finds response k in s, from its head to its end.
Answered(s, k) == \E i, j \in DOMAIN s : s[i].of = k /\ Ends(s, i, j)

\* What the place of the read loop says of what the connection has written.
Status(c) ==
  LET s == Flow(c)
      r == request[c] IN
  /\ Written(s, c)
  /\ \A k \in 1 .. r : k < r \/ pc[c] = "read" => Answered(s, k)
  /\ pc[c] # "done"
  /\ pc[c] = "loop" => s = <<>> /\ r = 0 /\ ahead[c] = 0
  /\ pc[c] = "read" => Complete(s, r)
  /\ pc[c] \in Active \cup {"replied"} => r > 0
  /\ pc[c] \in {"serve", "flush"} =>
       IF wroteHeader[c] THEN Body(s, r, header[c], pieces[c])
       ELSE Complete(s, r - 1) /\ pieces[c] = 0
  /\ pc[c] \in {"send", "replied"} =>
       IF header[c] = Chunked THEN Complete(s, r) ELSE Body(s, r, header[c], pieces[c])
  /\ pc[c] = "replied" \/ (pc[c] \in {"flush", "send"} /\ after[c] = "replied") =>
       (header[c].framing = "length" => pieces[c] = header[c].size)
  /\ pc[c] = "replied" /\ header[c] = Plain => close[c]

\* Nothing more is sent on a closed connection.
FlowInv ==
  \A c \in Conns : IF link[c] = "open" THEN Status(c) ELSE Written(wire[c], c)

\* What is appended to a sequence of tokens leaves its tokens.
LEMMA AppendKeeps ==
  ASSUME NEW s \in Seq(Tokens), NEW t \in Tokens
  PROVE  /\ s \o <<t>> \in Seq(Tokens) /\ Len(s \o <<t>>) = Len(s) + 1
         /\ (s \o <<t>>)[Len(s) + 1] = t
         /\ \A i \in 1 .. Len(s) : (s \o <<t>>)[i] = s[i]
OBVIOUS

\* So does a sequence of them.
LEMMA ConcatKeeps ==
  ASSUME NEW s \in Seq(Tokens), NEW t \in Seq(Tokens)
  PROVE  /\ s \o t \in Seq(Tokens) /\ Len(s \o t) = Len(s) + Len(t)
         /\ \A i \in 1 .. Len(s) : (s \o t)[i] = s[i]
         /\ \A i \in DOMAIN (s \o t) :
              i \in 1 .. Len(s) \/ (i - Len(s) \in DOMAIN t /\ (s \o t)[i] = t[i - Len(s)])
<1>1. s \o t \in Seq(Tokens) /\ Len(s \o t) = Len(s) + Len(t)
  OBVIOUS
<1>2. \A i \in 1 .. Len(s) : (s \o t)[i] = s[i]
  OBVIOUS
<1>3. ASSUME NEW i \in DOMAIN (s \o t), i \notin 1 .. Len(s)
      PROVE  i - Len(s) \in DOMAIN t /\ (s \o t)[i] = t[i - Len(s)]
  <2>1. Len(s) \in Nat /\ Len(t) \in Nat /\ DOMAIN t = 1 .. Len(t)
    OBVIOUS
  <2>2. i \in 1 .. Len(s) + Len(t)
    BY <1>1
  <2>3. i - Len(s) \in 1 .. Len(t)
    BY <1>3, <2>1, <2>2
  <2>4. QED
    BY <1>3, <2>1, <2>2, <2>3
<1>4. QED
  BY <1>1, <1>2, <1>3

\* What a client can find in s is still there when s is continued.
LEMMA AppendAnswers ==
  ASSUME NEW s \in Seq(Tokens), NEW t \in Tokens, NEW k, Answered(s, k)
  PROVE  Answered(s \o <<t>>, k)
<1> DEFINE u == s \o <<t>>
<1>1. PICK i \in DOMAIN s, j \in DOMAIN s : s[i].of = k /\ Ends(s, i, j)
  BY DEF Answered
<1>2. /\ i \in DOMAIN u /\ j \in DOMAIN u /\ u[i] = s[i] /\ u[j] = s[j]
      /\ Len(u) = Len(s) + 1
  BY AppendKeeps
<1> HIDE DEF u
<1>3. Ends(u, i, j)
  BY <1>1, <1>2 DEF Ends
<1>4. Answered(u, k)
  BY <1>1, <1>2, <1>3 DEF Answered
<1>5. QED
  BY <1>4 DEF u

\* A token that may come next keeps the order.
LEMMA AppendInOrder ==
  ASSUME NEW s \in Seq(Tokens), NEW t \in Tokens, NEW c, InOrder(s, c), t.on = c,
         t.part = "head" => t.of > 0 /\ Complete(s, t.of - 1),
         t.part # "head" => s # <<>> /\ t.of = s[Len(s)].of /\ s[Len(s)].part # "end"
  PROVE  InOrder(s \o <<t>>, c)
<1> DEFINE u == s \o <<t>>
           n == Len(s)
<1>1. u \in Seq(Tokens) /\ Len(u) = n + 1 /\ u[n + 1] = t
      /\ (\A i \in 1 .. n : u[i] = s[i]) /\ n \in Nat /\ DOMAIN u = 1 .. n + 1 /\ DOMAIN s = 1 .. n
  BY AppendKeeps
<1>2. \A i \in 1 .. n : \A j \in 1 .. n : Ends(u, i, j) <=> Ends(s, i, j)
  <2> HIDE DEF u, n
  <2>1. n = Len(s)
    BY DEF n
  <2>2. QED
    BY <1>1, <2>1 DEF Ends
<1>3. t.of \in Nat
  BY DEF Tokens
<1> HIDE DEF u, n
<1>4. ASSUME NEW j \in DOMAIN u
      PROVE  /\ u[j].on = c
             /\ u[j].part = "head" =>
                  IF j = 1 THEN u[j].of = 1
                  ELSE \E i \in 1 .. j - 1 : Ends(u, i, j - 1) /\ u[j].of = u[i].of + 1
             /\ u[j].part # "head" => j > 1 /\ u[j].of = u[j - 1].of /\ u[j - 1].part # "end"
  <2>1. CASE j \in 1 .. n
    <3>1. /\ s[j].on = c
          /\ s[j].part = "head" =>
               IF j = 1 THEN s[j].of = 1
               ELSE \E i \in 1 .. j - 1 : Ends(s, i, j - 1) /\ s[j].of = s[i].of + 1
          /\ s[j].part # "head" => j > 1 /\ s[j].of = s[j - 1].of /\ s[j - 1].part # "end"
      BY <1>1, <2>1 DEF InOrder
    <3>2. u[j] = s[j] /\ \A i \in 1 .. j - 1 : u[i] = s[i] /\ i \in 1 .. n
      BY <1>1, <2>1
    <3>3. CASE u[j].part = "head"
      <4>1. CASE j = 1
        BY <3>1, <3>2, <3>3, <4>1
      <4>2. CASE j # 1
        <5>1. PICK i \in 1 .. j - 1 : Ends(s, i, j - 1) /\ s[j].of = s[i].of + 1
          BY <3>1, <3>2, <3>3, <4>2
        <5>2. j - 1 \in 1 .. n /\ i \in 1 .. n
          BY <1>1, <2>1, <4>2, <3>2
        <5>3. Ends(u, i, j - 1) /\ u[j].of = u[i].of + 1
          BY <1>2, <3>2, <5>1, <5>2
        <5>4. QED
          BY <3>1, <3>2, <3>3, <4>2, <5>3
      <4>3. QED
        BY <4>1, <4>2
    <3>4. CASE u[j].part # "head"
      <4>1. j > 1 /\ j - 1 \in 1 .. j - 1
        BY <1>1, <2>1, <3>1, <3>2, <3>4
      <4>2. QED
        BY <3>1, <3>2, <3>4, <4>1
    <3>5. QED
      BY <3>3, <3>4
  <2>2. CASE j = n + 1
    <3>1. u[j] = t /\ j - 1 = n
      BY <1>1, <2>2
    <3>2. CASE t.part = "head"
      <4>1. CASE t.of = 1
        <5>1. s = <<>>
          BY <3>2, <4>1 DEF Complete
        <5>2. j = 1
          BY <2>2, <5>1 DEF n
        <5>3. QED
          BY <3>1, <3>2, <4>1, <5>2
      <4>2. CASE t.of # 1
        <5>1. PICK i \in DOMAIN s : Ends(s, i, Len(s)) /\ s[i].of = t.of - 1
          BY <1>3, <3>2, <4>2 DEF Complete
        <5>2. i \in 1 .. n /\ n \in 1 .. n /\ Ends(s, i, n) /\ j # 1
          BY <1>1, <2>2, <5>1 DEF n
        <5>3. Ends(u, i, j - 1) /\ u[j].of = u[i].of + 1 /\ i \in 1 .. j - 1
          BY <1>1, <1>2, <1>3, <3>1, <5>1, <5>2
        <5>4. QED
          BY <3>1, <3>2, <5>2, <5>3
      <4>3. QED
        BY <4>1, <4>2
    <3>3. CASE t.part # "head"
      <4>1. n > 0 /\ n = Len(s)
        BY <1>1, <3>3 DEF n
      <4>2. u[n] = s[Len(s)] /\ n \in 1 .. n
        BY <1>1, <4>1
      <4>3. QED
        BY <1>1, <2>2, <3>1, <3>3, <4>1, <4>2
    <3>4. QED
      BY <3>2, <3>3
  <2>3. QED
    BY <1>1, <2>1, <2>2
<1>5. QED
  BY <1>4 DEF InOrder, u

\* A set of numbers that has one has a smallest.
LEMMA NatMin ==
  ASSUME NEW T \in SUBSET Nat, T # {}
  PROVE  \E x \in T : \A y \in T : ~(y < x)
<1> DEFINE R == {ss \in Nat \X Nat : ss[1] < ss[2]}
<1>1. IsWellFoundedOn(R, Nat)
  BY NatLessThanWellFounded DEF OpToRel
<1>2. PICK x \in T : \A y \in T : ~(<<y, x>> \in R)
  BY <1>1, WFMin
<1>3. QED
  BY <1>2

\* The responses of tokens are numbers.
LEMMA OfType ==
  ASSUME NEW s \in Seq(Tokens)
  PROVE  \A i \in DOMAIN s : s[i] \in Tokens /\ s[i].of \in Nat
<1>1. \A i \in DOMAIN s : s[i] \in Tokens
  OBVIOUS
<1>2. \A t \in Tokens : t.of \in Nat
  BY DEF Tokens
<1>3. QED
  BY <1>1, <1>2

\* In an ordered sequence the next token is of the same response, or is the
\* head of the next one.
LEMMA NextOf ==
  ASSUME NEW s \in Seq(Tokens), NEW c, InOrder(s, c), NEW j \in DOMAIN s
  PROVE  /\ j = 1 => s[j].of = 1
         /\ j > 1 => s[j].of = s[j - 1].of + (IF s[j].part = "head" THEN 1 ELSE 0)
<1>1. \A i \in DOMAIN s : s[i].of \in Nat
  BY OfType
<1>2. CASE s[j].part = "head" /\ j # 1
  <2>1. PICK i \in 1 .. j - 1 : Ends(s, i, j - 1) /\ s[j].of = s[i].of + 1
    BY <1>2 DEF InOrder
  <2>2. s[j - 1].of = s[i].of
    BY <2>1 DEF Ends
  <2>3. QED
    BY <1>2, <2>1, <2>2
<1>3. CASE s[j].part = "head" /\ j = 1
  BY <1>3 DEF InOrder
<1>4. CASE s[j].part # "head"
  <2>1. j > 1 /\ s[j].of = s[j - 1].of /\ j - 1 \in DOMAIN s
    BY <1>4 DEF InOrder
  <2>2. QED
    BY <1>1, <1>4, <2>1
<1>5. QED
  BY <1>2, <1>3, <1>4

\* So no response comes after a later one, and a head after all before it.
LEMMA OfGrows ==
  ASSUME NEW s \in Seq(Tokens), NEW c, InOrder(s, c)
  PROVE  /\ \A j \in DOMAIN s : s[j].of \in Nat /\ s[j].of > 0
         /\ \A i, j \in DOMAIN s :
              i < j => s[i].of <= s[j].of /\ (s[j].part = "head" => s[i].of < s[j].of)
<1> DEFINE Good(j) == /\ s[j].of > 0
                      /\ \A i \in DOMAIN s : i < j =>
                           s[i].of <= s[j].of /\ (s[j].part = "head" => s[i].of < s[j].of)
           Bad == {j \in DOMAIN s : ~Good(j)}
<1>1. DOMAIN s = 1 .. Len(s) /\ Len(s) \in Nat /\ \A i \in DOMAIN s : s[i].of \in Nat
  BY OfType
<1>2. ASSUME NEW j \in DOMAIN s, \A k \in DOMAIN s : k < j => Good(k) PROVE Good(j)
  <2>1. CASE j = 1
    BY <1>1, <2>1, NextOf
  <2>2. CASE j # 1
    <3>1. j - 1 \in DOMAIN s /\ j > 1 /\ j - 1 < j
      BY <1>1, <2>2
    <3>2. Good(j - 1)
      BY <1>2, <3>1
    <3>3. s[j].of = s[j - 1].of + (IF s[j].part = "head" THEN 1 ELSE 0)
      BY <3>1, NextOf
    <3>4. ASSUME NEW i \in DOMAIN s, i < j
          PROVE  s[i].of <= s[j].of /\ (s[j].part = "head" => s[i].of < s[j].of)
      <4>1. s[i].of <= s[j - 1].of
        BY <1>1, <3>1, <3>2, <3>4
      <4>2. QED
        BY <1>1, <3>1, <3>3, <4>1
    <3>5. s[j].of > 0
      BY <1>1, <3>1, <3>2, <3>3
    <3>6. QED
      BY <3>4, <3>5
  <2>3. QED
    BY <2>1, <2>2
<1>3. Bad = {}
  <2> HIDE DEF Good
  <2>1. SUFFICES ASSUME Bad # {} PROVE FALSE
    OBVIOUS
  <2>2. Bad \in SUBSET Nat
    BY <1>1
  <2>3. PICK j \in Bad : \A k \in Bad : ~(k < j)
    BY <2>1, <2>2, NatMin
  <2>4. j \in DOMAIN s /\ \A k \in DOMAIN s : k < j => Good(k)
    BY <2>3
  <2>5. QED
    BY <1>2, <2>3, <2>4
<1>4. QED
  BY <1>1, <1>3

\* A token keeps Written if it keeps the order and says of the length of its
\* response what those before it say.
LEMMA AppendWritten ==
  ASSUME NEW s \in Seq(Tokens), NEW t \in Tokens, NEW c, Written(s, c),
         InOrder(s \o <<t>>, c), \A i \in DOMAIN s : s[i].of = t.of => s[i].header = t.header
  PROVE  Written(s \o <<t>>, c)
<1> DEFINE u == s \o <<t>>
           n == Len(s)
<1>1. /\ u[n + 1] = t /\ (\A i \in 1 .. n : u[i] = s[i]) /\ n \in Nat
      /\ DOMAIN s = 1 .. n /\ DOMAIN u = 1 .. n + 1
  <2>1. u \in Seq(Tokens) /\ Len(u) = n + 1
    BY AppendKeeps
  <2>2. QED
    BY <2>1, AppendKeeps
<1>2. InOrder(u, c)
  OBVIOUS
<1> HIDE DEF u, n
<1>3. \A i \in 1 .. n : \A j \in 1 .. n : u[i].of = u[j].of => u[i].header = u[j].header
  BY <1>1 DEF Written
<1>4. \A i \in 1 .. n : u[i].of = t.of => u[i].header = t.header
  BY <1>1
<1>5. \A i \in 1 .. n + 1 : i \in 1 .. n \/ i = n + 1
  BY <1>1
<1>6. ASSUME NEW i \in DOMAIN u, NEW j \in DOMAIN u, u[i].of = u[j].of
      PROVE  u[i].header = u[j].header
  <2>1. i \in 1 .. n \/ u[i] = t
    BY <1>1, <1>5
  <2>2. j \in 1 .. n \/ u[j] = t
    BY <1>1, <1>5
  <2>3. QED
    BY <1>3, <1>4, <1>6, <2>1, <2>2
<1>7. QED
  BY <1>2, <1>6 DEF Written, u

\* Concatenation is associative, and the empty sequence changes nothing.
LEMMA ConcatFacts ==
  ASSUME NEW s \in Seq(Tokens), NEW t \in Seq(Tokens), NEW u \in Seq(Tokens)
  PROVE  (s \o t) \o u = s \o (t \o u) /\ s \o <<>> = s
OBVIOUS

\* A beginning of an ordered sequence is ordered.
LEMMA PrefixInOrder ==
  ASSUME NEW s \in Seq(Tokens), NEW t \in Seq(Tokens), NEW c, InOrder(s \o t, c)
  PROVE  InOrder(s, c)
<1> DEFINE u == s \o t
<1>1. /\ \A i \in 1 .. Len(s) : u[i] = s[i] /\ i \in DOMAIN u
      /\ Len(u) \in Nat /\ Len(s) <= Len(u) /\ DOMAIN s = 1 .. Len(s) /\ Len(s) \in Nat
  OBVIOUS
<1> HIDE DEF u
<1>2. \A i \in 1 .. Len(s) : \A j \in 1 .. Len(s) : Ends(u, i, j) => Ends(s, i, j)
  BY <1>1 DEF Ends
<1>3. InOrder(u, c)
  BY DEF u
<1>4. ASSUME NEW j \in DOMAIN s
      PROVE  /\ s[j].on = c
             /\ s[j].part = "head" =>
                  IF j = 1 THEN s[j].of = 1
                  ELSE \E i \in 1 .. j - 1 : Ends(s, i, j - 1) /\ s[j].of = s[i].of + 1
             /\ s[j].part # "head" => j > 1 /\ s[j].of = s[j - 1].of /\ s[j - 1].part # "end"
  <2>1. j \in DOMAIN u /\ u[j] = s[j] /\ j \in 1 .. Len(s)
    BY <1>1
  <2>2. /\ u[j].on = c
        /\ u[j].part = "head" =>
             IF j = 1 THEN u[j].of = 1
             ELSE \E i \in 1 .. j - 1 : Ends(u, i, j - 1) /\ u[j].of = u[i].of + 1
        /\ u[j].part # "head" => j > 1 /\ u[j].of = u[j - 1].of /\ u[j - 1].part # "end"
    BY <1>3, <2>1 DEF InOrder
  <2>3. CASE s[j].part = "head" /\ j # 1
    <3>1. PICK i \in 1 .. j - 1 : Ends(u, i, j - 1) /\ u[j].of = u[i].of + 1
      BY <2>1, <2>2, <2>3
    <3>2. i \in 1 .. Len(s) /\ j - 1 \in 1 .. Len(s)
      BY <1>1, <2>1, <2>3
    <3>3. Ends(s, i, j - 1) /\ s[j].of = s[i].of + 1
      BY <1>1, <1>2, <2>1, <3>1, <3>2
    <3>4. QED
      BY <2>1, <2>2, <2>3, <3>3
  <2>4. CASE s[j].part = "head" /\ j = 1
    BY <2>1, <2>2, <2>4
  <2>5. CASE s[j].part # "head"
    <3>1. j > 1 /\ j - 1 \in 1 .. Len(s)
      BY <1>1, <2>1, <2>2, <2>5
    <3>2. u[j - 1] = s[j - 1]
      BY <1>1, <3>1
    <3>3. QED
      BY <2>1, <2>2, <2>5, <3>1, <3>2
  <2>6. QED
    BY <2>3, <2>4, <2>5
<1>5. QED
  BY <1>4 DEF InOrder

\* So is one of what is Written.
LEMMA PrefixWritten ==
  ASSUME NEW s \in Seq(Tokens), NEW t \in Seq(Tokens), NEW c, Written(s \o t, c)
  PROVE  Written(s, c)
<1>1. InOrder(s, c)
  BY PrefixInOrder DEF Written
<1>2. ASSUME NEW i \in DOMAIN s, NEW j \in DOMAIN s, s[i].of = s[j].of
      PROVE  s[i].header = s[j].header
  <2> DEFINE u == s \o t
  <2>1. i \in DOMAIN u /\ j \in DOMAIN u /\ u[i] = s[i] /\ u[j] = s[j]
    OBVIOUS
  <2>2. Written(u, c)
    OBVIOUS
  <2> HIDE DEF u
  <2>3. QED
    BY <1>2, <2>1, <2>2 DEF Written
<1>3. QED
  BY <1>1, <1>2 DEF Written

\* So what is sent is as Written if what is written is.
LEMMA WireWritten ==
  ASSUME TypeOK, NEW c \in Conns, Written(Flow(c), c)
  PROVE  Written(wire[c], c)
<1>1. wire[c] \in Seq(Tokens) /\ (writer[c] # NoWriter => held[writer[c]] \in Seq(Tokens))
  BY DEF TypeOK
<1>2. QED
  BY <1>1, PrefixWritten DEF Flow

\* What a connection has written are tokens.
LEMMA FlowType == ASSUME TypeOK, NEW c \in Conns PROVE Flow(c) \in Seq(Tokens)
<1>1. wire[c] \in Seq(Tokens) /\ (writer[c] # NoWriter => held[writer[c]] \in Seq(Tokens))
  BY DEF TypeOK
<1>2. QED
  BY <1>1, ConcatType DEF Flow

\* A header, when it is to be written, comes at the end of the last response.
LEMMA HeadNext ==
  ASSUME TypeOK, NEW c \in Conns, NEW s \in Seq(Tokens), Written(s, c), request[c] > 0,
         IF wroteHeader[c] THEN Body(s, request[c], header[c], pieces[c])
         ELSE Complete(s, request[c] - 1) /\ pieces[c] = 0
  PROVE  /\ s \o HeadNow(c) \in Seq(Tokens) /\ Written(s \o HeadNow(c), c)
         /\ Body(s \o HeadNow(c), request[c], header[c], pieces[c])
         /\ \A k : Answered(s, k) => Answered(s \o HeadNow(c), k)
<1>1. CASE wroteHeader[c]
  BY <1>1 DEF HeadNow
<1>2. CASE ~wroteHeader[c]
  <2> DEFINE t == Token("head", c)
             u == s \o <<t>>
  <2>1. /\ t \in Tokens /\ t.part = "head" /\ t.of = request[c] /\ t.on = c
        /\ t.header = header[c] /\ HeadNow(c) = <<t>>
    BY <1>2, TokenType DEF Token, HeadNow
  <2> HIDE DEF t
  <2>2. u \in Seq(Tokens) /\ Len(u) = Len(s) + 1 /\ u[Len(s) + 1] = t /\ Len(s) \in Nat
    BY <2>1, AppendKeeps
  <2>3. Written(u, c)
    <3>1. InOrder(u, c) /\ InOrder(s, c)
      BY <1>2, <2>1, AppendInOrder DEF Written
    <3>2. ASSUME NEW i \in DOMAIN s PROVE s[i].of # t.of
      <4>1. request[c] \in Nat /\ s[i].of \in Nat /\ Len(s) \in DOMAIN s /\ i <= Len(s)
        BY OfType DEF TypeOK
      <4>2. s[i].of <= s[Len(s)].of
        BY <3>1, <4>1, OfGrows, OfType
      <4>3. s[Len(s)].of = request[c] - 1
        <5>1. s # <<>>
          BY <4>1
        <5>2. PICK k \in DOMAIN s : Ends(s, k, Len(s)) /\ s[k].of = request[c] - 1
          BY <1>2, <5>1 DEF Complete
        <5>3. QED
          BY <5>2 DEF Ends
      <4>4. QED
        BY <2>1, <4>1, <4>2, <4>3
    <3>3. QED
      BY <2>1, <3>1, <3>2, AppendWritten
  <2> HIDE DEF u
  <2>4. Len(u) \in DOMAIN u /\ u[Len(u)] = t
    BY <2>2
  <2>5. Body(u, request[c], header[c], pieces[c])
    BY <1>2, <2>1, <2>2, <2>4 DEF Body
  <2>6. \A k : Answered(s, k) => Answered(u, k)
    BY <2>1, AppendAnswers DEF u
  <2>7. QED
    BY <2>1, <2>2, <2>3, <2>5, <2>6 DEF u
<1>3. QED
  BY <1>1, <1>2

\* After a head a piece may come.
LEMMA PieceNext ==
  ASSUME TypeOK, NEW c \in Conns, NEW s \in Seq(Tokens), Written(s, c),
         NEW n \in Nat, Body(s, request[c], header[c], n)
  PROVE  /\ Written(s \o <<Token("piece", c)>>, c)
         /\ Body(s \o <<Token("piece", c)>>, request[c], header[c], n + 1)
         /\ \A k : Answered(s, k) => Answered(s \o <<Token("piece", c)>>, k)
<1> DEFINE t == Token("piece", c)
           u == s \o <<t>>
<1>1. /\ t \in Tokens /\ t.part = "piece" /\ t.of = request[c] /\ t.on = c
      /\ t.header = header[c]
  BY TokenType DEF Token
<1> HIDE DEF t
<1>2. /\ u \in Seq(Tokens) /\ Len(u) = Len(s) + 1 /\ u[Len(s) + 1] = t /\ Len(s) \in Nat
      /\ \A i \in 1 .. Len(s) : u[i] = s[i]
  BY <1>1, AppendKeeps
<1>3. PICK i \in DOMAIN s :
        /\ s[i].part = "head" /\ s[i].of = request[c] /\ s[i].header = header[c]
        /\ Len(s) = i + n /\ s[Len(s)].of = request[c] /\ s[Len(s)].part # "end"
  BY DEF Body
<1>4. Written(u, c)
  <2>1. InOrder(u, c)
    BY <1>1, <1>3, AppendInOrder DEF Written
  <2>2. \A k \in DOMAIN s : s[k].of = t.of => s[k].header = t.header
    BY <1>1, <1>3 DEF Written
  <2>3. QED
    BY <1>1, <2>1, <2>2, AppendWritten
<1> HIDE DEF u
<1>5. Body(u, request[c], header[c], n + 1)
  <2>1. i \in DOMAIN u /\ u[i] = s[i] /\ u[Len(u)] = t /\ Len(u) = i + (n + 1)
    BY <1>2, <1>3
  <2>2. QED
    BY <1>1, <1>3, <2>1 DEF Body
<1>6. \A k : Answered(s, k) => Answered(u, k)
  BY <1>1, AppendAnswers DEF u
<1>7. QED
  BY <1>4, <1>5, <1>6 DEF u, t

\* The end of a chunked body makes its response complete.
LEMMA EndNext ==
  ASSUME TypeOK, NEW c \in Conns, NEW s \in Seq(Tokens), Written(s, c), request[c] > 0,
         header[c] = Chunked, NEW n, Body(s, request[c], Chunked, n)
  PROVE  /\ Written(s \o <<Token("end", c)>>, c)
         /\ Complete(s \o <<Token("end", c)>>, request[c])
         /\ \A k : Answered(s, k) => Answered(s \o <<Token("end", c)>>, k)
<1> DEFINE t == Token("end", c)
           u == s \o <<t>>
<1>1. /\ t \in Tokens /\ t.part = "end" /\ t.of = request[c] /\ t.on = c
      /\ t.header = header[c]
  BY TokenType DEF Token
<1> HIDE DEF t
<1>2. /\ u \in Seq(Tokens) /\ Len(u) = Len(s) + 1 /\ u[Len(s) + 1] = t /\ Len(s) \in Nat
      /\ \A i \in 1 .. Len(s) : u[i] = s[i]
  BY <1>1, AppendKeeps
<1>3. PICK i \in DOMAIN s :
        /\ s[i].part = "head" /\ s[i].of = request[c] /\ s[i].header = Chunked
        /\ s[Len(s)].of = request[c] /\ s[Len(s)].part # "end"
  BY DEF Body
<1>4. Written(u, c)
  <2>1. InOrder(u, c)
    BY <1>1, <1>3, AppendInOrder DEF Written
  <2>2. \A k \in DOMAIN s : s[k].of = t.of => s[k].header = t.header
    BY <1>1, <1>3 DEF Written
  <2>3. QED
    BY <1>1, <2>1, <2>2, AppendWritten
<1> HIDE DEF u
<1>5. Complete(u, request[c])
  <2>1. i \in DOMAIN u /\ u[i] = s[i] /\ u[Len(u)] = t /\ Len(u) \in i .. Len(u)
    BY <1>2, <1>3
  <2>2. Ends(u, i, Len(u))
    BY <1>1, <1>3, <2>1 DEF Ends, Chunked
  <2>3. request[c] # 0
    BY DEF TypeOK
  <2>4. QED
    BY <1>3, <2>1, <2>2, <2>3 DEF Complete
<1>6. \A k : Answered(s, k) => Answered(u, k)
  BY <1>1, AppendAnswers DEF u
<1>7. QED
  BY <1>4, <1>5, <1>6 DEF u, t

\* So does the last piece of a body of known length.
LEMMA BodyCompletes ==
  ASSUME NEW s \in Seq(Tokens), NEW r, r # 0, NEW h, NEW n \in Nat, Body(s, r, h, n),
         h.framing = "length", n = h.size
  PROVE  Complete(s, r)
<1>1. PICK i \in DOMAIN s :
        /\ s[i].part = "head" /\ s[i].of = r /\ s[i].header = h
        /\ Len(s) = i + n /\ s[Len(s)].of = r
  BY DEF Body
<1>2. Len(s) \in i .. Len(s) /\ Len(s) - i = n
  BY <1>1
<1>3. Ends(s, i, Len(s))
  BY <1>1, <1>2 DEF Ends
<1>4. QED
  BY <1>1, <1>3 DEF Complete

\* A client finds a response that is complete.
LEMMA CompleteAnswers ==
  ASSUME NEW s \in Seq(Tokens), NEW r, r # 0, Complete(s, r)
  PROVE  Answered(s, r)
<1>1. PICK i \in DOMAIN s : Ends(s, i, Len(s)) /\ s[i].of = r
  BY DEF Complete
<1>2. Len(s) \in DOMAIN s
  BY <1>1
<1>3. QED
  BY <1>1, <1>2 DEF Answered

\* All that Status looks at is as it was.
Same(e) ==
  /\ link'[e] = link[e] /\ pc'[e] = pc[e] /\ after'[e] = after[e]
  /\ request'[e] = request[e] /\ ahead'[e] = ahead[e] /\ close'[e] = close[e]
  /\ header'[e] = header[e] /\ wroteHeader'[e] = wroteHeader[e] /\ pieces'[e] = pieces[e]
  /\ wire'[e] = wire[e] /\ Flow(e)' = Flow(e)

\* Then it says what it said.
LEMMA StatusSame == ASSUME NEW e \in Conns, Same(e), Status(e) PROVE Status(e)'
BY DEF Same, Status

\* A connection's flow depends on its own bufio.Writer only.
LEMMA FlowSame ==
  ASSUME NEW e \in Conns, writer'[e] = writer[e], wire'[e] = wire[e],
         writer[e] # NoWriter => held'[writer[e]] = held[writer[e]]
  PROVE  Flow(e)' = Flow(e)
BY DEF Flow

\* A response writer that is given up holds nothing any more.
LEMMA PutsBackEmpty ==
  ASSUME TypeOK, OnlyOwn, NEW c \in Conns, PutBack(c)
  PROVE  writer[c] \in Writers /\ held[writer[c]] = <<>> /\ held' = held
<1>1. /\ writer[c] \in Writers /\ writer[c] # NoWriter /\ Emptied(writer[c], c)
      /\ held' = [held EXCEPT ![writer[c]] = <<>>]
  BY DEF PutBack, TypeOK
<1>2. held[writer[c]] \in Seq(Tokens) /\ DOMAIN held[writer[c]] = {}
  BY <1>1 DEF OnlyOwn, Emptied, TypeOK
<1>3. held[writer[c]] = <<>>
  BY <1>2
<1>4. QED
  BY <1>1, <1>3 DEF TypeOK

\* A step of one connection leaves the others alone: their bufio.Writers are
\* not its own.
LEMMA OthersSame ==
  ASSUME TypeOK, WriterInv, OnlyOwn, NEW c \in Conns, NEW e \in Conns, e # c,
         \/ ClientSend(c) \/ ClientRead(c) \/ Break(c) \/ LoopStep(c)
         \/ HandlerSetsHeader(c) \/ HandlerWrites(c) \/ HandlerFlushes(c) \/ HandlerEnds(c)
  PROVE  Same(e)
<1> USE DEF clientVars, loopVars, writerVars, poolVars, Goto
<1>1. writer[e] # NoWriter => writer[e] \in Writers /\ writer[e] # writer[c]
  BY DEF TypeOK, OnlyOwn
<1>2. ASSUME UNCHANGED <<writer, wire, held>> PROVE Flow(e)' = Flow(e)
  BY <1>2, FlowSame
<1>3. ASSUME writer[c] \in Writers, UNCHANGED <<writer, wire>>,
             \A w \in Writers : w # writer[c] => held'[w] = held[w]
      PROVE  Flow(e)' = Flow(e)
  BY <1>1, <1>3, FlowSame
<1>4. CASE ClientSend(c)
  BY <1>4, <1>2 DEF ClientSend, Same, TypeOK
<1>5. CASE ClientRead(c)
  BY <1>5, <1>2 DEF ClientRead, Same, TypeOK
<1>6. CASE Break(c)
  BY <1>6, <1>2 DEF Break, Same, TypeOK
<1>7. CASE BeginRead(c)
  BY <1>7, <1>2 DEF BeginRead, Same, TypeOK
<1>8. CASE ReadFails(c)
  BY <1>8, <1>2 DEF ReadFails, Same, TypeOK
<1>9. CASE HandlerSetsHeader(c)
  BY <1>9, <1>2 DEF HandlerSetsHeader, Same, TypeOK
<1>10. CASE HandlerFlushes(c)
  BY <1>10, <1>2 DEF HandlerFlushes, Same, TypeOK
<1>11. CASE HandlerEnds(c)
  BY <1>11, <1>2 DEF HandlerEnds, Same, TypeOK
<1>12. CASE AfterRequest(c) \/ HandleException(c)
  <2>1. writer' = [writer EXCEPT ![c] = NoWriter] /\ UNCHANGED <<wire, held>>
    BY <1>12 DEF AfterRequest, HandleException, Forget
  <2>2. Flow(e)' = Flow(e)
    BY <2>1, FlowSame DEF TypeOK
  <2>3. QED
    BY <1>12, <2>2 DEF AfterRequest, HandleException, Forget, Same, TypeOK
<1>13. CASE ReadRequest(c)
  <2>1. PICK w \in Writers :
          /\ w \in pool \/ \A d \in Conns : w \notin {writer[d], chunkWriter[d]}
          /\ writer' = [writer EXCEPT ![c] = w] /\ held' = [held EXCEPT ![w] = <<>>]
    BY <1>13 DEF ReadRequest
  <2>2. writer[e] # w
    BY <2>1, ConstantsAssumption DEF OnlyOwn
  <2>3. wire' = wire /\ writer'[e] = writer[e]
        /\ (writer[e] # NoWriter => held'[writer[e]] = held[writer[e]])
    BY <1>13, <1>1, <2>1, <2>2 DEF ReadRequest, TypeOK
  <2>4. Flow(e)' = Flow(e)
    BY <2>3, FlowSame
  <2>5. QED
    BY <1>13, <2>3, <2>4 DEF ReadRequest, Same, TypeOK
<1>14. CASE HandlerWrites(c)
  <2>1. DestNow(c) = writer[c] /\ writer[c] \in Writers
    BY <1>14, OwnWriter DEF HandlerWrites, TypeOK
  <2>2. UNCHANGED <<writer, wire>> /\ \A w \in Writers : w # writer[c] => held'[w] = held[w]
    BY <1>14, <2>1 DEF HandlerWrites, TypeOK
  <2>3. Flow(e)' = Flow(e)
    BY <1>3, <2>1, <2>2
  <2>4. QED
    BY <1>14, <2>3 DEF HandlerWrites, Same, TypeOK
<1>15. CASE BeginFlush(c)
  <2>1. DestNow(c) = writer[c] /\ UNCHANGED <<writer, wire>>
    BY <1>15, OwnWriter DEF BeginFlush
  <2>2. \A w \in Writers : w # writer[c] => held'[w] = held[w]
    BY <1>15, <2>1 DEF BeginFlush
  <2>3. Flow(e)' = Flow(e)
    BY <1>1, <2>1, <2>2, FlowSame
  <2>4. QED
    BY <1>15, <2>1, <2>3 DEF BeginFlush, Same, TypeOK
<1>16. CASE Send(c) \/ SendFails(c)
  <2>1. /\ writer[c] \in Writers /\ held' = [held EXCEPT ![writer[c]] = <<>>]
        /\ target[writer[c]] = c /\ writer' = writer
        /\ wire' = [wire EXCEPT ![c] = @ \o held[writer[c]]] \/ wire' = wire
    <3>1. writer[c] \in Writers /\ writer[c] # NoWriter
      BY <1>16 DEF Send, SendFails, TypeOK
    <3>2. target[writer[c]] = c
      BY <3>1 DEF OnlyOwn
    <3>3. QED
      BY <1>16, <3>1, <3>2 DEF Send, SendFails
  <2>2. wire'[e] = wire[e] /\ writer'[e] = writer[e]
        /\ (writer[e] # NoWriter => held'[writer[e]] = held[writer[e]])
    BY <1>1, <2>1 DEF TypeOK
  <2>3. Flow(e)' = Flow(e)
    BY <2>2, FlowSame
  <2>4. QED
    BY <1>16, <2>2, <2>3 DEF Send, SendFails, Same
<1>17. CASE PutBack(c)
  <2>1. writer'[e] = writer[e] /\ UNCHANGED <<wire, held>>
    BY <1>17, PutsBackEmpty DEF PutBack, TypeOK
  <2>2. Flow(e)' = Flow(e)
    BY <2>1, FlowSame
  <2>3. QED
    BY <1>17, <2>1, <2>2 DEF PutBack, Same, TypeOK
<1>18. QED
  BY <1>4, <1>5, <1>6, <1>7, <1>8, <1>9, <1>10, <1>11, <1>12, <1>13, <1>14, <1>15, <1>16, <1>17 DEF LoopStep

\* FlowInv of one connection.
FlowOf(c) == IF link[c] = "open" THEN Status(c) ELSE Written(wire[c], c)

\* Nothing has been written at first.
LEMMA InitFlow == Init => FlowInv
<1> SUFFICES ASSUME Init, NEW c \in Conns PROVE Status(c)
  BY DEF Init, FlowInv
<1>1. Flow(c) = <<>> /\ Written(<<>>, c)
  BY DEF Init, Flow, InOrder, Written
<1>2. QED
  BY <1>1 DEF Init, Status, Active

\* A step that changes nothing Status looks at keeps FlowOf.
LEMMA FlowOfSame == ASSUME NEW e \in Conns, Same(e), FlowOf(e) PROVE FlowOf(e)'
<1>1. CASE link[e] = "open"
  BY <1>1, StatusSame DEF FlowOf, Same
<1>2. CASE link[e] # "open"
  BY <1>2 DEF FlowOf, Same
<1>3. QED
  BY <1>1, <1>2

\* One that closes the connection and sends nothing, too.
LEMMA FlowOfCloses ==
  ASSUME TypeOK, NEW c \in Conns, FlowOf(c), link'[c] = "closed", wire'[c] = wire[c]
  PROVE  FlowOf(c)'
<1>1. Written(wire[c], c)
  BY WireWritten DEF FlowOf, Status
<1>2. QED
  BY <1>1 DEF FlowOf

\* What the handler, or Flush, writes: a header if there is none yet, and a
\* piece of the body, or its end.
LEMMA WriteFlow ==
  ASSUME TypeOK, NEW c \in Conns, writer[c] \in Writers, NEW t \in Seq(Tokens),
         writer' = writer, wire' = wire,
         held' = [held EXCEPT ![writer[c]] = @ \o HeadNow(c) \o t]
  PROVE  Flow(c)' = (Flow(c) \o HeadNow(c)) \o t
<1>1. Flow(c) = wire[c] \o held[writer[c]] /\ Flow(c)' = wire[c] \o (held[writer[c]] \o HeadNow(c) \o t)
  BY ConstantsAssumption DEF Flow, TypeOK
<1>2. wire[c] \in Seq(Tokens) /\ held[writer[c]] \in Seq(Tokens) /\ HeadNow(c) \in Seq(Tokens)
  BY TokenType DEF TypeOK
<1> DEFINE a == wire[c]
           b == held[writer[c]]
           h == HeadNow(c)
<1>3. a \in Seq(Tokens) /\ b \in Seq(Tokens) /\ h \in Seq(Tokens) /\ b \o h \in Seq(Tokens)
  BY <1>2, ConcatType
<1>4. Flow(c) = a \o b /\ Flow(c)' = a \o ((b \o h) \o t)
  BY <1>1
<1> HIDE DEF a, b, h
<1>5. (a \o (b \o h)) \o t = a \o ((b \o h) \o t)
  <2> DEFINE d == b \o h
  <2>1. d \in Seq(Tokens)
    BY <1>3
  <2> HIDE DEF d
  <2>2. (a \o d) \o t = a \o (d \o t)
    BY <1>3, <2>1, ConcatFacts
  <2>3. QED
    BY <2>2 DEF d
<1>6. (a \o b) \o h = a \o (b \o h)
  BY <1>3, ConcatFacts
<1>7. QED
  BY <1>4, <1>5, <1>6 DEF h

\* HandlerWrites keeps FlowOf.
LEMMA FlowHandlerWrites ==
  ASSUME TypeOK, WriterInv, NEW c \in Conns, FlowOf(c), HandlerWrites(c)
  PROVE  FlowOf(c)'
<1> DEFINE s == Flow(c)
           u == s \o HeadNow(c)
           r == request[c]
<1>1. /\ pc[c] = "serve" /\ DestNow(c) = writer[c] /\ writer[c] \in Writers
      /\ UNCHANGED <<link, clientVars, pc, after, loopVars, writer, header, pool, target, wire>>
  BY OwnWriter DEF HandlerWrites, TypeOK
<1>2. CASE link[c] # "open"
  BY <1>1, <1>2 DEF FlowOf
<1>3. CASE link[c] = "open"
  <2>1. Status(c) /\ s \in Seq(Tokens) /\ r \in Nat /\ pieces[c] \in Nat
    BY <1>3, FlowType, ConstantsAssumption, SMTT(20) DEF FlowOf, TypeOK
  <2>2. Written(s, c) /\ r > 0 /\ (\A k \in 1 .. r : k < r => Answered(s, k))
        /\ IF wroteHeader[c] THEN Body(s, r, header[c], pieces[c])
           ELSE Complete(s, r - 1) /\ pieces[c] = 0
    BY <1>1, <2>1 DEF Status, Active
  <2>3. /\ u \in Seq(Tokens) /\ Written(u, c) /\ Body(u, r, header[c], pieces[c])
        /\ \A k : Answered(s, k) => Answered(u, k)
    BY <2>1, <2>2, HeadNext
  <2>4. Written(Flow(c)', c) /\ Body(Flow(c)', r, header[c], pieces'[c])
        /\ \A k : Answered(s, k) => Answered(Flow(c)', k)
    <3>1. CASE UNCHANGED pieces /\ held' = [held EXCEPT ![writer[c]] = @ \o HeadNow(c)]
      <4>1. /\ held[writer[c]] \o HeadNow(c) = held[writer[c]] \o HeadNow(c) \o <<>>
            /\ <<>> \in Seq(Tokens) /\ u \o <<>> = u
        <5>1. held[writer[c]] \o HeadNow(c) \in Seq(Tokens)
          BY <1>1, TokenType, ConcatType DEF TypeOK
        <5>2. QED
          BY <2>3, <5>1, EmptyType, ConcatFacts
      <4>2. held' = [held EXCEPT ![writer[c]] = @ \o HeadNow(c) \o <<>>]
        BY <3>1, <4>1
      <4>3. Flow(c)' = u
        BY <1>1, <4>1, <4>2, WriteFlow
      <4>4. QED
        BY <2>3, <3>1, <4>3
    <3>2. CASE /\ pieces' = [pieces EXCEPT ![c] = @ + 1]
               /\ held' = [held EXCEPT ![writer[c]] = @ \o HeadNow(c) \o <<Token("piece", c)>>]
      <4>1. Flow(c)' = u \o <<Token("piece", c)>>
        <5>1. <<Token("piece", c)>> \in Seq(Tokens)
          BY TokenType
        <5>2. QED
          BY <1>1, <3>2, <5>1, WriteFlow
      <4>2. pieces'[c] = pieces[c] + 1
        BY <3>2 DEF TypeOK
      <4> HIDE DEF u
      <4>3. QED
        BY <2>1, <2>3, <4>1, <4>2, PieceNext
    <3>3. QED
      BY <1>1, <3>1, <3>2 DEF HandlerWrites
  <2>5. wroteHeader'[c] = TRUE
    BY DEF HandlerWrites, TypeOK
  <2>6. Status(c)'
    BY <1>1, <2>2, <2>4, <2>5 DEF Status, Active, loopVars
  <2>7. QED
    BY <1>1, <1>3, <2>6 DEF FlowOf
<1>4. QED
  BY <1>2, <1>3

\* BeginFlush keeps FlowOf.
LEMMA FlowBeginFlush ==
  ASSUME TypeOK, WriterInv, NEW c \in Conns, FlowOf(c), BeginFlush(c)
  PROVE  FlowOf(c)'
<1> DEFINE s == Flow(c)
           u == s \o HeadNow(c)
           r == request[c]
<1>1. /\ pc[c] = "flush" /\ DestNow(c) = writer[c]
      /\ UNCHANGED <<link, clientVars, loopVars, writer, header, pieces, pool, target, wire>>
      /\ held' = [w \in Writers |-> IF w = writer[c] THEN held[w] \o HeadNow(c) \o EndNow(c)
                                    ELSE held[w]]
      /\ wroteHeader'[c] = TRUE
  BY OwnWriter, SMTT(20) DEF BeginFlush, TypeOK
<1>2. CASE link[c] # "open"
  BY <1>1, <1>2 DEF FlowOf
<1>3. CASE link[c] = "open"
  <2>1. Status(c) /\ s \in Seq(Tokens) /\ r \in Nat /\ pieces[c] \in Nat
    BY <1>3, FlowType, ConstantsAssumption, SMTT(20) DEF FlowOf, TypeOK
  <2>2. Written(s, c) /\ r > 0 /\ (\A k \in 1 .. r : k < r => Answered(s, k))
        /\ (IF wroteHeader[c] THEN Body(s, r, header[c], pieces[c])
            ELSE Complete(s, r - 1) /\ pieces[c] = 0)
        /\ (after[c] = "replied" =>
              (header[c].framing = "length" => pieces[c] = header[c].size))
    BY <1>1, <2>1 DEF Status, Active
  <2>3. CASE writer[c] = NoWriter
    <3>1. wroteHeader[c]
      BY <1>1, <2>3 DEF WriterInv, WriterOf, Active
    <3>2. Flow(c)' = s
      BY <1>1, <2>3 DEF Flow
    <3>3. pc'[c] \in {"flush", "exception"} /\ after'[c] = "exception"
      BY <1>1, <2>3 DEF BeginFlush, Goto, TypeOK
    <3>4. Status(c)'
      BY <1>1, <2>2, <3>1, <3>2, <3>3 DEF Status, Active, loopVars
    <3>5. QED
      BY <1>1, <1>3, <3>4 DEF FlowOf
  <2>4. CASE writer[c] # NoWriter
    <3>1. writer[c] \in Writers /\ pc'[c] = "send" /\ after' = after
      BY <2>4 DEF BeginFlush, Goto, TypeOK
    <3>2. /\ u \in Seq(Tokens) /\ Written(u, c) /\ Body(u, r, header[c], pieces[c])
          /\ \A k : Answered(s, k) => Answered(u, k)
      BY <2>1, <2>2, HeadNext
    <3>3. Flow(c)' = u \o EndNow(c)
      <4>1. held' = [held EXCEPT ![writer[c]] = @ \o HeadNow(c) \o EndNow(c)]
        BY <1>1, <3>1 DEF TypeOK
      <4>2. QED
        BY <1>1, <3>1, <4>1, TokenType, WriteFlow
    <3> HIDE DEF u
    <3>4. CASE header[c] = Chunked
      <4>1. EndNow(c) = <<Token("end", c)>>
        BY <1>1, <2>4, <3>4 DEF EndNow, ChunkWriterNow, WriterInv, WriterOf, Active
      <4>2. Written(Flow(c)', c) /\ Complete(Flow(c)', r)
            /\ \A k : Answered(u, k) => Answered(Flow(c)', k)
        BY <2>2, <3>2, <3>3, <3>4, <4>1, EndNext
      <4>3. Status(c)'
        BY <1>1, <2>2, <3>1, <3>2, <3>4, <4>2 DEF Status, Active, loopVars
      <4>4. QED
        BY <1>1, <1>3, <4>3 DEF FlowOf
    <3>5. CASE header[c] # Chunked
      <4>1. EndNow(c) = <<>>
        BY <1>1, <2>4, <3>5 DEF EndNow, ChunkWriterNow, WriterInv, WriterOf, Active
      <4>2. Flow(c)' = u
        BY <3>2, <3>3, <4>1, ConcatFacts, EmptyType
      <4>3. Status(c)'
        BY <1>1, <2>2, <3>1, <3>2, <3>5, <4>2 DEF Status, Active, loopVars
      <4>4. QED
        BY <1>1, <1>3, <4>3 DEF FlowOf
    <3>6. QED
      BY <3>4, <3>5
  <2>5. QED
    BY <2>3, <2>4
<1>4. QED
  BY <1>2, <1>3

\* Every other step of a connection keeps FlowOf.
LEMMA FlowOwnStep ==
  ASSUME TypeOK, WriterInv, OnlyOwn, NEW c \in Conns, FlowOf(c),
         \/ ClientSend(c) \/ ClientRead(c) \/ Break(c) \/ LoopStep(c)
         \/ HandlerSetsHeader(c) \/ HandlerWrites(c) \/ HandlerFlushes(c) \/ HandlerEnds(c),
         Orderly
  PROVE  FlowOf(c)'
<1> USE DEF clientVars, loopVars, writerVars, poolVars, Goto
<1>1. ASSUME UNCHANGED <<writer, wire, held>> PROVE Flow(c)' = Flow(c)
  BY <1>1, FlowSame
<1>2. ASSUME link[c] # "open", UNCHANGED <<link, wire>> PROVE FlowOf(c)'
  BY <1>2 DEF FlowOf
<1>3. CASE ClientSend(c) \/ ClientRead(c)
  BY <1>1, <1>3, FlowOfSame DEF ClientSend, ClientRead, Same
<1>4. CASE Break(c) \/ HandleException(c)
  <2>1. link'[c] = "closed" /\ wire' = wire
    BY <1>4 DEF Break, HandleException, TypeOK
  <2>2. QED
    BY <2>1, FlowOfCloses
<1>5. CASE BeginRead(c)
  <2>1. CASE link[c] = "open"
    <3>1. Status(c) /\ pc[c] = "loop" /\ pc'[c] = "read" /\ request'[c] = ahead[c]
          /\ UNCHANGED <<link, after, ahead, close, writerVars, poolVars, wire>>
      BY <1>5, <2>1 DEF BeginRead, FlowOf, TypeOK
    <3>2. Flow(c)' = <<>> /\ request'[c] = 0
      BY <1>1, <3>1 DEF Status
    <3>3. Status(c)'
      BY <3>1, <3>2 DEF Status, Written, InOrder, Complete, Active
    <3>4. QED
      BY <2>1, <3>1, <3>3 DEF FlowOf
  <2>2. QED
    BY <1>2, <1>5, <2>1 DEF BeginRead
<1>6. CASE ReadRequest(c)
  <2>1. CASE link[c] = "open"
    <3>1. /\ Status(c) /\ pc[c] = "read" /\ pc'[c] = "serve"
          /\ request'[c] = request[c] + 1 /\ request[c] \in Nat
          /\ UNCHANGED <<link, after, header, wroteHeader, chunkWriter, pieces, wire>>
          /\ ~wroteHeader[c] /\ pieces[c] = 0
      BY <1>6, <2>1 DEF ReadRequest, FlowOf, TypeOK, WriterInv, WriterOf
    <3>2. Flow(c)' = Flow(c)
      <4>1. PICK w \in Writers :
              writer' = [writer EXCEPT ![c] = w] /\ held' = [held EXCEPT ![w] = <<>>]
        BY <1>6 DEF ReadRequest
      <4>2. writer'[c] = w /\ held'[w] = <<>> /\ writer[c] = NoWriter
        BY <3>1, <4>1 DEF TypeOK, WriterInv, WriterOf, Active
      <4>3. Flow(c) = wire[c] /\ Flow(c)' = wire[c] \o <<>>
        BY <3>1, <4>1, <4>2, ConstantsAssumption DEF Flow
      <4>4. wire[c] \in Seq(Tokens)
        BY DEF TypeOK
      <4>5. QED
        BY <4>3, <4>4, ConcatFacts, EmptyType
    <3>3. Written(Flow(c)', c) /\ Complete(Flow(c)', request'[c] - 1) /\ request'[c] > 0
          /\ \A k \in 1 .. request'[c] : k < request'[c] => Answered(Flow(c)', k)
      BY <3>1, <3>2 DEF Status
    <3>4. Status(c)'
      BY <3>1, <3>3 DEF Status, Active
    <3>5. QED
      BY <2>1, <3>1, <3>4 DEF FlowOf
  <2>2. QED
    BY <1>2, <1>6, <2>1 DEF ReadRequest
<1>7. CASE ReadFails(c)
  BY <1>2, <1>7 DEF ReadFails
<1>8. CASE AfterRequest(c)
  <2>1. CASE close[c]
    BY <1>8, <2>1, FlowOfCloses DEF AfterRequest, TypeOK
  <2>2. CASE ~close[c] /\ link[c] = "open"
    <3>1. /\ Status(c) /\ pc[c] = "replied" /\ pc'[c] = "read" /\ writer[c] = NoWriter
          /\ UNCHANGED <<link, loopVars, wire>> /\ writer' = [writer EXCEPT ![c] = NoWriter]
      BY <1>8, <2>2 DEF AfterRequest, Forget, FlowOf, TypeOK, WriterInv, WriterOf, Active
    <3>2. Flow(c)' = Flow(c)
      BY <3>1, FlowSame DEF TypeOK
    <3>3. Flow(c) \in Seq(Tokens) /\ request[c] \in Nat /\ request[c] > 0 /\ pieces[c] \in Nat
          /\ header[c] \in Headers /\ header[c] # Plain
      BY <2>2, <3>1, FlowType, ConstantsAssumption, SMTT(20) DEF Status, Active, TypeOK
    <3>4. Complete(Flow(c), request[c])
      <4>1. CASE header[c] = Chunked
        BY <3>1, <4>1 DEF Status
      <4>2. CASE header[c] # Chunked
        <5>1. header[c].framing = "length"
          BY <3>3, <4>2 DEF Headers
        <5>2. Body(Flow(c), request[c], header[c], pieces[c]) /\ pieces[c] = header[c].size
          BY <3>1, <4>2, <5>1 DEF Status
        <5>3. QED
          BY <3>3, <5>1, <5>2, BodyCompletes
      <4>3. QED
        BY <4>1, <4>2
    <3>5. \A k \in 1 .. request[c] : Answered(Flow(c), k)
      BY <3>1, <3>3, <3>4, CompleteAnswers DEF Status
    <3>6. Written(Flow(c), c)
      BY <3>1 DEF Status
    <3>7. Status(c)'
      BY <3>1, <3>2, <3>4, <3>5, <3>6 DEF Status, Active
    <3>8. QED
      BY <2>2, <3>1, <3>7 DEF FlowOf
  <2>3. CASE ~close[c] /\ link[c] # "open"
    BY <1>2, <1>8, <2>3 DEF AfterRequest
  <2>4. QED
    BY <2>1, <2>2, <2>3
<1>9. CASE Send(c)
  <2>1. writer[c] \in Writers /\ writer[c] # NoWriter
    BY <1>9 DEF Send, TypeOK
  <2>2. target[writer[c]] = c
    BY <2>1 DEF OnlyOwn
  <2>3. /\ wire' = [wire EXCEPT ![c] = @ \o held[writer[c]]]
        /\ held' = [held EXCEPT ![writer[c]] = <<>>]
        /\ UNCHANGED <<link, pc, after, loopVars, writerVars>> /\ link[c] = "open"
    BY <1>9, <2>2 DEF Send
  <2>4. wire[c] \in Seq(Tokens) /\ held[writer[c]] \in Seq(Tokens)
    BY <2>1 DEF TypeOK
  <2>5. Flow(c)' = (wire[c] \o held[writer[c]]) \o <<>> /\ Flow(c) = wire[c] \o held[writer[c]]
    BY <2>1, <2>3 DEF Flow, TypeOK
  <2>6. Flow(c)' = Flow(c)
    BY <2>4, <2>5, ConcatType, ConcatFacts, EmptyType
  <2>7. Status(c)'
    BY <2>3, <2>6 DEF FlowOf, Status
  <2>8. QED
    BY <2>3, <2>7 DEF FlowOf
<1>10. CASE SendFails(c)
  <2>1. writer[c] # NoWriter /\ target[writer[c]] = c
    BY <1>10 DEF SendFails, OnlyOwn
  <2>2. QED
    BY <1>2, <1>10, <2>1 DEF SendFails
<1>11. CASE PutBack(c)
  <2>1. CASE link[c] = "open"
    <3>1. /\ Status(c) /\ pc[c] = "send" /\ pc'[c] = after[c] /\ writer[c] \in Writers
          /\ writer[c] # NoWriter /\ held[writer[c]] = <<>> /\ writer'[c] = NoWriter
          /\ close'[c] = (close[c] \/ header[c] = Plain)
          /\ UNCHANGED <<link, after, ahead, request, header, wroteHeader, pieces, wire>>
      BY <1>11, <2>1, PutsBackEmpty DEF PutBack, FlowOf, TypeOK
    <3>2. Flow(c)' = Flow(c)
      <4>1. wire[c] \in Seq(Tokens) /\ Flow(c)' = wire[c] /\ Flow(c) = wire[c] \o <<>>
        BY <3>1 DEF Flow, TypeOK
      <4>2. QED
        BY <4>1, ConcatFacts, EmptyType
    <3>3. wroteHeader[c] /\ (after[c] = "serve" => header[c] # Chunked)
          /\ after[c] \in {"replied", "exception", "serve"}
      BY <3>1 DEF WriterInv, WriterOf, Active, TypeOK
    <3>4. Status(c)'
      BY <3>1, <3>2, <3>3 DEF Status, Active
    <3>5. QED
      BY <2>1, <3>1, <3>4 DEF FlowOf
  <2>2. QED
    BY <1>2, <1>11, <2>1 DEF PutBack
<1>12. CASE HandlerSetsHeader(c)
  <2>1. CASE link[c] = "open"
    <3>1. Status(c) /\ pc[c] = "serve" /\ ~wroteHeader[c] /\ Flow(c)' = Flow(c)
          /\ UNCHANGED <<link, pc, after, loopVars, wroteHeader, pieces>>
      BY <1>1, <1>12, <2>1 DEF HandlerSetsHeader, FlowOf
    <3>2. Status(c)'
      BY <3>1 DEF Status, Active
    <3>3. QED
      BY <2>1, <3>1, <3>2 DEF FlowOf
  <2>2. QED
    BY <1>2, <1>12, <2>1 DEF HandlerSetsHeader
<1>13. CASE HandlerFlushes(c) \/ HandlerEnds(c)
  <2>1. CASE link[c] = "open"
    <3>1. /\ Status(c) /\ pc[c] = "serve" /\ pc'[c] = "flush" /\ Flow(c)' = Flow(c)
          /\ (after'[c] = "replied" =>
                (header[c].framing = "length" => pieces[c] = header[c].size))
          /\ UNCHANGED <<link, loopVars, writerVars>>
      BY <1>1, <1>13, <2>1 DEF HandlerFlushes, HandlerEnds, FlowOf, TypeOK
    <3>2. Status(c)'
      BY <3>1 DEF Status, Active
    <3>3. QED
      BY <2>1, <3>1, <3>2 DEF FlowOf
  <2>2. QED
    BY <1>2, <1>13, <2>1 DEF HandlerFlushes, HandlerEnds
<1>14. QED
  BY <1>3, <1>4, <1>5, <1>6, <1>7, <1>8, <1>9, <1>10, <1>11, <1>12, <1>13, FlowHandlerWrites,
     FlowBeginFlush DEF LoopStep

\* Every step keeps FlowInv.
LEMMA FlowStep ==
  Orderly /\ TypeOK /\ WriterInv /\ OnlyOwn /\ FlowInv /\ [Next]_vars => FlowInv'
<1> SUFFICES ASSUME Orderly, TypeOK, WriterInv, OnlyOwn, FlowInv, [Next]_vars,
                    NEW e \in Conns
             PROVE  FlowOf(e)'
  BY DEF FlowInv, FlowOf
<1>1. FlowOf(e)
  BY DEF FlowInv, FlowOf
<1>2. ASSUME NEW c \in Conns,
             \/ ClientSend(c) \/ ClientRead(c) \/ Break(c) \/ LoopStep(c)
             \/ HandlerSetsHeader(c) \/ HandlerWrites(c) \/ HandlerFlushes(c) \/ HandlerEnds(c)
      PROVE  FlowOf(e)'
  <2>1. CASE c = e
    BY <1>1, <1>2, <2>1, FlowOwnStep
  <2>2. CASE c # e
    BY <1>1, <1>2, <2>2, OthersSame, FlowOfSame
  <2>3. QED
    BY <2>1, <2>2
<1>3. CASE UNCHANGED vars
  <2>1. Same(e)
    BY <1>3 DEF vars, clientVars, loopVars, writerVars, poolVars, Same, Flow
  <2>2. QED
    BY <1>1, <2>1, FlowOfSame
<1>4. QED
  BY <1>2, <1>3 DEF Next, Done

\* FlowInv orders what is sent,
LEMMA FlowOrders == TypeOK /\ FlowInv => ResponsesInOrder
BY WireWritten DEF FlowInv, Status, Written, ResponsesInOrder

\* and a server that waits for a request has answered those before.
LEMMA FlowAnswers == TypeOK /\ WriterInv /\ FlowInv => NobodyWaits
<1> SUFFICES ASSUME TypeOK, WriterInv, FlowInv, NEW c \in Conns,
                    pc[c] = "read", link[c] = "open", NEW k \in 1 .. request[c]
             PROVE  Answered(wire[c], k)
  BY DEF NobodyWaits, Answered
<1>1. Flow(c) = wire[c]
  BY DEF Flow, WriterInv, WriterOf, Active
<1>2. Status(c)
  BY DEF FlowInv
<1>3. QED
  BY <1>1, <1>2 DEF Status

\* ResponsesInOrder, for orderly handlers.
THEOREM ResponsesInOrderHolds == Orderly => (Spec => []ResponsesInOrder)
<1> SUFFICES ASSUME Orderly PROVE Spec => []ResponsesInOrder
  OBVIOUS
<1> DEFINE FlowKept == flushed = {} => FlowInv
<1>1. Init => FlowKept
  BY InitFlow
<1>2. TypeOK /\ Unmixed /\ FlowKept /\ [Next]_vars => FlowKept'
  BY FlowStep, FlushedStays DEF Unmixed
<1>3. TypeOK /\ Unmixed /\ FlowKept => ResponsesInOrder
  BY FlowOrders DEF Unmixed, ResponsesInOrder
<1>4. QED
  BY <1>1, <1>2, <1>3, OrderlyInvariant, PTL DEF Spec

\* NobodyWaits, for orderly handlers.
THEOREM NobodyWaitsHolds == Orderly => (Spec => []NobodyWaits)
<1> SUFFICES ASSUME Orderly PROVE Spec => []NobodyWaits
  OBVIOUS
<1> DEFINE FlowKept == flushed = {} => FlowInv
<1>1. Init => FlowKept
  BY InitFlow
<1>2. TypeOK /\ Unmixed /\ FlowKept /\ [Next]_vars => FlowKept'
  BY FlowStep, FlushedStays DEF Unmixed
<1>3. TypeOK /\ Unmixed /\ FlowKept => NobodyWaits
  BY FlowAnswers DEF Unmixed, NobodyWaits
<1>4. QED
  BY <1>1, <1>2, <1>3, OrderlyInvariant, PTL DEF Spec

-----------------------------------------------------------------------------
(* The responses ClientCodec delivers.                                     *)

\* What a client has read of the wire.  It waits for each response, and what it
\* has read ends in the last one it has got: no head it has not read is of a
\* response it has got, and that one did not go on to the end of the connection
\* unless it is all there will be.
ClientOf(c) ==
  /\ \A i \in DOMAIN wire[c] : wire[c][i].of <= request[c]
  /\ c \in Pipelining => got[c] = <<>>
  /\ c \notin Pipelining =>
       /\ Len(got[c]) <= sent[c] /\ sent[c] <= Len(got[c]) + 1
       /\ \A k \in DOMAIN got[c] : got[c][k] = k
       /\ parsed[c] <= Len(wire[c])
       /\ \A p \in parsed[c] + 1 .. Len(wire[c]) :
            wire[c][p].part = "head" => wire[c][p].of > Len(got[c])
       /\ parsed[c] = 0 => got[c] = <<>>
       /\ parsed[c] > 0 =>
            /\ wire[c][parsed[c]].of = Len(got[c])
            /\ parsed[c] < Len(wire[c]) \/ link[c] = "open" =>
                 wire[c][parsed[c]].header # Plain

ClientInv == \A c \in Conns : ClientOf(c)

\* Nothing has been sent at first.
LEMMA InitClient == Init => ClientInv
BY DEF Init, ClientInv, ClientOf

\* A step that leaves alone what ClientOf looks at keeps it, and so does one
\* that closes the connection, or goes on to a later request.
LEMMA ClientStill ==
  ASSUME TypeOK, NEW c \in Conns, ClientOf(c), sent'[c] = sent[c], got'[c] = got[c],
         parsed'[c] = parsed[c], wire'[c] = wire[c], link'[c] \in {link[c], "closed"},
         request'[c] \in Nat, request[c] <= request'[c]
  PROVE  ClientOf(c)'
<1>1. \A i \in DOMAIN wire[c] : wire[c][i].of <= request'[c]
  <2>1. wire[c] \in Seq(Tokens) /\ request[c] \in Nat
    BY DEF TypeOK
  <2>2. \A i \in DOMAIN wire[c] : wire[c][i].of \in Nat /\ wire[c][i].of <= request[c]
    BY <2>1, OfType DEF ClientOf
  <2>3. QED
    BY <2>1, <2>2
<1>2. QED
  BY <1>1 DEF ClientOf

\* What the server has sent is as Written.
LEMMA FlowWires == ASSUME TypeOK, FlowInv, NEW c \in Conns PROVE Written(wire[c], c)
BY WireWritten DEF FlowInv, Status

\* ClientRead delivers the response to the last request.
LEMMA ClientReads ==
  ASSUME TypeOK, NEW c \in Conns, Written(wire[c], c), ClientOf(c), ClientRead(c)
  PROVE  ClientOf(c)'
<1> DEFINE w == wire[c]
           n == Len(got[c])
           b == parsed[c] + 1
<1>1. PICK j \in b .. Len(w) :
        /\ \/ Ends(w, b, j)
           \/ link[c] = "closed" /\ w[b].header = Plain /\ j = Len(w)
        /\ got' = [got EXCEPT ![c] = Append(@, w[b].of)]
        /\ \E last \in j .. Len(w) : parsed' = [parsed EXCEPT ![c] = last]
  BY DEF ClientRead
<1>2. PICK last \in j .. Len(w) : parsed' = [parsed EXCEPT ![c] = last]
  BY <1>1
<1>3. c \notin Pipelining /\ UNCHANGED <<link, sent, wire, request>>
  BY DEF ClientRead, loopVars
<1>4. /\ w \in Seq(Tokens) /\ got[c] \in Seq(Nat) /\ n \in Nat /\ parsed[c] \in Nat
      /\ b \in DOMAIN w /\ last \in DOMAIN w /\ b <= last /\ j <= last
      /\ DOMAIN w = 1 .. Len(w) /\ Len(w) \in Nat /\ last \in Nat
  <2>1. w \in Seq(Tokens) /\ got[c] \in Seq(Nat) /\ parsed[c] \in Nat
    BY DEF TypeOK
  <2>2. QED
    BY <2>1
<1>5. \A i \in DOMAIN w : w[i].of \in Nat /\ w[i].of > 0 /\ w[i].of <= n + 1
  <2>1. \A i \in DOMAIN w : w[i].of \in Nat /\ w[i].of > 0 /\ w[i].of <= request[c]
    BY <1>4, OfGrows DEF ClientOf, Written
  <2>2. request[c] \in Nat /\ sent[c] \in Nat /\ request[c] <= sent[c] /\ sent[c] <= n + 1
    BY <1>3 DEF TypeOK, ClientOf
  <2>3. QED
    BY <1>4, <2>1, <2>2, SMTT(20)
<1>6. \A i, k \in DOMAIN w :
        i < k => w[i].of <= w[k].of /\ (w[k].part = "head" => w[i].of < w[k].of)
  BY <1>4, OfGrows DEF Written
<1>7. \A i, k \in DOMAIN w : w[i].of = w[k].of => w[i].header = w[k].header
  BY DEF Written
<1> HIDE DEF b, n
<1>8. w[b].of = n + 1
  <2>1. CASE w[b].part = "head"
    <3>1. b \in parsed[c] + 1 .. Len(wire[c])
      BY <1>4 DEF b
    <3>2. w[b].of > n
      BY <1>3, <2>1, <3>1 DEF ClientOf, n
    <3>3. QED
      BY <1>4, <1>5, <3>2
  <2>2. CASE w[b].part # "head"
    <3>1. link[c] = "closed" /\ w[b].header = Plain
      BY <1>1, <2>2 DEF Ends
    <3>2. b > 1 /\ w[b].of = w[b - 1].of
      BY <1>4, <2>2 DEF Written, InOrder
    <3>3. parsed[c] = b - 1 /\ parsed[c] > 0 /\ parsed[c] < Len(w) /\ parsed[c] \in DOMAIN w
      BY <1>4, <3>2 DEF b
    <3>4. w[parsed[c]].header # Plain
      BY <1>3, <3>3 DEF ClientOf
    <3>5. QED
      BY <1>4, <1>7, <3>1, <3>2, <3>3, <3>4
  <2>3. QED
    BY <2>1, <2>2
<1>9. w[last].of = n + 1
  <2>1. b = last \/ b < last
    BY <1>4
  <2>2. w[b].of <= w[last].of
    BY <1>4, <1>5, <1>6, <1>8, <2>1
  <2>3. QED
    BY <1>4, <1>5, <1>8, <2>2, SMTT(20)
<1>10. got'[c] = Append(got[c], n + 1) /\ parsed'[c] = last
  BY <1>1, <1>2, <1>8 DEF TypeOK
<1>11. Len(got'[c]) = n + 1 /\ \A k \in DOMAIN got'[c] : got'[c][k] = k
  <2>1. \A k \in DOMAIN got[c] : got[c][k] = k
    BY <1>3 DEF ClientOf
  <2>2. QED
    BY <1>4, <1>10, <2>1 DEF n
<1>12. \A p \in last + 1 .. Len(w) : w[p].part = "head" => w[p].of > n + 1
  <2>1. \A p \in last + 1 .. Len(w) : p \in DOMAIN w /\ last < p
    BY <1>4
  <2>2. QED
    BY <1>4, <1>5, <1>6, <1>9, <2>1
<1>13. ASSUME last < Len(w) \/ link[c] = "open" PROVE w[last].header # Plain
  <2>1. Ends(w, b, j)
    BY <1>1, <1>2, <1>4, <1>13
  <2>2. w[b].header # Plain
    BY <2>1 DEF Ends, Plain
  <2>3. QED
    BY <1>4, <1>7, <1>8, <1>9, <2>2
<1>14. n + 1 <= sent[c] /\ sent[c] <= n + 2
  <2>1. request[c] \in Nat /\ sent[c] \in Nat /\ request[c] <= sent[c] /\ sent[c] <= n + 1
        /\ w[b].of <= request[c]
    BY <1>3, <1>4 DEF TypeOK, ClientOf, n
  <2>2. QED
    BY <1>4, <1>8, <2>1
<1>15. QED
  <2>1. \A i \in DOMAIN w : w[i].of <= request[c]
    BY DEF ClientOf
  <2>2. /\ sent'[c] <= Len(got'[c]) + 1 /\ parsed'[c] <= Len(wire'[c]) /\ parsed'[c] > 0
        /\ wire'[c] = w /\ link'[c] = link[c] /\ request'[c] = request[c]
    BY <1>3, <1>4, <1>10, <1>11, <1>14
  <2> HIDE DEF w
  <2>3. QED
    BY <1>3, <1>4, <1>9, <1>10, <1>11, <1>12, <1>13, <1>14, <2>1, <2>2 DEF ClientOf

\* Send: what is sent is of the present response, after all before it.
LEMMA ClientSends ==
  ASSUME TypeOK, OnlyOwn, NEW c \in Conns, ClientOf(c), Send(c),
         Written(Flow(c), c)
  PROVE  ClientOf(c)'
<1> DEFINE w == wire[c]
           t == held[writer[c]]
           u == w \o t
<1>1. writer[c] \in Writers /\ writer[c] # NoWriter
  BY DEF Send, TypeOK
<1>2. target[writer[c]] = c /\ \A i \in DOMAIN t : t[i].of = request[c]
  BY <1>1 DEF OnlyOwn
<1>3. wire' = [wire EXCEPT ![c] = u] /\ link[c] = "open"
      /\ UNCHANGED <<link, sent, got, parsed, request>>
  BY <1>2 DEF Send, clientVars, loopVars
<1>4. /\ w \in Seq(Tokens) /\ t \in Seq(Tokens) /\ parsed[c] \in Nat
      /\ got[c] \in Seq(Nat) /\ request[c] \in Nat
  BY <1>1 DEF TypeOK
<1> HIDE DEF w, t
<1>5. /\ u \in Seq(Tokens) /\ Len(u) = Len(w) + Len(t)
      /\ \A i \in 1 .. Len(w) : u[i] = w[i]
      /\ \A i \in DOMAIN u : i \in 1 .. Len(w) \/ (i - Len(w) \in DOMAIN t /\ u[i] = t[i - Len(w)])
      /\ Len(w) \in Nat /\ Len(u) \in Nat /\ Len(w) <= Len(u)
  <2>1. /\ u \in Seq(Tokens) /\ Len(u) = Len(w) + Len(t)
        /\ \A i \in 1 .. Len(w) : u[i] = w[i]
        /\ \A i \in DOMAIN u : i \in 1 .. Len(w) \/ (i - Len(w) \in DOMAIN t /\ u[i] = t[i - Len(w)])
    BY <1>4, ConcatKeeps
  <2>2. Len(w) \in Nat /\ Len(t) \in Nat
    BY <1>4
  <2>3. QED
    BY <2>1, <2>2
<1> USE DEF w, t
<1>6. wire'[c] = u
  BY <1>3 DEF TypeOK
<1>7. InOrder(u, c)
  BY <1>1 DEF Written, Flow
<1> HIDE DEF u, t
<1>8. \A i \in DOMAIN u : u[i].of <= request[c]
  <2>1. \A i \in 1 .. Len(w) : w[i].of <= request[c]
    BY <1>4 DEF ClientOf
  <2>2. ASSUME NEW i \in DOMAIN u PROVE u[i].of <= request[c]
    <3>1. CASE i \in 1 .. Len(w)
      BY <1>5, <2>1, <3>1
    <3>2. CASE i \notin 1 .. Len(w)
      BY <1>2, <1>4, <1>5, <3>2
    <3>3. QED
      BY <3>1, <3>2
  <2>3. QED
    BY <2>2
<1>9. CASE c \in Pipelining
  BY <1>3, <1>6, <1>8, <1>9 DEF ClientOf
<1>10. CASE c \notin Pipelining
  <2>1. /\ parsed[c] <= Len(w) /\ (parsed[c] = 0 => got[c] = <<>>)
        /\ (parsed[c] > 0 => w[parsed[c]].of = Len(got[c]) /\ w[parsed[c]].header # Plain)
    BY <1>3, <1>10 DEF ClientOf
  <2>2. parsed[c] > 0 => parsed[c] \in 1 .. Len(w) /\ parsed[c] \in DOMAIN u
    BY <1>4, <1>5, <2>1
  <2>3. parsed[c] > 0 => u[parsed[c]] = w[parsed[c]]
    BY <1>5, <2>2
  <2>4. ASSUME NEW p \in parsed[c] + 1 .. Len(u), u[p].part = "head"
        PROVE  u[p].of > Len(got[c])
    <3>1. p \in DOMAIN u /\ u[p].of \in Nat /\ u[p].of > 0 /\ parsed[c] < p
      <4>1. p \in DOMAIN u /\ parsed[c] < p
        BY <1>4, <1>5
      <4>2. QED
        BY <1>5, <1>7, <4>1, OfGrows
    <3>2. CASE parsed[c] = 0
      BY <2>1, <3>1, <3>2
    <3>3. CASE parsed[c] > 0
      <4>1. u[parsed[c]].of < u[p].of
        BY <1>5, <1>7, <2>2, <2>4, <3>1, <3>3, OfGrows
      <4>2. QED
        BY <1>4, <2>1, <2>3, <3>1, <3>3, <4>1
    <3>4. QED
      BY <1>4, <3>2, <3>3
  <2>5. parsed[c] <= Len(u)
    BY <1>4, <1>5, <2>1
  <2>6. QED
    BY <1>3, <1>6, <1>8, <1>10, <2>1, <2>3, <2>4, <2>5 DEF ClientOf
<1>11. QED
  BY <1>9, <1>10

\* Every step of a connection keeps ClientOf.
LEMMA ClientOwnStep ==
  ASSUME TypeOK, WriterInv, OnlyOwn, FlowInv, NEW c \in Conns, ClientOf(c),
         \/ ClientSend(c) \/ ClientRead(c) \/ Break(c) \/ LoopStep(c)
         \/ HandlerSetsHeader(c) \/ HandlerWrites(c) \/ HandlerFlushes(c) \/ HandlerEnds(c)
  PROVE  ClientOf(c)'
<1> USE DEF clientVars, loopVars, writerVars, poolVars, Goto
<1>1. ASSUME UNCHANGED <<clientVars, wire>>, link'[c] \in {link[c], "closed"},
             request'[c] \in Nat, request[c] <= request'[c]
      PROVE  ClientOf(c)'
  BY <1>1, ClientStill
<1>2. request[c] \in Nat /\ ahead[c] \in Nat /\ request[c] <= ahead[c]
      /\ request[c] <= request[c] /\ request[c] <= request[c] + 1
  BY DEF TypeOK
<1>3. CASE ClientSend(c)
  <2>1. /\ c \notin Pipelining => Len(got[c]) = sent[c]
        /\ sent' = [sent EXCEPT ![c] = @ + 1]
        /\ UNCHANGED <<link, got, parsed, wire, request>>
    BY <1>3 DEF ClientSend
  <2>2. sent'[c] = sent[c] + 1 /\ sent[c] \in Nat
    BY <2>1 DEF TypeOK
  <2>3. QED
    BY <2>1, <2>2 DEF ClientOf
<1>4. CASE ClientRead(c)
  BY <1>4, FlowWires, ClientReads
<1>5. CASE Send(c)
  <2>1. writer[c] # NoWriter /\ target[writer[c]] = c
    BY <1>5 DEF Send, OnlyOwn
  <2>2. Written(Flow(c), c)
    BY <1>5, <2>1 DEF Send, FlowInv, Status
  <2>3. QED
    BY <1>5, <2>2, ClientSends
<1>6. CASE BeginRead(c)
  BY <1>1, <1>2, <1>6 DEF BeginRead, TypeOK
<1>7. CASE ReadRequest(c)
  BY <1>1, <1>2, <1>7 DEF ReadRequest, TypeOK
<1>8. CASE Break(c) \/ AfterRequest(c) \/ HandleException(c)
  BY <1>1, <1>2, <1>8 DEF Break, AfterRequest, HandleException, TypeOK
<1>9. CASE ReadFails(c) \/ BeginFlush(c) \/ SendFails(c) \/ PutBack(c)
  BY <1>1, <1>2, <1>9 DEF ReadFails, BeginFlush, SendFails, PutBack
<1>10. CASE HandlerSetsHeader(c) \/ HandlerWrites(c) \/ HandlerFlushes(c) \/ HandlerEnds(c)
  BY <1>1, <1>2, <1>10 DEF HandlerSetsHeader, HandlerWrites, HandlerFlushes, HandlerEnds
<1>11. QED
  BY <1>3, <1>4, <1>5, <1>6, <1>7, <1>8, <1>9, <1>10 DEF LoopStep

\* A client looks at nothing a step of another connection changes.
LEMMA ClientOthers ==
  ASSUME TypeOK, WriterInv, OnlyOwn, NEW c \in Conns, NEW e \in Conns, e # c,
         \/ ClientSend(c) \/ ClientRead(c) \/ Break(c) \/ LoopStep(c)
         \/ HandlerSetsHeader(c) \/ HandlerWrites(c) \/ HandlerFlushes(c) \/ HandlerEnds(c),
         ClientOf(e)
  PROVE  ClientOf(e)'
<1> USE DEF clientVars
<1>1. Same(e)
  BY OthersSame
<1>2. sent'[e] = sent[e] /\ got'[e] = got[e] /\ parsed'[e] = parsed[e]
  <2>1. CASE ClientSend(c)
    BY <2>1 DEF ClientSend, TypeOK
  <2>2. CASE ClientRead(c)
    BY <2>2 DEF ClientRead, TypeOK
  <2>3. CASE LoopStep(c) \/ Break(c)
    BY <2>3 DEF LoopStep, Break, BeginRead, ReadRequest, ReadFails, AfterRequest,
                HandleException, BeginFlush, Send, SendFails, PutBack
  <2>4. CASE HandlerSetsHeader(c) \/ HandlerWrites(c) \/ HandlerFlushes(c) \/ HandlerEnds(c)
    BY <2>4 DEF HandlerSetsHeader, HandlerWrites, HandlerFlushes, HandlerEnds
  <2>5. QED
    BY <2>1, <2>2, <2>3, <2>4
<1>3. request[e] \in Nat /\ request[e] <= request[e]
  BY DEF TypeOK
<1>4. QED
  BY <1>1, <1>2, <1>3, ClientStill DEF Same

\* Every step keeps ClientInv.
LEMMA ClientStep ==
  TypeOK /\ WriterInv /\ OnlyOwn /\ FlowInv /\ ClientInv /\ [Next]_vars => ClientInv'
<1> SUFFICES ASSUME TypeOK, WriterInv, OnlyOwn, FlowInv, ClientInv, [Next]_vars,
                    NEW e \in Conns
             PROVE  ClientOf(e)'
  BY DEF ClientInv
<1>1. ClientOf(e)
  BY DEF ClientInv
<1>2. ASSUME NEW c \in Conns,
             \/ ClientSend(c) \/ ClientRead(c) \/ Break(c) \/ LoopStep(c)
             \/ HandlerSetsHeader(c) \/ HandlerWrites(c) \/ HandlerFlushes(c) \/ HandlerEnds(c)
      PROVE  ClientOf(e)'
  <2>1. CASE c = e
    BY <1>1, <1>2, <2>1, ClientOwnStep
  <2>2. CASE c # e
    BY <1>1, <1>2, <2>2, ClientOthers
  <2>3. QED
    BY <2>1, <2>2
<1>3. CASE UNCHANGED vars
  <2>1. request[e] \in Nat /\ request[e] <= request[e]
    BY DEF TypeOK
  <2>2. QED
    BY <1>1, <1>3, <2>1, ClientStill DEF vars, clientVars, loopVars
<1>4. QED
  BY <1>2, <1>3 DEF Next, Done

\* The k-th response that ClientCodec delivers is the one to the k-th request,
\* although its reader drops what it has read ahead, for orderly handlers and as
\* long as none has called Flush in a chunked response (response.go, HandleRead).
THEOREM AnswersMatchHolds == Orderly => (Spec => []AnswersMatch)
<1> SUFFICES ASSUME Orderly PROVE Spec => []AnswersMatch
  OBVIOUS
<1> DEFINE Kept == flushed = {} => FlowInv /\ ClientInv
<1>1. Init => Kept
  BY InitFlow, InitClient
<1>2. TypeOK /\ Unmixed /\ Kept /\ [Next]_vars => Kept'
  BY FlowStep, ClientStep, FlushedStays DEF Unmixed
<1>3. Kept => AnswersMatch
  BY DEF ClientInv, ClientOf, AnswersMatch
<1>4. QED
  BY <1>1, <1>2, <1>3, OrderlyInvariant, PTL DEF Spec
=============================================================================
