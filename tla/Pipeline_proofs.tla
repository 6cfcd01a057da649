-------------------------- MODULE Pipeline_proofs ---------------------------
(***************************************************************************)
(* Proofs about Pipeline, for any number of handlers that implement any    *)
(* events: the list is the sequence it should be, lookups agree with it,   *)
(* and events go to the nearest handler.                                   *)
(***************************************************************************)
EXTENDS Pipeline, TLAPS

\* What InsertAt returns.
LEMMA InsertLemma ==
  ASSUME NEW S, NEW s \in Seq(S), NEW e \in S, NEW i \in 1 .. Len(s) + 1
  PROVE  /\ InsertAt(s, i, e) \in Seq(S) /\ Len(InsertAt(s, i, e)) = Len(s) + 1
         /\ \A j \in 1 .. Len(s) + 1 :
              InsertAt(s, i, e)[j] = IF j < i THEN s[j] ELSE IF j = i THEN e ELSE s[j - 1]
<1> DEFINE a == SubSeq(s, 1, i - 1)
           b == SubSeq(s, i, Len(s))
<1>1. /\ a \in Seq(S) /\ Len(a) = i - 1
      /\ \A j \in 1 .. i - 1 : a[j] = s[j]
  OBVIOUS
<1>2. /\ b \in Seq(S) /\ Len(b) = Len(s) - i + 1
      /\ \A j \in 1 .. Len(s) - i + 1 : b[j] = s[i + j - 1]
  OBVIOUS
<1>3. InsertAt(s, i, e) = a \o <<e>> \o b
  BY DEF InsertAt
<1> HIDE DEF a, b
<1> DEFINE c == a \o <<e>>
<1>4. /\ c \in Seq(S) /\ Len(c) = i
      /\ \A j \in 1 .. i - 1 : c[j] = s[j]
      /\ c[i] = e
  BY <1>1
<1>5. InsertAt(s, i, e) = c \o b
  BY <1>3
<1> HIDE DEF c
<1>6. InsertAt(s, i, e) \in Seq(S) /\ Len(InsertAt(s, i, e)) = Len(s) + 1
  BY <1>2, <1>4, <1>5
<1>7. ASSUME NEW j \in 1 .. Len(s) + 1
      PROVE  InsertAt(s, i, e)[j] = IF j < i THEN s[j] ELSE IF j = i THEN e ELSE s[j - 1]
  <2>1. CASE j <= i
    BY <1>2, <1>4, <1>5, <2>1
  <2>2. CASE j > i
    <3>1. j - i \in 1 .. Len(s) - i + 1
      BY <2>2
    <3>2. b[j - i] = s[i + (j - i) - 1]
      BY <1>2, <3>1
    <3>3. (c \o b)[j] = b[j - i]
      BY <1>2, <1>4, <2>2
    <3>4. QED
      BY <1>5, <2>2, <3>2, <3>3
  <2>3. QED
    BY <2>1, <2>2
<1>8. QED
  BY <1>6, <1>7

-----------------------------------------------------------------------------
(* Types.                                                                  *)

\* The head and the tail are what they are.
Ends == casts[head] = {"write"} /\ casts[tail] = {"exception"}

\* The operation has got where its index says.
Cursor ==
  /\ op \in {"seek", "seekContext", "seekIndex", "seekLast", "after"} =>
       pos \in 0 .. size - 1 /\ cur = chain[pos + 1]
  /\ op \in {"seek", "seekContext"} => goal < size /\ (pos = 0 \/ pos <= goal)
  /\ op = "seek" => goal < size - 1
  /\ op = "after" => pos < size - 1
  /\ op = "seekIndex" => \A i \in 1 .. pos : chain[i] \notin match
  /\ op = "seekLast" => \A i \in pos + 2 .. size : chain[i] \notin match

\* No handler between where the event comes from and where it has got to
\* takes it.
Travel ==
  op = "event" =>
    \E i, j \in 1 .. size :
      /\ chain[i] = event.from /\ chain[j] = cur
      /\ IF event.kind = "write"
         THEN j <= i /\ \A m \in j .. i - 1 : event.kind \notin casts[chain[m]]
         ELSE i <= j /\ \A m \in i + 1 .. j : event.kind \notin casts[chain[m]]

\* Handlers run at contexts of the list.
InList == \A f \in DOMAIN stack : \E i \in 1 .. size : chain[i] = stack[f].at

IInv == TypeOK /\ Linked /\ Ends /\ Cursor /\ LookupsAgree /\ Travel /\ InList /\ NothingFallsOff

\* The pipeline starts as a list of the head and the tail.
LEMMA InitInv == Init => IInv
<1> SUFFICES ASSUME Init PROVE IInv
  OBVIOUS
<1> USE PipelineAssumption DEF Init, head, tail, Nil
<1>1. TypeOK
  <2>1. next \in [Nodes -> Nodes \cup {Nil}] /\ prev \in [Nodes -> Nodes \cup {Nil}]
    BY DEF Nodes
  <2>2. casts \in [Nodes -> SUBSET Kinds]
    <3>1. \A n \in Nodes : casts[n] \in SUBSET Kinds
      BY DEF Kinds
    <3>2. QED
      BY <3>1
  <2>3. chain \in Seq(Nodes) /\ size \in Nat
    BY DEF Nodes
  <2>4. /\ op \in Ops /\ cur \in Nodes /\ pos \in Int /\ goal \in Int
        /\ match \in SUBSET Nodes /\ op # "event"
    BY DEF Nodes, Ops
  <2>8. closed \in BOOLEAN
    OBVIOUS
  <2>5. stack \in Seq([kind : Kinds, at : Nodes, recovers : Recovers])
    OBVIOUS
  <2>6. event \in [kind : Kinds \cup {"none"}, from : Nodes, recovers : Recovers]
    BY DEF Nodes, Recovers, NoEvent
  <2>7. QED
    BY <2>1, <2>2, <2>3, <2>4, <2>5, <2>6, <2>8 DEF TypeOK
<1>2. Linked
  BY DEF Linked, Nodes
<1>3. Ends /\ Cursor /\ LookupsAgree /\ Travel /\ InList /\ NothingFallsOff
  BY DEF Ends, Cursor, LookupsAgree, Travel, InList, NothingFallsOff, Nodes
<1>4. QED
  BY <1>1, <1>2, <1>3 DEF IInv

-----------------------------------------------------------------------------
(* Adding handlers.                                                        *)

\* A new context between neighbours keeps the list linked.
LEMMA LinkStep ==
  ASSUME TypeOK, Linked, Ends, NEW k \in 1 .. size - 1, NEW n \in Contexts, Unused(n),
         Link(chain[k], n, chain[k + 1]), chain' = InsertAt(chain, k + 1, n)
  PROVE  /\ next' \in [Nodes -> Nodes \cup {Nil}] /\ prev' \in [Nodes -> Nodes \cup {Nil}]
         /\ casts' \in [Nodes -> SUBSET Kinds] /\ size' \in Nat /\ chain' \in Seq(Nodes)
         /\ Linked' /\ Ends'
         /\ \A i \in 1 .. size' :
              chain'[i] = IF i <= k THEN chain[i] ELSE IF i = k + 1 THEN n ELSE chain[i - 1]
         /\ size' = size + 1
<1>1. /\ n \in Nodes /\ n # head /\ n # tail /\ n # Nil /\ head # tail
      /\ chain \in Seq(Nodes) /\ size = Len(chain) /\ size \in Nat /\ k + 1 \in 1 .. Len(chain) + 1
      /\ chain[k] \in Nodes /\ chain[k + 1] \in Nodes
  BY PipelineAssumption DEF TypeOK, Linked, Nodes, head, tail, Nil
<1>2. /\ chain' \in Seq(Nodes) /\ Len(chain') = Len(chain) + 1
      /\ \A j \in 1 .. Len(chain) + 1 :
           chain'[j] = IF j < k + 1 THEN chain[j] ELSE IF j = k + 1 THEN n ELSE chain[j - 1]
  <2> DEFINE c == InsertAt(chain, k + 1, n)
  <2>1. /\ c \in Seq(Nodes) /\ Len(c) = Len(chain) + 1
        /\ \A j \in 1 .. Len(chain) + 1 :
             c[j] = IF j < k + 1 THEN chain[j] ELSE IF j = k + 1 THEN n ELSE chain[j - 1]
    <3> DEFINE i == k + 1
    <3>1. chain \in Seq(Nodes) /\ n \in Nodes /\ i \in 1 .. Len(chain) + 1
      BY <1>1
    <3> HIDE DEF i
    <3>2. /\ InsertAt(chain, i, n) \in Seq(Nodes) /\ Len(InsertAt(chain, i, n)) = Len(chain) + 1
          /\ \A j \in 1 .. Len(chain) + 1 :
               InsertAt(chain, i, n)[j] =
                 IF j < i THEN chain[j] ELSE IF j = i THEN n ELSE chain[j - 1]
      BY ONLY <3>1, InsertLemma
    <3>3. QED
      BY ONLY <3>2 DEF i
  <2> HIDE DEF c
  <2>2. chain' = c
    BY DEF c
  <2>3. QED
    BY ONLY <2>1, <2>2
<1>3. /\ size' = size + 1
      /\ \A i \in 1 .. size + 1 :
           chain'[i] = IF i <= k THEN chain[i] ELSE IF i = k + 1 THEN n ELSE chain[i - 1]
  BY <1>1, <1>2 DEF Link
<1>4. /\ next' \in [Nodes -> Nodes \cup {Nil}] /\ prev' \in [Nodes -> Nodes \cup {Nil}]
      /\ casts' \in [Nodes -> SUBSET Kinds]
  BY <1>1, PipelineAssumption DEF TypeOK, Link
<1>5. Ends'
  BY <1>1 DEF Ends, Link, TypeOK, Nodes
<1>6. \A i \in 1 .. size : chain[i] # n
  BY <1>1 DEF Unused
<1>7. Linked'
  <2>1. size' = Len(chain') /\ size' >= 2 /\ chain'[1] = head /\ chain'[size'] = tail
    BY <1>1, <1>2, <1>3 DEF Linked
  <2>2. \A i, j \in 1 .. size' : chain'[i] = chain'[j] => i = j
    BY <1>1, <1>3, <1>6 DEF Linked
  <2>3. ASSUME NEW i \in 1 .. size' - 1
        PROVE  next'[chain'[i]] = chain'[i + 1] /\ prev'[chain'[i + 1]] = chain'[i]
    <3>1. /\ next' = [next EXCEPT ![n] = chain[k + 1], ![chain[k]] = n]
          /\ prev' = [prev EXCEPT ![n] = chain[k], ![chain[k + 1]] = n]
      BY DEF Link
    <3>2. next \in [Nodes -> Nodes \cup {Nil}] /\ prev \in [Nodes -> Nodes \cup {Nil}]
      BY DEF TypeOK
    <3>3. CASE i < k
      <4>1. chain'[i] = chain[i] /\ chain'[i + 1] = chain[i + 1] /\ i \in 1 .. size - 1
            /\ i + 1 \in 1 .. size
        BY <1>1, <1>3, <3>3
      <4>2. chain[i] # chain[k] /\ chain[i + 1] # chain[k + 1] /\ chain[i] # n /\ chain[i + 1] # n
        BY <1>1, <1>6, <3>3, <4>1 DEF Linked
      <4>3. chain[i] \in Nodes /\ chain[i + 1] \in Nodes
        BY <1>1, <4>1
      <4>4. next'[chain[i]] = next[chain[i]] /\ prev'[chain[i + 1]] = prev[chain[i + 1]]
        BY <3>1, <3>2, <4>2, <4>3
      <4>5. QED
        BY <4>1, <4>4 DEF Linked
    <3>4. CASE i = k
      <4>1. chain'[i] = chain[k] /\ chain'[i + 1] = n
        BY <1>1, <1>3, <3>4
      <4>2. chain[k] # n /\ chain[k + 1] # n
        BY <1>1, <1>6
      <4>3. QED
        BY <1>1, <3>1, <3>2, <4>1, <4>2
    <3>5. CASE i = k + 1
      <4>1. chain'[i] = n /\ chain'[i + 1] = chain[k + 1]
        BY <1>1, <1>3, <3>5
      <4>2. chain[k] # n /\ chain[k + 1] # n
        BY <1>1, <1>6
      <4>3. QED
        BY <1>1, <3>1, <3>2, <4>1, <4>2
    <3>6. CASE i > k + 1
      <4>1. /\ chain'[i] = chain[i - 1] /\ chain'[i + 1] = chain[i]
            /\ i - 1 \in 1 .. size - 1 /\ i \in 1 .. size /\ i - 1 > k
        BY <1>1, <1>3, <3>6
      <4>2. chain[i - 1] # chain[k] /\ chain[i] # chain[k + 1] /\ chain[i - 1] # n /\ chain[i] # n
        BY <1>1, <1>6, <3>6, <4>1 DEF Linked
      <4>3. chain[i - 1] \in Nodes /\ chain[i] \in Nodes
        BY <1>1, <4>1
      <4>4. next'[chain[i - 1]] = next[chain[i - 1]] /\ prev'[chain[i]] = prev[chain[i]]
        BY <3>1, <3>2, <4>2, <4>3
      <4>5. next[chain[i - 1]] = chain[(i - 1) + 1] /\ prev[chain[(i - 1) + 1]] = chain[i - 1]
        BY <4>1 DEF Linked
      <4>6. QED
        BY <4>1, <4>4, <4>5
    <3>7. QED
      BY <1>1, <1>3, <3>3, <3>4, <3>5, <3>6
  <2>4. prev'[head] = Nil /\ next'[tail] = Nil
    <3>1. chain[k + 1] # head /\ chain[k] # tail
      BY <1>1 DEF Linked
    <3>2. QED
      BY <1>1, <3>1 DEF Linked, Link, TypeOK, Nodes
  <2>5. QED
    BY <1>3, <2>1, <2>2, <2>3, <2>4 DEF Linked
<1>8. QED
  BY <1>1, <1>2, <1>3, <1>4, <1>5, <1>7

-----------------------------------------------------------------------------
(* The steps.                                                              *)

\* An operation that leaves list, stack and event alone keeps the invariant if
\* the operation is well typed and has got where it says.
LEMMA SeekStep ==
  ASSUME IInv, UNCHANGED <<listVars, callVars>>, op' \in Ops \ {"event"}, cur' \in Nodes,
         pos' \in Int, goal' \in Int, match' \in SUBSET Nodes, Cursor', LookupsAgree'
  PROVE  IInv'
<1> USE DEF IInv, listVars, callVars
<1>1. TypeOK'
  BY DEF TypeOK
<1>2. Linked' /\ Ends' /\ InList'
  BY DEF Linked, Ends, InList
<1>3. Travel' /\ NothingFallsOff'
  BY DEF Travel, NothingFallsOff
<1>4. QED
  BY <1>1, <1>2, <1>3

\* The operations on the list keep the invariant.
LEMMA ListSteps ==
  IInv /\ (AddFirst \/ AddLast \/ AddHandler \/ SeekPosition \/ Added \/ ContextAt
           \/ SeekContext \/ IndexOf \/ LastIndexOf \/ SeekIndex \/ SeekLast \/ Answered)
  => IInv'
<1> SUFFICES ASSUME IInv,
                    AddFirst \/ AddLast \/ AddHandler \/ SeekPosition \/ Added \/ ContextAt
                    \/ SeekContext \/ IndexOf \/ LastIndexOf \/ SeekIndex \/ SeekLast
                    \/ Answered
             PROVE  IInv'
  OBVIOUS
<1> DEFINE Good == /\ UNCHANGED <<listVars, callVars>> /\ op' \in Ops \ {"event"}
                   /\ cur' \in Nodes /\ pos' \in Int /\ goal' \in Int
                   /\ match' \in SUBSET Nodes /\ Cursor' /\ LookupsAgree'
<1> USE DEF Begin, Finish, Ops, Nodes
<1>1. TypeOK /\ Linked /\ Cursor /\ LookupsAgree
  BY DEF IInv
<1>2. /\ chain[1] = head /\ chain[size] = tail /\ size \in Nat /\ size >= 2 /\ size = Len(chain)
      /\ \A i \in 1 .. size : chain[i] \in Nodes
  BY <1>1 DEF TypeOK, Linked
<1>3. ASSUME AddFirst \/ AddLast \/ Added \/ Answered PROVE Good
  BY <1>3 DEF AddFirst, AddLast, Added, Answered, Cursor, LookupsAgree
<1>4. ASSUME AddHandler \/ ContextAt PROVE Good
  BY <1>2, <1>4 DEF AddHandler, ContextAt, Cursor, LookupsAgree, listVars
<1>5. ASSUME SeekPosition \/ SeekContext PROVE Good
  BY <1>1, <1>2, <1>5
     DEF SeekPosition, SeekContext, Seek, Cursor, LookupsAgree, listVars, TypeOK, Linked
<1>6. ASSUME IndexOf \/ LastIndexOf PROVE Good
  BY <1>2, <1>6 DEF IndexOf, LastIndexOf, Cursor, LookupsAgree, listVars
<1>7. Nil \notin Nodes
  BY PipelineAssumption DEF head, tail, Nil
<1>8. ASSUME SeekIndex PROVE Good
  <2>1. op = "seekIndex" /\ pos \in 0 .. size - 1 /\ cur = chain[pos + 1]
        /\ \A i \in 1 .. pos : chain[i] \notin match
    BY <1>1, <1>8 DEF SeekIndex, SeekHandler, Cursor
  <2>2. IF pos < size - 1 THEN next[cur] = chain[pos + 2] ELSE next[cur] = Nil
    <3>1. CASE pos < size - 1
      <4>1. pos + 1 \in 1 .. size - 1
        BY <1>2, <2>1, <3>1
      <4>2. next[chain[pos + 1]] = chain[(pos + 1) + 1]
        BY <1>1, <4>1 DEF Linked
      <4>3. QED
        BY <2>1, <3>1, <4>2
    <3>2. CASE ~(pos < size - 1)
      BY <1>1, <1>2, <2>1, <3>2 DEF Linked
    <3>3. QED
      BY <3>1, <3>2
  <2>3. UNCHANGED <<listVars, callVars>> /\ match' = match /\ goal' = 0
    BY <1>8 DEF SeekIndex, SeekHandler
  <2>4. CASE cur \in match
    BY <1>1, <1>2, <1>8, <2>1, <2>3, <2>4
       DEF SeekIndex, SeekHandler, Cursor, LookupsAgree, listVars, TypeOK
  <2>5. CASE cur \notin match /\ next[cur] = Nil
    <3>1. pos = size - 1
      BY <1>2, <1>7, <2>1, <2>2, <2>5
    <3>2. op' = "index" /\ pos' = -1 /\ cur' = cur
      BY <1>8, <2>5 DEF SeekIndex, SeekHandler
    <3>3. \A i \in 1 .. size : chain[i] \notin match
      BY <1>2, <2>1, <2>5, <3>1
    <3>4. QED
      BY <1>1, <2>1, <2>3, <3>2, <3>3 DEF Cursor, LookupsAgree, listVars, TypeOK
  <2>6. CASE cur \notin match /\ next[cur] # Nil
    <3>1. op' = "seekIndex" /\ pos' = pos + 1 /\ cur' = chain[pos + 2] /\ pos + 1 \in 1 .. size - 1
      BY <1>2, <1>8, <2>1, <2>2, <2>6 DEF SeekIndex, SeekHandler
    <3>2. \A i \in 1 .. pos + 1 : chain[i] \notin match
      BY <1>2, <2>1, <2>6
    <3>3. QED
      BY <1>1, <1>2, <2>1, <2>3, <3>1, <3>2 DEF Cursor, LookupsAgree, listVars, TypeOK
  <2>7. QED
    BY <2>4, <2>5, <2>6
<1>9. ASSUME SeekLast PROVE Good
  <2>1. op = "seekLast" /\ pos \in 0 .. size - 1 /\ cur = chain[pos + 1]
        /\ \A i \in pos + 2 .. size : chain[i] \notin match
    BY <1>1, <1>9 DEF SeekLast, SeekHandler, Cursor
  <2>2. IF pos > 0 THEN prev[cur] = chain[pos] ELSE prev[cur] = Nil
    <3>1. CASE pos > 0
      BY <1>1, <1>2, <2>1, <3>1 DEF Linked
    <3>2. CASE ~(pos > 0)
      BY <1>1, <1>2, <2>1, <3>2 DEF Linked
    <3>3. QED
      BY <3>1, <3>2
  <2>3. UNCHANGED <<listVars, callVars>> /\ match' = match /\ goal' = 0
    BY <1>9 DEF SeekLast, SeekHandler
  <2>4. CASE cur \in match
    BY <1>1, <1>2, <1>9, <2>1, <2>3, <2>4
       DEF SeekLast, SeekHandler, Cursor, LookupsAgree, listVars, TypeOK
  <2>5. CASE cur \notin match /\ prev[cur] = Nil
    <3>1. pos = 0
      BY <1>2, <1>7, <2>1, <2>2, <2>5
    <3>2. op' = "lastIndex" /\ pos' = -1 /\ cur' = cur
      BY <1>9, <2>5 DEF SeekLast, SeekHandler
    <3>3. \A i \in 1 .. size : chain[i] \notin match
      BY <1>2, <2>1, <2>5, <3>1
    <3>4. QED
      BY <1>1, <2>1, <2>3, <3>2, <3>3 DEF Cursor, LookupsAgree, listVars, TypeOK
  <2>6. CASE cur \notin match /\ prev[cur] # Nil
    <3>1. op' = "seekLast" /\ pos' = pos - 1 /\ cur' = chain[pos] /\ pos \in 1 .. size - 1
      BY <1>2, <1>9, <2>1, <2>2, <2>6 DEF SeekLast, SeekHandler
    <3>2. \A i \in pos + 1 .. size : chain[i] \notin match
      BY <1>2, <2>1, <2>6
    <3>3. QED
      BY <1>1, <1>2, <2>1, <2>3, <3>1, <3>2 DEF Cursor, LookupsAgree, listVars, TypeOK
  <2>7. QED
    BY <2>4, <2>5, <2>6
<1>10. QED
  BY <1>3, <1>4, <1>5, <1>6, <1>8, <1>9, SeekStep

\* Adding a handler keeps the invariant, whatever runs.
LEMMA InsertSteps == IInv /\ (InsertFirst \/ InsertLast \/ InsertAfter) => IInv'
<1> SUFFICES ASSUME IInv, InsertFirst \/ InsertLast \/ InsertAfter PROVE IInv'
  OBVIOUS
<1>1. TypeOK /\ Linked /\ Ends /\ Cursor /\ InList
  BY DEF IInv
<1>2. /\ chain[1] = head /\ chain[size] = tail /\ size \in Nat /\ size >= 2 /\ size = Len(chain)
  BY <1>1 DEF TypeOK, Linked
<1>3. PICK k \in 1 .. size - 1, n \in Contexts :
        /\ Unused(n) /\ Link(chain[k], n, chain[k + 1]) /\ chain' = InsertAt(chain, k + 1, n)
        /\ \/ op \in {"first", "last"} /\ UNCHANGED <<op, seekVars, callVars>>
           \/ /\ op = "after" /\ Begin("after", n, pos + 1, goal, {}) /\ UNCHANGED callVars
              /\ k = pos + 1
  <2>1. CASE InsertFirst
    <3>1. next[head] = chain[1 + 1] /\ 1 \in 1 .. size - 1 /\ 2 = 1 + 1
      BY <1>1, <1>2 DEF Linked
    <3>2. PICK n \in Contexts :
            Unused(n) /\ Link(chain[1], n, chain[1 + 1]) /\ chain' = InsertAt(chain, 1 + 1, n)
      BY <1>2, <2>1, <3>1 DEF InsertFirst
    <3>3. op = "first" /\ UNCHANGED <<op, seekVars, callVars>>
      BY <2>1 DEF InsertFirst
    <3>4. QED
      BY <3>1, <3>2, <3>3
  <2>2. CASE InsertLast
    <3>1. size - 1 \in 1 .. size - 1 /\ (size - 1) + 1 = size
      BY <1>2
    <3>2. prev[chain[(size - 1) + 1]] = chain[size - 1]
      BY <1>1, <3>1 DEF Linked
    <3>3. prev[tail] = chain[size - 1] /\ Len(chain) = (size - 1) + 1
      BY <1>2, <3>1, <3>2
    <3>4. PICK n \in Contexts :
            /\ Unused(n) /\ Link(chain[size - 1], n, chain[(size - 1) + 1])
            /\ chain' = InsertAt(chain, (size - 1) + 1, n)
      BY <1>2, <2>2, <3>1, <3>3 DEF InsertLast
    <3>5. op = "last" /\ UNCHANGED <<op, seekVars, callVars>>
      BY <2>2 DEF InsertLast
    <3>6. QED
      BY <3>1, <3>4, <3>5
  <2>3. CASE InsertAfter
    <3>1. op = "after" /\ pos + 1 \in 1 .. size - 1 /\ cur = chain[pos + 1] /\ pos \in Int
      BY <1>1, <1>2, <2>3 DEF InsertAfter, Cursor
    <3>2. next[cur] = chain[(pos + 1) + 1] /\ pos + 2 = (pos + 1) + 1
      BY <1>1, <3>1 DEF Linked
    <3>3. PICK n \in Contexts :
            /\ Unused(n) /\ Link(chain[pos + 1], n, chain[(pos + 1) + 1])
            /\ chain' = InsertAt(chain, (pos + 1) + 1, n)
            /\ Begin("after", n, pos + 1, goal, {})
      BY <2>3, <3>1, <3>2 DEF InsertAfter
    <3>4. UNCHANGED callVars
      BY <2>3 DEF InsertAfter
    <3>5. QED
      BY <3>1, <3>3, <3>4
  <2>4. QED
    BY <2>1, <2>2, <2>3
<1>4. /\ next' \in [Nodes -> Nodes \cup {Nil}] /\ prev' \in [Nodes -> Nodes \cup {Nil}]
      /\ casts' \in [Nodes -> SUBSET Kinds] /\ size' \in Nat /\ chain' \in Seq(Nodes)
      /\ Linked' /\ Ends'
      /\ \A i \in 1 .. size' :
           chain'[i] = IF i <= k THEN chain[i] ELSE IF i = k + 1 THEN n ELSE chain[i - 1]
      /\ size' = size + 1
  BY <1>1, <1>3, LinkStep
<1>5. /\ op' = op /\ op \in {"first", "last", "after"} /\ event' = event /\ stack' = stack
      /\ closed' = closed
  BY <1>3 DEF Begin, callVars
<1>6. TypeOK'
  <2>1. cur' \in Nodes /\ pos' \in Int /\ goal' \in Int /\ match' \in SUBSET Nodes
    BY <1>1, <1>3 DEF Begin, seekVars, TypeOK, Nodes
  <2>2. QED
    BY <1>1, <1>4, <1>5, <2>1 DEF TypeOK
<1>7. Cursor'
  <2>1. ASSUME op = "after" PROVE pos' \in 0 .. size' - 1 /\ cur' = chain'[pos' + 1] /\ pos' < size' - 1
    <3>1. k = pos + 1 /\ pos' = k /\ cur' = n
      BY <1>3, <2>1 DEF Begin
    <3>2. chain'[k + 1] = n
      BY <1>2, <1>4
    <3>3. QED
      BY <1>2, <1>4, <3>1, <3>2
  <2>2. QED
    BY <1>5, <2>1 DEF Cursor
<1>8. InList'
  <2> SUFFICES ASSUME NEW f \in DOMAIN stack PROVE \E i \in 1 .. size' : chain'[i] = stack[f].at
    BY <1>5 DEF InList
  <2>1. PICK i \in 1 .. size : chain[i] = stack[f].at
    BY <1>1 DEF InList
  <2>2. CASE i <= k
    BY <1>2, <1>4, <2>1, <2>2
  <2>3. CASE i > k
    <3>1. chain'[i + 1] = chain[i] /\ i + 1 \in 1 .. size'
      BY <1>2, <1>4, <2>3
    <3>2. QED
      BY <2>1, <3>1
  <2>4. QED
    BY <2>2, <2>3
<1>9. LookupsAgree' /\ Travel' /\ NothingFallsOff'
  BY <1>5 DEF LookupsAgree, Travel, NothingFallsOff
<1>10. QED
  BY <1>4, <1>6, <1>7, <1>8, <1>9 DEF IInv

\* An event that leaves a context of the list keeps the invariant; the stack
\* does not grow.
LEMMA LeaveStep ==
  ASSUME IInv, NEW k \in Kinds, NEW i \in 1 .. size, NEW r \in Recovers,
         Leave(k, chain[i], r), UNCHANGED listVars, closed' \in BOOLEAN,
         stack' \in Seq([kind : Kinds, at : Nodes, recovers : Recovers]), InList',
         k = "write" => chain[i] # head, k = "exception" => chain[i] # tail
  PROVE  IInv'
<1>1. /\ op' = "event" /\ cur' = chain[i] /\ event' = [kind |-> k, from |-> chain[i], recovers |-> r]
      /\ pos' = 0 /\ goal' = 0 /\ match' = {}
  BY DEF Leave, Begin
<1>2. TypeOK /\ Linked /\ Ends /\ chain[i] \in Nodes
  BY DEF IInv, TypeOK, Linked
<1>3. UNCHANGED <<next, prev, casts, size, chain>>
  BY DEF listVars
<1>4. TypeOK'
  <2>1. event' \in [kind : Kinds \cup {"none"}, from : Nodes, recovers : Recovers] /\ event'.kind \in Kinds
    BY <1>1, <1>2
  <2>2. op' \in Ops /\ cur' \in Nodes /\ pos' \in Int /\ goal' \in Int /\ match' \in SUBSET Nodes
    BY <1>1, <1>2 DEF Ops
  <2>3. QED
    BY <1>2, <1>3, <2>1, <2>2 DEF TypeOK
<1>5. Linked' /\ Ends'
  BY <1>2, <1>3 DEF Linked, Ends
<1>6. Cursor' /\ LookupsAgree'
  BY <1>1 DEF Cursor, LookupsAgree
<1>7. Travel'
  <2>1. size \in Nat /\ i \in 1 .. size'
    BY <1>2, <1>3 DEF TypeOK
  <2>2. chain'[i] = event'.from /\ chain'[i] = cur'
    BY <1>1, <1>3
  <2>3. i <= i /\ (i .. i - 1) = {} /\ (i + 1 .. i) = {}
    BY <2>1
  <2>4. QED
    BY <2>1, <2>2, <2>3 DEF Travel
<1>8. NothingFallsOff'
  BY <1>1 DEF NothingFallsOff
<1>9. QED
  BY <1>4, <1>5, <1>6, <1>7, <1>8 DEF IInv

\* Calls keep the invariant.
LEMMA CallSteps == IInv /\ (Fire \/ Close \/ PassOn \/ Send) => IInv'
<1> SUFFICES ASSUME IInv, Fire \/ Close \/ PassOn \/ Send PROVE IInv'
  OBVIOUS
<1>1. TypeOK /\ Linked /\ InList
  BY DEF IInv
<1>2. head # tail /\ head \notin Contexts /\ tail \notin Contexts
  BY PipelineAssumption DEF head, tail
<1>3. /\ 1 \in 1 .. size /\ size \in 1 .. size /\ chain[1] = head /\ chain[size] = tail
  BY <1>1 DEF TypeOK, Linked
<1>4. UNCHANGED listVars /\ UNCHANGED stack /\ closed' \in BOOLEAN
  BY <1>1 DEF Fire, Close, PassOn, Send, TypeOK
<1>5. stack' \in Seq([kind : Kinds, at : Nodes, recovers : Recovers]) /\ InList'
  BY <1>1, <1>4 DEF TypeOK, InList, listVars
<1>6. stack # <<>> => /\ Last(stack) = stack[Len(stack)] /\ Len(stack) \in DOMAIN stack
                      /\ Last(stack).kind \in Kinds
  <2> DEFINE F == [kind : Kinds, at : Nodes, recovers : Recovers]
  <2> SUFFICES ASSUME stack # <<>>
               PROVE  /\ Last(stack) = stack[Len(stack)] /\ Len(stack) \in DOMAIN stack
                      /\ Last(stack).kind \in Kinds
    OBVIOUS
  <2>1. stack \in Seq(F)
    BY <1>1 DEF TypeOK
  <2>2. \A f \in F : f.kind \in Kinds
    OBVIOUS
  <2> HIDE DEF F
  <2>3. Len(stack) \in DOMAIN stack /\ stack[Len(stack)] \in F
    BY <2>1
  <2>4. QED
    BY <2>2, <2>3 DEF Last
<1>7. \E k \in Kinds, i \in 1 .. size, r \in Recovers :
        /\ Leave(k, chain[i], r)
        /\ (k = "write" => chain[i] # head) /\ (k = "exception" => chain[i] # tail)
  <2>1. CASE Fire
    <3>1. PICK k \in Kinds : Leave(k, IF k = "write" THEN tail ELSE head, "channel")
      BY <2>1, PipelineAssumption DEF Fire, Call
    <3>2. QED
      BY <1>2, <1>3, <3>1 DEF Recovers
  <2>2. CASE Close
    <3>1. Leave("inactive", head, "channel")
      BY <2>2 DEF Close
    <3>2. QED
      BY <1>3, <3>1 DEF Recovers, Kinds
  <2>3. ASSUME PassOn \/ Send
        PROVE  \E i \in 1 .. size : chain[i] = Last(stack).at /\ Last(stack).at \in Contexts
    <3>1. stack # <<>> /\ Last(stack).at \in Contexts
      BY <2>3 DEF PassOn, Send, UserRuns
    <3>2. QED
      BY <1>1, <1>6, <3>1 DEF InList
  <2>4. CASE PassOn
    <3>1. Leave(Last(stack).kind, Last(stack).at, "no") /\ stack # <<>>
      BY <2>4 DEF PassOn, Call
    <3>2. QED
      BY <1>2, <1>6, <2>3, <2>4, <3>1 DEF Recovers
  <2>5. CASE Send
    <3>1. PICK k \in {"write", "event"} : Leave(k, Last(stack).at, "context")
      BY <2>5 DEF Send, Call
    <3>2. QED
      BY <1>2, <2>3, <2>5, <3>1 DEF Recovers, Kinds
  <2>6. QED
    BY <2>1, <2>2, <2>4, <2>5
<1>8. QED
  BY <1>4, <1>5, <1>7, LeaveStep

\* The walk of an event: it reaches the neighbour, which is still in the list.
LEMMA Neighbour ==
  ASSUME TypeOK, Linked, NEW j \in 1 .. size
  PROVE  /\ IF j < size THEN next[chain[j]] = chain[j + 1] ELSE next[chain[j]] = Nil
         /\ IF j > 1 THEN prev[chain[j]] = chain[j - 1] ELSE prev[chain[j]] = Nil
         /\ \A i \in 1 .. size : chain[i] \in Nodes /\ chain[i] # Nil
<1>1. size \in Nat /\ size = Len(chain) /\ chain \in Seq(Nodes) /\ chain[1] = head /\ chain[size] = tail
  BY DEF TypeOK, Linked
<1>2. IF j < size THEN next[chain[j]] = chain[j + 1] ELSE next[chain[j]] = Nil
  BY <1>1 DEF Linked
<1>3. CASE j > 1
  <2>1. j - 1 \in 1 .. size - 1 /\ (j - 1) + 1 = j
    BY <1>1, <1>3
  <2>2. prev[chain[(j - 1) + 1]] = chain[j - 1]
    BY <2>1 DEF Linked
  <2>3. prev[chain[j]] = chain[j - 1]
    BY <2>1, <2>2
  <2>4. QED
    BY <1>1, <1>2, <1>3, <2>3, PipelineAssumption DEF Nodes, head, tail, Nil
<1>4. CASE ~(j > 1)
  <2>1. prev[chain[j]] = Nil
    BY <1>1, <1>4 DEF Linked
  <2>2. QED
    BY <1>1, <1>2, <1>4, <2>1, PipelineAssumption DEF Nodes, head, tail, Nil
<1>5. QED
  BY <1>3, <1>4

\* What one round of Visit does, in terms of the order of the list: i is where
\* the event comes from, j where it has got to.
LEMMA VisitLemma ==
  ASSUME IInv, Visit
  PROVE  \E i, j \in 1 .. size :
           /\ chain[i] = event.from /\ chain[j] = cur
           /\ IF event.kind = "write"
              THEN j <= i /\ \A m \in j .. i - 1 : event.kind \notin casts[chain[m]]
              ELSE i <= j /\ \A m \in i + 1 .. j : event.kind \notin casts[chain[m]]
           /\ \/ /\ j = (IF event.kind = "write" THEN 1 ELSE size)
                 /\ Finish /\ UNCHANGED stack
              \/ \E m \in 1 .. size :
                   /\ m = (IF event.kind = "write" THEN j - 1 ELSE j + 1)
                   /\ \/ /\ event.kind \in casts[chain[m]] /\ Finish
                         /\ stack' = Append(stack, [kind |-> event.kind, at |-> chain[m],
                                                    recovers |-> event.recovers])
                      \/ /\ event.kind \notin casts[chain[m]]
                         /\ Begin("event", chain[m], 0, 0, {}) /\ UNCHANGED <<event, stack>>
<1>1. TypeOK /\ Linked /\ Travel /\ op = "event"
  BY DEF IInv, Visit
<1>2. PICK i, j \in 1 .. size :
        /\ chain[i] = event.from /\ chain[j] = cur
        /\ IF event.kind = "write"
           THEN j <= i /\ \A m \in j .. i - 1 : event.kind \notin casts[chain[m]]
           ELSE i <= j /\ \A m \in i + 1 .. j : event.kind \notin casts[chain[m]]
  BY <1>1 DEF Travel
<1>3. size \in Nat
  BY <1>1 DEF TypeOK
<1> DEFINE n == IF event.kind = "write" THEN prev[cur] ELSE next[cur]
           m == IF event.kind = "write" THEN j - 1 ELSE j + 1
<1>4. IF m \in 1 .. size THEN n = chain[m] /\ n # Nil
                        ELSE n = Nil /\ j = (IF event.kind = "write" THEN 1 ELSE size)
  <2>1. CASE event.kind = "write"
    BY <1>1, <1>2, <1>3, <2>1, Neighbour
  <2>2. CASE event.kind # "write"
    BY <1>1, <1>2, <1>3, <2>2, Neighbour
  <2>3. QED
    BY <2>1, <2>2
<1>5. IF n = Nil THEN Finish /\ UNCHANGED stack
      ELSE IF event.kind \in casts[n]
      THEN /\ Finish
           /\ stack' = Append(stack, [kind |-> event.kind, at |-> n, recovers |-> event.recovers])
      ELSE Begin("event", n, 0, 0, {}) /\ UNCHANGED <<event, stack>>
  BY DEF Visit
<1>6. m = (IF event.kind = "write" THEN j - 1 ELSE j + 1)
  OBVIOUS
<1> HIDE DEF n, m
<1>7. CASE m \in 1 .. size
  BY <1>2, <1>4, <1>5, <1>6, <1>7
<1>8. CASE m \notin 1 .. size
  BY <1>2, <1>4, <1>5, <1>8
<1>9. QED
  BY <1>7, <1>8

\* A round of the walk of an event keeps the invariant.
LEMMA VisitStep == IInv /\ Visit => IInv'
<1> SUFFICES ASSUME IInv, Visit PROVE IInv'
  OBVIOUS
<1> DEFINE F == [kind : Kinds, at : Nodes, recovers : Recovers]
<1>1. /\ TypeOK /\ Linked /\ Ends /\ InList /\ NothingFallsOff /\ op = "event"
      /\ UNCHANGED <<next, prev, casts, size, chain, closed>>
  BY DEF IInv, Visit, listVars
<1>2. /\ size \in Nat /\ chain[1] = head /\ chain[size] = tail /\ stack \in Seq(F)
      /\ event.kind \in Kinds /\ event.recovers \in Recovers
      /\ \A i \in 1 .. size : chain[i] \in Nodes
  BY <1>1 DEF TypeOK, Linked
<1>3. Linked' /\ Ends'
  BY <1>1 DEF Linked, Ends
<1>4. PICK i, j \in 1 .. size :
        /\ chain[i] = event.from /\ chain[j] = cur
        /\ IF event.kind = "write"
           THEN j <= i /\ \A m \in j .. i - 1 : event.kind \notin casts[chain[m]]
           ELSE i <= j /\ \A m \in i + 1 .. j : event.kind \notin casts[chain[m]]
        /\ \/ Finish /\ UNCHANGED stack
           \/ \E m \in 1 .. size :
                /\ m = (IF event.kind = "write" THEN j - 1 ELSE j + 1)
                /\ \/ /\ event.kind \in casts[chain[m]] /\ Finish
                      /\ stack' = Append(stack, [kind |-> event.kind, at |-> chain[m],
                                                 recovers |-> event.recovers])
                   \/ /\ event.kind \notin casts[chain[m]]
                      /\ Begin("event", chain[m], 0, 0, {}) /\ UNCHANGED <<event, stack>>
  BY VisitLemma
<1>5. CASE op' # "event"
  <2>1. Finish /\ event' \in [kind : Kinds \cup {"none"}, from : Nodes, recovers : Recovers]
    BY <1>1, <1>4, <1>5 DEF Begin, Visit, NoEvent, TypeOK, Nodes, Recovers
  <2>2. \/ stack' = stack
        \/ \E m \in 1 .. size :
             stack' = Append(stack, [kind |-> event.kind, at |-> chain[m],
                                     recovers |-> event.recovers])
    BY <1>4, <1>5 DEF Begin
  <2>3. stack' \in Seq(F) /\ InList'
    <3>1. CASE stack' = stack
      BY <1>1, <1>2, <3>1 DEF InList
    <3>2. ASSUME NEW m \in 1 .. size,
                 stack' = Append(stack, [kind |-> event.kind, at |-> chain[m],
                                         recovers |-> event.recovers])
          PROVE  stack' \in Seq(F) /\ InList'
      <4> DEFINE f == [kind |-> event.kind, at |-> chain[m], recovers |-> event.recovers]
      <4>1. f \in F /\ f.at = chain[m]
        BY <1>2
      <4>2. stack' = Append(stack, f)
        BY <3>2
      <4> HIDE DEF f, F
      <4>3. /\ stack' \in Seq(F) /\ DOMAIN stack' = 1 .. Len(stack) + 1
            /\ DOMAIN stack = 1 .. Len(stack) /\ Len(stack) \in Nat
            /\ \A k \in 1 .. Len(stack) + 1 :
                 stack'[k] = IF k <= Len(stack) THEN stack[k] ELSE f
        BY <1>2, <4>1, <4>2
      <4>4. InList'
        BY <1>1, <4>1, <4>3 DEF InList
      <4>5. QED
        BY <4>3, <4>4
    <3>3. QED
      BY <2>2, <3>1, <3>2
  <2>4. TypeOK'
    BY <1>1, <2>1, <2>3 DEF TypeOK, Finish, Begin, Ops, Nodes
  <2>5. Cursor' /\ LookupsAgree' /\ Travel' /\ NothingFallsOff'
    BY <1>5, <2>1 DEF Cursor, LookupsAgree, Travel, NothingFallsOff, Finish, Begin
  <2>6. QED
    BY <1>3, <2>3, <2>4, <2>5 DEF IInv
<1>6. CASE op' = "event"
  <2>1. PICK m \in 1 .. size :
          /\ m = (IF event.kind = "write" THEN j - 1 ELSE j + 1)
          /\ event.kind \notin casts[chain[m]]
          /\ Begin("event", chain[m], 0, 0, {}) /\ event' = event /\ stack' = stack
    BY <1>4, <1>6 DEF Finish, Begin
  <2>2. TypeOK'
    BY <1>1, <1>2, <2>1 DEF TypeOK, Begin, Ops
  <2>3. Cursor' /\ LookupsAgree' /\ InList'
    BY <1>1, <2>1 DEF Cursor, LookupsAgree, Begin, InList
  <2>4. cur' = chain[m]
    BY <2>1 DEF Begin
  <2>5. Travel'
    <3>1. CASE event.kind = "write"
      <4>1. m <= i /\ \A l \in m .. i - 1 : event.kind \notin casts[chain[l]]
        BY <1>2, <1>4, <2>1, <3>1
      <4>2. QED
        BY <1>1, <1>4, <2>1, <2>4, <3>1, <4>1 DEF Travel
    <3>2. CASE event.kind # "write"
      <4>1. i <= m /\ \A l \in i + 1 .. m : event.kind \notin casts[chain[l]]
        BY <1>2, <1>4, <2>1, <3>2
      <4>2. QED
        BY <1>1, <1>4, <2>1, <2>4, <3>2, <4>1 DEF Travel
    <3>3. QED
      BY <3>1, <3>2
  <2>6. NothingFallsOff'
    BY <1>1, <2>1, <2>4 DEF NothingFallsOff, Ends
  <2>7. QED
    BY <1>3, <2>2, <2>3, <2>5, <2>6 DEF IInv
<1>7. QED
  BY <1>5, <1>6

\* A prefix of the stack is a stack of handlers in the list.
LEMMA PrefixLemma ==
  ASSUME TypeOK, InList, NEW k \in 0 .. Len(stack), stack' = SubSeq(stack, 1, k),
         UNCHANGED listVars
  PROVE  stack' \in Seq([kind : Kinds, at : Nodes, recovers : Recovers]) /\ InList'
<1> DEFINE F == [kind : Kinds, at : Nodes, recovers : Recovers]
<1>1. stack \in Seq(F)
  BY DEF TypeOK
<1> HIDE DEF F
<1>2. /\ stack' \in Seq(F) /\ DOMAIN stack' = 1 .. k /\ DOMAIN stack = 1 .. Len(stack)
      /\ \A i \in 1 .. k : stack'[i] = stack[i] /\ i \in 1 .. Len(stack)
  BY <1>1
<1>3. chain' = chain /\ size' = size
  BY DEF listVars
<1>4. InList'
  BY <1>2, <1>3 DEF InList
<1>5. QED
  BY <1>2, <1>4 DEF F

\* Handlers that return keep the invariant.
LEMMA ReturnStep == IInv /\ Return => IInv'
<1> SUFFICES ASSUME IInv, Return PROVE IInv'
  OBVIOUS
<1>1. TypeOK /\ Linked /\ Ends /\ InList /\ op = "none" /\ stack # <<>> /\ stack' = Front(stack)
      /\ UNCHANGED <<listVars, seekVars, op, event, closed>>
  BY DEF IInv, Return
<1>2. Len(stack) - 1 \in 0 .. Len(stack) /\ stack' = SubSeq(stack, 1, Len(stack) - 1)
  BY <1>1 DEF TypeOK, Front
<1>3. stack' \in Seq([kind : Kinds, at : Nodes, recovers : Recovers]) /\ InList'
  BY <1>1, <1>2, PrefixLemma
<1>4. TypeOK' /\ Linked' /\ Ends'
  BY <1>1, <1>3 DEF TypeOK, Linked, Ends, listVars, seekVars
<1>5. Cursor' /\ LookupsAgree' /\ Travel' /\ NothingFallsOff'
  BY <1>1 DEF Cursor, LookupsAgree, Travel, NothingFallsOff
<1>6. QED
  BY <1>3, <1>4, <1>5 DEF IInv

\* Handlers that panic keep the invariant.
LEMMA PanicStep == IInv /\ Panic => IInv'
<1> SUFFICES ASSUME IInv, Panic PROVE IInv'
  OBVIOUS
<1>1. /\ TypeOK /\ Linked /\ Ends /\ InList /\ op = "none" /\ UNCHANGED listVars
  BY DEF IInv, Panic
<1>2. 1 \in 1 .. size /\ chain[1] = head /\ head # tail
  BY <1>1, PipelineAssumption DEF TypeOK, Linked, head, tail
<1>3. /\ \E k \in 0 .. Len(stack) : stack' = SubSeq(stack, 1, k)
      /\ closed' \in BOOLEAN
      /\ \/ UNCHANGED <<op, seekVars, event>>
         \/ Leave("inactive", head, "channel")
         \/ Leave("exception", head, "no")
  <2> DEFINE rs == {i \in DOMAIN stack : stack[i].recovers # "no"}
  <2>0. Len(stack) \in Nat /\ DOMAIN stack = 1 .. Len(stack) /\ closed \in BOOLEAN
    BY <1>1 DEF TypeOK
  <2>1. \/ /\ stack' = <<>> /\ closed' = TRUE
           /\ IF closed THEN UNCHANGED <<op, seekVars, event>>
                        ELSE Leave("inactive", head, "channel")
        \/ \E i \in rs :
             /\ stack' = SubSeq(stack, 1, i - 1) /\ closed' = closed
             /\ IF closed /\ stack[i].recovers = "channel"
                THEN UNCHANGED <<op, seekVars, event>>
                ELSE Leave("exception", head, "no")
    BY DEF Panic
  <2>2. CASE stack' = <<>> /\ closed' = TRUE
    <3>1. SubSeq(stack, 1, 0) = <<>> /\ 0 \in 0 .. Len(stack)
      BY <1>1 DEF TypeOK
    <3>2. \E k \in 0 .. Len(stack) : stack' = SubSeq(stack, 1, k)
      BY <2>2, <3>1
    <3>3. closed' \in BOOLEAN
      BY <2>2
    <3>4. \/ UNCHANGED <<op, seekVars, event>>
          \/ Leave("inactive", head, "channel")
          \/ Leave("exception", head, "no")
      BY <2>1
    <3>5. QED
      BY <3>2, <3>3, <3>4
  <2>3. ASSUME NEW i \in rs, stack' = SubSeq(stack, 1, i - 1), closed' = closed
        PROVE  \E k \in 0 .. Len(stack) : stack' = SubSeq(stack, 1, k)
    <3>1. i - 1 \in 0 .. Len(stack)
      BY <2>0
    <3>2. QED
      BY <2>3, <3>1
  <2>4. QED
    BY <2>0, <2>1, <2>2, <2>3
<1>4. stack' \in Seq([kind : Kinds, at : Nodes, recovers : Recovers]) /\ InList'
  BY <1>1, <1>3, PrefixLemma
<1>5. CASE UNCHANGED <<op, seekVars, event>>
  <2>1. TypeOK' /\ Linked' /\ Ends'
    BY <1>1, <1>3, <1>4, <1>5 DEF TypeOK, Linked, Ends, listVars, seekVars
  <2>2. Cursor' /\ LookupsAgree' /\ Travel' /\ NothingFallsOff'
    BY <1>1, <1>5 DEF Cursor, LookupsAgree, Travel, NothingFallsOff
  <2>3. QED
    BY <1>4, <2>1, <2>2 DEF IInv
<1>6. CASE Leave("inactive", head, "channel")
  BY <1>1, <1>2, <1>3, <1>4, <1>6, LeaveStep DEF Kinds, Recovers
<1>7. CASE Leave("exception", head, "no")
  BY <1>1, <1>2, <1>3, <1>4, <1>7, LeaveStep DEF Kinds, Recovers
<1>8. QED
  BY <1>3, <1>5, <1>6, <1>7

\* Every step keeps the invariant.
LEMMA NextInv == IInv /\ [Next]_vars => IInv'
<1> SUFFICES ASSUME IInv, [Next]_vars PROVE IInv'
  OBVIOUS
<1>1. CASE AddFirst \/ AddLast \/ AddHandler \/ SeekPosition \/ Added \/ ContextAt
           \/ SeekContext \/ IndexOf \/ LastIndexOf \/ SeekIndex \/ SeekLast \/ Answered
  BY <1>1, ListSteps
<1>2. CASE InsertFirst \/ InsertLast \/ InsertAfter
  BY <1>2, InsertSteps
<1>3. CASE Fire \/ Close \/ PassOn \/ Send
  BY <1>3, CallSteps
<1>4. CASE Visit
  BY <1>4, VisitStep
<1>5. CASE Return
  BY <1>5, ReturnStep
<1>6. CASE Panic
  BY <1>6, PanicStep
<1>7. CASE UNCHANGED vars
  BY <1>7 DEF IInv, TypeOK, Linked, Ends, Cursor, LookupsAgree, Travel, InList,
              NothingFallsOff, vars, listVars, seekVars, callVars
<1>8. QED
  BY <1>1, <1>2, <1>3, <1>4, <1>5, <1>6, <1>7 DEF Next

-----------------------------------------------------------------------------
(* The theorems.                                                           *)

\* The inductive invariant holds in every reachable state of the pipeline.
THEOREM Invariance == Spec => []IInv
  BY InitInv, NextInv, PTL DEF Spec

\* Every variable keeps its type, links and handler stack of pipeline.go and
\* context.go among them.
THEOREM TypeInvariant == Spec => []TypeOK
<1>1. IInv => TypeOK
  BY DEF IInv
<1>2. QED
  BY <1>1, Invariance, PTL

\* Whatever is added, wherever and by whichever handlers, the doubly linked
\* list of pipeline.go is the sequence it should be.
THEOREM ListIsSequence == Spec => []Linked
<1>1. IInv => Linked
  BY DEF IInv
<1>2. QED
  BY <1>1, Invariance, PTL

\* IndexOf, LastIndexOf and ContextAt return what that sequence says.
THEOREM LookupsAreRight == Spec => []LookupsAgree
<1>1. IInv => LookupsAgree
  BY DEF IInv
<1>2. QED
  BY <1>1, Invariance, PTL

\* No write walks off the pipeline at the head, and no exception at the tail.
THEOREM EndsCatch == Spec => []NothingFallsOff
<1>1. IInv => NothingFallsOff
  BY DEF IInv
<1>2. QED
  BY <1>1, Invariance, PTL

\* Only a round of Visit ends the walk of an event.
LEMMA WalkEnds == op = "event" /\ op' = "none" /\ [Next]_vars => Visit
<1> SUFFICES ASSUME op = "event", op' = "none", [Next]_vars PROVE Visit
  OBVIOUS
<1>1. ~UNCHANGED vars
  BY DEF vars
<1>2. ~(AddFirst \/ AddLast \/ AddHandler \/ SeekPosition \/ Added \/ ContextAt
        \/ SeekContext \/ IndexOf \/ LastIndexOf \/ SeekIndex \/ SeekLast \/ Answered)
  BY DEF AddFirst, AddLast, AddHandler, SeekPosition, Added, ContextAt, SeekContext, Seek,
         IndexOf, LastIndexOf, SeekIndex, SeekLast, SeekHandler, Answered, UserRuns
<1>3. ~(InsertFirst \/ InsertLast \/ InsertAfter \/ Fire \/ Close \/ PassOn \/ Send)
  BY DEF InsertFirst, InsertLast, InsertAfter, Fire, Close, PassOn, Send, UserRuns
<1>4. ~(Return \/ Panic)
  BY DEF Return, Panic
<1>5. QED
  BY <1>1, <1>2, <1>3, <1>4 DEF Next

\* In any pipeline an event goes to the nearest handler ahead that takes it,
\* and is dropped only if there is none.
THEOREM EventsReachNearest == Spec => NearestHandler
<1> DEFINE A == op = "event" /\ op' = "none" =>
                  LET hs == Handlers(event.kind, event.from) IN
                  IF stack' = stack THEN hs = {}
                  ELSE /\ Last(stack').at \in hs
                       /\ \A n \in hs : ~Ahead(event.kind, n, Last(stack').at)
<1>1. IInv /\ [Next]_vars => A
  <2> SUFFICES ASSUME IInv, [Next]_vars, op = "event", op' = "none" PROVE A
    OBVIOUS
  <2> DEFINE F == [kind : Kinds, at : Nodes, recovers : Recovers]
             k == event.kind
  <2>1. TypeOK /\ Linked /\ Visit
    BY WalkEnds DEF IInv
  <2>2. /\ size \in Nat /\ size = Len(chain) /\ DOMAIN chain = 1 .. size /\ stack \in Seq(F)
        /\ k \in Kinds /\ event.recovers \in Recovers
        /\ \A i \in 1 .. size : chain[i] \in Nodes
        /\ \A i, j \in 1 .. size : chain[i] = chain[j] => i = j
    BY <2>1 DEF TypeOK, Linked
  <2>3. PICK i, j \in 1 .. size :
          /\ chain[i] = event.from /\ chain[j] = cur
          /\ IF k = "write"
             THEN j <= i /\ \A m \in j .. i - 1 : k \notin casts[chain[m]]
             ELSE i <= j /\ \A m \in i + 1 .. j : k \notin casts[chain[m]]
          /\ \/ j = (IF k = "write" THEN 1 ELSE size) /\ UNCHANGED stack
             \/ \E m \in 1 .. size :
                  /\ m = (IF k = "write" THEN j - 1 ELSE j + 1)
                  /\ k \in casts[chain[m]]
                  /\ stack' = Append(stack, [kind |-> k, at |-> chain[m],
                                             recovers |-> event.recovers])
    BY <2>1, VisitLemma DEF Begin
  <2> HIDE DEF k
  <2>4. \A a, b \in 1 .. size :
          Ahead(k, chain[a], chain[b]) <=> IF k = "write" THEN b < a ELSE a < b
    BY <2>2 DEF Ahead
  <2>5. \A n \in Handlers(k, chain[i]) :
          \E b \in 1 .. size : /\ n = chain[b] /\ k \in casts[chain[b]]
                              /\ IF k = "write" THEN b < i ELSE i < b
    BY <2>2, <2>4 DEF Handlers, Ahead
  <2>6. CASE j = (IF k = "write" THEN 1 ELSE size) /\ UNCHANGED stack
    <3>1. Handlers(k, chain[i]) = {}
      BY <2>2, <2>3, <2>5, <2>6
    <3>2. QED
      BY <2>3, <2>6, <3>1 DEF k
  <2>7. ASSUME NEW m \in 1 .. size, m = (IF k = "write" THEN j - 1 ELSE j + 1),
               k \in casts[chain[m]],
               stack' = Append(stack, [kind |-> k, at |-> chain[m], recovers |-> event.recovers])
        PROVE  A
    <3> DEFINE f == [kind |-> k, at |-> chain[m], recovers |-> event.recovers]
    <3>1. stack' # stack /\ Last(stack').at = chain[m]
      <4>1. f \in F /\ f.at = chain[m] /\ stack' = Append(stack, f)
        BY <2>2, <2>7
      <4> HIDE DEF f, F
      <4>2. Len(stack') = Len(stack) + 1 /\ Len(stack) \in Nat /\ stack'[Len(stack')] = f
        BY <2>2, <4>1
      <4>3. QED
        BY <4>1, <4>2 DEF Last
    <3>2. chain[m] \in Handlers(k, chain[i])
      BY <2>2, <2>3, <2>4, <2>7 DEF Handlers
    <3>3. ASSUME NEW n \in Handlers(k, chain[i]) PROVE ~Ahead(k, n, chain[m])
      <4>1. PICK b \in 1 .. size : /\ n = chain[b] /\ k \in casts[chain[b]]
                                   /\ IF k = "write" THEN b < i ELSE i < b
        BY <2>5
      <4>2. IF k = "write" THEN b <= m ELSE m <= b
        BY <2>2, <2>3, <2>7, <4>1
      <4>3. QED
        BY <2>2, <2>4, <4>1, <4>2
    <3>4. QED
      BY <2>3, <3>1, <3>2, <3>3 DEF k
  <2>8. QED
    BY <2>3, <2>6, <2>7
<1>2. QED
  BY <1>1, Invariance, PTL DEF Spec, NearestHandler
=============================================================================
