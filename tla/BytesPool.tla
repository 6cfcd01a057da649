----------------------------- MODULE BytesPool -----------------------------
(***************************************************************************)
(* The pools of byte slices and buffers (utils/pool): one sync.Pool per    *)
(* size class.  Get rounds a size up and takes an object of the class of   *)
(* the result; Put files an object under the class of its capacity.        *)
(*                                                                         *)
(* A client is a goroutine that uses at most one object at a time.  The    *)
(* names in Objects are used again when an object is garbage.              *)
(***************************************************************************)
EXTENDS Integers

CONSTANTS
  MaxCap,       \* New(max)
  Limit,        \* largest size and capacity (bound)
  PowersOfTwo,  \* the powers of two up to 2 * Limit
  Sizes,        \* sizes clients ask for
  ForeignCaps,  \* capacities of objects the pool did not make: slices of the
                \* user's, and buffers that grew while they were used
  Clients, Objects

ASSUME PowersAssumption ==
  /\ MaxCap \in Nat /\ Limit \in Nat /\ MaxCap <= Limit /\ 64 <= Limit
  /\ PowersOfTwo \subseteq Nat \ {0}
  /\ \A a, b \in PowersOfTwo : a <= b => b % a = 0
  /\ \A n \in 1 .. Limit : \E m \in PowersOfTwo : n <= m /\ m < 2 * n

ASSUME ClientsAssumption ==
  /\ Sizes \subseteq 0 .. Limit /\ ForeignCaps \subseteq 0 .. Limit

\* The least power of two that is at least n.
CeilToPowerOfTwo(n) == CHOOSE m \in PowersOfTwo : n <= m /\ m < 2 * n

MaxSize == CeilToPowerOfTwo(IF MaxCap > 1 THEN MaxCap ELSE 1)
ShardSize == IF MaxSize < 64 THEN MaxSize ELSE 64
StepSize == CeilToPowerOfTwo(MaxSize \div ShardSize)
Shards == 0 .. (IF StepSize * ShardSize < MaxSize THEN ShardSize ELSE ShardSize - 1)

\* Mutant: a large size is not rounded up.
MutantSize(n) == IF n <= StepSize THEN StepSize ELSE n

\* What a size is rounded to.
Size(n) == IF n <= StepSize THEN StepSize ELSE CeilToPowerOfTwo(n)

Shard(n) == (n - 1) \div StepSize

NoObject == "nil"
Free == -1

VARIABLES
  capacity,  \* of every object
  shard,     \* where an object is pooled, or Free
  held,      \* the object a client uses
  want       \* the size the client asked for

poolVars == <<capacity, shard, held, want>>

PoolInit ==
  /\ capacity = [b \in Objects |-> 0] /\ shard = [b \in Objects |-> Free]
  /\ held = [p \in Clients |-> NoObject] /\ want = [p \in Clients |-> 0]

\* Nobody has object b.
Unused(b) == shard[b] = Free /\ \A p \in Clients : held[p] # b

Hold(p, b, n) ==
  /\ held' = [held EXCEPT ![p] = b]
  /\ want' = [want EXCEPT ![p] = n]

\* Get with an object of the class of the rounded size.
GetPooled(p) ==
  /\ held[p] = NoObject
  /\ \E n \in Sizes, b \in Objects :
       /\ shard[b] = Shard(Size(n))
       /\ shard' = [shard EXCEPT ![b] = Free]
       /\ Hold(p, b, n)
  /\ UNCHANGED capacity

\* Get that makes an object: a sync.Pool may have nothing to give at any time.
GetNew(p) ==
  /\ held[p] = NoObject
  /\ \E n \in Sizes, b \in Objects :
       /\ Unused(b)
       /\ capacity' = [capacity EXCEPT ![b] = Size(n)]
       /\ Hold(p, b, n)
  /\ UNCHANGED shard

\* The client comes by an object of another capacity.
Bring(p) ==
  /\ held[p] = NoObject
  /\ \E c \in ForeignCaps, b \in Objects :
       /\ Unused(b)
       /\ capacity' = [capacity EXCEPT ![b] = c]
       /\ Hold(p, b, 0)
  /\ UNCHANGED shard

\* Mutant: the last class is not compared with the number of classes.
MutantPut(p) ==
  /\ held[p] # NoObject
  /\ LET c == capacity[held[p]] IN
       shard' = IF c >= StepSize THEN [shard EXCEPT ![held[p]] = Shard(c)] ELSE shard
  /\ Hold(p, NoObject, 0)
  /\ UNCHANGED capacity

\* Put: too small and too large objects are left to the garbage collector.
Put(p) ==
  /\ held[p] # NoObject
  /\ LET c == capacity[held[p]] IN
       shard' = IF c >= StepSize /\ Shard(c) \in Shards
                THEN [shard EXCEPT ![held[p]] = Shard(c)] ELSE shard
  /\ Hold(p, NoObject, 0)
  /\ UNCHANGED capacity

\* The garbage collector empties the sync.Pools, and a client may keep an
\* object to itself.
Collect(b) ==
  /\ shard[b] # Free
  /\ shard' = [shard EXCEPT ![b] = Free]
  /\ UNCHANGED <<capacity, held, want>>

PoolNext ==
  \/ \E p \in Clients : GetPooled(p) \/ GetNew(p) \/ Bring(p) \/ Put(p)
  \/ \E b \in Objects : Collect(b)

PoolSpec == PoolInit /\ [][PoolNext]_poolVars

-----------------------------------------------------------------------------
PoolTypeOK ==
  /\ capacity \in [Objects -> Nat]
  /\ shard \in [Objects -> Shards \cup {Free}]
  /\ held \in [Clients -> Objects \cup {NoObject}]
  /\ want \in [Clients -> 0 .. Limit]
  /\ \A p \in Clients : held[p] # NoObject => shard[held[p]] = Free

\* What Get returns has room for what was asked for, so a caller may slice it
\* to that length (channel.go, asyncWrite), however often objects went through
\* the pool and whatever their classes were.  It holds if all objects put
\* into the pool have capacities that are powers of two; the code takes any.
\* (utils/pool/pbytes/pool.go, Get.)
GetSuffices ==
  \A p \in Clients : held[p] # NoObject => want[p] <= capacity[held[p]]
=============================================================================
