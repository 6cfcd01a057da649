------------------------- MODULE IdleHandler_proofs -------------------------
(***************************************************************************)
(* Proofs about IdleHandler, for any idle time, any number of callbacks    *)
(* under way at once and any number of messages.                           *)
(***************************************************************************)
EXTENDS IdleHandler, TLAPS

Counters == left \in 0 .. IdleTime /\ elapsed \in 0 .. IdleTime /\ messages \in 0 .. MaxMessages

\* Every step keeps the counters in their ranges.
LEMMA CounterStep == IdleTypeOK /\ [IdleNext]_idleVars => Counters'
<1> SUFFICES ASSUME IdleTypeOK, [IdleNext]_idleVars PROVE Counters'
  OBVIOUS
<1> USE DEF Counters, Arm, KeepTimer, timerVars, eventVars
<1>1. Counters /\ IdleTime \in Nat \ {0} /\ MaxMessages \in Nat
  BY IdleAssumption DEF IdleTypeOK
<1>2. CASE Tick
  <2>1. messages' = messages
    BY <1>2 DEF Tick
  <2>2. left' \in 0 .. IdleTime
    <3>1. left' = left \/ (left > 0 /\ left' = left - 1)
      BY <1>2 DEF Tick
    <3>2. QED
      BY <1>1, <3>1
  <2>3. elapsed' \in 0 .. IdleTime
    <3>1. elapsed' = elapsed \/ (elapsed < IdleTime /\ elapsed' = elapsed + 1)
      BY <1>2 DEF Tick
    <3>2. QED
      BY <1>1, <3>1
  <2>4. QED
    BY <1>1, <2>1, <2>2, <2>3
<1>3. CASE HandleActive \/ HandleMessage \/ HandleInactive
  <2>1. /\ left' = left \/ left' = IdleTime
        /\ elapsed' = elapsed \/ elapsed' = 0
        /\ messages' = messages \/ (messages < MaxMessages /\ messages' = messages + 1)
    BY <1>3 DEF HandleActive, HandleMessage, HandleInactive
  <2>2. QED
    BY <1>1, <2>1
<1>4. ASSUME NEW c \in Callbacks, Fire(c) \/ Check(c) \/ Trigger(c) \/ ResetTimer(c)
      PROVE  Counters'
  <2>1. (left' = left \/ left' = IdleTime) /\ elapsed' = elapsed /\ messages' = messages
    BY <1>4 DEF Fire, Check, Trigger, ResetTimer
  <2>2. QED
    BY <1>1, <2>1
<1>5. CASE UNCHANGED idleVars
  BY <1>1, <1>5 DEF idleVars
<1>6. QED
  BY <1>2, <1>3, <1>4, <1>5 DEF IdleNext

\* Every step keeps the types.
LEMMA TypeStep == IdleTypeOK /\ [IdleNext]_idleVars => IdleTypeOK'
<1> SUFFICES ASSUME IdleTypeOK, [IdleNext]_idleVars PROVE IdleTypeOK'
  OBVIOUS
<1> DEFINE Flags == /\ ctx \in BOOLEAN /\ timer \in BOOLEAN /\ armed \in BOOLEAN
                    /\ started \in BOOLEAN /\ ended \in BOOLEAN /\ late \in BOOLEAN
                    /\ noticed \in BOOLEAN
           Places == callback \in [Callbacks -> {"idle", "check", "trigger", "reset"}]
<1> USE DEF Arm, KeepTimer, GoesTo, timerVars, eventVars
<1>1. Flags /\ Places
  BY DEF IdleTypeOK
<1>2. Flags'
  BY <1>1 DEF IdleNext, Tick, HandleActive, HandleMessage, HandleInactive, Fire, Check, Trigger,
              ResetTimer, idleVars
<1>3. Places'
  <2>1. ASSUME NEW c \in Callbacks, Fire(c) \/ Check(c) \/ Trigger(c) \/ ResetTimer(c)
        PROVE  Places'
    BY <1>1, <2>1 DEF Fire, Check, Trigger, ResetTimer
  <2>2. CASE Tick \/ HandleActive \/ HandleMessage \/ HandleInactive \/ UNCHANGED idleVars
    BY <1>1, <2>2 DEF Tick, HandleActive, HandleMessage, HandleInactive, idleVars
  <2>3. QED
    BY <2>1, <2>2 DEF IdleNext
<1>4. QED
  BY <1>2, <1>3, CounterStep DEF IdleTypeOK, Counters

\* Clock, counters and goroutines of an idle handler (handler.go) stay within
\* their ranges.
THEOREM TypeInvariant == IdleSpec => []IdleTypeOK
<1>1. IdleInit => IdleTypeOK
  <2> SUFFICES ASSUME IdleInit PROVE IdleTypeOK
    OBVIOUS
  <2>1. IdleTime \in Nat /\ MaxMessages \in Nat
    BY IdleAssumption
  <2>2. left \in 0 .. IdleTime /\ elapsed \in 0 .. IdleTime /\ messages \in 0 .. MaxMessages
    BY <2>1 DEF IdleInit
  <2>3. QED
    BY <2>2 DEF IdleInit, IdleTypeOK
<1>2. QED
  BY <1>1, TypeStep, PTL DEF IdleSpec

\* A channel with an idle handler is always watched, whatever meets in
\* onReadTimeout and onWriteTimeout.
THEOREM AlwaysWatched == IdleSpec => []Watched
<1>1. IdleInit => Watched
  BY DEF IdleInit, Watched
<1>2. IdleTypeOK /\ Watched /\ [IdleNext]_idleVars => Watched'
  <2> SUFFICES ASSUME IdleTypeOK, Watched, [IdleNext]_idleVars PROVE Watched'
    OBVIOUS
  <2> USE DEF IdleTypeOK, Watched, Arm, KeepTimer, GoesTo, timerVars, eventVars
  <2>1. CASE Tick \/ HandleActive \/ HandleMessage \/ HandleInactive
    BY <2>1 DEF Tick, HandleActive, HandleMessage, HandleInactive
  <2>2. ASSUME NEW c \in Callbacks, Fire(c) \/ Check(c) \/ Trigger(c) PROVE Watched'
    <3>1. callback'[c] # "idle"
      BY <2>2 DEF Fire, Check, Trigger
    <3>2. QED
      BY <3>1
  <2>3. ASSUME NEW c \in Callbacks, ResetTimer(c) PROVE Watched'
    BY <2>3 DEF ResetTimer
  <2>4. CASE UNCHANGED idleVars
    BY <2>4 DEF idleVars
  <2>5. QED
    BY <2>1, <2>2, <2>3, <2>4 DEF IdleNext
<1>3. QED
  BY <1>1, <1>2, TypeInvariant, PTL DEF IdleSpec

\* A timer runs only while the handler has it, and a channel that ended has
\* none unless its active event came late.
Owned == (ended /\ ~late => ~timer) /\ (armed => timer)

\* Nothing but a late active event sets the timer of an ended channel again,
\* whatever messages and callbacks are under way (handler.go, HandleInactive and
\* onReadTimeout).
THEOREM StoppedForGood == IdleSpec => []StaysStopped
<1>1. IdleInit => Owned
  BY DEF IdleInit, Owned
<1>2. Owned /\ [IdleNext]_idleVars => Owned'
  <2> SUFFICES ASSUME Owned, [IdleNext]_idleVars PROVE Owned'
    OBVIOUS
  <2> USE DEF Owned, Arm, KeepTimer, timerVars, eventVars
  <2>1. CASE Tick \/ HandleActive \/ HandleMessage \/ HandleInactive
    BY <2>1 DEF Tick, HandleActive, HandleMessage, HandleInactive
  <2>2. ASSUME NEW c \in Callbacks, Fire(c) \/ Check(c) \/ Trigger(c) \/ ResetTimer(c)
        PROVE  Owned'
    BY <2>2 DEF Fire, Check, Trigger, ResetTimer
  <2>3. CASE UNCHANGED idleVars
    BY <2>3 DEF idleVars
  <2>4. QED
    BY <2>1, <2>2, <2>3 DEF IdleNext
<1>3. Owned => StaysStopped
  BY DEF Owned, StaysStopped
<1>4. QED
  BY <1>1, <1>2, <1>3, PTL DEF IdleSpec
=============================================================================
