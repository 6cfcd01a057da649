---------------------------- MODULE IdleHandler -----------------------------
(***************************************************************************)
(* The idle handlers (handler.go): a timer that is set again by every      *)
(* message, and a callback, on a goroutine of its own, that triggers an    *)
(* idle event if there was no message for idleTime.                        *)
(*                                                                         *)
(* readIdleHandler and writeIdleHandler differ in whether a message is     *)
(* passed on before or after the timer is set, which is outside the        *)
(* handler's state, so that one module stands for both.  A step is one     *)
(* section under the handler's mutex; no section calls out.                *)
(***************************************************************************)
EXTENDS Integers

CONSTANTS
  Callbacks,    \* goroutines the timer's callback runs on
  IdleTime,     \* in ticks of the clock
  MaxMessages   \* (bound)

ASSUME IdleAssumption == IdleTime \in Nat \ {0} /\ MaxMessages \in Nat

VARIABLES
  ctx,       \* handlerCtx is set
  timer,     \* readTimer or writeTimer is set
  armed,     \* the timer runs
  left,      \* ticks until it fires
  elapsed,   \* ticks since the last message, up to IdleTime
  started,   \* the active event has been here
  ended,     \* the inactive event has been here
  late,      \* history: the active event came after the inactive one
  callback,  \* where the callback is on each of its goroutines
  messages,  \* how many there were
  noticed    \* history: the idle event came since the last message

idleVars == <<ctx, timer, armed, left, elapsed, started, ended, late, callback, messages,
              noticed>>
timerVars == <<ctx, timer, armed, left>>
eventVars == <<started, ended, late, messages>>

IdleInit ==
  /\ ctx = FALSE /\ timer = FALSE /\ armed = FALSE /\ left = 0 /\ elapsed = IdleTime
  /\ started = FALSE /\ ended = FALSE /\ late = FALSE /\ messages = 0 /\ noticed = FALSE
  /\ callback = [c \in Callbacks |-> "idle"]

Arm == armed' = TRUE /\ left' = IdleTime
KeepTimer == UNCHANGED <<armed, left>>

GoesTo(c, place) == callback' = [callback EXCEPT ![c] = place]

\* Time passes.  A timer that is due may be late.
Tick ==
  /\ (armed /\ left > 0) \/ elapsed < IdleTime
  /\ left' = IF armed /\ left > 0 THEN left - 1 ELSE left
  /\ elapsed' = IF elapsed < IdleTime THEN elapsed + 1 ELSE elapsed
  /\ UNCHANGED <<ctx, timer, armed, eventVars, callback, noticed>>

\* The read loop fires the active event, of a channel that was closed
\* meanwhile, too: the holder's HandleActive lets Shutdown close the channel
\* before the event comes here, and the initializer's user even earlier.
HandleActive ==
  /\ ~started /\ started' = TRUE /\ late' = ended
  /\ ctx' = TRUE /\ timer' = TRUE /\ Arm /\ elapsed' = 0 /\ noticed' = FALSE
  /\ UNCHANGED <<ended, messages, callback>>

\* Mutant: the timer is stopped and not set again.
MutantHandleMessage ==
  /\ messages < MaxMessages /\ messages' = messages + 1
  /\ elapsed' = 0 /\ noticed' = FALSE
  /\ armed' = FALSE
  /\ UNCHANGED <<left, ctx, timer, started, ended, late, callback>>

\* HandleRead or HandleWrite; a writer or the read loop may come late.
HandleMessage ==
  /\ messages < MaxMessages /\ messages' = messages + 1
  /\ elapsed' = 0 /\ noticed' = FALSE
  /\ IF timer THEN Arm ELSE KeepTimer
  /\ UNCHANGED <<ctx, timer, started, ended, late, callback>>

\* Whoever closes the channel first fires the inactive event.
HandleInactive ==
  /\ ~ended /\ ended' = TRUE
  /\ ctx' = FALSE /\ timer' = FALSE /\ armed' = FALSE
  /\ UNCHANGED <<left, elapsed, started, late, messages, callback, noticed>>

-----------------------------------------------------------------------------
(* onReadTimeout and onWriteTimeout.                                       *)

\* The timer starts the callback.
Fire(c) ==
  /\ armed /\ left = 0 /\ armed' = FALSE
  /\ callback[c] = "idle" /\ GoesTo(c, "check")
  /\ UNCHANGED <<ctx, timer, left, elapsed, eventVars, noticed>>

Check(c) ==
  /\ callback[c] = "check"
  /\ GoesTo(c, IF elapsed >= IdleTime /\ ctx THEN "trigger" ELSE "reset")
  /\ UNCHANGED <<timerVars, elapsed, eventVars, noticed>>

\* Mutant: the callback sets no timer after an idle event.
MutantTrigger(c) ==
  /\ callback[c] = "trigger" /\ GoesTo(c, "idle")
  /\ noticed' = (noticed \/ elapsed = IdleTime)
  /\ UNCHANGED <<timerVars, elapsed, eventVars>>

\* The handlers of the event run without the lock and may close the channel;
\* they return or panic.
Trigger(c) ==
  /\ callback[c] = "trigger" /\ GoesTo(c, "reset")
  /\ noticed' = (noticed \/ elapsed = IdleTime)
  /\ UNCHANGED <<timerVars, elapsed, eventVars>>

\* Mutant: the callback does not look whether the timer is still there.
MutantResetTimer(c) ==
  /\ callback[c] = "reset" /\ GoesTo(c, "idle")
  /\ Arm
  /\ UNCHANGED <<ctx, timer, elapsed, eventVars, noticed>>

ResetTimer(c) ==
  /\ callback[c] = "reset" /\ GoesTo(c, "idle")
  /\ IF timer THEN Arm ELSE KeepTimer
  /\ UNCHANGED <<ctx, timer, elapsed, eventVars, noticed>>

-----------------------------------------------------------------------------
Run(c) == Check(c) \/ Trigger(c) \/ ResetTimer(c)

IdleNext ==
  \/ Tick \/ HandleActive \/ HandleMessage \/ HandleInactive
  \/ \E c \in Callbacks : Fire(c) \/ Check(c) \/ Trigger(c) \/ ResetTimer(c)

IdleSpec == IdleInit /\ [][IdleNext]_idleVars

\* The clock goes on, timers that are due fire, and callbacks run: the
\* handlers of an idle event return.  No message and no close has to come.
IdleFairness ==
  /\ WF_idleVars(Tick)
  /\ WF_idleVars(\E c \in Callbacks : Fire(c))
  /\ \A c \in Callbacks : WF_idleVars(Run(c))

-----------------------------------------------------------------------------
IdleTypeOK ==
  /\ ctx \in BOOLEAN /\ timer \in BOOLEAN /\ armed \in BOOLEAN
  /\ left \in 0 .. IdleTime /\ elapsed \in 0 .. IdleTime
  /\ started \in BOOLEAN /\ ended \in BOOLEAN /\ late \in BOOLEAN /\ noticed \in BOOLEAN
  /\ messages \in 0 .. MaxMessages
  /\ callback \in [Callbacks -> {"idle", "check", "trigger", "reset"}]

\* As long as a handler has its timer the channel is watched: the timer runs,
\* or a callback is under way that will set it, however messages, callbacks
\* and the end of the channel meet (handler.go, onReadTimeout).
Watched ==
  timer => armed \/ \E c \in Callbacks : callback[c] # "idle"

\* After the inactive event the timer is stopped, and neither a message nor a
\* callback that is still under way sets it again; only an active event that
\* comes after the inactive one does (handler.go, HandleInactive and
\* onReadTimeout).
StaysStopped == ended /\ ~late => ~armed

\* HandleInactive says "stop the timer." (handler.go:363): once the channel
\* ended no timer runs.
StoppedAtEnd == ended => ~armed

\* When messages stop, an idle event comes, unless the channel ends
\* (handler.go, ReadIdleHandler: "fire ReadIdleEvent after waiting for a
\* reading timeout").
IdleIsNoticed == <>[](timer => noticed)
=============================================================================
