------------------------------- MODULE Clock -------------------------------
(***************************************************************************)
(* The simulation clock: one goroutine that owns the simulated time and    *)
(* the set of tick pipes.  It is driven through channels:                  *)
(*   - HTTP handlers pause, resume and restart it; a handler that restarts *)
(*     it (alone or after new settings) waits on the shared restartDone,   *)
(*   - the hub registers the pipe of each symbol thread and unregisters it *)
(*     when it kills the thread,                                           *)
(*   - the ticker fires for ever.                                          *)
(* An iteration drains subChan and unsubChan, then the control channels,   *)
(* then waits for a tick.  What is ready in a select is taken in no order. *)
(***************************************************************************)
EXTENDS Naturals, Sequences, FiniteSets

CONSTANTS
  Configs,      \* simulation settings (a date and a timescale)
  Handlers,     \* HTTP handlers that may restart the simulation
  Pipes,        \* tick channels, each made for one symbol thread
  ChanCap,      \* capacity of the control channels (1024 in the code)
  MaxElapsed    \* bound on the simulated seconds: the model saturates there

ASSUME ClockAssumption ==
  /\ Configs # {} /\ IsFiniteSet(Handlers)
  /\ ChanCap \in Nat \ {0} /\ MaxElapsed \in Nat

VARIABLES
  config,       \* the hub's SimulationConfig
  applied,      \* settings that startTime and the ticker derive from
  elapsed,      \* simulationTime - startTime, in simulated seconds
  isPaused,
  pulled,       \* local of pullSettingsAndReset
  pc,           \* where the clock's goroutine is
  triggers,     \* number of messages in triggerRestartChan
  dones,        \* number of messages in restartDone
  pauses,       \* isPausedChan
  subs, unsubs, \* subChan, unsubChan: a pipe is sent once, so sets are enough
  subscribers,
  closed,       \* pipes that were closed
  pipe,         \* the hub's side of each pipe: unused, live or dead
  handler,      \* where each HTTP handler is
  command,      \* history: the last control request, "race" if it raced another
  served,       \* history: handlers for which the clock took a trigger since
                \* they sent theirs
  panicked

control == <<config, applied, elapsed, isPaused, pulled, triggers, dones, pauses>>
piping == <<subs, unsubs, subscribers, closed, pipe>>
vars == <<control, piping, pc, handler, command, served, panicked>>

Waiting == {h \in Handlers : handler[h] = "waiting"}
InFlight == \E h \in Handlers : handler[h] # "idle"
Up == ~panicked
-----------------------------------------------------------------------------
(* Requests of the HTTP handlers.                                          *)
Request(pause) ==
  /\ Up /\ Len(pauses) < ChanCap
  /\ pauses' = Append(pauses, pause)
  /\ command' = IF pause THEN "pause" ELSE IF InFlight THEN "race" ELSE "resume"
  /\ UNCHANGED <<config, applied, elapsed, isPaused, pulled, triggers, dones,
                 piping, pc, handler, served, panicked>>

\* Mutant: a control request is dropped when the channel is full.
PauseUnlessFull ==
  /\ Up
  /\ pauses' = IF Len(pauses) < ChanCap THEN Append(pauses, TRUE) ELSE pauses
  /\ command' = "pause"
  /\ UNCHANGED <<config, applied, elapsed, isPaused, pulled, triggers, dones,
                 piping, pc, handler, served, panicked>>

Pause == Request(TRUE)
Resume == Request(FALSE)

\* Mutant: new settings restart the clock only while it runs.
SetSettingsQuietly(h, c) ==
  /\ Up /\ handler[h] = "idle"
  /\ config' = c
  /\ handler' = IF isPaused THEN handler ELSE [handler EXCEPT ![h] = "sending"]
  /\ UNCHANGED <<applied, elapsed, isPaused, pulled, triggers, dones, pauses,
                 piping, pc, command, served, panicked>>

\* SetSimulationSettings: store the settings, then restart.
SetSettings(h, c) ==
  /\ Up /\ handler[h] = "idle"
  /\ config' = c
  /\ handler' = [handler EXCEPT ![h] = "sending"]
  /\ UNCHANGED <<applied, elapsed, isPaused, pulled, triggers, dones, pauses,
                 piping, pc, command, served, panicked>>

Restart(h) ==
  /\ Up /\ handler[h] = "idle"
  /\ handler' = [handler EXCEPT ![h] = "sending"]
  /\ UNCHANGED <<control, piping, pc, command, served, panicked>>

SendTrigger(h) ==
  /\ Up /\ handler[h] = "sending" /\ triggers < ChanCap
  /\ triggers' = triggers + 1
  /\ handler' = [handler EXCEPT ![h] = "waiting"]
  /\ command' = "restart" /\ served' = served \ {h}
  /\ UNCHANGED <<config, applied, elapsed, isPaused, pulled, dones, pauses,
                 piping, pc, panicked>>

AwaitDone(h) ==
  /\ Up /\ handler[h] = "waiting" /\ dones > 0
  /\ dones' = dones - 1
  /\ handler' = [handler EXCEPT ![h] = "idle"]
  /\ UNCHANGED <<config, applied, elapsed, isPaused, pulled, triggers, pauses,
                 piping, pc, command, served, panicked>>
-----------------------------------------------------------------------------
(* Requests of the hub.                                                    *)
RegisterPipe(p) ==
  /\ Up /\ pipe[p] = "unused"
  /\ pipe' = [pipe EXCEPT ![p] = "live"]
  /\ subs' = subs \cup {p}
  /\ UNCHANGED <<control, unsubs, subscribers, closed, pc, handler, command, served, panicked>>

UnregisterPipe(p) ==
  /\ Up /\ pipe[p] = "live"
  /\ pipe' = [pipe EXCEPT ![p] = "dead"]
  /\ unsubs' = unsubs \cup {p}
  /\ UNCHANGED <<control, subs, subscribers, closed, pc, handler, command, served, panicked>>
-----------------------------------------------------------------------------
(* SubLoop                                                                 *)
TakeSub(p) ==
  /\ Up /\ pc = "subs" /\ p \in subs
  /\ subs' = subs \ {p}
  /\ subscribers' = subscribers \cup {p}
  /\ UNCHANGED <<control, unsubs, closed, pipe, pc, handler, command, served, panicked>>

TakeUnsub(p) ==
  /\ Up /\ pc = "subs" /\ p \in unsubs
  /\ unsubs' = unsubs \ {p}
  /\ subscribers' = subscribers \ {p}
  /\ closed' = closed \cup {p}
  /\ UNCHANGED <<control, subs, pipe, pc, handler, command, served, panicked>>

SubsDrained ==
  /\ Up /\ pc = "subs" /\ subs = {} /\ unsubs = {}
  /\ pc' = "control"
  /\ UNCHANGED <<control, piping, handler, command, served, panicked>>
-----------------------------------------------------------------------------
(* PauseLoop                                                               *)

\* Mutant: the answer is also sent when the trigger is taken.
TakeTriggerAnswers ==
  /\ Up /\ pc = "control" /\ triggers > 0 /\ dones < ChanCap
  /\ triggers' = triggers - 1 /\ dones' = dones + 1
  /\ isPaused' = TRUE
  /\ pulled' = config /\ served' = served \cup Waiting
  /\ pc' = "reset"
  /\ UNCHANGED <<config, applied, elapsed, pauses, piping, handler, command, panicked>>

TakeTrigger ==
  /\ Up /\ pc = "control" /\ triggers > 0
  /\ triggers' = triggers - 1
  /\ isPaused' = TRUE
  /\ pulled' = config /\ served' = served \cup Waiting
  /\ pc' = "reset"
  /\ UNCHANGED <<config, applied, elapsed, dones, pauses, piping, handler, command, panicked>>

\* Mutant: a restart forgets the pipes of the symbol threads.
ResetAll ==
  /\ Up /\ pc = "reset"
  /\ applied' = pulled /\ elapsed' = 0
  /\ subscribers' = {}
  /\ pc' = "done"
  /\ UNCHANGED <<config, isPaused, pulled, triggers, dones, pauses,
                 subs, unsubs, closed, pipe, handler, command, served, panicked>>

Reset ==
  /\ Up /\ pc = "reset"
  /\ applied' = pulled /\ elapsed' = 0
  /\ pc' = "done"
  /\ UNCHANGED <<config, isPaused, pulled, triggers, dones, pauses, piping,
                 handler, command, served, panicked>>

\* Mutant: the answer is sent only if there is room for it.
SignalDoneUnlessFull ==
  /\ Up /\ pc = "done"
  /\ dones' = IF dones < ChanCap THEN dones + 1 ELSE dones
  /\ pc' = "control"
  /\ UNCHANGED <<config, applied, elapsed, isPaused, pulled, triggers, pauses,
                 piping, handler, command, served, panicked>>

SignalDone ==
  /\ Up /\ pc = "done" /\ dones < ChanCap
  /\ dones' = dones + 1
  /\ pc' = "control"
  /\ UNCHANGED <<config, applied, elapsed, isPaused, pulled, triggers, pauses,
                 piping, handler, command, served, panicked>>

TakePause ==
  /\ Up /\ pc = "control" /\ pauses # <<>>
  /\ isPaused' = Head(pauses)
  /\ pauses' = Tail(pauses)
  /\ UNCHANGED <<config, applied, elapsed, pulled, triggers, dones, piping,
                 pc, handler, command, served, panicked>>

ControlDrained ==
  /\ Up /\ pc = "control" /\ triggers = 0 /\ pauses = <<>>
  /\ pc' = "ticking"
  /\ UNCHANGED <<control, piping, handler, command, served, panicked>>
-----------------------------------------------------------------------------
(* A tick.  The time also goes to the hub, paused or not, which changes    *)
(* nothing here.  A send on a closed pipe panics, select or no select.     *)
PausedTick ==
  /\ Up /\ pc = "ticking" /\ isPaused
  /\ pc' = "subs"
  /\ UNCHANGED <<control, piping, handler, command, served, panicked>>

Advance(n) == IF n < MaxElapsed THEN n + 1 ELSE n

Tick ==
  /\ Up /\ pc = "ticking" /\ ~isPaused
  /\ panicked' = (subscribers \cap closed # {})
  /\ elapsed' = IF panicked' THEN elapsed ELSE Advance(elapsed)
  /\ pc' = "subs"
  /\ UNCHANGED <<config, applied, isPaused, pulled, triggers, dones, pauses,
                 piping, handler, command, served>>
-----------------------------------------------------------------------------
Init ==
  /\ config \in Configs /\ applied = config /\ pulled = config
  /\ elapsed = 0 /\ isPaused = TRUE /\ pc = "subs"
  /\ triggers = 0 /\ dones = 0 /\ pauses = <<>>
  /\ subs = {} /\ unsubs = {} /\ subscribers = {} /\ closed = {}
  /\ pipe = [p \in Pipes |-> "unused"]
  /\ handler = [h \in Handlers |-> "idle"]
  /\ command = "pause" /\ served = {} /\ panicked = FALSE

HandlerStep(h) == SendTrigger(h) \/ AwaitDone(h)
ClockStep ==
  \/ \E p \in Pipes : TakeSub(p) \/ TakeUnsub(p)
  \/ SubsDrained
  \/ TakeTrigger \/ Reset \/ SignalDone \/ TakePause \/ ControlDrained
  \/ PausedTick \/ Tick

Next ==
  \/ Pause \/ Resume
  \/ \E h \in Handlers :
       HandlerStep(h) \/ Restart(h) \/ \E c \in Configs : SetSettings(h, c)
  \/ \E p \in Pipes : RegisterPipe(p) \/ UnregisterPipe(p)
  \/ ClockStep

Spec == Init /\ [][Next]_vars

\* The clock's goroutine runs and its ticker fires; its select takes a
\* pending trigger in the end, for it picks at random; a handler that waits
\* for a channel gets its turn.  Requests come from outside.
FairSpec ==
  /\ Spec
  /\ WF_vars(ClockStep) /\ SF_vars(TakeTrigger)
  /\ \A h \in Handlers : SF_vars(HandlerStep(h))
-----------------------------------------------------------------------------
\* Every variable has its type, and the channels their room.
TypeOK ==
  /\ config \in Configs /\ applied \in Configs /\ pulled \in Configs
  /\ elapsed \in Nat /\ elapsed <= MaxElapsed /\ isPaused \in BOOLEAN
  /\ pc \in {"subs", "control", "reset", "done", "ticking"}
  /\ triggers \in Nat /\ triggers <= ChanCap
  /\ dones \in Nat /\ dones <= ChanCap
  /\ pauses \in Seq(BOOLEAN) /\ Len(pauses) <= ChanCap
  /\ subs \subseteq Pipes /\ unsubs \subseteq Pipes
  /\ subscribers \subseteq Pipes /\ closed \subseteq Pipes
  /\ pipe \in [Pipes -> {"unused", "live", "dead"}]
  /\ handler \in [Handlers -> {"idle", "sending", "waiting"}]
  /\ command \in {"race", "pause", "resume", "restart"} /\ served \subseteq Handlers
  /\ panicked \in BOOLEAN

\* One answer for each restart: the handlers that wait are as many as the
\* triggers the clock has not taken, the restart it is at, and the answers
\* nobody took.  So no handler is left without an answer and no answer is
\* left over to be taken by a later restart.
Serving == IF pc \in {"reset", "done"} THEN 1 ELSE 0
OneAnswerEach == Cardinality(Waiting) = triggers + Serving + dones

\* When no settings or restart request is in flight the clock runs on the
\* current settings, however many requests overlapped and in whatever order
\* they stored the settings, sent their triggers and took the answers.
SettledOnConfig == ~InFlight => applied = config

\* The answers are anonymous: another handler may be first to receive from
\* restartDone.  Yet a handler that is the only one left waiting gets its
\* answer after the clock has pulled the settings for it, that is, after the
\* handler sent its trigger.
LastAnswerIsOwn == [][\A h \in Handlers : AwaitDone(h) /\ Waiting = {h} => h \in served]_vars

\* The clock keeps the contract that the handlers are built on: a request is
\* there until the time is back at the start, an answer from then on.
Restarts == INSTANCE RestartService WITH
  requests <- triggers + (IF pc = "reset" THEN 1 ELSE 0),
  answers <- dones + (IF pc = "done" THEN 1 ELSE 0)
ImplementsRestartService == Restarts!Spec

\* The pipe of a live symbol thread is never lost or closed: it is among the
\* subscribers, or on its way to them.
LivePipesAreServed ==
  \A p \in Pipes : pipe[p] = "live" => p \in (subs \cup subscribers) \ closed

\* What the last request to pause, or to resume with no restart in flight, asked
\* for is what the clock comes to by taking what is queued, and nothing queued
\* before it undoes it: no trigger is left behind a resume.
Outcome == IF pauses = <<>> THEN isPaused ELSE pauses[Len(pauses)]
LastRequestStands ==
  /\ command = "pause" => Outcome = TRUE
  /\ command = "resume" => Outcome = FALSE /\ triggers = 0

\* Simulated time moves forward one second at a time and only while the
\* simulation is not paused; the one other change is back to the start, in
\* a restart, which has paused it.
TimeStep ==
  /\ elapsed' > elapsed => ~isPaused /\ elapsed' = elapsed + 1 /\ applied' = applied
  /\ elapsed' < elapsed \/ applied' # applied => elapsed' = 0 /\ isPaused'
TimeRunsUnpaused == [][TimeStep]_<<elapsed, applied>>

\* Restart returns to every handler that calls it, unless the process dies.
RestartReturns == \A h \in Handlers : handler[h] # "idle" ~> (handler[h] = "idle" \/ ~Up)

\* "THEN the simulation pauses within n ticks" and "resumes within n ticks":
\* when no request follows a pause (or a resume that no restart was racing),
\* it takes effect and stays in effect, whatever was queued before it.
RequestsTakeEffect ==
  /\ <>[](command = "pause") => <>[](isPaused \/ ~Up)
  /\ <>[](command = "resume") => <>[](~isPaused \/ ~Up)
-----------------------------------------------------------------------------
(* What a comment of the code says, and the code does not do.              *)

\* "Non-blocking send": a pipe that takes no tick costs nothing.  A pipe
\* whose registration and unregistration are both pending may be closed
\* first and subscribed after; the next tick then panics.
NoSendOnClosedPipe == ~panicked
=============================================================================
