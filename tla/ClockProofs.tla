---------------------------- MODULE ClockProofs ----------------------------
(* Safety of Clock for any finite set of handlers, any settings, any set   *)
(* of pipes and any capacity of the control channels.                      *)
EXTENDS Clock, FiniteSetTheorems, TLAPS

(* Every variable keeps its type, and the channels their capacity.         *)
LEMMA PauseQueueType ==
  ASSUME NEW q \in Seq(BOOLEAN), NEW n \in Nat
  PROVE  /\ \A x \in BOOLEAN : Len(q) < n => Append(q, x) \in Seq(BOOLEAN) /\ Len(Append(q, x)) <= n
         /\ Len(q) <= n /\ q # <<>> =>
              Head(q) \in BOOLEAN /\ Tail(q) \in Seq(BOOLEAN) /\ Len(Tail(q)) <= n
OBVIOUS

\* Types, and the room in the channels, survive every step.
LEMMA TypeStep == TypeOK /\ [Next]_vars => TypeOK'
<1> SUFFICES ASSUME TypeOK, [Next]_vars PROVE TypeOK'
  OBVIOUS
<1> USE ClockAssumption DEF ClockAssumption, TypeOK, control, piping, Waiting, Advance
<1>1. CASE Pause
  <2>1. pauses' \in Seq(BOOLEAN) /\ Len(pauses') <= ChanCap
    BY <1>1, PauseQueueType DEF Pause, Request
  <2> QED BY <1>1, <2>1 DEF Pause, Request
<1>2. CASE Resume
  <2>1. pauses' \in Seq(BOOLEAN) /\ Len(pauses') <= ChanCap
    BY <1>2, PauseQueueType DEF Resume, Request
  <2> QED BY <1>2, <2>1 DEF Resume, Request
<1>3. ASSUME NEW h \in Handlers, Restart(h) PROVE TypeOK'
  BY <1>3 DEF Restart
<1>4. ASSUME NEW h \in Handlers, NEW c \in Configs, SetSettings(h, c) PROVE TypeOK'
  BY <1>4 DEF SetSettings
<1>5. ASSUME NEW h \in Handlers, SendTrigger(h) PROVE TypeOK'
  BY <1>5 DEF SendTrigger
<1>6. ASSUME NEW h \in Handlers, AwaitDone(h) PROVE TypeOK'
  BY <1>6 DEF AwaitDone
<1>7. ASSUME NEW p \in Pipes, RegisterPipe(p) PROVE TypeOK'
  BY <1>7 DEF RegisterPipe
<1>8. ASSUME NEW p \in Pipes, UnregisterPipe(p) PROVE TypeOK'
  BY <1>8 DEF UnregisterPipe
<1>9. ASSUME NEW p \in Pipes, TakeSub(p) PROVE TypeOK'
  BY <1>9 DEF TakeSub
<1>10. ASSUME NEW p \in Pipes, TakeUnsub(p) PROVE TypeOK'
  BY <1>10 DEF TakeUnsub
<1>11. CASE SubsDrained
  BY <1>11 DEF SubsDrained
<1>12. CASE TakeTrigger
  BY <1>12 DEF TakeTrigger
<1>13. CASE Reset
  BY <1>13 DEF Reset
<1>14. CASE SignalDone
  BY <1>14 DEF SignalDone
<1>15. CASE TakePause
  <2>1. isPaused' \in BOOLEAN /\ pauses' \in Seq(BOOLEAN) /\ Len(pauses') <= ChanCap
    BY <1>15, PauseQueueType DEF TakePause
  <2> QED BY <1>15, <2>1 DEF TakePause
<1>16. CASE ControlDrained
  BY <1>16 DEF ControlDrained
<1>17. CASE PausedTick
  BY <1>17 DEF PausedTick
<1>18. CASE Tick
  BY <1>18 DEF Tick
<1>19. CASE UNCHANGED vars
  BY <1>19 DEF vars
<1> QED
  BY <1>1, <1>2, <1>3, <1>4, <1>5, <1>6, <1>7, <1>8, <1>9, <1>10, <1>11,
     <1>12, <1>13, <1>14, <1>15, <1>16, <1>17, <1>18, <1>19
  DEF Next, HandlerStep, ClockStep

\* Every variable keeps its type and no channel holds more than its room.
THEOREM TypeCorrect == Spec => []TypeOK
<1>1. Init => TypeOK
  <2>1. <<>> \in Seq(BOOLEAN) /\ Len(<<>>) = 0
    OBVIOUS
  <2> SUFFICES ASSUME Init PROVE TypeOK
    OBVIOUS
  <2>2. isPaused \in BOOLEAN /\ panicked \in BOOLEAN
    BY DEF Init
  <2>3. /\ pipe \in [Pipes -> {"unused", "live", "dead"}]
        /\ handler \in [Handlers -> {"idle", "sending", "waiting"}]
    BY DEF Init
  <2>4. /\ elapsed \in Nat /\ elapsed <= MaxElapsed
        /\ triggers \in Nat /\ triggers <= ChanCap
        /\ dones \in Nat /\ dones <= ChanCap
        /\ pauses \in Seq(BOOLEAN) /\ Len(pauses) <= ChanCap
    BY <2>1, ClockAssumption DEF ClockAssumption, Init
  <2> QED BY <2>2, <2>3, <2>4 DEF Init, TypeOK
<1> QED BY <1>1, TypeStep, PTL DEF Spec
-----------------------------------------------------------------------------
(* The contract with the handlers.  A request is in it from the trigger to *)
(* the reset.  New settings are followed by a trigger, so that a pull with *)
(* no trigger left, or to come, sees the settings that are stored.         *)
Pending == triggers > 0 \/ \E h \in Handlers : handler[h] = "sending"
PulledConfig == ~Pending => IF pc = "reset" THEN pulled = config ELSE applied = config

\* A restart that has yet to come will pull the settings; else they are pulled.
LEMMA PulledStep == TypeOK /\ PulledConfig /\ [Next]_vars => PulledConfig'
<1> SUFFICES ASSUME TypeOK, PulledConfig, [Next]_vars PROVE PulledConfig'
  OBVIOUS
<1> USE DEF TypeOK, PulledConfig, Pending, control, piping
<1>1. CASE Pause
  BY <1>1 DEF Pause, Request
<1>2. CASE Resume
  BY <1>2 DEF Resume, Request
<1>3. ASSUME NEW h \in Handlers, Restart(h) PROVE PulledConfig'
  BY <1>3 DEF Restart
<1>4. ASSUME NEW h \in Handlers, NEW c \in Configs, SetSettings(h, c) PROVE PulledConfig'
  BY <1>4 DEF SetSettings
<1>5. ASSUME NEW h \in Handlers, SendTrigger(h) PROVE PulledConfig'
  BY <1>5 DEF SendTrigger
<1>6. ASSUME NEW h \in Handlers, AwaitDone(h) PROVE PulledConfig'
  BY <1>6 DEF AwaitDone
<1>7. ASSUME NEW p \in Pipes, RegisterPipe(p) PROVE PulledConfig'
  BY <1>7 DEF RegisterPipe
<1>8. ASSUME NEW p \in Pipes, UnregisterPipe(p) PROVE PulledConfig'
  BY <1>8 DEF UnregisterPipe
<1>9. ASSUME NEW p \in Pipes, TakeSub(p) PROVE PulledConfig'
  BY <1>9 DEF TakeSub
<1>10. ASSUME NEW p \in Pipes, TakeUnsub(p) PROVE PulledConfig'
  BY <1>10 DEF TakeUnsub
<1>11. CASE SubsDrained
  BY <1>11 DEF SubsDrained
<1>12. CASE TakeTrigger
  BY <1>12 DEF TakeTrigger
<1>13. CASE Reset
  BY <1>13 DEF Reset
<1>14. CASE SignalDone
  BY <1>14 DEF SignalDone
<1>15. CASE TakePause
  BY <1>15 DEF TakePause
<1>16. CASE ControlDrained
  BY <1>16 DEF ControlDrained
<1>17. CASE PausedTick
  BY <1>17 DEF PausedTick
<1>18. CASE Tick
  BY <1>18 DEF Tick
<1>19. CASE UNCHANGED vars
  BY <1>19 DEF vars
<1> QED
  BY <1>1, <1>2, <1>3, <1>4, <1>5, <1>6, <1>7, <1>8, <1>9, <1>10, <1>11,
     <1>12, <1>13, <1>14, <1>15, <1>16, <1>17, <1>18, <1>19
  DEF Next, HandlerStep, ClockStep

\* Most steps are none of the contract's business.
LEMMA ContractStutters ==
  ASSUME UNCHANGED <<config, applied, handler, triggers, dones, pc>>
  PROVE  [Restarts!Next]_Restarts!vars
BY DEF Restarts!vars

\* Every step of the clock and its handlers is one of the contract's.
LEMMA ContractStep ==
  TypeOK /\ PulledConfig /\ [Next]_vars => [Restarts!Next]_Restarts!vars
<1> SUFFICES ASSUME TypeOK, PulledConfig, [Next]_vars PROVE [Restarts!Next]_Restarts!vars
  OBVIOUS
<1> USE DEF TypeOK, control, piping
<1>1. CASE Pause \/ Resume \/ TakePause
  BY <1>1, ContractStutters DEF Pause, Resume, Request, TakePause
<1>2. ASSUME NEW h \in Handlers, Restart(h) PROVE Restarts!Next
  <2>1. Restarts!Store(h, config)
    BY <1>2 DEF Restart, Restarts!Store
  <2> QED BY <2>1 DEF Restarts!Next
<1>3. ASSUME NEW h \in Handlers, NEW c \in Configs, SetSettings(h, c) PROVE Restarts!Next
  <2>1. Restarts!Store(h, c)
    BY <1>3 DEF SetSettings, Restarts!Store
  <2> QED BY <2>1 DEF Restarts!Next
<1>4. ASSUME NEW h \in Handlers, SendTrigger(h) PROVE Restarts!Next
  <2>1. Restarts!Ask(h)
    BY <1>4 DEF SendTrigger, Restarts!Ask
  <2> QED BY <2>1 DEF Restarts!Next
<1>5. ASSUME NEW h \in Handlers, AwaitDone(h) PROVE Restarts!Next
  <2>1. Restarts!Take(h)
    BY <1>5 DEF AwaitDone, Restarts!Take
  <2> QED BY <2>1 DEF Restarts!Next
<1>6. ASSUME NEW p \in Pipes, RegisterPipe(p) \/ UnregisterPipe(p) \/ TakeSub(p) \/ TakeUnsub(p)
      PROVE  [Restarts!Next]_Restarts!vars
  BY <1>6, ContractStutters DEF RegisterPipe, UnregisterPipe, TakeSub, TakeUnsub
<1>7. CASE SubsDrained \/ ControlDrained \/ PausedTick \/ Tick
  BY <1>7 DEF SubsDrained, ControlDrained, PausedTick, Tick, Restarts!vars
<1>8. CASE TakeTrigger
  BY <1>8 DEF TakeTrigger, Restarts!vars
<1>9. CASE Reset
  <2>1. triggers = 0 /\ Restarts!Sending = {} => pulled = config
    BY <1>9 DEF Reset, PulledConfig, Pending, Restarts!Sending
  <2>2. Restarts!Serve
    BY <1>9, <2>1 DEF Reset, Restarts!Serve
  <2> QED BY <2>2 DEF Restarts!Next
<1>10. CASE SignalDone
  BY <1>10 DEF SignalDone, Restarts!vars
<1>11. CASE UNCHANGED vars
  BY <1>11, ContractStutters DEF vars
<1> QED
  BY <1>1, <1>2, <1>3, <1>4, <1>5, <1>6, <1>7, <1>8, <1>9, <1>10, <1>11
  DEF Next, HandlerStep, ClockStep

\* Whatever overlaps, the clock keeps its contract with the handlers.
THEOREM KeepsTheContract == Spec => ImplementsRestartService
<1>1. Init => Restarts!Init
  BY DEF Init, Restarts!Init
<1>2. Init => PulledConfig
  BY DEF Init, PulledConfig
<1> QED
  BY <1>1, <1>2, ContractStep, PulledStep, TypeCorrect, PTL
  DEF Spec, ImplementsRestartService, Restarts!Spec
-----------------------------------------------------------------------------
(* What the contract gives the handlers of this clock.                     *)
Contract == INSTANCE RestartServiceProofs WITH
  requests <- triggers + (IF pc = "reset" THEN 1 ELSE 0),
  answers <- dones + (IF pc = "done" THEN 1 ELSE 0)

\* The instance has its own copies of the operators on finite sets.
LEMMA SameSets ==
  ASSUME NEW S
  PROVE  /\ Contract!IsFiniteSet(S) <=> IsFiniteSet(S)
         /\ Contract!Cardinality(S) = Cardinality(S)
<1>1. Contract!IsFiniteSet(S) <=> IsFiniteSet(S)
  BY Zenon DEF Contract!IsFiniteSet, IsFiniteSet
<1>2. Contract!Cardinality(S) = Cardinality(S)
  BY Zenon DEF Contract!Cardinality, Cardinality
<1> QED BY <1>1, <1>2

\* The theorems of the contract hold for the clock.
LEMMA ContractHolds ==
  Spec => []Contract!OneAnswerEach /\ []Contract!Settled
<1>1. Restarts!Spec => Contract!Spec
  BY DEF Restarts!Spec, Contract!Spec, Restarts!Init, Contract!Init, Restarts!vars, Contract!vars,
         Restarts!Next, Contract!Next, Restarts!Ask, Contract!Ask, Restarts!Take, Contract!Take,
         Restarts!Store, Contract!Store, Restarts!Serve, Contract!Serve,
         Restarts!Sending, Contract!Sending
<1>2. Contract!Spec => []Contract!OneAnswerEach
  <2>1. Contract!IsFiniteSet(Handlers)
    BY ClockAssumption, SameSets DEF ClockAssumption
  <2> QED BY <2>1, Contract!AnswersMatch
<1> QED
  BY <1>1, <1>2, KeepsTheContract, Contract!SettingsSettle, PTL
  DEF ImplementsRestartService

\* Each call of Restart has exactly one answer, waiting or to come, for any
\* number of handlers: none is left without, none is left over.
THEOREM RestartsAreAnswered == Spec => []OneAnswerEach
<1>1. TypeOK /\ Contract!OneAnswerEach => OneAnswerEach
  <2>1. Contract!Waiting = Waiting
    BY DEF Contract!Waiting, Waiting
  <2> QED BY <2>1, SameSets DEF Contract!OneAnswerEach, OneAnswerEach, Serving, TypeOK
<1> QED BY <1>1, ContractHolds, TypeCorrect, PTL

\* Once no request is in flight the clock runs on the settings last stored,
\* however the handlers interleaved.
THEOREM SettingsAreApplied == Spec => []SettledOnConfig
<1>1. TypeOK /\ OneAnswerEach /\ Contract!Settled => SettledOnConfig
  <2> SUFFICES ASSUME TypeOK, OneAnswerEach, Contract!Settled, ~InFlight PROVE applied = config
    BY DEF SettledOnConfig
  <2>1. Waiting = {} /\ Contract!Sending = {}
    BY DEF InFlight, Waiting, Contract!Sending
  <2>2. triggers = 0 /\ pc # "reset"
    BY <2>1, FS_EmptySet DEF OneAnswerEach, TypeOK, Serving
  <2> QED BY <2>1, <2>2 DEF Contract!Settled
<1> QED BY <1>1, ContractHolds, RestartsAreAnswered, TypeCorrect, PTL
-----------------------------------------------------------------------------
(* LivePipesAreServed: only the pipe of a dead thread is being             *)
(* unregistered or was closed, and only an unregistration removes a pipe.  *)
PipeInv ==
  \A p \in Pipes :
    /\ pipe[p] = "live" => p \in subs \cup subscribers
    /\ pipe[p] # "dead" => p \notin unsubs \cup closed

\* Every step of hub and clock keeps a live pipe on its way to the subscribers.
LEMMA PipeStep == TypeOK /\ PipeInv /\ [Next]_vars => PipeInv'
<1> SUFFICES ASSUME TypeOK, PipeInv, [Next]_vars PROVE PipeInv'
  OBVIOUS
<1> USE DEF TypeOK, PipeInv, control, piping
<1>1. CASE Pause
  BY <1>1 DEF Pause, Request
<1>2. CASE Resume
  BY <1>2 DEF Resume, Request
<1>3. ASSUME NEW h \in Handlers, Restart(h) PROVE PipeInv'
  BY <1>3 DEF Restart
<1>4. ASSUME NEW h \in Handlers, NEW c \in Configs, SetSettings(h, c) PROVE PipeInv'
  BY <1>4 DEF SetSettings
<1>5. ASSUME NEW h \in Handlers, SendTrigger(h) PROVE PipeInv'
  BY <1>5 DEF SendTrigger
<1>6. ASSUME NEW h \in Handlers, AwaitDone(h) PROVE PipeInv'
  BY <1>6 DEF AwaitDone
<1>7. ASSUME NEW p \in Pipes, RegisterPipe(p) PROVE PipeInv'
  BY <1>7 DEF RegisterPipe
<1>8. ASSUME NEW p \in Pipes, UnregisterPipe(p) PROVE PipeInv'
  BY <1>8 DEF UnregisterPipe
<1>9. ASSUME NEW p \in Pipes, TakeSub(p) PROVE PipeInv'
  BY <1>9 DEF TakeSub
<1>10. ASSUME NEW p \in Pipes, TakeUnsub(p) PROVE PipeInv'
  BY <1>10 DEF TakeUnsub
<1>11. CASE SubsDrained
  BY <1>11 DEF SubsDrained
<1>12. CASE TakeTrigger
  BY <1>12 DEF TakeTrigger
<1>13. CASE Reset
  BY <1>13 DEF Reset
<1>14. CASE SignalDone
  BY <1>14 DEF SignalDone
<1>15. CASE TakePause
  BY <1>15 DEF TakePause
<1>16. CASE ControlDrained
  BY <1>16 DEF ControlDrained
<1>17. CASE PausedTick
  BY <1>17 DEF PausedTick
<1>18. CASE Tick
  BY <1>18 DEF Tick
<1>19. CASE UNCHANGED vars
  BY <1>19 DEF vars
<1> QED
  BY <1>1, <1>2, <1>3, <1>4, <1>5, <1>6, <1>7, <1>8, <1>9, <1>10, <1>11,
     <1>12, <1>13, <1>14, <1>15, <1>16, <1>17, <1>18, <1>19
  DEF Next, HandlerStep, ClockStep

\* The pipe of a live symbol thread is never dropped or closed by the clock.
THEOREM LivePipesAreNotLost == Spec => []LivePipesAreServed
<1>1. Init => PipeInv
  BY DEF Init, PipeInv
<1>2. PipeInv => LivePipesAreServed
  BY DEF PipeInv, LivePipesAreServed
<1> QED BY <1>1, <1>2, PipeStep, TypeCorrect, PTL DEF Spec
-----------------------------------------------------------------------------
(* TimeRunsUnpaused: a restart paused the clock before it resets the time. *)
PausedInReset == pc = "reset" => isPaused

\* The clock is paused before it resets, and nothing resumes it in between.
LEMMA PausedStep == TypeOK /\ PausedInReset /\ [Next]_vars => PausedInReset'
<1> SUFFICES ASSUME TypeOK, PausedInReset, [Next]_vars PROVE PausedInReset'
  OBVIOUS
<1> USE DEF TypeOK, PausedInReset, control, piping
<1>1. CASE Pause
  BY <1>1 DEF Pause, Request
<1>2. CASE Resume
  BY <1>2 DEF Resume, Request
<1>3. ASSUME NEW h \in Handlers, Restart(h) PROVE PausedInReset'
  BY <1>3 DEF Restart
<1>4. ASSUME NEW h \in Handlers, NEW c \in Configs, SetSettings(h, c) PROVE PausedInReset'
  BY <1>4 DEF SetSettings
<1>5. ASSUME NEW h \in Handlers, SendTrigger(h) PROVE PausedInReset'
  BY <1>5 DEF SendTrigger
<1>6. ASSUME NEW h \in Handlers, AwaitDone(h) PROVE PausedInReset'
  BY <1>6 DEF AwaitDone
<1>7. ASSUME NEW p \in Pipes, RegisterPipe(p) PROVE PausedInReset'
  BY <1>7 DEF RegisterPipe
<1>8. ASSUME NEW p \in Pipes, UnregisterPipe(p) PROVE PausedInReset'
  BY <1>8 DEF UnregisterPipe
<1>9. ASSUME NEW p \in Pipes, TakeSub(p) PROVE PausedInReset'
  BY <1>9 DEF TakeSub
<1>10. ASSUME NEW p \in Pipes, TakeUnsub(p) PROVE PausedInReset'
  BY <1>10 DEF TakeUnsub
<1>11. CASE SubsDrained
  BY <1>11 DEF SubsDrained
<1>12. CASE TakeTrigger
  BY <1>12 DEF TakeTrigger
<1>13. CASE Reset
  BY <1>13 DEF Reset
<1>14. CASE SignalDone
  BY <1>14 DEF SignalDone
<1>15. CASE TakePause
  BY <1>15 DEF TakePause
<1>16. CASE ControlDrained
  BY <1>16 DEF ControlDrained
<1>17. CASE PausedTick
  BY <1>17 DEF PausedTick
<1>18. CASE Tick
  BY <1>18 DEF Tick
<1>19. CASE UNCHANGED vars
  BY <1>19 DEF vars
<1> QED
  BY <1>1, <1>2, <1>3, <1>4, <1>5, <1>6, <1>7, <1>8, <1>9, <1>10, <1>11,
     <1>12, <1>13, <1>14, <1>15, <1>16, <1>17, <1>18, <1>19
  DEF Next, HandlerStep, ClockStep

\* Simulated time advances by single seconds while unpaused and otherwise only
\* goes back to the start, paused, in a restart.
THEOREM TimeIsMonotone == Spec => TimeRunsUnpaused
<1>1. TypeOK /\ PausedInReset /\ [Next]_vars => [TimeStep]_<<elapsed, applied>>
  <2> SUFFICES ASSUME TypeOK, PausedInReset, [Next]_vars, ~UNCHANGED <<elapsed, applied>>
               PROVE TimeStep
    OBVIOUS
  <2> USE ClockAssumption DEF ClockAssumption, TypeOK, TimeStep
  <2>1. CASE Reset
    BY <2>1 DEF Reset, PausedInReset
  <2>2. CASE Tick
    BY <2>2 DEF Tick, Advance
  <2>3. ~Reset /\ ~Tick => UNCHANGED <<elapsed, applied>>
    BY DEF Next, HandlerStep, ClockStep, vars, control, piping, Pause, Resume, Request,
           Restart, SetSettings, SendTrigger, AwaitDone, RegisterPipe, UnregisterPipe,
           TakeSub, TakeUnsub, SubsDrained, TakeTrigger, SignalDone, TakePause,
           ControlDrained, PausedTick
  <2> QED BY <2>1, <2>2, <2>3
<1>2. Init => PausedInReset
  BY DEF Init, PausedInReset
<1> QED BY <1>1, <1>2, PausedStep, TypeCorrect, PTL DEF Spec, TimeRunsUnpaused
-----------------------------------------------------------------------------
(* LastAnswerIsOwn: the handlers that wait without a pull since they sent  *)
(* their trigger are no more than the triggers that are still to be taken. *)
Unserved == Waiting \ served
UnservedInv == Cardinality(Unserved) <= triggers

\* What a step may do to the handlers that wait for a pull.
LEMMA UnservedCount ==
  /\ IsFiniteSet(Unserved) /\ Cardinality(Unserved) \in Nat
  /\ \A S \in SUBSET Unserved : Cardinality(S) \in Nat /\ Cardinality(S) <= Cardinality(Unserved)
  /\ \A h \in Handlers : handler[h] # "waiting" =>
       Cardinality(Unserved \cup {h}) = Cardinality(Unserved) + 1
<1>1. IsFiniteSet(Unserved)
  BY ClockAssumption, FS_Subset DEF ClockAssumption, Waiting, Unserved
<1>2. \A S \in SUBSET Unserved :
        IsFiniteSet(S) /\ Cardinality(S) \in Nat /\ Cardinality(S) <= Cardinality(Unserved)
  BY <1>1, FS_Subset, FS_CardinalityType
<1> QED BY <1>1, <1>2, FS_CardinalityType, FS_AddElement DEF Waiting, Unserved

\* A trigger that is sent adds one to both, a pull serves all that wait.
LEMMA UnservedStep == TypeOK /\ UnservedInv /\ [Next]_vars => UnservedInv'
<1> SUFFICES ASSUME TypeOK, UnservedInv, [Next]_vars PROVE UnservedInv'
  OBVIOUS
<1>0. TypeOK'
  BY TypeStep
<1> USE DEF control, piping
<1>1. ASSUME UNCHANGED <<handler, served, triggers>> PROVE UnservedInv'
  BY <1>1 DEF UnservedInv, Unserved, Waiting
<1>2. ASSUME NEW h \in Handlers, SendTrigger(h) PROVE UnservedInv'
  <2>1. Unserved' = Unserved \cup {h} /\ handler[h] # "waiting" /\ triggers' = triggers + 1
    BY <1>2 DEF SendTrigger, Unserved, Waiting, TypeOK
  <2> QED BY <2>1, UnservedCount DEF UnservedInv, TypeOK
<1>3. ASSUME NEW h \in Handlers,
             AwaitDone(h) \/ Restart(h) \/ \E c \in Configs : SetSettings(h, c)
      PROVE UnservedInv'
  <2>1. Unserved' \in SUBSET Unserved /\ triggers' = triggers
    BY <1>3 DEF AwaitDone, Restart, SetSettings, Unserved, Waiting, TypeOK
  <2> QED BY <2>1, UnservedCount DEF UnservedInv, TypeOK
<1>4. CASE TakeTrigger
  <2>1. Unserved' = {} /\ triggers' \in Nat
    BY <1>0, <1>4 DEF TakeTrigger, Unserved, Waiting, TypeOK
  <2> QED BY <2>1, FS_EmptySet DEF UnservedInv
<1>5. ASSUME NEW p \in Pipes, RegisterPipe(p) \/ UnregisterPipe(p) \/ TakeSub(p) \/ TakeUnsub(p)
      PROVE UnservedInv'
  BY <1>1, <1>5 DEF RegisterPipe, UnregisterPipe, TakeSub, TakeUnsub
<1>6. CASE Pause \/ Resume \/ TakePause \/ SubsDrained \/ ControlDrained
  BY <1>1, <1>6 DEF Pause, Resume, Request, TakePause, SubsDrained, ControlDrained
<1>7. CASE Reset \/ SignalDone
  BY <1>1, <1>7 DEF Reset, SignalDone
<1>8. CASE PausedTick \/ Tick
  BY <1>1, <1>8 DEF PausedTick, Tick
<1>9. CASE UNCHANGED vars
  BY <1>1, <1>9 DEF vars
<1> QED
  BY <1>2, <1>3, <1>4, <1>5, <1>6, <1>7, <1>8, <1>9 DEF Next, HandlerStep, ClockStep

\* The answers are anonymous, yet the last handler to wait gets its answer after
\* the clock has pulled the settings for it, for any number of handlers.
THEOREM LastHandlerIsServed == Spec => LastAnswerIsOwn
<1> DEFINE Own == \A h \in Handlers : AwaitDone(h) /\ Waiting = {h} => h \in served
<1>1. ASSUME Init PROVE UnservedInv
  <2>1. Unserved = {} /\ triggers = 0
    BY <1>1 DEF Init, Unserved, Waiting
  <2>2. Cardinality(Unserved) = 0
    BY <2>1, FS_EmptySet
  <2> QED BY <2>1, <2>2 DEF UnservedInv
<1>2. ASSUME TypeOK, OneAnswerEach, UnservedInv PROVE Own
  <2> SUFFICES ASSUME NEW h \in Handlers, AwaitDone(h), Waiting = {h} PROVE h \in served
    OBVIOUS
  <2>1. Cardinality(Waiting) = 1
    BY FS_Singleton
  <2>2. triggers = 0
    BY <1>2, <2>1 DEF AwaitDone, OneAnswerEach, Serving, TypeOK
  <2>3. IsFiniteSet(Unserved) /\ Cardinality(Unserved) = 0
    BY <1>2, <2>2, UnservedCount DEF UnservedInv
  <2>4. Unserved = {}
    BY <2>3, FS_EmptySet
  <2> QED BY <2>4 DEF Unserved
<1> QED BY <1>1, <1>2, UnservedStep, TypeCorrect, RestartsAreAnswered, PTL DEF Spec, LastAnswerIsOwn
-----------------------------------------------------------------------------
(* LastRequestStands: the queue is served in order, so its last message    *)
(* decides; and with no request in flight there is no trigger behind it.   *)
LEMMA AppendLast ==
  ASSUME NEW q \in Seq(BOOLEAN), NEW b \in BOOLEAN
  PROVE  Append(q, b) # <<>> /\ Append(q, b)[Len(Append(q, b))] = b
OBVIOUS

LEMMA TailLast ==
  ASSUME NEW q \in Seq(BOOLEAN), q # <<>>
  PROVE  IF Tail(q) = <<>> THEN Head(q) = q[Len(q)] ELSE Tail(q)[Len(Tail(q))] = q[Len(q)]
<1>1. /\ Len(q) \in Nat /\ Len(q) >= 1 /\ Head(q) = q[1]
      /\ Tail(q) \in Seq(BOOLEAN) /\ Len(Tail(q)) = Len(q) - 1
  OBVIOUS
<1>2. CASE Tail(q) = <<>>
  <2>1. Len(Tail(q)) = 0
    BY <1>2, Len(<<>>) = 0
  <2> QED BY <1>1, <1>2, <2>1
<1>3. CASE Tail(q) # <<>>
  <2>1. Len(Tail(q)) # 0
    BY <1>1, <1>3
  <2>2. Len(q) - 1 \in 1..Len(Tail(q))
    BY <1>1, <2>1
  <2>3. Tail(q)[Len(q) - 1] = q[Len(q) - 1 + 1]
    BY <1>1, <2>2
  <2> QED BY <1>1, <1>3, <2>3
<1> QED BY <1>2, <1>3

LEMMA RequestStands ==
  ASSUME TypeOK, OneAnswerEach, LastRequestStands, NEW b \in BOOLEAN, Request(b)
  PROVE  LastRequestStands'
<1>1. Outcome' = b
  BY AppendLast DEF TypeOK, Request, Outcome
<1>2. triggers' = triggers
  BY DEF Request
<1>3. CASE b
  <2>1. command' = "pause" /\ b = TRUE
    BY <1>3 DEF Request
  <2> QED BY <1>1, <2>1 DEF LastRequestStands
<1>4. CASE ~b /\ InFlight
  <2>1. command' = "race"
    BY <1>4 DEF Request
  <2> QED BY <2>1 DEF LastRequestStands
<1>5. CASE ~b /\ ~InFlight
  <2>1. Waiting = {}
    BY <1>5 DEF InFlight, Waiting
  <2>2. triggers = 0
    BY <2>1, FS_EmptySet DEF OneAnswerEach, TypeOK, Serving
  <2>3. command' = "resume" /\ b = FALSE
    BY <1>5 DEF Request
  <2> QED BY <1>1, <1>2, <2>2, <2>3 DEF LastRequestStands
<1> QED BY <1>3, <1>4, <1>5

LEMMA TakePauseStands ==
  ASSUME TypeOK, LastRequestStands, TakePause
  PROVE  LastRequestStands'
<1>1. pauses # <<>> /\ pauses \in Seq(BOOLEAN) /\ pauses' = Tail(pauses) /\ isPaused' = Head(pauses)
  BY DEF TypeOK, TakePause
<1>2. Outcome' = Outcome
  BY <1>1, TailLast DEF Outcome
<1>3. UNCHANGED <<command, triggers>>
  BY DEF TakePause
<1> QED BY <1>2, <1>3 DEF LastRequestStands

\* Only a request, a trigger sent or taken, and a message taken from the queue
\* touch what is to come.
LEMMA StandsStep ==
  TypeOK /\ OneAnswerEach /\ LastRequestStands /\ [Next]_vars => LastRequestStands'
<1> SUFFICES ASSUME TypeOK, OneAnswerEach, LastRequestStands, [Next]_vars
             PROVE  LastRequestStands'
  OBVIOUS
<1>1. CASE Pause \/ Resume
  BY <1>1, RequestStands DEF Pause, Resume
<1>2. ASSUME NEW h \in Handlers, SendTrigger(h) PROVE LastRequestStands'
  BY <1>2 DEF SendTrigger, LastRequestStands
<1>3. CASE TakeTrigger
  <2>1. command # "resume" /\ UNCHANGED <<command, pauses>> /\ isPaused' = TRUE
    BY <1>3 DEF TakeTrigger, LastRequestStands, TypeOK
  <2>2. Outcome = TRUE => Outcome' = TRUE
    BY <2>1 DEF Outcome
  <2> QED BY <2>1, <2>2 DEF LastRequestStands
<1>4. CASE TakePause
  BY <1>4, TakePauseStands
<1>5. ASSUME UNCHANGED <<command, triggers, pauses, isPaused>> PROVE LastRequestStands'
  BY <1>5 DEF LastRequestStands, Outcome
<1>6. ASSUME NEW h \in Handlers,
             Restart(h) \/ AwaitDone(h) \/ \E c \in Configs : SetSettings(h, c)
      PROVE  LastRequestStands'
  BY <1>5, <1>6 DEF Restart, AwaitDone, SetSettings, control
<1>7. ASSUME NEW p \in Pipes,
             RegisterPipe(p) \/ UnregisterPipe(p) \/ TakeSub(p) \/ TakeUnsub(p)
      PROVE  LastRequestStands'
  BY <1>5, <1>7 DEF RegisterPipe, UnregisterPipe, TakeSub, TakeUnsub, control
<1>8. CASE SubsDrained \/ Reset \/ SignalDone \/ ControlDrained \/ PausedTick \/ Tick
  BY <1>5, <1>8 DEF SubsDrained, Reset, SignalDone, ControlDrained, PausedTick, Tick, control
<1>9. CASE UNCHANGED vars
  BY <1>5, <1>9 DEF vars, control
<1> QED
  BY <1>1, <1>2, <1>3, <1>4, <1>6, <1>7, <1>8, <1>9 DEF Next, HandlerStep, ClockStep

\* A request to pause, or to resume, that no other follows is what the clock
\* comes to: the part of RequestsTakeEffect that is about every single step.
THEOREM LastRequestIsNotUndone == Spec => []LastRequestStands
<1>1. Init => LastRequestStands
  BY DEF Init, LastRequestStands, Outcome
<1> QED BY <1>1, StandsStep, TypeCorrect, RestartsAreAnswered, PTL DEF Spec
=============================================================================
