------------------------- MODULE SimulationProofs -------------------------
(* Safety of Simulation for any handlers, threads, goroutines and capacity *)
(* of broadcastInbox.                                                      *)
EXTENDS Simulation, FiniteSetTheorems, TLAPS

LEMMA SelectType ==
  ASSUME TypeOK, NEW t \in Threads, NEW e \in Nat
  PROVE  Select(t, e) \in LoopStates /\ Select(t, e) # Off /\ Select(t, e).epoch = e
BY DEF Select, LoopStates, Off, TypeOK

LEMMA StreamingType ==
  ASSUME NEW l \in LoopStates, Running(l)
  PROVE  /\ l \in [at : {"select", "stopping", "send", "end"}, epoch : Nat] /\ l.epoch \in Nat /\ l # Off
         /\ \A a \in {"select", "stopping", "send", "end"} :
              /\ [l EXCEPT !.at = a] \in LoopStates
              /\ [l EXCEPT !.at = a].epoch = l.epoch
              /\ Running([l EXCEPT !.at = a])
              /\ [l EXCEPT !.at = a] # Off
BY DEF LoopStates, Running, Off, Starting

\* What is set in one place keeps its type.
LEMMA SetLoopType ==
  ASSUME TypeOK, NEW t \in Threads, NEW s \in Slots, NEW l \in LoopStates, SetLoop(t, s, l)
  PROVE  /\ loop' \in [Threads -> [Slots -> LoopStates]]
         /\ loop'[t][s] = l
         /\ \A u \in Threads, r \in Slots : u # t \/ r # s => loop'[u][r] = loop[u][r]
BY DEF SetLoop, TypeOK

LEMMA CancelType ==
  ASSUME TypeOK, NEW t \in Threads, Cancel(t)
  PROVE  /\ loop' \in [Threads -> [Slots -> LoopStates]] /\ done' \in [Threads -> BOOLEAN]
         /\ \A u \in Threads, s \in Slots :
              /\ loop'[u][s].epoch = loop[u][s].epoch
              /\ Running(loop'[u][s]) <=> Running(loop[u][s])
              /\ loop'[u][s] = Off <=> loop[u][s] = Off
<1>1. \A u \in Threads, s \in Slots : loop[u][s] \in LoopStates
  BY DEF TypeOK
<1>2. \A u \in Threads, s \in Slots :
        loop'[u][s] = IF u = t /\ loop[u][s].at = "select"
                        THEN [loop[u][s] EXCEPT !.at = "stopping"] ELSE loop[u][s]
  BY DEF Cancel, TypeOK
<1>3. \A u \in Threads, s \in Slots : loop[u][s].at = "select" =>
        loop[u][s] \in [at : {"select", "stopping", "send", "end"}, epoch : Nat]
  BY <1>1 DEF LoopStates, Off, Starting
<1>4. ASSUME NEW u \in Threads, NEW s \in Slots
      PROVE  /\ loop'[u][s] \in LoopStates
             /\ loop'[u][s].epoch = loop[u][s].epoch
             /\ Running(loop'[u][s]) <=> Running(loop[u][s])
             /\ loop'[u][s] = Off <=> loop[u][s] = Off
  <2>1. CASE u = t /\ loop[u][s].at = "select"
    <3>1. loop'[u][s] = [loop[u][s] EXCEPT !.at = "stopping"]
      BY <1>2, <2>1
    <3> QED BY <1>3, <2>1, <3>1 DEF LoopStates, Running, Off
  <2>2. CASE ~(u = t /\ loop[u][s].at = "select")
    <3>1. loop'[u][s] = loop[u][s]
      BY <1>2, <2>2
    <3> QED BY <1>1, <3>1
  <2> QED BY <2>1, <2>2
<1>5. done' \in [Threads -> BOOLEAN]
  BY DEF Cancel, TypeOK
<1>6. loop' \in [Threads -> [Slots -> LoopStates]]
  <2>1. loop' = [loop EXCEPT ![t] = loop'[t]] /\ loop'[t] = [s \in Slots |-> loop'[t][s]]
    BY DEF Cancel, TypeOK
  <2>2. loop'[t] \in [Slots -> LoopStates]
    BY <1>4, <2>1
  <2> QED BY <2>1, <2>2 DEF TypeOK
<1> QED BY <1>4, <1>5, <1>6

LEMMA BeginType ==
  ASSUME TypeOK, NEW t \in Threads, Begin(t)
  PROVE  \E s \in Slots : loop[t][s] = Off /\ SetLoop(t, s, Starting) /\ Starting \in LoopStates
<1>1. (CHOOSE s \in Free(t) : TRUE) \in Free(t)
  BY DEF Begin
<1> QED BY <1>1 DEF Begin, Free, LoopStates
-----------------------------------------------------------------------------
(* Every variable keeps its type.                                          *)
LEMMA TypeStep == TypeOK /\ [Next]_vars => TypeOK'
<1> SUFFICES ASSUME TypeOK, [Next]_vars PROVE TypeOK'
  OBVIOUS
<1> USE SimulationAssumption DEF SimulationAssumption, clock, walks, objects, traffic, history
<1>1. ASSUME NEW h \in Handlers, Trigger(h) PROVE TypeOK'
  BY <1>1 DEF Trigger, TypeOK
<1>2. CASE Reset
  BY <1>2 DEF Reset, TypeOK
<1>3. ASSUME NEW h \in Handlers, AwaitDone(h) PROVE TypeOK'
  BY <1>3 DEF AwaitDone, TypeOK, Table
<1>4. ASSUME NEW h \in Handlers, NEW t \in Threads, Visit(h, t) PROVE TypeOK'
  BY <1>4 DEF Visit, TypeOK
<1>5. ASSUME NEW h \in Handlers, EndWalk(h) PROVE TypeOK'
  BY <1>5 DEF EndWalk, TypeOK
<1>6. ASSUME NEW h \in Handlers, Return(h) PROVE TypeOK'
  BY <1>6 DEF Return, TypeOK
<1>7. ASSUME NEW h \in Handlers, NEW t \in Threads, CancelToRestart(h, t) PROVE TypeOK'
  BY <1>7, CancelType DEF CancelToRestart, TypeOK
<1>8. ASSUME NEW h \in Handlers, NEW t \in Threads, Waited(h, t) PROVE TypeOK'
  BY <1>8 DEF Waited, TypeOK
<1>9. ASSUME NEW h \in Handlers, NEW t \in Threads, StartAgain(h, t) PROVE TypeOK'
  <2>1. loop' \in [Threads -> [Slots -> LoopStates]]
    BY <1>9, BeginType, SetLoopType DEF StartAgain
  <2>2. done' \in [Threads -> BOOLEAN]
    BY <1>9 DEF StartAgain, TypeOK
  <2> QED BY <1>9, <2>1, <2>2 DEF StartAgain, TypeOK
<1>10. CASE TakeBroadcast
  BY <1>10 DEF TakeBroadcast, TypeOK
<1>11. ASSUME NEW t \in Threads, Launch(t) PROVE TypeOK'
  BY <1>11 DEF Launch, TypeOK
<1>12. ASSUME NEW t \in Threads, Kill(t) PROVE TypeOK'
  BY <1>12 DEF Kill, TypeOK
<1>13. ASSUME NEW t \in Threads, AsyncCancel(t) PROVE TypeOK'
  BY <1>13, CancelType DEF AsyncCancel, TypeOK
<1>14. ASSUME NEW t \in Threads, ClosePipe(t) PROVE TypeOK'
  BY <1>14 DEF ClosePipe, TypeOK
<1>15. ASSUME NEW t \in Threads, GoStart(t) PROVE TypeOK'
  <2>1. loop' \in [Threads -> [Slots -> LoopStates]]
    BY <1>15, BeginType, SetLoopType DEF GoStart
  <2> QED BY <1>15, <2>1 DEF GoStart, TypeOK
<1>16. ASSUME NEW t \in Threads, NEW s \in Slots, ReadTime(t, s) PROVE TypeOK'
  <2>1. loop' \in [Threads -> [Slots -> LoopStates]]
    <3>1. Select(t, epoch) \in LoopStates /\ Off \in LoopStates
      BY SelectType DEF TypeOK, LoopStates
    <3> QED BY <1>16, <3>1, SetLoopType DEF ReadTime
  <2> QED BY <1>16, <2>1 DEF ReadTime, TypeOK
<1>17. ASSUME NEW t \in Threads, NEW s \in Slots, Tick(t, s) PROVE TypeOK'
  <2>1. \A a \in {"send", "end"} : [loop[t][s] EXCEPT !.at = a] \in LoopStates
    <3>1. loop[t][s] \in LoopStates /\ Running(loop[t][s])
      BY <1>17 DEF Tick, TypeOK, Running
    <3> QED BY <3>1, StreamingType
  <2>2. loop' \in [Threads -> [Slots -> LoopStates]]
    BY <1>17, <2>1, SetLoopType DEF Tick
  <2> QED BY <1>17, <2>2 DEF Tick, TypeOK
<1>18. ASSUME NEW t \in Threads, NEW s \in Slots, Send(t, s) PROVE TypeOK'
  <2>1. loop[t][s].epoch \in Nat
    BY <1>18 DEF Send, TypeOK, LoopStates, Off, Starting
  <2>2. loop' \in [Threads -> [Slots -> LoopStates]]
    <3>1. loop[t][s] \in LoopStates /\ Running(loop[t][s])
      BY <1>18 DEF Send, TypeOK, Running
    <3>2. [loop[t][s] EXCEPT !.at = "end"] \in LoopStates
      BY <3>1, StreamingType
    <3> QED BY <1>18, <2>1, <3>2, SelectType, SetLoopType DEF Send
  <2>3. inbox' \in 0..InboxCap /\ latest' \in [Threads -> Nat]
    BY <1>18, <2>1 DEF Send, TypeOK
  <2> QED BY <1>18, <2>2, <2>3 DEF Send, TypeOK
<1>19. ASSUME NEW t \in Threads, NEW s \in Slots, Stop(t, s) \/ EndOfBuffer(t, s) PROVE TypeOK'
  <2>1. Off \in LoopStates
    BY DEF LoopStates
  <2>2. CASE Stop(t, s) \/ SeriesOver(t, s)
    <3>1. loop' \in [Threads -> [Slots -> LoopStates]]
      BY <2>1, <2>2, SetLoopType DEF Stop, SeriesOver
    <3> QED BY <2>2, <3>1 DEF Stop, SeriesOver, TypeOK
  <2>3. CASE Swap(t, s)
    <3>1. loop[t][s].epoch \in Nat
      BY <2>3 DEF Swap, TypeOK, LoopStates, Off, Starting
    <3>2. loop' \in [Threads -> [Slots -> LoopStates]]
      BY <2>3, <3>1, SelectType, SetLoopType DEF Swap
    <3> QED BY <2>3, <3>2 DEF Swap, TypeOK
  <2>4. CASE FetchFails(t, s)
    BY <2>4 DEF LoopStep, FetchFails, TypeOK, LoopStates
  <2> QED BY <1>19, <2>2, <2>3, <2>4 DEF EndOfBuffer
<1>20. CASE UNCHANGED vars
  BY <1>20 DEF vars, TypeOK, LoopStates
<1> QED
  BY <1>1, <1>2, <1>3, <1>4, <1>5, <1>6, <1>7, <1>8, <1>9, <1>10, <1>11, <1>12,
     <1>13, <1>14, <1>15, <1>16, <1>17, <1>18, <1>19, <1>20
  DEF Next, HandlerStep, RestartStep, LoopStep

LEMMA TypeInit == Init => TypeOK
<1> SUFFICES ASSUME Init PROVE TypeOK
  OBVIOUS
<1>1. crashed \in BOOLEAN
  BY Zenon DEF Init
<1>2. done \in [Threads -> BOOLEAN] /\ loop \in [Threads -> [Slots -> LoopStates]]
  BY DEF Init, LoopStates
<1> QED BY <1>1, <1>2, SimulationAssumption DEF SimulationAssumption, Init, TypeOK

\* Every variable keeps its type and broadcastInbox its room.
THEOREM TypeCorrect == Spec => []TypeOK
<1>1. Init => TypeOK
  BY TypeInit
<1> QED BY <1>1, TypeStep, PTL DEF Spec
-----------------------------------------------------------------------------
(* The contract with the clock, and what it gives the handlers.            *)

\* Every step of the handlers and of the clock is one of the contract's, and
\* the rest of the system leaves it alone.
LEMMA ContractStep == TypeOK /\ [Next]_vars => [Restarts!Next]_Restarts!vars
<1> SUFFICES ASSUME TypeOK, [Next]_vars PROVE [Restarts!Next]_Restarts!vars
  OBVIOUS
<1> USE DEF TypeOK, InContract
<1>1. ASSUME NEW h \in Handlers, Trigger(h) PROVE Restarts!Next
  <2>1. Restarts!Ask(h)
    BY <1>1 DEF Trigger, Restarts!Ask
  <2> QED BY <2>1 DEF Restarts!Next
<1>2. CASE Reset
  <2>1. Restarts!Serve
    BY <1>2 DEF Reset, walks, Restarts!Serve
  <2> QED BY <2>1 DEF Restarts!Next
<1>3. ASSUME NEW h \in Handlers, AwaitDone(h) PROVE Restarts!Next
  <2>1. Restarts!Take(h)
    BY <1>3 DEF AwaitDone, Restarts!Take
  <2> QED BY <2>1 DEF Restarts!Next
<1>4. ASSUME NEW h \in Handlers, EndWalk(h) \/ Return(h) PROVE UNCHANGED Restarts!vars
  BY <1>4 DEF EndWalk, Return, clock, Restarts!vars
<1>5. ASSUME UNCHANGED <<clock, handler>> PROVE UNCHANGED Restarts!vars
  BY <1>5 DEF clock, Restarts!vars
<1> QED
  BY <1>1, <1>2, <1>3, <1>4, <1>5
  DEF Next, HandlerStep, RestartStep, LoopStep, vars, walks, Visit, CancelToRestart, Waited, StartAgain,
      TakeBroadcast, Launch, Kill, AsyncCancel, ClosePipe, GoStart, ReadTime, Tick, Send, Stop,
      EndOfBuffer, SeriesOver, Swap, FetchFails

\* Whatever overlaps, handlers and clock keep the contract between them.
THEOREM KeepsTheContract == Spec => ImplementsRestartService
<1>1. Init => Restarts!Init
  BY DEF Init, InContract, Restarts!Init
<1> QED
  BY <1>1, ContractStep, TypeCorrect, PTL DEF Spec, ImplementsRestartService, Restarts!Spec

Contract == INSTANCE RestartServiceProofs WITH
  Configs <- {0}, config <- 0, applied <- 0,
  handler <- InContract, requests <- triggers, answers <- dones

\* The instance has its own copies of the operators on finite sets.
LEMMA SameSets ==
  ASSUME NEW S
  PROVE  /\ Contract!IsFiniteSet(S) <=> IsFiniteSet(S)
         /\ Contract!Cardinality(S) = Cardinality(S)
<1>1. Contract!IsFiniteSet(S) <=> IsFiniteSet(S)
  BY Zenon DEF Contract!IsFiniteSet, IsFiniteSet
<1>2. Contract!Cardinality(S) = Cardinality(S)
  BY Zenon DEF Contract!Cardinality, Cardinality
<1> QED BY <1>1, <1>2

\* As many handlers wait as there are triggers and answers: a theorem of the
\* contract.
Counted == Cardinality(Waiting) = triggers + dones
LEMMA AnswersAreCounted == Spec => []Counted
<1>1. Contract!Spec => []Contract!OneAnswerEach
  <2>1. Contract!IsFiniteSet(Handlers)
    BY SimulationAssumption, SameSets DEF SimulationAssumption
  <2> QED BY <2>1, Contract!AnswersMatch
<1>2. Contract!OneAnswerEach => Counted
  <2>1. Contract!Waiting = Waiting
    BY DEF Contract!Waiting, InContract, Waiting
  <2> QED BY <2>1, SameSets DEF Contract!OneAnswerEach, Counted
<1>3. Restarts!Spec => Contract!Spec
  BY DEF Restarts!Spec, Contract!Spec, Restarts!Init, Contract!Init, Restarts!vars, Contract!vars,
         Restarts!Next, Contract!Next, Restarts!Ask, Contract!Ask, Restarts!Take, Contract!Take,
         Restarts!Store, Contract!Store, Restarts!Serve, Contract!Serve,
         Restarts!Sending, Contract!Sending
<1> QED BY <1>1, <1>2, <1>3, KeepsTheContract, PTL DEF ImplementsRestartService
-----------------------------------------------------------------------------
(* ThreadsFollowTheClock.  A handler waits for each trigger and each answer *)
(* there is.  A loop of the table that streams from an older time is still *)
(* to be stopped by somebody: by whoever takes an answer that is there, by *)
(* a walk that has yet to find its thread, or by a restart that has not    *)
(* waited for it yet.                                                      *)
Resting ==
  \A h \in Handlers : handler[h] \in {"idle", "waiting"} =>
    \A t \in Threads : restart[h][t] = "out"
Untouched ==
  \A t \in Threads : thread[t] = "unused" =>
    t \notin due /\ AllOff(t) /\ \A h \in Handlers : restart[h][t] = "out"

Behind(t, s) == Running(loop[t][s]) /\ loop[t][s].epoch # epoch
Promised(t) ==
  \/ dones > 0
  \/ \E h \in Handlers : handler[h] = "walking" /\ t \in owed[h] /\ restart[h][t] = "out"
  \/ \E h \in Handlers : restart[h][t] \in {"cancel", "wait"}
Promises == \A t \in Table, s \in Slots : Behind(t, s) => Promised(t)

FollowInv == TypeOK /\ Resting /\ Untouched /\ Promises

\* A handler that has not begun to walk, or has returned, restarts nothing.
LEMMA RestingStep == TypeOK /\ Resting /\ [Next]_vars => Resting'
<1> SUFFICES ASSUME TypeOK, Resting, [Next]_vars PROVE Resting'
  OBVIOUS
<1> USE DEF Resting, TypeOK, walks
<1>1. ASSUME NEW h \in Handlers, Trigger(h) \/ AwaitDone(h) \/ EndWalk(h) \/ Return(h) PROVE Resting'
  BY <1>1 DEF Trigger, AwaitDone, EndWalk, Return
<1>2. ASSUME NEW h \in Handlers, NEW t \in Threads, Visit(h, t) \/ RestartStep(h, t) PROVE Resting'
  <2>1. handler[h] \notin {"idle", "waiting"}
    BY <1>2 DEF Visit, RestartStep, CancelToRestart, Waited, StartAgain
  <2>2. handler' = handler /\ \A g \in Handlers \ {h} : restart'[g] = restart[g]
    BY <1>2 DEF Visit, RestartStep, CancelToRestart, Waited, StartAgain
  <2> QED BY <2>1, <2>2
<1>3. CASE UNCHANGED walks
  BY <1>3
<1> QED
  BY <1>1, <1>2, <1>3
  DEF Next, HandlerStep, LoopStep, vars, Reset, TakeBroadcast, Launch, Kill, AsyncCancel,
      ClosePipe, GoStart, ReadTime, Tick, Send, Stop, EndOfBuffer, SeriesOver, Swap, FetchFails

\* A thread that was not launched is known to nobody.
LEMMA UntouchedStep == TypeOK /\ Untouched /\ [Next]_vars => Untouched'
<1> SUFFICES ASSUME TypeOK, Untouched, [Next]_vars, NEW u \in Threads, (thread[u] = "unused")'
             PROVE  u \notin due' /\ AllOff(u)' /\ \A g \in Handlers : restart'[g][u] = "out"
  BY DEF Untouched
<1>0. thread[u] = "unused"
  BY DEF TypeOK, Next, HandlerStep, RestartStep, LoopStep, vars, Trigger, AwaitDone, Visit, EndWalk,
     Return, CancelToRestart, Waited, StartAgain, Reset, TakeBroadcast, Launch, Kill, AsyncCancel,
     ClosePipe, GoStart, ReadTime, Tick, Send, Stop, EndOfBuffer, SeriesOver, Swap, FetchFails,
     clock, walks, objects, traffic, history
<1>1. u \notin due /\ AllOff(u) /\ \A g \in Handlers : restart[g][u] = "out"
  BY <1>0 DEF Untouched
<1>2. u \notin due'
  <2>1. ASSUME NEW t \in Threads, Launch(t) PROVE u \notin due'
    <3>1. u # t
      BY <2>1 DEF Launch, TypeOK
    <3> QED BY <1>1, <2>1, <3>1 DEF Launch
  <2>2. ASSUME NEW t \in Threads, GoStart(t) PROVE u \notin due'
    BY <1>1, <2>2 DEF GoStart
  <2>3. CASE UNCHANGED due
    BY <1>1, <2>3
  <2> QED
    BY <2>1, <2>2, <2>3
    DEF Next, HandlerStep, RestartStep, LoopStep, vars, Trigger, AwaitDone, Visit, EndWalk, Return,
        CancelToRestart, Waited, StartAgain, Reset, TakeBroadcast, Kill, AsyncCancel, ClosePipe,
        ReadTime, Tick, Send, Stop, EndOfBuffer, SeriesOver, Swap, FetchFails, objects
<1>3. \A g \in Handlers : restart'[g][u] = "out"
  <2>1. ASSUME NEW h \in Handlers, NEW t \in Threads, Visit(h, t) \/ RestartStep(h, t)
        PROVE  \A g \in Handlers : restart'[g][u] = "out"
    <3>1. t # u
      BY <1>0, <1>1, <2>1 DEF Visit, Table, RestartStep, CancelToRestart, Waited, StartAgain
    <3>2. \E p \in {"cancel", "wait", "start", "over"} : restart' = [restart EXCEPT ![h][t] = p]
      BY <2>1 DEF Visit, RestartStep, CancelToRestart, Waited, StartAgain
    <3>3. \A g \in Handlers : restart'[g][u] = restart[g][u]
      BY <3>1, <3>2 DEF TypeOK
    <3> QED BY <1>1, <3>3
  <2>2. ASSUME NEW h \in Handlers, Return(h)
        PROVE  \A g \in Handlers : restart'[g][u] = "out"
    BY <1>1, <2>2 DEF Return, TypeOK
  <2>3. CASE UNCHANGED restart
    BY <1>1, <2>3
  <2> QED
    BY <2>1, <2>2, <2>3
    DEF Next, HandlerStep, LoopStep, vars, walks, Trigger, AwaitDone, EndWalk, Reset, TakeBroadcast,
        Launch, Kill, AsyncCancel, ClosePipe, GoStart, ReadTime, Tick, Send, Stop, EndOfBuffer,
        SeriesOver, Swap, FetchFails
<1>4. \A s \in Slots : loop'[u][s] = Off
  <2> SUFFICES ASSUME NEW s \in Slots PROVE loop'[u][s] = Off
    OBVIOUS
  <2>0. loop[u][s] = Off
    BY <1>1 DEF AllOff
  <2>1. ASSUME NEW h \in Handlers, NEW t \in Threads, CancelToRestart(h, t) \/ AsyncCancel(t)
        PROVE  loop'[u][s] = Off
    BY <2>0, <2>1, CancelType DEF CancelToRestart, AsyncCancel
  <2>2. ASSUME NEW h \in Handlers, NEW t \in Threads, StartAgain(h, t)
        PROVE  loop'[u][s] = Off
    <3>1. t # u
      BY <1>1, <2>2 DEF StartAgain
    <3> QED BY <2>0, <2>2, <3>1, BeginType, SetLoopType DEF StartAgain
  <2>3. ASSUME NEW t \in Threads, GoStart(t) PROVE loop'[u][s] = Off
    <3>1. t # u
      BY <1>1, <2>3 DEF GoStart
    <3> QED BY <2>0, <2>3, <3>1, BeginType, SetLoopType DEF GoStart
  <2>4. ASSUME NEW t \in Threads, NEW r \in Slots,
               LoopStep(t, r)
        PROVE  loop'[u][s] = Off
    <3>1. t # u
      <4>1. loop[t][r] # Off
        BY <2>4 DEF LoopStep, ReadTime, Tick, Send, Stop, EndOfBuffer, SeriesOver, Swap,
           FetchFails, Off, Starting
      <4> QED BY <1>1, <4>1 DEF AllOff
    <3>2. loop'[u] = loop[u]
      BY <2>4, <3>1 DEF LoopStep, ReadTime, Tick, Send, Stop, EndOfBuffer, SeriesOver, Swap,
         FetchFails, objects, SetLoop, TypeOK
    <3> QED BY <2>0, <3>2
  <2>5. CASE UNCHANGED loop
    BY <2>0, <2>5
  <2>6. ASSUME NEW t \in Threads, AsyncCancel(t) PROVE loop'[u][s] = Off
    BY <2>0, <2>6, CancelType DEF AsyncCancel
  <2> QED
    BY <2>1, <2>2, <2>3, <2>4, <2>5, <2>6
    DEF Next, HandlerStep, RestartStep, LoopStep, vars, objects, Trigger, AwaitDone, Visit, EndWalk,
        Return, Waited, Reset, TakeBroadcast, Launch, Kill, ClosePipe
<1> QED BY <1>2, <1>3, <1>4 DEF AllOff

\* A step that neither resets the clock nor reads it makes no loop fall behind.
LEMMA PromiseStep == FollowInv /\ [Next]_vars => Promises'
<1> SUFFICES ASSUME FollowInv, [Next]_vars, NEW u \in Threads, NEW r \in Slots,
                    (u \in Table)', Behind(u, r)'
             PROVE  Promised(u)'
  BY DEF Promises, Table
<1> USE DEF FollowInv
<1>1. \/ UNCHANGED thread
      \/ \E t \in Threads : Launch(t) \/ Kill(t) \/ AsyncCancel(t)
  BY DEF Next, HandlerStep, RestartStep, LoopStep, vars, objects, Trigger, AwaitDone, Visit, EndWalk,
     Return, CancelToRestart, Waited, StartAgain, Reset, TakeBroadcast, ClosePipe, GoStart, ReadTime,
     Tick, Send, Stop, EndOfBuffer, SeriesOver, Swap, FetchFails
<1>2. CASE Reset
  BY <1>2 DEF Reset, Promised, TypeOK
<1>3. ASSUME NEW h \in Handlers, AwaitDone(h) PROVE Promised(u)'
  <2>1. u \in Table
    BY <1>3 DEF AwaitDone, objects, Table
  <2>2. handler'[h] = "walking" /\ owed'[h] = Table /\ restart'[h][u] = "out"
    BY <1>3 DEF AwaitDone, TypeOK, Resting
  <2> QED BY <2>1, <2>2 DEF Promised
<1>4. ASSUME NEW h \in Handlers, Trigger(h) \/ EndWalk(h) \/ Return(h) PROVE Promised(u)'
  <2>1. u \in Table /\ Behind(u, r)
    BY <1>4 DEF Trigger, EndWalk, Return, objects, clock, Table, Behind
  <2>2. Promised(u)
    BY <2>1 DEF Promises
  <2> QED
    BY <1>4, <2>1, <2>2 DEF Trigger, EndWalk, Return, Promised, TypeOK, clock
<1>5. ASSUME NEW h \in Handlers, NEW t \in Threads, Visit(h, t) PROVE Promised(u)'
  <2>1. u \in Table /\ Behind(u, r)
    BY <1>5 DEF Visit, objects, clock, Table, Behind
  <2>2. Promised(u)
    BY <2>1 DEF Promises
  <2> QED
    BY <1>5, <2>2 DEF Visit, Promised, TypeOK, clock
<1>6. ASSUME NEW h \in Handlers, NEW t \in Threads, CancelToRestart(h, t) PROVE Promised(u)'
  <2>1. u \in Table /\ Behind(u, r)
    <3>1. loop'[u][r].epoch = loop[u][r].epoch /\ (Running(loop'[u][r]) <=> Running(loop[u][r]))
      BY <1>6, CancelType DEF CancelToRestart
    <3> QED BY <1>6, <3>1 DEF CancelToRestart, clock, Table, Behind
  <2>2. Promised(u)
    BY <2>1 DEF Promises
  <2> QED
    BY <1>6, <2>2 DEF CancelToRestart, Promised, TypeOK, clock
<1>7. ASSUME NEW h \in Handlers, NEW t \in Threads, Waited(h, t) PROVE Promised(u)'
  <2>1. u \in Table /\ Behind(u, r)
    BY <1>7 DEF Waited, objects, clock, Table, Behind
  <2>2. Promised(u)
    BY <2>1 DEF Promises
  <2>3. u # t
    BY <1>7, <2>1 DEF Waited, AllOff, Behind, Running, Off
  <2> QED
    BY <1>7, <2>2, <2>3 DEF Waited, Promised, TypeOK, clock
<1>8. ASSUME NEW t \in Threads, Launch(t) PROVE Promised(u)'
  <2>1. Behind(u, r)
    BY <1>8 DEF Launch, clock, Behind
  <2>2. u \in Table
    <3>1. u # t
      BY <1>8, <2>1 DEF Launch, Untouched, AllOff, Behind, Running, Off
    <3> QED BY <1>8, <3>1 DEF Launch, Table, TypeOK
  <2> QED BY <1>8, <2>1, <2>2 DEF Promises, Promised, Launch, clock, walks
<1>9. ASSUME NEW t \in Threads, Kill(t) \/ AsyncCancel(t) PROVE Promised(u)'
  <2>1. u \in Table
    BY <1>9 DEF Kill, AsyncCancel, Table, TypeOK
  <2>2. CASE Kill(t)
    BY <2>1, <2>2 DEF Kill, Promises, Promised, Behind, clock, walks
  <2>3. CASE AsyncCancel(t)
    <3>1. loop'[u][r].epoch = loop[u][r].epoch /\ (Running(loop'[u][r]) <=> Running(loop[u][r]))
      BY <2>3, CancelType DEF AsyncCancel
    <3>2. Behind(u, r)
      BY <2>3, <3>1 DEF AsyncCancel, Behind, clock
    <3> QED BY <2>1, <2>3, <3>2 DEF AsyncCancel, Promises, Promised, clock, walks
  <2> QED BY <1>9, <2>2, <2>3
<1>10. ASSUME NEW h \in Handlers, NEW t \in Threads, StartAgain(h, t) PROVE Promised(u)'
  <2>1. Behind(u, r)
    BY <1>10, BeginType, SetLoopType DEF StartAgain, Behind, clock, Running, Starting
  <2>2. u \in Table
    BY <1>10 DEF StartAgain, Table
  <2>3. Promised(u)
    BY <2>1, <2>2 DEF Promises
  <2> QED BY <1>10, <2>3 DEF StartAgain, Promised, TypeOK, clock
<1>11. ASSUME NEW t \in Threads, GoStart(t) PROVE Promised(u)'
  <2>1. Behind(u, r)
    BY <1>11, BeginType, SetLoopType DEF GoStart, Behind, clock, Running, Starting
  <2>2. u \in Table
    BY <1>11 DEF GoStart, Table
  <2> QED BY <1>11, <2>1, <2>2 DEF GoStart, Promises, Promised, clock, walks
<1>12. ASSUME NEW t \in Threads, NEW s \in Slots,
              LoopStep(t, s)
       PROVE  Promised(u)'
  <2>1. u \in Table /\ UNCHANGED <<clock, walks>>
    BY <1>12 DEF LoopStep, ReadTime, Tick, Send, Stop, EndOfBuffer, SeriesOver, Swap, FetchFails,
       objects, Table
  <2>2. loop[t][s] \in LoopStates
    BY DEF TypeOK
  <2>3. Behind(u, r)
    <3>1. CASE u = t /\ r = s
      <4>1. CASE ReadTime(t, s)
        <5>1. Select(t, epoch) \in LoopStates /\ Select(t, epoch).epoch = epoch /\ Off \in LoopStates
          BY SelectType DEF TypeOK, LoopStates
        <5>2. loop'[t][s] \in {Select(t, epoch), Off}
          BY <4>1, <5>1, SetLoopType DEF ReadTime
        <5> QED BY <2>1, <3>1, <5>1, <5>2 DEF Behind, clock, Running, Off
      <4>2. CASE Tick(t, s) \/ Send(t, s) \/ Swap(t, s)
        <5>1. Running(loop[t][s])
          BY <4>2 DEF Tick, Send, Swap, Running
        <5>2. loop[t][s].epoch \in Nat
          BY <5>1, <2>2, StreamingType
        <5>3. /\ Select(t, loop[t][s].epoch) \in LoopStates
              /\ Select(t, loop[t][s].epoch).epoch = loop[t][s].epoch
          BY <5>2, SelectType
        <5>4. \A a \in {"send", "end"} : /\ [loop[t][s] EXCEPT !.at = a] \in LoopStates
                                         /\ [loop[t][s] EXCEPT !.at = a].epoch = loop[t][s].epoch
          BY <5>1, <2>2, StreamingType
        <5>5. loop'[t][s].epoch = loop[t][s].epoch
          <6>1. CASE Tick(t, s)
            <7>1. PICK a \in {"send", "end"} : SetLoop(t, s, [loop[t][s] EXCEPT !.at = a])
              BY <6>1 DEF Tick
            <7>2. loop'[t][s] = [loop[t][s] EXCEPT !.at = a]
              BY <5>4, <7>1, SetLoopType
            <7> QED BY <5>4, <7>2
          <6>2. CASE Send(t, s)
            <7>1. PICK l \in {Select(t, loop[t][s].epoch), [loop[t][s] EXCEPT !.at = "end"]} :
                    SetLoop(t, s, l)
              BY <6>2 DEF Send
            <7>2. l \in LoopStates /\ l.epoch = loop[t][s].epoch
              BY <5>3, <5>4, <7>1
            <7>3. loop'[t][s] = l
              BY <7>1, <7>2, SetLoopType
            <7> QED BY <7>2, <7>3
          <6>3. CASE Swap(t, s)
            BY <6>3, <5>3, SetLoopType DEF Swap
          <6> QED BY <4>2, <6>1, <6>2, <6>3
        <5> QED BY <2>1, <3>1, <5>1, <5>5 DEF Behind, clock
      <4>3. CASE Stop(t, s) \/ SeriesOver(t, s)
        <5>1. loop'[t][s] = Off
          BY <4>3, SetLoopType DEF Stop, SeriesOver, LoopStates
        <5> QED BY <3>1, <5>1 DEF Behind, Running, Off
      <4>4. CASE FetchFails(t, s)
        BY <2>1, <4>4 DEF LoopStep, FetchFails, objects, Behind, clock
      <4> QED BY <1>12, <4>1, <4>2, <4>3, <4>4 DEF LoopStep, EndOfBuffer
    <3>2. CASE u # t \/ r # s
      <4>1. loop'[u][r] = loop[u][r]
        BY <1>12, <3>2 DEF LoopStep, ReadTime, Tick, Send, Stop, EndOfBuffer, SeriesOver, Swap,
           FetchFails, objects, SetLoop, TypeOK
      <4> QED BY <2>1, <4>1 DEF Behind, clock
    <3> QED BY <3>1, <3>2
  <2> QED BY <2>1, <2>3 DEF Promises, Promised, clock, walks
<1>13. CASE UNCHANGED <<clock, walks, thread, loop>>
  BY <1>13 DEF Promises, Promised, Behind, Table, clock, walks
<1> QED
  BY <1>2, <1>3, <1>4, <1>5, <1>6, <1>7, <1>8, <1>9, <1>10, <1>11, <1>12, <1>13
  DEF Next, HandlerStep, RestartStep, LoopStep, vars, TakeBroadcast, ClosePipe, objects

LEMMA FollowStep == FollowInv /\ [Next]_vars => FollowInv'
BY TypeStep, RestingStep, UntouchedStep, PromiseStep DEF FollowInv

LEMMA FollowInit == Init => FollowInv
<1> SUFFICES ASSUME Init PROVE FollowInv
  OBVIOUS
<1>1. TypeOK
  BY TypeInit
<1>2. Resting /\ Untouched /\ Promises
  BY DEF Init, Resting, Untouched, Promises, AllOff, Table
<1> QED BY <1>1, <1>2 DEF FollowInv

\* When no restart is under way nothing is owed to a loop of the table: it
\* streams from the time of the last reset.
THEOREM ThreadsAreOnTime == Spec => []ThreadsFollowTheClock
<1>1. FollowInv /\ Counted => ThreadsFollowTheClock
  <2> SUFFICES ASSUME FollowInv, Counted, Quiet PROVE \A t \in Table, s \in Slots : ~Behind(t, s)
    BY DEF ThreadsFollowTheClock, Behind
  <2>1. Waiting = {}
    BY DEF Quiet, Waiting
  <2>2. dones = 0
    BY <2>1, FS_EmptySet DEF FollowInv, Counted, TypeOK
  <2>3. \A t \in Threads : ~Promised(t)
    BY <2>2 DEF FollowInv, Resting, Quiet, Promised
  <2> QED BY <2>3 DEF FollowInv, Promises, Table
<1> QED BY <1>1, FollowInit, FollowStep, AnswersAreCounted, PTL DEF Spec
-----------------------------------------------------------------------------
(* StreamsGoForward.  Unless it was overtaken, a thread has one claim to    *)
(* run: a loop, a launch that is due, or a request about to start it.      *)
OneClaim(t) ==
  /\ \A s, r \in Slots : loop[t][s] # Off /\ loop[t][r] # Off => s = r
  /\ t \in due => AllOff(t) /\ ~Starts(t)
  /\ Starts(t) => AllOff(t)
  /\ \A g, h \in Handlers : restart[g][t] = "start" /\ restart[h][t] = "start" => g = h
Forward(t) ==
  /\ latest[t] <= epoch
  /\ \A s \in Slots : Running(loop[t][s]) => latest[t] <= loop[t][s].epoch
Past(t) == \A s \in Slots : loop[t][s].epoch <= epoch

StreamInv ==
  /\ FollowInv
  /\ \A t \in Threads : Past(t)
  /\ \A t \in Threads \ overtaken : OneClaim(t) /\ Forward(t)

\* Cancel changes neither which loops there are nor how many.
LEMMA CancelKeeps ==
  ASSUME TypeOK, NEW t \in Threads, Cancel(t), NEW u \in Threads
  PROVE  /\ AllOff(u)' <=> AllOff(u)
         /\ \A s, r \in Slots : (loop[u][s] # Off /\ loop[u][r] # Off => s = r) =>
                                (loop'[u][s] # Off /\ loop'[u][r] # Off => s = r)
BY CancelType DEF AllOff

\* What one step of a loop makes of it.
LEMMA LoopSteps ==
  ASSUME TypeOK, NEW t \in Threads, NEW s \in Slots, Past(t),
         LoopStep(t, s)
  PROVE  /\ loop[t][s] # Off
         /\ \A u \in Threads, r \in Slots : u # t \/ r # s => loop'[u][r] = loop[u][r]
         /\ loop'[t][s].epoch <= epoch
         /\ Running(loop'[t][s]) =>
              \/ Running(loop[t][s]) /\ loop'[t][s].epoch = loop[t][s].epoch
              \/ loop'[t][s].epoch = epoch /\ latest' = latest
         /\ Send(t, s) => Running(loop[t][s]) /\ loop[t][s].epoch \in Nat
<1>1. loop[t][s] \in LoopStates /\ epoch \in Nat /\ loop[t][s].epoch <= epoch
  BY DEF TypeOK, Past
<1>2. loop[t][s] # Off
  BY DEF LoopStep, ReadTime, Tick, Send, Stop, EndOfBuffer, SeriesOver, Swap, FetchFails, Off, Starting
<1>3. \E l \in LoopStates :
        /\ SetLoop(t, s, l) /\ l.epoch <= epoch
        /\ Running(l) => \/ Running(loop[t][s]) /\ l.epoch = loop[t][s].epoch
                         \/ l.epoch = epoch /\ latest' = latest
  <2>0. Off \in LoopStates /\ Off.epoch = 0 /\ ~Running(Off)
    BY DEF LoopStates, Off, Running
  <2>1. CASE ReadTime(t, s)
    <3>1. Select(t, epoch) \in LoopStates /\ Select(t, epoch).epoch = epoch
      BY <1>1, SelectType
    <3> QED BY <2>0, <2>1, <3>1, <1>1 DEF ReadTime, traffic
  <2>2. CASE Tick(t, s) \/ Send(t, s) \/ Swap(t, s)
    <3>1. Running(loop[t][s])
      BY <2>2 DEF Tick, Send, Swap, Running
    <3>2. loop[t][s].epoch \in Nat
      BY <1>1, <3>1, StreamingType
    <3>3. /\ Select(t, loop[t][s].epoch) \in LoopStates
          /\ Select(t, loop[t][s].epoch).epoch = loop[t][s].epoch
      BY <3>2, SelectType
    <3>4. \A a \in {"send", "end"} : /\ [loop[t][s] EXCEPT !.at = a] \in LoopStates
                                     /\ [loop[t][s] EXCEPT !.at = a].epoch = loop[t][s].epoch
      BY <1>1, <3>1, StreamingType
    <3>5. \E l \in LoopStates : SetLoop(t, s, l) /\ l.epoch = loop[t][s].epoch
      BY <2>2, <3>3, <3>4 DEF Tick, Send, Swap
    <3> QED BY <1>1, <3>1, <3>5
  <2>3. CASE Stop(t, s) \/ SeriesOver(t, s)
    BY <1>1, <2>0, <2>3 DEF Stop, SeriesOver
  <2>4. CASE FetchFails(t, s)
    <3>1. SetLoop(t, s, loop[t][s]) /\ latest' = latest
      BY <2>4 DEF LoopStep, FetchFails, SetLoop, objects, traffic, TypeOK
    <3>2. Running(loop[t][s])
      BY <2>4 DEF LoopStep, FetchFails, Running
    <3> QED BY <1>1, <3>1, <3>2
  <2> QED BY <2>1, <2>2, <2>3, <2>4 DEF LoopStep, EndOfBuffer
<1>4. Send(t, s) => Running(loop[t][s]) /\ loop[t][s].epoch \in Nat
  <2> SUFFICES ASSUME Send(t, s) PROVE Running(loop[t][s]) /\ loop[t][s].epoch \in Nat
    OBVIOUS
  <2>1. Running(loop[t][s])
    BY DEF Send, Running
  <2> QED BY <1>1, <2>1, StreamingType
<1> QED BY <1>2, <1>3, <1>4, SetLoopType

\* Every other step leaves the loops alone, cancels a context, or begins a loop.
LEMMA LoopsChange ==
  ASSUME [Next]_vars
  PROVE  \/ \E t \in Threads, s \in Slots : LoopStep(t, s)
         \/ \E t \in Threads : Cancel(t) /\ UNCHANGED <<due, overtaken, latest, clock>>
                               /\ \/ \E h \in Handlers : CancelToRestart(h, t)
                                  \/ UNCHANGED restart
         \/ \E t \in Threads, h \in Handlers : StartAgain(h, t)
         \/ \E t \in Threads : GoStart(t)
         \/ UNCHANGED <<loop, latest>>
BY DEF Next, HandlerStep, RestartStep, LoopStep, vars, objects, traffic, walks, history, Trigger,
   AwaitDone, Visit, EndWalk, Return, CancelToRestart, Waited, StartAgain, Reset, TakeBroadcast,
   Launch, Kill, AsyncCancel, ClosePipe, GoStart, ReadTime, Tick, Send, Stop, EndOfBuffer,
   SeriesOver, Swap, FetchFails

\* The clock does not go back, so what a loop has read stays past.
LEMMA PastStep == StreamInv /\ [Next]_vars => \A u \in Threads : Past(u)'
<1> SUFFICES ASSUME StreamInv, [Next]_vars, NEW u \in Threads, NEW r \in Slots
             PROVE  loop'[u][r].epoch <= epoch'
  BY DEF Past
<1>0. /\ TypeOK /\ loop[u][r] \in LoopStates /\ loop[u][r].epoch \in Nat /\ loop[u][r].epoch <= epoch
      /\ epoch \in Nat /\ \A t \in Threads : Past(t)
  BY DEF StreamInv, FollowInv, TypeOK, Past, LoopStates, Off, Starting
<1>1. epoch' = epoch \/ (epoch' = epoch + 1 /\ UNCHANGED loop)
  BY DEF Next, HandlerStep, RestartStep, LoopStep, vars, clock, objects, Trigger, AwaitDone, Visit,
     EndWalk, Return, CancelToRestart, Waited, StartAgain, Reset, TakeBroadcast, Launch, Kill,
     AsyncCancel, ClosePipe, GoStart, ReadTime, Tick, Send, Stop, EndOfBuffer, SeriesOver, Swap, FetchFails
<1>2. loop'[u][r].epoch <= epoch
  <2>1. ASSUME NEW t \in Threads, NEW s \in Slots, LoopStep(t, s) PROVE loop'[u][r].epoch <= epoch
    <3>1. CASE u = t /\ r = s
      BY <1>0, <2>1, <3>1, LoopSteps DEF LoopStep
    <3>2. CASE u # t \/ r # s
      BY <1>0, <2>1, <3>2, LoopSteps DEF LoopStep
    <3> QED BY <3>1, <3>2
  <2>2. ASSUME NEW t \in Threads, Cancel(t) PROVE loop'[u][r].epoch <= epoch
    BY <1>0, <2>2, CancelType
  <2>3. ASSUME NEW t \in Threads, Begin(t) PROVE loop'[u][r].epoch <= epoch
    BY <1>0, <2>3, BeginType, SetLoopType DEF Starting
  <2>4. CASE UNCHANGED loop
    BY <1>0, <2>4
  <2> QED BY <2>1, <2>2, <2>3, <2>4, LoopsChange DEF StartAgain, GoStart
<1> QED BY <1>0, <1>1, <1>2

\* A step that leaves the loops and the launches, and starts nothing, leaves
\* the claims.
LEMMA ClaimStays ==
  ASSUME NEW u \in Threads, OneClaim(u), loop'[u] = loop[u], u \in due' => u \in due,
         \A h \in Handlers : restart'[h][u] = "start" => restart[h][u] = "start"
  PROVE  OneClaim(u)'
BY DEF OneClaim, AllOff, Starts

LEMMA OneClaimStep ==
  ASSUME StreamInv, [Next]_vars, NEW u \in Threads, u \notin overtaken'
  PROVE  u \notin overtaken /\ OneClaim(u)'
<1>0. TypeOK /\ Untouched /\ \A t \in Threads : Past(t)
  BY DEF StreamInv, FollowInv
<1>1. u \notin overtaken
  BY DEF Next, HandlerStep, RestartStep, LoopStep, vars, history, Trigger, AwaitDone, Visit, EndWalk,
     Return, CancelToRestart, Waited, StartAgain, Reset, TakeBroadcast, Launch, Kill, AsyncCancel,
     ClosePipe, GoStart, ReadTime, Tick, Send, Stop, EndOfBuffer, SeriesOver, Swap, FetchFails
<1> SUFFICES OneClaim(u)'
  BY <1>1
<1>2. OneClaim(u)
  BY <1>1 DEF StreamInv
<1>3. ASSUME NEW h \in Handlers, Trigger(h) \/ AwaitDone(h) \/ EndWalk(h) PROVE OneClaim(u)'
  BY <1>2, <1>3, ClaimStays DEF Trigger, AwaitDone, EndWalk, objects
<1>4. ASSUME NEW h \in Handlers, Return(h) PROVE OneClaim(u)'
  <2>1. \A g \in Handlers : restart'[g][u] = "start" => restart[g][u] = "start"
    BY <1>0, <1>4 DEF Return, TypeOK
  <2> QED BY <1>2, <1>4, <2>1, ClaimStays DEF Return, objects
<1>5. ASSUME NEW h \in Handlers, NEW t \in Threads, Visit(h, t) PROVE OneClaim(u)'
  <2>1. \A g \in Handlers : restart'[g][u] = "start" => restart[g][u] = "start"
    BY <1>0, <1>5 DEF Visit, TypeOK
  <2> QED BY <1>2, <1>5, <2>1, ClaimStays DEF Visit, objects
<1>6. ASSUME NEW t \in Threads, Cancel(t), UNCHANGED due,
             \A g \in Handlers : restart'[g][u] = "start" => restart[g][u] = "start"
      PROVE  OneClaim(u)'
  BY <1>0, <1>2, <1>6, CancelKeeps DEF OneClaim, Starts
<1>7. ASSUME NEW h \in Handlers, NEW t \in Threads, CancelToRestart(h, t) PROVE OneClaim(u)'
  <2>1. \A g \in Handlers : restart'[g][u] = "start" => restart[g][u] = "start"
    BY <1>0, <1>7 DEF CancelToRestart, TypeOK
  <2> QED BY <1>6, <1>7, <2>1 DEF CancelToRestart
<1>8. ASSUME NEW t \in Threads, AsyncCancel(t) PROVE OneClaim(u)'
  BY <1>6, <1>8 DEF AsyncCancel, walks
<1>9. ASSUME NEW h \in Handlers, NEW t \in Threads, Waited(h, t) PROVE OneClaim(u)'
  <2>1. CASE u # t
    <3>1. \A g \in Handlers : restart'[g][u] = restart[g][u]
      BY <1>0, <1>9, <2>1 DEF Waited, TypeOK
    <3> QED BY <1>2, <1>9, <3>1, ClaimStays DEF Waited, objects
  <2>2. CASE u = t
    <3>1. AllOff(u) /\ u \notin due /\ ~Starts(u) /\ UNCHANGED <<loop, due>>
      BY <1>9, <2>2 DEF Waited, objects
    <3>2. \A g \in Handlers : restart'[g][u] = "start" => g = h
      BY <1>0, <1>9, <2>2, <3>1 DEF Waited, TypeOK, Starts
    <3> QED BY <3>1, <3>2 DEF OneClaim, AllOff
  <2> QED BY <2>1, <2>2
<1>10. ASSUME NEW t \in Threads, Begin(t), u = t => AllOff(u) /\ u \notin due' /\ ~Starts(u)',
              u # t => (u \in due' => u \in due) /\ \A g \in Handlers : restart'[g][u] = restart[g][u]
       PROVE  OneClaim(u)'
  <2>1. PICK s \in Slots : SetLoop(t, s, Starting) /\ Starting \in LoopStates
    BY <1>0, <1>10, BeginType
  <2>2. CASE u # t
    <3>1. loop'[u] = loop[u]
      BY <1>0, <2>1, <2>2 DEF SetLoop, TypeOK
    <3> QED BY <1>2, <1>10, <2>2, <3>1, ClaimStays
  <2>3. CASE u = t
    <3>1. \A r \in Slots : r # s => loop'[u][r] = Off
      BY <1>0, <1>10, <2>1, <2>3, SetLoopType DEF AllOff
    <3> QED BY <1>10, <2>3, <3>1 DEF OneClaim, Starts
  <2> QED BY <2>2, <2>3
<1>11. ASSUME NEW h \in Handlers, NEW t \in Threads, StartAgain(h, t) PROVE OneClaim(u)'
  <2>1. u # t => \A g \in Handlers : restart'[g][u] = restart[g][u]
    BY <1>0, <1>11 DEF StartAgain, TypeOK
  <2>2. u = t => AllOff(u) /\ u \notin due /\ \A g \in Handlers : restart[g][u] = "start" => g = h
    BY <1>2, <1>11 DEF StartAgain, OneClaim, Starts
  <2>3. u = t => \A g \in Handlers : restart'[g][u] # "start"
    BY <1>0, <1>11, <2>2 DEF StartAgain, TypeOK
  <2> QED BY <1>10, <1>11, <2>1, <2>2, <2>3 DEF StartAgain, Starts
<1>12. ASSUME NEW t \in Threads, GoStart(t) PROVE OneClaim(u)'
  <2>1. u = t => AllOff(u) /\ ~Starts(u)
    BY <1>2, <1>12 DEF GoStart, OneClaim
  <2> QED BY <1>10, <1>12, <2>1 DEF GoStart, Starts, walks
<1>13. ASSUME NEW t \in Threads, Launch(t) PROVE OneClaim(u)'
  <2>1. CASE u # t
    BY <1>2, <1>13, <2>1, ClaimStays DEF Launch, walks
  <2>2. CASE u = t
    BY <1>0, <1>13, <2>2 DEF Launch, walks, Untouched, OneClaim, Starts, AllOff
  <2> QED BY <2>1, <2>2
<1>14. ASSUME NEW t \in Threads, NEW s \in Slots, LoopStep(t, s) PROVE OneClaim(u)'
  <2>1. UNCHANGED <<due, restart>>
    BY <1>14 DEF LoopStep, ReadTime, Tick, Send, Stop, EndOfBuffer, SeriesOver, Swap, FetchFails,
       walks, objects
  <2>2. loop[t][s] # Off /\ \A v \in Threads, r \in Slots : v # t \/ r # s => loop'[v][r] = loop[v][r]
    BY <1>0, <1>14, LoopSteps DEF LoopStep
  <2> QED BY <1>2, <2>1, <2>2 DEF OneClaim, AllOff, Starts
<1>15. CASE UNCHANGED <<loop, due, restart>>
  BY <1>2, <1>15, ClaimStays
<1>16. ASSUME NEW t \in Threads, Kill(t) \/ ClosePipe(t) PROVE OneClaim(u)'
  BY <1>15, <1>16 DEF Kill, ClosePipe, walks
<1>17. CASE Reset \/ TakeBroadcast
  BY <1>15, <1>17 DEF Reset, TakeBroadcast, walks, objects
<1>18. ASSUME NEW h \in Handlers, Trigger(h) \/ HandlerStep(h) PROVE OneClaim(u)'
  BY <1>3, <1>4, <1>5, <1>7, <1>9, <1>11, <1>18 DEF HandlerStep, RestartStep
<1>19. CASE \E t \in Threads, s \in Slots : LoopStep(t, s)
  BY <1>14, <1>19
<1>20. CASE UNCHANGED vars
  BY <1>15, <1>20 DEF vars, objects, walks
<1>21. CASE \E t \in Threads : Launch(t) \/ Kill(t) \/ AsyncCancel(t) \/ ClosePipe(t) \/ GoStart(t)
  BY <1>8, <1>12, <1>13, <1>16, <1>21
<1> QED BY <1>17, <1>18, <1>19, <1>20, <1>21 DEF Next, LoopStep

\* What a thread has sent last is not newer than the clock, nor than the loop
\* that may send next.
LEMMA ForwardStep ==
  ASSUME StreamInv, [Next]_vars, NEW u \in Threads, u \notin overtaken, OneClaim(u)
  PROVE  Forward(u)' /\ latest[u] <= latest'[u]
<1>0. /\ TypeOK /\ Forward(u) /\ (\A t \in Threads : Past(t))
      /\ epoch \in Nat /\ latest[u] \in Nat
  BY DEF StreamInv, FollowInv, TypeOK
<1>1. ASSUME NEW t \in Threads, NEW s \in Slots, LoopStep(t, s)
      PROVE  Forward(u)' /\ latest[u] <= latest'[u]
  <2>0. epoch' = epoch
    BY <1>1 DEF LoopStep, ReadTime, Tick, Send, Stop, EndOfBuffer, SeriesOver, Swap, FetchFails, clock
  <2>1. /\ \A v \in Threads, r \in Slots : v # t \/ r # s => loop'[v][r] = loop[v][r]
        /\ loop[t][s] # Off
        /\ Running(loop'[t][s]) =>
             \/ Running(loop[t][s]) /\ loop'[t][s].epoch = loop[t][s].epoch
             \/ loop'[t][s].epoch = epoch /\ latest' = latest
    BY <1>0, <1>1, LoopSteps DEF LoopStep
  <2>2. CASE Send(t, s) /\ u = t
    <3>1. Running(loop[u][s]) /\ loop[u][s].epoch \in Nat /\ loop[u][s].epoch <= epoch
      BY <1>0, <1>1, <2>2, LoopSteps DEF LoopStep, Past
    <3>2. latest'[u] = loop[u][s].epoch
      BY <1>0, <2>2 DEF Send, TypeOK
    <3>3. \A r \in Slots : r # s => loop'[u][r] = Off
      BY <2>1, <2>2, <3>1 DEF OneClaim
    <3>4. loop'[u][s].epoch = loop[u][s].epoch
      <4>1. PICK l \in {Select(t, loop[t][s].epoch), [loop[t][s] EXCEPT !.at = "end"]} : SetLoop(t, s, l)
        BY <2>2 DEF Send
      <4>2. l \in LoopStates /\ l.epoch = loop[t][s].epoch
        <5>1. loop[t][s] \in LoopStates /\ Running(loop[t][s]) /\ loop[t][s].epoch \in Nat
          BY <1>0, <2>2, <3>1 DEF TypeOK
        <5>2. /\ [loop[t][s] EXCEPT !.at = "end"] \in LoopStates
              /\ [loop[t][s] EXCEPT !.at = "end"].epoch = loop[t][s].epoch
          BY <5>1, StreamingType
        <5>3. /\ Select(t, loop[t][s].epoch) \in LoopStates
              /\ Select(t, loop[t][s].epoch).epoch = loop[t][s].epoch
          BY <1>0, <5>1, SelectType
        <5> QED BY <4>1, <5>2, <5>3
      <4>3. loop'[t][s] = l
        BY <1>0, <4>1, <4>2, SetLoopType
      <4> QED BY <2>2, <4>2, <4>3
    <3> QED BY <1>0, <2>0, <3>1, <3>2, <3>3, <3>4 DEF Forward, Running, Off
  <2>3. CASE ~(Send(t, s) /\ u = t)
    <3>1. latest'[u] = latest[u]
      BY <1>0, <1>1, <2>3 DEF LoopStep, ReadTime, Tick, Send, Stop, EndOfBuffer, SeriesOver, Swap,
         FetchFails, traffic, TypeOK
    <3>2. ASSUME NEW r \in Slots, Running(loop'[u][r]) PROVE latest[u] <= loop'[u][r].epoch
      BY <1>0, <2>1, <3>2 DEF Forward
    <3> QED BY <1>0, <2>0, <3>1, <3>2 DEF Forward
  <2> QED BY <2>2, <2>3
<1>2. ASSUME NEW t \in Threads, Cancel(t), UNCHANGED latest, UNCHANGED clock
      PROVE  Forward(u)' /\ latest[u] <= latest'[u]
  <2>1. epoch' = epoch /\ latest'[u] = latest[u]
    BY <1>2 DEF clock
  <2>2. \A s \in Slots : /\ loop'[u][s].epoch = loop[u][s].epoch
                         /\ Running(loop'[u][s]) <=> Running(loop[u][s])
    <3>1. TypeOK /\ Cancel(t)
      BY <1>0, <1>2
    <3> QED BY <3>1, CancelType
  <2>3. \A s \in Slots : Running(loop'[u][s]) => latest'[u] <= loop'[u][s].epoch
    BY <1>0, <2>1, <2>2 DEF Forward
  <2> QED BY <1>0, <2>1, <2>3 DEF Forward
<1>3. ASSUME NEW t \in Threads, Begin(t), UNCHANGED latest, UNCHANGED clock
      PROVE  Forward(u)' /\ latest[u] <= latest'[u]
  <2>1. PICK s \in Slots : SetLoop(t, s, Starting) /\ Starting \in LoopStates
    BY <1>0, <1>3, BeginType
  <2>2. \A r \in Slots : Running(loop'[u][r]) => loop'[u][r] = loop[u][r]
    BY <1>0, <2>1, SetLoopType DEF Running, Starting
  <2> QED BY <1>0, <1>3, <2>2 DEF Forward, clock
<1>4. CASE UNCHANGED <<loop, latest>>
  <2>1. epoch' = epoch \/ epoch' = epoch + 1
    BY DEF Next, HandlerStep, RestartStep, LoopStep, vars, clock, Trigger, AwaitDone, Visit,
       EndWalk, Return, CancelToRestart, Waited, StartAgain, Reset, TakeBroadcast, Launch, Kill,
       AsyncCancel, ClosePipe, GoStart, ReadTime, Tick, Send, Stop, EndOfBuffer, SeriesOver, Swap, FetchFails
  <2> QED BY <1>0, <1>4, <2>1 DEF Forward
<1>5. ASSUME NEW t \in Threads, (\E h \in Handlers : StartAgain(h, t)) \/ GoStart(t)
      PROVE  Begin(t) /\ UNCHANGED latest /\ UNCHANGED clock
  BY <1>5 DEF StartAgain, GoStart, traffic
<1>6. ASSUME NEW t \in Threads, Cancel(t), UNCHANGED <<due, overtaken, latest, clock>>
      PROVE  Forward(u)' /\ latest[u] <= latest'[u]
  BY <1>2, <1>6
<1> QED BY <1>1, <1>3, <1>4, <1>5, <1>6, LoopsChange

LEMMA StreamStep == StreamInv /\ [Next]_vars => StreamInv'
<1> SUFFICES ASSUME StreamInv, [Next]_vars PROVE StreamInv'
  OBVIOUS
<1>1. FollowInv'
  BY FollowStep DEF StreamInv
<1>2. ASSUME NEW u \in Threads, u \notin overtaken' PROVE OneClaim(u)' /\ Forward(u)'
  <2>1. u \notin overtaken /\ OneClaim(u)'
    BY <1>2, OneClaimStep
  <2>2. OneClaim(u)
    BY <2>1 DEF StreamInv
  <2> QED BY <2>1, <2>2, ForwardStep
<1> QED BY <1>1, <1>2, PastStep DEF StreamInv

\* A thread that no restart has overtaken never sends a bar of the simulation
\* before once it has sent one of the new.
THEOREM StreamsDoNotGoBack == Spec => StreamsGoForward
<1>1. Init => StreamInv
  <2> SUFFICES ASSUME Init PROVE StreamInv
    OBVIOUS
  <2>1. \A t \in Threads : Past(t) /\ OneClaim(t) /\ Forward(t)
    BY DEF Init, Past, OneClaim, Forward, Starts, AllOff, Running, Off
  <2> QED BY <2>1, FollowInit DEF StreamInv
<1>2. StreamInv /\ [Next]_vars => [\A t \in Threads \ overtaken : latest[t] <= latest'[t]]_latest
  <2> SUFFICES ASSUME StreamInv, [Next]_vars, NEW t \in Threads \ overtaken PROVE latest[t] <= latest'[t]
    OBVIOUS
  <2> QED BY ForwardStep DEF StreamInv
<1> QED BY <1>1, <1>2, StreamStep, PTL DEF Spec, StreamsGoForward
-----------------------------------------------------------------------------
(* LoneRestartsGoOn.  While a request meets no other one, nobody else      *)
(* renews the contexts it has cancelled; and no loop stays in its select   *)
(* with a context that is cancelled.                                       *)
Alone == \A h \in alone, g \in Handlers : handler[g] # "idle" => g = h
Cancelled == \A h \in alone, t \in Threads : restart[h][t] = "wait" => done[t]
NoDoneSelect == \A t \in Threads : done[t] => \A s \in Slots : loop[t][s].at # "select"
ClosedKilled == \A t \in closed : thread[t] \in {"killed", "stopped"}

LoneInv == Alone /\ Cancelled /\ NoDoneSelect /\ ClosedKilled

\* Only a request that finds all others over is alone, and it stays so until
\* the next one.
LEMMA AloneStep == TypeOK /\ Alone /\ [Next]_vars => Alone'
<1> SUFFICES ASSUME TypeOK, Alone, [Next]_vars PROVE Alone'
  OBVIOUS
<1> USE DEF Alone, TypeOK, walks, history
<1>1. ASSUME NEW h \in Handlers, Trigger(h) PROVE Alone'
  BY <1>1 DEF Trigger, Quiet
<1>2. ASSUME NEW h \in Handlers, AwaitDone(h) \/ EndWalk(h) \/ Return(h) PROVE Alone'
  BY <1>2 DEF AwaitDone, EndWalk, Return
<1>3. CASE UNCHANGED <<handler, alone>>
  BY <1>3
<1> QED
  BY <1>1, <1>2, <1>3
  DEF Next, HandlerStep, RestartStep, LoopStep, vars, Visit, CancelToRestart, Waited, StartAgain,
      Reset, TakeBroadcast, Launch, Kill, AsyncCancel, ClosePipe, GoStart, ReadTime, Tick, Send,
      Stop, EndOfBuffer, SeriesOver, Swap, FetchFails

LEMMA CancelledStep == TypeOK /\ Resting /\ Alone /\ Cancelled /\ [Next]_vars => Cancelled'
<1> SUFFICES ASSUME TypeOK, Resting, Alone, Cancelled, [Next]_vars PROVE Cancelled'
  OBVIOUS
<1> USE DEF Cancelled, TypeOK, walks, history, objects
<1>1. ASSUME NEW h \in Handlers, Trigger(h) PROVE Cancelled'
  BY <1>1 DEF Trigger, Resting
<1>2. ASSUME NEW h \in Handlers, Return(h) PROVE Cancelled'
  BY <1>2 DEF Return
<1>3. ASSUME NEW h \in Handlers, NEW t \in Threads, Visit(h, t) \/ Waited(h, t) PROVE Cancelled'
  <2>1. \E a \in {"cancel", "start"} : restart' = [restart EXCEPT ![h][t] = a]
    BY <1>3 DEF Visit, Waited
  <2>2. \A g \in Handlers, u \in Threads : restart'[g][u] = "wait" => restart[g][u] = "wait"
    BY <2>1
  <2>3. UNCHANGED <<done, alone>>
    BY <1>3 DEF Visit, Waited
  <2> QED BY <2>2, <2>3
<1>4. ASSUME NEW h \in Handlers, NEW t \in Threads, CancelToRestart(h, t) PROVE Cancelled'
  BY <1>4 DEF CancelToRestart, Cancel
<1>5. ASSUME NEW h \in Handlers, NEW t \in Threads, StartAgain(h, t) PROVE Cancelled'
  <2>1. handler[h] # "idle"
    BY <1>5 DEF StartAgain, Resting
  <2>2. \A g \in alone : g = h
    BY <2>1 DEF Alone
  <2>3. restart'[h][t] = "over" /\ \A u \in Threads : u # t => done'[u] = done[u] /\ restart'[h][u] = restart[h][u]
    BY <1>5 DEF StartAgain
  <2> QED BY <1>5, <2>2, <2>3 DEF StartAgain
<1>6. ASSUME NEW t \in Threads, AsyncCancel(t) PROVE Cancelled'
  BY <1>6 DEF AsyncCancel, Cancel
<1>7. CASE UNCHANGED <<restart, done, alone>>
  BY <1>7
<1> QED
  BY <1>1, <1>2, <1>3, <1>4, <1>5, <1>6, <1>7
  DEF Next, HandlerStep, RestartStep, LoopStep, vars, AwaitDone, EndWalk, Reset, TakeBroadcast,
      Launch, Kill, ClosePipe, GoStart, ReadTime, Tick, Send, Stop, EndOfBuffer, SeriesOver, Swap, FetchFails

LEMMA ClosedStep == TypeOK /\ ClosedKilled /\ [Next]_vars => ClosedKilled'
<1> SUFFICES ASSUME TypeOK, ClosedKilled, [Next]_vars PROVE ClosedKilled'
  OBVIOUS
<1> USE DEF ClosedKilled, TypeOK, objects
<1>1. ASSUME NEW t \in Threads, Launch(t) \/ Kill(t) \/ AsyncCancel(t) \/ ClosePipe(t) PROVE ClosedKilled'
  BY <1>1 DEF Launch, Kill, AsyncCancel, ClosePipe, Table
<1>2. CASE UNCHANGED <<thread, closed>>
  BY <1>2
<1> QED
  BY <1>1, <1>2
  DEF Next, HandlerStep, RestartStep, LoopStep, vars, Trigger, AwaitDone, EndWalk, Return, Visit,
      CancelToRestart, Waited, StartAgain, Reset, TakeBroadcast, GoStart, ReadTime, Tick, Send,
      Stop, EndOfBuffer, SeriesOver, Swap, FetchFails

LEMMA SelectStep == TypeOK /\ NoDoneSelect /\ [Next]_vars => NoDoneSelect'
<1> SUFFICES ASSUME TypeOK, NoDoneSelect, [Next]_vars,
                    NEW u \in Threads, done'[u], NEW r \in Slots
             PROVE  loop'[u][r].at # "select"
  BY DEF NoDoneSelect
<1>1. ASSUME NEW t \in Threads, Cancel(t) PROVE loop'[u][r].at # "select"
  <2>1. CASE u = t
    <3>1. loop'[u][r] = IF loop[u][r].at = "select" THEN [loop[u][r] EXCEPT !.at = "stopping"] ELSE loop[u][r]
      BY <1>1, <2>1 DEF Cancel, TypeOK
    <3>2. loop[u][r] \in LoopStates
      BY DEF TypeOK
    <3> QED BY <3>1, <3>2 DEF LoopStates, Off, Starting
  <2>2. CASE u # t
    BY <1>1, <2>2 DEF Cancel, TypeOK, NoDoneSelect
  <2> QED BY <2>1, <2>2
<1>2. ASSUME NEW t \in Threads, Begin(t), done[u] \/ u = t PROVE loop'[u][r].at # "select" \/ (u = t /\ ~done[u])
  <2>1. PICK s \in Slots : SetLoop(t, s, Starting) /\ Starting \in LoopStates
    BY <1>2, BeginType
  <2> QED BY <1>2, <2>1, SetLoopType DEF Starting, NoDoneSelect
<1>3. ASSUME NEW h \in Handlers, NEW t \in Threads, StartAgain(h, t) PROVE loop'[u][r].at # "select"
  <2>1. u # t /\ done[u]
    BY <1>3 DEF StartAgain, TypeOK
  <2> QED BY <1>2, <1>3, <2>1 DEF StartAgain
<1>4. ASSUME NEW t \in Threads, GoStart(t) PROVE loop'[u][r].at # "select"
  BY <1>2, <1>4 DEF GoStart
<1>5. ASSUME NEW t \in Threads, NEW s \in Slots, LoopStep(t, s) PROVE loop'[u][r].at # "select"
  <2>1. done[u]
    BY <1>5 DEF LoopStep, ReadTime, Tick, Send, Stop, EndOfBuffer, SeriesOver, Swap, FetchFails, objects
  <2>2. \E l : SetLoop(t, s, l) /\ (l.at # "select" \/ ~done[t])
    <3>1. ASSUME NEW e PROVE Select(t, e).at # "select" \/ ~done[t]
      BY DEF Select
    <3>2. CASE ReadTime(t, s) \/ Swap(t, s)
      BY <3>1, <3>2 DEF ReadTime, Swap, Off
    <3>3. CASE Tick(t, s) \/ Send(t, s)
      <4>1. loop[t][s] \in LoopStates /\ Running(loop[t][s])
        BY <3>3 DEF Tick, Send, Running, TypeOK
      <4>2. \A a \in {"send", "end"} : [loop[t][s] EXCEPT !.at = a].at = a
        BY <4>1, StreamingType DEF LoopStates, Running, Off, Starting
      <4> QED BY <3>1, <3>3, <4>2 DEF Tick, Send
    <3>4. CASE Stop(t, s) \/ SeriesOver(t, s)
      BY <3>4 DEF Stop, SeriesOver, Off
    <3>5. CASE FetchFails(t, s)
      <4>1. SetLoop(t, s, loop[t][s]) /\ loop[t][s].at = "end"
        BY <3>5 DEF LoopStep, FetchFails, SetLoop, objects, TypeOK
      <4> QED BY <4>1
    <3> QED BY <1>5, <3>2, <3>3, <3>4, <3>5 DEF LoopStep, EndOfBuffer
  <2>3. PICK l : SetLoop(t, s, l) /\ (l.at # "select" \/ ~done[t])
    BY <2>2
  <2> QED BY <2>1, <2>3 DEF SetLoop, TypeOK, NoDoneSelect
<1>6. CASE UNCHANGED <<loop, done>>
  BY <1>6 DEF NoDoneSelect
<1>7. ASSUME NEW t \in Threads, Launch(t) \/ Kill(t) \/ ClosePipe(t) PROVE loop'[u][r].at # "select"
  BY <1>6, <1>7 DEF Launch, Kill, ClosePipe
<1> QED
  BY <1>1, <1>3, <1>4, <1>5, <1>6, <1>7
  DEF Next, HandlerStep, RestartStep, LoopStep, vars, objects, Trigger, AwaitDone,
      Visit, EndWalk, Return, CancelToRestart, Waited, Reset, TakeBroadcast, AsyncCancel

\* A restart that meets no other one always has what it waits for: the part of
\* RestartReturns that is about every state.
THEOREM LoneRestartsAreServed == Spec => []LoneRestartsGoOn
<1>1. Init => FollowInv /\ LoneInv
  BY FollowInit DEF Init, LoneInv, Alone, Cancelled, NoDoneSelect, ClosedKilled, Off
<1>2. (FollowInv /\ LoneInv) /\ [Next]_vars => (FollowInv /\ LoneInv)'
  BY FollowStep, AloneStep, CancelledStep, ClosedStep, SelectStep DEF FollowInv, LoneInv
<1>3. FollowInv /\ Counted /\ LoneInv => LoneRestartsGoOn
  <2> SUFFICES ASSUME FollowInv, Counted, LoneInv, NEW h \in alone
               PROVE  /\ handler[h] = "waiting" => triggers + dones = 1
                      /\ \A t \in Threads :
                           /\ restart[h][t] = "wait" => \A s \in Slots : loop[t][s].at # "select"
                           /\ restart[h][t] = "start" /\ t \in Table => t \notin closed
    BY DEF LoneRestartsGoOn
  <2>1. ASSUME handler[h] = "waiting" PROVE triggers + dones = 1
    <3>1. h \in Handlers
      BY DEF FollowInv, TypeOK
    <3>2. Waiting = {h}
      BY <2>1, <3>1 DEF Waiting, LoneInv, Alone
    <3> QED BY <3>2, FS_Singleton DEF FollowInv, Counted
  <2>2. ASSUME NEW t \in Threads, restart[h][t] = "wait" PROVE \A s \in Slots : loop[t][s].at # "select"
    BY <2>2 DEF LoneInv, Cancelled, NoDoneSelect
  <2>3. ASSUME NEW t \in Threads, t \in Table PROVE t \notin closed
    BY <2>3 DEF LoneInv, ClosedKilled, Table
  <2> QED BY <2>1, <2>2, <2>3
<1> QED BY <1>1, <1>2, <1>3, AnswersAreCounted, PTL DEF Spec
=============================================================================
