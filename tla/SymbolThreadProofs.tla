------------------------- MODULE SymbolThreadProofs -------------------------
(* The double buffering of SymbolThread is correct for any stored bars,    *)
(* window, trading days and number of goroutines and of restarts.          *)
EXTENDS SymbolThread, FiniteSetTheorems, TLAPS

-----------------------------------------------------------------------------
(* The series.  A running loop has sent, or still has in buffer A, exactly *)
(* the bars from its start up to the window it will load next, and has     *)
(* sent the earlier ones; it stops after a window past the market's close. *)
Running(g) == pc[g] \in {"select", "emit", "swap"}
Covered(g) == {b \in Bars : from[g] <= b /\ b < next[g]}

SeriesInv(g) ==
  /\ pc[g] \in {"due", "starting", "loading"} => sent[g] = {} /\ rem[g] = {}
  /\ pc[g] = "loading" => next[g] = from[g]
  /\ Running(g) => from[g] <= next[g]
  /\ Running(g) =>
       /\ sent[g] \cup rem[g] = Covered(g)
       /\ \A b \in sent[g], c \in rem[g] : b < c
  /\ pc[g] = "swap" => rem[g] = {}

QuitInv(g) ==
  /\ ~Idle(g) /\ quit[g] => next[g] > Close /\ pc[g] \notin {"due", "starting", "loading"}
  /\ pc[g] = "finished" => Covered(g) \subseteq sent[g] /\ next[g] > Close

Inv ==
  /\ LoopsOK /\ quit \in [Loops -> BOOLEAN]
  /\ \A g \in Loops : SeriesInv(g) /\ QuitInv(g)

\* A window continues what comes before it, without a gap or an overlap.
LEMMA Windows ==
  ASSUME NEW f \in Nat, NEW n \in Nat, f <= n,
         NEW before, before = {b \in Bars : f <= b /\ b < n}
  PROVE  /\ before \cup InWindow(n) = {b \in Bars : f <= b /\ b < n + Window}
         /\ \A b \in before, c \in InWindow(n) : b < c
<1>1. \A b \in Bars : b \in Nat
  BY ThreadAssumption DEF ThreadAssumption
<1>2. Window \in Nat
  BY ThreadAssumption DEF ThreadAssumption
<1> QED BY <1>1, <1>2 DEF InWindow

\* What the loop of one goroutine does leaves the others alone.
Others(g) ==
  \A h \in Loops \ {g} :
    /\ pc'[h] = pc[h] /\ tick'[h] = tick[h] /\ rem'[h] = rem[h] /\ next'[h] = next[h]
    /\ quit'[h] = quit[h] /\ from'[h] = from[h] /\ sent'[h] = sent[h]

\* What holds of another goroutine still holds of it.
LEMMA OthersKeep ==
  ASSUME Inv, NEW g \in Loops, Others(g), NEW h \in Loops \ {g}
  PROVE  SeriesInv(h)' /\ QuitInv(h)'
BY DEF Inv, Others, SeriesInv, QuitInv, Running, Covered, Idle

\* Every step keeps the account of the series: load, send and swap add up.
LEMMA InvStep == Inv /\ [Next]_vars => Inv'
<1> SUFFICES ASSUME Inv, [Next]_vars PROVE Inv'
  OBVIOUS
<1> USE ThreadAssumption DEF ThreadAssumption, loops, fetches, context, outside
<1>1. ASSUME UNCHANGED loops, simTime' \in Nat PROVE Inv'
  BY <1>1 DEF Inv, LoopsOK, SeriesInv, QuitInv, Running, Covered, Idle
<1>2. ASSUME NEW g \in Loops, Launch(g) \/ ReadTime(g) PROVE Inv'
  <2>1. LoopsOK' /\ Others(g)
    BY <1>2 DEF Launch, ReadTime, Inv, LoopsOK, Others, Positions
  <2>2. SeriesInv(g)' /\ QuitInv(g)'
    BY <1>2 DEF Launch, ReadTime, Inv, LoopsOK, SeriesInv, QuitInv, Running, Covered, Idle
  <2> QED BY <1>2, <2>1, <2>2, OthersKeep DEF Inv, Launch, ReadTime
<1>3. ASSUME NEW g \in Loops, Load(g) PROVE Inv'
  <2>1. LoopsOK' /\ Others(g)
    BY <1>3 DEF Load, Inv, LoopsOK, Others, Positions, InWindow
  <2>2. SeriesInv(g)'
    BY <1>3 DEF Load, Inv, LoopsOK, SeriesInv, Running, Covered, InWindow
  <2>3. QuitInv(g)'
    BY <1>3 DEF Load, Inv, LoopsOK, QuitInv, Running, Covered, Idle
  <2> QED BY <1>3, <2>1, <2>2, <2>3, OthersKeep DEF Inv, Load
<1>4. ASSUME NEW g \in Loops, LoadFails(g) \/ Stop(g) PROVE Inv'
  <2>1. LoopsOK' /\ Others(g)
    BY <1>4 DEF LoadFails, Stop, Inv, LoopsOK, Others, Positions
  <2>2. SeriesInv(g)' /\ QuitInv(g)'
    BY <1>4 DEF LoadFails, Stop, Inv, LoopsOK, SeriesInv, QuitInv, Running, Covered, Idle
  <2> QED BY <1>4, <2>1, <2>2, OthersKeep DEF Inv, LoadFails, Stop
<1>5. ASSUME NEW g \in Loops, Tick(g) \/ ZeroTick(g) PROVE Inv'
  <2>1. LoopsOK' /\ Others(g)
    BY <1>5 DEF Tick, ZeroTick, Inv, LoopsOK, Others, Positions
  <2>2. /\ pc[g] = "select" /\ pc'[g] = "emit"
        /\ UNCHANGED <<rem, next, quit, from, sent>>
    BY <1>5 DEF Tick, ZeroTick, Inv, LoopsOK
  <2>3. SeriesInv(g)'
    BY <2>2 DEF Inv, SeriesInv, Running, Covered
  <2>4. QuitInv(g)'
    BY <2>2 DEF Inv, QuitInv, Covered, Idle
  <2> QED BY <2>1, <2>2, <2>3, <2>4, OthersKeep DEF Inv
<1>6. ASSUME NEW g \in Loops, Emit(g) PROVE Inv'
  <2>1. LoopsOK' /\ Others(g)
    BY <1>6 DEF Emit, Inv, LoopsOK, Others
  <2>2. SeriesInv(g)'
    BY <1>6 DEF Emit, Inv, LoopsOK, SeriesInv, Running, Covered
  <2>3. QuitInv(g)'
    BY <1>6 DEF Emit, Inv, LoopsOK, QuitInv, Covered, Idle
  <2> QED BY <1>6, <2>1, <2>2, <2>3, OthersKeep DEF Inv, Emit
<1>7. ASSUME NEW g \in Loops, EmitDone(g) PROVE Inv'
  <2>1. LoopsOK' /\ Others(g)
    BY <1>7 DEF EmitDone, Inv, LoopsOK, Others, Positions
  <2>2. SeriesInv(g)'
    BY <1>7 DEF EmitDone, Inv, LoopsOK, SeriesInv, Running, Covered
  <2>3. QuitInv(g)'
    BY <1>7 DEF EmitDone, Inv, LoopsOK, QuitInv, Covered, Idle
  <2> QED BY <1>7, <2>1, <2>2, <2>3, OthersKeep DEF Inv, EmitDone
<1>8. ASSUME NEW g \in Loops, Finish(g) PROVE Inv'
  <2>1. LoopsOK' /\ Others(g)
    BY <1>8 DEF Finish, Inv, LoopsOK, Others, Positions
  <2>2. SeriesInv(g)' /\ QuitInv(g)'
    BY <1>8 DEF Finish, Inv, LoopsOK, SeriesInv, QuitInv, Running, Covered, Idle
  <2> QED BY <1>8, <2>1, <2>2, OthersKeep DEF Inv, Finish
<1>9. ASSUME NEW g \in Loops, Swap(g) PROVE Inv'
  <2>1. LoopsOK' /\ Others(g) /\ quit' \in [Loops -> BOOLEAN]
    BY <1>9 DEF Swap, Inv, LoopsOK, Others, Positions, InWindow
  <2>2. SeriesInv(g)'
    <3>1. /\ sent[g] = Covered(g) /\ sent'[g] = sent[g] /\ from'[g] = from[g]
          /\ rem'[g] = InWindow(next[g]) /\ next'[g] = next[g] + Window /\ pc'[g] = "select"
          /\ next[g] \in Nat /\ from[g] \in Nat /\ from[g] <= next[g]
      BY <1>9 DEF Swap, Inv, LoopsOK, SeriesInv, Running
    <3>2. /\ sent[g] \cup InWindow(next[g]) = {b \in Bars : from[g] <= b /\ b < next[g] + Window}
          /\ \A b \in sent[g], c \in InWindow(next[g]) : b < c
      BY <3>1, Windows DEF Covered
    <3>3. sent'[g] \cup rem'[g] = Covered(g)'
      BY <3>1, <3>2 DEF Covered
    <3>4. \A b \in sent'[g], c \in rem'[g] : b < c
      BY <3>1, <3>2
    <3>5. from'[g] <= next'[g]
      BY <3>1
    <3> QED BY <3>1, <3>3, <3>4, <3>5 DEF SeriesInv, Running
  <2>3. QuitInv(g)'
    BY <1>9 DEF Swap, Inv, LoopsOK, QuitInv, Covered, Idle
  <2> QED BY <1>9, <2>1, <2>2, <2>3, OthersKeep DEF Inv
<1>10. ASSUME NEW r \in Restarters, StartAgain(r) PROVE Inv'
  <2>1. PICK g \in Loops :
          /\ pc' = [pc EXCEPT ![g] = "starting"] /\ rem' = [rem EXCEPT ![g] = {}]
          /\ quit' = [quit EXCEPT ![g] = FALSE] /\ sent' = [sent EXCEPT ![g] = {}]
          /\ UNCHANGED <<simTime, tick, next, from>>
    BY <1>10 DEF StartAgain, Free
  <2>2. LoopsOK' /\ Others(g) /\ quit' \in [Loops -> BOOLEAN]
    BY <2>1 DEF Inv, LoopsOK, Others, Positions
  <2>3. SeriesInv(g)' /\ QuitInv(g)'
    BY <2>1 DEF Inv, LoopsOK, SeriesInv, QuitInv, Running, Covered, Idle
  <2> QED BY <2>2, <2>3, OthersKeep DEF Inv
<1>11. ASSUME NEW g \in Loops, Fatal(g) \/ FetchEnds(g) PROVE Inv'
  BY <1>1, <1>11 DEF Fatal, FetchEnds, Inv, LoopsOK
<1>12. ASSUME NEW r \in Restarters,
             AskRestart(r) \/ FindThread(r) \/ CancelToRestart(r) \/ Waited(r)
       PROVE Inv'
  BY <1>1, <1>12 DEF AskRestart, FindThread, CancelToRestart, Waited, Inv, LoopsOK
<1>13. CASE Kill \/ KillStep \/ TickLost
  BY <1>1, <1>13 DEF Kill, KillStep, ClosePipe, CancelToKill, TickLost, Inv, LoopsOK
<1>14. CASE UNCHANGED vars
  BY <1>1, <1>14 DEF vars, Inv, LoopsOK
<1> QED
  BY <1>2, <1>3, <1>4, <1>5, <1>6, <1>7, <1>8, <1>9, <1>10, <1>11, <1>12, <1>13, <1>14
  DEF Next, LoopStep, RestartStep

\* A thread that was just made owes and holds nothing.
LEMMA InitInv == Init => Inv
<1> SUFFICES ASSUME Init PROVE Inv
  OBVIOUS
<1>1. LoopsOK /\ quit \in [Loops -> BOOLEAN]
  BY ThreadAssumption DEF ThreadAssumption, Init, LoopsOK, Positions
<1>2. \A g \in Loops : SeriesInv(g) /\ QuitInv(g)
  BY DEF Init, SeriesInv, QuitInv, Running, Covered, Idle
<1> QED BY <1>1, <1>2 DEF Inv

\* The account of the series holds throughout.
LEMMA Invariance == Spec => []Inv
BY InitInv, InvStep, PTL DEF Spec

(* A thread that has come to the end of its series has sent all of it, up  *)
(* to the market's close of its date.                                      *)
THEOREM NothingIsLeftOut == Spec => []FinishedIsComplete
<1>1. Inv => FinishedIsComplete
  <2> SUFFICES ASSUME Inv, NEW g \in Loops, pc[g] = "finished", NEW b \in Owed(g, Close)
               PROVE  b \in sent[g]
    BY DEF FinishedIsComplete
  <2>1. Covered(g) \subseteq sent[g] /\ next[g] > Close /\ next[g] \in Nat
    BY DEF Inv, QuitInv, LoopsOK
  <2>2. b \in Nat /\ b \in Bars /\ from[g] <= b /\ b <= Close /\ Close \in Nat
    BY ThreadAssumption DEF ThreadAssumption, Owed
  <2>3. b < next[g]
    BY <2>1, <2>2
  <2> QED BY <2>1, <2>2, <2>3 DEF Covered
<1> QED BY <1>1, Invariance, PTL
-----------------------------------------------------------------------------
(* The refinement: the loop of each goroutine is a BarStream.              *)
LEMMA PromiseInit == ASSUME NEW l \in Loops PROVE Init => Promise(l)!Init
BY DEF Init, Promise!Init

\* Every step is a step of BarStream, or none.
LEMMA PromiseStep ==
  ASSUME NEW l \in Loops
  PROVE  Inv /\ [Next]_vars => [Promise(l)!Next]_(Promise(l)!vars)
<1> SUFFICES ASSUME Inv, [Next]_vars PROVE [Promise(l)!Next]_(Promise(l)!vars)
  OBVIOUS
<1>0. from[l] \in Nat /\ tick[l] \in Nat /\ sent[l] \subseteq Bars /\ simTime \in Nat
  BY DEF Inv, LoopsOK
<1> USE DEF loops, fetches, context, outside
<1>1. ASSUME UNCHANGED <<from, tick, sent>> PROVE [Promise(l)!Next]_(Promise(l)!vars)
  BY <1>1 DEF Promise!vars
<1>2. ASSUME NEW g \in Loops, ReadTime(g) PROVE [Promise(l)!Next]_(Promise(l)!vars)
  <2>1. CASE g = l
    <3>1. from'[l] \in Nat /\ tick'[l] = tick[l] /\ sent'[l] = {}
      BY <1>0, <1>2, <2>1 DEF ReadTime, Inv, LoopsOK, SeriesInv
    <3> QED BY <3>1 DEF Promise!Next, Promise!Begin
  <2>2. CASE g # l
    BY <1>2, <2>2 DEF ReadTime, Inv, LoopsOK, Promise!vars
  <2> QED BY <2>1, <2>2
<1>3. ASSUME NEW g \in Loops, Tick(g) \/ ZeroTick(g) PROVE [Promise(l)!Next]_(Promise(l)!vars)
  <2>1. tick'[l] \in Nat /\ UNCHANGED <<from, sent>>
    BY <1>0, <1>3 DEF Tick, ZeroTick, Inv, LoopsOK
  <2> QED BY <2>1 DEF Promise!Next, Promise!Tick
<1>4. ASSUME NEW g \in Loops, Emit(g) PROVE [Promise(l)!Next]_(Promise(l)!vars)
  <2>1. CASE g = l
    <3>1. PICK b \in rem[l] : /\ b <= tick[l] /\ \A c \in rem[l] : b <= c
                              /\ sent' = [sent EXCEPT ![l] = @ \cup {b}]
      BY <1>4, <2>1 DEF Emit
    <3>2. /\ sent[l] \cup rem[l] = Covered(l) /\ \A c \in sent[l] : c < b
          /\ next[l] \in Nat /\ b \in Bars
      BY <1>0, <1>4, <2>1, <3>1 DEF Emit, Inv, LoopsOK, SeriesInv, Running
    <3>3. \A c \in Bars : c \in Nat
      BY ThreadAssumption DEF ThreadAssumption
    <3>4. from[l] <= b /\ b < next[l] /\ b \notin sent[l]
      BY <3>1, <3>2, <3>3 DEF Covered
    <3>5. ASSUME NEW c \in Bars, from[l] <= c, c < b PROVE c \in sent[l]
      <4>1. c \in Covered(l)
        BY <1>0, <3>2, <3>3, <3>4, <3>5 DEF Covered
      <4>2. c \notin rem[l]
        BY <3>1, <3>2, <3>3, <3>5
      <4> QED BY <3>2, <4>1, <4>2
    <3>6. sent'[l] = sent[l] \cup {b} /\ from'[l] = from[l] /\ tick'[l] = tick[l]
      BY <1>0, <1>4, <3>1 DEF Emit, Inv, LoopsOK
    <3> QED BY <3>1, <3>2, <3>4, <3>5, <3>6 DEF Promise!Next, Promise!Emit
  <2>2. CASE g # l
    BY <1>4, <2>2 DEF Emit, Inv, LoopsOK, Promise!vars
  <2> QED BY <2>1, <2>2
<1>5. ASSUME NEW r \in Restarters, StartAgain(r) PROVE [Promise(l)!Next]_(Promise(l)!vars)
  <2>1. PICK g \in Loops : sent' = [sent EXCEPT ![g] = {}] /\ UNCHANGED <<tick, from>>
    BY <1>5 DEF StartAgain, Free
  <2>2. CASE g = l
    <3>1. from'[l] \in Nat /\ tick'[l] = tick[l] /\ sent'[l] = {}
      BY <1>0, <2>1, <2>2 DEF Inv, LoopsOK
    <3> QED BY <3>1 DEF Promise!Next, Promise!Begin
  <2>3. CASE g # l
    BY <2>1, <2>3 DEF Inv, LoopsOK, Promise!vars
  <2> QED BY <2>2, <2>3
<1>6. ASSUME NEW g \in Loops,
             \/ Launch(g) \/ Load(g) \/ LoadFails(g) \/ Stop(g) \/ EmitDone(g)
             \/ Finish(g) \/ Swap(g) \/ Fatal(g) \/ FetchEnds(g)
      PROVE [Promise(l)!Next]_(Promise(l)!vars)
  BY <1>1, <1>6 DEF Launch, Load, LoadFails, Stop, EmitDone, Finish, Swap, Fatal, FetchEnds
<1>7. ASSUME NEW r \in Restarters,
             AskRestart(r) \/ FindThread(r) \/ CancelToRestart(r) \/ Waited(r)
      PROVE [Promise(l)!Next]_(Promise(l)!vars)
  BY <1>1, <1>7 DEF AskRestart, FindThread, CancelToRestart, Waited
<1>8. CASE Kill \/ KillStep \/ TickLost \/ UNCHANGED vars
  BY <1>1, <1>8 DEF Kill, KillStep, ClosePipe, CancelToKill, TickLost, vars
<1> QED
  BY <1>2, <1>3, <1>4, <1>5, <1>6, <1>7, <1>8 DEF Next, LoopStep, RestartStep

(* The double buffering implements BarStream: in order, without gap or     *)
(* repetition, and never early, whatever restarts and kills the thread.    *)
THEOREM SendsTheSeries == Spec => ImplementsBarStream
<1>1. Init => PromisesBegin
  BY PromiseInit DEF PromisesBegin
<1>2. Inv /\ [Next]_vars => PromisesKept
  BY PromiseStep DEF PromisesKept
<1> QED BY <1>1, <1>2, Invariance, PTL DEF Spec, ImplementsBarStream

(* As a refinement: each goroutine's loop is a BarStream.                  *)
THEOREM EveryLoopIsABarStream == ASSUME NEW l \in Loops PROVE Spec => Promise(l)!Spec
<1>1. Init => Promise(l)!Init
  BY PromiseInit
<1>2. Inv /\ [Next]_vars => [Promise(l)!Next]_(Promise(l)!vars)
  BY PromiseStep
<1> QED BY <1>1, <1>2, Invariance, PTL DEF Spec, Promise!Spec
-----------------------------------------------------------------------------
(* Types, and the room in the buffers: a window holds at most one bar for  *)
(* each of its seconds.                                                    *)
LEMMA WindowFits == ASSUME NEW n \in Nat, NEW S \in SUBSET InWindow(n) PROVE Cardinality(S) <= Window
<1>1. n \in Int /\ n + Window - 1 \in Int /\ Window \in Nat /\ Window # 0
  BY ThreadAssumption DEF ThreadAssumption
<1>2. IsFiniteSet(n..(n + Window - 1)) /\ Cardinality(n..(n + Window - 1)) = Window
  BY <1>1, FS_Interval
<1>3. S \subseteq n..(n + Window - 1)
  BY <1>1, ThreadAssumption DEF ThreadAssumption, InWindow
<1>4. Cardinality(S) <= Cardinality(n..(n + Window - 1))
  BY <1>2, <1>3, FS_Subset
<1> QED BY <1>2, <1>4

RemInv == \A g \in Loops : \E n \in Nat : rem[g] \subseteq InWindow(n)

\* What is left in buffer A always comes from one window.
LEMMA RemStep == Inv /\ RemInv /\ [Next]_vars => RemInv'
<1> SUFFICES ASSUME Inv, RemInv, [Next]_vars PROVE RemInv'
  OBVIOUS
<1> USE DEF loops, fetches, context, outside
<1>0. rem \in [Loops -> SUBSET Bars] /\ next \in [Loops -> Nat] /\ rem' \in [Loops -> SUBSET Bars]
  BY InvStep DEF Inv, LoopsOK
<1>1. ASSUME \A g \in Loops : rem'[g] \subseteq rem[g] \/ rem'[g] = InWindow(next[g]) PROVE RemInv'
  BY <1>0, <1>1 DEF RemInv, InWindow
<1>2. ASSUME NEW g \in Loops, Load(g) \/ Swap(g) \/ Emit(g) PROVE RemInv'
  BY <1>0, <1>1, <1>2 DEF Load, Swap, Emit
<1>3. ASSUME NEW r \in Restarters, StartAgain(r) PROVE RemInv'
  BY <1>0, <1>1, <1>3 DEF StartAgain
<1>4. ASSUME NEW g \in Loops,
             \/ Launch(g) \/ ReadTime(g) \/ LoadFails(g) \/ Stop(g) \/ Tick(g) \/ ZeroTick(g)
             \/ EmitDone(g) \/ Finish(g) \/ Fatal(g) \/ FetchEnds(g)
      PROVE RemInv'
  BY <1>1, <1>4 DEF Launch, ReadTime, LoadFails, Stop, Tick, ZeroTick, EmitDone, Finish, Fatal, FetchEnds
<1>5. ASSUME NEW r \in Restarters,
             AskRestart(r) \/ FindThread(r) \/ CancelToRestart(r) \/ Waited(r)
      PROVE RemInv'
  BY <1>1, <1>5 DEF AskRestart, FindThread, CancelToRestart, Waited
<1>6. CASE Kill \/ KillStep \/ TickLost \/ UNCHANGED vars
  BY <1>1, <1>6 DEF Kill, KillStep, ClosePipe, CancelToKill, TickLost, vars
<1> QED BY <1>2, <1>3, <1>4, <1>5, <1>6 DEF Next, LoopStep, RestartStep

\* What TypeOK says besides.
ControlOK ==
  /\ ctx \in Nat /\ cancelled \subseteq Nat /\ seen \in [Loops -> Nat]
  /\ fetch \in [Loops -> {"none", "running", "ok", "err"}] /\ fetchCtx \in [Loops -> Nat]
  /\ restart \in [Restarters -> {"no", "asked", "cancel", "wait", "start"}]
  /\ kill \in {"no", "ordered", "done"}

FlagsOK == overtaken \in BOOLEAN /\ pipeClosed \in BOOLEAN /\ crashed \in BOOLEAN

\* The flags stay Booleans.
LEMMA FlagsStep == FlagsOK /\ [Next]_vars => FlagsOK'
<1> SUFFICES ASSUME FlagsOK, [Next]_vars PROVE FlagsOK'
  OBVIOUS
<1> USE DEF outside, loops, fetches, context
<1>1. ASSUME NEW r \in Restarters, Waited(r) PROVE FlagsOK'
  <2>1. overtaken' = Awaited /\ UNCHANGED <<pipeClosed, crashed>>
    BY <1>1 DEF Waited
  <2>2. overtaken' \in BOOLEAN
    BY <2>1, Zenon DEF Awaited
  <2> QED BY <2>1, <2>2 DEF FlagsOK
<1>2. ASSUME NEW r \in Restarters,
             AskRestart(r) \/ FindThread(r) \/ CancelToRestart(r) \/ StartAgain(r)
      PROVE FlagsOK'
  BY <1>2 DEF AskRestart, FindThread, CancelToRestart, StartAgain, FlagsOK
<1>3. ASSUME NEW g \in Loops, LoopStep(g) \/ Stop(g) \/ Tick(g) \/ ZeroTick(g) PROVE FlagsOK'
  BY <1>3 DEF LoopStep, Launch, ReadTime, Load, LoadFails, Stop, Tick, ZeroTick, Emit, EmitDone,
     Finish, Swap, Fatal, FetchEnds, FlagsOK
<1>4. CASE Kill \/ KillStep \/ TickLost \/ UNCHANGED vars
  BY <1>4 DEF Kill, KillStep, ClosePipe, CancelToKill, TickLost, vars, FlagsOK
<1> QED BY <1>1, <1>2, <1>3, <1>4 DEF Next, RestartStep

\* The variables of the contexts, queries and requests keep their types.
LEMMA ControlStep == ControlOK /\ [Next]_vars => ControlOK'
<1> SUFFICES ASSUME ControlOK, [Next]_vars PROVE ControlOK'
  OBVIOUS
<1> USE DEF loops, fetches, context, outside
<1>1. ASSUME NEW g \in Loops, Load(g) \/ Swap(g) PROVE ControlOK'
  <2>1. /\ fetch' = fetch \/ \E v \in {"none", "running"} : fetch' = [fetch EXCEPT ![g] = v]
        /\ fetchCtx' = fetchCtx \/ fetchCtx' = [fetchCtx EXCEPT ![g] = @]
             \/ fetchCtx' = [fetchCtx EXCEPT ![g] = ctx]
        /\ seen' = seen \/ seen' = [seen EXCEPT ![g] = ctx]
    BY <1>1 DEF Load, Swap
  <2>2. UNCHANGED <<ctx, cancelled, restart, kill>>
    BY <1>1 DEF Load, Swap
  <2> QED BY <2>1, <2>2 DEF ControlOK
<1>2. ASSUME NEW g \in Loops, FetchEnds(g) PROVE ControlOK'
  BY <1>2 DEF FetchEnds, ControlOK
<1>3. ASSUME NEW g \in Loops, ReadTime(g) \/ EmitDone(g) PROVE ControlOK'
  BY <1>3 DEF ReadTime, EmitDone, ControlOK
<1>4. ASSUME NEW g \in Loops, Fatal(g) PROVE ControlOK'
  BY <1>4 DEF Fatal, ControlOK
<1>5. ASSUME NEW g \in Loops,
             \/ Launch(g) \/ LoadFails(g) \/ Stop(g) \/ Tick(g) \/ ZeroTick(g)
             \/ Emit(g) \/ Finish(g)
      PROVE ControlOK'
  BY <1>5 DEF Launch, LoadFails, Stop, Tick, ZeroTick, Emit, Finish, ControlOK
<1>6. ASSUME NEW r \in Restarters, StartAgain(r) PROVE ControlOK'
  <2>1. PICK g \in Loops : fetch' = [fetch EXCEPT ![g] = "none"]
    BY <1>6 DEF StartAgain, Free
  <2>2. /\ ctx' = ctx + 1 /\ restart' = [restart EXCEPT ![r] = "no"]
        /\ UNCHANGED <<cancelled, seen, fetchCtx, kill>>
    BY <1>6 DEF StartAgain
  <2> QED BY <2>1, <2>2 DEF ControlOK
<1>7. ASSUME NEW r \in Restarters,
             AskRestart(r) \/ FindThread(r) \/ CancelToRestart(r) \/ Waited(r)
      PROVE ControlOK'
  BY <1>7 DEF AskRestart, FindThread, CancelToRestart, Waited, ControlOK
<1>8. CASE Kill \/ KillStep
  BY <1>8 DEF Kill, KillStep, ClosePipe, CancelToKill, ControlOK
<1>9. CASE TickLost \/ UNCHANGED vars
  BY <1>9 DEF TickLost, vars, ControlOK
<1> QED
  BY <1>1, <1>2, <1>3, <1>4, <1>5, <1>6, <1>7, <1>8, <1>9 DEF Next, LoopStep, RestartStep

(* Every variable has its type, and no buffer overflows.                   *)
THEOREM TypeCorrect == Spec => []TypeOK
<1>1. Init => RemInv
  BY DEF Init, RemInv
<1>2. Init => ControlOK
  BY DEF Init, ControlOK
<1>3. Init => FlagsOK
  BY DEF Init, FlagsOK
<1>4. Inv /\ RemInv => BuffersFit
  BY WindowFits DEF RemInv, BuffersFit
<1>5. Inv /\ BuffersFit /\ ControlOK /\ FlagsOK => TypeOK
  BY Zenon DEF Inv, ControlOK, FlagsOK, TypeOK
<1> QED BY <1>1, <1>2, <1>3, <1>4, <1>5, RemStep, ControlStep, FlagsStep, Invariance, PTL DEF Spec
-----------------------------------------------------------------------------
(* One loop.  A restart that found nobody about to start the loop is the   *)
(* only one to start it next, and does so after all that ran has ended:    *)
(* the requests that come to wait meanwhile are overtaken by it.           *)
AllFree == \A g \in Loops : g \in Free
OneInv ==
  ~overtaken =>
    /\ \A g, h \in Loops : ~Idle(g) /\ ~Idle(h) => g = h
    /\ \A r \in Restarters : restart[r] = "start" => AllFree
    /\ \A r, s \in Restarters : restart[r] = "start" /\ restart[s] = "start" => r = s

\* What is started again finds nothing running, and nobody else who starts it.
LEMMA OneStep == Inv /\ ControlOK /\ OneInv /\ [Next]_vars => OneInv'
<1> SUFFICES ASSUME Inv, ControlOK, OneInv, [Next]_vars PROVE OneInv'
  OBVIOUS
<1> USE DEF loops, fetches, context, outside
<1>0. pc \in [Loops -> Positions] /\ restart \in [Restarters -> {"no", "asked", "cancel", "wait", "start"}]
      /\ fetch \in [Loops -> {"none", "running", "ok", "err"}]
  BY DEF Inv, LoopsOK, ControlOK
<1>1. ASSUME UNCHANGED <<restart, overtaken>>,
             \A g \in Loops : (Idle(g) => Idle(g)') /\ (g \in Free => g \in Free')
      PROVE  OneInv'
  BY <1>1 DEF OneInv, AllFree
<1>2. ASSUME NEW g \in Loops, LoopStep(g) \/ Stop(g) \/ Tick(g) \/ ZeroTick(g) PROVE OneInv'
  <2>1. ~Idle(g) \/ fetch[g] = "running"
    BY <1>2 DEF LoopStep, Stop, Tick, ZeroTick, Launch, ReadTime, Load, LoadFails, Emit, EmitDone,
       Finish, Swap, Fatal, FetchEnds, Idle
  <2>2. UNCHANGED <<restart, overtaken>>
        /\ \A h \in Loops \ {g} : pc'[h] = pc[h] /\ fetch'[h] = fetch[h]
    BY <1>0, <1>2 DEF LoopStep, Stop, Tick, ZeroTick, Launch, ReadTime, Load, LoadFails, Emit, EmitDone,
       Finish, Swap, Fatal, FetchEnds
  <2>3. Idle(g) => Idle(g)'
    BY <1>0, <1>2 DEF LoopStep, Stop, Tick, ZeroTick, Launch, ReadTime, Load, LoadFails, Emit, EmitDone,
       Finish, Swap, Fatal, FetchEnds, Idle
  <2> QED BY <1>1, <2>1, <2>2, <2>3 DEF Free, Idle
<1>3. ASSUME NEW r \in Restarters, StartAgain(r) PROVE OneInv'
  <2>1. restart' = [restart EXCEPT ![r] = "no"] /\ overtaken' = overtaken /\ restart[r] = "start"
    BY <1>3 DEF StartAgain
  <2>2. PICK g \in Loops : pc' = [pc EXCEPT ![g] = "starting"]
    BY <1>3 DEF StartAgain, Free
  <2> SUFFICES ASSUME ~overtaken
               PROVE  /\ \A h, k \in Loops : ~Idle(h)' /\ ~Idle(k)' => h = k
                      /\ \A s \in Restarters : restart'[s] # "start"
    BY <2>1 DEF OneInv
  <2>3. \A s \in Restarters : restart'[s] # "start"
    BY <1>0, <2>1 DEF OneInv
  <2>4. \A h \in Loops : Idle(h)
    BY <2>1 DEF OneInv, AllFree, Free
  <2>5. \A h, k \in Loops : ~Idle(h)' /\ ~Idle(k)' => h = k
    BY <1>0, <2>2, <2>4 DEF Idle
  <2> QED BY <2>3, <2>5
<1>4. ASSUME NEW r \in Restarters, AskRestart(r) \/ FindThread(r) \/ CancelToRestart(r) PROVE OneInv'
  <2>1. \A s \in Restarters : restart'[s] = "start" => restart[s] = "start"
    BY <1>0, <1>4 DEF AskRestart, FindThread, CancelToRestart
  <2>2. UNCHANGED <<pc, fetch, overtaken>>
    BY <1>4 DEF AskRestart, FindThread, CancelToRestart
  <2> QED BY <2>1, <2>2 DEF OneInv, AllFree, Free, Idle
<1>5. ASSUME NEW r \in Restarters, Waited(r) PROVE OneInv'
  <2>1. /\ AllDone /\ UNCHANGED <<pc, fetch>> /\ restart' = [restart EXCEPT ![r] = "start"]
        /\ overtaken' = Awaited
    BY <1>5 DEF Waited
  <2> SUFFICES ASSUME ~Awaited
               PROVE  /\ \A g, h \in Loops : ~Idle(g)' /\ ~Idle(h)' => g = h
                      /\ \A s \in Restarters : restart'[s] = "start" => AllFree'
                      /\ \A s, t \in Restarters : restart'[s] = "start" /\ restart'[t] = "start" => s = t
    BY <2>1 DEF OneInv
  <2>2. AllFree
    BY <2>1 DEF Awaited, AllDone, AllFree
  <2>3. AllFree' /\ \A g \in Loops : Idle(g)'
    BY <2>1, <2>2 DEF AllFree, Free, Idle
  <2>4. \A s \in Restarters : restart'[s] = "start" => s = r
    BY <1>0, <2>1 DEF Awaited
  <2> QED BY <2>3, <2>4
<1>6. CASE Kill \/ KillStep \/ TickLost \/ UNCHANGED vars
  BY <1>1, <1>6 DEF Kill, KillStep, ClosePipe, CancelToKill, TickLost, vars, Idle, Free
<1> QED BY <1>2, <1>3, <1>4, <1>5, <1>6 DEF Next, RestartStep

(* However the requests to restart overlap, the thread never has two main  *)
(* loops, except from a restart that overtook the launch of the thread or  *)
(* another restart to the restart after it.                                *)
THEOREM OneLoopAtATime == Spec => []OneLoop
<1>1. Init => OneInv
  BY DEF Init, OneInv, Idle
<1>2. Init => ControlOK
  BY DEF Init, ControlOK
<1>3. OneInv => OneLoop
  BY DEF OneInv, OneLoop
<1>4. Inv /\ ControlOK /\ OneInv /\ [Next]_vars => OneInv'
  BY OneStep
<1> QED BY <1>1, <1>2, <1>3, <1>4, ControlStep, Invariance, PTL DEF Spec
-----------------------------------------------------------------------------
(* A restart goes on.  Contexts are made by restarts only, which cancel    *)
(* the one before: while the one restarter waits, all there ever were are  *)
(* cancelled, and with them every select and query of the thread.          *)
ContextInv ==
  /\ \A g \in Loops : seen[g] <= ctx /\ fetchCtx[g] <= ctx
  /\ \A n \in Nat : n < ctx => n \in cancelled
  /\ \A r \in Restarters : restart[r] \in {"wait", "start"} => ctx \in cancelled

\* What the loop waits for at the end of buffer A was asked for.
BufferInv == \A g \in Loops : Running(g) => quit[g] \/ fetch[g] # "none"

\* The only loop that may run when a restart has waited is the one that the
\* restart has overtaken.
StartInv ==
  /\ \A g \in Loops : pc[g] = "due" => g = TheLoop
  /\ \A r \in Restarters : restart[r] = "start" => \A g \in Loops : g = TheLoop \/ g \in Free

PipeInv == pipeClosed => kill # "no"

\* The contexts.
LEMMA ContextStep ==
  ASSUME \A r, s \in Restarters : r = s
  PROVE  ControlOK /\ ContextInv /\ [Next]_vars => ContextInv'
<1> SUFFICES ASSUME ControlOK, ContextInv, [Next]_vars PROVE ContextInv'
  OBVIOUS
<1> USE DEF loops, fetches, context, outside
<1>0. ctx \in Nat /\ seen \in [Loops -> Nat] /\ fetchCtx \in [Loops -> Nat]
      /\ restart \in [Restarters -> {"no", "asked", "cancel", "wait", "start"}]
  BY DEF ControlOK
<1>1. ASSUME NEW g \in Loops, LoopStep(g) \/ Stop(g) \/ Tick(g) \/ ZeroTick(g) PROVE ContextInv'
  <2>1. UNCHANGED <<ctx, cancelled, restart>>
    BY <1>1 DEF LoopStep, Stop, Tick, ZeroTick, Launch, ReadTime, Load, LoadFails, Emit, EmitDone,
       Finish, Swap, Fatal, FetchEnds
  <2>2. seen' = seen \/ seen' = [seen EXCEPT ![g] = ctx]
    BY <1>1 DEF LoopStep, Stop, Tick, ZeroTick, Launch, ReadTime, Load, LoadFails, Emit, EmitDone,
       Finish, Swap, Fatal, FetchEnds
  <2>3. \/ fetchCtx' = fetchCtx \/ fetchCtx' = [fetchCtx EXCEPT ![g] = ctx]
        \/ fetchCtx' = [fetchCtx EXCEPT ![g] = @]
    BY <1>1 DEF LoopStep, Stop, Tick, ZeroTick, Launch, ReadTime, Load, LoadFails, Emit, EmitDone,
       Finish, Swap, Fatal, FetchEnds
  <2>4. \A h \in Loops : seen'[h] <= ctx
    BY <1>0, <2>2 DEF ContextInv
  <2>5. \A h \in Loops : fetchCtx'[h] <= ctx
    BY <1>0, <2>3 DEF ContextInv
  <2> QED BY <2>1, <2>4, <2>5 DEF ContextInv
<1>2. ASSUME NEW r \in Restarters, AskRestart(r) \/ FindThread(r) PROVE ContextInv'
  <2>1. \A s \in Restarters : restart'[s] \in {"wait", "start"} => restart[s] = restart'[s]
    BY <1>0, <1>2 DEF AskRestart, FindThread
  <2> QED BY <1>2, <2>1 DEF AskRestart, FindThread, ContextInv
<1>3. ASSUME NEW r \in Restarters, CancelToRestart(r) PROVE ContextInv'
  BY <1>3 DEF CancelToRestart, ContextInv
<1>4. ASSUME NEW r \in Restarters, Waited(r) PROVE ContextInv'
  <2>1. \A s \in Restarters : restart'[s] \in {"wait", "start"} => restart[s] \in {"wait", "start"}
    BY <1>0, <1>4 DEF Waited
  <2> QED BY <1>4, <2>1 DEF Waited, ContextInv
<1>5. ASSUME NEW r \in Restarters, StartAgain(r) PROVE ContextInv'
  <2>1. /\ ctx' = ctx + 1 /\ UNCHANGED <<cancelled, seen, fetchCtx>>
        /\ restart' = [restart EXCEPT ![r] = "no"] /\ restart[r] = "start"
    BY <1>5 DEF StartAgain
  <2>2. \A s \in Restarters : restart'[s] = "no"
    BY <1>0, <2>1
  <2>3. \A n \in Nat : n < ctx + 1 => n \in cancelled
    BY <1>0, <2>1 DEF ContextInv
  <2>4. \A g \in Loops : seen[g] <= ctx + 1 /\ fetchCtx[g] <= ctx + 1
    BY <1>0 DEF ContextInv
  <2> QED BY <2>1, <2>2, <2>3, <2>4 DEF ContextInv
<1>6. CASE Kill \/ KillStep \/ TickLost \/ UNCHANGED vars
  BY <1>6 DEF Kill, KillStep, ClosePipe, CancelToKill, TickLost, vars, ContextInv
<1> QED BY <1>1, <1>2, <1>3, <1>4, <1>5, <1>6 DEF Next, RestartStep

\* A loop that runs has a buffer B under way, or needs none.
LEMMA BufferStep == Inv /\ ControlOK /\ BufferInv /\ [Next]_vars => BufferInv'
<1> SUFFICES ASSUME Inv, ControlOK, BufferInv, [Next]_vars PROVE BufferInv'
  OBVIOUS
<1> USE DEF loops, fetches, context, outside
<1>0. /\ pc \in [Loops -> Positions] /\ quit \in [Loops -> BOOLEAN]
      /\ fetch \in [Loops -> {"none", "running", "ok", "err"}]
  BY DEF Inv, LoopsOK, ControlOK
<1>1. ASSUME UNCHANGED <<quit, fetch>>, \A g \in Loops : Running(g)' => Running(g) PROVE BufferInv'
  BY <1>1 DEF BufferInv
<1>2. ASSUME NEW g \in Loops,
             \/ Launch(g) \/ ReadTime(g) \/ LoadFails(g) \/ Emit(g) \/ EmitDone(g)
             \/ Finish(g) \/ Fatal(g) \/ Stop(g) \/ Tick(g) \/ ZeroTick(g)
      PROVE  BufferInv'
  <2>1. UNCHANGED <<quit, fetch>>
    BY <1>2 DEF Stop, Tick, ZeroTick, Launch, ReadTime, LoadFails, Emit, EmitDone, Finish, Fatal
  <2>2. \A h \in Loops : Running(h)' => Running(h)
    BY <1>0, <1>2 DEF Stop, Tick, ZeroTick, Launch, ReadTime, LoadFails, Emit, EmitDone, Finish,
       Fatal, Running
  <2> QED BY <1>1, <2>1, <2>2
<1>3. ASSUME NEW g \in Loops, Load(g) PROVE BufferInv'
  <2>1. CASE InWindow(next[g]) = {}
    <3>1. pc' = [pc EXCEPT ![g] = "empty"] /\ UNCHANGED <<quit, fetch>>
      BY <1>3, <2>1 DEF Load
    <3> QED BY <1>0, <1>1, <3>1 DEF Running
  <2>2. CASE InWindow(next[g]) # {}
    <3>1. /\ pc' = [pc EXCEPT ![g] = "select"] /\ quit' = quit
          /\ fetch' = [fetch EXCEPT ![g] = "running"]
      BY <1>3, <2>2 DEF Load
    <3> QED BY <1>0, <3>1 DEF BufferInv, Running
  <2> QED BY <2>1, <2>2
<1>4. ASSUME NEW g \in Loops, Swap(g) PROVE BufferInv'
  <2> DEFINE last == next'[g] > Close
  <2>1. pc[g] = "swap" /\ pc' = [pc EXCEPT ![g] = "select"]
    BY <1>4 DEF Swap
  <2>2. CASE last
    <3>1. quit' = [quit EXCEPT ![g] = TRUE] /\ fetch' = [fetch EXCEPT ![g] = "none"]
      BY <1>4, <2>2 DEF Swap
    <3> QED BY <1>0, <2>1, <3>1 DEF BufferInv, Running
  <2>3. CASE ~last
    <3>1. fetch' = [fetch EXCEPT ![g] = "running"]
      BY <1>4, <2>3 DEF Swap
    <3>2. quit' = [quit EXCEPT ![g] = last]
      BY <1>4, Zenon DEF Swap
    <3>3. \A h \in Loops \ {g} : quit'[h] = quit[h]
      BY <1>0, <3>2, Zenon
    <3> HIDE DEF last
    <3> QED BY <1>0, <2>1, <3>1, <3>3 DEF BufferInv, Running
  <2> QED BY <2>2, <2>3
<1>5. ASSUME NEW g \in Loops, FetchEnds(g) PROVE BufferInv'
  <2>1. PICK result \in {"ok", "err"} : fetch' = [fetch EXCEPT ![g] = result]
    BY <1>5 DEF FetchEnds
  <2>2. UNCHANGED <<pc, quit>>
    BY <1>5 DEF FetchEnds
  <2> QED BY <1>0, <2>1, <2>2 DEF BufferInv, Running
<1>6. ASSUME NEW r \in Restarters, StartAgain(r) PROVE BufferInv'
  <2>1. PICK g \in Loops : /\ pc' = [pc EXCEPT ![g] = "starting"]
                           /\ quit' = [quit EXCEPT ![g] = FALSE]
                           /\ fetch' = [fetch EXCEPT ![g] = "none"]
    BY <1>6 DEF StartAgain, Free
  <2> QED BY <1>0, <2>1 DEF BufferInv, Running
<1>7. ASSUME NEW r \in Restarters,
             AskRestart(r) \/ FindThread(r) \/ CancelToRestart(r) \/ Waited(r)
      PROVE  BufferInv'
  BY <1>1, <1>7 DEF AskRestart, FindThread, CancelToRestart, Waited, Running
<1>8. CASE Kill \/ KillStep \/ TickLost \/ UNCHANGED vars
  BY <1>1, <1>8 DEF Kill, KillStep, ClosePipe, CancelToKill, TickLost, vars, Running
<1> QED BY <1>2, <1>3, <1>4, <1>5, <1>6, <1>7, <1>8 DEF Next, LoopStep, RestartStep

\* With one restarter, there is room for the loop that it starts.
LEMMA StartStep ==
  ASSUME \A r, s \in Restarters : r = s
  PROVE  Inv /\ ControlOK /\ StartInv /\ [Next]_vars => StartInv'
<1> SUFFICES ASSUME Inv, ControlOK, StartInv, [Next]_vars PROVE StartInv'
  OBVIOUS
<1> USE DEF loops, fetches, context, outside
<1>0. pc \in [Loops -> Positions] /\ restart \in [Restarters -> {"no", "asked", "cancel", "wait", "start"}]
      /\ fetch \in [Loops -> {"none", "running", "ok", "err"}]
  BY DEF Inv, LoopsOK, ControlOK
<1>1. ASSUME UNCHANGED restart,
             \A g \in Loops : (pc'[g] = "due" => pc[g] = "due") /\ (g \in Free => g \in Free')
      PROVE  StartInv'
  BY <1>1 DEF StartInv
<1>2. ASSUME NEW g \in Loops, LoopStep(g) \/ Stop(g) \/ Tick(g) \/ ZeroTick(g) PROVE StartInv'
  <2>1. ~Idle(g) \/ fetch[g] = "running"
    BY <1>2 DEF LoopStep, Stop, Tick, ZeroTick, Launch, ReadTime, Load, LoadFails, Emit, EmitDone,
       Finish, Swap, Fatal, FetchEnds, Idle
  <2>2. restart' = restart /\ \A h \in Loops \ {g} : pc'[h] = pc[h] /\ fetch'[h] = fetch[h]
    BY <1>0, <1>2 DEF LoopStep, Stop, Tick, ZeroTick, Launch, ReadTime, Load, LoadFails, Emit, EmitDone,
       Finish, Swap, Fatal, FetchEnds
  <2>3. pc'[g] = "due" => pc[g] = "due"
    BY <1>0, <1>2 DEF LoopStep, Stop, Tick, ZeroTick, Launch, ReadTime, Load, LoadFails, Emit, EmitDone,
       Finish, Swap, Fatal, FetchEnds
  <2> QED BY <1>1, <2>1, <2>2, <2>3 DEF Free, Idle
<1>3. ASSUME NEW r \in Restarters, StartAgain(r) PROVE StartInv'
  <2>1. restart' = [restart EXCEPT ![r] = "no"]
    BY <1>3 DEF StartAgain
  <2>2. PICK g \in Loops : pc' = [pc EXCEPT ![g] = "starting"]
    BY <1>3 DEF StartAgain, Free
  <2>3. \A s \in Restarters : restart'[s] # "start"
    BY <1>0, <2>1
  <2> QED BY <1>0, <2>2, <2>3 DEF StartInv
<1>4. ASSUME NEW r \in Restarters, AskRestart(r) \/ FindThread(r) \/ CancelToRestart(r) PROVE StartInv'
  <2>1. \A s \in Restarters : restart'[s] = "start" => restart[s] = "start"
    BY <1>0, <1>4 DEF AskRestart, FindThread, CancelToRestart
  <2>2. UNCHANGED <<pc, fetch>>
    BY <1>4 DEF AskRestart, FindThread, CancelToRestart
  <2> QED BY <2>1, <2>2 DEF StartInv, Free, Idle
<1>5. ASSUME NEW r \in Restarters, Waited(r) PROVE StartInv'
  BY <1>5 DEF Waited, AllDone, StartInv, Free, Idle
<1>6. CASE Kill \/ KillStep \/ TickLost \/ UNCHANGED vars
  BY <1>1, <1>6 DEF Kill, KillStep, ClosePipe, CancelToKill, TickLost, vars, Idle, Free
<1> QED BY <1>2, <1>3, <1>4, <1>5, <1>6 DEF Next, RestartStep

\* The pipe is closed of a thread that the hub has killed.
LEMMA PipeStep == PipeInv /\ [Next]_vars => PipeInv'
<1> SUFFICES ASSUME PipeInv, [Next]_vars PROVE PipeInv'
  OBVIOUS
<1> USE DEF loops, fetches, context, outside, PipeInv
<1>1. ASSUME NEW g \in Loops, LoopStep(g) \/ Stop(g) \/ Tick(g) \/ ZeroTick(g) PROVE PipeInv'
  BY <1>1 DEF LoopStep, Stop, Tick, ZeroTick, Launch, ReadTime, Load, LoadFails, Emit, EmitDone,
     Finish, Swap, Fatal, FetchEnds
<1>2. ASSUME NEW r \in Restarters, AskRestart(r) \/ RestartStep(r) PROVE PipeInv'
  BY <1>2 DEF AskRestart, RestartStep, FindThread, CancelToRestart, Waited, StartAgain
<1>3. CASE Kill \/ KillStep \/ TickLost \/ UNCHANGED vars
  BY <1>3 DEF Kill, KillStep, ClosePipe, CancelToKill, TickLost, vars
<1> QED BY <1>1, <1>2, <1>3 DEF Next

(* The part of RestartReturns that is about every state: whatever a lone   *)
(* request to restart waits for is cancelled or on its way to its end, and *)
(* what it starts then has its pipe, and a goroutine to run in.            *)
THEOREM RestartsAreHeeded ==
  ASSUME \A r, s \in Restarters : r = s, NEW other \in Loops, other # TheLoop
  PROVE  Spec => []RestartsGoOn
<1>1. Init => ControlOK /\ ContextInv /\ BufferInv /\ StartInv /\ PipeInv
  <2> SUFFICES ASSUME Init PROVE ControlOK /\ ContextInv /\ BufferInv /\ StartInv /\ PipeInv
    OBVIOUS
  <2>1. ControlOK
    BY DEF Init, ControlOK
  <2>2. ContextInv
    BY DEF Init, ContextInv
  <2>3. BufferInv /\ StartInv /\ PipeInv
    BY DEF Init, BufferInv, Running, StartInv, PipeInv
  <2> QED BY <2>1, <2>2, <2>3
<1>2. Inv /\ ControlOK /\ ContextInv /\ BufferInv /\ StartInv /\ PipeInv => RestartsGoOn
  <2> SUFFICES ASSUME Inv, ControlOK, ContextInv, BufferInv, StartInv, PipeInv, NEW r \in Restarters
               PROVE  /\ restart[r] = "wait" => \A g \in Loops : HasWayOut(g)
                      /\ restart[r] = "start" /\ kill = "no" => Free # {} /\ ~pipeClosed
    BY DEF RestartsGoOn
  <2>1. ASSUME restart[r] = "wait", NEW g \in Loops PROVE HasWayOut(g)
    <3>1. \A n \in Nat : n <= ctx => n \in cancelled
      BY <2>1 DEF ContextInv, ControlOK
    <3>2. seen[g] \in cancelled /\ fetchCtx[g] \in cancelled
      BY <3>1 DEF ContextInv, ControlOK
    <3>3. pc[g] = "swap" => quit[g] \/ fetch[g] # "none"
      BY DEF BufferInv, Running
    <3> QED BY <3>2, <3>3 DEF HasWayOut
  <2>2. ASSUME restart[r] = "start", kill = "no" PROVE Free # {} /\ ~pipeClosed
    BY <2>2 DEF StartInv, PipeInv
  <2> QED BY <2>1, <2>2
<1>3. ControlOK /\ ContextInv /\ [Next]_vars => ContextInv'
  BY ContextStep
<1>4. Inv /\ ControlOK /\ StartInv /\ [Next]_vars => StartInv'
  BY StartStep
<1> QED
  BY <1>1, <1>2, <1>3, <1>4, ControlStep, BufferStep, PipeStep, Invariance, PTL DEF Spec
-----------------------------------------------------------------------------
(* Restarts that overlap.  Unless two loops were started, what a loop or a *)
(* query waits on is the context of the thread, or was cancelled.          *)
InContext(c) == c \in cancelled \cup {ctx}
CurrentInv ==
  ~overtaken =>
    \A g \in Loops :
      /\ pc[g] = "select" => InContext(seen[g])
      /\ fetch[g] = "running" => InContext(fetchCtx[g])

\* A context is replaced only while nothing of the thread runs.
LEMMA CurrentStep ==
  Inv /\ ControlOK /\ OneInv /\ CurrentInv /\ [Next]_vars => CurrentInv'
<1> SUFFICES ASSUME Inv, ControlOK, OneInv, CurrentInv, [Next]_vars PROVE CurrentInv'
  OBVIOUS
<1> USE DEF loops, fetches, context, outside
<1>0. /\ pc \in [Loops -> Positions] /\ seen \in [Loops -> Nat] /\ fetchCtx \in [Loops -> Nat]
      /\ fetch \in [Loops -> {"none", "running", "ok", "err"}]
  BY DEF Inv, LoopsOK, ControlOK
<1>1. ASSUME ctx' = ctx, cancelled \subseteq cancelled', overtaken' = overtaken,
             \A g \in Loops :
               /\ pc'[g] = "select" =>
                    seen'[g] = ctx \/ (pc[g] = "select" /\ seen'[g] = seen[g])
               /\ fetch'[g] = "running" =>
                    fetchCtx'[g] = ctx \/ (fetch[g] = "running" /\ fetchCtx'[g] = fetchCtx[g])
      PROVE  CurrentInv'
  BY <1>1 DEF CurrentInv, InContext
<1>2. ASSUME \A g \in Loops : pc'[g] # "select" /\ fetch'[g] # "running" PROVE CurrentInv'
  BY <1>2 DEF CurrentInv
<1>3. ASSUME NEW g \in Loops, Load(g) PROVE CurrentInv'
  BY <1>0, <1>1, <1>3 DEF Load
<1>4. ASSUME NEW g \in Loops, Swap(g) PROVE CurrentInv'
  <2>1. /\ pc' = [pc EXCEPT ![g] = "select"] /\ seen' = [seen EXCEPT ![g] = ctx]
        /\ UNCHANGED <<ctx, cancelled, overtaken>>
    BY <1>4 DEF Swap
  <2>2. \/ fetch' = [fetch EXCEPT ![g] = "none"] /\ fetchCtx' = [fetchCtx EXCEPT ![g] = @]
        \/ fetch' = [fetch EXCEPT ![g] = "running"] /\ fetchCtx' = [fetchCtx EXCEPT ![g] = ctx]
    BY <1>4 DEF Swap
  <2> QED BY <1>0, <1>1, <2>1, <2>2
<1>5. ASSUME NEW g \in Loops, ReadTime(g) \/ EmitDone(g) PROVE CurrentInv'
  BY <1>0, <1>1, <1>5 DEF ReadTime, EmitDone
<1>6. ASSUME NEW g \in Loops, FetchEnds(g) PROVE CurrentInv'
  <2>1. PICK result \in {"ok", "err"} : fetch' = [fetch EXCEPT ![g] = result]
    BY <1>6 DEF FetchEnds
  <2>2. UNCHANGED <<ctx, cancelled, overtaken, pc, seen, fetchCtx>>
    BY <1>6 DEF FetchEnds
  <2> QED BY <1>0, <1>1, <2>1, <2>2
<1>7. ASSUME NEW g \in Loops,
             \/ Launch(g) \/ LoadFails(g) \/ Stop(g) \/ Tick(g) \/ ZeroTick(g)
             \/ Emit(g) \/ Finish(g) \/ Fatal(g)
      PROVE  CurrentInv'
  BY <1>0, <1>1, <1>7 DEF Launch, LoadFails, Stop, Tick, ZeroTick, Emit, Finish, Fatal
<1>8. ASSUME NEW r \in Restarters, AskRestart(r) \/ FindThread(r) \/ CancelToRestart(r) PROVE CurrentInv'
  BY <1>1, <1>8 DEF AskRestart, FindThread, CancelToRestart
<1>9. ASSUME NEW r \in Restarters, Waited(r) PROVE CurrentInv'
  <2>1. overtaken' = Awaited /\ AllDone /\ UNCHANGED <<pc, fetch>>
    BY <1>9 DEF Waited
  <2>2. CASE Awaited
    BY <2>1, <2>2 DEF CurrentInv
  <2>3. CASE ~Awaited
    <3>1. \A g \in Loops : pc[g] # "select" /\ fetch[g] # "running"
      BY <2>1, <2>3 DEF Awaited, AllDone, Free, Idle
    <3> QED BY <1>2, <2>1, <3>1
  <2> QED BY <2>2, <2>3
<1>10. ASSUME NEW r \in Restarters, StartAgain(r) PROVE CurrentInv'
  <2>1. restart[r] = "start" /\ overtaken' = overtaken
    BY <1>10 DEF StartAgain
  <2>2. PICK g \in Loops : /\ pc' = [pc EXCEPT ![g] = "starting"]
                           /\ fetch' = [fetch EXCEPT ![g] = "none"]
    BY <1>10 DEF StartAgain, Free
  <2>3. CASE overtaken
    BY <2>1, <2>3 DEF CurrentInv
  <2>4. CASE ~overtaken
    <3>1. \A h \in Loops : Idle(h) /\ fetch[h] # "running"
      BY <2>1, <2>4 DEF OneInv, AllFree, Free
    <3>2. \A h \in Loops : pc'[h] # "select" /\ fetch'[h] # "running"
      BY <1>0, <2>2, <3>1 DEF Idle
    <3> QED BY <1>2, <3>2
  <2> QED BY <2>3, <2>4
<1>11. CASE Kill \/ KillStep \/ TickLost \/ UNCHANGED vars
  BY <1>1, <1>11 DEF Kill, KillStep, ClosePipe, CancelToKill, TickLost, vars
<1> QED
  BY <1>3, <1>4, <1>5, <1>6, <1>7, <1>8, <1>9, <1>10, <1>11 DEF Next, LoopStep, RestartStep

(* For any number of requests to restart that overlap: whoever waits for   *)
(* the thread under the context it has cancelled waits for nothing that    *)
(* does not end, and whoever starts it next has all goroutines and an open *)
(* pipe, unless a restart has overtaken the launch or another restart.     *)
THEOREM OverlapsAreHeeded == Spec => []OverlapsGoOn
<1>1. Init => OneInv /\ ControlOK /\ BufferInv /\ PipeInv /\ CurrentInv
  <2> SUFFICES ASSUME Init PROVE OneInv /\ ControlOK /\ BufferInv /\ PipeInv /\ CurrentInv
    OBVIOUS
  <2>1. OneInv
    BY DEF Init, OneInv, Idle
  <2>2. ControlOK
    BY DEF Init, ControlOK
  <2>3. BufferInv /\ PipeInv /\ CurrentInv
    BY DEF Init, BufferInv, Running, PipeInv, CurrentInv
  <2> QED BY <2>1, <2>2, <2>3
<1>2. OneInv /\ BufferInv /\ PipeInv /\ CurrentInv => OverlapsGoOn
  <2> SUFFICES ASSUME OneInv, BufferInv, PipeInv, CurrentInv, ~overtaken, NEW r \in Restarters
               PROVE  /\ restart[r] = "wait" /\ ctx \in cancelled => \A g \in Loops : HasWayOut(g)
                      /\ restart[r] = "start" => Free = Loops /\ (kill = "no" => ~pipeClosed)
    BY DEF OverlapsGoOn
  <2>1. ASSUME ctx \in cancelled, NEW g \in Loops PROVE HasWayOut(g)
    BY <2>1 DEF CurrentInv, InContext, BufferInv, Running, HasWayOut
  <2>2. ASSUME restart[r] = "start" PROVE Free = Loops
    BY <2>2 DEF OneInv, AllFree, Free
  <2>3. kill = "no" => ~pipeClosed
    BY DEF PipeInv
  <2> QED BY <2>1, <2>2, <2>3
<1> QED
  BY <1>1, <1>2, OneStep, ControlStep, BufferStep, PipeStep, CurrentStep, Invariance, PTL DEF Spec
=============================================================================
