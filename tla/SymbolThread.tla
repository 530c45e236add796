---------------------------- MODULE SymbolThread ----------------------------
(***************************************************************************)
(* The symbol thread of one stream.  Its main loop sends the bars of       *)
(* buffer A whose time has come and, at the end of the buffer, swaps it    *)
(* with buffer B, which a goroutine of its own has filled meanwhile with   *)
(* the next window of the series.  The thread is restarted from the HTTP   *)
(* handlers, and killed by the hub, which also has its pipe closed.        *)
(* Times are in seconds.  A buffer is the set of the times of its bars.    *)
(***************************************************************************)
EXTENDS Naturals, FiniteSets

CONSTANTS
  Loops,       \* goroutines that may run the main loop
  Restarters,  \* concurrent HTTP requests that restart the simulation
  Bars,        \* times of the stored bars of the symbol
  Window,      \* seconds in a window: bufferSize, 512 in the code
  Opens,       \* times a restart may put the clock to
  Close,       \* closing time of the thread's date
  End,         \* bound on the simulated time
  MaxRestarts, \* bound on restarts
  Kills,       \* whether the hub may kill the thread
  DbFails      \* whether a query may fail of itself

ASSUME ThreadAssumption ==
  /\ Loops # {}
  /\ Bars \subseteq Nat \ {0} /\ Opens \subseteq Nat \ {0}
  /\ Close \in Nat /\ End \in Nat /\ Window \in Nat \ {0} /\ MaxRestarts \in Nat
  /\ Kills \in BOOLEAN /\ DbFails \in BOOLEAN

VARIABLES
  simTime,    \* the clock's simulation time
  ctx,        \* t.ctx: contexts are numbered as they are made
  cancelled,  \* the contexts that were cancelled
  pc,         \* where each main loop is, see Positions
  seen,       \* the context its select, or its query, waits on
  tick,       \* the tick it has taken
  rem,        \* what it has still to send of buffer A
  next,       \* t1: start of the window buffer B is filled with
  quit,       \* whether it stops at the end of buffer A
  fetch,      \* the goroutine that fills buffer B
  fetchCtx,   \* the context of that goroutine's query
  from, sent, \* history: when the loop started, what it has sent since
  restart,    \* where each request to restart is
  kill,       \* the hub's order to stop
  overtaken,  \* history: the latest restart to wait for the thread found it
              \* about to be started by somebody else
  pipeClosed, \* the clock has closed the thread's pipe
  crashed     \* log.Fatalf ended the process

loops == <<pc, seen, tick, rem, next, quit, from, sent>>
fetches == <<fetch, fetchCtx>>
context == <<ctx, cancelled>>
outside == <<restart, overtaken, kill, pipeClosed>>
vars == <<simTime, context, loops, fetches, outside, crashed>>

Positions ==
  {"off", "due", "starting", "loading", "select", "emit", "swap", "finished", "empty"}
Idle(g) == pc[g] \in {"off", "finished", "empty"}
Up == ~crashed

\* Mutant: the end of the window is taken in.
InWindowInclusive(t) == {b \in Bars : t <= b /\ b <= t + Window}

\* GetSeries: the rows of [t1, t2).
InWindow(t) == {b \in Bars : t <= b /\ b < t + Window}
TheLoop == CHOOSE g \in Loops : TRUE

Free == {g \in Loops : Idle(g) /\ fetch[g] # "running"}

\* The thread's wait group: all that was started in it has ended.  The loop
\* that is due has not joined it.
AllDone == \A g \in Loops : pc[g] = "due" \/ g \in Free
-----------------------------------------------------------------------------
(* The main loop: Start.                                                   *)

\* The goroutine of the hub's "go thread.Start()" runs at last.
Launch(g) ==
  /\ Up /\ pc[g] = "due"
  /\ pc' = [pc EXCEPT ![g] = "starting"]
  /\ UNCHANGED <<simTime, context, seen, tick, rem, next, quit, from, sent,
                 fetches, outside, crashed>>

\* getSimulationTime
ReadTime(g) ==
  /\ Up /\ pc[g] = "starting"
  /\ pc' = [pc EXCEPT ![g] = "loading"]
  /\ next' = [next EXCEPT ![g] = simTime] /\ from' = [from EXCEPT ![g] = simTime]
  /\ seen' = [seen EXCEPT ![g] = ctx]
  /\ UNCHANGED <<simTime, context, tick, rem, quit, sent, fetches, outside, crashed>>

MayFail(c) == DbFails \/ c \in cancelled

\* The first window is loaded: an empty one ends the thread.
Load(g) ==
  /\ Up /\ pc[g] = "loading"
  /\ IF InWindow(next[g]) = {}
     THEN /\ pc' = [pc EXCEPT ![g] = "empty"]
          /\ UNCHANGED <<rem, next, seen, fetches>>
     ELSE /\ pc' = [pc EXCEPT ![g] = "select"] /\ seen' = [seen EXCEPT ![g] = ctx]
          /\ rem' = [rem EXCEPT ![g] = InWindow(next[g])]
          /\ next' = [next EXCEPT ![g] = @ + Window]
          /\ fetch' = [fetch EXCEPT ![g] = "running"]
          /\ fetchCtx' = [fetchCtx EXCEPT ![g] = ctx]
  /\ UNCHANGED <<simTime, context, tick, quit, from, sent, outside, crashed>>

LoadFails(g) ==
  /\ Up /\ pc[g] = "loading" /\ MayFail(seen[g])
  /\ pc' = [pc EXCEPT ![g] = "off"]
  /\ UNCHANGED <<simTime, context, seen, tick, rem, next, quit, from, sent,
                 fetches, outside, crashed>>

\* ctx.Done: the select re-reads t.ctx each time it is entered.
Stop(g) ==
  /\ Up /\ pc[g] = "select" /\ seen[g] \in cancelled
  /\ pc' = [pc EXCEPT ![g] = "off"]
  /\ UNCHANGED <<simTime, context, seen, tick, rem, next, quit, from, sent,
                 fetches, outside, crashed>>

\* The clock's tick finds the loop waiting.
Tick(g) ==
  /\ Up /\ pc[g] = "select" /\ ~pipeClosed
  /\ tick' = [tick EXCEPT ![g] = simTime]
  /\ simTime' = IF simTime < End THEN simTime + 1 ELSE simTime
  /\ pc' = [pc EXCEPT ![g] = "emit"]
  /\ UNCHANGED <<context, seen, rem, next, quit, from, sent, fetches, outside, crashed>>

\* A closed pipe delivers zeros.
ZeroTick(g) ==
  /\ Up /\ pc[g] = "select" /\ pipeClosed
  /\ tick' = [tick EXCEPT ![g] = 0]
  /\ pc' = [pc EXCEPT ![g] = "emit"]
  /\ UNCHANGED <<simTime, context, seen, rem, next, quit, from, sent, fetches,
                 outside, crashed>>

\* Mutant: the bars of the next seconds are sent as well.
EmitEarly(g) ==
  /\ Up /\ pc[g] = "emit"
  /\ \E b \in rem[g] :
       /\ b <= tick[g] + 1 /\ \A c \in rem[g] : b <= c
       /\ rem' = [rem EXCEPT ![g] = @ \ {b}] /\ sent' = [sent EXCEPT ![g] = @ \cup {b}]
  /\ UNCHANGED <<simTime, context, pc, seen, tick, next, quit, from, fetches,
                 outside, crashed>>

\* The next bar of buffer A, if its time has come.
Emit(g) ==
  /\ Up /\ pc[g] = "emit"
  /\ \E b \in rem[g] :
       /\ b <= tick[g] /\ \A c \in rem[g] : b <= c
       /\ rem' = [rem EXCEPT ![g] = @ \ {b}] /\ sent' = [sent EXCEPT ![g] = @ \cup {b}]
  /\ UNCHANGED <<simTime, context, pc, seen, tick, next, quit, from, fetches,
                 outside, crashed>>

\* Mutant: the end of the buffer is not noticed.
EmitDoneWaits(g) ==
  /\ Up /\ pc[g] = "emit" /\ \A b \in rem[g] : b > tick[g]
  /\ pc' = [pc EXCEPT ![g] = "select"] /\ seen' = [seen EXCEPT ![g] = ctx]
  /\ UNCHANGED <<simTime, context, tick, rem, next, quit, from, sent, fetches,
                 outside, crashed>>

EmitDone(g) ==
  /\ Up /\ pc[g] = "emit" /\ \A b \in rem[g] : b > tick[g]
  /\ IF rem[g] = {} THEN pc' = [pc EXCEPT ![g] = "swap"] /\ UNCHANGED seen
     ELSE pc' = [pc EXCEPT ![g] = "select"] /\ seen' = [seen EXCEPT ![g] = ctx]
  /\ UNCHANGED <<simTime, context, tick, rem, next, quit, from, sent, fetches,
                 outside, crashed>>

\* The last buffer is sent.
Finish(g) ==
  /\ Up /\ pc[g] = "swap" /\ quit[g]
  /\ pc' = [pc EXCEPT ![g] = "finished"]
  /\ UNCHANGED <<simTime, context, seen, tick, rem, next, quit, from, sent,
                 fetches, outside, crashed>>

\* Mutant: quits at the window that holds the market's close.
SwapQuitsEarly(g) ==
  /\ Up /\ pc[g] = "swap" /\ ~quit[g] /\ fetch[g] = "ok"
  /\ rem' = [rem EXCEPT ![g] = InWindow(next[g])]
  /\ next' = [next EXCEPT ![g] = @ + Window]
  /\ LET last == next'[g] + Window > Close IN
       /\ quit' = [quit EXCEPT ![g] = last]
       /\ fetch' = [fetch EXCEPT ![g] = IF last THEN "none" ELSE "running"]
       /\ fetchCtx' = [fetchCtx EXCEPT ![g] = IF last THEN @ ELSE ctx]
  /\ pc' = [pc EXCEPT ![g] = "select"] /\ seen' = [seen EXCEPT ![g] = ctx]
  /\ UNCHANGED <<simTime, context, tick, from, sent, outside, crashed>>

\* Buffer B is there: swap, and have the other one filled.
Swap(g) ==
  /\ Up /\ pc[g] = "swap" /\ ~quit[g] /\ fetch[g] = "ok"
  /\ rem' = [rem EXCEPT ![g] = InWindow(next[g])]
  /\ next' = [next EXCEPT ![g] = @ + Window]
  /\ LET last == next'[g] > Close IN
       /\ quit' = [quit EXCEPT ![g] = last]
       /\ fetch' = [fetch EXCEPT ![g] = IF last THEN "none" ELSE "running"]
       /\ fetchCtx' = [fetchCtx EXCEPT ![g] = IF last THEN @ ELSE ctx]
  /\ pc' = [pc EXCEPT ![g] = "select"] /\ seen' = [seen EXCEPT ![g] = ctx]
  /\ UNCHANGED <<simTime, context, tick, from, sent, outside, crashed>>

\* log.Fatalf
Fatal(g) ==
  /\ Up /\ pc[g] = "swap" /\ ~quit[g] /\ fetch[g] = "err"
  /\ crashed' = TRUE
  /\ UNCHANGED <<simTime, context, loops, fetches, outside>>

\* asyncPopulateBuffer: its query ends.
FetchEnds(g) ==
  /\ Up /\ fetch[g] = "running"
  /\ \E result \in {"ok"} \cup (IF MayFail(fetchCtx[g]) THEN {"err"} ELSE {}) :
       fetch' = [fetch EXCEPT ![g] = result]
  /\ UNCHANGED <<simTime, context, loops, fetchCtx, outside, crashed>>
-----------------------------------------------------------------------------
(* Restart and Shutdown.                                                   *)

\* RestartSimulation: the clock first.
AskRestart(r) ==
  /\ Up /\ restart[r] = "no" /\ ctx < MaxRestarts
  /\ simTime' \in Opens
  /\ restart' = [restart EXCEPT ![r] = "asked"]
  /\ UNCHANGED <<context, loops, fetches, overtaken, kill, pipeClosed, crashed>>

\* restartSymbolThreads finds the thread in the hub's table, or does not.
FindThread(r) ==
  /\ Up /\ restart[r] = "asked"
  /\ restart' = [restart EXCEPT ![r] = IF kill = "no" THEN "cancel" ELSE "no"]
  /\ UNCHANGED <<simTime, context, loops, fetches, overtaken, kill, pipeClosed, crashed>>

\* Mutant: Restart waits for the loop without cancelling it.
CancelNothing(r) ==
  /\ Up /\ restart[r] = "cancel"
  /\ restart' = [restart EXCEPT ![r] = "wait"]
  /\ UNCHANGED <<simTime, context, loops, fetches, overtaken, kill, pipeClosed, crashed>>

CancelToRestart(r) ==
  /\ Up /\ restart[r] = "cancel"
  /\ cancelled' = cancelled \cup {ctx}
  /\ restart' = [restart EXCEPT ![r] = "wait"]
  /\ UNCHANGED <<simTime, ctx, loops, fetches, overtaken, kill, pipeClosed, crashed>>

\* The launch, or another restart, is about to start the loop.
Awaited == (\E g \in Loops : pc[g] = "due") \/ (\E s \in Restarters : restart[s] = "start")

\* Mutant: Restart does not wait for the goroutines it has cancelled.
WaitedForNothing(r) ==
  /\ Up /\ restart[r] = "wait"
  /\ restart' = [restart EXCEPT ![r] = "start"]
  /\ overtaken' = Awaited
  /\ UNCHANGED <<simTime, context, loops, fetches, kill, pipeClosed, crashed>>

\* wg.Wait returns.
Waited(r) ==
  /\ Up /\ restart[r] = "wait" /\ AllDone
  /\ restart' = [restart EXCEPT ![r] = "start"]
  /\ overtaken' = Awaited
  /\ UNCHANGED <<simTime, context, loops, fetches, kill, pipeClosed, crashed>>

\* A new context, the pipe is emptied, and Start: emptying a closed pipe never
\* ends.
StartAgain(r) ==
  /\ Up /\ restart[r] = "start" /\ ~pipeClosed
  /\ Free # {}
  /\ LET g == CHOOSE h \in Free : TRUE IN
       /\ pc' = [pc EXCEPT ![g] = "starting"]
       /\ rem' = [rem EXCEPT ![g] = {}] /\ quit' = [quit EXCEPT ![g] = FALSE]
       /\ fetch' = [fetch EXCEPT ![g] = "none"]
       /\ sent' = [sent EXCEPT ![g] = {}]
  /\ ctx' = ctx + 1
  /\ restart' = [restart EXCEPT ![r] = "no"]
  /\ UNCHANGED <<simTime, cancelled, seen, tick, next, from, fetchCtx,
                 overtaken, kill, pipeClosed, crashed>>

\* killSymbolThread: UnregisterPipe and AsyncShutdown.
Kill ==
  /\ Up /\ Kills /\ kill = "no"
  /\ kill' = "ordered"
  /\ UNCHANGED <<simTime, context, loops, fetches, restart, overtaken, pipeClosed, crashed>>

ClosePipe ==
  /\ Up /\ kill # "no" /\ ~pipeClosed
  /\ pipeClosed' = TRUE
  /\ UNCHANGED <<simTime, context, loops, fetches, restart, overtaken, kill, crashed>>

CancelToKill ==
  /\ Up /\ kill = "ordered"
  /\ kill' = "done"
  /\ cancelled' = cancelled \cup {ctx}
  /\ UNCHANGED <<simTime, ctx, loops, fetches, restart, overtaken, pipeClosed, crashed>>

\* A tick that finds no loop waiting is lost.
TickLost ==
  /\ Up /\ simTime < End /\ simTime' = simTime + 1
  /\ UNCHANGED <<context, loops, fetches, outside, crashed>>
-----------------------------------------------------------------------------
\* The hub starts the thread at any simulated time.
Init ==
  /\ simTime \in 1..End
  /\ ctx = 0 /\ cancelled = {}
  /\ pc = [g \in Loops |-> IF g = TheLoop THEN "due" ELSE "off"]
  /\ seen = [g \in Loops |-> 0] /\ tick = [g \in Loops |-> 0]
  /\ rem = [g \in Loops |-> {}] /\ next = [g \in Loops |-> 0]
  /\ quit = [g \in Loops |-> FALSE]
  /\ fetch = [g \in Loops |-> "none"] /\ fetchCtx = [g \in Loops |-> 0]
  /\ from = [g \in Loops |-> 0] /\ sent = [g \in Loops |-> {}]
  /\ restart = [r \in Restarters |-> "no"]
  /\ overtaken = FALSE /\ kill = "no" /\ pipeClosed = FALSE /\ crashed = FALSE

LoopStep(g) ==
  \/ Launch(g) \/ ReadTime(g) \/ Load(g) \/ LoadFails(g) \/ Emit(g) \/ EmitDone(g)
  \/ Finish(g) \/ Swap(g) \/ Fatal(g) \/ FetchEnds(g)

RestartStep(r) == FindThread(r) \/ CancelToRestart(r) \/ Waited(r) \/ StartAgain(r)
KillStep == ClosePipe \/ CancelToKill

Next ==
  \/ \E g \in Loops : LoopStep(g) \/ Stop(g) \/ Tick(g) \/ ZeroTick(g)
  \/ \E r \in Restarters : AskRestart(r) \/ RestartStep(r)
  \/ Kill \/ KillStep \/ TickLost

Spec == Init /\ [][Next]_vars

\* Goroutines run and queries end; a select whose context is done takes that
\* branch in the end, as Go's picks at random.  The simulation may be paused.
ServiceSpec ==
  /\ Spec
  /\ \A g \in Loops : WF_vars(LoopStep(g)) /\ SF_vars(Stop(g))
  /\ \A r \in Restarters : WF_vars(RestartStep(r))
  /\ WF_vars(KillStep)
-----------------------------------------------------------------------------
LoopsOK ==
  /\ simTime \in Nat /\ pc \in [Loops -> Positions] /\ tick \in [Loops -> Nat]
  /\ rem \in [Loops -> SUBSET Bars] /\ next \in [Loops -> Nat]
  /\ from \in [Loops -> Nat] /\ sent \in [Loops -> SUBSET Bars]

\* No buffer is asked to hold more bars than it has room for.
BuffersFit == \A g \in Loops : Cardinality(rem[g]) <= Window

\* Every variable has its type, and the buffers fit.
TypeOK ==
  /\ LoopsOK /\ BuffersFit
  /\ ctx \in Nat /\ cancelled \subseteq Nat /\ seen \in [Loops -> Nat]
  /\ quit \in [Loops -> BOOLEAN]
  /\ fetch \in [Loops -> {"none", "running", "ok", "err"}] /\ fetchCtx \in [Loops -> Nat]
  /\ restart \in [Restarters -> {"no", "asked", "cancel", "wait", "start"}]
  /\ kill \in {"no", "ordered", "done"}
  /\ overtaken \in BOOLEAN /\ pipeClosed \in BOOLEAN /\ crashed \in BOOLEAN

\* The thread has one main loop at a time, whatever restarts and kills it, and
\* however the requests overlap: unless a restart overtakes the launch or
\* another restart and so finds nothing to wait for.  Then two start the loop,
\* and it takes another restart to end that.
OneLoop == ~overtaken => \A g, h \in Loops : ~Idle(g) /\ ~Idle(h) => g = h

\* A loop that ends because it has sent everything has sent every bar from its
\* start to the close of the thread's date.
Owed(g, close) == {b \in Bars : from[g] <= b /\ b <= close}
FinishedIsComplete == \A g \in Loops : pc[g] = "finished" => Owed(g, Close) \subseteq sent[g]

\* The double buffering sends what BarStream says: in order, without a gap or
\* a repetition across buffers, and never early, in every goroutine that ever
\* runs the loop.  (This is \A g \in Loops : Promise(g)!Spec.)
Promise(g) == INSTANCE BarStream WITH from <- from[g], tick <- tick[g], sent <- sent[g]
PromisesBegin == \A g \in Loops : Promise(g)!Init
PromisesKept == \A g \in Loops : [Promise(g)!Next]_(Promise(g)!vars)
ImplementsBarStream == PromisesBegin /\ [][PromisesKept]_vars

\* A request to restart returns, unless the hub kills the thread meanwhile.
RestartReturns ==
  \A r \in Restarters : restart[r] = "asked" ~> (restart[r] = "no" \/ kill # "no" \/ ~Up)

\* What a restart waits for comes to its end, and then it can start the loop:
\* no goroutine of the thread is left in a select that was not cancelled or
\* before a buffer that nobody fills, and the new loop finds an open pipe.
HasWayOut(g) ==
  /\ pc[g] = "select" => seen[g] \in cancelled
  /\ pc[g] = "swap" => quit[g] \/ fetch[g] # "none"
  /\ fetch[g] = "running" => fetchCtx[g] \in cancelled
RestartsGoOn ==
  \A r \in Restarters :
    /\ restart[r] = "wait" => \A g \in Loops : HasWayOut(g)
    /\ restart[r] = "start" /\ kill = "no" => Free # {} /\ ~pipeClosed

\* The same for any number of requests that overlap, as long as the latest to
\* wait for the thread has overtaken nobody: those that wait for it have a way
\* out unless another one has started it meanwhile, under a new context that
\* they have not cancelled; and the one that starts it is by itself.
OverlapsGoOn ==
  ~overtaken =>
    /\ \A r \in Restarters :
         restart[r] = "wait" /\ ctx \in cancelled => \A g \in Loops : HasWayOut(g)
    /\ \A r \in Restarters :
         restart[r] = "start" => Free = Loops /\ (kill = "no" => ~pipeClosed)

\* If the clock ticks, and is not paused for ever, the loop gets to the end of
\* its series unless it is stopped.
Ticks == \A g \in Loops : SF_vars(Tick(g))
LoopsEnd == Ticks => \A g \in Loops : pc[g] = "select" ~> (Idle(g) \/ kill # "no" \/ ~Up)
-----------------------------------------------------------------------------
(* What a test of the code says, and the code does not do.                 *)

\* "the simulation eventually restarts": a query cancelled by the restart
\* makes the thread end the process.
RestartSurvives == Up
=============================================================================
