---------------------------- MODULE Simulation ----------------------------
(***************************************************************************)
(* A restart of the simulation, through all the parts that take part in    *)
(* it.  An HTTP handler (restart, or new settings) has the clock reset and *)
(* waits for an answer without a name on it; then it restarts every thread *)
(* it finds in the hub's table, one goroutine each: cancel the context,    *)
(* wait for the thread's goroutines, make a new context, start.  Meanwhile *)
(* the hub launches and kills threads, and takes what their loops send to  *)
(* broadcastInbox, a send that does not heed the context.                  *)
(* Clock, SymbolThread and Hub model each part by itself; here a thread is *)
(* known by the epoch, the number of resets, in which its loop has read    *)
(* the time it streams from.                                               *)
(***************************************************************************)
EXTENDS Naturals, FiniteSets

CONSTANTS
  Handlers,   \* HTTP handlers
  Threads,    \* SymbolThread objects: each launch makes a new one
  Slots,      \* goroutines that may run the main loop of one thread
  InboxCap,   \* capacity of broadcastInbox (1024 in the code)
  MaxEpoch    \* bound on the restarts

ASSUME SimulationAssumption ==
  IsFiniteSet(Handlers) /\ InboxCap \in Nat \ {0} /\ MaxEpoch \in Nat

VARIABLES
  epoch,      \* resets of the clock so far
  triggers,   \* messages in triggerRestartChan
  dones,      \* messages in restartDone
  handler,    \* where each handler is
  owed,       \* the threads in the table when the handler began its walk
  restart,    \* where the handler's goroutine for each thread is
  thread,     \* unused, in the table, killed, or killed and cancelled
  closed,     \* threads whose pipe the clock has closed
  due,        \* threads whose "go thread.Start()" has not run yet
  done,       \* whether the thread's current context is cancelled
  loop,       \* the main loops of each thread
  inbox,      \* number of messages in broadcastInbox
  latest,     \* history: epoch of the last message each thread has sent
  overtaken,  \* history: threads that a restart found about to be started
  alone,      \* history: the handler whose request has met no other so far
  crashed     \* a loop has called log.Fatalf

clock == <<epoch, triggers, dones>>
walks == <<handler, owed, restart>>
objects == <<thread, closed, due, done, loop>>
traffic == <<inbox, latest>>
history == <<overtaken, alone>>
vars == <<clock, walks, objects, traffic, history, crashed>>

Off == [at |-> "off", epoch |-> 0]
Starting == [at |-> "starting", epoch |-> 0]
Running(l) == l.at \in {"select", "stopping", "send", "end"}
Up == ~crashed
Table == {t \in Threads : thread[t] = "table"}
Quiet == \A h \in Handlers : handler[h] = "idle"
Waiting == {h \in Handlers : handler[h] = "waiting"}
AllOff(t) == \A s \in Slots : loop[t][s] = Off

SetLoop(t, s, l) == loop' = [loop EXCEPT ![t][s] = l]

\* The select of the loop, which reads the context again each time.
Select(t, e) == [at |-> IF done[t] THEN "stopping" ELSE "select", epoch |-> e]

\* cancelCtx: the loops that wait in their select have a way out.
Cancel(t) ==
  /\ done' = [done EXCEPT ![t] = TRUE]
  /\ loop' = [loop EXCEPT ![t] = [s \in Slots |->
       IF @[s].at = "select" THEN [@[s] EXCEPT !.at = "stopping"] ELSE @[s]]]

\* Start in a goroutine of the thread's wait group; which slot it gets does not
\* matter.
Free(t) == {s \in Slots : loop[t][s] = Off}
Begin(t) == Free(t) # {} /\ SetLoop(t, CHOOSE s \in Free(t) : TRUE, Starting)
-----------------------------------------------------------------------------
(* Handlers and clock.                                                     *)
Trigger(h) ==
  /\ Up /\ handler[h] = "idle" /\ epoch + triggers < MaxEpoch
  /\ handler' = [handler EXCEPT ![h] = "waiting"]
  /\ triggers' = triggers + 1
  /\ alone' = IF Quiet THEN {h} ELSE {}
  /\ UNCHANGED <<epoch, dones, owed, restart, objects, traffic, overtaken, crashed>>

\* The clock takes a trigger, resets the time and answers.
Reset ==
  /\ Up /\ triggers > 0
  /\ triggers' = triggers - 1
  /\ epoch' = epoch + 1
  /\ dones' = dones + 1
  /\ UNCHANGED <<walks, objects, traffic, history, crashed>>

\* Mutant: the handler does not wait for the answer of the clock.
AwaitNothing(h) ==
  /\ Up /\ handler[h] = "waiting"
  /\ handler' = [handler EXCEPT ![h] = "walking"]
  /\ owed' = [owed EXCEPT ![h] = Table]
  /\ UNCHANGED <<clock, restart, objects, traffic, history, crashed>>

AwaitDone(h) ==
  /\ Up /\ handler[h] = "waiting" /\ dones > 0
  /\ dones' = dones - 1
  /\ handler' = [handler EXCEPT ![h] = "walking"]
  /\ owed' = [owed EXCEPT ![h] = Table]
  /\ UNCHANGED <<epoch, triggers, restart, objects, traffic, history, crashed>>

\* restartSymbolThreads finds a thread in the table.
Visit(h, t) ==
  /\ Up /\ handler[h] = "walking" /\ t \in Table /\ restart[h][t] = "out"
  /\ restart' = [restart EXCEPT ![h][t] = "cancel"]
  /\ UNCHANGED <<clock, handler, owed, objects, traffic, history, crashed>>

\* An entry that was there all the time is found; one that was added or
\* removed meanwhile may be.
EndWalk(h) ==
  /\ Up /\ handler[h] = "walking" /\ \A t \in owed[h] \cap Table : restart[h][t] # "out"
  /\ handler' = [handler EXCEPT ![h] = "joining"]
  /\ owed' = [owed EXCEPT ![h] = {}]
  /\ UNCHANGED <<clock, restart, objects, traffic, history, crashed>>

Return(h) ==
  /\ Up /\ handler[h] = "joining" /\ \A t \in Threads : restart[h][t] \in {"out", "over"}
  /\ handler' = [handler EXCEPT ![h] = "idle"]
  /\ restart' = [restart EXCEPT ![h] = [t \in Threads |-> "out"]]
  /\ alone' = alone \ {h}
  /\ UNCHANGED <<clock, owed, objects, traffic, overtaken, crashed>>
-----------------------------------------------------------------------------
(* SymbolThread.Restart, in a goroutine of its own for each thread.        *)

\* Mutant: the context is not cancelled.
CancelNothing(h, t) ==
  /\ Up /\ restart[h][t] = "cancel"
  /\ restart' = [restart EXCEPT ![h][t] = "wait"]
  /\ UNCHANGED <<clock, handler, owed, objects, traffic, history, crashed>>

CancelToRestart(h, t) ==
  /\ Up /\ restart[h][t] = "cancel"
  /\ Cancel(t)
  /\ restart' = [restart EXCEPT ![h][t] = "wait"]
  /\ UNCHANGED <<clock, handler, owed, thread, closed, due, traffic, history, crashed>>

\* Another request is about to start the thread.
Starts(t) == \E h \in Handlers : restart[h][t] = "start"

\* Mutant: a loop that is blocked in its send is not waited for.
WaitedUnlessSending(h, t) ==
  /\ Up /\ restart[h][t] = "wait" /\ \A s \in Slots : loop[t][s].at \in {"off", "send"}
  /\ restart' = [restart EXCEPT ![h][t] = "start"]
  /\ overtaken' = IF t \in due \/ Starts(t) THEN overtaken \cup {t} ELSE overtaken
  /\ UNCHANGED <<clock, handler, owed, objects, traffic, alone, crashed>>

\* wg.Wait returns.
Waited(h, t) ==
  /\ Up /\ restart[h][t] = "wait" /\ AllOff(t)
  /\ restart' = [restart EXCEPT ![h][t] = "start"]
  /\ overtaken' = IF t \in due \/ Starts(t) THEN overtaken \cup {t} ELSE overtaken
  /\ UNCHANGED <<clock, handler, owed, objects, traffic, alone, crashed>>

\* A new context, the pipe is emptied, and Start.  Emptying a closed pipe
\* never ends.
StartAgain(h, t) ==
  /\ Up /\ restart[h][t] = "start" /\ t \notin closed
  /\ Begin(t)
  /\ done' = [done EXCEPT ![t] = FALSE]
  /\ restart' = [restart EXCEPT ![h][t] = "over"]
  /\ UNCHANGED <<clock, handler, owed, thread, closed, due, traffic, history, crashed>>
-----------------------------------------------------------------------------
(* The main loop of a thread.                                              *)
GoStart(t) ==
  /\ Up /\ t \in due /\ Begin(t)
  /\ due' = due \ {t}
  /\ UNCHANGED <<clock, walks, thread, closed, done, traffic, history, crashed>>

\* getSimulationTime, and the first window: if there is no bar in it or it
\* cannot be fetched, the loop ends, and the thread stays in the table.
ReadTime(t, s) ==
  /\ Up /\ loop[t][s] = Starting
  /\ \E l \in {Select(t, epoch), Off} : SetLoop(t, s, l)
  /\ UNCHANGED <<clock, walks, thread, closed, due, done, traffic, history, crashed>>

\* A tick: a bar whose time has come, or buffer A is empty.  A select may
\* take the tick even if the context is cancelled.
Tick(t, s) ==
  /\ Up /\ loop[t][s].at \in {"select", "stopping"}
  /\ \E a \in {"send", "end"} : SetLoop(t, s, [loop[t][s] EXCEPT !.at = a])
  /\ UNCHANGED <<clock, walks, thread, closed, due, done, traffic, history, crashed>>

\* A bar is sent; it may be the last one of buffer A.
Send(t, s) ==
  /\ Up /\ loop[t][s].at = "send" /\ inbox < InboxCap
  /\ inbox' = inbox + 1 /\ latest' = [latest EXCEPT ![t] = loop[t][s].epoch]
  /\ \E l \in {Select(t, loop[t][s].epoch), [loop[t][s] EXCEPT !.at = "end"]} : SetLoop(t, s, l)
  /\ UNCHANGED <<clock, walks, thread, closed, due, done, history, crashed>>

\* ctx.Done
Stop(t, s) ==
  /\ Up /\ loop[t][s].at = "stopping"
  /\ SetLoop(t, s, Off)
  /\ UNCHANGED <<clock, walks, thread, closed, due, done, traffic, history, crashed>>

\* At the end of buffer A, with no window left: the thread stays in the table.
SeriesOver(t, s) ==
  /\ Up /\ loop[t][s].at = "end"
  /\ SetLoop(t, s, Off)
  /\ UNCHANGED <<clock, walks, thread, closed, due, done, traffic, history, crashed>>

\* Otherwise the loop waits for buffer B, outside its select: the query has
\* filled it, and the buffers are swapped, ...
Swap(t, s) ==
  /\ Up /\ loop[t][s].at = "end"
  /\ SetLoop(t, s, Select(t, loop[t][s].epoch))
  /\ UNCHANGED <<clock, walks, thread, closed, due, done, traffic, history, crashed>>

\* ... or it has failed, by itself or because a restart or a kill has
\* cancelled it, and log.Fatalf ends the process.
FetchFails(t, s) ==
  /\ Up /\ loop[t][s].at = "end"
  /\ crashed' = TRUE
  /\ UNCHANGED <<clock, walks, objects, traffic, history>>
-----------------------------------------------------------------------------
(* The hub, and what it asks of others.                                    *)
TakeBroadcast ==
  /\ Up /\ inbox > 0 /\ inbox' = inbox - 1
  /\ UNCHANGED <<clock, walks, objects, latest, history, crashed>>

Launch(t) ==
  /\ Up /\ thread[t] = "unused"
  /\ thread' = [thread EXCEPT ![t] = "table"]
  /\ due' = due \cup {t}
  /\ UNCHANGED <<clock, walks, closed, done, loop, traffic, history, crashed>>

Kill(t) ==
  /\ Up /\ t \in Table
  /\ thread' = [thread EXCEPT ![t] = "killed"]
  /\ UNCHANGED <<clock, walks, closed, due, done, loop, traffic, history, crashed>>

\* The goroutine of AsyncShutdown.
AsyncCancel(t) ==
  /\ Up /\ thread[t] = "killed"
  /\ Cancel(t)
  /\ thread' = [thread EXCEPT ![t] = "stopped"]
  /\ UNCHANGED <<clock, walks, closed, due, traffic, history, crashed>>

\* The clock unsubscribes the pipe.
ClosePipe(t) ==
  /\ Up /\ thread[t] \in {"killed", "stopped"} /\ t \notin closed
  /\ closed' = closed \cup {t}
  /\ UNCHANGED <<clock, walks, thread, due, done, loop, traffic, history, crashed>>
-----------------------------------------------------------------------------
Init ==
  /\ epoch = 0 /\ triggers = 0 /\ dones = 0
  /\ handler = [h \in Handlers |-> "idle"] /\ owed = [h \in Handlers |-> {}]
  /\ restart = [h \in Handlers |-> [t \in Threads |-> "out"]]
  /\ thread = [t \in Threads |-> "unused"] /\ closed = {} /\ due = {}
  /\ done = [t \in Threads |-> FALSE]
  /\ loop = [t \in Threads |-> [s \in Slots |-> Off]]
  /\ inbox = 0 /\ latest = [t \in Threads |-> 0] /\ overtaken = {} /\ alone = {}
  /\ crashed = FALSE

RestartStep(h, t) == CancelToRestart(h, t) \/ Waited(h, t) \/ StartAgain(h, t)
HandlerStep(h) ==
  \/ AwaitDone(h) \/ EndWalk(h) \/ Return(h)
  \/ \E t \in Threads : Visit(h, t) \/ RestartStep(h, t)
EndOfBuffer(t, s) == SeriesOver(t, s) \/ Swap(t, s) \/ FetchFails(t, s)
LoopStep(t, s) == ReadTime(t, s) \/ Tick(t, s) \/ Send(t, s) \/ Stop(t, s) \/ EndOfBuffer(t, s)

Next ==
  \/ \E h \in Handlers : Trigger(h) \/ HandlerStep(h)
  \/ Reset \/ TakeBroadcast
  \/ \E t \in Threads : Launch(t) \/ Kill(t) \/ AsyncCancel(t) \/ ClosePipe(t) \/ GoStart(t)
  \/ \E t \in Threads, s \in Slots : LoopStep(t, s)

Spec == Init /\ [][Next]_vars

\* Goroutines run, and queries end; a select whose context is done takes that
\* branch in the end, as Go's picks at random; channels serve in order; and
\* the hub takes its messages, which it does as long as its clients read
\* theirs.  The clock may stay paused.
FairSpec ==
  /\ Spec
  /\ WF_vars(Reset) /\ WF_vars(TakeBroadcast)
  /\ \A h \in Handlers : WF_vars(HandlerStep(h))
  /\ \A t \in Threads : WF_vars(GoStart(t))
  /\ \A t \in Threads, s \in Slots :
       /\ WF_vars(ReadTime(t, s) \/ EndOfBuffer(t, s))
       /\ SF_vars(Send(t, s)) /\ SF_vars(Stop(t, s))
-----------------------------------------------------------------------------
LoopStates ==
  {Off, Starting} \cup [at : {"select", "stopping", "send", "end"}, epoch : Nat]

\* Every variable has its type, and broadcastInbox its room.
TypeOK ==
  /\ epoch \in Nat /\ triggers \in Nat /\ dones \in Nat
  /\ handler \in [Handlers -> {"idle", "waiting", "walking", "joining"}]
  /\ owed \in [Handlers -> SUBSET Threads]
  /\ restart \in [Handlers -> [Threads -> {"out", "cancel", "wait", "start", "over"}]]
  /\ thread \in [Threads -> {"unused", "table", "killed", "stopped"}]
  /\ closed \subseteq Threads /\ due \subseteq Threads
  /\ overtaken \subseteq Threads /\ alone \subseteq Handlers /\ crashed \in BOOLEAN
  /\ done \in [Threads -> BOOLEAN] /\ loop \in [Threads -> [Slots -> LoopStates]]
  /\ inbox \in 0..InboxCap /\ latest \in [Threads -> Nat]

\* When no restart is under way, every thread of the hub's table that streams
\* at all streams from the time of the last reset: restarts that overlap, the
\* answers they take from each other, and the threads that are launched while
\* they walk the table leave none behind.
ThreadsFollowTheClock ==
  Quiet => \A t \in Table, s \in Slots : Running(loop[t][s]) => loop[t][s].epoch = epoch

\* Handlers and clock keep the contract between them, with the settings left
\* out: a handler that walks the table is idle in it.
InContract == [h \in Handlers |-> IF handler[h] = "waiting" THEN "waiting" ELSE "idle"]
Restarts == INSTANCE RestartService WITH
  Configs <- {0}, config <- 0, applied <- 0,
  handler <- InContract, requests <- triggers, answers <- dones
ImplementsRestartService == Restarts!Spec

\* A thread that has sent bars of the new simulation sends none of the one
\* before, unless a restart overtook its launch or another restart, which
\* leaves it two loops.
StreamsGoForward ==
  [][\A t \in Threads \ overtaken : latest[t] <= latest'[t]]_latest

\* A request to restart that meets no other one has what it waits for: one
\* answer, its own, is to come or there; no loop it waits for is in a select that
\* only a tick can end, and the clock may be paused; and the pipe it empties
\* before it starts a thread of the table again is not closed.
LoneRestartsGoOn ==
  \A h \in alone :
    /\ handler[h] = "waiting" => triggers + dones = 1
    /\ \A t \in Threads :
         /\ restart[h][t] = "wait" => \A s \in Slots : loop[t][s].at # "select"
         /\ restart[h][t] = "start" /\ t \in Table => t \notin closed

\* A request to restart that meets no other one returns, if the hub takes its
\* messages and none of the threads is killed under it: neither a full
\* broadcastInbox nor launches keep it, nor a loop that is at the end of its
\* buffer, unless that loop ends the process.
RestartReturns ==
  alone # {} ~>
    \/ alone = {} \/ ~Up
    \/ \E h \in alone, t \in Threads : restart[h][t] # "out" /\ thread[t] \in {"killed", "stopped"}
=============================================================================
