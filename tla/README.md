# Formal models of the market replay engine

TLA+ models of the Go program in `src/components/replayengine`: a server that
replays a past trading day. It fetches the bars of a symbol on a date, stores
them in a database, and streams them over websockets at the pace of a simulated
clock that HTTP requests set, pause, resume and restart.

The project models the parts of it that run concurrently, checks them with TLC
on small instances, and proves their safety properties, and what their liveness
needs of every state, with TLAPS for every value of the constants.

    tlc -config HubSafety.cfg MCHub.tla      # one run; section 3 has all
    tlapm HubProofs.tla                      # the proofs of one component

Contents: 1 inventory, 2 modules, 3 runs, 4 bounds, 5 fairness, 6 proofs,
7 departures of the code, 8 what is not modelled, 9 plan.

## 1. Inventory

All paths are under `src/components/replayengine/`.

| component | source | state | operations | goroutines |
|---|---|---|---|---|
| hydration manager | `hydrationmanager/` | `statusMap` under a mutex, `dataQueryChan` | `IsReady`, `HydrateSymbol`, `HydrationTask`, `Start`, `Shutdown` | its loop, one per task, one per HTTP handler |
| massive API client | `hydrationmanager/massiveclient/` | none | `FetchTradingSession`, `Shutdown` | the caller's |
| database access | `db/database.go` | tables `bars_1sec`, `hydration_state_1sec` | `InsertFullSession`, `GetSeries`, `GetHydrationStatus`, `EstablishDBConnection` | the caller's |
| migrations | `db/migrations.go` | table of applied migrations, hash chain | `ApplyMigrations` | main, at start-up, of every instance on the database |
| clock | `clock/clock.go` | start and current simulated time, paused flag, tick pipes | `Start`, `Pause`, `Resume`, `Restart`, `RegisterPipe`, `UnregisterPipe` | its loop; callers wait on `restartDone` |
| hub | `hub/hub.go` | clients, subscriptions (two indexes), threads | `Start` and its handlers, `RestartSimulation`, `SetSimulationSettings`, `Shutdown` | its loop; HTTP handlers call into it |
| settings | `hub/config.go` | date and timescale under a mutex | `GetConfig`, `SetConfig` | any |
| websocket client | `wsclient/wsclient.go` | outbox, context, wait group | `Start`, `Shutdown`, listener, sender | three per client |
| symbol thread | `symbolthread/symbolthread.go` | two buffers, context, wait group | `Start`, `Restart`, `Shutdown`, `AsyncShutdown` | its loop, one per buffer fill |
| control plane, server | `controlplane.go`, `replayengine.go` | none of their own | HTTP handlers, `handleConnection`, start-up, shutdown | one per request |

How they interact:

- an HTTP handler hydrates a series itself (`HydrateSymbol`) or drives the clock
  through channels, and waits for the clock's answer on the channel
  `restartDone`, which all handlers share;
- a client posts register, subscribe, unsubscribe and unregister requests to the
  hub's inbox; the hub puts messages into the client's outbox, and blocks when
  it is full;
- the hub asks the hydration manager whether a series is ready (a call that may
  post a query) and gets notices from it later, through two bounded channels
  that point in opposite directions;
- the hub starts and kills symbol threads and registers their tick pipes with
  the clock; the clock sends ticks without waiting; the threads send bars to
  the hub and wait;
- a restart runs in the HTTP handler's goroutine: it restarts the clock, then
  walks the hub's table of threads and restarts each of them;
- a shutdown runs in the main goroutine: it walks the hub's tables of clients and
  of threads and waits for each, then for the manager and the hub, while all of
  them still run;
- processes that start on one database interact through its migrations table.

What is hard, and what makes each component correct:

- *hydration manager*: the mutex protects single reads and writes of the status,
  not the read-then-act sequences around it; the process may die between any two
  steps. Correct: what is announced is stored; a series that refuses others
  because it is `Hydrating` is taken care of; handlers do not collide; no
  deadlock between hub and manager; what was asked for is settled.
- *clock*: answers carry no name and requests of several handlers overlap.
  Correct: one answer for each restart; the clock ends on the last settings;
  time moves only when it may; a request that nothing follows takes effect; the
  pipe of a live thread gets its ticks.
- *hub*: the order of subscribe, unsubscribe, disconnect, change of date and
  notice is free. Correct: no thread without a subscriber, no subscriber that is
  gone, no subscription forgotten, a hub that goes on serving.
- *symbol thread*: two buffers, a goroutine that fills one of them, and restart
  and kill from other goroutines. Correct: every bar, once, in order, never
  early; one loop at a time; a restart returns; the loop comes to its end.
- *restart of the whole simulation*: requests overlap, take each other's answers,
  and walk a table that the hub changes; threads send over a channel that may be
  full. Correct: when the restarts are over every thread streams from the new
  time; nothing of the old simulation follows the new; a restart returns.
- *migrations*: several instances, of several releases, start together, crash and
  lose their connections. Correct: each file is run once, recorded with it, in
  order; whoever comes up has all its files in the database; a start ends.
- *shutdown*: the order in which things are stopped decides who may wait for whom
  for ever. Correct: it ends, and cuts nothing off that was to be stored.

`PROJECT.json` lists under `hazards` each of these dangers at its line, with the
properties that are about it.

## 2. Modules

| module | models | size of a step |
|---|---|---|
| `HydrationService` | what the manager and the hub owe each other (abstract) | one question, one notice, one series stored |
| `HydrationManager` | manager, its tasks, HTTP hydration, the hub's side of it, crash and reboot | one read or write under the mutex, one channel operation, one transaction |
| `RestartService` | what the clock and those who restart it owe each other (abstract) | one request, one reset, one answer |
| `Clock` | the clock's loop, handlers that drive it, pipes | one channel operation; the parts of a restart |
| `Hub` | the hub's loop, clients, the manager as its contract, and what the hub sees of threads and settings | one stream, or one send to one outbox |
| `BarStream` | what a symbol thread promises (abstract) | one bar |
| `SymbolThread` | main loop, buffer filling, restart, kill, its pipe | one bar, one wait, one query |
| `Simulation` | a restart through handlers, clock, hub and threads, with `broadcastInbox` between | one channel operation, one step of a thread's restart, one turn of its loop |
| `HashChain` | what a release is, and the hash of a file | |
| `Ledger` | what migrations promise (abstract) | one migration of one release |
| `Migrations` | the start of instances of the program on one database | one statement, one connection |
| `Shutdown` | signal to `os.Exit`: main, hub, clients, threads and manager | one channel operation, one wait |
| `MC...` | symmetry and small data for TLC | |
| `...Proofs` | theorems and proofs | |

`HydrationManager`, `Clock`, `Hub` and `SymbolThread` are each about one
component, in detail, and hold the other side of its channels as what it sees of
it: `SymbolThread` sees the clock as `simTime` and its ticks, for example. Between
hub and manager this is a module of its own, `HydrationService`: an instance of it
is the manager in `Hub`, and `HydrationManager` is shown to implement it. The clock
and the handlers that restart it have a contract too, `RestartService`: both `Clock`
and the coarser clock of `Simulation` are shown to implement it. `Simulation` and
`Shutdown` compose the components for the two operations that run through all of
them, and keep of each what these depend on.

### HydrationService

The series in the database (`stored`), those the hub asked for and was sent no
notice about since (`asked`), and the notices on their way. The hub's side is
`Confirm` (ready), `Query` (not ready, hence a query) and `Take` (a notice); the
manager's is `Store`, `Notify` and `Restart`, the end of a process. What the hub
may rely on: that a series is stored before it is called ready or announced, and
that what it asked for is forgotten only with a notice, or with the process. What it may
not: that a stored series is called ready, that a notice comes, that it comes once,
or that a success does not follow a failure. The channel is abstracted to the set
of the different notices in it.

### HydrationManager

`status` is `statusMap` (`"None"` is a missing entry), `db` the tables, `queries`
the channel `dataQueryChan`, `notices` the hub's hydration inbox. A goroutine is
a record of where it is and of its series. `asked` is history, the `asked` of the
contract.

- The hub: `HubAsk` reads the status under the lock, `HubEnqueue` sends the query
  after the unlock, `HubReceive` takes a notice.
- The loop of the manager: `LoopReceive` takes a query and tests the status,
  `LoopLaunch` starts the task and `LoopMark` sets `Hydrating` *afterwards*, as
  `hydrationmanager.go:76-81` does.
- A task: `TaskFetched` or `TaskFetchFailed`, `TaskNotifyFailure`, `TaskInsert`,
  `TaskPublish`, `TaskNotifySuccess`. After a failed fetch the code does not
  return but goes on to store what it has, hence `"insertEmpty"`.
- An HTTP handler: `CallerBegin` tests and sets the status under one lock,
  then `CallerFetched`, `CallerInsert`, `CallerFinish` (which has the deferred
  reset to `Failed`).
- `Insert` is a transaction. Its primary keys refuse a second copy, and its
  caller may see an error although it was committed.
- `FetchExit` is the `log.Fatal` of the client, `Crash` a kill from outside,
  `Boot` the next process, which rebuilds the map from the table, or finds it
  empty when that query fails.

### RestartService

`requests` are the restarts asked for and not made yet, `answers` the answers on their
way, `handler` who is about to ask (`"sending"`: its settings are stored) and who
waits. A handler may `Store` settings, `Ask` for a restart and `Take` an answer, any;
`Serve` is the clock, which makes one restart. It may run on settings that were
replaced only while another request is there or about to be made. What follows for
the handlers is stated there too: an answer for each (`OneAnswerEach`), the stored
settings in the end (`Settled`), and that the last one to take its answer has its
own restart behind it (`LastIsServed`).

### Clock

The goroutine's position `pc` is `"subs"` (it drains `subChan` and `unsubChan`),
`"control"` (it drains triggers and pauses), `"reset"` and `"done"` (inside
`pullSettingsAndReset` and the answer), `"ticking"`. The select statements take
what is ready in any order. Two calls have two steps because others can come in
between: `SetSettings` stores the settings and `SendTrigger` sends the trigger;
`TakeTrigger` pulls the settings and `Reset` applies them. `served` and
`command` are history: whose trigger was followed by a pull, and what the last
request was (`"race"` for a resume while a restart was in flight).
`elapsed` is `simulationTime - startTime`; which day `startTime` is on is part
of `applied`. As an implementation of `RestartService` (`Restarts`), a request
is there until the time is back at the start, also after its trigger was taken, and
an answer from then on, also while the clock waits for room to send it.

### Hub

`subscribed` and `mine` are the two indexes of the subscriptions, `thread` is
`streamToThread` with the date the thread was made for, `op`, `who`, `todo`,
`asOf` and `to` are the locals of the handler that runs. The loops of the
handlers go stream by stream and recipient by recipient, and `Send` waits for
room in the outbox. A request of several streams is a set: their order in the
message does not matter to the properties. `Manager` is the instance of
`HydrationService`; `Hydration` is any step the contract allows the manager,
`SetDate` a change of the settings, `killed` the streams of which bars may still be
under way. `failed` is history: the streams
whose subscribers were sent a failure message since they last subscribed.

### SymbolThread and BarStream

A buffer is the set of the times of its bars: buffer A is `rem` (what is left to
send), buffer B the result of the goroutine `fetch`, which reads the window that
starts at `next` (`t1`). `InWindow` is the query of `GetSeries`, closed on the
left and open on the right. `Launch` to `EmitDone` are the loop of `Start`;
`Swap`, `Finish` and `Fatal` its end of a buffer; `FetchEnds` is
`asyncPopulateBuffer`. A restart goes through `AskRestart` (the clock),
`FindThread`, `CancelToRestart`, `Waited` (the wait group) and `StartAgain`; a
kill through `Kill`, `ClosePipe` (by the clock) and `CancelToKill`. Contexts are
numbered, `seen` and `fetchCtx` are the ones a select or a query was given.

`BarStream` is the abstract specification of a thread: from the time it starts at, the
stored bars one by one in order, none before its time. `Promise(g)` is its instance
with the `from`, `tick` and `sent` of the goroutine `g`, and `ImplementsBarStream`
says that every goroutine that ever runs the loop keeps it.

### Simulation

A thread is known by the *epoch*, the number of resets of the clock, in which its
loop has read the time it streams from (`getSimulationTime`); the bars
themselves are the subject of `SymbolThread`.

- A handler: `Trigger`, `AwaitDone` (the answer has no name), `Visit` for each
  entry of `streamToThread` that its walk finds, `EndWalk`, `Return` (the wait
  group). As Go's map iteration does, a walk finds what is in the table all the
  time (`owed`), and may or may not find what is added or removed meanwhile.
- A restart of one thread, in a goroutine of its own: `CancelToRestart`, `Waited`,
  `StartAgain`, which blocks for ever on a pipe the clock has closed.
- The loop of a thread: `GoStart` (the goroutine of the launch), `ReadTime`, `Tick`,
  `Send`, `Stop`, and the end of buffer A, which is outside the select and heeds no
  context: `SeriesOver`, or the wait for buffer B, which ends with the `Swap` or,
  when its query fails or was cancelled, with `log.Fatalf` (`FetchFails`, then
  `crashed`). `Send` waits for room and heeds no context either. The several `Slots`
  are the loops of one thread that overlapping starts leave it; a start takes one
  that is `Free`.
- The hub: `Launch`, `Kill`, `TakeBroadcast`; `AsyncCancel` and `ClosePipe` are what
  a kill leaves to others.

The settings are left out: `Restarts` is `RestartService` with one setting, in which
a handler that walks the table is idle (`InContract`). `overtaken` and `alone` are
history: threads of which a restart found another
start coming, and the handler whose request has met no other.

### HashChain, Ledger and Migrations

A release is the sequence of its embedded files, sorted by name. The hash of a
file covers the hash of the one before it; SHA-256 is taken to be injective, so
a hash is the sequence of the contents so far. `prev_hash` is written and never
read, and therefore not in `Row`.

`Migrations` follows `EstablishDBConnection` and `ApplyMigrations` statement by
statement: `Connect` (keeps its connection), `Setup`, `BeginTx`, `CheckApplied` or
`CheckNotApplied`, `Exec`, `AppendRow`, `Commit`. `rows` is what is committed,
`mine` and `ran` what the open transaction has recorded and run. Any statement may
fail (`StatementFails`), the connection may break (`LoseConnection`: the server
rolls back and the process notices with its next statement), the answer to the
commit may be lost (`CommitInDoubt`), the process may die (`Crash`). A query for
a row whose error nobody looks at reads as "not applied" (`CheckNotApplied` with a
broken transaction). The database is PostgreSQL at READ COMMITTED with a unique
name: an insert waits for the transaction that has inserted the same name, and
fails if that commits. `log` is history: the files each transaction has run.

`Ledger` is what it promises: at any time some release compares all its files with
the table and runs and records what is missing, at once. `ImplementsLedger` says
that any number of instances together do nothing else.

### Shutdown

`main` is where `Server.Shutdown` is: it walks `clientsSet` (`StopClient`,
`ClientStopped`), waits for the manager (`StopManager`, `ManagerStopped`), walks
`streamToThread` (`StopThread`, `ThreadStopped`), waits for the hub's loop
(`StopHub`, `HubStopped`) and ends the process (`Exit`). `due` and `walked` are the
walk of a map, as in `Simulation`. Meanwhile clients connect, ask and leave
(`RegisterClient`, `Ask`, `PostSub`, `ListenerEnds`, `SenderEnds`, `LeaverPosts`: three
goroutines in the client's wait group), the hub takes requests, notices and bars
one at a time (`Take...`, `Send`, `PostQuery`), threads stream, and tasks fetch,
insert and announce. The goroutine of a launch begins when it does
(`StartThread`, `ThreadBegins`): until then the wait group of the thread is empty,
and the walk goes past it. The process may also end by a fatal error: the map race
(`MapRace`), the nil thread of `LastUnsubIsHandled` (`KillNothing`), a cancelled fetch
or buffer (`FetchDies`, `ThreadDies`), bars that cannot be stored (`InsertDies`).
`exit` says which.

Left out of this module, to keep it checkable: requests to unsubscribe, the time
stream, HTTP hydration, restarts.

## 3. Runs

| run | module | checks | result | states |
|---|---|---|---|---|
| `HydrationRuns` | `MCHydrationManager` | `AnnouncedIsStored`, `HydratingIsBacked`, `AskedIsBacked`, `CallersSingleFlight`, `HubNeverStuck`, `ImplementsService`, `TasksFinish`, `AskedIsSettled` | pass | 90 k |
| `ClockRuns` | `MCClock` | `OneAnswerEach`, `SettledOnConfig`, `LivePipesAreServed`, `LastRequestStands`, `ImplementsRestartService`, `LastAnswerIsOwn`, `RestartReturns`, `RequestsTakeEffect` | pass | 97 k |
| `HubSafety` | `MCHub` | `ThreadsHaveSubscribers`, `GoneHasNoStream`, `SubscriptionsArePending`, `ThreadsHaveSessions` | pass | 3.1 M |
| `HubLive` | `MCHub` | `ConnectingClientsAreServed`, `NoticesAreServed` | pass | 423 k |
| `ThreadSafety` | `MCSymbolThread` | `TypeOK`, `OneLoop`, `FinishedIsComplete`, `ImplementsBarStream` | pass | 2.4 M |
| `ThreadLive` | `MCSymbolThread` | `RestartReturns`, `LoopsEnd` | pass | 146 k |
| `SimulationRuns` | `MCSimulation` | `ThreadsFollowTheClock`, `StreamsGoForward`, `RestartReturns` | pass | 419 k |
| `MigrationsRuns` | `MCMigrations` | `AppliedOnce`, `UpIsMigrated`, `RanInOrder`, `ImplementsLedger`, `StartsEnd` | pass | 97 k |
| `ShutdownRuns` | `MCShutdown` | `CleanExitStores`, `ThreadsWereSilenced`, `ShutdownEnds`, `CancelledAreUnregistered` | pass | 156 k |
| `NoSendOnClosedPipe` | `MCClock` | the send to a pipe is harmless | violated | |
| `LastUnsubIsHandled` | `MCHub` | the last unsubscribe kills the thread | violated | |
| `RestartSurvives` | `MCSymbolThread` | "the simulation eventually restarts" | violated | |

The three violated ones are what a comment or a test of the repository says and
the code does not do; `PROJECT.json` has each under `findings`.

- `NoSendOnClosedPipe`: a pipe whose registration and unregistration are both
  pending may be closed first and subscribed after.
- `LastUnsubIsHandled`: the last subscriber leaves before there is a thread.
- `RestartSurvives`: the cancellation of a restart reaches a loop that waits for
  buffer B as an error of the query, which is fatal.

The passing runs of `Clock`, `Hub`, `SymbolThread`, `Simulation` and `Shutdown` contain
these failures: the process stops (`panicked`, `crashed`, `exit`) and the properties are
stated for what happens up to then.

`TypeOK` is proved for each component (section 6), and checked in one of the runs
only, for the room in the buffers of a thread.

Each property of a passing run has a mutant in `PROJECT.json`: an operator of
the same module, marked `Mutant` and defined just before the one it changes,
with which TLC finds the property violated.

### Deadlock

No passing run relies on TLC's check for deadlock. In `HydrationManager`, where a
process may always crash or be booted, it could find nothing; the other systems may
stop: the process dies and there is no next one in the model; clients of the hub
stop asking; bounded restarts are used up; a thread has ended; a shutdown is over. In `Hub` and
`Shutdown` the code does come to a stop without dying: it blocks on the outbox of
a client that is not there any more (section 7). Where being stuck matters it is
a property of its own: `HubNeverStuck` and the liveness properties.

## 4. Bounds

- *Channels hold one element* in all runs, instead of 1024. A full channel, which
  is what blocks somebody, is then a common case. What depends on the capacity
  is proved for all of them (`TypeOK`, `OneAnswerEach`, `HubNeverStuck`).
- *HydrationManager*: one series, two handlers, two tasks at a time. The series do
  not interact but through the channels, and one series comes up in them as
  often as it is asked for. One more task of the series is the third writer of
  its status after another task and a handler; all races of the code are
  between two. The fetcher may exit, as the only implementation does, or report
  an error, as the interface allows.
- *Clock*: two handlers and two settings, so that requests overlap in every order;
  one pipe that comes and goes. `MaxElapsed` = 2 saturates the time: the clock
  goes on ticking, only the count stands still.
- *Hub*: two clients, one symbol, one stream type, one stream per request
  (`MaxRequest`). `SymbolOf` relates the streams of one symbol; with one type a notice is
  about one stream, while the proofs are about any number. `HubSafety` has two
  dates, clients that leave, two different notices on their way (`NoticeCap`), so
  that they may overtake each other, and nobody on the time stream (`TimeAskers`);
  `HubLive` one date, one notice, and two clients of which one may take the time
  stream and leave at any moment, so that the hub also comes to wait for one that
  is gone, while the other stays.
- *SymbolThread*: a day from 1 to 5 with windows of two seconds, which gives three
  windows, hence a swap that fills again and one that quits, a missing second, a
  bar at the close, starts at every second (also at one after the last bar: the
  empty first window), and last windows that are empty. One restart, one kill.
  `Loops` are goroutines: two are enough for one loop and its successor, or
  for two loops at once after a restart that overtook the launch. The theorem
  about `OneLoop` is for any number of restarters; two of them with the kill and the
  failing queries are too many states for a run. The contents of the bars do not matter, and a minute stream is the same with sparser bars. The
  liveness run leaves out the kill, of which its properties say nothing, and
  failures of the database other than those by cancellation.
- *Simulation*: two handlers that request two restarts in all (`MaxEpoch`), hence
  overlapping ones, answers that are swapped, and a walk that overlaps a reset;
  one thread with two `Slots`, which is launched, killed and restarted at any
  moment. Threads meet only at `broadcastInbox`, which one thread with
  two loops fills as well as two. The theorems are about any number of all.
- *Migrations*: two instances and five releases, each start choosing any of them:
  the first, two that add different files to it, their union (which puts a file
  before one that may have been run), and one that edits a file. `PoolSize` is 2,
  the least with which a start ends, so that one lost connection too many shows.
  There is no bound on starts, crashes and failures.
- *Shutdown*: two clients, of which one may ask and leave, one stream whose thread is
  started twice at most and sends two bars: enough to fill the outbox of a client
  that is stopped, and the inbox the hub does not get to. `MaxAsks` = 1.

## 5. Fairness

Fairness is stated only for goroutines that run of themselves; what comes from
outside (HTTP requests, clients' requests, disconnections, kills of the process,
reboots, changes of the settings) never has any.

- Weak fairness for a goroutine that can go on: the Go scheduler is preemptive
  and runs it in the end. Queries of the database end, as their contexts have
  deadlines or are cancelled.
- Strong fairness where a goroutine competes for a channel or a select has
  several ready cases: Go's select picks at random among the ready ones, and a
  channel serves those who wait for it in the order they came. So a case that is
  ready again and again is taken in the end. That is `SF(TakeRequest)` and the
  notices in `Hub`, `SF(TakeTrigger)` in `Clock`, `SF(TaskStep)` and
  `SF(HubReceive)` in `HydrationManager`, `SF(Stop)` in `SymbolThread`, `SF(Send)` and
  `SF(Stop)` in `Simulation`. PostgreSQL serves those who wait for a row in order:
  `SF(AppendRow)` in `Migrations`.
- `ServiceSpec` of `SymbolThread` has no fairness for ticks, for the simulation
  may be paused. `LoopsEnd` assumes them (`Ticks`) inside the property.
- `ConnectingClientsAreServed` assumes that the senders of connected clients
  empty their outboxes (`WF(Drain)`): the run is about clients that read. Of the
  manager nothing is assumed. `NoticesAreServed` begins where a notice is on its way;
  what the manager does about a question is `AskedIsBacked` and `AskedIsSettled` of
  `HydrationManager`, and where it stays silent is in section 7. In `Simulation`, `WF(TakeBroadcast)` is the same assumption seen from the threads.
- `Simulation` has no fairness for ticks: the clock may stay paused. A query of a
  buffer ends (`WF(ReadTime \/ EndOfBuffer)`), with its bars or with an error that
  ends the process; which of them is not said.
- In `Shutdown` the steps of all goroutines are one weakly fair action: the bounds
  on what comes from outside leave each goroutine finitely many steps, so that
  none can be kept from its turn for ever. What clients do (connect, ask,
  leave) and the signal are not in it.
- In `Migrations` lost connections and crashes are never assumed, nor that an
  instance is started again; a statement that is sent is answered or fails.

## 6. Proofs

TLAPS checks the theorems below for all values of the constants that satisfy the
named assumptions `HydrationAssumption`, `ClockAssumption`, `HubAssumption`,
`ThreadAssumption`, `SimulationAssumption`, `ReleasesAssumption`, `PoolAssumption` and
`ShutdownAssumption`. These say that bounds are natural numbers, capacities and
the window positive, "no series" and the like not members of the sets, (clock
and simulation) that the handlers are finitely many, and (releases) that the
files of a release are sorted by name.

| theorem | module | statement |
|---|---|---|
| `TypeCorrect` | `HydrationManagerProofs` | `Spec => []TypeOK` |
| `AnnouncementsAreStored` | | `Spec => []AnnouncedIsStored` |
| `HydratingSeriesAreBacked` | | `Spec => []HydratingIsBacked` |
| `CallersDoNotCollide` | | `Spec => []CallersSingleFlight` |
| `QueriesAreNotLost` | | `Spec => []AskedIsBacked` |
| `KeepsTheContract` | | `Spec => ImplementsService` |
| `BackPressureEnds` | | `Spec => []HubNeverStuck` |
| `TypeCorrect` | `RestartServiceProofs` | `Spec => []TypeOK` |
| `AnswersMatch` | | `Spec => []OneAnswerEach` for finitely many handlers |
| `SettingsSettle` | | `Spec => []Settled` |
| `LastOneIsServed` | | `Spec => LastIsServed` |
| `TypeCorrect` | `ClockProofs` | `Spec => []TypeOK` |
| `KeepsTheContract` | | `Spec => ImplementsRestartService` |
| `RestartsAreAnswered` | | `Spec => []OneAnswerEach` |
| `SettingsAreApplied` | | `Spec => []SettledOnConfig` |
| `LivePipesAreNotLost` | | `Spec => []LivePipesAreServed` |
| `TimeIsMonotone` | | `Spec => TimeRunsUnpaused` |
| `LastHandlerIsServed` | | `Spec => LastAnswerIsOwn` |
| `LastRequestIsNotUndone` | | `Spec => []LastRequestStands` |
| `TypeCorrect` | `HubProofs` | `Spec => []TypeOK` |
| `ThreadsAreNotOrphaned` | | `Spec => []ThreadsHaveSubscribers` |
| `GoneClientsAreLeftAlone` | | `Spec => []GoneHasNoStream` |
| `SubscriptionsAreNotForgotten` | | `Spec => []SubscriptionsArePending` |
| `HubKeepsTheContract` | | `Spec => Manager!Spec` |
| `ThreadsAreStartedOnSessions` | | `Spec => []ThreadsHaveSessions` |
| `HubWaitsForItsClients` | | `Spec => []SendsToItsClients` |
| `ConnectionsAreNotLost` | | `Spec => []RequestsAreNotLost` |
| `TypeCorrect` | `SymbolThreadProofs` | `Spec => []TypeOK`, with `BuffersFit` |
| `NothingIsLeftOut` | | `Spec => []FinishedIsComplete` |
| `SendsTheSeries` | | `Spec => ImplementsBarStream` |
| `EveryLoopIsABarStream` | | `Spec => Promise(l)!Spec` for every `l` of `Loops` |
| `OneLoopAtATime` | | `Spec => []OneLoop` |
| `RestartsAreHeeded` | | `Spec => []RestartsGoOn` if there is one restarter and a second goroutine |
| `OverlapsAreHeeded` | | `Spec => []OverlapsGoOn` |
| `TypeCorrect` | `SimulationProofs` | `Spec => []TypeOK` |
| `KeepsTheContract` | | `Spec => ImplementsRestartService` |
| `ThreadsAreOnTime` | | `Spec => []ThreadsFollowTheClock` |
| `StreamsDoNotGoBack` | | `Spec => StreamsGoForward` |
| `LoneRestartsAreServed` | | `Spec => []LoneRestartsGoOn` |
| `TypeCorrect` | `MigrationsProofs` | `Spec => []TypeOK` |
| `Implements` | | `Spec => ImplementsLedger` |
| `FilesRunOnce` | | `Spec => []AppliedOnce` |
| `UpMeansMigrated` | | `Spec => []UpIsMigrated` |
| `FilesRunInOrder` | | `Spec => []RanInOrder` |
| `StartsAreNotStuck` | | `Spec => []StartsGoOn` |
| `TypeCorrect` | `ShutdownProofs` | `Spec => []TypeOK` |
| `NoTaskIsCutOff` | | `Spec => []CleanExitStores` |
| `ThreadsAreStoppedFirst` | | `Spec => []ThreadsWereSilenced` |
| `NobodyWaitsInACircle` | | `Spec => []ShutdownGoesOn` |
| `UnregistrationsAreNotLost` | | `Spec => []TableClientsCanLeave` |

### Safety

Along which arguments:

- *AnnouncedIsStored* is not inductive: a worker about to publish must already
  have stored its series (`StoredBeforePublish`).
- *HydratingIsBacked*: the loop that is about to set `Hydrating` has launched a task
  that is still at work or has stored the series (`MarkIsBacked`). That the task
  may be done is why the property does not ask for a worker.
- *CallersSingleFlight*: a series with a handler at work is `Hydrating`, or stored
  by somebody else (`CallerHoldsSeries`); both keep a second handler out.
- *AskedIsBacked*: one step of the manager at a time; where a worker ends it has stored
  its series or marked it `Failed`, and where the loop drops a query the series is
  `Ready`, hence stored, or `Hydrating`, hence at work or stored (`HydratingIsBacked`).
- *ImplementsService*: the notices of the contract are the set of those in the inbox,
  which is never larger than the inbox has room for (`ChannelCardinality`); a
  transaction that commits is `Store`, a notice that is sent `Notify`, because what is
  announced is stored (`AnnouncedIsStored`), the next process `Restart`.
- *HubKeepsTheContract* is the other side: every step of the hub is one of the
  contract's hub or leaves it alone. So what is proved of `Hub` holds for it over
  `HydrationManager`, whose every behaviour is one of the contract.
- *ThreadsHaveSessions*: a thread is started where the manager says ready or takes a
  success, both of which the contract allows only for a series that is stored, and
  the thread's date is that of the series, not that of the settings (`SessionInv`).
- *SendsToItsClients* (proved and in no run: the hub waits only for clients that it has
  registered and, but for the time stream, that are not gone): a subscriber has been
  registered (`DoingInv`), is not gone (`GoneHasNoStream`), and is closed only if it
  has left (`LeaversInv`); what is left to send came from the subscribers
  (`AudienceInv`), and nobody becomes gone while the hub sends (`SendInv`).
- *ImplementsRestartService* (`Clock`): the pull of the settings (`TakeTrigger`) and the
  reset of the time (`Reset`) are two steps of the clock and one of the contract,
  `Serve`, at the reset. With no other trigger pending and nobody about to send one,
  what the clock has pulled is still what is stored (`PulledConfig`). Every other
  step is a step of a handler, or none.
- *OneAnswerEach* and *SettledOnConfig* are then proved of the contract
  (`RestartServiceProofs`) and carried to `Clock` by instantiation (`ContractHolds`),
  *Counted* to `Simulation` likewise (`AnswersAreCounted`). In the contract,
  `OneAnswerEach` is inductive with the types; the steps are about the cardinality of a
  set that gains or loses one element. `Settled` is inductive by itself.
- *ImplementsRestartService* (`Simulation`) is proved and in no run. `Simulation` adds to
  the contract only the bound `MaxEpoch`.
- *LastAnswerIsOwn*: the handlers whose trigger no pull has followed are at most as
  many as the triggers not taken (`UnservedInv`). With one handler waiting and an
  answer there for it, `OneAnswerEach` leaves no trigger.
- *LivePipesAreServed*: only a pipe that is dead for the hub is being unregistered
  or was closed (`PipeInv`).
- *TimeRunsUnpaused* (simulated time moves only while unpaused, or back to the start;
  it is proved and in no run): the clock is paused while it resets (`PausedInReset`).
- *GoneHasNoStream* needs the most: `IInv` adds that the two indexes agree
  (`OwnedInv`), that requests in the inbox fit the state of their client
  (`InboxInv`), that only subscribe and unsubscribe requests of a client have
  another one of it behind them and so nothing follows its request to be
  unregistered (`OrderInv`), and what the running unregistration has
  still to remove (`DoingInv`, `LeavingInv`).
- *SubscriptionsArePending* is inductive for each stream: `PendingStep` goes through
  the steps that change its subscribers, its thread, the queries or the notices.
- *FinishedIsComplete* and the refinement: `SeriesInv` says that what a loop has
  sent and has still to send of buffer A is exactly what the series holds from
  its start to the end of buffer A, and that all of the former comes before all
  of the latter; `QuitInv` that the last buffer reaches past the close. Lemma
  `Windows` is why consecutive windows have neither gap nor overlap. Every
  `Emit` is then an `Emit` of `BarStream`, a launch or a restart its `Begin`.
- *BuffersFit*: a buffer is within one window (`RemInv`), and a window of n seconds
  has at most n bars (`WindowFits`).
- *OneLoop*: as long as the latest restart to wait for the thread has overtaken nobody,
  all goroutines of the thread have ended when a restart is about to start the loop,
  and no second one is about to (`OneInv`). A second one that has waited by then
  has overtaken the first, and a third one that waits after that waits for both
  loops before it starts its own, so that the property holds again.
- *ThreadsFollowTheClock*: as many handlers wait as there are triggers and answers
  (`Counted`, from the contract), so an answer that is there will be taken. A
  thread of the table that streams from an older time is promised a restart
  (`Promises`): by an answer that is there, by a walk that has to find it since it was
  in the table when the walk began, or by a restart that has not waited yet. When
  nobody is under way there are no promises left.
- *StreamsGoForward*: a thread that was not overtaken has one loop, or one that is
  about to be started, and not both (`OneClaim`); what it has sent is not newer than
  its loop (`Forward`) and no loop is ahead of the clock (`Past`).
- *ImplementsLedger*: a transaction has recorded what it has run (`InTx`), every file
  before the one it is at is recorded by it or in the table with the same hash
  (`Seen`), and nobody else has recorded or can commit its names (`Exclusive`,
  `Alone`). So a commit adds exactly what is missing from the table
  (`CommitIsComplete`), which is a step of `Ledger`; every other step stutters.
- *AppliedOnce*, *UpIsMigrated* and *RanInOrder* then need only the commits: names are
  unique in the table and the files of a release that has migrated were all run
  by then (`LogInv`). For the order: a row with the same hash has the same files
  before it (`SameHashSameFiles`), and that release has run them no later.
- *Types of Migrations* need the transaction invariant too: the row that is recorded
  is one of a file of the release, and the connections fit the pool (`Taken`).
- *CleanExitStores*: once the manager was waited for, its loop is over and starts no
  task, and there is none (`Quiet`).
- *ThreadsWereSilenced*: a thread is launched once (`Started`, `DueStarted`), so that
  what the walk began with cannot be mistaken for what comes later. What the walk
  has left behind was told to stop, and has ended or not begun (`WalkedSilent`,
  `WalkComplete`): a loop that begins under a cancelled context fails to load its
  first buffer. That all of them have ended is not so in the code (section 7).

### What liveness needs of every state

Liveness under fairness is out of the prover's reach. What can be proved is the part
of each liveness argument that speaks of every state: that whoever waits is still
going to be served, that is, that what it waits for is there or can be done by
somebody who is not waiting for it in turn. Together with the fairness of section 5
this is the argument why the property holds for all constants; TLC checks the
property itself on the instances.

| liveness property | what is proved for every state |
|---|---|
| `TasksFinish`, `AskedIsSettled` | `AskedIsBacked`, `HubNeverStuck`: no query is lost; a hub that waits for room in `dataQueryChan` can send, or the loop can make room |
| `RestartReturns`, `RequestsTakeEffect` (clock) | `OneAnswerEach`, `LastRequestStands`: an answer for each who waits; what is queued comes to what was asked last |
| `NoticesAreServed` | `SubscriptionsArePending`: a stream with subscribers and no thread has a notice or a question, or its subscribers were told of a failure, so that no notice is taken without effect |
| `ConnectingClientsAreServed` | `SendsToItsClients`, `RequestsAreNotLost`: the hub waits only for clients it has registered, which read or are what `HubStuck` is about, and requests to be registered stay in the inbox |
| `RestartReturns` (thread) | `RestartsGoOn`, `OverlapsGoOn`: all that a restart waits for is cancelled or has a buffer under way, and then the pipe is open |
| `RestartReturns` (simulation) | `LoneRestartsGoOn`: one answer, no loop in a select that only a tick can end, no closed pipe; a loop at the end of its buffer goes on or ends the process |
| `StartsEnd` | `StartsGoOn`: no circle of waits for rows, and a connection left |
| `ShutdownEnds` | `ShutdownGoesOn`: whatever main waits for goes on, or the hub is stuck |
| `CancelledAreUnregistered` | `TableClientsCanLeave`: a goroutine that will post the request, or the request |

- *HubNeverStuck* names the guards of the loop's steps (`CanReceive`, `CanLaunch`)
  instead of using `ENABLED`, which is out of the prover's reach: a full
  `dataQueryChan` is not empty, and the model has a slot for every task that was asked
  for (`SlotsSuffice`), so that its bound on tasks stops nobody.
- *LastRequestStands*: a pause ends the queue with a pause; a resume counts as the last
  request only if no restart is in flight, and then `OneAnswerEach` leaves no trigger
  that could pause the clock again.
- *RequestsAreNotLost* is inductive with the order of the inbox (`IInv`).
- *RestartsGoOn*: only a restart makes a context, and it has cancelled the one before
  (`ContextInv`), so that while the one restarter waits all there ever were are
  cancelled; a loop at the end of its buffer has asked for the next (`BufferInv`).
  With two restarters this fails, as section 7 says.
- *OverlapsGoOn* is what holds of any number of restarters: without an overtaken start,
  a context is replaced only while nothing of the thread runs (`OneInv`), so that
  what runs waits on the current context or on one that was cancelled (`CurrentInv`);
  who waits has a way out unless another restart has replaced the context it has
  cancelled. TLC finds a counterexample if either condition is dropped.
- *LoneRestartsGoOn*: while a request meets no other one, nobody renews what it has
  cancelled (`Alone`, `Cancelled`), and no loop stays in its select with a context that
  is done (`NoDoneSelect`).
- *StartsGoOn*: an instance that waits for a row has itself inserted only names before
  it, for it goes through its files in order (`Before`). So names go up along the
  waits (`NamesGoUp`), and of the instances of a circle the one whose next name comes
  first could be waited for by none (`LeastNumber`, `NoCircle`).
- *ShutdownGoesOn*: whoever main waits for was told to stop before, and the hub does not
  end before main comes to it (`TargetInv`). The cases are who can be waited for by
  whom: a client by main, the hub's inbox by a client, an outbox by the hub.
- *TableClientsCanLeave*: only its own request takes a client out of the table, and the
  goroutine that posts it is started with the client.

### Only model-checked

All liveness properties (`TasksFinish`, `AskedIsSettled`,
`RestartReturns` of the clock, of the thread and of the simulation,
`RequestsTakeEffect`, `ConnectingClientsAreServed`, `NoticesAreServed`,
`LoopsEnd`, `StartsEnd`, `ShutdownEnds`, `CancelledAreUnregistered`), since
liveness under fairness is out of the prover's reach. Every invariant and every
safety property of the passing runs is a theorem.

## 7. Departures of the code that the models contain

Beside the three findings, these behaviours are in the models as the code has
them. Where a property would not hold because of one of them, it says so and
leaves that case out.

Hydration and hub:

- The loop of the manager marks a series `Hydrating` after it launched the task. A
  task that is done by then has its `Ready` overwritten, and `POST /control/hydrate`
  is refused from then on ("already currently hydrating") with nobody at work.
  What holds is `HydratingIsBacked`: its bars are stored.
- A task and an HTTP handler, or two tasks, may work on one series at a time. The
  second insert is refused, and ends the process if it is a task's.
- After a failed fetch a task goes on, stores an empty session and announces
  success. The client that exists exits instead.
- HTTP hydration notifies nobody, and a query that meets it is dropped
  (`hydrationmanager.go:76`): a subscriber that waits for the series waits for ever,
  although the hub's comment says "hydration mgr will notify when it is"
  (`hub.go:326`). In `Hub` this is a manager that leaves a question in `asked`, as
  its contract allows; no property says that a notice comes.
- A failure notice may be followed by the success of another hydration of the same
  series: subscribers that were told of the failure get the stream after all.
- A client that disconnects is not removed from the time stream's subscribers
  (`hub.go:377-393`). Its outbox fills and the hub blocks on it.
- The hub also blocks on a client that has disconnected and is not unregistered
  yet: the request to unregister it is in the inbox the hub does not get to. This
  and the last are `HubStuck` of `Hub`, from which nobody is served any more.

Clock, threads and restarts:

- `restartDone` is anonymous: a handler may take the answer meant for another,
  before the clock pulled its own settings. `LastAnswerIsOwn` says how much of
  the contrary is left, and `ThreadsFollowTheClock` that no thread suffers.
- A resume sent during a restart may be applied before or after it (`"race"`).
- A thread that runs keeps its date when the settings change.
- A restart, alone or not, may end the process (`RestartSurvives`): its cancellation
  reaches a loop that waits for buffer B. `RestartReturns` of `SymbolThread` and of
  `Simulation` have this as another way out (`crashed`).
- An empty first window ends the thread, whatever comes after it. A thread that has
  ended stays in the hub's table, so that nothing starts its stream anew before
  a restart.
- Two overlapping restarts of one thread, or one that comes before the goroutine
  of the launch has joined the wait group, start its loop twice (`overtaken`): two
  loops send the same bars, or those of two simulations. Overlapping uses of one
  wait group may also end in the panic "WaitGroup is reused before previous Wait
  has returned", which the models leave out.
- A restart that meets the kill of its thread may empty a closed pipe for ever, so
  that the HTTP request never returns; or it starts the thread anew. Of two
  restarts that overlap, one may wait for the loop that the other has started,
  under a context that nobody cancels any more.

Migrations:

- Two releases that add different files to the same ones do not see each other:
  both run, in either order. A file that was renamed is run again, and the removal
  of the last files goes unnoticed. A file put before one that was run is refused
  when that one is checked.
- The query that looks for a row is not asked for its error: see `CheckNotApplied`.
- The connection of the first test is never given back. With a pool of one
  connection the start waits for ever.

Shutdown:

- `Shutdown` walks maps that the hub changes, which the Go runtime answers with a
  fatal error when it notices (`MapRace`).
- The hub may block on the outbox of a client that was stopped, whose sender has
  ended; then other clients wait for it to take their requests to be
  unregistered, and the shutdown never ends (`HubStuck`). A listener may also post a
  subscription after the request to unregister its client.
- `HubStuck` also allows for queries to a manager that has ended; TLC does not reach
  it at the bounds of the run.
- A task that is fetching, or a thread that waits for its buffer, is cancelled, which
  it answers with `log.Fatal`: the process ends with an error in the middle of
  its shutdown, and no other component is waited for. So it does when a task cannot
  store what it has fetched.
- A thread whose goroutine (`go thread.Start()`, `hub.go:429`) has not begun when the
  walk comes to it has an empty wait group: it is cancelled and not waited for, and
  its loop begins, and ends, later, or not before the process does.
- A thread that the hub launches or kills during the walk may be missed, and run on
  until the process ends. A client that is in the table and not started yet when
  the walk comes to it has an empty wait group: it is cancelled and not waited for.

## 8. What is not modelled

- The filter of the fetched bars (`client.go:112-157`), which stops at the first bar
  outside the open hours, and the pages of the answer: data of an external
  service, on which nothing depends but the contents of a series.
- `Shutdown` of the clock is never called. Start-up beyond the database is one
  goroutine that makes objects.
- In `Shutdown`: requests to unsubscribe, the time stream, HTTP hydration and
  restarts.
- The SQL text of the migrations, and the pool after the start: every use of a
  connection is then one query or one transaction that gives it back.
- Time zones, parsing and validation of requests, the JSON of the messages, HTTP
  status codes, logging, environment, defaults: data without control, or calls of
  libraries.
- `tools/seriesstore`: a one-pass tool that writes test data.
- Tests and deployment files are documentation here.

## 9. Plan

Done, in this order: `HydrationManager`, `Clock`, `Hub`, `SymbolThread` with
`BarStream`, `Simulation`, `Migrations` with `Ledger`, `Shutdown`, each with its runs
and proofs; `HydrationService`, the contract that joins `HydrationManager` and `Hub`;
`RestartService`, the one that `Clock` and `Simulation` share; and
what each liveness property needs of every state. What could follow:

1. An abstract specification of what a client sees of a stream, which `Simulation`
   and `Hub` together implement.
2. The fetch filter and the arithmetic of the windows as operators, against
   reference definitions.
3. `Shutdown` with restarts and HTTP requests in flight, for which its state has to
   be divided.
