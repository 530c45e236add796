------------------------- MODULE HydrationManager -------------------------
(***************************************************************************)
(* The hydration manager fetches the bars of a symbol on a date and stores *)
(* them in the database.  Three kinds of goroutine share its status map:   *)
(*   - the hub, which asks IsReady and is promised a notification,         *)
(*   - the manager's own loop, which launches a HydrationTask per query,   *)
(*   - one HTTP handler per POST /control/hydrate (HydrateSymbol).         *)
(* The mutex of the map protects single reads and writes, not the          *)
(* read-then-act sequences, so each read and each write is its own step.   *)
(* A "series" is a symbol on a date: the key of the map and of the table.  *)
(***************************************************************************)
EXTENDS Naturals, Sequences, FiniteSets

CONSTANTS
  Series,          \* symbol-date combinations
  NoSeries,        \* "no series": the key of an idle worker
  Callers,         \* HTTP handlers that may be inside HydrateSymbol
  Tasks,           \* slots for HydrationTask goroutines (see Outstanding)
  QueryCap,        \* capacity of dataQueryChan (1024 in the code)
  NoticeCap        \* capacity of the hub's hydration inbox (1024)

ASSUME HydrationAssumption ==
  /\ NoSeries \notin Series
  /\ IsFiniteSet(Tasks)
  /\ QueryCap \in Nat \ {0}
  /\ NoticeCap \in Nat \ {0}

VARIABLES
  status,    \* statusMap; "None" is a missing entry
  db,        \* what hydration_state_1sec and bars_1sec hold: survives a crash
  queries,   \* dataQueryChan
  notices,   \* outbox to the hub
  loop,      \* the manager's goroutine
  task,      \* the HydrationTask goroutines
  caller,    \* the HTTP handlers
  hub,       \* the hub's goroutine, as far as this component sees it
  asked,     \* history: series the hub asked for, and was sent no notice
             \* about since
  reported,  \* history: series whose fetch a task was told has failed
  exit       \* why the process exited; "none" while it runs

volatile == <<status, queries, notices, loop, task, caller, hub, asked, reported>>
vars == <<status, db, queries, notices, loop, task, caller, hub, asked, reported,
          exit>>

Idle == [at |-> "idle", key |-> NoSeries]
At(step, k) == [at |-> step, key |-> k]
Working(w, k) == w.at # "idle" /\ w.key = k

Statuses == {"None", "Ready", "Hydrating", "Failed"}
Contents == {"absent", "bars", "empty"}
Recorded(k) == db[k] # "absent"
Up == exit = "none"

Success(k) == [ok |-> TRUE, key |-> k]
Failure(k) == [ok |-> FALSE, key |-> k]

InChannel(q) == {q[i] : i \in DOMAIN q}

SetStatus(k, s) == status' = [status EXCEPT ![k] = s]
Notify(n) ==
  /\ Len(notices) < NoticeCap
  /\ notices' = Append(notices, n)
  /\ asked' = asked \ {n.key}
-----------------------------------------------------------------------------
(* The bound on goroutines: the code starts as many tasks as it has        *)
(* queries, the model has a slot for each query that is outstanding.  The  *)
(* bound limits what the hub asks, so that no task waits for a slot.       *)
Outstanding ==
  Len(queries) + Cardinality({t \in Tasks : task[t] # Idle})
               + (IF loop.at = "launch" THEN 1 ELSE 0)

(* The hub asks IsReady: the status is read under the lock, the query is   *)
(* sent after the unlock.  A Ready series needs no step: IsReady returns.  *)
HubAsk(k) ==
  /\ Up /\ hub = Idle /\ status[k] # "Ready"
  /\ Outstanding < Cardinality(Tasks)
  /\ hub' = At("asking", k)
  /\ asked' = asked \cup {k}
  /\ UNCHANGED <<status, db, queries, notices, loop, task, caller, reported, exit>>

HubEnqueue ==
  /\ Up /\ hub.at = "asking" /\ Len(queries) < QueryCap
  /\ queries' = Append(queries, hub.key)
  /\ hub' = Idle
  /\ UNCHANGED <<status, db, notices, loop, task, caller, asked, reported, exit>>

HubReceive ==
  /\ Up /\ hub = Idle /\ notices # <<>>
  /\ notices' = Tail(notices)
  /\ UNCHANGED <<status, db, queries, loop, task, caller, hub, asked, reported, exit>>
-----------------------------------------------------------------------------
(* The manager's loop: receive a query and read the status, launch the     *)
(* task, and only then mark the series as hydrating.                       *)
\* Mutant: the loop makes sure of room for a notice first, and so waits for
\* the hub while the hub may be waiting for the loop.
CanReceiveWithRoom == loop = Idle /\ queries # <<>> /\ Len(notices) < NoticeCap

\* All that receiving a query, and launching a task, wait for.
CanReceive == loop = Idle /\ queries # <<>>
CanLaunch(t) == loop.at = "launch" /\ task[t] = Idle

\* Mutant: the loop itself answers a query that it drops.
LoopReceiveAnswers ==
  /\ Up /\ CanReceive
  /\ LET k == Head(queries) IN
       /\ loop' = IF status[k] \in {"Ready", "Hydrating"} THEN Idle ELSE At("launch", k)
       /\ IF loop' = Idle THEN Notify(Success(k)) ELSE UNCHANGED <<notices, asked>>
  /\ queries' = Tail(queries)
  /\ UNCHANGED <<status, db, task, caller, hub, reported, exit>>

LoopReceive ==
  /\ Up /\ CanReceive
  /\ LET k == Head(queries) IN
       loop' = IF status[k] \in {"Ready", "Hydrating"} THEN Idle ELSE At("launch", k)
  /\ queries' = Tail(queries)
  /\ UNCHANGED <<status, db, notices, task, caller, hub, asked, reported, exit>>

LoopLaunch(t) ==
  /\ Up /\ CanLaunch(t)
  /\ task' = [task EXCEPT ![t] = At("fetch", loop.key)]
  /\ loop' = At("mark", loop.key)
  /\ UNCHANGED <<status, db, queries, notices, caller, hub, asked, reported, exit>>

LoopMark ==
  /\ Up /\ loop.at = "mark"
  /\ SetStatus(loop.key, "Hydrating")
  /\ loop' = Idle
  /\ UNCHANGED <<db, queries, notices, task, caller, hub, asked, reported, exit>>
-----------------------------------------------------------------------------
(* InsertFullSession is one transaction whose primary keys refuse a second *)
(* copy.  The caller sees ok exactly when it knows the commit happened; a  *)
(* lost connection or an expired context leaves the commit in doubt.       *)
Insert(k, content, ok) ==
  \/ /\ ~Recorded(k)
     /\ db' = [db EXCEPT ![k] = content]
     /\ ok \in BOOLEAN
  \/ /\ ~ok
     /\ UNCHANGED db

(* HydrationTask *)
TaskFetched(t) ==
  /\ Up /\ task[t].at = "fetch"
  /\ task' = [task EXCEPT ![t] = At("insert", @.key)]
  /\ UNCHANGED <<status, db, queries, notices, loop, caller, hub, asked, reported, exit>>

TaskFetchFailed(t) ==
  /\ Up /\ task[t].at = "fetch"
  /\ SetStatus(task[t].key, "Failed")
  /\ reported' = reported \cup {task[t].key}
  /\ task' = [task EXCEPT ![t] = At("notifyFailure", @.key)]
  /\ UNCHANGED <<db, queries, notices, loop, caller, hub, asked, exit>>

\* Mutant: a failed fetch is retried for ever.
TaskNotifyFailureRetries(t) ==
  /\ Up /\ task[t].at = "notifyFailure"
  /\ Notify(Failure(task[t].key))
  /\ task' = [task EXCEPT ![t] = At("fetch", @.key)]
  /\ UNCHANGED <<status, db, queries, loop, caller, hub, reported, exit>>

\* There is no return after the failure is signalled: the task goes on to
\* store the empty slice that came with the error.
TaskNotifyFailure(t) ==
  /\ Up /\ task[t].at = "notifyFailure"
  /\ Notify(Failure(task[t].key))
  /\ task' = [task EXCEPT ![t] = At("insertEmpty", @.key)]
  /\ UNCHANGED <<status, db, queries, loop, caller, hub, reported, exit>>

\* Mutant: a failed insert ends the task and nothing else.
TaskInsertGivesUp(t) ==
  /\ Up /\ task[t].at \in {"insert", "insertEmpty"}
  /\ \E ok \in BOOLEAN :
       /\ Insert(task[t].key, IF task[t].at = "insert" THEN "bars" ELSE "empty", ok)
       /\ task' = IF ok THEN [task EXCEPT ![t] = At("publish", @.key)] ELSE [task EXCEPT ![t] = Idle]
  /\ UNCHANGED <<status, queries, notices, loop, caller, hub, asked, reported, exit>>

\* A failed insert is fatal: the process exits, whatever was committed.
TaskInsert(t) ==
  /\ Up /\ task[t].at \in {"insert", "insertEmpty"}
  /\ \E ok \in BOOLEAN :
       /\ Insert(task[t].key, IF task[t].at = "insert" THEN "bars" ELSE "empty", ok)
       /\ IF ok THEN /\ task' = [task EXCEPT ![t] = At("publish", @.key)]
                     /\ exit' = exit
                ELSE /\ exit' = "store"
                     /\ task' = task
  /\ UNCHANGED <<status, queries, notices, loop, caller, hub, asked, reported>>

TaskPublish(t) ==
  /\ Up /\ task[t].at = "publish"
  /\ SetStatus(task[t].key, "Ready")
  /\ task' = [task EXCEPT ![t] = At("notifySuccess", @.key)]
  /\ UNCHANGED <<db, queries, notices, loop, caller, hub, asked, reported, exit>>

TaskNotifySuccess(t) ==
  /\ Up /\ task[t].at = "notifySuccess"
  /\ Notify(Success(task[t].key))
  /\ task' = [task EXCEPT ![t] = Idle]
  /\ UNCHANGED <<status, db, queries, loop, caller, hub, reported, exit>>
-----------------------------------------------------------------------------
(* HydrateSymbol: the status is tested and set under one lock.  A Ready or *)
(* Hydrating series is refused and nothing changes.                        *)
\* Mutant: only a Ready series is refused.
CallerBeginAnyway(c, k) ==
  /\ Up /\ caller[c] = Idle /\ status[k] # "Ready"
  /\ SetStatus(k, "Hydrating")
  /\ caller' = [caller EXCEPT ![c] = At("fetch", k)]
  /\ UNCHANGED <<db, queries, notices, loop, task, hub, asked, reported, exit>>

CallerBegin(c, k) ==
  /\ Up /\ caller[c] = Idle /\ status[k] \notin {"Ready", "Hydrating"}
  /\ SetStatus(k, "Hydrating")
  /\ caller' = [caller EXCEPT ![c] = At("fetch", k)]
  /\ UNCHANGED <<db, queries, notices, loop, task, hub, asked, reported, exit>>

CallerFetched(c) ==
  /\ Up /\ caller[c].at = "fetch"
  /\ \E next \in {"insert", "fail"} :
       caller' = [caller EXCEPT ![c] = At(next, @.key)]
  /\ UNCHANGED <<status, db, queries, notices, loop, task, hub, asked, reported, exit>>

\* Mutant: the error of the insert is lost (a shadowed err).
CallerInsertUnchecked(c) ==
  /\ Up /\ caller[c].at = "insert"
  /\ \E ok \in BOOLEAN : Insert(caller[c].key, "bars", ok)
  /\ caller' = [caller EXCEPT ![c] = At("publish", @.key)]
  /\ UNCHANGED <<status, queries, notices, loop, task, hub, asked, reported, exit>>

CallerInsert(c) ==
  /\ Up /\ caller[c].at = "insert"
  /\ \E ok \in BOOLEAN :
       /\ Insert(caller[c].key, "bars", ok)
       /\ caller' = [caller EXCEPT ![c] = At(IF ok THEN "publish" ELSE "fail", @.key)]
  /\ UNCHANGED <<status, queries, notices, loop, task, hub, asked, reported, exit>>

\* Mutant: the deferred reset to Failed is missing.
CallerFinishWithoutReset(c) ==
  /\ Up /\ caller[c].at \in {"publish", "fail"}
  /\ IF caller[c].at = "publish" THEN SetStatus(caller[c].key, "Ready") ELSE UNCHANGED status
  /\ caller' = [caller EXCEPT ![c] = Idle]
  /\ UNCHANGED <<db, queries, notices, loop, task, hub, asked, reported, exit>>

\* The last write, direct on success and deferred on failure.  Unlike a
\* task, a handler sends nothing to the hub.
CallerFinish(c) ==
  /\ Up /\ caller[c].at \in {"publish", "fail"}
  /\ SetStatus(caller[c].key, IF caller[c].at = "publish" THEN "Ready" ELSE "Failed")
  /\ caller' = [caller EXCEPT ![c] = Idle]
  /\ UNCHANGED <<db, queries, notices, loop, task, hub, asked, reported, exit>>
-----------------------------------------------------------------------------
(* The DataFetcher interface lets a fetcher return its errors, as above;   *)
(* massiveclient calls log.Fatal on any error of the API instead.          *)
FetchExit ==
  /\ Up
  /\ \/ \E t \in Tasks : task[t].at = "fetch"
     \/ \E c \in Callers : caller[c].at = "fetch"
  /\ exit' = "fetch"
  /\ UNCHANGED <<volatile, db>>

\* The process is killed from outside: only the database survives.
Crash == Up /\ exit' = "killed" /\ UNCHANGED <<volatile, db>>

\* A new process fills the map from hydration_state_1sec.  When the query
\* fails the error is logged and the map stays empty.
Boot ==
  /\ ~Up
  /\ \E loaded \in BOOLEAN :
       status' = [k \in Series |-> IF loaded /\ Recorded(k) THEN "Ready" ELSE "None"]
  /\ queries' = <<>> /\ notices' = <<>> /\ asked' = {} /\ reported' = {}
  /\ loop' = Idle /\ hub' = Idle
  /\ task' = [t \in Tasks |-> Idle]
  /\ caller' = [c \in Callers |-> Idle]
  /\ exit' = "none"
  /\ UNCHANGED db

Init ==
  /\ status = [k \in Series |-> "None"]
  /\ db = [k \in Series |-> "absent"]
  /\ queries = <<>> /\ notices = <<>> /\ asked = {} /\ reported = {}
  /\ loop = Idle /\ hub = Idle
  /\ task = [t \in Tasks |-> Idle]
  /\ caller = [c \in Callers |-> Idle]
  /\ exit = "none"

HubStep == HubEnqueue \/ HubReceive
LoopStep == LoopReceive \/ LoopMark \/ \E t \in Tasks : LoopLaunch(t)
TaskStep(t) ==
  \/ TaskFetched(t) \/ TaskFetchFailed(t) \/ TaskNotifyFailure(t)
  \/ TaskInsert(t) \/ TaskPublish(t) \/ TaskNotifySuccess(t)
CallerStep(c) == CallerFetched(c) \/ CallerInsert(c) \/ CallerFinish(c)

Next ==
  \/ HubStep \/ \E k \in Series : HubAsk(k)
  \/ LoopStep
  \/ \E t \in Tasks : TaskStep(t)
  \/ \E c \in Callers : CallerStep(c) \/ \E k \in Series : CallerBegin(c, k)
  \/ FetchExit \/ Crash \/ Boot

Spec == Init /\ [][Next]_vars

\* The scheduler runs every goroutine that can run; requests, kills and
\* reboots come from outside and are not fair.  A select picks at random
\* among its ready channels and a channel serves its blocked senders in
\* order, hence strong fairness where a goroutine competes for a channel.
FairSpec ==
  /\ Spec
  /\ WF_vars(HubEnqueue) /\ SF_vars(HubReceive) /\ WF_vars(LoopStep)
  /\ \A t \in Tasks : SF_vars(TaskStep(t))
  /\ \A c \in Callers : WF_vars(CallerStep(c))
-----------------------------------------------------------------------------
(* Where each goroutine can be.                                            *)
TaskSteps ==
  {"fetch", "notifyFailure", "insert", "insertEmpty", "publish", "notifySuccess"}
Worker(steps) == {Idle} \cup [at : steps, key : Series]

\* Every variable has its type and no channel is filled beyond its capacity.
TypeOK ==
  /\ status \in [Series -> Statuses]
  /\ db \in [Series -> Contents]
  /\ queries \in Seq(Series) /\ Len(queries) <= QueryCap
  /\ notices \in Seq([ok : BOOLEAN, key : Series]) /\ Len(notices) <= NoticeCap
  /\ loop \in Worker({"launch", "mark"})
  /\ task \in [Tasks -> Worker(TaskSteps)]
  /\ caller \in [Callers -> Worker({"fetch", "insert", "publish", "fail"})]
  /\ hub \in Worker({"asking"})
  /\ asked \in SUBSET Series /\ reported \in SUBSET Series
  /\ exit \in {"none", "fetch", "store", "killed"}

\* What the manager announces is in the database: a series whose status is
\* Ready, or of which the hub is being told that it was hydrated, was
\* committed before, whichever worker did it and whatever crashed since.
\* The hub starts a symbol thread on the strength of either.
AnnouncedIsStored ==
  \A k \in Series :
    \/ status[k] = "Ready"
    \/ Success(k) \in InChannel(notices)
    => Recorded(k)

\* No series is lost: while the status is Hydrating, which makes HydrateSymbol
\* and the loop refuse it, some goroutine is still bringing it in, or its
\* bars are stored already.  (There is not always a worker: the loop marks a
\* series after it launched the task, and a task that finished first has its
\* Ready overwritten for good.)
Busy(k) ==
  \/ \E t \in Tasks : Working(task[t], k)
  \/ \E c \in Callers : Working(caller[c], k)
HydratingIsBacked ==
  \A k \in Series : status[k] = "Hydrating" => Busy(k) \/ Recorded(k)

\* No query is lost: what the hub asked for and was not notified about is on
\* its way through the manager, or a worker has it (not always the hub's own:
\* the loop drops a query for a series that is Hydrating), or it is stored or
\* known to have failed.
AskedIsBacked ==
  \A k \in asked :
    \/ Working(hub, k) \/ k \in InChannel(queries) \/ Working(loop, k)
    \/ Busy(k) \/ Recorded(k) \/ status[k] = "Failed"

\* Two HTTP handlers never hydrate one series at a time, although a task may
\* be at work on it too.  A fetcher that reports an error to a task undoes
\* this: the task marks Failed the series that a handler is working on.
CallersSingleFlight ==
  \A c, d \in Callers : \A k \in Series \ reported :
    Working(caller[c], k) /\ Working(caller[d], k) => c = d

\* Back-pressure never turns into a deadlock: when the hub waits for room in
\* dataQueryChan, there is some or the loop that makes room can go on, for it
\* waits neither for the hub's inbox nor for a task to end.
HubNeverStuck ==
  Up /\ hub.at = "asking" =>
    \/ Len(queries) < QueryCap
    \/ CanReceive \/ (\E t \in Tasks : CanLaunch(t)) \/ loop.at = "mark"

\* Whatever its goroutines, the handlers and the crashes do, the manager keeps
\* the contract that the hub is built on.
Service == INSTANCE HydrationService WITH
  stored <- {k \in Series : Recorded(k)},
  notices <- InChannel(notices)
ImplementsService == Service!Spec

\* Every HydrationTask ends: it stores its series, or takes the process down.
TasksFinish == \A t \in Tasks : task[t] # Idle ~> (task[t] = Idle \/ ~Up)

\* What the hub asked for is stored, or known to have failed, in the end,
\* whichever worker the query was dropped in favour of.
AskedIsSettled ==
  \A k \in Series :
    k \in asked ~> (Recorded(k) \/ status[k] = "Failed" \/ ~Up)
=============================================================================
