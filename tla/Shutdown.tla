------------------------------ MODULE Shutdown ------------------------------
(***************************************************************************)
(* The end of the program.  On a signal the main goroutine stops the HTTP  *)
(* server and then, one after the other and waiting for each, the clients  *)
(* in the hub's table, the hydration manager, the threads in the hub's     *)
(* table, and the hub.  All of them still run meanwhile: clients connect   *)
(* and ask, tasks end, threads stream, and the hub changes both tables.    *)
(* Of the hub's requests those to unsubscribe and of the time stream are   *)
(* left out, as are series hydrated over HTTP.                             *)
(***************************************************************************)
EXTENDS Naturals, Sequences, FiniteSets

CONSTANTS
  Clients, Streams,
  Askers,     \* clients that may ask for a stream
  Leavers,    \* clients that may disconnect
  MaxStarts,  \* bound on the starts of a stream's thread
  MaxAsks,    \* bound on the requests of a client
  MaxBars,    \* bars of a thread until the series ends
  Nobody,
  InboxCap, OutboxCap, BarCap, QueryCap, NoticeCap   \* all 1024 in the code

\* The threads of a stream, in the order of their starts.
Threads == Streams \X (1..MaxStarts)
StreamOf(t) == t[1]

ASSUME ShutdownAssumption ==
  /\ Askers \subseteq Clients /\ Leavers \subseteq Clients
  /\ Nobody \notin Clients \cup Streams \cup Threads
  /\ MaxStarts \in Nat /\ MaxAsks \in Nat /\ MaxBars \in Nat
  /\ InboxCap \in Nat \ {0} /\ OutboxCap \in Nat \ {0} /\ BarCap \in Nat \ {0}
  /\ QueryCap \in Nat \ {0} /\ NoticeCap \in Nat \ {0}

VARIABLES
  main,        \* where Server.Shutdown is
  due, walked, \* of the table it walks: what was in it at first, what it has seen
  target,      \* the child it waits for
  exit,        \* how the process ended; "none" while it runs
  stage,       \* each client's way to the hub
  running,     \* the goroutines in each client's wait group
  asked,       \* number of requests each client has made
  posting,     \* clients whose listener is about to send a request
  cancelled,   \* clients whose context is cancelled
  inbox,       \* clientInbox
  outbox,      \* number of messages in each client's outbox
  clientsSet,
  subscribed,  \* streamIDToSubbedClientsSet
  table,       \* streamToThread
  op, about,   \* what the hub is doing, and for whom
  to,          \* the clients it has still to send to
  loop,        \* the goroutine of each thread
  sent,        \* number of bars each thread has sent
  stopping,    \* threads whose context is cancelled
  bars,        \* broadcastInbox
  manager,     \* the loop of the hydration manager
  queries, notices,   \* its channels from and to the hub
  task,        \* its task for the symbol of each stream
  ready        \* what is stored

mains == <<main, due, walked, target>>
peers == <<stage, running, asked, posting, cancelled, inbox, outbox>>
tables == <<clientsSet, subscribed, table>>
hub == <<op, about, to>>
threads == <<loop, sent, stopping, bars>>
hydration == <<manager, queries, notices, task, ready>>
vars == <<mains, exit, peers, tables, hub, threads, hydration>>

Goroutines == {"listener", "sender", "leaver"}
Up == exit = "none"
HubIdle == Up /\ op = "idle"

\* The process ends, and its memory is gone.
Exits(how) ==
  /\ exit' = how /\ UNCHANGED ready
  /\ main' = "serving" /\ due' = {} /\ walked' = {} /\ target' = Nobody
  /\ stage' = [c \in Clients |-> "none"] /\ running' = [c \in Clients |-> {}]
  /\ asked' = [c \in Clients |-> 0] /\ posting' = {} /\ cancelled' = {}
  /\ inbox' = <<>> /\ outbox' = [c \in Clients |-> 0]
  /\ clientsSet' = {} /\ subscribed' = [s \in Streams |-> {}]
  /\ table' = [s \in Streams |-> Nobody]
  /\ op' = "idle" /\ about' = Nobody /\ to' = {}
  /\ loop' = [t \in Threads |-> "none"]
  /\ sent' = [t \in Threads |-> 0] /\ stopping' = {} /\ bars' = <<>>
  /\ manager' = "on" /\ queries' = <<>> /\ notices' = <<>>
  /\ task' = [s \in Streams |-> "none"]

Request(kind, c) == [kind |-> kind, client |-> c]
Post(r) == Len(inbox) < InboxCap /\ inbox' = Append(inbox, r)

\* The contexts that Shutdown cancels on its way.
ManagerCancelled == main \in {"manager", "threads", "thread", "hub", "http"}
\* Mutant: the hub is cancelled before its children are waited for.
HubCancelledFirst == main # "serving"
HubCancelled == main \in {"hub", "http"}
-----------------------------------------------------------------------------
(* The main goroutine.                                                     *)
Walk(place, entries) ==
  /\ main' = place /\ due' = entries /\ walked' = {} /\ target' = Nobody

Signal ==
  /\ Up /\ main = "serving"
  /\ Walk("clients", clientsSet)
  /\ UNCHANGED <<exit, peers, tables, hub, threads, hydration>>

\* The walk of a map: an entry that is added meanwhile may be seen or not.
Visit(place, e) ==
  /\ main' = place /\ walked' = walked \cup {e} /\ target' = e
  /\ UNCHANGED <<due, exit>>

StopClient(c) ==
  /\ Up /\ main = "clients" /\ c \in clientsSet \ walked
  /\ Visit("client", c)
  /\ cancelled' = cancelled \cup {c}
  /\ UNCHANGED <<stage, running, asked, posting, inbox, outbox, tables, hub, threads, hydration>>

ClientStopped ==
  /\ Up /\ main = "client" /\ running[target] = {}
  /\ main' = "clients" /\ target' = Nobody
  /\ UNCHANGED <<due, walked, exit, peers, tables, hub, threads, hydration>>

StopManager ==
  /\ Up /\ main = "clients" /\ due \cap clientsSet \subseteq walked
  /\ main' = "manager"
  /\ UNCHANGED <<due, walked, target, exit, peers, tables, hub, threads, hydration>>

\* Mutant: only the loop is waited for.
LoopStopped ==
  /\ Up /\ main = "manager" /\ manager = "ended"
  /\ Walk("threads", {table[s] : s \in Streams} \ {Nobody})
  /\ UNCHANGED <<exit, peers, tables, hub, threads, hydration>>

\* The wait group has the loop and the tasks.
ManagerStopped ==
  /\ Up /\ main = "manager" /\ manager = "ended" /\ \A s \in Streams : task[s] = "none"
  /\ Walk("threads", {table[s] : s \in Streams} \ {Nobody})
  /\ UNCHANGED <<exit, peers, tables, hub, threads, hydration>>

StopThread(s) ==
  /\ Up /\ main = "threads" /\ table[s] \notin walked \cup {Nobody}
  /\ Visit("thread", table[s])
  /\ stopping' = stopping \cup {table[s]}
  /\ UNCHANGED <<peers, tables, hub, loop, sent, bars, hydration>>

\* The wait group is empty as well while the goroutine of Start has not begun.
ThreadStopped ==
  /\ Up /\ main = "thread" /\ loop[target] \in {"due", "ended"}
  /\ main' = "threads" /\ target' = Nobody
  /\ UNCHANGED <<due, walked, exit, peers, tables, hub, threads, hydration>>

StopHub ==
  /\ Up /\ main = "threads" /\ \A s \in Streams : table[s] \in due => table[s] \in walked
  /\ main' = "hub"
  /\ UNCHANGED <<due, walked, target, exit, peers, tables, hub, threads, hydration>>

HubStopped ==
  /\ Up /\ main = "hub" /\ op = "ended"
  /\ main' = "http"
  /\ UNCHANGED <<due, walked, target, exit, peers, tables, hub, threads, hydration>>

\* os.Exit(0), once the HTTP server has stopped: it takes no more connections,
\* and waits for its handlers for at most five seconds.
Exit == Up /\ main = "http" /\ Exits("clean")

Main ==
  \/ \E c \in Clients : StopClient(c)
  \/ ClientStopped \/ StopManager \/ ManagerStopped
  \/ \E s \in Streams : StopThread(s)
  \/ ThreadStopped \/ StopHub \/ HubStopped \/ Exit
-----------------------------------------------------------------------------
(* Clients.                                                                *)
\* handleConnection upgrades the connection, and RegisterClient waits.  It may
\* have begun before the server stopped taking connections.
RegisterClient(c) ==
  /\ Up /\ stage[c] = "none" /\ Post(Request("register", c))
  /\ stage' = [stage EXCEPT ![c] = "posted"]
  /\ UNCHANGED <<mains, exit, running, asked, posting, cancelled, outbox, tables, hub,
                 threads, hydration>>

Ends(c, g) == running' = [running EXCEPT ![c] = @ \ {g}]

\* The listener reads a request.
Ask(c) ==
  /\ Up /\ c \in Askers /\ "listener" \in running[c] /\ c \notin cancelled
  /\ asked[c] < MaxAsks /\ asked' = [asked EXCEPT ![c] = @ + 1] /\ posting' = posting \cup {c}
  /\ UNCHANGED <<mains, exit, stage, running, cancelled, inbox, outbox, tables, hub,
                 threads, hydration>>

\* The send does not heed the context.
PostSub(c) ==
  /\ Up /\ c \in posting /\ Post(Request("sub", c))
  /\ posting' = posting \ {c}
  /\ UNCHANGED <<mains, exit, stage, running, asked, cancelled, outbox, tables, hub,
                 threads, hydration>>

\* The read fails: the client is gone, or its context is cancelled.
ListenerEnds(c) ==
  /\ Up /\ "listener" \in running[c] /\ c \notin posting /\ c \in Leavers \cup cancelled
  /\ Ends(c, "listener") /\ cancelled' = cancelled \cup {c}
  /\ UNCHANGED <<mains, exit, stage, asked, posting, inbox, outbox, tables, hub,
                 threads, hydration>>

\* Mutant: a request to be unregistered is dropped when the inbox is full.
LeaverEndsOrPosts(c) ==
  /\ Up /\ "leaver" \in running[c] /\ c \in cancelled
  /\ IF Len(inbox) < InboxCap THEN Post(Request("unregister", c)) ELSE UNCHANGED inbox
  /\ Ends(c, "leaver")
  /\ UNCHANGED <<mains, exit, stage, asked, posting, cancelled, outbox, tables, hub,
                 threads, hydration>>

LeaverPosts(c) ==
  /\ Up /\ "leaver" \in running[c] /\ c \in cancelled
  /\ Post(Request("unregister", c)) /\ Ends(c, "leaver")
  /\ UNCHANGED <<mains, exit, stage, asked, posting, cancelled, outbox, tables, hub,
                 threads, hydration>>

SenderWrites(c) ==
  /\ Up /\ "sender" \in running[c] /\ outbox[c] > 0
  /\ outbox' = [outbox EXCEPT ![c] = @ - 1]
  /\ UNCHANGED <<mains, exit, stage, running, asked, posting, cancelled, inbox, tables, hub,
                 threads, hydration>>

SenderEnds(c) ==
  /\ Up /\ "sender" \in running[c] /\ c \in cancelled
  /\ Ends(c, "sender")
  /\ UNCHANGED <<mains, exit, stage, asked, posting, cancelled, inbox, outbox, tables, hub,
                 threads, hydration>>
-----------------------------------------------------------------------------
(* The hub.                                                                *)
Take(kind) == HubIdle /\ inbox # <<>> /\ Head(inbox).kind = kind /\ inbox' = Tail(inbox)
Asker == Head(inbox).client

TakeRegister ==
  /\ Take("register")
  /\ clientsSet' = clientsSet \cup {Asker}
  /\ op' = "start" /\ about' = Asker
  /\ UNCHANGED <<mains, exit, stage, running, asked, posting, cancelled, outbox,
                 subscribed, table, to, threads, hydration>>

StartClient ==
  /\ Up /\ op = "start"
  /\ running' = [running EXCEPT ![about] = Goroutines]
  /\ stage' = [stage EXCEPT ![about] = "started"]
  /\ op' = "idle" /\ about' = Nobody
  /\ UNCHANGED <<mains, exit, asked, posting, cancelled, inbox, outbox, tables, to,
                 threads, hydration>>

\* The thread is in the table; the goroutine that starts its loop is due.
StartThread(s) ==
  \E n \in 1..MaxStarts :
    /\ \A m \in 1..MaxStarts : loop[<<s, m>>] = "none" <=> m >= n
    /\ loop' = [loop EXCEPT ![<<s, n>>] = "due"]
    /\ table' = [table EXCEPT ![s] = <<s, n>>]
    /\ UNCHANGED <<sent, stopping, bars>>

TakeSub(s) ==
  /\ Take("sub")
  /\ subscribed' = [subscribed EXCEPT ![s] = @ \cup {Asker}]
  /\ \/ table[s] # Nobody /\ UNCHANGED <<table, threads, op, about>>
     \/ table[s] = Nobody /\ s \in ready /\ StartThread(s) /\ UNCHANGED <<op, about>>
     \/ /\ table[s] = Nobody /\ s \notin ready /\ op' = "asking" /\ about' = s
        /\ UNCHANGED <<table, threads>>
  /\ UNCHANGED <<mains, exit, stage, running, asked, posting, cancelled, outbox,
                 clientsSet, to, hydration>>

\* IsReady sends a query.
PostQuery ==
  /\ Up /\ op = "asking" /\ Len(queries) < QueryCap
  /\ queries' = Append(queries, about)
  /\ op' = "idle" /\ about' = Nobody
  /\ UNCHANGED <<mains, exit, peers, tables, to, threads, manager, notices, task, ready>>

\* The last subscriber of a stream takes its thread along, if there is one.
Orphaned(c) == {s \in Streams : subscribed[s] = {c}}

TakeUnregister ==
  /\ Take("unregister")
  /\ \A s \in Orphaned(Asker) : table[s] # Nobody
  /\ clientsSet' = clientsSet \ {Asker}
  /\ subscribed' = [s \in Streams |-> subscribed[s] \ {Asker}]
  /\ table' = [s \in Streams |-> IF s \in Orphaned(Asker) THEN Nobody ELSE table[s]]
  /\ stopping' = stopping \cup {table[s] : s \in Orphaned(Asker)}
  /\ UNCHANGED <<mains, exit, stage, running, asked, posting, cancelled, outbox, hub,
                 loop, sent, bars, hydration>>

KillNothing ==
  /\ HubIdle /\ inbox # <<>> /\ Head(inbox).kind = "unregister"
  /\ \E s \in Orphaned(Asker) : table[s] = Nobody
  /\ Exits("panic")

TakeNotice ==
  /\ HubIdle /\ notices # <<>> /\ notices' = Tail(notices)
  /\ LET s == Head(notices) IN
     IF subscribed[s] # {} /\ table[s] = Nobody THEN StartThread(s)
     ELSE UNCHANGED <<table, threads>>
  /\ UNCHANGED <<mains, exit, peers, clientsSet, subscribed, hub, manager, queries, task, ready>>

TakeBar ==
  /\ HubIdle /\ bars # <<>> /\ bars' = Tail(bars)
  /\ op' = "sending" /\ to' = subscribed[Head(bars)]
  /\ UNCHANGED <<mains, exit, peers, tables, about, loop, sent, stopping, hydration>>

Send(c) ==
  /\ Up /\ op = "sending" /\ c \in to /\ outbox[c] < OutboxCap
  /\ outbox' = [outbox EXCEPT ![c] = @ + 1] /\ to' = to \ {c}
  /\ UNCHANGED <<mains, exit, stage, running, asked, posting, cancelled, inbox, tables,
                 op, about, threads, hydration>>

FinishSend ==
  /\ Up /\ op = "sending" /\ to = {} /\ op' = "idle"
  /\ UNCHANGED <<mains, exit, peers, tables, about, to, threads, hydration>>

HubEnds ==
  /\ HubIdle /\ HubCancelled /\ op' = "ended"
  /\ UNCHANGED <<mains, exit, peers, tables, about, to, threads, hydration>>

\* The walk of a map takes a step while the hub writes the map.
MapRace ==
  /\ HubIdle
  /\ \/ main = "clients" /\ inbox # <<>> /\ Head(inbox).kind \in {"register", "unregister"}
     \/ main = "threads" /\ inbox # <<>> /\ Head(inbox).kind = "unregister" /\ Orphaned(Asker) # {}
     \/ main = "threads" /\ inbox # <<>> /\ Head(inbox).kind = "sub" /\ ready # {}
     \/ main = "threads" /\ notices # <<>>
  /\ Exits("race")
-----------------------------------------------------------------------------
(* Symbol threads and hydration.                                           *)
\* Mutant: Start, and not the launch, makes the context of the thread.
ThreadBeginsAfresh(t) ==
  /\ Up /\ loop[t] = "due"
  /\ loop' = [loop EXCEPT ![t] = "streams"] /\ stopping' = stopping \ {t}
  /\ UNCHANGED <<mains, exit, peers, tables, hub, sent, bars, hydration>>

\* Start, and the load of the first buffer: it fails when the thread has been
\* told to stop, and may find no bar.
ThreadBegins(t) ==
  /\ Up /\ loop[t] = "due"
  /\ \E l \in {"streams", "ended"} :
       (t \in stopping => l = "ended") /\ loop' = [loop EXCEPT ![t] = l]
  /\ UNCHANGED <<mains, exit, peers, tables, hub, sent, stopping, bars, hydration>>

Emit(t) ==
  /\ Up /\ loop[t] = "streams" /\ sent[t] < MaxBars
  /\ loop' = [loop EXCEPT ![t] = "sends"] /\ sent' = [sent EXCEPT ![t] = @ + 1]
  /\ UNCHANGED <<mains, exit, peers, tables, hub, stopping, bars, hydration>>

\* The send does not heed the context.
SendBar(t) ==
  /\ Up /\ loop[t] = "sends" /\ Len(bars) < BarCap
  /\ bars' = Append(bars, StreamOf(t))
  /\ loop' = [loop EXCEPT ![t] = "streams"]
  /\ UNCHANGED <<mains, exit, peers, tables, hub, sent, stopping, hydration>>

\* Cancelled, or at the end of the series.
ThreadEnds(t) ==
  /\ Up /\ loop[t] = "streams" /\ (t \in stopping \/ sent[t] = MaxBars)
  /\ loop' = [loop EXCEPT ![t] = "ended"]
  /\ UNCHANGED <<mains, exit, peers, tables, hub, sent, stopping, bars, hydration>>

\* log.Fatalf: the cancelled query of the buffer it waits for.
ThreadDies(t) == Up /\ t \in stopping /\ loop[t] = "streams" /\ Exits("fatal")

TakeQuery ==
  /\ Up /\ manager = "on" /\ queries # <<>> /\ queries' = Tail(queries)
  /\ LET s == Head(queries) IN
     IF s \in ready \/ task[s] # "none" THEN UNCHANGED task
     ELSE task' = [task EXCEPT ![s] = "fetch"]
  /\ UNCHANGED <<mains, exit, peers, tables, hub, threads, manager, notices, ready>>

ManagerEnds ==
  /\ Up /\ manager = "on" /\ ManagerCancelled /\ manager' = "ended"
  /\ UNCHANGED <<mains, exit, peers, tables, hub, threads, queries, notices, task, ready>>

FetchEnds(s) ==
  /\ Up /\ task[s] = "fetch" /\ task' = [task EXCEPT ![s] = "insert"]
  /\ UNCHANGED <<mains, exit, peers, tables, hub, threads, manager, queries, notices, ready>>

\* log.Fatal: a fetch that is cancelled, or fails, ends the process.
FetchDies(s) == Up /\ task[s] = "fetch" /\ Exits("fatal")

\* The insert is not cancelled with the manager.
Insert(s) ==
  /\ Up /\ task[s] = "insert" /\ task' = [task EXCEPT ![s] = "announce"]
  /\ ready' = ready \cup {s}
  /\ UNCHANGED <<mains, exit, peers, tables, hub, threads, manager, queries, notices>>

\* logger.Fatal: what was fetched cannot be stored.
InsertDies(s) == Up /\ task[s] = "insert" /\ Exits("fatal")

Announce(s) ==
  /\ Up /\ task[s] = "announce" /\ Len(notices) < NoticeCap
  /\ notices' = Append(notices, s) /\ task' = [task EXCEPT ![s] = "none"]
  /\ UNCHANGED <<mains, exit, peers, tables, hub, threads, manager, queries, ready>>
-----------------------------------------------------------------------------
Init ==
  /\ exit = "none" /\ ready \in SUBSET Streams
  /\ main = "serving" /\ due = {} /\ walked = {} /\ target = Nobody
  /\ stage = [c \in Clients |-> "none"] /\ running = [c \in Clients |-> {}]
  /\ asked = [c \in Clients |-> 0] /\ posting = {} /\ cancelled = {}
  /\ inbox = <<>> /\ outbox = [c \in Clients |-> 0]
  /\ clientsSet = {} /\ subscribed = [s \in Streams |-> {}]
  /\ table = [s \in Streams |-> Nobody]
  /\ op = "idle" /\ about = Nobody /\ to = {}
  /\ loop = [t \in Threads |-> "none"]
  /\ sent = [t \in Threads |-> 0] /\ stopping = {} /\ bars = <<>>
  /\ manager = "on" /\ queries = <<>> /\ notices = <<>>
  /\ task = [s \in Streams |-> "none"]

Client(c) ==
  \/ PostSub(c) \/ LeaverPosts(c) \/ SenderWrites(c) \/ SenderEnds(c)
  \/ c \in cancelled /\ ListenerEnds(c)

Hub ==
  \/ TakeRegister \/ StartClient \/ (\E s \in Streams : TakeSub(s)) \/ PostQuery
  \/ TakeUnregister \/ KillNothing \/ TakeNotice
  \/ TakeBar \/ (\E c \in Clients : Send(c)) \/ FinishSend \/ HubEnds

Thread(t) == ThreadBegins(t) \/ Emit(t) \/ SendBar(t) \/ ThreadEnds(t) \/ ThreadDies(t)

Hydration ==
  \/ TakeQuery \/ ManagerEnds
  \/ \E s \in Streams : FetchEnds(s) \/ FetchDies(s) \/ Insert(s) \/ InsertDies(s) \/ Announce(s)

Goroutine ==
  \/ Main \/ Hub \/ Hydration
  \/ \E c \in Clients : Client(c)
  \/ \E t \in Threads : Thread(t)

Next ==
  \/ Goroutine \/ Signal \/ MapRace
  \/ \E c \in Clients : RegisterClient(c) \/ Ask(c) \/ ListenerEnds(c)

Spec == Init /\ [][Next]_vars

\* Goroutines that can go on do, and peers read what is written to them.  The
\* bounds leave each a finite number of steps, so that fairness to all of them
\* together is fairness to each.
FairSpec == Spec /\ WF_vars(Goroutine)
-----------------------------------------------------------------------------
Places == {"serving", "clients", "client", "manager", "threads", "thread", "hub", "http"}
Requests == [kind : {"register", "sub", "unregister"}, client : Clients]

\* Every variable has its type, and no channel holds more than its capacity.
TypeOK ==
  /\ main \in Places
  /\ due \subseteq Clients \cup Threads /\ walked \subseteq Clients \cup Threads
  /\ main = "client" => target \in Clients
  /\ main = "thread" => target \in Threads
  /\ exit \in {"none", "clean", "race", "panic", "fatal"}
  /\ stage \in [Clients -> {"none", "posted", "started"}]
  /\ running \in [Clients -> SUBSET Goroutines]
  /\ asked \in [Clients -> 0..MaxAsks] /\ posting \subseteq Clients /\ cancelled \subseteq Clients
  /\ inbox \in Seq(Requests) /\ Len(inbox) <= InboxCap
  /\ outbox \in [Clients -> 0..OutboxCap]
  /\ clientsSet \subseteq Clients /\ subscribed \in [Streams -> SUBSET Clients]
  /\ table \in [Streams -> Threads \cup {Nobody}]
  /\ op \in {"idle", "start", "asking", "sending", "ended"}
  /\ op = "start" => about \in Clients
  /\ op = "asking" => about \in Streams
  /\ to \subseteq Clients
  /\ loop \in [Threads -> {"none", "due", "streams", "sends", "ended"}]
  /\ sent \in [Threads -> 0..MaxBars] /\ stopping \subseteq Threads
  /\ bars \in Seq(Streams) /\ Len(bars) <= BarCap
  /\ manager \in {"on", "ended"}
  /\ queries \in Seq(Streams) /\ Len(queries) <= QueryCap
  /\ notices \in Seq(Streams) /\ Len(notices) <= NoticeCap
  /\ task \in [Streams -> {"none", "fetch", "insert", "announce"}] /\ ready \subseteq Streams

\* A program that has ended in good order has stored whatever its tasks had
\* fetched: no task is cut off by os.Exit.
CleanExitStores == main = "http" => \A s \in Streams : task[s] = "none"

\* A thread that sends no more: it has ended, or has not begun and was told to
\* stop, which ends it where it begins.
Silent(t) == loop[t] = "ended" \/ (loop[t] = "due" /\ t \in stopping)

\* When the main goroutine comes to the hub, no thread that was in the table
\* when the walk of the threads began, and is still in it, sends another bar,
\* whatever the hub launched and killed meanwhile.
ThreadsWereSilenced ==
  main \in {"hub", "http"} => \A s \in Streams : table[s] \in due => Silent(table[s])

\* The hub waits for room in a channel that nobody reads any more: the outbox
\* of a client whose sender has ended, or the queries of a manager that has.
HubStuck ==
  \/ /\ op = "sending"
     /\ \E c \in to : outbox[c] = OutboxCap /\ "sender" \notin running[c]
  \/ op = "asking" /\ Len(queries) = QueryCap /\ manager = "ended"

\* What the hub waits for is there, or can be done by the one it waits for.
HubGoesOn ==
  \/ op = "idle" /\ (HubCancelled \/ inbox # <<>> \/ notices # <<>> \/ bars # <<>>)
  \/ op = "start"
  \/ op = "asking" /\ (Len(queries) < QueryCap \/ (manager = "on" /\ queries # <<>>))
  \/ op = "sending" /\ \A c \in to : outbox[c] < OutboxCap \/ "sender" \in running[c]

\* So for each goroutine of a client that was stopped, for the manager and for
\* a thread: each can take a step, or waits for the hub, which goes on.
PostGoesOn == Len(inbox) < InboxCap \/ HubGoesOn
ClientGoesOn(c) ==
  \/ running[c] = {}
  \/ c \in cancelled /\ "sender" \in running[c]
  \/ c \in cancelled /\ "listener" \in running[c] /\ (c \in posting => PostGoesOn)
  \/ c \in cancelled /\ "leaver" \in running[c] /\ PostGoesOn
ManagerGoesOn ==
  /\ manager = "on" => ManagerCancelled
  /\ \A s \in Streams : task[s] = "announce" => Len(notices) < NoticeCap \/ HubGoesOn
ThreadGoesOn(t) ==
  \/ loop[t] \in {"due", "ended"}
  \/ loop[t] = "streams" /\ t \in stopping
  \/ loop[t] = "sends" /\ (Len(bars) < BarCap \/ HubGoesOn)

\* Whatever the main goroutine waits for at any place of the shutdown goes on,
\* unless the hub is stuck: nobody waits in a circle.
ShutdownGoesOn ==
  HubStuck \/
    /\ main = "client" => ClientGoesOn(target)
    /\ main = "manager" => ManagerGoesOn
    /\ main = "thread" => ThreadGoesOn(target)
    /\ main = "hub" => op = "ended" \/ HubGoesOn

\* Every client of the table has its way out of it: its last goroutine is
\* there or about to be started, or its request to be unregistered is posted.
TableClientsCanLeave ==
  \A c \in clientsSet :
    \/ "leaver" \in running[c] \/ (op = "start" /\ about = c)
    \/ \E i \in 1..Len(inbox) : inbox[i] = Request("unregister", c)

\* A shutdown ends, whoever connects, asks, streams or is hydrated meanwhile,
\* unless the hub is stuck.
ShutdownEnds == main = "clients" ~> ~Up \/ HubStuck

\* "Ensures the client is always unregistered from the hub": a client whose
\* context is cancelled leaves the table, while there is a hub that can do it.
CancelledAreUnregistered ==
  \A c \in Clients :
    c \in cancelled /\ c \in clientsSet ~> c \notin clientsSet \/ ~Up \/ HubStuck \/ op = "ended"
=============================================================================
