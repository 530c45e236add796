--------------------------- MODULE ShutdownProofs ---------------------------
(* Safety of Shutdown, for any clients, streams, capacities and bounds.    *)
EXTENDS Shutdown, TLAPS

LEMMA AppendFacts ==
  ASSUME NEW S, NEW s \in Seq(S), NEW e \in S, NEW cap \in Nat, Len(s) < cap
  PROVE  Append(s, e) \in Seq(S) /\ Len(Append(s, e)) <= cap
OBVIOUS

LEMMA TailFacts ==
  ASSUME NEW S, NEW s \in Seq(S), NEW cap \in Nat, Len(s) <= cap, s # <<>>
  PROVE  Head(s) \in S /\ Tail(s) \in Seq(S) /\ Len(Tail(s)) <= cap
OBVIOUS

LEMMA EmptyFacts ==
  ASSUME NEW S
  PROVE  <<>> \in Seq(S) /\ Len(<<>>) = 0
OBVIOUS

LEMMA Capacities ==
  /\ InboxCap \in Nat /\ OutboxCap \in Nat /\ BarCap \in Nat
  /\ QueryCap \in Nat /\ NoticeCap \in Nat
  /\ MaxStarts \in Nat /\ MaxAsks \in Nat /\ MaxBars \in Nat
BY ShutdownAssumption DEF ShutdownAssumption

LEMMA StreamOfThread ==
  ASSUME NEW t \in Threads
  PROVE  StreamOf(t) \in Streams
BY DEF Threads, StreamOf
-----------------------------------------------------------------------------
(* Types.                                                                  *)
LEMMA ExitsType ==
  ASSUME TypeOK, NEW how \in {"clean", "race", "panic", "fatal"}, Exits(how)
  PROVE  TypeOK'
<1>1. 0 \in 0..MaxAsks /\ 0 \in 0..MaxBars /\ 0 \in 0..OutboxCap
  BY Capacities
<1>2. 0 <= InboxCap /\ 0 <= BarCap /\ 0 <= QueryCap /\ 0 <= NoticeCap
  BY Capacities
<1>3. /\ inbox' = <<>> /\ bars' = <<>> /\ queries' = <<>> /\ notices' = <<>>
  BY DEF Exits
<1>4. /\ inbox' \in Seq(Requests) /\ Len(inbox') <= InboxCap
      /\ bars' \in Seq(Streams) /\ Len(bars') <= BarCap
      /\ queries' \in Seq(Streams) /\ Len(queries') <= QueryCap
      /\ notices' \in Seq(Streams) /\ Len(notices') <= NoticeCap
  BY <1>2, <1>3, EmptyFacts
<1>5. /\ asked' \in [Clients -> 0..MaxAsks] /\ sent' \in [Threads -> 0..MaxBars]
      /\ outbox' \in [Clients -> 0..OutboxCap]
  BY <1>1 DEF Exits
<1> QED BY <1>4, <1>5 DEF Exits, TypeOK, Places

LEMMA MainType ==
  ASSUME TypeOK, Main \/ Signal
  PROVE  TypeOK'
<1> USE DEF peers, tables, hub, threads, hydration, mains, Places
<1>1. CASE Signal
  BY <1>1 DEF Signal, Walk, TypeOK
<1>2. ASSUME NEW c \in Clients, StopClient(c) PROVE TypeOK'
  BY <1>2 DEF StopClient, Visit, TypeOK
<1>3. CASE ClientStopped \/ ThreadStopped
  BY <1>3 DEF ClientStopped, ThreadStopped, TypeOK
<1>4. CASE StopManager \/ StopHub \/ HubStopped
  BY <1>4 DEF StopManager, StopHub, HubStopped, TypeOK
<1>5. CASE ManagerStopped
  <2>1. {table[s] : s \in Streams} \ {Nobody} \subseteq Threads
    <3>1. table \in [Streams -> Threads \cup {Nobody}]
      BY DEF TypeOK
    <3> QED BY <3>1
  <2> QED BY <1>5, <2>1 DEF ManagerStopped, Walk, TypeOK
<1>6. ASSUME NEW s \in Streams, StopThread(s) PROVE TypeOK'
  <2>1. table[s] \in Threads
    BY <1>6 DEF StopThread, TypeOK
  <2> QED BY <1>6, <2>1 DEF StopThread, Visit, TypeOK
<1>7. CASE Exit
  BY <1>7, ExitsType DEF Exit
<1> QED BY <1>1, <1>2, <1>3, <1>4, <1>5, <1>6, <1>7 DEF Main

LEMMA PostType ==
  ASSUME TypeOK, NEW c \in Clients, NEW kind \in {"register", "sub", "unregister"},
         Post(Request(kind, c))
  PROVE  inbox' \in Seq(Requests) /\ Len(inbox') <= InboxCap
<1>1. Request(kind, c) \in Requests
  BY DEF Request, Requests
<1> QED BY <1>1, AppendFacts, Capacities DEF Post, TypeOK

LEMMA ClientType ==
  ASSUME TypeOK, NEW c \in Clients,
         Client(c) \/ RegisterClient(c) \/ Ask(c) \/ ListenerEnds(c)
  PROVE  TypeOK'
<1> USE DEF peers, tables, hub, threads, hydration, mains
<1>1. CASE RegisterClient(c)
  BY <1>1, PostType DEF RegisterClient, TypeOK
<1>2. CASE PostSub(c)
  BY <1>2, PostType DEF PostSub, TypeOK
<1>3. CASE LeaverPosts(c)
  BY <1>3, PostType DEF LeaverPosts, Ends, TypeOK
<1>4. CASE Ask(c)
  <2>1. asked' \in [Clients -> 0..MaxAsks]
    <3>1. asked[c] + 1 \in 0..MaxAsks
      BY <1>4, Capacities DEF Ask, TypeOK
    <3>2. asked' = [asked EXCEPT ![c] = asked[c] + 1]
      BY <1>4 DEF Ask
    <3> QED BY <3>1, <3>2 DEF TypeOK
  <2> QED BY <1>4, <2>1 DEF Ask, TypeOK
<1>5. CASE ListenerEnds(c) \/ SenderEnds(c)
  <2>1. running' \in [Clients -> SUBSET Goroutines]
    <3>1. PICK g : running' = [running EXCEPT ![c] = @ \ {g}]
      BY <1>5 DEF ListenerEnds, SenderEnds, Ends
    <3>2. running \in [Clients -> SUBSET Goroutines]
      BY DEF TypeOK
    <3> QED BY <3>1, <3>2
  <2>2. /\ cancelled' \subseteq Clients
        /\ UNCHANGED <<mains, exit, stage, asked, posting, inbox, outbox, tables, hub, threads, hydration>>
    BY <1>5 DEF ListenerEnds, SenderEnds, TypeOK
  <2> QED BY <2>1, <2>2 DEF TypeOK
<1>6. CASE SenderWrites(c)
  <2>1. outbox' \in [Clients -> 0..OutboxCap]
    <3>1. outbox[c] - 1 \in 0..OutboxCap
      BY <1>6, Capacities DEF SenderWrites, TypeOK
    <3>2. outbox' = [outbox EXCEPT ![c] = outbox[c] - 1]
      BY <1>6 DEF SenderWrites
    <3> QED BY <3>1, <3>2 DEF TypeOK
  <2> QED BY <1>6, <2>1 DEF SenderWrites, TypeOK
<1> QED BY <1>1, <1>2, <1>3, <1>4, <1>5, <1>6 DEF Client

LEMMA TakeType ==
  ASSUME TypeOK, NEW kind, Take(kind)
  PROVE  Asker \in Clients /\ inbox' \in Seq(Requests) /\ Len(inbox') <= InboxCap
<1>1. Head(inbox) \in Requests /\ inbox' \in Seq(Requests) /\ Len(inbox') <= InboxCap
  BY TailFacts, Capacities DEF Take, TypeOK
<1> QED BY <1>1 DEF Asker, Requests

LEMMA StartThreadType ==
  ASSUME TypeOK, NEW s \in Streams, StartThread(s)
  PROVE  /\ loop' \in [Threads -> {"none", "due", "streams", "sends", "ended"}]
         /\ table' \in [Streams -> Threads \cup {Nobody}] /\ UNCHANGED <<sent, stopping, bars>>
<1>1. PICK n \in 1..MaxStarts :
         /\ loop' = [loop EXCEPT ![<<s, n>>] = "due"] /\ table' = [table EXCEPT ![s] = <<s, n>>]
         /\ UNCHANGED <<sent, stopping, bars>>
  BY DEF StartThread
<1>2. <<s, n>> \in Threads
  BY DEF Threads
<1> QED BY <1>1, <1>2 DEF TypeOK

LEMMA HubType ==
  ASSUME TypeOK, Hub
  PROVE  TypeOK'
<1> USE DEF peers, tables, hub, threads, hydration, mains
<1>1. CASE TakeRegister
  BY <1>1, TakeType DEF TakeRegister, TypeOK
<1>2. CASE StartClient
  BY <1>2 DEF StartClient, Goroutines, TypeOK
<1>3. ASSUME NEW s \in Streams, TakeSub(s) PROVE TypeOK'
  <2>1. Asker \in Clients /\ inbox' \in Seq(Requests) /\ Len(inbox') <= InboxCap
    BY <1>3, TakeType DEF TakeSub
  <2>2. subscribed' \in [Streams -> SUBSET Clients]
    BY <1>3, <2>1 DEF TakeSub, TypeOK
  <2>3. CASE UNCHANGED <<table, threads>>
    BY <1>3, <2>1, <2>2, <2>3 DEF TakeSub, TypeOK
  <2>4. CASE StartThread(s) /\ UNCHANGED <<op, about>>
    BY <1>3, <2>1, <2>2, <2>4, StartThreadType DEF TakeSub, TypeOK
  <2> QED BY <1>3, <2>3, <2>4 DEF TakeSub
<1>4. CASE PostQuery
  <2>1. queries' \in Seq(Streams) /\ Len(queries') <= QueryCap
    BY <1>4, AppendFacts, Capacities DEF PostQuery, TypeOK
  <2> QED BY <1>4, <2>1 DEF PostQuery, TypeOK
<1>5. CASE TakeUnregister
  <2>1. stopping' \subseteq Threads
    BY <1>5 DEF TakeUnregister, Orphaned, TypeOK
  <2>2. subscribed' \in [Streams -> SUBSET Clients] /\ table' \in [Streams -> Threads \cup {Nobody}]
    BY <1>5 DEF TakeUnregister, TypeOK
  <2>3. clientsSet' \subseteq Clients
    BY <1>5 DEF TakeUnregister, TypeOK
  <2> QED BY <1>5, <2>1, <2>2, <2>3, TakeType DEF TakeUnregister, TypeOK
<1>6. CASE KillNothing
  BY <1>6, ExitsType DEF KillNothing
<1>7. CASE TakeNotice
  <2>1. Head(notices) \in Streams /\ notices' \in Seq(Streams) /\ Len(notices') <= NoticeCap
    BY <1>7, TailFacts, Capacities DEF TakeNotice, TypeOK
  <2>2. StartThread(Head(notices)) \/ UNCHANGED <<table, threads>>
    BY <1>7 DEF TakeNotice
  <2>3. CASE StartThread(Head(notices))
    BY <1>7, <2>1, <2>3, StartThreadType DEF TakeNotice, TypeOK
  <2>4. CASE UNCHANGED <<table, threads>>
    BY <1>7, <2>1, <2>4 DEF TakeNotice, TypeOK
  <2> QED BY <2>2, <2>3, <2>4
<1>8. CASE TakeBar
  <2>1. Head(bars) \in Streams /\ bars' \in Seq(Streams) /\ Len(bars') <= BarCap
    BY <1>8, TailFacts, Capacities DEF TakeBar, TypeOK
  <2> QED BY <1>8, <2>1 DEF TakeBar, TypeOK
<1>9. ASSUME NEW c \in Clients, Send(c) PROVE TypeOK'
  <2>1. outbox' \in [Clients -> 0..OutboxCap]
    <3>1. outbox[c] + 1 \in 0..OutboxCap
      BY <1>9, Capacities DEF Send, TypeOK
    <3>2. outbox' = [outbox EXCEPT ![c] = outbox[c] + 1]
      BY <1>9 DEF Send
    <3> QED BY <3>1, <3>2 DEF TypeOK
  <2> QED BY <1>9, <2>1 DEF Send, TypeOK
<1>10. CASE FinishSend \/ HubEnds
  BY <1>10 DEF FinishSend, HubEnds, TypeOK
<1> QED BY <1>1, <1>2, <1>3, <1>4, <1>5, <1>6, <1>7, <1>8, <1>9, <1>10 DEF Hub

LEMMA ThreadType ==
  ASSUME TypeOK, NEW t \in Threads, Thread(t)
  PROVE  TypeOK'
<1> USE DEF peers, tables, hub, threads, hydration, mains
<1>1. CASE Emit(t)
  <2>1. sent' \in [Threads -> 0..MaxBars]
    <3>1. sent[t] + 1 \in 0..MaxBars
      BY <1>1, Capacities DEF Emit, TypeOK
    <3>2. sent' = [sent EXCEPT ![t] = sent[t] + 1]
      BY <1>1 DEF Emit
    <3> QED BY <3>1, <3>2 DEF TypeOK
  <2> QED BY <1>1, <2>1 DEF Emit, TypeOK
<1>2. CASE SendBar(t)
  <2>1. bars' \in Seq(Streams) /\ Len(bars') <= BarCap
    BY <1>2, StreamOfThread, AppendFacts, Capacities DEF SendBar, TypeOK
  <2> QED BY <1>2, <2>1 DEF SendBar, TypeOK
<1>3. CASE ThreadEnds(t)
  BY <1>3 DEF ThreadEnds, TypeOK
<1>4. CASE ThreadDies(t)
  BY <1>4, ExitsType DEF ThreadDies
<1>5. CASE ThreadBegins(t)
  BY <1>5 DEF ThreadBegins, TypeOK
<1> QED BY <1>1, <1>2, <1>3, <1>4, <1>5 DEF Thread

LEMMA HydrationType ==
  ASSUME TypeOK, Hydration
  PROVE  TypeOK'
<1> USE DEF peers, tables, hub, threads, hydration, mains
<1>1. CASE TakeQuery
  <2>1. Head(queries) \in Streams /\ queries' \in Seq(Streams) /\ Len(queries') <= QueryCap
    BY <1>1, TailFacts, Capacities DEF TakeQuery, TypeOK
  <2>2. task' \in [Streams -> {"none", "fetch", "insert", "announce"}]
    BY <1>1 DEF TakeQuery, TypeOK
  <2> QED BY <1>1, <2>1, <2>2 DEF TakeQuery, TypeOK
<1>2. CASE ManagerEnds
  BY <1>2 DEF ManagerEnds, TypeOK
<1>3. ASSUME NEW s \in Streams, FetchEnds(s) \/ Insert(s) PROVE TypeOK'
  BY <1>3 DEF FetchEnds, Insert, TypeOK
<1>4. ASSUME NEW s \in Streams, FetchDies(s) \/ InsertDies(s) PROVE TypeOK'
  BY <1>4, ExitsType DEF FetchDies, InsertDies
<1>5. ASSUME NEW s \in Streams, Announce(s) PROVE TypeOK'
  <2>1. notices' \in Seq(Streams) /\ Len(notices') <= NoticeCap
    BY <1>5, AppendFacts, Capacities DEF Announce, TypeOK
  <2> QED BY <1>5, <2>1 DEF Announce, TypeOK
<1> QED BY <1>1, <1>2, <1>3, <1>4, <1>5 DEF Hydration

LEMMA TypeStep == TypeOK /\ [Next]_vars => TypeOK'
<1> SUFFICES ASSUME TypeOK, [Next]_vars PROVE TypeOK'
  OBVIOUS
<1>1. CASE UNCHANGED vars
  BY <1>1 DEF vars, mains, peers, tables, hub, threads, hydration, TypeOK
<1>2. CASE MapRace
  BY <1>2, ExitsType DEF MapRace
<1> QED
  BY <1>1, <1>2, MainType, ClientType, HubType, ThreadType, HydrationType DEF Next, Goroutine

LEMMA TypeInit == Init => TypeOK
<1> SUFFICES ASSUME Init PROVE TypeOK
  OBVIOUS
<1>1. 0 \in 0..MaxAsks /\ 0 \in 0..MaxBars /\ 0 \in 0..OutboxCap
  BY Capacities
<1>2. 0 <= InboxCap /\ 0 <= BarCap /\ 0 <= QueryCap /\ 0 <= NoticeCap
  BY Capacities
<1>3. /\ inbox = <<>> /\ bars = <<>> /\ queries = <<>> /\ notices = <<>>
  BY DEF Init
<1>4. /\ inbox \in Seq(Requests) /\ Len(inbox) <= InboxCap
      /\ bars \in Seq(Streams) /\ Len(bars) <= BarCap
      /\ queries \in Seq(Streams) /\ Len(queries) <= QueryCap
      /\ notices \in Seq(Streams) /\ Len(notices) <= NoticeCap
  BY <1>2, <1>3, EmptyFacts
<1>5. /\ asked \in [Clients -> 0..MaxAsks] /\ sent \in [Threads -> 0..MaxBars]
      /\ outbox \in [Clients -> 0..OutboxCap]
  BY <1>1 DEF Init
<1> QED BY <1>4, <1>5 DEF Init, TypeOK, Places

\* The types of the variables and the capacities of the channels hold.
THEOREM TypeCorrect == Spec => []TypeOK
BY TypeInit, TypeStep, PTL DEF Spec
-----------------------------------------------------------------------------
(* Tasks.  Once the manager was waited for, its loop is over and starts no *)
(* new task, and there is none.                                            *)
Quiet ==
  main \in {"threads", "thread", "hub", "http"} =>
    manager = "ended" /\ \A s \in Streams : task[s] = "none"

LEMMA QuietStep == TypeOK /\ Quiet /\ [Next]_vars => Quiet'
<1> SUFFICES ASSUME TypeOK, Quiet, [Next]_vars PROVE Quiet'
  OBVIOUS
<1> USE DEF peers, tables, hub, threads, hydration, mains
<1>1. ASSUME NEW how, Exits(how) PROVE Quiet'
  BY <1>1 DEF Exits, Quiet
<1>2. CASE Main \/ Signal
  <2>1. CASE Signal \/ \E c \in Clients : StopClient(c)
    BY <2>1 DEF Signal, Walk, StopClient, Visit, Quiet
  <2>2. CASE ClientStopped \/ StopManager
    BY <2>2 DEF ClientStopped, StopManager, Quiet
  <2>3. CASE ManagerStopped
    BY <2>3 DEF ManagerStopped, Walk, Quiet
  <2>4. CASE (\E s \in Streams : StopThread(s)) \/ ThreadStopped \/ StopHub \/ HubStopped
    BY <2>4 DEF StopThread, Visit, ThreadStopped, StopHub, HubStopped, Quiet
  <2>5. CASE Exit
    BY <1>1, <2>5 DEF Exit
  <2> QED BY <1>2, <2>1, <2>2, <2>3, <2>4, <2>5 DEF Main
<1>3. ASSUME NEW c \in Clients, Client(c) \/ RegisterClient(c) \/ Ask(c) \/ ListenerEnds(c)
      PROVE  Quiet'
  BY <1>3
  DEF Client, RegisterClient, Ask, ListenerEnds, PostSub, LeaverPosts, SenderWrites, SenderEnds, Quiet
<1>4. CASE Hub
  <2>1. CASE KillNothing
    BY <1>1, <2>1 DEF KillNothing
  <2>2. CASE ~KillNothing
    <3>1. UNCHANGED <<main, manager, task>>
      BY <1>4, <2>2
      DEF Hub, TakeRegister, StartClient, TakeSub, PostQuery, TakeUnregister, TakeNotice, TakeBar,
          Send, FinishSend, HubEnds
    <3> QED BY <3>1 DEF Quiet
  <2> QED BY <2>1, <2>2
<1>5. ASSUME NEW t \in Threads, Thread(t) PROVE Quiet'
  <2>1. CASE ThreadDies(t)
    BY <1>1, <2>1 DEF ThreadDies
  <2>2. CASE ~ThreadDies(t)
    BY <1>5, <2>2 DEF Thread, ThreadBegins, Emit, SendBar, ThreadEnds, Quiet
  <2> QED BY <2>1, <2>2
<1>6. CASE Hydration
  <2>1. CASE TakeQuery \/ ManagerEnds
    BY <2>1 DEF TakeQuery, ManagerEnds, Quiet
  <2>2. ASSUME NEW s \in Streams, FetchEnds(s) \/ Insert(s) \/ Announce(s) PROVE Quiet'
    <3>1. task[s] # "none" /\ main' = main
      BY <2>2 DEF FetchEnds, Insert, Announce
    <3> QED BY <3>1 DEF Quiet
  <2>3. ASSUME NEW s \in Streams, FetchDies(s) \/ InsertDies(s) PROVE Quiet'
    BY <1>1, <2>3 DEF FetchDies, InsertDies
  <2> QED BY <1>6, <2>1, <2>2, <2>3 DEF Hydration
<1>7. CASE UNCHANGED vars
  BY <1>7 DEF vars, Quiet
<1>8. CASE MapRace
  BY <1>1, <1>8 DEF MapRace
<1> QED BY <1>2, <1>3, <1>4, <1>5, <1>6, <1>7, <1>8 DEF Next, Goroutine

\* A program that ends in good order cuts no task off: what they had fetched
\* is stored.
THEOREM NoTaskIsCutOff == Spec => []CleanExitStores
<1>1. Init => TypeOK /\ Quiet
  BY TypeInit DEF Init, Quiet
<1>2. (TypeOK /\ Quiet) /\ [Next]_vars => (TypeOK /\ Quiet)'
  BY TypeStep, QuietStep
<1>3. TypeOK /\ Quiet => CleanExitStores
  BY DEF Quiet, CleanExitStores
<1> QED BY <1>1, <1>2, <1>3, PTL DEF Spec
-----------------------------------------------------------------------------
(* Threads.  A thread of the table has been started, and a thread that has *)
(* been started is never started again: what the walk of the threads began *)
(* with cannot be mistaken for what comes later.                           *)
Walking == main \in {"threads", "thread", "hub", "http"}

Started == \A s \in Streams : table[s] # Nobody => loop[table[s]] # "none"

DueStarted == Walking => due \subseteq {t \in Threads : loop[t] # "none"}

WalkedSilent ==
  Walking =>
    \A t \in walked : t \in Threads /\ (Silent(t) \/ (main = "thread" /\ t = target /\ t \in stopping))

WalkComplete ==
  main \in {"hub", "http"} => \A s \in Streams : table[s] \in due => table[s] \in walked

WalkInv == Started /\ DueStarted /\ WalkedSilent /\ WalkComplete

LEMMA NobodyIsNoThread == Nobody \notin Threads
BY ShutdownAssumption DEF ShutdownAssumption

LEMMA ExitsWalk ==
  ASSUME NEW how, Exits(how)
  PROVE  WalkInv'
BY DEF Exits, WalkInv, Walking, Started, DueStarted, WalkedSilent, Silent, WalkComplete

LEMMA StartThreadWalk ==
  ASSUME TypeOK, WalkInv, NEW s \in Streams, StartThread(s), UNCHANGED mains
  PROVE  WalkInv'
<1>1. PICK n \in 1..MaxStarts :
         /\ loop[<<s, n>>] = "none"
         /\ loop' = [loop EXCEPT ![<<s, n>>] = "due"]
         /\ table' = [table EXCEPT ![s] = <<s, n>>]
  <2>1. PICK n \in 1..MaxStarts :
         /\ \A m \in 1..MaxStarts : loop[<<s, m>>] = "none" <=> m >= n
         /\ loop' = [loop EXCEPT ![<<s, n>>] = "due"]
         /\ table' = [table EXCEPT ![s] = <<s, n>>]
    BY DEF StartThread
  <2>2. n >= n
    BY Capacities
  <2> QED BY <2>1, <2>2
<1>2. <<s, n>> \in Threads
  BY DEF Threads
<1>3. stopping' = stopping /\ \A t \in Threads : loop[t] # "none" => loop'[t] = loop[t]
  <2>1. stopping' = stopping
    BY DEF StartThread
  <2> QED BY <1>1, <1>2, <2>1 DEF TypeOK
<1>4. loop'[<<s, n>>] = "due" /\ table'[s] = <<s, n>>
  BY <1>1, <1>2 DEF TypeOK
<1>5. \A r \in Streams : r # s => table'[r] = table[r]
  BY <1>1 DEF TypeOK
<1>6. Started'
  <2> SUFFICES ASSUME NEW r \in Streams, table'[r] # Nobody PROVE loop'[table'[r]] # "none"
    BY DEF Started
  <2>1. CASE r = s
    BY <1>4, <2>1
  <2>2. CASE r # s
    <3>1. table[r] \in Threads /\ loop[table[r]] # "none" /\ table'[r] = table[r]
      BY <1>5, <2>2 DEF TypeOK, WalkInv, Started
    <3> QED BY <1>3, <3>1
  <2> QED BY <2>1, <2>2
<1>7. main' = main /\ due' = due /\ walked' = walked /\ target' = target
  BY DEF mains
<1>8. DueStarted'
  BY <1>3, <1>7 DEF WalkInv, DueStarted, Walking
<1>9. WalkedSilent'
  BY <1>3, <1>7 DEF WalkInv, WalkedSilent, Walking, Silent
<1>10. WalkComplete'
  <2> SUFFICES ASSUME main \in {"hub", "http"}, NEW r \in Streams, table'[r] \in due
               PROVE  table'[r] \in walked
    BY <1>7 DEF WalkComplete
  <2>1. CASE r = s
    <3>1. due \subseteq {t \in Threads : loop[t] # "none"}
      BY DEF WalkInv, DueStarted, Walking
    <3> QED BY <1>1, <1>4, <2>1, <3>1
  <2>2. CASE r # s
    BY <1>5, <2>2 DEF WalkInv, WalkComplete
  <2> QED BY <2>1, <2>2
<1> QED BY <1>6, <1>8, <1>9, <1>10 DEF WalkInv

LEMMA MainWalk ==
  ASSUME TypeOK, WalkInv, Main \/ Signal
  PROVE  WalkInv'
<1> USE DEF peers, tables, hub, threads, hydration, mains
<1>1. CASE Signal \/ (\E c \in Clients : StopClient(c)) \/ ClientStopped \/ StopManager
  <2>1. ~Walking' /\ UNCHANGED <<table, loop, stopping>>
    BY <1>1 DEF Signal, Walk, StopClient, Visit, ClientStopped, StopManager, Walking
  <2> QED BY <2>1 DEF WalkInv, Walking, Started, DueStarted, WalkedSilent, Silent, WalkComplete
<1>2. CASE ManagerStopped
  <2>1. /\ main' = "threads" /\ due' = {table[s] : s \in Streams} \ {Nobody} /\ walked' = {}
        /\ UNCHANGED <<table, loop, stopping>>
    BY <1>2 DEF ManagerStopped, Walk
  <2>2. \A s \in Streams : table[s] # Nobody => table[s] \in Threads
    BY DEF TypeOK
  <2> QED BY <2>1, <2>2 DEF WalkInv, Walking, Started, DueStarted, WalkedSilent, Silent, WalkComplete
<1>3. ASSUME NEW s \in Streams, StopThread(s) PROVE WalkInv'
  <2>1. /\ main = "threads" /\ main' = "thread" /\ target' = table[s]
        /\ walked' = walked \cup {table[s]} /\ table[s] \in Threads
        /\ stopping' = stopping \cup {table[s]} /\ UNCHANGED <<due, table, loop>>
    BY <1>3 DEF StopThread, Visit, TypeOK
  <2>2. WalkedSilent'
    <3> SUFFICES ASSUME NEW t \in walked, t # table[s]
                 PROVE  t \in Threads /\ Silent(t)'
      BY <2>1 DEF Walking, WalkedSilent
    <3>1. t \in Threads /\ Silent(t)
      BY <2>1 DEF WalkInv, Walking, WalkedSilent
    <3> QED BY <2>1, <3>1 DEF Silent
  <2>3. Started' /\ DueStarted' /\ WalkComplete'
    BY <2>1 DEF WalkInv, Walking, Started, DueStarted, WalkComplete
  <2> QED BY <2>2, <2>3 DEF WalkInv
<1>4. CASE ThreadStopped
  <2>1. /\ main = "thread" /\ main' = "threads" /\ loop[target] \in {"due", "ended"}
        /\ UNCHANGED <<due, walked, table, loop, stopping>>
    BY <1>4 DEF ThreadStopped
  <2>2. WalkedSilent'
    <3> SUFFICES ASSUME NEW t \in walked PROVE t \in Threads /\ Silent(t)
      BY <2>1 DEF Walking, WalkedSilent, Silent
    <3>1. t \in Threads /\ (Silent(t) \/ (t = target /\ t \in stopping))
      BY <2>1 DEF WalkInv, Walking, WalkedSilent
    <3> QED BY <2>1, <3>1 DEF Silent
  <2>3. Started' /\ DueStarted' /\ WalkComplete'
    BY <2>1 DEF WalkInv, Walking, Started, DueStarted, WalkComplete
  <2> QED BY <2>2, <2>3 DEF WalkInv
<1>5. CASE StopHub \/ HubStopped
  <2>1. /\ main \in {"threads", "hub"} /\ main' \in {"hub", "http"}
        /\ \A s \in Streams : table[s] \in due => table[s] \in walked
        /\ UNCHANGED <<due, walked, target, table, loop, stopping>>
    BY <1>5 DEF StopHub, HubStopped, WalkInv, WalkComplete
  <2> QED BY <2>1 DEF WalkInv, Walking, Started, DueStarted, WalkedSilent, Silent, WalkComplete
<1>6. CASE Exit
  BY <1>6, ExitsWalk DEF Exit
<1> QED BY <1>1, <1>2, <1>3, <1>4, <1>5, <1>6 DEF Main

LEMMA HubWalk ==
  ASSUME TypeOK, WalkInv, Hub
  PROVE  WalkInv'
<1> USE DEF peers, tables, hub, threads, hydration
<1>1. ASSUME NEW s \in Streams, TakeSub(s) PROVE WalkInv'
  <2>1. CASE StartThread(s)
    BY <1>1, <2>1, StartThreadWalk DEF TakeSub
  <2>2. CASE UNCHANGED <<table, threads>>
    BY <1>1, <2>2
    DEF TakeSub, mains, WalkInv, Walking, Started, DueStarted, WalkedSilent, Silent, WalkComplete
  <2> QED BY <1>1, <2>1, <2>2 DEF TakeSub
<1>2. CASE TakeNotice
  <2>1. Head(notices) \in Streams /\ UNCHANGED mains
    BY <1>2, TailFacts, Capacities DEF TakeNotice, TypeOK
  <2>2. CASE StartThread(Head(notices))
    BY <2>1, <2>2, StartThreadWalk
  <2>3. CASE UNCHANGED <<table, threads>>
    BY <2>1, <2>3
    DEF mains, WalkInv, Walking, Started, DueStarted, WalkedSilent, Silent, WalkComplete
  <2> QED BY <1>2, <2>2, <2>3 DEF TakeNotice
<1>3. CASE TakeUnregister
  <2>1. /\ UNCHANGED <<mains, loop>> /\ stopping \subseteq stopping'
        /\ \A s \in Streams : table'[s] \in {table[s], Nobody}
    BY <1>3 DEF TakeUnregister, TypeOK
  <2>2. Started' /\ DueStarted' /\ WalkedSilent'
    BY <2>1 DEF mains, WalkInv, Walking, Started, DueStarted, WalkedSilent, Silent
  <2>3. WalkComplete'
    <3> SUFFICES ASSUME main \in {"hub", "http"}, NEW s \in Streams, table'[s] \in due
                 PROVE  table'[s] \in walked
      BY <2>1 DEF mains, WalkComplete
    <3>1. due \subseteq Threads
      BY DEF WalkInv, DueStarted, Walking
    <3>2. table'[s] = table[s]
      BY <2>1, <3>1, NobodyIsNoThread
    <3> QED BY <3>2 DEF WalkInv, WalkComplete
  <2> QED BY <2>2, <2>3 DEF WalkInv
<1>4. CASE KillNothing
  BY <1>4, ExitsWalk DEF KillNothing
<1>5. CASE \/ TakeRegister \/ StartClient \/ PostQuery \/ TakeBar
           \/ (\E c \in Clients : Send(c)) \/ FinishSend \/ HubEnds
  <2>1. UNCHANGED <<mains, table, loop, stopping>>
    BY <1>5 DEF TakeRegister, StartClient, PostQuery, TakeBar, Send, FinishSend, HubEnds
  <2> QED BY <2>1 DEF mains, WalkInv, Walking, Started, DueStarted, WalkedSilent, Silent, WalkComplete
<1> QED BY <1>1, <1>2, <1>3, <1>4, <1>5 DEF Hub

LEMMA WalkStep == TypeOK /\ WalkInv /\ [Next]_vars => WalkInv'
<1> SUFFICES ASSUME TypeOK, WalkInv, [Next]_vars PROVE WalkInv'
  OBVIOUS
<1>1. ASSUME UNCHANGED <<mains, table, loop, stopping>> PROVE WalkInv'
  BY <1>1 DEF mains, WalkInv, Walking, Started, DueStarted, WalkedSilent, Silent, WalkComplete
<1>2. ASSUME NEW c \in Clients, Client(c) \/ RegisterClient(c) \/ Ask(c) \/ ListenerEnds(c)
      PROVE  WalkInv'
  <2>1. UNCHANGED <<mains, table, loop, stopping>>
    BY <1>2
    DEF Client, RegisterClient, Ask, ListenerEnds, PostSub, LeaverPosts, SenderWrites, SenderEnds,
        tables, threads
  <2> QED BY <1>1, <2>1
<1>3. ASSUME NEW t \in Threads, Thread(t) PROVE WalkInv'
  <2>1. CASE ThreadDies(t)
    BY <2>1, ExitsWalk DEF ThreadDies
  <2>2. CASE ~ThreadDies(t)
    <3>1. /\ loop[t] \in {"due", "streams", "sends"} /\ UNCHANGED <<mains, table, stopping>>
          /\ \E l \in {"streams", "sends", "ended"} : loop' = [loop EXCEPT ![t] = l]
          /\ (loop[t] = "due" /\ t \in stopping) => loop' = [loop EXCEPT ![t] = "ended"]
      BY <1>3, <2>2 DEF Thread, ThreadBegins, Emit, SendBar, ThreadEnds, tables
    <3>2. /\ loop'[t] # "none" /\ (Silent(t) => loop'[t] = "ended")
          /\ \A u \in Threads : u # t => loop'[u] = loop[u]
      BY <3>1 DEF TypeOK, Silent
    <3>3. Started'
      <4> SUFFICES ASSUME NEW s \in Streams, table[s] # Nobody PROVE loop'[table[s]] # "none"
        BY <3>1 DEF Started
      <4>1. table[s] \in Threads /\ loop[table[s]] # "none"
        BY DEF TypeOK, WalkInv, Started
      <4> QED BY <3>2, <4>1
    <3>4. DueStarted' /\ WalkComplete'
      BY <3>1, <3>2 DEF mains, WalkInv, Walking, DueStarted, WalkComplete
    <3>5. \A u \in Threads : Silent(u) => Silent(u)'
      BY <3>1, <3>2 DEF Silent
    <3>6. WalkedSilent'
      BY <3>1, <3>5 DEF mains, WalkInv, Walking, WalkedSilent
    <3> QED BY <3>3, <3>4, <3>6 DEF WalkInv
  <2> QED BY <2>1, <2>2
<1>4. CASE Hydration
  <2>1. ASSUME NEW s \in Streams, FetchDies(s) \/ InsertDies(s) PROVE WalkInv'
    BY <2>1, ExitsWalk DEF FetchDies, InsertDies
  <2>2. CASE \/ TakeQuery \/ ManagerEnds
             \/ \E s \in Streams : FetchEnds(s) \/ Insert(s) \/ Announce(s)
    <3>1. UNCHANGED <<mains, table, loop, stopping>>
      BY <2>2 DEF TakeQuery, ManagerEnds, FetchEnds, Insert, Announce, tables, threads
    <3> QED BY <1>1, <3>1
  <2> QED BY <1>4, <2>1, <2>2 DEF Hydration
<1>5. CASE UNCHANGED vars
  BY <1>1, <1>5 DEF vars, tables, threads
<1>6. CASE MapRace
  BY <1>6, ExitsWalk DEF MapRace
<1> QED BY <1>2, <1>3, <1>4, <1>5, <1>6, MainWalk, HubWalk DEF Next, Goroutine

\* The threads that were in the table when their walk began and are still in it
\* send nothing more once the hub is told to stop: each has ended, or ends as
\* soon as it begins.
THEOREM ThreadsAreStoppedFirst == Spec => []ThreadsWereSilenced
<1>1. Init => TypeOK /\ WalkInv
  <2>1. Init => WalkInv
    BY DEF Init, WalkInv, Walking, Started, DueStarted, WalkedSilent, Silent, WalkComplete
  <2> QED BY <2>1, TypeInit
<1>2. (TypeOK /\ WalkInv) /\ [Next]_vars => (TypeOK /\ WalkInv)'
  BY TypeStep, WalkStep
<1>3. WalkInv => ThreadsWereSilenced
  <2> SUFFICES ASSUME WalkInv, main \in {"hub", "http"}, NEW s \in Streams, table[s] \in due
               PROVE  Silent(table[s])
    BY DEF ThreadsWereSilenced
  <2>1. table[s] \in walked
    BY DEF WalkInv, WalkComplete
  <2> QED BY <2>1 DEF WalkInv, WalkedSilent, Walking
<1> QED BY <1>1, <1>2, <1>3, PTL DEF Spec
-----------------------------------------------------------------------------
(* Who waits for whom.  The hub does not end before the main goroutine     *)
(* comes to it, and whoever is waited for was told to stop before.         *)
TargetInv ==
  /\ op = "ended" => main \in {"hub", "http"}
  /\ main = "client" => target \in cancelled
  /\ main = "thread" => target \in stopping /\ loop[target] # "none"

LEMMA ExitsTarget ==
  ASSUME NEW how, Exits(how)
  PROVE  TargetInv'
BY DEF Exits, TargetInv

\* No step of another goroutine takes back what the main goroutine has done.
LEMMA KeepsTarget ==
  ASSUME TypeOK, TargetInv, UNCHANGED mains,
         op' = "ended" => op = "ended" \/ HubCancelled,
         cancelled \subseteq cancelled', stopping \subseteq stopping',
         \A t \in Threads : loop[t] # "none" => loop'[t] # "none"
  PROVE  TargetInv'
<1>1. main' = main /\ target' = target
  BY DEF mains
<1>2. op' = "ended" => main' \in {"hub", "http"}
  BY <1>1 DEF TargetInv, HubCancelled
<1>3. main' = "client" => target' \in cancelled'
  BY <1>1 DEF TargetInv
<1>4. main' = "thread" => target' \in stopping' /\ loop'[target'] # "none"
  BY <1>1 DEF TargetInv, TypeOK
<1> QED BY <1>2, <1>3, <1>4 DEF TargetInv

LEMMA StartKeepsLoops ==
  ASSUME TypeOK, NEW s \in Streams, StartThread(s)
  PROVE  \A t \in Threads : loop[t] # "none" => loop'[t] # "none"
<1>1. PICK n \in 1..MaxStarts : loop' = [loop EXCEPT ![<<s, n>>] = "due"]
  BY DEF StartThread
<1> QED BY <1>1 DEF TypeOK

LEMMA MainTarget ==
  ASSUME TypeOK, WalkInv, TargetInv, Main \/ Signal
  PROVE  TargetInv'
<1> USE DEF peers, tables, hub, threads, hydration
<1>1. CASE Signal \/ ClientStopped \/ StopManager \/ ManagerStopped \/ ThreadStopped
  BY <1>1 DEF Signal, Walk, ClientStopped, StopManager, ManagerStopped, ThreadStopped, TargetInv
<1>2. ASSUME NEW c \in Clients, StopClient(c) PROVE TargetInv'
  BY <1>2 DEF StopClient, Visit, TargetInv
<1>3. ASSUME NEW s \in Streams, StopThread(s) PROVE TargetInv'
  <2>1. table[s] # Nobody
    BY <1>3 DEF StopThread
  <2>2. loop[table[s]] # "none"
    BY <2>1 DEF WalkInv, Started
  <2> QED BY <1>3, <2>2 DEF StopThread, Visit, TargetInv
<1>4. CASE StopHub \/ HubStopped
  BY <1>4 DEF StopHub, HubStopped, TargetInv
<1>5. CASE Exit
  BY <1>5, ExitsTarget DEF Exit
<1> QED BY <1>1, <1>2, <1>3, <1>4, <1>5 DEF Main

LEMMA HubTarget ==
  ASSUME TypeOK, TargetInv, Hub
  PROVE  TargetInv'
<1> USE DEF peers, tables, hub, threads, hydration
<1>1. ASSUME NEW s \in Streams, TakeSub(s) PROVE TargetInv'
  <2>1. UNCHANGED <<mains, cancelled>> /\ stopping' = stopping /\ op' # "ended"
    BY <1>1 DEF TakeSub, Take, HubIdle, StartThread
  <2>2. \A t \in Threads : loop[t] # "none" => loop'[t] # "none"
    BY <1>1, StartKeepsLoops DEF TakeSub
  <2> QED BY <2>1, <2>2, KeepsTarget
<1>2. CASE TakeNotice
  <2>1. UNCHANGED <<mains, cancelled, op>> /\ stopping' = stopping
    BY <1>2 DEF TakeNotice, StartThread
  <2>2. Head(notices) \in Streams
    BY <1>2, TailFacts, Capacities DEF TakeNotice, TypeOK
  <2>3. \A t \in Threads : loop[t] # "none" => loop'[t] # "none"
    BY <1>2, <2>2, StartKeepsLoops DEF TakeNotice
  <2> QED BY <2>1, <2>3, KeepsTarget
<1>3. CASE KillNothing
  BY <1>3, ExitsTarget DEF KillNothing
<1>4. CASE \/ TakeRegister \/ StartClient \/ PostQuery \/ TakeUnregister \/ TakeBar
           \/ (\E c \in Clients : Send(c)) \/ FinishSend \/ HubEnds
  <2>1. UNCHANGED <<mains, cancelled, loop>> /\ stopping \subseteq stopping'
    BY <1>4
    DEF TakeRegister, StartClient, PostQuery, TakeUnregister, TakeBar, Send, FinishSend, HubEnds
  <2>2. op' = "ended" => op = "ended" \/ HubCancelled
    BY <1>4
    DEF TakeRegister, StartClient, PostQuery, TakeUnregister, TakeBar, Send, FinishSend, HubEnds
  <2> QED BY <2>1, <2>2, KeepsTarget
<1> QED BY <1>1, <1>2, <1>3, <1>4 DEF Hub

LEMMA TargetStep == TypeOK /\ WalkInv /\ TargetInv /\ [Next]_vars => TargetInv'
<1> SUFFICES ASSUME TypeOK, WalkInv, TargetInv, [Next]_vars PROVE TargetInv'
  OBVIOUS
<1> USE DEF peers, tables, hub, threads, hydration
<1>1. ASSUME NEW c \in Clients, Client(c) \/ RegisterClient(c) \/ Ask(c) \/ ListenerEnds(c)
      PROVE  TargetInv'
  <2>1. UNCHANGED <<mains, op, stopping, loop>> /\ cancelled \subseteq cancelled'
    BY <1>1
    DEF Client, RegisterClient, Ask, ListenerEnds, PostSub, LeaverPosts, SenderWrites, SenderEnds
  <2> QED BY <2>1, KeepsTarget
<1>2. ASSUME NEW t \in Threads, Thread(t) PROVE TargetInv'
  <2>1. CASE ThreadDies(t)
    BY <2>1, ExitsTarget DEF ThreadDies
  <2>2. CASE ~ThreadDies(t)
    <3>1. /\ UNCHANGED <<mains, op, stopping, cancelled>>
          /\ \E l \in {"streams", "sends", "ended"} : loop' = [loop EXCEPT ![t] = l]
      BY <1>2, <2>2 DEF Thread, ThreadBegins, Emit, SendBar, ThreadEnds
    <3>2. \A u \in Threads : loop[u] # "none" => loop'[u] # "none"
      BY <3>1 DEF TypeOK
    <3> QED BY <3>1, <3>2, KeepsTarget
  <2> QED BY <2>1, <2>2
<1>3. CASE Hydration
  <2>1. ASSUME NEW s \in Streams, FetchDies(s) \/ InsertDies(s) PROVE TargetInv'
    BY <2>1, ExitsTarget DEF FetchDies, InsertDies
  <2>2. CASE \/ TakeQuery \/ ManagerEnds
             \/ \E s \in Streams : FetchEnds(s) \/ Insert(s) \/ Announce(s)
    <3>1. UNCHANGED <<mains, op, stopping, cancelled, loop>>
      BY <2>2 DEF TakeQuery, ManagerEnds, FetchEnds, Insert, Announce
    <3> QED BY <3>1, KeepsTarget
  <2> QED BY <1>3, <2>1, <2>2 DEF Hydration
<1>4. CASE UNCHANGED vars
  BY <1>4, KeepsTarget DEF vars
<1>5. CASE MapRace
  BY <1>5, ExitsTarget DEF MapRace
<1> QED BY <1>1, <1>2, <1>3, <1>4, <1>5, MainTarget, HubTarget DEF Next, Goroutine

\* A hub that is neither stuck nor over takes what is waiting for it.
LEMMA HubTakesOn ==
  ASSUME TypeOK, ~HubStuck, op # "ended",
         HubCancelled \/ inbox # <<>> \/ notices # <<>> \/ bars # <<>>
  PROVE  HubGoesOn
<1>1. CASE op \in {"idle", "start"}
  BY <1>1 DEF HubGoesOn
<1>2. CASE op = "asking"
  <2>1. Len(queries) <= QueryCap /\ Len(queries) \in Nat /\ QueryCap \in Nat \ {0}
    BY ShutdownAssumption DEF ShutdownAssumption, TypeOK
  <2>2. Len(queries) = QueryCap => queries # <<>> /\ manager = "on"
    <3>1. queries = <<>> => Len(queries) = 0
      BY EmptyFacts
    <3>2. Len(queries) = QueryCap => manager = "on"
      BY <1>2 DEF HubStuck, TypeOK
    <3> QED BY <2>1, <3>1, <3>2
  <2> QED BY <1>2, <2>1, <2>2 DEF HubGoesOn
<1>3. CASE op = "sending"
  <2> SUFFICES ASSUME NEW c \in to, "sender" \notin running[c] PROVE outbox[c] < OutboxCap
    BY <1>3 DEF HubGoesOn
  <2>1. outbox[c] # OutboxCap
    BY <1>3 DEF HubStuck
  <2>2. outbox[c] \in 0..OutboxCap /\ OutboxCap \in Nat
    BY Capacities DEF TypeOK
  <2> QED BY <2>1, <2>2
<1> QED BY <1>1, <1>2, <1>3 DEF TypeOK

\* A channel that is full is not empty.
LEMMA FullIsNotEmpty ==
  ASSUME NEW S, NEW q \in Seq(S), NEW cap \in Nat \ {0}, ~(Len(q) < cap)
  PROVE  q # <<>>
OBVIOUS

\* At every place of the shutdown what the main goroutine waits for goes on,
\* unless the hub is stuck: the part of ShutdownEnds that is about every state.
THEOREM NobodyWaitsInACircle == Spec => []ShutdownGoesOn
<1>1. Init => TargetInv
  BY DEF Init, TargetInv
<1>2. Init => WalkInv
  BY DEF Init, WalkInv, Walking, Started, DueStarted, WalkedSilent, WalkComplete
<1>3. TypeOK /\ TargetInv => ShutdownGoesOn
  <2> SUFFICES ASSUME TypeOK, TargetInv, ~HubStuck
               PROVE  /\ main = "client" => ClientGoesOn(target)
                      /\ main = "manager" => ManagerGoesOn
                      /\ main = "thread" => ThreadGoesOn(target)
                      /\ main = "hub" => op = "ended" \/ HubGoesOn
    BY DEF ShutdownGoesOn
  <2>1. main \in {"client", "manager", "thread"} => op # "ended"
    BY DEF TargetInv
  <2>2. ASSUME op # "ended" PROVE PostGoesOn
    <3>1. CASE inbox # <<>>
      BY <2>2, <3>1, HubTakesOn DEF PostGoesOn
    <3>2. CASE inbox = <<>>
      BY <3>2, FullIsNotEmpty, ShutdownAssumption DEF ShutdownAssumption, TypeOK, PostGoesOn
    <3> QED BY <3>1, <3>2
  <2>3. ASSUME main = "client" PROVE ClientGoesOn(target)
    <3>1. target \in cancelled /\ PostGoesOn
      BY <2>1, <2>2, <2>3 DEF TargetInv
    <3>2. target \in Clients
      BY <2>3 DEF TypeOK
    <3>3. running[target] \subseteq Goroutines
      BY <3>2 DEF TypeOK
    <3> QED BY <3>1, <3>3 DEF ClientGoesOn, Goroutines
  <2>4. ASSUME main = "manager" PROVE ManagerGoesOn
    <3>1. ManagerCancelled
      BY <2>4 DEF ManagerCancelled
    <3>2. Len(notices) < NoticeCap \/ HubGoesOn
      <4>1. CASE notices # <<>>
        BY <2>1, <2>4, <4>1, HubTakesOn
      <4>2. CASE notices = <<>>
        BY <4>2, FullIsNotEmpty, ShutdownAssumption DEF ShutdownAssumption, TypeOK
      <4> QED BY <4>1, <4>2
    <3> QED BY <3>1, <3>2 DEF ManagerGoesOn
  <2>5. ASSUME main = "thread" PROVE ThreadGoesOn(target)
    <3>1. target \in stopping /\ loop[target] \in {"due", "streams", "sends", "ended"}
      BY <2>5 DEF TargetInv, TypeOK
    <3>2. Len(bars) < BarCap \/ HubGoesOn
      <4>1. CASE bars # <<>>
        BY <2>1, <2>5, <4>1, HubTakesOn
      <4>2. CASE bars = <<>>
        BY <4>2, FullIsNotEmpty, ShutdownAssumption DEF ShutdownAssumption, TypeOK
      <4> QED BY <4>1, <4>2
    <3> QED BY <3>1, <3>2 DEF ThreadGoesOn
  <2>6. ASSUME main = "hub" PROVE op = "ended" \/ HubGoesOn
    BY <2>6, HubTakesOn DEF HubCancelled
  <2> QED BY <2>3, <2>4, <2>5, <2>6
<1>4. (TypeOK /\ WalkInv /\ TargetInv) /\ [Next]_vars => (TypeOK /\ WalkInv /\ TargetInv)'
  BY TypeStep, WalkStep, TargetStep
<1> QED BY <1>1, <1>2, <1>3, <1>4, TypeInit, PTL DEF Spec
-----------------------------------------------------------------------------
(* Clients.  Only its own request to be unregistered takes a client out of *)
(* the table, and the goroutine that posts it is started with the client.  *)
HasLeft(c) == \E i \in 1..Len(inbox) : inbox[i] = Request("unregister", c)

LEMMA PostedStays ==
  ASSUME TypeOK, NEW c, HasLeft(c), NEW d \in Clients,
         NEW kind \in {"register", "sub", "unregister"}, Post(Request(kind, d))
  PROVE  HasLeft(c)'
<1>1. PICK i \in 1..Len(inbox) : inbox[i] = Request("unregister", c)
  BY DEF HasLeft
<1>2. inbox' = Append(inbox, Request(kind, d)) /\ inbox \in Seq(Requests) /\ Request(kind, d) \in Requests
  BY DEF Post, TypeOK, Request, Requests
<1>3. i \in 1..Len(inbox') /\ inbox'[i] = inbox[i]
  BY <1>2
<1>4. Request("unregister", c)' = Request("unregister", c)
  BY DEF Request
<1> QED BY <1>1, <1>3, <1>4 DEF HasLeft

LEMMA LastIsPosted ==
  ASSUME TypeOK, NEW c \in Clients, Post(Request("unregister", c))
  PROVE  HasLeft(c)'
<1>1. /\ inbox' = Append(inbox, Request("unregister", c)) /\ inbox \in Seq(Requests)
      /\ Request("unregister", c) \in Requests
  BY DEF Post, TypeOK, Request, Requests
<1>2. Len(inbox') \in 1..Len(inbox') /\ inbox'[Len(inbox')] = Request("unregister", c)
  BY <1>1
<1> QED BY <1>2 DEF HasLeft, Request

LEMMA TakenLeavesTheRest ==
  ASSUME TypeOK, NEW c, HasLeft(c), inbox # <<>>, inbox' = Tail(inbox),
         Head(inbox) # Request("unregister", c)
  PROVE  HasLeft(c)'
<1>1. PICK i \in 1..Len(inbox) : inbox[i] = Request("unregister", c)
  BY DEF HasLeft
<1>2. inbox \in Seq(Requests) /\ Head(inbox) = inbox[1]
  BY DEF TypeOK
<1>3. i # 1
  BY <1>1, <1>2
<1>4. i - 1 \in 1..Len(inbox') /\ inbox'[i - 1] = inbox[i]
  BY <1>2, <1>3
<1> QED BY <1>1, <1>4 DEF HasLeft, Request

CanLeave(c) == "leaver" \in running[c] \/ (op = "start" /\ about = c) \/ HasLeft(c)

LEMMA CanLeaveIsAll == TableClientsCanLeave <=> \A c \in clientsSet : CanLeave(c)
BY DEF TableClientsCanLeave, CanLeave, HasLeft

LEMMA ClientKeepsWay ==
  ASSUME TypeOK, NEW c \in Clients, CanLeave(c), NEW d \in Clients,
         Client(d) \/ RegisterClient(d) \/ Ask(d) \/ ListenerEnds(d)
  PROVE  CanLeave(c)'
<1> USE DEF hub
<1>1. CASE RegisterClient(d) \/ PostSub(d)
  <2>1. HasLeft(c) => HasLeft(c)'
    BY <1>1, PostedStays DEF RegisterClient, PostSub
  <2> QED BY <1>1, <2>1 DEF RegisterClient, PostSub, CanLeave
<1>2. CASE LeaverPosts(d)
  <2>1. CASE c = d
    <3>1. HasLeft(c)'
      BY <1>2, <2>1, LastIsPosted DEF LeaverPosts
    <3> QED BY <3>1 DEF CanLeave
  <2>2. CASE c # d
    <3>1. HasLeft(c) => HasLeft(c)'
      BY <1>2, PostedStays DEF LeaverPosts
    <3>2. running'[c] = running[c] /\ UNCHANGED <<op, about>>
      BY <1>2, <2>2 DEF LeaverPosts, Ends, TypeOK
    <3> QED BY <3>1, <3>2 DEF CanLeave
  <2> QED BY <2>1, <2>2
<1>3. CASE Ask(d) \/ SenderWrites(d) \/ ListenerEnds(d) \/ SenderEnds(d)
  <2>1. UNCHANGED <<op, about, inbox>>
    BY <1>3 DEF Ask, SenderWrites, ListenerEnds, SenderEnds
  <2>2. "leaver" \in running[c] => "leaver" \in running'[c]
    <3>1. CASE Ask(d) \/ SenderWrites(d)
      BY <3>1 DEF Ask, SenderWrites
    <3>2. CASE ListenerEnds(d) \/ SenderEnds(d)
      <4>1. PICK g \in {"listener", "sender"} : running' = [running EXCEPT ![d] = @ \ {g}]
        BY <3>2 DEF ListenerEnds, SenderEnds, Ends
      <4>2. running \in [Clients -> SUBSET Goroutines] /\ g # "leaver"
        BY <4>1 DEF TypeOK
      <4> QED BY <4>1, <4>2
    <3> QED BY <1>3, <3>1, <3>2
  <2> QED BY <2>1, <2>2 DEF CanLeave, HasLeft, Request
<1> QED BY <1>1, <1>2, <1>3 DEF Client

LEMMA TakenKeepsWay ==
  ASSUME TypeOK, NEW c, CanLeave(c), NEW kind, Take(kind),
         kind # "unregister" \/ Asker # c, running' = running
  PROVE  CanLeave(c)'
<1>1. op # "start"
  BY DEF Take, HubIdle
<1>2. ASSUME HasLeft(c) PROVE HasLeft(c)'
  <2>1. Head(inbox) # Request("unregister", c)
    BY DEF Take, Asker, Request
  <2> QED BY <1>2, <2>1, TakenLeavesTheRest DEF Take
<1> QED BY <1>1, <1>2 DEF CanLeave

LEMMA HubKeepsWays ==
  ASSUME TypeOK, TableClientsCanLeave, Hub
  PROVE  TableClientsCanLeave'
<1> USE DEF peers, tables, hub, threads, hydration
<1> SUFFICES ASSUME NEW c \in clientsSet' PROVE CanLeave(c)'
  BY DEF TableClientsCanLeave, CanLeave, HasLeft
<1>1. c \in clientsSet => CanLeave(c) /\ c \in Clients
  BY CanLeaveIsAll DEF TypeOK
<1>2. CASE TakeRegister
  <2>1. CASE c = Asker
    BY <1>2, <2>1 DEF TakeRegister, CanLeave
  <2>2. CASE c # Asker
    <3>1. c \in clientsSet
      BY <1>2, <2>2 DEF TakeRegister
    <3> QED BY <1>1, <1>2, <3>1, TakenKeepsWay DEF TakeRegister
  <2> QED BY <2>1, <2>2
<1>3. ASSUME NEW s \in Streams, TakeSub(s) PROVE CanLeave(c)'
  <2>1. c \in clientsSet
    BY <1>3 DEF TakeSub
  <2> QED BY <1>1, <1>3, <2>1, TakenKeepsWay DEF TakeSub
<1>4. CASE TakeUnregister
  <2>1. c \in clientsSet /\ c # Asker
    BY <1>4 DEF TakeUnregister
  <2> QED BY <1>1, <1>4, <2>1, TakenKeepsWay DEF TakeUnregister
<1>5. CASE StartClient
  <2>1. c \in clientsSet
    BY <1>5 DEF StartClient
  <2>2. CASE c = about
    BY <1>1, <1>5, <2>1, <2>2 DEF StartClient, CanLeave, Goroutines, TypeOK
  <2>3. CASE c # about
    <3>1. running'[c] = running[c] /\ inbox' = inbox
      BY <1>1, <1>5, <2>1, <2>3 DEF StartClient, TypeOK
    <3> QED BY <1>1, <2>1, <2>3, <3>1 DEF CanLeave, HasLeft, Request
  <2> QED BY <2>2, <2>3
<1>6. CASE KillNothing
  BY <1>6 DEF KillNothing, Exits
<1>7. CASE \/ PostQuery \/ TakeNotice \/ TakeBar
           \/ (\E d \in Clients : Send(d)) \/ FinishSend \/ HubEnds
  <2>1. UNCHANGED <<clientsSet, running, inbox>> /\ op # "start"
    BY <1>7 DEF PostQuery, TakeNotice, TakeBar, Send, FinishSend, HubEnds, HubIdle
  <2> QED BY <1>1, <2>1 DEF CanLeave, HasLeft, Request
<1> QED BY <1>2, <1>3, <1>4, <1>5, <1>6, <1>7 DEF Hub

LEMMA WaysStep == TypeOK /\ TableClientsCanLeave /\ [Next]_vars => TableClientsCanLeave'
<1> SUFFICES ASSUME TypeOK, TableClientsCanLeave, [Next]_vars PROVE TableClientsCanLeave'
  OBVIOUS
<1> USE DEF peers, tables, hub, threads, hydration
<1>1. ASSUME UNCHANGED <<clientsSet, running, inbox, op, about>> PROVE TableClientsCanLeave'
  BY <1>1 DEF TableClientsCanLeave, Request
<1>2. ASSUME NEW how, Exits(how) PROVE TableClientsCanLeave'
  BY <1>2 DEF Exits, TableClientsCanLeave
<1>3. CASE Main \/ Signal
  <2>1. CASE Exit
    BY <1>2, <2>1 DEF Exit
  <2>2. CASE ~Exit
    <3>1. UNCHANGED <<clientsSet, running, inbox, op, about>>
      BY <1>3, <2>2
      DEF Main, Signal, StopClient, ClientStopped, StopManager, ManagerStopped, StopThread,
          ThreadStopped, StopHub, HubStopped
    <3> QED BY <1>1, <3>1
  <2> QED BY <2>1, <2>2
<1>4. ASSUME NEW d \in Clients, Client(d) \/ RegisterClient(d) \/ Ask(d) \/ ListenerEnds(d)
      PROVE  TableClientsCanLeave'
  <2>1. clientsSet' = clientsSet
    BY <1>4
    DEF Client, RegisterClient, Ask, ListenerEnds, PostSub, LeaverPosts, SenderWrites, SenderEnds
  <2>2. ASSUME NEW c \in clientsSet PROVE CanLeave(c)'
    <3>1. c \in Clients /\ CanLeave(c)
      BY CanLeaveIsAll DEF TypeOK
    <3> QED BY <1>4, <3>1, ClientKeepsWay
  <2> QED BY <2>1, <2>2 DEF TableClientsCanLeave, CanLeave, HasLeft
<1>5. ASSUME NEW t \in Threads, Thread(t) PROVE TableClientsCanLeave'
  BY <1>1, <1>2, <1>5 DEF Thread, ThreadBegins, Emit, SendBar, ThreadEnds, ThreadDies
<1>6. CASE Hydration
  BY <1>1, <1>2, <1>6
  DEF Hydration, TakeQuery, ManagerEnds, FetchEnds, Insert, Announce, FetchDies, InsertDies
<1>7. CASE UNCHANGED vars
  BY <1>1, <1>7 DEF vars
<1>8. CASE MapRace
  BY <1>2, <1>8 DEF MapRace
<1> QED BY <1>3, <1>4, <1>5, <1>6, <1>7, <1>8, HubKeepsWays DEF Next, Goroutine

\* No client of the table loses its way out of it: the part of
\* CancelledAreUnregistered that is about every single step.
THEOREM UnregistrationsAreNotLost == Spec => []TableClientsCanLeave
<1>1. Init => TableClientsCanLeave
  BY DEF Init, TableClientsCanLeave
<1> QED BY <1>1, WaysStep, TypeCorrect, PTL DEF Spec
=============================================================================
