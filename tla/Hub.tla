-------------------------------- MODULE Hub --------------------------------
(***************************************************************************)
(* The hub: one goroutine that owns who is subscribed to what and which    *)
(* stream has a symbol thread.  It receives, in no order,                  *)
(*   - requests of the websocket clients, through one inbox,               *)
(*   - bars of the symbol threads, through broadcastInbox,                 *)
(*   - notices of the hydration manager,                                   *)
(*   - ticks of the clock, for the clients of the time stream,             *)
(* and passes messages on to the clients' outboxes, which block when full. *)
(* The loops of its handlers take one step per stream or per recipient.    *)
(* The threads and the settings appear as what the hub sees of them, and   *)
(* the hydration manager as the contract HydrationService, which           *)
(* HydrationManager is shown to keep.                                      *)
(***************************************************************************)
EXTENDS Naturals, Sequences, FiniteSets

CONSTANTS
  Clients, NoClient,
  Symbols, Types,    \* a stream is a type (A: seconds, AM: minutes) of a symbol
  TimeStream,        \* the pseudo stream TIMESTREAM
  Dates, NoDate,
  Leavers,           \* clients that may disconnect
  TimeAskers,        \* clients that may ask for the time stream
  InboxCap,          \* capacity of clientInbox (1024 in the code)
  OutboxCap,         \* capacity of a client's outbox (1024)
  NoticeCap,         \* capacity of the hydration manager's channel (1024)
  MaxRequest         \* bound on the streams of one request

Streams == Types \X Symbols
SymbolOf(s) == s[2]

ASSUME HubAssumption ==
  /\ NoClient \notin Clients /\ NoDate \notin Dates /\ TimeStream \notin Streams
  /\ Leavers \subseteq Clients /\ TimeAskers \subseteq Clients
  /\ InboxCap \in Nat \ {0} /\ OutboxCap \in Nat \ {0}

VARIABLES
  client,      \* where each client is, see ClientStates
  outbox,      \* number of messages in each client's outbox
  inbox,       \* clientInbox
  op,          \* what the hub's goroutine is doing
  who, todo, asOf,   \* its client, the streams left to do, the date it read
  to,          \* the <<stream, client>> sends left to do
  subscribed,  \* streamIDToSubbedClientsSet
  mine,        \* clientToSubbedStreamsSet
  timeSubs,    \* subbedToTimestream
  thread,      \* streamToThread: the date of the stream's thread
  killed,      \* streams that had a thread killed: broadcastInbox may still
               \* hold its bars, and its goroutine may still be sending some
  date,        \* the date of the settings
  stored, asked, notices,   \* see HydrationService
  failed,      \* history: streams whose subscribers were told of a failure
  panicked

peers == <<client, outbox, inbox>>
doing == <<op, who, todo, asOf, to>>
registry == <<subscribed, mine, timeSubs, thread>>
manager == <<stored, asked, notices>>
hydration == <<manager, failed>>
vars == <<peers, doing, registry, killed, date, hydration, panicked>>

\* A series is a symbol on a date.
Manager == INSTANCE HydrationService WITH Series <- Symbols \X Dates

ClientStates == {"none", "pending", "live", "closed", "leaving", "gone"}
Requested == Streams \cup {TimeStream}
Askable(c) == IF c \in TimeAskers THEN Requested ELSE Streams
Up == ~panicked
HubIdle == Up /\ op = "idle"

Message(kind, c, streams) == [kind |-> kind, client |-> c, streams |-> streams]
Post(m) == Len(inbox) < InboxCap /\ inbox' = Append(inbox, m)
-----------------------------------------------------------------------------
(* Websocket clients.                                                      *)
Connect(c) ==
  /\ Up /\ client[c] = "none"
  /\ Post(Message("register", c, {}))
  /\ client' = [client EXCEPT ![c] = "pending"]
  /\ UNCHANGED <<outbox, doing, registry, killed, date, hydration, panicked>>

Ask(c, kind, streams) ==
  /\ Up /\ client[c] = "live"
  /\ Post(Message(kind, c, streams))
  /\ UNCHANGED <<client, outbox, doing, registry, killed, date,
                 hydration, panicked>>

\* SenderThread takes the next message.
Drain(c) ==
  /\ Up /\ client[c] = "live" /\ outbox[c] > 0
  /\ outbox' = [outbox EXCEPT ![c] = @ - 1]
  /\ UNCHANGED <<client, inbox, doing, registry, killed, date,
                 hydration, panicked>>

\* The read fails: the listener stops and cancels the sender.
Disconnect(c) ==
  /\ Up /\ c \in Leavers /\ client[c] = "live"
  /\ client' = [client EXCEPT ![c] = "closed"]
  /\ UNCHANGED <<outbox, inbox, doing, registry, killed, date,
                 hydration, panicked>>

AskUnregister(c) ==
  /\ Up /\ client[c] = "closed"
  /\ Post(Message("unregister", c, {}))
  /\ client' = [client EXCEPT ![c] = "leaving"]
  /\ UNCHANGED <<outbox, doing, registry, killed, date, hydration, panicked>>
-----------------------------------------------------------------------------
(* Settings and hydration manager, from outside.                           *)
SetDate(d) ==
  /\ Up /\ date # d /\ date' = d
  /\ UNCHANGED <<peers, doing, registry, killed, hydration, panicked>>

\* The goroutines of the manager, and the HTTP handlers that hydrate.
Hydration(ManagerStep) ==
  /\ Up /\ ManagerStep
  /\ UNCHANGED <<peers, doing, registry, killed, date, failed, panicked>>

-----------------------------------------------------------------------------
(* The hub takes a request.                                                *)

\* Mutant: the select looks at the bars first, and at requests when there are
\* none.
TakeWhenQuiet(kind) ==
  /\ HubIdle /\ inbox # <<>> /\ Head(inbox).kind = kind /\ inbox' = Tail(inbox)
  /\ \A s \in Streams : thread[s] = NoDate /\ s \notin killed

Take(kind) == HubIdle /\ inbox # <<>> /\ Head(inbox).kind = kind /\ inbox' = Tail(inbox)
Asker == Head(inbox).client

TakeRegister ==
  /\ Take("register")
  /\ client' = [client EXCEPT ![Asker] = "live"]
  /\ UNCHANGED <<outbox, doing, registry, killed, date, hydration, panicked>>

TakeSub ==
  /\ Take("sub")
  /\ op' = "sub" /\ who' = Asker /\ todo' = Head(inbox).streams /\ asOf' = date
  /\ UNCHANGED <<client, outbox, to, registry, killed, date,
                 hydration, panicked>>

TakeUnsub ==
  /\ Take("unsub")
  /\ op' = "unsub" /\ who' = Asker /\ todo' = Head(inbox).streams
  /\ UNCHANGED <<client, outbox, asOf, to, registry, killed, date,
                 hydration, panicked>>

TakeUnregister ==
  /\ Take("unregister")
  /\ op' = "unregister" /\ who' = Asker /\ todo' = mine[Asker]
  /\ UNCHANGED <<client, outbox, asOf, to, registry, killed, date,
                 hydration, panicked>>
-----------------------------------------------------------------------------
(* handleSub, one stream: subscribe the client, then start the thread if   *)
(* there is none and the bars are there, or leave it to the notice.        *)
SubTimeStream ==
  /\ Up /\ op = "sub" /\ TimeStream \in todo
  /\ timeSubs' = timeSubs \cup {who}
  /\ todo' = todo \ {TimeStream}
  /\ UNCHANGED <<peers, op, who, asOf, to, subscribed, mine, thread,
                 killed, date, hydration, panicked>>

\* Mutant: the second index of the subscriptions is not maintained.
SubStreamOneIndex(s) ==
  /\ Up /\ op = "sub" /\ s \in todo
  /\ subscribed' = [subscribed EXCEPT ![s] = @ \cup {who}]
  /\ LET k == <<SymbolOf(s), asOf>> IN
       \/ thread[s] # NoDate /\ UNCHANGED <<thread, manager>>
       \/ thread[s] = NoDate /\ Manager!Confirm(k) /\ thread' = [thread EXCEPT ![s] = asOf]
       \/ thread[s] = NoDate /\ Manager!Query(k) /\ UNCHANGED thread
  /\ todo' = todo \ {s} /\ failed' = failed \ {s}
  /\ UNCHANGED <<peers, op, who, asOf, to, mine, timeSubs, killed, date, panicked>>

SubStream(s) ==
  /\ Up /\ op = "sub" /\ s \in todo
  /\ subscribed' = [subscribed EXCEPT ![s] = @ \cup {who}]
  /\ mine' = [mine EXCEPT ![who] = @ \cup {s}]
  /\ LET k == <<SymbolOf(s), asOf>> IN
       \/ thread[s] # NoDate /\ UNCHANGED <<thread, manager>>
       \/ thread[s] = NoDate /\ Manager!Confirm(k) /\ thread' = [thread EXCEPT ![s] = asOf]
       \/ thread[s] = NoDate /\ Manager!Query(k) /\ UNCHANGED thread
  /\ todo' = todo \ {s} /\ failed' = failed \ {s}
  /\ UNCHANGED <<peers, op, who, asOf, to, timeSubs, killed, date, panicked>>
-----------------------------------------------------------------------------
(* handleUnsub, one stream: when the last client leaves, kill the thread.  *)
(* killSymbolThread dereferences the thread without a test.                *)
UnsubTimeStream ==
  /\ Up /\ op = "unsub" /\ TimeStream \in todo
  /\ timeSubs' = timeSubs \ {who}
  /\ todo' = todo \ {TimeStream}
  /\ UNCHANGED <<peers, op, who, asOf, to, subscribed, mine, thread,
                 killed, date, hydration, panicked>>

\* Mutant: the thread outlives its last subscriber when he disconnects.
UnsubStreamKeepsThread(s) ==
  /\ Up /\ op \in {"unsub", "unregister"} /\ s \in todo
  /\ LET left == subscribed[s] \ {who}
         last == subscribed[s] # {} /\ left = {} /\ op = "unsub" IN
       /\ subscribed' = [subscribed EXCEPT ![s] = left]
       /\ panicked' = (last /\ thread[s] = NoDate)
       /\ thread' = IF last THEN [thread EXCEPT ![s] = NoDate] ELSE thread
       /\ killed' = IF last THEN killed \cup {s} ELSE killed
  /\ todo' = todo \ {s}
  /\ UNCHANGED <<peers, op, who, asOf, to, mine, timeSubs, date, hydration>>

UnsubStream(s) ==
  /\ Up /\ op \in {"unsub", "unregister"} /\ s \in todo
  /\ LET left == subscribed[s] \ {who}
         last == subscribed[s] # {} /\ left = {} IN
       /\ subscribed' = [subscribed EXCEPT ![s] = left]
       /\ panicked' = (last /\ thread[s] = NoDate)
       /\ thread' = IF last THEN [thread EXCEPT ![s] = NoDate] ELSE thread
       /\ killed' = IF last THEN killed \cup {s} ELSE killed
  /\ todo' = todo \ {s}
  /\ UNCHANGED <<peers, op, who, asOf, to, mine, timeSubs, date, hydration>>

\* The loop is over.  A client that unregistered is forgotten, except in
\* subbedToTimestream and in clientToSubbedStreamsSet.
FinishRequest ==
  /\ Up /\ op \in {"sub", "unsub", "unregister"} /\ todo = {}
  /\ client' = IF op = "unregister" THEN [client EXCEPT ![who] = "gone"] ELSE client
  /\ op' = "idle" /\ who' = NoClient /\ asOf' = NoDate
  /\ UNCHANGED <<outbox, inbox, todo, to, registry, killed, date,
                 hydration, panicked>>
-----------------------------------------------------------------------------
(* The hub takes a bar, a tick or a notice.                                *)

TakeBar(s) ==
  /\ HubIdle /\ (thread[s] # NoDate \/ s \in killed)
  /\ to' = {<<s, c>> : c \in subscribed[s]}
  /\ op' = "send"
  /\ UNCHANGED <<peers, who, todo, asOf, registry, killed, date, hydration, panicked>>

\* The clock ticks for ever: there may always be a tick.
TakeTick ==
  /\ HubIdle
  /\ to' = {<<TimeStream, c>> : c \in timeSubs}
  /\ op' = "send"
  /\ UNCHANGED <<peers, who, todo, asOf, registry, killed, date, hydration, panicked>>

Affected(k) == {s \in Streams : SymbolOf(s) = k[1]}

\* Mutant: a success is taken for the settings' date only.
TakeSuccessOfTheDay(k) ==
  /\ HubIdle /\ Manager!Take(Manager!Success(k))
  /\ thread' = [s \in Streams |->
       IF s \in Affected(k) /\ subscribed[s] # {} /\ thread[s] = NoDate /\ k[2] = date
       THEN k[2] ELSE thread[s]]
  /\ UNCHANGED <<peers, doing, subscribed, mine, timeSubs, killed, date, failed, panicked>>

\* Mutant: the thread is started for the date of the settings.
TakeSuccessForToday(k) ==
  /\ HubIdle /\ Manager!Take(Manager!Success(k))
  /\ thread' = [s \in Streams |->
       IF s \in Affected(k) /\ subscribed[s] # {} /\ thread[s] = NoDate THEN date ELSE thread[s]]
  /\ UNCHANGED <<peers, doing, subscribed, mine, timeSubs, killed, date, failed, panicked>>

\* The date of the notice becomes the thread's, whatever the settings say now.
TakeSuccess(k) ==
  /\ HubIdle /\ Manager!Take(Manager!Success(k))
  /\ thread' = [s \in Streams |->
       IF s \in Affected(k) /\ subscribed[s] # {} /\ thread[s] = NoDate THEN k[2] ELSE thread[s]]
  /\ UNCHANGED <<peers, doing, subscribed, mine, timeSubs, killed, date, failed, panicked>>

\* Mutant: a failure notice is logged and dropped.
TakeFailureQuietly(k) ==
  /\ HubIdle /\ Manager!Take(Manager!Failure(k))
  /\ UNCHANGED <<peers, doing, registry, killed, date, failed, panicked>>

TakeFailure(k) ==
  /\ HubIdle /\ Manager!Take(Manager!Failure(k))
  /\ to' = {x \in Affected(k) \X Clients : x[2] \in subscribed[x[1]]}
  /\ op' = "send"
  /\ failed' = failed \cup Affected(k)
  /\ UNCHANGED <<peers, who, todo, asOf, registry, killed, date, panicked>>

\* One blocking send to a client's outbox.
Send(s, c) ==
  /\ Up /\ op = "send" /\ <<s, c>> \in to /\ outbox[c] < OutboxCap
  /\ outbox' = [outbox EXCEPT ![c] = @ + 1]
  /\ to' = to \ {<<s, c>>}
  /\ UNCHANGED <<client, inbox, op, who, todo, asOf, registry, killed,
                 date, hydration, panicked>>

FinishSend ==
  /\ Up /\ op = "send" /\ to = {}
  /\ op' = "idle"
  /\ UNCHANGED <<peers, who, todo, asOf, to, registry, killed, date,
                 hydration, panicked>>
-----------------------------------------------------------------------------
Init ==
  /\ client = [c \in Clients |-> "none"] /\ outbox = [c \in Clients |-> 0]
  /\ inbox = <<>>
  /\ op = "idle" /\ who = NoClient /\ todo = {} /\ asOf = NoDate /\ to = {}
  /\ subscribed = [s \in Streams |-> {}] /\ mine = [c \in Clients |-> {}]
  /\ timeSubs = {} /\ thread = [s \in Streams |-> NoDate] /\ killed = {}
  /\ date \in Dates
  /\ Manager!Init /\ failed = {}
  /\ panicked = FALSE

ClientStep(c) ==
  \/ Connect(c) \/ Disconnect(c) \/ AskUnregister(c) \/ Drain(c)
  \/ \E kind \in {"sub", "unsub"}, streams \in SUBSET Askable(c) :
       Cardinality(streams) \in 1..MaxRequest /\ Ask(c, kind, streams)

OutsideStep == Hydration(Manager!ManagerStep) \/ \E d \in Dates : SetDate(d)

TakeRequest == TakeRegister \/ TakeSub \/ TakeUnsub \/ TakeUnregister
TakeNotice == \E k \in Symbols \X Dates : TakeSuccess(k) \/ TakeFailure(k)
Handle ==
  \/ SubTimeStream \/ UnsubTimeStream \/ FinishRequest \/ FinishSend
  \/ \E s \in Streams : SubStream(s) \/ UnsubStream(s)
  \/ \E s \in Requested, c \in Clients : Send(s, c)

Next ==
  \/ \E c \in Clients : ClientStep(c)
  \/ OutsideStep
  \/ TakeRequest \/ TakeTick \/ TakeNotice \/ \E s \in Streams : TakeBar(s)
  \/ Handle

Spec == Init /\ [][Next]_vars

\* The hub's select picks at random among what is ready, so each kind of
\* message is received in the end; channels serve in order.  A connected
\* client's sender runs.  Nothing is assumed of the hydration manager, nor of
\* what the clients ask for, nor that who has left is unregistered.
FairSpec ==
  /\ Spec
  /\ WF_vars(Handle) /\ SF_vars(TakeRequest)
  /\ \A c \in Clients : WF_vars(Drain(c))
  /\ \A k \in Symbols \X Dates : SF_vars(TakeSuccess(k) \/ TakeFailure(k))
-----------------------------------------------------------------------------
Messages == [kind : {"register", "sub", "unsub", "unregister"}, client : Clients,
             streams : SUBSET Requested]

\* No channel holds more than its capacity.
ChannelsOK ==
  /\ outbox \in [Clients -> Nat] /\ \A c \in Clients : outbox[c] <= OutboxCap
  /\ inbox \in Seq(Messages) /\ Len(inbox) <= InboxCap

\* Every variable has its type, and the channels their room.
TypeOK ==
  /\ client \in [Clients -> ClientStates] /\ ChannelsOK
  /\ panicked \in BOOLEAN
  /\ op \in {"idle", "sub", "unsub", "unregister", "send"}
  /\ who \in Clients \cup {NoClient} /\ asOf \in Dates \cup {NoDate}
  /\ op \in {"sub", "unsub", "unregister"} => who \in Clients
  /\ op = "sub" => asOf \in Dates
  /\ todo \subseteq Requested /\ to \subseteq Requested \X Clients
  /\ subscribed \in [Streams -> SUBSET Clients] /\ mine \in [Clients -> SUBSET Streams]
  /\ timeSubs \subseteq Clients
  /\ thread \in [Streams -> Dates \cup {NoDate}] /\ killed \subseteq Streams
  /\ date \in Dates
  /\ Manager!TypeOK /\ failed \subseteq Streams

\* No thread without an audience: a symbol thread is in the hub's table only
\* as long as its stream has a subscriber, however its subscribers left.
ThreadsHaveSubscribers ==
  \A s \in Streams : Up /\ thread[s] # NoDate => subscribed[s] # {}

\* A client that was unregistered is in no stream's subscribers, whatever it
\* had asked for before it disconnected, so nothing is sent to it for ever
\* after.  (Its time stream subscription does stay.)
GoneHasNoStream ==
  \A c \in Clients, s \in Streams : client[c] = "gone" => c \notin subscribed[s]

\* No subscription is forgotten: a stream that has subscribers and no thread
\* has its symbol at the hydration manager, which has sent no notice since, or
\* there is a notice about it on its way, or its subscribers were told of a
\* failure.  (What the manager does about it is AskedIsBacked there.)
Announced(k) == \E ok \in BOOLEAN : [ok |-> ok, key |-> k] \in notices
SubscriptionsArePending ==
  \A s \in Streams :
    Up /\ subscribed[s] # {} /\ thread[s] = NoDate =>
      \/ s \in failed
      \/ \E d \in Dates : LET k == <<SymbolOf(s), d>> IN k \in asked \/ Announced(k)

\* A symbol thread is only started on a session that is in the database, for
\* it takes what it finds there for the whole series: neither a date that was
\* changed while the symbol was hydrated, nor the failure of one hydration
\* with the success of another, gets it another date's.
ThreadsHaveSessions ==
  \A s \in Streams : thread[s] # NoDate => <<SymbolOf(s), thread[s]>> \in stored

\* The hub waits only for room in the outbox of a client that it has registered:
\* of one that is connected, or that has left and is still to be unregistered;
\* only for the time stream, of one that is gone.
Left(c) == c \in Leavers /\ client[c] \in {"closed", "leaving"}
SendsToItsClients ==
  \A x \in to :
    \/ client[x[2]] = "live" \/ Left(x[2])
    \/ x[1] = TimeStream /\ x[2] \in Leavers /\ client[x[2]] = "gone"

\* Who waits to be registered or to be unregistered has its request in the
\* inbox, or the hub is at it.
Posted(kind, c) == \E i \in 1..Len(inbox) : inbox[i].kind = kind /\ inbox[i].client = c
RequestsAreNotLost ==
  \A c \in Clients :
    /\ client[c] = "pending" => Posted("register", c)
    /\ client[c] = "leaving" => Posted("unregister", c) \/ (op = "unregister" /\ who = c)

\* The hub waits for room in the outbox of a client whose sender has ended:
\* from there it does not go on.
HubStuck ==
  \E x \in to : client[x[2]] \in {"closed", "leaving", "gone"} /\ outbox[x[2]] = OutboxCap

\* The hub keeps serving: who connects gets registered, whatever bars, ticks
\* and notices come.  Only the full outbox of a client that has left, which
\* may be the time stream's for ever after, keeps the hub from it.
ConnectingClientsAreServed ==
  \A c \in Clients : client[c] = "pending" ~> (client[c] = "live" \/ ~Up \/ HubStuck)

\* A notice on its way to a stream that has subscribers and no thread leads to
\* the thread or to a failure message, unless they unsubscribe first.  That a
\* notice comes is not said: the manager sends none for a query that has met
\* the hydration of an HTTP handler.
NoticesAreServed ==
  \A s \in Streams, d \in Dates :
    Announced(<<SymbolOf(s), d>>) /\ subscribed[s] # {} /\ thread[s] = NoDate ~>
      (thread[s] # NoDate \/ s \in failed \/ subscribed[s] = {} \/ ~Up \/ HubStuck)
-----------------------------------------------------------------------------
(* What a comment of the code says, and the code does not do.              *)

\* "If the no. clients subscribed to the stream is now 0, kill the stream
\* (symbol) thread": there is no thread to kill as long as the symbol is not
\* hydrated, and the hub dies of the nil pointer.
LastUnsubIsHandled == ~panicked
=============================================================================
