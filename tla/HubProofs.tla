----------------------------- MODULE HubProofs -----------------------------
(* Safety of Hub for any clients, symbols, types and dates, and any        *)
(* capacity of the inbox and of the outboxes.                              *)
EXTENDS Hub, TLAPS

(* What posting to the inbox and taking from it do to it.                  *)
LEMMA PostType ==
  ASSUME NEW S, NEW q \in Seq(S), NEW m \in S, NEW n \in Nat, Len(q) < n
  PROVE  /\ Append(q, m) \in Seq(S) /\ Len(Append(q, m)) = Len(q) + 1
         /\ Len(Append(q, m)) <= n
         /\ \A i \in 1..Len(q) : Append(q, m)[i] = q[i]
         /\ Append(q, m)[Len(q) + 1] = m
OBVIOUS

\* Taking the first request leaves an inbox of requests, no longer than it was.
LEMMA TakeType ==
  ASSUME NEW S, NEW q \in Seq(S), NEW n \in Nat, Len(q) <= n, q # <<>>
  PROVE  /\ Head(q) \in S /\ Head(q) = q[1] /\ Len(q) \in Nat \ {0}
         /\ Tail(q) \in Seq(S) /\ Len(Tail(q)) = Len(q) - 1 /\ Len(Tail(q)) <= n
         /\ \A i \in 1..Len(Tail(q)) : Tail(q)[i] = q[i + 1]
OBVIOUS

\* Clients ask for streams there are.
LEMMA AskableType == \A c \in Clients : \A streams \in SUBSET Askable(c) : streams \in SUBSET Requested
BY DEF Askable, Requested

(* The hub and its environment keep to the contract of the hydration       *)
(* manager.  A step is of the contract when the hub asks or takes a notice *)
(* and when the manager moves; all others leave it alone.                  *)
LEMMA NoticeType ==
  ASSUME NEW k \in Symbols \X Dates
  PROVE  Manager!Success(k) \in Manager!Notices /\ Manager!Failure(k) \in Manager!Notices
BY Zenon DEF Manager!Success, Manager!Failure, Manager!Notices

\* What handleSub does about one stream, as far as the manager is concerned.
LEMMA SubStreamContract ==
  ASSUME NEW s \in Streams, SubStream(s), op = "sub" => asOf \in Dates
  PROVE  [Manager!Next]_Manager!vars
<1>1. <<SymbolOf(s), asOf>> \in Symbols \X Dates
  BY DEF SubStream, Streams, SymbolOf
<1>2. \/ UNCHANGED manager
      \/ Manager!Confirm(<<SymbolOf(s), asOf>>)
      \/ Manager!Query(<<SymbolOf(s), asOf>>)
  BY DEF SubStream
<1> QED BY <1>1, <1>2 DEF manager, Manager!vars, Manager!Next, Manager!HubStep

\* Every step of the hub's world is one that the contract allows.
LEMMA ContractStep ==
  ASSUME op = "sub" => asOf \in Dates, [Next]_vars
  PROVE  [Manager!Next]_Manager!vars
<1>1. CASE UNCHANGED manager
  BY <1>1 DEF manager, Manager!vars
<1>2. ASSUME NEW s \in Streams, SubStream(s) PROVE [Manager!Next]_Manager!vars
  BY <1>2, SubStreamContract
<1>3. ASSUME NEW k \in Symbols \X Dates, TakeSuccess(k) \/ TakeFailure(k)
      PROVE  [Manager!Next]_Manager!vars
  BY <1>3, NoticeType DEF TakeSuccess, TakeFailure, Manager!Next, Manager!HubStep
<1>4. CASE Hydration(Manager!ManagerStep)
  BY <1>4 DEF Hydration, Manager!Next
<1>5. ASSUME NEW c \in Clients, ClientStep(c) PROVE UNCHANGED manager
  BY <1>5 DEF ClientStep, Connect, Ask, Drain, Disconnect, AskUnregister, hydration
<1>6. ASSUME NEW d \in Dates, SetDate(d) PROVE UNCHANGED manager
  BY <1>6 DEF SetDate, hydration
<1>7. CASE TakeRequest \/ TakeTick \/ \E s \in Streams : TakeBar(s)
  BY <1>1, <1>7
  DEF TakeRequest, TakeRegister, TakeSub, TakeUnsub, TakeUnregister, TakeTick, TakeBar, hydration
<1>8. CASE SubTimeStream \/ UnsubTimeStream \/ FinishRequest \/ FinishSend
  BY <1>1, <1>8 DEF SubTimeStream, UnsubTimeStream, FinishRequest, FinishSend, hydration
<1>9. ASSUME NEW s \in Streams, UnsubStream(s) PROVE UNCHANGED manager
  BY <1>9 DEF UnsubStream, hydration
<1>10. ASSUME NEW s \in Requested, NEW c \in Clients, Send(s, c) PROVE UNCHANGED manager
  BY <1>10 DEF Send, hydration
<1>11. CASE UNCHANGED vars
  BY <1>1, <1>11 DEF vars, hydration
<1> QED
  BY <1>1, <1>2, <1>3, <1>4, <1>5, <1>6, <1>7, <1>8, <1>9, <1>10, <1>11
  DEF Next, OutsideStep, TakeNotice, Handle

\* The contract keeps its own types, and announces only what is stored.
LEMMA ContractType ==
  ASSUME Manager!TypeOK, [Manager!Next]_Manager!vars
  PROVE  Manager!TypeOK'
<1> USE DEF Manager!TypeOK
<1>1. ASSUME NEW k \in Symbols \X Dates, Manager!Confirm(k) \/ Manager!Query(k) \/ Manager!Store(k)
      PROVE  Manager!TypeOK'
  BY <1>1 DEF Manager!Confirm, Manager!Query, Manager!Store, Manager!vars
<1>2. ASSUME NEW n \in Manager!Notices, Manager!Take(n) \/ Manager!Notify(n) PROVE Manager!TypeOK'
  BY <1>2 DEF Manager!Take, Manager!Notify
<1>3. CASE Manager!Restart
  BY <1>3 DEF Manager!Restart
<1>4. CASE UNCHANGED Manager!vars
  BY <1>4 DEF Manager!vars
<1> QED BY <1>1, <1>2, <1>3, <1>4 DEF Manager!Next, Manager!HubStep, Manager!ManagerStep

LEMMA ContractStored ==
  ASSUME Manager!OnlyStored, [Manager!Next]_Manager!vars
  PROVE  Manager!OnlyStored' /\ stored \subseteq stored'
<1> USE DEF Manager!OnlyStored
<1> DEFINE Goal == Manager!OnlyStored' /\ stored \subseteq stored'
<1>1. ASSUME NEW k \in Symbols \X Dates, Manager!Confirm(k) \/ Manager!Query(k) \/ Manager!Store(k)
      PROVE  Goal
  BY <1>1 DEF Manager!Confirm, Manager!Query, Manager!Store, Manager!vars
<1>2. ASSUME NEW n \in Manager!Notices, Manager!Take(n) \/ Manager!Notify(n) PROVE Goal
  BY <1>2 DEF Manager!Take, Manager!Notify
<1>3. CASE Manager!Restart
  BY <1>3 DEF Manager!Restart
<1>4. CASE UNCHANGED Manager!vars
  BY <1>4 DEF Manager!vars
<1> QED BY <1>1, <1>2, <1>3, <1>4 DEF Manager!Next, Manager!HubStep, Manager!ManagerStep

(* Every variable keeps its type, and the channels their capacity.         *)
LEMMA TypeStep == TypeOK /\ [Next]_vars => TypeOK'
<1> SUFFICES ASSUME TypeOK, [Next]_vars PROVE TypeOK'
  OBVIOUS
<1>0. Manager!TypeOK'
  BY ContractStep, ContractType DEF TypeOK
<1> USE <1>0, HubAssumption DEF HubAssumption, TypeOK, ChannelsOK, peers, doing, registry,
        hydration, HubIdle, ClientStates, Requested
<1>1. ASSUME NEW c \in Clients, Connect(c) PROVE TypeOK'
  <2>1. inbox' \in Seq(Messages) /\ Len(inbox') <= InboxCap
    BY <1>1, PostType DEF Connect, Post, Message, Messages
  <2> QED BY <1>1, <2>1 DEF Connect
<1>2. ASSUME NEW c \in Clients, NEW kind \in {"sub", "unsub"}, NEW streams \in SUBSET Requested,
           Ask(c, kind, streams) PROVE TypeOK'
  <2>1. inbox' \in Seq(Messages) /\ Len(inbox') <= InboxCap
    BY <1>2, PostType DEF Ask, Post, Message, Messages
  <2> QED BY <1>2, <2>1 DEF Ask
<1>3. ASSUME NEW c \in Clients, Drain(c) PROVE TypeOK'
  <2>1. ChannelsOK'
    BY <1>3 DEF Drain
  <2>2. UNCHANGED <<client, inbox, doing, registry, killed, date, hydration, panicked>>
    BY <1>3 DEF Drain
  <2> HIDE DEF ChannelsOK
  <2> QED BY <2>1, <2>2
<1>4. ASSUME NEW c \in Clients, Disconnect(c) PROVE TypeOK'
  BY <1>4 DEF Disconnect
<1>5. ASSUME NEW c \in Clients, AskUnregister(c) PROVE TypeOK'
  <2>1. inbox' \in Seq(Messages) /\ Len(inbox') <= InboxCap
    BY <1>5, PostType DEF AskUnregister, Post, Message, Messages
  <2> QED BY <1>5, <2>1 DEF AskUnregister
<1>6. ASSUME NEW d \in Dates, SetDate(d) PROVE TypeOK'
  BY <1>6 DEF SetDate
<1>7. CASE Hydration(Manager!ManagerStep)
  BY <1>7 DEF Hydration
<1>9. CASE TakeRegister
  <2>1. /\ inbox' \in Seq(Messages) /\ Len(inbox') <= InboxCap
        /\ Head(inbox) \in Messages
    BY <1>9, TakeType DEF TakeRegister, Take
  <2> QED BY <1>9, <2>1 DEF TakeRegister, Take, Asker, Messages
<1>10. CASE TakeSub
  <2>1. /\ inbox' \in Seq(Messages) /\ Len(inbox') <= InboxCap
        /\ Head(inbox) \in Messages
    BY <1>10, TakeType DEF TakeSub, Take
  <2> QED BY <1>10, <2>1 DEF TakeSub, Take, Asker, Messages
<1>11. CASE TakeUnsub
  <2>1. /\ inbox' \in Seq(Messages) /\ Len(inbox') <= InboxCap
        /\ Head(inbox) \in Messages
    BY <1>11, TakeType DEF TakeUnsub, Take
  <2> QED BY <1>11, <2>1 DEF TakeUnsub, Take, Asker, Messages
<1>12. CASE TakeUnregister
  <2>1. /\ inbox' \in Seq(Messages) /\ Len(inbox') <= InboxCap
        /\ Head(inbox) \in Messages
    BY <1>12, TakeType DEF TakeUnregister, Take
  <2> QED BY <1>12, <2>1 DEF TakeUnregister, Take, Asker, Messages
<1>13. CASE SubTimeStream
  BY <1>13 DEF SubTimeStream
<1>14. ASSUME NEW s \in Streams, SubStream(s) PROVE TypeOK'
  <2>1. op = "sub" /\ who \in Clients /\ asOf \in Dates /\ s # TimeStream
        /\ <<SymbolOf(s), asOf>> \in Symbols \X Dates
    BY <1>14 DEF SubStream, Streams, SymbolOf
  <2>2. /\ subscribed' \in [Streams -> SUBSET Clients] /\ mine' \in [Clients -> SUBSET Streams]
        /\ thread' \in [Streams -> Dates \cup {NoDate}]
        /\ todo' \subseteq Requested /\ failed' \subseteq Streams
    BY <1>14, <2>1 DEF SubStream
  <2> QED BY <1>14, <2>2 DEF SubStream
<1>15. CASE UnsubTimeStream
  BY <1>15 DEF UnsubTimeStream
<1>16. ASSUME NEW s \in Streams, UnsubStream(s) PROVE TypeOK'
  BY <1>16 DEF UnsubStream
<1>17. CASE FinishRequest
  BY <1>17 DEF FinishRequest
<1>18. ASSUME NEW s \in Streams, TakeBar(s) PROVE TypeOK'
  BY <1>18 DEF TakeBar
<1>19. CASE TakeTick
  BY <1>19 DEF TakeTick
<1>20. ASSUME NEW k \in Symbols \X Dates, TakeSuccess(k) PROVE TypeOK'
  BY <1>20 DEF TakeSuccess
<1>21. ASSUME NEW k \in Symbols \X Dates, TakeFailure(k) PROVE TypeOK'
  <2>1. to' \subseteq Requested \X Clients /\ Affected(k) \subseteq Streams
    BY <1>21 DEF TakeFailure, Affected
  <2>2. failed' \subseteq Streams
    BY <1>21, <2>1 DEF TakeFailure
  <2> QED BY <1>21, <2>1, <2>2 DEF TakeFailure
<1>22. ASSUME NEW s \in Requested, NEW c \in Clients, Send(s, c) PROVE TypeOK'
  <2>1. ChannelsOK'
    BY <1>22 DEF Send
  <2>2. to' \subseteq to
        /\ UNCHANGED <<client, inbox, op, who, todo, asOf, registry, killed, date,
                       hydration, panicked>>
    BY <1>22 DEF Send
  <2> HIDE DEF ChannelsOK
  <2> QED BY <2>1, <2>2
<1>23. CASE FinishSend
  BY <1>23 DEF FinishSend
<1>24. CASE UNCHANGED vars
  BY <1>24 DEF vars
<1> HIDE DEF TypeOK
<1> QED
  BY <1>1, <1>2, <1>3, <1>4, <1>5, <1>6, <1>7, <1>9, <1>10, <1>11,
     <1>12, <1>13, <1>14, <1>15, <1>16, <1>17, <1>18, <1>19, <1>20, <1>21,
     <1>22, <1>23, <1>24, AskableType
  DEF Next, ClientStep, OutsideStep, TakeRequest, TakeNotice, Handle

\* The hub starts with its variables typed.
LEMMA InitType == Init => TypeOK
<1> SUFFICES ASSUME Init PROVE TypeOK
  OBVIOUS
<1> USE HubAssumption DEF HubAssumption, Init
<1>1. outbox \in [Clients -> Nat] /\ \A c \in Clients : outbox[c] <= OutboxCap
  OBVIOUS
<1>2. inbox \in Seq(Messages) /\ Len(inbox) <= InboxCap
  OBVIOUS
<1>3. Manager!TypeOK
  BY DEF Manager!Init, Manager!TypeOK
<1> QED BY <1>1, <1>2, <1>3 DEF TypeOK, ChannelsOK, ClientStates, Requested

(* Every variable has its type in every reachable state.                  *)
THEOREM TypeCorrect == Spec => []TypeOK
BY InitType, TypeStep, PTL DEF Spec
-----------------------------------------------------------------------------
(* ThreadsHaveSubscribers is inductive: a thread is started for a stream   *)
(* that has a subscriber, and killed in the step that removes the last.    *)
LEMMA ThreadStep == TypeOK /\ ThreadsHaveSubscribers /\ [Next]_vars => ThreadsHaveSubscribers'
<1> SUFFICES ASSUME TypeOK, ThreadsHaveSubscribers, [Next]_vars PROVE ThreadsHaveSubscribers'
  OBVIOUS
<1> USE HubAssumption DEF HubAssumption, TypeOK, ThreadsHaveSubscribers, Up, peers, doing,
        registry, hydration, HubIdle
<1>1. ASSUME NEW c \in Clients, Connect(c) PROVE ThreadsHaveSubscribers'
  BY <1>1 DEF Connect
<1>2. ASSUME NEW c \in Clients, NEW kind \in {"sub", "unsub"}, NEW streams \in SUBSET Requested,
           Ask(c, kind, streams) PROVE ThreadsHaveSubscribers'
  BY <1>2 DEF Ask
<1>3. ASSUME NEW c \in Clients, Drain(c) PROVE ThreadsHaveSubscribers'
  BY <1>3 DEF Drain
<1>4. ASSUME NEW c \in Clients, Disconnect(c) PROVE ThreadsHaveSubscribers'
  BY <1>4 DEF Disconnect
<1>5. ASSUME NEW c \in Clients, AskUnregister(c) PROVE ThreadsHaveSubscribers'
  BY <1>5 DEF AskUnregister
<1>6. ASSUME NEW d \in Dates, SetDate(d) PROVE ThreadsHaveSubscribers'
  BY <1>6 DEF SetDate
<1>7. CASE Hydration(Manager!ManagerStep)
  BY <1>7 DEF Hydration
<1>9. CASE TakeRegister
  BY <1>9 DEF TakeRegister
<1>10. CASE TakeSub
  BY <1>10 DEF TakeSub
<1>11. CASE TakeUnsub
  BY <1>11 DEF TakeUnsub
<1>12. CASE TakeUnregister
  BY <1>12 DEF TakeUnregister
<1>13. CASE SubTimeStream
  BY <1>13 DEF SubTimeStream
<1>14. ASSUME NEW s \in Streams, SubStream(s) PROVE ThreadsHaveSubscribers'
  BY <1>14 DEF SubStream
<1>15. CASE UnsubTimeStream
  BY <1>15 DEF UnsubTimeStream
<1>16. ASSUME NEW s \in Streams, UnsubStream(s) PROVE ThreadsHaveSubscribers'
  BY <1>16 DEF UnsubStream
<1>17. CASE FinishRequest
  BY <1>17 DEF FinishRequest
<1>18. ASSUME NEW s \in Streams, TakeBar(s) PROVE ThreadsHaveSubscribers'
  BY <1>18 DEF TakeBar
<1>19. CASE TakeTick
  BY <1>19 DEF TakeTick
<1>20. ASSUME NEW k \in Symbols \X Dates, TakeSuccess(k) PROVE ThreadsHaveSubscribers'
  BY <1>20 DEF TakeSuccess
<1>21. ASSUME NEW k \in Symbols \X Dates, TakeFailure(k) PROVE ThreadsHaveSubscribers'
  BY <1>21 DEF TakeFailure
<1>22. ASSUME NEW s \in Requested, NEW c \in Clients, Send(s, c) PROVE ThreadsHaveSubscribers'
  BY <1>22 DEF Send
<1>23. CASE FinishSend
  BY <1>23 DEF FinishSend
<1>24. CASE UNCHANGED vars
  BY <1>24 DEF vars
<1> QED
  BY <1>1, <1>2, <1>3, <1>4, <1>5, <1>6, <1>7, <1>9, <1>10, <1>11,
     <1>12, <1>13, <1>14, <1>15, <1>16, <1>17, <1>18, <1>19, <1>20, <1>21,
     <1>22, <1>23, <1>24, AskableType
  DEF Next, ClientStep, OutsideStep, TakeRequest, TakeNotice, Handle

(* No symbol thread outlives the last subscriber of its stream.           *)
THEOREM ThreadsAreNotOrphaned == Spec => []ThreadsHaveSubscribers
<1>1. Init => ThreadsHaveSubscribers
  BY DEF Init, ThreadsHaveSubscribers
<1> QED BY <1>1, ThreadStep, TypeCorrect, PTL DEF Spec
-----------------------------------------------------------------------------
(* GoneHasNoStream.  It is not inductive: that nothing is left of a client *)
(* when its unregistration ends depends on the two indices of the          *)
(* subscriptions agreeing (OwnedInv), on the inbox keeping each client's   *)
(* requests in the order of its life (InboxInv, OrderInv), so that none of *)
(* them follows the unregistration, and on what the running unregistration *)
(* has still to remove (LeavingInv).                                       *)
OwnedInv == \A c \in Clients, s \in Streams : c \in subscribed[s] => s \in mine[c]

\* A request of kind k is of a client that had reached the state it needs.
SenderOK(kind, state) ==
  /\ kind = "register" => state = "pending"
  /\ kind = "unregister" => state = "leaving"
  /\ kind \in {"sub", "unsub"} => state \in {"live", "closed", "leaving"}

InboxInv == \A i \in 1..Len(inbox) : SenderOK(inbox[i].kind, client[inbox[i].client])

OrderInv ==
  \A i, j \in 1..Len(inbox) :
    i < j /\ inbox[i].client = inbox[j].client => inbox[i].kind \in {"sub", "unsub"}

DoingInv == op \in {"sub", "unsub", "unregister"} => SenderOK(op, client[who])

LeavingInv ==
  op = "unregister" =>
    /\ \A i \in 1..Len(inbox) : inbox[i].client # who
    /\ \A s \in Streams : who \in subscribed[s] => s \in todo

IInv ==
  /\ TypeOK /\ OwnedInv /\ InboxInv /\ OrderInv /\ DoingInv /\ LeavingInv
  /\ GoneHasNoStream

\* What a step that posts a request needs: the request fits its client, and no
\* earlier request of the same client was its first or its last.
LEMMA PostKeepsInbox ==
  ASSUME TypeOK, TypeOK', InboxInv, OrderInv, NEW c \in Clients, NEW k \in {"register", "sub", "unsub", "unregister"},
         NEW streams \in SUBSET Requested, Post(Message(k, c, streams)),
         SenderOK(k, client'[c]),
         client[c] \in {"none", "live", "closed"},
         \A d \in Clients \ {c} : client'[d] = client[d],
         client[c] = "none" \/ client'[c] \in {"live", "closed", "leaving"},
         client[c] = "closed" => client'[c] = "leaving"
  PROVE  /\ InboxInv' /\ OrderInv'
         /\ \A i \in 1..Len(inbox') : inbox'[i].client = c \/
              (i \in 1..Len(inbox) /\ inbox'[i] = inbox[i])
<1> DEFINE m == Message(k, c, streams)
<1>1. m \in Messages /\ m.kind = k /\ m.client = c
  BY DEF Message, Messages
<1>2. /\ inbox \in Seq(Messages) /\ inbox' \in Seq(Messages) /\ Len(inbox) \in Nat
      /\ Len(inbox) < InboxCap /\ InboxCap \in Nat
      /\ Len(inbox') = Len(inbox) + 1
      /\ \A i \in 1..Len(inbox) : inbox'[i] = inbox[i]
      /\ inbox'[Len(inbox) + 1] = m
  BY <1>1, PostType, HubAssumption DEF Post, TypeOK, ChannelsOK, HubAssumption
<1> HIDE DEF m
<1>3. \A i \in 1..Len(inbox) : inbox[i].client \in Clients /\ inbox[i].kind \in {"register", "sub", "unsub", "unregister"}
  <2>1. \A i \in 1..Len(inbox) : inbox[i] \in Messages
    BY <1>2
  <2> QED BY <2>1 DEF Messages
<1>4. \A i \in 1..Len(inbox) : inbox[i].client = c =>
        inbox[i].kind \in {"sub", "unsub"} /\ client'[c] \in {"live", "closed", "leaving"}
  BY <1>3 DEF InboxInv, SenderOK
<1>5. \A i \in 1..Len(inbox') : i \in 1..Len(inbox) \/ i = Len(inbox) + 1
  BY <1>2
<1>6. InboxInv'
  BY <1>1, <1>2, <1>3, <1>4, <1>5 DEF InboxInv, SenderOK
<1>7. OrderInv'
  BY <1>1, <1>2, <1>3, <1>4, <1>5 DEF OrderInv
<1> QED BY <1>1, <1>2, <1>5, <1>6, <1>7

\* What a step that takes a request leaves behind.
LEMMA TakeKeepsInbox ==
  ASSUME TypeOK, InboxInv, OrderInv, inbox # <<>>, inbox' = Tail(inbox),
         NEW m, m = Head(inbox),
         \A d \in Clients : client'[d] = client[d] \/ (d = m.client /\ m.kind = "register")
  PROVE  /\ m \in Messages /\ SenderOK(m.kind, client[m.client])
         /\ InboxInv' /\ OrderInv'
         /\ m.kind \in {"register", "unregister"} =>
              \A i \in 1..Len(inbox') : inbox'[i].client # m.client
<1>1. /\ inbox \in Seq(Messages) /\ Len(inbox) \in Nat \ {0} /\ m \in Messages /\ m = inbox[1]
      /\ inbox' \in Seq(Messages) /\ Len(inbox') = Len(inbox) - 1
      /\ \A i \in 1..Len(inbox') : inbox'[i] = inbox[i + 1]
  BY TakeType, HubAssumption DEF TypeOK, ChannelsOK, HubAssumption
<1>2. \A i \in 1..Len(inbox') : i + 1 \in 1..Len(inbox) /\ 1 < i + 1 /\ 1 \in 1..Len(inbox)
  BY <1>1
<1>3. SenderOK(m.kind, client[m.client])
  BY <1>1 DEF InboxInv
<1>4. m.kind \in {"register", "unregister"} => \A i \in 1..Len(inbox') : inbox'[i].client # m.client
  BY <1>1, <1>2 DEF OrderInv
<1>5. \A i \in 1..Len(inbox') : inbox'[i].client \in Clients /\ SenderOK(inbox'[i].kind, client[inbox'[i].client])
  <2>1. \A i \in 1..Len(inbox') : inbox'[i] = inbox[i + 1] /\ inbox[i + 1] \in Messages
    BY <1>1, <1>2
  <2> QED BY <1>2, <2>1 DEF InboxInv, Messages
<1>6. InboxInv'
  BY <1>4, <1>5 DEF InboxInv
<1>7. OrderInv'
  BY <1>1, <1>2 DEF OrderInv
<1> QED BY <1>1, <1>3, <1>4, <1>6, <1>7

\* Most steps touch none of what IInv speaks of.
LEMMA AsideStep ==
  ASSUME IInv, TypeOK', UNCHANGED <<client, inbox, subscribed, mine>>,
         \/ op' \in {"idle", "send"}
         \/ UNCHANGED <<op, who>> /\ (op = "unregister" => todo' = todo)
  PROVE  IInv'
BY DEF IInv, OwnedInv, InboxInv, OrderInv, DoingInv, LeavingInv, GoneHasNoStream

\* One step per action, and under it the conjuncts the action can disturb.
LEMMA IInvStep == IInv /\ [Next]_vars => IInv'
<1> SUFFICES ASSUME IInv, [Next]_vars PROVE IInv'
  OBVIOUS
<1> USE DEF peers, doing, registry, hydration
<1>0. TypeOK /\ TypeOK'
  BY TypeStep DEF IInv
<1>1. ASSUME NEW c \in Clients, Connect(c) PROVE IInv'
  <2>1. InboxInv' /\ OrderInv'
    BY <1>0, <1>1, PostKeepsInbox DEF Connect, SenderOK, IInv, TypeOK
  <2>2. OwnedInv' /\ DoingInv' /\ GoneHasNoStream' /\ LeavingInv'
    BY <1>0, <1>1, PostKeepsInbox
    DEF Connect, SenderOK, IInv, TypeOK, OwnedInv, DoingInv, LeavingInv, GoneHasNoStream
  <2> QED BY <1>0, <2>1, <2>2 DEF IInv
<1>2. ASSUME NEW c \in Clients, NEW kind \in {"sub", "unsub"}, NEW streams \in SUBSET Requested,
           Ask(c, kind, streams) PROVE IInv'
  <2>1. InboxInv' /\ OrderInv'
    BY <1>0, <1>2, PostKeepsInbox DEF Ask, SenderOK, IInv, TypeOK
  <2>2. OwnedInv' /\ DoingInv' /\ GoneHasNoStream' /\ LeavingInv'
    BY <1>0, <1>2, PostKeepsInbox
    DEF Ask, SenderOK, IInv, TypeOK, OwnedInv, DoingInv, LeavingInv, GoneHasNoStream
  <2> QED BY <1>0, <2>1, <2>2 DEF IInv
<1>3. ASSUME NEW c \in Clients, Drain(c) PROVE IInv'
  BY <1>0, <1>3, AsideStep DEF Drain
<1>4. ASSUME NEW c \in Clients, Disconnect(c) PROVE IInv'
  <2>1. /\ client[c] = "live" /\ UNCHANGED <<inbox, op, who, todo, subscribed, mine>>
        /\ client' = [client EXCEPT ![c] = "closed"]
    BY <1>4 DEF Disconnect
  <2>2. \A k, d : SenderOK(k, client[d]) /\ d \in Clients /\ k \in {"register", "sub", "unsub", "unregister"}
          => SenderOK(k, client'[d])
    BY <1>0, <2>1 DEF SenderOK, TypeOK
  <2>3. InboxInv'
    <3>1. \A i \in 1..Len(inbox) : inbox[i] \in Messages
      BY <1>0 DEF TypeOK, ChannelsOK
    <3> QED BY <2>1, <2>2, <3>1 DEF IInv, InboxInv, Messages
  <2>4. DoingInv'
    BY <1>0, <2>1, <2>2 DEF IInv, DoingInv, TypeOK
  <2> QED BY <1>0, <2>1, <2>3, <2>4
     DEF IInv, OwnedInv, OrderInv, LeavingInv, GoneHasNoStream, TypeOK
<1>5. ASSUME NEW c \in Clients, AskUnregister(c) PROVE IInv'
  <2>1. InboxInv' /\ OrderInv'
    BY <1>0, <1>5, PostKeepsInbox DEF AskUnregister, SenderOK, IInv, TypeOK
  <2>2. OwnedInv' /\ DoingInv' /\ GoneHasNoStream' /\ LeavingInv'
    BY <1>0, <1>5, PostKeepsInbox
    DEF AskUnregister, SenderOK, IInv, TypeOK, OwnedInv, DoingInv, LeavingInv, GoneHasNoStream
  <2> QED BY <1>0, <2>1, <2>2 DEF IInv
<1>6. ASSUME NEW d \in Dates, SetDate(d) PROVE IInv'
  BY <1>0, <1>6, AsideStep DEF SetDate
<1>7. CASE Hydration(Manager!ManagerStep)
  BY <1>0, <1>7, AsideStep DEF Hydration
<1>9. CASE TakeRegister
  <2>1. /\ op = "idle" /\ inbox # <<>> /\ inbox' = Tail(inbox) /\ Head(inbox).kind = "register"
        /\ client' = [client EXCEPT ![Head(inbox).client] = "live"]
        /\ UNCHANGED <<op, who, todo, subscribed, mine>>
    BY <1>9 DEF TakeRegister, Take, HubIdle, Asker
  <2>2. Head(inbox) \in Messages
    BY <1>0, <2>1, TakeType, HubAssumption DEF TypeOK, ChannelsOK, HubAssumption
  <2>3. \A d \in Clients : client'[d] = client[d] \/ d = Head(inbox).client
    BY <1>0, <2>1, <2>2 DEF TypeOK
  <2>4. InboxInv' /\ OrderInv'
    BY <1>0, <2>1, <2>3, TakeKeepsInbox DEF IInv
  <2>5. OwnedInv' /\ DoingInv' /\ LeavingInv' /\ GoneHasNoStream'
    BY <1>0, <2>1, <2>2 DEF IInv, OwnedInv, DoingInv, LeavingInv, GoneHasNoStream, TypeOK
  <2> QED BY <1>0, <2>4, <2>5 DEF IInv
<1>10. CASE TakeSub \/ TakeUnsub \/ TakeUnregister
  <2>1. /\ inbox # <<>> /\ inbox' = Tail(inbox)
        /\ op' = Head(inbox).kind /\ op' \in {"sub", "unsub", "unregister"}
        /\ who' = Head(inbox).client /\ (op' = "unregister" => todo' = mine[who'])
        /\ UNCHANGED <<client, subscribed, mine>>
    BY <1>10 DEF TakeSub, TakeUnsub, TakeUnregister, Take, Asker
  <2>2. /\ InboxInv' /\ OrderInv' /\ Head(inbox) \in Messages
        /\ SenderOK(op', client[who'])
        /\ op' = "unregister" => \A i \in 1..Len(inbox') : inbox'[i].client # who'
    BY <1>0, <2>1, TakeKeepsInbox DEF IInv
  <2>3. who' \in Clients
    BY <2>1, <2>2 DEF Messages
  <2>4. OwnedInv' /\ DoingInv' /\ LeavingInv' /\ GoneHasNoStream'
    BY <2>1, <2>2, <2>3 DEF IInv, OwnedInv, DoingInv, LeavingInv, GoneHasNoStream
  <2> QED BY <1>0, <2>2, <2>4 DEF IInv
<1>11. CASE SubTimeStream \/ UnsubTimeStream
  BY <1>0, <1>11, AsideStep DEF SubTimeStream, UnsubTimeStream
<1>12. ASSUME NEW s \in Streams, SubStream(s) PROVE IInv'
  <2>1. /\ op = "sub" /\ subscribed' = [subscribed EXCEPT ![s] = @ \cup {who}]
        /\ mine' = [mine EXCEPT ![who] = @ \cup {s}]
        /\ UNCHANGED <<client, inbox, op, who>>
    BY <1>12 DEF SubStream
  <2>2. who \in Clients /\ client[who] # "gone"
    BY <1>0, <2>1 DEF IInv, DoingInv, SenderOK, TypeOK
  <2>3. OwnedInv' /\ GoneHasNoStream'
    BY <1>0, <2>1, <2>2 DEF IInv, OwnedInv, GoneHasNoStream, TypeOK
  <2> QED BY <1>0, <2>1, <2>3 DEF IInv, InboxInv, OrderInv, DoingInv, LeavingInv
<1>13. ASSUME NEW s \in Streams, UnsubStream(s) PROVE IInv'
  <2>1. /\ subscribed' = [subscribed EXCEPT ![s] = @ \ {who}] /\ todo' = todo \ {s}
        /\ UNCHANGED <<client, inbox, op, who, mine>>
    BY <1>13 DEF UnsubStream
  <2>2. OwnedInv' /\ GoneHasNoStream' /\ LeavingInv'
    BY <1>0, <2>1 DEF IInv, OwnedInv, GoneHasNoStream, LeavingInv, TypeOK
  <2> QED BY <1>0, <2>1, <2>2 DEF IInv, InboxInv, OrderInv, DoingInv
<1>14. CASE FinishRequest
  <2>1. /\ todo = {} /\ op' = "idle" /\ UNCHANGED <<inbox, subscribed, mine>>
        /\ client' = IF op = "unregister" THEN [client EXCEPT ![who] = "gone"] ELSE client
    BY <1>14 DEF FinishRequest
  <2>2. CASE op = "unregister"
    <3>1. InboxInv'
      <4>1. \A i \in 1..Len(inbox) : inbox[i] \in Messages /\ inbox[i].client # who
        BY <1>0, <2>2 DEF IInv, LeavingInv, TypeOK, ChannelsOK
      <4> QED BY <1>0, <2>1, <2>2, <4>1 DEF IInv, InboxInv, TypeOK, Messages
    <3>2. GoneHasNoStream'
      BY <1>0, <2>1, <2>2 DEF IInv, LeavingInv, GoneHasNoStream, TypeOK
    <3> QED BY <1>0, <2>1, <3>1, <3>2 DEF IInv, OwnedInv, OrderInv, DoingInv, LeavingInv
  <2> QED BY <1>0, <2>1, <2>2, AsideStep
<1>15. ASSUME NEW s \in Streams, TakeBar(s) PROVE IInv'
  BY <1>0, <1>15, AsideStep DEF TakeBar
<1>16. CASE TakeTick
  BY <1>0, <1>16, AsideStep DEF TakeTick
<1>17. ASSUME NEW k \in Symbols \X Dates, TakeSuccess(k) PROVE IInv'
  BY <1>0, <1>17, AsideStep DEF TakeSuccess
<1>18. ASSUME NEW k \in Symbols \X Dates, TakeFailure(k) PROVE IInv'
  BY <1>0, <1>18, AsideStep DEF TakeFailure
<1>19. ASSUME NEW s \in Requested, NEW c \in Clients, Send(s, c) PROVE IInv'
  BY <1>0, <1>19, AsideStep DEF Send
<1>20. CASE FinishSend
  BY <1>0, <1>20, AsideStep DEF FinishSend
<1>21. CASE UNCHANGED vars
  BY <1>0, <1>21, AsideStep DEF vars
<1> QED
  BY <1>1, <1>2, <1>3, <1>4, <1>5, <1>6, <1>7, <1>9, <1>10, <1>11,
     <1>12, <1>13, <1>14, <1>15, <1>16, <1>17, <1>18, <1>19, <1>20, <1>21, AskableType
  DEF Next, ClientStep, OutsideStep, TakeRequest, TakeNotice, Handle

\* IInv holds from the start.
LEMMA IInvInvariance == Spec => []IInv
<1>1. Init => IInv
  <2> SUFFICES ASSUME Init PROVE IInv
    OBVIOUS
  <2>1. TypeOK
    BY InitType
  <2> QED BY <2>1 DEF Init, IInv, OwnedInv, InboxInv, OrderInv, DoingInv, LeavingInv, GoneHasNoStream
<1> QED BY <1>1, IInvStep, PTL DEF Spec

(* A client that was unregistered is a subscriber of no stream.           *)
THEOREM GoneClientsAreLeftAlone == Spec => []GoneHasNoStream
<1>1. IInv => GoneHasNoStream
  BY DEF IInv
<1> QED BY <1>1, IInvInvariance, PTL
-----------------------------------------------------------------------------
(* A stream without a thread has its symbol at the hydration manager, or a *)
(* notice about it on its way, or its subscribers were told of a failure.  *)
Awaited(s) ==
  \E d \in Dates : <<SymbolOf(s), d>> \in asked \/ Announced(<<SymbolOf(s), d>>)
Pending(s) == subscribed[s] # {} /\ thread[s] = NoDate => s \in failed \/ Awaited(s)

\* What the manager was asked for it remembers, until it has sent a notice.
LEMMA ManagerRemembers ==
  ASSUME Manager!ManagerStep, NEW k, k \in asked \/ Announced(k)
  PROVE  k \in asked' \/ Announced(k)'
<1>1. ASSUME NEW j \in Symbols \X Dates, Manager!Store(j) PROVE UNCHANGED <<asked, notices>>
  BY <1>1 DEF Manager!Store
<1>2. ASSUME NEW n \in Manager!Notices, Manager!Notify(n) PROVE k \in asked' \/ Announced(k)'
  <2>1. notices' = notices \cup {n} /\ asked' = asked \ {n.key}
    BY <1>2 DEF Manager!Notify
  <2>2. \E ok \in BOOLEAN : n = [ok |-> ok, key |-> n.key]
    BY Zenon DEF Manager!Notices
  <2>3. k = n.key => Announced(k)'
    BY <2>1, <2>2, Zenon DEF Announced
  <2> QED BY <2>1, <2>3 DEF Announced
<1> QED BY <1>1, <1>2 DEF Manager!ManagerStep, Announced

\* Taking a notice leaves all others where they are.
LEMMA TakeLeavesOthers ==
  ASSUME NEW ok \in BOOLEAN, NEW k, Manager!Take([ok |-> ok, key |-> k]),
         NEW j, j # k, Announced(j)
  PROVE  Announced(j)'
<1>1. notices' \in {notices, notices \ {[ok |-> ok, key |-> k]}}
  BY DEF Manager!Take
<1> QED BY <1>1 DEF Announced

\* No step leaves a stream with subscribers and nothing to wait for.
LEMMA PendingStep ==
  TypeOK /\ (Up => \A s \in Streams : Pending(s)) /\ [Next]_vars
    => (Up' => \A s \in Streams : Pending(s)')
<1> SUFFICES ASSUME TypeOK, Up => \A s \in Streams : Pending(s), [Next]_vars, Up',
                    NEW s \in Streams
             PROVE  Pending(s)'
  OBVIOUS
<1> USE DEF peers, doing, registry, manager, hydration, HubIdle
<1>a. ASSUME Next PROVE Up
  BY <1>a, Zenon DEF Next, ClientStep, OutsideStep, TakeRequest, TakeNotice, Handle, Connect, Ask, Drain,
     Disconnect, AskUnregister, SetDate, Hydration, TakeRegister, TakeSub, TakeUnsub,
     TakeUnregister, Take, SubTimeStream, SubStream, UnsubTimeStream, UnsubStream, FinishRequest,
     TakeBar, TakeTick, TakeSuccess, TakeFailure, Send, FinishSend
<1>b. ASSUME UNCHANGED vars PROVE Up
  BY <1>b DEF vars, Up
<1>0. Up /\ Pending(s) /\ SymbolOf(s) \in Symbols
  BY <1>a, <1>b DEF Streams, SymbolOf
<1>1. ASSUME UNCHANGED <<subscribed, thread, asked, notices, failed>> PROVE Pending(s)'
  BY <1>0, <1>1 DEF Pending, Awaited, Announced
<1>2. CASE Hydration(Manager!ManagerStep)
  <2>1. UNCHANGED <<subscribed, thread, failed>> /\ Manager!ManagerStep
    BY <1>2 DEF Hydration
  <2>2. Awaited(s) => Awaited(s)'
    BY <2>1, ManagerRemembers DEF Awaited
  <2> QED BY <1>0, <2>1, <2>2 DEF Pending
<1>3. ASSUME NEW t \in Streams, SubStream(t) PROVE Pending(s)'
  <2>1. /\ op = "sub" /\ asOf \in Dates /\ who \in Clients
        /\ subscribed' = [subscribed EXCEPT ![t] = @ \cup {who}]
        /\ failed' = failed \ {t}
    BY <1>3 DEF SubStream, TypeOK
  <2>2. /\ \/ thread[t] # NoDate /\ UNCHANGED <<thread, asked>>
           \/ thread' = [thread EXCEPT ![t] = asOf] /\ asked' = asked
           \/ asked' = asked \cup {<<SymbolOf(t), asOf>>} /\ thread' = thread
        /\ notices' = notices
    BY <1>3 DEF SubStream, manager, Manager!Confirm, Manager!Query, Manager!vars
  <2>3. Awaited(s) => Awaited(s)'
    BY <2>1, <2>2 DEF Awaited, Announced
  <2>4. CASE s = t
    <3>1. CASE asked' = asked \cup {<<SymbolOf(t), asOf>>}
      BY <2>1, <2>4, <3>1 DEF Pending, Awaited
    <3>2. CASE thread[t] # NoDate /\ thread' = thread
      BY <2>4, <3>2 DEF Pending
    <3>3. CASE thread' = [thread EXCEPT ![t] = asOf]
      BY <2>1, <2>4, <3>3, HubAssumption DEF Pending, HubAssumption, TypeOK
    <3> QED BY <2>2, <3>1, <3>2, <3>3
  <2>5. CASE s # t
    <3>1. subscribed'[s] = subscribed[s] /\ thread'[s] = thread[s] /\ (s \in failed => s \in failed')
      BY <2>1, <2>2, <2>5 DEF TypeOK
    <3> QED BY <1>0, <2>3, <3>1 DEF Pending
  <2> QED BY <2>4, <2>5
<1>4. ASSUME NEW t \in Streams, UnsubStream(t) PROVE Pending(s)'
  <2>1. /\ UNCHANGED <<asked, notices, failed>>
        /\ subscribed' = [subscribed EXCEPT ![t] = @ \ {who}]
        /\ subscribed'[t] = {} \/ thread' = thread
        /\ \A u \in Streams \ {t} : thread'[u] = thread[u]
    BY <1>4 DEF UnsubStream, TypeOK
  <2>2. Awaited(s) => Awaited(s)'
    BY <2>1 DEF Awaited, Announced
  <2> QED BY <1>0, <2>1, <2>2 DEF Pending, TypeOK
<1>5. ASSUME NEW k \in Symbols \X Dates, TakeSuccess(k) PROVE Pending(s)'
  <2>1. /\ UNCHANGED <<subscribed, asked, failed>>
        /\ Manager!Take([ok |-> TRUE, key |-> k])
        /\ thread' = [u \in Streams |->
             IF u \in Affected(k) /\ subscribed[u] # {} /\ thread[u] = NoDate THEN k[2] ELSE thread[u]]
    BY <1>5 DEF TakeSuccess, Manager!Success, Manager!Take
  <2>2. CASE s \in Affected(k)
    BY <2>1, <2>2, HubAssumption DEF Pending, HubAssumption
  <2>3. CASE s \notin Affected(k)
    <3>1. \A d \in Dates : <<SymbolOf(s), d>> # k
      BY <2>3 DEF Affected
    <3>2. \A d \in Dates : Announced(<<SymbolOf(s), d>>) => Announced(<<SymbolOf(s), d>>)'
      BY <2>1, <3>1, TakeLeavesOthers
    <3>3. Awaited(s) => Awaited(s)'
      BY <2>1, <3>2 DEF Awaited
    <3> QED BY <1>0, <2>1, <2>3, <3>3 DEF Pending
  <2> QED BY <2>2, <2>3
<1>6. ASSUME NEW k \in Symbols \X Dates, TakeFailure(k) PROVE Pending(s)'
  <2>1. /\ UNCHANGED <<subscribed, thread, asked>> /\ failed' = failed \cup Affected(k)
        /\ Manager!Take([ok |-> FALSE, key |-> k])
    BY <1>6 DEF TakeFailure, Manager!Failure, Manager!Take
  <2>2. CASE s \in Affected(k)
    BY <2>1, <2>2 DEF Pending
  <2>3. CASE s \notin Affected(k)
    <3>1. \A d \in Dates : <<SymbolOf(s), d>> # k
      BY <2>3 DEF Affected
    <3>2. \A d \in Dates : Announced(<<SymbolOf(s), d>>) => Announced(<<SymbolOf(s), d>>)'
      BY <2>1, <3>1, TakeLeavesOthers
    <3>3. Awaited(s) => Awaited(s)'
      BY <2>1, <3>2 DEF Awaited
    <3> QED BY <1>0, <2>1, <3>3 DEF Pending
  <2> QED BY <2>2, <2>3
<1>7. ASSUME NEW c \in Clients, ClientStep(c) PROVE Pending(s)'
  BY <1>1, <1>7 DEF ClientStep, Connect, Ask, Drain, Disconnect, AskUnregister
<1>8. CASE TakeRequest \/ TakeTick
  BY <1>1, <1>8 DEF TakeRequest, TakeRegister, TakeSub, TakeUnsub, TakeUnregister, TakeTick
<1>9. ASSUME NEW t \in Streams, TakeBar(t) PROVE Pending(s)'
  BY <1>1, <1>9 DEF TakeBar
<1>10. CASE SubTimeStream \/ UnsubTimeStream \/ FinishRequest \/ FinishSend
  BY <1>1, <1>10 DEF SubTimeStream, UnsubTimeStream, FinishRequest, FinishSend
<1>11. ASSUME NEW t \in Requested, NEW c \in Clients, Send(t, c) PROVE Pending(s)'
  BY <1>1, <1>11 DEF Send
<1>12. ASSUME NEW d \in Dates, SetDate(d) PROVE Pending(s)'
  BY <1>1, <1>12 DEF SetDate
<1>14. CASE UNCHANGED vars
  BY <1>1, <1>14 DEF vars
<1> QED
  BY <1>2, <1>3, <1>4, <1>5, <1>6, <1>7, <1>8, <1>9, <1>10, <1>11, <1>12, <1>14
  DEF Next, OutsideStep, TakeNotice, Handle

(* No subscription is forgotten, however requests, notices, failures and   *)
(* changes of the date interleave.                                         *)
THEOREM SubscriptionsAreNotForgotten == Spec => []SubscriptionsArePending
<1> DEFINE P == Up => \A s \in Streams : Pending(s)
<1>1. Init => P
  BY DEF Init, Pending
<1>2. TypeOK /\ P /\ [Next]_vars => P'
  BY PendingStep
<1>3. P => SubscriptionsArePending
  BY DEF SubscriptionsArePending, Pending, Awaited
<1> QED BY <1>1, <1>2, <1>3, TypeCorrect, PTL DEF Spec
-----------------------------------------------------------------------------
(* The hub's world keeps to the contract of the hydration manager.  With   *)
(* KeepsTheContract of HydrationManagerProofs this is what allows the one  *)
(* to be checked without the other.                                        *)
THEOREM HubKeepsTheContract == Spec => Manager!Spec
<1>1. Init => Manager!Init
  BY DEF Init
<1>2. TypeOK /\ [Next]_vars => [Manager!Next]_Manager!vars
  BY ContractStep DEF TypeOK
<1> QED BY <1>1, <1>2, TypeCorrect, PTL DEF Spec, Manager!Spec

(* ThreadsHaveSessions: what is stored stays, and a thread is started on   *)
(* the strength of a yes or of a success notice, which the contract allows *)
(* for what is stored only.                                                *)
SessionInv == ThreadsHaveSessions /\ Manager!OnlyStored

\* A step that changes no thread keeps their sessions.
LEMMA SessionsStay ==
  ASSUME ThreadsHaveSessions, stored \subseteq stored', thread' = thread
  PROVE  ThreadsHaveSessions'
BY DEF ThreadsHaveSessions

\* A thread is only started on a session that is stored.
LEMMA SessionStep == TypeOK /\ SessionInv /\ [Next]_vars => SessionInv'
<1> SUFFICES ASSUME TypeOK, SessionInv, [Next]_vars PROVE SessionInv'
  OBVIOUS
<1> USE DEF peers, doing, registry, manager, hydration
<1>0. /\ Manager!OnlyStored' /\ stored \subseteq stored' /\ ThreadsHaveSessions
      /\ Manager!OnlyStored
  BY ContractStep, ContractStored DEF TypeOK, SessionInv
<1>a. ASSUME thread' = thread PROVE ThreadsHaveSessions'
  BY <1>0, <1>a, SessionsStay
<1>1. ASSUME NEW s \in Streams, SubStream(s) PROVE ThreadsHaveSessions'
  <2>1. CASE thread' = thread
    BY <1>a, <2>1
  <2>2. CASE Manager!Confirm(<<SymbolOf(s), asOf>>) /\ thread' = [thread EXCEPT ![s] = asOf]
    <3>1. <<SymbolOf(s), asOf>> \in stored
      BY <2>2 DEF Manager!Confirm
    <3> QED BY <1>0, <2>2, <3>1 DEF ThreadsHaveSessions, TypeOK
  <2> QED BY <1>1, <2>1, <2>2 DEF SubStream
<1>2. ASSUME NEW s \in Streams, UnsubStream(s) PROVE ThreadsHaveSessions'
  <2>1. thread' = thread \/ thread' = [thread EXCEPT ![s] = NoDate]
    BY <1>2 DEF UnsubStream
  <2> QED BY <1>0, <2>1 DEF ThreadsHaveSessions, TypeOK
<1>3. ASSUME NEW k \in Symbols \X Dates, TakeSuccess(k) PROVE ThreadsHaveSessions'
  <2>1. /\ [ok |-> TRUE, key |-> k] \in notices
        /\ thread' = [s \in Streams |->
             IF s \in Affected(k) /\ subscribed[s] # {} /\ thread[s] = NoDate
             THEN k[2] ELSE thread[s]]
    BY <1>3 DEF TakeSuccess, Manager!Take, Manager!Success
  <2>2. k \in stored
    BY <1>0, <2>1 DEF Manager!OnlyStored
  <2>3. \A s \in Affected(k) : <<SymbolOf(s), k[2]>> = k
    BY DEF Affected
  <2> QED BY <1>0, <2>1, <2>2, <2>3 DEF ThreadsHaveSessions
<1>4. ASSUME NEW k \in Symbols \X Dates, TakeFailure(k) PROVE ThreadsHaveSessions'
  BY <1>a, <1>4 DEF TakeFailure
<1>5. ASSUME OutsideStep PROVE ThreadsHaveSessions'
  BY <1>a, <1>5 DEF OutsideStep, Hydration, SetDate
<1>7. ASSUME NEW c \in Clients, ClientStep(c) PROVE ThreadsHaveSessions'
  BY <1>a, <1>7 DEF ClientStep, Connect, Ask, Drain, Disconnect, AskUnregister
<1>8. ASSUME TakeRequest \/ TakeTick PROVE ThreadsHaveSessions'
  BY <1>a, <1>8 DEF TakeRequest, TakeRegister, TakeSub, TakeUnsub, TakeUnregister, TakeTick
<1>9. ASSUME NEW t \in Streams, TakeBar(t) PROVE ThreadsHaveSessions'
  BY <1>a, <1>9 DEF TakeBar
<1>10. ASSUME SubTimeStream \/ UnsubTimeStream \/ FinishRequest \/ FinishSend
       PROVE  ThreadsHaveSessions'
  BY <1>a, <1>10 DEF SubTimeStream, UnsubTimeStream, FinishRequest, FinishSend
<1>11. ASSUME NEW t \in Requested, NEW c \in Clients, Send(t, c) PROVE ThreadsHaveSessions'
  BY <1>a, <1>11 DEF Send
<1>12. ASSUME UNCHANGED vars PROVE ThreadsHaveSessions'
  BY <1>a, <1>12 DEF vars
<1>13. ThreadsHaveSessions'
  BY <1>1, <1>2, <1>3, <1>4, <1>5, <1>7, <1>8, <1>9, <1>10, <1>11, <1>12
  DEF Next, TakeNotice, Handle
<1> QED BY <1>0, <1>13 DEF SessionInv

(* No symbol thread runs on a date that its symbol has no session of,      *)
(* whatever is changed, fails or succeeds while it is waited for.          *)
THEOREM ThreadsAreStartedOnSessions == Spec => []ThreadsHaveSessions
<1>1. Init => SessionInv
  BY DEF Init, SessionInv, ThreadsHaveSessions, Manager!Init, Manager!OnlyStored
<1> QED BY <1>1, SessionStep, TypeCorrect, PTL DEF Spec, SessionInv
-----------------------------------------------------------------------------
(* Whom the hub waits for.  A subscriber has been registered (DoingInv)    *)
(* and is not gone (GoneHasNoStream); what is left of a send came from the *)
(* subscribers, and nobody becomes gone while the hub sends.               *)
Subscribes(s, c) == (s \in Streams /\ c \in subscribed[s]) \/ (s = TimeStream /\ c \in timeSubs)
Reachable(s, c) ==
  client[c] = "live" \/ Left(c) \/ (s = TimeStream /\ c \in Leavers /\ client[c] = "gone")

LeaversInv == \A c \in Clients : client[c] \in {"closed", "leaving", "gone"} => c \in Leavers
AudienceInv == \A s \in Requested, c \in Clients : Subscribes(s, c) \/ <<s, c>> \in to => Reachable(s, c)
SendInv == op # "send" => to = {}

\* Only those who leave are ever closed.
LEMMA LeaversStep == IInv /\ LeaversInv /\ [Next]_vars => LeaversInv'
<1> SUFFICES ASSUME IInv, LeaversInv, [Next]_vars PROVE LeaversInv'
  OBVIOUS
<1> USE DEF peers, doing, registry, hydration
<1>0. client \in [Clients -> ClientStates] /\ (op = "unregister" => who \in Clients /\ client[who] = "leaving")
  BY DEF IInv, TypeOK, DoingInv, SenderOK
<1>1. ASSUME NEW c \in Clients, Connect(c) \/ Disconnect(c) \/ AskUnregister(c) PROVE LeaversInv'
  BY <1>0, <1>1 DEF Connect, Disconnect, AskUnregister, LeaversInv
<1>2. CASE TakeRegister \/ FinishRequest
  BY <1>0, <1>2 DEF TakeRegister, FinishRequest, LeaversInv
<1>3. CASE client' = client
  BY <1>3 DEF LeaversInv
<1>4. CASE OutsideStep
  BY <1>3, <1>4 DEF OutsideStep, Hydration, SetDate
<1>5. ASSUME NEW c \in Clients, ClientStep(c) PROVE LeaversInv'
  BY <1>1, <1>3, <1>5 DEF ClientStep, Drain, Ask
<1>6. CASE TakeSub \/ TakeUnsub \/ TakeUnregister \/ TakeTick \/ TakeNotice \/ \E s \in Streams : TakeBar(s)
  BY <1>3, <1>6 DEF TakeSub, TakeUnsub, TakeUnregister, TakeTick, TakeNotice, TakeSuccess, TakeFailure, TakeBar
<1>7. CASE Handle
  BY <1>2, <1>3, <1>7 DEF Handle, SubTimeStream, UnsubTimeStream, FinishSend, SubStream, UnsubStream, Send
<1>8. CASE UNCHANGED vars
  BY <1>3, <1>8 DEF vars
<1> QED BY <1>2, <1>4, <1>5, <1>6, <1>7, <1>8 DEF Next, TakeRequest

\* Sends are only left over while the hub sends.
LEMMA SendStep == SendInv /\ [Next]_vars => SendInv'
<1> SUFFICES ASSUME SendInv, [Next]_vars PROVE SendInv'
  OBVIOUS
<1> USE DEF peers, doing, registry, hydration, SendInv, HubIdle
<1>1. CASE UNCHANGED <<op, to>>
  BY <1>1
<1>2. CASE OutsideStep \/ \E c \in Clients : ClientStep(c)
  BY <1>1, <1>2 DEF OutsideStep, Hydration, SetDate, ClientStep, Connect, Ask, Drain, Disconnect, AskUnregister
<1>3. CASE TakeRequest
  BY <1>3 DEF TakeRequest, TakeRegister, TakeSub, TakeUnsub, TakeUnregister, Take
<1>4. CASE TakeTick \/ TakeNotice \/ \E s \in Streams : TakeBar(s)
  BY <1>4 DEF TakeTick, TakeNotice, TakeSuccess, TakeFailure, TakeBar
<1>5. CASE Handle
  BY <1>5 DEF Handle, SubTimeStream, UnsubTimeStream, FinishRequest, FinishSend, SubStream, UnsubStream, Send
<1>6. CASE UNCHANGED vars
  BY <1>6 DEF vars
<1> QED BY <1>2, <1>3, <1>4, <1>5, <1>6 DEF Next

\* Every subscriber, and everybody a send is left for, can be reached.
LEMMA AudienceStep ==
  IInv /\ LeaversInv /\ SendInv /\ AudienceInv /\ [Next]_vars => AudienceInv'
<1> SUFFICES ASSUME IInv, LeaversInv, SendInv, AudienceInv, [Next]_vars PROVE AudienceInv'
  OBVIOUS
<1> USE DEF peers, doing, registry, hydration
<1>0. /\ client \in [Clients -> ClientStates] /\ TimeStream \notin Streams
      /\ subscribed \in [Streams -> SUBSET Clients] /\ Requested = Streams \cup {TimeStream}
  BY HubAssumption DEF IInv, TypeOK, HubAssumption, Requested
<1>1. ASSUME \A s \in Requested, c \in Clients :
               /\ Subscribes(s, c)' \/ <<s, c>> \in to' => Subscribes(s, c) \/ <<s, c>> \in to
               /\ Reachable(s, c) => Reachable(s, c)'
      PROVE  AudienceInv'
  BY <1>1 DEF AudienceInv
<1>2. ASSUME NEW c \in Clients, Connect(c) \/ Disconnect(c) \/ AskUnregister(c) PROVE AudienceInv'
  <2>1. UNCHANGED <<subscribed, timeSubs, to>>
        /\ \E from, into \in ClientStates :
             /\ client[c] = from /\ client' = [client EXCEPT ![c] = into]
             /\ <<from, into>> \in {<<"none", "pending">>, <<"live", "closed">>, <<"closed", "leaving">>}
             /\ from = "live" => c \in Leavers
    BY <1>2 DEF Connect, Disconnect, AskUnregister, ClientStates
  <2>2. \A s \in Requested, d \in Clients : Reachable(s, d) => Reachable(s, d)'
    BY <1>0, <2>1 DEF Reachable, Left
  <2> QED BY <1>1, <2>1, <2>2 DEF Subscribes
<1>3. CASE TakeRegister
  <2>1. client' = [client EXCEPT ![Asker] = "live"] /\ UNCHANGED <<subscribed, timeSubs, to>>
    BY <1>3 DEF TakeRegister
  <2>2. \A s \in Requested, d \in Clients : Reachable(s, d) => Reachable(s, d)'
    BY <1>0, <2>1 DEF Reachable, Left
  <2> QED BY <1>1, <2>1, <2>2 DEF Subscribes
<1>4. CASE FinishRequest
  <2>1. /\ to = {} /\ todo = {} /\ UNCHANGED <<subscribed, timeSubs, to>>
        /\ client' = IF op = "unregister" THEN [client EXCEPT ![who] = "gone"] ELSE client
    BY <1>4 DEF FinishRequest, SendInv
  <2>2. CASE op # "unregister"
    BY <1>1, <2>1, <2>2 DEF Subscribes, Reachable, Left
  <2>3. CASE op = "unregister"
    <3>1. who \in Clients /\ who \in Leavers /\ \A s \in Streams : who \notin subscribed[s]
      BY <2>1, <2>3 DEF IInv, DoingInv, SenderOK, LeavingInv, TypeOK, LeaversInv
    <3>2. \A s \in Requested, d \in Clients : d # who /\ Reachable(s, d) => Reachable(s, d)'
      BY <1>0, <2>1 DEF Reachable, Left
    <3>3. client'[who] = "gone"
      BY <1>0, <2>1, <2>3, <3>1
    <3>4. ASSUME NEW s \in Requested, NEW d \in Clients, Subscribes(s, d)' \/ <<s, d>> \in to'
          PROVE  Reachable(s, d)'
      <4>1. Subscribes(s, d)
        BY <2>1, <3>4 DEF Subscribes
      <4>2. CASE d = who
        <5>1. s = TimeStream
          BY <3>1, <4>1, <4>2 DEF Subscribes
        <5> QED BY <3>1, <3>3, <4>2, <5>1 DEF Reachable
      <4> QED BY <3>2, <4>1, <4>2 DEF AudienceInv
    <3> QED BY <3>4 DEF AudienceInv
  <2> QED BY <2>2, <2>3
<1>5. ASSUME client' = client,
             \A s \in Requested, c \in Clients :
               Subscribes(s, c)' \/ <<s, c>> \in to' =>
                 Subscribes(s, c) \/ <<s, c>> \in to \/ (op = "sub" /\ c = who)
      PROVE  AudienceInv'
  <2>1. op = "sub" => client[who] \in {"live", "closed", "leaving"} /\ who \in Clients
    BY DEF IInv, DoingInv, SenderOK, TypeOK
  <2>2. op = "sub" => \A s \in Requested : Reachable(s, who)
    BY <2>1 DEF LeaversInv, Reachable, Left
  <2>3. \A s \in Requested, c \in Clients : Reachable(s, c)' = Reachable(s, c)
    BY <1>5 DEF Reachable, Left
  <2> QED BY <1>5, <2>2, <2>3 DEF AudienceInv
<1>6. ASSUME NEW s \in Streams, SubStream(s) PROVE AudienceInv'
  <2>1. /\ op = "sub" /\ UNCHANGED <<client, timeSubs, to>>
        /\ subscribed' = [subscribed EXCEPT ![s] = @ \cup {who}]
    BY <1>6 DEF SubStream
  <2> QED BY <1>0, <1>5, <2>1 DEF Subscribes
<1>7. CASE SubTimeStream
  BY <1>5, <1>7 DEF SubTimeStream, Subscribes
<1>8. ASSUME NEW s \in Streams, UnsubStream(s) PROVE AudienceInv'
  <2>1. subscribed' = [subscribed EXCEPT ![s] = @ \ {who}] /\ UNCHANGED <<client, timeSubs, to>>
    BY <1>8 DEF UnsubStream
  <2> QED BY <1>0, <1>5, <2>1 DEF Subscribes
<1>9. CASE UnsubTimeStream
  BY <1>5, <1>9 DEF UnsubTimeStream, Subscribes
<1>10. ASSUME NEW s \in Streams, TakeBar(s) PROVE AudienceInv'
  BY <1>5, <1>10 DEF TakeBar, Subscribes
<1>11. CASE TakeTick
  BY <1>5, <1>11 DEF TakeTick, Subscribes
<1>12. ASSUME NEW k \in Symbols \X Dates, TakeFailure(k) PROVE AudienceInv'
  <2>1. /\ to' = {x \in Affected(k) \X Clients : x[2] \in subscribed[x[1]]}
        /\ UNCHANGED <<client, subscribed, timeSubs>>
    BY <1>12 DEF TakeFailure
  <2>2. \A s \in Requested, c \in Clients : <<s, c>> \in to' => Subscribes(s, c)
    BY <2>1 DEF Affected, Subscribes
  <2> QED BY <1>5, <2>1, <2>2 DEF Subscribes
<1>13. ASSUME NEW s \in Requested, NEW c \in Clients, Send(s, c) PROVE AudienceInv'
  BY <1>5, <1>13 DEF Send, Subscribes
<1>14. CASE UNCHANGED <<client, subscribed, timeSubs, to>>
  BY <1>5, <1>14 DEF Subscribes
<1>15. ASSUME NEW c \in Clients, ClientStep(c) PROVE AudienceInv'
  BY <1>2, <1>14, <1>15 DEF ClientStep, Drain, Ask
<1>16. CASE OutsideStep
  BY <1>14, <1>16 DEF OutsideStep, Hydration, SetDate
<1>17. CASE TakeSub \/ TakeUnsub \/ TakeUnregister \/ FinishSend \/ UNCHANGED vars
  BY <1>14, <1>17 DEF TakeSub, TakeUnsub, TakeUnregister, FinishSend, vars
<1>18. CASE TakeNotice
  BY <1>12, <1>14, <1>18 DEF TakeNotice, TakeSuccess
<1> QED
  BY <1>3, <1>4, <1>6, <1>7, <1>8, <1>9, <1>10, <1>11, <1>13, <1>15, <1>16, <1>17, <1>18
  DEF Next, TakeRequest, Handle

(* The hub never waits for a client that has not been registered, nor, but *)
(* for the time stream, for one that is gone: with clients that stay, only *)
(* for one whose sender empties its outbox.                                *)
THEOREM HubWaitsForItsClients == Spec => []SendsToItsClients
<1>1. Init => LeaversInv /\ SendInv /\ AudienceInv
  BY HubAssumption DEF HubAssumption, Init, LeaversInv, SendInv, AudienceInv, Subscribes
<1>2. IInv /\ AudienceInv => SendsToItsClients
  <2> SUFFICES ASSUME IInv, AudienceInv, NEW x \in to
               PROVE  \/ client[x[2]] = "live" \/ Left(x[2])
                      \/ x[1] = TimeStream /\ x[2] \in Leavers /\ client[x[2]] = "gone"
    BY DEF SendsToItsClients
  <2>1. x = <<x[1], x[2]>> /\ x[1] \in Requested /\ x[2] \in Clients
    BY DEF IInv, TypeOK
  <2> QED BY <2>1 DEF AudienceInv, Reachable
<1> QED BY <1>1, <1>2, IInvInvariance, LeaversStep, SendStep, AudienceStep, PTL DEF Spec
-----------------------------------------------------------------------------
(* Requests to be registered and unregistered stay in the inbox until the  *)
(* hub takes them, and their clients wait as long.                         *)

\* What is posted stays posted when another request is.
LEMMA PostKeepsPosted ==
  ASSUME TypeOK, NEW k \in {"register", "sub", "unsub", "unregister"}, NEW c \in Clients,
         NEW streams \in SUBSET Requested, Post(Message(k, c, streams))
  PROVE  /\ Posted(k, c)'
         /\ \A kind, d : Posted(kind, d) => Posted(kind, d)'
<1> DEFINE m == Message(k, c, streams)
<1>1. m \in Messages /\ m.kind = k /\ m.client = c
  BY DEF Message, Messages
<1>2. /\ inbox \in Seq(Messages) /\ Len(inbox) \in Nat
      /\ Len(inbox') = Len(inbox) + 1
      /\ \A i \in 1..Len(inbox) : inbox'[i] = inbox[i]
      /\ inbox'[Len(inbox) + 1] = m
  BY <1>1, PostType, HubAssumption DEF Post, TypeOK, ChannelsOK, HubAssumption
<1> HIDE DEF m
<1>3. Len(inbox) + 1 \in 1..Len(inbox') /\ \A i \in 1..Len(inbox) : i \in 1..Len(inbox')
  BY <1>2
<1> QED BY <1>1, <1>2, <1>3 DEF Posted

\* What is posted stays posted when another request is taken.
LEMMA TakeKeepsPosted ==
  ASSUME TypeOK, inbox # <<>>, inbox' = Tail(inbox), NEW kind, NEW c, Posted(kind, c),
         Head(inbox).kind # kind \/ Head(inbox).client # c
  PROVE  Posted(kind, c)'
<1>1. /\ Len(inbox) \in Nat \ {0} /\ Head(inbox) = inbox[1] /\ Len(inbox') = Len(inbox) - 1
      /\ \A i \in 1..Len(inbox') : inbox'[i] = inbox[i + 1]
  BY TakeType, HubAssumption DEF TypeOK, ChannelsOK, HubAssumption
<1>2. PICK i \in 1..Len(inbox) : inbox[i].kind = kind /\ inbox[i].client = c
  BY DEF Posted
<1>3. i # 1 /\ i - 1 \in 1..Len(inbox') /\ (i - 1) + 1 = i
  BY <1>1, <1>2
<1> QED BY <1>1, <1>2, <1>3 DEF Posted

\* One step per action that touches the inbox or who waits for what.
LEMMA RequestStep == IInv /\ RequestsAreNotLost /\ [Next]_vars => RequestsAreNotLost'
<1> SUFFICES ASSUME IInv, RequestsAreNotLost, [Next]_vars PROVE RequestsAreNotLost'
  OBVIOUS
<1> USE DEF peers, doing, registry, hydration
<1>0. TypeOK /\ client \in [Clients -> ClientStates]
  BY DEF IInv, TypeOK
<1>1. ASSUME NEW c \in Clients, Connect(c) PROVE RequestsAreNotLost'
  <2>1. /\ Post(Message("register", c, {})) /\ client' = [client EXCEPT ![c] = "pending"]
        /\ UNCHANGED <<op, who>>
    BY <1>1 DEF Connect
  <2>2. Posted("register", c)' /\ \A kind, d : Posted(kind, d) => Posted(kind, d)'
    BY <1>0, <2>1, PostKeepsPosted
  <2> QED BY <1>0, <2>1, <2>2 DEF RequestsAreNotLost
<1>2. ASSUME NEW c \in Clients, NEW kind \in {"sub", "unsub"}, NEW streams \in SUBSET Requested,
             Ask(c, kind, streams) PROVE RequestsAreNotLost'
  <2>1. Post(Message(kind, c, streams)) /\ UNCHANGED <<client, op, who>>
    BY <1>2 DEF Ask
  <2>2. \A k, d : Posted(k, d) => Posted(k, d)'
    BY <1>0, <2>1, PostKeepsPosted
  <2> QED BY <2>1, <2>2 DEF RequestsAreNotLost
<1>3. ASSUME NEW c \in Clients, AskUnregister(c) PROVE RequestsAreNotLost'
  <2>1. /\ Post(Message("unregister", c, {})) /\ client' = [client EXCEPT ![c] = "leaving"]
        /\ UNCHANGED <<op, who>>
    BY <1>3 DEF AskUnregister
  <2>2. Posted("unregister", c)' /\ \A kind, d : Posted(kind, d) => Posted(kind, d)'
    BY <1>0, <2>1, PostKeepsPosted
  <2> QED BY <1>0, <2>1, <2>2 DEF RequestsAreNotLost
<1>4. ASSUME inbox' = inbox, (op = "unregister" => UNCHANGED <<op, who>>),
             \A c \in Clients : client'[c] \in {"pending", "leaving"} => client'[c] = client[c]
      PROVE  RequestsAreNotLost'
  BY <1>4 DEF RequestsAreNotLost, Posted
<1>5. ASSUME NEW c \in Clients, Drain(c) \/ Disconnect(c) PROVE RequestsAreNotLost'
  BY <1>0, <1>4, <1>5 DEF Drain, Disconnect
<1>6. CASE TakeRegister
  <2>1. /\ inbox # <<>> /\ inbox' = Tail(inbox) /\ Head(inbox).kind = "register" /\ op = "idle"
        /\ client' = [client EXCEPT ![Head(inbox).client] = "live"]
    BY <1>6 DEF TakeRegister, Take, HubIdle, Asker
  <2>2. \A d \in Clients : client'[d] \in {"pending", "leaving"} =>
          client'[d] = client[d] /\ (d # Head(inbox).client)
    BY <1>0, <2>1
  <2>3. \A d \in Clients : client'[d] = "pending" => Posted("register", d)'
    BY <1>0, <2>1, <2>2, TakeKeepsPosted DEF RequestsAreNotLost
  <2>4. \A d \in Clients : client'[d] = "leaving" => Posted("unregister", d)'
    BY <1>0, <2>1, <2>2, TakeKeepsPosted DEF RequestsAreNotLost
  <2> QED BY <2>3, <2>4 DEF RequestsAreNotLost
<1>7. CASE TakeSub \/ TakeUnsub \/ TakeUnregister
  <2>1. /\ inbox # <<>> /\ inbox' = Tail(inbox) /\ op = "idle" /\ client' = client
        /\ op' = Head(inbox).kind /\ op' \in {"sub", "unsub", "unregister"} /\ who' = Head(inbox).client
    BY <1>7 DEF TakeSub, TakeUnsub, TakeUnregister, Take, HubIdle, Asker
  <2>2. \A d \in Clients : client'[d] = "pending" => Posted("register", d)'
    BY <1>0, <2>1, TakeKeepsPosted DEF RequestsAreNotLost
  <2>3. \A d \in Clients : client'[d] = "leaving" =>
          Posted("unregister", d)' \/ (op' = "unregister" /\ who' = d)
    BY <1>0, <2>1, TakeKeepsPosted DEF RequestsAreNotLost
  <2> QED BY <2>2, <2>3 DEF RequestsAreNotLost
<1>8. CASE FinishRequest
  <2>1. /\ inbox' = inbox
        /\ client' = IF op = "unregister" THEN [client EXCEPT ![who] = "gone"] ELSE client
    BY <1>8 DEF FinishRequest
  <2>2. \A d \in Clients : client'[d] \in {"pending", "leaving"} =>
          client'[d] = client[d] /\ (op # "unregister" \/ who # d)
    BY <1>0, <2>1
  <2> QED BY <2>1, <2>2 DEF RequestsAreNotLost, Posted
<1>9. CASE OutsideStep \/ UNCHANGED vars
  BY <1>4, <1>9 DEF OutsideStep, Hydration, SetDate, vars
<1>10. CASE TakeTick \/ TakeNotice \/ \E s \in Streams : TakeBar(s)
  BY <1>4, <1>10 DEF TakeTick, TakeNotice, TakeSuccess, TakeFailure, TakeBar, HubIdle
<1>11. CASE Handle
  BY <1>4, <1>8, <1>11 DEF Handle, SubTimeStream, UnsubTimeStream, FinishSend, SubStream, UnsubStream, Send
<1> QED BY <1>1, <1>2, <1>3, <1>5, <1>6, <1>7, <1>9, <1>10, <1>11, AskableType
        DEF Next, ClientStep, TakeRequest

(* Who connects or leaves is not forgotten: its request is in the inbox    *)
(* until the hub handles it.  With HubWaitsForItsClients, the part of      *)
(* ConnectingClientsAreServed that is about every state.                   *)
THEOREM ConnectionsAreNotLost == Spec => []RequestsAreNotLost
<1>1. Init => RequestsAreNotLost
  BY DEF Init, RequestsAreNotLost
<1> QED BY <1>1, IInvInvariance, RequestStep, PTL DEF Spec
=============================================================================
