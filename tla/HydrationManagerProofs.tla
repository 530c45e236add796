----------------------- MODULE HydrationManagerProofs -----------------------
(* Safety of HydrationManager for any number of series, handlers and tasks *)
(* and any channel capacities.                                             *)
EXTENDS HydrationManager, FiniteSetTheorems, TLAPS

(* What sends on a bounded channel and receives from it do to it.          *)
LEMMA SendType ==
  ASSUME NEW S, NEW q \in Seq(S), NEW e \in S, NEW n \in Nat, Len(q) < n
  PROVE  Append(q, e) \in Seq(S) /\ Len(Append(q, e)) <= n
OBVIOUS

\* Receiving from a channel leaves a channel of the same type.
LEMMA ReceiveType ==
  ASSUME NEW S, NEW q \in Seq(S), NEW n \in Nat, Len(q) <= n, q # <<>>
  PROVE  /\ Head(q) \in S /\ Tail(q) \in Seq(S) /\ Len(Tail(q)) <= n
OBVIOUS

(* Every variable keeps its type, and the channels their capacity.         *)
LEMMA TypeInit == Init => TypeOK
BY HydrationAssumption
   DEF HydrationAssumption, Init, TypeOK, Idle, Worker, Statuses, Contents

\* Types, and the room in the channels, survive every step.
LEMMA TypeStep == TypeOK /\ [Next]_vars => TypeOK'
<1> SUFFICES ASSUME TypeOK, [Next]_vars PROVE TypeOK'
  OBVIOUS
<1> USE HydrationAssumption
        DEF HydrationAssumption, TypeOK, Worker, Idle, At, Up, Statuses, Contents,
            TaskSteps, SetStatus, Success, Failure, Insert, Recorded
<1>1. ASSUME NEW k \in Series, HubAsk(k) PROVE TypeOK'
  BY <1>1 DEF HubAsk
<1>2. CASE HubEnqueue
  <2>1. queries' \in Seq(Series) /\ Len(queries') <= QueryCap
    BY <1>2, SendType DEF HubEnqueue
  <2> QED BY <1>2, <2>1 DEF HubEnqueue
<1>3. CASE HubReceive
  <2>1. notices' \in Seq([ok : BOOLEAN, key : Series]) /\ Len(notices') <= NoticeCap
    BY <1>3, ReceiveType DEF HubReceive
  <2> QED BY <1>3, <2>1 DEF HubReceive
<1>4. CASE LoopReceive
  <2>1. queries' \in Seq(Series) /\ Len(queries') <= QueryCap /\ Head(queries) \in Series
    BY <1>4, ReceiveType DEF LoopReceive, CanReceive
  <2> QED BY <1>4, <2>1 DEF LoopReceive, CanReceive
<1>5. ASSUME NEW t \in Tasks, LoopLaunch(t) PROVE TypeOK'
  BY <1>5 DEF LoopLaunch, CanLaunch
<1>6. CASE LoopMark
  BY <1>6 DEF LoopMark
<1>7. ASSUME NEW t \in Tasks, TaskFetched(t) PROVE TypeOK'
  BY <1>7 DEF TaskFetched
<1>8. ASSUME NEW t \in Tasks, TaskFetchFailed(t) PROVE TypeOK'
  BY <1>8 DEF TaskFetchFailed
<1>9. ASSUME NEW t \in Tasks, TaskNotifyFailure(t) PROVE TypeOK'
  <2>1. /\ notices' \in Seq([ok : BOOLEAN, key : Series])
        /\ Len(notices') <= NoticeCap
    <3>1. Failure(task[t].key) \in [ok : BOOLEAN, key : Series]
      BY <1>9 DEF TaskNotifyFailure
    <3> QED BY <1>9, <3>1, SendType DEF TaskNotifyFailure, Notify
  <2> QED BY <1>9, <2>1 DEF TaskNotifyFailure, Notify
<1>10. ASSUME NEW t \in Tasks, TaskInsert(t) PROVE TypeOK'
  BY <1>10 DEF TaskInsert
<1>11. ASSUME NEW t \in Tasks, TaskPublish(t) PROVE TypeOK'
  BY <1>11 DEF TaskPublish
<1>12. ASSUME NEW t \in Tasks, TaskNotifySuccess(t) PROVE TypeOK'
  <2>1. /\ notices' \in Seq([ok : BOOLEAN, key : Series])
        /\ Len(notices') <= NoticeCap
    <3>1. Success(task[t].key) \in [ok : BOOLEAN, key : Series]
      BY <1>12 DEF TaskNotifySuccess
    <3> QED BY <1>12, <3>1, SendType DEF TaskNotifySuccess, Notify
  <2> QED BY <1>12, <2>1 DEF TaskNotifySuccess, Notify
<1>13. ASSUME NEW c \in Callers, NEW k \in Series, CallerBegin(c, k) PROVE TypeOK'
  BY <1>13 DEF CallerBegin
<1>14. ASSUME NEW c \in Callers, CallerFetched(c) PROVE TypeOK'
  BY <1>14 DEF CallerFetched
<1>15. ASSUME NEW c \in Callers, CallerInsert(c) PROVE TypeOK'
  BY <1>15 DEF CallerInsert
<1>16. ASSUME NEW c \in Callers, CallerFinish(c) PROVE TypeOK'
  BY <1>16 DEF CallerFinish
<1>17. CASE FetchExit
  BY <1>17 DEF FetchExit, volatile
<1>18. CASE Crash
  BY <1>18 DEF Crash, volatile
<1>19. CASE Boot
  BY <1>19 DEF Boot
<1>20. CASE UNCHANGED vars
  BY <1>20 DEF vars
<1> QED
  BY <1>1, <1>2, <1>3, <1>4, <1>5, <1>6, <1>7, <1>8, <1>9, <1>10, <1>11, <1>12,
     <1>13, <1>14, <1>15, <1>16, <1>17, <1>18, <1>19, <1>20
  DEF Next, HubStep, LoopStep, TaskStep, CallerStep

\* Every variable keeps its type and no channel holds more than its room.
THEOREM TypeCorrect == Spec => []TypeOK
BY TypeInit, TypeStep, PTL DEF Spec
-----------------------------------------------------------------------------
(* AnnouncedIsStored is not inductive: a worker that is about to publish   *)
(* or to notify must have committed.  Once a series is recorded no step    *)
(* removes it, so the commit is still there when the announcement is made. *)
StoredBeforePublish ==
  /\ \A t \in Tasks :
       task[t].at \in {"publish", "notifySuccess"} => Recorded(task[t].key)
  /\ \A c \in Callers : caller[c].at = "publish" => Recorded(caller[c].key)

StoredInv == AnnouncedIsStored /\ StoredBeforePublish

\* No step, crash or reboot removes what is recorded in the database.
LEMMA RecordedStays ==
  ASSUME TypeOK, [Next]_vars, NEW k \in Series, Recorded(k)
  PROVE  Recorded(k)'
<1> USE DEF TypeOK, Recorded, Insert, Contents
<1>1. ASSUME NEW j \in Series, HubAsk(j) PROVE Recorded(k)'
  BY <1>1 DEF HubAsk
<1>2. CASE HubEnqueue
  BY <1>2 DEF HubEnqueue
<1>3. CASE HubReceive
  BY <1>3 DEF HubReceive
<1>4. CASE LoopReceive
  BY <1>4 DEF LoopReceive, CanReceive
<1>5. ASSUME NEW t \in Tasks, LoopLaunch(t) PROVE Recorded(k)'
  BY <1>5 DEF LoopLaunch, CanLaunch
<1>6. CASE LoopMark
  BY <1>6 DEF LoopMark
<1>7. ASSUME NEW t \in Tasks, TaskFetched(t) PROVE Recorded(k)'
  BY <1>7 DEF TaskFetched
<1>8. ASSUME NEW t \in Tasks, TaskFetchFailed(t) PROVE Recorded(k)'
  BY <1>8 DEF TaskFetchFailed
<1>9. ASSUME NEW t \in Tasks, TaskNotifyFailure(t) PROVE Recorded(k)'
  BY <1>9 DEF TaskNotifyFailure
<1>10. ASSUME NEW t \in Tasks, TaskInsert(t) PROVE Recorded(k)'
  BY <1>10 DEF TaskInsert
<1>11. ASSUME NEW t \in Tasks, TaskPublish(t) PROVE Recorded(k)'
  BY <1>11 DEF TaskPublish
<1>12. ASSUME NEW t \in Tasks, TaskNotifySuccess(t) PROVE Recorded(k)'
  BY <1>12 DEF TaskNotifySuccess
<1>13. ASSUME NEW c \in Callers, NEW j \in Series, CallerBegin(c, j) PROVE Recorded(k)'
  BY <1>13 DEF CallerBegin
<1>14. ASSUME NEW c \in Callers, CallerFetched(c) PROVE Recorded(k)'
  BY <1>14 DEF CallerFetched
<1>15. ASSUME NEW c \in Callers, CallerInsert(c) PROVE Recorded(k)'
  BY <1>15 DEF CallerInsert
<1>16. ASSUME NEW c \in Callers, CallerFinish(c) PROVE Recorded(k)'
  BY <1>16 DEF CallerFinish
<1>17. CASE FetchExit
  BY <1>17 DEF FetchExit, volatile
<1>18. CASE Crash
  BY <1>18 DEF Crash, volatile
<1>19. CASE Boot
  BY <1>19 DEF Boot
<1>20. CASE UNCHANGED vars
  BY <1>20 DEF vars
<1> QED
  BY <1>1, <1>2, <1>3, <1>4, <1>5, <1>6, <1>7, <1>8, <1>9, <1>10, <1>11,
     <1>12, <1>13, <1>14, <1>15, <1>16, <1>17, <1>18, <1>19, <1>20
  DEF Next, HubStep, LoopStep, TaskStep, CallerStep

(* What is in a channel after a send and after a receive.                  *)
LEMMA SendAdds ==
  ASSUME NEW S, NEW q \in Seq(S), NEW e \in S
  PROVE  InChannel(Append(q, e)) = InChannel(q) \cup {e}
<1>1. \A i \in DOMAIN q : i \in DOMAIN Append(q, e) /\ Append(q, e)[i] = q[i]
  OBVIOUS
<1>2. Len(q) + 1 \in DOMAIN Append(q, e) /\ Append(q, e)[Len(q) + 1] = e
  OBVIOUS
<1>3. \A i \in DOMAIN Append(q, e) : i \in DOMAIN q \/ i = Len(q) + 1
  OBVIOUS
<1> QED BY <1>1, <1>2, <1>3 DEF InChannel

\* A receive takes the first out, and perhaps leaves another copy of it.
LEMMA ReceiveTakes ==
  ASSUME NEW S, NEW q \in Seq(S), q # <<>>
  PROVE  InChannel(q) = InChannel(Tail(q)) \cup {Head(q)}
<1>1. \A i \in DOMAIN Tail(q) : i + 1 \in DOMAIN q /\ q[i + 1] = Tail(q)[i]
  OBVIOUS
<1>2. 1 \in DOMAIN q /\ q[1] = Head(q)
  OBVIOUS
<1>3. \A i \in DOMAIN q : i = 1 \/ (i - 1 \in DOMAIN Tail(q) /\ Tail(q)[i - 1] = q[i])
  OBVIOUS
<1>4. InChannel(q) \subseteq InChannel(Tail(q)) \cup {Head(q)}
  BY <1>2, <1>3 DEF InChannel
<1>5. InChannel(Tail(q)) \subseteq InChannel(q) /\ Head(q) \in InChannel(q)
  BY <1>1, <1>2 DEF InChannel
<1> QED BY <1>4, <1>5

\* What the hub is sent is in its inbox, next to what was there.
LEMMA NotifyAdds ==
  ASSUME TypeOK, NEW n \in [ok : BOOLEAN, key : Series], Notify(n)
  PROVE  InChannel(notices') = InChannel(notices) \cup {n}
<1> DEFINE S == [ok : BOOLEAN, key : Series]
<1>1. n \in S /\ notices' = Append(notices, n) /\ notices \in Seq(S)
  BY DEF TypeOK, Notify
<1> HIDE DEF S
<1>2. InChannel(Append(notices, n)) = InChannel(notices) \cup {n}
  BY <1>1, SendAdds
<1> QED BY <1>1, <1>2

\* A channel of messages holds nothing else, and an empty one nothing.
LEMMA ChannelType ==
  ASSUME NEW S, NEW q \in Seq(S)
  PROVE  InChannel(q) \subseteq S
BY DEF InChannel

LEMMA ChannelEmpty == InChannel(<<>>) = {}
BY DEF InChannel

(* A goroutine that is at work has a series.                               *)
LEMMA BusyWorker ==
  ASSUME NEW S, "idle" \notin S, NEW w \in Worker(S)
  PROVE  /\ w # Idle <=> w.at # "idle"
         /\ w.at # "idle" => w.at \in S /\ w.key \in Series
BY DEF Worker, Idle

\* A worker that is not idle has a series of its own.
LEMMA WorkerKey ==
  ASSUME TypeOK
  PROVE  /\ \A t \in Tasks : task[t] # Idle <=> task[t].at # "idle"
         /\ \A t \in Tasks : task[t].at # "idle" => task[t].key \in Series
         /\ \A c \in Callers : caller[c] # Idle <=> caller[c].at # "idle"
         /\ \A c \in Callers : caller[c].at # "idle" => caller[c].key \in Series
<1>1. \A t \in Tasks : task[t] \in Worker(TaskSteps)
  BY DEF TypeOK
<1>2. \A c \in Callers : caller[c] \in Worker({"fetch", "insert", "publish", "fail"})
  BY DEF TypeOK
<1>3. "idle" \notin TaskSteps
  BY DEF TaskSteps
<1> QED BY <1>1, <1>2, <1>3, BusyWorker

\* A worker announces only what it has committed.
LEMMA StoredStep == TypeOK /\ StoredInv /\ [Next]_vars => StoredInv'
<1> SUFFICES ASSUME TypeOK, StoredInv, [Next]_vars PROVE StoredInv'
  OBVIOUS
<1>0. TypeOK' /\ \A k \in Series : Recorded(k) => Recorded(k)'
  BY TypeStep, RecordedStays
<1> USE <1>0 DEF TypeOK, StoredInv, AnnouncedIsStored, StoredBeforePublish, Success,
             Failure, SetStatus, At, Idle, Worker, TaskSteps, Statuses, Contents, Insert
<1>1. ASSUME NEW k \in Series, HubAsk(k) PROVE StoredInv'
  BY <1>1 DEF HubAsk
<1>2. CASE HubEnqueue
  BY <1>2 DEF HubEnqueue
<1>3. CASE HubReceive
  <2>1. InChannel(notices') \subseteq InChannel(notices)
    BY <1>3, ReceiveTakes DEF HubReceive
  <2> QED BY <1>3, <2>1 DEF HubReceive
<1>4. CASE LoopReceive
  BY <1>4 DEF LoopReceive, CanReceive
<1>5. ASSUME NEW t \in Tasks, LoopLaunch(t) PROVE StoredInv'
  BY <1>5 DEF LoopLaunch, CanLaunch
<1>6. CASE LoopMark
  BY <1>6 DEF LoopMark
<1>7. ASSUME NEW t \in Tasks, TaskFetched(t) PROVE StoredInv'
  BY <1>7 DEF TaskFetched
<1>8. ASSUME NEW t \in Tasks, TaskFetchFailed(t) PROVE StoredInv'
  BY <1>8 DEF TaskFetchFailed
<1>9. ASSUME NEW t \in Tasks, TaskNotifyFailure(t) PROVE StoredInv'
  <2> DEFINE e == Failure(task[t].key)
  <2>1. e \in [ok : BOOLEAN, key : Series] /\ \A k \in Series : e # Success(k)
    BY <1>9 DEF TaskNotifyFailure
  <2>2. Notify(e)
    BY <1>9 DEF TaskNotifyFailure
  <2>3. InChannel(notices') = InChannel(notices) \cup {e}
    <3> HIDE DEF e, TypeOK
    <3> QED BY <2>1, <2>2, NotifyAdds
  <2> QED BY <1>9, <2>1, <2>3 DEF TaskNotifyFailure
<1>10. ASSUME NEW t \in Tasks, TaskInsert(t) PROVE StoredInv'
  <2> DEFINE content == IF task[t].at = "insert" THEN "bars" ELSE "empty"
  <2>1. PICK ok \in BOOLEAN :
          /\ Insert(task[t].key, content, ok)
          /\ task' = IF ok THEN [task EXCEPT ![t] = At("publish", @.key)] ELSE task
    BY <1>10 DEF TaskInsert
  <2>2. ok => Recorded(task[t].key)'
    BY <1>10, <2>1, WorkerKey DEF TaskInsert, Recorded
  <2>3. UNCHANGED <<status, notices, caller>>
    BY <1>10 DEF TaskInsert
  <2>4. AnnouncedIsStored'
    BY <2>3
  <2>5. StoredBeforePublish'
    <3>1. CASE ok
      BY <2>1, <2>2, <2>3, <3>1, WorkerKey
    <3>2. CASE ~ok
      BY <2>1, <2>3, <3>2, WorkerKey
    <3> QED BY <3>1, <3>2
  <2> QED BY <2>4, <2>5
<1>11. ASSUME NEW t \in Tasks, TaskPublish(t) PROVE StoredInv'
  BY <1>11 DEF TaskPublish
<1>12. ASSUME NEW t \in Tasks, TaskNotifySuccess(t) PROVE StoredInv'
  <2> DEFINE e == Success(task[t].key)
  <2>1. e \in [ok : BOOLEAN, key : Series] /\ Recorded(task[t].key)
    BY <1>12 DEF TaskNotifySuccess
  <2>2. Notify(e)
    BY <1>12 DEF TaskNotifySuccess
  <2>3. InChannel(notices') = InChannel(notices) \cup {e}
    <3> HIDE DEF e, TypeOK
    <3> QED BY <2>1, <2>2, NotifyAdds
  <2>4. \A k \in Series : e = Success(k) => k = task[t].key
    OBVIOUS
  <2>5. AnnouncedIsStored'
    BY <1>12, <2>1, <2>3, <2>4 DEF TaskNotifySuccess
  <2>6. StoredBeforePublish'
    BY <1>12, WorkerKey DEF TaskNotifySuccess
  <2> QED BY <2>5, <2>6
<1>13. ASSUME NEW c \in Callers, NEW k \in Series, CallerBegin(c, k) PROVE StoredInv'
  BY <1>13 DEF CallerBegin
<1>14. ASSUME NEW c \in Callers, CallerFetched(c) PROVE StoredInv'
  BY <1>14 DEF CallerFetched
<1>15. ASSUME NEW c \in Callers, CallerInsert(c) PROVE StoredInv'
  <2>1. PICK ok \in BOOLEAN :
          /\ Insert(caller[c].key, "bars", ok)
          /\ caller' = [caller EXCEPT ![c] = At(IF ok THEN "publish" ELSE "fail", @.key)]
    BY <1>15 DEF CallerInsert
  <2>2. ok => Recorded(caller[c].key)'
    BY <1>15, <2>1 DEF CallerInsert, Recorded
  <2>3. AnnouncedIsStored'
    BY <1>15 DEF CallerInsert
  <2>4. StoredBeforePublish'
    BY <1>15, <2>1, <2>2, WorkerKey DEF CallerInsert
  <2> QED BY <2>3, <2>4
<1>16. ASSUME NEW c \in Callers, CallerFinish(c) PROVE StoredInv'
  <2>1. AnnouncedIsStored'
    BY <1>16, WorkerKey DEF CallerFinish
  <2>2. StoredBeforePublish'
    BY <1>16, WorkerKey DEF CallerFinish
  <2> QED BY <2>1, <2>2
<1>17. CASE FetchExit
  BY <1>17 DEF FetchExit, volatile
<1>18. CASE Crash
  BY <1>18 DEF Crash, volatile
<1>19. CASE Boot
  BY <1>19, ChannelEmpty DEF Boot
<1>20. CASE UNCHANGED vars
  BY <1>20 DEF vars
<1> QED
  BY <1>1, <1>2, <1>3, <1>4, <1>5, <1>6, <1>7, <1>8, <1>9, <1>10, <1>11,
     <1>12, <1>13, <1>14, <1>15, <1>16, <1>17, <1>18, <1>19, <1>20
  DEF Next, HubStep, LoopStep, TaskStep, CallerStep

\* A series that is Ready, or that the hub is told about, is in the database,
\* for any workers and across crashes and reboots.
THEOREM AnnouncementsAreStored == Spec => []AnnouncedIsStored
<1>1. Init => StoredInv
  BY ChannelEmpty DEF Init, StoredInv, AnnouncedIsStored, StoredBeforePublish, Idle
<1> QED BY <1>1, StoredStep, TypeCorrect, PTL DEF Spec, StoredInv
-----------------------------------------------------------------------------
(* HydratingIsBacked: a worker that leaves has committed its series or     *)
(* reset the status, and the loop marks a series only after it launched a  *)
(* task for it, which is then at work on it or has committed it.           *)
MarkIsBacked ==
  loop.at = "mark" =>
    (\E t \in Tasks : Working(task[t], loop.key)) \/ Recorded(loop.key)

BackedInv == HydratingIsBacked /\ MarkIsBacked

\* A task that goes on to its next step keeps its series.
TasksStay ==
  \A u \in Tasks : /\ task'[u].key = task[u].key
                   /\ task[u].at # "idle" => task'[u].at # "idle"

LEMMA TaskGoesOn ==
  ASSUME TypeOK, NEW t \in Tasks, task[t].at # "idle", NEW step \in TaskSteps,
         task' = [task EXCEPT ![t] = At(step, @.key)]
  PROVE  TasksStay
BY DEF TypeOK, TasksStay, At, Worker, TaskSteps, Idle

\* What is backed stays backed as long as no series becomes Hydrating and the
\* tasks keep their series.
LEMMA BackingStays ==
  ASSUME BackedInv, TasksStay, UNCHANGED <<loop, caller>>,
         \A k \in Series : Recorded(k) => Recorded(k)',
         \A k \in Series : status'[k] = "Hydrating" => status[k] = "Hydrating",
         loop.at = "mark" => loop.key \in Series
  PROVE  BackedInv'
BY DEF BackedInv, HydratingIsBacked, MarkIsBacked, TasksStay, Busy, Working

\* A task may leave a series that is stored.
LEMMA BackingAfterTask ==
  ASSUME BackedInv, NEW t \in Tasks, Recorded(task[t].key),
         UNCHANGED <<status, db, loop, caller>>,
         \A u \in Tasks : u # t => task'[u] = task[u],
         loop.at = "mark" => loop.key \in Series
  PROVE  BackedInv'
BY DEF BackedInv, HydratingIsBacked, MarkIsBacked, Busy, Working, Recorded

\* Hydrating is set by a worker at work, or by the loop after its task began.
LEMMA BackedStep == TypeOK /\ StoredInv /\ BackedInv /\ [Next]_vars => BackedInv'
<1> SUFFICES ASSUME TypeOK, StoredInv, BackedInv, [Next]_vars PROVE BackedInv'
  OBVIOUS
<1>0. TypeOK' /\ \A k \in Series : Recorded(k) => Recorded(k)'
  BY TypeStep, RecordedStays
<1> USE <1>0 DEF TypeOK, StoredInv, StoredBeforePublish, BackedInv, HydratingIsBacked,
             MarkIsBacked, Busy, Working, SetStatus, At, Idle, Worker, TaskSteps, Statuses
<1>1. ASSUME NEW k \in Series, HubAsk(k) PROVE BackedInv'
  BY <1>1 DEF HubAsk
<1>2. CASE HubEnqueue
  <2>1. UNCHANGED <<status, db, loop, task, caller>>
    BY <1>2 DEF HubEnqueue
  <2> QED BY <2>1
<1>3. CASE HubReceive
  <2>1. UNCHANGED <<status, db, loop, task, caller>>
    BY <1>3 DEF HubReceive
  <2> QED BY <2>1
<1>4. CASE LoopReceive
  BY <1>4 DEF LoopReceive, CanReceive
<1>5. ASSUME NEW t \in Tasks, LoopLaunch(t) PROVE BackedInv'
  BY <1>5 DEF LoopLaunch, CanLaunch
<1>6. CASE LoopMark
  BY <1>6 DEF LoopMark
<1>21. loop.at = "mark" => loop.key \in Series
  OBVIOUS
<1>7. ASSUME NEW t \in Tasks, TaskFetched(t) PROVE BackedInv'
  <2>1. TasksStay
    BY <1>7, TaskGoesOn DEF TaskFetched
  <2> QED BY <1>0, <1>7, <1>21, <2>1, BackingStays DEF TaskFetched
<1>8. ASSUME NEW t \in Tasks, TaskFetchFailed(t) PROVE BackedInv'
  <2>1. TasksStay
    BY <1>8, TaskGoesOn DEF TaskFetchFailed
  <2>2. \A k \in Series : status'[k] = "Hydrating" => status[k] = "Hydrating"
    BY <1>8 DEF TaskFetchFailed
  <2> QED BY <1>0, <1>8, <1>21, <2>1, <2>2, BackingStays DEF TaskFetchFailed
<1>9. ASSUME NEW t \in Tasks, TaskNotifyFailure(t) PROVE BackedInv'
  <2>1. TasksStay
    BY <1>9, TaskGoesOn DEF TaskNotifyFailure
  <2> QED BY <1>0, <1>9, <1>21, <2>1, BackingStays DEF TaskNotifyFailure
<1>10. ASSUME NEW t \in Tasks, TaskInsert(t) PROVE BackedInv'
  <2>1. UNCHANGED <<status, loop, caller>>
    BY <1>10 DEF TaskInsert
  <2>2. /\ task[t].at # "idle"
        /\ task' = task \/ task' = [task EXCEPT ![t] = At("publish", @.key)]
    BY <1>10 DEF TaskInsert
  <2>3. TasksStay
    BY <2>2, TaskGoesOn DEF TasksStay
  <2> QED BY <1>0, <1>21, <2>1, <2>3, BackingStays
<1>11. ASSUME NEW t \in Tasks, TaskPublish(t) PROVE BackedInv'
  <2>1. TasksStay
    BY <1>11, TaskGoesOn DEF TaskPublish
  <2>2. \A k \in Series : status'[k] = "Hydrating" => status[k] = "Hydrating"
    BY <1>11 DEF TaskPublish
  <2> QED BY <1>0, <1>11, <1>21, <2>1, <2>2, BackingStays DEF TaskPublish
<1>12. ASSUME NEW t \in Tasks, TaskNotifySuccess(t) PROVE BackedInv'
  <2>1. Recorded(task[t].key) /\ UNCHANGED <<status, db, loop, caller>>
    BY <1>12 DEF TaskNotifySuccess
  <2>2. \A u \in Tasks : u # t => task'[u] = task[u]
    BY <1>12 DEF TaskNotifySuccess
  <2> QED BY <1>21, <2>1, <2>2, BackingAfterTask
<1>13. ASSUME NEW c \in Callers, NEW k \in Series, CallerBegin(c, k) PROVE BackedInv'
  <2>1. \A d \in Callers : Working(caller[d], k)' <=> d = c \/ Working(caller[d], k)
    BY <1>13 DEF CallerBegin
  <2>2. HydratingIsBacked'
    BY <1>13 DEF CallerBegin
  <2>3. MarkIsBacked'
    BY <1>13 DEF CallerBegin
  <2> QED BY <2>2, <2>3
<1>14. ASSUME NEW c \in Callers, CallerFetched(c) PROVE BackedInv'
  <2>1. \A d \in Callers : /\ caller'[d].key = caller[d].key
                            /\ caller[d].at # "idle" => caller'[d].at # "idle"
    BY <1>14, WorkerKey DEF CallerFetched
  <2>2. HydratingIsBacked'
    BY <1>14, <2>1 DEF CallerFetched
  <2>3. MarkIsBacked'
    BY <1>14 DEF CallerFetched
  <2> QED BY <2>2, <2>3
<1>15. ASSUME NEW c \in Callers, CallerInsert(c) PROVE BackedInv'
  BY <1>15 DEF CallerInsert
<1>16. ASSUME NEW c \in Callers, CallerFinish(c) PROVE BackedInv'
  BY <1>16 DEF CallerFinish
<1>17. CASE FetchExit
  BY <1>17 DEF FetchExit, volatile
<1>18. CASE Crash
  BY <1>18 DEF Crash, volatile
<1>19. CASE Boot
  BY <1>19 DEF Boot
<1>20. CASE UNCHANGED vars
  BY <1>20 DEF vars
<1> QED
  BY <1>1, <1>2, <1>3, <1>4, <1>5, <1>6, <1>7, <1>8, <1>9, <1>10, <1>11,
     <1>12, <1>13, <1>14, <1>15, <1>16, <1>17, <1>18, <1>19, <1>20
  DEF Next, HubStep, LoopStep, TaskStep, CallerStep

\* A series marked Hydrating has a worker, or is stored: it is never refused
\* without anyone having brought it in.
THEOREM HydratingSeriesAreBacked == Spec => []HydratingIsBacked
<1>1. Init => BackedInv
  BY DEF Init, BackedInv, HydratingIsBacked, MarkIsBacked, Idle
<1>2. Init => StoredInv
  BY ChannelEmpty DEF Init, StoredInv, AnnouncedIsStored, StoredBeforePublish, Idle
<1> QED BY <1>1, <1>2, BackedStep, StoredStep, TypeCorrect, PTL DEF Spec, BackedInv
-----------------------------------------------------------------------------
(* CallersSingleFlight: as long as no task was told of a failed fetch of a *)
(* series, only a handler writes Failed for it, as it leaves; so a series  *)
(* that a handler works on stays refused to the others.                    *)
CallerHoldsSeries ==
  \A c \in Callers :
    caller[c].at # "idle" /\ caller[c].key \notin reported =>
      status[caller[c].key] \in {"Hydrating", "Ready"}

FlightInv == CallersSingleFlight /\ CallerHoldsSeries

\* Between its test-and-set and its last write a handler holds its series.
LEMMA FlightStep == TypeOK /\ FlightInv /\ [Next]_vars => FlightInv'
<1> SUFFICES ASSUME TypeOK, FlightInv, [Next]_vars PROVE FlightInv'
  OBVIOUS
<1>0. TypeOK'
  BY TypeStep
<1> USE <1>0, HydrationAssumption
    DEF HydrationAssumption, TypeOK, FlightInv, CallersSingleFlight, CallerHoldsSeries,
        Working, SetStatus, At, Idle, Worker, TaskSteps, Statuses
<1>1. ASSUME NEW k \in Series, HubAsk(k) PROVE FlightInv'
  BY <1>1 DEF HubAsk
<1>2. CASE HubEnqueue
  BY <1>2 DEF HubEnqueue
<1>3. CASE HubReceive
  BY <1>3 DEF HubReceive
<1>4. CASE LoopReceive
  BY <1>4 DEF LoopReceive, CanReceive
<1>5. ASSUME NEW t \in Tasks, LoopLaunch(t) PROVE FlightInv'
  BY <1>5 DEF LoopLaunch, CanLaunch
<1>6. CASE LoopMark
  BY <1>6 DEF LoopMark
<1>7. ASSUME NEW t \in Tasks, TaskFetched(t) PROVE FlightInv'
  BY <1>7 DEF TaskFetched
<1>8. ASSUME NEW t \in Tasks, TaskFetchFailed(t) PROVE FlightInv'
  BY <1>8 DEF TaskFetchFailed
<1>9. ASSUME NEW t \in Tasks, TaskNotifyFailure(t) PROVE FlightInv'
  BY <1>9 DEF TaskNotifyFailure
<1>10. ASSUME NEW t \in Tasks, TaskInsert(t) PROVE FlightInv'
  <2>1. UNCHANGED <<status, caller, reported>>
    BY <1>10 DEF TaskInsert
  <2> QED BY <2>1
<1>11. ASSUME NEW t \in Tasks, TaskPublish(t) PROVE FlightInv'
  BY <1>11 DEF TaskPublish
<1>12. ASSUME NEW t \in Tasks, TaskNotifySuccess(t) PROVE FlightInv'
  BY <1>12 DEF TaskNotifySuccess
<1>13. ASSUME NEW c \in Callers, NEW k \in Series, CallerBegin(c, k) PROVE FlightInv'
  BY <1>13 DEF CallerBegin
<1>14. ASSUME NEW c \in Callers, CallerFetched(c) PROVE FlightInv'
  BY <1>14 DEF CallerFetched
<1>15. ASSUME NEW c \in Callers, CallerInsert(c) PROVE FlightInv'
  BY <1>15 DEF CallerInsert
<1>16. ASSUME NEW c \in Callers, CallerFinish(c) PROVE FlightInv'
  BY <1>16 DEF CallerFinish
<1>17. CASE FetchExit
  BY <1>17 DEF FetchExit, volatile
<1>18. CASE Crash
  BY <1>18 DEF Crash, volatile
<1>19. CASE Boot
  BY <1>19 DEF Boot
<1>20. CASE UNCHANGED vars
  BY <1>20 DEF vars
<1> QED
  BY <1>1, <1>2, <1>3, <1>4, <1>5, <1>6, <1>7, <1>8, <1>9, <1>10, <1>11,
     <1>12, <1>13, <1>14, <1>15, <1>16, <1>17, <1>18, <1>19, <1>20
  DEF Next, HubStep, LoopStep, TaskStep, CallerStep

\* No two HTTP handlers hydrate one series at a time.
THEOREM CallersDoNotCollide == Spec => []CallersSingleFlight
<1>1. Init => FlightInv
  BY DEF Init, FlightInv, CallersSingleFlight, CallerHoldsSeries, Idle, Working
<1> QED BY <1>1, FlightStep, TypeCorrect, PTL DEF Spec, FlightInv
-----------------------------------------------------------------------------
(* AskedIsBacked needs BackedInv and StoredInv beside it: the loop drops a *)
(* query because the status is Ready, when the series is stored, or        *)
(* Hydrating, when it is backed; and what it launched it marks, which      *)
(* overwrites a Failed.                                                    *)
Held(k) == Busy(k) \/ Recorded(k) \/ status[k] = "Failed"
Tracked(k) == Working(hub, k) \/ k \in InChannel(queries) \/ Working(loop, k) \/ Held(k)

\* A step of the workers keeps what is tracked, as long as they keep what they hold.
LEMMA TrackingStays ==
  ASSUME NEW k \in Series, Tracked(k), Held(k) => Held(k)', UNCHANGED <<hub, queries, loop>>
  PROVE  Tracked(k)'
BY DEF Tracked, Working

\* A task that goes on holds its series, whatever it writes to the status of it.
LEMMA TaskHolds ==
  ASSUME TypeOK, NEW k \in Series, Held(k), NEW t \in Tasks, task[t].at # "idle",
         NEW step \in TaskSteps, task' = [task EXCEPT ![t] = At(step, @.key)],
         caller' = caller, Recorded(k) => Recorded(k)',
         k # task[t].key => status'[k] = status[k]
  PROVE  Held(k)'
<1>1. TasksStay
  BY TaskGoesOn
<1>2. Busy(k) => Busy(k)'
  BY <1>1 DEF Busy, Working, TasksStay
<1>3. k = task[t].key => Busy(k)'
  BY <1>1 DEF Busy, Working, TasksStay
<1> QED BY <1>2, <1>3 DEF Held

\* So does a handler.
LEMMA CallerHolds ==
  ASSUME TypeOK, NEW k \in Series, Held(k), NEW c \in Callers, caller[c].at # "idle",
         NEW step \in {"fetch", "insert", "publish", "fail"},
         caller' = [caller EXCEPT ![c] = At(step, @.key)],
         UNCHANGED <<task, status>>, Recorded(k) => Recorded(k)'
  PROVE  Held(k)'
<1>1. \A d \in Callers : /\ caller'[d].key = caller[d].key
                         /\ caller[d].at # "idle" => caller'[d].at # "idle"
  BY DEF TypeOK, At
<1> QED BY <1>1 DEF Held, Busy, Working

\* What is asked for is tracked after every step.
LEMMA AskedStep ==
  TypeOK /\ StoredInv /\ BackedInv /\ AskedIsBacked /\ [Next]_vars => AskedIsBacked'
<1> SUFFICES ASSUME TypeOK, StoredInv, BackedInv, AskedIsBacked, [Next]_vars
             PROVE  \A k \in asked' : Tracked(k)'
  BY DEF AskedIsBacked, Tracked, Held
<1>b. asked' \in SUBSET Series
  BY TypeStep DEF TypeOK
<1> SUFFICES ASSUME NEW k \in Series, k \in asked' PROVE Tracked(k)'
  BY <1>b
<1>0. /\ Recorded(k) => Recorded(k)'
      /\ k \in asked => Tracked(k)
      /\ status[k] = "Ready" => Recorded(k)
      /\ status[k] = "Hydrating" => Busy(k) \/ Recorded(k)
  BY RecordedStays DEF AskedIsBacked, Tracked, Held, StoredInv, AnnouncedIsStored, BackedInv,
     HydratingIsBacked
<1>a. ASSUME UNCHANGED <<status, db, queries, loop, task, caller, hub>>, asked' \subseteq asked
      PROVE  Tracked(k)'
  BY <1>0, <1>a DEF Tracked, Held, Busy, Working, Recorded
<1>1. ASSUME NEW j \in Series, HubAsk(j) PROVE Tracked(k)'
  <2>1. /\ hub' = At("asking", j) /\ ~Working(hub, k) /\ asked' = asked \cup {j}
        /\ UNCHANGED <<status, db, queries, loop, task, caller>>
    BY <1>1 DEF HubAsk, Working, Idle
  <2>2. k = j => Working(hub', k)
    BY <2>1 DEF Working, At
  <2>3. k # j => Tracked(k)'
    BY <1>0, <2>1 DEF Tracked, Held, Busy, Working, Recorded
  <2> QED BY <2>2, <2>3 DEF Tracked, Working
<1>2. CASE HubEnqueue
  <2>1. /\ queries' = Append(queries, hub.key) /\ hub.at = "asking" /\ hub' = Idle
        /\ UNCHANGED <<status, db, asked, loop, task, caller>>
    BY <1>2 DEF HubEnqueue
  <2>2. queries \in Seq(Series) /\ hub.key \in Series
    BY <2>1 DEF TypeOK, Worker, Idle
  <2>3. InChannel(queries') = InChannel(queries) \cup {hub.key}
    BY <2>1, <2>2, SendAdds
  <2> QED BY <1>0, <2>1, <2>3 DEF Tracked, Held, Busy, Working, Recorded
<1>3. CASE HubReceive
  BY <1>a, <1>3 DEF HubReceive
<1>4. CASE LoopReceive
  <2>1. /\ queries # <<>> /\ queries' = Tail(queries) /\ ~Working(loop, k)
        /\ loop' = IF status[Head(queries)] \in {"Ready", "Hydrating"} THEN Idle
                   ELSE At("launch", Head(queries))
        /\ UNCHANGED <<status, db, asked, hub, task, caller>>
    BY <1>4 DEF LoopReceive, CanReceive, Idle, Working
  <2>2. InChannel(queries) = InChannel(queries') \cup {Head(queries)}
    BY <2>1, ReceiveTakes DEF TypeOK
  <2>3. Held(k) => Held(k)'
    BY <2>1 DEF Held, Busy, Working, Recorded
  <2>4. CASE k = Head(queries)
    <3>1. Held(k) \/ Working(loop', k)
      BY <1>0, <2>1, <2>4 DEF Held, Working, At
    <3> QED BY <2>3, <3>1 DEF Tracked, Working
  <2>5. CASE k # Head(queries)
    BY <1>0, <2>1, <2>2, <2>3, <2>5 DEF Tracked, Working
  <2> QED BY <2>4, <2>5
<1>5. ASSUME NEW t \in Tasks, LoopLaunch(t) PROVE Tracked(k)'
  <2>1. /\ loop' = At("mark", loop.key) /\ loop.at = "launch" /\ task[t] = Idle
        /\ task' = [task EXCEPT ![t] = At("fetch", loop.key)]
        /\ UNCHANGED <<status, db, asked, queries, hub, caller>>
    BY <1>5 DEF LoopLaunch, CanLaunch
  <2>2. Held(k) => Held(k)'
    BY <2>1 DEF Held, Busy, Working, Recorded, TypeOK, Idle
  <2>3. Working(loop, k) => Working(loop', k)
    BY <2>1 DEF Working, At
  <2> QED BY <1>0, <2>1, <2>2, <2>3 DEF Tracked, Working
<1>6. CASE LoopMark
  <2>1. /\ loop.at = "mark" /\ UNCHANGED <<db, asked, queries, task, hub, caller>>
        /\ status' = [status EXCEPT ![loop.key] = "Hydrating"]
    BY <1>6 DEF LoopMark, SetStatus
  <2>2. k = loop.key => Busy(k) \/ Recorded(k)
    BY <2>1 DEF BackedInv, MarkIsBacked, Busy
  <2>3. Busy(k) \/ Recorded(k) => Held(k)'
    BY <2>1 DEF Held, Busy, Working, Recorded
  <2>4. k # loop.key => (Held(k) => Held(k)') /\ ~Working(loop, k)
    BY <2>1 DEF Held, Busy, Working, Recorded, TypeOK
  <2> QED BY <1>0, <2>1, <2>2, <2>3, <2>4 DEF Tracked, Working
<1>7. ASSUME NEW t \in Tasks, TaskFetched(t) \/ TaskFetchFailed(t) \/ TaskPublish(t)
      PROVE  Tracked(k)'
  <2>1. /\ UNCHANGED <<hub, queries, loop, caller, asked, db>> /\ task[t].at # "idle"
        /\ k # task[t].key => status'[k] = status[k]
    BY <1>7 DEF TaskFetched, TaskFetchFailed, TaskPublish, SetStatus, TypeOK
  <2>2. PICK step \in TaskSteps : task' = [task EXCEPT ![t] = At(step, @.key)]
    BY <1>7 DEF TaskFetched, TaskFetchFailed, TaskPublish, TaskSteps
  <2>3. Held(k) => Held(k)'
    BY <1>0, <2>1, <2>2, TaskHolds
  <2> QED BY <1>0, <2>1, <2>3, TrackingStays
<1>9. ASSUME NEW t \in Tasks, TaskNotifyFailure(t) PROVE Tracked(k)'
  <2>1. /\ UNCHANGED <<hub, queries, loop, caller, status>> /\ task[t].at # "idle"
        /\ asked' \subseteq asked
        /\ task' = [task EXCEPT ![t] = At("insertEmpty", @.key)]
    BY <1>9 DEF TaskNotifyFailure, Notify
  <2>2. Held(k) => Held(k)'
    BY <1>0, <2>1, TaskHolds DEF TaskSteps
  <2> QED BY <1>0, <2>1, <2>2, TrackingStays
<1>10. ASSUME NEW t \in Tasks, TaskInsert(t) PROVE Tracked(k)'
  <2>1. /\ UNCHANGED <<hub, queries, loop, caller, status, asked>> /\ task[t].at # "idle"
        /\ task' = task \/ task' = [task EXCEPT ![t] = At("publish", @.key)]
    BY <1>10 DEF TaskInsert
  <2>2. task' = task => (Held(k) => Held(k)')
    BY <1>0, <2>1 DEF Held, Busy, Working
  <2>3. Held(k) => Held(k)'
    BY <1>0, <2>1, <2>2, TaskHolds DEF TaskSteps
  <2> QED BY <1>0, <2>1, <2>3, TrackingStays
<1>12. ASSUME NEW t \in Tasks, TaskNotifySuccess(t) PROVE Tracked(k)'
  <2>1. /\ UNCHANGED <<hub, queries, loop, caller, status, db>> /\ task[t].at # "idle"
        /\ k \in asked /\ task' = [task EXCEPT ![t] = Idle] /\ k # task[t].key
    BY <1>12 DEF TaskNotifySuccess, Notify, Success
  <2>2. Held(k) => Held(k)'
    BY <2>1 DEF Held, Busy, Working, Recorded, TypeOK
  <2> QED BY <1>0, <2>1, <2>2, TrackingStays
<1>13. ASSUME NEW c \in Callers, NEW j \in Series, CallerBegin(c, j) PROVE Tracked(k)'
  <2>1. /\ UNCHANGED <<hub, queries, loop, task, asked, db>> /\ caller[c] = Idle
        /\ caller' = [caller EXCEPT ![c] = At("fetch", j)]
        /\ k # j => status'[k] = status[k]
    BY <1>13 DEF CallerBegin, SetStatus, TypeOK
  <2>2. Busy(k) => Busy(k)'
    BY <2>1 DEF Busy, Working, TypeOK, Idle
  <2>3. k = j => Busy(k)'
    BY <2>1 DEF Busy, Working, TypeOK, At
  <2>4. Held(k) => Held(k)'
    BY <1>0, <2>1, <2>2, <2>3 DEF Held
  <2> QED BY <1>0, <2>1, <2>4, TrackingStays
<1>14. ASSUME NEW c \in Callers, CallerFetched(c) \/ CallerInsert(c) PROVE Tracked(k)'
  <2>1. UNCHANGED <<hub, queries, loop, task, asked, status>> /\ caller[c].at # "idle"
    BY <1>14 DEF CallerFetched, CallerInsert
  <2>2. PICK step \in {"fetch", "insert", "publish", "fail"} :
          caller' = [caller EXCEPT ![c] = At(step, @.key)]
    BY <1>14 DEF CallerFetched, CallerInsert
  <2>3. Held(k) => Held(k)'
    BY <1>0, <2>1, <2>2, CallerHolds
  <2> QED BY <1>0, <2>1, <2>3, TrackingStays
<1>16. ASSUME NEW c \in Callers, CallerFinish(c) PROVE Tracked(k)'
  <2>1. /\ UNCHANGED <<hub, queries, loop, task, asked, db>>
        /\ caller[c].at \in {"publish", "fail"} /\ caller' = [caller EXCEPT ![c] = Idle]
        /\ status' = [status EXCEPT ![caller[c].key] =
                        IF caller[c].at = "publish" THEN "Ready" ELSE "Failed"]
    BY <1>16 DEF CallerFinish, SetStatus
  <2>2. caller[c].at = "publish" => Recorded(caller[c].key)
    BY DEF StoredInv, StoredBeforePublish
  <2>3. k = caller[c].key => Held(k)'
    BY <1>0, <2>1, <2>2 DEF Held, TypeOK
  <2>4. k # caller[c].key => (Held(k) => Held(k)')
    BY <2>1 DEF Held, Busy, Working, Recorded, TypeOK
  <2> QED BY <1>0, <2>1, <2>3, <2>4, TrackingStays
<1>17. CASE FetchExit \/ Crash
  BY <1>a, <1>17 DEF FetchExit, Crash, volatile
<1>19. CASE Boot
  BY <1>19 DEF Boot
<1>20. CASE UNCHANGED vars
  BY <1>a, <1>20 DEF vars
<1> QED
  BY <1>1, <1>2, <1>3, <1>4, <1>5, <1>6, <1>7, <1>9, <1>10, <1>12, <1>13, <1>14, <1>16,
     <1>17, <1>19, <1>20
  DEF Next, HubStep, LoopStep, TaskStep, CallerStep

\* A query of the hub is never lost: it is on its way or in work, or the series
\* is stored or known to have failed.
THEOREM QueriesAreNotLost == Spec => []AskedIsBacked
<1>1. Init => AskedIsBacked
  BY DEF Init, AskedIsBacked
<1>2. Init => StoredInv
  BY ChannelEmpty DEF Init, StoredInv, AnnouncedIsStored, StoredBeforePublish, Idle
<1>3. Init => BackedInv
  BY DEF Init, BackedInv, HydratingIsBacked, MarkIsBacked, Idle
<1> QED BY <1>1, <1>2, <1>3, AskedStep, BackedStep, StoredStep, TypeCorrect, PTL DEF Spec
-----------------------------------------------------------------------------
(* The contract of HydrationService: the notices of the contract are those *)
(* in the inbox, a set of no more of them than the inbox has room for.     *)
LEMMA ChannelCardinality ==
  ASSUME NEW S, NEW q \in Seq(S)
  PROVE  Cardinality(InChannel(q)) \in Nat /\ Cardinality(InChannel(q)) <= Len(q)
<1>1. Len(q) \in Nat /\ DOMAIN q = 1..Len(q)
  OBVIOUS
<1>2. q \in [1..Len(q) -> InChannel(q)]
  BY <1>1 DEF InChannel
<1>3. \A e \in InChannel(q) : \E i \in 1..Len(q) : q[i] = e
  BY <1>1 DEF InChannel
<1>4. q \in Surjection(1..Len(q), InChannel(q))
  BY <1>2, <1>3 DEF Surjection
<1>5. IsFiniteSet(InChannel(q))
  BY <1>1, <1>4, FS_NatSurjection DEF ExistsSurjection
<1> QED BY <1>1, <1>4, <1>5, FS_CardinalityType, FS_SurjCardinalityBound DEF ExistsSurjection

\* The contract counts as we do.
LEMMA SameCardinality ==
  ASSUME NEW S
  PROVE  Service!Cardinality(S) = Cardinality(S)
BY DEF Service!Cardinality, Cardinality

\* What the contract sees of a step that touches neither the database nor a channel.
LEMMA ServiceStutters ==
  ASSUME UNCHANGED <<db, notices, asked>>
  PROVE  UNCHANGED Service!vars
BY DEF Service!vars, Recorded

\* A notice that is sent is one of the contract.
LEMMA NotifyIsNotify ==
  ASSUME TypeOK, TypeOK', NEW n \in [ok : BOOLEAN, key : Series], Notify(n),
         n.ok => Recorded(n.key), db' = db
  PROVE  Service!Notify(n)
<1>1. InChannel(notices)' = InChannel(notices) \cup {n}
  BY NotifyAdds
<1>2. Cardinality(InChannel(notices')) <= NoticeCap
  <2> DEFINE S == [ok : BOOLEAN, key : Series]
  <2>1. notices' \in Seq(S) /\ Len(notices') <= NoticeCap
    BY DEF TypeOK
  <2> HIDE DEF S
  <2>2. /\ Cardinality(InChannel(notices')) \in Nat
        /\ Cardinality(InChannel(notices')) <= Len(notices')
    BY <2>1, ChannelCardinality
  <2>3. Len(notices') \in Nat /\ NoticeCap \in Nat
    BY <2>1, HydrationAssumption DEF HydrationAssumption
  <2> QED BY <2>1, <2>2, <2>3
<1>3. {k \in Series : Recorded(k)}' = {k \in Series : Recorded(k)}
  BY DEF Recorded
<1>4. n.key \in Series /\ asked' = asked \ {n.key}
  BY DEF Notify
<1> QED BY <1>1, <1>2, <1>3, <1>4, SameCardinality DEF Service!Notify

\* An insert stores a series that was not stored, or does nothing.
LEMMA InsertIsStore ==
  ASSUME TypeOK, NEW k \in Series, NEW content \in {"bars", "empty"}, NEW ok \in BOOLEAN,
         Insert(k, content, ok), UNCHANGED <<notices, asked>>
  PROVE  [Service!Store(k)]_Service!vars
<1>1. CASE ~Recorded(k) /\ db' = [db EXCEPT ![k] = content]
  <2>1. {j \in Series : Recorded(j)}' = {j \in Series : Recorded(j)} \cup {k}
    BY <1>1 DEF Recorded, TypeOK
  <2> QED BY <1>1, <2>1 DEF Service!Store
<1>2. CASE db' = db
  BY <1>2, ServiceStutters
<1> QED BY <1>1, <1>2 DEF Insert

\* What the hub takes from its inbox is a notice.
LEMMA NoticeType ==
  ASSUME TypeOK, notices # <<>>
  PROVE  Head(notices) \in [ok : BOOLEAN, key : Series]
<1> DEFINE S == [ok : BOOLEAN, key : Series]
<1>1. notices \in Seq(S)
  BY DEF TypeOK
<1> HIDE DEF S
<1>2. Head(notices) \in S
  BY <1>1
<1> QED BY <1>2 DEF S

\* Every step is a step of the contract, or none of its business.
LEMMA ServiceStep ==
  TypeOK /\ StoredInv /\ [Next]_vars => [Service!Next]_Service!vars
<1> SUFFICES ASSUME TypeOK, StoredInv, [Next]_vars PROVE [Service!Next]_Service!vars
  OBVIOUS
<1>0. TypeOK'
  BY TypeStep
<1>a. ASSUME UNCHANGED <<db, notices, asked>> PROVE [Service!Next]_Service!vars
  BY <1>a, ServiceStutters
<1>b. ASSUME NEW n \in [ok : BOOLEAN, key : Series], Service!Notify(n)
      PROVE  [Service!Next]_Service!vars
  BY <1>b DEF Service!Next, Service!ManagerStep, Service!Notices
<1>c. ASSUME NEW k \in Series, [Service!Store(k)]_Service!vars
      PROVE  [Service!Next]_Service!vars
  BY <1>c DEF Service!Next, Service!ManagerStep
<1>1. ASSUME NEW k \in Series, HubAsk(k) PROVE [Service!Next]_Service!vars
  <2>1. Service!Query(k)
    BY <1>1 DEF HubAsk, Service!Query, Recorded
  <2> QED BY <2>1 DEF Service!Next, Service!HubStep
<1>2. CASE HubEnqueue
  BY <1>a, <1>2 DEF HubEnqueue
<1>3. CASE HubReceive
  <2> DEFINE n == Head(notices)
  <2>1. /\ notices # <<>> /\ notices' = Tail(notices) /\ UNCHANGED <<db, asked>>
        /\ n \in [ok : BOOLEAN, key : Series]
    BY <1>3, NoticeType DEF HubReceive
  <2>2. InChannel(notices) = InChannel(notices') \cup {n}
    BY <2>1, ReceiveTakes DEF TypeOK
  <2> HIDE DEF n
  <2>3. InChannel(notices)' \in {InChannel(notices), InChannel(notices) \ {n}}
    BY <2>2
  <2>4. Service!Take(n)
    BY <2>1, <2>2, <2>3 DEF Service!Take, Recorded
  <2> QED BY <2>1, <2>4 DEF Service!Next, Service!HubStep, Service!Notices
<1>4. CASE LoopReceive
  BY <1>a, <1>4 DEF LoopReceive, CanReceive
<1>5. ASSUME NEW t \in Tasks, LoopLaunch(t) PROVE [Service!Next]_Service!vars
  BY <1>a, <1>5 DEF LoopLaunch, CanLaunch
<1>6. CASE LoopMark
  BY <1>a, <1>6 DEF LoopMark
<1>7. ASSUME NEW t \in Tasks, TaskFetched(t) \/ TaskFetchFailed(t) \/ TaskPublish(t)
      PROVE  [Service!Next]_Service!vars
  BY <1>a, <1>7 DEF TaskFetched, TaskFetchFailed, TaskPublish
<1>9. ASSUME NEW t \in Tasks, TaskNotifyFailure(t) PROVE [Service!Next]_Service!vars
  <2> DEFINE n == Failure(task[t].key)
  <2>1. n \in [ok : BOOLEAN, key : Series] /\ ~n.ok /\ Notify(n) /\ db' = db
    BY <1>9, WorkerKey DEF TaskNotifyFailure, Failure
  <2> HIDE DEF n
  <2>2. Service!Notify(n)
    BY <1>0, <2>1, NotifyIsNotify
  <2> QED BY <1>b, <2>1, <2>2
<1>10. ASSUME NEW t \in Tasks, TaskInsert(t) PROVE [Service!Next]_Service!vars
  <2> DEFINE k == task[t].key
             content == IF task[t].at = "insert" THEN "bars" ELSE "empty"
  <2>1. /\ k \in Series /\ content \in {"bars", "empty"} /\ UNCHANGED <<notices, asked>>
        /\ \E ok \in BOOLEAN : Insert(k, content, ok)
    BY <1>10, WorkerKey DEF TaskInsert
  <2> HIDE DEF k, content
  <2>2. [Service!Store(k)]_Service!vars
    BY <2>1, InsertIsStore
  <2> QED BY <1>c, <2>1, <2>2
<1>12. ASSUME NEW t \in Tasks, TaskNotifySuccess(t) PROVE [Service!Next]_Service!vars
  <2> DEFINE n == Success(task[t].key)
  <2>1. /\ n \in [ok : BOOLEAN, key : Series] /\ Notify(n) /\ db' = db
        /\ Recorded(n.key)
    BY <1>12, WorkerKey DEF TaskNotifySuccess, Success, StoredInv, StoredBeforePublish
  <2> HIDE DEF n
  <2>2. Service!Notify(n)
    BY <1>0, <2>1, NotifyIsNotify
  <2> QED BY <1>b, <2>1, <2>2
<1>13. ASSUME NEW c \in Callers, NEW k \in Series, CallerBegin(c, k)
       PROVE  [Service!Next]_Service!vars
  BY <1>a, <1>13 DEF CallerBegin
<1>14. ASSUME NEW c \in Callers, CallerFetched(c) \/ CallerFinish(c)
       PROVE  [Service!Next]_Service!vars
  BY <1>a, <1>14 DEF CallerFetched, CallerFinish
<1>15. ASSUME NEW c \in Callers, CallerInsert(c) PROVE [Service!Next]_Service!vars
  <2>1. PICK ok \in BOOLEAN : Insert(caller[c].key, "bars", ok)
    BY <1>15 DEF CallerInsert
  <2>2. caller[c].key \in Series /\ UNCHANGED <<notices, asked>>
    BY <1>15, WorkerKey DEF CallerInsert
  <2>3. [Service!Store(caller[c].key)]_Service!vars
    BY <2>1, <2>2, InsertIsStore
  <2> QED BY <1>c, <2>2, <2>3
<1>17. CASE FetchExit \/ Crash
  BY <1>a, <1>17 DEF FetchExit, Crash, volatile
<1>19. CASE Boot
  <2>1. Service!Restart
    BY <1>19, ChannelEmpty DEF Boot, Service!Restart, Recorded
  <2> QED BY <2>1 DEF Service!Next
<1>20. CASE UNCHANGED vars
  BY <1>a, <1>20 DEF vars
<1> QED
  BY <1>1, <1>2, <1>3, <1>4, <1>5, <1>6, <1>7, <1>9, <1>10, <1>12, <1>13, <1>14, <1>15,
     <1>17, <1>19, <1>20
  DEF Next, HubStep, LoopStep, TaskStep, CallerStep

\* The manager keeps its contract with the hub, with any number of goroutines,
\* room in the channels, crashes and restarts.
THEOREM KeepsTheContract == Spec => ImplementsService
<1>1. Init => Service!Init
  BY ChannelEmpty DEF Init, Service!Init, Recorded
<1>2. Init => StoredInv
  BY ChannelEmpty DEF Init, StoredInv, AnnouncedIsStored, StoredBeforePublish, Idle
<1> QED
  BY <1>1, <1>2, ServiceStep, StoredStep, TypeCorrect, PTL
  DEF Spec, ImplementsService, Service!Spec
-----------------------------------------------------------------------------
(* Back-pressure.                                                          *)
(* The slots of the model are never short: what the hub may ask has one.   *)
Active == {t \in Tasks : task[t] # Idle}
Launching == IF loop.at = "launch" THEN 1 ELSE 0
Asking == IF hub.at = "asking" THEN 1 ELSE 0
SlotsSuffice == Len(queries) + Cardinality(Active) + Launching + Asking <= Cardinality(Tasks)

\* The numbers that are counted.
LEMMA Counts ==
  ASSUME TypeOK
  PROVE  /\ Len(queries) \in Nat /\ Cardinality(Active) \in Nat /\ Cardinality(Tasks) \in Nat
         /\ IsFiniteSet(Active) /\ Launching \in {0, 1} /\ Asking \in {0, 1}
<1>1. Active \in SUBSET Tasks /\ IsFiniteSet(Tasks)
  BY HydrationAssumption DEF HydrationAssumption, Active
<1>2. IsFiniteSet(Active)
  BY <1>1, FS_Subset
<1>3. Cardinality(Active) \in Nat /\ Cardinality(Tasks) \in Nat
  BY <1>1, <1>2, FS_CardinalityType
<1> QED BY <1>2, <1>3 DEF TypeOK, Launching, Asking

\* A step that makes no goroutine start and the hub ask for nothing needs no slot.
LEMMA NoNewTask ==
  ASSUME TypeOK, TypeOK', SlotsSuffice, Active' \subseteq Active, UNCHANGED <<queries, loop, hub>>
  PROVE  SlotsSuffice'
<1>1. Cardinality(Active') <= Cardinality(Active)
  BY Counts, FS_Subset
<1>2. Cardinality(Active') \in Nat
  BY Counts, FS_Subset, FS_CardinalityType
<1> QED BY <1>1, <1>2, Counts DEF SlotsSuffice, Launching, Asking
\* There are slots for all that is asked, queued, launched and at work.
LEMMA SlotsStep == TypeOK /\ SlotsSuffice /\ [Next]_vars => SlotsSuffice'
<1> SUFFICES ASSUME TypeOK, SlotsSuffice, [Next]_vars PROVE SlotsSuffice'
  OBVIOUS
<1>0. TypeOK'
  BY TypeStep
<1>a. ASSUME UNCHANGED <<queries, loop, hub>>, Active' \subseteq Active PROVE SlotsSuffice'
  BY <1>0, <1>a, NoNewTask
<1>b. ASSUME UNCHANGED <<queries, loop, hub>>, NEW t \in Tasks, task[t] # Idle,
             NEW w, task' = [task EXCEPT ![t] = w]
      PROVE  SlotsSuffice'
  <2>1. Active' \subseteq Active
    BY <1>b DEF Active, TypeOK
  <2> QED BY <1>a, <1>b, <2>1
<1>1. ASSUME NEW k \in Series, HubAsk(k) PROVE SlotsSuffice'
  <2>1. /\ Outstanding < Cardinality(Tasks) /\ hub.at # "asking" /\ hub'.at = "asking"
        /\ UNCHANGED <<queries, task, loop>>
    BY <1>1 DEF HubAsk, Idle, At
  <2>2. Outstanding = Len(queries) + Cardinality(Active) + Launching
    BY DEF Outstanding, Active, Launching
  <2>3. Asking = 0 /\ Asking' = 1 /\ Launching' = Launching /\ Active' = Active
    BY <2>1 DEF Asking, Launching, Active
  <2> QED BY <2>1, <2>2, <2>3, Counts DEF SlotsSuffice
<1>2. CASE HubEnqueue
  <2>1. /\ hub.at = "asking" /\ hub'.at # "asking" /\ UNCHANGED <<task, loop>>
        /\ queries' = Append(queries, hub.key)
    BY <1>2 DEF HubEnqueue, Idle
  <2>2. Len(queries') = Len(queries) + 1
    BY <2>1 DEF TypeOK
  <2>3. Asking = 1 /\ Asking' = 0 /\ Launching' = Launching /\ Active' = Active
    BY <2>1 DEF Asking, Launching, Active
  <2> QED BY <2>2, <2>3, Counts DEF SlotsSuffice
<1>3. CASE HubReceive
  BY <1>a, <1>3 DEF HubReceive, Active
<1>4. CASE LoopReceive
  <2>1. /\ queries # <<>> /\ queries' = Tail(queries) /\ loop.at # "launch"
        /\ UNCHANGED <<task, hub>>
    BY <1>4 DEF LoopReceive, CanReceive, Idle
  <2>2. Len(queries') = Len(queries) - 1
    BY <2>1 DEF TypeOK
  <2>3. Launching = 0 /\ Launching' \in {0, 1} /\ Asking' = Asking /\ Active' = Active
    BY <2>1 DEF Asking, Launching, Active
  <2> QED BY <2>2, <2>3, Counts DEF SlotsSuffice
<1>5. ASSUME NEW t \in Tasks, LoopLaunch(t) PROVE SlotsSuffice'
  <2>1. /\ loop.at = "launch" /\ loop'.at # "launch" /\ UNCHANGED <<queries, hub>>
        /\ task' = [task EXCEPT ![t] = At("fetch", loop.key)] /\ task[t] = Idle
    BY <1>5 DEF LoopLaunch, CanLaunch, At
  <2>2. Active' = Active \cup {t} /\ t \notin Active
    BY <2>1 DEF Active, TypeOK, At, Idle
  <2>3. Cardinality(Active') = Cardinality(Active) + 1
    BY <2>2, Counts, FS_AddElement
  <2>4. Launching = 1 /\ Launching' = 0 /\ Asking' = Asking
    BY <2>1 DEF Asking, Launching
  <2> QED BY <2>1, <2>3, <2>4, Counts DEF SlotsSuffice
<1>6. CASE LoopMark
  <2>1. Launching = 0 /\ Launching' = 0 /\ Asking' = Asking /\ Active' = Active
    BY <1>6 DEF LoopMark, Idle, Asking, Launching, Active
  <2>2. queries' = queries
    BY <1>6 DEF LoopMark
  <2> QED BY <2>1, <2>2 DEF SlotsSuffice
<1>7. ASSUME NEW t \in Tasks, TaskStep(t) PROVE SlotsSuffice'
  <2>1. UNCHANGED <<queries, loop, hub>> /\ task[t] # Idle
    BY <1>7 DEF TaskStep, TaskFetched, TaskFetchFailed, TaskNotifyFailure, TaskInsert,
                TaskPublish, TaskNotifySuccess, Idle
  <2>2. task' = task \/ \E w : task' = [task EXCEPT ![t] = w]
    BY <1>7 DEF TaskStep, TaskFetched, TaskFetchFailed, TaskNotifyFailure, TaskInsert,
                TaskPublish, TaskNotifySuccess
  <2>3. CASE task' = task
    BY <1>a, <2>1, <2>3 DEF Active
  <2> QED BY <1>b, <2>1, <2>2, <2>3
<1>8. ASSUME NEW c \in Callers, CallerStep(c) \/ \E k \in Series : CallerBegin(c, k)
      PROVE  SlotsSuffice'
  <2>1. UNCHANGED <<queries, loop, hub, task>>
    BY <1>8 DEF CallerStep, CallerFetched, CallerInsert, CallerFinish, CallerBegin
  <2> QED BY <1>a, <2>1 DEF Active
<1>17. CASE FetchExit \/ Crash
  BY <1>a, <1>17 DEF FetchExit, Crash, volatile, Active
<1>19. CASE Boot
  <2>1. queries' = <<>> /\ Active' = {} /\ Launching' = 0 /\ Asking' = 0
    BY <1>19 DEF Boot, Active, Launching, Asking, Idle
  <2> QED BY <2>1, Counts, FS_EmptySet DEF SlotsSuffice
<1>20. CASE UNCHANGED vars
  BY <1>a, <1>20 DEF vars, Active
<1> QED
  BY <1>1, <1>2, <1>3, <1>4, <1>5, <1>6, <1>7, <1>8, <1>17, <1>19, <1>20
  DEF Next, HubStep, LoopStep

\* When the loop has a task to launch there is a slot for it, so that the hub
\* that waits for room does not wait for a loop that waits.
LEMMA LoopGoesOn == TypeOK /\ SlotsSuffice => HubNeverStuck
<1> SUFFICES ASSUME TypeOK, SlotsSuffice, Up, hub.at = "asking", ~(Len(queries) < QueryCap)
             PROVE  CanReceive \/ (\E t \in Tasks : CanLaunch(t)) \/ loop.at = "mark"
  BY DEF HubNeverStuck
<1>1. queries # <<>>
  BY HydrationAssumption DEF HydrationAssumption, TypeOK
<1>2. loop = Idle \/ loop.at \in {"launch", "mark"}
  BY DEF TypeOK, Worker
<1>3. CASE loop.at = "launch"
  <2>1. Launching = 1
    BY <1>3 DEF Launching
  <2>2. Cardinality(Active) < Cardinality(Tasks)
    BY <2>1, Counts DEF SlotsSuffice
  <2>3. Active # Tasks
    BY <2>2, Counts
  <2> QED BY <1>3, <2>3 DEF CanLaunch, Active
<1> QED BY <1>1, <1>2, <1>3 DEF CanReceive

\* The hub that waits for room in dataQueryChan can send, or the loop that
\* makes room can go on: back-pressure never turns into a deadlock.
THEOREM BackPressureEnds == Spec => []HubNeverStuck
<1>1. Init => SlotsSuffice
  <2>1. ASSUME Init PROVE queries = <<>> /\ Active = {} /\ Launching = 0 /\ Asking = 0
    BY <2>1 DEF Init, Active, Launching, Asking, Idle
  <2>2. Cardinality(Tasks) \in Nat
    BY HydrationAssumption, FS_CardinalityType DEF HydrationAssumption
  <2> QED BY <2>1, <2>2, FS_EmptySet DEF SlotsSuffice
<1> QED BY <1>1, SlotsStep, LoopGoesOn, TypeCorrect, PTL DEF Spec
=============================================================================
