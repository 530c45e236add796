-------------------------- MODULE HydrationService --------------------------
(***************************************************************************)
(* The contract between the hydration manager and the hub.  The hub asks   *)
(* whether a series is ready, which leaves a query if the answer is no,    *)
(* and takes notices.  It may rely on it that a series is stored before it *)
(* is called ready or announced, and that what it asked for is remembered  *)
(* until a notice about it is sent; not that a series that is stored is    *)
(* always called ready, that notices come in order or once, or that one    *)
(* comes at all.                                                           *)
(* HydrationManager implements this, and it is the environment of Hub.     *)
(***************************************************************************)
EXTENDS Naturals, FiniteSets

CONSTANTS
  Series,
  NoticeCap   \* capacity of the hub's hydration inbox (1024)

VARIABLES
  stored,   \* series whose session is in the database
  asked,    \* series the hub asked for, and was sent no notice about since
  notices   \* the different notices on their way to the hub

vars == <<stored, asked, notices>>

Success(k) == [ok |-> TRUE, key |-> k]
Failure(k) == [ok |-> FALSE, key |-> k]
Notices == [ok : BOOLEAN, key : Series]
-----------------------------------------------------------------------------
(* What the hub does.                                                      *)
\* IsReady answers yes.
Confirm(k) == k \in stored /\ UNCHANGED vars

\* IsReady answers no.
Query(k) == asked' = asked \cup {k} /\ UNCHANGED <<stored, notices>>

\* The same notice may be on its way twice.
Take(n) ==
  /\ n \in notices
  /\ notices' \in {notices, notices \ {n}}
  /\ UNCHANGED <<stored, asked>>
-----------------------------------------------------------------------------
(* What the manager does.                                                  *)
Store(k) ==
  /\ k \notin stored
  /\ stored' = stored \cup {k}
  /\ UNCHANGED <<asked, notices>>

Notify(n) ==
  /\ n.ok => n.key \in stored
  /\ notices' = notices \cup {n} /\ Cardinality(notices') <= NoticeCap
  /\ asked' = asked \ {n.key}
  /\ UNCHANGED stored

\* The program starts again on its database.
Restart == asked' = {} /\ notices' = {} /\ UNCHANGED stored
-----------------------------------------------------------------------------
Init == stored \in SUBSET Series /\ asked = {} /\ notices = {}

ManagerStep == \/ \E k \in Series : Store(k)
               \/ \E n \in Notices : Notify(n)
HubStep == \/ \E k \in Series : Confirm(k) \/ Query(k)
           \/ \E n \in Notices : Take(n)

Next == HubStep \/ ManagerStep \/ Restart

Spec == Init /\ [][Next]_vars
-----------------------------------------------------------------------------
\* Every variable has its type.
TypeOK ==
  /\ stored \subseteq Series /\ asked \subseteq Series /\ notices \subseteq Notices

\* A series is only announced as hydrated when it is stored.
OnlyStored == \A n \in notices : n.ok => n.key \in stored
=============================================================================
