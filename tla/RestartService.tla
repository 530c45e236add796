--------------------------- MODULE RestartService ---------------------------
(***************************************************************************)
(* The contract between the clock and the HTTP handlers that restart it.   *)
(* A handler stores settings, or none, has the clock restart, and waits    *)
(* for an answer that has no name on it.  It may rely on it that there is  *)
(* one answer for each restart, and that the clock is put on settings that *)
(* were replaced only if another request is still on its way; not that the *)
(* answer it takes is that of its own restart.                             *)
(* Clock implements this, and so does the clock of Simulation.             *)
(***************************************************************************)
EXTENDS Naturals, FiniteSets

CONSTANTS
  Configs,    \* simulation settings
  Handlers    \* HTTP handlers that may restart the simulation

VARIABLES
  config,     \* the settings that are stored
  applied,    \* the settings the clock runs on
  handler,    \* where each handler is: idle, sending or waiting
  requests,   \* restarts that were asked for and not made yet
  answers     \* answers on their way

vars == <<config, applied, handler, requests, answers>>

Waiting == {h \in Handlers : handler[h] = "waiting"}
Sending == {h \in Handlers : handler[h] = "sending"}
-----------------------------------------------------------------------------
(* What a handler does.                                                    *)
Store(h, c) ==
  /\ handler[h] = "idle"
  /\ config' = c
  /\ handler' = [handler EXCEPT ![h] = "sending"]
  /\ UNCHANGED <<applied, requests, answers>>

Ask(h) ==
  /\ handler[h] \in {"idle", "sending"}
  /\ handler' = [handler EXCEPT ![h] = "waiting"]
  /\ requests' = requests + 1
  /\ UNCHANGED <<config, applied, answers>>

Take(h) ==
  /\ handler[h] = "waiting" /\ answers > 0
  /\ handler' = [handler EXCEPT ![h] = "idle"]
  /\ answers' = answers - 1
  /\ UNCHANGED <<config, applied, requests>>
-----------------------------------------------------------------------------
\* What the clock does: the time goes back to the start.
Serve ==
  /\ requests > 0
  /\ requests' = requests - 1 /\ answers' = answers + 1
  /\ applied' \in Configs
  /\ requests' = 0 /\ Sending = {} => applied' = config
  /\ UNCHANGED <<config, handler>>
-----------------------------------------------------------------------------
Init ==
  /\ config \in Configs /\ applied = config
  /\ handler = [h \in Handlers |-> "idle"]
  /\ requests = 0 /\ answers = 0

Next ==
  \/ \E h \in Handlers : Ask(h) \/ Take(h) \/ \E c \in Configs : Store(h, c)
  \/ Serve

Spec == Init /\ [][Next]_vars
-----------------------------------------------------------------------------
\* Every variable has its type.
TypeOK ==
  /\ config \in Configs /\ applied \in Configs
  /\ handler \in [Handlers -> {"idle", "sending", "waiting"}]
  /\ requests \in Nat /\ answers \in Nat

\* One answer, there or to come, for each handler that waits.
OneAnswerEach == Cardinality(Waiting) = requests + answers

\* Nothing asked for and nothing about to be: the clock is on the settings.
Settled == requests = 0 /\ Sending = {} => applied = config

\* When the last handler that waits takes its answer, no restart is still to be
\* made: its own was, whoever took the answer to it.
LastIsServed == [][\A h \in Handlers : Take(h) /\ Waiting = {h} => requests = 0]_vars
=============================================================================
