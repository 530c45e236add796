----------------------------- MODULE BarStream -----------------------------
(***************************************************************************)
(* What a symbol thread promises to the subscribers of its stream: from    *)
(* the simulated time it starts at, every stored bar, in the order of      *)
(* their times, each once, and none before the clock has reached its time. *)
(* It may end at any moment and start anew.                                *)
(***************************************************************************)
EXTENDS Naturals

CONSTANTS Bars   \* the times of the stored bars

VARIABLES
  from,   \* the simulated time the stream started at
  tick,   \* the last tick it was given
  sent    \* the bars it has sent since it started

vars == <<from, tick, sent>>

Init == from \in Nat /\ tick \in Nat /\ sent = {}

\* The stream starts anew.
Begin == from' \in Nat /\ sent' = {} /\ UNCHANGED tick

Tick == tick' \in Nat /\ UNCHANGED <<from, sent>>

\* The next bar is the earliest one that was not sent.
Emit ==
  /\ \E b \in Bars \ sent :
       /\ from <= b /\ b <= tick
       /\ \A c \in Bars : from <= c /\ c < b => c \in sent
       /\ sent' = sent \cup {b}
  /\ UNCHANGED <<from, tick>>

Next == Begin \/ Tick \/ Emit

Spec == Init /\ [][Next]_vars
=============================================================================
