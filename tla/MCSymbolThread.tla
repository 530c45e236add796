--------------------------- MODULE MCSymbolThread ---------------------------
(* Small instances of SymbolThread for TLC: a trading day from 1 to 5 in   *)
(* windows of two seconds, with one missing second and a bar at the very   *)
(* close; the clock runs a second longer.                                  *)
EXTENDS SymbolThread, TLC

SomeBars == {1, 3, 4, 5}
TheOpen == {1}
=============================================================================
