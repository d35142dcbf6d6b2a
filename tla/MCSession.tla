----------------------------- MODULE MCSession ------------------------------
(* A small session for TLC: positions 1..MaxPlugins, the second plugin     *)
(* being one that, like modules/new.c, moves standard input.               *)
EXTENDS Session

CONSTANTS TERM, HUP

NoSignal == {}
OneSignal == {TERM}
TwoSignals == {TERM, HUP}
=============================================================================
