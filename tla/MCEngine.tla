------------------------------- MODULE MCEngine -------------------------------
(***************************************************************************)
(* Engine instances: a live capture and a file replay with one HTTP        *)
(* handler and one WebSocket reader calling Pause, Resume and Stop; a      *)
(* longer replay without callers, in which the store and the queue         *)
(* overflow.                                                               *)
(***************************************************************************)
EXTENDS Engine

CONSTANTS h1, w1

Rows2 == 1..2
Rows5 == 1..5
Callers == {h1, w1}
Readers == {w1}
NoCallers == {}
=============================================================================
