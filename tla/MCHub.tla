-------------------------------- MODULE MCHub --------------------------------
(***************************************************************************)
(* The hub with a goroutine of the engine that broadcasts twice and two    *)
(* connections, of which each may send a command; the reader goroutine     *)
(* that executes it is a second broadcaster.                               *)
(***************************************************************************)
EXTENDS Hub, TLC

CONSTANTS s1, s2, run

TwoSubs == {s1, s2}
Engine1 == {run}
Symmetry == Permutations(TwoSubs)
=============================================================================
