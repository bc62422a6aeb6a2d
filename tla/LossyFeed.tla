------------------------------ MODULE LossyFeed ------------------------------
(***************************************************************************)
(* What the dashboard's packet feed promises, without saying how it is     *)
(* done.  Rows are offered in increasing order.  From time to time the     *)
(* rows offered since the last collection are collected: the newest K of   *)
(* them are taken, the older ones are lost, and the collected rows are     *)
(* shown, after those shown before.  Nothing is shown twice, out of order, *)
(* or in place of a newer row of the same window.                          *)
(***************************************************************************)
EXTENDS Integers, Sequences

CONSTANTS
    Rows,           \* frame numbers a row can carry, a subset of Nat
    K               \* rows one collection may keep, at least 1

VARIABLES
    window,         \* rows offered since the last collection
    hand,           \* rows collected and not shown yet
    shown           \* rows shown so far, oldest first

vars == <<window, hand, shown>>

\* The last k elements of s, or all of s when it is shorter.
Newest(s, k) == SubSeq(s, IF Len(s) > k THEN Len(s) - k + 1 ELSE 1, Len(s))

Exceeds(row, s) == \A i \in 1..Len(s) : s[i] < row

Init == window = <<>> /\ hand = <<>> /\ shown = <<>>

Offer(row) ==
    /\ Exceeds(row, window) /\ Exceeds(row, hand) /\ Exceeds(row, shown)
    /\ window' = Append(window, row)
    /\ UNCHANGED <<hand, shown>>

Collect ==
    /\ hand = <<>>
    /\ window # <<>>
    /\ hand' = Newest(window, K)
    /\ window' = <<>>
    /\ UNCHANGED shown

Show ==
    /\ hand # <<>>
    /\ shown' = shown \o hand
    /\ hand' = <<>>
    /\ UNCHANGED window

Next == (\E row \in Rows : Offer(row)) \/ Collect \/ Show

Spec == Init /\ [][Next]_vars
=============================================================================
