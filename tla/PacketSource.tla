----------------------------- MODULE PacketSource -----------------------------
(***************************************************************************)
(* What Engine.Run relies on when it calls Next of its packetSource:       *)
(* packets come in the order they were offered, each at most once, and     *)
(* none comes after the source has reported its end.  A source may lose    *)
(* packets and may fall silent.                                            *)
(***************************************************************************)
EXTENDS Naturals

VARIABLES
    offered,        \* packets put into the source so far; they are 1 .. offered
    last,           \* the packet Next returned last, 0 before the first
    count,          \* how many it has returned: the number the last one carries
    over            \* Next has returned an error

sourceVars == <<offered, last, count, over>>

SourceInit == offered = 0 /\ last = 0 /\ count = 0 /\ over = FALSE

Offer == offered' = offered + 1 /\ UNCHANGED <<last, count, over>>

Take ==
    /\ ~over
    /\ last' \in last + 1 .. offered
    /\ count' = count + 1
    /\ UNCHANGED <<offered, over>>

Finish == over' = TRUE /\ UNCHANGED <<offered, last, count>>

SourceNext == Offer \/ Take \/ Finish

SourceSpec == SourceInit /\ [][SourceNext]_sourceVars
=============================================================================
