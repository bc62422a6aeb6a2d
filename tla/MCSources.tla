------------------------------ MODULE MCSources ------------------------------
(* The three kinds of source on small instances: a tap whose socket has    *)
(* room for two of four packets, on an interface that goes down once; a    *)
(* live capture of three records; a file of three blocks, whose recording  *)
(* has one failing write.  2^32 is scaled to 6 and the fixed part of a     *)
(* packet block to 2, so that a claim can wrap within the block.           *)
EXTENDS Sources
=============================================================================
