----------------------------- MODULE MCKernelTap -----------------------------
(* A tap whose socket has room for two of four packets, on an interface    *)
(* that may go down and come back.                                         *)
EXTENDS KernelTap
=============================================================================
