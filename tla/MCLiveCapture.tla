---------------------------- MODULE MCLiveCapture ----------------------------
(* Live captures of at most three records, from tcpdump and from standard  *)
(* input.                                                                  *)
EXTENDS LiveCapture
=============================================================================
