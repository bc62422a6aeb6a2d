----------------------------- MODULE MCNotifier -----------------------------
(***************************************************************************)
(* A notifier with two findings of one rule and different sources; each of *)
(* the alerts may be either of them.                                       *)
(***************************************************************************)
EXTENDS Notifier

Finding(rule, src, dst) == [rule |-> rule, src |-> src, dst |-> dst]

TwoFindings == {Finding("weak_tls", "a", "c"), Finding("weak_tls", "b", "c")}
=============================================================================
