----------------------------- MODULE MCIngestion -----------------------------
(* Three sources that send SYNs and ask for long names, one of them hidden *)
(* by the filter each time; outdated hellos, a password on a connection's  *)
(* first segment, and a DNS error that a host sends itself.  There is room *)
(* for the counts of two sources, for three findings, and for two buckets  *)
(* of a timeline whose seconds also go back.                               *)
EXTENDS Ingestion

Frame(src, syn, app, sec, shown) ==
    [src |-> src, dst |-> 3, dport |-> IF syn THEN 80 ELSE 0, syn |-> syn, app |-> app,
     protocol |-> IF syn THEN "TCP" ELSE app, severity |-> "", length |-> 59 + src,
     sec |-> sec, shown |-> shown]

EightFrames ==
    {Frame(1, TRUE, "", 1, TRUE), Frame(2, TRUE, "basicAuth", 2, TRUE),
     Frame(3, TRUE, "", 1, FALSE), Frame(1, FALSE, "longName", 0, TRUE),
     Frame(2, FALSE, "longName", 1, FALSE), Frame(3, FALSE, "longName", 2, TRUE),
     Frame(1, FALSE, "oldTls", 2, TRUE),
     [Frame(3, FALSE, "", 1, TRUE) EXCEPT !.severity = "warn"]}
=============================================================================
