------------------------------ MODULE Statistics ------------------------------
(***************************************************************************)
(* stats.Engine: two counters and, under its lock, the breakdown by        *)
(* protocol, severity, address and port, and the traffic per second, of    *)
(* which the newest MaxBuckets seconds are kept.  None of the maps is      *)
(* bounded.  That Snapshot reads the counters before it takes the lock is  *)
(* the subject of Reports.                                                 *)
(*                                                                         *)
(* An Observe is one action here.  A frame is a record with its protocol,  *)
(* src and dst (Meta["ip_src"] and Meta["ip_dst"], 0 where there is none), *)
(* dport (0 for none), length, and the second of its timestamp.            *)
(***************************************************************************)
EXTENDS Integers, SequencesExt

CONSTANTS
    MaxBuckets,     \* buckets of the timeline (600)
    Clock           \* the seconds that time.Now may show

ASSUME StatisticsAssumption == MaxBuckets \in Nat \ {0} /\ Clock \subseteq Nat \ {0}

VARIABLES
    packets, bytes, \* the counters
    protocols, severities, talkers, ports,      \* the maps
    timeline,       \* the buckets
    counted         \* history: per frame observed, its second and bytes as it left it

statsVars == <<packets, bytes, protocols, severities, talkers, ports, timeline, counted>>

StatsInit ==
    /\ packets = 0 /\ bytes = 0
    /\ protocols = [k \in {} |-> 0] /\ severities = [k \in {} |-> 0]
    /\ talkers = [k \in {} |-> 0] /\ ports = [k \in {} |-> 0]
    /\ timeline = <<>> /\ counted = <<>>

-----------------------------------------------------------------------------
ValueAt(map, k, none) == IF k \in DOMAIN map THEN map[k] ELSE none

Incremented(map, k) ==
    [j \in DOMAIN map \cup {k} |-> ValueAt(map, j, 0) + (IF j = k THEN 1 ELSE 0)]

\* One of the two addresses of a frame; a host that talks to itself is both.
Talked(map, addr, length) ==
    LET old(a) == ValueAt(map, a, [packets |-> 0, bytes |-> 0])
    IN  IF addr = 0 THEN map
        ELSE [a \in DOMAIN map \cup {addr} |->
                 IF a = addr THEN [packets |-> old(a).packets + 1, bytes |-> old(a).bytes + length]
                 ELSE old(a)]

\* A timestamp of 1970 counts as now.
SecondsOf(f) == IF f.sec = 0 THEN Clock ELSE {f.sec}

EmptyBucket(sec) == [t |-> sec, packets |-> 0, bytes |-> 0]

\* Bug: the bucket that exceeds the limit is taken from the wrong end.
BucketForOldest(buckets, sec) ==
    IF buckets # <<>> /\ Last(buckets).t = sec THEN buckets
    ELSE LET more == Append(buckets, EmptyBucket(sec))
         IN  IF Len(more) > MaxBuckets THEN Front(more) ELSE more

\* The last bucket is the one of this second; seconds may come back.
BucketFor(buckets, sec) ==
    IF buckets # <<>> /\ Last(buckets).t = sec THEN buckets
    ELSE LET more == Append(buckets, EmptyBucket(sec))
         IN  IF Len(more) > MaxBuckets THEN Tail(more) ELSE more

\* Observe(f), for a frame whose severity is what the analyzer has left of it.
StatsObserve(f, severity) ==
    \E sec \in SecondsOf(f) :
        /\ packets' = packets + 1 /\ bytes' = bytes + f.length
        /\ protocols' = Incremented(protocols, f.protocol)
        /\ severities' = Incremented(severities, IF severity = "" THEN "info" ELSE severity)
        /\ talkers' = Talked(Talked(talkers, f.src, f.length), f.dst, f.length)
        /\ ports' = IF f.dport = 0 THEN ports ELSE Incremented(ports, f.dport)
        /\ timeline' = LET buckets == BucketFor(timeline, sec)
                       IN  [buckets EXCEPT ![Len(buckets)].packets = @ + 1,
                                           ![Len(buckets)].bytes = @ + f.length]
        /\ counted' = Append(counted, [sec |-> sec, bytes |-> bytes'])

-----------------------------------------------------------------------------
\* What the counter has counted when frame n has been observed.
BytesUpTo(log, n) == IF n = 0 THEN 0 ELSE log[n].bytes

\* A bucket is of the frames from number from + 1 to number to, and starts with the
\* first of its second.
BucketIsOf(bucket, log, from, to) ==
    /\ from < to
    /\ \A i \in from + 1 .. to : log[i].sec = bucket.t
    /\ from > 0 => log[from].sec # bucket.t
    /\ bucket.packets = to - from
    /\ bucket.bytes = BytesUpTo(log, to) - BytesUpTo(log, from)

\* The timeline is the end of what was observed, cut where the second changes: a
\* frame is in one bucket, that of its second, also when timestamps go back;
\* nothing is missing in between, and only whole buckets are ever dropped, the
\* oldest, when there are more than are kept.  cut[b] is the last frame of bucket b,
\* cut[0] the last that is in none (stats/engine.go:62-65, 88-99).
TimelineIsNewest ==
    \E cut \in [0 .. Len(timeline) -> 0 .. Len(counted)] :
        /\ cut[Len(timeline)] = Len(counted)
        /\ \A b \in 1 .. Len(timeline) : BucketIsOf(timeline[b], counted, cut[b - 1], cut[b])
        /\ cut[0] > 0 => Len(timeline) = MaxBuckets
=============================================================================
