------------------------------- MODULE Analyzer -------------------------------
(***************************************************************************)
(* security.Analyzer: Observe counts connection attempts and long DNS      *)
(* names per source, reports a source whose count reaches a threshold, and *)
(* reports every HTTP Basic authorization and every outdated TLS hello.    *)
(* Either map of counts forgets all sources but the current one when it    *)
(* holds too many, and the list of findings keeps the newest.  Observe and *)
(* Findings hold a.mu throughout.                                          *)
(*                                                                         *)
(* A frame is what Observe tells apart: its source, whether it is a SYN    *)
(* without ACK, what its application layer, of which the dissector makes   *)
(* at most one, has to report (a name longer than 60 bytes, Basic          *)
(* authorization or an outdated TLS version), and the severity that the    *)
(* dissector has given it.                                                 *)
(***************************************************************************)
EXTENDS Integers, FiniteSets, Sequences

CONSTANTS
    Frames,         \* records with src, syn, app and severity
    ScanAt,         \* SYNs that make a scan (30)
    TunnelAt,       \* long names that make a tunnel (3)
    MaxSources,     \* sources counted (10000)
    Limit,          \* a.limit (500)
    MaxFrames       \* bound: frames observed

ASSUME AnalyzerAssumption ==
    /\ ScanAt \in Nat \ {0} /\ TunnelAt \in Nat \ {0}
    /\ MaxSources \in Nat \ {0} /\ Limit \in Nat /\ Limit >= 2
    /\ MaxFrames \in Nat
    /\ \A f \in Frames : f.severity \in {"", "warn"}

VARIABLES
    synCount, dnsLong,      \* a.synCount, a.dnsLong
    findings,               \* a.findings
    no,                     \* the number of the last frame
    frame,                  \* the severity and the tag the last frame got
    all,                    \* history: everything Observe returned
    syns, longs,            \* history: per source, its SYNs and its long names
    streak                  \* history: its SYNs since another source's last

analyzerVars == <<synCount, dnsLong, findings, no, frame, all, syns, longs, streak>>

Srcs == {f.src : f \in Frames}

Empty == [s \in {} |-> 0]

\* What Observe leaves in a frame; a scan leaves it alone.
Mark(f) ==
    CASE f.app = "longName"  -> [severity |-> "warn", tag |-> "dns-tunnel-hint"]
      [] f.app = "basicAuth" -> [severity |-> "alert", tag |-> "credential-leak"]
      [] f.app = "oldTls"    -> [severity |-> "warn", tag |-> "weak-tls"]
      [] OTHER               -> [severity |-> f.severity, tag |-> ""]

AnalyzerInit ==
    /\ synCount = Empty /\ dnsLong = Empty
    /\ findings = <<>> /\ all = <<>>
    /\ no = 0 /\ frame = [severity |-> "", tag |-> ""]
    /\ syns = [s \in Srcs |-> 0] /\ longs = [s \in Srcs |-> 0]
    /\ streak = [s \in Srcs |-> 0]

-----------------------------------------------------------------------------
CountOf(counts, s) == IF s \in DOMAIN counts THEN counts[s] ELSE 0

\* Bug: when the map is full the current source is forgotten as well.
BumpedForgetting(counts, s) ==
    LET known == DOMAIN counts \cup {s}
    IN  [t \in IF Cardinality(known) > MaxSources THEN {} ELSE known |->
            CountOf(counts, t) + (IF t = s THEN 1 ELSE 0)]

\* counts[s]++, and the map is replaced when it has grown too large.
Bumped(counts, s) ==
    LET known == DOMAIN counts \cup {s}
    IN  [t \in IF Cardinality(known) > MaxSources THEN {s} ELSE known |->
            CountOf(counts, t) + (IF t = s THEN 1 ELSE 0)]

\* Bug: every further frame is reported too.
ReachedOrPassed(counts, s, threshold) == CountOf(counts, s) >= threshold

Reached(counts, s, threshold) == CountOf(counts, s) = threshold

Rules == {"port_scan", "dns_tunnel", "cleartext_auth", "weak_tls"}

Report(f, rule) == [no |-> no + 1, rule |-> rule, src |-> f.src]

\* What Observe raises for a frame, given the counts with it: at most one finding
\* about the connection and one about its application.
ScanOf(f, syn) ==
    IF f.syn /\ Reached(syn, f.src, ScanAt) THEN <<Report(f, "port_scan")>> ELSE <<>>

AppFindingOf(f, long) ==
    CASE f.app = "longName" /\ Reached(long, f.src, TunnelAt) -> <<Report(f, "dns_tunnel")>>
      [] f.app = "basicAuth" -> <<Report(f, "cleartext_auth")>>
      [] f.app = "oldTls"    -> <<Report(f, "weak_tls")>>
      [] OTHER               -> <<>>

\* Bug: a full list keeps its oldest half.
TrimWrongEnd(list) == IF Len(list) >= Limit THEN SubSeq(list, 1, Limit \div 2) ELSE list

\* A full list loses all but its newest half.
Trim(list) ==
    IF Len(list) >= Limit THEN SubSeq(list, Len(list) - Limit \div 2 + 1, Len(list)) ELSE list

\* add, for a finding if there is one.
Add(list, raised) == IF raised = <<>> THEN list ELSE Append(Trim(list), raised[1])

AnalyzerObserve(f) ==
    /\ no < MaxFrames
    /\ no' = no + 1
    /\ synCount' = IF f.syn THEN Bumped(synCount, f.src) ELSE synCount
    /\ dnsLong' = IF f.app = "longName" THEN Bumped(dnsLong, f.src) ELSE dnsLong
    /\ LET scan == ScanOf(f, synCount')
           app == AppFindingOf(f, dnsLong')
       IN  findings' = Add(Add(findings, scan), app) /\ all' = all \o scan \o app
    /\ frame' = Mark(f)
    /\ syns' = [syns EXCEPT ![f.src] = @ + (IF f.syn THEN 1 ELSE 0)]
    /\ longs' = [longs EXCEPT ![f.src] = @ + (IF f.app = "longName" THEN 1 ELSE 0)]
    /\ streak' = IF f.syn THEN [s \in Srcs |-> IF s = f.src THEN streak[s] + 1 ELSE 0]
                          ELSE streak

-----------------------------------------------------------------------------
FindingType == [no : Nat, rule : Rules, src : Srcs]

\* Type invariant of the analyzer: neither map outgrows its limit, nor does the
\* list of findings (analyzer.go:21-27, 48, 58, 98).
AnalyzerTypeOK ==
    /\ \A counts \in {synCount, dnsLong} :
          /\ DOMAIN counts \subseteq Srcs /\ Cardinality(DOMAIN counts) <= MaxSources
          /\ \A s \in DOMAIN counts : counts[s] \in 1 .. no
    /\ findings \in Seq(FindingType) /\ Len(findings) <= Limit
    /\ all \in Seq(FindingType)
    /\ no \in 0 .. MaxFrames

\* The list shows the newest findings, in the order they were raised: all of them,
\* or at least half of what it can hold (analyzer.go:97-107).
FindingsAreNewest ==
    /\ findings = SubSeq(all, Len(all) - Len(findings) + 1, Len(all))
    /\ Len(findings) >= Limit \div 2 \/ findings = all

\* How many findings of the rule about s are in the list.
ReportsIn(list, rule, s) ==
    Cardinality({i \in 1 .. Len(list) : list[i].rule = rule /\ list[i].src = s})

Reports(rule, s) == ReportsIn(all, rule, s)

Senders(counted) == {s \in Srcs : counted[s] > 0}

OnceAtThreshold(rule, counted, threshold) ==
    Cardinality(Senders(counted)) <= MaxSources =>
        \A s \in Srcs : Reports(rule, s) = (IF counted[s] >= threshold THEN 1 ELSE 0)

\* As long as there are no more sources than are counted, a source is reported
\* exactly when it has sent enough, and once (analyzer.go:46-63).
ReportedOnce ==
    /\ OnceAtThreshold("port_scan", syns, ScanAt)
    /\ OnceAtThreshold("dns_tunnel", longs, TunnelAt)

\* Whatever was forgotten, a source that sends ScanAt SYNs with no other source's
\* in between has been reported: it keeps its count when the others lose theirs
\* (analyzer.go:47-51).
StreakIsReported == \A s \in Srcs : streak[s] >= ScanAt => Reports("port_scan", s) > 0
=============================================================================
