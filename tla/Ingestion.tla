------------------------------ MODULE Ingestion ------------------------------
(***************************************************************************)
(* What Engine.ingest does to a frame between the dissector and the        *)
(* tables: the analyzer sees every frame and marks some, the display       *)
(* filter hides some, and the statistics count the rest by the mark that   *)
(* the analyzer has left.  How a report reads these parts while they       *)
(* change is the subject of Reports.                                       *)
(***************************************************************************)
EXTENDS Analyzer, Statistics

ASSUME IngestionAssumption == \A f \in Frames : f.shown \in BOOLEAN /\ f.length \in Nat

VARIABLE
    shownNos        \* history: the numbers of the frames that passed the filter

ingestionVars == <<analyzerVars, statsVars, shownNos>>

IngestionInit == AnalyzerInit /\ StatsInit /\ shownNos = {}

\* cfg.Filter hides a frame or shows it: f.shown.
IngestFrame(f) ==
    /\ AnalyzerObserve(f)
    /\ IF f.shown
       THEN StatsObserve(f, frame'.severity) /\ shownNos' = shownNos \cup {no'}
       ELSE UNCHANGED <<statsVars, shownNos>>

IngestionNext == \E f \in Frames : IngestFrame(f)

IngestionSpec == IngestionInit /\ [][IngestionNext]_ingestionVars

-----------------------------------------------------------------------------
\* The frames counted that raised a finding of one of these rules.
CountedBy(rules) == {r.no : r \in {r \in ToSet(all) : r.rule \in rules}} \cap shownNos

\* The breakdown by severity is of the frames counted, and agrees with what was
\* raised for them, also when the list of findings has long dropped it: an alert is
\* a password in the clear and nothing else (a scan is an alert without one), and
\* every tunnel and every outdated hello is counted as a warning
\* (engine.go:328-339, analyzer.go:46-90, stats/engine.go:67-72).
SeverityFollowsFindings ==
    LET of(severity) == ValueAt(severities, severity, 0)
    IN  /\ of("info") + of("warn") + of("alert") = packets
        /\ of("alert") = Cardinality(CountedBy({"cleartext_auth"}))
        /\ of("warn") >= Cardinality(CountedBy({"dns_tunnel", "weak_tls"}))
=============================================================================
