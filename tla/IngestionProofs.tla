--------------------------- MODULE IngestionProofs ---------------------------
(***************************************************************************)
(* For every set of frames, every threshold and every limit: the list of   *)
(* findings is the end of what was raised, the counts are bounded, the     *)
(* breakdown by severity agrees with the findings of the frames counted,   *)
(* the timeline is the sum of the newest frames by second, and who sends   *)
(* enough is reported, once unless counts were forgotten.                  *)
(***************************************************************************)
EXTENDS Ingestion, FiniteSetTheorems, SequenceTheorems, TLAPS

-----------------------------------------------------------------------------
(* The inductive invariant.                                                *)

\* The list is the end of what was raised, and all of it until it was trimmed.
EndOf(list, every) ==
    /\ list \in Seq(FindingType) /\ every \in Seq(FindingType)
    /\ Len(list) <= Limit /\ Len(list) <= Len(every)
    /\ \A i \in 1 .. Len(list) : list[i] = every[Len(every) - Len(list) + i]
    /\ Len(list) >= Limit \div 2 \/ Len(list) = Len(every)

CountsOK(counts, n) ==
    /\ DOMAIN counts \subseteq Srcs /\ IsFiniteSet(DOMAIN counts)
    /\ Cardinality(DOMAIN counts) <= MaxSources
    /\ \A s \in DOMAIN counts : counts[s] \in 1 .. n

\* What was raised names frames that were observed, and what is counted is among them.
NumbersOK ==
    /\ no \in 0 .. MaxFrames
    /\ \A i \in 1 .. Len(all) : all[i].no <= no
    /\ shownNos \subseteq 1 .. no

SeveritiesOK ==
    /\ packets \in Nat
    /\ \A k \in DOMAIN severities : severities[k] \in Nat

IngestionInv ==
    /\ EndOf(findings, all)
    /\ CountsOK(synCount, no) /\ CountsOK(dnsLong, no)
    /\ NumbersOK /\ SeveritiesOK
    /\ SeverityFollowsFindings

-----------------------------------------------------------------------------
(* Lemmas about the list of findings.                                      *)

LEMMA HalfOfLimit == Limit \in Nat /\ Limit \div 2 \in 1 .. Limit - 1
<1>1. Limit \in Nat /\ Limit >= 2
  BY AnalyzerAssumption
<1> QED BY <1>1

\* Trimming makes room and leaves an end (analyzer.go:98-100).
LEMMA TrimKeepsEnd ==
    ASSUME NEW list, NEW every, EndOf(list, every)
    PROVE  EndOf(Trim(list), every) /\ Len(Trim(list)) < Limit
<1> DEFINE h == Limit \div 2
<1>0. h \in 1 .. Limit - 1 /\ Limit \in Nat
  BY HalfOfLimit
<1>1. /\ list \in Seq(FindingType) /\ every \in Seq(FindingType)
      /\ Len(list) \in Nat /\ Len(every) \in Nat
      /\ Len(list) <= Limit /\ Len(list) <= Len(every)
      /\ \A i \in 1 .. Len(list) : list[i] = every[Len(every) - Len(list) + i]
  BY DEF EndOf
<1> HIDE DEF h
<1>2. CASE Len(list) >= Limit
  <2> DEFINE m == Len(list) - h + 1
  <2>1. Trim(list) = SubSeq(list, m, Len(list))
    BY <1>2 DEF Trim, h
  <2>2. m \in Int /\ m >= 1 /\ m <= Len(list) /\ Len(list) - m + 1 = h
    BY <1>0, <1>1, <1>2
  <2>3. \A i \in m .. Len(list) : list[i] \in FindingType
    BY <1>1, <2>2, ElementOfSeq
  <2> HIDE DEF m
  <2>4. /\ Trim(list) \in Seq(FindingType) /\ Len(Trim(list)) = h
        /\ \A i \in 1 .. h : Trim(list)[i] = list[m + i - 1]
    BY <1>1, <2>1, <2>2, <2>3, SubSeqProperties
  <2>5. \A i \in 1 .. h : Trim(list)[i] = every[Len(every) - h + i]
    <3> SUFFICES ASSUME NEW i \in 1 .. h PROVE Trim(list)[i] = every[Len(every) - h + i]
      OBVIOUS
    <3>1. Trim(list)[i] = list[m + i - 1]
      BY <2>4
    <3>2. m + i - 1 \in 1 .. Len(list) /\ Len(every) - Len(list) + (m + i - 1) = Len(every) - h + i
      BY <1>0, <1>1, <2>2
    <3>3. list[m + i - 1] = every[Len(every) - Len(list) + (m + i - 1)]
      BY <1>1, <3>2
    <3> QED BY <3>1, <3>2, <3>3
  <2>6. h <= Limit /\ h < Limit /\ h <= Len(every) /\ h >= h
    BY <1>0, <1>1, <1>2
  <2> QED BY <1>1, <2>4, <2>5, <2>6 DEF EndOf, h
<1>3. CASE ~(Len(list) >= Limit)
  <2>1. Trim(list) = list
    BY <1>3 DEF Trim
  <2> QED BY <1>0, <1>1, <1>3, <2>1
<1> QED BY <1>2, <1>3

\* A finding is added to the list and to what was raised (analyzer.go:105).
LEMMA AppendKeepsEnd ==
    ASSUME NEW list, NEW every, EndOf(list, every), Len(list) < Limit, NEW x \in FindingType
    PROVE  EndOf(Append(list, x), Append(every, x))
<1>1. /\ list \in Seq(FindingType) /\ every \in Seq(FindingType)
      /\ Len(list) \in Nat /\ Len(every) \in Nat /\ Len(list) <= Len(every)
      /\ \A i \in 1 .. Len(list) : list[i] = every[Len(every) - Len(list) + i]
      /\ Len(list) >= Limit \div 2 \/ Len(list) = Len(every)
  BY DEF EndOf
<1>2. Limit \in Nat /\ Limit \div 2 \in Nat
  BY HalfOfLimit
<1>3. /\ Append(list, x) \in Seq(FindingType) /\ Append(every, x) \in Seq(FindingType)
      /\ Len(Append(list, x)) = Len(list) + 1 /\ Len(Append(every, x)) = Len(every) + 1
  BY <1>1
<1>4. \A i \in 1 .. Len(list) + 1 :
         Append(list, x)[i] = Append(every, x)[(Len(every) + 1) - (Len(list) + 1) + i]
  <2> SUFFICES ASSUME NEW i \in 1 .. Len(list) + 1
               PROVE  Append(list, x)[i] = Append(every, x)[(Len(every) + 1) - (Len(list) + 1) + i]
    OBVIOUS
  <2>1. (Len(every) + 1) - (Len(list) + 1) + i = Len(every) - Len(list) + i
    BY <1>1
  <2>2. CASE i = Len(list) + 1
    <3>1. Append(list, x)[i] = x /\ Append(every, x)[Len(every) + 1] = x
      <4>1. list \in Seq(FindingType) /\ every \in Seq(FindingType)
        BY <1>1
      <4>2. Append(list, x)[Len(list) + 1] = x /\ Append(every, x)[Len(every) + 1] = x
        BY <4>1, AppendProperties
      <4> QED BY <2>2, <4>2
    <3>2. Len(every) - Len(list) + i = Len(every) + 1
      BY <1>1, <2>2
    <3> QED BY <2>1, <3>1, <3>2, Zenon
  <2>3. CASE i \in 1 .. Len(list)
    <3>1. Len(every) - Len(list) + i \in 1 .. Len(every)
      BY <1>1, <2>3
    <3>2. Append(every, x)[Len(every) - Len(list) + i] = every[Len(every) - Len(list) + i]
      BY <1>1, <3>1
    <3>3. Append(list, x)[i] = list[i]
      BY <1>1, <2>3
    <3>4. list[i] = every[Len(every) - Len(list) + i]
      BY <1>1, <2>3
    <3> QED BY <2>1, <3>2, <3>3, <3>4, Zenon
  <2>4. i = Len(list) + 1 \/ i \in 1 .. Len(list)
    BY <1>1
  <2> QED BY <2>2, <2>3, <2>4, Zenon
<1>5. /\ Len(list) + 1 <= Limit /\ Len(list) + 1 <= Len(every) + 1
      /\ Len(list) + 1 >= Limit \div 2 \/ Len(list) + 1 = Len(every) + 1
  BY <1>1, <1>2
<1> QED BY <1>3, <1>4, <1>5 DEF EndOf

\* At most one finding, as Observe adds them.
AtMostOne(raised) == raised = <<>> \/ \E x \in FindingType : raised = <<x>>

LEMMA AddKeepsEnd ==
    ASSUME NEW list, NEW every, EndOf(list, every), NEW raised, AtMostOne(raised)
    PROVE  EndOf(Add(list, raised), every \o raised)
<1>0. every \in Seq(FindingType)
  BY DEF EndOf
<1>1. CASE raised = <<>>
  <2>1. every \o raised = every /\ Add(list, raised) = list
    BY <1>0, <1>1, ConcatEmptySeq DEF Add
  <2> QED BY <2>1
<1>2. ASSUME NEW x \in FindingType, raised = <<x>>
      PROVE  EndOf(Add(list, raised), every \o raised)
  <2>1. raised # <<>> /\ raised[1] = x
    BY <1>2
  <2>2. Add(list, raised) = Append(Trim(list), x)
    BY <2>1 DEF Add
  <2>3. every \o raised = Append(every, x)
    BY <1>0, <1>2
  <2>4. EndOf(Append(Trim(list), x), Append(every, x))
    BY TrimKeepsEnd, AppendKeepsEnd
  <2> QED BY <2>2, <2>3, <2>4
<1> QED BY <1>1, <1>2 DEF AtMostOne

\* The property of the list that follows.
LEMMA EndIsNewest == EndOf(findings, all) => FindingsAreNewest
<1> SUFFICES ASSUME EndOf(findings, all) PROVE FindingsAreNewest
  OBVIOUS
<1> DEFINE m == Len(all) - Len(findings) + 1
<1>1. /\ findings \in Seq(FindingType) /\ all \in Seq(FindingType)
      /\ Len(findings) \in Nat /\ Len(all) \in Nat /\ Len(findings) <= Len(all)
      /\ \A i \in 1 .. Len(findings) : findings[i] = all[Len(all) - Len(findings) + i]
      /\ Len(findings) >= Limit \div 2 \/ Len(findings) = Len(all)
  BY DEF EndOf
<1>2. m \in 1 .. Len(all) + 1 /\ Len(all) - m + 1 = Len(findings)
  BY <1>1
<1>3. \A i \in m .. Len(all) : all[i] \in FindingType
  BY <1>1, <1>2, ElementOfSeq
<1>4. \A i \in 1 .. Len(findings) : m + i - 1 = Len(all) - Len(findings) + i
  BY <1>1
<1> HIDE DEF m
<1>5. /\ SubSeq(all, m, Len(all)) \in Seq(FindingType)
      /\ Len(SubSeq(all, m, Len(all))) = Len(findings)
      /\ \A i \in 1 .. Len(findings) : SubSeq(all, m, Len(all))[i] = all[m + i - 1]
  <2>1. m \in Int /\ Len(all) \in Int
    BY <1>1, <1>2
  <2>2. /\ SubSeq(all, m, Len(all)) \in Seq(FindingType)
        /\ Len(SubSeq(all, m, Len(all))) = IF m <= Len(all) THEN Len(all) - m + 1 ELSE 0
        /\ \A i \in 1 .. Len(all) - m + 1 : SubSeq(all, m, Len(all))[i] = all[m + i - 1]
    BY <1>3, <2>1, SubSeqProperties
  <2> QED BY <1>1, <1>2, <2>2
<1>6. \A i \in 1 .. Len(findings) : findings[i] = SubSeq(all, m, Len(all))[i]
  BY <1>1, <1>4, <1>5
<1>7. findings = SubSeq(all, m, Len(all))
  BY <1>1, <1>5, <1>6, SeqEqual
<1>8. Len(findings) = Len(all) => findings = all
  <2> SUFFICES ASSUME Len(findings) = Len(all) PROVE findings = all
    OBVIOUS
  <2>1. \A i \in 1 .. Len(findings) : findings[i] = all[i]
    BY <1>1
  <2> QED BY <1>1, <2>1, SeqEqual
<1> QED BY <1>1, <1>7, <1>8 DEF FindingsAreNewest, m

-----------------------------------------------------------------------------
(* Lemmas about the counts.                                                *)

\* However the counts grow they stay within their limit, for the current source
\* is kept when the others are forgotten (analyzer.go:47-50).
LEMMA BumpedOK ==
    ASSUME NEW counts, NEW n \in Nat, CountsOK(counts, n), NEW s \in Srcs
    PROVE  CountsOK(Bumped(counts, s), n + 1)
<1> DEFINE known == DOMAIN counts \cup {s}
           left == IF Cardinality(known) > MaxSources THEN {s} ELSE known
<1>0. /\ DOMAIN counts \subseteq Srcs /\ IsFiniteSet(DOMAIN counts)
      /\ \A t \in DOMAIN counts : counts[t] \in 1 .. n
      /\ MaxSources \in Nat \ {0}
  BY AnalyzerAssumption DEF CountsOK
<1>1. IsFiniteSet(known) /\ IsFiniteSet({s}) /\ Cardinality({s}) = 1
  BY <1>0, FS_AddElement, FS_Singleton
<1>2. Cardinality(known) \in Nat
  BY <1>1, FS_CardinalityType
<1>3. Bumped(counts, s) = [t \in left |-> CountOf(counts, t) + (IF t = s THEN 1 ELSE 0)]
  BY DEF Bumped
<1>4. left \subseteq known /\ known \subseteq Srcs /\ IsFiniteSet(left)
  BY <1>0, <1>1
<1>5. Cardinality(left) <= MaxSources
  <2>1. CASE Cardinality(known) > MaxSources
    <3>1. left = {s}
      BY <2>1
    <3> QED BY <1>0, <1>1, <3>1
  <2>2. CASE ~(Cardinality(known) > MaxSources)
    <3>1. left = known
      BY <2>2
    <3>2. Cardinality(known) <= MaxSources
      <4> HIDE DEF known
      <4> QED BY <2>2, <1>0, <1>2
    <3> QED BY <3>1, <3>2
  <2> QED BY <2>1, <2>2
<1>6. \A t \in left : CountOf(counts, t) + (IF t = s THEN 1 ELSE 0) \in 1 .. n + 1
  <2> SUFFICES ASSUME NEW t \in known
               PROVE  CountOf(counts, t) + (IF t = s THEN 1 ELSE 0) \in 1 .. n + 1
    BY <1>4
  <2>1. CASE t \in DOMAIN counts
    <3>1. CountOf(counts, t) = counts[t] /\ counts[t] \in 1 .. n
      BY <1>0, <2>1 DEF CountOf
    <3> QED BY <3>1
  <2>2. CASE t \notin DOMAIN counts
    <3>1. CountOf(counts, t) = 0 /\ t = s
      BY <2>2 DEF CountOf
    <3> QED BY <3>1
  <2> QED BY <2>1, <2>2
<1> HIDE DEF left, known
<1>7. DOMAIN Bumped(counts, s) = left
  BY <1>3
<1>8. \A t \in left : Bumped(counts, s)[t] \in 1 .. n + 1
  BY <1>3, <1>6
<1> QED BY <1>4, <1>5, <1>7, <1>8 DEF CountsOK

LEMMA CountsGrow ==
    ASSUME NEW counts, NEW n \in Nat, CountsOK(counts, n)
    PROVE  CountsOK(counts, n + 1)
<1>1. \A t \in DOMAIN counts : counts[t] \in 1 .. n + 1
  BY DEF CountsOK
<1> QED BY <1>1 DEF CountsOK

-----------------------------------------------------------------------------
(* Lemmas about what a frame raises.                                       *)

LEMMA ReportType ==
    ASSUME no \in Nat, NEW f \in Frames, NEW rule \in Rules
    PROVE  /\ Report(f, rule) \in FindingType
           /\ Report(f, rule).no = no + 1 /\ Report(f, rule).rule = rule
BY DEF Report, FindingType, Srcs

LEMMA ScanFacts ==
    ASSUME no \in Nat, NEW f \in Frames, NEW syn
    PROVE  /\ AtMostOne(ScanOf(f, syn))
           /\ ScanOf(f, syn) # <<>> => ScanOf(f, syn)[1] = Report(f, "port_scan")
<1>1. Report(f, "port_scan") \in FindingType
  BY ReportType DEF Rules
<1>2. CASE ScanOf(f, syn) = <<>>
  BY <1>2 DEF AtMostOne
<1>3. CASE ScanOf(f, syn) = <<Report(f, "port_scan")>>
  BY <1>1, <1>3 DEF AtMostOne
<1> QED BY <1>2, <1>3 DEF ScanOf

\* The rule of an application's finding.
AppRule(f) ==
    CASE f.app = "longName" -> "dns_tunnel"
      [] f.app = "basicAuth" -> "cleartext_auth"
      [] OTHER -> "weak_tls"

LEMMA AppFindingFacts ==
    ASSUME no \in Nat, NEW f \in Frames, NEW long
    PROVE  /\ AtMostOne(AppFindingOf(f, long))
           /\ AppFindingOf(f, long) # <<>> =>
                 /\ f.app \in {"longName", "basicAuth", "oldTls"}
                 /\ AppFindingOf(f, long)[1] = Report(f, AppRule(f))
           /\ f.app = "basicAuth" => AppFindingOf(f, long) # <<>>
<1>1. Report(f, AppRule(f)) \in FindingType
  BY ReportType DEF Rules, AppRule
<1>2. CASE AppFindingOf(f, long) = <<>> /\ f.app # "basicAuth"
  BY <1>2 DEF AtMostOne
<1>3. CASE AppFindingOf(f, long) = <<Report(f, AppRule(f))>>
           /\ f.app \in {"longName", "basicAuth", "oldTls"}
  BY <1>1, <1>3 DEF AtMostOne
<1>4. CASE f.app = "longName"
  BY <1>2, <1>3, <1>4 DEF AppFindingOf, AppRule
<1>5. CASE f.app = "basicAuth"
  BY <1>3, <1>5 DEF AppFindingOf, AppRule
<1>6. CASE f.app = "oldTls"
  BY <1>3, <1>6 DEF AppFindingOf, AppRule
<1>7. CASE f.app \notin {"longName", "basicAuth", "oldTls"}
  BY <1>2, <1>7 DEF AppFindingOf
<1> QED BY <1>4, <1>5, <1>6, <1>7

-----------------------------------------------------------------------------
(* Lemmas about the numbers of the frames counted.                         *)

\* The frames among shown that every has a finding of one of the rules for.
NosOf(every, shown, rules) ==
    {n \in shown : \E i \in 1 .. Len(every) : every[i].no = n /\ every[i].rule \in rules}

LEMMA CountedByIsNosOf ==
    ASSUME NEW every \in Seq(FindingType), NEW shown, NEW rules
    PROVE  {r.no : r \in {r \in ToSet(every) : r.rule \in rules}} \cap shown
               = NosOf(every, shown, rules)
<1>1. ToSet(every) = {every[i] : i \in 1 .. Len(every)}
  BY DEF ToSet
<1> QED BY <1>1 DEF NosOf

LEMMA AtMostOneFacts ==
    ASSUME NEW raised, AtMostOne(raised)
    PROVE  /\ raised \in Seq(FindingType) /\ Len(raised) \in Nat
           /\ raised = <<>> => Len(raised) = 0
           /\ raised # <<>> => Len(raised) = 1
<1>1. CASE raised = <<>>
  BY <1>1
<1>2. ASSUME NEW x \in FindingType, raised = <<x>>
      PROVE  raised \in Seq(FindingType) /\ Len(raised) = 1 /\ raised # <<>>
  BY <1>2
<1> QED BY <1>1, <1>2 DEF AtMostOne

\* What the frame n + 1 adds to them: its number, if it is shown and its application
\* had something to report under one of the rules.
Grown(n, every, shown, next, app, rules) ==
    /\ next \in Seq(FindingType)
    /\ \A i \in 1 .. Len(next) : next[i].no <= n + 1
    /\ NosOf(next, shown, rules) = NosOf(every, shown, rules)
    /\ NosOf(next, shown \cup {n + 1}, rules) =
           NosOf(every, shown, rules)
               \cup (IF app # <<>> /\ app[1].rule \in rules THEN {n + 1} ELSE {})

LEMMA NosGrow ==
    ASSUME NEW n \in Nat, NEW every \in Seq(FindingType), NEW shown \in SUBSET (1 .. n),
           \A i \in 1 .. Len(every) : every[i].no <= n,
           NEW scan, AtMostOne(scan), NEW app, AtMostOne(app),
           scan # <<>> => scan[1].no = n + 1 /\ scan[1].rule = "port_scan",
           app # <<>> => app[1].no = n + 1,
           NEW rules, "port_scan" \notin rules
    PROVE  Grown(n, every, shown, every \o scan \o app, app, rules)
<1> DEFINE two == every \o scan
           next == two \o app
<1>1. /\ scan \in Seq(FindingType) /\ app \in Seq(FindingType)
      /\ scan # <<>> => Len(scan) = 1
      /\ app # <<>> => Len(app) = 1
  BY AtMostOneFacts
<1>2. /\ Len(every) \in Nat /\ Len(scan) \in Nat /\ Len(app) \in Nat
      /\ scan = <<>> => Len(scan) = 0
      /\ app = <<>> => Len(app) = 0
  BY AtMostOneFacts
<1>3. /\ two \in Seq(FindingType) /\ Len(two) = Len(every) + Len(scan)
      /\ \A i \in 1 .. Len(every) + Len(scan) :
            two[i] = IF i <= Len(every) THEN every[i] ELSE scan[i - Len(every)]
  BY <1>1, ConcatProperties
<1> HIDE DEF two
<1>4. /\ next \in Seq(FindingType) /\ Len(next) = Len(two) + Len(app)
      /\ \A i \in 1 .. Len(two) + Len(app) :
            next[i] = IF i <= Len(two) THEN two[i] ELSE app[i - Len(two)]
  <2>1. app \in Seq(FindingType) /\ two \in Seq(FindingType)
    BY <1>1, <1>3
  <2> QED BY <2>1, ConcatProperties
<1> HIDE DEF next
<1>5. Len(every) <= Len(next) /\ \A i \in 1 .. Len(every) : i \in 1 .. Len(next) /\ next[i] = every[i]
  BY <1>2, <1>3, <1>4
<1>6. \A i \in 1 .. Len(next) :
         \/ i \in 1 .. Len(every)
         \/ scan # <<>> /\ next[i] = scan[1]
         \/ app # <<>> /\ next[i] = app[1]
  <2> SUFFICES ASSUME NEW i \in 1 .. Len(next), i \notin 1 .. Len(every)
               PROVE  \/ scan # <<>> /\ next[i] = scan[1]
                      \/ app # <<>> /\ next[i] = app[1]
    OBVIOUS
  <2>1. CASE i <= Len(two)
    <3>0. i \in Nat /\ i > Len(every) /\ i <= Len(every) + Len(scan)
      BY <1>2, <1>3, <2>1
    <3>4. scan # <<>>
      BY <1>2, <3>0
    <3>1. Len(scan) = 1 /\ i - Len(every) = 1 /\ i \in 1 .. Len(every) + Len(scan)
      <4>1. Len(scan) = 1
        BY <1>1, <3>4
      <4>2. Len(every) \in Nat
        BY <1>2
      <4> QED BY <3>0, <4>1, <4>2
    <3>2. next[i] = scan[i - Len(every)]
      BY <1>2, <1>3, <1>4, <2>1, <3>1
    <3> QED BY <1>2, <3>1, <3>2
  <2>2. CASE ~(i <= Len(two))
    <3>0. Len(two) \in Nat
      BY <1>2, <1>3
    <3>3. i \in Nat /\ i > Len(two) /\ i <= Len(two) + Len(app)
      BY <1>4, <2>2, <3>0
    <3>4. app # <<>>
      BY <1>2, <3>0, <3>3
    <3>5. Len(app) = 1
      BY <1>1, <3>4
    <3>1. Len(app) = 1 /\ i - Len(two) = 1 /\ i \in 1 .. Len(two) + Len(app)
      BY <3>0, <3>3, <3>5
    <3>2. next[i] = app[i - Len(two)]
      BY <1>4, <2>2, <3>1
    <3> QED BY <1>2, <3>1, <3>2
  <2> QED BY <2>1, <2>2
<1>7. app # <<>> => Len(next) \in 1 .. Len(next) /\ next[Len(next)] = app[1]
  <2> SUFFICES ASSUME app # <<>> PROVE Len(next) \in 1 .. Len(next) /\ next[Len(next)] = app[1]
    OBVIOUS
  <2>1. Len(app) = 1 /\ Len(two) \in Nat /\ Len(next) = Len(two) + 1
    <3>1. Len(app) = 1
      BY <1>1
    <3>2. Len(two) \in Nat
      BY <1>2, <1>3
    <3> QED BY <1>4, <3>1, <3>2
  <2>2. /\ Len(next) \in 1 .. Len(two) + Len(app) /\ ~(Len(next) <= Len(two))
        /\ Len(next) - Len(two) = 1
    BY <2>1
  <2> QED BY <1>4, <2>1, <2>2
<1>8. \A i \in 1 .. Len(every) : every[i].no \in Nat /\ every[i].no <= n
  <2> TAKE i \in 1 .. Len(every)
  <2>1. every[i] \in FindingType
    BY ElementOfSeq
  <2> QED BY <2>1 DEF FindingType
<1>9. \A i \in 1 .. Len(next) : next[i].no <= n + 1
  <2> TAKE i \in 1 .. Len(next)
  <2>1. CASE i \in 1 .. Len(every)
    BY <1>5, <1>8, <2>1
  <2>2. CASE next[i].no = n + 1
    BY <2>2
  <2> QED BY <1>6, <2>1, <2>2
<1>10. n + 1 \notin shown
  OBVIOUS
<1>11. ASSUME NEW k, k # n + 1
       PROVE  (\E i \in 1 .. Len(next) : next[i].no = k /\ next[i].rule \in rules)
              <=> (\E i \in 1 .. Len(every) : every[i].no = k /\ every[i].rule \in rules)
  BY <1>5, <1>6, <1>11
<1>12. (\E i \in 1 .. Len(next) : next[i].no = n + 1 /\ next[i].rule \in rules)
       <=> app # <<>> /\ app[1].rule \in rules
  <2>1. ASSUME NEW i \in 1 .. Len(next), next[i].no = n + 1, next[i].rule \in rules
        PROVE  app # <<>> /\ app[1].rule \in rules
    <3>1. CASE i \in 1 .. Len(every)
      BY <1>5, <1>8, <2>1, <3>1
    <3>2. CASE scan # <<>> /\ next[i] = scan[1]
      BY <2>1, <3>2
    <3> QED BY <1>6, <2>1, <3>1, <3>2
  <2> QED BY <1>7, <2>1
<1>13. NosOf(next, shown, rules) = NosOf(every, shown, rules)
  BY <1>10, <1>11 DEF NosOf
<1>14. NosOf(next, shown \cup {n + 1}, rules) =
           NosOf(every, shown, rules)
               \cup (IF app # <<>> /\ app[1].rule \in rules THEN {n + 1} ELSE {})
  <2>1. \A k : k \in NosOf(next, shown \cup {n + 1}, rules) <=>
               \/ k \in NosOf(every, shown, rules)
               \/ k = n + 1 /\ app # <<>> /\ app[1].rule \in rules
    BY <1>10, <1>11, <1>12 DEF NosOf
  <2> QED BY <2>1
<1>15. Grown(n, every, shown, next, app, rules)
  BY <1>4, <1>9, <1>13, <1>14 DEF Grown
<1> QED BY <1>15 DEF next, two

-----------------------------------------------------------------------------
(* Lemmas about the breakdown by severity.                                 *)

\* One counter goes up by one (stats/engine.go:65-72).
LEMMA IncrementedValue ==
    ASSUME NEW map, \A k \in DOMAIN map : map[k] \in Nat, NEW k
    PROVE  /\ \A j \in DOMAIN Incremented(map, k) : Incremented(map, k)[j] \in Nat
           /\ \A j : ValueAt(map, j, 0) \in Nat
           /\ ValueAt(Incremented(map, k), k, 0) = ValueAt(map, k, 0) + 1
           /\ \A j : j # k => ValueAt(Incremented(map, k), j, 0) = ValueAt(map, j, 0)
<1>1. \A j : ValueAt(map, j, 0) \in Nat
  BY DEF ValueAt
<1>2. /\ DOMAIN Incremented(map, k) = DOMAIN map \cup {k}
      /\ \A j \in DOMAIN map \cup {k} :
            Incremented(map, k)[j] = ValueAt(map, j, 0) + (IF j = k THEN 1 ELSE 0)
  BY DEF Incremented
<1>3. \A j \in DOMAIN map \cup {k} : Incremented(map, k)[j] \in Nat
  BY <1>1, <1>2
<1>4. ValueAt(Incremented(map, k), k, 0) = ValueAt(map, k, 0) + 1
  <2>1. ValueAt(Incremented(map, k), k, 0) = Incremented(map, k)[k]
    BY <1>2 DEF ValueAt
  <2> QED BY <1>2, <2>1
<1>5. ASSUME NEW j, j # k
      PROVE  ValueAt(Incremented(map, k), j, 0) = ValueAt(map, j, 0)
  <2>1. CASE j \in DOMAIN map
    <3>1. Incremented(map, k)[j] = ValueAt(map, j, 0) + 0
      BY <1>2, <1>5, <2>1
    <3>2. ValueAt(Incremented(map, k), j, 0) = Incremented(map, k)[j]
      BY <1>2, <2>1 DEF ValueAt
    <3> QED BY <1>1, <3>1, <3>2
  <2>2. CASE j \notin DOMAIN map
    BY <1>2, <1>5, <2>2 DEF ValueAt
  <2> QED BY <2>1, <2>2
<1> QED BY <1>1, <1>2, <1>3, <1>4, <1>5

\* The severity that a frame is counted with.
SeverityOf(f) == IF Mark(f).severity = "" THEN "info" ELSE Mark(f).severity

LEMMA SeverityFacts ==
    ASSUME NEW f \in Frames
    PROVE  /\ SeverityOf(f) \in {"info", "warn", "alert"}
           /\ SeverityOf(f) = "alert" <=> f.app = "basicAuth"
           /\ f.app \in {"longName", "oldTls"} => SeverityOf(f) = "warn"
<1>1. f.severity \in {"", "warn"}
  BY AnalyzerAssumption
<1>2. CASE f.app = "longName"
  BY <1>2 DEF SeverityOf, Mark
<1>3. CASE f.app = "basicAuth"
  BY <1>3 DEF SeverityOf, Mark
<1>4. CASE f.app = "oldTls"
  BY <1>4 DEF SeverityOf, Mark
<1>5. CASE f.app \notin {"longName", "basicAuth", "oldTls"}
  <2>1. Mark(f).severity = f.severity
    BY <1>5 DEF Mark
  <2> QED BY <1>1, <1>5, <2>1 DEF SeverityOf
<1> QED BY <1>2, <1>3, <1>4, <1>5

\* The counters agree with the numbers of the frames counted, as the frame with
\* the number n + 1 is added to both.
Agrees(map, count, leaks, warnings) ==
    /\ ValueAt(map, "info", 0) + ValueAt(map, "warn", 0) + ValueAt(map, "alert", 0) = count
    /\ ValueAt(map, "alert", 0) = Cardinality(leaks)
    /\ ValueAt(map, "warn", 0) >= Cardinality(warnings)

LEMMA AgreesGrow ==
    ASSUME NEW n \in Nat, NEW leaks \in SUBSET (1 .. n), NEW warnings \in SUBSET (1 .. n),
           NEW count \in Nat, NEW map, \A k \in DOMAIN map : map[k] \in Nat,
           Agrees(map, count, leaks, warnings),
           NEW k \in {"info", "warn", "alert"},
           NEW leaks2, leaks2 = leaks \cup (IF k = "alert" THEN {n + 1} ELSE {}),
           NEW warnings2,
           \/ warnings2 = warnings
           \/ warnings2 = warnings \cup {n + 1} /\ k = "warn"
    PROVE  Agrees(Incremented(map, k), count + 1, leaks2, warnings2)
<1> DEFINE i == ValueAt(map, "info", 0)
           w == ValueAt(map, "warn", 0)
           a == ValueAt(map, "alert", 0)
           i2 == ValueAt(Incremented(map, k), "info", 0)
           w2 == ValueAt(Incremented(map, k), "warn", 0)
           a2 == ValueAt(Incremented(map, k), "alert", 0)
<1>1. i \in Nat /\ w \in Nat /\ a \in Nat
  BY IncrementedValue
<1>2. IsFiniteSet(1 .. n)
  BY FS_Interval
<1>3. /\ IsFiniteSet(leaks) /\ Cardinality(leaks) \in Nat
      /\ IsFiniteSet(warnings) /\ Cardinality(warnings) \in Nat
  BY <1>2, FS_Subset, FS_CardinalityType
<1>4. n + 1 \notin leaks /\ n + 1 \notin warnings
  OBVIOUS
<1>5. /\ Cardinality(leaks \cup {n + 1}) = Cardinality(leaks) + 1
      /\ Cardinality(warnings \cup {n + 1}) = Cardinality(warnings) + 1
  BY <1>3, <1>4, FS_AddElement
<1>6. i + w + a = count /\ a = Cardinality(leaks) /\ w >= Cardinality(warnings)
  BY DEF Agrees
<1>7. CASE k = "info"
  <2>1. i2 = i + 1 /\ w2 = w /\ a2 = a
    BY <1>7, IncrementedValue
  <2>2. leaks2 = leaks /\ warnings2 = warnings
    BY <1>7
  <2> HIDE DEF i, w, a, i2, w2, a2
  <2>3. i2 + w2 + a2 = count + 1
    BY <1>1, <1>6, <2>1
  <2> QED BY <1>6, <2>1, <2>2, <2>3 DEF Agrees, i2, w2, a2
<1>8. CASE k = "warn"
  <2>1. i2 = i /\ w2 = w + 1 /\ a2 = a
    BY <1>8, IncrementedValue
  <2>2. leaks2 = leaks /\ warnings2 \in {warnings, warnings \cup {n + 1}}
    BY <1>8
  <2> HIDE DEF i, w, a, i2, w2, a2
  <2>3. i2 + w2 + a2 = count + 1
    BY <1>1, <1>6, <2>1
  <2>4. w2 >= Cardinality(warnings) /\ w2 >= Cardinality(warnings) + 1
    BY <1>1, <1>3, <1>6, <2>1
  <2>5. w2 >= Cardinality(warnings2)
    BY <1>5, <2>2, <2>4
  <2> QED BY <1>6, <2>1, <2>2, <2>3, <2>5 DEF Agrees, i2, w2, a2
<1>9. CASE k = "alert"
  <2>1. i2 = i /\ w2 = w /\ a2 = a + 1
    BY <1>9, IncrementedValue
  <2>2. leaks2 = leaks \cup {n + 1} /\ warnings2 = warnings
    BY <1>9
  <2> HIDE DEF i, w, a, i2, w2, a2
  <2>3. i2 + w2 + a2 = count + 1
    BY <1>1, <1>6, <2>1
  <2>4. a2 = Cardinality(leaks2)
    BY <1>5, <1>6, <2>1, <2>2
  <2> QED BY <1>6, <2>1, <2>2, <2>3, <2>4 DEF Agrees, i2, w2, a2
<1> QED BY <1>7, <1>8, <1>9

-----------------------------------------------------------------------------
(* The invariant is kept.                                                  *)

LeakRule == {"cleartext_auth"}
WarningRules == {"dns_tunnel", "weak_tls"}

\* The property in terms of the operators of the lemmas.
LEMMA SeverityIsAgrees ==
    all \in Seq(FindingType) =>
        (SeverityFollowsFindings <=>
            Agrees(severities, packets, NosOf(all, shownNos, LeakRule),
                   NosOf(all, shownNos, WarningRules)))
<1> SUFFICES ASSUME all \in Seq(FindingType)
             PROVE  SeverityFollowsFindings <=>
                        Agrees(severities, packets, NosOf(all, shownNos, LeakRule),
                               NosOf(all, shownNos, WarningRules))
  OBVIOUS
<1>1. /\ CountedBy(LeakRule) = NosOf(all, shownNos, LeakRule)
      /\ CountedBy(WarningRules) = NosOf(all, shownNos, WarningRules)
  BY CountedByIsNosOf DEF CountedBy
<1> QED BY <1>1 DEF SeverityFollowsFindings, Agrees, LeakRule, WarningRules

LEMMA InitInv == IngestionInit => IngestionInv
<1> SUFFICES ASSUME IngestionInit PROVE IngestionInv
  OBVIOUS
<1>a. findings = <<>> /\ all = <<>> /\ no = 0 /\ synCount = Empty /\ dnsLong = Empty
  BY DEF IngestionInit, AnalyzerInit
<1>b. shownNos = {} /\ packets = 0 /\ severities = [k \in {} |-> 0]
  BY DEF IngestionInit, StatsInit
<1>c. <<>> \in Seq(FindingType) /\ Len(<<>>) = 0
  OBVIOUS
<1>1. EndOf(findings, all)
  <2>1. Limit \in Nat
    BY AnalyzerAssumption
  <2>2. EndOf(<<>>, <<>>)
    BY <1>c, <2>1 DEF EndOf
  <2> QED BY <1>a, <2>2
<1>2. CountsOK(synCount, no) /\ CountsOK(dnsLong, no)
  <2>1. DOMAIN Empty = {}
    BY DEF Empty
  <2>2. MaxSources \in Nat
    BY AnalyzerAssumption
  <2>3. CountsOK(Empty, 0)
    BY <2>1, <2>2, FS_EmptySet DEF CountsOK
  <2> QED BY <1>a, <2>3
<1>3. NumbersOK
  <2>1. MaxFrames \in Nat
    BY AnalyzerAssumption
  <2>2. no \in 0 .. MaxFrames
    BY <1>a, <2>1
  <2>3. \A i \in 1 .. Len(all) : all[i].no <= no
    BY <1>a, <1>c
  <2> QED BY <1>b, <2>2, <2>3 DEF NumbersOK
<1>4. SeveritiesOK
  BY <1>b DEF SeveritiesOK
<1>5. SeverityFollowsFindings
  <2>1. \A rules : NosOf(all, shownNos, rules) = {}
    BY <1>b DEF NosOf
  <2>2. \A k : ValueAt(severities, k, 0) = 0
    BY <1>b DEF ValueAt
  <2>3. Agrees(severities, packets, {}, {})
    <3>1. Cardinality({}) = 0
      BY FS_EmptySet
    <3>2. /\ ValueAt(severities, "info", 0) = 0 /\ ValueAt(severities, "warn", 0) = 0
          /\ ValueAt(severities, "alert", 0) = 0
      BY <2>2
    <3> QED BY <1>b, <3>1, <3>2 DEF Agrees
  <2>4. all \in Seq(FindingType)
    BY <1>a, <1>c
  <2> QED BY <2>1, <2>3, <2>4, SeverityIsAgrees
<1> QED BY <1>1, <1>2, <1>3, <1>4, <1>5 DEF IngestionInv

LEMMA FrameKeepsInv ==
    ASSUME IngestionInv, NEW f \in Frames, IngestFrame(f)
    PROVE  IngestionInv'
<1> DEFINE scan == ScanOf(f, synCount')
           app == AppFindingOf(f, dnsLong')
           leaks == NosOf(all, shownNos, LeakRule)
           warnings == NosOf(all, shownNos, WarningRules)
<1>1. /\ no \in Nat /\ MaxFrames \in Nat /\ no < MaxFrames /\ no' = no + 1
      /\ findings' = Add(Add(findings, scan), app) /\ all' = all \o scan \o app
      /\ frame' = Mark(f)
  <2>1. MaxFrames \in Nat /\ no \in 0 .. MaxFrames
    BY AnalyzerAssumption DEF IngestionInv, NumbersOK
  <2>2. AnalyzerObserve(f)
    BY DEF IngestFrame
  <2>3. no < MaxFrames /\ no' = no + 1
    BY <2>2 DEF AnalyzerObserve
  <2>4. /\ findings' = Add(Add(findings, scan), app) /\ all' = all \o scan \o app
        /\ frame' = Mark(f)
    BY <2>2 DEF AnalyzerObserve
  <2> QED BY <2>1, <2>3, <2>4
<1>2. /\ AtMostOne(scan) /\ AtMostOne(app)
      /\ scan # <<>> => scan[1].no = no + 1 /\ scan[1].rule = "port_scan"
      /\ app # <<>> => /\ app[1].no = no + 1 /\ app[1].rule = AppRule(f)
                       /\ f.app \in {"longName", "basicAuth", "oldTls"}
      /\ f.app = "basicAuth" => app # <<>>
  BY <1>1, ScanFacts, AppFindingFacts, ReportType DEF Rules, AppRule
<1>3. /\ app # <<>> /\ app[1].rule \in LeakRule <=> f.app = "basicAuth"
      /\ app # <<>> /\ app[1].rule \in WarningRules => f.app \in {"longName", "oldTls"}
  <2> HIDE DEF app, scan
  <2> QED BY <1>2 DEF AppRule, LeakRule, WarningRules
<1>4. /\ EndOf(findings, all) /\ all \in Seq(FindingType)
      /\ \A i \in 1 .. Len(all) : all[i].no <= no
      /\ shownNos \in SUBSET (1 .. no)
  BY DEF IngestionInv, NumbersOK, EndOf
<1> HIDE DEF scan, app
<1>5. EndOf(findings', all')
  <2>1. EndOf(Add(findings, scan), all \o scan)
    BY <1>2, <1>4, AddKeepsEnd
  <2> QED BY <1>1, <1>2, <2>1, AddKeepsEnd
<1>6. CountsOK(synCount', no') /\ CountsOK(dnsLong', no')
  <2>1. f.src \in Srcs
    BY DEF Srcs
  <2>2. synCount' = synCount \/ synCount' = Bumped(synCount, f.src)
    BY DEF IngestFrame, AnalyzerObserve
  <2>3. dnsLong' = dnsLong \/ dnsLong' = Bumped(dnsLong, f.src)
    BY DEF IngestFrame, AnalyzerObserve
  <2>4. CountsOK(synCount, no) /\ CountsOK(dnsLong, no)
    BY DEF IngestionInv
  <2>5. CountsOK(synCount', no + 1)
    BY <1>1, <2>1, <2>2, <2>4, BumpedOK, CountsGrow
  <2>6. CountsOK(dnsLong', no + 1)
    BY <1>1, <2>1, <2>3, <2>4, BumpedOK, CountsGrow
  <2> QED BY <1>1, <2>5, <2>6
<1>7. /\ "port_scan" \notin LeakRule /\ "port_scan" \notin WarningRules
  BY DEF LeakRule, WarningRules
<1>8. /\ all' \in Seq(FindingType)
      /\ \A i \in 1 .. Len(all') : all'[i].no <= no + 1
      /\ NosOf(all', shownNos, LeakRule) = leaks
      /\ NosOf(all', shownNos, WarningRules) = warnings
      /\ NosOf(all', shownNos \cup {no + 1}, LeakRule) =
             leaks \cup (IF app # <<>> /\ app[1].rule \in LeakRule THEN {no + 1} ELSE {})
      /\ NosOf(all', shownNos \cup {no + 1}, WarningRules) =
             warnings \cup (IF app # <<>> /\ app[1].rule \in WarningRules THEN {no + 1} ELSE {})
  <2> DEFINE next == all \o scan \o app
  <2>1. no \in Nat /\ all' = next
    BY <1>1
  <2>2. ASSUME NEW rules, "port_scan" \notin rules
        PROVE  Grown(no, all, shownNos, next, app, rules)
    <3>1. AtMostOne(scan) /\ AtMostOne(app)
      BY <1>2
    <3>2. scan # <<>> => scan[1].no = no + 1 /\ scan[1].rule = "port_scan"
      BY <1>2
    <3>3. app # <<>> => app[1].no = no + 1
      BY <1>2
    <3>4. no \in Nat
      BY <2>1
    <3>5. /\ all \in Seq(FindingType) /\ shownNos \in SUBSET (1 .. no)
          /\ \A i \in 1 .. Len(all) : all[i].no <= no
      BY <1>4
    <3> QED BY <2>2, <3>1, <3>2, <3>3, <3>4, <3>5, NosGrow
  <2>3. /\ Grown(no, all, shownNos, next, app, LeakRule)
        /\ Grown(no, all, shownNos, next, app, WarningRules)
    BY <1>7, <2>2
  <2> HIDE DEF next
  <2> QED BY <2>1, <2>3 DEF Grown, leaks, warnings
<1>9. /\ leaks \in SUBSET (1 .. no) /\ warnings \in SUBSET (1 .. no)
  BY <1>4 DEF NosOf
<1>10. /\ Agrees(severities, packets, leaks, warnings)
       /\ packets \in Nat /\ \A k \in DOMAIN severities : severities[k] \in Nat
  BY <1>4, SeverityIsAgrees DEF IngestionInv, SeveritiesOK
<1> HIDE DEF leaks, warnings
<1>11. all' \in Seq(FindingType) =>
           (SeverityFollowsFindings' <=>
               Agrees(severities', packets', NosOf(all', shownNos', LeakRule),
                      NosOf(all', shownNos', WarningRules)))
  <2> SUFFICES ASSUME all' \in Seq(FindingType)
               PROVE  SeverityFollowsFindings' <=>
                          Agrees(severities', packets', NosOf(all', shownNos', LeakRule),
                                 NosOf(all', shownNos', WarningRules))
    OBVIOUS
  <2>1. /\ CountedBy(LeakRule)' = NosOf(all', shownNos', LeakRule)
        /\ CountedBy(WarningRules)' = NosOf(all', shownNos', WarningRules)
    BY CountedByIsNosOf DEF CountedBy
  <2> QED BY <2>1 DEF SeverityFollowsFindings, Agrees, LeakRule, WarningRules
<1>12. CASE f.shown
  <2>1. /\ shownNos' = shownNos \cup {no + 1} /\ packets' = packets + 1
        /\ severities' = Incremented(severities, SeverityOf(f))
    BY <1>1, <1>12 DEF IngestFrame, StatsObserve, SeverityOf
  <2>2. /\ SeverityOf(f) \in {"info", "warn", "alert"}
        /\ SeverityOf(f) = "alert" <=> f.app = "basicAuth"
        /\ f.app \in {"longName", "oldTls"} => SeverityOf(f) = "warn"
    BY SeverityFacts
  <2> DEFINE leaks2 == NosOf(all', shownNos', LeakRule)
             warnings2 == NosOf(all', shownNos', WarningRules)
  <2>3. leaks2 = leaks \cup (IF SeverityOf(f) = "alert" THEN {no + 1} ELSE {})
    BY <1>3, <1>8, <2>1, <2>2
  <2>4. \/ warnings2 = warnings
        \/ warnings2 = warnings \cup {no + 1} /\ SeverityOf(f) = "warn"
    <3>1. CASE app # <<>> /\ app[1].rule \in WarningRules
      BY <1>3, <1>8, <2>1, <2>2, <3>1
    <3>2. CASE ~(app # <<>> /\ app[1].rule \in WarningRules)
      BY <1>8, <2>1, <3>2
    <3> QED BY <3>1, <3>2
  <2> HIDE DEF leaks2, warnings2
  <2>5. Agrees(Incremented(severities, SeverityOf(f)), packets + 1, leaks2, warnings2)
    BY <1>1, <1>9, <1>10, <2>2, <2>3, <2>4, AgreesGrow
  <2>6. SeverityFollowsFindings'
    BY <1>8, <1>11, <2>1, <2>5 DEF leaks2, warnings2
  <2>7. SeveritiesOK'
    BY <1>10, <2>1, IncrementedValue DEF SeveritiesOK
  <2>8. NumbersOK'
    <3>1. no + 1 \in 0 .. MaxFrames /\ shownNos \cup {no + 1} \subseteq 1 .. no + 1
      BY <1>1, <1>4
    <3> QED BY <1>1, <1>8, <2>1, <3>1 DEF NumbersOK
  <2> QED BY <1>5, <1>6, <2>6, <2>7, <2>8 DEF IngestionInv
<1>13. CASE ~f.shown
  <2>1. shownNos' = shownNos /\ packets' = packets /\ severities' = severities
    BY <1>13 DEF IngestFrame, statsVars
  <2>2. SeverityFollowsFindings'
    BY <1>8, <1>10, <1>11, <2>1
  <2>3. SeveritiesOK'
    BY <1>10, <2>1 DEF SeveritiesOK
  <2>4. NumbersOK'
    <3>1. no + 1 \in 0 .. MaxFrames /\ shownNos \subseteq 1 .. no + 1
      BY <1>1, <1>4
    <3> QED BY <1>1, <1>8, <2>1, <3>1 DEF NumbersOK
  <2> QED BY <1>5, <1>6, <2>2, <2>3, <2>4 DEF IngestionInv
<1> QED BY <1>12, <1>13

LEMMA StutterKeepsInv == IngestionInv /\ UNCHANGED ingestionVars => IngestionInv'
BY DEF IngestionInv, ingestionVars, analyzerVars, statsVars, EndOf, CountsOK, NumbersOK,
       SeveritiesOK, SeverityFollowsFindings, CountedBy

-----------------------------------------------------------------------------
(* What is reported, and how often: a second invariant.  The counts of one  *)
(* rule are exact until there are more sources than are counted; and       *)
(* whatever was forgotten, a source with a full streak has its whole streak *)
(* counted and a source whose count has reached the threshold was reported *)
(* on the way there.                                                       *)

\* The counts of one rule, what was sent, and what every reports by it.
CountedOnce(counts, sent, every, rule, threshold) ==
    /\ sent \in [Srcs -> Nat]
    /\ IsFiniteSet(Senders(sent)) /\ DOMAIN counts \subseteq Senders(sent)
    /\ Cardinality(Senders(sent)) <= MaxSources =>
          \A s \in Srcs :
             /\ CountOf(counts, s) = sent[s]
             /\ ReportsIn(every, rule, s) = IF sent[s] >= threshold THEN 1 ELSE 0

StreakCounted(counts, streaks, every) ==
    /\ streaks \in [Srcs -> Nat]
    /\ \A s \in Srcs :
          /\ streaks[s] <= CountOf(counts, s)
          /\ CountOf(counts, s) >= ScanAt => ReportsIn(every, "port_scan", s) > 0

OnceInv ==
    /\ CountedOnce(synCount, syns, all, "port_scan", ScanAt)
    /\ CountedOnce(dnsLong, longs, all, "dns_tunnel", TunnelAt)
    /\ StreakCounted(synCount, streak, all)

\* What the findings raised by one frame add to the reports of one rule: one for
\* the source s, if hit.
ReportsGrow(every, next, rule, s, hit) ==
    \A t \in Srcs :
        ReportsIn(next, rule, t) = ReportsIn(every, rule, t) + (IF t = s /\ hit THEN 1 ELSE 0)

LEMMA ReportsAreNat ==
    ASSUME NEW every \in Seq(FindingType), NEW rule, NEW s
    PROVE  ReportsIn(every, rule, s) \in Nat
<1> DEFINE S == {i \in 1 .. Len(every) : every[i].rule = rule /\ every[i].src = s}
<1>1. IsFiniteSet(1 .. Len(every)) /\ S \subseteq 1 .. Len(every)
  BY FS_Interval, LenProperties
<1> HIDE DEF S
<1>2. Cardinality(S) \in Nat
  BY <1>1, FS_Subset, FS_CardinalityType
<1> QED BY <1>2 DEF ReportsIn, S

LEMMA ReportsAppend ==
    ASSUME NEW every \in Seq(FindingType), NEW x \in FindingType, NEW rule, NEW s
    PROVE  ReportsIn(Append(every, x), rule, s) =
               ReportsIn(every, rule, s) + (IF x.rule = rule /\ x.src = s THEN 1 ELSE 0)
<1> DEFINE n == Len(every)
           next == Append(every, x)
           S == {i \in 1 .. n : every[i].rule = rule /\ every[i].src = s}
           T == {i \in 1 .. Len(next) : next[i].rule = rule /\ next[i].src = s}
<1>1. /\ n \in Nat /\ Len(next) = n + 1 /\ next[n + 1] = x
      /\ \A i \in 1 .. n : next[i] = every[i]
  BY LenProperties, AppendProperties
<1>2. IsFiniteSet(S) /\ Cardinality(S) \in Nat /\ n + 1 \notin S
  <2>1. IsFiniteSet(1 .. n) /\ S \subseteq 1 .. n
    BY <1>1, FS_Interval
  <2>2. n + 1 \notin S
    BY <1>1
  <2> HIDE DEF S
  <2> QED BY <2>1, <2>2, FS_Subset, FS_CardinalityType
<1> HIDE DEF n, next
<1>3. 1 .. Len(next) = 1 .. n \cup {n + 1}
  BY <1>1
<1>4. T = S \cup (IF x.rule = rule /\ x.src = s THEN {n + 1} ELSE {})
  <2>1. ASSUME NEW i \in 1 .. n
        PROVE  i \in T <=> i \in S
    BY <1>1, <1>3, <2>1
  <2>2. n + 1 \in T <=> x.rule = rule /\ x.src = s
    BY <1>1, <1>3
  <2>3. T \subseteq 1 .. n \cup {n + 1} /\ S \subseteq 1 .. n
    BY <1>3
  <2> HIDE DEF S, T
  <2> QED BY <1>2, <2>1, <2>2, <2>3
<1> HIDE DEF S, T
<1>5. Cardinality(T) = Cardinality(S) + (IF x.rule = rule /\ x.src = s THEN 1 ELSE 0)
  <2>1. CASE x.rule = rule /\ x.src = s
    <3>1. T = S \cup {n + 1}
      BY <1>4, <2>1
    <3>2. Cardinality(T) = Cardinality(S) + 1
      BY <1>2, <3>1, FS_AddElement
    <3> QED BY <2>1, <3>2
  <2>2. CASE ~(x.rule = rule /\ x.src = s)
    <3>1. T = S
      BY <1>4, <2>2
    <3> QED BY <1>2, <2>2, <3>1
  <2> QED BY <2>1, <2>2
<1> QED BY <1>5 DEF ReportsIn, S, T, next, n

LEMMA ReportsOfRaised ==
    ASSUME NEW every \in Seq(FindingType), NEW raised, AtMostOne(raised), NEW rule, NEW s
    PROVE  /\ every \o raised \in Seq(FindingType)
           /\ ReportsIn(every \o raised, rule, s) =
                  ReportsIn(every, rule, s)
                      + (IF raised # <<>> /\ raised[1].rule = rule /\ raised[1].src = s THEN 1 ELSE 0)
<1>1. CASE raised = <<>>
  <2>1. every \o raised = every
    BY <1>1, ConcatEmptySeq
  <2> QED BY <1>1, <2>1, ReportsAreNat
<1>2. ASSUME NEW x \in FindingType, raised = <<x>>
      PROVE  /\ every \o raised \in Seq(FindingType)
             /\ ReportsIn(every \o raised, rule, s) =
                    ReportsIn(every, rule, s)
                      + (IF raised # <<>> /\ raised[1].rule = rule /\ raised[1].src = s THEN 1 ELSE 0)
  <2>1. every \o raised = Append(every, x) /\ Append(every, x) \in Seq(FindingType)
    BY <1>2
  <2>2. raised # <<>> /\ raised[1] = x
    BY <1>2
  <2> QED BY <2>1, <2>2, ReportsAppend
<1> QED BY <1>1, <1>2 DEF AtMostOne

\* The reports of either rule that one frame raises: one for its own source, when
\* the count has reached the threshold with it (analyzer.go:46-63).
LEMMA FrameReports ==
    ASSUME no \in Nat, NEW every \in Seq(FindingType), NEW f \in Frames, NEW syn, NEW long
    PROVE  LET next == every \o ScanOf(f, syn) \o AppFindingOf(f, long)
           IN  /\ ReportsGrow(every, next, "port_scan", f.src,
                              f.syn /\ Reached(syn, f.src, ScanAt))
               /\ ReportsGrow(every, next, "dns_tunnel", f.src,
                              f.app = "longName" /\ Reached(long, f.src, TunnelAt))
<1> DEFINE scan == ScanOf(f, syn)
           app == AppFindingOf(f, long)
           scanHit == f.syn /\ Reached(syn, f.src, ScanAt)
           dnsHit == f.app = "longName" /\ Reached(long, f.src, TunnelAt)
<1>1. AtMostOne(scan) /\ AtMostOne(app)
  BY ScanFacts, AppFindingFacts
<1>2. ASSUME NEW t
      PROVE  /\ (scan # <<>> /\ scan[1].rule = "port_scan" /\ scan[1].src = t) <=> (t = f.src /\ scanHit)
             /\ ~(scan # <<>> /\ scan[1].rule = "dns_tunnel" /\ scan[1].src = t)
  <2>1. CASE scanHit
    <3>1. scan = <<Report(f, "port_scan")>>
      BY <2>1 DEF ScanOf
    <3>2. scan # <<>> /\ scan[1] = Report(f, "port_scan")
      BY <3>1
    <3> QED BY <2>1, <3>2 DEF Report
  <2>2. CASE ~scanHit
    <3>1. scan = <<>>
      BY <2>2 DEF ScanOf
    <3> QED BY <2>2, <3>1
  <2> QED BY <2>1, <2>2
<1>3. ASSUME NEW t
      PROVE  /\ (app # <<>> /\ app[1].rule = "dns_tunnel" /\ app[1].src = t) <=> (t = f.src /\ dnsHit)
             /\ ~(app # <<>> /\ app[1].rule = "port_scan" /\ app[1].src = t)
  <2>1. CASE dnsHit
    <3>1. app = <<Report(f, "dns_tunnel")>>
      BY <2>1 DEF AppFindingOf
    <3>2. app # <<>> /\ app[1] = Report(f, "dns_tunnel")
      BY <3>1
    <3> QED BY <2>1, <3>2 DEF Report
  <2>2. CASE ~dnsHit
    <3>1. app = <<>> \/ app = <<Report(f, "cleartext_auth")>> \/ app = <<Report(f, "weak_tls")>>
      BY <2>2 DEF AppFindingOf
    <3>2. app # <<>> => app[1] = Report(f, "cleartext_auth") \/ app[1] = Report(f, "weak_tls")
      BY <3>1
    <3> QED BY <2>2, <3>2 DEF Report
  <2> QED BY <2>1, <2>2
<1> HIDE DEF scan, app, scanHit, dnsHit
<1>4. ASSUME NEW t, NEW rule
      PROVE  ReportsIn(every \o scan \o app, rule, t) =
                 ReportsIn(every, rule, t)
                     + (IF scan # <<>> /\ scan[1].rule = rule /\ scan[1].src = t THEN 1 ELSE 0)
                     + (IF app # <<>> /\ app[1].rule = rule /\ app[1].src = t THEN 1 ELSE 0)
  <2>1. /\ every \o scan \in Seq(FindingType)
        /\ ReportsIn(every \o scan, rule, t) =
               ReportsIn(every, rule, t)
                   + (IF scan # <<>> /\ scan[1].rule = rule /\ scan[1].src = t THEN 1 ELSE 0)
    BY <1>1, ReportsOfRaised
  <2>2. ReportsIn((every \o scan) \o app, rule, t) =
            ReportsIn(every \o scan, rule, t)
                + (IF app # <<>> /\ app[1].rule = rule /\ app[1].src = t THEN 1 ELSE 0)
    <3> DEFINE two == every \o scan
    <3>1. two \in Seq(FindingType)
      BY <2>1
    <3> HIDE DEF two
    <3>2. ReportsIn(two \o app, rule, t) =
              ReportsIn(two, rule, t)
                  + (IF app # <<>> /\ app[1].rule = rule /\ app[1].src = t THEN 1 ELSE 0)
      BY <1>1, <3>1, ReportsOfRaised
    <3> QED BY <3>2 DEF two
  <2> QED BY <2>1, <2>2
<1>5. \A t, rule : ReportsIn(every, rule, t) \in Nat
  BY ReportsAreNat
<1>6. ASSUME NEW t
      PROVE  ReportsIn(every \o scan \o app, "port_scan", t) =
                 ReportsIn(every, "port_scan", t) + (IF t = f.src /\ scanHit THEN 1 ELSE 0)
  <2>1. ReportsIn(every, "port_scan", t) \in Nat
    BY <1>5
  <2>2. ReportsIn(every \o scan \o app, "port_scan", t) =
            ReportsIn(every, "port_scan", t) + (IF t = f.src /\ scanHit THEN 1 ELSE 0) + 0
    BY <1>2, <1>3, <1>4
  <2> QED BY <2>1, <2>2
<1>7. ASSUME NEW t
      PROVE  ReportsIn(every \o scan \o app, "dns_tunnel", t) =
                 ReportsIn(every, "dns_tunnel", t) + (IF t = f.src /\ dnsHit THEN 1 ELSE 0)
  <2>1. ReportsIn(every, "dns_tunnel", t) \in Nat
    BY <1>5
  <2>2. ReportsIn(every \o scan \o app, "dns_tunnel", t) =
            ReportsIn(every, "dns_tunnel", t) + 0 + (IF t = f.src /\ dnsHit THEN 1 ELSE 0)
    BY <1>2, <1>3, <1>4
  <2> QED BY <2>1, <2>2
<1> QED BY <1>6, <1>7 DEF ReportsGrow, scan, app, scanHit, dnsHit

\* The counts of a rule after a frame that counts for the source s.
LEMMA CountedGrow ==
    ASSUME NEW counts, NEW sent, NEW every, NEW next, NEW rule, NEW threshold \in Nat \ {0},
           CountedOnce(counts, sent, every, rule, threshold), NEW s \in Srcs,
           ReportsGrow(every, next, rule, s, Reached(Bumped(counts, s), s, threshold)),
           NEW sent2, sent2 = [sent EXCEPT ![s] = @ + 1]
    PROVE  CountedOnce(Bumped(counts, s), sent2, next, rule, threshold)
<1> DEFINE few == Cardinality(Senders(sent2)) <= MaxSources
           known == DOMAIN counts \cup {s}
           left == IF Cardinality(known) > MaxSources THEN {s} ELSE known
<1>0. /\ sent \in [Srcs -> Nat] /\ IsFiniteSet(Senders(sent))
      /\ DOMAIN counts \subseteq Senders(sent)
  BY DEF CountedOnce
<1>1. sent2 \in [Srcs -> Nat] /\ \A t \in Srcs : sent2[t] = sent[t] + (IF t = s THEN 1 ELSE 0)
  BY <1>0
<1>2. Senders(sent2) = Senders(sent) \cup {s}
  <2>1. \A t \in Srcs : t # s => sent2[t] = sent[t] + 0 /\ sent[t] \in Nat
    BY <1>0, <1>1
  <2>2. \A t \in Srcs : t # s => (sent2[t] > 0 <=> sent[t] > 0)
    BY <2>1
  <2>3. sent2[s] > 0
    BY <1>0, <1>1
  <2> QED BY <2>2, <2>3 DEF Senders
<1>3. IsFiniteSet(Senders(sent2))
  <2> DEFINE S == Senders(sent)
  <2>1. IsFiniteSet(S)
    BY <1>0
  <2> HIDE DEF S
  <2>2. IsFiniteSet(S \cup {s})
    BY <2>1, FS_AddElement
  <2> QED BY <1>2, <2>2 DEF S
<1>4. Bumped(counts, s) = [t \in left |-> CountOf(counts, t) + (IF t = s THEN 1 ELSE 0)]
  BY DEF Bumped
<1>5. left \subseteq Senders(sent2) /\ known \subseteq Senders(sent2)
  BY <1>0, <1>2
<1>6. ASSUME few
      PROVE  left = known /\ Cardinality(Senders(sent)) <= MaxSources
  <2>1. /\ Cardinality(known) <= Cardinality(Senders(sent2))
        /\ Cardinality(known) \in Nat
    <3> HIDE DEF known
    <3> QED BY <1>3, <1>5, FS_Subset, FS_CardinalityType
  <2>2. Cardinality(Senders(sent)) <= Cardinality(Senders(sent2))
    BY <1>2, <1>3, FS_Subset
  <2>3. /\ Cardinality(Senders(sent)) \in Nat /\ Cardinality(Senders(sent2)) \in Nat
        /\ MaxSources \in Nat
    BY <1>0, <1>3, FS_CardinalityType, AnalyzerAssumption
  <2>4. ~(Cardinality(known) > MaxSources) /\ Cardinality(Senders(sent)) <= MaxSources
    <3> HIDE DEF known
    <3> QED BY <1>6, <2>1, <2>2, <2>3
  <2> QED BY <2>4
<1> HIDE DEF left
<1>7. DOMAIN Bumped(counts, s) \subseteq Senders(sent2)
  BY <1>4, <1>5
<1>8. ASSUME few, NEW t \in Srcs
      PROVE  /\ CountOf(Bumped(counts, s), t) = sent2[t]
             /\ ReportsIn(next, rule, t) = IF sent2[t] >= threshold THEN 1 ELSE 0
  <2>1. /\ CountOf(counts, t) = sent[t] /\ sent[t] \in Nat
        /\ ReportsIn(every, rule, t) = IF sent[t] >= threshold THEN 1 ELSE 0
    BY <1>0, <1>6, <1>8 DEF CountedOnce
  <2>2. ASSUME NEW u \in Srcs, CountOf(counts, u) = sent[u]
        PROVE  CountOf(Bumped(counts, s), u) = sent2[u]
    <3>1. CASE u \in known
      <4>1. CountOf(Bumped(counts, s), u) = CountOf(counts, u) + (IF u = s THEN 1 ELSE 0)
        BY <1>4, <1>6, <1>8, <3>1 DEF CountOf
      <4> QED BY <1>1, <2>2, <4>1
    <3>2. CASE u \notin known
      <4>1. CountOf(Bumped(counts, s), u) = 0 /\ CountOf(counts, u) = 0 /\ u # s
        BY <1>4, <1>6, <1>8, <3>2 DEF CountOf
      <4>2. sent2[u] = sent[u] + 0 /\ sent[u] = 0
        BY <1>1, <2>2, <4>1
      <4> QED BY <4>1, <4>2
    <3> QED BY <3>1, <3>2
  <2>3. CountOf(Bumped(counts, s), t) = sent2[t]
    BY <2>1, <2>2
  <2>4. CASE t = s
    <3>1. Reached(Bumped(counts, s), s, threshold) <=> sent[t] + 1 = threshold
      BY <1>1, <2>3, <2>4 DEF Reached
    <3>2. sent2[t] = sent[t] + 1
      BY <1>1, <2>4
    <3>3. ReportsIn(next, rule, t) =
              ReportsIn(every, rule, t) + (IF sent[t] + 1 = threshold THEN 1 ELSE 0)
      BY <2>4, <3>1 DEF ReportsGrow
    <3>4. CASE sent[t] + 1 = threshold
      <4>1. ~(sent[t] >= threshold) /\ sent2[t] >= threshold
        BY <2>1, <3>2, <3>4
      <4>2. ReportsIn(every, rule, t) = 0 /\ ReportsIn(next, rule, t) = ReportsIn(every, rule, t) + 1
        BY <2>1, <3>3, <3>4, <4>1
      <4> QED BY <2>3, <4>1, <4>2
    <3>5. CASE sent[t] + 1 # threshold
      <4>1. sent[t] >= threshold <=> sent2[t] >= threshold
        BY <2>1, <3>2, <3>5
      <4>2. ReportsIn(next, rule, t) = ReportsIn(every, rule, t) + 0
        BY <3>3, <3>5
      <4>3. CASE sent[t] >= threshold
        BY <2>1, <2>3, <4>1, <4>2, <4>3
      <4>4. CASE ~(sent[t] >= threshold)
        BY <2>1, <2>3, <4>1, <4>2, <4>4
      <4> QED BY <4>3, <4>4
    <3> QED BY <3>4, <3>5
  <2>5. CASE t # s
    <3>1. sent2[t] = sent[t]
      BY <1>1, <2>1, <2>5
    <3>2. ReportsIn(next, rule, t) = ReportsIn(every, rule, t) + 0
      BY <2>5 DEF ReportsGrow
    <3>3. CASE sent[t] >= threshold
      BY <2>1, <2>3, <3>1, <3>2, <3>3
    <3>4. CASE ~(sent[t] >= threshold)
      BY <2>1, <2>3, <3>1, <3>2, <3>4
    <3> QED BY <3>3, <3>4
  <2> QED BY <2>4, <2>5
<1> QED BY <1>1, <1>3, <1>7, <1>8 DEF CountedOnce

\* The counts of a rule after a frame that does not count.
LEMMA CountedSame ==
    ASSUME NEW counts, NEW sent, NEW every, NEW next, NEW rule, NEW threshold,
           CountedOnce(counts, sent, every, rule, threshold), NEW s \in Srcs,
           ReportsGrow(every, next, rule, s, FALSE)
    PROVE  CountedOnce(counts, sent, next, rule, threshold)
<1>1. \A t \in Srcs : ReportsIn(next, rule, t) = ReportsIn(every, rule, t) + 0
  BY DEF ReportsGrow
<1>2. ASSUME NEW t \in Srcs, Cardinality(Senders(sent)) <= MaxSources
      PROVE  ReportsIn(next, rule, t) = IF sent[t] >= threshold THEN 1 ELSE 0
  <2>1. ReportsIn(every, rule, t) = IF sent[t] >= threshold THEN 1 ELSE 0
    BY <1>2 DEF CountedOnce
  <2> QED BY <1>1, <2>1
<1> QED BY <1>2 DEF CountedOnce

\* The streaks after a frame with a SYN from the source s.
LEMMA StreakGrow ==
    ASSUME NEW counts, NEW streaks, NEW every \in Seq(FindingType), NEW next,
           StreakCounted(counts, streaks, every), NEW n, CountsOK(counts, n), NEW s \in Srcs,
           ReportsGrow(every, next, "port_scan", s, Reached(Bumped(counts, s), s, ScanAt)),
           NEW streaks2, streaks2 = [t \in Srcs |-> IF t = s THEN streaks[t] + 1 ELSE 0]
    PROVE  StreakCounted(Bumped(counts, s), streaks2, next)
<1> DEFINE known == DOMAIN counts \cup {s}
           left == IF Cardinality(known) > MaxSources THEN {s} ELSE known
<1>0. streaks \in [Srcs -> Nat] /\ ScanAt \in Nat \ {0}
  BY AnalyzerAssumption DEF StreakCounted
<1>1. streaks2 \in [Srcs -> Nat] /\ \A t \in Srcs : streaks2[t] = IF t = s THEN streaks[t] + 1 ELSE 0
  BY <1>0
<1>2. Bumped(counts, s) = [t \in left |-> CountOf(counts, t) + (IF t = s THEN 1 ELSE 0)]
  BY DEF Bumped
<1>3. s \in left /\ left \subseteq known
  OBVIOUS
<1> HIDE DEF left
<1> SUFFICES ASSUME NEW t \in Srcs
             PROVE  /\ streaks2[t] <= CountOf(Bumped(counts, s), t)
                    /\ CountOf(Bumped(counts, s), t) >= ScanAt =>
                           ReportsIn(next, "port_scan", t) > 0
  BY <1>1 DEF StreakCounted
<1>4. /\ streaks[t] <= CountOf(counts, t) /\ streaks[t] \in Nat
      /\ CountOf(counts, t) >= ScanAt => ReportsIn(every, "port_scan", t) > 0
  BY <1>0 DEF StreakCounted
<1>5. CountOf(counts, t) \in Nat
  <2>1. CASE t \in DOMAIN counts
    <3>1. CountOf(counts, t) = counts[t] /\ counts[t] \in 1 .. n
      BY <2>1 DEF CountOf, CountsOK
    <3> QED BY <3>1
  <2>2. CASE t \notin DOMAIN counts
    BY <2>2 DEF CountOf
  <2> QED BY <2>1, <2>2
<1>6. ReportsIn(every, "port_scan", t) \in Nat
  BY ReportsAreNat
<1>7. CASE t = s
  <2>1. CountOf(Bumped(counts, s), t) = CountOf(counts, t) + 1
    BY <1>2, <1>3, <1>7 DEF CountOf
  <2>2. streaks2[t] = streaks[t] + 1
    BY <1>1, <1>7
  <2>3. CASE CountOf(counts, t) + 1 = ScanAt
    <3>1. Reached(Bumped(counts, s), s, ScanAt)
      BY <1>7, <2>1, <2>3 DEF Reached
    <3>2. ReportsIn(next, "port_scan", t) = ReportsIn(every, "port_scan", t) + 1
      BY <1>7, <3>1 DEF ReportsGrow
    <3> QED BY <1>4, <1>5, <1>6, <2>1, <2>2, <3>2
  <2>4. CASE CountOf(counts, t) + 1 # ScanAt
    <3>1. ~Reached(Bumped(counts, s), s, ScanAt)
      BY <1>7, <2>1, <2>4 DEF Reached
    <3>2. ReportsIn(next, "port_scan", t) = ReportsIn(every, "port_scan", t) + 0
      BY <1>7, <3>1 DEF ReportsGrow
    <3> QED BY <1>0, <1>4, <1>5, <1>6, <2>1, <2>2, <2>4, <3>2
  <2> QED BY <2>3, <2>4
<1>8. CASE t # s
  <2>1. streaks2[t] = 0
    BY <1>1, <1>8
  <2>2. ReportsIn(next, "port_scan", t) = ReportsIn(every, "port_scan", t) + 0
    BY <1>8 DEF ReportsGrow
  <2>3. CASE t \in left
    <3>1. CountOf(Bumped(counts, s), t) = CountOf(counts, t) + 0
      BY <1>2, <1>8, <2>3 DEF CountOf
    <3> QED BY <1>4, <1>5, <1>6, <2>1, <2>2, <3>1
  <2>4. CASE t \notin left
    <3>1. CountOf(Bumped(counts, s), t) = 0
      BY <1>2, <2>4 DEF CountOf
    <3> QED BY <1>0, <2>1, <3>1
  <2> QED BY <2>3, <2>4
<1> QED BY <1>7, <1>8

LEMMA StreakSame ==
    ASSUME NEW counts, NEW streaks, NEW every \in Seq(FindingType), NEW next,
           StreakCounted(counts, streaks, every), NEW s \in Srcs,
           ReportsGrow(every, next, "port_scan", s, FALSE)
    PROVE  StreakCounted(counts, streaks, next)
<1> SUFFICES ASSUME NEW t \in Srcs
             PROVE  ReportsIn(next, "port_scan", t) = ReportsIn(every, "port_scan", t)
  BY DEF StreakCounted
<1>1. ReportsIn(next, "port_scan", t) = ReportsIn(every, "port_scan", t) + 0
  BY DEF ReportsGrow
<1> QED BY <1>1, ReportsAreNat

LEMMA InitOnce == IngestionInit => OnceInv
<1> SUFFICES ASSUME IngestionInit PROVE OnceInv
  OBVIOUS
<1> DEFINE none == [s \in Srcs |-> 0]
<1>1. /\ synCount = Empty /\ dnsLong = Empty /\ all = <<>>
      /\ syns = none /\ longs = none /\ streak = none
  BY DEF IngestionInit, AnalyzerInit
<1>2. none \in [Srcs -> Nat] /\ \A s \in Srcs : none[s] = 0
  OBVIOUS
<1> HIDE DEF none
<1>3. \A s : CountOf(Empty, s) = 0
  BY DEF CountOf, Empty
<1>4. ASSUME NEW rule, NEW s
      PROVE  ReportsIn(<<>>, rule, s) = 0
  <2>1. {i \in 1 .. Len(<<>>) : <<>>[i].rule = rule /\ <<>>[i].src = s} = {}
    OBVIOUS
  <2> QED BY <2>1, FS_EmptySet DEF ReportsIn
<1>5. Senders(none) = {} /\ IsFiniteSet({}) /\ DOMAIN Empty = {}
  BY <1>2, FS_EmptySet DEF Senders, Empty
<1>6. ScanAt \in Nat \ {0} /\ TunnelAt \in Nat \ {0}
  BY AnalyzerAssumption
<1>7. ASSUME NEW threshold \in Nat \ {0}, NEW rule
      PROVE  CountedOnce(Empty, none, <<>>, rule, threshold)
  <2>1. ~(0 >= threshold)
    OBVIOUS
  <2> QED BY <1>2, <1>3, <1>4, <1>5, <2>1 DEF CountedOnce
<1>8. StreakCounted(Empty, none, <<>>)
  <2>1. ~(0 >= ScanAt) /\ 0 <= 0
    BY <1>6
  <2> QED BY <1>2, <1>3, <2>1 DEF StreakCounted
<1> QED BY <1>1, <1>6, <1>7, <1>8 DEF OnceInv

LEMMA FrameKeepsOnce ==
    ASSUME IngestionInv, OnceInv, NEW f \in Frames, IngestFrame(f)
    PROVE  OnceInv'
<1> DEFINE scanHit == f.syn /\ Reached(synCount', f.src, ScanAt)
           dnsHit == f.app = "longName" /\ Reached(dnsLong', f.src, TunnelAt)
<1>1. /\ no \in Nat /\ all \in Seq(FindingType) /\ CountsOK(synCount, no)
      /\ f.src \in Srcs /\ ScanAt \in Nat \ {0} /\ TunnelAt \in Nat \ {0}
  <2>1. ScanAt \in Nat \ {0} /\ TunnelAt \in Nat \ {0} /\ MaxFrames \in Nat
    BY AnalyzerAssumption
  <2>2. no \in Nat
    BY <2>1 DEF IngestionInv, NumbersOK
  <2>3. all \in Seq(FindingType) /\ CountsOK(synCount, no)
    BY DEF IngestionInv, EndOf
  <2>4. f.src \in Srcs
    BY DEF Srcs
  <2> QED BY <2>1, <2>2, <2>3, <2>4
<1>2. /\ synCount' = IF f.syn THEN Bumped(synCount, f.src) ELSE synCount
      /\ dnsLong' = IF f.app = "longName" THEN Bumped(dnsLong, f.src) ELSE dnsLong
      /\ all' = all \o ScanOf(f, synCount') \o AppFindingOf(f, dnsLong')
      /\ syns' = [syns EXCEPT ![f.src] = @ + (IF f.syn THEN 1 ELSE 0)]
      /\ longs' = [longs EXCEPT ![f.src] = @ + (IF f.app = "longName" THEN 1 ELSE 0)]
      /\ streak' = IF f.syn THEN [s \in Srcs |-> IF s = f.src THEN streak[s] + 1 ELSE 0]
                            ELSE streak
  BY DEF IngestFrame, AnalyzerObserve
<1>3. /\ ReportsGrow(all, all', "port_scan", f.src, scanHit)
      /\ ReportsGrow(all, all', "dns_tunnel", f.src, dnsHit)
  BY <1>1, <1>2, FrameReports
<1>4. /\ CountedOnce(synCount, syns, all, "port_scan", ScanAt)
      /\ CountedOnce(dnsLong, longs, all, "dns_tunnel", TunnelAt)
      /\ StreakCounted(synCount, streak, all)
      /\ syns \in [Srcs -> Nat] /\ longs \in [Srcs -> Nat]
  BY DEF OnceInv, CountedOnce
<1>5. CountedOnce(synCount', syns', all', "port_scan", ScanAt) /\ StreakCounted(synCount', streak', all')
  <2>1. CASE f.syn
    <3>1. /\ synCount' = Bumped(synCount, f.src) /\ syns' = [syns EXCEPT ![f.src] = @ + 1]
          /\ streak' = [s \in Srcs |-> IF s = f.src THEN streak[s] + 1 ELSE 0]
      BY <1>2, <2>1
    <3>2. scanHit <=> Reached(Bumped(synCount, f.src), f.src, ScanAt)
      BY <2>1, <3>1
    <3>3. ReportsGrow(all, all', "port_scan", f.src, Reached(Bumped(synCount, f.src), f.src, ScanAt))
      BY <1>3, <3>2 DEF ReportsGrow
    <3>4. CountedOnce(Bumped(synCount, f.src), syns', all', "port_scan", ScanAt)
      BY <1>1, <1>4, <3>1, <3>3, CountedGrow
    <3>5. StreakCounted(Bumped(synCount, f.src), streak', all')
      BY <1>1, <1>4, <3>1, <3>3, StreakGrow
    <3> QED BY <3>1, <3>4, <3>5
  <2>2. CASE ~f.syn
    <3>1. synCount' = synCount /\ syns' = syns /\ streak' = streak
      BY <1>1, <1>2, <1>4, <2>2
    <3>2. ReportsGrow(all, all', "port_scan", f.src, FALSE)
      BY <1>3, <2>2 DEF ReportsGrow
    <3> QED BY <1>1, <1>4, <3>1, <3>2, CountedSame, StreakSame
  <2> QED BY <2>1, <2>2
<1>6. CountedOnce(dnsLong', longs', all', "dns_tunnel", TunnelAt)
  <2>1. CASE f.app = "longName"
    <3>1. dnsLong' = Bumped(dnsLong, f.src) /\ longs' = [longs EXCEPT ![f.src] = @ + 1]
      BY <1>2, <2>1
    <3>2. ReportsGrow(all, all', "dns_tunnel", f.src, Reached(Bumped(dnsLong, f.src), f.src, TunnelAt))
      BY <1>3, <2>1, <3>1 DEF ReportsGrow
    <3>3. CountedOnce(Bumped(dnsLong, f.src), longs', all', "dns_tunnel", TunnelAt)
      BY <1>1, <1>4, <3>1, <3>2, CountedGrow
    <3> QED BY <3>1, <3>3
  <2>2. CASE f.app # "longName"
    <3>1. dnsLong' = dnsLong /\ longs' = longs
      BY <1>1, <1>2, <1>4, <2>2
    <3>2. ReportsGrow(all, all', "dns_tunnel", f.src, FALSE)
      BY <1>3, <2>2 DEF ReportsGrow
    <3> QED BY <1>1, <1>4, <3>1, <3>2, CountedSame
  <2> QED BY <2>1, <2>2
<1> QED BY <1>5, <1>6 DEF OnceInv

LEMMA StutterKeepsOnce == OnceInv /\ UNCHANGED ingestionVars => OnceInv'
BY DEF OnceInv, ingestionVars, analyzerVars, CountedOnce, StreakCounted

-----------------------------------------------------------------------------
(* The timeline: a third invariant.  A frame first gets a bucket, which may *)
(* be empty or push out another, and is then counted in it.                 *)

Times == Clock \cup {f.sec : f \in Frames}
BucketType == [t : Times, packets : Nat, bytes : Nat]
CountedType == [sec : Times, bytes : Nat]

Buckets == {s \in Seq(BucketType) : Len(s) <= MaxBuckets}

\* cut tells where the buckets of a timeline end.
CutsAt(buckets, log, cut) ==
    /\ cut \in [0 .. Len(buckets) -> 0 .. Len(log)] /\ cut[Len(buckets)] = Len(log)
    /\ cut[0] > 0 => Len(buckets) = MaxBuckets

Cut(buckets, log, cut) ==
    /\ CutsAt(buckets, log, cut)
    /\ \A b \in 1 .. Len(buckets) : BucketIsOf(buckets[b], log, cut[b - 1], cut[b])

\* A bucket that may still be empty.
Filling(bucket, log, from, to) ==
    /\ from <= to
    /\ \A i \in from + 1 .. to : log[i].sec = bucket.t
    /\ from > 0 => log[from].sec # bucket.t
    /\ bucket.packets = to - from
    /\ bucket.bytes = BytesUpTo(log, to) - BytesUpTo(log, from)

\* The last bucket is that of the second sec.
Open(buckets, log, cut, sec) ==
    /\ buckets \in Buckets /\ Len(buckets) > 0
    /\ CutsAt(buckets, log, cut)
    /\ \A b \in 1 .. Len(buckets) - 1 : BucketIsOf(buckets[b], log, cut[b - 1], cut[b])
    /\ buckets[Len(buckets)].t = sec
    /\ Filling(buckets[Len(buckets)], log, cut[Len(buckets) - 1], Len(log))

TimelineInv ==
    /\ timeline \in Buckets /\ counted \in Seq(CountedType)
    /\ bytes \in Nat /\ bytes = BytesUpTo(counted, Len(counted))
    /\ \E cut : Cut(timeline, counted, cut)

LEMMA BucketFillsOn ==
    ASSUME NEW bucket, NEW log, NEW from \in Nat, NEW to \in Nat
    PROVE  BucketIsOf(bucket, log, from, to) <=> from < to /\ Filling(bucket, log, from, to)
BY DEF BucketIsOf, Filling

LEMMA BytesAreNat ==
    ASSUME NEW log \in Seq(CountedType), NEW n \in 0 .. Len(log)
    PROVE  BytesUpTo(log, n) \in Nat
<1>1. CASE n = 0
  BY <1>1 DEF BytesUpTo
<1>2. CASE n # 0
  <2>1. n \in 1 .. Len(log)
    BY <1>2
  <2>2. log[n] \in CountedType
    BY <2>1, ElementOfSeq
  <2> QED BY <1>2, <2>2 DEF BytesUpTo, CountedType
<1> QED BY <1>1, <1>2

\* A new bucket at the end, without regard to the limit.
LEMMA BucketAdded ==
    ASSUME NEW buckets \in Buckets, NEW log \in Seq(CountedType), NEW cut,
           Cut(buckets, log, cut), NEW sec \in Times,
           buckets # <<>> => buckets[Len(buckets)].t # sec,
           NEW more, more = Append(buckets, EmptyBucket(sec)),
           NEW new, new = [b \in 0 .. Len(more) |-> IF b = Len(more) THEN Len(log) ELSE cut[b]]
    PROVE  /\ more \in Seq(BucketType) /\ Len(more) = Len(buckets) + 1
           /\ new \in [0 .. Len(more) -> 0 .. Len(log)] /\ new[Len(more)] = Len(log)
           /\ new[0] > 0 => Len(buckets) = MaxBuckets
           /\ \A b \in 1 .. Len(more) - 1 : BucketIsOf(more[b], log, new[b - 1], new[b])
           /\ more[Len(more)].t = sec
           /\ Filling(more[Len(more)], log, new[Len(more) - 1], Len(log))
<1> DEFINE n == Len(buckets)
           empty == EmptyBucket(sec)
<1>1. buckets \in Seq(BucketType) /\ n \in Nat /\ Len(log) \in Nat
  BY DEF Buckets
<1>2. empty \in BucketType /\ empty.t = sec /\ empty.packets = 0 /\ empty.bytes = 0
  BY DEF EmptyBucket, BucketType
<1>3. /\ more \in Seq(BucketType) /\ Len(more) = n + 1 /\ more[n + 1] = empty
      /\ \A b \in 1 .. n : more[b] = buckets[b]
  <2>1. empty \in BucketType
    BY <1>2
  <2> HIDE DEF empty
  <2> QED BY <1>1, <2>1, AppendProperties DEF empty
<1>4. /\ cut \in [0 .. n -> 0 .. Len(log)] /\ cut[n] = Len(log)
      /\ cut[0] > 0 => n = MaxBuckets
      /\ \A b \in 1 .. n : BucketIsOf(buckets[b], log, cut[b - 1], cut[b])
  BY DEF Cut, CutsAt
<1> HIDE DEF empty, n
<1>5. /\ new \in [0 .. n + 1 -> 0 .. Len(log)] /\ new[n + 1] = Len(log)
      /\ \A b \in 0 .. n : new[b] = cut[b]
  BY <1>1, <1>3, <1>4
<1>6. new[0] > 0 => n = MaxBuckets
  BY <1>1, <1>4, <1>5
<1>7. ASSUME NEW b \in 1 .. n PROVE BucketIsOf(more[b], log, new[b - 1], new[b])
  <2>1. b \in 0 .. n /\ b - 1 \in 0 .. n
    BY <1>1
  <2>2. more[b] = buckets[b] /\ new[b] = cut[b] /\ new[b - 1] = cut[b - 1]
    BY <1>3, <1>5, <2>1
  <2> QED BY <1>4, <2>2
<1>8. Len(log) > 0 => log[Len(log)].sec # sec
  <2> SUFFICES ASSUME Len(log) > 0 PROVE log[Len(log)].sec # sec
    OBVIOUS
  <2>1. n # 0
    <3>1. MaxBuckets \in Nat \ {0}
      BY StatisticsAssumption
    <3> QED BY <1>4, <3>1
  <2>2. n \in 1 .. n /\ buckets # <<>> /\ n - 1 \in 0 .. n
    BY <1>1, <2>1 DEF n
  <2>3. BucketIsOf(buckets[n], log, cut[n - 1], Len(log)) /\ cut[n - 1] \in Nat
    BY <1>4, <2>2
  <2>4. Len(log) \in cut[n - 1] + 1 .. Len(log)
    BY <1>1, <2>3 DEF BucketIsOf
  <2>5. log[Len(log)].sec = buckets[n].t
    BY <2>3, <2>4 DEF BucketIsOf
  <2> QED BY <2>2, <2>5 DEF n
<1>9. Filling(empty, log, Len(log), Len(log))
  <2>1. Len(log) + 1 .. Len(log) = {} /\ Len(log) - Len(log) = 0
    BY <1>1
  <2>2. BytesUpTo(log, Len(log)) \in Nat
    <3>1. Len(log) \in 0 .. Len(log)
      BY <1>1
    <3> QED BY <3>1, BytesAreNat
  <2>3. BytesUpTo(log, Len(log)) - BytesUpTo(log, Len(log)) = 0
    BY <2>2
  <2> QED BY <1>1, <1>2, <1>8, <2>1, <2>3 DEF Filling
<1>10. n \in 0 .. n /\ new[n] = Len(log) /\ (n + 1) - 1 = n
  BY <1>1, <1>4, <1>5
<1> QED BY <1>2, <1>3, <1>5, <1>6, <1>7, <1>9, <1>10 DEF n

\* When there are too many the oldest goes, and the others keep their frames.
LEMMA OldestDropped ==
    ASSUME NEW more \in Seq(BucketType), Len(more) = MaxBuckets + 1,
           NEW log \in Seq(CountedType), NEW new \in [0 .. Len(more) -> 0 .. Len(log)],
           new[Len(more)] = Len(log), NEW sec,
           \A b \in 1 .. Len(more) - 1 : BucketIsOf(more[b], log, new[b - 1], new[b]),
           more[Len(more)].t = sec,
           Filling(more[Len(more)], log, new[Len(more) - 1], Len(log))
    PROVE  \E cut : Open(Tail(more), log, cut, sec)
<1> DEFINE cut == [b \in 0 .. MaxBuckets |-> new[b + 1]]
           rest == Tail(more)
           m == MaxBuckets
<1>1. m \in Nat \ {0}
  BY StatisticsAssumption
<1>2. /\ rest \in Seq(BucketType) /\ Len(rest) = m
      /\ \A b \in 1 .. m : rest[b] = more[b + 1]
  <2>1. more # <<>>
    BY <1>1
  <2>2. Tail(more) \in Seq(BucketType) /\ Len(Tail(more)) = Len(more) - 1
        /\ \A b \in 1 .. Len(Tail(more)) : Tail(more)[b] = more[b + 1]
    BY <2>1, HeadTailProperties
  <2> QED BY <1>1, <2>2
<1>3. /\ cut \in [0 .. m -> 0 .. Len(log)] /\ \A b \in 0 .. m : cut[b] = new[b + 1]
  <2>1. \A b \in 0 .. m : b + 1 \in 0 .. Len(more)
    BY <1>1
  <2> QED BY <2>1
<1> HIDE DEF cut, rest, m
<1>4. Len(more) = m + 1
  BY DEF m
<1>5. cut[m] = Len(log)
  BY <1>1, <1>3, <1>4
<1>6. ASSUME NEW b \in 1 .. m - 1 PROVE BucketIsOf(rest[b], log, cut[b - 1], cut[b])
  <2>1. b + 1 \in 1 .. Len(more) - 1 /\ b \in 0 .. m /\ b - 1 \in 0 .. m /\ b \in 1 .. m
        /\ (b + 1) - 1 = b /\ (b - 1) + 1 = b
    BY <1>1, <1>4
  <2>2. BucketIsOf(more[b + 1], log, new[(b + 1) - 1], new[b + 1])
    BY <2>1
  <2>3. rest[b] = more[b + 1] /\ cut[b] = new[b + 1] /\ cut[b - 1] = new[b]
    <3>1. cut[b - 1] = new[(b - 1) + 1]
      BY <1>3, <2>1
    <3> QED BY <1>2, <1>3, <2>1, <3>1
  <2> QED BY <2>1, <2>2, <2>3
<1>7. /\ rest[m] = more[Len(more)] /\ cut[m - 1] = new[Len(more) - 1]
  <2>1. m - 1 \in 0 .. m /\ m \in 1 .. m /\ (m - 1) + 1 = Len(more) - 1
    BY <1>1, <1>4
  <2> QED BY <1>2, <1>3, <1>4, <2>1
<1>8. Open(rest, log, cut, sec)
  <2>1. rest \in Buckets /\ Len(rest) > 0
    BY <1>1, <1>2 DEF Buckets, m
  <2>2. CutsAt(rest, log, cut)
    BY <1>2, <1>3, <1>5 DEF CutsAt, m
  <2> QED BY <1>2, <1>6, <1>7, <2>1, <2>2 DEF Open
<1> QED BY <1>8 DEF rest

\* Observe looks for the bucket of the second, or adds it (stats/engine.go:92-97).
LEMMA BucketOpens ==
    ASSUME NEW buckets \in Buckets, NEW log \in Seq(CountedType), NEW cut,
           Cut(buckets, log, cut), NEW sec \in Times
    PROVE  \E new : Open(BucketFor(buckets, sec), log, new, sec)
<1> DEFINE n == Len(buckets)
           more == Append(buckets, EmptyBucket(sec))
           new == [b \in 0 .. Len(more) |-> IF b = Len(more) THEN Len(log) ELSE cut[b]]
<1>1. buckets \in Seq(BucketType) /\ n \in Nat /\ Len(log) \in Nat /\ n <= MaxBuckets
      /\ MaxBuckets \in Nat \ {0}
  BY StatisticsAssumption DEF Buckets
<1>2. CASE buckets # <<>> /\ buckets[n].t = sec
  <2>1. BucketFor(buckets, sec) = buckets
    BY <1>2 DEF BucketFor, Last
  <2>2. n > 0 /\ n \in 1 .. n /\ n - 1 \in 0 .. n
    BY <1>1, <1>2
  <2>3. /\ CutsAt(buckets, log, cut) /\ cut \in [0 .. n -> 0 .. Len(log)] /\ cut[n] = Len(log)
        /\ \A b \in 1 .. n : BucketIsOf(buckets[b], log, cut[b - 1], cut[b])
    BY DEF Cut, CutsAt
  <2> HIDE DEF n
  <2>4. BucketIsOf(buckets[n], log, cut[n - 1], Len(log))
        /\ cut[n - 1] \in Nat
    BY <1>1, <2>2, <2>3
  <2>5. Filling(buckets[n], log, cut[n - 1], Len(log))
    BY <1>1, <2>4, BucketFillsOn
  <2>6. \A b \in 1 .. n - 1 : b \in 1 .. n
    BY <1>1
  <2>7. Open(buckets, log, cut, sec)
    BY <1>2, <2>2, <2>3, <2>5, <2>6 DEF Open, n
  <2> QED BY <2>1, <2>7
<1>3. CASE ~(buckets # <<>> /\ buckets[n].t = sec)
  <2>0. buckets # <<>> => buckets[Len(buckets)].t # sec
    BY <1>3
  <2> HIDE DEF more, new
  <2>1. /\ more \in Seq(BucketType) /\ Len(more) = n + 1
        /\ new \in [0 .. Len(more) -> 0 .. Len(log)] /\ new[Len(more)] = Len(log)
        /\ new[0] > 0 => n = MaxBuckets
        /\ \A b \in 1 .. Len(more) - 1 : BucketIsOf(more[b], log, new[b - 1], new[b])
        /\ more[Len(more)].t = sec
        /\ Filling(more[Len(more)], log, new[Len(more) - 1], Len(log))
    <3>1. more = Append(buckets, EmptyBucket(sec))
      BY DEF more
    <3>2. new = [b \in 0 .. Len(more) |-> IF b = Len(more) THEN Len(log) ELSE cut[b]]
      BY DEF new
    <3> QED BY <2>0, <3>1, <3>2, BucketAdded
  <2>2. BucketFor(buckets, sec) = IF Len(more) > MaxBuckets THEN Tail(more) ELSE more
    BY <1>3 DEF BucketFor, Last, more
  <2> HIDE DEF n
  <2>3. CASE Len(more) > MaxBuckets
    <3>1. Len(more) = MaxBuckets + 1
      BY <1>1, <2>1, <2>3
    <3>2. \E c : Open(Tail(more), log, c, sec)
      BY <2>1, <3>1, OldestDropped
    <3> QED BY <2>2, <2>3, <3>2
  <2>4. CASE ~(Len(more) > MaxBuckets)
    <3>1. Len(more) <= MaxBuckets /\ Len(more) > 0 /\ n # MaxBuckets
      BY <1>1, <2>1, <2>4
    <3>2. CutsAt(more, log, new)
      BY <2>1, <3>1 DEF CutsAt
    <3>3. Open(more, log, new, sec)
      BY <2>1, <3>1, <3>2 DEF Open, Buckets
    <3> QED BY <2>2, <2>4, <3>3
  <2> QED BY <2>3, <2>4
<1> QED BY <1>2, <1>3

\* A longer log is the same where the shorter one ended.
LEMMA LogGrows ==
    ASSUME NEW log \in Seq(CountedType), NEW x \in CountedType, NEW longer,
           longer = Append(log, x), NEW bucket, NEW from \in 0 .. Len(log), NEW to \in 0 .. Len(log)
    PROVE  /\ BytesUpTo(longer, to) = BytesUpTo(log, to)
           /\ Filling(bucket, longer, from, to) <=> Filling(bucket, log, from, to)
<1>1. Len(log) \in Nat /\ \A i \in 1 .. Len(log) : longer[i] = log[i]
  BY AppendProperties
<1>2. \A i \in 0 .. Len(log) : BytesUpTo(longer, i) = BytesUpTo(log, i)
  BY <1>1 DEF BytesUpTo
<1>3. from > 0 => longer[from] = log[from]
  BY <1>1
<1>4. \A i \in from + 1 .. to : longer[i] = log[i]
  BY <1>1
<1> QED BY <1>2, <1>3, <1>4 DEF Filling

\* One frame more in a bucket.
OneMore(bucket, length) == [bucket EXCEPT !.packets = @ + 1, !.bytes = @ + length]

LEMMA OneMoreFields ==
    ASSUME NEW bucket \in BucketType, NEW length \in Nat
    PROVE  /\ OneMore(bucket, length) \in BucketType
           /\ OneMore(bucket, length).t = bucket.t
           /\ OneMore(bucket, length).packets = bucket.packets + 1
           /\ OneMore(bucket, length).bytes = bucket.bytes + length
           /\ bucket.packets \in Nat /\ bucket.bytes \in Nat
<1>1. /\ bucket.t \in Times /\ bucket.packets \in Nat /\ bucket.bytes \in Nat
      /\ bucket = [t |-> bucket.t, packets |-> bucket.packets, bytes |-> bucket.bytes]
  BY DEF BucketType
<1> DEFINE once == [bucket EXCEPT !.packets = @ + 1]
<1>2. once = [t |-> bucket.t, packets |-> bucket.packets + 1, bytes |-> bucket.bytes]
  BY <1>1
<1>3. OneMore(bucket, length) = [once EXCEPT !.bytes = bucket.bytes + length]
  BY <1>1 DEF OneMore
<1> HIDE DEF once
<1>4. OneMore(bucket, length) =
          [t |-> bucket.t, packets |-> bucket.packets + 1, bytes |-> bucket.bytes + length]
  BY <1>2, <1>3
<1>5. bucket.packets + 1 \in Nat /\ bucket.bytes + length \in Nat
  BY <1>1
<1> QED BY <1>1, <1>4, <1>5 DEF BucketType

LEMMA LastReplaced ==
    ASSUME NEW buckets \in Seq(BucketType), NEW n, n = Len(buckets), n > 0,
           NEW bucket \in BucketType, NEW filled, filled = [buckets EXCEPT ![n] = bucket]
    PROVE  /\ filled \in Seq(BucketType) /\ Len(filled) = n /\ filled[n] = bucket
           /\ \A b \in 1 .. n - 1 : filled[b] = buckets[b]
<1>1. n \in 1 .. Len(buckets) /\ n \in Nat
  OBVIOUS
<1>2. /\ filled \in Seq(BucketType) /\ Len(filled) = Len(buckets)
      /\ \A b \in 1 .. Len(buckets) : filled[b] = IF b = n THEN bucket ELSE buckets[b]
  BY <1>1, ExceptSeq
<1>3. \A b \in 1 .. n - 1 : b \in 1 .. Len(buckets) /\ b # n
  BY <1>1
<1> QED BY <1>1, <1>2, <1>3

\* Then it counts the frame in the last bucket (stats/engine.go:98-99).
LEMMA BucketFills ==
    ASSUME NEW buckets, NEW log \in Seq(CountedType), NEW cut, NEW sec \in Times,
           Open(buckets, log, cut, sec), NEW length \in Nat,
           NEW longer, longer = Append(log, [sec |-> sec,
                                             bytes |-> BytesUpTo(log, Len(log)) + length]),
           NEW filled,
           filled = [buckets EXCEPT ![Len(buckets)] = OneMore(buckets[Len(buckets)], length)]
    PROVE  filled \in Buckets /\ \E new : Cut(filled, longer, new)
<1> DEFINE n == Len(buckets)
           m == Len(log)
           b0 == buckets[n]
           total == BytesUpTo(log, m)
           x == [sec |-> sec, bytes |-> total + length]
           new == [b \in 0 .. n |-> IF b = n THEN m + 1 ELSE cut[b]]
<1>1. /\ buckets \in Seq(BucketType) /\ n \in Nat /\ n > 0 /\ n <= MaxBuckets /\ m \in Nat
      /\ b0 \in BucketType
  <2>1. buckets \in Seq(BucketType) /\ n \in Nat /\ n > 0 /\ n <= MaxBuckets /\ m \in Nat
    BY DEF Open, Buckets
  <2>2. n \in 1 .. n
    BY <2>1
  <2> QED BY <2>1, <2>2, ElementOfSeq
<1>2. /\ cut \in [0 .. n -> 0 .. m] /\ cut[n] = m /\ (cut[0] > 0 => n = MaxBuckets)
      /\ \A b \in 1 .. n - 1 : BucketIsOf(buckets[b], log, cut[b - 1], cut[b])
      /\ b0.t = sec /\ Filling(b0, log, cut[n - 1], m)
  BY DEF Open, CutsAt
<1>3. total \in Nat
  <2>1. Len(log) \in 0 .. Len(log)
    BY <1>1
  <2> QED BY <2>1, BytesAreNat
<1>4. x \in CountedType
  BY <1>3 DEF CountedType
<1>5. /\ longer \in Seq(CountedType) /\ Len(longer) = m + 1 /\ longer[m + 1] = x
  <2> HIDE DEF x
  <2>1. longer = Append(log, x)
    BY DEF x, total
  <2> QED BY <1>4, <2>1, AppendProperties
<1>6. longer = Append(log, x)
  OBVIOUS
<1> DEFINE b1 == OneMore(b0, length)
<1>7. /\ b1 \in BucketType /\ b1.t = sec
      /\ b1.packets = b0.packets + 1 /\ b1.bytes = b0.bytes + length
      /\ b0.packets \in Nat /\ b0.bytes \in Nat
  <2> HIDE DEF b0, n, m
  <2>1. b0 \in BucketType
    BY <1>1
  <2>2. b0.t = sec
    BY <1>2
  <2> QED BY <2>1, <2>2, OneMoreFields
<1>8. filled = [buckets EXCEPT ![n] = b1]
  OBVIOUS
<1> HIDE DEF b0, b1, n, m, total, x
<1>9. /\ filled \in Seq(BucketType) /\ Len(filled) = n /\ filled[n] = b1
      /\ \A b \in 1 .. n - 1 : filled[b] = buckets[b]
  <2>1. n = Len(buckets)
    BY DEF n
  <2> QED BY <1>1, <1>7, <1>8, <2>1, LastReplaced
<1>10. filled \in Buckets
  BY <1>1, <1>9 DEF Buckets
<1>11. /\ new \in [0 .. n -> 0 .. m + 1] /\ new[n] = m + 1
       /\ \A b \in 0 .. n - 1 : new[b] = cut[b]
  <2>1. n \in 0 .. n /\ m + 1 \in 0 .. m + 1 /\ \A b \in 0 .. n - 1 : b \in 0 .. n /\ b # n
    BY <1>1
  <2>2. ASSUME NEW b \in 0 .. n PROVE cut[b] \in 0 .. m + 1
    <3>1. cut \in [0 .. n -> 0 .. m] /\ m \in Nat
      BY <1>1, <1>2
    <3>2. cut[b] \in 0 .. m
      BY <3>1
    <3> QED BY <3>1, <3>2
  <2> QED BY <2>1, <2>2
<1> HIDE DEF new
<1>12. CutsAt(filled, longer, new)
  <2>1. 0 \in 0 .. n - 1
    BY <1>1
  <2> QED BY <1>2, <1>5, <1>9, <1>11, <2>1 DEF CutsAt
<1>13. ASSUME NEW b \in 1 .. n - 1
       PROVE  BucketIsOf(filled[b], longer, new[b - 1], new[b])
  <2>1. b \in 0 .. n - 1 /\ b - 1 \in 0 .. n - 1 /\ b \in 0 .. n /\ b - 1 \in 0 .. n
    BY <1>1
  <2>2. BucketIsOf(buckets[b], log, cut[b - 1], cut[b])
        /\ cut[b - 1] \in 0 .. m /\ cut[b] \in 0 .. m
    BY <1>2, <2>1
  <2>3. filled[b] = buckets[b] /\ new[b] = cut[b] /\ new[b - 1] = cut[b - 1]
    BY <1>9, <1>11, <2>1
  <2>4. Filling(buckets[b], longer, cut[b - 1], cut[b])
            <=> Filling(buckets[b], log, cut[b - 1], cut[b])
    BY <1>4, <1>6, <2>2, LogGrows DEF m
  <2>5. cut[b - 1] \in Nat /\ cut[b] \in Nat
    BY <2>2
  <2> QED BY <2>2, <2>3, <2>4, <2>5, BucketFillsOn
<1>14. BucketIsOf(filled[n], longer, new[n - 1], new[n])
  <2> DEFINE from == cut[n - 1]
  <2>1. from \in 0 .. m /\ new[n - 1] = from /\ from \in Nat
    <3>1. n - 1 \in 0 .. n /\ n - 1 \in 0 .. n - 1
      BY <1>1
    <3> QED BY <1>2, <1>11, <3>1
  <2> HIDE DEF from
  <2>2. Filling(b0, longer, from, m)
    <3>1. Filling(b0, log, from, m)
      BY <1>2 DEF from
    <3>2. m \in 0 .. Len(log) /\ from \in 0 .. Len(log)
      BY <1>1, <2>1 DEF m
    <3>3. Filling(b0, longer, from, m) <=> Filling(b0, log, from, m)
      BY <1>4, <1>6, <3>2, LogGrows
    <3> QED BY <3>1, <3>3
  <2>3. /\ BytesUpTo(longer, m) = total /\ BytesUpTo(longer, m + 1) = total + length
        /\ BytesUpTo(longer, from) \in Nat
    <3>1. BytesUpTo(longer, m) = total
      <4>1. m \in 0 .. Len(log)
        BY <1>1 DEF m
      <4> QED BY <1>4, <1>6, <4>1, LogGrows DEF total
    <3>2. BytesUpTo(longer, m + 1) = total + length
      BY <1>1, <1>5 DEF BytesUpTo, x
    <3>4. BytesUpTo(longer, from) \in Nat
      <4>1. from \in 0 .. Len(longer)
        BY <1>1, <1>5, <2>1
      <4> QED BY <1>5, <4>1, BytesAreNat
    <3> QED BY <3>1, <3>2, <3>4
  <2>4. /\ b0.packets = m - from /\ b0.bytes = total - BytesUpTo(longer, from)
        /\ from > 0 => longer[from].sec # sec
        /\ \A i \in from + 1 .. m : longer[i].sec = sec
    BY <1>2, <2>2, <2>3 DEF Filling
  <2>5. longer[m + 1].sec = sec
    BY <1>5 DEF x
  <2>6. \A i \in from + 1 .. m + 1 : longer[i].sec = sec
    <3> TAKE i \in from + 1 .. m + 1
    <3>1. i = m + 1 \/ i \in from + 1 .. m
      BY <1>1, <2>1
    <3> QED BY <2>4, <2>5, <3>1
  <2>7. b1.packets = (m + 1) - from
    BY <1>1, <1>7, <2>1, <2>4
  <2>8. b1.bytes = BytesUpTo(longer, m + 1) - BytesUpTo(longer, from)
    BY <1>3, <1>7, <2>3, <2>4
  <2>9. from < m + 1
    BY <1>1, <2>1
  <2>10. BucketIsOf(b1, longer, from, m + 1)
    BY <1>7, <2>4, <2>6, <2>7, <2>8, <2>9 DEF BucketIsOf
  <2> QED BY <1>9, <1>11, <2>1, <2>10
<1>15. \A b \in 1 .. n : b = n \/ b \in 1 .. n - 1
  BY <1>1
<1>16. Cut(filled, longer, new)
  BY <1>9, <1>12, <1>13, <1>14, <1>15 DEF Cut
<1> QED BY <1>10, <1>16

LEMMA InitTimeline == IngestionInit => TimelineInv
<1> SUFFICES ASSUME IngestionInit PROVE TimelineInv
  OBVIOUS
<1>1. timeline = <<>> /\ counted = <<>> /\ bytes = 0
  BY DEF IngestionInit, StatsInit
<1>2. MaxBuckets \in Nat
  BY StatisticsAssumption
<1>3. timeline \in Buckets /\ counted \in Seq(CountedType) /\ Len(timeline) = 0 /\ Len(counted) = 0
  BY <1>1, <1>2 DEF Buckets
<1> DEFINE none == [b \in 0 .. 0 |-> 0]
<1>4. none \in [0 .. 0 -> 0 .. 0] /\ none[0] = 0
  OBVIOUS
<1> HIDE DEF none
<1>5. Cut(timeline, counted, none)
  <2>1. 1 .. 0 = {} /\ ~(0 > 0)
    OBVIOUS
  <2> QED BY <1>3, <1>4, <2>1 DEF Cut, CutsAt
<1>6. BytesUpTo(counted, Len(counted)) = 0
  BY <1>3 DEF BytesUpTo
<1> QED BY <1>1, <1>3, <1>5, <1>6 DEF TimelineInv

LEMMA FrameKeepsTimeline ==
    ASSUME TimelineInv, NEW f \in Frames, IngestFrame(f)
    PROVE  TimelineInv'
<1>1. CASE ~f.shown
  <2>1. UNCHANGED <<timeline, counted, bytes>>
    BY <1>1 DEF IngestFrame, statsVars
  <2> QED BY <2>1 DEF TimelineInv
<1>2. CASE f.shown
  <2>1. StatsObserve(f, frame'.severity)
    BY <1>2 DEF IngestFrame
  <2>2. PICK sec \in SecondsOf(f) :
          /\ bytes' = bytes + f.length
          /\ timeline' = LET buckets == BucketFor(timeline, sec)
                         IN  [buckets EXCEPT ![Len(buckets)].packets = @ + 1,
                                             ![Len(buckets)].bytes = @ + f.length]
          /\ counted' = Append(counted, [sec |-> sec, bytes |-> bytes'])
    BY <2>1 DEF StatsObserve
  <2>3. sec \in Times /\ f.length \in Nat
    BY IngestionAssumption DEF SecondsOf, Times
  <2>4. PICK cut : Cut(timeline, counted, cut)
    BY DEF TimelineInv
  <2>5. /\ timeline \in Buckets /\ counted \in Seq(CountedType)
        /\ bytes \in Nat /\ bytes = BytesUpTo(counted, Len(counted))
    BY DEF TimelineInv
  <2> DEFINE buckets == BucketFor(timeline, sec)
  <2>6. PICK new : Open(buckets, counted, new, sec)
    BY <2>3, <2>4, <2>5, BucketOpens
  <2>7. /\ counted' = Append(counted, [sec |-> sec,
                                       bytes |-> BytesUpTo(counted, Len(counted)) + f.length])
        /\ timeline' = [buckets EXCEPT ![Len(buckets)] = OneMore(buckets[Len(buckets)], f.length)]
    BY <2>2, <2>5 DEF OneMore
  <2> HIDE DEF buckets
  <2>8. timeline' \in Buckets /\ \E c : Cut(timeline', counted', c)
    BY <2>3, <2>5, <2>6, <2>7, BucketFills
  <2>9. /\ counted' \in Seq(CountedType) /\ bytes' \in Nat
        /\ bytes' = BytesUpTo(counted', Len(counted'))
    <3> DEFINE x == [sec |-> sec, bytes |-> bytes']
    <3>1. bytes' \in Nat
      BY <2>2, <2>3, <2>5
    <3>2. x \in CountedType /\ x.bytes = bytes'
      BY <2>3, <3>1 DEF CountedType
    <3>3. counted' = Append(counted, x)
      BY <2>2
    <3> HIDE DEF x
    <3>4. /\ counted' \in Seq(CountedType) /\ Len(counted') = Len(counted) + 1
          /\ counted'[Len(counted) + 1] = x /\ Len(counted) \in Nat
      BY <2>5, <3>2, <3>3, AppendProperties
    <3>5. BytesUpTo(counted', Len(counted')) = x.bytes
      BY <3>4 DEF BytesUpTo
    <3> QED BY <3>1, <3>2, <3>4, <3>5
  <2> QED BY <2>8, <2>9 DEF TimelineInv
<1> QED BY <1>1, <1>2

LEMMA StutterKeepsTimeline == TimelineInv /\ UNCHANGED ingestionVars => TimelineInv'
BY DEF TimelineInv, ingestionVars, statsVars

-----------------------------------------------------------------------------
(* The theorems.                                                           *)

\* The invariant holds of every run (analyzer.go:34-107, stats/engine.go:56-99).
THEOREM IngestionInvariance == IngestionSpec => []IngestionInv
<1>1. IngestionInv /\ [IngestionNext]_ingestionVars => IngestionInv'
  BY FrameKeepsInv, StutterKeepsInv DEF IngestionNext
<1> QED BY InitInv, <1>1, PTL DEF IngestionSpec

\* The analyzer's state is of its type: neither of its maps outgrows MaxSources,
\* nor the list of findings Limit (analyzer.go:48, 58, 98).
THEOREM IngestionTyping == IngestionSpec => []AnalyzerTypeOK
<1>1. IngestionInv => AnalyzerTypeOK
  BY DEF IngestionInv, AnalyzerTypeOK, EndOf, CountsOK, NumbersOK
<1> QED BY <1>1, IngestionInvariance, PTL

\* The list shows the newest findings, all of them or at least half of what it can
\* hold (analyzer.go:97-107).
THEOREM IngestionFindingsAreNewest == IngestionSpec => []FindingsAreNewest
<1>1. IngestionInv => FindingsAreNewest
  BY EndIsNewest DEF IngestionInv
<1> QED BY <1>1, IngestionInvariance, PTL

\* The breakdown by severity agrees with what was raised for the frames counted,
\* for however many frames, sources and findings (engine.go:328-339,
\* analyzer.go:46-90, stats/engine.go:67-72).
THEOREM IngestionSeverity == IngestionSpec => []SeverityFollowsFindings
<1>1. IngestionInv => SeverityFollowsFindings
  BY DEF IngestionInv
<1> QED BY <1>1, IngestionInvariance, PTL

\* What each source has sent is counted, and reported on the way to the threshold
\* (analyzer.go:46-63).
THEOREM IngestionCounts == IngestionSpec => []OnceInv
<1>1. IngestionInv /\ OnceInv /\ [IngestionNext]_ingestionVars => OnceInv'
  BY FrameKeepsOnce, StutterKeepsOnce DEF IngestionNext
<1> QED BY InitOnce, <1>1, IngestionInvariance, PTL DEF IngestionSpec

\* A source is reported exactly when it has sent enough, and once, as long as there
\* are no more sources than are counted (analyzer.go:46-63).
THEOREM IngestionReportedOnce == IngestionSpec => []ReportedOnce
<1>1. OnceInv => ReportedOnce
  BY DEF OnceInv, CountedOnce, ReportedOnce, OnceAtThreshold, Reports
<1> QED BY <1>1, IngestionCounts, PTL

\* A source with a full streak of SYNs has been reported, however many sources were
\* forgotten before (analyzer.go:47-51).
THEOREM IngestionStreakIsReported == IngestionSpec => []StreakIsReported
<1>1. IngestionInv /\ OnceInv => StreakIsReported
  <2> SUFFICES ASSUME IngestionInv, OnceInv, NEW s \in Srcs, streak[s] >= ScanAt
               PROVE  Reports("port_scan", s) > 0
    BY DEF StreakIsReported
  <2>1. /\ streak[s] \in Nat /\ streak[s] <= CountOf(synCount, s)
        /\ CountOf(synCount, s) >= ScanAt => ReportsIn(all, "port_scan", s) > 0
    BY DEF OnceInv, StreakCounted
  <2>2. CountOf(synCount, s) \in Nat /\ ScanAt \in Nat
    <3>1. CASE s \in DOMAIN synCount
      <4>0. MaxFrames \in Nat /\ no \in 0 .. MaxFrames
        BY AnalyzerAssumption DEF IngestionInv, NumbersOK
      <4>1. CountOf(synCount, s) = synCount[s] /\ synCount[s] \in 1 .. no
        BY <3>1 DEF CountOf, IngestionInv, CountsOK
      <4>2. CountOf(synCount, s) \in Nat
        BY <4>0, <4>1
      <4> QED BY <4>2, AnalyzerAssumption
    <3>2. CASE s \notin DOMAIN synCount
      BY <3>2, AnalyzerAssumption DEF CountOf
    <3> QED BY <3>1, <3>2
  <2> QED BY <2>1, <2>2 DEF Reports
<1> QED BY <1>1, IngestionInvariance, IngestionCounts, PTL

\* The timeline is the end of what was counted, whatever the timestamps and for any
\* number of buckets: each frame and each byte is in the bucket of its second, and
\* only whole buckets are dropped, the oldest (stats/engine.go:62-65, 88-99).
THEOREM IngestionTimeline == IngestionSpec => []TimelineIsNewest
<1>1. TimelineInv /\ [IngestionNext]_ingestionVars => TimelineInv'
  BY FrameKeepsTimeline, StutterKeepsTimeline DEF IngestionNext
<1>2. TimelineInv => TimelineIsNewest
  BY DEF TimelineInv, Cut, CutsAt, TimelineIsNewest
<1> QED BY InitTimeline, <1>1, <1>2, PTL DEF IngestionSpec
=============================================================================
