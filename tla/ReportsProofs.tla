---------------------------- MODULE ReportsProofs ----------------------------
(***************************************************************************)
(* For every filter, every number of frames and every number of reports    *)
(* made while Run ingests: what a report refers to is in it but for the    *)
(* frame under way and what the limits of its lists leave out, a chapter   *)
(* of the story finds the session of its finding, and a dashboard that     *)
(* connects is not shown fewer packets than had been counted before.       *)
(***************************************************************************)
EXTENDS Reports, FiniteSetTheorems, SequenceTheorems, TLAPS

-----------------------------------------------------------------------------
(* The inductive invariant.                                                *)

Kinds == {"export", "story", "summary", "hello"}

\* Everything a handler does while it makes a report.
Names == Parts \cup {"flowCount", "sessionCount", "storyFindings", "storySessions",
                     "register", "sendStats"}

\* What one part of a report refers to in a part that is read after it.
Refers == {<<"packets", "maps">>, <<"flows", "sessions">>, <<"security", "store">>,
           <<"sessions", "store">>, <<"storyFindings", "storySessions">>}

\* What every report that does both does in this order.
Earlier(a, b) ==
    \/ <<a, b>> \in Refers
    \/ a = "register" /\ b = "packets"
    \/ a = "register" /\ b = "sendStats"
    \/ a = "packets" /\ b = "sendStats"

Ordered(s) ==
    \A i, j \in 1..Len(s) : (Earlier(s[i], s[j]) => i < j) /\ (s[i] = s[j] => i = j)

OnConnection(name) == name = "register" \/ name = "sendStats"

RepTypeOK ==
    /\ filter \in Filters /\ ingested \in Seq(Frames) /\ ahead \in Seq(Parts)
    /\ DOMAIN seen = Parts /\ \A p \in Parts : seen[p] \in Nat
    /\ kind \in [Handlers -> Kinds \cup {NoReport}]
    /\ wanted \in [Handlers -> Seq(Names)]
    /\ DOMAIN got = Handlers
    /\ \A h \in Handlers : \A n \in DOMAIN got[h] : got[h][n] \in Nat
    /\ DOMAIN cuts = Handlers
    /\ table \in Int /\ connectedAt \in Int

Behind(p) == \E i \in 1..Len(ahead) : ahead[i] = p

\* A part has seen every frame the filter shows, but for the one under way as
\* long as that has yet to get there.
SeenInv ==
    \A p \in Parts :
        /\ seen[p] <= Len(ingested)
        /\ \A n \in 1..Len(ingested) :
              Shown(n) /\ (n < Len(ingested) \/ ~Behind(p)) => n <= seen[p]

\* What a handler has yet to read comes in the order of its report and after
\* what it has read.
ReadInv ==
    \A h \in Handlers :
        /\ \A n \in DOMAIN got[h] : got[h][n] <= Len(ingested)
        /\ Ordered(wanted[h])
        /\ \A i \in 1..Len(wanted[h]) : \A b \in DOMAIN got[h] : ~Earlier(wanted[h][i], b)
        /\ kind[h] = NoReport => wanted[h] = <<>> /\ DOMAIN got[h] = {}
        /\ \A i \in 1..Len(wanted[h]) : OnConnection(wanted[h][i]) => kind[h] = "hello"
        /\ kind[h] = "hello" => \A o \in Handlers : kind[o] = "hello" => o = h

\* What a part refers to was read later, when at most the frame that was then
\* under way was missing.
LaterInv ==
    \A h \in Handlers : \A r \in Refers :
        r[1] \in DOMAIN got[h] /\ r[2] \in DOMAIN got[h] =>
            \A n \in 1..Len(ingested) :
                n < got[h][r[1]] /\ Shown(n) => n <= got[h][r[2]]

\* A list that was read has the largest of the keys there were.
CutInv ==
    \A h \in Handlers :
        /\ DOMAIN cuts[h] = DOMAIN got[h] \cap Lists
        /\ \A name \in DOMAIN cuts[h] :
              cuts[h][name] \in Largest(ListedFrom(name, got[h][name]), Limit(kind[h], name),
                                        got[h][name])

\* Nothing reaches the connection before it is registered, and what reaches it
\* was counted after that.
TableInv ==
    /\ connectedAt <= PacketsNow
    /\ (\A h \in Handlers : kind[h] # "hello") => table = -1 /\ connectedAt = -1
    /\ \A h \in Handlers : \A i \in 1..Len(wanted[h]) :
          wanted[h][i] = "register" => table = -1 /\ connectedAt = -1
    /\ \A h \in Handlers : kind[h] = "hello" =>
          /\ "packets" \in DOMAIN got[h] => connectedAt <= ShownUpTo(got[h]["packets"])
          /\ \A i \in 1..Len(wanted[h]) : wanted[h][i] = "sendStats" =>
                "packets" \in DOMAIN got[h] \/ \E j \in 1..Len(wanted[h]) : wanted[h][j] = "packets"
    /\ NewTableIsCurrent

RepInv == RepTypeOK /\ SeenInv /\ ReadInv /\ LaterInv /\ CutInv /\ TableInv
-----------------------------------------------------------------------------
(* Counting the frames that a filter shows.                                *)

Passing(s, e, x) == {n \in 1..x : Match(s[n], e)}

LEMMA PassingFinite ==
    ASSUME NEW s, NEW e, NEW x \in Nat
    PROVE  IsFiniteSet(Passing(s, e, x)) /\ Cardinality(Passing(s, e, x)) \in Nat
<1>1. IsFiniteSet(1..x)
  BY FS_Interval
<1>2. Passing(s, e, x) \in SUBSET (1..x)
  BY DEF Passing
<1> QED BY <1>1, <1>2, FS_Subset, FS_CardinalityType

\* More frames, at least as many of them shown.
LEMMA PassingMonotone ==
    ASSUME NEW s, NEW e, NEW x \in Nat, NEW y \in Nat, x <= y
    PROVE  Cardinality(Passing(s, e, x)) <= Cardinality(Passing(s, e, y))
<1>1. Passing(s, e, x) \in SUBSET Passing(s, e, y)
  <2>1. 1..x \subseteq 1..y
    OBVIOUS
  <2> QED BY <2>1 DEF Passing
<1> QED BY <1>1, PassingFinite, FS_Subset

\* Whoever has seen all the shown frames but the last counts one less at most.
LEMMA PassingAllButLast ==
    ASSUME NEW s, NEW e, NEW x \in Nat, NEW last \in Nat,
           \A n \in 1..last : Match(s[n], e) /\ n < last => n <= x
    PROVE  Cardinality(Passing(s, e, last)) <= Cardinality(Passing(s, e, x)) + 1
<1> DEFINE P == Passing(s, e, x)
           Q == Passing(s, e, last)
<1>1. IsFiniteSet(P) /\ Cardinality(P) \in Nat /\ Cardinality(Q) \in Nat
  BY PassingFinite
<1>2. Q \in SUBSET (P \cup {last})
  <2>1. ASSUME NEW n \in Q PROVE n \in P \cup {last}
    <3>1. n \in 1..last /\ Match(s[n], e)
      BY DEF Passing
    <3>2. CASE n < last
      <4>1. n <= x
        BY <3>1, <3>2
      <4>2. n \in 1..x
        BY <3>1, <4>1
      <4> QED BY <3>1, <4>2 DEF Passing
    <3>3. CASE ~(n < last)
      BY <3>1, <3>3
    <3> QED BY <3>2, <3>3
  <2> QED BY <2>1
<1> HIDE DEF P, Q
<1>3. /\ IsFiniteSet(P \cup {last})
      /\ Cardinality(P \cup {last}) = IF last \in P THEN Cardinality(P) ELSE Cardinality(P) + 1
  BY <1>1, FS_AddElement
<1>4. Cardinality(Q) <= Cardinality(P \cup {last})
  BY <1>2, <1>3, FS_Subset
<1>5. Cardinality(Q) <= Cardinality(P) + 1
  BY <1>1, <1>3, <1>4
<1> QED BY <1>5 DEF P, Q

LEMMA ShownUpToIsPassing ==
    \A x : ShownUpTo(x) = Cardinality(Passing(ingested, filter, x))
  BY DEF ShownUpTo, Passing, Shown

\* What was shown of the frames so far stays shown.
LEMMA PassingStays ==
    ASSUME RepTypeOK, [ReportsNext]_reportVars
    PROVE  /\ filter' = filter /\ Len(ingested) \in Nat /\ Len(ingested') \in Nat
           /\ Len(ingested) <= Len(ingested')
           /\ \A n \in 1..Len(ingested) : ingested'[n] = ingested[n] /\ Shown(n)' = Shown(n)
           /\ \A x \in Nat : x <= Len(ingested) =>
                 Passing(ingested', filter', x) = Passing(ingested, filter, x)
<1>1. Len(ingested) \in Nat /\ ingested \in Seq(Frames)
  BY LenProperties DEF RepTypeOK
<1>2. filter' = filter
  BY DEF ReportsNext, Ingest, Observe, BroadcastStats, BeginReport, ReportStep, reportVars,
     runVars
<1>3. /\ Len(ingested') \in Nat /\ Len(ingested) <= Len(ingested')
      /\ \A n \in 1..Len(ingested) : ingested'[n] = ingested[n]
  <2>1. CASE UNCHANGED ingested
    BY <1>1, <2>1
  <2>2. ASSUME NEW f \in Frames, Ingest(f)
        PROVE  <1>3
    <3>1. ingested' = Append(ingested, f)
      BY <2>2 DEF Ingest
    <3>2. /\ Len(ingested') = Len(ingested) + 1
          /\ \A n \in 1..Len(ingested) : ingested'[n] = ingested[n]
      BY <1>1, <3>1, AppendProperties
    <3> QED BY <1>1, <3>2
  <2> QED BY <2>1, <2>2 DEF ReportsNext, Observe, BroadcastStats, BeginReport, ReportStep,
          reportVars, runVars
<1>4. \A n \in 1..Len(ingested) : Shown(n)' = Shown(n)
  BY <1>2, <1>3 DEF Shown
<1>5. ASSUME NEW x \in Nat, x <= Len(ingested)
      PROVE  Passing(ingested', filter', x) = Passing(ingested, filter, x)
  <2>1. \A n \in 1..x : ingested'[n] = ingested[n]
    BY <1>1, <1>3, <1>5
  <2> QED BY <1>2, <2>1 DEF Passing
<1> QED BY <1>1, <1>2, <1>3, <1>4, <1>5

-----------------------------------------------------------------------------
(* The lists of flows and sessions, as functions of the frames and the     *)
(* filter: they do not change with the frames that come later.             *)

KeysOf(s, e, name, x) ==
    IF name = "flows"
    THEN {s[m].key : m \in {m \in 1..x : Match(s[m], e)}}
    ELSE {s[m].key : m \in {m \in 1..x : Match(s[m], e) /\ s[m].key.ip}}

Lengths(s, e, k, x) ==
    [m \in 1..x |-> IF Match(s[m], e) /\ s[m].key = k THEN s[m].length ELSE 0]

ListsOf(s, e, name, n, x) ==
    IF Cardinality(KeysOf(s, e, name, x)) <= n THEN {KeysOf(s, e, name, x)}
    ELSE {list \in SUBSET KeysOf(s, e, name, x) :
            /\ Cardinality(list) = n
            /\ \A k \in list, other \in KeysOf(s, e, name, x) \ list :
                  SumFunction(Lengths(s, e, k, x)) >= SumFunction(Lengths(s, e, other, x))}

LEMMA LargestIsListsOf ==
    \A name, n, x : Largest(ListedFrom(name, x), n, x) = ListsOf(ingested, filter, name, n, x)
<1> TAKE name, n, x
<1>1. ListedFrom(name, x) = KeysOf(ingested, filter, name, x)
  BY DEF ListedFrom, FlowsAt, SessionsAt, KeysOf, Shown
<1>2. \A k : BytesOf(k, x) = SumFunction(Lengths(ingested, filter, k, x))
  BY DEF BytesOf, Lengths, Shown
<1> QED BY <1>1, <1>2 DEF Largest, ListsOf

\* Two runs of frames that agree up to x make the same lists up to x.
LEMMA ListsAgree ==
    ASSUME NEW s, NEW t, NEW e, NEW x \in Nat, \A m \in 1..x : t[m] = s[m]
    PROVE  \A name, n : ListsOf(t, e, name, n, x) = ListsOf(s, e, name, n, x)
<1> TAKE name, n
<1>1. KeysOf(t, e, name, x) = KeysOf(s, e, name, x)
  BY DEF KeysOf
<1>2. \A k : Lengths(t, e, k, x) = Lengths(s, e, k, x)
  BY DEF Lengths
<1> QED BY <1>1, <1>2 DEF ListsOf

\* A key that a list leaves out is smaller than all that fill it.
LEMMA LeftOut ==
    ASSUME NEW h \in Handlers, NEW name, NEW k, NEW x, x = got[h][name],
           cuts[h][name] \in Largest(ListedFrom(name, x), Limit(kind[h], name), x),
           k \in ListedFrom(name, x)
    PROVE  k \in cuts[h][name] \/ CutShort(h, name, k)
  BY DEF Largest, CutShort

-----------------------------------------------------------------------------
(* The reports' own operators.                                             *)

\* Joining two literal sequences.
Joins(u, s, t) ==
    /\ Len(u) = Len(s) + Len(t)
    /\ \A i \in 1..Len(s) : u[i] = s[i]
    /\ \A i \in 1..Len(t) : u[Len(s) + i] = t[i]

LEMMA ConcatIs ==
    ASSUME NEW S, NEW s \in Seq(S), NEW t \in Seq(S), NEW u \in Seq(S),
           Joins(u, s, t)
    PROVE  s \o t = u
<1> USE DEF Joins
<1>1. /\ s \o t \in Seq(S) /\ Len(s \o t) = Len(s) + Len(t)
      /\ Len(s) \in Nat /\ Len(t) \in Nat
      /\ \A i \in 1..Len(s) + Len(t) :
            (s \o t)[i] = IF i <= Len(s) THEN s[i] ELSE t[i - Len(s)]
  BY ConcatProperties, LenProperties
<1>2. ASSUME NEW i \in 1..Len(s) + Len(t)
      PROVE  (s \o t)[i] = u[i]
  <2>1. CASE i <= Len(s)
    BY <1>1, <2>1
  <2>2. CASE ~(i <= Len(s))
    <3>1. i - Len(s) \in 1..Len(t) /\ Len(s) + (i - Len(s)) = i
      BY <1>1, <2>2
    <3> QED BY <1>1, <2>2, <3>1
  <2> QED BY <2>1, <2>2
<1> QED BY <1>1, <1>2, SeqEqual

LEMMA SummaryReads ==
    Summary = <<"packets", "bytes", "maps", "flowCount", "sessionCount", "security">>
<1> DEFINE s == <<"packets", "bytes", "maps">>
           t == <<"flowCount", "sessionCount", "security">>
           u == <<"packets", "bytes", "maps", "flowCount", "sessionCount", "security">>
<1>1. s \in Seq(Names) /\ t \in Seq(Names) /\ u \in Seq(Names)
  BY DEF Names, Parts
<1>2. Joins(u, s, t)
  BY SMTT(30) DEF Joins
<1> HIDE DEF s, t, u
<1>3. s \o t = u
  BY <1>1, <1>2, ConcatIs
<1> QED BY <1>3 DEF s, t, u, Summary, Stats

LEMMA ExportReads ==
    Export = <<"packets", "bytes", "maps", "flows", "security", "sessions",
               "storyFindings", "storySessions", "store">>
<1> DEFINE s == <<"packets", "bytes", "maps">>
           t == <<"flows", "security", "sessions">>
           u == <<"storyFindings", "storySessions">>
           v == <<"store">>
           st == <<"packets", "bytes", "maps", "flows", "security", "sessions">>
           stu == <<"packets", "bytes", "maps", "flows", "security", "sessions",
                    "storyFindings", "storySessions">>
           stuv == <<"packets", "bytes", "maps", "flows", "security", "sessions",
                     "storyFindings", "storySessions", "store">>
<1>1. /\ s \in Seq(Names) /\ t \in Seq(Names) /\ u \in Seq(Names) /\ v \in Seq(Names)
      /\ st \in Seq(Names) /\ stu \in Seq(Names) /\ stuv \in Seq(Names)
  BY DEF Names, Parts
<1>2. Joins(st, s, t)
  BY SMTT(30) DEF Joins
<1>3. Joins(stu, st, u)
  BY SMTT(30) DEF Joins
<1>4. Joins(stuv, stu, v)
  BY SMTT(30) DEF Joins
<1> HIDE DEF s, t, u, v, st, stu, stuv
<1>5. s \o t = st
  BY <1>1, <1>2, ConcatIs
<1>6. st \o u = stu
  BY <1>1, <1>3, ConcatIs
<1>7. stu \o v = stuv
  BY <1>1, <1>4, ConcatIs
<1>8. ((s \o t) \o u) \o v = stuv
  BY <1>5, <1>6, <1>7
<1> QED BY <1>8 DEF s, t, u, v, stuv, Export, Stats, Story

LEMMA HelloReads ==
    Hello = <<"register", "packets", "bytes", "maps", "sendStats", "sessions",
              "storyFindings", "storySessions">>
<1> DEFINE s == <<"register">>
           t == <<"packets", "bytes", "maps">>
           u == <<"sendStats", "sessions">>
           v == <<"storyFindings", "storySessions">>
           st == <<"register", "packets", "bytes", "maps">>
           stu == <<"register", "packets", "bytes", "maps", "sendStats", "sessions">>
           stuv == <<"register", "packets", "bytes", "maps", "sendStats", "sessions",
                     "storyFindings", "storySessions">>
<1>1. /\ s \in Seq(Names) /\ t \in Seq(Names) /\ u \in Seq(Names) /\ v \in Seq(Names)
      /\ st \in Seq(Names) /\ stu \in Seq(Names) /\ stuv \in Seq(Names)
  BY DEF Names, Parts
<1>2. Joins(st, s, t)
  BY SMTT(30) DEF Joins
<1>3. Joins(stu, st, u)
  BY SMTT(30) DEF Joins
<1>4. Joins(stuv, stu, v)
  BY SMTT(30) DEF Joins
<1> HIDE DEF s, t, u, v, st, stu, stuv
<1>5. s \o t = st
  BY <1>1, <1>2, ConcatIs
<1>6. st \o u = stu
  BY <1>1, <1>3, ConcatIs
<1>7. stu \o v = stuv
  BY <1>1, <1>4, ConcatIs
<1>8. ((s \o t) \o u) \o v = stuv
  BY <1>5, <1>6, <1>7
<1> QED BY <1>8 DEF s, t, u, v, stuv, Hello, Stats, Story

\* Every report reads in an order that Earlier allows; only a connection's
\* first messages have to do with the connection.
LEMMA ReadsForFacts ==
    ASSUME NEW k \in Kinds
    PROVE  /\ ReadsFor(k) \in Seq(Names)
           /\ Ordered(ReadsFor(k))
           /\ \A i \in 1..Len(ReadsFor(k)) : OnConnection(ReadsFor(k)[i]) => k = "hello"
           /\ k = "hello" => \E i \in 1..Len(ReadsFor(k)) : ReadsFor(k)[i] = "packets"
<1>1. CASE k = "export"
  <2> DEFINE s == <<"packets", "bytes", "maps", "flows", "security", "sessions",
                    "storyFindings", "storySessions", "store">>
  <2>1. ReadsFor(k) = s
    BY <1>1, ExportReads DEF ReadsFor
  <2>2. s \in Seq(Names)
    BY DEF Names, Parts
  <2>3. Ordered(s)
    BY DEF Ordered, Earlier, Refers
  <2>4. \A i \in 1..Len(s) : ~OnConnection(s[i])
    BY DEF OnConnection
  <2> HIDE DEF s
  <2> QED BY <1>1, <2>1, <2>2, <2>3, <2>4
<1>2. CASE k = "story"
  <2> DEFINE s == <<"storyFindings", "storySessions">>
  <2>1. ReadsFor(k) = s
    BY <1>2 DEF ReadsFor, Story
  <2>2. s \in Seq(Names)
    BY DEF Names, Parts
  <2>3. Ordered(s)
    BY DEF Ordered, Earlier, Refers
  <2>4. \A i \in 1..Len(s) : ~OnConnection(s[i])
    BY DEF OnConnection
  <2> HIDE DEF s
  <2> QED BY <1>2, <2>1, <2>2, <2>3, <2>4
<1>3. CASE k = "summary"
  <2> DEFINE s == <<"packets", "bytes", "maps", "flowCount", "sessionCount", "security">>
  <2>1. ReadsFor(k) = s
    BY <1>3, SummaryReads DEF ReadsFor
  <2>2. s \in Seq(Names)
    BY DEF Names, Parts
  <2>3. Ordered(s)
    BY DEF Ordered, Earlier, Refers
  <2>4. \A i \in 1..Len(s) : ~OnConnection(s[i])
    BY DEF OnConnection
  <2> HIDE DEF s
  <2> QED BY <1>3, <2>1, <2>2, <2>3, <2>4
<1>4. CASE k = "hello"
  <2> DEFINE s == <<"register", "packets", "bytes", "maps", "sendStats", "sessions",
                    "storyFindings", "storySessions">>
  <2>1. ReadsFor(k) = s
    BY <1>4, HelloReads DEF ReadsFor
  <2>2. s \in Seq(Names)
    BY DEF Names, Parts
  <2>3. Ordered(s)
    BY DEF Ordered, Earlier, Refers
  <2>4. \E i \in 1..Len(s) : s[i] = "packets"
    OBVIOUS
  <2> HIDE DEF s
  <2> QED BY <1>4, <2>1, <2>2, <2>3, <2>4
<1> QED BY <1>1, <1>2, <1>3, <1>4 DEF Kinds

\* Every part but the story's goes by its own name.
LEMMA PartOfFacts ==
    /\ \A p \in Parts : PartOf(p) = p
    /\ PartOf("storyFindings") = "security" /\ PartOf("storySessions") = "sessions"
    /\ \A name \in Lists : PartOf(name) \in Parts
    /\ \A r \in Refers : PartOf(r[2]) \in Parts
    /\ PartOf("register") \notin Parts /\ PartOf("sendStats") \notin Parts
  BY DEF PartOf, Parts, Lists, Refers
-----------------------------------------------------------------------------
(* What the steps do.                                                      *)

RunStep == (\E f \in Frames : Ingest(f)) \/ Observe \/ BroadcastStats

LEMMA ReportStepFacts ==
    ASSUME RepTypeOK, NEW h \in Handlers, ReportStep(h)
    PROVE  /\ Len(wanted[h]) \in Nat /\ 1 \in 1..Len(wanted[h])
           /\ UNCHANGED <<runVars, kind>>
           /\ wanted' \in [Handlers -> Seq(Names)]
           /\ \A o \in Handlers : o # h => wanted'[o] = wanted[o]
           /\ \A i \in 1..Len(wanted'[h]) :
                 i \in Nat /\ i + 1 \in 1..Len(wanted[h]) /\ wanted'[h][i] = wanted[h][i + 1]
           /\ \A i \in 1..Len(wanted[h]) : i # 1 => i - 1 \in 1..Len(wanted'[h])
           /\ \/ ReadPart(h, wanted[h][1])
              \/ RegisterTable(wanted[h][1])
              \/ SendStats(h, wanted[h][1])
<1>1. wanted \in [Handlers -> Seq(Names)] /\ wanted[h] \in Seq(Names) /\ wanted[h] # <<>>
  BY DEF RepTypeOK, ReportStep
<1>2. /\ Len(wanted[h]) \in Nat /\ Len(wanted[h]) # 0
      /\ Tail(wanted[h]) \in Seq(Names) /\ Len(Tail(wanted[h])) = Len(wanted[h]) - 1
      /\ \A i \in 1..Len(Tail(wanted[h])) : Tail(wanted[h])[i] = wanted[h][i + 1]
  BY <1>1, HeadTailProperties, LenProperties, EmptySeq
<1>3. Head(wanted[h]) = wanted[h][1]
  BY <1>1
<1>4. wanted' = [wanted EXCEPT ![h] = Tail(wanted[h])] /\ UNCHANGED <<runVars, kind>>
  BY DEF ReportStep
<1>5. /\ wanted'[h] = Tail(wanted[h]) /\ wanted' \in [Handlers -> Seq(Names)]
      /\ \A o \in Handlers : o # h => wanted'[o] = wanted[o]
  BY <1>1, <1>2, <1>4
<1>6. \A i \in 1..Len(wanted'[h]) :
         i \in Nat /\ i + 1 \in 1..Len(wanted[h]) /\ wanted'[h][i] = wanted[h][i + 1]
  BY <1>2, <1>5
<1>7. \A i \in 1..Len(wanted[h]) : i # 1 => i - 1 \in 1..Len(wanted'[h])
  BY <1>2, <1>5
<1>8. 1 \in 1..Len(wanted[h])
  BY <1>2
<1>9. \/ ReadPart(h, Head(wanted[h])) \/ RegisterTable(Head(wanted[h]))
      \/ SendStats(h, Head(wanted[h]))
  BY DEF ReportStep
<1> QED BY <1>2, <1>3, <1>4, <1>5, <1>6, <1>7, <1>8, <1>9

LEMMA ReadPartFacts ==
    ASSUME RepTypeOK, NEW h \in Handlers, NEW name \in Names, ReadPart(h, name)
    PROVE  /\ UNCHANGED tableVars
           /\ PartOf(name) \in Parts
           /\ DOMAIN got' = Handlers
           /\ \A o \in Handlers : o # h => got'[o] = got[o]
           /\ DOMAIN got'[h] = DOMAIN got[h] \cup {name}
           /\ got'[h][name] = seen[PartOf(name)] /\ seen[PartOf(name)] \in Nat
           /\ \A n \in DOMAIN got[h] : n # name => got'[h][n] = got[h][n]
           /\ DOMAIN cuts' = Handlers
           /\ \A o \in Handlers : o # h => cuts'[o] = cuts[o]
<1>1. DOMAIN got = Handlers /\ DOMAIN cuts = Handlers
  BY DEF RepTypeOK
<1>2. /\ got' = [got EXCEPT ![h] = With(got[h], name, seen[PartOf(name)])]
      /\ PartOf(name) \in Parts /\ UNCHANGED tableVars
  BY DEF ReadPart
<1>3. /\ got'[h] = With(got[h], name, seen[PartOf(name)]) /\ DOMAIN got' = Handlers
      /\ \A o \in Handlers : o # h => got'[o] = got[o]
  BY <1>1, <1>2
<1>4. seen[PartOf(name)] \in Nat
  BY <1>2 DEF RepTypeOK
<1>5. cuts' = cuts \/ \E list : cuts' = [cuts EXCEPT ![h] = With(cuts[h], name, list)]
  BY DEF ReadPart
<1>6. /\ DOMAIN cuts' = Handlers
      /\ \A o \in Handlers : o # h => cuts'[o] = cuts[o]
  BY <1>1, <1>5
<1> QED BY <1>2, <1>3, <1>4, <1>6 DEF With

\* Only the lists of flows and sessions are cut.
LEMMA ReadListFacts ==
    ASSUME RepTypeOK, NEW h \in Handlers, NEW name \in Names, ReadPart(h, name),
           NEW x, x = seen[PartOf(name)]
    PROVE  /\ name \in Lists =>
                 /\ DOMAIN cuts'[h] = DOMAIN cuts[h] \cup {name}
                 /\ cuts'[h][name] \in Largest(ListedFrom(name, x), Limit(kind[h], name), x)
                 /\ \A n \in DOMAIN cuts[h] : n # name => cuts'[h][n] = cuts[h][n]
           /\ name \notin Lists => cuts' = cuts
<1>1. DOMAIN cuts = Handlers
  BY DEF RepTypeOK
<1>2. CASE name \in Lists
  <2>1. PICK list \in Largest(ListedFrom(name, x), Limit(kind[h], name), x) :
              cuts' = [cuts EXCEPT ![h] = With(cuts[h], name, list)]
    BY <1>2 DEF ReadPart
  <2>2. cuts'[h] = With(cuts[h], name, list)
    BY <1>1, <2>1
  <2>3. DOMAIN cuts'[h] = DOMAIN cuts[h] \cup {name} /\ cuts'[h][name] = list
    BY <2>2 DEF With
  <2>4. \A n \in DOMAIN cuts[h] : n # name => cuts'[h][n] = cuts[h][n]
    BY <2>2 DEF With
  <2> QED BY <1>2, <2>1, <2>3, <2>4
<1>3. CASE name \notin Lists
  BY <1>3 DEF ReadPart
<1> QED BY <1>2, <1>3

LEMMA RunLeavesReports ==
    ASSUME RunStep \/ UNCHANGED reportVars
    PROVE  UNCHANGED handlerVars
  BY DEF RunStep, Ingest, Observe, BroadcastStats, reportVars

\* Only a reading changes what has been read.
LEMMA StepReads ==
    ASSUME RepTypeOK, [ReportsNext]_reportVars
    PROVE  \/ UNCHANGED <<got, cuts>>
           \/ \E o \in Handlers : ReportStep(o) /\ ReadPart(o, wanted[o][1])
<1>1. CASE RunStep \/ UNCHANGED reportVars
  BY <1>1, RunLeavesReports DEF handlerVars
<1>2. ASSUME NEW o \in Handlers, BeginReport(o)
      PROVE  UNCHANGED <<got, cuts>>
  BY <1>2 DEF BeginReport
<1>3. ASSUME NEW o \in Handlers, ReportStep(o), ~ReadPart(o, wanted[o][1])
      PROVE  UNCHANGED <<got, cuts>>
  BY <1>3, ReportStepFacts DEF RegisterTable, SendStats
<1> QED BY <1>1, <1>2, <1>3 DEF ReportsNext, RunStep

\* The stats that are sent to a connection have been read.
LEMMA SentStatsWereRead ==
    ASSUME RepInv, NEW h \in Handlers, ReportStep(h), SendStats(h, wanted[h][1])
    PROVE  /\ kind[h] = "hello" /\ wanted[h][1] = "sendStats"
           /\ "packets" \in DOMAIN got[h] /\ got[h]["packets"] \in Nat
<1>1. 1 \in 1..Len(wanted[h]) /\ wanted[h][1] = "sendStats" /\ Len(wanted[h]) \in Nat
  BY ReportStepFacts DEF RepInv, SendStats
<1>2. kind[h] = "hello"
  BY <1>1 DEF RepInv, ReadInv, OnConnection
<1>3. ASSUME NEW j \in 1..Len(wanted[h]), wanted[h][j] = "packets"
      PROVE  FALSE
  <2>1. j < 1
    BY <1>1, <1>3 DEF RepInv, ReadInv, Ordered, Earlier, Refers
  <2> QED BY <1>1, <2>1
<1>4. "packets" \in DOMAIN got[h]
  BY <1>1, <1>2, <1>3 DEF RepInv, TableInv
<1> QED BY <1>1, <1>2, <1>4 DEF RepInv, RepTypeOK

-----------------------------------------------------------------------------
(* Every step preserves the invariant.                                     *)

LEMMA RepTypeStep ==
    ASSUME RepInv, [ReportsNext]_reportVars
    PROVE  RepTypeOK'
<1>0. RepTypeOK
  BY DEF RepInv
<1>1. ASSUME NEW f \in Frames, Ingest(f)
      PROVE  RepTypeOK'
  <2>1. ingested' \in Seq(Frames)
    BY <1>0, <1>1, AppendProperties DEF RepTypeOK, Ingest
  <2>2. Way(TRUE) \in Seq(Parts) /\ Way(FALSE) \in Seq(Parts)
    BY DEF Way, Parts
  <2>3. ahead' \in Seq(Parts)
    <3>1. ahead' = Way(Match(f, filter))
      BY <1>1 DEF Ingest
    <3> QED BY <2>2, <3>1 DEF Way
  <2>4. UNCHANGED <<filter, seen, kind, wanted, got, cuts, table, connectedAt>>
    BY <1>1 DEF Ingest, handlerVars, tableVars
  <2> QED BY <1>0, <2>1, <2>3, <2>4 DEF RepTypeOK
<1>2. CASE Observe
  <2>1. /\ ahead # <<>> /\ ahead \in Seq(Parts) /\ ingested \in Seq(Frames)
        /\ DOMAIN seen = Parts /\ \A p \in Parts : seen[p] \in Nat
        /\ seen' = [seen EXCEPT ![Head(ahead)] = Len(ingested)] /\ ahead' = Tail(ahead)
    BY <1>0, <1>2 DEF RepTypeOK, Observe
  <2>2. ahead' \in Seq(Parts) /\ Len(ingested) \in Nat
    BY <2>1, HeadTailProperties, LenProperties
  <2>3. DOMAIN seen' = Parts /\ \A p \in Parts : seen'[p] \in Nat
    BY <2>1, <2>2
  <2>4. UNCHANGED <<filter, ingested, kind, wanted, got, cuts, table, connectedAt>>
    BY <1>2 DEF Observe, handlerVars, tableVars
  <2> QED BY <1>0, <2>2, <2>3, <2>4 DEF RepTypeOK
<1>3. CASE BroadcastStats
  <2>1. seen["packets"] \in Nat
    BY <1>0 DEF RepTypeOK, Parts
  <2>2. PacketsNow \in Nat
    BY <2>1, ShownUpToIsPassing, PassingFinite DEF PacketsNow
  <2>3. UNCHANGED <<filter, ingested, ahead, seen, kind, wanted, got, cuts, connectedAt>>
    BY <1>3 DEF BroadcastStats, handlerVars
  <2>4. table' = PacketsNow \/ table' = table
    BY <1>3 DEF BroadcastStats
  <2>5. table' \in Int
    BY <1>0, <2>2, <2>4 DEF RepTypeOK
  <2> QED BY <1>0, <2>3, <2>5 DEF RepTypeOK
<1>4. ASSUME NEW h \in Handlers, BeginReport(h)
      PROVE  RepTypeOK'
  <2>1. PICK k \in Kinds : kind' = [kind EXCEPT ![h] = k]
                           /\ wanted' = [wanted EXCEPT ![h] = ReadsFor(k)]
    BY <1>4 DEF BeginReport, Kinds
  <2>2. ReadsFor(k) \in Seq(Names)
    BY ReadsForFacts
  <2>3. wanted' \in [Handlers -> Seq(Names)] /\ kind' \in [Handlers -> Kinds \cup {NoReport}]
    BY <1>0, <2>1, <2>2 DEF RepTypeOK
  <2>4. UNCHANGED <<filter, ingested, ahead, seen, got, cuts, table, connectedAt>>
    BY <1>4 DEF BeginReport, runVars, tableVars
  <2> QED BY <1>0, <2>3, <2>4 DEF RepTypeOK
<1>5. ASSUME NEW h \in Handlers, ReportStep(h)
      PROVE  RepTypeOK'
  <2>1. /\ UNCHANGED <<filter, ingested, ahead, seen, kind>>
        /\ wanted' \in [Handlers -> Seq(Names)]
        /\ wanted[h][1] \in Names
    BY <1>0, <1>5, ReportStepFacts, ElementOfSeq DEF runVars, RepTypeOK
  <2>2. CASE ReadPart(h, wanted[h][1])
    <3>1. /\ UNCHANGED tableVars /\ DOMAIN got' = Handlers /\ DOMAIN cuts' = Handlers
          /\ \A o \in Handlers : o # h => got'[o] = got[o]
          /\ DOMAIN got'[h] = DOMAIN got[h] \cup {wanted[h][1]}
          /\ got'[h][wanted[h][1]] \in Nat
          /\ \A n \in DOMAIN got[h] : n # wanted[h][1] => got'[h][n] = got[h][n]
      BY <1>0, <2>1, <2>2, ReadPartFacts
    <3>2. \A o \in Handlers : \A n \in DOMAIN got'[o] : got'[o][n] \in Nat
      BY <1>0, <3>1 DEF RepTypeOK
    <3> QED BY <1>0, <2>1, <3>1, <3>2 DEF RepTypeOK, tableVars
  <2>3. CASE RegisterTable(wanted[h][1])
    <3>1. seen["packets"] \in Nat
      BY <1>0 DEF RepTypeOK, Parts
    <3>2. connectedAt' \in Nat /\ UNCHANGED <<got, cuts, table>>
      BY <2>3, <3>1, ShownUpToIsPassing, PassingFinite DEF RegisterTable, PacketsNow
    <3> QED BY <1>0, <2>1, <3>2 DEF RepTypeOK
  <2>4. CASE SendStats(h, wanted[h][1])
    <3>1. table' = ShownUpTo(got[h]["packets"]) /\ UNCHANGED <<got, cuts, connectedAt>>
      BY <2>4 DEF SendStats
    <3>2. got[h]["packets"] \in Nat
      BY <1>5, <2>4, SentStatsWereRead
    <3>3. table' \in Nat
      BY <3>1, <3>2, ShownUpToIsPassing, PassingFinite
    <3> QED BY <1>0, <2>1, <3>1, <3>3 DEF RepTypeOK
  <2> QED BY <1>0, <1>5, <2>2, <2>3, <2>4, ReportStepFacts
<1>6. CASE UNCHANGED reportVars
  BY <1>0, <1>6 DEF RepTypeOK, reportVars, runVars, handlerVars, tableVars
<1> QED BY <1>1, <1>2, <1>3, <1>4, <1>5, <1>6 DEF ReportsNext
LEMMA SeenStep ==
    ASSUME RepInv, [ReportsNext]_reportVars
    PROVE  SeenInv'
<1>0. /\ RepTypeOK /\ SeenInv /\ ingested \in Seq(Frames) /\ Len(ingested) \in Nat
      /\ ahead \in Seq(Parts) /\ Len(ahead) \in Nat
  BY LenProperties DEF RepInv, RepTypeOK
<1>1. ASSUME NEW f \in Frames, Ingest(f)
      PROVE  SeenInv'
  <2>1. /\ ahead = <<>> /\ ingested' = Append(ingested, f) /\ ahead' = Way(Match(f, filter))
        /\ seen' = seen /\ filter' = filter
    BY <1>1 DEF Ingest
  <2>2. /\ Len(ingested') = Len(ingested) + 1 /\ ingested'[Len(ingested) + 1] = f
        /\ \A n \in 1..Len(ingested) : ingested'[n] = ingested[n]
    BY <1>0, <2>1, AppendProperties
  <2>3. \A p \in Parts : ~Behind(p)
    BY <2>1, EmptySeq DEF Behind
  <2>4. Match(f, filter) => \A p \in Parts : Behind(p)'
    <3> SUFFICES ASSUME Match(f, filter), NEW p \in Parts
                 PROVE  \E i \in 1..Len(ahead') : ahead'[i] = p
      BY DEF Behind
    <3>1. ahead' = <<"security", "packets", "bytes", "maps", "flows", "sessions", "store">>
      BY <2>1 DEF Way
    <3> QED BY <3>1 DEF Parts
  <2>5. ASSUME NEW p \in Parts, NEW n \in 1..Len(ingested'), Shown(n)',
               n < Len(ingested') \/ ~Behind(p)'
        PROVE  n <= seen'[p]
    <3>1. CASE n = Len(ingested) + 1
      BY <1>0, <2>1, <2>2, <2>4, <2>5, <3>1 DEF Shown
    <3>2. CASE n # Len(ingested) + 1
      <4>1. n \in 1..Len(ingested)
        BY <1>0, <2>2, <3>2
      <4>2. Shown(n)
        BY <2>1, <2>2, <2>5, <4>1 DEF Shown
      <4> QED BY <1>0, <2>1, <2>3, <4>1, <4>2 DEF SeenInv
    <3> QED BY <3>1, <3>2
  <2>6. \A p \in Parts : seen'[p] <= Len(ingested')
    BY <1>0, <2>1, <2>2 DEF SeenInv, RepTypeOK
  <2> QED BY <2>5, <2>6 DEF SeenInv
<1>2. CASE Observe
  <2>1. /\ ahead # <<>> /\ seen' = [seen EXCEPT ![Head(ahead)] = Len(ingested)]
        /\ ahead' = Tail(ahead) /\ ingested' = ingested /\ filter' = filter
    BY <1>2 DEF Observe
  <2>2. /\ Head(ahead) = ahead[1] /\ Len(Tail(ahead)) = Len(ahead) - 1
        /\ \A i \in 1..Len(Tail(ahead)) : Tail(ahead)[i] = ahead[i + 1]
    BY <1>0, <2>1, HeadTailProperties
  <2>3. ASSUME NEW p \in Parts, p # ahead[1], Behind(p)
        PROVE  Behind(p)'
    <3>1. PICK i \in 1..Len(ahead) : ahead[i] = p
      BY <2>3 DEF Behind
    <3>2. i - 1 \in 1..Len(Tail(ahead)) /\ i - 1 + 1 = i
      BY <1>0, <2>2, <2>3, <3>1
    <3>3. Tail(ahead)[i - 1] = p
      BY <2>2, <3>1, <3>2
    <3> QED BY <2>1, <3>2, <3>3 DEF Behind
  <2>4. \A p \in Parts : seen'[p] = IF p = ahead[1] THEN Len(ingested) ELSE seen[p]
    BY <1>0, <2>1, <2>2 DEF RepTypeOK
  <2>5. ASSUME NEW p \in Parts, NEW n \in 1..Len(ingested), Shown(n),
               n < Len(ingested) \/ ~Behind(p)'
        PROVE  n <= seen'[p]
    <3>1. CASE p = ahead[1]
      BY <1>0, <2>4, <3>1
    <3>2. CASE p # ahead[1]
      BY <1>0, <2>3, <2>4, <2>5, <3>2 DEF SeenInv
    <3> QED BY <3>1, <3>2
  <2>6. ASSUME NEW p \in Parts
        PROVE  seen'[p] <= Len(ingested)
    <3>1. seen[p] <= Len(ingested)
      BY <1>0 DEF SeenInv
    <3> QED BY <1>0, <2>4, <3>1
  <2>7. \A n : Shown(n)' = Shown(n)
    BY <2>1 DEF Shown
  <2> QED BY <2>1, <2>5, <2>6, <2>7 DEF SeenInv
<1>3. CASE UNCHANGED <<filter, ingested, ahead, seen>>
  BY <1>0, <1>3 DEF SeenInv, Shown, Behind
<1>4. BroadcastStats \/ (\E h \in Handlers : BeginReport(h) \/ ReportStep(h))
         \/ UNCHANGED reportVars => UNCHANGED <<filter, ingested, ahead, seen>>
  BY DEF BroadcastStats, BeginReport, ReportStep, reportVars, runVars
<1> QED BY <1>1, <1>2, <1>3, <1>4 DEF ReportsNext

\* Nobody is further than one shown frame behind.
LEMMA SeenAllButLast ==
    ASSUME RepTypeOK, SeenInv, NEW p \in Parts
    PROVE  /\ Len(ingested) \in Nat /\ seen[p] \in Nat /\ seen[p] <= Len(ingested)
           /\ ShownUpTo(Len(ingested)) \in Nat /\ ShownUpTo(seen[p]) \in Nat
           /\ ShownUpTo(Len(ingested)) <= ShownUpTo(seen[p]) + 1
<1>1. Len(ingested) \in Nat /\ seen[p] \in Nat /\ seen[p] <= Len(ingested)
  BY LenProperties DEF RepTypeOK, SeenInv
<1>2. \A n \in 1..Len(ingested) : Match(ingested[n], filter) /\ n < Len(ingested) => n <= seen[p]
  BY DEF SeenInv, Shown
<1> QED BY <1>1, <1>2, PassingAllButLast, PassingFinite, ShownUpToIsPassing

LEMMA ReadStep ==
    ASSUME RepInv, [ReportsNext]_reportVars
    PROVE  ReadInv'
<1>0. /\ RepTypeOK /\ SeenInv /\ ReadInv
      /\ Len(ingested) \in Nat /\ Len(ingested') \in Nat /\ Len(ingested) <= Len(ingested')
  BY PassingStays DEF RepInv
<1>1. CASE RunStep \/ UNCHANGED reportVars
  <2>1. UNCHANGED <<kind, wanted, got>>
    BY <1>1, RunLeavesReports DEF handlerVars
  <2>2. ASSUME NEW h \in Handlers, NEW n \in DOMAIN got[h]
        PROVE  got[h][n] <= Len(ingested')
    <3>1. got[h][n] \in Nat /\ got[h][n] <= Len(ingested)
      BY <1>0, <2>2 DEF RepTypeOK, ReadInv
    <3> QED BY <1>0, <3>1
  <2> QED BY <1>0, <2>1, <2>2 DEF ReadInv, Ordered
<1>2. ASSUME NEW h \in Handlers, BeginReport(h)
      PROVE  ReadInv'
  <2>1. PICK k \in Kinds : /\ k = "hello" => \A o \in Handlers : kind[o] # "hello"
                           /\ kind' = [kind EXCEPT ![h] = k]
                           /\ wanted' = [wanted EXCEPT ![h] = ReadsFor(k)]
    BY <1>2 DEF BeginReport, Kinds
  <2>2. /\ kind[h] = NoReport /\ wanted[h] = <<>> /\ DOMAIN got[h] = {}
        /\ UNCHANGED <<ingested, got>>
    BY <1>0, <1>2 DEF BeginReport, runVars, ReadInv
  <2>3. /\ kind'[h] = k /\ wanted'[h] = ReadsFor(k)
        /\ \A o \in Handlers : o # h => kind'[o] = kind[o] /\ wanted'[o] = wanted[o]
    BY <1>0, <2>1 DEF RepTypeOK
  <2>4. k # NoReport
    BY DEF Kinds, NoReport
  <2>5. /\ Ordered(wanted'[h])
        /\ \A i \in 1..Len(wanted'[h]) : OnConnection(wanted'[h][i]) => kind'[h] = "hello"
    BY <2>3, ReadsForFacts
  <2>6. \A o, q \in Handlers : kind'[o] = "hello" /\ kind'[q] = "hello" => q = o
    BY <1>0, <2>1, <2>3 DEF ReadInv
  <2>7. ASSUME NEW o \in Handlers
        PROVE  /\ \A n \in DOMAIN got'[o] : got'[o][n] <= Len(ingested')
               /\ Ordered(wanted'[o])
               /\ \A i \in 1..Len(wanted'[o]) : \A b \in DOMAIN got'[o] :
                     ~Earlier(wanted'[o][i], b)
               /\ kind'[o] = NoReport => wanted'[o] = <<>> /\ DOMAIN got'[o] = {}
               /\ \A i \in 1..Len(wanted'[o]) :
                     OnConnection(wanted'[o][i]) => kind'[o] = "hello"
    <3>1. CASE o = h
      BY <2>2, <2>3, <2>4, <2>5, <3>1
    <3>2. CASE o # h
      BY <1>0, <2>2, <2>3, <3>2 DEF ReadInv
    <3> QED BY <3>1, <3>2
  <2> QED BY <2>6, <2>7 DEF ReadInv, Ordered
<1>3. ASSUME NEW h \in Handlers, ReportStep(h)
      PROVE  ReadInv'
  <2> DEFINE name == wanted[h][1]
  <2>1. /\ Len(wanted[h]) \in Nat /\ 1 \in 1..Len(wanted[h])
        /\ UNCHANGED <<ingested, kind>>
        /\ \A o \in Handlers : o # h => wanted'[o] = wanted[o]
        /\ \A i \in 1..Len(wanted'[h]) :
              i \in Nat /\ i + 1 \in 1..Len(wanted[h]) /\ wanted'[h][i] = wanted[h][i + 1]
        /\ name \in Names
    BY <1>0, <1>3, ReportStepFacts, ElementOfSeq DEF runVars, RepTypeOK
  <2>2. /\ Ordered(wanted'[h])
        /\ \A i \in 1..Len(wanted'[h]) : OnConnection(wanted'[h][i]) => kind[h] = "hello"
        /\ \A i \in 1..Len(wanted'[h]) : \A b \in DOMAIN got[h] : ~Earlier(wanted'[h][i], b)
    BY <1>0, <2>1 DEF ReadInv, Ordered
  <2>3. kind[h] # NoReport
    <3>1. wanted[h] # <<>>
      BY <1>3 DEF ReportStep
    <3> QED BY <1>0, <3>1 DEF ReadInv
  <2>4. \A i \in 1..Len(wanted'[h]) : ~Earlier(wanted'[h][i], name)
    <3> TAKE i \in 1..Len(wanted'[h])
    <3>1. Earlier(wanted[h][i + 1], wanted[h][1]) => i + 1 < 1
      BY <1>0, <2>1 DEF ReadInv, Ordered
    <3>2. i \in Nat /\ ~(i + 1 < 1)
      BY <2>1
    <3> QED BY <2>1, <3>1, <3>2
  <2>5. /\ \A o \in Handlers : o # h => got'[o] = got[o]
        /\ DOMAIN got'[h] \subseteq DOMAIN got[h] \cup {name}
        /\ \A n \in DOMAIN got'[h] : got'[h][n] <= Len(ingested)
    <3>1. CASE ReadPart(h, name)
      <4>1. /\ PartOf(name) \in Parts
            /\ \A o \in Handlers : o # h => got'[o] = got[o]
            /\ DOMAIN got'[h] = DOMAIN got[h] \cup {name}
            /\ got'[h][name] = seen[PartOf(name)]
            /\ \A n \in DOMAIN got[h] : n # name => got'[h][n] = got[h][n]
        BY <1>0, <2>1, <3>1, ReadPartFacts
      <4>2. seen[PartOf(name)] <= Len(ingested)
        BY <1>0, <4>1 DEF SeenInv
      <4>3. \A n \in DOMAIN got[h] : got[h][n] <= Len(ingested)
        BY <1>0 DEF ReadInv
      <4> QED BY <4>1, <4>2, <4>3
    <3>2. CASE UNCHANGED got
      BY <1>0, <3>2 DEF ReadInv
    <3>3. ReadPart(h, name) \/ UNCHANGED got
      BY <1>0, <1>3, ReportStepFacts DEF RegisterTable, SendStats
    <3> QED BY <3>1, <3>2, <3>3
  <2> HIDE DEF name
  <2>6. ASSUME NEW o \in Handlers
        PROVE  /\ \A n \in DOMAIN got'[o] : got'[o][n] <= Len(ingested')
               /\ Ordered(wanted'[o])
               /\ \A i \in 1..Len(wanted'[o]) : \A b \in DOMAIN got'[o] :
                     ~Earlier(wanted'[o][i], b)
               /\ kind'[o] = NoReport => wanted'[o] = <<>> /\ DOMAIN got'[o] = {}
               /\ \A i \in 1..Len(wanted'[o]) :
                     OnConnection(wanted'[o][i]) => kind'[o] = "hello"
    <3>1. CASE o = h
      BY <2>1, <2>2, <2>3, <2>4, <2>5, <3>1
    <3>2. CASE o # h
      BY <1>0, <2>1, <2>5, <3>2 DEF ReadInv
    <3> QED BY <3>1, <3>2
  <2> QED BY <1>0, <2>1, <2>6 DEF ReadInv, Ordered
<1> QED BY <1>1, <1>2, <1>3 DEF ReportsNext, RunStep
\* What a part refers to is read after it.
LEMMA RefersFacts ==
    \A r \in Refers : Earlier(r[1], r[2]) /\ r[1] # r[2] /\ r = <<r[1], r[2]>>
  BY DEF Refers, Earlier

LEMMA LaterStep ==
    ASSUME RepInv, [ReportsNext]_reportVars
    PROVE  LaterInv'
<1>0. /\ RepTypeOK /\ SeenInv /\ ReadInv /\ LaterInv
      /\ Len(ingested) \in Nat /\ Len(ingested') \in Nat /\ Len(ingested) <= Len(ingested')
      /\ \A n \in 1..Len(ingested) : Shown(n)' = Shown(n)
  BY PassingStays DEF RepInv
<1>1. SUFFICES ASSUME NEW h \in Handlers, NEW r \in Refers,
                      r[1] \in DOMAIN got'[h], r[2] \in DOMAIN got'[h],
                      NEW n \in 1..Len(ingested'), n < got'[h][r[1]], Shown(n)'
               PROVE  n <= got'[h][r[2]]
  BY DEF LaterInv
<1>2. CASE UNCHANGED <<got>>
  <2>1. got[h][r[1]] \in Nat /\ got[h][r[1]] <= Len(ingested)
    BY <1>0, <1>1, <1>2 DEF RepTypeOK, ReadInv
  <2>2. n \in 1..Len(ingested)
    BY <1>0, <1>1, <1>2, <2>1
  <2> QED BY <1>0, <1>1, <1>2, <2>2 DEF LaterInv
<1>3. ASSUME NEW o \in Handlers, ReportStep(o), ReadPart(o, wanted[o][1])
      PROVE  n <= got'[h][r[2]]
  <2> DEFINE name == wanted[o][1]
  <2>1. 1 \in 1..Len(wanted[o]) /\ name \in Names /\ UNCHANGED <<ingested, filter>>
    BY <1>0, <1>3, ReportStepFacts, ElementOfSeq DEF RepTypeOK, runVars
  <2>2. /\ got'[o][name] = seen[PartOf(name)]
        /\ DOMAIN got'[o] = DOMAIN got[o] \cup {name}
        /\ \A k \in DOMAIN got[o] : k # name => got'[o][k] = got[o][k]
        /\ \A q \in Handlers : q # o => got'[q] = got[q]
    BY <1>0, <1>3, <2>1, ReadPartFacts
  <2>3. \A b \in DOMAIN got[o] : ~Earlier(name, b)
    BY <1>0, <2>1 DEF ReadInv
  <2>4. n \in 1..Len(ingested) /\ Shown(n)
    BY <1>0, <1>1, <2>1
  <2> HIDE DEF name
  <2>5. CASE h # o
    BY <1>0, <1>1, <2>2, <2>4, <2>5 DEF LaterInv
  <2>6. CASE h = o /\ name = r[1]
    <3>1. r[2] \in DOMAIN got[o] /\ Earlier(name, r[2])
      BY <1>1, <2>2, <2>6, RefersFacts
    <3> QED BY <2>3, <3>1
  <2>7. CASE h = o /\ name = r[2] /\ name # r[1]
    <3>1. r[1] \in DOMAIN got[o] /\ got'[o][r[1]] = got[o][r[1]]
      BY <1>1, <2>2, <2>7
    <3>2. got[o][r[1]] \in Nat /\ got[o][r[1]] <= Len(ingested)
      BY <1>0, <3>1 DEF RepTypeOK, ReadInv
    <3>3. n < Len(ingested)
      BY <1>0, <1>1, <2>4, <2>7, <3>1, <3>2
    <3>4. got'[o][r[2]] = seen[PartOf(r[2])] /\ PartOf(r[2]) \in Parts
      BY <2>2, <2>7, PartOfFacts
    <3> QED BY <1>0, <2>4, <2>7, <3>3, <3>4 DEF SeenInv
  <2>8. CASE h = o /\ name # r[1] /\ name # r[2]
    <3>1. /\ r[1] \in DOMAIN got[o] /\ r[2] \in DOMAIN got[o]
          /\ got'[o][r[1]] = got[o][r[1]] /\ got'[o][r[2]] = got[o][r[2]]
      BY <1>1, <2>2, <2>8
    <3> QED BY <1>0, <1>1, <2>4, <2>8, <3>1 DEF LaterInv
  <2> QED BY <2>5, <2>6, <2>7, <2>8
<1>4. \/ UNCHANGED <<got>>
      \/ \E o \in Handlers : ReportStep(o) /\ ReadPart(o, wanted[o][1])
  BY <1>0, StepReads
<1> QED BY <1>2, <1>3, <1>4

\* A list that was read stays what it was, and a new one is cut as List does.
LEMMA CutStep ==
    ASSUME RepInv, [ReportsNext]_reportVars
    PROVE  CutInv'
<1> DEFINE S(h, name) == ListsOf(ingested, filter, name, Limit(kind[h], name), got[h][name])
           T(h, name) == ListsOf(ingested', filter', name, Limit(kind'[h], name), got'[h][name])
<1>0. /\ RepTypeOK /\ SeenInv /\ ReadInv /\ CutInv /\ filter' = filter
      /\ Len(ingested) \in Nat /\ \A n \in 1..Len(ingested) : ingested'[n] = ingested[n]
  BY PassingStays DEF RepInv
<1>1. \A h \in Handlers :
         /\ DOMAIN cuts[h] = DOMAIN got[h] \cap Lists
         /\ \A name \in DOMAIN cuts[h] : cuts[h][name] \in S(h, name)
  BY <1>0, LargestIsListsOf DEF CutInv
<1>2. ASSUME \A h \in Handlers :
                /\ DOMAIN cuts'[h] = DOMAIN got'[h] \cap Lists
                /\ \A name \in DOMAIN cuts'[h] : cuts'[h][name] \in T(h, name)
      PROVE  CutInv'
  <2>1. ASSUME NEW name, NEW n, NEW x
        PROVE  Largest(ListedFrom(name, x), n, x)' = ListsOf(ingested', filter', name, n, x)
    <3>1. ListedFrom(name, x)' = KeysOf(ingested', filter', name, x)
      BY DEF ListedFrom, FlowsAt, SessionsAt, KeysOf, Shown
    <3>2. \A k : BytesOf(k, x)' = SumFunction(Lengths(ingested', filter', k, x))
      BY DEF BytesOf, Lengths, Shown
    <3> QED BY <3>1, <3>2 DEF Largest, ListsOf
  <2> QED BY <1>2, <2>1 DEF CutInv
<1>3. ASSUME NEW h \in Handlers, NEW name \in DOMAIN got[h],
             name \in DOMAIN got'[h], got'[h][name] = got[h][name], kind'[h] = kind[h]
      PROVE  T(h, name) = S(h, name)
  <2> DEFINE x == got[h][name]
  <2>1. x \in Nat /\ x <= Len(ingested)
    BY <1>0 DEF RepTypeOK, ReadInv
  <2>2. \A m \in 1..x : ingested'[m] = ingested[m]
    BY <1>0, <2>1
  <2> HIDE DEF x
  <2>3. ListsOf(ingested', filter, name, Limit(kind[h], name), x)
           = ListsOf(ingested, filter, name, Limit(kind[h], name), x)
    BY <2>1, <2>2, ListsAgree
  <2> QED BY <1>0, <1>3, <2>3 DEF x
<1>4. ASSUME NEW h \in Handlers, kind[h] # NoReport
      PROVE  kind'[h] = kind[h]
  <2>1. ASSUME NEW o \in Handlers, BeginReport(o)
        PROVE  kind'[h] = kind[h]
    <3>1. kind[o] = NoReport /\ \E k : kind' = [kind EXCEPT ![o] = k]
      BY <2>1 DEF BeginReport
    <3> QED BY <1>0, <1>4, <3>1 DEF RepTypeOK
  <2>2. CASE RunStep \/ UNCHANGED reportVars
    BY <2>2, RunLeavesReports DEF handlerVars
  <2>3. ASSUME NEW o \in Handlers, ReportStep(o)
        PROVE  kind'[h] = kind[h]
    BY <2>3 DEF ReportStep
  <2> QED BY <2>1, <2>2, <2>3 DEF ReportsNext, RunStep
<1>5. \A h \in Handlers : kind[h] = NoReport => DOMAIN got[h] = {}
  BY <1>0 DEF ReadInv
<1>6. ASSUME NEW h \in Handlers, got'[h] = got[h], cuts'[h] = cuts[h]
      PROVE  /\ DOMAIN cuts'[h] = DOMAIN got'[h] \cap Lists
             /\ \A name \in DOMAIN cuts'[h] : cuts'[h][name] \in T(h, name)
  <2>1. DOMAIN cuts'[h] = DOMAIN got'[h] \cap Lists
    BY <1>1, <1>6
  <2>2. ASSUME NEW name \in DOMAIN cuts'[h]
        PROVE  cuts'[h][name] \in T(h, name)
    <3>1. name \in DOMAIN got[h] /\ name \in DOMAIN cuts[h]
      BY <1>1, <1>6, <2>2
    <3>2. kind'[h] = kind[h]
      BY <1>4, <1>5, <3>1
    <3>3. T(h, name) = S(h, name)
      BY <1>3, <1>6, <3>1, <3>2
    <3>4. cuts[h][name] \in S(h, name)
      BY <1>1, <3>1
    <3> QED BY <1>6, <3>3, <3>4
  <2> QED BY <2>1, <2>2
<1> HIDE DEF S, T
<1>7. CASE UNCHANGED <<got, cuts>>
  <2>1. \A h \in Handlers : got'[h] = got[h] /\ cuts'[h] = cuts[h]
    BY <1>7
  <2> QED BY <1>2, <1>6, <2>1
<1>8. ASSUME NEW o \in Handlers, ReportStep(o), ReadPart(o, wanted[o][1])
      PROVE  CutInv'
  <2> DEFINE name == wanted[o][1]
             x == seen[PartOf(name)]
  <2>1. /\ 1 \in 1..Len(wanted[o]) /\ name \in Names /\ wanted[o] # <<>>
        /\ UNCHANGED <<ingested, filter, kind>>
    BY <1>0, <1>8, ReportStepFacts, ElementOfSeq DEF RepTypeOK, runVars, ReportStep
  <2>2. /\ got'[o][name] = x
        /\ DOMAIN got'[o] = DOMAIN got[o] \cup {name}
        /\ \A k \in DOMAIN got[o] : k # name => got'[o][k] = got[o][k]
        /\ \A q \in Handlers : q # o => got'[q] = got[q] /\ cuts'[q] = cuts[q]
    BY <1>0, <1>8, <2>1, ReadPartFacts
  <2>3. /\ name \in Lists =>
              /\ DOMAIN cuts'[o] = DOMAIN cuts[o] \cup {name}
              /\ cuts'[o][name] \in Largest(ListedFrom(name, x), Limit(kind[o], name), x)
              /\ \A n \in DOMAIN cuts[o] : n # name => cuts'[o][n] = cuts[o][n]
        /\ name \notin Lists => cuts' = cuts
    BY <1>0, <1>8, <2>1, ReadListFacts
  <2>4. name \in Lists => cuts'[o][name] \in T(o, name)
    BY <2>1, <2>2, <2>3, LargestIsListsOf DEF T
  <2> HIDE DEF name, x
  <2>5. DOMAIN cuts'[o] = DOMAIN got'[o] \cap Lists
    BY <1>1, <2>2, <2>3
  <2>6. ASSUME NEW n \in DOMAIN cuts'[o], n # name
        PROVE  cuts'[o][n] \in T(o, n)
    <3>1. n \in DOMAIN got[o] /\ n \in DOMAIN cuts[o] /\ n \in DOMAIN got'[o]
      BY <1>1, <2>2, <2>5, <2>6
    <3>2. cuts'[o][n] = cuts[o][n] /\ got'[o][n] = got[o][n]
      BY <2>2, <2>3, <2>6, <3>1
    <3>3. T(o, n) = S(o, n)
      BY <1>3, <2>1, <3>1, <3>2
    <3>4. cuts[o][n] \in S(o, n)
      BY <1>1, <3>1
    <3> QED BY <3>2, <3>3, <3>4
  <2>7. \A n \in DOMAIN cuts'[o] : cuts'[o][n] \in T(o, n)
    BY <2>4, <2>5, <2>6
  <2>8. \A q \in Handlers : q # o =>
            /\ DOMAIN cuts'[q] = DOMAIN got'[q] \cap Lists
            /\ \A n \in DOMAIN cuts'[q] : cuts'[q][n] \in T(q, n)
    BY <1>6, <2>2
  <2>9. \A q \in Handlers :
            /\ DOMAIN cuts'[q] = DOMAIN got'[q] \cap Lists
            /\ \A n \in DOMAIN cuts'[q] : cuts'[q][n] \in T(q, n)
    BY <2>5, <2>7, <2>8
  <2> QED BY <1>2, <2>9
<1>9. \/ UNCHANGED <<got, cuts>>
      \/ \E o \in Handlers : ReportStep(o) /\ ReadPart(o, wanted[o][1])
  BY <1>0, StepReads
<1> QED BY <1>7, <1>8, <1>9

\* What Run has counted only grows.
LEMMA PacketsGrow ==
    ASSUME RepInv, [ReportsNext]_reportVars
    PROVE  /\ seen["packets"] \in Nat /\ seen["packets"] <= Len(ingested)
           /\ PacketsNow \in Nat /\ PacketsNow' \in Nat /\ PacketsNow <= PacketsNow'
<1>0. /\ RepTypeOK /\ SeenInv /\ RepTypeOK' /\ "packets" \in Parts
      /\ seen["packets"] \in Nat /\ seen'["packets"] \in Nat
      /\ seen["packets"] <= Len(ingested) /\ Len(ingested) \in Nat
  BY RepTypeStep, PassingStays DEF RepInv, RepTypeOK, SeenInv, Parts
<1>1. seen["packets"] <= seen'["packets"]
  <2>1. CASE Observe
    <3>1. seen' = [seen EXCEPT ![Head(ahead)] = Len(ingested)] /\ DOMAIN seen = Parts
      BY <1>0, <2>1 DEF Observe, RepTypeOK
    <3>2. seen'["packets"] = seen["packets"] \/ seen'["packets"] = Len(ingested)
      BY <1>0, <3>1
    <3> QED BY <1>0, <3>2
  <2>2. CASE UNCHANGED seen
    BY <1>0, <2>2
  <2> QED BY <2>1, <2>2 DEF ReportsNext, Ingest, BroadcastStats, BeginReport, ReportStep,
          reportVars, runVars
<1>2. PacketsNow = Cardinality(Passing(ingested, filter, seen["packets"]))
  BY DEF PacketsNow, ShownUpTo, Passing, Shown
<1>3. PacketsNow' = Cardinality(Passing(ingested', filter', seen'["packets"]))
  BY DEF PacketsNow, ShownUpTo, Passing, Shown
<1>4. Passing(ingested', filter', seen["packets"]) = Passing(ingested, filter, seen["packets"])
  BY <1>0, PassingStays
<1>5. Cardinality(Passing(ingested', filter', seen["packets"]))
         <= Cardinality(Passing(ingested', filter', seen'["packets"]))
  <2> DEFINE x == seen["packets"]
             y == seen'["packets"]
             s == ingested'
             e == filter'
  <2>1. x \in Nat /\ y \in Nat /\ x <= y
    BY <1>0, <1>1
  <2> HIDE DEF x, y, s, e
  <2>2. Cardinality(Passing(s, e, x)) <= Cardinality(Passing(s, e, y))
    BY <2>1, PassingMonotone
  <2> QED BY <2>2 DEF x, y, s, e
<1>6. PacketsNow \in Nat
  BY <1>0, <1>2, PassingFinite
<1>7. PacketsNow' \in Nat
  <2> DEFINE y == seen'["packets"]
             s == ingested'
             e == filter'
  <2>1. y \in Nat
    BY <1>0
  <2> HIDE DEF y, s, e
  <2>2. Cardinality(Passing(s, e, y)) \in Nat
    BY <2>1, PassingFinite
  <2> QED BY <1>3, <2>2 DEF y, s, e
<1> QED BY <1>0, <1>2, <1>3, <1>4, <1>5, <1>6, <1>7

\* The conjunct of TableInv about one handler.
Connected(h) ==
    /\ "packets" \in DOMAIN got[h] => connectedAt <= ShownUpTo(got[h]["packets"])
    /\ \A i \in 1..Len(wanted[h]) : wanted[h][i] = "sendStats" =>
          "packets" \in DOMAIN got[h] \/ \E j \in 1..Len(wanted[h]) : wanted[h][j] = "packets"

LEMMA TableStep ==
    ASSUME RepInv, [ReportsNext]_reportVars
    PROVE  TableInv'
<1>0. /\ RepTypeOK /\ ReadInv /\ TableInv /\ connectedAt \in Int /\ table \in Int
      /\ PacketsNow \in Nat /\ PacketsNow' \in Nat /\ PacketsNow <= PacketsNow'
  BY PacketsGrow DEF RepInv, RepTypeOK
<1>1. ASSUME NEW h \in Handlers, "packets" \in DOMAIN got[h]
      PROVE  /\ ShownUpTo(got[h]["packets"]) =
                   Cardinality(Passing(ingested, filter, got[h]["packets"]))
             /\ Passing(ingested', filter', got[h]["packets"]) =
                   Passing(ingested, filter, got[h]["packets"])
  <2>1. got[h]["packets"] \in Nat /\ got[h]["packets"] <= Len(ingested)
    BY <1>0, <1>1 DEF RepTypeOK, ReadInv
  <2> QED BY <1>0, <2>1, PassingStays, ShownUpToIsPassing
<1>2. ASSUME NEW h \in Handlers
      PROVE  ShownUpTo(got[h]["packets"])' =
                   Cardinality(Passing(ingested', filter', got'[h]["packets"]))
  BY DEF ShownUpTo, Passing, Shown
<1>3. CASE RunStep \/ UNCHANGED reportVars
  <2>1. UNCHANGED <<kind, wanted, got, connectedAt>>
    BY <1>3, RunLeavesReports DEF handlerVars, RunStep, Ingest, Observe, BroadcastStats,
       tableVars, reportVars
  <2>2. table' = table \/ (connectedAt >= 0 /\ table' = PacketsNow)
    BY <1>3 DEF RunStep, Ingest, Observe, BroadcastStats, tableVars, reportVars
  <2>3. connectedAt <= PacketsNow /\ NewTableIsCurrent
    BY <1>0 DEF TableInv
  <2>4. connectedAt' <= PacketsNow'
    BY <1>0, <2>1, <2>3
  <2>5. NewTableIsCurrent'
    BY <1>0, <2>1, <2>2, <2>3 DEF NewTableIsCurrent
  <2>6. connectedAt = -1 => table' = table
    BY <1>0, <2>2
  <2>7. ASSUME NEW h \in Handlers, "packets" \in DOMAIN got[h]
        PROVE  ShownUpTo(got[h]["packets"])' = ShownUpTo(got[h]["packets"])
    BY <1>1, <1>2, <2>1, <2>7
  <2>8. \A h \in Handlers : kind[h] = "hello" => Connected(h)'
    BY <1>0, <2>1, <2>7 DEF TableInv, Connected
  <2> QED BY <1>0, <2>1, <2>4, <2>5, <2>6, <2>8 DEF TableInv, Connected
<1>4. ASSUME NEW h \in Handlers, BeginReport(h)
      PROVE  TableInv'
  <2>1. PICK k \in Kinds : /\ k = "hello" => \A o \in Handlers : kind[o] # "hello"
                           /\ kind' = [kind EXCEPT ![h] = k]
                           /\ wanted' = [wanted EXCEPT ![h] = ReadsFor(k)]
    BY <1>4 DEF BeginReport, Kinds
  <2>2. /\ kind[h] = NoReport /\ wanted[h] = <<>> /\ DOMAIN got[h] = {}
        /\ UNCHANGED <<ingested, filter, got, table, connectedAt>>
    BY <1>0, <1>4 DEF BeginReport, runVars, tableVars, ReadInv
  <2>3. /\ kind'[h] = k /\ wanted'[h] = ReadsFor(k)
        /\ \A o \in Handlers : o # h => kind'[o] = kind[o] /\ wanted'[o] = wanted[o]
    BY <1>0, <2>1 DEF RepTypeOK
  <2>4. connectedAt' <= PacketsNow' /\ NewTableIsCurrent'
    BY <1>0, <2>2 DEF TableInv, NewTableIsCurrent
  <2>5. (\A o \in Handlers : kind'[o] # "hello") => table' = -1 /\ connectedAt' = -1
    <3> SUFFICES ASSUME \A o \in Handlers : kind'[o] # "hello"
                 PROVE  table' = -1 /\ connectedAt' = -1
      OBVIOUS
    <3>1. kind[h] # "hello"
      BY <2>2 DEF NoReport
    <3>2. \A o \in Handlers : kind[o] # "hello"
      BY <2>3, <3>1
    <3> QED BY <1>0, <2>2, <3>2 DEF TableInv
  <2>6. ASSUME NEW o \in Handlers, NEW i \in 1..Len(wanted'[o]), wanted'[o][i] = "register"
        PROVE  table' = -1 /\ connectedAt' = -1
    <3>1. CASE o = h
      <4>1. k = "hello"
        BY <2>3, <2>6, <3>1, ReadsForFacts DEF OnConnection
      <4> QED BY <1>0, <2>1, <2>2, <4>1 DEF TableInv
    <3>2. CASE o # h
      BY <1>0, <2>2, <2>3, <2>6, <3>2 DEF TableInv
    <3> QED BY <3>1, <3>2
  <2>7. ASSUME NEW o \in Handlers, kind'[o] = "hello"
        PROVE  Connected(o)'
    <3>1. CASE o = h
      <4>1. \E j \in 1..Len(wanted'[o]) : wanted'[o][j] = "packets"
        BY <2>3, <2>7, <3>1, ReadsForFacts
      <4>2. "packets" \notin DOMAIN got'[o]
        BY <2>2, <3>1
      <4> QED BY <4>1, <4>2 DEF Connected
    <3>2. CASE o # h
      <4>1. "packets" \in DOMAIN got[o] =>
               ShownUpTo(got[o]["packets"])' = ShownUpTo(got[o]["packets"])
        BY <1>1, <1>2, <2>2
      <4> QED BY <1>0, <2>2, <2>3, <2>7, <3>2, <4>1 DEF TableInv, Connected
    <3> QED BY <3>1, <3>2
  <2> QED BY <2>4, <2>5, <2>6, <2>7 DEF TableInv, Connected
<1>5. ASSUME NEW h \in Handlers, ReportStep(h)
      PROVE  TableInv'
  <2>1. /\ Len(wanted[h]) \in Nat /\ 1 \in 1..Len(wanted[h])
        /\ UNCHANGED <<filter, ingested, seen, kind>>
        /\ \A o \in Handlers : o # h => wanted'[o] = wanted[o]
        /\ \A i \in 1..Len(wanted'[h]) :
              i \in Nat /\ i + 1 \in 1..Len(wanted[h]) /\ wanted'[h][i] = wanted[h][i + 1]
        /\ \A i \in 1..Len(wanted[h]) : i # 1 => i - 1 \in 1..Len(wanted'[h])
        /\ wanted[h][1] \in Names
    BY <1>0, <1>5, ReportStepFacts, ElementOfSeq DEF runVars, RepTypeOK
  <2>2. PacketsNow' = PacketsNow
    BY <2>1 DEF PacketsNow, ShownUpTo, Shown
  <2>3. ASSUME NEW o \in Handlers, NEW i \in 1..Len(wanted'[o]), wanted'[o][i] = "register"
        PROVE  table = -1 /\ connectedAt = -1
    <3>1. \E j \in 1..Len(wanted[o]) : wanted[o][j] = "register"
      BY <2>1, <2>3
    <3> QED BY <1>0, <3>1 DEF TableInv
  <2>4. ASSUME NEW i \in 1..Len(wanted'[h]), wanted'[h][i] = "sendStats"
        PROVE  \/ "packets" \in DOMAIN got[h] \/ wanted[h][1] = "packets"
               \/ \E j \in 1..Len(wanted'[h]) : wanted'[h][j] = "packets"
    <3>1. i + 1 \in 1..Len(wanted[h]) /\ wanted[h][i + 1] = "sendStats"
      BY <2>1, <2>4
    <3>2. kind[h] = "hello"
      BY <1>0, <3>1 DEF ReadInv, OnConnection
    <3>3. "packets" \in DOMAIN got[h] \/ \E j \in 1..Len(wanted[h]) : wanted[h][j] = "packets"
      BY <1>0, <3>1, <3>2 DEF TableInv
    <3>4. ASSUME NEW j \in 1..Len(wanted[h]), wanted[h][j] = "packets", j # 1
          PROVE  wanted'[h][j - 1] = "packets" /\ j - 1 \in 1..Len(wanted'[h])
      <4>1. j - 1 \in 1..Len(wanted'[h]) /\ j - 1 + 1 = j
        BY <2>1, <3>4
      <4> QED BY <2>1, <3>4, <4>1
    <3> QED BY <3>3, <3>4
  <2>5. CASE ReadPart(h, wanted[h][1])
    <3> DEFINE name == wanted[h][1]
    <3>1. /\ UNCHANGED <<table, connectedAt>> /\ PartOf(name) \in Parts
          /\ \A o \in Handlers : o # h => got'[o] = got[o]
          /\ DOMAIN got'[h] = DOMAIN got[h] \cup {name}
          /\ got'[h][name] = seen[PartOf(name)]
          /\ \A n \in DOMAIN got[h] : n # name => got'[h][n] = got[h][n]
      BY <1>0, <2>1, <2>5, ReadPartFacts DEF tableVars
    <3> HIDE DEF name
    <3>2. connectedAt' <= PacketsNow' /\ NewTableIsCurrent'
      BY <1>0, <2>2, <3>1 DEF TableInv, NewTableIsCurrent
    <3>3. ASSUME NEW o \in Handlers, kind[o] = "hello"
          PROVE  Connected(o)'
      <4>1. CASE o # h
        <5>1. "packets" \in DOMAIN got[o] =>
                 ShownUpTo(got[o]["packets"])' = ShownUpTo(got[o]["packets"])
          BY <1>1, <1>2, <3>1, <4>1
        <5> QED BY <1>0, <2>1, <3>1, <3>3, <4>1, <5>1 DEF TableInv, Connected
      <4>2. CASE o = h
        <5>1. \A i \in 1..Len(wanted'[h]) : wanted'[h][i] = "sendStats" =>
                 \/ "packets" \in DOMAIN got'[h]
                 \/ \E j \in 1..Len(wanted'[h]) : wanted'[h][j] = "packets"
          BY <2>4, <3>1 DEF name
        <5>2. CASE name = "packets"
          <6>1. got'[h]["packets"] = seen["packets"]
            BY <3>1, <5>2, PartOfFacts DEF Parts
          <6>2. ShownUpTo(got[h]["packets"])' = PacketsNow'
            BY <2>1, <6>1 DEF PacketsNow, ShownUpTo, Shown
          <6> QED BY <3>2, <4>2, <5>1, <6>2 DEF Connected
        <5>3. CASE name # "packets"
          <6>1. /\ "packets" \in DOMAIN got'[h] => "packets" \in DOMAIN got[h]
                /\ "packets" \in DOMAIN got[h] => got'[h]["packets"] = got[h]["packets"]
            BY <3>1, <5>3
          <6>2. "packets" \in DOMAIN got[h] =>
                   ShownUpTo(got[h]["packets"])' = ShownUpTo(got[h]["packets"])
            BY <1>1, <1>2, <6>1
          <6> QED BY <1>0, <3>1, <3>3, <4>2, <5>1, <6>1, <6>2 DEF TableInv, Connected
        <5> QED BY <5>2, <5>3
      <4> QED BY <4>1, <4>2
    <3> QED BY <1>0, <2>1, <2>3, <3>1, <3>2, <3>3 DEF TableInv, Connected
  <2>6. CASE RegisterTable(wanted[h][1])
    <3>1. /\ wanted[h][1] = "register" /\ connectedAt' = PacketsNow /\ UNCHANGED <<got, cuts, table>>
      BY <2>6 DEF RegisterTable
    <3>2. table = -1 /\ connectedAt = -1 /\ kind[h] = "hello"
      BY <1>0, <2>1, <3>1 DEF TableInv, ReadInv, OnConnection
    <3>3. ASSUME NEW o \in Handlers, NEW i \in 1..Len(wanted'[o])
          PROVE  wanted'[o][i] # "register"
      <4>1. CASE o = h
        <5>1. i + 1 \in 1..Len(wanted[h]) /\ wanted'[h][i] = wanted[h][i + 1]
          BY <2>1, <3>3, <4>1
        <5>2. wanted[h][i + 1] = wanted[h][1] => i + 1 = 1
          BY <1>0, <2>1, <5>1 DEF ReadInv, Ordered
        <5> QED BY <2>1, <3>1, <4>1, <5>1, <5>2
      <4>2. CASE o # h
        <5>1. kind[o] # "hello"
          BY <1>0, <3>2, <4>2 DEF ReadInv
        <5>2. wanted'[o] = wanted[o]
          BY <2>1, <4>2
        <5> QED BY <1>0, <3>3, <5>1, <5>2 DEF ReadInv, OnConnection
      <4> QED BY <4>1, <4>2
    <3>4. connectedAt' <= PacketsNow' /\ NewTableIsCurrent'
      BY <1>0, <2>2, <3>1, <3>2 DEF NewTableIsCurrent
    <3>5. ASSUME NEW o \in Handlers, kind[o] = "hello"
          PROVE  Connected(o)'
      <4>1. o = h
        BY <1>0, <3>2, <3>5 DEF ReadInv
      <4>2. "packets" \notin DOMAIN got[h]
        BY <1>0, <2>1, <3>1 DEF ReadInv, Earlier, Refers
      <4> QED BY <2>4, <3>1, <4>1, <4>2 DEF Connected
    <3> QED BY <2>1, <3>2, <3>3, <3>4, <3>5 DEF TableInv, Connected
  <2>7. CASE SendStats(h, wanted[h][1])
    <3>1. /\ kind[h] = "hello" /\ wanted[h][1] = "sendStats" /\ "packets" \in DOMAIN got[h]
          /\ got[h]["packets"] \in Nat
          /\ table' = ShownUpTo(got[h]["packets"]) /\ UNCHANGED <<got, cuts, connectedAt>>
      BY <1>5, <2>7, SentStatsWereRead DEF SendStats
    <3>2. connectedAt <= table' /\ table' \in Nat
      BY <1>0, <3>1, ShownUpToIsPassing, PassingFinite DEF TableInv
    <3>3. ASSUME NEW o \in Handlers, NEW i \in 1..Len(wanted'[o])
          PROVE  wanted'[o][i] # "register"
      <4>1. CASE o = h
        <5>1. i + 1 \in 1..Len(wanted[h]) /\ wanted'[h][i] = wanted[h][i + 1] /\ i \in Nat
          BY <2>1, <3>3, <4>1
        <5>2. wanted[h][i + 1] = "register" => i + 1 < 1
          BY <1>0, <2>1, <3>1, <5>1 DEF ReadInv, Ordered, Earlier, Refers
        <5> QED BY <4>1, <5>1, <5>2
      <4>2. CASE o # h
        <5>1. kind[o] # "hello"
          BY <1>0, <3>1, <4>2 DEF ReadInv
        <5>2. wanted'[o] = wanted[o]
          BY <2>1, <4>2
        <5> QED BY <1>0, <3>3, <5>1, <5>2 DEF ReadInv, OnConnection
      <4> QED BY <4>1, <4>2
    <3>4. connectedAt' <= PacketsNow' /\ NewTableIsCurrent'
      BY <1>0, <2>2, <3>1, <3>2 DEF TableInv, NewTableIsCurrent
    <3>5. ASSUME NEW o \in Handlers, kind[o] = "hello"
          PROVE  Connected(o)'
      <4>1. o = h
        BY <1>0, <3>1, <3>5 DEF ReadInv
      <4>2. ShownUpTo(got[h]["packets"])' = ShownUpTo(got[h]["packets"])
        BY <1>1, <1>2, <3>1
      <4>3. connectedAt <= ShownUpTo(got[h]["packets"])
        BY <1>0, <3>1 DEF TableInv
      <4> QED BY <3>1, <4>1, <4>2, <4>3 DEF Connected
    <3> QED BY <2>1, <3>1, <3>3, <3>4, <3>5 DEF TableInv, Connected
  <2> QED BY <1>0, <1>5, <2>5, <2>6, <2>7, ReportStepFacts
<1> QED BY <1>3, <1>4, <1>5 DEF ReportsNext, RunStep

-----------------------------------------------------------------------------
(* The theorems.                                                           *)

LEMMA InitEstablishesRepInv == ReportsInit => RepInv
<1> SUFFICES ASSUME ReportsInit PROVE RepInv
  OBVIOUS
<1>1. /\ filter \in Filters /\ ingested = <<>> /\ ahead = <<>>
      /\ seen = [p \in Parts |-> 0]
      /\ kind = [h \in Handlers |-> NoReport]
      /\ wanted = [h \in Handlers |-> <<>>]
      /\ got = [h \in Handlers |-> [n \in {} |-> 0]]
      /\ cuts = [h \in Handlers |-> [n \in {} |-> {}]]
      /\ table = -1 /\ connectedAt = -1
  BY DEF ReportsInit
<1>2. Len(<<>>) = 0 /\ <<>> \in Seq(Frames) /\ <<>> \in Seq(Parts) /\ <<>> \in Seq(Names)
  BY EmptySeq
<1>3. /\ DOMAIN got = Handlers /\ \A h \in Handlers : DOMAIN got[h] = {}
      /\ DOMAIN cuts = Handlers /\ \A h \in Handlers : DOMAIN cuts[h] = {}
  BY <1>1
<1>4. RepTypeOK
  BY <1>1, <1>2, <1>3 DEF RepTypeOK
<1>5. \A p \in Parts : seen[p] = 0
  BY <1>1
<1>6. SeenInv
  BY <1>1, <1>2, <1>5 DEF SeenInv
<1>7. \A h \in Handlers : wanted[h] = <<>> /\ kind[h] = NoReport /\ kind[h] # "hello"
  BY <1>1 DEF NoReport
<1>8. ReadInv
  BY <1>2, <1>3, <1>7 DEF ReadInv, Ordered
<1>9. LaterInv /\ CutInv
  BY <1>3 DEF LaterInv, CutInv
<1>10. PacketsNow \in Nat
  BY <1>5, ShownUpToIsPassing, PassingFinite DEF PacketsNow, Parts
<1>11. TableInv
  BY <1>1, <1>2, <1>7, <1>10 DEF TableInv, NewTableIsCurrent
<1> QED BY <1>4, <1>6, <1>8, <1>9, <1>11 DEF RepInv

\* The inductive invariant of the reports.
THEOREM ReportsInvariance == ReportsSpec => []RepInv
<1>1. RepInv /\ [ReportsNext]_reportVars => RepInv'
  BY RepTypeStep, SeenStep, ReadStep, LaterStep, CutStep, TableStep DEF RepInv
<1> QED BY <1>1, InitEstablishesRepInv, PTL DEF ReportsSpec

\* What LaterInv says of one report: a shown frame that one part has, and that is not
\* the last of that part, is in the part it refers to.
LEMMA HasWhatItRefersTo ==
    ASSUME RepInv, NEW h \in Handlers, NEW a, NEW b, <<a, b>> \in Refers,
           a \in DOMAIN got[h], b \in DOMAIN got[h]
    PROVE  /\ got[h][a] \in Nat /\ got[h][a] <= Len(ingested) /\ got[h][b] \in Nat
           /\ Len(ingested) \in Nat
           /\ \A n \in 1..Len(ingested) : n < got[h][a] /\ Shown(n) => n <= got[h][b]
           /\ \A n \in 1..got[h][a] - 1 :
                 Shown(n) => n \in 1..got[h][b] /\ n \in 1..Len(ingested)
<1>1. /\ got[h][a] \in Nat /\ got[h][a] <= Len(ingested) /\ got[h][b] \in Nat
      /\ Len(ingested) \in Nat
  BY LenProperties DEF RepInv, RepTypeOK, ReadInv
<1>2. \A n \in 1..Len(ingested) : n < got[h][a] /\ Shown(n) => n <= got[h][b]
  <2>1. <<a, b>>[1] = a /\ <<a, b>>[2] = b
    OBVIOUS
  <2> QED BY <2>1 DEF RepInv, LaterInv
<1>3. \A n \in 1..got[h][a] - 1 : n \in 1..Len(ingested) /\ n < got[h][a] /\ n >= 1
  BY <1>1
<1>4. \A n \in 1..got[h][a] - 1 : Shown(n) => n \in 1..got[h][b] /\ n \in 1..Len(ingested)
  BY <1>1, <1>2, <1>3
<1> QED BY <1>1, <1>2, <1>4

\* Whatever Run ingests while a report is made, what one part of it refers to
\* is in the part read after it: the session of a flow, the packet of a finding or
\* of a session, the protocols of the packets.  Only the last frame of the first
\* part may be missing, and sessions that larger ones push off the list.
THEOREM ReportsBacked == ReportsSpec => []ReportIsBacked
<1>1. RepInv => ReportIsBacked
  <2> SUFFICES ASSUME RepInv, NEW h \in Handlers
               PROVE  /\ ProtocolsOfPackets(h) /\ SessionOfFlow(h)
                      /\ PacketOfFinding(h) /\ PacketsOfSession(h)
    BY DEF ReportIsBacked
  <2>0. CutInv /\ DOMAIN cuts[h] = DOMAIN got[h] \cap Lists
    BY DEF RepInv, CutInv
  <2>1. ProtocolsOfPackets(h)
    <3> SUFFICES ASSUME {"packets", "maps"} \subseteq DOMAIN got[h]
                 PROVE  ShownUpTo(got[h]["packets"]) <= ShownUpTo(got[h]["maps"]) + 1
      BY DEF ProtocolsOfPackets
    <3> DEFINE x == got[h]["packets"]
               y == got[h]["maps"]
    <3>1. /\ x \in Nat /\ y \in Nat /\ x <= Len(ingested) /\ Len(ingested) \in Nat
          /\ \A n \in 1..Len(ingested) : n < x /\ Shown(n) => n <= y
      BY HasWhatItRefersTo DEF Refers
    <3> HIDE DEF x, y
    <3>2. \A n \in 1..x : Match(ingested[n], filter) /\ n < x => n <= y
      BY <3>1 DEF Shown
    <3>3. Cardinality(Passing(ingested, filter, x)) <= Cardinality(Passing(ingested, filter, y)) + 1
      BY <3>1, <3>2, PassingAllButLast
    <3> QED BY <3>3, ShownUpToIsPassing DEF x, y
  <2>2. SessionOfFlow(h)
    <3> SUFFICES ASSUME {"flows", "sessions"} \subseteq DOMAIN cuts[h], NEW k \in cuts[h]["flows"],
                        k.ip, NEW m \in 1..got[h]["flows"] - 1, Shown(m), ingested[m].key = k
                 PROVE  k \in cuts[h]["sessions"] \/ CutShort(h, "sessions", k)
      BY DEF SessionOfFlow
    <3>1. "flows" \in DOMAIN got[h] /\ "sessions" \in DOMAIN got[h]
      BY <2>0
    <3>2. m \in 1..got[h]["sessions"]
      BY <3>1, HasWhatItRefersTo DEF Refers
    <3>3. k \in ListedFrom("sessions", got[h]["sessions"])
      BY <3>2 DEF ListedFrom, SessionsAt
    <3>4. cuts[h]["sessions"] \in Largest(ListedFrom("sessions", got[h]["sessions"]),
                                          Limit(kind[h], "sessions"), got[h]["sessions"])
      BY <2>0 DEF CutInv
    <3> QED BY <3>3, <3>4, LeftOut
  <2>3. PacketOfFinding(h)
    <3> SUFFICES ASSUME {"security", "store"} \subseteq DOMAIN got[h],
                        NEW n \in 1..got[h]["security"] - 1, Shown(n)
                 PROVE  n \in StoreAt(got[h]["store"])
      BY DEF PacketOfFinding
    <3>1. n \in 1..got[h]["store"]
      BY HasWhatItRefersTo DEF Refers
    <3> QED BY <3>1 DEF StoreAt
  <2>4. PacketsOfSession(h)
    <3> SUFFICES ASSUME {"sessions", "store"} \subseteq DOMAIN got[h],
                        NEW n \in 1..got[h]["sessions"] - 1, Shown(n)
                 PROVE  n \in StoreAt(got[h]["store"])
      BY DEF PacketsOfSession
    <3>1. n \in 1..got[h]["store"]
      BY HasWhatItRefersTo DEF Refers
    <3> QED BY <3>1 DEF StoreAt
  <2> QED BY <2>1, <2>2, <2>3, <2>4
<1> QED BY <1>1, ReportsInvariance, PTL

\* A chapter of the story names a session of its finding's two hosts: the
\* sessions are listed after the findings, so the only one that may be missing
\* is that of the newest finding, and those that larger sessions push off the list.
THEOREM ReportsChapters == ReportsSpec => []ChapterHasSession
<1>1. RepInv => ChapterHasSession
  <2> SUFFICES ASSUME RepInv, NEW h \in Handlers,
                      {"storyFindings", "storySessions"} \subseteq DOMAIN got[h],
                      NEW n \in DOMAIN Chapters(h),
                      n < got[h]["storyFindings"], Shown(n), ingested[n].key.ip
               PROVE  \/ /\ Chapters(h)[n] # {}
                         /\ \A k \in Chapters(h)[n] : k.hosts = HostsOf(ingested[n])
                      \/ CutShort(h, "storySessions", ingested[n].key)
    BY DEF ChapterHasSession
  <2> DEFINE listed == cuts[h]["storySessions"]
             findings == {k \in 1..got[h]["storyFindings"] : ingested[k].raises}
             x == got[h]["storySessions"]
  <2>1. Chapters(h) = [k \in findings |-> MatchSession(ingested[k], listed)]
    BY DEF Chapters
  <2>2. n \in findings /\ Chapters(h)[n] = MatchSession(ingested[n], listed)
    <3> HIDE DEF listed, findings
    <3> QED BY <2>1
  <2>3. /\ got[h]["storyFindings"] \in Nat /\ got[h]["storyFindings"] <= Len(ingested)
        /\ x \in Nat /\ Len(ingested) \in Nat
        /\ \A m \in 1..Len(ingested) : m < got[h]["storyFindings"] /\ Shown(m) => m <= x
    BY HasWhatItRefersTo DEF Refers
  <2>4. n \in 1..Len(ingested)
    <3>1. n \in 1..got[h]["storyFindings"]
      BY <2>2
    <3> QED BY <2>3, <3>1
  <2>5. n \in 1..x
    BY <2>3, <2>4
  <2>6. ingested[n].key \in ListedFrom("storySessions", x)
    BY <2>5 DEF ListedFrom, SessionsAt
  <2>7. listed \in Largest(ListedFrom("storySessions", x), Limit(kind[h], "storySessions"), x)
    <3>1. "storySessions" \in DOMAIN got[h] \cap Lists
      BY DEF Lists
    <3>2. "storySessions" \in DOMAIN cuts[h]
      BY <3>1 DEF RepInv, CutInv
    <3> QED BY <3>2 DEF RepInv, CutInv
  <2>8. ingested[n].key \in listed \/ CutShort(h, "storySessions", ingested[n].key)
    BY <2>6, <2>7, LeftOut
  <2>9. ingested[n].key.hosts = HostsOf(ingested[n])
    <3>1. ingested[n] \in Frames
      BY <2>4, ElementOfSeq DEF RepInv, RepTypeOK
    <3> QED BY <3>1, ReportsAssumption DEF HostsOf
  <2> HIDE DEF listed, findings, x
  <2>10. CASE ingested[n].key \in listed
    <3> DEFINE between == {k \in listed : k.hosts = HostsOf(ingested[n])}
    <3>1. ingested[n].key \in between
      BY <2>9, <2>10
    <3>2. between # {}
      BY <3>1
    <3>3. MatchSession(ingested[n], listed) = between
      BY <3>2 DEF MatchSession
    <3> QED BY <2>2, <3>2, <3>3
  <2> QED BY <2>8, <2>10
<1> QED BY <1>1, ReportsInvariance, PTL

\* A dashboard that has been shown any stats has been shown all the packets
\* counted when its connection was registered.
THEOREM ReportsTable == ReportsSpec => []NewTableIsCurrent
<1>1. RepInv => NewTableIsCurrent
  BY DEF RepInv, TableInv
<1> QED BY <1>1, ReportsInvariance, PTL
=============================================================================
