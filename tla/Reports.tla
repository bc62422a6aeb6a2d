------------------------------- MODULE Reports -------------------------------
(***************************************************************************)
(* What is read while Run ingests: ExportJSON, the story, the summary and  *)
(* the first messages of a WebSocket connection.  Run takes each frame     *)
(* through security, statistics, flows, sessions and the store, one lock   *)
(* after the other; a handler takes the same locks, one after the other,   *)
(* in its own order.  Nothing makes a report a snapshot of one moment.     *)
(*                                                                         *)
(* A part of the engine is the number of the last frame it has seen; which *)
(* flows and sessions a report lists, the largest only, is kept beside it. *)
(* What a part forgets at its own limit is the subject of Conversations,   *)
(* Analyzer and Engine.  The two counters of stats.Engine are updated and  *)
(* read outside of its lock, so they are parts of their own.               *)
(***************************************************************************)
EXTENDS Integers, Sequences, FiniteSets, Functions

CONSTANTS
    Frames,         \* frames: the two hosts, whether it raises a finding, its length,
                    \* its flow key (hosts, whether it is of an IP protocol), what a filter sees
    Filters,        \* display filters, cfg.Filter
    Match(_, _),    \* filter.Match
    Handlers,       \* goroutines that make a report
    ExportLimit,    \* flows, and sessions, in an export (100)
    StoryLimit,     \* sessions that a story is built from (80)
    HelloLimit,     \* sessions in the first messages of a connection (40)
    MaxFrames       \* bound: frames ingested

ASSUME ReportsAssumption ==
    /\ MaxFrames \in Nat
    /\ ExportLimit \in Nat \ {0} /\ StoryLimit \in Nat \ {0} /\ HelloLimit \in Nat \ {0}
    /\ \A f \in Frames : f.raises \in BOOLEAN /\ f.length \in Nat
    /\ \A f \in Frames : f.key.hosts = {f.src, f.dst} /\ f.key.ip \in BOOLEAN
    /\ \A f \in Frames, e \in Filters : Match(f, e) \in BOOLEAN

Parts == {"security", "packets", "bytes", "maps", "flows", "sessions", "store"}

VARIABLES
    filter,         \* cfg.Filter
    ingested,       \* the frames, in order
    ahead,          \* the parts that the current frame has yet to get to
    seen,           \* per part: the last frame it has seen
    ended,          \* Run has left its loop
    kind,           \* per handler: the report it makes
    wanted,         \* per handler: what it has yet to read
    got,            \* per handler: what it has read, by the name in the report
    cuts,           \* per handler: the keys in each list it has read
    table,          \* packets in the last stats event of the connection, -1 before any
    connectedAt     \* history: those counted when it was registered, -1 before

runVars == <<filter, ingested, ahead, seen, ended>>
handlerVars == <<kind, wanted, got, cuts>>
tableVars == <<table, connectedAt>>
reportVars == <<runVars, handlerVars, tableVars>>

NoReport == "none"

-----------------------------------------------------------------------------
(* Engine.ingest                                                           *)

Shown(n) == Match(ingested[n], filter)

\* The frames up to x that passed the filter.
ShownUpTo(x) == Cardinality({n \in 1..x : Shown(n)})

\* Security sees every frame, the others those that pass the filter.
Way(shown) ==
    IF shown THEN <<"security", "packets", "bytes", "maps", "flows", "sessions", "store">>
             ELSE <<"security">>

ReportsInit ==
    /\ filter \in Filters /\ ingested = <<>> /\ ahead = <<>> /\ ended = FALSE
    /\ seen = [p \in Parts |-> 0]
    /\ kind = [h \in Handlers |-> NoReport]
    /\ wanted = [h \in Handlers |-> <<>>]
    /\ got = [h \in Handlers |-> [n \in {} |-> 0]]
    /\ cuts = [h \in Handlers |-> [n \in {} |-> {}]]
    /\ table = -1 /\ connectedAt = -1

Ingest(f) ==
    /\ ~ended /\ ahead = <<>> /\ Len(ingested) < MaxFrames
    /\ ingested' = Append(ingested, f)
    /\ ahead' = Way(Match(f, filter))
    /\ UNCHANGED <<filter, seen, ended, handlerVars, tableVars>>

\* One Observe, or one of the two counters before stats.Observe takes its lock.
Observe ==
    /\ ahead # <<>>
    /\ seen' = [seen EXCEPT ![Head(ahead)] = Len(ingested)]
    /\ ahead' = Tail(ahead)
    /\ UNCHANGED <<filter, ingested, ended, handlerVars, tableVars>>

PacketsNow == ShownUpTo(seen["packets"])

\* Broadcast("stats", e.Stats.Snapshot()), which Run does between two packets, and
\* once more when it has left its loop.
BroadcastStats ==
    /\ ahead = <<>>
    /\ ended' \in {ended, TRUE}
    /\ table' = IF connectedAt >= 0 THEN PacketsNow ELSE table
    /\ UNCHANGED <<filter, ingested, ahead, seen, handlerVars, connectedAt>>

-----------------------------------------------------------------------------
(* The reports                                                             *)

Stats == <<"packets", "bytes", "maps">>

\* Bug: the story looks at the sessions first.
StoryBackwards == <<"storySessions", "storyFindings">>

Story == <<"storyFindings", "storySessions">>

\* Bug: the packets are exported before what refers to them.
ExportPacketsFirst == <<"store">> \o Stats \o <<"flows", "security", "sessions">> \o Story

Export == Stats \o <<"flows", "security", "sessions">> \o Story \o <<"store">>

\* It counts flows and sessions and lists none.
Summary == Stats \o <<"flowCount", "sessionCount", "security">>

\* Bug: the connection is registered when its first message is ready.
HelloLateRegistered == Stats \o <<"register", "sendStats", "sessions">> \o Story

\* handleWS: the connection is registered, then its first messages are made.
Hello == <<"register">> \o Stats \o <<"sendStats", "sessions">> \o Story

PartOf(name) == CASE name = "storyFindings" -> "security"
                  [] name \in {"storySessions", "sessionCount"} -> "sessions"
                  [] name = "flowCount" -> "flows"
                  [] OTHER -> name

-----------------------------------------------------------------------------
(* The lists of flows and sessions: the largest in bytes.                  *)

Lists == {"flows", "sessions", "storySessions"}

\* Tracker.Observe: every frame is of a flow.
FlowsAt(x) == {ingested[m].key : m \in {m \in 1..x : Shown(m)}}

\* Player.Observe: only frames of an IP protocol are of a session.
SessionsAt(x) == {ingested[m].key : m \in {m \in 1..x : Shown(m) /\ ingested[m].key.ip}}

ListedFrom(name, x) == IF name = "flows" THEN FlowsAt(x) ELSE SessionsAt(x)

BytesOf(k, x) ==
    SumFunction([m \in 1..x |->
        IF Shown(m) /\ ingested[m].key = k THEN ingested[m].length ELSE 0])

Limit(k, name) == CASE name = "storySessions" -> StoryLimit
                    [] name # "storySessions" /\ k = "hello" -> HelloLimit
                    [] OTHER -> ExportLimit

\* Top and List: the n largest of some keys.  Which of two equals comes first is
\* left to the order of a Go map.
Largest(keys, n, x) ==
    IF Cardinality(keys) <= n THEN {keys}
    ELSE {list \in SUBSET keys :
            /\ Cardinality(list) = n
            /\ \A k \in list, other \in keys \ list : BytesOf(k, x) >= BytesOf(other, x)}

-----------------------------------------------------------------------------
(* The chapters of a story: each finding looks for a session of its two    *)
(* hosts, of its source alone, and of its destination alone.               *)

HostsOf(f) == {f.src, f.dst}

\* indexSessions and matchSession: the session found may be any of these.
MatchSession(f, listed) ==
    LET between == {k \in listed : k.hosts = HostsOf(f)}
        of(h) == {k \in listed : h \in k.hosts}
    IN  CASE between # {} -> between
          [] between = {} /\ of(f.src) # {} -> of(f.src)
          [] OTHER -> of(f.dst)

\* Build: the sessions that the chapters of a report may name, by frame.
Chapters(h) ==
    [n \in {n \in 1..got[h]["storyFindings"] : ingested[n].raises} |->
        MatchSession(ingested[n], cuts[h]["storySessions"])]

-----------------------------------------------------------------------------
ReadsFor(k) == CASE k = "export"  -> Export
                 [] k = "story"   -> Story
                 [] k = "summary" -> Summary
                 [] k = "hello"   -> Hello

\* A request for a report; there is one WebSocket connection at most, and the
\* summary is printed when Run has returned.
BeginReport(h) ==
    /\ kind[h] = NoReport
    /\ \E k \in {"export", "story", "summary", "hello"} :
          /\ k = "hello" => \A o \in Handlers : kind[o] # "hello"
          /\ k = "summary" => ended /\ ahead = <<>>
          /\ kind' = [kind EXCEPT ![h] = k]
          /\ wanted' = [wanted EXCEPT ![h] = ReadsFor(k)]
    /\ UNCHANGED <<runVars, got, cuts, tableVars>>

With(report, name, value) ==
    [n \in DOMAIN report \cup {name} |-> IF n = name THEN value ELSE report[n]]

ReadPart(h, name) ==
    /\ PartOf(name) \in Parts
    /\ got' = [got EXCEPT ![h] = With(@, name, seen[PartOf(name)])]
    /\ IF name \in Lists
       THEN LET x == seen[PartOf(name)]
            IN  \E list \in Largest(ListedFrom(name, x), Limit(kind[h], name), x) :
                   cuts' = [cuts EXCEPT ![h] = With(@, name, list)]
       ELSE cuts' = cuts
    /\ UNCHANGED tableVars

RegisterTable(name) ==
    name = "register" /\ connectedAt' = PacketsNow /\ UNCHANGED <<got, cuts, table>>

\* The snapshot that was read is written to the connection.
SendStats(h, name) ==
    name = "sendStats" /\ table' = ShownUpTo(got[h]["packets"]) /\ UNCHANGED <<got, cuts, connectedAt>>

ReportStep(h) ==
    /\ wanted[h] # <<>>
    /\ LET name == Head(wanted[h])
       IN  ReadPart(h, name) \/ RegisterTable(name) \/ SendStats(h, name)
    /\ wanted' = [wanted EXCEPT ![h] = Tail(@)]
    /\ UNCHANGED <<runVars, kind>>

-----------------------------------------------------------------------------
ReportsNext ==
    \/ \E f \in Frames : Ingest(f)
    \/ Observe \/ BroadcastStats
    \/ \E h \in Handlers : BeginReport(h) \/ ReportStep(h)

ReportsSpec == ReportsInit /\ [][ReportsNext]_reportVars

-----------------------------------------------------------------------------
\* A list leaves a key out because it is full of others at least as large.
CutShort(h, name, k) ==
    /\ Cardinality(cuts[h][name]) = Limit(kind[h], name)
    /\ \A other \in cuts[h][name] :
          BytesOf(other, got[h][name]) >= BytesOf(k, got[h][name])

\* Engine.Frames: the store has the packets that the filter shows.
StoreAt(x) == {n \in 1..x : Shown(n)}

\* The protocols add up to the packets counted, but for one.
ProtocolsOfPackets(h) ==
    {"packets", "maps"} \subseteq DOMAIN got[h] =>
        ShownUpTo(got[h]["packets"]) <= ShownUpTo(got[h]["maps"]) + 1

\* A flow of an IP protocol has its session, unless sessions at least as large
\* fill the list.
SessionOfFlow(h) ==
    {"flows", "sessions"} \subseteq DOMAIN cuts[h] =>
        \A k \in cuts[h]["flows"] :
            k.ip /\ (\E m \in 1..got[h]["flows"] - 1 : Shown(m) /\ ingested[m].key = k) =>
                k \in cuts[h]["sessions"] \/ CutShort(h, "sessions", k)

\* A finding has its packet, unless the filter hides it.
PacketOfFinding(h) ==
    {"security", "store"} \subseteq DOMAIN got[h] =>
        \A n \in 1..got[h]["security"] - 1 :
            ingested[n].raises /\ Shown(n) => n \in StoreAt(got[h]["store"])

\* A session has its packets.
PacketsOfSession(h) ==
    {"sessions", "store"} \subseteq DOMAIN got[h] =>
        \A k \in cuts[h]["sessions"] : \A m \in 1..got[h]["sessions"] - 1 :
            Shown(m) /\ ingested[m].key = k => m \in StoreAt(got[h]["store"])

\* A report is not of one moment, but what it refers to is in it, although any
\* number of frames may be ingested while it is made: what a part has of a frame is
\* in the part it refers to, but for the last frame that part had seen.  Three things
\* are never there: the packet of a finding that the filter hides, the session of a
\* flow that is not of an IP protocol, and a session too small for the list
\* (engine.go:318-345, 410-427, 450-458; stats/engine.go:62-105; player.go:62-71).
ReportIsBacked ==
    \A h \in Handlers :
        ProtocolsOfPackets(h) /\ SessionOfFlow(h) /\ PacketOfFinding(h) /\ PacketsOfSession(h)

\* A chapter of the story names a session between the hosts of its finding, not one
\* that merely shares a host, if its frame is of an IP protocol and the filter shows
\* it; only the newest finding may still lack it, and findings whose session is
\* smaller than all of those the story was built from, the 80 largest
\* (story.go:55-125, engine.go:410-412, player.go:167-191).
ChapterHasSession ==
    \A h \in Handlers : {"storyFindings", "storySessions"} \subseteq DOMAIN got[h] =>
        \A n \in DOMAIN Chapters(h) :
            n < got[h]["storyFindings"] /\ Shown(n) /\ ingested[n].key.ip =>
                \/ /\ Chapters(h)[n] # {}
                   /\ \A k \in Chapters(h)[n] : k.hosts = HostsOf(ingested[n])
                \/ CutShort(h, "storySessions", ingested[n].key)

\* A dashboard that connects never shows fewer packets than had been counted when
\* it was registered, though its first message may overtake or be overtaken by
\* Run's own (server.go:386-399, engine.go:277-283).
NewTableIsCurrent == table >= 0 => table >= connectedAt
=============================================================================
