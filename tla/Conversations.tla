---------------------------- MODULE Conversations ----------------------------
(***************************************************************************)
(* The two tables of conversations that Engine.ingest fills, one after the *)
(* other, with every frame that passes the filter: flow.Tracker (listed by *)
(* /api/flows and the exports) and session.Player (the Session Player).    *)
(* Both are bounded: a new conversation pushes out the one that was        *)
(* entered first, active or not, and a conversation that was pushed out    *)
(* starts again from nothing when it is seen next.                         *)
(*                                                                         *)
(* An Observe is one critical section; HTTP handlers copy a table between  *)
(* two of them, also between the tracker's and the player's.  A frame is   *)
(* what Dissect leaves of it; addresses and ports are numbers, which stand *)
(* for strings in their order.  Timestamps are frame numbers, which count  *)
(* the frames that pass the filter.  SNI and JA3 are kept like app.        *)
(*                                                                         *)
(* seen, flowBorn and sessionBorn are history: no code reads them.         *)
(***************************************************************************)
EXTENDS Integers, Sequences, FiniteSetsExt

CONSTANTS
    Frames,         \* the frames that may be observed
    TrackerLimit,   \* NewTracker's limit (10000 in engine.New)
    PlayerLimit,    \* NewPlayer's limit (3000 in engine.New)
    MaxEv,          \* Player.maxEv (80)
    MaxFr,          \* Player.maxFr (200)
    MaxFrames       \* bound: frames observed

Flags == {"SYN", "ACK", "PSH", "FIN", "RST"}

\* src and dst are Frame.Src and Frame.Dst, ipProto is Meta["ip_proto"] ("" for
\* a frame that is not IP, which then has no Meta["ip_src"] either), app is
\* Frame.Protocol.
FrameType ==
    [src : Nat, dst : Nat, sport : Nat, dport : Nat, ipProto : STRING,
     app : STRING, flags : SUBSET Flags, length : Nat]

SessionApps == {"DNS", "TLS", "HTTP", "HTTP/2", "QUIC"}

\* Only the dissectors behind IP set one of SessionApps, and a frame that is not
\* IP is named after a layer that no IP protocol is named like (ipProtoName).
ASSUME FramesAssumption ==
    /\ Frames \subseteq FrameType
    /\ \A f \in Frames : f.ipProto = "" =>
           /\ f.app \notin SessionApps
           /\ \A g \in Frames : g.ipProto # "" => f.app # g.ipProto
ASSUME LimitsAssumption ==
    /\ TrackerLimit \in Nat \ {0} /\ PlayerLimit \in Nat \ {0}
    /\ MaxEv \in Nat /\ MaxFr \in Nat /\ MaxFrames \in Nat

VARIABLES
    flows,          \* Tracker.flows
    flowOrder,      \* Tracker.order
    sessions,       \* Player.byKey
    sessionOrder,   \* Player.order
    current,        \* the last frame has been observed by the tracker only
    seen,           \* history: the frames observed
    flowBorn,       \* history: per key, the frame that last entered it
    sessionBorn     \* history: per key, the frame that last entered it

trackerVars == <<flows, flowOrder, flowBorn>>
playerVars == <<sessions, sessionOrder, sessionBorn>>
convVars == <<trackerVars, playerVars, current, seen>>

-----------------------------------------------------------------------------
Empty == [k \in {} |-> 0]

ConvInit ==
    /\ flows = Empty /\ flowOrder = <<>>
    /\ sessions = Empty /\ sessionOrder = <<>>
    /\ current = FALSE
    /\ seen = <<>>
    /\ flowBorn = Empty /\ sessionBorn = Empty

\* flowKey: the same for both directions of a conversation.
KeyOf(f) ==
    LET proto == IF f.ipProto = "" THEN f.app ELSE f.ipProto
        swap == f.src > f.dst \/ (f.src = f.dst /\ f.sport > f.dport)
    IN  IF swap THEN <<proto, f.dst, f.dport, f.src, f.sport>>
                ELSE <<proto, f.src, f.sport, f.dst, f.dport>>

\* Bug: the limit is taken to be inclusive.
FullLate(table, limit) == Cardinality(DOMAIN table) > limit

Full(table, limit) == Cardinality(DOMAIN table) >= limit

\* delete(table, order[0]) when the table is full
PushedOut(table, order, limit) == IF Full(table, limit) THEN {order[1]} ELSE {}

Put(table, k, c) == [j \in DOMAIN table \cup {k} |-> IF j = k THEN c ELSE table[j]]

Without(table, S) == [j \in DOMAIN table \ S |-> table[j]]

\* The table and the order once there is an entry for k.
WithEntry(table, order, limit, k, c) ==
    IF k \in DOMAIN table THEN table
    ELSE Put(Without(table, PushedOut(table, order, limit)), k, c)

OrderWithEntry(table, order, limit, k) ==
    IF k \in DOMAIN table THEN order
    ELSE Append(IF Full(table, limit) THEN Tail(order) ELSE order, k)

Born(born, table, k, no) == IF k \in DOMAIN table THEN born ELSE Put(born, k, no)

-----------------------------------------------------------------------------
NewFlow(f, no) ==
    [src |-> f.src, dst |-> f.dst, packets |-> 0, bytes |-> 0,
     first |-> no, last |-> no, flags |-> {}, app |-> ""]

\* Bug: only frames with flags count.
CountFlowFlagged(c, f, no) ==
    [c EXCEPT !.packets = IF f.flags = {} THEN @ ELSE @ + 1, !.bytes = @ + f.length,
              !.last = no, !.flags = @ \cup f.flags]

\* mergeFlags keeps the union; the last application protocol named stays.
CountFlow(c, f, no) ==
    [c EXCEPT !.packets = @ + 1, !.bytes = @ + f.length, !.last = no,
              !.flags = @ \cup f.flags,
              !.app = IF f.app \in SessionApps \cup {"SSH"} THEN f.app ELSE @]

\* Tracker.Observe(f).  Dissect leaves no frame without a key.
TrackerObserve(f) ==
    LET no == Len(seen) + 1
        k == KeyOf(f)
    IN  /\ ~current /\ no <= MaxFrames
        /\ flows' = LET t == WithEntry(flows, flowOrder, TrackerLimit, k, NewFlow(f, no))
                    IN  Put(t, k, CountFlow(t[k], f, no))
        /\ flowOrder' = OrderWithEntry(flows, flowOrder, TrackerLimit, k)
        /\ flowBorn' = Born(flowBorn, flows, k, no)
        /\ seen' = Append(seen, f)
        /\ current' = TRUE
        /\ UNCHANGED playerVars

-----------------------------------------------------------------------------
\* classify: the kind of beat, "" for none.
Classify(f) ==
    CASE {"SYN", "ACK"} \subseteq f.flags -> "synack"
      [] "SYN" \in f.flags /\ "ACK" \notin f.flags -> "syn"
      [] "SYN" \notin f.flags /\ "FIN" \in f.flags -> "fin"
      [] "SYN" \notin f.flags /\ "FIN" \notin f.flags /\ "RST" \in f.flags -> "rst"
      [] OTHER -> IF f.app \in SessionApps \cup {"mDNS"} THEN f.app
                  ELSE IF f.length > 60 /\ f.app \in {"TCP", "UDP"} THEN "data" ELSE ""

\* dir: who sent the frame, where the client is whoever sent the entry's first.
Side(s, f) == IF f.src = s.src THEN "c2s" ELSE IF f.src = s.dst THEN "s2c" ELSE "-"

NewSession(f, no) ==
    [src |-> f.src, dst |-> f.dst, packets |-> 0, bytes |-> 0,
     first |-> no, last |-> no, app |-> "", clientBytes |-> 0, serverBytes |-> 0,
     frameNos |-> <<>>, events |-> <<>>]

\* Bug: the cap is one too high.
RoomForBeyond(seq, max) == Len(seq) <= max

RoomFor(seq, max) == Len(seq) < max

\* Bug: a session whose frame numbers are full is not counted any more.
CountSessionUntilFull(s, f, no) ==
    IF ~RoomFor(s.frameNos, MaxFr) THEN s
    ELSE [s EXCEPT !.packets = @ + 1, !.bytes = @ + f.length, !.last = no,
                   !.frameNos = Append(@, no)]

CountSession(s, f, no) ==
    LET side == Side(s, f)
    IN  [s EXCEPT
           !.packets = @ + 1, !.bytes = @ + f.length, !.last = no,
           !.app = IF f.app \in SessionApps \cup {"SSH", "DHCP"} THEN f.app ELSE @,
           !.frameNos = IF RoomFor(@, MaxFr) THEN Append(@, no) ELSE @,
           !.clientBytes = IF side = "c2s" THEN @ + f.length ELSE @,
           !.serverBytes = IF side = "s2c" THEN @ + f.length ELSE @,
           !.events = IF Classify(f) # "" /\ RoomFor(@, MaxEv)
                      THEN Append(@, [frame |-> no, kind |-> Classify(f), dir |-> side])
                      ELSE @]

\* Player.Observe returns at once unless the frame is IP.
Playable(f) == f.ipProto # "" \/ f.app \in SessionApps

\* Player.Observe(f), called next with the same frame.
PlayerObserve ==
    LET no == Len(seen)
        f == seen[no]
        k == KeyOf(f)
    IN  /\ current /\ current' = FALSE
        /\ IF Playable(f)
           THEN /\ sessions' = LET t == WithEntry(sessions, sessionOrder, PlayerLimit, k,
                                                  NewSession(f, no))
                               IN  Put(t, k, CountSession(t[k], f, no))
                /\ sessionOrder' = OrderWithEntry(sessions, sessionOrder, PlayerLimit, k)
                /\ sessionBorn' = Born(sessionBorn, sessions, k, no)
           ELSE UNCHANGED playerVars
        /\ UNCHANGED <<trackerVars, seen>>

ConvNext == (\E f \in Frames : TrackerObserve(f)) \/ PlayerObserve

ConvSpec == ConvInit /\ [][ConvNext]_convVars

-----------------------------------------------------------------------------
Keys == {KeyOf(f) : f \in Frames}

AppNames == SessionApps \cup {"SSH", "DHCP", ""}

FlowType ==
    [src : Nat, dst : Nat, packets : Nat, bytes : Nat, first : Nat, last : Nat,
     flags : SUBSET Flags, app : AppNames]

EventType ==
    [frame : Nat, dir : {"c2s", "s2c", "-"},
     kind : SessionApps \cup {"syn", "synack", "fin", "rst", "mDNS", "data", ""}]

SessionType ==
    [src : Nat, dst : Nat, packets : Nat, bytes : Nat, first : Nat, last : Nat,
     app : AppNames, clientBytes : Nat, serverBytes : Nat, frameNos : Seq(Nat),
     events : Seq(EventType)]

\* Type invariant of the two tables (tracker.go:27-32, player.go:40-47).
ConvTypeOK ==
    /\ seen \in Seq(Frames) /\ current \in BOOLEAN
    /\ flowOrder \in Seq(Keys) /\ sessionOrder \in Seq(Keys)
    /\ DOMAIN flows \subseteq Keys /\ DOMAIN sessions \subseteq Keys
    /\ \A k \in DOMAIN flows : flows[k] \in FlowType
    /\ \A k \in DOMAIN sessions : sessions[k] \in SessionType

Fifo(table, order, limit) ==
    /\ Cardinality(DOMAIN table) = Len(order) /\ Len(order) <= limit
    /\ DOMAIN table = {order[i] : i \in 1 .. Len(order)}
    /\ \A i, j \in 1 .. Len(order) : i < j => table[order[i]].first < table[order[j]].first

\* Each table and its order list the same conversations, each once, oldest
\* first, at most limit of them: so order[0] exists when an Observe needs it, and
\* what it deletes is really there (tracker.go:49-54, player.go:77-81).
TablesAreFifo ==
    /\ Fifo(flows, flowOrder, TrackerLimit)
    /\ Fifo(sessions, sessionOrder, PlayerLimit)

OldestPushedOut(table, born, limit) ==
    \A k \in DOMAIN born \ DOMAIN table :
        /\ Cardinality(DOMAIN table) = limit
        /\ \A j \in DOMAIN table : born[k] < table[j].first

\* A conversation that was entered and is not listed any more made room in a full
\* table, for conversations that were all entered after it (tracker.go:50-53).
PushedOutAreOldest ==
    /\ OldestPushedOut(flows, flowBorn, TrackerLimit)
    /\ OldestPushedOut(sessions, sessionBorn, PlayerLimit)

FramesIn(log, k, from, to) == {i \in from .. to : KeyOf(log[i]) = k}

FramesOf(k, from, to) == FramesIn(seen, k, from, to)

\* The bytes of the frames of k from number first on, added up frame by frame.
BytesSince(k, first) ==
    LET sum[n \in first - 1 .. Len(seen)] ==
            IF n < first THEN 0
            ELSE sum[n - 1] + (IF KeyOf(seen[n]) = k THEN seen[n].length ELSE 0)
    IN  sum[Len(seen)]

\* The counters of a listed flow are those of all its frames since it was
\* entered, in either direction, and of no other frame (tracker.go:73-82).
FlowCounters ==
    \A k \in DOMAIN flows :
        LET mine == FramesOf(k, flows[k].first, Len(seen))
        IN  /\ flows[k].packets = Cardinality(mine)
            /\ flows[k].flags = UNION {seen[i].flags : i \in mine}
            /\ flows[k].last = Max(mine)
FlowBytes ==
    \A k \in DOMAIN flows : flows[k].bytes = BytesSince(k, flows[k].first)
FlowCountsItsFrames == FlowCounters /\ FlowBytes

\* Every byte of a session was sent by the client or by the server: the key pairs
\* the same two addresses that the session took from its first frame
\* (player.go:113-120, frame.go:128-141).
BytesOnOneSide ==
    \A k \in DOMAIN sessions :
        sessions[k].clientBytes + sessions[k].serverBytes = sessions[k].bytes

\* q lists the first elements of S in their order, max of them if there are more.
ListsFirst(q, S, max) ==
    /\ Len(q) = IF Cardinality(S) < max THEN Cardinality(S) ELSE max
    /\ \A n \in 1 .. Len(q) : q[n] \in S /\ Cardinality({i \in S : i <= q[n]}) = n

BeatsIn(log, S) == {i \in S : Classify(log[i]) # ""}

EventFrames(s) == [n \in DOMAIN s.events |-> s.events[n].frame]

\* The frame numbers and the beats kept are those of the session's first frames:
\* the first MaxFr of them, and the first MaxEv that classify, in order
\* (player.go:100-102, 122-128).
TimelineIsPrefix ==
    \A k \in DOMAIN sessions :
        LET mine == FramesOf(k, sessions[k].first, Len(seen) - (IF current THEN 1 ELSE 0))
        IN  /\ ListsFirst(sessions[k].frameNos, mine, MaxFr)
            /\ ListsFirst(EventFrames(sessions[k]), BeatsIn(seen, mine), MaxEv)

\* A conversation in both tables has the same counters in both if both entered it
\* with the same frame, and more of them in the table that entered it earlier,
\* but for the frame the player has still to observe (engine.go:341-342).
TablesAgree ==
    \A k \in DOMAIN flows \cap DOMAIN sessions :
        LET f == flows[k]
            s == sessions[k]
            lag == IF current /\ KeyOf(seen[Len(seen)]) = k THEN 1 ELSE 0
        IN  /\ f.first = s.first => /\ f.packets = s.packets + lag
                                    /\ lag = 0 => f.bytes = s.bytes
            /\ f.first < s.first => f.packets > s.packets + lag
            /\ f.first > s.first => f.packets < s.packets + lag

=============================================================================
