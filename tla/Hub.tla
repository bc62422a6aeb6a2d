--------------------------------- MODULE Hub ---------------------------------
(***************************************************************************)
(* The WebSocket hub of web.Server: Broadcast, called by any goroutine of  *)
(* the engine and by the reader goroutines of the connections themselves;  *)
(* handleWS, which registers a connection and sends it four messages; and  *)
(* the reader goroutine it starts, which executes commands and leaves.     *)
(*                                                                         *)
(* s.mu is a Go RWMutex: a writer that has called Lock keeps new readers   *)
(* out and waits for the present ones.  A connection stands for its *sub,  *)
(* its handler and its reader goroutine.  gorilla/websocket is external: a *)
(* write may succeed while the connection is open and has not failed, and  *)
(* may fail at any time (the peer is gone or slower than the 2s deadline); *)
(* after a failure all later writes fail.                                  *)
(*                                                                         *)
(* joined and inbox are history: no code reads them.                       *)
(***************************************************************************)
EXTENDS Integers, Sequences

CONSTANTS
    Subs,           \* connections, each used once
    Casters,        \* the engine's goroutines that call Broadcast
    Hello,          \* messages handleWS sends first (4 in the code)
    MaxCasts,       \* bound: broadcasts of one engine goroutine
    MaxCommands,    \* bound: commands read from one connection
    Nobody          \* no goroutine

Procs == Subs \cup Casters

ASSUME HubProcsAssumption == Subs \cap Casters = {} /\ Nobody \notin Procs
ASSUME HelloAssumption == Hello \in Nat \ {0} /\ MaxCasts \in Nat /\ MaxCommands \in Nat

VARIABLES
    subs,           \* s.subs
    readers,        \* who holds s.mu for reading
    writer,         \* who has called s.mu.Lock and not yet Unlock
    connMu,         \* per connection: who holds sub.mu
    conn,           \* per connection: "none" yet, "open", "closed" by us
    failed,         \* per connection: the write that failed first: "no",
                    \* "hello" (one of handleWS's) or "cast" (a broadcast)
    greeted,        \* per connection: messages handleWS has sent
    hpc,            \* per goroutine: where it is
    todo,           \* per goroutine: connections its range has still to visit
    dead,           \* per goroutine: its dead slice, minus what it has removed
    casts,          \* per goroutine: broadcasts that reached their loop
    joined,         \* history: casts when the connection was registered
    inbox           \* history: broadcasts written to the connection, as
                    \* <<goroutine, its number of the broadcast>>

lockVars == <<readers, writer>>
wireVars == <<connMu, conn, failed, greeted, inbox>>
castVars == <<todo, dead, casts>>
hubVars == <<subs, lockVars, wireVars, castVars, hpc, joined>>

\* Where a goroutine is when it is not inside Broadcast.
Home(p) == IF p \in Casters THEN "idle" ELSE "read"

HubInit ==
    /\ subs = {}
    /\ readers = {} /\ writer = Nobody
    /\ connMu = [s \in Subs |-> Nobody]
    /\ conn = [s \in Subs |-> "none"]
    /\ failed = [s \in Subs |-> "no"]
    /\ greeted = [s \in Subs |-> 0]
    /\ hpc = [p \in Procs |-> IF p \in Casters THEN "idle" ELSE "new"]
    /\ todo = [p \in Procs |-> {}]
    /\ dead = [p \in Procs |-> {}]
    /\ casts = [p \in Procs |-> 0]
    /\ joined = [s \in Subs |-> [p \in Procs |-> 0]]
    /\ inbox = [s \in Subs |-> <<>>]

-----------------------------------------------------------------------------
(* s.mu                                                                    *)

\* Definitions marked "Bug:" are not part of the model: each is the definition
\* that follows it with a plausible mistake, used to show that a property
\* notices.

\* The guards of the steps that wait for somebody else have names; NobodyStuck
\* is about them.
MayLock(p) == hpc[p] \in {"join", "evict", "leave"} /\ writer = Nobody

\* Lock, first half: keep new readers out.
AnnounceLock(p) ==
    /\ MayLock(p)
    /\ writer' = p
    /\ UNCHANGED <<subs, readers, wireVars, castVars, hpc, joined>>

\* Bug: the lock is taken without waiting for the readers.
ReadersGoneIgnored == TRUE

ReadersGone == readers = {}

MayEnter(p) == writer = p /\ hpc[p] \in {"join", "evict", "leave"} /\ ReadersGone

\* Lock, second half: the readers that were there have gone.
EnterLock(p) ==
    /\ MayEnter(p)
    /\ hpc' = [hpc EXCEPT ![p] = CASE @ = "join"  -> "joining"
                                   [] @ = "evict" -> "evicting"
                                   [] @ = "leave" -> "leaving"]
    /\ UNCHANGED <<subs, lockVars, wireVars, castVars, joined>>

-----------------------------------------------------------------------------
(* Broadcast                                                               *)

\* A goroutine of the engine has something to announce.
BeginCast(p) ==
    /\ p \in Casters /\ hpc[p] = "idle"
    /\ casts[p] < MaxCasts
    /\ hpc' = [hpc EXCEPT ![p] = "rlock"]
    /\ UNCHANGED <<subs, lockVars, wireVars, castVars, joined>>

MayRead(p) == hpc[p] = "rlock" /\ writer = Nobody

RLock(p) ==
    /\ MayRead(p)
    /\ readers' = readers \cup {p}
    /\ todo' = [todo EXCEPT ![p] = subs]
    /\ casts' = [casts EXCEPT ![p] = @ + 1]
    /\ hpc' = [hpc EXCEPT ![p] = "cast"]
    /\ UNCHANGED <<subs, writer, wireVars, dead, joined>>

MayTake(p, s) == hpc[p] = "cast" /\ s \in todo[p] /\ connMu[s] = Nobody

\* sub.mu.Lock() for some connection not yet visited: map order is arbitrary.
TakeConn(p, s) ==
    /\ MayTake(p, s)
    /\ connMu' = [connMu EXCEPT ![s] = p]
    /\ hpc' = [hpc EXCEPT ![p] = "write"]
    /\ UNCHANGED <<subs, lockVars, conn, failed, greeted, inbox, castVars, joined>>

Deliver(p, s) ==
    /\ conn[s] = "open" /\ failed[s] = "no"
    /\ inbox' = [inbox EXCEPT ![s] = Append(@, <<p, casts[p]>>)]
    /\ UNCHANGED <<failed, dead>>

\* dead = append(dead, sub)
FailCast(p, s) ==
    /\ failed' = [failed EXCEPT ![s] = IF @ = "no" THEN "cast" ELSE @]
    /\ dead' = [dead EXCEPT ![p] = @ \cup {s}]
    /\ UNCHANGED inbox

\* Bug: the first failed write ends the loop.
LeftToVisitAborts(p, s) == IF failed'[s] = "no" THEN todo[p] \ {s} ELSE {}

LeftToVisit(p, s) == todo[p] \ {s}

\* WriteMessage within its deadline, sub.mu.Unlock().
WriteCast(p, s) ==
    /\ hpc[p] = "write"
    /\ connMu[s] = p
    /\ Deliver(p, s) \/ FailCast(p, s)
    /\ todo' = [todo EXCEPT ![p] = LeftToVisit(p, s)]
    /\ connMu' = [connMu EXCEPT ![s] = Nobody]
    /\ hpc' = [hpc EXCEPT ![p] = "cast"]
    /\ UNCHANGED <<subs, lockVars, conn, greeted, casts, joined>>

RUnlock(p) ==
    /\ hpc[p] = "cast"
    /\ todo[p] = {}
    /\ readers' = readers \ {p}
    /\ hpc' = [hpc EXCEPT ![p] = IF dead[p] = {} THEN Home(p) ELSE "evict"]
    /\ UNCHANGED <<subs, writer, wireVars, castVars, joined>>

\* sub.c.Close(), if the connection was still registered
CloseEvicted(s) == IF s \in subs THEN [conn EXCEPT ![s] = "closed"] ELSE conn

EvictDead(p, s) ==
    /\ hpc[p] = "evicting"
    /\ s \in dead[p]
    /\ dead' = [dead EXCEPT ![p] = @ \ {s}]
    /\ subs' = subs \ {s}
    /\ conn' = CloseEvicted(s)
    /\ UNCHANGED <<lockVars, connMu, failed, greeted, inbox, todo, casts, hpc, joined>>

\* Bug: Unlock is forgotten.
EndEvictLocked(p) ==
    /\ hpc[p] = "evicting"
    /\ dead[p] = {}
    /\ hpc' = [hpc EXCEPT ![p] = Home(p)]
    /\ UNCHANGED <<subs, lockVars, wireVars, castVars, joined>>

EndEvict(p) ==
    /\ hpc[p] = "evicting"
    /\ dead[p] = {}
    /\ writer' = Nobody
    /\ hpc' = [hpc EXCEPT ![p] = Home(p)]
    /\ UNCHANGED <<subs, readers, wireVars, castVars, joined>>

-----------------------------------------------------------------------------
(* handleWS                                                                *)

\* The request is authorized and upgraded.
Connect(s) ==
    /\ hpc[s] = "new"
    /\ conn' = [conn EXCEPT ![s] = "open"]
    /\ hpc' = [hpc EXCEPT ![s] = "join"]
    /\ UNCHANGED <<subs, lockVars, connMu, failed, greeted, inbox, castVars, joined>>

\* s.subs[sub] = true
Register(s) ==
    /\ hpc[s] = "joining"
    /\ subs' = subs \cup {s}
    /\ joined' = [joined EXCEPT ![s] = casts]
    /\ writer' = Nobody
    /\ hpc' = [hpc EXCEPT ![s] = "hello"]
    /\ UNCHANGED <<readers, wireVars, castVars>>

MayGreet(s) == hpc[s] = "hello" /\ connMu[s] = Nobody

\* writeWS: sub.mu.Lock()
TakeHello(s) ==
    /\ MayGreet(s)
    /\ connMu' = [connMu EXCEPT ![s] = s]
    /\ hpc' = [hpc EXCEPT ![s] = "greet"]
    /\ UNCHANGED <<subs, lockVars, conn, failed, greeted, inbox, castVars, joined>>

GreetedAll(s) == greeted[s] + 1 = Hello

\* writeWS: the write, whose error is ignored, and sub.mu.Unlock(); after the
\* last message the reader goroutine is started.
WriteHello(s) ==
    /\ hpc[s] = "greet"
    /\ \/ conn[s] = "open" /\ failed[s] = "no" /\ UNCHANGED failed
       \/ failed' = [failed EXCEPT ![s] = IF @ = "no" THEN "hello" ELSE @]
    /\ greeted' = [greeted EXCEPT ![s] = @ + 1]
    /\ connMu' = [connMu EXCEPT ![s] = Nobody]
    /\ hpc' = [hpc EXCEPT ![s] = IF GreetedAll(s) THEN "read" ELSE "hello"]
    /\ UNCHANGED <<subs, lockVars, conn, inbox, castVars, joined>>

\* ReadMessage returns a pause or resume command, which broadcasts a status.
ReadCommand(s) ==
    /\ hpc[s] = "read"
    /\ conn[s] = "open"
    /\ casts[s] < MaxCommands
    /\ hpc' = [hpc EXCEPT ![s] = "rlock"]
    /\ UNCHANGED <<subs, lockVars, wireVars, castVars, joined>>

\* ReadMessage fails: the peer closed, or we did.
ReadFails(s) ==
    /\ hpc[s] = "read"
    /\ hpc' = [hpc EXCEPT ![s] = "leave"]
    /\ UNCHANGED <<subs, lockVars, wireVars, castVars, joined>>

SubsLeaving(s) == subs \ {s}

\* delete(s.subs, sub)
Unregister(s) ==
    /\ hpc[s] = "leaving"
    /\ subs' = SubsLeaving(s)
    /\ writer' = Nobody
    /\ hpc' = [hpc EXCEPT ![s] = "close"]
    /\ UNCHANGED <<readers, wireVars, castVars, joined>>

CloseConn(s) ==
    /\ hpc[s] = "close"
    /\ conn' = [conn EXCEPT ![s] = "closed"]
    /\ hpc' = [hpc EXCEPT ![s] = "done"]
    /\ UNCHANGED <<subs, lockVars, connMu, failed, greeted, inbox, castVars, joined>>

-----------------------------------------------------------------------------
CastStep(p) ==
    \/ EnterLock(p)
    \/ \E s \in Subs : TakeConn(p, s) \/ WriteCast(p, s) \/ EvictDead(p, s)
    \/ RUnlock(p) \/ EndEvict(p)

ConnStep(s) == Register(s) \/ TakeHello(s) \/ WriteHello(s) \/ Unregister(s) \/ CloseConn(s)

HubNext ==
    \/ \E p \in Procs : AnnounceLock(p) \/ RLock(p) \/ BeginCast(p) \/ CastStep(p)
    \/ \E s \in Subs : Connect(s) \/ ReadCommand(s) \/ ReadFails(s) \/ ConnStep(s)

HubSpec == HubInit /\ [][HubNext]_hubVars

\* What goes on of itself: goroutines run, a write returns within its deadline,
\* and the read of a connection that we have closed fails.  Clients need not
\* connect, send or close anything, nor the engine announce anything.
CanGo(p) ==
    \/ MayLock(p) \/ MayEnter(p) \/ MayRead(p)
    \/ \E s \in Subs : MayTake(p, s) \/ (hpc[p] = "write" /\ connMu[s] = p)
    \/ hpc[p] = "cast" /\ todo[p] = {}
    \/ hpc[p] \in {"evicting", "joining", "greet", "leaving", "close"}
    \/ p \in Subs /\ (MayGreet(p) \/ (hpc[p] = "read" /\ conn[p] = "closed"))

-----------------------------------------------------------------------------
CastPCs == {"rlock", "cast", "write", "evict", "evicting"}
ConnPCs == {"new", "join", "joining", "hello", "greet", "read", "leave", "leaving",
            "close", "done"}

\* Every variable of the hub stays in its type.
HubTypeOK ==
    /\ subs \subseteq Subs
    /\ readers \subseteq Procs /\ writer \in Procs \cup {Nobody}
    /\ connMu \in [Subs -> Procs \cup {Nobody}]
    /\ conn \in [Subs -> {"none", "open", "closed"}]
    /\ failed \in [Subs -> {"no", "hello", "cast"}]
    /\ greeted \in [Subs -> 0..Hello]
    /\ hpc \in [Procs -> CastPCs \cup ConnPCs \cup {"idle"}]
    /\ todo \in [Procs -> SUBSET Subs]
    /\ dead \in [Procs -> SUBSET Subs]
    /\ casts \in [Procs -> Nat]
    /\ joined \in [Subs -> [Procs -> Nat]]
    /\ inbox \in [Subs -> Seq(Procs \X Nat)]

Ranging(p) == hpc[p] \in {"cast", "write"}
Mutating(p) == hpc[p] \in {"joining", "evicting", "leaving"}

\* The map s.subs is never changed while a Broadcast ranges over it, nor by two
\* goroutines at once: Go would kill the process.
NoMapRace ==
    \A p, q \in Procs : Mutating(p) /\ q # p => ~Mutating(q) /\ ~Ranging(q)

\* A registered connection whose writes have all succeeded has been sent every
\* broadcast since it was registered, once, and those of one goroutine in
\* order, whatever happened to other connections meanwhile; only the broadcast
\* that has not come to it yet is missing.
From(box, p) == {i \in 1..Len(box) : box[i][1] = p}
HasExactly(box, p, first, last) ==
    /\ {box[i][2] : i \in From(box, p)} = first..last
    /\ \A i, j \in From(box, p) : i < j => box[i][2] < box[j][2]
Due(s, p) == casts[p] - (IF s \in todo[p] THEN 1 ELSE 0)
NothingMissed ==
    \A s \in subs : failed[s] = "no" =>
        \A p \in Procs : HasExactly(inbox[s], p, joined[s][p] + 1, Due(s, p))

\* A connection that a broadcast could not write to is unregistered by the
\* time that broadcast returns.
FailedAreEvicted ==
    \A s \in subs : failed[s] = "cast" => \E p \in Procs : s \in dead[p]

\* Broadcast never meets a connection the server itself has closed: it is
\* unregistered first.
ClosedIsUnregistered == \A s \in Subs : conn[s] = "closed" => s \notin subs

\* Nobody is stuck, though writers and readers of s.mu and holders of sub.mu wait
\* for each other: once nobody can go on, every Broadcast and every hello is over,
\* and a connection that is no longer registered is closed and its reader goroutine
\* has ended.  Every step brings some goroutine closer to its end, so this is what
\* becomes of every schedule (server.go:102-128, 375-425).
NobodyStuck ==
    (\A p \in Procs : ~CanGo(p)) =>
        /\ \A p \in Procs : hpc[p] \in {Home(p), "new", "done"}
        /\ \A s \in Subs : greeted[s] > 0 /\ s \notin subs =>
                               hpc[s] = "done" /\ conn[s] = "closed"
=============================================================================
