-------------------------------- MODULE Engine --------------------------------
(***************************************************************************)
(* engine.Engine: the Run goroutine (open the source, loop over packets,   *)
(* ingest, final broadcasts, deferred clean-up), the flusher goroutine it  *)
(* starts (FeedQueue), the callers of Pause, Resume and Stop (one HTTP     *)
(* handler or WebSocket reader goroutine each), the exit that runDashboard *)
(* makes when Run fails, and what one dashboard is shown: broadcasts from  *)
(* the moment its connection is registered, and the greeting that          *)
(* Server.handleWS sends it then.                                          *)
(*                                                                         *)
(* A packet is its number.  Whether it passes the display filter, raises a *)
(* finding or can be recorded is a choice made when it is ingested.  An    *)
(* atomic load or store, a critical section and the delivery of an event   *)
(* by Broadcast are one action each; Status() is evaluated before          *)
(* Broadcast delivers it, so the two are separate actions.                 *)
(***************************************************************************)
EXTENDS FeedQueue

CONSTANTS
    Mode,           \* "file", "iface" or "stdin": cfg.Path, cfg.Iface, cfg.Stdin
    Kernel,         \* cfg.Kernel with cfg.Iface # "any"
    Record,         \* cfg.WritePath is set
    MaxPackets,     \* cfg.MaxPackets, 0 for no limit
    MaxStore,       \* e.maxStore (50000 in the code)
    Ctl,            \* goroutines that call Pause, Resume and Stop
    WSReaders,      \* the ones that are WebSocket reader goroutines
    MaxCalls,       \* bound: calls made during one behaviour
    Joins           \* bound: the dashboard connects during the behaviour;
                    \* otherwise it is connected, and greeted, from the start

ASSUME ModeAssumption == Mode \in {"file", "iface", "stdin"}
ASSUME FlagsAssumption == Kernel \in BOOLEAN /\ Record \in BOOLEAN /\ Joins \in BOOLEAN
ASSUME MaxPacketsAssumption == MaxPackets \in Nat
ASSUME MaxStoreAssumption == MaxStore \in Nat /\ MaxStore >= 4
ASSUME CtlAssumption == WSReaders \subseteq Ctl /\ MaxCalls \in Nat
ASSUME HubAssumption == Ctl # {} => HasHub

VARIABLES
    pc,             \* where Run is
    source,         \* e.source
    result,         \* what Run returned: "none" yet, "ok" or "error"
    running,        \* e.running
    paused,         \* e.paused
    stopped,        \* e.stopCh is closed
    pktNo,          \* e.pktNo
    matched,        \* Run's local matched
    recorded,       \* packets written by e.pcapWriter
    observed,       \* frames seen by Stats, Flows and Sessions
    frames,         \* e.frames
    st,             \* the Status() Run is about to broadcast (its "paused"),
                    \* FALSE when there is none
    cpc, cst,       \* per caller: where it is, the Status() it is about to send
    calls,          \* calls begun so far
    proc,           \* the process: "up", "crashed" by a panic, "exited"
    pill,           \* dashboard: "paused" of the last status event
    shownStats,     \* dashboard: packets of the last stats event
    lastAlert,      \* dashboard: frame of the last alert event
    doneSent,       \* dashboard: the done event was delivered
    greet,          \* where its handleWS is: "off" before it is registered
    hello,          \* the Stats.Snapshot() handleWS is about to send
    helloSt,        \* the Status() it is about to send
    lateHello,      \* history: that snapshot was older than the last broadcast
    stored,         \* history: every frame given to store
    sincePause,     \* history: packets numbered since ingestion was paused
    sinceStop,      \* history: packets numbered since stopCh was closed
    overlapped,     \* history: two Stop calls were both about to close
    panicked        \* history: a Stop closed a closed channel

lifeVars == <<source, result, running>>
countVars == <<pktNo, matched, observed>>
storeVars == <<recorded, frames, stored>>
pauseHist == <<sincePause, sinceStop>>
runVars == <<pc, st, lifeVars, countVars, storeVars, pauseHist>>
ctlVars == <<cpc, cst, calls>>
helloVars == <<greet, hello, helloSt, lateHello>>
uiVars == <<pill, shownStats, lastAlert, doneSent, helloVars>>
flagVars == <<paused, stopped, proc, overlapped, panicked>>
vars == <<feedVars, runVars, ctlVars, uiVars, flagVars>>

Live == Mode # "file"

\* The dashboard is among the hub's connections.
Connected == HasHub /\ greet # "off"

Init ==
    /\ FQInit
    /\ pc = "open" /\ source = "" /\ result = "none"
    /\ running = FALSE /\ paused = FALSE /\ stopped = FALSE
    /\ pktNo = 0 /\ matched = 0 /\ observed = 0
    /\ recorded = <<>> /\ frames = <<>> /\ stored = <<>>
    /\ st = FALSE
    /\ cpc = [c \in Ctl |-> "idle"]
    /\ cst = [c \in Ctl |-> FALSE]
    /\ calls = 0
    /\ proc = "up"
    /\ pill = FALSE /\ shownStats = 0 /\ lastAlert = 0 /\ doneSent = FALSE
    /\ greet = IF Joins THEN "off" ELSE "done"
    /\ hello = 0 /\ helloSt = FALSE /\ lateHello = FALSE
    /\ sincePause = 0 /\ sinceStop = 0
    /\ overlapped = FALSE /\ panicked = FALSE

-----------------------------------------------------------------------------
(* Run, up to its loop.                                                    *)

\* Definitions marked "Bug:" are not part of the model: each is the definition
\* that follows it with a plausible mistake, used to show that a property
\* notices.

\* openSource: the kernel tap falls back to tcpdump when it is unavailable.
Sources == CASE Mode = "stdin" -> {"stdin"}
             [] Mode = "iface" -> IF Kernel THEN {"kernel", "tcpdump"} ELSE {"tcpdump"}
             [] Mode = "file"  -> {"file"}

OpenSource ==
    /\ pc = "open"
    /\ source' \in Sources
    /\ \/ pc' = "create" /\ UNCHANGED result
       \/ source' # "kernel" /\ pc' = "returned" /\ result' = "error"
    /\ UNCHANGED <<feedVars, ctlVars, uiVars, flagVars, countVars, storeVars,
                   pauseHist, st, running>>

CreateWriterFails ==
    /\ pc = "create"
    /\ Record
    /\ pc' = "returned"
    /\ result' = "error"
    /\ UNCHANGED <<feedVars, ctlVars, uiVars, flagVars, countVars, storeVars,
                   pauseHist, st, source, running>>

StartRun ==
    /\ pc = "create"
    /\ running' = TRUE
    /\ StartFlushLoop
    /\ pc' = IF HasHub THEN "hello" ELSE "top"
    /\ UNCHANGED <<ctlVars, uiVars, flagVars, countVars, storeVars, pauseHist, st,
                   source, result>>

-----------------------------------------------------------------------------
(* Broadcast("status", e.Status()): at the start ("hello") and among the   *)
(* final broadcasts ("status").                                            *)

EvalStatus ==
    /\ pc \in {"hello", "status"}
    /\ st' = paused
    /\ pc' = IF pc = "hello" THEN "sendHello" ELSE "sendStatus"
    /\ UNCHANGED <<feedVars, ctlVars, uiVars, flagVars, lifeVars, countVars,
                   storeVars, pauseHist>>

SendStatus ==
    /\ pc \in {"sendHello", "sendStatus"}
    /\ pill' = IF Connected THEN st ELSE pill
    /\ st' = FALSE
    /\ pc' = IF pc = "sendHello" THEN "top" ELSE IF Live THEN "return" ELSE "doneEvent"
    /\ UNCHANGED <<feedVars, ctlVars, flagVars, lifeVars, countVars, storeVars,
                   pauseHist, shownStats, lastAlert, doneSent, helloVars>>

-----------------------------------------------------------------------------
(* The packet loop.                                                        *)

Goto(label) ==
    /\ pc' = label
    /\ UNCHANGED <<feedVars, ctlVars, uiVars, flagVars, lifeVars, countVars,
                   storeVars, pauseHist, st>>

\* select { case <-e.stopCh: goto done; default: }
CheckStop == pc = "top" /\ Goto(IF stopped THEN "done" ELSE "pauseLoop")

\* Bug: the pause flag is not honoured.
PauseLoopSkipped == pc = "pauseLoop" /\ Goto("next")

\* Bug: a paused engine does not see stopCh.
PauseLoopDeaf == pc = "pauseLoop" /\ ~paused /\ Goto("next")

\* for e.paused.Load() { select stopCh or 50ms }: a poll that finds the engine
\* still paused and not stopped changes nothing.
PauseLoop ==
    /\ pc = "pauseLoop"
    /\ \/ ~paused /\ Goto("next")
       \/ paused /\ stopped /\ Goto("done")

\* src.Next().  A file ends, or turns out to be damaged, after any number of
\* packets; a tcpdump or stdin stream may also stay silent, and a kernel tap
\* can do nothing else: its Next retries on every receive error.
NextPacket == pc = "next" /\ pktNo + 1 \in Rows /\ Goto("ingest")

NextEOF == pc = "next" /\ source # "kernel" /\ Goto("done")

NextError ==
    /\ pc = "next"
    /\ source # "kernel"
    /\ result' = "error"
    /\ pc' = "return"
    /\ UNCHANGED <<feedVars, ctlVars, uiVars, flagVars, countVars, storeVars,
                   pauseHist, st, source, running>>

\* ingest up to the filter: number the packet, record it (a failed write is
\* ignored), dissect it, let the analyzer see it and broadcast its alert.
IngestPacket ==
    /\ pc = "ingest"
    /\ pktNo' = pktNo + 1
    /\ sincePause' = IF paused THEN sincePause + 1 ELSE sincePause
    /\ sinceStop' = IF stopped THEN sinceStop + 1 ELSE sinceStop
    /\ recorded' \in {recorded} \cup (IF Record THEN {Append(recorded, pktNo + 1)} ELSE {})
    /\ lastAlert' \in {lastAlert} \cup (IF Connected THEN {pktNo + 1} ELSE {})
    /\ \E pass \in BOOLEAN : pc' = IF pass THEN "observe" ELSE "count"
    /\ UNCHANGED <<feedVars, ctlVars, flagVars, lifeVars, matched, observed, frames,
                   stored, st, pill, shownStats, doneSent, helloVars>>

\* Stats.Observe, Flows.Observe, Sessions.Observe
ObserveFrame ==
    /\ pc = "observe"
    /\ observed' = observed + 1
    /\ pc' = "store"
    /\ UNCHANGED <<feedVars, ctlVars, uiVars, flagVars, lifeVars, storeVars,
                   pauseHist, st, pktNo, matched>>

\* Bug: trimming keeps the oldest frames.
TrimStoreWrongEnd(s) == IF Len(s) >= MaxStore THEN SubSeq(s, 1, Len(s) - Len(s) \div 4) ELSE s

\* store(f): a full store loses its oldest quarter before the append.
TrimStore(s) == IF Len(s) >= MaxStore THEN SubSeq(s, (Len(s) \div 4) + 1, Len(s)) ELSE s

StoreFrame ==
    /\ pc = "store"
    /\ frames' = Append(TrimStore(frames), pktNo)
    /\ stored' = Append(stored, pktNo)
    /\ pc' = "queue"
    /\ UNCHANGED <<feedVars, ctlVars, uiVars, flagVars, lifeVars, countVars,
                   pauseHist, st, recorded>>

QueueRow ==
    /\ pc = "queue"
    /\ QueueWS(pktNo)
    /\ pc' = "count"
    /\ UNCHANGED <<ctlVars, uiVars, flagVars, lifeVars, countVars, storeVars,
                   pauseHist, st>>

LimitReached(n) == MaxPackets > 0 /\ n >= MaxPackets

\* matched++, the periodic broadcasts (if 500ms have passed), the limit.
CountPacket ==
    /\ pc = "count"
    /\ matched' = matched + 1
    /\ shownStats' \in {shownStats} \cup (IF Connected THEN {observed} ELSE {})
    /\ pc' = IF LimitReached(matched + 1) THEN "done" ELSE "top"
    /\ UNCHANGED <<feedVars, ctlVars, flagVars, lifeVars, storeVars, pauseHist, st,
                   pktNo, observed, pill, lastAlert, doneSent, helloVars>>

-----------------------------------------------------------------------------
(* done: the final broadcasts and the deferred calls.                      *)

\* Bug: the last stats are not broadcast again.
FinalStatsSkipped == shownStats

FinalStats == IF Connected THEN observed ELSE shownStats

FinalBroadcasts ==
    /\ pc = "done"
    /\ shownStats' = FinalStats
    /\ lateHello' = (greet = "sendStats")
    /\ pc' = IF HasHub THEN "status" ELSE "return"
    /\ UNCHANGED <<feedVars, ctlVars, flagVars, lifeVars, countVars, storeVars,
                   pauseHist, st, pill, lastAlert, doneSent, greet, hello, helloSt>>

DoneEvent ==
    /\ pc = "doneEvent"
    /\ doneSent' = Connected
    /\ pc' = "return"
    /\ UNCHANGED <<feedVars, ctlVars, flagVars, lifeVars, countVars, storeVars,
                   pauseHist, st, pill, shownStats, lastAlert, helloVars>>

\* close(flushStop), running = false, the writer's and the source's Close
ReturnFromRun ==
    /\ pc = "return"
    /\ CloseFlushStop
    /\ running' = FALSE
    /\ result' = IF result = "error" THEN "error" ELSE "ok"
    /\ pc' = "returned"
    /\ UNCHANGED <<ctlVars, uiVars, flagVars, countVars, storeVars, pauseHist, st,
                   source>>

\* runDashboard: an error of Run ends the process after 100ms.
ExitOnError ==
    /\ pc = "returned"
    /\ result = "error"
    /\ proc' = "exited"
    /\ UNCHANGED <<feedVars, runVars, ctlVars, uiVars, paused, stopped,
                   overlapped, panicked>>

-----------------------------------------------------------------------------
(* handleWS, the handler goroutine of the dashboard's connection: it is    *)
(* registered first, then each part of the greeting is evaluated before    *)
(* the connection's lock is taken to write it.                             *)

GreetGoto(here, there) ==
    /\ greet = here /\ greet' = there
    /\ UNCHANGED <<feedVars, runVars, ctlVars, flagVars, lastAlert, doneSent, lateHello>>

Connect ==
    /\ HasHub
    /\ GreetGoto("off", "stats")
    /\ UNCHANGED <<pill, shownStats, hello, helloSt>>

EvalHello ==
    /\ GreetGoto("stats", "sendStats")
    /\ hello' = observed
    /\ UNCHANGED <<pill, shownStats, helloSt>>

SendHello ==
    /\ GreetGoto("sendStats", "status")
    /\ shownStats' = hello /\ hello' = 0
    /\ UNCHANGED <<pill, helloSt>>

EvalHelloStatus ==
    /\ GreetGoto("status", "sendStatus")
    /\ helloSt' = paused
    /\ UNCHANGED <<pill, shownStats, hello>>

SendHelloStatus ==
    /\ GreetGoto("sendStatus", "done")
    /\ pill' = helloSt /\ helloSt' = FALSE
    /\ UNCHANGED <<shownStats, hello>>

-----------------------------------------------------------------------------
(* Callers of Pause, Resume and Stop.                                      *)

Begin(c) ==
    /\ cpc[c] = "idle"
    /\ calls < MaxCalls
    /\ calls' = calls + 1

\* Pause and Resume: e.paused.Store(p)
SetPaused(c, p) ==
    /\ Begin(c)
    /\ paused' = p
    /\ sincePause' = IF p /\ ~paused THEN 0 ELSE sincePause
    /\ cpc' = [cpc EXCEPT ![c] = "eval"]
    /\ UNCHANGED <<feedVars, uiVars, lifeVars, countVars, storeVars, pc, st, cst,
                   stopped, proc, overlapped, panicked, sinceStop>>

Pause(c) == SetPaused(c, TRUE)
Resume(c) == SetPaused(c, FALSE)

\* ... then e.hub.Broadcast("status", e.Status())
EvalCallerStatus(c) ==
    /\ cpc[c] = "eval"
    /\ cst' = [cst EXCEPT ![c] = paused]
    /\ cpc' = [cpc EXCEPT ![c] = "send"]
    /\ UNCHANGED <<feedVars, runVars, uiVars, flagVars, calls>>

SendCallerStatus(c) ==
    /\ cpc[c] = "send"
    /\ pill' = IF Connected THEN cst[c] ELSE pill
    /\ cst' = [cst EXCEPT ![c] = FALSE]
    /\ cpc' = [cpc EXCEPT ![c] = "idle"]
    /\ UNCHANGED <<feedVars, runVars, flagVars, calls, shownStats, lastAlert,
                   doneSent, helloVars>>

\* Bug: the channel is closed without looking.
AfterSelectUnchecked == "close"

\* Stop's select: a closed channel is left alone.
AfterSelect == IF stopped THEN "idle" ELSE "close"

Stop(c) ==
    /\ Begin(c)
    /\ cpc' = [cpc EXCEPT ![c] = AfterSelect]
    /\ overlapped' = (overlapped \/ (~stopped /\ \E d \in Ctl : cpc[d] = "close"))
    /\ UNCHANGED <<feedVars, runVars, uiVars, cst, paused, stopped, proc, panicked>>

\* Stop's close(e.stopCh).  Closing it twice panics: net/http recovers the
\* panic of a handler, nothing recovers that of a WebSocket reader goroutine.
CloseStopCh(c) ==
    /\ cpc[c] = "close"
    /\ stopped' = TRUE
    /\ panicked' = (panicked \/ stopped)
    /\ proc' = IF stopped /\ c \in WSReaders THEN "crashed" ELSE proc
    /\ cpc' = [cpc EXCEPT ![c] = "idle"]
    /\ UNCHANGED <<feedVars, runVars, uiVars, cst, calls, paused, overlapped>>

-----------------------------------------------------------------------------
FlushStep == FlushLoop /\ UNCHANGED <<runVars, ctlVars, uiVars, flagVars>>

NextReturns == NextPacket \/ NextEOF \/ NextError

RunStep ==
    \/ OpenSource \/ CreateWriterFails \/ StartRun
    \/ EvalStatus \/ SendStatus
    \/ CheckStop \/ PauseLoop
    \/ IngestPacket \/ ObserveFrame \/ StoreFrame \/ QueueRow \/ CountPacket
    \/ FinalBroadcasts \/ DoneEvent \/ ReturnFromRun

Greeting == EvalHello \/ SendHello \/ EvalHelloStatus \/ SendHelloStatus

HandleWS == Connect \/ Greeting

EndCall(c) == EvalCallerStatus(c) \/ SendCallerStatus(c) \/ CloseStopCh(c)

BeginCall(c) == Pause(c) \/ Resume(c) \/ Stop(c)

Next ==
    /\ proc = "up"
    /\ \/ RunStep
       \/ NextReturns
       \/ FlushStep
       \/ HandleWS
       \/ \E c \in Ctl : BeginCall(c) \/ EndCall(c)
       \/ ExitOnError

Spec == Init /\ [][Next]_vars

\* Goroutines that can run do run.  Reading a file returns; nothing says that
\* a live source ever delivers another packet or ends.  Nobody has to press a
\* button.
Alive(A) == proc = "up" /\ A
Fairness ==
    /\ WF_vars(Alive(RunStep))
    /\ Mode = "file" => WF_vars(Alive(NextReturns))
    /\ WF_vars(Alive(TakeBatch(FALSE) /\ UNCHANGED <<runVars, ctlVars, uiVars, flagVars>>))
    /\ SF_vars(Alive(TakeBatch(TRUE) /\ UNCHANGED <<runVars, ctlVars, uiVars, flagVars>>))
    /\ WF_vars(Alive((CountSent \/ BroadcastBatch)
                     /\ UNCHANGED <<runVars, ctlVars, uiVars, flagVars>>))
    /\ WF_vars(Alive(Greeting))
    /\ \A c \in Ctl : WF_vars(Alive(EndCall(c)))

FairSpec == Spec /\ Fairness

-----------------------------------------------------------------------------
PCs == {"open", "create", "hello", "sendHello", "top", "pauseLoop", "next",
        "ingest", "observe", "store", "queue", "count", "done", "status",
        "sendStatus", "doneEvent", "return", "returned"}

GreetPCs == {"off", "stats", "sendStats", "status", "sendStatus", "done"}

\* The dashboard has had the stats of its greeting.
Greeted == greet \in {"status", "sendStatus", "done"}

\* Every variable of the engine stays in its type.
TypeOK ==
    /\ FQTypeOK
    /\ pc \in PCs
    /\ source \in {"", "file", "tcpdump", "kernel", "stdin"}
    /\ result \in {"none", "ok", "error"}
    /\ running \in BOOLEAN /\ paused \in BOOLEAN /\ stopped \in BOOLEAN
    /\ pktNo \in Nat /\ matched \in Nat /\ observed \in Nat
    /\ recorded \in Seq(Nat) /\ frames \in Seq(Nat) /\ stored \in Seq(Nat)
    /\ st \in BOOLEAN
    /\ cpc \in [Ctl -> {"idle", "eval", "send", "close"}]
    /\ cst \in [Ctl -> BOOLEAN]
    /\ calls \in Nat
    /\ proc \in {"up", "crashed", "exited"}
    /\ pill \in BOOLEAN /\ doneSent \in BOOLEAN
    /\ shownStats \in Nat /\ lastAlert \in Nat
    /\ greet \in GreetPCs /\ hello \in Nat
    /\ helloSt \in BOOLEAN /\ lateHello \in BOOLEAN
    /\ sincePause \in Nat /\ sinceStop \in Nat
    /\ overlapped \in BOOLEAN /\ panicked \in BOOLEAN

\* The store holds the newest frames that passed the filter, at most MaxStore
\* of them and never fewer than three quarters of that once so many were
\* stored: trimming in store never opens a gap and never empties it.
StoreKeepsNewest ==
    /\ Len(frames) <= MaxStore
    /\ Len(frames) >= Min2(Len(stored), MaxStore - MaxStore \div 4)
    /\ \A i \in 1..Len(frames) : frames[i] = stored[Len(stored) - Len(frames) + i]

\* A row of the packet table can be opened: a frame reaches the store before
\* its row is queued, so handlePacket misses only rows older than everything
\* that is still stored.
RowsOpenable ==
    \A q \in {wsPending, batch, feed} : \A i \in 1..Len(q) :
        frames # <<>> /\ (q[i] < frames[1] \/ \E k \in 1..Len(frames) : frames[k] = q[i])

\* Pause freezes ingestion up to one packet: the one Run was already waiting
\* for, or working on, when Pause stored the flag.
PauseAlmostFreezes == paused => sincePause <= 1

\* After Stop has closed stopCh at most one more packet is ingested.
StopAlmostImmediate == sinceStop <= 1

\* When Run has ended normally, a dashboard whose greeting has delivered its stats
\* shows every frame that was observed, whenever it connected and although stats are
\* sent only now and then.  The one exception is a greeting whose snapshot was taken
\* before Run's final broadcast and is written after it (server.go:386-396,
\* engine.go:294-302): it takes the final numbers back.
FinalStatsComplete ==
    HasHub /\ pc = "returned" /\ result = "ok" /\ Greeted /\ ~lateHello
        => shownStats = observed

\* Stop may be called again and again: close panics only when two calls were
\* between their select and their close at the same time.
PanicNeedsOverlap == panicked => overlapped

\* The composed engine uses the queue only in the ways FeedQueue allows.
UsesFeedQueue == FQSpec

\* A stopped engine ends: Run returns, unless the process is gone.
StopEnds == stopped ~> (pc = "returned" \/ proc # "up")

\* Whatever was queued reaches the dashboard: when Run has returned the last
\* flush empties the queue, unless the process exits first.
LastFlushHappens == (pc = "returned") ~>
    ((fpc = "exited" /\ wsPending = <<>>) \/ fpc = "off" \/ proc # "up")

=============================================================================
