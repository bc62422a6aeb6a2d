------------------------------ MODULE FeedQueue ------------------------------
(***************************************************************************)
(* The queue between ingestion and the dashboard's packet table:           *)
(* Engine.queueWS (producer: the Run goroutine), Engine.wsFlushLoop and    *)
(* Engine.flushWS (consumer: one goroutine started by Run).  The wsMu      *)
(* critical sections are single actions; what happens between them (the    *)
(* wsSent counter, the Broadcast of the batch) are actions of their own.   *)
(* A row is represented by its frame number (slim()'s "no").               *)
(*                                                                         *)
(* offered, mark and feed are history: no code reads them.                 *)
(***************************************************************************)
EXTENDS Integers, Sequences

CONSTANTS
    Rows,           \* frame numbers
    MaxPending,     \* queueWS's maxPending (36 in the code)
    HasHub          \* FALSE: e.hub == nil (the parse command)

ASSUME RowsAssumption == Rows \subseteq Nat
ASSUME MaxPendingAssumption == MaxPending \in Nat \ {0}
ASSUME HasHubAssumption == HasHub \in BOOLEAN

VARIABLES
    wsPending,      \* e.wsPending
    wsDropped,      \* e.wsDropped
    wsSent,         \* e.wsSent
    batch,          \* flushWS's local batch
    fpc,            \* where wsFlushLoop's goroutine is
    finalFlush,     \* the flush in progress is the one made on <-stop
    flushStop,      \* Run's flushStop channel is closed
    offered,        \* history: every row given to queueWS
    mark,           \* history: Len(offered) when the queue was last emptied
    feed            \* history: rows broadcast in "packets" events, in order

feedVars == <<wsPending, wsDropped, wsSent, batch, fpc, finalFlush,
              flushStop, offered, mark, feed>>

-----------------------------------------------------------------------------
FQInit ==
    /\ wsPending = <<>>
    /\ wsDropped = 0
    /\ wsSent = 0
    /\ batch = <<>>
    /\ fpc = "off"
    /\ finalFlush = FALSE
    /\ flushStop = FALSE
    /\ offered = <<>>
    /\ mark = 0
    /\ feed = <<>>

\* Definitions marked "Bug:" are not part of the model: each is the definition
\* that follows it with a plausible mistake, used to show that a property
\* notices.

Min2(a, b) == IF a < b THEN a ELSE b

\* Bug: a full queue refuses new rows.
DropNewest(q) == SubSeq(q, 1, Min2(Len(q), MaxPending))

\* e.wsPending[drop:]
DropOldest(q) == SubSeq(q, Len(q) - Min2(Len(q), MaxPending) + 1, Len(q))

\* drop := len(e.wsPending) - maxPending
Excess(q) == IF Len(q) > MaxPending THEN Len(q) - MaxPending ELSE 0

\* queueWS(row): append under wsMu, drop the oldest rows above maxPending.
QueueWS(row) ==
    /\ IF HasHub
       THEN LET q == Append(wsPending, row) IN
            /\ wsPending' = DropOldest(q)
            /\ wsDropped' = wsDropped + Excess(q)
            /\ offered' = Append(offered, row)
       ELSE UNCHANGED <<wsPending, wsDropped, offered>>
    /\ UNCHANGED <<wsSent, batch, fpc, finalFlush, flushStop, mark, feed>>

\* go e.wsFlushLoop(flushStop)
StartFlushLoop ==
    /\ fpc = "off"
    /\ fpc' = "wait"
    /\ UNCHANGED <<wsPending, wsDropped, wsSent, batch, finalFlush, flushStop,
                   offered, mark, feed>>

\* Bug: the channel is never closed.
CloseFlushStopForgotten == UNCHANGED feedVars

\* Run's deferred close(flushStop)
CloseFlushStop ==
    /\ flushStop' = TRUE
    /\ UNCHANGED <<wsPending, wsDropped, wsSent, batch, fpc, finalFlush,
                   offered, mark, feed>>

AfterFlush(final) == IF final THEN "exited" ELSE "wait"

\* select: a tick may come at any time, <-stop once the channel is closed.
FlushDue(final) == final => flushStop

\* e.wsPending = nil
LeftBehind == <<>>

\* flushWS's critical section, entered on a tick (final = FALSE) or because
\* the stop channel is closed; an empty batch ends the flush at once.
TakeBatch(final) ==
    /\ fpc = "wait"
    /\ FlushDue(final)
    /\ batch' = wsPending
    /\ wsPending' = LeftBehind
    /\ mark' = Len(offered)
    /\ finalFlush' = final
    /\ fpc' = IF wsPending = <<>> THEN AfterFlush(final) ELSE "count"
    /\ UNCHANGED <<wsDropped, wsSent, flushStop, offered, feed>>

\* Bug: batches are counted instead of rows.
RowsSentBatches == 1

\* uint64(len(batch))
RowsSent == Len(batch)

CountSent ==
    /\ fpc = "count"
    /\ wsSent' = wsSent + RowsSent
    /\ fpc' = "send"
    /\ UNCHANGED <<wsPending, wsDropped, batch, finalFlush, flushStop,
                   offered, mark, feed>>

\* e.hub.Broadcast("packets", batch)
BroadcastBatch ==
    /\ fpc = "send"
    /\ feed' = feed \o batch
    /\ batch' = <<>>
    /\ fpc' = AfterFlush(finalFlush)
    /\ UNCHANGED <<wsPending, wsDropped, wsSent, finalFlush, flushStop,
                   offered, mark>>

FlushLoop == (\E final \in BOOLEAN : TakeBatch(final)) \/ CountSent \/ BroadcastBatch

-----------------------------------------------------------------------------
\* The queue with the most general producer its caller can be: Run starts the
\* loop, queues rows of increasing number, and closes flushStop when it ends.
Newer(row) == \A i \in 1..Len(offered) : offered[i] < row

Produce(row) ==
    /\ fpc # "off"
    /\ ~flushStop
    /\ Newer(row)
    /\ QueueWS(row)

FQNext ==
    \/ \E row \in Rows : Produce(row)
    \/ StartFlushLoop
    \/ fpc # "off" /\ CloseFlushStop
    \/ FlushLoop

FQSpec == FQInit /\ [][FQNext]_feedVars

-----------------------------------------------------------------------------
\* Rows queued since the queue was last emptied.
SinceTake == SubSeq(offered, mark + 1, Len(offered))

InHand == IF fpc = "count" THEN Len(batch) ELSE 0

\* Every variable of the queue stays in its type.
FQTypeOK ==
    /\ wsPending \in Seq(Rows)
    /\ wsDropped \in Nat
    /\ wsSent \in Nat
    /\ batch \in Seq(Rows)
    /\ fpc \in {"off", "wait", "count", "send", "exited"}
    /\ finalFlush \in BOOLEAN
    /\ flushStop \in BOOLEAN
    /\ offered \in Seq(Rows)
    /\ mark \in Nat
    /\ feed \in Seq(Rows)

\* ws_sent and ws_dropped, which the dashboard shows as "ui-sent" and
\* "ui-drop", account for every row given to queueWS except the ones still in
\* the queue or in a batch flushWS has taken and not counted yet: rows are
\* neither lost without being counted nor counted twice.
RowsAccounted == wsSent + wsDropped + Len(wsPending) + InHand = Len(offered)

\* queueWS keeps the newest rows: whatever the interleaving of queueWS and
\* flushWS, the queue holds exactly the newest MaxPending of the rows queued
\* since it was last emptied.
KeepsNewest ==
    /\ Len(wsPending) = Min2(Len(offered) - mark, MaxPending)
    /\ \A i \in 1..Len(wsPending) :
          wsPending[i] = offered[Len(offered) - Len(wsPending) + i]

\* The table never goes backwards: the rows of successive "packets" events
\* carry strictly increasing frame numbers, so no row is sent twice.
FeedInOrder == \A i, j \in 1..Len(feed) : i < j => feed[i] < feed[j]

\* The flush wsFlushLoop makes on <-stop loses nothing that was still worth
\* showing: once the loop has returned, the newest MaxPending rows ever
\* queued have all been broadcast, as the last rows of the feed.
NewestRowsShown ==
    fpc = "exited" =>
        LET n == Min2(Len(offered), MaxPending) IN
        /\ Len(feed) >= n
        /\ \A i \in 0..n-1 : feed[Len(feed) - i] = offered[Len(offered) - i]

\* The eager dropping of queueWS implements the promise of LossyFeed, where
\* nothing is dropped before a collection.
Feed == INSTANCE LossyFeed WITH K <- MaxPending, window <- SinceTake,
                                hand <- batch, shown <- feed
ImplementsLossyFeed == Feed!Spec

=============================================================================
