----------------------------- MODULE EngineProofs -----------------------------
(***************************************************************************)
(* First the queue by itself: for every MaxPending >= 1, every set Rows of *)
(* frame numbers and every interleaving of the producer with the flusher,  *)
(* it accounts for its rows, keeps the newest ones, shows rows in order,   *)
(* loses nothing in its last flush, and implements LossyFeed.              *)
(*                                                                         *)
(* Then the engine, for every choice of the constants (source, limits,     *)
(* callers, number of packets): it keeps its types, uses the queue as      *)
(* FeedQueue allows, so that what is proved of the queue holds of the      *)
(* engine, lets at most one packet through after Pause and after Stop,     *)
(* keeps the newest frames in its store, shows no row whose frame is not   *)
(* there, ends with stats that count every frame, and panics only when two *)
(* Stops overlap.                                                          *)
(***************************************************************************)
EXTENDS Engine, SequenceTheorems, TLAPS


-----------------------------------------------------------------------------
(* The inductive invariant.                                                *)

OfferedInOrder == \A i, j \in 1..Len(offered) : i < j => offered[i] < offered[j]

\* The batch in flushWS's hands is the piece of offered that ends at mark.
BatchEndsAtMark ==
    /\ mark <= Len(offered)
    /\ Len(batch) <= mark
    /\ Len(batch) <= MaxPending
    /\ \A i \in 1..Len(batch) : batch[i] = offered[mark - Len(batch) + i]
    /\ fpc \in {"count", "send"} <=> batch # <<>>

\* Number of rows offered up to the batch in hand.
Before == mark - Len(batch)

\* Nothing shown is newer than the rows before the batch in hand.
FeedBelowBatch ==
    \A i \in 1..Len(feed) : Before >= 1 /\ feed[i] <= offered[Before]

\* Unless the batch in hand is a full one, which may follow dropped rows, the
\* feed ends with the newest rows before it.
FeedEndsNewest ==
    Len(batch) < MaxPending =>
        /\ Len(feed) >= Min2(Before, MaxPending)
        /\ \A i \in 0..Min2(Before, MaxPending) - 1 :
              feed[Len(feed) - i] = offered[Before - i]

\* After the take of the last flush nothing is offered any more.
LastTake ==
    finalFlush \/ fpc = "exited" =>
        flushStop /\ mark = Len(offered) /\ fpc # "wait" /\ fpc # "off"

FQInv ==
    /\ FQTypeOK
    /\ RowsAccounted
    /\ KeepsNewest
    /\ OfferedInOrder
    /\ FeedInOrder
    /\ BatchEndsAtMark
    /\ FeedBelowBatch
    /\ FeedEndsNewest
    /\ LastTake

-----------------------------------------------------------------------------
(* Lemmas about the operators of the queue.                                *)

\* Dropping the oldest rows of a queue keeps its newest ones, at most
\* MaxPending of them, and Excess counts the others.
LEMMA DropOldestFacts ==
    ASSUME NEW q \in Seq(Rows)
    PROVE  /\ DropOldest(q) \in Seq(Rows)
           /\ Len(DropOldest(q)) = Min2(Len(q), MaxPending)
           /\ \A k \in 1..Len(DropOldest(q)) :
                 DropOldest(q)[k] = q[Len(q) - Len(DropOldest(q)) + k]
           /\ Excess(q) \in Nat
           /\ Excess(q) + Len(DropOldest(q)) = Len(q)
<1> DEFINE n == Len(q)
           d == n - Min2(n, MaxPending)
<1>1. n \in Nat /\ d \in Nat /\ d <= n
  BY LenProperties, MaxPendingAssumption DEF Min2
<1>2. \A k \in d + 1..n : q[k] \in Rows
  BY <1>1, ElementOfSeq
<1>3. /\ SubSeq(q, d + 1, n) \in Seq(Rows)
      /\ Len(SubSeq(q, d + 1, n)) = (IF d + 1 <= n THEN n - (d + 1) + 1 ELSE 0)
      /\ \A k \in 1..(n - (d + 1) + 1) : SubSeq(q, d + 1, n)[k] = q[(d + 1) + k - 1]
  <2> HIDE DEF d, n
  <2> QED BY <1>1, <1>2, SubSeqProperties
<1>4. DropOldest(q) = SubSeq(q, d + 1, n)
  BY DEF DropOldest
<1>5. n - (d + 1) + 1 = n - d /\ (IF d + 1 <= n THEN n - (d + 1) + 1 ELSE 0) = n - d
  <2> HIDE DEF d, n
  <2> QED BY <1>1
<1>6. n - d = Min2(n, MaxPending)
  BY <1>1, MaxPendingAssumption DEF Min2
<1>7. /\ DropOldest(q) \in Seq(Rows)
      /\ Len(DropOldest(q)) = n - d
      /\ \A k \in 1..(n - d) : DropOldest(q)[k] = q[d + k]
  <2> HIDE DEF d, n
  <2> QED BY <1>1, <1>3, <1>4, <1>5
<1>8. Excess(q) \in Nat /\ Excess(q) + (n - d) = n
  <2>1. n - d = Min2(n, MaxPending)
    BY <1>6
  <2>2. CASE n > MaxPending
    BY <1>1, <2>1, <2>2, MaxPendingAssumption DEF Excess, Min2
  <2>3. CASE ~(n > MaxPending)
    BY <1>1, <2>1, <2>3, MaxPendingAssumption DEF Excess, Min2
  <2> QED BY <2>2, <2>3
<1> QED
  <2> HIDE DEF d
  <2> QED BY <1>1, <1>6, <1>7, <1>8

\* Appending a row to a sequence of rows.
LEMMA AppendFacts ==
    ASSUME NEW q \in Seq(Rows), NEW row \in Rows
    PROVE  /\ Append(q, row) \in Seq(Rows)
           /\ Len(Append(q, row)) = Len(q) + 1
           /\ \A k \in 1..Len(q) : Append(q, row)[k] = q[k]
           /\ Append(q, row)[Len(q) + 1] = row
  BY AppendProperties, LenProperties

\* The rows of a queue are numbers.
LEMMA RowsAreNumbers ==
    ASSUME NEW q \in Seq(Rows)
    PROVE  Len(q) \in Nat /\ \A k \in 1..Len(q) : q[k] \in Nat /\ q[k] \in Rows
  BY LenProperties, ElementOfSeq, RowsAssumption

-----------------------------------------------------------------------------
(* Every step preserves the invariant.                                     *)

LEMMA ProduceKeepsInv ==
    ASSUME FQInv, NEW row \in Rows, Produce(row)
    PROVE  FQInv'
<1> USE DEF FQInv
<1>1. CASE ~HasHub
  <2>1. UNCHANGED feedVars
    BY <1>1 DEF Produce, QueueWS, feedVars
  <2> QED BY <2>1 DEF feedVars, FQTypeOK, RowsAccounted, InHand, KeepsNewest,
       OfferedInOrder, FeedInOrder, BatchEndsAtMark, FeedBelowBatch, Before,
       FeedEndsNewest, LastTake
<1>2. CASE HasHub
  <2> DEFINE q == Append(wsPending, row)
             n == Len(offered)
             p == Len(wsPending)
  <2>1. /\ wsPending \in Seq(Rows) /\ offered \in Seq(Rows)
        /\ batch \in Seq(Rows) /\ feed \in Seq(Rows) /\ mark \in Nat
        /\ wsDropped \in Nat /\ wsSent \in Nat
        /\ fpc # "off" /\ ~flushStop /\ Newer(row)
        /\ wsPending' = DropOldest(q)
        /\ wsDropped' = wsDropped + Excess(q)
        /\ offered' = Append(offered, row)
        /\ UNCHANGED <<wsSent, batch, fpc, finalFlush, flushStop, mark, feed>>
    BY <1>2 DEF Produce, QueueWS, FQTypeOK
  <2>2. /\ n \in Nat /\ p \in Nat /\ Len(batch) \in Nat /\ Len(feed) \in Nat
        /\ MaxPending \in Nat /\ MaxPending >= 1
    BY <2>1, LenProperties, MaxPendingAssumption
  <2>3. /\ q \in Seq(Rows)
        /\ Len(q) = p + 1
        /\ \A k \in 1..p : q[k] = wsPending[k]
        /\ q[p + 1] = row
    BY <2>1, AppendFacts
  <2>4. /\ offered' \in Seq(Rows)
        /\ Len(offered') = n + 1
        /\ \A k \in 1..n : offered'[k] = offered[k]
        /\ offered'[n + 1] = row
    BY <2>1, AppendFacts
  <2>5. /\ wsPending' \in Seq(Rows)
        /\ Len(wsPending') = Min2(p + 1, MaxPending)
        /\ \A k \in 1..Len(wsPending') :
              wsPending'[k] = q[Len(q) - Len(wsPending') + k]
        /\ Excess(q) \in Nat
        /\ Excess(q) + Len(wsPending') = p + 1
    <3> HIDE DEF q, p
    <3>1. /\ DropOldest(q) \in Seq(Rows)
          /\ Len(DropOldest(q)) = Min2(Len(q), MaxPending)
          /\ \A k \in 1..Len(DropOldest(q)) :
                DropOldest(q)[k] = q[Len(q) - Len(DropOldest(q)) + k]
          /\ Excess(q) \in Nat
          /\ Excess(q) + Len(DropOldest(q)) = Len(q)
      BY <2>3, DropOldestFacts
    <3>2. /\ wsPending' \in Seq(Rows)
          /\ Len(wsPending') = Min2(Len(q), MaxPending)
          /\ \A k \in 1..Len(wsPending') :
                wsPending'[k] = q[Len(q) - Len(wsPending') + k]
          /\ Excess(q) \in Nat
          /\ Excess(q) + Len(wsPending') = Len(q)
      BY <2>1, <3>1, Zenon
    <3>3. Len(q) = p + 1
      BY <2>3
    <3>4. Len(wsPending') = Min2(p + 1, MaxPending) /\ Excess(q) + Len(wsPending') = p + 1
      BY <3>2, <3>3, Zenon
    <3> QED BY <3>2, <3>4, Zenon
  <2>6. Len(wsPending') \in Nat /\ Len(wsPending') <= p + 1
    BY <2>2, <2>5 DEF Min2
  <2> HIDE DEF q, n, p
  <2>7. FQTypeOK'
    BY <2>1, <2>4, <2>5 DEF FQTypeOK
  <2>8. RowsAccounted'
    <3>1. InHand' = InHand /\ InHand \in Nat
      BY <2>1, <2>2 DEF InHand
    <3>2. wsSent + wsDropped + p + InHand = n
      BY DEF RowsAccounted, n, p
    <3>3. wsSent' + wsDropped' + Len(wsPending') + InHand' = Len(offered')
      <4>1. /\ wsSent' = wsSent /\ wsSent \in Nat
            /\ wsDropped' = wsDropped + Excess(q) /\ wsDropped \in Nat
            /\ Len(offered') = n + 1
            /\ Excess(q) \in Nat
            /\ Excess(q) + Len(wsPending') = p + 1
        BY <2>1, <2>4, <2>5
      <4>2. wsSent' + wsDropped' + Len(wsPending') + InHand
              = wsSent + wsDropped + p + InHand + 1
        <5>1. \A e, l \in Nat : e + l = p + 1 =>
                 wsSent + (wsDropped + e) + l + InHand = wsSent + wsDropped + p + InHand + 1
          BY <2>2, <3>1, <4>1
        <5> QED BY <2>6, <4>1, <5>1, Zenon
      <4> QED BY <2>2, <3>1, <3>2, <4>1, <4>2
    <3> QED BY <3>3 DEF RowsAccounted
  <2>9. KeepsNewest'
    <3>1. mark <= n /\ p = Min2(n - mark, MaxPending)
          /\ \A k \in 1..p : wsPending[k] = offered[n - p + k]
      BY DEF BatchEndsAtMark, KeepsNewest, n, p
    <3>2. Len(wsPending') = Min2(n + 1 - mark, MaxPending)
      BY <2>1, <2>2, <2>5, <3>1 DEF Min2
    <3>3. ASSUME NEW k \in 1..Len(wsPending')
          PROVE  wsPending'[k] = offered'[n + 1 - Len(wsPending') + k]
      <4> DEFINE j == p + 1 - Len(wsPending') + k
      <4>1. j \in 1..p + 1 /\ wsPending'[k] = q[j]
        <5>1. j \in 1..p + 1
          BY <2>2, <2>6
        <5>2. wsPending'[k] = q[Len(q) - Len(wsPending') + k] /\ Len(q) = p + 1
          BY <2>3, <2>5
        <5>3. Len(q) - Len(wsPending') + k = j
          BY <2>2, <2>6, <5>2
        <5> QED BY <5>1, <5>2, <5>3
      <4>2. n + 1 - Len(wsPending') + k = n - p + j /\ p <= n
        <5>1. mark \in Nat /\ k \in Nat
          BY <2>1, <2>6
        <5>2. p <= n
          BY <2>2, <3>1, <5>1 DEF Min2
        <5> QED BY <2>2, <2>6, <5>1, <5>2
      <4> HIDE DEF j
      <4>3. CASE j = p + 1
        BY <4>1, <4>2, <4>3, <2>2, <2>3, <2>4
      <4>4. CASE j \in 1..p
        <5>1. n - p + j \in 1..n
          BY <4>2, <4>4, <2>2
        <5> QED BY <4>1, <4>2, <4>4, <5>1, <2>3, <2>4, <3>1
      <4> QED BY <4>1, <4>3, <4>4, <2>2
    <3>4. Len(offered') = n + 1 /\ mark' = mark /\ mark \in Nat
      BY <2>1, <2>4
    <3>5. Len(wsPending') = Min2(Len(offered') - mark', MaxPending)
      <4>1. Len(offered') - mark' = n + 1 - mark
        BY <2>2, <3>4
      <4> QED BY <3>2, <4>1
    <3>6. \A k \in 1..Len(wsPending') :
             wsPending'[k] = offered'[Len(offered') - Len(wsPending') + k]
      <4> TAKE k \in 1..Len(wsPending')
      <4>1. wsPending'[k] = offered'[n + 1 - Len(wsPending') + k]
        BY <3>3
      <4>2. Len(offered') - Len(wsPending') + k = n + 1 - Len(wsPending') + k
        BY <2>2, <2>6, <3>4
      <4> QED BY <4>1, <4>2
    <3> QED BY <3>5, <3>6, Zenon DEF KeepsNewest
  <2>10. OfferedInOrder'
    <3> SUFFICES ASSUME NEW i \in 1..n + 1, NEW j \in 1..n + 1, i < j
                 PROVE  offered'[i] < offered'[j]
      BY <2>4 DEF OfferedInOrder
    <3>1. i \in 1..n
      BY <2>2
    <3>2. CASE j \in 1..n
      BY <3>1, <3>2, <2>4 DEF OfferedInOrder, n
    <3>3. CASE j = n + 1
      BY <3>1, <3>3, <2>1, <2>4 DEF Newer, n
    <3> QED BY <3>2, <3>3, <2>2
  <2>11. FeedInOrder'
    BY <2>1 DEF FeedInOrder
  <2>12. BatchEndsAtMark'
    <3>1. \A i \in 1..Len(batch) : mark - Len(batch) + i \in 1..n
      BY <2>1, <2>2 DEF BatchEndsAtMark, n
    <3> QED BY <2>1, <2>2, <2>4, <3>1 DEF BatchEndsAtMark, n
  <2>13. FeedBelowBatch'
    <3>1. Before' = Before /\ Before <= n /\ Before \in Nat
      BY <2>1, <2>2 DEF Before, BatchEndsAtMark, n
    <3> QED BY <2>1, <2>2, <2>4, <3>1 DEF FeedBelowBatch
  <2>14. FeedEndsNewest'
    <3>1. Before' = Before /\ Before <= n /\ Before \in Nat
      BY <2>1, <2>2 DEF Before, BatchEndsAtMark, n
    <3>2. \A i \in 0..Min2(Before, MaxPending) - 1 :
             offered'[Before - i] = offered[Before - i]
      BY <2>2, <2>4, <3>1 DEF Min2
    <3> QED BY <2>1, <3>1, <3>2 DEF FeedEndsNewest
  <2>15. LastTake'
    BY <2>1 DEF LastTake
  <2> QED BY <2>7, <2>8, <2>9, <2>10, <2>11, <2>12, <2>13, <2>14, <2>15
<1> QED BY <1>1, <1>2, HasHubAssumption

LEMMA TakeBatchKeepsInv ==
    ASSUME FQInv, NEW final \in BOOLEAN, TakeBatch(final)
    PROVE  FQInv'
<1> USE DEF FQInv
<1> DEFINE n == Len(offered)
           p == Len(wsPending)
<1>1. /\ wsPending \in Seq(Rows) /\ offered \in Seq(Rows)
      /\ batch \in Seq(Rows) /\ feed \in Seq(Rows) /\ mark \in Nat
      /\ wsDropped \in Nat /\ wsSent \in Nat
      /\ fpc = "wait" /\ (final => flushStop)
      /\ batch' = wsPending /\ wsPending' = <<>> /\ mark' = n
      /\ finalFlush' = final
      /\ fpc' = (IF wsPending = <<>> THEN (IF final THEN "exited" ELSE "wait") ELSE "count")
      /\ UNCHANGED <<wsDropped, wsSent, flushStop, offered, feed>>
  BY DEF TakeBatch, FlushDue, LeftBehind, AfterFlush, FQTypeOK
<1>2. /\ n \in Nat /\ p \in Nat /\ MaxPending \in Nat /\ MaxPending >= 1
      /\ Len(feed) \in Nat /\ Len(<<>>) = 0 /\ <<>> \in Seq(Rows)
      /\ wsPending = <<>> <=> p = 0
  BY <1>1, LenProperties, EmptySeq, MaxPendingAssumption
<1>3. /\ batch = <<>> /\ Len(batch) = 0 /\ Before = mark /\ mark <= n
      /\ p = Min2(n - mark, MaxPending)
      /\ \A k \in 1..p : wsPending[k] = offered[n - p + k]
  BY <1>1, <1>2 DEF BatchEndsAtMark, Before, KeepsNewest
<1>4. p <= n - mark /\ p <= MaxPending /\ (p < MaxPending => n - p = mark)
  BY <1>1, <1>2, <1>3 DEF Min2
<1>5. Before' = n - p
  BY <1>1 DEF Before
<1> HIDE DEF n, p
<1>6. FQTypeOK'
  BY <1>1, <1>2 DEF FQTypeOK, n
<1>7. RowsAccounted'
  <2>1. wsSent + wsDropped + p = n
    BY <1>1, <1>2 DEF RowsAccounted, InHand, n, p
  <2>2. InHand' = p
    BY <1>1, <1>2 DEF InHand, p
  <2> QED BY <1>1, <1>2, <2>1, <2>2 DEF RowsAccounted, n
<1>8. KeepsNewest'
  BY <1>1, <1>2 DEF KeepsNewest, Min2, n
<1>9. OfferedInOrder' /\ FeedInOrder'
  BY <1>1 DEF OfferedInOrder, FeedInOrder
<1>10. BatchEndsAtMark'
  BY <1>1, <1>2, <1>3, <1>4 DEF BatchEndsAtMark, n, p
<1>11. FeedBelowBatch'
  <2> SUFFICES ASSUME NEW i \in 1..Len(feed)
               PROVE  n - p >= 1 /\ feed[i] <= offered[n - p]
    BY <1>1, <1>5 DEF FeedBelowBatch
  <2>1. mark >= 1 /\ feed[i] <= offered[mark]
    BY <1>3 DEF FeedBelowBatch
  <2>2. n - p \in 1..n /\ mark \in 1..n /\ mark <= n - p
    BY <1>1, <1>2, <1>3, <1>4, <2>1
  <2>3. offered[mark] <= offered[n - p]
    <3>1. offered[mark] \in Nat /\ offered[n - p] \in Nat
      BY <1>1, <2>2, RowsAreNumbers DEF n
    <3> QED BY <2>2, <3>1 DEF OfferedInOrder, n
  <2>4. offered[mark] \in Nat /\ offered[n - p] \in Nat /\ feed[i] \in Nat
    BY <1>1, <2>2, RowsAreNumbers DEF n
  <2> QED BY <2>1, <2>2, <2>3, <2>4
<1>12. FeedEndsNewest'
  <2> SUFFICES ASSUME p < MaxPending
               PROVE  /\ Len(feed) >= Min2(n - p, MaxPending)
                      /\ \A i \in 0..Min2(n - p, MaxPending) - 1 :
                            feed[Len(feed) - i] = offered[n - p - i]
    BY <1>1, <1>5 DEF FeedEndsNewest, p
  <2>1. n - p = mark
    BY <1>4
  <2> QED BY <1>2, <1>3, <2>1 DEF FeedEndsNewest
<1>13. LastTake'
  BY <1>1 DEF LastTake, n
<1> QED BY <1>6, <1>7, <1>8, <1>9, <1>10, <1>11, <1>12, <1>13

LEMMA BroadcastBatchKeepsInv ==
    ASSUME FQInv, BroadcastBatch
    PROVE  FQInv'
<1> USE DEF FQInv
<1> DEFINE b == Len(batch)
           f == Len(feed)
<1>1. /\ offered \in Seq(Rows) /\ batch \in Seq(Rows) /\ feed \in Seq(Rows)
      /\ mark \in Nat
      /\ fpc = "send"
      /\ feed' = feed \o batch /\ batch' = <<>>
      /\ fpc' = (IF finalFlush THEN "exited" ELSE "wait")
      /\ UNCHANGED <<wsPending, wsDropped, wsSent, finalFlush, flushStop,
                     offered, mark>>
  BY DEF BroadcastBatch, AfterFlush, FQTypeOK
<1>2. /\ b \in Nat /\ f \in Nat /\ MaxPending \in Nat /\ MaxPending >= 1
      /\ Len(offered) \in Nat /\ Len(<<>>) = 0 /\ <<>> \in Seq(Rows)
  BY <1>1, LenProperties, EmptySeq, MaxPendingAssumption
<1>3. /\ feed' \in Seq(Rows)
      /\ Len(feed') = f + b
      /\ \A k \in 1..f : feed'[k] = feed[k]
      /\ \A k \in 1..b : feed'[f + k] = batch[k]
  <2>1. /\ feed \o batch \in Seq(Rows)
        /\ Len(feed \o batch) = f + b
        /\ \A k \in 1..f + b :
              (feed \o batch)[k] = IF k <= f THEN feed[k] ELSE batch[k - f]
    BY <1>1, ConcatProperties
  <2> HIDE DEF b, f
  <2>2. \A k \in 1..b : f + k \in 1..f + b /\ ~(f + k <= f) /\ f + k - f = k
    BY <1>2
  <2>3. \A k \in 1..f : k \in 1..f + b /\ k <= f
    BY <1>2
  <2>4. \A k \in 1..f : (feed \o batch)[k] = feed[k]
    BY <2>1, <2>3, Zenon
  <2>5. \A k \in 1..b : (feed \o batch)[f + k] = batch[k]
    <3> TAKE k \in 1..b
    <3>1. f + k \in 1..f + b /\ ~(f + k <= f) /\ f + k - f = k
      BY <2>2
    <3> DEFINE l == f + k
    <3>2. l \in 1..f + b /\ ~(l <= f) /\ l - f = k
      BY <1>2, <3>1
    <3> HIDE DEF l
    <3>3. (feed \o batch)[l] = batch[l - f]
      BY <2>1, <3>2
    <3> QED BY <3>2, <3>3 DEF l
  <2> QED BY <1>1, <2>1, <2>4, <2>5, Zenon
<1>4. /\ mark <= Len(offered) /\ b <= mark /\ b <= MaxPending /\ b >= 1
      /\ \A i \in 1..b : batch[i] = offered[mark - b + i]
      /\ Before = mark - b
  BY <1>1, <1>2, EmptySeq DEF BatchEndsAtMark, Before
<1>5. Before' = mark
  BY <1>1, <1>2 DEF Before
<1>6. \A i \in 1..Len(offered) : offered[i] \in Nat
  BY <1>1, RowsAreNumbers
<1> HIDE DEF b, f
<1>7. FQTypeOK'
  BY <1>1, <1>2, <1>3 DEF FQTypeOK
<1>8. RowsAccounted' /\ KeepsNewest' /\ OfferedInOrder'
  BY <1>1, <1>2 DEF RowsAccounted, InHand, KeepsNewest, OfferedInOrder
\* The two halves of the feed, and where their rows come from.
<1>9. \A i \in 1..b : mark - b + i \in 1..mark /\ feed'[f + i] = offered[mark - b + i]
  <2>1. ASSUME NEW i \in 1..b PROVE mark - b + i \in 1..mark
    BY <1>1, <1>2, <1>4
  <2> QED BY <1>3, <1>4, <2>1, Zenon
<1>10. \A i \in 1..f : /\ mark - b >= 1
                       /\ feed'[i] = feed[i] /\ feed[i] \in Nat
                       /\ feed[i] <= offered[mark - b]
  BY <1>1, <1>2, <1>3, <1>4, RowsAreNumbers DEF FeedBelowBatch, f
<1>11. \A i, j \in 1..mark : i < j => offered[i] < offered[j]
  <2>1. \A i \in 1..mark : i \in 1..Len(offered)
    BY <1>1, <1>2, <1>4
  <2> QED BY <2>1, Zenon DEF OfferedInOrder
<1>12. FeedInOrder'
  <2> SUFFICES ASSUME NEW i \in 1..f + b, NEW j \in 1..f + b, i < j
               PROVE  feed'[i] < feed'[j]
    BY <1>3 DEF FeedInOrder
  <2>1. CASE j \in 1..f
    <3>1. i \in 1..f
      BY <1>2, <2>1
    <3> QED BY <1>3, <2>1, <3>1 DEF FeedInOrder, f
  <2>2. CASE i \in 1..f /\ j \in f + 1..f + b
    <3>1. PICK k \in 1..b : j = f + k
      BY <1>2, <2>2
    <3>2. feed'[j] = offered[mark - b + k] /\ mark - b + k \in 1..mark
      BY <1>9, <3>1
    <3>3. mark - b \in 1..mark /\ mark - b < mark - b + k
      BY <1>1, <1>2, <1>4, <1>10, <2>2
    <3>4. offered[mark - b] < offered[mark - b + k]
      BY <1>11, <3>2, <3>3
    <3>5. offered[mark - b] \in Nat /\ offered[mark - b + k] \in Nat
      BY <1>1, <1>2, <1>4, <1>6, <3>2, <3>3
    <3> QED BY <1>10, <2>2, <3>2, <3>4, <3>5
  <2>3. CASE i \in f + 1..f + b /\ j \in f + 1..f + b
    <3>1. PICK k \in 1..b : i = f + k
      BY <1>2, <2>3
    <3>2. PICK l \in 1..b : j = f + l
      BY <1>2, <2>3
    <3>3. mark - b + k < mark - b + l
      BY <1>1, <1>2, <3>1, <3>2
    <3> QED BY <1>9, <1>11, <3>1, <3>2, <3>3
  <2> QED BY <1>2, <2>1, <2>2, <2>3
<1>13. BatchEndsAtMark'
  BY <1>1, <1>2, <1>4 DEF BatchEndsAtMark
<1>14. FeedBelowBatch'
  <2> SUFFICES ASSUME NEW i \in 1..f + b
               PROVE  mark >= 1 /\ feed'[i] <= offered[mark]
    BY <1>1, <1>3, <1>5 DEF FeedBelowBatch
  <2>0. mark \in 1..mark /\ offered[mark] \in Nat
    BY <1>1, <1>2, <1>4, <1>6
  <2>1. CASE i \in 1..f
    <3>1. mark - b \in 1..mark /\ mark - b < mark
      BY <1>1, <1>2, <1>4, <1>10, <2>1
    <3>2. offered[mark - b] < offered[mark] /\ offered[mark - b] \in Nat
      BY <1>1, <1>2, <1>4, <1>6, <1>11, <2>0, <3>1
    <3> QED BY <1>10, <2>0, <2>1, <3>2
  <2>2. CASE i \in f + 1..f + b
    <3>1. PICK k \in 1..b : i = f + k
      BY <1>2, <2>2
    <3>2. mark - b + k \in 1..mark /\ feed'[i] = offered[mark - b + k]
      BY <1>9, <3>1
    <3>3. mark - b + k = mark \/ mark - b + k < mark
      BY <1>1, <1>2, <3>2
    <3>4. offered[mark - b + k] \in Nat
      BY <1>1, <1>2, <1>4, <1>6, <3>2
    <3> QED BY <1>11, <2>0, <3>2, <3>3, <3>4
  <2> QED BY <1>2, <2>1, <2>2
<1>15. FeedEndsNewest'
  <2> DEFINE m == Min2(mark, MaxPending)
  <2>1. m \in Nat /\ m <= mark /\ m <= MaxPending
    BY <1>1, <1>2 DEF Min2
  <2>2. \A i \in 0..b - 1 : feed'[f + b - i] = offered[mark - i]
    <3> TAKE i \in 0..b - 1
    <3>1. b - i \in 1..b /\ f + (b - i) = f + b - i /\ mark - b + (b - i) = mark - i
      BY <1>1, <1>2
    <3> QED BY <1>9, <3>1
  <2> SUFFICES f + b >= m /\ \A i \in 0..m - 1 : feed'[f + b - i] = offered[mark - i]
    <3>1. offered' = offered /\ Len(feed') = f + b
      BY <1>1, <1>3
    <3>2. ASSUME NEW i \in 0..m - 1, feed'[f + b - i] = offered[mark - i]
          PROVE  feed'[Len(feed') - i] = offered'[Before' - i]
      <4>1. Len(feed') - i = f + b - i /\ Before' - i = mark - i
        BY <1>1, <1>2, <1>5, <3>1
      <4>2. offered'[mark - i] = offered[mark - i]
        BY <3>1
      <4> QED BY <3>2, <4>1, <4>2
    <3>3. Len(feed') >= m /\ m = Min2(Before', MaxPending)
      BY <1>5, <3>1
    <3> QED BY <3>2, <3>3 DEF FeedEndsNewest
  <2>3. CASE b = MaxPending
    <3>1. \A i \in 0..m - 1 : i \in 0..b - 1
      BY <1>2, <2>1, <2>3
    <3> HIDE DEF m
    <3> QED BY <1>2, <2>1, <2>2, <2>3, <3>1
  <2>4. CASE b < MaxPending
    <3>1. /\ f >= Min2(mark - b, MaxPending)
          /\ \A i \in 0..Min2(mark - b, MaxPending) - 1 : feed[f - i] = offered[mark - b - i]
      BY <1>4, <2>4 DEF FeedEndsNewest, b, f
    <3>2. f + b >= m
      BY <1>1, <1>2, <1>4, <3>1 DEF Min2
    <3>3. ASSUME NEW i \in 0..m - 1, ~(i \in 0..b - 1)
          PROVE  feed'[f + b - i] = offered[mark - i]
      <4> DEFINE j == i - b
      <4>1. j \in 0..Min2(mark - b, MaxPending) - 1
        BY <1>1, <1>2, <1>4, <2>1, <3>3 DEF Min2
      <4>2. feed[f - j] = offered[mark - b - j]
        BY <3>1, <4>1
      <4>3. f - j \in 1..f
        BY <1>1, <1>2, <1>4, <3>1, <4>1 DEF Min2
      <4>4. f - j = f + b - i /\ mark - b - j = mark - i
        BY <1>1, <1>2, <2>1
      <4> HIDE DEF j
      <4> QED BY <1>3, <4>2, <4>3, <4>4
    <3> QED BY <2>2, <3>2, <3>3
  <2> QED BY <1>2, <1>4, <2>3, <2>4
<1>16. LastTake'
  BY <1>1 DEF LastTake
<1> QED BY <1>7, <1>8, <1>12, <1>13, <1>14, <1>15, <1>16

\* The other steps leave the queue, the batch and the feed alone.
LEMMA OtherStepsKeepInv ==
    ASSUME FQInv,
           StartFlushLoop \/ (fpc # "off" /\ CloseFlushStop) \/ CountSent \/ UNCHANGED feedVars
    PROVE  FQInv'
<1> USE DEF FQInv
<1>1. CASE StartFlushLoop
  <2>1. InHand' = InHand
    BY <1>1 DEF StartFlushLoop, InHand
  <2> QED BY <1>1, <2>1 DEF StartFlushLoop, FQTypeOK, RowsAccounted, KeepsNewest,
       OfferedInOrder, FeedInOrder, BatchEndsAtMark, FeedBelowBatch, Before,
       FeedEndsNewest, LastTake
<1>2. CASE fpc # "off" /\ CloseFlushStop
  BY <1>2 DEF CloseFlushStop, FQTypeOK, RowsAccounted, InHand, KeepsNewest,
     OfferedInOrder, FeedInOrder, BatchEndsAtMark, FeedBelowBatch, Before,
     FeedEndsNewest, LastTake
<1>3. CASE CountSent
  <2>1. Len(batch) \in Nat /\ Len(wsPending) \in Nat /\ wsSent \in Nat /\ wsDropped \in Nat
    BY LenProperties DEF FQTypeOK
  <2>2. RowsAccounted'
    BY <1>3, <2>1 DEF CountSent, RowsSent, RowsAccounted, InHand
  <2> QED BY <1>3, <2>1, <2>2 DEF CountSent, RowsSent, FQTypeOK, KeepsNewest,
       OfferedInOrder, FeedInOrder, BatchEndsAtMark, FeedBelowBatch, Before,
       FeedEndsNewest, LastTake
<1>4. CASE UNCHANGED feedVars
  BY <1>4 DEF feedVars, FQTypeOK, RowsAccounted, InHand, KeepsNewest,
     OfferedInOrder, FeedInOrder, BatchEndsAtMark, FeedBelowBatch, Before,
     FeedEndsNewest, LastTake
<1> QED BY <1>1, <1>2, <1>3, <1>4

-----------------------------------------------------------------------------
LEMMA FQInitEstablishesInv == FQInit => FQInv
<1> SUFFICES ASSUME FQInit PROVE FQInv
  OBVIOUS
<1>1. /\ wsPending = <<>> /\ batch = <<>> /\ offered = <<>> /\ feed = <<>>
      /\ wsDropped = 0 /\ wsSent = 0 /\ mark = 0
      /\ fpc = "off" /\ finalFlush = FALSE /\ flushStop = FALSE
  BY DEF FQInit
<1>2. <<>> \in Seq(Rows) /\ Len(<<>>) = 0 /\ MaxPending \in Nat /\ MaxPending >= 1
  BY EmptySeq, MaxPendingAssumption
<1>3. FQTypeOK /\ RowsAccounted /\ KeepsNewest
  <2>1. FQTypeOK
    BY <1>1, <1>2 DEF FQTypeOK
  <2>2. RowsAccounted
    BY <1>1, <1>2 DEF RowsAccounted, InHand
  <2>3. KeepsNewest
    BY <1>1, <1>2 DEF KeepsNewest, Min2
  <2> QED BY <2>1, <2>2, <2>3
<1>4. OfferedInOrder /\ FeedInOrder /\ LastTake
  BY <1>1, <1>2 DEF OfferedInOrder, FeedInOrder, LastTake
<1>5. BatchEndsAtMark /\ FeedBelowBatch /\ FeedEndsNewest
  BY <1>1, <1>2 DEF BatchEndsAtMark, FeedBelowBatch, FeedEndsNewest, Before, Min2
<1> QED BY <1>3, <1>4, <1>5 DEF FQInv

\* FQInv is inductive: it holds in every reachable state of the queue.
THEOREM FQInvariance == FQSpec => []FQInv
<1>1. FQInit => FQInv
  BY FQInitEstablishesInv
<1>2. FQInv /\ [FQNext]_feedVars => FQInv'
  BY ProduceKeepsInv, TakeBatchKeepsInv, BroadcastBatchKeepsInv, OtherStepsKeepInv
     DEF FQNext, FlushLoop
<1> QED BY <1>1, <1>2, PTL DEF FQSpec

\* The queue's variables keep their types.
THEOREM FQTyping == FQSpec => []FQTypeOK
<1>1. FQInv => FQTypeOK
  BY DEF FQInv
<1> QED BY <1>1, FQInvariance, PTL

\* ws_sent and ws_dropped account for every row, for every MaxPending.
THEOREM FQRowsAccounted == FQSpec => []RowsAccounted
<1>1. FQInv => RowsAccounted
  BY DEF FQInv
<1> QED BY <1>1, FQInvariance, PTL

\* The queue holds the newest rows of its window, for every MaxPending.
THEOREM FQKeepsNewest == FQSpec => []KeepsNewest
<1>1. FQInv => KeepsNewest
  BY DEF FQInv
<1> QED BY <1>1, FQInvariance, PTL

\* Rows are broadcast in order and at most once.
THEOREM FQFeedInOrder == FQSpec => []FeedInOrder
<1>1. FQInv => FeedInOrder
  BY DEF FQInv
<1> QED BY <1>1, FQInvariance, PTL

\* The last flush completes the feed with the newest rows.
THEOREM FQNewestRowsShown == FQSpec => []NewestRowsShown
<1>1. FQInv => NewestRowsShown
  <2> SUFFICES ASSUME FQInv, fpc = "exited" PROVE NewestRowsShown
    BY DEF NewestRowsShown
  <2>1. batch = <<>> /\ mark = Len(offered)
    BY DEF FQInv, BatchEndsAtMark, LastTake
  <2>2. Len(batch) = 0 /\ Before = Len(offered) /\ Len(offered) \in Nat
    BY <2>1, EmptySeq, LenProperties DEF Before, FQInv, FQTypeOK
  <2> QED BY <2>2, MaxPendingAssumption DEF FQInv, FeedEndsNewest, NewestRowsShown
<1> QED BY <1>1, FQInvariance, PTL

-----------------------------------------------------------------------------
(* The queue implements LossyFeed.                                         *)

\* The end of a sequence of rows, after its first m elements.
LEMMA SuffixFacts ==
    ASSUME NEW q \in Seq(Rows), NEW m \in Nat, m <= Len(q)
    PROVE  /\ SubSeq(q, m + 1, Len(q)) \in Seq(Rows)
           /\ Len(SubSeq(q, m + 1, Len(q))) = Len(q) - m
           /\ Len(q) - m \in Nat
           /\ \A k \in 1..Len(q) - m : SubSeq(q, m + 1, Len(q))[k] = q[m + k]
<1> DEFINE n == Len(q)
<1>1. n \in Nat /\ m <= n
  BY LenProperties
<1>2. \A k \in m + 1..n : q[k] \in Rows
  <2> TAKE k \in m + 1..n
  <2>1. k \in 1..n
    BY <1>1
  <2> QED BY <2>1, ElementOfSeq
<1> HIDE DEF n
<1>3. /\ SubSeq(q, m + 1, n) \in Seq(Rows)
      /\ Len(SubSeq(q, m + 1, n)) = (IF m + 1 <= n THEN n - (m + 1) + 1 ELSE 0)
      /\ \A k \in 1..n - (m + 1) + 1 : SubSeq(q, m + 1, n)[k] = q[(m + 1) + k - 1]
  BY <1>1, <1>2, SubSeqProperties
<1>4. /\ n - (m + 1) + 1 = n - m /\ n - m \in Nat
      /\ (IF m + 1 <= n THEN n - (m + 1) + 1 ELSE 0) = n - m
  BY <1>1
<1>5. \A k \in 1..n - m : (m + 1) + k - 1 = m + k
  BY <1>1
<1>6. \A k \in 1..n - m : SubSeq(q, m + 1, n)[k] = q[m + k]
  BY <1>3, <1>4, <1>5
<1> QED BY <1>3, <1>4, <1>6 DEF n

LEMMA SinceTakeFacts ==
    ASSUME FQInv
    PROVE  /\ SinceTake \in Seq(Rows)
           /\ Len(SinceTake) = Len(offered) - mark
           /\ Len(offered) - mark \in Nat
           /\ \A k \in 1..Len(offered) - mark : SinceTake[k] = offered[mark + k]
  BY SuffixFacts DEF FQInv, FQTypeOK, BatchEndsAtMark, SinceTake

\* The queue is the newest part of the window of LossyFeed.
LEMMA PendingIsNewest ==
    ASSUME FQInv
    PROVE  wsPending = Feed!Newest(SinceTake, MaxPending)
<1> DEFINE n == Len(offered)
           p == Len(wsPending)
           w == SinceTake
           lo == IF Len(w) > MaxPending THEN Len(w) - MaxPending + 1 ELSE 1
           s == SubSeq(w, lo, Len(w))
<1>1. /\ w \in Seq(Rows) /\ Len(w) = n - mark /\ n - mark \in Nat
      /\ \A k \in 1..n - mark : w[k] = offered[mark + k]
  BY SinceTakeFacts
<1>2. /\ wsPending \in Seq(Rows) /\ p \in Nat /\ n \in Nat /\ mark \in Nat
      /\ MaxPending \in Nat /\ MaxPending >= 1
      /\ p = Min2(n - mark, MaxPending)
      /\ \A k \in 1..p : wsPending[k] = offered[n - p + k]
  BY LenProperties, MaxPendingAssumption DEF FQInv, FQTypeOK, KeepsNewest
<1>3. lo \in Nat /\ lo >= 1 /\ Len(w) - lo + 1 = p /\ lo - 1 = n - mark - p
  <2> HIDE DEF w, n, p
  <2> QED BY <1>1, <1>2 DEF Min2
<1>4. \A k \in lo..Len(w) : w[k] \in Rows
  <2> HIDE DEF w, lo
  <2> TAKE k \in lo..Len(w)
  <2>1. k \in 1..Len(w)
    BY <1>1, <1>3
  <2> QED BY <1>1, <2>1, ElementOfSeq
<1>5. /\ s \in Seq(Rows)
      /\ Len(s) = (IF lo <= Len(w) THEN Len(w) - lo + 1 ELSE 0)
      /\ \A k \in 1..Len(w) - lo + 1 : s[k] = w[lo + k - 1]
  <2>1. lo \in Int /\ Len(w) \in Int
    <3> HIDE DEF w, lo, n
    <3> QED BY <1>1, <1>3
  <2> HIDE DEF w, lo
  <2> QED BY <1>4, <2>1, SubSeqProperties
<1>6. Len(s) = p
  <2> HIDE DEF w, lo, n, p, s
  <2> QED BY <1>1, <1>2, <1>3, <1>5
<1>7. \A k \in 1..p : s[k] = wsPending[k]
  <2> HIDE DEF w, lo, n, p, s
  <2> TAKE k \in 1..p
  <2>1. s[k] = w[lo + k - 1]
    BY <1>3, <1>5
  <2>2. lo + k - 1 \in 1..n - mark /\ mark + (lo + k - 1) = n - p + k
    BY <1>1, <1>2, <1>3
  <2>3. w[lo + k - 1] = offered[mark + (lo + k - 1)]
    BY <1>1, <2>2
  <2> QED BY <1>2, <2>1, <2>2, <2>3
<1>8. s = wsPending
  <2> HIDE DEF s, p
  <2>1. Len(s) = Len(wsPending) /\ \A k \in 1..Len(s) : s[k] = wsPending[k]
    BY <1>6, <1>7 DEF p
  <2> QED BY <1>2, <1>5, <2>1, SeqEqual
<1> QED BY <1>8 DEF Feed!Newest

LEMMA ProduceOffers ==
    ASSUME FQInv, NEW row \in Rows, Produce(row), HasHub
    PROVE  Feed!Offer(row)
<1> DEFINE n == Len(offered)
<1>1. /\ offered \in Seq(Rows) /\ batch \in Seq(Rows) /\ feed \in Seq(Rows)
      /\ mark \in Nat /\ mark <= n /\ n \in Nat /\ row \in Nat
      /\ Len(batch) \in Nat /\ Len(feed) \in Nat
  BY LenProperties, RowsAssumption DEF FQInv, FQTypeOK, BatchEndsAtMark
<1>2. /\ \A k \in 1..n : offered[k] < row
      /\ offered' = Append(offered, row)
      /\ mark' = mark /\ batch' = batch /\ feed' = feed
  BY DEF Produce, Newer, QueueWS
<1>3. /\ offered' \in Seq(Rows) /\ Len(offered') = n + 1
      /\ \A k \in 1..n : offered'[k] = offered[k]
      /\ offered'[n + 1] = row
  BY <1>1, <1>2, AppendFacts
<1>4. /\ SinceTake \in Seq(Rows) /\ Len(SinceTake) = n - mark /\ n - mark \in Nat
      /\ \A k \in 1..n - mark : SinceTake[k] = offered[mark + k]
  BY SinceTakeFacts
<1> HIDE DEF n
<1>5. /\ SinceTake' \in Seq(Rows) /\ Len(SinceTake') = n + 1 - mark
      /\ \A k \in 1..n + 1 - mark : SinceTake'[k] = offered'[mark + k]
  <2>1. mark <= Len(offered')
    BY <1>1, <1>3
  <2>2. /\ SubSeq(offered', mark + 1, Len(offered')) \in Seq(Rows)
        /\ Len(SubSeq(offered', mark + 1, Len(offered'))) = Len(offered') - mark
        /\ \A k \in 1..Len(offered') - mark :
              SubSeq(offered', mark + 1, Len(offered'))[k] = offered'[mark + k]
    BY <1>1, <1>3, <2>1, SuffixFacts
  <2>3. SinceTake' = SubSeq(offered', mark + 1, Len(offered'))
    BY <1>2 DEF SinceTake
  <2>4. Len(offered') - mark = n + 1 - mark
    BY <1>1, <1>3
  <2> QED BY <2>2, <2>3, <2>4
<1>6. SinceTake' = Append(SinceTake, row)
  <2>1. /\ Append(SinceTake, row) \in Seq(Rows)
        /\ Len(Append(SinceTake, row)) = n - mark + 1
        /\ \A k \in 1..n - mark : Append(SinceTake, row)[k] = SinceTake[k]
        /\ Append(SinceTake, row)[n - mark + 1] = row
    BY <1>4, AppendFacts
  <2>2. n + 1 - mark = n - mark + 1
    BY <1>1
  <2>3. ASSUME NEW k \in 1..n + 1 - mark
        PROVE  SinceTake'[k] = Append(SinceTake, row)[k]
    <3>1. CASE k \in 1..n - mark
      <4>1. mark + k \in 1..n
        BY <1>1, <3>1
      <4> QED BY <1>3, <1>4, <1>5, <2>1, <3>1, <4>1
    <3>2. CASE k = n - mark + 1
      <4>1. mark + k = n + 1
        BY <1>1, <3>2
      <4> QED BY <1>3, <1>5, <2>1, <3>2, <4>1
    <3>3. k \in 1..n - mark \/ k = n - mark + 1
      BY <1>1
    <3> QED BY <3>1, <3>2, <3>3
  <2>4. Len(SinceTake') = Len(Append(SinceTake, row))
    BY <1>5, <2>1, <2>2
  <2>5. \A k \in 1..Len(SinceTake') : SinceTake'[k] = Append(SinceTake, row)[k]
    BY <1>5, <2>3
  <2> QED BY <1>5, <2>1, <2>4, <2>5, SeqEqual
<1>7. Feed!Exceeds(row, SinceTake)
  <2> SUFFICES ASSUME NEW k \in 1..n - mark PROVE SinceTake[k] < row
    BY <1>4 DEF Feed!Exceeds
  <2>1. mark + k \in 1..n
    BY <1>1
  <2> QED BY <1>2, <1>4, <2>1
<1>8. Feed!Exceeds(row, batch)
  <2> SUFFICES ASSUME NEW k \in 1..Len(batch) PROVE batch[k] < row
    BY DEF Feed!Exceeds
  <2>1. mark - Len(batch) + k \in 1..n /\ batch[k] = offered[mark - Len(batch) + k]
    BY <1>1 DEF FQInv, BatchEndsAtMark, n
  <2> QED BY <1>2, <2>1
<1>9. Feed!Exceeds(row, feed)
  <2> SUFFICES ASSUME NEW k \in 1..Len(feed) PROVE feed[k] < row
    BY DEF Feed!Exceeds
  <2>1. Before >= 1 /\ feed[k] <= offered[Before]
    BY DEF FQInv, FeedBelowBatch
  <2>2. Before \in 1..n
    BY <1>1, <2>1 DEF FQInv, BatchEndsAtMark, Before, n
  <2>3. offered[Before] \in Nat /\ feed[k] \in Nat /\ offered[Before] < row
    BY <1>1, <1>2, <2>2, RowsAreNumbers DEF n
  <2> QED BY <1>1, <2>1, <2>3
<1> QED BY <1>2, <1>6, <1>7, <1>8, <1>9 DEF Feed!Offer

LEMMA TakeBatchCollects ==
    ASSUME FQInv, NEW final \in BOOLEAN, TakeBatch(final)
    PROVE  Feed!Collect \/ UNCHANGED Feed!vars
<1>1. /\ fpc = "wait" /\ batch' = wsPending /\ mark' = Len(offered)
      /\ offered' = offered /\ feed' = feed
  BY DEF TakeBatch
<1>2. /\ offered \in Seq(Rows) /\ wsPending \in Seq(Rows) /\ batch = <<>>
      /\ Len(offered) \in Nat /\ mark \in Nat /\ Len(wsPending) \in Nat
  BY <1>1, LenProperties DEF FQInv, FQTypeOK, BatchEndsAtMark
<1>3. SinceTake' = <<>>
  <2>1. SinceTake' = SubSeq(offered, Len(offered) + 1, Len(offered))
    BY <1>1 DEF SinceTake
  <2>2. Len(offered) + 1 \in Int /\ Len(offered) \in Int /\ Len(offered) < Len(offered) + 1
    BY <1>2
  <2> QED BY <2>1, <2>2, SubSeqEmpty
<1>4. /\ SinceTake \in Seq(Rows)
      /\ Len(SinceTake) = Len(offered) - mark /\ Len(offered) - mark \in Nat
  BY SinceTakeFacts
<1>5. wsPending = Feed!Newest(SinceTake, MaxPending)
  BY PendingIsNewest
<1>6. CASE SinceTake = <<>>
  <2>1. Len(wsPending) = Min2(Len(SinceTake), MaxPending) /\ Len(SinceTake) = 0
    BY <1>4, <1>6, EmptySeq DEF FQInv, KeepsNewest
  <2>2. wsPending = <<>>
    BY <1>2, <2>1, EmptySeq, MaxPendingAssumption DEF Min2
  <2> QED BY <1>1, <1>2, <1>3, <1>6, <2>2 DEF Feed!vars
<1>7. CASE SinceTake # <<>>
  BY <1>1, <1>2, <1>3, <1>5, <1>7 DEF Feed!Collect
<1> QED BY <1>6, <1>7

\* Every behaviour of the queue is one of LossyFeed: dropping rows when they
\* are queued is indistinguishable from dropping them when they are collected.
THEOREM FQImplementsLossyFeed == FQSpec => ImplementsLossyFeed
<1>1. FQInit => Feed!Init
  <2> SUFFICES ASSUME FQInit PROVE Feed!Init
    OBVIOUS
  <2>1. offered = <<>> /\ mark = 0 /\ batch = <<>> /\ feed = <<>>
    BY DEF FQInit
  <2>2. SinceTake = SubSeq(<<>>, 0 + 1, Len(<<>>)) /\ Len(<<>>) = 0
    BY <2>1, EmptySeq DEF SinceTake
  <2>3. SubSeq(<<>>, 0 + 1, 0) = <<>>
    BY SubSeqEmpty
  <2> QED BY <2>1, <2>2, <2>3 DEF Feed!Init
<1>2. FQInv /\ [FQNext]_feedVars => [Feed!Next]_(Feed!vars)
  <2> SUFFICES ASSUME FQInv, [FQNext]_feedVars PROVE [Feed!Next]_(Feed!vars)
    OBVIOUS
  <2>1. ASSUME NEW row \in Rows, Produce(row) PROVE [Feed!Next]_(Feed!vars)
    <3>1. CASE HasHub
      BY <2>1, <3>1, ProduceOffers DEF Feed!Next
    <3>2. CASE ~HasHub
      BY <2>1, <3>2 DEF Produce, QueueWS, Feed!vars, SinceTake
    <3> QED BY <3>1, <3>2
  <2>2. ASSUME NEW final \in BOOLEAN, TakeBatch(final) PROVE [Feed!Next]_(Feed!vars)
    BY <2>2, TakeBatchCollects DEF Feed!Next
  <2>3. CASE BroadcastBatch
    <3>1. batch # <<>>
      BY <2>3 DEF BroadcastBatch, FQInv, BatchEndsAtMark
    <3> QED BY <2>3, <3>1 DEF BroadcastBatch, Feed!Next, Feed!Show, SinceTake
  <2>4. CASE StartFlushLoop \/ (fpc # "off" /\ CloseFlushStop) \/ CountSent \/ UNCHANGED feedVars
    BY <2>4 DEF StartFlushLoop, CloseFlushStop, CountSent, feedVars, Feed!vars, SinceTake
  <2> QED BY <2>1, <2>2, <2>3, <2>4 DEF FQNext, FlushLoop
<1> QED BY <1>1, <1>2, FQInvariance, PTL DEF FQSpec, ImplementsLossyFeed, Feed!Spec

-----------------------------------------------------------------------------
(* The parts of the inductive invariant.                                   *)

\* TypeOK without the queue's variables, whose types FQTyping proves.
RunTypeOK ==
    /\ pc \in PCs
    /\ source \in {"", "file", "tcpdump", "kernel", "stdin"}
    /\ result \in {"none", "ok", "error"}
    /\ running \in BOOLEAN /\ st \in BOOLEAN
    /\ pktNo \in Nat /\ matched \in Nat /\ observed \in Nat
    /\ recorded \in Seq(Nat) /\ frames \in Seq(Nat) /\ stored \in Seq(Nat)
    /\ sincePause \in Nat /\ sinceStop \in Nat

CtlTypeOK ==
    /\ paused \in BOOLEAN /\ stopped \in BOOLEAN
    /\ cpc \in [Ctl -> {"idle", "eval", "send", "close"}]
    /\ cst \in [Ctl -> BOOLEAN]
    /\ calls \in Nat
    /\ proc \in {"up", "crashed", "exited"}
    /\ overlapped \in BOOLEAN /\ panicked \in BOOLEAN

UITypeOK ==
    /\ pill \in BOOLEAN /\ doneSent \in BOOLEAN
    /\ shownStats \in Nat /\ lastAlert \in Nat
    /\ greet \in GreetPCs /\ hello \in Nat
    /\ helloSt \in BOOLEAN /\ lateHello \in BOOLEAN

\* When Run may queue a row, and which rows were queued before.
QueueUse ==
    /\ fpc = "off" => pc \in {"open", "create", "returned"}
    /\ flushStop => pc = "returned"
    /\ pc = "ingest" => pktNo + 1 \in Rows
    /\ pc \in {"observe", "store", "queue"} => pktNo \in Rows
    /\ \A i \in 1..Len(offered) : offered[i] <= pktNo
    /\ pc \in {"observe", "store", "queue"} => Newer(pktNo)

\* Between Run's look at the pause flag and its next packet, none was
\* numbered since the pause; likewise for stopCh.
PauseInv ==
    /\ PauseAlmostFreezes
    /\ paused /\ pc \in {"next", "ingest"} => sincePause = 0

StopInv ==
    /\ StopAlmostImmediate
    /\ ~stopped \/ pc \in {"pauseLoop", "next", "ingest"} => sinceStop = 0

\* Whoever is about to close a closed channel overlapped with whoever closed it.
OverlapInv ==
    /\ PanicNeedsOverlap
    /\ \A c \in Ctl : cpc[c] = "close" /\ stopped => overlapped
    /\ \A c, d \in Ctl : c # d /\ cpc[c] = "close" /\ cpc[d] = "close" => overlapped

\* The store never holds more than was ever given to it.
FramesFit == Len(frames) <= Len(stored)

Inv ==
    /\ RunTypeOK /\ CtlTypeOK /\ UITypeOK
    /\ FQInv /\ QueueUse
    /\ PauseInv /\ StopInv /\ OverlapInv
    /\ StoreKeepsNewest /\ FramesFit

-----------------------------------------------------------------------------
(* The engine's steps are steps of the queue, or leave it alone.           *)

LEMMA RunStepUsesQueue ==
    ASSUME Inv, RunStep
    PROVE  [FQNext]_feedVars
<1>1. CASE StartRun
  BY <1>1 DEF StartRun, FQNext
<1>2. CASE QueueRow
  <2>1. pktNo \in Rows /\ Produce(pktNo)
    BY <1>2 DEF QueueRow, Produce, Inv, QueueUse
  <2> QED BY <2>1 DEF FQNext
<1>3. CASE ReturnFromRun
  BY <1>3 DEF ReturnFromRun, FQNext, Inv, QueueUse
<1>4. CASE \/ OpenSource \/ CreateWriterFails \/ EvalStatus \/ SendStatus
           \/ CheckStop \/ PauseLoop \/ IngestPacket \/ ObserveFrame \/ StoreFrame
           \/ CountPacket \/ FinalBroadcasts \/ DoneEvent
  BY <1>4 DEF OpenSource, CreateWriterFails, EvalStatus, SendStatus, CheckStop,
     PauseLoop, Goto, IngestPacket, ObserveFrame, StoreFrame, CountPacket,
     FinalBroadcasts, DoneEvent
<1> QED BY <1>1, <1>2, <1>3, <1>4 DEF RunStep

\* handleWS's greeting touches nothing but what the dashboard is shown.
LEMMA GreetingLeavesEngine ==
    ASSUME HandleWS
    PROVE  UNCHANGED <<feedVars, runVars, ctlVars, flagVars, doneSent, lastAlert, lateHello>>
  BY DEF HandleWS, Connect, Greeting, EvalHello, SendHello, EvalHelloStatus, SendHelloStatus,
     GreetGoto

LEMMA StepUsesQueue ==
    ASSUME Inv, [Next]_vars
    PROVE  [FQNext]_feedVars
<1>1. CASE RunStep
  BY <1>1, RunStepUsesQueue
<1>2. CASE NextReturns
  BY <1>2 DEF NextReturns, NextPacket, NextEOF, NextError, Goto
<1>3. CASE FlushStep
  BY <1>3 DEF FlushStep, FQNext
<1>4. CASE ExitOnError \/ UNCHANGED vars
  BY <1>4 DEF ExitOnError, vars
<1>5. ASSUME NEW c \in Ctl, BeginCall(c) \/ EndCall(c)
      PROVE  UNCHANGED feedVars
  BY <1>5 DEF BeginCall, EndCall, Pause, Resume, SetPaused, Stop, EvalCallerStatus,
     SendCallerStatus, CloseStopCh
<1>6. CASE HandleWS
  BY <1>6, GreetingLeavesEngine
<1> QED BY <1>1, <1>2, <1>3, <1>4, <1>5, <1>6 DEF Next

\* FQInv is kept because the engine takes only steps of the queue.
LEMMA QueueStepKeepsInv ==
    ASSUME FQInv, [FQNext]_feedVars
    PROVE  FQInv'
  BY ProduceKeepsInv, TakeBatchKeepsInv, BroadcastBatchKeepsInv, OtherStepsKeepInv
     DEF FQNext, FlushLoop

-----------------------------------------------------------------------------
(* The engine's own parts of the invariant.                                *)

\* The callers and the process exit do not touch Run's variables, except that
\* a pause restarts sincePause.
LEMMA CallersLeaveRun ==
    ASSUME NEW c \in Ctl, BeginCall(c) \/ EndCall(c)
    PROVE  /\ UNCHANGED <<feedVars, pc, st, lifeVars, countVars, storeVars, sinceStop>>
           /\ sincePause' = sincePause \/ (sincePause' = 0 /\ paused' = TRUE)
  BY DEF BeginCall, EndCall, Pause, Resume, SetPaused, Stop, EvalCallerStatus,
     SendCallerStatus, CloseStopCh, runVars, pauseHist

\* Run, the flusher and the packet source do not touch the callers' variables.
LEMMA RunLeavesCallers ==
    ASSUME RunStep \/ NextReturns \/ FlushStep \/ UNCHANGED vars
    PROVE  UNCHANGED <<flagVars, ctlVars>>
  BY DEF RunStep, OpenSource, CreateWriterFails, StartRun, EvalStatus, SendStatus,
     CheckStop, PauseLoop, Goto, IngestPacket, ObserveFrame, StoreFrame, QueueRow,
     CountPacket, FinalBroadcasts, DoneEvent, ReturnFromRun, NextReturns, NextPacket,
     NextEOF, NextError, FlushStep, vars

\* Trimming keeps the newest frames: at least three quarters of a full store.
LEMMA TrimStoreFacts ==
    ASSUME NEW s \in Seq(Nat), Len(s) <= MaxStore
    PROVE  /\ TrimStore(s) \in Seq(Nat)
           /\ Len(TrimStore(s)) \in Nat
           /\ Len(TrimStore(s)) <= Len(s)
           /\ Len(TrimStore(s)) < MaxStore
           /\ Len(TrimStore(s)) >= Min2(Len(s), MaxStore - MaxStore \div 4)
           /\ \A k \in 1..Len(TrimStore(s)) :
                 TrimStore(s)[k] = s[Len(s) - Len(TrimStore(s)) + k]
<1> DEFINE n == Len(s)
           d == n \div 4
<1>1. n \in Nat /\ MaxStore \in Nat /\ MaxStore >= 4
  BY LenProperties, MaxStoreAssumption
<1>2. CASE n >= MaxStore
  <2>1. n = MaxStore /\ d \in Nat /\ d >= 1 /\ d <= n
    BY <1>1, <1>2
  <2>2. TrimStore(s) = SubSeq(s, d + 1, n)
    BY <1>2 DEF TrimStore
  <2> HIDE DEF d, n
  <2>3. \A k \in d + 1..n : s[k] \in Nat
    <3> TAKE k \in d + 1..n
    <3>1. k \in 1..n
      BY <1>1, <2>1
    <3> QED BY <3>1, ElementOfSeq DEF n
  <2>4. /\ SubSeq(s, d + 1, n) \in Seq(Nat)
        /\ Len(SubSeq(s, d + 1, n)) = (IF d + 1 <= n THEN n - (d + 1) + 1 ELSE 0)
        /\ \A k \in 1..n - (d + 1) + 1 : SubSeq(s, d + 1, n)[k] = s[(d + 1) + k - 1]
    <3> DEFINE m == d + 1
    <3>1. m \in Int /\ n \in Int /\ \A k \in m..n : s[k] \in Nat
      BY <1>1, <2>1, <2>3
    <3> HIDE DEF m
    <3>2. /\ SubSeq(s, m, n) \in Seq(Nat)
          /\ Len(SubSeq(s, m, n)) = (IF m <= n THEN n - m + 1 ELSE 0)
          /\ \A k \in 1..n - m + 1 : SubSeq(s, m, n)[k] = s[m + k - 1]
      BY <3>1, SubSeqProperties
    <3> QED BY <3>2 DEF m
  <2>5. n - (d + 1) + 1 = n - d /\ (IF d + 1 <= n THEN n - (d + 1) + 1 ELSE 0) = n - d
    BY <1>1, <2>1
  <2>6. \A k \in 1..n - d : SubSeq(s, d + 1, n)[k] = s[n - (n - d) + k]
    <3> TAKE k \in 1..n - d
    <3>1. (d + 1) + k - 1 = n - (n - d) + k /\ k \in 1..n - (d + 1) + 1
      BY <1>1, <2>1
    <3> QED BY <2>4, <3>1
  <2>7. Len(TrimStore(s)) = n - d
    BY <2>2, <2>4, <2>5
  <2>8. n - d \in Nat /\ n - d <= n /\ n - d < MaxStore
    BY <1>1, <2>1
  <2>9. n - d >= Min2(n, MaxStore - MaxStore \div 4)
    BY <1>1, <2>1 DEF Min2, d
  <2> QED BY <2>2, <2>4, <2>6, <2>7, <2>8, <2>9 DEF n
<1>3. CASE n < MaxStore
  <2>1. TrimStore(s) = s
    BY <1>1, <1>3 DEF TrimStore
  <2>2. n >= Min2(n, MaxStore - MaxStore \div 4)
    BY <1>1 DEF Min2
  <2>3. \A k \in 1..n : n - n + k = k
    BY <1>1
  <2> QED BY <1>1, <1>3, <2>1, <2>2, <2>3
<1>4. n >= MaxStore \/ n < MaxStore
  BY <1>1
<1> QED BY <1>2, <1>3, <1>4, Zenon

LEMMA RunTypeStep ==
    ASSUME Inv, [Next]_vars
    PROVE  RunTypeOK'
<1> USE DEF RunTypeOK
<1>0. RunTypeOK /\ paused \in BOOLEAN /\ Sources \subseteq {"file", "tcpdump", "kernel", "stdin"}
  BY ModeAssumption DEF Inv, CtlTypeOK, Sources
<1>11. pktNo \in Nat /\ matched \in Nat /\ observed \in Nat
       /\ sincePause \in Nat /\ sinceStop \in Nat
  BY <1>0
<1>12. /\ pktNo + 1 \in Nat /\ matched + 1 \in Nat /\ observed + 1 \in Nat
       /\ sincePause + 1 \in Nat /\ sinceStop + 1 \in Nat
  BY <1>11
<1>1. CASE OpenSource
  BY <1>0, <1>1 DEF OpenSource, PCs, countVars, storeVars, pauseHist
<1>2. CASE CreateWriterFails \/ StartRun \/ EvalStatus \/ SendStatus
  BY <1>0, <1>2 DEF CreateWriterFails, StartRun, EvalStatus, SendStatus, PCs, lifeVars,
     countVars, storeVars, pauseHist
<1>3. CASE CheckStop \/ PauseLoop \/ NextReturns
  BY <1>0, <1>3 DEF CheckStop, PauseLoop, NextReturns, NextPacket, NextEOF, NextError,
     Goto, PCs, lifeVars, countVars, storeVars, pauseHist
<1>4. CASE IngestPacket
  <2>2. Append(recorded, pktNo + 1) \in Seq(Nat)
    BY <1>0, <1>12, AppendProperties
  <2>3. recorded' \in Seq(Nat)
    BY <1>0, <1>4, <2>2 DEF IngestPacket
  <2>4. pktNo' \in Nat /\ sincePause' \in Nat /\ sinceStop' \in Nat /\ pc' \in PCs
    BY <1>0, <1>4, <1>12 DEF IngestPacket, PCs
  <2> QED BY <1>0, <1>4, <2>3, <2>4 DEF IngestPacket, lifeVars
<1>5. CASE ObserveFrame
  BY <1>0, <1>5, <1>12 DEF ObserveFrame, PCs, lifeVars, storeVars, pauseHist
<1>6. CASE StoreFrame
  <2>1. frames' \in Seq(Nat) /\ stored' \in Seq(Nat)
    <3>1. TrimStore(frames) \in Seq(Nat)
      BY <1>0, TrimStoreFacts DEF Inv, StoreKeepsNewest
    <3> QED BY <1>0, <1>6, <3>1, AppendProperties DEF StoreFrame
  <2> QED BY <1>0, <1>6, <2>1 DEF StoreFrame, PCs, lifeVars, countVars, pauseHist
<1>7. CASE CountPacket
  BY <1>0, <1>7, <1>12 DEF CountPacket, PCs, lifeVars, storeVars, pauseHist
<1>10. CASE QueueRow \/ FinalBroadcasts \/ DoneEvent \/ ReturnFromRun
  BY <1>0, <1>10 DEF QueueRow, FinalBroadcasts, DoneEvent, ReturnFromRun,
     PCs, lifeVars, countVars, storeVars, pauseHist
<1>8. CASE FlushStep \/ ExitOnError \/ UNCHANGED vars
  BY <1>0, <1>8 DEF FlushStep, ExitOnError, vars, runVars, lifeVars, countVars, storeVars,
     pauseHist
<1>9. ASSUME NEW c \in Ctl, BeginCall(c) \/ EndCall(c)
      PROVE  RunTypeOK'
  <2>1. 0 \in Nat
    OBVIOUS
  <2>2. sincePause' \in Nat
    BY <1>0, <1>9, <2>1, CallersLeaveRun
  <2> QED BY <1>0, <1>9, <2>2, CallersLeaveRun DEF lifeVars, countVars, storeVars
<1>13. CASE HandleWS
  <2>1. UNCHANGED runVars
    BY <1>13, GreetingLeavesEngine
  <2> QED BY <1>0, <2>1 DEF runVars, lifeVars, countVars, storeVars, pauseHist
<1> QED BY <1>1, <1>2, <1>3, <1>4, <1>5, <1>6, <1>7, <1>8, <1>9, <1>10, <1>13
        DEF Next, RunStep

LEMMA CtlTypeStep ==
    ASSUME Inv, [Next]_vars
    PROVE  CtlTypeOK'
<1> USE DEF CtlTypeOK
<1>0. CtlTypeOK
  BY DEF Inv
<1>1. CASE UNCHANGED <<flagVars, ctlVars>>
  BY <1>0, <1>1 DEF flagVars, ctlVars
<1>2. CASE ExitOnError
  BY <1>0, <1>2 DEF ExitOnError, ctlVars
<1>3. ASSUME NEW c \in Ctl, BeginCall(c) \/ EndCall(c)
      PROVE  CtlTypeOK'
  <2>1. calls + 1 \in Nat
    <3>1. calls \in Nat
      BY <1>0
    <3> QED BY <3>1
  <2>2. CASE Pause(c)
    BY <1>0, <2>1, <2>2 DEF Pause, SetPaused, Begin
  <2>3. CASE Resume(c)
    BY <1>0, <2>1, <2>3 DEF Resume, SetPaused, Begin
  <2>4. CASE Stop(c)
    BY <1>0, <2>1, <2>4 DEF Stop, Begin, AfterSelect
  <2>5. CASE EvalCallerStatus(c)
    BY <1>0, <2>5 DEF EvalCallerStatus, flagVars
  <2>6. CASE SendCallerStatus(c)
    BY <1>0, <2>6 DEF SendCallerStatus, flagVars
  <2>7. CASE CloseStopCh(c)
    BY <1>0, <2>7 DEF CloseStopCh
  <2> QED BY <1>3, <2>2, <2>3, <2>4, <2>5, <2>6, <2>7 DEF BeginCall, EndCall
<1>4. RunStep \/ NextReturns \/ FlushStep \/ HandleWS \/ UNCHANGED vars
        => UNCHANGED <<flagVars, ctlVars>>
  BY RunLeavesCallers, GreetingLeavesEngine
<1> QED BY <1>1, <1>2, <1>3, <1>4 DEF Next

LEMMA UITypeStep ==
    ASSUME Inv, [Next]_vars
    PROVE  UITypeOK'
<1> USE DEF UITypeOK
<1>0. /\ UITypeOK /\ observed \in Nat /\ pktNo \in Nat /\ st \in BOOLEAN
      /\ cst \in [Ctl -> BOOLEAN] /\ paused \in BOOLEAN
  BY DEF Inv, RunTypeOK, CtlTypeOK
<1>1. CASE UNCHANGED uiVars
  BY <1>0, <1>1 DEF uiVars, helloVars
<1>2. CASE SendStatus
  BY <1>0, <1>2 DEF SendStatus, helloVars
<1>3. CASE IngestPacket
  <2>1. pktNo + 1 \in Nat
    BY <1>0
  <2>2. lastAlert' \in Nat
    BY <1>0, <1>3, <2>1 DEF IngestPacket
  <2> QED BY <1>0, <1>3, <2>2 DEF IngestPacket, helloVars
<1>4. CASE CountPacket \/ FinalBroadcasts \/ DoneEvent
  BY <1>0, <1>4 DEF CountPacket, FinalBroadcasts, FinalStats, DoneEvent, Connected, helloVars
<1>5. ASSUME NEW c \in Ctl, BeginCall(c) \/ EndCall(c)
      PROVE  UITypeOK'
  BY <1>0, <1>5 DEF BeginCall, EndCall, Pause, Resume, SetPaused, Stop, EvalCallerStatus,
     SendCallerStatus, CloseStopCh, uiVars, helloVars
<1>6. CASE OpenSource \/ CreateWriterFails \/ StartRun \/ EvalStatus \/ CheckStop
           \/ PauseLoop \/ ObserveFrame \/ StoreFrame \/ QueueRow \/ ReturnFromRun
           \/ NextReturns \/ FlushStep \/ ExitOnError \/ UNCHANGED vars
  <2>1. UNCHANGED uiVars
    BY <1>6 DEF OpenSource, CreateWriterFails, StartRun, EvalStatus, CheckStop, PauseLoop,
       ObserveFrame, StoreFrame, QueueRow, ReturnFromRun, NextReturns, NextPacket,
       NextEOF, NextError, Goto, FlushStep, ExitOnError, vars
  <2> QED BY <1>1, <2>1
<1>7. CASE HandleWS
  <2>1. greet' \in GreetPCs /\ UNCHANGED <<doneSent, lastAlert, lateHello>>
    BY <1>7, GreetingLeavesEngine DEF HandleWS, Connect, Greeting, EvalHello, SendHello,
       EvalHelloStatus, SendHelloStatus, GreetGoto, GreetPCs
  <2>2. 0 \in Nat
    OBVIOUS
  <2>3. hello' \in {hello, observed, 0} /\ shownStats' \in {shownStats, hello}
    BY <1>7 DEF HandleWS, Connect, Greeting, EvalHello, SendHello, EvalHelloStatus,
       SendHelloStatus
  <2>4. helloSt' \in BOOLEAN /\ pill' \in BOOLEAN
    BY <1>0, <1>7 DEF HandleWS, Connect, Greeting, EvalHello, SendHello, EvalHelloStatus,
       SendHelloStatus
  <2> QED BY <1>0, <2>1, <2>2, <2>3, <2>4
<1> QED BY <1>2, <1>3, <1>4, <1>5, <1>6, <1>7 DEF Next, RunStep

LEMMA QueueUseStep ==
    ASSUME Inv, [Next]_vars
    PROVE  QueueUse'
<1> USE DEF QueueUse, Newer
<1>0. /\ QueueUse /\ pktNo \in Nat /\ offered \in Seq(Rows)
      /\ Len(offered) \in Nat
      /\ \A i \in 1..Len(offered) : offered[i] \in Nat
  BY RowsAreNumbers DEF Inv, RunTypeOK, FQInv, FQTypeOK
<1>1. CASE UNCHANGED <<fpc, flushStop, offered, pktNo, pc>>
  BY <1>0, <1>1
<1>2. CASE OpenSource \/ CreateWriterFails
  BY <1>0, <1>2 DEF OpenSource, CreateWriterFails, countVars, feedVars
<1>3. CASE StartRun
  BY <1>0, <1>3 DEF StartRun, StartFlushLoop, countVars
<1>4. CASE EvalStatus \/ SendStatus \/ CheckStop \/ PauseLoop \/ CountPacket
           \/ FinalBroadcasts \/ DoneEvent \/ NextEOF \/ NextError \/ NextPacket
  BY <1>0, <1>4 DEF EvalStatus, SendStatus, CheckStop, PauseLoop, CountPacket,
     FinalBroadcasts, DoneEvent, NextEOF, NextError, NextPacket, Goto, countVars, feedVars
<1>5. CASE IngestPacket
  <2>1. /\ pc = "ingest" /\ pktNo' = pktNo + 1 /\ pktNo + 1 \in Rows
        /\ pc' \in {"observe", "count"}
        /\ fpc' = fpc /\ flushStop' = flushStop /\ offered' = offered
        /\ fpc # "off" /\ ~flushStop
    BY <1>0, <1>5 DEF IngestPacket, feedVars
  <2>2. \A i \in 1..Len(offered) : offered[i] <= pktNo + 1 /\ offered[i] < pktNo + 1
    BY <1>0
  <2> QED BY <2>1, <2>2
<1>6. CASE ObserveFrame \/ StoreFrame
  BY <1>0, <1>6 DEF ObserveFrame, StoreFrame, countVars, feedVars
<1>7. CASE QueueRow
  <2>1. /\ pc = "queue" /\ pc' = "count" /\ pktNo' = pktNo /\ pktNo \in Rows
        /\ fpc' = fpc /\ flushStop' = flushStop /\ fpc # "off" /\ ~flushStop
        /\ offered' = Append(offered, pktNo) \/ offered' = offered
    BY <1>0, <1>7 DEF QueueRow, QueueWS, countVars
  <2>2. \A i \in 1..Len(offered') : offered'[i] <= pktNo
    <3>1. CASE offered' = offered
      BY <1>0, <3>1
    <3>2. CASE offered' = Append(offered, pktNo)
      <4>1. /\ Len(offered') = Len(offered) + 1
            /\ \A k \in 1..Len(offered) : offered'[k] = offered[k]
            /\ offered'[Len(offered) + 1] = pktNo
        BY <1>0, <2>1, <3>2, AppendFacts
      <4> QED BY <1>0, <4>1
    <3> QED BY <2>1, <3>1, <3>2
  <2> QED BY <2>1, <2>2
<1>8. CASE ReturnFromRun
  BY <1>0, <1>8 DEF ReturnFromRun, CloseFlushStop, countVars
<1>9. CASE FlushStep
  <2>1. /\ pc' = pc /\ pktNo' = pktNo /\ offered' = offered /\ flushStop' = flushStop
        /\ fpc' = "off" => fpc = "off"
    BY <1>9 DEF FlushStep, FlushLoop, TakeBatch, AfterFlush, CountSent, BroadcastBatch,
       runVars, countVars
  <2> QED BY <1>0, <2>1
<1>10. CASE ExitOnError \/ UNCHANGED vars
  BY <1>1, <1>10 DEF ExitOnError, vars, feedVars, runVars, countVars
<1>11. ASSUME NEW c \in Ctl, BeginCall(c) \/ EndCall(c)
       PROVE  QueueUse'
  BY <1>1, <1>11, CallersLeaveRun DEF feedVars, countVars
<1>12. CASE HandleWS
  BY <1>1, <1>12, GreetingLeavesEngine DEF feedVars, runVars, countVars
<1> QED BY <1>2, <1>3, <1>4, <1>5, <1>6, <1>7, <1>8, <1>9, <1>10, <1>11, <1>12
        DEF Next, RunStep, NextReturns

\* Steps that can matter to the two counters of packets: all others leave
\* them, the flags and the labels they depend on alone.
LEMMA PauseStep ==
    ASSUME Inv, [Next]_vars
    PROVE  PauseInv'
<1> USE DEF PauseInv, PauseAlmostFreezes
<1>0. PauseInv /\ sincePause \in Nat
  BY DEF Inv, RunTypeOK
<1>1. CASE UNCHANGED <<paused, sincePause>> /\ (pc' = pc \/ pc' \notin {"next", "ingest"})
  BY <1>0, <1>1
<1>2. CASE OpenSource \/ CreateWriterFails \/ StartRun \/ EvalStatus \/ SendStatus
           \/ CheckStop \/ ObserveFrame \/ StoreFrame \/ QueueRow \/ CountPacket
           \/ FinalBroadcasts \/ DoneEvent \/ ReturnFromRun \/ NextEOF \/ NextError
  BY <1>1, <1>2 DEF OpenSource, CreateWriterFails, StartRun, EvalStatus, SendStatus,
     CheckStop, ObserveFrame, StoreFrame, QueueRow, CountPacket, FinalBroadcasts,
     DoneEvent, ReturnFromRun, NextEOF, NextError, Goto, flagVars, pauseHist
<1>3. CASE FlushStep \/ ExitOnError \/ UNCHANGED vars
  BY <1>1, <1>3 DEF FlushStep, ExitOnError, vars, runVars, flagVars, pauseHist
<1>4. CASE PauseLoop
  BY <1>0, <1>4 DEF PauseLoop, Goto, flagVars, pauseHist
<1>5. CASE NextPacket
  BY <1>0, <1>5 DEF NextPacket, Goto, flagVars, pauseHist
<1>6. CASE IngestPacket
  <2>1. /\ pc = "ingest" /\ paused' = paused /\ pc' \in {"observe", "count"}
        /\ sincePause' = IF paused THEN sincePause + 1 ELSE sincePause
    BY <1>6 DEF IngestPacket, flagVars
  <2>2. CASE paused
    <3>1. sincePause = 0 /\ sincePause' = sincePause + 1
      BY <1>0, <2>1, <2>2
    <3>2. sincePause' <= 1
      BY <3>1
    <3> QED BY <2>1, <3>2
  <2>3. CASE ~paused
    BY <2>1, <2>3
  <2> QED BY <2>2, <2>3
<1>7. ASSUME NEW c \in Ctl, BeginCall(c) \/ EndCall(c)
      PROVE  PauseInv'
  <2>1. CASE Pause(c)
    <3>1. pc' = pc /\ paused' = TRUE /\ sincePause' = IF ~paused THEN 0 ELSE sincePause
      BY <2>1 DEF Pause, SetPaused
    <3> QED BY <1>0, <3>1
  <2>2. CASE Resume(c)
    BY <2>2 DEF Resume, SetPaused
  <2>3. CASE Stop(c) \/ EndCall(c)
    BY <1>1, <2>3 DEF Stop, EndCall, EvalCallerStatus, SendCallerStatus, CloseStopCh,
       runVars, flagVars, pauseHist
  <2> QED BY <1>7, <2>1, <2>2, <2>3 DEF BeginCall
<1>8. CASE HandleWS
  BY <1>1, <1>8, GreetingLeavesEngine DEF runVars, flagVars, pauseHist
<1> QED BY <1>2, <1>3, <1>4, <1>5, <1>6, <1>7, <1>8 DEF Next, RunStep, NextReturns

LEMMA StopStep ==
    ASSUME Inv, [Next]_vars
    PROVE  StopInv'
<1> USE DEF StopInv, StopAlmostImmediate
<1>0. StopInv /\ sinceStop \in Nat
  BY DEF Inv, RunTypeOK
<1>1. CASE UNCHANGED <<stopped, sinceStop>>
           /\ (pc' = pc \/ pc' \notin {"pauseLoop", "next", "ingest"})
  BY <1>0, <1>1
<1>2. CASE OpenSource \/ CreateWriterFails \/ StartRun \/ EvalStatus \/ SendStatus
           \/ ObserveFrame \/ StoreFrame \/ QueueRow \/ CountPacket
           \/ FinalBroadcasts \/ DoneEvent \/ ReturnFromRun \/ NextEOF \/ NextError
  BY <1>1, <1>2 DEF OpenSource, CreateWriterFails, StartRun, EvalStatus, SendStatus,
     ObserveFrame, StoreFrame, QueueRow, CountPacket, FinalBroadcasts,
     DoneEvent, ReturnFromRun, NextEOF, NextError, Goto, flagVars, pauseHist
<1>3. CASE FlushStep \/ ExitOnError \/ UNCHANGED vars
  BY <1>1, <1>3 DEF FlushStep, ExitOnError, vars, runVars, flagVars, pauseHist
<1>4. CASE CheckStop \/ PauseLoop \/ NextPacket
  BY <1>0, <1>4 DEF CheckStop, PauseLoop, NextPacket, Goto, flagVars, pauseHist
<1>5. CASE IngestPacket
  <2>1. /\ pc = "ingest" /\ stopped' = stopped /\ pc' \in {"observe", "count"}
        /\ sinceStop' = IF stopped THEN sinceStop + 1 ELSE sinceStop
    BY <1>5 DEF IngestPacket, flagVars
  <2>2. sinceStop = 0
    BY <1>0, <2>1
  <2>3. sinceStop' <= 1 /\ (~stopped => sinceStop' = 0)
    BY <2>1, <2>2
  <2> QED BY <2>1, <2>3
<1>6. ASSUME NEW c \in Ctl, BeginCall(c) \/ EndCall(c)
      PROVE  StopInv'
  <2>1. sinceStop' = sinceStop /\ pc' = pc
    BY <1>6, CallersLeaveRun
  <2>2. stopped' = stopped \/ stopped'
    BY <1>6 DEF BeginCall, EndCall, Pause, Resume, SetPaused, Stop, EvalCallerStatus,
       SendCallerStatus, CloseStopCh, flagVars
  <2> QED BY <1>0, <2>1, <2>2
<1>7. CASE HandleWS
  BY <1>1, <1>7, GreetingLeavesEngine DEF runVars, flagVars, pauseHist
<1> QED BY <1>2, <1>3, <1>4, <1>5, <1>6, <1>7 DEF Next, RunStep, NextReturns

LEMMA OverlapStep ==
    ASSUME Inv, [Next]_vars
    PROVE  OverlapInv'
<1> USE DEF OverlapInv, PanicNeedsOverlap
<1>0. OverlapInv /\ CtlTypeOK
  BY DEF Inv
<1>1. CASE UNCHANGED <<flagVars, ctlVars>>
  BY <1>0, <1>1 DEF flagVars, ctlVars
<1>2. CASE ExitOnError
  BY <1>0, <1>2 DEF ExitOnError, ctlVars
<1>3. ASSUME NEW c \in Ctl, Stop(c)
      PROVE  OverlapInv'
  <2>1. /\ cpc[c] = "idle" /\ stopped' = stopped /\ panicked' = panicked
        /\ cpc' = [cpc EXCEPT ![c] = AfterSelect]
        /\ overlapped' = (overlapped \/ (~stopped /\ \E d \in Ctl : cpc[d] = "close"))
    BY <1>3 DEF Stop, Begin
  <2>2. \A d \in Ctl : cpc'[d] = IF d = c THEN AfterSelect ELSE cpc[d]
    BY <1>0, <2>1 DEF CtlTypeOK
  <2>3. AfterSelect = "close" => ~stopped
    BY DEF AfterSelect
  <2>4. overlapped => overlapped'
    BY <2>1
  <2>5. ASSUME NEW d \in Ctl, cpc'[d] = "close", stopped'
        PROVE  overlapped'
    BY <1>0, <2>1, <2>2, <2>3, <2>4, <2>5
  <2>6. ASSUME NEW d \in Ctl, NEW e \in Ctl, d # e, cpc'[d] = "close", cpc'[e] = "close"
        PROVE  overlapped'
    <3>1. CASE d # c /\ e # c
      BY <1>0, <2>2, <2>4, <2>6, <3>1
    <3>2. CASE d = c
      BY <2>1, <2>2, <2>3, <2>6, <3>2
    <3>3. CASE e = c
      BY <2>1, <2>2, <2>3, <2>6, <3>3
    <3> QED BY <3>1, <3>2, <3>3
  <2>7. panicked' => overlapped'
    BY <1>0, <2>1, <2>4
  <2> QED BY <2>5, <2>6, <2>7
<1>4. ASSUME NEW c \in Ctl, CloseStopCh(c)
      PROVE  OverlapInv'
  <2>1. /\ cpc[c] = "close" /\ stopped' = TRUE /\ panicked' = (panicked \/ stopped)
        /\ overlapped' = overlapped /\ cpc' = [cpc EXCEPT ![c] = "idle"]
    BY <1>4 DEF CloseStopCh
  <2>2. \A d \in Ctl : cpc'[d] = "close" => d # c /\ cpc[d] = "close"
    BY <1>0, <2>1 DEF CtlTypeOK
  <2>3. panicked' => overlapped'
    BY <1>0, <2>1
  <2>4. \A d \in Ctl : cpc'[d] = "close" => overlapped
    BY <1>0, <2>1, <2>2
  <2> QED BY <2>1, <2>3, <2>4
<1>5. ASSUME NEW c \in Ctl,
             Pause(c) \/ Resume(c) \/ EvalCallerStatus(c) \/ SendCallerStatus(c)
      PROVE  OverlapInv'
  <2>1. /\ UNCHANGED <<stopped, overlapped, panicked>>
        /\ \E label \in {"idle", "eval", "send"} : cpc' = [cpc EXCEPT ![c] = label]
    BY <1>5 DEF Pause, Resume, SetPaused, EvalCallerStatus, SendCallerStatus, flagVars
  <2>2. \A d \in Ctl : cpc'[d] = "close" => cpc[d] = "close"
    BY <1>0, <2>1 DEF CtlTypeOK
  <2> QED BY <1>0, <2>1, <2>2
<1>6. RunStep \/ NextReturns \/ FlushStep \/ HandleWS \/ UNCHANGED vars
        => UNCHANGED <<flagVars, ctlVars>>
  BY RunLeavesCallers, GreetingLeavesEngine
<1> QED BY <1>1, <1>2, <1>3, <1>4, <1>5, <1>6 DEF Next, BeginCall, EndCall

LEMMA StoreStep ==
    ASSUME Inv, [Next]_vars
    PROVE  StoreKeepsNewest' /\ FramesFit'
<1>0. /\ StoreKeepsNewest /\ frames \in Seq(Nat) /\ stored \in Seq(Nat) /\ pktNo \in Nat
      /\ Len(frames) \in Nat /\ Len(stored) \in Nat
      /\ MaxStore \in Nat /\ MaxStore >= 4 /\ Len(frames) <= Len(stored)
  BY LenProperties, MaxStoreAssumption DEF Inv, RunTypeOK, FramesFit
<1>1. CASE UNCHANGED <<frames, stored>>
  BY <1>0, <1>1 DEF StoreKeepsNewest, FramesFit
<1>2. CASE StoreFrame
  <2> DEFINE t == TrimStore(frames)
             n == Len(stored)
  <2>1. /\ t \in Seq(Nat) /\ Len(t) \in Nat /\ Len(t) <= Len(frames) /\ Len(t) < MaxStore
        /\ Len(t) >= Min2(Len(frames), MaxStore - MaxStore \div 4)
        /\ \A k \in 1..Len(t) : t[k] = frames[Len(frames) - Len(t) + k]
    BY <1>0, TrimStoreFacts DEF StoreKeepsNewest
  <2>2. frames' = Append(t, pktNo) /\ stored' = Append(stored, pktNo)
    BY <1>2 DEF StoreFrame
  <2> HIDE DEF t, n
  <2>3. /\ Len(frames') = Len(t) + 1
        /\ \A k \in 1..Len(t) : frames'[k] = t[k]
        /\ frames'[Len(t) + 1] = pktNo
    BY <1>0, <2>1, <2>2, AppendProperties
  <2>4. /\ Len(stored') = n + 1
        /\ \A k \in 1..n : stored'[k] = stored[k]
        /\ stored'[n + 1] = pktNo
    BY <1>0, <2>2, AppendProperties DEF n
  <2>5. /\ Len(frames) >= Min2(n, MaxStore - MaxStore \div 4)
        /\ \A k \in 1..Len(frames) : frames[k] = stored[n - Len(frames) + k]
        /\ n \in Nat
    BY <1>0 DEF StoreKeepsNewest, n
  <2>6. Len(frames') <= MaxStore
    BY <1>0, <2>1, <2>3
  <2>7. Len(frames') >= Min2(n + 1, MaxStore - MaxStore \div 4)
    <3> DEFINE keep == MaxStore - MaxStore \div 4
    <3>1. keep \in Nat /\ keep <= MaxStore
      BY <1>0
    <3>2. Len(t) >= Min2(Len(frames), keep) /\ Len(frames) >= Min2(n, keep)
      BY <2>1, <2>5
    <3> HIDE DEF keep
    <3>3. Len(t) + 1 >= Min2(n + 1, keep)
      BY <1>0, <2>1, <2>5, <3>1, <3>2 DEF Min2
    <3> QED BY <2>3, <3>3 DEF keep
  <2>8. ASSUME NEW k \in 1..Len(t) + 1
        PROVE  frames'[k] = stored'[n + 1 - (Len(t) + 1) + k]
    <3>1. CASE k = Len(t) + 1
      BY <2>1, <2>3, <2>4, <2>5, <3>1
    <3>2. CASE k \in 1..Len(t)
      <4> DEFINE j == Len(frames) - Len(t) + k
      <4>1. frames'[k] = frames[j]
        BY <2>1, <2>3, <3>2
      <4>3. j \in 1..Len(frames)
        <5>1. /\ Len(frames) \in Nat /\ Len(t) \in Nat /\ Len(t) <= Len(frames)
              /\ k \in Nat /\ 1 <= k /\ k <= Len(t)
          BY <1>0, <2>1, <3>2
        <5> QED BY <5>1
      <4>2. /\ n - Len(frames) + j = n + 1 - (Len(t) + 1) + k
            /\ n - Len(frames) + j \in 1..n
        <5>1. /\ Len(frames) \in Nat /\ Len(t) \in Nat /\ Len(t) <= Len(frames)
              /\ n \in Nat /\ Len(frames) <= n /\ k \in Nat /\ 1 <= k /\ k <= Len(t)
          BY <1>0, <2>1, <2>5, <3>2 DEF n
        <5>2. n - Len(frames) + j = n + 1 - (Len(t) + 1) + k
          BY <5>1
        <5>3. n - Len(frames) + j \in 1..n
          BY <5>1
        <5> QED BY <5>2, <5>3
      <4> HIDE DEF j
      <4> QED BY <2>4, <2>5, <4>1, <4>2, <4>3
    <3> QED BY <2>1, <3>1, <3>2
  <2>9. Len(frames') = Len(t) + 1 /\ Len(stored') = n + 1
    BY <2>3, <2>4
  <2>10. FramesFit'
    BY <1>0, <2>1, <2>9 DEF FramesFit, n
  <2>11. Len(frames') >= Min2(Len(stored'), MaxStore - MaxStore \div 4)
    BY <2>7, <2>9
  <2>12. \A k \in 1..Len(frames') : frames'[k] = stored'[Len(stored') - Len(frames') + k]
    <3> TAKE k \in 1..Len(frames')
    <3>1. k \in 1..Len(t) + 1
      BY <2>9
    <3>2. frames'[k] = stored'[n + 1 - (Len(t) + 1) + k]
      BY <2>8, <3>1
    <3>3. Len(stored') - Len(frames') + k = n + 1 - (Len(t) + 1) + k
      <4>1. k \in Nat /\ n \in Nat /\ Len(t) \in Nat
        BY <2>1, <2>5, <3>1
      <4> QED BY <2>9, <4>1
    <3> QED BY <3>2, <3>3
  <2> QED BY <2>6, <2>10, <2>11, <2>12 DEF StoreKeepsNewest
<1>3. ASSUME NEW c \in Ctl, BeginCall(c) \/ EndCall(c)
      PROVE  UNCHANGED <<frames, stored>>
  BY <1>3, CallersLeaveRun DEF storeVars
<1>4. CASE \/ OpenSource \/ CreateWriterFails \/ StartRun \/ EvalStatus \/ SendStatus
           \/ CheckStop \/ PauseLoop \/ IngestPacket \/ ObserveFrame \/ QueueRow
           \/ CountPacket \/ FinalBroadcasts \/ DoneEvent \/ ReturnFromRun
           \/ NextReturns \/ FlushStep \/ ExitOnError \/ UNCHANGED vars
  <2>1. UNCHANGED <<frames, stored>>
    BY <1>4 DEF OpenSource, CreateWriterFails, StartRun, EvalStatus, SendStatus, CheckStop,
       PauseLoop, Goto, IngestPacket, ObserveFrame, QueueRow, CountPacket,
       FinalBroadcasts, DoneEvent, ReturnFromRun, NextReturns, NextPacket, NextEOF,
       NextError, FlushStep, ExitOnError, vars, runVars, storeVars
  <2> QED BY <1>1, <2>1
<1>5. CASE HandleWS
  BY <1>1, <1>5, GreetingLeavesEngine DEF runVars, storeVars
<1> QED BY <1>1, <1>2, <1>3, <1>4, <1>5 DEF Next, RunStep

-----------------------------------------------------------------------------
(* The final stats.                                                        *)

\* Run has made its final broadcasts.
Finished ==
    \/ pc \in {"status", "sendStatus", "doneEvent"}
    \/ pc \in {"return", "returned"} /\ result # "error"

\* From the final broadcasts on nothing is observed any more.  What the dashboard is
\* shown then, and what a greeting has evaluated since, stays true; only a snapshot
\* that was in flight at the time of the broadcast (lateHello) is an exception.
FinalInv ==
    HasHub /\ Finished /\ ~lateHello =>
        /\ greet = "sendStats" => hello = observed
        /\ Greeted => shownStats = observed

LEMMA FinalStep ==
    ASSUME FinalInv, Inv, [Next]_vars
    PROVE  FinalInv'
<1> USE DEF FinalInv, Finished, Greeted
<1>0. greet \in GreetPCs
  BY DEF Inv, UITypeOK
<1>1. CASE UNCHANGED <<pc, result, observed, shownStats, helloVars>>
  BY <1>1 DEF helloVars
<1>2. CASE UNCHANGED result
           /\ pc' \notin {"status", "sendStatus", "doneEvent", "return", "returned"}
  BY <1>2
<1>3. CASE OpenSource \/ CreateWriterFails
  <2>1. UNCHANGED <<observed, shownStats, helloVars>>
        /\ ((pc' = "returned" /\ result' = "error") \/ pc' = "create")
    BY <1>3 DEF OpenSource, CreateWriterFails, countVars, uiVars
  <2> QED BY <2>1
<1>4. CASE \/ StartRun \/ CheckStop \/ PauseLoop \/ NextPacket \/ NextEOF
           \/ IngestPacket \/ ObserveFrame \/ StoreFrame \/ QueueRow \/ CountPacket
  <2>1. UNCHANGED result
        /\ pc' \notin {"status", "sendStatus", "doneEvent", "return", "returned"}
    BY <1>4 DEF StartRun, CheckStop, PauseLoop, NextPacket, NextEOF, Goto, IngestPacket,
       ObserveFrame, StoreFrame, QueueRow, CountPacket, lifeVars
  <2> QED BY <1>2, <2>1
<1>5. CASE EvalStatus
  BY <1>5 DEF EvalStatus, lifeVars, countVars, uiVars, helloVars
<1>6. CASE SendStatus
  BY <1>6 DEF SendStatus, lifeVars, countVars, helloVars
<1>7. CASE NextError
  BY <1>7 DEF NextError
<1>8. CASE FinalBroadcasts
  <2>1. /\ observed' = observed /\ greet' = greet
        /\ lateHello' = (greet = "sendStats") /\ shownStats' = FinalStats
    BY <1>8 DEF FinalBroadcasts, countVars
  <2>2. HasHub /\ greet \in {"status", "sendStatus", "done"} => shownStats' = observed
    BY <2>1 DEF FinalStats, Connected
  <2> QED BY <2>1, <2>2
<1>9. CASE DoneEvent
  BY <1>9 DEF DoneEvent, lifeVars, countVars, helloVars
<1>10. CASE ReturnFromRun
  BY <1>10 DEF ReturnFromRun, countVars, uiVars, helloVars
<1>11. CASE FlushStep \/ ExitOnError \/ UNCHANGED vars
  BY <1>1, <1>11 DEF FlushStep, ExitOnError, vars, runVars, lifeVars, countVars, uiVars
<1>12. ASSUME NEW c \in Ctl, BeginCall(c) \/ EndCall(c)
       PROVE  FinalInv'
  <2>1. UNCHANGED <<pc, result, observed, shownStats, helloVars>>
    BY <1>12 DEF BeginCall, EndCall, Pause, Resume, SetPaused, Stop, EvalCallerStatus,
       SendCallerStatus, CloseStopCh, runVars, lifeVars, countVars, uiVars
  <2> QED BY <1>1, <2>1
<1>13. CASE HandleWS
  <2>1. UNCHANGED <<pc, result, observed, lateHello>>
    BY <1>13, GreetingLeavesEngine DEF runVars, lifeVars, countVars
  <2>2. CASE Connect \/ EvalHello
    BY <2>1, <2>2 DEF Connect, EvalHello, GreetGoto
  <2>3. CASE SendHello
    BY <2>1, <2>3 DEF SendHello, GreetGoto
  <2>4. CASE EvalHelloStatus \/ SendHelloStatus
    BY <2>1, <2>4 DEF EvalHelloStatus, SendHelloStatus, GreetGoto
  <2> QED BY <1>13, <2>2, <2>3, <2>4 DEF HandleWS, Greeting
<1> QED BY <1>3, <1>4, <1>5, <1>6, <1>7, <1>8, <1>9, <1>10, <1>11, <1>12, <1>13
    DEF Next, RunStep, NextReturns

-----------------------------------------------------------------------------
(* A row can be opened: the store and the queue together.                  *)

\* Every frame given to the store is numbered, in increasing order; the frame
\* Run is working on is not stored before "store" and is the last one stored
\* from then until its row is queued.
StoredInv ==
    /\ \A i, j \in 1..Len(stored) : i < j => stored[i] < stored[j]
    /\ \A i \in 1..Len(stored) : stored[i] <= pktNo
    /\ pc \in {"observe", "store"} => \A i \in 1..Len(stored) : stored[i] < pktNo
    /\ pc = "queue" => \E i \in 1..Len(stored) : stored[i] = pktNo

\* A row is offered to the queue only after its frame was stored.
OfferedStored ==
    \A i \in 1..Len(offered) : \E k \in 1..Len(stored) : stored[k] = offered[i]

\* The feed holds nothing that was not offered.
FeedOffered ==
    \A i \in 1..Len(feed) : \E k \in 1..Len(offered) : offered[k] = feed[i]

RowsInv == StoredInv /\ OfferedStored /\ FeedOffered

\* Indices of the queue and of the batch, seen as indices of offered.
LEMMA QueuedAreOffered ==
    ASSUME FQInv
    PROVE  /\ \A i \in 1..Len(wsPending) :
                 \E k \in 1..Len(offered) : offered[k] = wsPending[i]
           /\ \A i \in 1..Len(batch) :
                 \E k \in 1..Len(offered) : offered[k] = batch[i]
<1>1. /\ Len(wsPending) \in Nat /\ Len(offered) \in Nat /\ Len(batch) \in Nat
      /\ mark \in Nat /\ MaxPending \in Nat
  BY LenProperties, MaxPendingAssumption DEF FQInv, FQTypeOK
<1>2. /\ Len(wsPending) = Min2(Len(offered) - mark, MaxPending)
      /\ \A i \in 1..Len(wsPending) :
            wsPending[i] = offered[Len(offered) - Len(wsPending) + i]
      /\ mark <= Len(offered) /\ Len(batch) <= mark
      /\ \A i \in 1..Len(batch) : batch[i] = offered[mark - Len(batch) + i]
  BY DEF FQInv, KeepsNewest, BatchEndsAtMark
<1>3. ASSUME NEW i \in 1..Len(wsPending)
      PROVE  \E k \in 1..Len(offered) : offered[k] = wsPending[i]
  <2>1. Len(wsPending) <= Len(offered)
    BY <1>1, <1>2 DEF Min2
  <2>2. Len(offered) - Len(wsPending) + i \in 1..Len(offered)
    BY <1>1, <2>1
  <2> QED BY <1>2, <2>2
<1>4. ASSUME NEW i \in 1..Len(batch)
      PROVE  \E k \in 1..Len(offered) : offered[k] = batch[i]
  <2>1. mark - Len(batch) + i \in 1..Len(offered)
    BY <1>1, <1>2
  <2> QED BY <1>2, <2>1
<1> QED BY <1>3, <1>4

LEMMA FeedOfferedStep ==
    ASSUME FQInv, FeedOffered, [FQNext]_feedVars
    PROVE  FeedOffered'
<1> USE DEF FeedOffered
<1>1. CASE UNCHANGED <<feed, offered>>
  BY <1>1
<1>2. ASSUME NEW row \in Rows, Produce(row), HasHub
      PROVE  FeedOffered'
  <2>1. offered' = Append(offered, row) /\ feed' = feed
    BY <1>2 DEF Produce, QueueWS
  <2>2. offered \in Seq(Rows) /\ Len(offered) \in Nat
    BY LenProperties DEF FQInv, FQTypeOK
  <2>3. Len(offered') = Len(offered) + 1 /\ \A k \in 1..Len(offered) : offered'[k] = offered[k]
    BY <2>1, <2>2, AppendFacts
  <2>4. \A k \in 1..Len(offered) : k \in 1..Len(offered')
    BY <2>2, <2>3
  <2> QED BY <2>1, <2>3, <2>4
<1>3. CASE BroadcastBatch
  <2>1. feed' = feed \o batch /\ offered' = offered
    BY <1>3 DEF BroadcastBatch
  <2>2. feed \in Seq(Rows) /\ batch \in Seq(Rows) /\ Len(feed) \in Nat /\ Len(batch) \in Nat
    BY LenProperties DEF FQInv, FQTypeOK
  <2>3. /\ Len(feed') = Len(feed) + Len(batch)
        /\ \A k \in 1..Len(feed) + Len(batch) :
              feed'[k] = IF k <= Len(feed) THEN feed[k] ELSE batch[k - Len(feed)]
    BY <2>1, <2>2, ConcatProperties
  <2>4. ASSUME NEW i \in 1..Len(feed')
        PROVE  \E k \in 1..Len(offered) : offered[k] = feed'[i]
    <3>1. CASE i <= Len(feed)
      <4>1. i \in 1..Len(feed) /\ feed'[i] = feed[i]
        BY <2>2, <2>3, <3>1
      <4> QED BY <4>1
    <3>2. CASE ~(i <= Len(feed))
      <4>1. i - Len(feed) \in 1..Len(batch) /\ feed'[i] = batch[i - Len(feed)]
        BY <2>2, <2>3, <3>2
      <4> QED BY <4>1, QueuedAreOffered
    <3> QED BY <3>1, <3>2
  <2> QED BY <2>1, <2>4
<1>4. ASSUME NEW row \in Rows, Produce(row), ~HasHub
      PROVE  UNCHANGED <<feed, offered>>
  BY <1>4 DEF Produce, QueueWS
<1>5. CASE \/ StartFlushLoop \/ (fpc # "off" /\ CloseFlushStop) \/ CountSent
           \/ (\E final \in BOOLEAN : TakeBatch(final)) \/ UNCHANGED feedVars
  BY <1>1, <1>5 DEF StartFlushLoop, CloseFlushStop, CountSent, TakeBatch, feedVars
<1> QED BY <1>1, <1>2, <1>3, <1>4, <1>5 DEF FQNext, FlushLoop

LEMMA StoredStep ==
    ASSUME Inv, RowsInv, [Next]_vars
    PROVE  StoredInv' /\ OfferedStored'
<1> USE DEF StoredInv, OfferedStored
<1>0. /\ StoredInv /\ OfferedStored /\ pktNo \in Nat /\ stored \in Seq(Nat)
      /\ Len(stored) \in Nat /\ \A i \in 1..Len(stored) : stored[i] \in Nat
      /\ offered \in Seq(Rows) /\ Len(offered) \in Nat
  BY LenProperties, ElementOfSeq DEF Inv, RunTypeOK, FQInv, FQTypeOK, RowsInv
<1>1. CASE /\ UNCHANGED <<stored, pktNo, offered>>
           /\ pc' = pc \/ pc' \notin {"observe", "store", "queue"}
  BY <1>0, <1>1
<1>2. CASE \/ OpenSource \/ CreateWriterFails \/ StartRun \/ EvalStatus \/ SendStatus
           \/ CheckStop \/ PauseLoop \/ CountPacket \/ FinalBroadcasts \/ DoneEvent
           \/ ReturnFromRun \/ NextPacket \/ NextEOF \/ NextError
  <2>1. UNCHANGED <<stored, pktNo, offered>> /\ pc' \notin {"observe", "store", "queue"}
    BY <1>2 DEF OpenSource, CreateWriterFails, StartRun, StartFlushLoop, EvalStatus,
       SendStatus, CheckStop, PauseLoop, Goto, CountPacket, FinalBroadcasts, DoneEvent,
       ReturnFromRun, CloseFlushStop, NextPacket, NextEOF, NextError, storeVars,
       countVars, feedVars
  <2> QED BY <1>1, <2>1
<1>3. CASE IngestPacket
  <2>1. /\ pktNo' = pktNo + 1 /\ pc' \in {"observe", "count"}
        /\ stored' = stored /\ offered' = offered
    BY <1>3 DEF IngestPacket, feedVars
  <2>2. \A i \in 1..Len(stored) : stored[i] < pktNo + 1 /\ stored[i] <= pktNo + 1
    BY <1>0
  <2> QED BY <1>0, <2>1, <2>2
<1>4. CASE ObserveFrame
  BY <1>0, <1>4 DEF ObserveFrame, storeVars, feedVars
<1>5. CASE StoreFrame
  <2>1. /\ pc = "store" /\ pc' = "queue" /\ pktNo' = pktNo /\ offered' = offered
        /\ stored' = Append(stored, pktNo)
    BY <1>5 DEF StoreFrame, countVars, feedVars
  <2>2. /\ Len(stored') = Len(stored) + 1
        /\ \A k \in 1..Len(stored) : stored'[k] = stored[k]
        /\ stored'[Len(stored) + 1] = pktNo
    BY <1>0, <2>1, AppendProperties
  <2>3. \A k \in 1..Len(stored') : k \in 1..Len(stored) \/ k = Len(stored) + 1
    BY <1>0, <2>2
  <2>4. /\ \A k \in 1..Len(stored) : k \in 1..Len(stored')
        /\ Len(stored) + 1 \in 1..Len(stored')
    BY <1>0, <2>2
  <2>5. \A k \in 1..Len(stored) : stored[k] < pktNo
    BY <1>0, <2>1
  <2>6. \A i, j \in 1..Len(stored') : i < j => stored'[i] < stored'[j]
    <3> TAKE i, j \in 1..Len(stored')
    <3> HAVE i < j
    <3>1. i \in 1..Len(stored)
      BY <1>0, <2>2
    <3>2. CASE j \in 1..Len(stored)
      BY <1>0, <2>2, <3>1, <3>2
    <3>3. CASE j = Len(stored) + 1
      BY <2>2, <2>5, <3>1, <3>3
    <3> QED BY <2>3, <3>2, <3>3
  <2>7. \A i \in 1..Len(stored') : stored'[i] <= pktNo'
    BY <1>0, <2>1, <2>2, <2>3, <2>5
  <2>8. \E i \in 1..Len(stored') : stored'[i] = pktNo'
    BY <2>1, <2>2, <2>4
  <2>9. OfferedStored'
    BY <1>0, <2>1, <2>2, <2>4
  <2> QED BY <2>1, <2>6, <2>7, <2>8, <2>9
<1>6. CASE QueueRow
  <2>1. /\ pc = "queue" /\ pc' = "count" /\ pktNo' = pktNo /\ stored' = stored
        /\ pktNo \in Rows
    BY <1>6 DEF QueueRow, countVars, storeVars, Inv, QueueUse
  <2>2. offered' = offered \/ offered' = Append(offered, pktNo)
    BY <1>6 DEF QueueRow, QueueWS
  <2>3. CASE offered' = Append(offered, pktNo)
    <3>1. /\ Len(offered') = Len(offered) + 1
          /\ \A k \in 1..Len(offered) : offered'[k] = offered[k]
          /\ offered'[Len(offered) + 1] = pktNo
      BY <1>0, <2>1, <2>3, AppendFacts
    <3>2. \A k \in 1..Len(offered') : k \in 1..Len(offered) \/ k = Len(offered) + 1
      BY <1>0, <3>1
    <3>3. OfferedStored'
      BY <1>0, <2>1, <3>1, <3>2
    <3> QED BY <1>0, <2>1, <3>3
  <2> QED BY <1>0, <2>1, <2>2, <2>3
<1>7. CASE FlushStep
  BY <1>1, <1>7 DEF FlushStep, FlushLoop, TakeBatch, CountSent, BroadcastBatch, runVars,
     storeVars, countVars
<1>8. CASE ExitOnError \/ UNCHANGED vars
  BY <1>1, <1>8 DEF ExitOnError, vars, runVars, storeVars, countVars, feedVars
<1>9. ASSUME NEW c \in Ctl, BeginCall(c) \/ EndCall(c)
      PROVE  UNCHANGED <<stored, pktNo, offered, pc>>
  BY <1>9, CallersLeaveRun DEF storeVars, countVars, feedVars
<1>10. CASE HandleWS
  BY <1>1, <1>10, GreetingLeavesEngine DEF runVars, storeVars, countVars, feedVars
<1> QED BY <1>1, <1>2, <1>3, <1>4, <1>5, <1>6, <1>7, <1>8, <1>9, <1>10
    DEF Next, RunStep, NextReturns

\* A frame that was stored is still there, or older than everything that is.
LEMMA StoredOrOlder ==
    ASSUME Inv, StoredInv, NEW n \in 1..Len(stored)
    PROVE  /\ frames # <<>>
           /\ stored[n] < frames[1] \/ \E k \in 1..Len(frames) : frames[k] = stored[n]
<1>1. /\ Len(stored) \in Nat /\ Len(frames) \in Nat /\ frames \in Seq(Nat)
      /\ Len(frames) <= Len(stored) /\ MaxStore \in Nat /\ MaxStore >= 4
      /\ Len(frames) >= Min2(Len(stored), MaxStore - MaxStore \div 4)
      /\ \A i \in 1..Len(frames) : frames[i] = stored[Len(stored) - Len(frames) + i]
  BY LenProperties, MaxStoreAssumption DEF Inv, RunTypeOK, FramesFit, StoreKeepsNewest
<1> DEFINE d == Len(stored) - Len(frames)
<1>2. MaxStore - MaxStore \div 4 >= 1
  BY <1>1
<1>3. Len(frames) >= 1 /\ n \in Nat
  BY <1>1, <1>2 DEF Min2
<1>4. frames # <<>>
  BY <1>1, <1>3, EmptySeq
<1>5. CASE n <= d
  <2>1. n < d + 1 /\ d + 1 \in 1..Len(stored) /\ 1 \in 1..Len(frames)
    BY <1>1, <1>3, <1>5
  <2>2. frames[1] = stored[d + 1] /\ stored[n] < stored[d + 1]
    BY <1>1, <2>1 DEF StoredInv
  <2> QED BY <1>4, <2>2
<1>6. CASE ~(n <= d)
  <2>1. n - d \in 1..Len(frames) /\ d + (n - d) = n
    BY <1>1, <1>3, <1>6
  <2>2. frames[n - d] = stored[d + (n - d)]
    BY <1>1, <2>1
  <2>3. frames[n - d] = stored[n]
    BY <2>1, <2>2
  <2> HIDE DEF d
  <2> QED BY <1>4, <2>1, <2>3
<1> QED BY <1>5, <1>6

LEMMA RowsInvOpens ==
    ASSUME Inv, RowsInv
    PROVE  RowsOpenable
<1>1. ASSUME NEW n \in 1..Len(offered)
      PROVE  /\ frames # <<>>
             /\ offered[n] < frames[1] \/ \E k \in 1..Len(frames) : frames[k] = offered[n]
  BY StoredOrOlder DEF RowsInv, OfferedStored
<1>2. FQInv
  BY DEF Inv
<1>3. /\ \A i \in 1..Len(wsPending) : \E k \in 1..Len(offered) : offered[k] = wsPending[i]
      /\ \A i \in 1..Len(batch) : \E k \in 1..Len(offered) : offered[k] = batch[i]
      /\ \A i \in 1..Len(feed) : \E k \in 1..Len(offered) : offered[k] = feed[i]
  BY <1>2, QueuedAreOffered DEF RowsInv, FeedOffered
<1> QED BY <1>1, <1>3 DEF RowsOpenable

-----------------------------------------------------------------------------
(* The theorems.                                                           *)

LEMMA InitEstablishesInv == Init => Inv
<1> SUFFICES ASSUME Init PROVE Inv
  OBVIOUS
<1>1. <<>> \in Seq(Nat) /\ Len(<<>>) = 0 /\ 0 \in Nat
  BY EmptySeq
<1>2. FQInv
  BY FQInitEstablishesInv DEF Init
<1>3. RunTypeOK /\ CtlTypeOK /\ UITypeOK
  BY <1>1 DEF Init, RunTypeOK, CtlTypeOK, UITypeOK, PCs, GreetPCs
<1>4. QueueUse
  <2>1. pc = "open" /\ flushStop = FALSE /\ offered = <<>> /\ Len(offered) = 0
    BY <1>1 DEF Init, FQInit
  <2> QED BY <2>1 DEF QueueUse
<1>5. PauseInv /\ StopInv
  <2>1. sincePause = 0 /\ sinceStop = 0
    BY DEF Init
  <2> QED BY <2>1 DEF PauseInv, PauseAlmostFreezes, StopInv, StopAlmostImmediate
<1>6. OverlapInv
  BY DEF Init, OverlapInv, PanicNeedsOverlap
<1>7. StoreKeepsNewest /\ FramesFit
  <2>1. MaxStore \in Nat /\ Min2(0, MaxStore - MaxStore \div 4) <= 0
    BY MaxStoreAssumption DEF Min2
  <2>2. Len(frames) = 0 /\ Len(stored) = 0
    BY <1>1 DEF Init
  <2> QED BY <2>1, <2>2, MaxStoreAssumption DEF StoreKeepsNewest, FramesFit
<1> QED BY <1>2, <1>3, <1>4, <1>5, <1>6, <1>7 DEF Inv

\* The inductive invariant of the engine: all parts are kept by every step of
\* Run, the flusher, the callers and the process.
THEOREM EngineInvariance == Spec => []Inv
<1>1. Inv /\ [Next]_vars => Inv'
  <2> SUFFICES ASSUME Inv, [Next]_vars PROVE Inv'
    OBVIOUS
  <2>1. FQInv'
    BY StepUsesQueue, QueueStepKeepsInv DEF Inv
  <2> QED BY <2>1, RunTypeStep, CtlTypeStep, UITypeStep, QueueUseStep, PauseStep, StopStep,
             OverlapStep, StoreStep DEF Inv
<1> QED BY <1>1, InitEstablishesInv, PTL DEF Spec

\* Types: no field of the engine, of its callers or of the dashboard's picture
\* of it ever leaves its range.
THEOREM EngineTyping == Spec => []TypeOK
<1>1. Inv => TypeOK
  BY DEF Inv, FQInv, RunTypeOK, CtlTypeOK, UITypeOK, TypeOK
<1> QED BY <1>1, EngineInvariance, PTL

\* Run's calls of queueWS, wsFlushLoop and close(flushStop) come in the only
\* order FeedQueue allows: started once, rows in increasing order between.
THEOREM EngineUsesFeedQueue == Spec => UsesFeedQueue
<1>1. Init => FQInit
  BY DEF Init
<1>2. Inv /\ [Next]_vars => [FQNext]_feedVars
  BY StepUsesQueue
<1> QED BY <1>1, <1>2, EngineInvariance, PTL DEF Spec, UsesFeedQueue, FQSpec

\* Hence what FeedQueue promises holds of the running engine: every row is
\* shown, waiting or counted as dropped, rows come in order, the newest rows
\* are kept, and the live table is a lossy feed.
THEOREM EngineFeedIsLossy ==
    Spec => [](RowsAccounted /\ KeepsNewest /\ FeedInOrder) /\ ImplementsLossyFeed
BY EngineUsesFeedQueue, FQRowsAccounted, FQKeepsNewest, FQFeedInOrder,
   FQImplementsLossyFeed, PTL DEF UsesFeedQueue

\* Pause lets at most the packet through that Run was already fetching.
THEOREM EnginePause == Spec => []PauseAlmostFreezes
<1>1. Inv => PauseAlmostFreezes
  BY DEF Inv, PauseInv
<1> QED BY <1>1, EngineInvariance, PTL

\* So does Stop.
THEOREM EngineStop == Spec => []StopAlmostImmediate
<1>1. Inv => StopAlmostImmediate
  BY DEF Inv, StopInv
<1> QED BY <1>1, EngineInvariance, PTL

\* Closing stopCh twice takes two Stops that overlap in time.
THEOREM EngineStopPanics == Spec => []PanicNeedsOverlap
<1>1. Inv => PanicNeedsOverlap
  BY DEF Inv, OverlapInv
<1> QED BY <1>1, EngineInvariance, PTL

\* store keeps the newest frames, between three quarters of its capacity and
\* all of it, without gaps.
THEOREM EngineStore == Spec => []StoreKeepsNewest
<1>1. Inv => StoreKeepsNewest
  BY DEF Inv
<1> QED BY <1>1, EngineInvariance, PTL

\* When Run has ended normally a greeted dashboard shows every frame observed,
\* whenever it connected, unless a snapshot of its greeting was evaluated before the
\* final broadcast and written after it: nothing is observed after that broadcast.
THEOREM EngineFinalStats == Spec => []FinalStatsComplete
<1>1. Init => FinalInv
  BY DEF Init, FinalInv, Finished
<1>2. Inv /\ FinalInv /\ [Next]_vars => FinalInv'
  BY FinalStep
<1>3. FinalInv => FinalStatsComplete
  BY DEF FinalInv, FinalStatsComplete, Finished
<1> QED BY <1>1, <1>2, <1>3, EngineInvariance, PTL DEF Spec

\* A row of the packet table, shown, queued or about to be broadcast, can be
\* opened unless it is older than everything the store still holds.
THEOREM EngineRowsOpenable == Spec => []RowsOpenable
<1>1. Init => RowsInv
  <2> SUFFICES ASSUME Init PROVE RowsInv
    OBVIOUS
  <2>1. Len(stored) = 0 /\ Len(offered) = 0 /\ Len(feed) = 0 /\ pc = "open"
    BY EmptySeq DEF Init, FQInit
  <2> QED BY <2>1 DEF RowsInv, StoredInv, OfferedStored, FeedOffered
<1>2. Inv /\ RowsInv /\ [Next]_vars => RowsInv'
  <2> SUFFICES ASSUME Inv, RowsInv, [Next]_vars PROVE RowsInv'
    OBVIOUS
  <2>1. FeedOffered'
    BY StepUsesQueue, FeedOfferedStep DEF Inv, RowsInv
  <2> QED BY <2>1, StoredStep DEF RowsInv
<1>3. Inv /\ RowsInv => RowsOpenable
  BY RowsInvOpens
<1> QED BY <1>1, <1>2, <1>3, EngineInvariance, PTL DEF Spec
=============================================================================
