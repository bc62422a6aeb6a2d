---------------------------- MODULE SourcesProofs ----------------------------
(***************************************************************************)
(* Of every run of the engine on any of its sources, for every number of   *)
(* packets, records and blocks: what Next returns, what a live capture     *)
(* loses at its end, what a claim in a file can do, and what a recording   *)
(* still holds after failed writes and a crash.                            *)
(*                                                                         *)
(* Each source has an invariant of its own, which its own steps keep; the  *)
(* steps of the others leave its variables alone.                          *)
(***************************************************************************)
EXTENDS Sources, FiniteSetTheorems, SequenceTheorems, TLAPS

-----------------------------------------------------------------------------
(* The kernel tap.                                                         *)

\* Numbers in the order of arrival, all of them later than the one before.
InOrder(box, before, until) ==
    /\ box \in Seq(Nat) /\ before \in Nat /\ until \in Nat /\ before <= until
    /\ \A i \in 1 .. Len(box) : before < box[i] /\ box[i] <= until
    /\ \A i, j \in 1 .. Len(box) : i < j => box[i] < box[j]

\* What is in the socket came after what is in the buffer, and the buffer's packet
\* after the one that Next returned last unless it is that one.
TapInv ==
    /\ Tap!TapTypeOK
    /\ InOrder(sock, buf, arrived)
    /\ IF tpc = "copy" THEN lastData < buf ELSE lastData = buf
    /\ seq <= lastData

LEMMA TapNumbers == RcvBuf \in Nat \ {0} /\ MaxArrivals \in Nat /\ MaxDowns \in Nat
BY SourcesAssumption DEF Tap!TapAssumption

\* The two halves of TapTypeOK.
TapNumbersOK ==
    /\ arrived \in 0 .. MaxArrivals /\ downs \in 0 .. MaxDowns
    /\ sock \in Seq(1 .. MaxArrivals) /\ Len(sock) <= RcvBuf
    /\ buf \in 0 .. arrived /\ seq \in 0 .. arrived /\ lastData \in 0 .. buf

TapFlagsOK ==
    /\ sockErr \in BOOLEAN /\ up \in BOOLEAN
    /\ tpc \in {"top", "pauseLoop", "recv", "copy", "done", "returned"}
    /\ paused \in BOOLEAN /\ stopped \in BOOLEAN
    /\ fdOpen = (tpc # "returned")

LEMMA TapTypeParts == TapNumbersOK /\ TapFlagsOK <=> Tap!TapTypeOK
BY Zenon DEF TapNumbersOK, TapFlagsOK, Tap!TapTypeOK

LEMMA TapInitInv == Tap!TapInit => TapInv
<1> SUFFICES ASSUME Tap!TapInit PROVE TapInv
  OBVIOUS
<1>1. /\ arrived = 0 /\ sock = <<>> /\ sockErr = FALSE /\ up = TRUE /\ downs = 0
      /\ tpc = "top" /\ buf = 0 /\ seq = 0 /\ lastData = 0
      /\ paused = FALSE /\ stopped = FALSE /\ fdOpen = TRUE
  BY DEF Tap!TapInit
<1>2. /\ <<>> \in Seq(1 .. MaxArrivals) /\ <<>> \in Seq(Nat) /\ Len(<<>>) = 0
      /\ 0 \in 0 .. MaxArrivals /\ 0 \in 0 .. MaxDowns /\ 0 <= RcvBuf
  BY TapNumbers
<1>3. Tap!TapTypeOK
  <2>1. TapNumbersOK
    BY <1>1, <1>2, TapNumbers DEF TapNumbersOK
  <2>2. TapFlagsOK
    BY <1>1 DEF TapFlagsOK
  <2> QED BY <2>1, <2>2, TapTypeParts
<1>4. InOrder(sock, buf, arrived)
  BY <1>1, <1>2 DEF InOrder
<1> QED BY <1>1, <1>3, <1>4 DEF TapInv

\* A packet that arrives is later than all of the socket's.
LEMMA ArriveInOrder ==
    ASSUME NEW box, NEW before, NEW until, InOrder(box, before, until)
    PROVE  /\ InOrder(box, before, until + 1)
           /\ InOrder(Append(box, until + 1), before, until + 1)
<1>1. /\ box \in Seq(Nat) /\ before \in Nat /\ until \in Nat /\ before <= until /\ Len(box) \in Nat
      /\ \A i \in 1 .. Len(box) : before < box[i] /\ box[i] <= until /\ box[i] \in Nat
      /\ \A i, j \in 1 .. Len(box) : i < j => box[i] < box[j]
  <2>1. box \in Seq(Nat)
    BY DEF InOrder
  <2>2. \A i \in 1 .. Len(box) : box[i] \in Nat
    BY <2>1, ElementOfSeq
  <2> QED BY <2>1, <2>2, LenProperties DEF InOrder
<1>2. InOrder(box, before, until + 1)
  <2>1. \A i \in 1 .. Len(box) : before < box[i] /\ box[i] <= until + 1
    BY <1>1
  <2> QED BY <1>1, <2>1 DEF InOrder
<1> DEFINE more == Append(box, until + 1)
<1>3. /\ more \in Seq(Nat) /\ Len(more) = Len(box) + 1 /\ more[Len(box) + 1] = until + 1
      /\ \A i \in 1 .. Len(box) : more[i] = box[i]
  <2>1. until + 1 \in Nat
    BY <1>1
  <2> QED BY <1>1, <2>1, AppendProperties
<1> HIDE DEF more
<1>4. \A i \in 1 .. Len(box) + 1 : i = Len(box) + 1 \/ i \in 1 .. Len(box)
  BY <1>1
<1>5. \A i \in 1 .. Len(more) : before < more[i] /\ more[i] <= until + 1
  <2> TAKE i \in 1 .. Len(more)
  <2>1. CASE i \in 1 .. Len(box)
    <3>1. before < box[i] /\ box[i] <= until /\ box[i] \in Nat /\ more[i] = box[i]
      BY <1>1, <1>3, <2>1
    <3> QED BY <1>1, <3>1
  <2>2. CASE i = Len(box) + 1
    BY <1>1, <1>3, <2>2
  <2> QED BY <1>3, <1>4, <2>1, <2>2
<1>6. \A i, j \in 1 .. Len(more) : i < j => more[i] < more[j]
  <2> SUFFICES ASSUME NEW i \in 1 .. Len(more), NEW j \in 1 .. Len(more), i < j
               PROVE  more[i] < more[j]
    OBVIOUS
  <2>1. i \in 1 .. Len(box)
    BY <1>1, <1>3
  <2>2. CASE j \in 1 .. Len(box)
    BY <1>1, <1>3, <2>1, <2>2
  <2>3. CASE j = Len(box) + 1
    <3>1. more[i] = box[i] /\ box[i] <= until /\ box[i] \in Nat /\ more[j] = until + 1
      BY <1>1, <1>3, <2>1, <2>3
    <3> QED BY <1>1, <3>1
  <2> QED BY <1>3, <1>4, <2>2, <2>3
<1>7. until + 1 \in Nat /\ before <= until + 1
  BY <1>1
<1> QED BY <1>1, <1>2, <1>3, <1>5, <1>6, <1>7 DEF InOrder, more

\* The first packet of the socket is received into the buffer.
LEMMA ReceiveInOrder ==
    ASSUME NEW box, NEW before, NEW until, InOrder(box, before, until), box # <<>>
    PROVE  /\ before < Head(box) /\ Head(box) <= until
           /\ InOrder(Tail(box), Head(box), until)
           /\ Len(Tail(box)) = Len(box) - 1
<1>1. /\ box \in Seq(Nat) /\ before \in Nat /\ until \in Nat
      /\ \A i \in 1 .. Len(box) : before < box[i] /\ box[i] <= until
      /\ \A i, j \in 1 .. Len(box) : i < j => box[i] < box[j]
  BY DEF InOrder
<1>2. /\ Len(box) \in Nat /\ Len(box) >= 1 /\ Head(box) = box[1]
      /\ Tail(box) \in Seq(Nat) /\ Len(Tail(box)) = Len(box) - 1
      /\ \A i \in 1 .. Len(box) - 1 : Tail(box)[i] = box[i + 1]
  <2>1. Len(box) \in Nat /\ Len(box) # 0
    BY <1>1, EmptySeq, LenProperties
  <2> QED BY <1>1, <2>1, HeadTailProperties
<1>3. 1 \in 1 .. Len(box) /\ box[1] \in Nat
  BY <1>1, <1>2, ElementOfSeq
<1> DEFINE less == Tail(box)
<1> HIDE DEF less
<1>4. \A i \in 1 .. Len(box) - 1 : i + 1 \in 1 .. Len(box) /\ 1 < i + 1
  BY <1>2
<1>5. \A i \in 1 .. Len(box) - 1 : box[1] < less[i] /\ less[i] <= until
  BY <1>1, <1>2, <1>3, <1>4 DEF less
<1>6. \A i, j \in 1 .. Len(box) - 1 : i < j => less[i] < less[j]
  <2> SUFFICES ASSUME NEW i \in 1 .. Len(box) - 1, NEW j \in 1 .. Len(box) - 1, i < j
               PROVE  less[i] < less[j]
    OBVIOUS
  <2>1. i + 1 < j + 1
    OBVIOUS
  <2> QED BY <1>1, <1>2, <1>4, <2>1 DEF less
<1> QED BY <1>1, <1>2, <1>3, <1>5, <1>6 DEF InOrder, less

LEMMA TapStep ==
    ASSUME TapInv, Tap!TapNext
    PROVE  TapInv'
<1>1. TapNumbersOK /\ TapFlagsOK /\ InOrder(sock, buf, arrived) /\ seq <= lastData
  BY TapTypeParts DEF TapInv
<1>2. /\ arrived \in Nat /\ arrived <= MaxArrivals /\ downs \in Nat /\ downs <= MaxDowns
      /\ buf \in Nat /\ buf <= arrived /\ seq \in Nat /\ lastData \in Nat /\ lastData <= buf
      /\ sock \in Seq(Nat) /\ sock \in Seq(1 .. MaxArrivals) /\ Len(sock) <= RcvBuf
      /\ Len(sock) \in Nat
      /\ MaxArrivals \in Nat /\ MaxDowns \in Nat /\ RcvBuf \in Nat /\ seq <= arrived
  <2>1. sock \in Seq(Nat)
    BY <1>1 DEF InOrder
  <2> QED BY <1>1, <2>1, TapNumbers, LenProperties DEF TapNumbersOK
<1>3. /\ sockErr \in BOOLEAN /\ up \in BOOLEAN /\ paused \in BOOLEAN /\ stopped \in BOOLEAN
      /\ fdOpen = (tpc # "returned")
      /\ tpc \in {"top", "pauseLoop", "recv", "copy", "done", "returned"}
  BY <1>1 DEF TapFlagsOK
<1>4. /\ tpc = "copy" => lastData < buf
      /\ tpc # "copy" => lastData = buf
  BY DEF TapInv
\* What each step has to show.
<1>5. ASSUME TapNumbersOK', TapFlagsOK', InOrder(sock, buf, arrived)', (seq <= lastData)',
             (tpc = "copy")' => (lastData < buf)', (tpc # "copy")' => (lastData = buf)'
      PROVE  TapInv'
  <2>1. Tap!TapTypeOK'
    BY <1>5 DEF TapNumbersOK, TapFlagsOK, Tap!TapTypeOK
  <2> QED BY <1>5, <2>1 DEF TapInv
<1>6. ASSUME UNCHANGED <<arrived, sock, buf, seq, lastData>>, downs' \in 0 .. MaxDowns, TapFlagsOK',
             tpc = "copy" => tpc' = "copy", tpc # "copy" => tpc' # "copy"
      PROVE  TapInv'
  <2>1. TapNumbersOK'
    BY <1>1, <1>6 DEF TapNumbersOK
  <2>2. InOrder(sock, buf, arrived)' /\ (seq <= lastData)'
    BY <1>1, <1>6
  <2>3. (tpc = "copy")' => (lastData < buf)'
    BY <1>4, <1>6
  <2>4. (tpc # "copy")' => (lastData = buf)'
    BY <1>4, <1>6
  <2> QED BY <1>5, <1>6, <2>1, <2>2, <2>3, <2>4
<1>7. CASE Tap!Arrive
  <2>1. /\ arrived < MaxArrivals /\ arrived' = arrived + 1
        /\ downs' = downs /\ buf' = buf /\ seq' = seq /\ lastData' = lastData /\ tpc' = tpc
        /\ up' = up /\ sockErr' = sockErr /\ paused' = paused /\ stopped' = stopped /\ fdOpen' = fdOpen
    BY <1>7 DEF Tap!Arrive, Tap!ctlVars
  <2>2. sock' = sock \/ (sock' = Append(sock, arrived + 1) /\ Len(sock) < RcvBuf)
    BY <1>7 DEF Tap!Arrive
  <2>3. TapFlagsOK'
    BY <1>3, <2>1 DEF TapFlagsOK
  <2>4. InOrder(sock, buf, arrived)'
    BY <1>1, <2>1, <2>2, ArriveInOrder
  <2>5. sock' \in Seq(1 .. MaxArrivals) /\ Len(sock') <= RcvBuf
    <3>1. CASE sock' = sock
      BY <1>2, <3>1
    <3>2. CASE sock' = Append(sock, arrived + 1) /\ Len(sock) < RcvBuf
      <4>1. arrived + 1 \in 1 .. MaxArrivals
        BY <1>2, <2>1
      <4>2. Append(sock, arrived + 1) \in Seq(1 .. MaxArrivals) /\ Len(Append(sock, arrived + 1)) = Len(sock) + 1
        BY <1>2, <4>1, AppendProperties
      <4> QED BY <1>2, <3>2, <4>2
    <3> QED BY <2>2, <3>1, <3>2
  <2>6. TapNumbersOK'
    <3>1. /\ arrived + 1 \in 0 .. MaxArrivals /\ downs \in 0 .. MaxDowns
          /\ buf \in 0 .. arrived + 1 /\ seq \in 0 .. arrived + 1 /\ lastData \in 0 .. buf
      BY <1>2, <2>1
    <3> QED BY <2>1, <2>5, <3>1 DEF TapNumbersOK
  <2>7. (seq <= lastData)'
    BY <1>1, <2>1
  <2> QED BY <1>4, <1>5, <2>1, <2>3, <2>4, <2>6, <2>7
<1>8. CASE Tap!GoDown
  <2>1. downs < MaxDowns /\ downs' = downs + 1 /\ up' = FALSE /\ sockErr' = fdOpen
        /\ UNCHANGED <<arrived, sock, buf, seq, lastData, tpc, paused, stopped, fdOpen>>
    BY <1>8 DEF Tap!GoDown, Tap!ctlVars
  <2>2. downs' \in 0 .. MaxDowns
    BY <1>2, <2>1
  <2>3. TapFlagsOK'
    BY <1>3, <2>1 DEF TapFlagsOK
  <2> QED BY <1>6, <2>1, <2>2, <2>3
<1>9. CASE Tap!GoUp
  <2>1. up' = TRUE
        /\ UNCHANGED <<downs, sockErr, arrived, sock, buf, seq, lastData, tpc, paused, stopped, fdOpen>>
    BY <1>9 DEF Tap!GoUp, Tap!ctlVars
  <2>2. downs' \in 0 .. MaxDowns
    BY <1>2, <2>1
  <2>3. TapFlagsOK'
    BY <1>3, <2>1 DEF TapFlagsOK
  <2> QED BY <1>6, <2>1, <2>2, <2>3
<1>10. CASE Tap!CheckStopped \/ Tap!WaitWhilePaused
  <2>1. /\ tpc \in {"top", "pauseLoop"} /\ tpc' \in {"done", "pauseLoop", "recv"}
        /\ UNCHANGED <<up, downs, sockErr, arrived, sock, buf, seq, lastData, paused, stopped, fdOpen>>
    BY <1>10 DEF Tap!CheckStopped, Tap!WaitWhilePaused, Tap!Jump, Tap!netVars, Tap!ctlVars
  <2>2. downs' \in 0 .. MaxDowns
    BY <1>2, <2>1
  <2>3. TapFlagsOK'
    BY <1>3, <2>1 DEF TapFlagsOK
  <2> QED BY <1>6, <2>1, <2>2, <2>3
<1>11. CASE Tap!RecvPacket
  <2>1. /\ tpc = "recv" /\ sock # <<>> /\ buf' = Head(sock) /\ sock' = Tail(sock) /\ tpc' = "copy"
        /\ arrived' = arrived /\ downs' = downs /\ seq' = seq /\ lastData' = lastData
        /\ UNCHANGED <<up, sockErr, paused, stopped, fdOpen>>
    BY <1>11 DEF Tap!RecvPacket, Tap!Received, Tap!netVars, Tap!ctlVars
  <2>2. /\ buf < Head(sock) /\ Head(sock) <= arrived /\ InOrder(Tail(sock), Head(sock), arrived)
        /\ Len(Tail(sock)) = Len(sock) - 1
    BY <1>1, <2>1, ReceiveInOrder
  <2>3. Tail(sock) \in Seq(1 .. MaxArrivals) /\ Head(sock) \in Nat
    BY <1>2, <2>1, HeadTailProperties
  <2>4. TapFlagsOK'
    BY <1>3, <2>1 DEF TapFlagsOK
  <2>5. TapNumbersOK'
    <3>1. /\ Len(Tail(sock)) <= RcvBuf
          /\ Head(sock) \in 0 .. arrived /\ lastData \in 0 .. Head(sock)
      BY <1>2, <2>2, <2>3
    <3> QED BY <1>1, <2>1, <2>3, <3>1 DEF TapNumbersOK
  <2>6. (lastData < buf)'
    BY <1>2, <2>1, <2>2, <2>3
  <2> QED BY <1>1, <1>5, <2>1, <2>2, <2>4, <2>5, <2>6
<1>12. CASE Tap!RecvFails
  <2>1. /\ tpc' = tpc /\ sockErr' = FALSE
        /\ UNCHANGED <<up, downs, arrived, sock, buf, seq, lastData, paused, stopped, fdOpen>>
    BY <1>12 DEF Tap!RecvFails, Tap!netVars, Tap!ctlVars
  <2>2. downs' \in 0 .. MaxDowns
    BY <1>2, <2>1
  <2>3. TapFlagsOK'
    BY <1>3, <2>1 DEF TapFlagsOK
  <2> QED BY <1>6, <2>1, <2>2, <2>3
<1>13. CASE Tap!ReturnPacket
  <2>1. /\ tpc = "copy" /\ seq' = seq + 1 /\ lastData' = buf /\ tpc' = "top"
        /\ arrived' = arrived /\ downs' = downs /\ sock' = sock /\ buf' = buf
        /\ UNCHANGED <<up, sockErr, paused, stopped, fdOpen>>
    BY <1>13 DEF Tap!ReturnPacket, Tap!AfterPacket, Tap!netVars, Tap!ctlVars
  <2>2. TapFlagsOK'
    BY <1>3, <2>1 DEF TapFlagsOK
  <2>3. seq + 1 <= buf /\ seq + 1 \in 0 .. arrived /\ buf \in 0 .. buf
    BY <1>1, <1>2, <1>4, <2>1
  <2>4. TapNumbersOK'
    BY <1>1, <2>1, <2>3 DEF TapNumbersOK
  <2> QED BY <1>1, <1>5, <2>1, <2>2, <2>3, <2>4
<1>14. CASE Tap!CloseTap
  <2>1. /\ tpc = "done" /\ tpc' = "returned" /\ fdOpen' = FALSE /\ sock' = <<>> /\ sockErr' = FALSE
        /\ arrived' = arrived /\ downs' = downs /\ buf' = buf /\ seq' = seq /\ lastData' = lastData
        /\ UNCHANGED <<up, paused, stopped>>
    BY <1>14 DEF Tap!CloseTap, Tap!netVars, Tap!ctlVars
  <2>2. TapFlagsOK'
    BY <1>3, <2>1 DEF TapFlagsOK
  <2>3. <<>> \in Seq(1 .. MaxArrivals) /\ <<>> \in Seq(Nat) /\ Len(<<>>) = 0 /\ 0 <= RcvBuf
    BY <1>2
  <2>4. TapNumbersOK'
    BY <1>1, <2>1, <2>3 DEF TapNumbersOK
  <2>5. InOrder(<<>>, buf, arrived)
    BY <1>1, <2>3 DEF InOrder
  <2> QED BY <1>1, <1>4, <1>5, <2>1, <2>2, <2>4, <2>5
<1>15. CASE Tap!PauseTap \/ Tap!StopTap
  <2>1. /\ paused' \in BOOLEAN /\ stopped' \in BOOLEAN /\ tpc' = tpc
        /\ UNCHANGED <<up, downs, sockErr, arrived, sock, buf, seq, lastData, fdOpen>>
    BY <1>3, <1>15 DEF Tap!PauseTap, Tap!StopTap, Tap!netVars
  <2>2. downs' \in 0 .. MaxDowns
    BY <1>2, <2>1
  <2>3. TapFlagsOK'
    BY <1>3, <2>1 DEF TapFlagsOK
  <2> QED BY <1>6, <2>1, <2>2, <2>3
<1> QED BY <1>7, <1>8, <1>9, <1>10, <1>11, <1>12, <1>13, <1>14, <1>15
        DEF Tap!TapNext, Tap!RunTap

LEMMA TapStutter == TapInv /\ UNCHANGED tapState => TapInv'
BY DEF TapInv, tapState, Tap!TapTypeOK, InOrder

-----------------------------------------------------------------------------
(* Live capture.                                                           *)

\* The numbers from next to last, and half a record behind them if cut.
Holds(box, next, until, cut) ==
    /\ box \in Seq(Int) /\ next \in Nat /\ until \in Int /\ next <= until + 1
    /\ Len(box) = until - next + 1 + (IF cut THEN 1 ELSE 0)
    /\ \A i \in 1 .. until - next + 1 : box[i] = next + i - 1
    /\ cut => box[until - next + 2] = -1

\* The pipe, while it is open: what was written and not yet read.
PipeOK ==
    /\ rdOpen /\ hpc = "read" => Holds(pipe, 0, wrote, writer = "cut")
    /\ rdOpen /\ hpc = "end" /\ ch = "ok" => Holds(pipe, taken + 1, wrote, writer = "cut")
    /\ rdOpen /\ rpc = "data" => pipe # <<>>

\* Who has come how far: Run is not past OpenLive without a header, and only the
\* goroutine that waits for tcpdump closes the pipe under it.
PhasesOK ==
    /\ hpc = "read" => ch = "empty"
    /\ rpc = "opening" => got = 0 /\ taken = 0
    /\ rpc # "opening" => opc = "open" /\ hpc = "end" /\ ch = "ok"
    /\ rpc = "opening" => wpc = "none" /\ opc # "open"
    /\ rpc \notin {"close", "returned"} => result = "none"
    /\ rpc = "recheck" => err # "none"
    /\ "truncated" \in {err, result} => stdin
    /\ ~rdOpen => wpc \in {"mark", "end"} \/ opc = "failed"
    /\ wpc \in {"mark", "end"} => ~rdOpen
    /\ closed => rpc = "returned" \/ wpc = "end"
    /\ stdin => wpc = "none" /\ opc \notin {"kill", "reap"} /\ rdOpen

\* Of what was read, standard input has records that are no packets.
CountsOK == got <= taken /\ last <= taken /\ (~stdin => got = taken)

\* An open pipe at the end of the capture was read to its end.
ReadToEnd == taken = wrote /\ writer # "running"

LiveInv ==
    /\ Live!LiveTypeOK
    /\ PipeOK /\ PhasesOK /\ CountsOK
    /\ rdOpen /\ rpc = "recheck" /\ err # "truncated" => ReadToEnd
    /\ rdOpen /\ result \in {"eof", "error"} => ReadToEnd

LEMMA LiveNumbers == MaxRecords \in Nat
BY SourcesAssumption DEF Live!LiveAssumption

\* A record is written.
LEMMA WriteHolds ==
    ASSUME NEW box, NEW next, NEW until, Holds(box, next, until, FALSE)
    PROVE  Holds(Append(box, until + 1), next, until + 1, FALSE)
<1>1. /\ box \in Seq(Int) /\ next \in Nat /\ until \in Int /\ next <= until + 1
      /\ Len(box) = until - next + 1
      /\ \A i \in 1 .. until - next + 1 : box[i] = next + i - 1
  BY DEF Holds
<1> DEFINE more == Append(box, until + 1)
<1>2. /\ more \in Seq(Int) /\ Len(more) = Len(box) + 1 /\ more[Len(box) + 1] = until + 1
      /\ \A i \in 1 .. Len(box) : more[i] = box[i]
  <2>1. until + 1 \in Int
    BY <1>1
  <2> QED BY <1>1, <2>1, AppendProperties
<1> HIDE DEF more
<1>3. \A i \in 1 .. (until + 1) - next + 1 : more[i] = next + i - 1
  <2> TAKE i \in 1 .. (until + 1) - next + 1
  <2>1. CASE i \in 1 .. until - next + 1
    <3>1. i \in 1 .. Len(box) /\ box[i] = next + i - 1
      BY <1>1, <2>1
    <3> QED BY <1>2, <3>1
  <2>2. CASE i = until - next + 2
    BY <1>1, <1>2, <2>2
  <2> QED BY <1>1, <2>1, <2>2
<1>4. Len(more) = (until + 1) - next + 1 + 0 /\ until + 1 \in Int /\ next <= until + 1 + 1
  BY <1>1, <1>2
<1> QED BY <1>1, <1>2, <1>3, <1>4 DEF Holds, more

\* The writer is cut off in a record.
LEMMA CutHolds ==
    ASSUME NEW box, NEW next, NEW until, Holds(box, next, until, FALSE)
    PROVE  Holds(Append(box, -1), next, until, TRUE)
<1>1. /\ box \in Seq(Int) /\ next \in Nat /\ until \in Int /\ next <= until + 1
      /\ Len(box) = until - next + 1
      /\ \A i \in 1 .. until - next + 1 : box[i] = next + i - 1
  BY DEF Holds
<1> DEFINE more == Append(box, -1)
<1>2. /\ more \in Seq(Int) /\ Len(more) = Len(box) + 1 /\ more[Len(box) + 1] = -1
      /\ \A i \in 1 .. Len(box) : more[i] = box[i]
  BY <1>1, AppendProperties
<1> HIDE DEF more
<1>3. Len(more) = until - next + 1 + 1 /\ more[until - next + 2] = -1
  <2>1. Len(box) + 1 = until - next + 2
    BY <1>1
  <2> QED BY <1>1, <1>2, <2>1
<1> QED BY <1>1, <1>2, <1>3 DEF Holds, more

\* What is at the head of the pipe, and what is left without it: the next record,
\* or half a record and then nothing.
LEMMA HeadHolds ==
    ASSUME NEW box, NEW next, NEW until, NEW cut, Holds(box, next, until, cut), box # <<>>
    PROVE  \/ /\ Head(box) = next /\ next <= until
              /\ Holds(Tail(box), next + 1, until, cut)
           \/ Head(box) = -1 /\ next = until + 1 /\ cut
<1>1. /\ box \in Seq(Int) /\ next \in Nat /\ until \in Int /\ next <= until + 1
      /\ Len(box) = until - next + 1 + (IF cut THEN 1 ELSE 0)
      /\ \A i \in 1 .. until - next + 1 : box[i] = next + i - 1
      /\ cut => box[until - next + 2] = -1
  BY DEF Holds
<1> DEFINE less == Tail(box)
<1>2. /\ Len(box) \in Nat /\ Len(box) >= 1 /\ Head(box) = box[1]
      /\ less \in Seq(Int) /\ Len(less) = Len(box) - 1
      /\ \A i \in 1 .. Len(box) - 1 : less[i] = box[i + 1]
  <2>1. Len(box) \in Nat /\ Len(box) # 0
    BY <1>1, EmptySeq, LenProperties
  <2> QED BY <1>1, <2>1, HeadTailProperties
<1> HIDE DEF less
<1>3. CASE next <= until
  <2>1. 1 \in 1 .. until - next + 1
    BY <1>1, <1>3
  <2>2. Head(box) = next
    BY <1>1, <1>2, <2>1
  <2>3. ASSUME NEW i \in 1 .. until - (next + 1) + 1
        PROVE  less[i] = next + 1 + i - 1
    <3>1. i + 1 \in 1 .. until - next + 1 /\ i \in 1 .. Len(box) - 1
      BY <1>1, <1>3
    <3>2. less[i] = box[i + 1] /\ box[i + 1] = next + (i + 1) - 1
      BY <1>1, <1>2, <3>1
    <3> QED BY <1>1, <3>2
  <2>4. /\ Len(less) = until - (next + 1) + 1 + (IF cut THEN 1 ELSE 0)
        /\ next + 1 \in Nat /\ next + 1 <= until + 1
    BY <1>1, <1>2, <1>3
  <2>5. cut => less[until - (next + 1) + 2] = -1
    <3> SUFFICES ASSUME cut PROVE less[until - (next + 1) + 2] = -1
      OBVIOUS
    <3>1. /\ until - (next + 1) + 2 \in 1 .. Len(box) - 1
          /\ until - (next + 1) + 2 + 1 = until - next + 2
      BY <1>1, <1>3
    <3>2. less[until - (next + 1) + 2] = box[until - next + 2]
      BY <1>2, <3>1
    <3> QED BY <1>1, <3>2
  <2>6. Holds(less, next + 1, until, cut)
    BY <1>1, <1>2, <2>3, <2>4, <2>5 DEF Holds
  <2> QED BY <1>3, <2>2, <2>6 DEF less
<1>4. CASE ~(next <= until)
  <2>1. next = until + 1 /\ until - next + 1 = 0 /\ until - next + 2 = 1
    BY <1>1, <1>4
  <2>2. cut
    <3> SUFFICES ASSUME ~cut PROVE FALSE
      OBVIOUS
    <3>1. Len(box) = 0
      BY <1>1, <2>1
    <3> QED BY <1>2, <3>1
  <2> QED BY <1>1, <1>2, <2>1, <2>2
<1> QED BY <1>3, <1>4

\* An empty pipe was read to the end.
LEMMA EmptyHolds ==
    ASSUME NEW next, NEW until, NEW cut, Holds(<<>>, next, until, cut)
    PROVE  next = until + 1
<1>1. /\ next \in Nat /\ until \in Int /\ next <= until + 1
      /\ Len(<<>>) = until - next + 1 + (IF cut THEN 1 ELSE 0)
  BY DEF Holds
<1>2. Len(<<>>) = 0
  OBVIOUS
<1> QED BY <1>1, <1>2

LEMMA LiveInitInv == Live!LiveInit => LiveInv
<1> SUFFICES ASSUME Live!LiveInit PROVE LiveInv
  OBVIOUS
<1>1. /\ stdin \in BOOLEAN /\ writer = "running" /\ killed = FALSE /\ wrote = -1
      /\ pipe = <<>> /\ rdOpen = TRUE /\ opc = "select" /\ hpc = "read" /\ ch = "empty"
      /\ wpc = "none" /\ closed = FALSE
      /\ rpc = "opening" /\ err = "none" /\ result = "none" /\ got = 0 /\ last = 0
      /\ taken = 0 /\ held = FALSE
  BY DEF Live!LiveInit
<1>2. /\ <<>> \in Seq({-1} \cup 0 .. MaxRecords) /\ <<>> \in Seq(Int) /\ Len(<<>>) = 0
      /\ -1 \in -1 .. MaxRecords /\ 0 \in Nat
  BY LiveNumbers
<1>3. Holds(<<>>, 0, -1, FALSE)
  BY <1>2 DEF Holds
<1>4. Live!LiveTypeOK
  BY <1>1, <1>2 DEF Live!LiveTypeOK, Live!Half
<1>5. PipeOK
  <2>1. (writer = "cut") = FALSE
    BY <1>1
  <2>2. Holds(pipe, 0, wrote, writer = "cut")
    BY <1>1, <1>3, <2>1
  <2> QED BY <1>1, <2>2 DEF PipeOK
<1>6. PhasesOK /\ CountsOK
  BY <1>1 DEF PhasesOK, CountsOK
<1> QED BY <1>1, <1>4, <1>5, <1>6 DEF LiveInv

\* The two halves of LiveTypeOK.
LiveFlagsOK ==
    /\ stdin \in BOOLEAN
    /\ writer \in {"running", "exited", "cut"} /\ killed \in BOOLEAN /\ rdOpen \in BOOLEAN
    /\ opc \in {"select", "kill", "reap", "failed", "open"}
    /\ hpc \in {"read", "end"} /\ ch \in {"empty", "ok", "err"}
    /\ wpc \in {"none", "wait", "mark", "end"} /\ closed \in BOOLEAN /\ held \in BOOLEAN
    /\ rpc \in {"opening", "idle", "header", "data", "recheck", "close", "returned", "panic"}
    /\ err \in {"none", "eof", "error", "truncated"}
    /\ result \in {"none", "eof", "error", "truncated", "stop"}
    /\ rpc \in {"close", "returned"} => result # "none"

LiveDataOK ==
    /\ wrote \in -1 .. MaxRecords /\ pipe \in Seq({-1} \cup 0 .. MaxRecords)
    /\ got \in Nat /\ last \in Nat /\ taken \in Nat

LEMMA LiveTypeParts == LiveFlagsOK /\ LiveDataOK <=> Live!LiveTypeOK
BY DEF LiveFlagsOK, LiveDataOK, Live!LiveTypeOK, Live!Half

LEMMA LiveStep ==
    ASSUME LiveInv, Live!LiveNext
    PROVE  LiveInv'
<1> DEFINE cut == writer = "cut"
<1>1. LiveFlagsOK /\ LiveDataOK
  BY LiveTypeParts DEF LiveInv
<1>2. /\ wrote \in Int /\ -1 <= wrote /\ wrote <= MaxRecords /\ MaxRecords \in Nat
      /\ pipe \in Seq({-1} \cup 0 .. MaxRecords)
      /\ got \in Nat /\ last \in Nat /\ taken \in Nat /\ CountsOK
  BY <1>1, LiveNumbers DEF LiveInv, LiveDataOK
<1>3. /\ rdOpen /\ hpc = "read" => Holds(pipe, 0, wrote, cut)
      /\ rdOpen /\ hpc = "end" /\ ch = "ok" => Holds(pipe, taken + 1, wrote, cut)
      /\ rdOpen /\ rpc = "data" => pipe # <<>>
  BY DEF LiveInv, PipeOK
<1>4. PhasesOK
  BY DEF LiveInv
<1>5. /\ rdOpen /\ rpc = "recheck" /\ err # "truncated" => ReadToEnd
      /\ rdOpen /\ result \in {"eof", "error"} => ReadToEnd
  BY DEF LiveInv
<1> DEFINE ends == /\ rdOpen /\ rpc = "recheck" /\ err # "truncated" => ReadToEnd
                   /\ rdOpen /\ result \in {"eof", "error"} => ReadToEnd
           control == LiveFlagsOK /\ PhasesOK
\* What each step has to show.
<1>6. ASSUME control', LiveDataOK', PipeOK', CountsOK', ends'
      PROVE  LiveInv'
  <2>1. Live!LiveTypeOK'
    BY <1>6 DEF LiveFlagsOK, LiveDataOK, Live!LiveTypeOK, Live!Half
  <2> QED BY <1>6, <2>1 DEF LiveInv
<1> DEFINE sameData == UNCHANGED <<stdin, wrote, pipe, taken, got, last>>
<1>7. sameData => LiveDataOK' /\ CountsOK'
  BY <1>1, <1>2 DEF LiveDataOK, CountsOK
\* A step that leaves the pipe and its ends alone.
<1>8. ASSUME sameData, UNCHANGED <<rdOpen, hpc, ch, writer>>, control',
             (rdOpen /\ rpc = "data")' => pipe # <<>>, ends'
      PROVE  LiveInv'
  <2>1. PipeOK'
    BY <1>3, <1>8 DEF PipeOK
  <2> QED BY <1>6, <1>7, <1>8, <2>1
\* A step of cmd.Wait, which closes the pipe.
<1>9. ASSUME UNCHANGED <<stdin, wrote, taken, got, last>>, rdOpen' = FALSE, pipe' = <<>>, control'
      PROVE  LiveInv'
  <2>1. LiveDataOK' /\ CountsOK'
    <3>1. <<>> \in Seq({-1} \cup 0 .. MaxRecords)
      OBVIOUS
    <3> QED BY <1>1, <1>2, <1>9, <3>1 DEF LiveDataOK, CountsOK
  <2>2. PipeOK' /\ ends'
    BY <1>9 DEF PipeOK
  <2> QED BY <1>6, <1>9, <2>1, <2>2
<1>10. CASE Live!Write
  <2>1. /\ writer = "running" /\ wrote < MaxRecords /\ wrote' = wrote + 1
        /\ pipe' = IF rdOpen THEN Append(pipe, wrote + 1) ELSE pipe
        /\ UNCHANGED <<stdin, held, writer, killed, rdOpen, opc, hpc, ch, wpc, closed, rpc, err, result, taken, got, last>>
    BY <1>10 DEF Live!Write, Live!openVars, Live!runVars
  <2>2. control'
    BY <1>1, <1>4, <2>1 DEF LiveFlagsOK, PhasesOK
  <2>3. cut = FALSE /\ cut' = FALSE
    BY <2>1
  <2>4. LiveDataOK' /\ CountsOK'
    <3>1. wrote + 1 \in {-1} \cup 0 .. MaxRecords /\ wrote + 1 \in -1 .. MaxRecords
      BY <1>2, <2>1
    <3>2. Append(pipe, wrote + 1) \in Seq({-1} \cup 0 .. MaxRecords)
      BY <1>2, <3>1, AppendProperties
    <3> QED BY <1>1, <1>2, <2>1, <3>1, <3>2 DEF LiveDataOK, CountsOK
  <2>5. PipeOK'
    <3>1. ASSUME rdOpen PROVE pipe' = Append(pipe, wrote + 1) /\ pipe' # <<>>
      <4>1. pipe' = Append(pipe, wrote + 1)
        BY <2>1, <3>1
      <4>2. Len(pipe') = Len(pipe) + 1 /\ Len(pipe) \in Nat
        <5>1. wrote + 1 \in {-1} \cup 0 .. MaxRecords
          BY <1>2, <2>1
        <5> QED BY <1>2, <4>1, <5>1, AppendProperties, LenProperties
      <4>3. Len(<<>>) = 0
        OBVIOUS
      <4> QED BY <4>1, <4>2, <4>3
    <3>2. ASSUME NEW next, Holds(pipe, next, wrote, cut), rdOpen
          PROVE  Holds(pipe', next, wrote', cut')
      <4>1. Holds(pipe, next, wrote, FALSE)
        BY <2>3, <3>2
      <4>2. Holds(Append(pipe, wrote + 1), next, wrote + 1, FALSE)
        BY <4>1, WriteHolds
      <4> QED BY <2>1, <2>3, <3>1, <3>2, <4>2
    <3> QED BY <1>3, <2>1, <3>1, <3>2 DEF PipeOK
  <2>6. ends'
    BY <1>5, <2>1 DEF ReadToEnd
  <2> QED BY <1>6, <2>2, <2>4, <2>5, <2>6
<1>11. CASE Live!Exit
  <2>1. /\ writer = "running"
        /\ \/ writer' = "exited" /\ pipe' = pipe
           \/ writer' = "cut" /\ pipe' = IF rdOpen THEN Append(pipe, -1) ELSE pipe
        /\ UNCHANGED <<stdin, held, killed, wrote, rdOpen, opc, hpc, ch, wpc, closed, rpc, err, result, taken, got, last>>
    BY <1>11 DEF Live!Exit, Live!openVars, Live!runVars, Live!Half
  <2>2. control'
    BY <1>1, <1>4, <2>1 DEF LiveFlagsOK, PhasesOK
  <2>3. cut = FALSE
    BY <2>1
  <2>4. Append(pipe, -1) \in Seq({-1} \cup 0 .. MaxRecords) /\ Append(pipe, -1) # <<>>
    <3>1. /\ Append(pipe, -1) \in Seq({-1} \cup 0 .. MaxRecords)
          /\ Len(Append(pipe, -1)) = Len(pipe) + 1 /\ Len(pipe) \in Nat
      BY <1>2, AppendProperties, LenProperties
    <3>2. Len(<<>>) = 0
      OBVIOUS
    <3> QED BY <3>1, <3>2
  <2>5. LiveDataOK' /\ CountsOK'
    BY <1>1, <1>2, <2>1, <2>4 DEF LiveDataOK, CountsOK
  <2>6. PipeOK'
    <3>1. ASSUME NEW next, Holds(pipe, next, wrote, cut), rdOpen
          PROVE  Holds(pipe', next, wrote', cut')
      <4>1. Holds(pipe, next, wrote, FALSE)
        BY <2>3, <3>1
      <4>2. CASE writer' = "exited" /\ pipe' = pipe
        <5>1. cut' = FALSE
          BY <4>2
        <5> QED BY <2>1, <4>1, <4>2, <5>1
      <4>3. CASE writer' = "cut" /\ pipe' = IF rdOpen THEN Append(pipe, -1) ELSE pipe
        <5>1. cut' = TRUE /\ pipe' = Append(pipe, -1)
          BY <3>1, <4>3
        <5>2. Holds(Append(pipe, -1), next, wrote, TRUE)
          BY <4>1, CutHolds
        <5> QED BY <2>1, <5>1, <5>2
      <4> QED BY <2>1, <4>2, <4>3
    <3>2. rdOpen /\ rpc = "data" => pipe' # <<>>
      BY <1>3, <2>1, <2>4
    <3> QED BY <1>3, <2>1, <3>1, <3>2 DEF PipeOK
  <2>7. ends'
    BY <1>5, <2>1 DEF ReadToEnd
  <2> QED BY <1>6, <2>2, <2>5, <2>6, <2>7
<1>12. CASE Live!ReadFileHeader
  <2>1. /\ hpc = "read" /\ hpc' = "end" /\ ch' \in {"ok", "err"}
        /\ UNCHANGED <<stdin, held, writer, killed, wrote, rdOpen, opc, wpc, closed, rpc, err, result, taken, got, last>>
        /\ \/ rdOpen /\ pipe # <<>> /\ pipe' = Tail(pipe) /\ (Head(pipe) # 0 => ch' = "err")
           \/ ch' = "err" /\ pipe' = pipe
    BY <1>12 DEF Live!ReadFileHeader, Live!HeaderResults, Live!Header, Live!writerVars, Live!runVars
  <2>2. rpc = "opening" /\ got = 0 /\ taken = 0
    BY <1>1, <1>4, <2>1 DEF PhasesOK, LiveFlagsOK
  <2>3. control'
    BY <1>1, <1>4, <2>1, <2>2 DEF LiveFlagsOK, PhasesOK
  <2>4. LiveDataOK' /\ CountsOK'
    <3>1. pipe # <<>> => Tail(pipe) \in Seq({-1} \cup 0 .. MaxRecords)
      BY <1>2, HeadTailProperties
    <3> QED BY <1>1, <1>2, <2>1, <3>1 DEF LiveDataOK, CountsOK
  <2>5. PipeOK'
    <3>1. ASSUME rdOpen, ch' = "ok" PROVE Holds(pipe', 1, wrote, cut)
      <4>1. pipe # <<>> /\ pipe' = Tail(pipe) /\ Head(pipe) = 0
        BY <2>1, <3>1
      <4>2. Holds(pipe, 0, wrote, cut)
        BY <1>3, <2>1, <3>1
      <4>3. \/ Holds(Tail(pipe), 0 + 1, wrote, cut)
            \/ Head(pipe) = -1
        BY <4>1, <4>2, HeadHolds
      <4> QED BY <4>1, <4>3
    <3> QED BY <2>1, <2>2, <3>1 DEF PipeOK
  <2>6. ends'
    BY <1>5, <2>1 DEF ReadToEnd
  <2> QED BY <1>6, <2>3, <2>4, <2>5, <2>6
<1>13. CASE Live!TakeHeader \/ Live!HeaderTimeout
  <2>1. /\ opc = "select" /\ sameData
        /\ UNCHANGED <<stdin, held, writer, killed, rdOpen, hpc, ch, closed, err, result>>
        /\ \/ ch = "ok" /\ opc' = "open" /\ rpc' = "idle" /\ wpc' = IF stdin THEN "none" ELSE "wait"
           \/ opc' = (IF stdin THEN "failed" ELSE "kill") /\ rpc' = rpc /\ wpc' = wpc
    BY <1>13 DEF Live!TakeHeader, Live!HeaderTimeout, Live!OpenFails, Live!writerVars, Live!runVars
  <2>2. control'
    BY <1>1, <1>4, <2>1 DEF LiveFlagsOK, PhasesOK
  <2>3. ends' /\ ((rdOpen /\ rpc = "data")' => pipe # <<>>)
    BY <1>3, <1>5, <2>1 DEF ReadToEnd
  <2> QED BY <1>8, <2>1, <2>2, <2>3
<1>14. CASE Live!KillWriter
  <2>1. /\ opc = "kill" /\ killed' = TRUE /\ opc' = "reap" /\ sameData
        /\ UNCHANGED <<stdin, held, writer, rdOpen, hpc, ch, wpc, closed, rpc, err, result>>
    BY <1>14 DEF Live!KillWriter, Live!runVars
  <2>2. control'
    BY <1>1, <1>4, <2>1 DEF LiveFlagsOK, PhasesOK
  <2>3. ends' /\ ((rdOpen /\ rpc = "data")' => pipe # <<>>)
    BY <1>3, <1>5, <2>1 DEF ReadToEnd
  <2> QED BY <1>8, <2>1, <2>2, <2>3
<1>15. CASE Live!Reap
  <2>1. /\ opc = "reap" /\ opc' = "failed" /\ rdOpen' = FALSE /\ pipe' = <<>>
        /\ UNCHANGED <<stdin, held, writer, killed, wrote, hpc, ch, wpc, closed, rpc, err, result, taken, got, last>>
    BY <1>15 DEF Live!Reap, Live!Reaped, Live!writerVars, Live!runVars
  <2>2. control'
    BY <1>1, <1>4, <2>1 DEF LiveFlagsOK, PhasesOK
  <2> QED BY <1>9, <2>1, <2>2
<1>16. CASE Live!WaitReturns
  <2>1. /\ wpc = "wait" /\ wpc' = "mark" /\ rdOpen' = FALSE /\ pipe' = <<>>
        /\ UNCHANGED <<stdin, held, writer, killed, wrote, opc, hpc, ch, closed, rpc, err, result, taken, got, last>>
    BY <1>16 DEF Live!WaitReturns, Live!Reaped, Live!writerVars, Live!runVars, Live!openVars
  <2>2. control'
    BY <1>1, <1>4, <2>1 DEF LiveFlagsOK, PhasesOK
  <2> QED BY <1>9, <2>1, <2>2
<1>17. CASE Live!MarkClosed
  <2>1. /\ wpc = "mark" /\ wpc' = "end" /\ closed' = TRUE /\ sameData
        /\ UNCHANGED <<stdin, held, writer, killed, rdOpen, opc, hpc, ch, rpc, err, result>>
    BY <1>17 DEF Live!MarkClosed, Live!writerVars, Live!runVars, Live!openVars
  <2>2. control'
    BY <1>1, <1>4, <2>1 DEF LiveFlagsOK, PhasesOK
  <2>3. ends' /\ ((rdOpen /\ rpc = "data")' => pipe # <<>>)
    BY <1>3, <1>5, <2>1 DEF ReadToEnd
  <2> QED BY <1>8, <2>1, <2>2, <2>3
<1>18. CASE Live!Leave \/ Live!BeginNext
  <2>1. /\ rpc = "idle" /\ sameData
        /\ UNCHANGED <<stdin, held, writer, killed, rdOpen, opc, hpc, ch, wpc, closed, err>>
        /\ \/ rpc' = "close" /\ result' = "stop"
           \/ closed /\ rpc' = "close" /\ result' = "eof"
           \/ rpc' = "header" /\ result' = result
    BY <1>18 DEF Live!Leave, Live!BeginNext, Live!AtEnd, Live!writerVars, Live!openVars
  <2>2. control'
    BY <1>1, <1>4, <2>1 DEF LiveFlagsOK, PhasesOK
  <2>3. closed => ~rdOpen
    BY <1>4, <2>1 DEF PhasesOK
  <2>4. ends' /\ ((rdOpen /\ rpc = "data")' => pipe # <<>>)
    BY <1>3, <1>5, <2>1, <2>3 DEF ReadToEnd
  <2> QED BY <1>8, <2>1, <2>2, <2>4
<1>19. CASE Live!ReadHeader
  <2>1. /\ rpc = "header" /\ sameData
        /\ UNCHANGED <<stdin, held, writer, killed, rdOpen, opc, hpc, ch, wpc, closed, result>>
        /\ \/ ~rdOpen /\ rpc' = "recheck" /\ err' = "error"
           \/ rdOpen /\ pipe = <<>> /\ writer # "running" /\ rpc' = "recheck" /\ err' = "eof"
           \/ stdin /\ rpc' = "recheck" /\ err' = "truncated"
           \/ rdOpen /\ pipe # <<>> /\ rpc' = "data" /\ err' = err
    BY <1>19 DEF Live!ReadHeader, Live!Refuse, Live!Fail, Live!EndError, Live!Gone,
                 Live!writerVars, Live!openVars
  <2>2. control'
    BY <1>1, <1>4, <2>1 DEF LiveFlagsOK, PhasesOK
  <2>3. rdOpen /\ pipe = <<>> => taken = wrote
    <3> SUFFICES ASSUME rdOpen, pipe = <<>> PROVE taken = wrote
      OBVIOUS
    <3>1. Holds(<<>>, taken + 1, wrote, cut)
      BY <1>3, <1>4, <2>1 DEF PhasesOK
    <3>2. taken + 1 = wrote + 1
      BY <3>1, EmptyHolds
    <3> QED BY <1>2, <3>2
  <2>4. ends' /\ ((rdOpen /\ rpc = "data")' => pipe # <<>>)
    BY <1>3, <1>5, <2>1, <2>3 DEF ReadToEnd
  <2> QED BY <1>8, <2>1, <2>2, <2>4
<1>20. CASE Live!ReadData
  <2>1. /\ rpc = "data" /\ opc = "open" /\ hpc = "end" /\ ch = "ok" /\ result = "none"
        /\ UNCHANGED <<stdin, held, writer, killed, wrote, rdOpen, opc, hpc, ch, wpc, closed, result>>
        /\ \/ ~rdOpen /\ rpc' = "recheck" /\ err' = "error" /\ sameData
           \/ rdOpen /\ Head(pipe) = -1 /\ rpc' = "recheck" /\ err' \in {"eof", "error"} /\ sameData
           \/ stdin /\ rpc' = "recheck" /\ err' = "truncated" /\ sameData
           \/ stdin /\ rpc' = "panic" /\ err' = err /\ sameData
           \/ /\ rdOpen /\ Head(pipe) # -1 /\ err' = err /\ pipe' = Tail(pipe) /\ taken' = taken + 1
              /\ \/ rpc' = "idle" /\ got' = got + 1 /\ last' = Head(pipe)
                 \/ stdin /\ rpc' = "header" /\ got' = got /\ last' = last
    BY <1>4, <1>20 DEF Live!ReadData, Live!NotAPacket, Live!ReadToItsEnd, Live!Refuse, Live!Fail, Live!Half,
                       Live!Rest, Live!writerVars, Live!openVars, PhasesOK
  <2>2. control'
    BY <1>1, <1>4, <2>1 DEF LiveFlagsOK, PhasesOK
  <2>3. rdOpen => /\ pipe # <<>>
                  /\ \/ /\ Head(pipe) = taken + 1 /\ taken + 1 <= wrote
                        /\ Holds(Tail(pipe), taken + 1 + 1, wrote, cut)
                     \/ Head(pipe) = -1 /\ taken + 1 = wrote + 1 /\ cut
    <3> SUFFICES ASSUME rdOpen
                 PROVE  /\ pipe # <<>>
                        /\ \/ /\ Head(pipe) = taken + 1 /\ taken + 1 <= wrote
                              /\ Holds(Tail(pipe), taken + 1 + 1, wrote, cut)
                           \/ Head(pipe) = -1 /\ taken + 1 = wrote + 1 /\ cut
      OBVIOUS
    <3>1. Holds(pipe, taken + 1, wrote, cut) /\ pipe # <<>>
      BY <1>3, <2>1
    <3> DEFINE next == taken + 1
    <3> HIDE DEF cut, next
    <3>2. Holds(pipe, next, wrote, cut)
      BY <3>1 DEF next
    <3>3. \/ /\ Head(pipe) = next /\ next <= wrote
             /\ Holds(Tail(pipe), next + 1, wrote, cut)
          \/ Head(pipe) = -1 /\ next = wrote + 1 /\ cut
      BY <3>1, <3>2, HeadHolds
    <3> QED BY <3>1, <3>3, Zenon DEF next
  <2>4. CASE rpc' \in {"recheck", "panic"}
    <3>1. sameData
      BY <2>1, <2>4
    <3>2. rdOpen /\ rpc' = "recheck" /\ err' # "truncated" => ReadToEnd
      <4> SUFFICES ASSUME rdOpen, rpc' = "recheck", err' # "truncated" PROVE ReadToEnd
        OBVIOUS
      <4>1. Head(pipe) = -1
        BY <2>1, <2>4
      <4>2. taken = wrote /\ cut
        BY <1>2, <2>3, <4>1
      <4> QED BY <4>2 DEF ReadToEnd
    <3>3. ends' /\ ((rdOpen /\ rpc = "data")' => pipe # <<>>)
      BY <2>1, <2>4, <3>1, <3>2 DEF ReadToEnd
    <3> QED BY <1>8, <2>1, <2>2, <3>1, <3>3
  \* A record is read to its end.
  <2>5. CASE rpc' \in {"idle", "header"}
    <3>1. /\ rdOpen /\ Head(pipe) = taken + 1 /\ taken' = taken + 1 /\ pipe' = Tail(pipe)
          /\ Holds(Tail(pipe), taken + 1 + 1, wrote, cut) /\ pipe # <<>>
      BY <1>2, <2>1, <2>3, <2>5
    <3>2. Tail(pipe) \in Seq({-1} \cup 0 .. MaxRecords)
      BY <1>2, <3>1, HeadTailProperties
    <3>3. \/ got' = got + 1 /\ last' = taken + 1
          \/ stdin /\ got' = got /\ last' = last
      BY <2>1, <2>5, <3>1
    <3>4. LiveDataOK' /\ CountsOK'
      BY <1>1, <1>2, <2>1, <3>1, <3>2, <3>3 DEF LiveDataOK, CountsOK
    <3>5. PipeOK'
      BY <2>1, <2>5, <3>1 DEF PipeOK
    <3>6. ends'
      BY <2>1, <2>5
    <3> QED BY <1>6, <2>2, <3>4, <3>5, <3>6
  <2> QED BY <2>1, <2>4, <2>5
<1>21. CASE Live!Recheck
  <2>1. /\ rpc = "recheck" /\ rpc' = "close" /\ result' = (IF closed THEN "eof" ELSE err) /\ sameData
        /\ UNCHANGED <<stdin, held, writer, killed, rdOpen, opc, hpc, ch, wpc, closed, err>>
    BY <1>21 DEF Live!Recheck, Live!ErrorEndsLoop, Live!writerVars, Live!openVars
  <2>2. control'
    BY <1>1, <1>4, <2>1 DEF LiveFlagsOK, PhasesOK
  <2>3. closed => ~rdOpen
    BY <1>4, <2>1 DEF PhasesOK
  <2>4. ends' /\ ((rdOpen /\ rpc = "data")' => pipe # <<>>)
    BY <1>3, <1>5, <2>1, <2>3 DEF ReadToEnd
  <2> QED BY <1>8, <2>1, <2>2, <2>4
<1>22. CASE Live!CloseLive
  <2>1. /\ rpc = "close" /\ rpc' = "returned" /\ sameData
        /\ UNCHANGED <<stdin, held, writer, rdOpen, opc, hpc, ch, wpc, err, result>>
        /\ \/ closed' = closed /\ killed' = killed
           \/ closed' = TRUE /\ killed' \in BOOLEAN
    BY <1>1, <1>22 DEF Live!CloseLive, Live!Signal, Live!openVars, LiveFlagsOK
  <2>2. control'
    <3>1. LiveFlagsOK'
      BY <1>1, <1>4, <2>1 DEF LiveFlagsOK, PhasesOK
    <3>2. PhasesOK'
      BY <1>4, <2>1 DEF PhasesOK
    <3> QED BY <3>1, <3>2
  <2>3. ends' /\ ((rdOpen /\ rpc = "data")' => pipe # <<>>)
    BY <1>3, <1>5, <2>1 DEF ReadToEnd
  <2> QED BY <1>8, <2>1, <2>2, <2>3
<1>23. CASE Live!PauseOrResume
  <2>1. /\ held' \in BOOLEAN /\ sameData
        /\ UNCHANGED <<writer, killed, rdOpen, opc, hpc, ch, wpc, closed, rpc, err, result>>
    <3>1. held' \in BOOLEAN
      BY <1>1, <1>23, Zenon DEF Live!PauseOrResume, LiveFlagsOK
    <3> QED BY <1>23, <3>1 DEF Live!PauseOrResume, Live!writerVars, Live!openVars, Live!runVars
  <2>2. control'
    BY <1>1, <1>4, <2>1 DEF LiveFlagsOK, PhasesOK
  <2>3. ends' /\ ((rdOpen /\ rpc = "data")' => pipe # <<>>)
    BY <1>3, <1>5, <2>1 DEF ReadToEnd
  <2> QED BY <1>8, <2>1, <2>2, <2>3
<1> QED BY <1>10, <1>11, <1>12, <1>13, <1>14, <1>15, <1>16, <1>17, <1>18, <1>19, <1>20, <1>21, <1>22, <1>23
        DEF Live!LiveNext, Live!OpenStep, Live!NextStep

LEMMA LiveStutter == LiveInv /\ UNCHANGED liveState => LiveInv'
BY DEF LiveInv, liveState, Live!LiveTypeOK, PipeOK, PhasesOK, CountsOK, ReadToEnd, Holds

\* Whatever was lost, cmd.Wait closed the pipe with it, which it never does to
\* standard input, or the reader refused a record of standard input.
LEMMA LiveLoss == LiveInv => Live!LostOnlyByWait
BY DEF LiveInv, PhasesOK, CountsOK, ReadToEnd, Live!LostOnlyByWait

-----------------------------------------------------------------------------
(* Capture file.                                                           *)

PacketType == [link : File!Links, len : Nat, orig : Nat, fill : Nat]
BlockType ==
    [type : {"none", "record", "idb", "epb", "spb", "other"}, len : 0 .. MaxData, claim : Nat]

Running == fpc \in {"open", "create", "top", "next", "block", "ingest", "write"}

\* What is read: a packet that is ingested fits its block, and is one of those counted.
ReadingOK ==
    /\ Running \/ fpc \in {"returned", "panic", "crashed"}
    /\ blocks \in Nat /\ fcount \in Nat /\ fcount <= blocks
    /\ fpc = "block" => fcount < blocks
    /\ block \in BlockType /\ pkt \in PacketType
    /\ fpc \in {"ingest", "write"} => pkt.len <= MaxData
    /\ File!ClaimsFit

\* The link types: a classic file has one, which its packets and the recording share;
\* the recording of a pcapng file is begun before the file has told any.
\* The link type in the recording of packets of a link type.
Recorded(link) == IF link = NullLink THEN Ethernet ELSE link

LinksOK ==
    /\ format \in {"classic", "pcapng"}
    /\ rdLink \in File!Links /\ ifaceMap \in Seq(File!Links)
    /\ fpc \in {"open", "create"} => wlink = "" /\ (format = "pcapng" => rdLink = Ethernet)
    /\ fpc \in {"top", "next", "block", "ingest", "write"} =>
          wlink # "" /\ (format = "classic" => wlink = Recorded(rdLink))
    /\ wlink = "" => file = <<>> /\ kept = <<>> /\ whole = 0
    /\ wlink # "" /\ format = "pcapng" => wlink = Ethernet
    /\ format = "classic" =>
          /\ block.type \in {"none", "record"}
          /\ fpc \in {"ingest", "write"} => wlink = Recorded(pkt.link)

\* Where the records of the packets begin in the recording: a header of two cells,
\* of which the first tells how many cells of data follow it.
Offsets(at, packets, cells, until) ==
    /\ at \in Seq(Nat) /\ Len(at) = Len(packets) + 1
    /\ at[1] = 0 /\ at[Len(packets) + 1] = until
    /\ \A i \in 1 .. Len(packets) :
          /\ at[i + 1] = at[i] + 2 + packets[i].len /\ at[i + 1] <= until
          /\ cells[at[i] + 1] = packets[i].len
          /\ \A j \in 1 .. packets[i].len : cells[at[i] + 2 + j] = packets[i].fill

\* The packet that playback returns for the i-th.
Replayed(i) == [link |-> wlink, data |-> [j \in 1 .. kept[i].len |-> kept[i].fill]]

\* How far playback is in a recording whose records begin at these offsets.
PlayedTo(at) ==
    /\ \A i \in 1 .. Len(back) : i <= Len(kept) => back[i] = Replayed(i)
    /\ Len(back) <= Len(kept) /\ ppc \in {"idle", "header"} => ppos = at[Len(back) + 1]
    /\ Len(back) < Len(kept) /\ ppc = "data" =>
          ppos = at[Len(back) + 1] + 2 /\ plen = kept[Len(back) + 1].len
    /\ Len(file) = whole =>
          Len(back) <= Len(kept) /\ (ppc = "data" => Len(back) < Len(kept))
    /\ ppc = "end" =>
          Len(back) >= Len(kept) /\ (Len(file) = whole => pend = IF wlink = "" THEN "error" ELSE "eof")

RecordingOK ==
    /\ file \in Seq(Nat) /\ kept \in Seq(PacketType)
    /\ whole \in Nat /\ whole <= Len(file)
    /\ \A i \in 1 .. Len(kept) :
          kept[i].len <= MaxData /\ (format = "classic" => wlink = Recorded(kept[i].link))
    /\ fpc = "write" /\ Len(file) = whole + 2 => file[whole + 1] = pkt.len

PlaybackOK ==
    /\ ppc \in {"idle", "header", "data", "end"} /\ ppos \in Nat /\ plen \in Nat
    /\ back \in Seq([link : {wlink}, data : Seq(Nat)])
    /\ ppc # "idle" => ~Running
    /\ ppc = "idle" => ppos = 0 /\ back = <<>>
    /\ ppc \in {"header", "data"} => wlink # ""

FileInv ==
    /\ ReadingOK /\ LinksOK /\ RecordingOK /\ PlaybackOK
    /\ \E at \in Seq(Nat) : Offsets(at, kept, file, whole) /\ PlayedTo(at)

LEMMA FileNumbers ==
    /\ Wrap \in Nat /\ EpbFixed \in Nat /\ 1 <= EpbFixed /\ EpbFixed < Wrap
    /\ MaxData \in Nat /\ 1 <= MaxData /\ MaxData < Wrap
    /\ Bytes \subseteq Nat /\ MaxBlocks \in Nat
<1>1. /\ Wrap \in Nat /\ EpbFixed \in 1 .. Wrap - 1
      /\ MaxData \in 1 .. Wrap - 1 /\ Bytes \subseteq 0 .. Wrap - 1 /\ MaxBlocks \in Nat
  BY SourcesAssumption DEF File!FileAssumption
<1> QED BY <1>1

LEMMA FileLinks ==
    /\ Ethernet \in File!Links /\ "" \notin File!Links
    /\ Recorded(Ethernet) = Ethernet
    /\ \A link \in File!Links : Recorded(link) \in File!Links
<1>1. "" \notin {Ethernet} \cup OtherLinks
  BY SourcesAssumption DEF File!FileAssumption
<1> QED BY <1>1 DEF File!Links, Recorded

\* A sum of 32 bits.
LEMMA WrappedSum ==
    ASSUME NEW w \in Nat, NEW x \in Nat, NEW y \in Nat, x < w, y < w
    PROVE  (x + y) % w = IF x + y < w THEN x + y ELSE x + y - w
<1>1. w > 0 /\ x + y \in Nat /\ x + y - w < w
  OBVIOUS
<1>2. CASE x + y < w
  BY <1>1, <1>2
<1>3. CASE ~(x + y < w)
  <2>1. x + y - w \in Nat /\ x + y = w * 1 + (x + y - w)
    BY <1>3
  <2> QED BY <1>1, <1>3, <2>1
<1> QED BY <1>2, <1>3

LEMMA FileInitInv == File!FileInit => FileInv
<1> SUFFICES ASSUME File!FileInit PROVE FileInv
  OBVIOUS
<1>1. /\ fpc = "open" /\ format \in {"classic", "pcapng"} /\ rdLink = Ethernet /\ ifaceMap = <<>>
      /\ blocks = 0 /\ fcount = 0 /\ block = [type |-> "none", len |-> 0, claim |-> 0]
      /\ pkt = [link |-> Ethernet, len |-> 0, orig |-> 0, fill |-> 0]
      /\ wlink = "" /\ file = <<>> /\ kept = <<>> /\ whole = 0
      /\ ppc = "idle" /\ ppos = 0 /\ plen = 0 /\ back = <<>>
  BY DEF File!FileInit, File!NoBlock, File!NoPacket
<1>2. /\ <<>> \in Seq(Nat) /\ <<>> \in Seq(PacketType) /\ <<>> \in Seq(File!Links)
      /\ <<>> \in Seq([link : {wlink}, data : Seq(Nat)]) /\ Len(<<>>) = 0
  OBVIOUS
<1>3. block \in BlockType /\ pkt \in PacketType /\ block.type = "none"
  <2>1. 0 \in 0 .. MaxData /\ 0 \in Nat
    BY FileNumbers
  <2> QED BY <1>1, <2>1, FileLinks DEF BlockType, PacketType
<1>10. /\ blocks = 0 /\ fcount = 0 /\ file = <<>> /\ kept = <<>> /\ whole = 0
       /\ ppos = 0 /\ plen = 0 /\ back = <<>>
  BY <1>1, Zenon
<1>9. Len(kept) = 0 /\ Len(file) = 0 /\ Len(back) = 0 /\ 1 .. 0 = {}
  BY <1>2, <1>10
<1>4. ReadingOK
  <2>1. blocks \in Nat /\ fcount \in Nat /\ fcount <= blocks
    BY <1>10
  <2> QED BY <1>1, <1>3, <2>1 DEF ReadingOK, Running, File!ClaimsFit
<1>5. LinksOK
  BY <1>1, <1>2, <1>3, FileLinks DEF LinksOK
<1>6. RecordingOK
  <2>1. file \in Seq(Nat) /\ kept \in Seq(PacketType) /\ whole \in Nat /\ whole <= Len(file)
    BY <1>2, <1>9, <1>10
  <2>2. \A i \in 1 .. Len(kept) : FALSE
    BY <1>9
  <2> QED BY <1>1, <2>1, <2>2 DEF RecordingOK
<1>7. PlaybackOK
  BY <1>1, <1>2 DEF PlaybackOK
<1>8. \E at \in Seq(Nat) : Offsets(at, kept, file, whole) /\ PlayedTo(at)
  <2> DEFINE at == <<0>>
  <2>1. at \in Seq(Nat) /\ Len(at) = 1 /\ at[1] = 0
    OBVIOUS
  <2> HIDE DEF at
  <2>2. Offsets(at, kept, file, whole)
    <3>1. Len(kept) + 1 = 1 /\ whole = 0 /\ \A i \in 1 .. Len(kept) : FALSE
      BY <1>9, <1>10
    <3> QED BY <2>1, <3>1 DEF Offsets
  <2>3. PlayedTo(at)
    <3>1. /\ Len(back) + 1 = 1 /\ \A i \in 1 .. Len(back) : FALSE
          /\ Len(back) <= Len(kept) /\ ~(Len(back) < Len(kept))
      BY <1>9
    <3> QED BY <1>1, <2>1, <3>1 DEF PlayedTo
  <2> QED BY <2>1, <2>2, <2>3
<1> QED BY <1>4, <1>5, <1>6, <1>7, <1>8 DEF FileInv

\* What is appended can be found behind what was there.
LEMMA BehindThem ==
    ASSUME NEW cells \in Seq(Nat), NEW more \in Seq(Nat), NEW j \in 1 .. Len(more)
    PROVE  (cells \o more)[Len(cells) + j] = more[j]
<1> DEFINE n == Len(cells)
           m == Len(more)
           longer == cells \o more
<1>1. n \in Nat /\ m \in Nat /\ \A i \in 1 .. n + m : longer[i] = IF i <= n THEN cells[i] ELSE more[i - n]
  BY ConcatProperties, LenProperties
<1>2. j \in 1 .. m
  OBVIOUS
<1> HIDE DEF n, m, longer
<1>3. n + j \in 1 .. n + m /\ ~(n + j <= n) /\ n + j - n = j
  BY <1>1, <1>2
<1>4. longer[n + j] = more[n + j - n]
  BY <1>1, <1>3
<1> QED BY <1>3, <1>4 DEF n, longer

\* Whatever is written behind them, the records are where they were.
LEMMA OffsetsExtended ==
    ASSUME NEW at, NEW packets \in Seq(PacketType), NEW cells \in Seq(Nat), NEW until \in Nat,
           until <= Len(cells), NEW more \in Seq(Nat), Offsets(at, packets, cells, until)
    PROVE  Offsets(at, packets, cells \o more, until)
<1> DEFINE longer == cells \o more
<1>1. /\ Len(cells) \in Nat /\ Len(packets) \in Nat
      /\ \A i \in 1 .. Len(cells) : longer[i] = cells[i]
  BY ConcatProperties, LenProperties
<1>2. /\ at \in Seq(Nat) /\ Len(at) = Len(packets) + 1
      /\ at[1] = 0 /\ at[Len(packets) + 1] = until
  BY DEF Offsets
<1> HIDE DEF longer
<1>3. ASSUME NEW i \in 1 .. Len(packets)
      PROVE  /\ at[i + 1] = at[i] + 2 + packets[i].len /\ at[i + 1] <= until
             /\ longer[at[i] + 1] = packets[i].len
             /\ \A j \in 1 .. packets[i].len : longer[at[i] + 2 + j] = packets[i].fill
  <2>1. /\ at[i + 1] = at[i] + 2 + packets[i].len /\ at[i + 1] <= until
        /\ cells[at[i] + 1] = packets[i].len
        /\ \A j \in 1 .. packets[i].len : cells[at[i] + 2 + j] = packets[i].fill
    BY DEF Offsets
  <2>2. at[i] \in Nat /\ packets[i].len \in Nat
    <3>1. i \in 1 .. Len(at)
      BY <1>1, <1>2
    <3>2. packets[i] \in PacketType
      BY ElementOfSeq
    <3> QED BY <1>2, <3>1, <3>2, ElementOfSeq DEF PacketType
  <2> DEFINE a == at[i]
             l == packets[i].len
             n == Len(cells)
             next == at[i + 1]
  <2>3. /\ a \in Nat /\ l \in Nat /\ n \in Nat /\ until \in Nat
        /\ next = a + 2 + l /\ next <= until /\ until <= n
    BY <1>1, <2>1, <2>2, Zenon
  <2> HIDE DEF a, l, n, next
  <2>4. a + 1 \in 1 .. n /\ \A j \in 1 .. l : a + 2 + j \in 1 .. n
    BY <2>3
  <2>5. at[i] + 1 \in 1 .. Len(cells)
    BY <2>4 DEF a, n
  <2>6. \A j \in 1 .. packets[i].len : at[i] + 2 + j \in 1 .. Len(cells)
    BY <2>4 DEF a, l, n
  <2> QED BY <1>1, <2>1, <2>5, <2>6
<1> QED BY <1>2, <1>3 DEF Offsets, longer

\* A record written as a whole behind them is one more.
LEMMA OffsetsGrow ==
    ASSUME NEW at, NEW packets \in Seq(PacketType), NEW cells \in Seq(Nat), NEW until \in Nat,
           NEW p \in PacketType, Offsets(at, packets, cells, until),
           NEW more \in Seq(Nat), Len(more) = p.len, \A j \in 1 .. p.len : more[j] = p.fill,
           Len(cells) = until + 2, cells[until + 1] = p.len
    PROVE  Offsets(Append(at, until + 2 + p.len), Append(packets, p), cells \o more, until + 2 + p.len)
<1> DEFINE end == until + 2 + p.len
           longer == cells \o more
           at2 == Append(at, end)
           packets2 == Append(packets, p)
           n == Len(packets)
<1>1. p.len \in Nat /\ n \in Nat /\ end \in Nat /\ Len(cells) \in Nat /\ until < end
  <2>1. p.len \in Nat
    BY DEF PacketType
  <2> QED BY <2>1, LenProperties
<1>2. at \in Seq(Nat) /\ Len(at) = n + 1 /\ at[1] = 0 /\ at[n + 1] = until
  BY DEF Offsets
<1>3. /\ at2 \in Seq(Nat) /\ Len(at2) = n + 2 /\ at2[n + 2] = end
      /\ \A i \in 1 .. n + 1 : at2[i] = at[i]
  <2> HIDE DEF end
  <2>1. /\ Append(at, end) \in Seq(Nat) /\ Len(Append(at, end)) = Len(at) + 1
        /\ Append(at, end)[Len(at) + 1] = end
        /\ \A i \in 1 .. Len(at) : Append(at, end)[i] = at[i]
    BY <1>1, <1>2, AppendProperties
  <2>2. Len(at) + 1 = n + 2
    BY <1>1, <1>2
  <2> QED BY <1>2, <2>1, <2>2
<1>4. /\ packets2 \in Seq(PacketType) /\ Len(packets2) = n + 1 /\ packets2[n + 1] = p
      /\ \A i \in 1 .. n : packets2[i] = packets[i]
  BY AppendProperties
<1>5. /\ \A i \in 1 .. Len(cells) : longer[i] = cells[i]
      /\ \A j \in 1 .. p.len : longer[Len(cells) + j] = p.fill
  <2>2. \A i \in 1 .. Len(cells) : longer[i] = cells[i]
    BY <1>1, ConcatProperties
  <2>3. \A j \in 1 .. Len(more) : longer[Len(cells) + j] = more[j]
    BY BehindThem
  <2> QED BY <2>2, <2>3
<1>6. Offsets(at, packets, longer, until)
  BY <1>1, OffsetsExtended
<1> HIDE DEF end, longer, at2, packets2, n
<1>7. ASSUME NEW i \in 1 .. n
      PROVE  /\ at2[i + 1] = at2[i] + 2 + packets2[i].len /\ at2[i + 1] <= end
             /\ longer[at2[i] + 1] = packets2[i].len
             /\ \A j \in 1 .. packets2[i].len : longer[at2[i] + 2 + j] = packets2[i].fill
  <2>1. /\ at[i + 1] = at[i] + 2 + packets[i].len /\ at[i + 1] <= until
        /\ longer[at[i] + 1] = packets[i].len
        /\ \A j \in 1 .. packets[i].len : longer[at[i] + 2 + j] = packets[i].fill
    BY <1>6 DEF Offsets, n
  <2>2. i \in 1 .. n + 1 /\ i + 1 \in 1 .. n + 1
    BY <1>1
  <2>3. at2[i] = at[i] /\ at2[i + 1] = at[i + 1] /\ packets2[i] = packets[i] /\ at[i + 1] \in Nat
    <3>1. i + 1 \in 1 .. Len(at)
      BY <1>2, <2>2
    <3> QED BY <1>2, <1>3, <1>4, <2>2, <3>1, ElementOfSeq
  <2>4. at[i + 1] <= end
    BY <1>1, <2>1, <2>3
  <2> QED BY <2>1, <2>3, <2>4
<1>8. /\ at2[n + 1 + 1] = at2[n + 1] + 2 + packets2[n + 1].len /\ at2[n + 1 + 1] <= end
      /\ longer[at2[n + 1] + 1] = packets2[n + 1].len
      /\ \A j \in 1 .. packets2[n + 1].len : longer[at2[n + 1] + 2 + j] = packets2[n + 1].fill
  <2>1. at2[n + 1] = until /\ n + 1 + 1 = n + 2 /\ at2[n + 2] = end /\ end = until + 2 + p.len
    <3>1. n + 1 \in 1 .. n + 1 /\ n + 1 + 1 = n + 2
      BY <1>1
    <3> QED BY <1>2, <1>3, <3>1 DEF end
  <2>2. longer[until + 1] = p.len
    <3>1. until + 1 \in 1 .. Len(cells)
      BY <1>1
    <3> QED BY <1>5, <3>1
  <2>3. \A j \in 1 .. p.len : longer[until + 2 + j] = p.fill
    BY <1>5
  <2>4. end <= end
    BY <1>1
  <2> QED BY <1>4, <2>1, <2>2, <2>3, <2>4
<1>9. \A i \in 1 .. n + 1 : i \in 1 .. n \/ i = n + 1
  BY <1>1
<1>10. at2[1] = 0 /\ at2[Len(packets2) + 1] = end /\ Len(at2) = Len(packets2) + 1
  <2>1. 1 \in 1 .. n + 1 /\ n + 1 + 1 = n + 2
    BY <1>1
  <2> QED BY <1>2, <1>3, <1>4, <2>1
<1>11. Offsets(at2, packets2, longer, end)
  <2>1. ASSUME NEW i \in 1 .. Len(packets2)
        PROVE  /\ at2[i + 1] = at2[i] + 2 + packets2[i].len /\ at2[i + 1] <= end
               /\ longer[at2[i] + 1] = packets2[i].len
               /\ \A j \in 1 .. packets2[i].len : longer[at2[i] + 2 + j] = packets2[i].fill
    BY <1>4, <1>7, <1>8, <1>9
  <2> QED BY <1>3, <1>10, <2>1 DEF Offsets
<1> QED BY <1>11 DEF at2, packets2, longer, end

\* A step that leaves the recording and its playback alone.
LEMMA RecordingSame ==
    ASSUME FileInv, UNCHANGED <<wlink, file, kept, whole, format, ppc, ppos, plen, back, pend>>,
           fpc' # "write", Running \/ ~Running'
    PROVE  /\ RecordingOK' /\ PlaybackOK'
           /\ (\E at \in Seq(Nat) : Offsets(at, kept, file, whole) /\ PlayedTo(at))'
<1>1. RecordingOK'
  BY DEF FileInv, RecordingOK
<1>2. PlaybackOK'
  <2>1. ppc' # "idle" => ~Running'
    BY DEF FileInv, PlaybackOK
  <2> QED BY <2>1 DEF FileInv, PlaybackOK
<1>3. \A at : PlayedTo(at)' <=> PlayedTo(at)
  BY DEF PlayedTo, Replayed
<1> QED BY <1>1, <1>2, <1>3 DEF FileInv

\* Next returns a packet (reader.go:198, 251, 268).
LEMMA ReturnedPacket ==
    ASSUME NEW link \in File!Links, NEW len \in Nat, File!Returns(link, len)
    PROVE  /\ pkt' \in PacketType /\ pkt'.link = link /\ pkt'.len = len
           /\ fcount' = fcount + 1 /\ fpc' = "ingest"
<1>1. PICK orig \in {len, len + 1}, fill \in Bytes :
          pkt' = [link |-> link, len |-> len, orig |-> orig, fill |-> fill]
  BY DEF File!Returns
<1>2. orig \in Nat /\ fill \in Nat
  BY FileNumbers
<1> QED BY <1>1, <1>2 DEF PacketType, File!Returns

\* A block that could be read is not too long (reader.go:172-176, 206-210).
LEMMA ReadLength ==
    ASSUME NEW header, NEW body, NEW trail, NEW len \in Nat,
           (IF header = "ok" /\ len > MaxData THEN "error"
            ELSE File!FirstFailure(<<header, body, trail>>)) = "ok"
    PROVE  len <= MaxData
<1> DEFINE outcomes == <<header, body, trail>>
           failed == {i \in DOMAIN outcomes : outcomes[i] # "ok"}
<1>1. CASE header = "ok"
  <2>1. ~(len > MaxData)
    BY <1>1
  <2> QED BY <2>1, FileNumbers
<1>2. CASE header # "ok"
  <2>1. DOMAIN outcomes = 1 .. 3 /\ outcomes[1] = header
    OBVIOUS
  <2>2. 1 \in failed /\ failed \subseteq 1 .. 3 /\ \A i \in failed : outcomes[i] # "ok"
    BY <1>2, <2>1
  <2> HIDE DEF failed
  <2>3. \E x \in failed : \A y \in failed : x <= y
    BY <2>2
  <2>4. File!Min(failed) \in failed
    BY <2>3 DEF File!Min
  <2>5. File!FirstFailure(outcomes) # "ok"
    BY <2>2, <2>4 DEF File!FirstFailure, failed
  <2> QED BY <1>2, <2>5
<1> QED BY <1>1, <1>2

\* A step of the reader keeps what it knows of blocks and link types.
LEMMA ReadStepInv ==
    ASSUME FileInv, File!ReadStep
    PROVE  FileInv'
<1>1. /\ blocks \in Nat /\ fcount \in Nat /\ fcount <= blocks /\ (fpc = "block" => fcount < blocks)
      /\ block \in BlockType /\ pkt \in PacketType
  BY DEF FileInv, ReadingOK
<1>2. LinksOK
  BY DEF FileInv
<1>3. block.len \in Nat /\ block.len <= MaxData /\ MaxData \in Nat /\ block.claim \in Nat
  BY <1>1, FileNumbers DEF BlockType
<1> DEFINE rest == UNCHANGED <<wlink, file, kept, whole, format, ppc, ppos, plen, back, pend>>
\* What each step has to show.
<1>4. ASSUME ReadingOK', LinksOK', rest, fpc' # "write", Running
      PROVE  FileInv'
  BY <1>4, RecordingSame DEF FileInv
\* The loop ends or goes on with the same packet and block.
<1>5. ASSUME fpc' \in {"create", "top", "next", "returned"}, UNCHANGED <<blocks, block, pkt, fcount>>
      PROVE  ReadingOK'
  BY <1>1, <1>5 DEF ReadingOK, Running, File!ClaimsFit
\* The link types do not change, and nothing is returned.
<1>6. ASSUME fpc' \in {"top", "next", "block", "returned", "panic"}, fpc \notin {"open", "create"},
             Running, rest, UNCHANGED <<rdLink, ifaceMap>>,
             block'.type = block.type \/ format # "classic" \/ block'.type = "record"
      PROVE  LinksOK'
  BY <1>2, <1>6 DEF LinksOK, Running
<1>7. CASE File!OpenFile
  <2>1. /\ fpc = "open" /\ rest /\ UNCHANGED <<ifaceMap, blocks, block, pkt, fcount>>
        /\ \/ fpc' = "returned" /\ rdLink' = rdLink
           \/ fpc' = "create" /\ rdLink' \in File!Links /\ (format = "pcapng" => rdLink' = Ethernet)
    <3>1. /\ fpc = "open" /\ rest /\ UNCHANGED <<ifaceMap, blocks, block, pkt, fcount>>
      BY <1>7 DEF File!OpenFile, File!writeVars, File!playVars
    <3>2. \/ fpc' = "returned" /\ rdLink' = rdLink
          \/ fpc' = "create" /\ rdLink' \in IF format = "classic" THEN File!Links ELSE {Ethernet}
      BY <1>7 DEF File!OpenFile, File!Close
    <3>3. format = "classic" \/ format = "pcapng"
      BY <1>2 DEF LinksOK
    <3> QED BY <3>1, <3>2, <3>3, FileLinks
  <2>2. ReadingOK'
    BY <1>5, <2>1
  <2>3. LinksOK'
    BY <1>2, <2>1 DEF LinksOK
  <2> QED BY <1>4, <2>1, <2>2, <2>3 DEF Running
<1>8. CASE File!Top
  <2>1. /\ fpc = "top" /\ fpc' \in {"next", "returned"} /\ rest
        /\ UNCHANGED <<rdLink, ifaceMap, blocks, block, pkt, fcount>>
    BY <1>8 DEF File!Top, File!Close, File!writeVars, File!playVars
  <2>2. ReadingOK'
    BY <1>5, <2>1
  <2>3. LinksOK'
    BY <1>6, <2>1 DEF Running
  <2> QED BY <1>4, <2>1, <2>2, <2>3 DEF Running
<1>9. CASE File!ReadHeaderOf
  <2>1. fpc = "next" /\ rest /\ UNCHANGED <<rdLink, ifaceMap, pkt, fcount>>
    BY <1>9 DEF File!ReadHeaderOf, File!writeVars, File!playVars
  <2>2. PICK len \in 0 .. MaxData + 1,
             type \in IF format = "classic" THEN {"record"} ELSE {"idb", "epb", "spb", "other"} :
             \E header \in File!ReadsOf(File!HeaderCells),
                body \in IF format = "classic" THEN {"ok"} ELSE File!ReadsOf(len),
                trail \in IF format = "classic" THEN {"ok"} ELSE File!ReadsOf(File!HeaderCells) :
                LET outcome == IF header = "ok" /\ len > MaxData THEN "error"
                               ELSE File!FirstFailure(<<header, body, trail>>)
                IN  IF outcome # "ok"
                    THEN File!Close(outcome) /\ UNCHANGED <<blocks, block>>
                    ELSE /\ blocks' = blocks + 1
                         /\ block' = [type |-> type, len |-> len, claim |-> 0]
                         /\ fpc' = "block" /\ UNCHANGED fresult
    BY <1>9, Zenon DEF File!ReadHeaderOf
  <2>3. \/ fpc' = "returned" /\ UNCHANGED <<blocks, block>>
        \/ /\ blocks' = blocks + 1 /\ fpc' = "block" /\ len <= MaxData
           /\ block' = [type |-> type, len |-> len, claim |-> 0]
    <3>1. PICK header \in File!ReadsOf(File!HeaderCells),
               body \in IF format = "classic" THEN {"ok"} ELSE File!ReadsOf(len),
               trail \in IF format = "classic" THEN {"ok"} ELSE File!ReadsOf(File!HeaderCells) :
             LET outcome == IF header = "ok" /\ len > MaxData THEN "error"
                            ELSE File!FirstFailure(<<header, body, trail>>)
             IN  IF outcome # "ok"
                 THEN File!Close(outcome) /\ UNCHANGED <<blocks, block>>
                 ELSE /\ blocks' = blocks + 1
                      /\ block' = [type |-> type, len |-> len, claim |-> 0]
                      /\ fpc' = "block" /\ UNCHANGED fresult
      BY <2>2, Zenon
    <3> DEFINE outcome == IF header = "ok" /\ len > MaxData THEN "error"
                          ELSE File!FirstFailure(<<header, body, trail>>)
    <3>2. len \in Nat
      OBVIOUS
    <3>3. outcome = "ok" => len <= MaxData
      BY <3>2, ReadLength
    <3> HIDE DEF outcome
    <3>4. IF outcome # "ok"
          THEN File!Close(outcome) /\ UNCHANGED <<blocks, block>>
          ELSE /\ blocks' = blocks + 1
               /\ block' = [type |-> type, len |-> len, claim |-> 0]
               /\ fpc' = "block" /\ UNCHANGED fresult
      BY <3>1 DEF outcome
    <3> QED BY <3>3, <3>4 DEF File!Close
  <2>4. CASE fpc' = "returned" /\ UNCHANGED <<blocks, block>>
    <3>1. ReadingOK'
      BY <1>5, <2>1, <2>4
    <3>2. LinksOK'
      BY <1>6, <2>1, <2>4 DEF Running
    <3> QED BY <1>4, <2>1, <2>4, <3>1, <3>2 DEF Running
  <2>5. CASE /\ blocks' = blocks + 1 /\ fpc' = "block" /\ len <= MaxData
             /\ block' = [type |-> type, len |-> len, claim |-> 0]
    <3>1. block' \in BlockType /\ block'.type = type
      <4>1. len \in 0 .. MaxData /\ 0 \in Nat
        BY <1>3, <2>5
      <4>2. type \in {"none", "record", "idb", "epb", "spb", "other"}
        OBVIOUS
      <4> QED BY <2>5, <4>1, <4>2 DEF BlockType
    <3>2. blocks' \in Nat /\ fcount' \in Nat /\ fcount' < blocks' /\ fcount' <= blocks'
      BY <1>1, <2>1, <2>5
    <3>3. ReadingOK'
      BY <1>1, <2>1, <2>5, <3>1, <3>2 DEF ReadingOK, Running, File!ClaimsFit
    <3>4. LinksOK'
      BY <1>6, <2>1, <2>5, <3>1 DEF Running
    <3> QED BY <1>4, <2>1, <2>5, <3>3, <3>4 DEF Running
  <2> QED BY <2>3, <2>4, <2>5
\* A block's data is returned as a packet: it fits the block, and a classic file's
\* has the file's link type.
<1>10. ASSUME NEW link \in File!Links, NEW len \in Nat, len <= MaxData, File!Returns(link, len),
              fpc = "block", rest, UNCHANGED <<rdLink, ifaceMap, blocks>>,
              block' \in BlockType, block'.type = block.type,
              block.type = "epb" => EpbFixed + len <= block'.len,
              format = "classic" => link = rdLink
       PROVE  FileInv'
  <2>1. /\ pkt' \in PacketType /\ pkt'.link = link /\ pkt'.len = len
        /\ fcount' = fcount + 1 /\ fpc' = "ingest"
    BY <1>10, ReturnedPacket
  <2>2. fcount' \in Nat /\ fcount' <= blocks'
    BY <1>1, <1>10, <2>1
  <2>3. ReadingOK'
    BY <1>1, <1>10, <2>1, <2>2 DEF ReadingOK, Running, File!ClaimsFit
  <2>4. LinksOK'
    BY <1>2, <1>10, <2>1 DEF LinksOK
  <2> QED BY <1>4, <1>10, <2>1, <2>3, <2>4 DEF Running
<1>11. rdLink \in File!Links /\ ifaceMap \in Seq(File!Links)
  BY <1>2 DEF LinksOK
<1>12. CASE File!RecordData
  <2>1. /\ fpc = "block" /\ block.type = "record" /\ rest
        /\ UNCHANGED <<rdLink, ifaceMap, blocks, block>>
        /\ \/ File!Returns(rdLink, block.len)
           \/ fpc' = "returned" /\ UNCHANGED <<pkt, fcount>>
    BY <1>12 DEF File!RecordData, File!Close, File!writeVars, File!playVars
  <2>2. CASE File!Returns(rdLink, block.len)
    BY <1>1, <1>3, <1>10, <1>11, <2>1, <2>2
  <2>3. CASE fpc' = "returned" /\ UNCHANGED <<pkt, fcount>>
    <3>1. ReadingOK'
      BY <1>5, <2>1, <2>3
    <3>2. LinksOK'
      BY <1>6, <2>1, <2>3 DEF Running
    <3> QED BY <1>4, <2>1, <2>3, <3>1, <3>2 DEF Running
  <2> QED BY <2>1, <2>2, <2>3
<1>13. CASE File!Interface
  <2>1. /\ fpc = "block" /\ block.type = "idb" /\ fpc' = "next" /\ rest
        /\ rdLink' \in File!Links /\ ifaceMap' = Append(ifaceMap, rdLink')
        /\ UNCHANGED <<blocks, block, pkt, fcount>>
    BY <1>13 DEF File!Interface, File!writeVars, File!playVars
  <2>2. ReadingOK'
    BY <1>5, <2>1
  <2>3. Append(ifaceMap, rdLink') \in Seq(File!Links)
    BY <1>11, <2>1, AppendProperties
  <2>4. format # "classic"
    BY <1>2, <2>1 DEF LinksOK
  <2>5. LinksOK'
    BY <1>2, <2>1, <2>3, <2>4 DEF LinksOK
  <2> QED BY <1>4, <2>1, <2>2, <2>5 DEF Running
<1>14. CASE File!Enhanced
  <2>1. /\ fpc = "block" /\ block.type = "epb" /\ block.len >= EpbFixed /\ rest
        /\ UNCHANGED <<rdLink, ifaceMap, blocks>>
    BY <1>14 DEF File!Enhanced, File!writeVars, File!playVars
  <2>2. PICK capLen \in 0 .. Wrap - 1, iface \in 0 .. MaxBlocks - 1 :
          /\ block' = [block EXCEPT !.claim = capLen]
          /\ IF (EpbFixed + capLen) % Wrap > block.len
             THEN fpc' = "returned" /\ UNCHANGED <<pkt, fcount>>
             ELSE IF (EpbFixed + capLen) % Wrap \notin EpbFixed .. block.len
             THEN fpc' = "panic" /\ UNCHANGED <<pkt, fcount>>
             ELSE File!Returns(IF iface < Len(ifaceMap) THEN ifaceMap[iface + 1] ELSE rdLink, capLen)
    BY <1>14 DEF File!Enhanced, File!TooLong, File!Close
  <2>3. /\ capLen \in Nat /\ capLen < Wrap
        /\ block' \in BlockType /\ block'.type = "epb" /\ block'.len = block.len /\ block'.claim = capLen
    <3>1. capLen \in Nat /\ capLen < Wrap
      BY FileNumbers
    <3> QED BY <1>1, <2>1, <2>2, <3>1 DEF BlockType
  <2> DEFINE sum == (EpbFixed + capLen) % Wrap
  <2>4. sum = IF EpbFixed + capLen < Wrap THEN EpbFixed + capLen ELSE EpbFixed + capLen - Wrap
    BY <2>3, FileNumbers, WrappedSum
  <2> HIDE DEF sum
  <2>5. format # "classic"
    BY <1>2, <2>1 DEF LinksOK
  <2>6. CASE sum > block.len
    <3>1. fpc' = "returned" /\ UNCHANGED <<pkt, fcount>>
      BY <2>2, <2>6 DEF sum
    <3>2. ReadingOK'
      BY <1>1, <2>1, <2>3, <3>1 DEF ReadingOK, Running, File!ClaimsFit
    <3>3. LinksOK'
      BY <1>6, <2>1, <2>5, <3>1 DEF Running
    <3> QED BY <1>4, <2>1, <3>1, <3>2, <3>3 DEF Running
  <2>7. CASE ~(sum > block.len) /\ sum \notin EpbFixed .. block.len
    <3>1. fpc' = "panic" /\ UNCHANGED <<pkt, fcount>>
      BY <2>2, <2>7 DEF sum
    <3>2. EpbFixed + capLen >= Wrap
      BY <1>3, <2>3, <2>4, <2>7, FileNumbers
    <3>3. ReadingOK'
      BY <1>1, <2>1, <2>3, <3>1, <3>2 DEF ReadingOK, Running, File!ClaimsFit
    <3>4. LinksOK'
      BY <1>6, <2>1, <2>5, <3>1 DEF Running
    <3> QED BY <1>4, <2>1, <3>1, <3>3, <3>4 DEF Running
  <2>8. CASE sum \in EpbFixed .. block.len
    <3> DEFINE link == IF iface < Len(ifaceMap) THEN ifaceMap[iface + 1] ELSE rdLink
    <3>1. ~(sum > block.len)
      BY <1>3, <2>8, FileNumbers
    <3>2. File!Returns(link, capLen)
      BY <2>2, <2>8, <3>1 DEF sum
    <3>3. link \in File!Links
      <4>1. iface \in Nat /\ Len(ifaceMap) \in Nat
        BY <1>11, LenProperties, FileNumbers
      <4>2. CASE iface < Len(ifaceMap)
        <5>1. iface + 1 \in 1 .. Len(ifaceMap)
          BY <4>1, <4>2
        <5> QED BY <1>11, <4>2, <5>1, ElementOfSeq
      <4>3. CASE ~(iface < Len(ifaceMap))
        BY <1>11, <4>3
      <4> QED BY <4>2, <4>3
    <3> HIDE DEF link
    <3>4. EpbFixed + capLen <= block.len /\ capLen <= MaxData
      BY <1>3, <2>3, <2>4, <2>8, FileNumbers
    <3>5. EpbFixed + capLen <= block'.len /\ block'.type = block.type
      BY <2>1, <2>3, <3>4
    <3> QED BY <1>10, <2>1, <2>3, <2>5, <3>2, <3>3, <3>4, <3>5
  <2> QED BY <2>6, <2>7, <2>8
<1>15. CASE File!Simple
  <2>1. /\ fpc = "block" /\ block.type = "spb" /\ block.len >= 1 /\ rest
        /\ UNCHANGED <<rdLink, ifaceMap, blocks, block>> /\ File!Returns(rdLink, block.len - 1)
    BY <1>15 DEF File!Simple, File!writeVars, File!playVars
  <2>2. block.len - 1 \in Nat /\ block.len - 1 <= MaxData
    BY <1>3, <2>1
  <2> QED BY <1>1, <1>10, <1>11, <2>1, <2>2
<1>16. CASE File!Skip
  <2>1. /\ fpc = "block" /\ fpc' = "next" /\ rest
        /\ UNCHANGED <<rdLink, ifaceMap, blocks, block, pkt, fcount>>
    BY <1>16 DEF File!Skip, File!readVars, File!writeVars, File!playVars
  <2>2. ReadingOK'
    BY <1>5, <2>1
  <2>3. LinksOK'
    BY <1>6, <2>1 DEF Running
  <2> QED BY <1>4, <2>1, <2>2, <2>3 DEF Running
<1> QED BY <1>7, <1>8, <1>9, <1>12, <1>13, <1>14, <1>15, <1>16 DEF File!ReadStep

\* A packet or a block forgotten after ingest, or when playback begins.
LEMMA NothingInHand ==
    /\ File!NoPacket \in PacketType
    /\ File!NoBlock \in BlockType /\ File!NoBlock.type = "none"
<1>1. 0 \in 0 .. MaxData /\ 0 \in Nat
  BY FileNumbers
<1> QED BY <1>1, FileLinks DEF File!NoPacket, File!NoBlock, PacketType, BlockType

\* A step of the recording: what is written whole is one record more, and whatever
\* is written leaves the records before it alone.
LEMMA WriteStepInv ==
    ASSUME FileInv, File!WriteStep
    PROVE  FileInv'
<1>1. /\ blocks \in Nat /\ fcount \in Nat /\ fcount <= blocks
      /\ block \in BlockType /\ pkt \in PacketType
      /\ fpc \in {"ingest", "write"} => pkt.len <= MaxData
  BY DEF FileInv, ReadingOK
<1>2. LinksOK
  BY DEF FileInv
<1>3. /\ file \in Seq(Nat) /\ kept \in Seq(PacketType) /\ whole \in Nat /\ whole <= Len(file)
      /\ Len(file) \in Nat /\ Len(kept) \in Nat
      /\ \A i \in 1 .. Len(kept) :
            kept[i].len <= MaxData /\ (format = "classic" => wlink = Recorded(kept[i].link))
      /\ fpc = "write" /\ Len(file) = whole + 2 => file[whole + 1] = pkt.len
  BY LenProperties DEF FileInv, RecordingOK
<1>4. Running /\ ppc = "idle" /\ ppos = 0 /\ back = <<>> /\ plen \in Nat
  <2>1. Running
    BY DEF File!WriteStep, File!CreateRecording, File!WriteHeader, File!WriteData, Running
  <2> QED BY <2>1 DEF FileInv, PlaybackOK
<1>5. PICK at \in Seq(Nat) : Offsets(at, kept, file, whole)
  BY DEF FileInv
<1> DEFINE idle == UNCHANGED <<format, ppc, ppos, plen, back, pend>>
<1>6. ASSUME idle
      PROVE  PlaybackOK'
  <2>1. <<>> \in Seq([link : {wlink'}, data : Seq(Nat)])
    OBVIOUS
  <2>2. back' \in Seq([link : {wlink'}, data : Seq(Nat)])
    BY <1>4, <1>6, <2>1
  <2> QED BY <1>4, <1>6, <2>2 DEF PlaybackOK
<1>7. ASSUME idle, Len(kept') \in Nat, NEW a, a[1] = 0
      PROVE  PlayedTo(a)'
  <2>1. Len(back') = 0 /\ ppc' = "idle" /\ ppos' = 0
    <3>1. Len(<<>>) = 0
      OBVIOUS
    <3> QED BY <1>4, <1>7, <3>1
  <2>2. /\ Len(back') + 1 = 1 /\ (\A i \in 1 .. Len(back') : FALSE) /\ Len(back') <= Len(kept')
    BY <1>7, <2>1
  <2> QED BY <1>7, <2>1, <2>2 DEF PlayedTo
<1>8. at[1] = 0
  BY <1>5 DEF Offsets
\* Cells are written that do not make a packet's record whole.
<1>9. ASSUME NEW cells \in Seq(Nat), file' = file \o cells, idle, UNCHANGED <<kept, whole, wlink>>,
             ReadingOK', LinksOK',
             fpc' = "write" /\ Len(file') = whole + 2 => file'[whole + 1] = pkt'.len
      PROVE  FileInv'
  <2>1. file \o cells \in Seq(Nat) /\ Len(file \o cells) = Len(file) + Len(cells) /\ Len(cells) \in Nat
    BY <1>3, ConcatProperties, LenProperties
  <2>2. file' \in Seq(Nat) /\ whole' <= Len(file')
    BY <1>3, <1>9, <2>1
  <2>3. RecordingOK'
    BY <1>3, <1>9, <2>2 DEF RecordingOK
  <2>4. Offsets(at, kept, file \o cells, whole)
    BY <1>3, <1>5, OffsetsExtended
  <2>5. Offsets(at, kept, file, whole)' /\ PlayedTo(at)'
    BY <1>3, <1>7, <1>8, <1>9, <2>4
  <2> QED BY <1>6, <1>9, <2>3, <2>5 DEF FileInv
\* ingest has returned.
<1>10. ASSUME File!Ingested, UNCHANGED <<blocks, fcount>>
       PROVE  ReadingOK'
  BY <1>1, <1>10, NothingInHand DEF File!Ingested, ReadingOK, Running, File!ClaimsFit
<1>11. ASSUME File!Ingested, fpc \in {"ingest", "write"}, UNCHANGED <<format, rdLink, ifaceMap, wlink>>
       PROVE  LinksOK'
  BY <1>2, <1>11, NothingInHand DEF File!Ingested, LinksOK
<1>12. ASSUME NEW cells \in Seq(Nat), File!WriteFails(cells)
       PROVE  \E some \in Seq(Nat) : file' = file \o some
  <2>1. PICK n \in 0 .. Len(cells) - 1 : file' = file \o SubSeq(cells, 1, n)
    BY <1>12 DEF File!WriteFails
  <2>2. SubSeq(cells, 1, n) \in Seq(Nat)
    <3>1. Len(cells) \in Nat /\ n \in Int /\ 1 \in Int
      BY LenProperties
    <3>2. \A i \in 1 .. n : cells[i] \in Nat
      <4>1. \A i \in 1 .. n : i \in 1 .. Len(cells)
        BY <3>1
      <4> QED BY <4>1, ElementOfSeq
    <3> QED BY <3>1, <3>2, SubSeqProperties
  <2> QED BY <2>1, <2>2
<1>13. CASE File!CreateRecording
  <2>1. /\ fpc = "create" /\ idle /\ UNCHANGED <<rdLink, ifaceMap, blocks, block, pkt, fcount, file, kept, whole>>
        /\ \/ fpc' = "top" /\ wlink' = Recorded(rdLink)
           \/ fpc' = "returned" /\ wlink' = wlink
    BY <1>13 DEF File!CreateRecording, File!RecordedLink, Recorded, File!Close, File!playVars
  <2>2. wlink = "" /\ kept = <<>> /\ file = <<>> /\ whole = 0 /\ (format = "pcapng" => rdLink = Ethernet)
    BY <1>2, <2>1 DEF LinksOK
  <2>3. ReadingOK'
    BY <1>1, <2>1 DEF ReadingOK, Running, File!ClaimsFit
  <2>4. LinksOK'
    <3>1. Recorded(rdLink) # "" /\ (format = "pcapng" => Recorded(rdLink) = Ethernet)
      BY <1>2, <2>2, FileLinks DEF LinksOK
    <3> QED BY <1>2, <2>1, <2>2, <3>1 DEF LinksOK
  <2>5. RecordingOK'
    <3>1. \A i \in 1 .. Len(kept) : FALSE
      <4>1. Len(kept) = 0
        BY <2>2
      <4> QED BY <4>1
    <3> QED BY <1>3, <2>1, <3>1 DEF RecordingOK
  <2>6. Offsets(at, kept, file, whole)' /\ PlayedTo(at)'
    BY <1>3, <1>5, <1>7, <1>8, <2>1
  <2> QED BY <1>6, <2>1, <2>3, <2>4, <2>5, <2>6 DEF FileInv
<1>14. pkt.len \in Nat /\ pkt.fill \in Nat
  BY <1>1 DEF PacketType
<1>15. CASE File!WriteHeader
  <2> DEFINE head == <<pkt.len, pkt.len>>
  <2>1. /\ fpc = "ingest" /\ idle /\ UNCHANGED <<rdLink, ifaceMap, blocks, fcount, wlink, kept, whole>>
        /\ \/ fpc' = "write" /\ file' = file \o head /\ UNCHANGED <<pkt, block>>
           \/ File!Ingested /\ File!WriteFails(head)
    BY <1>15 DEF File!WriteHeader, File!RecordHeader, File!playVars
  <2>2. head \in Seq(Nat) /\ Len(head) = 2 /\ head[1] = pkt.len
    BY <1>14
  <2> HIDE DEF head
  <2>3. CASE fpc' = "write" /\ file' = file \o head /\ UNCHANGED <<pkt, block>>
    <3>1. ReadingOK'
      BY <1>1, <2>1, <2>3 DEF ReadingOK, Running, File!ClaimsFit
    <3>2. LinksOK'
      BY <1>2, <2>1, <2>3 DEF LinksOK
    <3>3. Len(file') = whole + 2 => file'[whole + 1] = pkt.len
      <4>1. Len(file \o head) = Len(file) + 2 /\ (file \o head)[Len(file) + 1] = head[1]
        <5>1. 1 \in 1 .. Len(head)
          BY <2>2
        <5>2. Len(file \o head) = Len(file) + Len(head)
          BY <1>3, <2>2, ConcatProperties
        <5> QED BY <1>3, <2>2, <5>1, <5>2, BehindThem
      <4>2. Len(file \o head) = whole + 2 => Len(file) = whole
        BY <1>3, <4>1
      <4> QED BY <2>2, <2>3, <4>1, <4>2
    <3> QED BY <1>9, <2>1, <2>2, <2>3, <3>1, <3>2, <3>3
  <2>4. CASE File!Ingested /\ File!WriteFails(head)
    <3>1. PICK some \in Seq(Nat) : file' = file \o some
      BY <1>12, <2>2, <2>4
    <3>2. ReadingOK' /\ LinksOK'
      BY <1>10, <1>11, <2>1, <2>4
    <3>3. fpc' # "write"
      BY <2>4 DEF File!Ingested
    <3> QED BY <1>9, <2>1, <3>1, <3>2, <3>3
  <2> QED BY <2>1, <2>3, <2>4
<1>16. CASE File!WriteData
  <2> DEFINE cells == [i \in 1 .. pkt.len |-> pkt.fill]
  <2>1. /\ fpc = "write" /\ File!Ingested /\ idle /\ UNCHANGED <<rdLink, ifaceMap, blocks, fcount, wlink>>
        /\ \/ /\ file' = file \o cells
              /\ IF Len(file) = whole + 2
                 THEN kept' = Append(kept, pkt) /\ whole' = Len(file')
                 ELSE UNCHANGED <<kept, whole>>
           \/ File!WriteFails(cells) /\ UNCHANGED <<kept, whole>>
    BY <1>16 DEF File!WriteData, File!RecordCells, File!HeaderCells, File!playVars
  <2>2. cells \in Seq(Nat) /\ Len(cells) = pkt.len /\ \A j \in 1 .. pkt.len : cells[j] = pkt.fill
    BY <1>14
  <2> HIDE DEF cells
  <2>3. ReadingOK' /\ LinksOK' /\ fpc' # "write"
    <3>1. ReadingOK'
      BY <1>10, <2>1
    <3>2. wlink # "" /\ LinksOK'
      BY <1>2, <1>11, <2>1 DEF LinksOK
    <3> QED BY <2>1, <3>1, <3>2 DEF File!Ingested
  <2>4. CASE /\ file' = file \o cells /\ Len(file) = whole + 2
             /\ kept' = Append(kept, pkt) /\ whole' = Len(file')
    <3> DEFINE end == whole + 2 + pkt.len
    <3>1. Len(file \o cells) = end /\ file \o cells \in Seq(Nat) /\ end \in Nat
      <4>1. file \o cells \in Seq(Nat) /\ Len(file \o cells) = Len(file) + Len(cells)
        BY <1>3, <2>2, ConcatProperties
      <4>2. Len(file) + Len(cells) = end /\ end \in Nat
        BY <1>3, <1>14, <2>2, <2>4
      <4> QED BY <4>1, <4>2
    <3>2. kept' = Append(kept, pkt) /\ whole' = end /\ file' = file \o cells
      BY <2>4, <3>1
    <3>3. PICK at2 : Offsets(at2, Append(kept, pkt), file \o cells, end)
      <4>1. Offsets(Append(at, end), Append(kept, pkt), file \o cells, end)
        BY <1>1, <1>3, <1>5, <2>1, <2>2, <2>4, OffsetsGrow
      <4> QED BY <4>1
    <3>4. at2 \in Seq(Nat) /\ at2[1] = 0
      BY <3>3 DEF Offsets
    <3>5. /\ Append(kept, pkt) \in Seq(PacketType) /\ Len(Append(kept, pkt)) = Len(kept) + 1
          /\ Append(kept, pkt)[Len(kept) + 1] = pkt
          /\ \A i \in 1 .. Len(kept) : Append(kept, pkt)[i] = kept[i]
      BY <1>1, <1>3, AppendProperties
    <3> HIDE DEF end
    <3>6. ASSUME NEW i \in 1 .. Len(kept')
          PROVE  kept'[i].len <= MaxData /\ (format = "classic" => wlink = Recorded(kept'[i].link))
      <4>1. i \in 1 .. Len(kept) \/ i = Len(kept) + 1
        BY <1>3, <3>2, <3>5
      <4>2. CASE i \in 1 .. Len(kept)
        BY <1>3, <3>2, <3>5, <4>2
      <4>3. CASE i = Len(kept) + 1
        <5>1. kept'[i] = pkt
          BY <3>2, <3>5, <4>3
        <5> QED BY <1>1, <1>2, <2>1, <5>1 DEF LinksOK
      <4> QED BY <4>1, <4>2, <4>3
    <3>7. RecordingOK'
      <4>1. file' \in Seq(Nat) /\ kept' \in Seq(PacketType) /\ whole' \in Nat /\ whole' <= Len(file')
        BY <3>1, <3>2, <3>5
      <4> QED BY <2>1, <2>3, <3>6, <4>1 DEF RecordingOK
    <3>8. Len(kept') \in Nat
      BY <1>3, <3>2, <3>5
    <3>9. Offsets(at2, kept, file, whole)'
      <4>1. Offsets(at2, kept', file', whole')
        BY <3>2, <3>3, Zenon
      <4> QED BY <4>1
    <3>10. PlayedTo(at2)'
      BY <1>7, <2>1, <3>4, <3>8
    <3>11. PlaybackOK'
      BY <1>6, <2>1
    <3> QED BY <2>3, <3>4, <3>7, <3>9, <3>10, <3>11, Zenon DEF FileInv
  <2>5. CASE file' = file \o cells /\ UNCHANGED <<kept, whole>>
    BY <1>9, <2>1, <2>2, <2>3, <2>5
  <2>6. CASE File!WriteFails(cells) /\ UNCHANGED <<kept, whole>>
    <3>1. PICK some \in Seq(Nat) : file' = file \o some
      BY <1>12, <2>2, <2>6
    <3> QED BY <1>9, <2>1, <2>3, <2>6, <3>1
  <2> QED BY <2>1, <2>4, <2>5, <2>6
<1> QED BY <1>13, <1>15, <1>16 DEF File!WriteStep

LEMMA CrashInv ==
    ASSUME FileInv, File!Crash
    PROVE  FileInv'
<1>1. /\ fpc \notin {"returned", "panic", "crashed"} /\ fpc' = "crashed"
      /\ UNCHANGED <<format, rdLink, ifaceMap, blocks, block, pkt, fcount>>
      /\ UNCHANGED <<wlink, file, kept, whole, format, ppc, ppos, plen, back, pend>>
  BY DEF File!Crash, File!readVars, File!writeVars, File!playVars
<1>2. ReadingOK' /\ Running
  BY <1>1 DEF FileInv, ReadingOK, Running, File!ClaimsFit
<1>3. LinksOK'
  BY <1>1 DEF FileInv, LinksOK
<1> QED BY <1>1, <1>2, <1>3, RecordingSame DEF FileInv

\* The record of a packet that was recorded, where playback looks for it.
LEMMA RecordAt ==
    ASSUME RecordingOK, NEW at, Offsets(at, kept, file, whole), NEW b \in Nat, b < Len(kept)
    PROVE  /\ at[b + 1] \in Nat /\ at[b + 2] \in Nat /\ kept[b + 1].len \in Nat
           /\ kept[b + 1].len <= MaxData
           /\ at[b + 2] = at[b + 1] + 2 + kept[b + 1].len /\ at[b + 2] <= Len(file)
           /\ file[at[b + 1] + 1] = kept[b + 1].len
           /\ \A j \in 1 .. kept[b + 1].len : file[at[b + 1] + 2 + j] = kept[b + 1].fill
<1>1. /\ file \in Seq(Nat) /\ kept \in Seq(PacketType)
      /\ whole \in Nat /\ whole <= Len(file)
      /\ Len(file) \in Nat /\ Len(kept) \in Nat
  BY LenProperties DEF RecordingOK
<1>2. b + 1 \in 1 .. Len(kept) /\ b + 1 + 1 = b + 2
  BY <1>1
<1>3. /\ at[b + 1 + 1] = at[b + 1] + 2 + kept[b + 1].len /\ at[b + 1 + 1] <= whole
      /\ file[at[b + 1] + 1] = kept[b + 1].len
      /\ \A j \in 1 .. kept[b + 1].len : file[at[b + 1] + 2 + j] = kept[b + 1].fill
  BY <1>2 DEF Offsets
<1>4. at \in Seq(Nat) /\ Len(at) = Len(kept) + 1
  BY DEF Offsets
<1>5. at[b + 1] \in Nat /\ at[b + 2] \in Nat
  <2>1. b + 1 \in 1 .. Len(at) /\ b + 2 \in 1 .. Len(at)
    BY <1>1, <1>4
  <2> QED BY <1>4, <2>1, ElementOfSeq
<1>6. kept[b + 1].len \in Nat
  <2>1. kept[b + 1] \in PacketType
    BY <1>1, <1>2, ElementOfSeq
  <2> QED BY <2>1 DEF PacketType
<1>7. kept[b + 1].len <= MaxData
  BY <1>2 DEF RecordingOK
<1>8. at[b + 2] = at[b + 1] + 2 + kept[b + 1].len /\ at[b + 2] <= whole
  BY <1>2, <1>3
<1>9. at[b + 2] <= Len(file)
  BY <1>1, <1>5, <1>8
<1> QED BY <1>3, <1>5, <1>6, <1>7, <1>8, <1>9

\* As many cells as are read from within the recording.
LEMMA CellsRead ==
    ASSUME file \in Seq(Nat), NEW pos \in Nat, NEW n \in Nat, pos + n <= Len(file)
    PROVE  /\ SubSeq(file, pos + 1, pos + n) \in Seq(Nat)
           /\ Len(SubSeq(file, pos + 1, pos + n)) = n
           /\ \A j \in 1 .. n : SubSeq(file, pos + 1, pos + n)[j] = file[pos + j]
<1>1. Len(file) \in Nat /\ pos + 1 \in Int /\ pos + n \in Int
  BY LenProperties
<1>2. \A i \in pos + 1 .. pos + n : file[i] \in Nat
  <2>1. \A i \in pos + 1 .. pos + n : i \in 1 .. Len(file)
    BY <1>1
  <2> QED BY <2>1, ElementOfSeq
<1> DEFINE data == SubSeq(file, pos + 1, pos + n)
<1>3. /\ data \in Seq(Nat)
      /\ Len(data) = IF pos + 1 <= pos + n THEN pos + n - (pos + 1) + 1 ELSE 0
      /\ \A i \in 1 .. pos + n - (pos + 1) + 1 : data[i] = file[pos + 1 + i - 1]
  BY <1>1, <1>2, SubSeqProperties
<1> HIDE DEF data
<1>4. Len(data) = n
  BY <1>3
<1>5. ASSUME NEW j \in 1 .. n PROVE data[j] = file[pos + j]
  <2>1. j \in 1 .. pos + n - (pos + 1) + 1 /\ pos + 1 + j - 1 = pos + j
    OBVIOUS
  <2> QED BY <1>3, <2>1
<1> QED BY <1>3, <1>4, <1>5 DEF data

\* A step of playback returns the next packet that was recorded, and ends behind the
\* last one only.
LEMMA PlayStepInv ==
    ASSUME FileInv, File!PlayStep
    PROVE  FileInv'
<1>0. ppc \in {"header", "data"} => wlink # ""
  BY DEF FileInv, PlaybackOK
<1>1. /\ file \in Seq(Nat) /\ kept \in Seq(PacketType) /\ whole \in Nat /\ whole <= Len(file)
      /\ Len(file) \in Nat /\ Len(kept) \in Nat /\ RecordingOK
  BY LenProperties DEF FileInv, RecordingOK
<1>2. PICK at \in Seq(Nat) : Offsets(at, kept, file, whole) /\ PlayedTo(at)
  BY DEF FileInv
<1> DEFINE b == Len(back)
<1>3. /\ ppos \in Nat /\ plen \in Nat /\ back \in Seq([link : {wlink}, data : Seq(Nat)]) /\ b \in Nat
  BY LenProperties DEF FileInv, PlaybackOK
<1> DEFINE same == UNCHANGED <<fpc, format, blocks, fcount, wlink, file, kept, whole>>
<1>4. ~Running
  <2>1. ppc # "idle" => ~Running
    BY DEF FileInv, PlaybackOK
  <2>2. fpc \in {"returned", "panic", "crashed"} \/ ppc # "idle"
    BY DEF File!PlayStep, File!Play, File!PlayHeader, File!PlayData
  <2> QED BY <2>1, <2>2 DEF Running
<1>5. at[1] = 0 /\ at[Len(kept) + 1] = whole
  BY <1>2 DEF Offsets
\* What is read and what is recorded are not touched.
<1>6. ASSUME same, ReadingOK', LinksOK', PlaybackOK', PlayedTo(at)'
      PROVE  FileInv'
  <2>1. RecordingOK'
    BY <1>4, <1>6 DEF FileInv, RecordingOK, Running
  <2>2. Offsets(at, kept, file, whole)'
    BY <1>2, <1>6
  <2> QED BY <1>2, <1>6, <2>1, <2>2, Zenon DEF FileInv
<1>7. ASSUME same, UNCHANGED <<rdLink, ifaceMap, block, pkt>>
      PROVE  ReadingOK' /\ LinksOK'
  BY <1>7 DEF FileInv, ReadingOK, LinksOK, Running, File!ClaimsFit
<1>8. CASE File!Play
  <2>1. /\ ppc = "idle" /\ same /\ UNCHANGED <<ppos, plen, back>>
        /\ rdLink' = Ethernet /\ ifaceMap' = <<>> /\ block' = File!NoBlock /\ pkt' = File!NoPacket
        /\ \/ wlink = "" /\ ppc' = "end" /\ pend' = "error"
           \/ wlink # "" /\ ppc' = "header"
    BY <1>8 DEF File!Play
  <2>2. ReadingOK'
    BY <1>4, <2>1, NothingInHand DEF FileInv, ReadingOK, Running, File!ClaimsFit
  <2>3. LinksOK'
    <3>1. /\ rdLink' \in File!Links /\ ifaceMap' \in Seq(File!Links)
          /\ block'.type = "none" /\ format \in {"classic", "pcapng"}
      <4>1. <<>> \in Seq(File!Links)
        OBVIOUS
      <4>2. rdLink' \in File!Links /\ ifaceMap' \in Seq(File!Links)
        BY <2>1, <4>1, FileLinks
      <4>3. block'.type = "none"
        BY <2>1, NothingInHand
      <4>4. format \in {"classic", "pcapng"}
        BY DEF FileInv, LinksOK
      <4> QED BY <4>2, <4>3, <4>4
    <3>2. fpc' \notin {"open", "create", "top", "next", "block", "ingest", "write"}
      BY <1>4, <2>1 DEF Running
    <3>3. /\ wlink = "" => file = <<>> /\ kept = <<>> /\ whole = 0
          /\ wlink # "" /\ format = "pcapng" => wlink = Ethernet
      BY DEF FileInv, LinksOK
    <3> QED BY <2>1, <3>1, <3>2, <3>3 DEF LinksOK
  <2>4. PlaybackOK'
    BY <1>4, <2>1 DEF FileInv, PlaybackOK, Running
  <2>5. ppos = 0 /\ back = <<>> /\ (wlink = "" => kept = <<>>)
    BY <2>1 DEF FileInv, PlaybackOK, LinksOK
  <2>6. /\ b = 0 /\ b + 1 = 1 /\ (\A i \in 1 .. b : FALSE) /\ b <= Len(kept)
        /\ (wlink = "" => b >= Len(kept))
    <3>1. b = 0 /\ (wlink = "" => Len(kept) = 0)
      BY <2>5
    <3> HIDE DEF b
    <3>2. b <= Len(kept) /\ (Len(kept) = 0 => b >= Len(kept)) /\ b + 1 = 1 /\ \A i \in 1 .. b : FALSE
      <4>1. b = 0 /\ Len(kept) \in Nat
        BY <1>1, <3>1
      <4> QED BY <4>1
    <3> QED BY <3>1, <3>2, Zenon
  <2>7. PlayedTo(at)'
    BY <1>5, <2>1, <2>5, <2>6 DEF PlayedTo
  <2> QED BY <1>6, <2>1, <2>2, <2>3, <2>4, <2>7
<1>9. CASE File!PlayHeader
  <2> DEFINE r == File!ReadFull(2, Len(file) - ppos)
  <2>1. /\ ppc = "header" /\ same /\ UNCHANGED <<rdLink, ifaceMap, block, pkt, back>>
        /\ \/ r # "ok" /\ ppc' = "end" /\ pend' = r
           \/ r = "ok" /\ file[ppos + 1] > MaxData /\ ppc' = "end" /\ pend' = "error"
           \/ r = "ok" /\ ppc' = "data" /\ ~(file[ppos + 1] > MaxData)
        /\ IF ppc' = "end" THEN UNCHANGED <<ppos, plen>>
                           ELSE plen' = file[ppos + 1] /\ ppos' = ppos + 2
    BY <1>9 DEF File!PlayHeader, File!PlayEnds, File!Unread, File!HeaderCells, File!readVars, File!writeVars
  <2>2. r = "ok" <=> Len(file) - ppos >= 2
    BY <1>1, <1>3 DEF File!ReadFull
  <2>3. Len(file) - ppos = 0 => r = "eof"
    BY DEF File!ReadFull
  <2> HIDE DEF r
  <2>4. ppos' \in Nat /\ plen' \in Nat
    <3>1. CASE ppc' = "end"
      BY <1>3, <2>1, <3>1
    <3>2. CASE r = "ok" /\ ppc' = "data"
      <4>1. ppos + 1 \in 1 .. Len(file) /\ ppos + 2 \in Nat
        BY <1>1, <1>3, <2>2, <3>2
      <4>2. file[ppos + 1] \in Nat
        BY <1>1, <4>1, ElementOfSeq
      <4> QED BY <2>1, <3>2, <4>1, <4>2
    <3> QED BY <2>1, <3>1, <3>2
  <2>5. PlaybackOK'
    <3>1. ppc' \in {"idle", "header", "data", "end"} /\ ppc' # "idle"
      BY <2>1
    <3> QED BY <1>0, <1>3, <1>4, <2>1, <2>4, <3>1 DEF PlaybackOK, Running
  <2>6. \A i \in 1 .. b : i <= Len(kept) => back[i] = Replayed(i)
    BY <1>2 DEF PlayedTo
  <2>7. CASE b < Len(kept)
    <3>1. /\ at[b + 1] \in Nat /\ at[b + 2] \in Nat /\ kept[b + 1].len \in Nat
          /\ kept[b + 1].len <= MaxData
          /\ at[b + 2] = at[b + 1] + 2 + kept[b + 1].len /\ at[b + 2] <= Len(file)
          /\ file[at[b + 1] + 1] = kept[b + 1].len
      BY <1>1, <1>2, <1>3, <2>7, RecordAt
    <3>2. b <= Len(kept)
      BY <1>1, <1>3, <2>7
    <3>3. ppos = at[b + 1]
      BY <1>2, <2>1, <3>2 DEF PlayedTo
    <3>4. Len(file) - ppos >= 2 /\ ~(file[ppos + 1] > MaxData)
      <4>1. file[ppos + 1] = kept[b + 1].len
        BY <3>1, <3>3
      <4>2. ~(kept[b + 1].len > MaxData)
        <5> DEFINE l == kept[b + 1].len
        <5>1. l \in Nat /\ l <= MaxData /\ MaxData \in Nat
          BY <3>1, FileNumbers
        <5> HIDE DEF l
        <5>2. ~(l > MaxData)
          BY <5>1
        <5> QED BY <5>2 DEF l
      <4>3. Len(file) - ppos >= 2
        <5> DEFINE a == at[b + 1]
                   l == kept[b + 1].len
                   cells == Len(file)
        <5>1. a \in Nat /\ l \in Nat /\ cells \in Nat /\ ppos = a /\ at[b + 2] = a + 2 + l /\ at[b + 2] <= cells
          BY <1>1, <3>1, <3>3, Zenon
        <5>2. a + 2 + l <= cells
          BY <5>1, Zenon
        <5> HIDE DEF a, l, cells
        <5>3. cells - a >= 2
          BY <5>1, <5>2
        <5> QED BY <5>1, <5>3 DEF cells
      <4> QED BY <4>1, <4>2, <4>3
    <3>5. ppc' = "data" /\ plen' = kept[b + 1].len /\ ppos' = at[b + 1] + 2
      BY <2>1, <2>2, <3>1, <3>3, <3>4
    <3>6. PlayedTo(at)'
      BY <2>1, <2>6, <2>7, <3>2, <3>5 DEF PlayedTo, Replayed
    <3> QED BY <1>6, <1>7, <2>1, <2>5, <3>6
  <2>8. CASE b = Len(kept)
    <3>1. ppos = whole /\ b <= Len(kept) /\ b >= Len(kept) /\ ~(b < Len(kept))
      <4>1. b <= Len(kept) /\ b >= Len(kept) /\ ~(b < Len(kept))
        BY <1>1, <2>8
      <4> QED BY <1>2, <1>5, <2>1, <2>8, <4>1 DEF PlayedTo
    <3>2. Len(file) = whole => r = "eof"
      <4>1. Len(file) = whole => Len(file) - ppos = 0
        BY <1>1, <3>1
      <4> QED BY <2>3, <4>1
    <3>3. Len(file) = whole => ppc' = "end" /\ pend' = "eof" /\ wlink # ""
      BY <1>0, <2>1, <3>2
    <3>4. ppc' \in {"data", "end"}
      BY <2>1
    <3>5. PlayedTo(at)'
      BY <2>1, <2>6, <3>1, <3>3, <3>4 DEF PlayedTo, Replayed
    <3> QED BY <1>6, <1>7, <2>1, <2>5, <3>5
  <2>9. CASE b > Len(kept)
    <3>1. ~(b <= Len(kept)) /\ b >= Len(kept) /\ ~(b < Len(kept))
      BY <1>1, <1>3, <2>9
    <3>2. Len(file) # whole
      BY <1>2, <3>1 DEF PlayedTo
    <3>3. PlayedTo(at)'
      BY <2>1, <2>6, <3>1, <3>2 DEF PlayedTo, Replayed
    <3> QED BY <1>6, <1>7, <2>1, <2>5, <3>3
  <2> QED BY <1>1, <1>3, <2>7, <2>8, <2>9
<1>10. CASE File!PlayData
  <2> DEFINE r == File!ReadFull(plen, Len(file) - ppos)
             data == SubSeq(file, ppos + 1, ppos + plen)
             packet == [link |-> wlink, data |-> data]
  <2>1. /\ ppc = "data" /\ same /\ UNCHANGED <<rdLink, ifaceMap, block, pkt, plen>>
        /\ \/ r # "ok" /\ ppc' = "end" /\ UNCHANGED <<ppos, back>>
           \/ r = "ok" /\ ppc' = "header" /\ ppos' = ppos + plen /\ back' = Append(back, packet)
    BY <1>10 DEF File!PlayData, File!PlayEnds, File!Unread, File!readVars, File!writeVars
  <2>2. r = "ok" <=> ppos + plen <= Len(file)
    BY <1>1, <1>3 DEF File!ReadFull
  <2> HIDE DEF r
  <2>3. r = "ok" => /\ data \in Seq(Nat) /\ Len(data) = plen
                    /\ \A j \in 1 .. plen : data[j] = file[ppos + j]
    BY <1>1, <1>3, <2>2, CellsRead
  <2> HIDE DEF data
  <2>4. r = "ok" => packet \in [link : {wlink}, data : Seq(Nat)]
    BY <2>3
  <2> HIDE DEF packet
  <2>5. r = "ok" => /\ Append(back, packet) \in Seq([link : {wlink}, data : Seq(Nat)])
                    /\ Len(Append(back, packet)) = b + 1
                    /\ Append(back, packet)[b + 1] = packet
                    /\ \A i \in 1 .. b : Append(back, packet)[i] = back[i]
    BY <1>3, <2>4, AppendProperties
  <2>6. PlaybackOK'
    <3>1. ppc' \in {"idle", "header", "data", "end"} /\ ppc' # "idle"
      BY <2>1
    <3>2. ppos' \in Nat
      BY <1>3, <2>1
    <3>3. back' \in Seq([link : {wlink'}, data : Seq(Nat)])
      BY <1>3, <2>1, <2>5
    <3> QED BY <1>0, <1>3, <1>4, <2>1, <3>1, <3>2, <3>3 DEF PlaybackOK, Running
  <2>7. \A i \in 1 .. b : i <= Len(kept) => back[i] = Replayed(i)
    BY <1>2 DEF PlayedTo
  <2>8. CASE b < Len(kept)
    <3>1. /\ at[b + 1] \in Nat /\ at[b + 2] \in Nat /\ kept[b + 1].len \in Nat
          /\ at[b + 2] = at[b + 1] + 2 + kept[b + 1].len /\ at[b + 2] <= Len(file)
          /\ \A j \in 1 .. kept[b + 1].len : file[at[b + 1] + 2 + j] = kept[b + 1].fill
      BY <1>1, <1>2, <1>3, <2>8, RecordAt
    <3>2. ppos = at[b + 1] + 2 /\ plen = kept[b + 1].len
      BY <1>2, <2>1, <2>8 DEF PlayedTo
    <3>3. ppos + plen <= Len(file) /\ ppos + plen = at[b + 2]
      BY <3>1, <3>2
    <3>4. r = "ok" /\ ppc' = "header" /\ ppos' = at[b + 2] /\ back' = Append(back, packet)
      BY <2>1, <2>2, <3>3
    <3> DEFINE wanted == [j \in 1 .. kept[b + 1].len |-> kept[b + 1].fill]
    <3>5. data = wanted
      <4>1. kept[b + 1].fill \in Nat
        <5>1. b + 1 \in 1 .. Len(kept)
          BY <1>1, <1>3, <2>8
        <5>2. kept[b + 1] \in PacketType
          BY <1>1, <5>1, ElementOfSeq
        <5> QED BY <5>2 DEF PacketType
      <4>2. /\ wanted \in Seq(Nat) /\ Len(wanted) = plen
            /\ \A j \in 1 .. plen : wanted[j] = kept[b + 1].fill
        <5> DEFINE fill == kept[b + 1].fill
        <5>1. /\ fill \in Nat /\ plen \in Nat /\ wanted = [j \in 1 .. plen |-> fill]
          BY <1>3, <3>2, <4>1
        <5> HIDE DEF fill, wanted
        <5>2. wanted \in Seq(Nat) /\ Len(wanted) = plen /\ \A j \in 1 .. plen : wanted[j] = fill
          BY <5>1
        <5> QED BY <5>2 DEF fill
      <4> HIDE DEF wanted
      <4>3. \A j \in 1 .. plen : data[j] = kept[b + 1].fill
        BY <2>3, <3>1, <3>2, <3>4
      <4> QED BY <2>3, <3>4, <4>2, <4>3, SeqEqual
    <3>6. packet = Replayed(b + 1)
      BY <3>5, Zenon DEF packet, Replayed
    <3> HIDE DEF wanted
    <3>7. Len(back') = b + 1 /\ b + 1 + 1 = b + 2 /\ b + 1 <= Len(kept)
      BY <1>1, <1>3, <2>5, <2>8, <3>4
    <3>8. ASSUME NEW i \in 1 .. b + 1, i <= Len(kept) PROVE back'[i] = Replayed(i)
      <4>1. i \in 1 .. b \/ i = b + 1
        BY <1>3
      <4> QED BY <2>5, <2>7, <3>4, <3>6, <3>8, <4>1
    <3>9. PlayedTo(at)'
      BY <2>1, <3>4, <3>7, <3>8 DEF PlayedTo, Replayed
    <3> QED BY <1>6, <1>7, <2>1, <2>6, <3>9
  <2>9. CASE ~(b < Len(kept))
    <3>1. Len(file) # whole
      BY <1>2, <2>1, <2>9 DEF PlayedTo
    <3>2. b >= Len(kept) /\ b + 1 >= Len(kept) /\ ~(b + 1 <= Len(kept))
      BY <1>1, <1>3, <2>9
    <3>3. ASSUME ppc' = "end", UNCHANGED back PROVE PlayedTo(at)'
      <4>1. ppc' \notin {"idle", "header"} /\ ppc' # "data" /\ UNCHANGED <<wlink, file, kept, whole, back>>
        BY <2>1, <3>3
      <4>2. \A i \in 1 .. Len(back') : i <= Len(kept') => back'[i] = Replayed(i)'
        BY <2>7, <4>1 DEF Replayed
      <4>3. Len(back') >= Len(kept') /\ ~((Len(file) = whole)')
        BY <3>1, <3>2, <4>1
      <4> QED BY <4>1, <4>2, <4>3, Zenon DEF PlayedTo
    <3>4. ASSUME r = "ok", ppc' = "header", back' = Append(back, packet) PROVE PlayedTo(at)'
      <4>1. Len(back') = b + 1
        BY <2>5, <3>4
      <4>2. ASSUME NEW i \in 1 .. b + 1, i <= Len(kept) PROVE back'[i] = Replayed(i)
        <5>1. i \in 1 .. b
          BY <1>1, <1>3, <2>9, <4>2
        <5> QED BY <2>5, <2>7, <3>4, <4>2, <5>1
      <4>3. ppc' # "data" /\ ppc' # "end" /\ UNCHANGED <<wlink, file, kept, whole>>
        BY <2>1, <3>4
      <4>4. \A i \in 1 .. Len(back') : i <= Len(kept') => back'[i] = Replayed(i)'
        BY <4>1, <4>2, <4>3 DEF Replayed
      <4>5. ~(Len(back') <= Len(kept')) /\ ~(Len(back') < Len(kept')) /\ ~((Len(file) = whole)')
        BY <3>1, <3>2, <4>1, <4>3
      <4> QED BY <4>3, <4>4, <4>5, Zenon DEF PlayedTo
    <3> QED BY <1>6, <1>7, <2>1, <2>6, <3>3, <3>4
  <2> QED BY <2>8, <2>9
<1> QED BY <1>8, <1>9, <1>10 DEF File!PlayStep

LEMMA FileStep ==
    ASSUME FileInv, File!FileNext
    PROVE  FileInv'
BY ReadStepInv, WriteStepInv, CrashInv, PlayStepInv DEF File!FileNext

LEMMA FileStutter == FileInv /\ UNCHANGED fileState => FileInv'
<1> SUFFICES ASSUME FileInv, UNCHANGED fileState PROVE FileInv'
  OBVIOUS
<1>1. ReadingOK' /\ LinksOK' /\ RecordingOK' /\ PlaybackOK'
  <2>1. ReadingOK'
    BY DEF FileInv, ReadingOK, Running, fileState, File!ClaimsFit
  <2>2. LinksOK'
    BY DEF FileInv, LinksOK, fileState
  <2>3. RecordingOK'
    BY DEF FileInv, RecordingOK, fileState
  <2>4. PlaybackOK'
    BY DEF FileInv, PlaybackOK, Running, fileState
  <2> QED BY <2>1, <2>2, <2>3, <2>4
<1>2. \A at : PlayedTo(at)' <=> PlayedTo(at)
  BY DEF PlayedTo, Replayed, fileState
<1>3. (\E at \in Seq(Nat) : Offsets(at, kept, file, whole) /\ PlayedTo(at))'
  BY <1>2 DEF FileInv, fileState
<1> QED BY <1>1, <1>3 DEF FileInv

LEMMA FilePlayback == FileInv => File!RecordingReadsBack
<1> SUFFICES ASSUME FileInv PROVE File!RecordingReadsBack
  OBVIOUS
<1>1. PICK at \in Seq(Nat) : PlayedTo(at)
  BY DEF FileInv
<1>2. /\ kept \in Seq(PacketType) /\ back \in Seq([link : {wlink}, data : Seq(Nat)])
      /\ Len(kept) \in Nat /\ Len(back) \in Nat
  BY LenProperties DEF FileInv, RecordingOK, PlaybackOK
<1>3. ASSUME NEW i \in DOMAIN back \cap DOMAIN kept
      PROVE  /\ back[i].data = [j \in 1 .. kept[i].len |-> kept[i].fill]
             /\ \/ back[i].link = kept[i].link
                \/ kept[i].link = NullLink /\ back[i].link = Ethernet
                \/ format = "pcapng" /\ wlink = Ethernet
  <2>1. i \in 1 .. Len(back) /\ i \in 1 .. Len(kept) /\ i <= Len(kept)
    BY <1>2
  <2>2. back[i] = Replayed(i)
    BY <1>1, <2>1 DEF PlayedTo
  <2>3. format = "classic" => wlink = Recorded(kept[i].link)
    BY <2>1 DEF FileInv, RecordingOK
  <2>4. wlink # ""
    <3>1. kept # <<>>
      <4>1. Len(<<>>) = 0
        OBVIOUS
      <4> QED BY <1>2, <2>1, <4>1
    <3> QED BY <3>1 DEF FileInv, LinksOK
  <2>5. \/ format = "classic"
        \/ format = "pcapng" /\ wlink = Ethernet
    <3>1. /\ format \in {"classic", "pcapng"}
          /\ wlink # "" /\ format = "pcapng" => wlink = Ethernet
      BY DEF FileInv, LinksOK
    <3> QED BY <2>4, <3>1
  <2> QED BY <2>2, <2>3, <2>5 DEF Replayed, Recorded
<1> DEFINE Ending == IF wlink = "" THEN "error" ELSE "eof"
<1>4. ppc = "end" => /\ Len(back) >= Len(kept)
                     /\ Len(file) = whole => Len(back) = Len(kept) /\ pend = Ending
  <2> SUFFICES ASSUME ppc = "end"
               PROVE  /\ Len(back) >= Len(kept)
                      /\ Len(file) = whole => Len(back) = Len(kept) /\ pend = Ending
    OBVIOUS
  <2>1. /\ Len(back) >= Len(kept)
        /\ Len(file) = whole => Len(back) <= Len(kept) /\ pend = Ending
    BY <1>1 DEF PlayedTo
  <2>2. Len(back) >= Len(kept) /\ Len(back) <= Len(kept) => Len(back) = Len(kept)
    BY <1>2
  <2> QED BY <2>1, <2>2, Zenon
<1> QED BY <1>3, <1>4, Zenon DEF File!RecordingReadsBack

LEMMA FileClaims == FileInv => File!ClaimsFit
BY DEF FileInv, ReadingOK

-----------------------------------------------------------------------------
(* The engine's source.                                                    *)

\* Before openSource all of the sources are as they begin.
SourcesInv ==
    /\ source \in {"", "stdin", "kernel", "tcpdump", "file"}
    /\ config \in {"stdin", "kernel", "tcpdump", "file"}
    /\ TapInv /\ LiveInv /\ FileInv
    /\ source = "" => Tap!TapInit /\ Live!LiveInit /\ File!FileInit

LEMMA SourcesStep == SourcesInv /\ [SourcesNext]_sourcesVars => SourcesInv'
<1> SUFFICES ASSUME SourcesInv, [SourcesNext]_sourcesVars PROVE SourcesInv'
  OBVIOUS
<1>1. CASE OpenSource
  <2>1. UNCHANGED tapState /\ UNCHANGED liveState /\ UNCHANGED fileState
    BY <1>1 DEF OpenSource
  <2>2. TapInv' /\ LiveInv' /\ FileInv'
    BY <2>1, TapStutter, LiveStutter, FileStutter DEF SourcesInv
  <2>3. source' \in {"stdin", "kernel", "tcpdump", "file"} /\ config' = config
    BY <1>1 DEF OpenSource, SourcesInv
  <2> QED BY <2>2, <2>3 DEF SourcesInv
<1>2. CASE InTap(Tap!TapNext)
  <2>1. /\ source = "kernel" /\ source' = source /\ config' = config
        /\ Tap!TapNext /\ UNCHANGED liveState /\ UNCHANGED fileState
    BY <1>2 DEF InTap
  <2>2. TapInv' /\ LiveInv' /\ FileInv'
    BY <2>1, TapStep, LiveStutter, FileStutter DEF SourcesInv
  <2> QED BY <2>1, <2>2 DEF SourcesInv
<1>3. CASE InLive(Live!LiveNext)
  <2>1. /\ source \in {"stdin", "tcpdump"} /\ source' = source /\ config' = config
        /\ Live!LiveNext /\ UNCHANGED tapState /\ UNCHANGED fileState
    BY <1>3 DEF InLive
  <2>2. TapInv' /\ LiveInv' /\ FileInv'
    BY <2>1, TapStutter, LiveStep, FileStutter DEF SourcesInv
  <2> QED BY <2>1, <2>2 DEF SourcesInv
<1>4. CASE InFile(File!FileNext)
  <2>1. /\ source = "file" /\ source' = source /\ config' = config
        /\ File!FileNext /\ UNCHANGED tapState /\ UNCHANGED liveState
    BY <1>4 DEF InFile
  <2>2. TapInv' /\ LiveInv' /\ FileInv'
    BY <2>1, TapStutter, LiveStutter, FileStep DEF SourcesInv
  <2> QED BY <2>1, <2>2 DEF SourcesInv
<1>5. CASE UNCHANGED sourcesVars
  <2>1. UNCHANGED tapState /\ UNCHANGED liveState /\ UNCHANGED fileState /\ UNCHANGED <<config, source>>
    BY <1>5 DEF sourcesVars
  <2>2. TapInv' /\ LiveInv' /\ FileInv'
    BY <2>1, TapStutter, LiveStutter, FileStutter DEF SourcesInv
  <2>3. source = "" => (Tap!TapInit /\ Live!LiveInit /\ File!FileInit)'
    BY <2>1 DEF SourcesInv, tapState, liveState, fileState, Tap!TapInit, Live!LiveInit, File!FileInit
  <2> QED BY <2>1, <2>2, <2>3 DEF SourcesInv
<1> QED BY <1>1, <1>2, <1>3, <1>4, <1>5 DEF SourcesNext

\* Whichever source the engine opens, each keeps its invariant (engine.go:182-212).
THEOREM SourcesInvariance == SourcesSpec => []SourcesInv
<1>1. SourcesInit => SourcesInv
  <2> SUFFICES ASSUME SourcesInit PROVE SourcesInv
    OBVIOUS
  <2>1. /\ Tap!TapInit /\ Live!LiveInit /\ File!FileInit
        /\ source = "" /\ config \in {"stdin", "kernel", "tcpdump", "file"}
    BY DEF SourcesInit
  <2>2. TapInv /\ LiveInv /\ FileInv
    BY <2>1, TapInitInv, LiveInitInv, FileInitInv
  <2> QED BY <2>1, <2>2 DEF SourcesInv
<1> QED BY <1>1, SourcesStep, PTL DEF SourcesSpec

\* Of tcpdump's records all that were read are returned, and at the end of a capture
\* some are left unread only because cmd.Wait closed the pipe with them in it, or the
\* reader refused one of standard input (live.go:130-135, reader.go:176-178, 209-243).
THEOREM SourcesLostOnlyByWait == SourcesSpec => []LostOnlyByWait
<1>1. SourcesInv => LostOnlyByWait
  BY LiveLoss DEF SourcesInv, LostOnlyByWait
<1> QED BY <1>1, SourcesInvariance, PTL

\* What was recorded of a file can be read again up to the first record that was
\* left half written, whatever writes fail and wherever the process is killed
\* (engine.go:215-228, writer.go:25-63, reader.go:51-72, 167-198).
THEOREM SourcesRecordingReadsBack == SourcesSpec => []RecordingReadsBack
<1>1. SourcesInv => RecordingReadsBack
  BY FilePlayback DEF SourcesInv, RecordingReadsBack
<1> QED BY <1>1, SourcesInvariance, PTL

\* The reader returns no byte that is not in its block, and panics only for a claim
\* that wraps (reader.go:241-245).
THEOREM SourcesClaimsFit == SourcesSpec => []ClaimsFit
<1>1. SourcesInv => ClaimsFit
  BY FileClaims DEF SourcesInv, ClaimsFit
<1> QED BY <1>1, SourcesInvariance, PTL

-----------------------------------------------------------------------------
(* Every source gives Run its packets as PacketSource promises.            *)

\* A step of a source whose packets are numbered from 1: one more is offered, one is
\* returned that came after the last, the source ends, or nothing of it is seen.
Promised(offered, offered2, latest, latest2, count, count2, over, over2) ==
    \/ offered2 = offered + 1 /\ latest2 = latest /\ count2 = count /\ over2 = over
    \/ /\ ~over /\ over2 = over /\ offered2 = offered
       /\ latest2 \in latest + 1 .. offered /\ count2 = count + 1
    \/ over2 = TRUE /\ offered2 = offered /\ latest2 = latest /\ count2 = count
    \/ over2 = over /\ offered2 = offered /\ latest2 = latest /\ count2 = count

LEMMA TapKeepsPromise ==
    ASSUME TapInv, Tap!TapNext
    PROVE  Promised(arrived, arrived', lastData, lastData', seq, seq',
                    tpc = "returned", tpc' = "returned")
<1> DEFINE quiet == UNCHANGED <<arrived, lastData, seq>>
<1>1. CASE Tap!Arrive
  BY <1>1 DEF Tap!Arrive, Tap!ctlVars, Promised
<1>2. CASE Tap!ReturnPacket
  <2>1. tpc = "copy" /\ tpc' = "top" /\ seq' = seq + 1 /\ lastData' = buf /\ arrived' = arrived
    BY <1>2 DEF Tap!ReturnPacket, Tap!AfterPacket, Tap!netVars
  <2>2. /\ lastData < buf /\ buf <= arrived
        /\ lastData \in Nat /\ buf \in Nat /\ arrived \in Nat
    <3>1. TapNumbersOK /\ lastData < buf
      BY <2>1, TapTypeParts DEF TapInv
    <3> QED BY <3>1, TapNumbers DEF TapNumbersOK
  <2>3. buf \in lastData + 1 .. arrived
    BY <2>2
  <2> QED BY <2>1, <2>3 DEF Promised
<1>3. CASE Tap!CloseTap
  BY <1>3 DEF Tap!CloseTap, Tap!netVars, Promised
<1>4. ASSUME quiet, tpc # "returned", tpc' # "returned"
      PROVE  Promised(arrived, arrived', lastData, lastData', seq, seq',
                      tpc = "returned", tpc' = "returned")
  BY <1>4, Zenon DEF Promised
<1>5. CASE \/ Tap!GoDown \/ Tap!GoUp \/ Tap!RecvFails \/ Tap!PauseTap \/ Tap!StopTap
  <2>1. UNCHANGED <<arrived, lastData, seq, tpc>>
    <3>1. CASE Tap!GoDown \/ Tap!GoUp
      BY <3>1 DEF Tap!GoDown, Tap!GoUp
    <3>2. CASE Tap!RecvFails
      BY <3>2 DEF Tap!RecvFails, Tap!netVars
    <3>3. CASE Tap!PauseTap
      BY <3>3 DEF Tap!PauseTap, Tap!netVars
    <3>4. CASE Tap!StopTap
      BY <3>4 DEF Tap!StopTap, Tap!netVars
    <3> QED BY <1>5, <3>1, <3>2, <3>3, <3>4
  <2>2. (tpc' = "returned") = (tpc = "returned") /\ quiet
    BY <2>1
  <2> QED BY <2>2, Zenon DEF Promised
<1>6. CASE Tap!CheckStopped \/ Tap!WaitWhilePaused \/ Tap!RecvPacket
  <2>1. /\ quiet /\ tpc \in {"top", "pauseLoop", "recv"}
        /\ tpc' \in {"done", "pauseLoop", "recv", "copy"}
    BY <1>6 DEF Tap!CheckStopped, Tap!WaitWhilePaused, Tap!RecvPacket, Tap!Jump, Tap!netVars
  <2> QED BY <1>4, <2>1
<1> QED BY <1>1, <1>2, <1>3, <1>5, <1>6 DEF Tap!TapNext, Tap!RunTap

\* The file header is no packet.
Records == IF wrote < 0 THEN 0 ELSE wrote

LiveOver == rpc \in {"returned", "panic"}

LEMMA LiveKeepsPromise ==
    ASSUME LiveInv, Live!LiveNext
    PROVE  Promised(Records, Records', last, last', got, got', LiveOver, LiveOver')
<1>1. wrote \in Int /\ -1 <= wrote /\ got \in Nat /\ last \in Nat /\ taken \in Nat /\ last <= taken
  <2>1. LiveDataOK
    BY LiveTypeParts DEF LiveInv
  <2> QED BY <2>1, LiveNumbers DEF LiveDataOK, LiveInv, CountsOK
<1> DEFINE quiet == UNCHANGED <<wrote, got, last>>
<1>2. ASSUME quiet, rpc' = rpc \/ ~LiveOver
      PROVE  Promised(Records, Records', last, last', got, got', LiveOver, LiveOver')
  <2>1. Records' = Records /\ last' = last /\ got' = got
    BY <1>2 DEF Records
  <2>2. LiveOver' = LiveOver \/ LiveOver' = TRUE
    <3>1. CASE rpc' = rpc
      BY <3>1 DEF LiveOver
    <3>2. CASE ~LiveOver
      <4>1. LiveOver = FALSE /\ LiveOver' \in BOOLEAN
        BY <3>2 DEF LiveOver
      <4> QED BY <4>1
    <3> QED BY <1>2, <3>1, <3>2
  <2> QED BY <2>1, <2>2, Zenon DEF Promised
<1>3. CASE Live!Write
  <2>1. wrote' = wrote + 1 /\ UNCHANGED <<got, last, rpc>>
    BY <1>3 DEF Live!Write, Live!runVars
  <2>2. Records' = Records + 1 \/ Records' = Records
    BY <1>1, <2>1 DEF Records
  <2>3. LiveOver' = LiveOver
    BY <2>1 DEF LiveOver
  <2> QED BY <2>1, <2>2, <2>3, Zenon DEF Promised
<1>4. CASE Live!ReadData
  <2>1. /\ rpc = "data" /\ wrote' = wrote
        /\ \/ UNCHANGED <<got, last>>
           \/ /\ rdOpen /\ Head(pipe) # -1 /\ rpc' = "idle"
              /\ got' = got + 1 /\ last' = Head(pipe)
    BY <1>4 DEF Live!ReadData, Live!NotAPacket, Live!Refuse, Live!Fail, Live!Half, Live!writerVars
  <2>2. CASE UNCHANGED <<got, last>>
    BY <1>2, <2>1, <2>2 DEF LiveOver
  <2>3. CASE /\ rdOpen /\ Head(pipe) # -1 /\ rpc' = "idle"
             /\ got' = got + 1 /\ last' = Head(pipe)
    <3> DEFINE next == taken + 1
               cut == writer = "cut"
    <3>1. Holds(pipe, next, wrote, cut) /\ pipe # <<>>
      BY <2>1, <2>3 DEF LiveInv, PipeOK, PhasesOK
    <3> HIDE DEF cut, next
    <3>2. Head(pipe) = next /\ next <= wrote
      BY <2>3, <3>1, HeadHolds
    <3>3. last' = taken + 1 /\ taken + 1 <= wrote
      BY <2>3, <3>2 DEF next
    <3>4. last' \in last + 1 .. Records /\ Records' = Records
      BY <1>1, <2>1, <3>3 DEF Records
    <3>5. LiveOver = FALSE /\ LiveOver' = FALSE
      BY <2>1, <2>3 DEF LiveOver
    <3> QED BY <2>3, <3>4, <3>5, Zenon DEF Promised
  <2> QED BY <2>1, <2>2, <2>3
<1>5. CASE Live!Exit \/ Live!OpenStep \/ Live!WaitReturns \/ Live!MarkClosed \/ Live!PauseOrResume
  <2>1. quiet /\ (rpc' = rpc \/ ~LiveOver)
    <3>1. rpc # "opening" => opc = "open"
      BY DEF LiveInv, PhasesOK
    <3> QED BY <1>5, <3>1 DEF Live!Exit, Live!OpenStep, Live!WaitReturns, Live!MarkClosed, Live!PauseOrResume,
          LiveOver, Live!ReadFileHeader, Live!TakeHeader, Live!HeaderTimeout, Live!KillWriter, Live!Reap,
          Live!writerVars, Live!openVars, Live!runVars
  <2> QED BY <1>2, <2>1
<1>6. CASE Live!Leave \/ Live!BeginNext \/ Live!ReadHeader \/ Live!Recheck \/ Live!CloseLive
  <2>1. quiet /\ ~LiveOver
    BY <1>6 DEF Live!Leave, Live!BeginNext, Live!ReadHeader, Live!Refuse, Live!Recheck, Live!CloseLive,
                Live!Fail, Live!writerVars, LiveOver
  <2> QED BY <1>2, <2>1
<1> QED BY <1>3, <1>4, <1>5, <1>6 DEF Live!LiveNext, Live!NextStep

LEMMA FileKeepsPromise ==
    ASSUME FileInv, File!FileNext
    PROVE  Promised(blocks, blocks', fcount, fcount', fcount, fcount', ~Running, ~Running')
<1>1. /\ blocks \in Nat /\ fcount \in Nat /\ (fpc = "block" => fcount < blocks)
      /\ Running \/ fpc \in {"returned", "panic", "crashed"}
  BY DEF FileInv, ReadingOK
<1>2. ASSUME UNCHANGED <<blocks, fcount>>, Running \/ ~Running'
      PROVE  Promised(blocks, blocks', fcount, fcount', fcount, fcount', ~Running, ~Running')
  BY <1>2, Zenon DEF Promised
\* Next returns a packet.
<1>3. ASSUME fpc = "block", fpc' = "ingest", fcount' = fcount + 1, blocks' = blocks
      PROVE  Promised(blocks, blocks', fcount, fcount', fcount, fcount', ~Running, ~Running')
  <2>1. fcount' \in fcount + 1 .. blocks
    BY <1>1, <1>3
  <2>2. Running /\ Running'
    BY <1>3 DEF Running
  <2> QED BY <1>3, <2>1, <2>2, Zenon DEF Promised
<1>4. CASE File!ReadHeaderOf
  <2>1. /\ fpc = "next" /\ fcount' = fcount
        /\ \/ fpc' = "returned" /\ blocks' = blocks
           \/ fpc' = "block" /\ blocks' = blocks + 1
    BY <1>4 DEF File!ReadHeaderOf, File!Close
  <2>2. CASE fpc' = "returned" /\ blocks' = blocks
    BY <1>2, <2>1, <2>2 DEF Running
  <2>3. CASE fpc' = "block" /\ blocks' = blocks + 1
    <3>1. Running /\ Running'
      BY <2>1, <2>3 DEF Running
    <3> QED BY <2>1, <2>3, <3>1, Zenon DEF Promised
  <2> QED BY <2>1, <2>2, <2>3
<1>5. CASE File!RecordData
  <2>1. /\ fpc = "block" /\ blocks' = blocks
        /\ \/ fpc' = "returned" /\ fcount' = fcount
           \/ fpc' = "ingest" /\ fcount' = fcount + 1
    BY <1>5 DEF File!RecordData, File!Close, File!Returns
  <2> QED BY <1>2, <1>3, <2>1 DEF Running
<1>6. CASE File!Enhanced
  <2>1. /\ fpc = "block" /\ blocks' = blocks
        /\ \/ fpc' \in {"returned", "panic"} /\ fcount' = fcount
           \/ fpc' = "ingest" /\ fcount' = fcount + 1
    BY <1>6 DEF File!Enhanced, File!Close, File!Returns
  <2> QED BY <1>2, <1>3, <2>1 DEF Running
<1>7. CASE File!Simple
  <2>1. fpc = "block" /\ blocks' = blocks /\ fpc' = "ingest" /\ fcount' = fcount + 1
    BY <1>7 DEF File!Simple, File!Returns
  <2> QED BY <1>3, <2>1
<1>8. CASE File!OpenFile \/ File!Top \/ File!Interface \/ File!Skip \/ File!WriteStep \/ File!Crash
  <2>1. UNCHANGED <<blocks, fcount>> /\ Running
    BY <1>1, <1>8 DEF File!OpenFile, File!Top, File!Interface, File!Skip, File!WriteStep, File!Crash,
          File!CreateRecording, File!WriteHeader, File!WriteData, File!readVars, Running
  <2> QED BY <1>2, <2>1
<1>9. CASE File!PlayStep
  <2>1. UNCHANGED <<blocks, fcount, fpc>>
    BY <1>9 DEF File!PlayStep, File!Play, File!PlayHeader, File!PlayData, File!readVars
  <2> QED BY <1>2, <2>1 DEF Running
<1> QED BY <1>4, <1>5, <1>6, <1>7, <1>8, <1>9 DEF File!FileNext, File!ReadStep

\* Whichever source is opened gives Run its packets in the order they were offered,
\* none twice and none after its end (engine.go:182-212, afpacket.go:88-135,
\* live.go:100-160, reader.go:160-289).
THEOREM SourcesImplement == SourcesSpec => ImplementsPacketSource
<1>1. SourcesInit => Abstract!SourceInit
  <2> SUFFICES ASSUME SourcesInit PROVE Abstract!SourceInit
    OBVIOUS
  <2>1. source = "" /\ wrote = -1 /\ last = 0 /\ got = 0 /\ rpc = "opening"
    BY DEF SourcesInit, Live!LiveInit
  <2>2. Records = 0
    <3>1. wrote = -1
      BY <2>1
    <3> QED BY <3>1 DEF Records
  <2>3. source # "kernel" /\ source # "file" /\ rpc # "returned" /\ rpc # "panic"
    BY <2>1
  <2>4. (rpc \in {"returned", "panic"}) = FALSE
    <3>1. ~(rpc \in {"returned", "panic"})
      BY <2>3
    <3> QED BY <3>1
  <2> QED BY <2>1, <2>2, <2>3, <2>4 DEF Abstract!SourceInit, Records
<1>2. SourcesInv /\ [SourcesNext]_sourcesVars => [Abstract!SourceNext]_(Abstract!sourceVars)
  <2> SUFFICES ASSUME SourcesInv, [SourcesNext]_sourcesVars
               PROVE  [Abstract!SourceNext]_(Abstract!sourceVars)
    OBVIOUS
  <2>1. CASE OpenSource
    <3>1. /\ source = "" /\ UNCHANGED <<tapState, liveState, fileState>>
          /\ source' \in {"stdin", "kernel", "tcpdump", "file"}
      BY <2>1 DEF OpenSource, SourcesInv
    <3>2. /\ arrived = 0 /\ lastData = 0 /\ seq = 0 /\ tpc = "top"
          /\ wrote = -1 /\ last = 0 /\ got = 0 /\ rpc = "opening"
          /\ blocks = 0 /\ fcount = 0 /\ fpc = "open"
      BY <3>1 DEF SourcesInv, Tap!TapInit, Live!LiveInit, File!FileInit
    <3>3. /\ arrived' = 0 /\ lastData' = 0 /\ seq' = 0 /\ tpc' = "top"
          /\ wrote' = -1 /\ last' = 0 /\ got' = 0 /\ rpc' = "opening"
          /\ blocks' = 0 /\ fcount' = 0 /\ fpc' = "open"
      BY <3>1, <3>2 DEF tapState, liveState, fileState
    <3>4. /\ Records = 0 /\ Records' = 0
      <4>1. wrote = -1 /\ wrote' = -1
        BY <3>2, <3>3
      <4> QED BY <4>1 DEF Records
    <3>5. /\ source # "kernel" /\ source # "file"
          /\ tpc' # "returned" /\ rpc \notin {"returned", "panic"} /\ rpc' \notin {"returned", "panic"}
          /\ fpc' \notin {"returned", "panic", "crashed"}
      BY <3>1, <3>2, <3>3
    <3>6. CASE source' = "kernel"
      BY <3>2, <3>3, <3>4, <3>5, <3>6 DEF Abstract!sourceVars, Records
    <3>7. CASE source' = "file"
      BY <3>2, <3>3, <3>4, <3>5, <3>7 DEF Abstract!sourceVars, Records
    <3>8. CASE source' # "kernel" /\ source' # "file"
      BY <3>2, <3>3, <3>4, <3>5, <3>8 DEF Abstract!sourceVars, Records
    <3> QED BY <3>6, <3>7, <3>8
  <2>2. CASE InTap(Tap!TapNext)
    <3>1. source = "kernel" /\ source' = "kernel" /\ Tap!TapNext
      BY <2>2 DEF InTap
    <3>2. Promised(arrived, arrived', lastData, lastData', seq, seq', tpc = "returned", tpc' = "returned")
      BY <3>1, TapKeepsPromise DEF SourcesInv
    <3> QED BY <3>1, <3>2 DEF Promised, Abstract!SourceNext, Abstract!Offer, Abstract!Take, Abstract!Finish,
                              Abstract!sourceVars
  <2>3. CASE InLive(Live!LiveNext)
    <3>1. source \in {"stdin", "tcpdump"} /\ source' = source /\ Live!LiveNext
      BY <2>3 DEF InLive
    <3>2. Promised(Records, Records', last, last', got, got', LiveOver, LiveOver')
      BY <3>1, LiveKeepsPromise DEF SourcesInv
    <3> QED BY <3>1, <3>2 DEF Promised, Records, LiveOver, Abstract!SourceNext, Abstract!Offer, Abstract!Take,
                              Abstract!Finish, Abstract!sourceVars
  <2>4. CASE InFile(File!FileNext)
    <3>1. source = "file" /\ source' = "file" /\ File!FileNext
      BY <2>4 DEF InFile
    <3>2. Promised(blocks, blocks', fcount, fcount', fcount, fcount', ~Running, ~Running')
      BY <3>1, FileKeepsPromise DEF SourcesInv
    <3>3. FileInv /\ FileInv'
      BY SourcesStep DEF SourcesInv
    <3>4. /\ ~Running <=> fpc \in {"returned", "panic", "crashed"}
          /\ ~Running' <=> fpc' \in {"returned", "panic", "crashed"}
      BY <3>3 DEF FileInv, ReadingOK, Running
    <3> QED BY <3>1, <3>2, <3>4 DEF Promised, Abstract!SourceNext, Abstract!Offer, Abstract!Take,
                                    Abstract!Finish, Abstract!sourceVars
  <2>5. CASE UNCHANGED sourcesVars
    BY <2>5 DEF sourcesVars, tapState, liveState, fileState, Abstract!sourceVars
  <2> QED BY <2>1, <2>2, <2>3, <2>4, <2>5 DEF SourcesNext
<1> QED BY <1>1, <1>2, SourcesInvariance, PTL DEF SourcesSpec, ImplementsPacketSource, Abstract!SourceSpec
=============================================================================
