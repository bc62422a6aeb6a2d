------------------------------ MODULE KernelTap ------------------------------
(***************************************************************************)
(* pcap.KernelTap under Engine.Run's loop: an AF_PACKET socket whose       *)
(* buffer the kernel fills, and Next, which retries every receive that     *)
(* fails: the 200ms timeout, a signal, an interface that went down.  Only  *)
(* Run's deferred call closes the tap, so Next never finds it closed.      *)
(*                                                                         *)
(* A packet is its number in the order of arrival.                         *)
(***************************************************************************)
EXTENDS Naturals, Sequences

CONSTANTS
    RcvBuf,         \* packets the socket's receive buffer holds
    MaxArrivals,    \* bound: packets that arrive
    MaxDowns        \* bound: times the interface goes down

\* What the constants are; Sources assumes it.
TapAssumption ==
    RcvBuf \in Nat \ {0} /\ MaxArrivals \in Nat /\ MaxDowns \in Nat

VARIABLES
    arrived,        \* packets that have arrived at the interface
    sock,           \* the socket's receive buffer
    sockErr,        \* the socket's pending error
    up,             \* the interface is up
    downs,          \* times it went down
    tpc,            \* Run: "top", "pauseLoop", "recv", "copy", "done", "returned"
    buf,            \* k.buf: the packet received last
    seq,            \* k.seq
    lastData,       \* what the last packet that Next returned holds
    paused, stopped, \* e.paused, e.stopCh is closed
    fdOpen          \* the socket is open

netVars == <<arrived, up, downs>>
ctlVars == <<paused, stopped>>
tapVars == <<netVars, sock, sockErr, tpc, buf, seq, lastData, ctlVars, fdOpen>>

TapInit ==
    /\ arrived = 0 /\ sock = <<>> /\ sockErr = FALSE
    /\ up = TRUE /\ downs = 0
    /\ tpc = "top" /\ buf = 0 /\ seq = 0 /\ lastData = 0
    /\ paused = FALSE /\ stopped = FALSE
    /\ fdOpen = TRUE

-----------------------------------------------------------------------------
(* The kernel.                                                             *)

\* A packet that finds the buffer full is dropped.
Arrive ==
    /\ up /\ arrived < MaxArrivals
    /\ arrived' = arrived + 1
    /\ sock' = IF fdOpen /\ Len(sock) < RcvBuf THEN Append(sock, arrived + 1) ELSE sock
    /\ UNCHANGED <<up, downs, sockErr, tpc, buf, seq, lastData, ctlVars, fdOpen>>

\* The socket gets ENETDOWN, once.
GoDown ==
    /\ up /\ downs < MaxDowns
    /\ up' = FALSE /\ downs' = downs + 1 /\ sockErr' = fdOpen
    /\ UNCHANGED <<arrived, sock, tpc, buf, seq, lastData, ctlVars, fdOpen>>

GoUp ==
    /\ ~up /\ up' = TRUE
    /\ UNCHANGED <<arrived, downs, sock, sockErr, tpc, buf, seq, lastData, ctlVars, fdOpen>>

-----------------------------------------------------------------------------
(* Run's loop and Next.                                                    *)

Jump(label) ==
    /\ tpc' = label
    /\ UNCHANGED <<netVars, sock, sockErr, buf, seq, lastData, ctlVars, fdOpen>>

CheckStopped == tpc = "top" /\ Jump(IF stopped THEN "done" ELSE "pauseLoop")

WaitWhilePaused ==
    /\ tpc = "pauseLoop"
    /\ \/ ~paused /\ Jump("recv")
       \/ paused /\ stopped /\ Jump("done")

Received == Tail(sock)

\* Recvfrom returns a packet into k.buf; a pending error comes first.
RecvPacket ==
    /\ tpc = "recv" /\ ~sockErr /\ sock # <<>>
    /\ buf' = Head(sock) /\ sock' = Received
    /\ tpc' = "copy"
    /\ UNCHANGED <<netVars, sockErr, seq, lastData, ctlVars, fdOpen>>

\* Bug: Next returns the error of an interface that went down.
RecvFailsEndsRun ==
    /\ tpc = "recv"
    /\ sockErr \/ sock = <<>>
    /\ sockErr' = FALSE /\ tpc' = (IF sockErr THEN "done" ELSE tpc)
    /\ UNCHANGED <<netVars, sock, buf, seq, lastData, ctlVars, fdOpen>>

\* ... or fails: EAGAIN after 200ms, EINTR, ENETDOWN.  All are retried.
RecvFails ==
    /\ tpc = "recv"
    /\ sockErr \/ sock = <<>>
    /\ sockErr' = FALSE
    /\ UNCHANGED <<netVars, sock, tpc, buf, seq, lastData, ctlVars, fdOpen>>

\* Bug: the stop flag is taken as it was before the receive.
AfterPacketReads == "recv"

\* After a packet Run ingests it and looks at stopCh again.
AfterPacket == "top"

\* The packet gets a copy of the buffer and the next number.
ReturnPacket ==
    /\ tpc = "copy"
    /\ seq' = seq + 1 /\ lastData' = buf
    /\ tpc' = AfterPacket
    /\ UNCHANGED <<netVars, sock, sockErr, buf, ctlVars, fdOpen>>

\* done, and Run's deferred Close.
CloseTap ==
    /\ tpc = "done"
    /\ tpc' = "returned" /\ fdOpen' = FALSE
    /\ sock' = <<>> /\ sockErr' = FALSE
    /\ UNCHANGED <<netVars, buf, seq, lastData, ctlVars>>

RunTap ==
    CheckStopped \/ WaitWhilePaused \/ RecvPacket \/ RecvFails \/ ReturnPacket \/ CloseTap

-----------------------------------------------------------------------------
PauseTap == paused' \in BOOLEAN /\ UNCHANGED <<netVars, sock, sockErr, tpc, buf, seq, lastData, stopped, fdOpen>>
StopTap == stopped' = TRUE /\ UNCHANGED <<netVars, sock, sockErr, tpc, buf, seq, lastData, paused, fdOpen>>

TapNext == Arrive \/ GoDown \/ GoUp \/ RunTap \/ PauseTap \/ StopTap

TapSpec == TapInit /\ [][TapNext]_tapVars

\* Run is scheduled.  Nothing makes packets arrive, the interface come back, or
\* anybody call Resume.
TapFairSpec == TapSpec /\ WF_tapVars(RunTap)

-----------------------------------------------------------------------------
\* Type invariant of the tap and of its socket, which is open until Run's
\* deferred Close (afpacket.go:15-23, 73-86).
TapTypeOK ==
    /\ arrived \in 0 .. MaxArrivals /\ downs \in 0 .. MaxDowns
    /\ sock \in Seq(1 .. MaxArrivals) /\ Len(sock) <= RcvBuf
    /\ sockErr \in BOOLEAN /\ up \in BOOLEAN
    /\ tpc \in {"top", "pauseLoop", "recv", "copy", "done", "returned"}
    /\ buf \in 0 .. arrived /\ seq \in 0 .. arrived /\ lastData \in 0 .. buf
    /\ paused \in BOOLEAN /\ stopped \in BOOLEAN
    /\ fdOpen = (tpc # "returned")

\* A Stop takes effect when a further packet is in the socket, whether Run is in
\* its pause loop, on its way to the receive or in it (engine.go:254-274).
StopTakesNextPacket == (stopped /\ sock # <<>>) ~> (tpc = "returned")

\* A packet that is in the socket is returned, though the interface goes down before
\* it is received or while Next waits, unless somebody calls Pause or Stop in between
\* (afpacket.go:88-134).
DownEndsNothing ==
    \A n \in 1 .. MaxArrivals :
        (\E i \in DOMAIN sock : sock[i] = n) ~> (lastData >= n \/ paused \/ stopped)

\* What afpacket.go:60 says: the receive timeout keeps Stop responsive.  Not true
\* of the code: Next retries the timed-out receive and Run does not see stopCh.
StopIsResponsive == stopped ~> (tpc = "returned")
=============================================================================
