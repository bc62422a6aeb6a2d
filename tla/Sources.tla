------------------------------- MODULE Sources -------------------------------
(***************************************************************************)
(* Engine.openSource: which of its sources a run of the engine reads.  The *)
(* one it opens goes on as its own module says, the others are not there.  *)
(***************************************************************************)
EXTENDS Integers, Sequences

CONSTANTS
    RcvBuf, MaxArrivals, MaxDowns,                  \* see KernelTap
    MaxRecords,                                     \* see LiveCapture
    Ethernet, OtherLinks, NullLink, Wrap, EpbFixed, MaxData,  \* see CaptureFile
    Bytes, MaxBlocks, MaxFails

VARIABLES
    config,         \* what e.cfg asks for: "stdin", "kernel", "tcpdump" or "file"
    source          \* e.source, "" before openSource

VARIABLES
    arrived, sock, sockErr, up, downs, tpc, buf, seq, lastData, paused, stopped, fdOpen

VARIABLES
    stdin, writer, killed, wrote, pipe, taken, held, rdOpen, opc, hpc, ch, wpc, closed,
    rpc, err, result, got, last

VARIABLES
    fpc, format, rdLink, ifaceMap, blocks, block, pkt, fcount, fresult,
    wlink, file, fails, kept, whole, ppc, ppos, plen, back, pend

Tap == INSTANCE KernelTap
Live == INSTANCE LiveCapture
File == INSTANCE CaptureFile

ASSUME SourcesAssumption == Tap!TapAssumption /\ Live!LiveAssumption /\ File!FileAssumption

tapState == <<arrived, sock, sockErr, up, downs, tpc, buf, seq, lastData, paused, stopped, fdOpen>>
liveState == <<stdin, writer, killed, wrote, pipe, taken, held, rdOpen, opc, hpc, ch, wpc, closed,
               rpc, err, result, got, last>>
fileState == <<fpc, format, rdLink, ifaceMap, blocks, block, pkt, fcount, fresult, wlink, file,
               fails, kept, whole, ppc, ppos, plen, back, pend>>
sourcesVars == <<config, source, tapState, liveState, fileState>>

SourcesInit ==
    /\ config \in {"stdin", "kernel", "tcpdump", "file"}
    /\ source = ""
    /\ Tap!TapInit /\ Live!LiveInit /\ File!FileInit
    /\ stdin = (config = "stdin")

-----------------------------------------------------------------------------
\* A kernel tap that cannot be opened is replaced by tcpdump.
OpenSource ==
    /\ source = ""
    /\ source' \in IF config = "kernel" THEN {"kernel", "tcpdump"} ELSE {config}
    /\ UNCHANGED <<config, tapState, liveState, fileState>>

InTap(A) == source = "kernel" /\ A /\ UNCHANGED <<config, source, liveState, fileState>>
InLive(A) ==
    source \in {"stdin", "tcpdump"} /\ A /\ UNCHANGED <<config, source, tapState, fileState>>
InFile(A) == source = "file" /\ A /\ UNCHANGED <<config, source, tapState, liveState>>

SourcesNext ==
    \/ OpenSource
    \/ InTap(Tap!TapNext)
    \/ InLive(Live!LiveNext)
    \/ InFile(File!FileNext)

\* The fairness of each source, where it is the one in use.
SourcesSpec ==
    /\ SourcesInit /\ [][SourcesNext]_sourcesVars
    /\ WF_sourcesVars(InTap(Tap!RunTap))
    /\ WF_sourcesVars(InLive(Live!ReadFileHeader))
    /\ WF_sourcesVars(InLive(Live!TakeHeader \/ Live!HeaderTimeout))
    /\ WF_sourcesVars(InLive(Live!KillWriter)) /\ WF_sourcesVars(InLive(Live!Reap))
    /\ WF_sourcesVars(InLive(Live!WaitReturns)) /\ WF_sourcesVars(InLive(Live!MarkClosed))
    /\ WF_sourcesVars(InLive(Live!NextStep))
    /\ WF_sourcesVars(InLive(killed /\ Live!Exit))

-----------------------------------------------------------------------------
Abstract ==
    INSTANCE PacketSource WITH
        offered <- (CASE source = "kernel" -> arrived
                      [] source = "file" -> blocks
                      [] OTHER -> IF wrote < 0 THEN 0 ELSE wrote),
        last <- (CASE source = "kernel" -> lastData [] source = "file" -> fcount [] OTHER -> last),
        count <- (CASE source = "kernel" -> seq [] source = "file" -> fcount [] OTHER -> got),
        over <- (CASE source = "kernel" -> tpc = "returned"
                   [] source = "file" -> fpc \in {"returned", "panic", "crashed"}
                   [] OTHER -> rpc \in {"returned", "panic"})

\* Whichever source is opened gives Run its packets in the order they were
\* offered, none twice and none after its end, whatever receives fail in between
\* and though three goroutines and Wait share tcpdump's pipe (engine.go:182-212,
\* afpacket.go:88-135, live.go:100-160, reader.go:160-289).
ImplementsPacketSource == Abstract!SourceSpec

\* A Stop of a capture by the kernel tap takes effect when a further packet is in
\* the socket (engine.go:254-274, afpacket.go:88-135).
StopTakesNextPacket == Tap!StopTakesNextPacket

\* The kernel tap goes on when its interface goes down: a packet in its socket is
\* returned (afpacket.go:100-122).
DownEndsNothing == Tap!DownEndsNothing

\* Of tcpdump's records all that were read are returned, and at the end of a capture
\* some are left unread only because cmd.Wait closed the pipe with them in it; the end
\* of standard input comes after everything that was written to it, unless the reader
\* refuses a record of it (live.go:130-135, reader.go:176-178, 209-243).
LostOnlyByWait == Live!LostOnlyByWait

\* A live capture that is over leaves nothing behind: tcpdump is gone, and the
\* goroutines of OpenLive have ended (live.go:96-136, 166-182).
NoLeftovers == Live!NoLeftovers

\* When its writer is gone a live capture's Run returns, or panics on what was written,
\* unless Run is paused for ever or again and again (live.go:130-160,
\* engine.go:261-275).
ExitEndsRun == Live!ExitEndsRun

\* What was recorded of a file can be read again up to the first record that was
\* left half written, its link type as far as the recording's header tells it
\* (engine.go:215-228, writer.go:25-63, reader.go:51-72, 167-198).
RecordingReadsBack == File!RecordingReadsBack

\* The reader returns no byte that is not in its block, and panics only for a claim
\* that wraps (reader.go:241-245).
ClaimsFit == File!ClaimsFit
=============================================================================
