----------------------------- MODULE LiveCapture -----------------------------
(***************************************************************************)
(* pcap.Live: a tcpdump process that writes a capture into a pipe, the     *)
(* goroutines OpenLive starts (one reads the file header, one waits for    *)
(* the process), Next as Engine.Run calls it, and Close as its deferred    *)
(* call.  With --stdin there is no process to start, wait for or kill:     *)
(* Writer is whoever holds the other end of standard input.                *)
(*                                                                         *)
(* A record is its number; reading one takes two steps, its header and its *)
(* data.  What tcpdump writes is a classic capture with whole records of   *)
(* its snapshot length at most; standard input may hold anything, also a   *)
(* pcapng stream: whether its next record is one that the reader takes,    *)
(* skips, refuses or panics on (CaptureFile says of which kinds they are)  *)
(* is chosen when it is read.  A writer that is killed may leave half a    *)
(* record.  The 4s timer, and the moment the writer exits of its own       *)
(* accord, are unconstrained.                                              *)
(***************************************************************************)
EXTENDS Integers, Sequences

CONSTANT
    MaxRecords      \* bound: records the writer writes

\* What the constant is; Sources assumes it.
LiveAssumption == MaxRecords \in Nat

VARIABLES
    stdin,          \* opts.Stdin
    writer,         \* the other end: "running", "exited", or "cut" off in a record
    killed,         \* it was sent SIGINT or SIGKILL
    wrote,          \* records written; -1: nothing yet, 0: the file header
    pipe,           \* what is in the pipe
    taken,          \* records read from it to their end
    rdOpen,         \* our end of the pipe is open
    opc,            \* OpenLive: "select", "kill", "reap", "failed", "open"
    hpc,            \* the goroutine that reads the file header
    ch,             \* the channel with its result
    wpc,            \* the goroutine that waits for tcpdump
    closed,         \* l.closed
    held,           \* e.paused
    rpc,            \* Run: "idle" between packets, then in Next and in Close; "panic"
    err,            \* the error of rd.Next
    result,         \* what ended the loop: "none", "eof", "error", "truncated", "stop"
    got,            \* packets Next returned
    last            \* the last of them

Header == 0
Half == -1

writerVars == <<stdin, writer, killed, wrote>>
openVars == <<opc, hpc, ch>>
runVars == <<rpc, err, result, got, last>>
liveVars == <<writerVars, pipe, taken, held, rdOpen, openVars, wpc, closed, runVars>>

LiveInit ==
    /\ stdin \in BOOLEAN
    /\ writer = "running" /\ killed = FALSE /\ wrote = -1
    /\ pipe = <<>> /\ taken = 0 /\ rdOpen = TRUE /\ held = FALSE
    /\ opc = "select" /\ hpc = "read" /\ ch = "empty"
    /\ wpc = "none" /\ closed = FALSE
    /\ rpc = "opening" /\ err = "none" /\ result = "none" /\ got = 0 /\ last = 0

-----------------------------------------------------------------------------
(* The writer.                                                             *)

Gone == writer # "running"

Write ==
    /\ writer = "running" /\ wrote < MaxRecords
    /\ wrote' = wrote + 1
    /\ pipe' = IF rdOpen THEN Append(pipe, wrote + 1) ELSE pipe
    /\ UNCHANGED <<taken, held, stdin, writer, killed, rdOpen, openVars, wpc, closed, runVars>>

Exit ==
    /\ writer = "running"
    /\ \/ writer' = "exited" /\ UNCHANGED pipe
       \/ writer' = "cut" /\ pipe' = IF rdOpen THEN Append(pipe, Half) ELSE pipe
    /\ UNCHANGED <<taken, held, stdin, killed, wrote, rdOpen, openVars, wpc, closed, runVars>>

-----------------------------------------------------------------------------
(* OpenLive.                                                               *)

\* NewReader: what tcpdump writes first is a file header; what comes from standard
\* input may be anything, and one that was cut off is no header.
HeaderResults ==
    {r \in {"ok", "err"} : (Head(pipe) = Header => stdin \/ r = "ok")
                            /\ (Head(pipe) # Header => r = "err")}

\* NewReader on the pipe, and its result into a channel with room for it.
ReadFileHeader ==
    /\ hpc = "read"
    /\ \/ /\ rdOpen /\ pipe # <<>>
          /\ ch' \in HeaderResults
          /\ pipe' = Tail(pipe)
       \/ /\ ~rdOpen \/ (pipe = <<>> /\ Gone)
          /\ ch' = "err" /\ UNCHANGED pipe
    /\ hpc' = "end"
    /\ UNCHANGED <<taken, held, writerVars, rdOpen, opc, wpc, closed, runVars>>

\* What OpenLive does with a header that cannot be read: with --stdin there is
\* nothing to kill.
OpenFails == opc' = IF stdin THEN "failed" ELSE "kill"

TakeHeader ==
    /\ opc = "select" /\ ch # "empty"
    /\ IF ch = "ok"
       THEN opc' = "open" /\ rpc' = "idle" /\ wpc' = IF stdin THEN "none" ELSE "wait"
       ELSE OpenFails /\ UNCHANGED <<rpc, wpc>>
    /\ UNCHANGED <<taken, held, writerVars, pipe, rdOpen, hpc, ch, closed, err, result, got, last>>

\* time.After(4s); reading standard input has no such limit.
HeaderTimeout ==
    /\ opc = "select" /\ ~stdin
    /\ OpenFails
    /\ UNCHANGED <<taken, held, writerVars, pipe, rdOpen, hpc, ch, wpc, closed, runVars>>

KillWriter ==
    /\ opc = "kill"
    /\ killed' = TRUE /\ opc' = "reap"
    /\ UNCHANGED <<taken, held, stdin, writer, wrote, pipe, rdOpen, hpc, ch, wpc, closed, runVars>>

\* cmd.Wait closes our end of the pipe, with whatever is still in it.
Reaped == rdOpen' = FALSE /\ pipe' = <<>>

Reap ==
    /\ opc = "reap" /\ Gone
    /\ Reaped /\ opc' = "failed"
    /\ UNCHANGED <<taken, held, writerVars, hpc, ch, wpc, closed, runVars>>

-----------------------------------------------------------------------------
(* The goroutine that waits for tcpdump.                                   *)

WaitReturns ==
    /\ wpc = "wait" /\ Gone
    /\ Reaped /\ wpc' = "mark"
    /\ UNCHANGED <<taken, held, writerVars, openVars, closed, runVars>>

MarkClosed ==
    /\ wpc = "mark"
    /\ closed' = TRUE /\ wpc' = "end"
    /\ UNCHANGED <<taken, held, writerVars, pipe, rdOpen, openVars, runVars>>

-----------------------------------------------------------------------------
(* Run and Next.                                                           *)

\* Run leaves its loop between two packets: Stop, the packet limit, or a
\* recording that cannot be created.
Leave ==
    /\ rpc = "idle"
    /\ rpc' = "close" /\ result' = "stop"
    /\ UNCHANGED <<writerVars, pipe, taken, held, rdOpen, openVars, wpc, closed, err, got, last>>

\* Pause and Resume, of other goroutines.
PauseOrResume ==
    /\ held' = ~held
    /\ UNCHANGED <<writerVars, pipe, taken, rdOpen, openVars, wpc, closed, runVars>>

\* Bug: a capture is over as soon as its writer is gone.
AtEndWithWriter == Gone

AtEnd == closed

\* A paused Run waits in its loop and does not call Next.
BeginNext ==
    /\ rpc = "idle" /\ ~held
    /\ IF AtEnd THEN rpc' = "close" /\ result' = "eof"
                 ELSE rpc' = "header" /\ UNCHANGED result
    /\ UNCHANGED <<writerVars, pipe, taken, held, rdOpen, openVars, wpc, closed, err, got, last>>

Fail(e) == rpc' = "recheck" /\ err' = e /\ UNCHANGED <<pipe, taken, got, last>>

EndError == "eof"

\* A record that claims an implausible length.
Refuse == stdin /\ Fail("truncated")

\* The header of a record or block: io.EOF if there is nothing left.
ReadHeader ==
    /\ rpc = "header"
    /\ \/ ~rdOpen /\ Fail("error")
       \/ rdOpen /\ pipe = <<>> /\ Gone /\ Fail(EndError)
       \/ rdOpen /\ pipe # <<>> /\ Refuse
       \/ rdOpen /\ pipe # <<>> /\ rpc' = "data" /\ UNCHANGED <<pipe, taken, err, got, last>>
    /\ UNCHANGED <<writerVars, held, rdOpen, openVars, wpc, closed, result>>

\* Bug: a record's data stays in the pipe.
RestUnread == pipe

Rest == Tail(pipe)

ReadToItsEnd == pipe' = Rest /\ taken' = taken + 1 /\ UNCHANGED err

\* What nextNG does with a block that is not a packet, or one whose lengths
\* contradict each other or wrap.
NotAPacket ==
    /\ stdin
    /\ \/ ReadToItsEnd /\ rpc' = "header" /\ UNCHANGED <<got, last>>
       \/ Refuse
       \/ rpc' = "panic" /\ UNCHANGED <<pipe, taken, err, got, last>>

\* ... and its data.  Half a record ends in io.EOF when all of its header and
\* nothing of its data was written, in io.ErrUnexpectedEOF otherwise.
ReadData ==
    /\ rpc = "data"
    /\ \/ ~rdOpen /\ Fail("error")
       \/ rdOpen /\ Head(pipe) = Half /\ \E e \in {"eof", "error"} : Fail(e)
       \/ /\ rdOpen /\ Head(pipe) # Half
          /\ \/ ReadToItsEnd /\ got' = got + 1 /\ last' = Head(pipe) /\ rpc' = "idle"
             \/ NotAPacket
    /\ UNCHANGED <<writerVars, held, rdOpen, openVars, wpc, closed, result>>

\* Bug: an error of a capture that nobody closed is taken for a passing one.
ErrorEndsLoopOnlyIfClosed == closed

ErrorEndsLoop == TRUE

\* Next looks at closed again before it returns an error.
Recheck ==
    /\ rpc = "recheck"
    /\ IF ErrorEndsLoop
       THEN result' = (IF closed THEN "eof" ELSE err) /\ rpc' = "close"
       ELSE rpc' = "idle" /\ UNCHANGED result
    /\ UNCHANGED <<writerVars, pipe, taken, held, rdOpen, openVars, wpc, closed, err, got, last>>

-----------------------------------------------------------------------------
(* Close, Run's deferred call: SIGINT and, 50ms later, SIGKILL.            *)

\* Bug: it only marks the capture as closed.
SignalForgotten == UNCHANGED killed

Signal == killed' = (killed \/ ~stdin)

CloseLive ==
    /\ rpc = "close"
    /\ IF closed THEN UNCHANGED <<closed, killed>> ELSE closed' = TRUE /\ Signal
    /\ rpc' = "returned"
    /\ UNCHANGED <<stdin, writer, wrote, pipe, taken, held, rdOpen, openVars, wpc, err, result,
                   got, last>>

OpenStep == ReadFileHeader \/ TakeHeader \/ HeaderTimeout \/ KillWriter \/ Reap
NextStep == BeginNext \/ ReadHeader \/ ReadData \/ Recheck \/ CloseLive

LiveNext ==
    \/ Write \/ Exit \/ OpenStep \/ WaitReturns \/ MarkClosed
    \/ PauseOrResume \/ Leave \/ NextStep

LiveSpec == LiveInit /\ [][LiveNext]_liveVars

\* Goroutines are scheduled, the timer fires, a killed process exits; nothing
\* makes the writer write or exit, Run leave its loop, or anyone resume it.
LiveFairSpec ==
    /\ LiveSpec
    /\ WF_liveVars(ReadFileHeader) /\ WF_liveVars(TakeHeader \/ HeaderTimeout)
    /\ WF_liveVars(KillWriter) /\ WF_liveVars(Reap)
    /\ WF_liveVars(WaitReturns) /\ WF_liveVars(MarkClosed)
    /\ WF_liveVars(NextStep)
    /\ WF_liveVars(killed /\ Exit)

-----------------------------------------------------------------------------
\* Type invariant of a live capture (live.go:16-22).
LiveTypeOK ==
    /\ stdin \in BOOLEAN
    /\ writer \in {"running", "exited", "cut"} /\ killed \in BOOLEAN
    /\ wrote \in -1 .. MaxRecords
    /\ pipe \in Seq({Half} \cup 0 .. MaxRecords) /\ rdOpen \in BOOLEAN
    /\ opc \in {"select", "kill", "reap", "failed", "open"}
    /\ hpc \in {"read", "end"} /\ ch \in {"empty", "ok", "err"}
    /\ wpc \in {"none", "wait", "mark", "end"} /\ closed \in BOOLEAN /\ held \in BOOLEAN
    /\ rpc \in {"opening", "idle", "header", "data", "recheck", "close", "returned", "panic"}
    /\ err \in {"none", "eof", "error", "truncated"}
    /\ result \in {"none", "eof", "error", "truncated", "stop"}
    /\ got \in Nat /\ last \in Nat /\ taken \in Nat
    /\ rpc \in {"close", "returned"} => result # "none"

\* Of tcpdump's records all that were read are returned, and at the end of a capture
\* some are left unread only because cmd.Wait closed the pipe with them in it; the end
\* of standard input comes after everything that was written to it, unless the reader
\* refuses a record of it, which ends the run with what follows unread
\* (live.go:130-135, reader.go:176-178, 209-243).
LostOnlyByWait ==
    /\ ~stdin => got = taken /\ result # "truncated"
    /\ result \in {"eof", "error"} /\ (rdOpen \/ stdin) => taken = wrote

\* A capture that is over leaves nothing behind: tcpdump is gone, whether OpenLive
\* gave up or Run returned, and both goroutines have ended (live.go:96-136, 166-182).
NoLeftovers ==
    opc = "failed" \/ rpc = "returned" ~> (stdin \/ Gone) /\ hpc = "end" /\ wpc \in {"none", "end"}

\* When the writer is gone Run returns, or panics on what it has written, unless Run
\* is paused for ever or again and again (live.go:130-160, engine.go:261-275).
ExitEndsRun ==
    <>[]~held => (Gone /\ opc = "open" ~> rpc \in {"returned", "panic"})

\* What main.go:277 says: the end of the stream is no error; here, unless the
\* writer left half a record.  Not true of tcpdump (live.go:131-134): Next may find
\* the pipe closed before l.closed is set.
EndIsNoError == result = "error" => writer = "cut"
=============================================================================
