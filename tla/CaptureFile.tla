---------------------------- MODULE CaptureFile ----------------------------
(***************************************************************************)
(* A capture file that Engine.Run reads, the recording it writes of what   *)
(* it reads (--write), and that recording read back by a later process.    *)
(*                                                                         *)
(* The contents of the file that is read are chosen as they are read: a    *)
(* classic capture is records, a pcapng one blocks; either may be cut off  *)
(* anywhere.  The recording is kept as what is on disk, in cells: numbers, *)
(* of which a record's header takes two, the captured and the original     *)
(* length, and its data one per byte.  WritePacket writes a record in two  *)
(* writes, ingest ignores its error, and the process may die in between.   *)
(* A live capture is recorded as a classic file is.                        *)
(***************************************************************************)
EXTENDS Integers, Sequences, FiniteSetsExt

CONSTANTS
    Ethernet,       \* LinkTypeEthernet
    OtherLinks,     \* further link types
    NullLink,       \* the one of them whose number is 0
    Wrap,           \* 2^32
    EpbFixed,       \* bytes of an enhanced packet block in front of the data (20)
    MaxData,        \* the longest record that is accepted (16 MiB)
    Bytes,          \* values that a byte of data may have
    MaxBlocks,      \* bound: blocks or records in the file that is read
    MaxFails        \* bound: writes that fail

\* What the constants are; Sources assumes it.  "" stands for no header.
FileAssumption ==
    /\ Wrap \in Nat /\ EpbFixed \in 1 .. Wrap - 1
    /\ MaxData \in 1 .. Wrap - 1 /\ Bytes \subseteq 0 .. Wrap - 1
    /\ MaxBlocks \in Nat /\ MaxFails \in Nat
    /\ "" \notin {Ethernet} \cup OtherLinks
    /\ NullLink \in OtherLinks /\ Ethernet \notin OtherLinks

VARIABLES
    fpc,            \* where Run is, "returned", "panic" or "crashed"
    format,         \* the file is "classic" or "pcapng"
    rdLink,         \* rd.linkType
    ifaceMap,       \* rd.ifaceMap: the link types of the interfaces, in order
    blocks,         \* blocks or records read so far
    block,          \* the one that is read
    pkt,            \* the packet that Next returned and ingest has in hand
    fcount,         \* rd.count
    fresult,        \* what ended the loop: "none", "eof", "error" or "stop"
    wlink,          \* the link type in the recording's header, "" without a header
    file,           \* the cells of the recording behind its header
    fails,          \* writes that have failed
    kept,           \* history: the packets recorded before anything was left half written
    whole,          \* history: the cells of their records
    ppc,            \* playback: "idle", "header", "data" or "end"
    ppos,           \* the cells it has read
    plen,           \* the captured length in the header it has read
    back,           \* the packets it has returned
    pend            \* how it ended

readVars == <<format, rdLink, ifaceMap, blocks, block, pkt, fcount, fresult>>
writeVars == <<wlink, file, fails, kept, whole>>
playVars == <<ppc, ppos, plen, back, pend>>
fileVars == <<fpc, readVars, writeVars, playVars>>

Links == {Ethernet} \cup OtherLinks
NoPacket == [link |-> Ethernet, len |-> 0, orig |-> 0, fill |-> 0]
NoBlock == [type |-> "none", len |-> 0, claim |-> 0]
HeaderCells == 2

FileInit ==
    /\ fpc = "open" /\ format \in {"classic", "pcapng"}
    /\ rdLink = Ethernet /\ ifaceMap = <<>>
    /\ blocks = 0 /\ block = NoBlock /\ pkt = NoPacket
    /\ fcount = 0 /\ fresult = "none"
    /\ wlink = "" /\ file = <<>> /\ fails = 0 /\ kept = <<>> /\ whole = 0
    /\ ppc = "idle" /\ ppos = 0 /\ plen = 0 /\ back = <<>> /\ pend = "none"

-----------------------------------------------------------------------------
(* Reading.  io.ReadFull of n bytes when there are rest: io.EOF if there   *)
(* is nothing, io.ErrUnexpectedEOF if there is too little.                 *)
ReadFull(n, rest) == IF rest >= n THEN "ok" ELSE IF rest = 0 THEN "eof" ELSE "error"

\* What it may return when nothing is known of the rest, but no more than
\* MaxBlocks blocks are read.
ReadsOf(n) == {ReadFull(n, rest) : rest \in IF blocks < MaxBlocks THEN {0, 1, n} ELSE {0}}

\* The first of a sequence of reads that fails decides.
FirstFailure(outcomes) ==
    LET failed == {i \in DOMAIN outcomes : outcomes[i] # "ok"}
    IN  IF failed = {} THEN "ok" ELSE outcomes[Min(failed)]

Close(r) == fpc' = "returned" /\ fresult' = r

\* NewReader.  A pcapng file tells its link types later, in its blocks.
OpenFile ==
    /\ fpc = "open"
    /\ \/ Close("error") /\ UNCHANGED rdLink
       \/ /\ fpc' = "create" /\ UNCHANGED fresult
          /\ rdLink' \in IF format = "classic" THEN Links ELSE {Ethernet}
    /\ UNCHANGED <<format, ifaceMap, blocks, block, pkt, fcount, writeVars, playVars>>

\* Run's loop between two packets.
Top ==
    /\ fpc = "top"
    /\ \/ fpc' = "next" /\ UNCHANGED fresult
       \/ Close("stop")
    /\ UNCHANGED <<format, rdLink, ifaceMap, blocks, block, pkt, fcount, writeVars, playVars>>

\* The header of a record, or a whole block with its trailing length: one whose
\* length is not plausible is an error, as is what ReadFull says of its parts.
ReadHeaderOf ==
    /\ fpc = "next"
    /\ \E len \in 0 .. MaxData + 1, type \in IF format = "classic" THEN {"record"} ELSE {"idb", "epb", "spb", "other"} :
         \E header \in ReadsOf(HeaderCells),
            body \in IF format = "classic" THEN {"ok"} ELSE ReadsOf(len),
            trail \in IF format = "classic" THEN {"ok"} ELSE ReadsOf(HeaderCells) :
              LET outcome == IF header = "ok" /\ len > MaxData THEN "error"
                             ELSE FirstFailure(<<header, body, trail>>)
              IN  IF outcome # "ok"
                  THEN Close(outcome) /\ UNCHANGED <<blocks, block>>
                  ELSE /\ blocks' = blocks + 1
                       /\ block' = [type |-> type, len |-> len, claim |-> 0]
                       /\ fpc' = "block" /\ UNCHANGED fresult
    /\ UNCHANGED <<format, rdLink, ifaceMap, pkt, fcount, writeVars, playVars>>

\* Next returns a packet of len bytes.
Returns(link, len) ==
    /\ \E orig \in {len, len + 1}, fill \in Bytes :
         pkt' = [link |-> link, len |-> len, orig |-> orig, fill |-> fill]
    /\ fcount' = fcount + 1
    /\ fpc' = "ingest"

\* The data of a classic record.
RecordData ==
    /\ fpc = "block" /\ block.type = "record"
    /\ \E data \in {ReadFull(block.len, rest) : rest \in {0, 1, block.len}} :
         IF data = "ok" THEN Returns(rdLink, block.len) /\ UNCHANGED fresult
                        ELSE Close(data) /\ UNCHANGED <<pkt, fcount>>
    /\ UNCHANGED <<format, rdLink, ifaceMap, blocks, block, writeVars, playVars>>

\* An interface description block (from its link type on).
Interface ==
    /\ fpc = "block" /\ block.type = "idb" /\ block.len >= 1
    /\ rdLink' \in Links
    /\ ifaceMap' = Append(ifaceMap, rdLink')
    /\ fpc' = "next"
    /\ UNCHANGED <<format, blocks, block, pkt, fcount, fresult, writeVars, playVars>>

\* Bug: the fixed part is left out of the comparison.
TooLongWithoutFixed(capLen) == capLen > block.len

\* 20+capLen is a sum of 32 bits.
TooLong(capLen) == (EpbFixed + capLen) % Wrap > block.len

\* An enhanced packet block: the slice body[20:20+capLen] has the same sum.
Enhanced ==
    /\ fpc = "block" /\ block.type = "epb" /\ block.len >= EpbFixed
    /\ \E capLen \in 0 .. Wrap - 1, iface \in 0 .. MaxBlocks - 1 :
         /\ block' = [block EXCEPT !.claim = capLen]
         /\ IF TooLong(capLen)
            THEN Close("error") /\ UNCHANGED <<pkt, fcount>>
            ELSE IF (EpbFixed + capLen) % Wrap \notin EpbFixed .. block.len
            THEN fpc' = "panic" /\ UNCHANGED <<pkt, fcount, fresult>>
            ELSE /\ Returns(IF iface < Len(ifaceMap) THEN ifaceMap[iface + 1] ELSE rdLink, capLen)
                 /\ UNCHANGED fresult
    /\ UNCHANGED <<format, rdLink, ifaceMap, blocks, writeVars, playVars>>

\* A simple packet block: its data is all of its body behind the original length.
Simple ==
    /\ fpc = "block" /\ block.type = "spb" /\ block.len >= 1
    /\ Returns(rdLink, block.len - 1)
    /\ UNCHANGED <<format, rdLink, ifaceMap, blocks, block, fresult, writeVars, playVars>>

\* Other blocks, and those that are too short, are skipped.
Skip ==
    /\ fpc = "block"
    /\ \/ block.type = "other"
       \/ block.type \in {"idb", "spb"} /\ block.len < 1
       \/ block.type = "epb" /\ block.len < EpbFixed
    /\ fpc' = "next"
    /\ UNCHANGED <<readVars, writeVars, playVars>>

-----------------------------------------------------------------------------
(* Writing.                                                                *)

\* Run asks its source for the link type before it has read any packet, and
\* CreateWriter takes 0 for no link type.
RecordedLink == IF rdLink = NullLink THEN Ethernet ELSE rdLink

\* CreateWriter; a recording whose header cannot be written stays without one.
CreateRecording ==
    /\ fpc = "create"
    /\ \/ fpc' = "top" /\ wlink' = RecordedLink /\ UNCHANGED fresult
       \/ Close("error") /\ UNCHANGED wlink
    /\ UNCHANGED <<format, rdLink, ifaceMap, blocks, block, pkt, fcount, file, fails, kept, whole, playVars>>

\* Bug: a packet that was captured in part is recorded as if it was complete.
RecordHeaderOrig == <<pkt.orig, pkt.orig>>

\* Captured and original length; the latter is not the packet's.
RecordHeader == <<pkt.len, pkt.len>>

RecordCells == [i \in 1 .. pkt.len |-> pkt.fill]

\* A write that fails may have written part of its bytes, not all.
WriteFails(cells) ==
    /\ fails < MaxFails
    /\ fails' = fails + 1
    /\ \E n \in 0 .. Len(cells) - 1 : file' = file \o SubSeq(cells, 1, n)

\* ingest returns, and Run is in its loop again.
Ingested == fpc' = "top" /\ pkt' = NoPacket /\ block' = NoBlock

\* WritePacket's two writes; ingest ignores their errors.
WriteHeader ==
    /\ fpc = "ingest"
    /\ \/ fpc' = "write" /\ file' = file \o RecordHeader /\ UNCHANGED <<fails, pkt, block>>
       \/ Ingested /\ WriteFails(RecordHeader)
    /\ UNCHANGED <<format, rdLink, ifaceMap, blocks, fcount, fresult, wlink, kept, whole, playVars>>

WriteData ==
    /\ fpc = "write"
    /\ Ingested
    /\ \/ /\ file' = file \o RecordCells /\ UNCHANGED fails
          /\ IF Len(file) = whole + HeaderCells
             THEN kept' = Append(kept, pkt) /\ whole' = Len(file')
             ELSE UNCHANGED <<kept, whole>>
       \/ WriteFails(RecordCells) /\ UNCHANGED <<kept, whole>>
    /\ UNCHANGED <<format, rdLink, ifaceMap, blocks, fcount, fresult, wlink, playVars>>

\* The process is killed.
Crash ==
    /\ fpc \notin {"returned", "panic", "crashed"}
    /\ fpc' = "crashed"
    /\ UNCHANGED <<readVars, writeVars, playVars>>

-----------------------------------------------------------------------------
(* A later process reads the recording: NewReader, then nextClassic.  Of   *)
(* the first process only what it wrote is left.  A recording without a    *)
(* header is an error of Open, and of Run.                                 *)
Unread == Len(file) - ppos

Play ==
    /\ fpc \in {"returned", "panic", "crashed"} /\ ppc = "idle"
    /\ IF wlink = "" THEN ppc' = "end" /\ pend' = "error"
                     ELSE ppc' = "header" /\ UNCHANGED pend
    /\ rdLink' = Ethernet /\ ifaceMap' = <<>> /\ block' = NoBlock /\ pkt' = NoPacket
    /\ fresult' = "none" /\ fails' = 0
    /\ UNCHANGED <<fpc, format, blocks, fcount, wlink, file, kept, whole, ppos, plen, back>>

PlayEnds(r) == ppc' = "end" /\ pend' = r

PlayHeader ==
    /\ ppc = "header"
    /\ LET r == ReadFull(HeaderCells, Unread)
       IN  IF r # "ok" THEN PlayEnds(r) /\ UNCHANGED <<ppos, plen>>
           ELSE IF file[ppos + 1] > MaxData THEN PlayEnds("error") /\ UNCHANGED <<ppos, plen>>
           ELSE /\ plen' = file[ppos + 1] /\ ppos' = ppos + HeaderCells
                /\ ppc' = "data" /\ UNCHANGED pend
    /\ UNCHANGED <<fpc, readVars, writeVars, back>>

PlayData ==
    /\ ppc = "data"
    /\ LET r == ReadFull(plen, Unread)
       IN  IF r # "ok" THEN PlayEnds(r) /\ UNCHANGED <<ppos, back>>
           ELSE /\ back' = Append(back, [link |-> wlink, data |-> SubSeq(file, ppos + 1, ppos + plen)])
                /\ ppos' = ppos + plen
                /\ ppc' = "header" /\ UNCHANGED pend
    /\ UNCHANGED <<fpc, readVars, writeVars, plen>>

ReadStep ==
    \/ OpenFile \/ Top \/ ReadHeaderOf \/ RecordData \/ Interface \/ Enhanced \/ Simple \/ Skip
WriteStep == CreateRecording \/ WriteHeader \/ WriteData
PlayStep == Play \/ PlayHeader \/ PlayData

FileNext == ReadStep \/ WriteStep \/ Crash \/ PlayStep

FileSpec == FileInit /\ [][FileNext]_fileVars

-----------------------------------------------------------------------------
\* What was recorded can be read again: whatever writes fail and wherever the
\* process is killed, playback returns all packets recorded before the first
\* half-written record, as they were and in order; if nothing was left half
\* written it returns no others and ends without an error, unless not even the
\* header was written.  Their link type is the one they had, except that 0 is
\* recorded as Ethernet, and so is whatever a pcapng file holds (engine.go:215-228,
\* writer.go:25-27, 41-63, reader.go:51-72, 144, 167-198).
RecordingReadsBack ==
    /\ \A i \in DOMAIN back \cap DOMAIN kept :
         /\ back[i].data = [j \in 1 .. kept[i].len |-> kept[i].fill]
         /\ \/ back[i].link = kept[i].link
            \/ kept[i].link = NullLink /\ back[i].link = Ethernet
            \/ format = "pcapng" /\ wlink = Ethernet
    /\ ppc = "end" =>
         /\ Len(back) >= Len(kept)
         /\ Len(file) = whole =>
              Len(back) = Len(kept) /\ pend = IF wlink = "" THEN "error" ELSE "eof"

\* Of an enhanced packet block the reader returns no byte that is not in the
\* block, and it panics only for a claim that wraps in the sum with the fixed part
\* (reader.go:241-245).
ClaimsFit ==
    block.type = "epb" =>
        /\ fpc = "ingest" => EpbFixed + pkt.len <= block.len
        /\ fpc = "panic" => EpbFixed + block.claim >= Wrap
=============================================================================
