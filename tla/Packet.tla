------------------------------- MODULE Packet -------------------------------
(***************************************************************************)
(* What the dissectors of package decode share: one captured packet, the   *)
(* cursor that walks it, and the Frame that is filled on the way.          *)
(*                                                                         *)
(* A packet is decided as it is read: only its size is known from the      *)
(* start, and a dissector that reads a field chooses its value.  Values    *)
(* that are read again (a DNS pointer leads back, a ClientHello is walked  *)
(* a second time) are kept in known, so that every read of a byte finds    *)
(* the same value.  A length field claims any of the values of Claims: all *)
(* that point past the end of what is left are the same to the code.       *)
(*                                                                         *)
(* Texts are left out: a layer is its name, offset and length, and of      *)
(* Frame.Meta only the set of its keys is kept.                            *)
(***************************************************************************)
EXTENDS Integers, Sequences

CONSTANTS
    Sizes,          \* the lengths that a captured packet may have
    LinkTypes,      \* the link types of the capture
    Few             \* lengths that a length field may claim, besides the boundaries

ASSUME PacketAssumption == Sizes \subseteq Nat /\ Few \subseteq Nat

VARIABLES
    size,           \* len(data)
    link,           \* linkType
    at,             \* the function, or the loop in it, that is about to run
    pos,            \* offset: where the header that is read begins
    cur,            \* the cursor of a loop inside a header or a payload
    end,            \* where the slice that the loop walks ends
    known,          \* the bytes and fields read so far that may be read again
    layers,         \* Frame.Layers
    protocol,       \* Frame.Protocol
    ipProto,        \* Meta["ip_proto"]
    meta,           \* the other keys of Frame.Meta
    tags            \* Frame.Tags

frameVars == <<layers, protocol, ipProto, meta, tags>>
packetVars == <<size, link, at, pos, cur, end, known, frameVars>>

-----------------------------------------------------------------------------
Min2(a, b) == IF a <= b THEN a ELSE b

\* What a length field may say when rest bytes are left after it.
Claims(rest) == {n \in Few \cup {rest - 1, rest, rest + 1} : n >= 0}

Unread == [o \in {} |-> 0]

\* map with the value found at offset o, if that is not known already.
Noted(map, o, value) ==
    IF o \in DOMAIN map THEN map
    ELSE [p \in DOMAIN map \cup {o} |-> IF p = o THEN value ELSE map[p]]

\* The values that a read at offset o may find.
Field(o, values) == IF o \in DOMAIN known THEN {known[o]} ELSE values

\* The step indexes its slice up to upto (exclusive): Go panics when that is
\* past the slice's end.
Proceed(next, upto, limit) == at' = IF upto <= limit THEN next ELSE "panic"

\* addLayer
AddLayer(name, off, n) == layers' = Append(layers, [name |-> name, off |-> off, len |-> n])

PacketInit ==
    /\ size \in Sizes /\ link \in LinkTypes
    /\ at = "dissect" /\ pos = 0 /\ cur = 0 /\ end = 0
    /\ known = Unread
    /\ layers = <<>> /\ protocol = "" /\ ipProto = "" /\ meta = {} /\ tags = {}

\* The last layer takes all that is left, and the dissection ends.
LastLayer(name, proto) ==
    /\ AddLayer(name, pos, size - pos)
    /\ protocol' = proto
    /\ at' = "finish"

\* The end of Dissect: topProtocol names a frame that no dissector has named.
Finish ==
    /\ at = "finish"
    /\ at' = "done"
    /\ protocol' = IF protocol # "" THEN protocol
                   ELSE IF layers = <<>> THEN "Unknown"
                   ELSE layers[Len(layers)].name
    /\ UNCHANGED <<size, link, pos, cur, end, known, layers, ipProto, meta, tags>>
=============================================================================
